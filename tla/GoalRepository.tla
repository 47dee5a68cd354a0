---------------------------- MODULE GoalRepository ----------------------------
(***************************************************************************)
(* SqliteGoalRepository as a state machine: every public transaction is an *)
(* action, and sessions, wakes, host receipts, tasks and time interleave   *)
(* freely between transactions.                                            *)
(***************************************************************************)
EXTENDS Continuation

WorkerStep(s, g) ==
    \E tok \in TokensOf(s, g) :
        \/ \E T \in SUBSET Started, release \in BOOLEAN : Checkpoint(g, s, tok, T, release)
        \/ \E st \in TerminalStatuses \ {"cancelled"} : Finish(g, s, tok, revision[g], st, now)
        \/ \E T \in SUBSET Started, occ \in PrepareOccurrences, d \in FirstDelays :
                Prepare(g, s, tok, T, occ, d) \/ Refresh(g, s, tok, T, occ, d)
        \/ \E k \in DOMAIN rows[g], lead \in ExpediteLeads : Expedite(g, k, s, tok, lead)
        \/ \E c \in Calls : BeginCall(c, g, s, tok)

AcquireStep(s, g) ==
    \E term \in LeaseTerms :
        \/ Create(g, s, term)
        \/ AcquireFree(g, s, term)
        \/ AcquireStale(g, s, term)
        \/ RecoverBlocked(g, s, term)

OwnerStep(g) ==
    \/ Cancel(g)
    \/ CancelAgain(g)
    \/ SetIdlePolicy(g)
    \/ MarkFinished(g, now)
    \/ \E k \in DOMAIN rows[g] : CancelContinuation(g, k)

ReceiptStep(g, k) ==
    \/ ReceiveCreated(g, k)
    \/ \E m \in RunModes :
        \/ ReceiveRescheduled(g, k, m)
        \/ \E out \in Outcomes : ReceiveRetimeUnsettled(g, k, out, m)
        \/ ReceiveConsumed(g, k, m)
        \/ ReceiveCancelled(g, k, m)
        \/ \E out \in Outcomes : ReceiveCancelUnsettled(g, k, out, m)
        \/ \E out \in Outcomes, named \in BOOLEAN : ReceiveCreateUnsettled(g, k, out, named, m)

WakeStep(s, g, k) ==
    \/ ClaimUntimely(g, k)
    \/ ClaimTerminal(g, k)
    \/ ClaimRecurringCleanup(g, k)
    \/ ClaimCollision(s, g, k)
    \/ ClaimRecurringBusy(s, g, k)
    \/ \E term \in LeaseTerms :
        \/ ClaimTakeover(s, g, k, term)
        \/ ClaimRetired(g, k, term)
        \/ ClaimRecurringTakeover(s, g, k, term)

EvidenceStep(s) ==
    \/ \E g \in Goals : ReadGoal(s, g) \/ Reconcile(g, s)
    \/ ObserveFence(s)
    \/ \E doubt \in BOOLEAN : ReadTasks(s, doubt)
    \/ DropEvidence(s)

CallStep == \E c \in calls : HeartbeatCall(c) \/ EndCall(c)

EnvStep == Tick \/ \E t \in Tasks : TaskStep(t)

Next ==
    \/ \E g \in Goals, s \in Sessions : WorkerStep(s, g) \/ AcquireStep(s, g)
    \/ \E g \in Goals : OwnerStep(g) \/ \E k \in DOMAIN rows[g] : ReceiptStep(g, k)
    \/ \E g \in Goals, s \in Sessions : \E k \in DOMAIN rows[g] : WakeStep(s, g, k)
    \/ \E s \in Observers : EvidenceStep(s)
    \/ CallStep
    \/ EnvStep

Spec == Init /\ [][Next]_vars

-----------------------------------------------------------------------------
(* Safety. *)

\* Every acquisition (run_goal, a wake claim, blocked recovery) hands out a
\* token under a generation of its own: generations of the tokens of a goal
\* are strictly increasing.
GenerationsDistinct ==
    \A g \in Goals : \A i, j \in DOMAIN issued[g] :
        i < j => issued[g][i].generation < issued[g][j].generation

\* A held lease was granted by the newest token, in the current generation and
\* to the session it names: no older token is ever accepted again.
NewestTokenHolds ==
    \A g \in Goals :
        /\ lease[g].token # 0 =>
             /\ lease[g].token = Len(issued[g])
             /\ issued[g][lease[g].token].session = lease[g].session
             /\ issued[g][lease[g].token].generation = generation[g]
        /\ \A i \in DOMAIN issued[g] : issued[g][i].generation <= generation[g]

Fencing == GenerationsDistinct /\ NewestTokenHolds

\* A goal that is not active holds no lease (validateLeaseState would reject
\* the row as corrupt), and a lease is present with all its columns or none.
LeaseColumns ==
    \A g \in Goals :
        /\ status[g] # "active" => lease[g] = NoLease
        /\ lease[g].token = 0 => lease[g] = NoLease
        /\ lease[g].token # 0 => lease[g].term > 0 /\ lease[g].heartbeat > 0

\* A worker that lost its lease drains: a fenced call of an older generation
\* cannot outlive the hand-over by more than one call lease, because no
\* heartbeat of it succeeds after the next generation was granted.
SupersededCallsDrain ==
    \A c \in calls : c.generation < generation[c.goal] =>
        \E i \in DOMAIN issued[c.goal] :
            /\ issued[c.goal][i].generation > c.generation
            /\ c.expires <= issued[c.goal][i].at + CallLease

\* A cancelled goal has no open fenced call: cancel and reconcile close them
\* and no later transaction reopens or admits one.
CancelledIsQuiet ==
    \A c \in calls : status[c.goal] # "cancelled"

\* A claimed one-time wake has a successor row that was reserved with the
\* claim, so an active goal never loses its future wake by firing one.
ClaimedHasSuccessor ==
    \A g \in Goals : \A k \in DOMAIN rows[g] :
        rows[g][k].status = "claimed" => k + 1 \in DOMAIN rows[g] /\ rows[g][k + 1].pred = k

\* A row of status reschedule_* has a native task and a pending time (the CHECK
\* constraint of goal_scheduled_continuations): no transaction has to be
\* rejected by it.
RetimeIsBound ==
    \A g \in Goals : \A k \in DOMAIN rows[g] :
        rows[g][k].status \in RetimeStatuses => rows[g][k].native /\ rows[g][k].pending # 0

\* At most one active goal of a workspace owns a schedule: prepare refuses a
\* second owner and getWorkspaceMutationFence fails on one.
OneScheduledOwner == Cardinality(ScheduledOwners) <= 1

-----------------------------------------------------------------------------
(* Action properties: what a hand-over may not do. *)

\* Nobody writes under the current generation of g: no live fenced call and no
\* running tracked task.
NoWriter(g) == LiveCalls(g) = {} /\ \A t \in tasks[g] : task[t] # "running"

\* A lease changes hands behind its worker's back only when that worker is gone,
\* although the evidence was collected some steps earlier: an unexpired one
\* (acquire, stale recovery), and one a wake takes over, expired or not, as a
\* fenced call may outlive its lease (claimScheduledContinuation).
TakeoverIsQuiet ==
    [][\A g \in Goals :
          (/\ generation'[g] # generation[g]
           /\ \/ IsActive(g) /\ Held(g, now)
              \/ rows'[g] # rows[g] \/ runs'[g] # runs[g]) => NoWriter(g)]_vars

\* A goal is ended or reopened behind its worker's back only when there is no
\* worker.  Reconciliation ends an abandoned goal only: nobody writes and no
\* wake is outstanding when it commits (reconcile_goals).  Only a blocked goal
\* is ever reopened, and then no task any checkpoint of the goal tracked is
\* still running, no call is live and no wake outstanding.
TurnsAreQuiet ==
    [][\A g \in Goals :
          /\ (IsActive(g) /\ status'[g] = "cancelled" /\ obs' # obs) =>
                NoWriter(g) /\ ~Held(g, now) /\ ~HasLive(g)
          /\ (status[g] \in TerminalStatuses /\ status'[g] # status[g]) =>
                /\ status[g] = "blocked" /\ status'[g] = "active"
                /\ LiveCalls(g) = {} /\ ~HasLive(g)
                /\ \A t \in ever[g] : task[t] # "running"]_vars

\* After a failed retime the host keeps the original time: the lease is renewed
\* up to it, never up to the time that was only attempted (the comment of
\* mutationFenceDueAt).
NoPhantomFence ==
    [][\A g \in Goals : \A k \in DOMAIN rows[g] :
          (/\ IsLatestLive(g, k) /\ rows[g][k].occ = "once"
           /\ rows[g][k].status = "reschedule_failed" /\ rows'[g][k] = rows[g][k]
           /\ lease'[g].token = lease[g].token /\ lease'[g].expires # lease[g].expires)
          => lease'[g].expires = Min2(now + lease[g].term, rows[g][k].due)]_vars

-----------------------------------------------------------------------------
(* The repository implements the abstract lease. *)

Standing(st) == CASE st \in {"absent", "active", "blocked"} -> st
                  [] OTHER -> "ended"

Authority == INSTANCE WorkerAuthority WITH
    Nobody <- NoSession,
    standing <- [g \in Goals |-> Standing(status[g])],
    epoch <- generation,
    holder <- [g \in Goals |-> lease[g].session],
    writers <- {[id |-> c.id, goal |-> c.goal, epoch |-> c.generation] : c \in calls}

\* Every transaction of the repository, seen through the lease columns and the
\* fence table, is a hand-over, a release, an end, an admission or nothing:
\* the holder never changes without a new generation, a completed, failed or
\* cancelled goal is never led again, and no call is admitted under an old
\* generation.
ImplementsAuthority == Authority!Spec

=============================================================================
