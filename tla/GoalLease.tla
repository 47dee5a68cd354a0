------------------------------ MODULE GoalLease ------------------------------
(***************************************************************************)
(* The transactions of SqliteGoalRepository on the goal row: acquisition,  *)
(* checkpoint, termination, recovery, and the fenced mutation calls that   *)
(* renew the lease.  Each action is one BEGIN IMMEDIATE ... COMMIT; a call *)
(* that throws rolls back, so only the successful outcome is a step.       *)
(***************************************************************************)
EXTENDS GoalState

\* acquire, first branch: the goal does not exist yet.
Create(g, s, term) ==
    /\ status[g] = "absent"
    /\ status' = [status EXCEPT ![g] = "active"]
    /\ Grant(g, s, term, now + term)
    /\ UNCHANGED <<now, revision, tasks, ever, rows, calls, runs, obs, task>>

\* acquire of an active goal whose lease is absent or expired.
AcquireFree(g, s, term) ==
    /\ IsActive(g)
    /\ ~Held(g, now)
    /\ Grant(g, s, term, now + term)
    /\ UNCHANGED <<now, status, revision, tasks, ever, rows, calls, runs, obs, task>>

\* acquire of a lease that has not expired, on evidence that its worker is gone.
AcquireStale(g, s, term) ==
    \E e \in obs[s] :
        /\ IsActive(g)
        /\ Held(g, now)
        /\ StaleRecovery(g, e, HasLive(g))
        /\ Grant(g, s, term, now + term)
        /\ obs' = [obs EXCEPT ![s] = {}]
        /\ UNCHANGED <<now, status, revision, tasks, ever, rows, calls, runs, task>>

\* setIdleGoalPonytailModeForHost: the desktop changes a policy column of a
\* goal nobody works on (the mode itself is not modelled).
SetIdlePolicy(g) ==
    /\ IsActive(g)
    /\ ~Held(g, now)
    /\ ~HasLive(g)
    /\ LiveCalls(g) = {}
    /\ revision[g] < MaxRevision
    /\ revision' = [revision EXCEPT ![g] = @ + 1]
    /\ UNCHANGED <<now, status, lease, generation, seq, tasks, ever, rows, calls,
                   runs, issued, obs, task>>

\* The expiry a checkpoint writes: capped by the live one-time wake, if any.
CheckpointExpiry(g, natural) ==
    IF \E k \in LiveIn(rows[g]) : IsLatestLive(g, k) /\ rows[g][k].occ = "once"
    THEN Min2(natural, EffectiveDue(rows[g][CHOOSE k \in LiveIn(rows[g]) : IsLatestLive(g, k)]))
    ELSE natural

\* checkpoint, with releaseLease or without; T is the new set of tracked tasks.
Checkpoint(g, s, tok, T, release) ==
    /\ MutableLease(g, s, tok, now)
    /\ revision[g] < MaxRevision /\ seq[g] < MaxSeq
    /\ revision' = [revision EXCEPT ![g] = @ + 1]
    /\ seq' = [seq EXCEPT ![g] = @ + 1]
    /\ tasks' = [tasks EXCEPT ![g] = T]
    /\ ever' = [ever EXCEPT ![g] = @ \cup T]
    /\ lease' = IF release THEN [lease EXCEPT ![g] = NoLease]
                ELSE Renewed(g, CheckpointExpiry(g, now + lease[g].term))
    /\ UNCHANGED <<now, status, generation, rows, calls, runs, issued, obs, task>>

\* assertCompletionReady: of the readiness facts only the tracked blocking
\* tasks are state here; plan, acceptance and gates are the caller's to meet.
CompletionReady(g, st) == st = "completed" => tasks[g] = {}

\* Mutant of Terminate: the lease columns are left in place.
TerminateKeepsLease(g, st) ==
    /\ revision[g] < MaxRevision
    /\ status' = [status EXCEPT ![g] = st]
    /\ revision' = [revision EXCEPT ![g] = @ + 1]
    /\ tasks' = [tasks EXCEPT ![g] = {}]
    /\ UNCHANGED lease

\* The columns every terminal transition clears.
Terminate(g, st) ==
    /\ revision[g] < MaxRevision
    /\ status' = [status EXCEPT ![g] = st]
    /\ revision' = [revision EXCEPT ![g] = @ + 1]
    /\ tasks' = [tasks EXCEPT ![g] = {}]
    /\ lease' = [lease EXCEPT ![g] = NoLease]

\* finish; the request samples its clock once, at the start of finish_goal.
Finish(g, s, tok, rev, st, at) ==
    /\ MutableLease(g, s, tok, at)
    /\ revision[g] = rev
    /\ CompletionReady(g, st)
    /\ Terminate(g, st)
    /\ UNCHANGED <<now, generation, seq, ever, rows, calls, runs, issued, obs, task>>

\* cancel; the final checkpoint repeats tracked tasks that ever already holds.
Cancel(g) ==
    /\ IsActive(g)
    /\ Terminate(g, "cancelled")
    /\ calls' = WithoutCallsOf(g)
    /\ UNCHANGED <<now, generation, seq, ever, rows, runs, issued, obs, task>>

\* cancel of a goal already cancelled closes any fenced call left open.
CancelAgain(g) ==
    /\ status[g] = "cancelled"
    /\ calls' = WithoutCallsOf(g)
    /\ UNCHANGED <<now, status, revision, lease, generation, seq, tasks, ever, rows,
                   runs, issued, obs, task>>

\* The goal is as the request read it: revision, generation and activity.
UnchangedSince(g, e) ==
    /\ revision[g] = e.revision
    /\ generation[g] = e.generation /\ e.seenGeneration = e.generation
    /\ seq[g] = e.seq /\ e.seenSeq = e.seq

\* No live call and no task that is running or in doubt was observed.
SeenIdle(e) == e.quiet /\ e.listed \subseteq e.idle

\* reconcile_goals: cancels an abandoned goal on the revision, generation and
\* activity read before its evidence was collected, at the time of that read.
Reconcile(g, s) ==
    \E e \in obs[s] :
        /\ e.goal = g /\ Sampled(e) /\ IsActive(g)
        /\ UnchangedSince(g, e)
        /\ SeenIdle(e)
        /\ ~Held(g, e.since)
        /\ ~HasLive(g)
        /\ Terminate(g, "cancelled")
        /\ calls' = WithoutCallsOf(g)
        /\ obs' = [obs EXCEPT ![s] = {}]
        /\ UNCHANGED <<now, generation, seq, ever, rows, runs, issued, task>>

\* Mutant of HistoryIdle: only the tasks tracked now are checked, and a
\* blocked goal tracks none.
TrackedIdle(g, e) == tasks[g] \subseteq e.idle
\* Every blocking task of any checkpoint was seen terminal or absent.
HistoryIdle(g, e) == ever[g] \subseteq e.idle

\* recoverBlocked: a terminal blocked goal is reopened under a new lease.
RecoverBlocked(g, s, term) ==
    \E e \in obs[s] :
        /\ status[g] = "blocked"
        /\ revision[g] = e.revision
        /\ ~HasLive(g)
        /\ EvidenceMatches(g, e)
        /\ e.quiet /\ now - e.at <= EvidenceFresh
        /\ HistoryIdle(g, e)
        /\ revision[g] < MaxRevision
        /\ status' = [status EXCEPT ![g] = "active"]
        /\ revision' = [revision EXCEPT ![g] = @ + 1]
        /\ Grant(g, s, term, now + term)
        /\ obs' = [obs EXCEPT ![s] = {}]
        /\ UNCHANGED <<now, tasks, ever, rows, calls, runs, task>>

-----------------------------------------------------------------------------
(* Fenced mutation calls. *)

\* beginGoalFencedMutation: whoever presents the current token and generation
\* before the hand-off deadline; the admission renews the lease.
BeginCall(c, g, s, tok) ==
    \E k \in DOMAIN rows[g] :
        /\ IsActive(g)
        /\ lease[g].token = tok /\ generation[g] = issued[g][tok].generation
        /\ Held(g, now)
        /\ IsLatestFence(g, k)
        /\ BeforeHandoff(rows[g][k])
        /\ seq[g] < MaxSeq
        /\ \A x \in calls : x.id # c
        /\ calls' = calls \cup {[id |-> c, goal |-> g, generation |-> generation[g],
                                 expires |-> now + CallLease]}
        /\ seq' = [seq EXCEPT ![g] = @ + 1]
        /\ lease' = Renewed(g, Capped(now + lease[g].term, FenceDue(rows[g][k])))
        /\ UNCHANGED <<now, status, revision, generation, tasks, ever, rows, runs,
                       issued, obs, task>>

\* Mutant of CallIsCurrent: a call of any generation may be renewed.
CallIsAny(c) == TRUE
CallIsCurrent(c) == generation[c.goal] = c.generation

\* heartbeatGoalFencedMutation: renews the call and the lease it runs under.
HeartbeatCall(c) ==
    \E g \in Goals : \E k \in DOMAIN rows[g] :
        /\ c.goal = g
        /\ IsActive(g) /\ CallIsCurrent(c)
        /\ Held(g, now)
        /\ IsLatestFence(g, k)
        /\ BeforeHandoff(rows[g][k])
        /\ seq[g] < MaxSeq
        /\ calls' = (calls \ {c}) \cup {[c EXCEPT !.expires = now + CallLease]}
        /\ seq' = [seq EXCEPT ![g] = @ + 1]
        /\ lease' = Renewed(g, Capped(now + lease[g].term, FenceDue(rows[g][k])))
        /\ UNCHANGED <<now, status, revision, generation, tasks, ever, rows, runs,
                       issued, obs, task>>

\* endGoalFencedMutation
EndCall(c) ==
    /\ calls' = calls \ {c}
    /\ UNCHANGED <<now, status, revision, lease, generation, seq, tasks, ever, rows,
                   runs, issued, obs, task>>

-----------------------------------------------------------------------------
(* Evidence gathering by run_goal, claim, reconcile and blocked recovery. *)

\* The request reads the goal and the tasks it will ask about: those tracked
\* now, or for a blocked goal those of every checkpoint.
ReadGoal(s, g) ==
    /\ obs[s] = {}
    /\ status[g] \in {"active", "blocked"}
    /\ obs' = [obs EXCEPT ![s] =
                {[goal |-> g, revision |-> revision[g], generation |-> generation[g],
                  seq |-> seq[g], since |-> now,
                  listed |-> IF status[g] = "blocked" THEN ever[g] ELSE tasks[g],
                  stage |-> "goal", seenGeneration |-> 0, seenSeq |-> 0, at |-> 0,
                  quiet |-> FALSE, idle |-> {}]}]
    /\ UNCHANGED <<now, status, revision, lease, generation, seq, tasks, ever, rows,
                   calls, runs, issued, task>>

\* observe, first part: samples the fence table (observeGoalFencedMutations).
ObserveFence(s) ==
    \E e \in obs[s] :
        /\ e.stage = "goal"
        /\ obs' = [obs EXCEPT ![s] =
                    {[e EXCEPT !.stage = "fence", !.seenGeneration = generation[e.goal],
                               !.seenSeq = seq[e.goal], !.at = now,
                               !.quiet = LiveCalls(e.goal) = {}]}]
        /\ UNCHANGED <<now, status, revision, lease, generation, seq, tasks, ever, rows,
                       calls, runs, issued, task>>

\* observe, second part: asks for the state of each listed task.  A task that
\* cannot be read in time, or a live or unreadable workspace writer, leaves
\* doubt.
ReadTasks(s, doubt) ==
    \E e \in obs[s] :
        /\ e.stage = "fence"
        /\ obs' = [obs EXCEPT ![s] =
                    {[e EXCEPT !.stage = "tasks", !.quiet = e.quiet /\ ~doubt,
                               !.idle = {t \in e.listed : task[t] # "running"}]}]
        /\ UNCHANGED <<now, status, revision, lease, generation, seq, tasks, ever, rows,
                       calls, runs, issued, task>>

\* The request returns without a write: an early return, a failed check or a
\* lost connection.
DropEvidence(s) ==
    /\ obs[s] # {}
    /\ obs' = [obs EXCEPT ![s] = {}]
    /\ UNCHANGED <<now, status, revision, lease, generation, seq, tasks, ever, rows,
                   calls, runs, issued, task>>

-----------------------------------------------------------------------------
(* The environment: time and managed tasks (external). *)

Tick ==
    /\ now < MaxTime
    /\ now' = now + 1
    /\ UNCHANGED <<status, revision, lease, generation, seq, tasks, ever, rows, calls,
                   runs, issued, obs, task>>

TaskStep(t) ==
    /\ \/ task[t] = "new" /\ task' = [task EXCEPT ![t] = "running"]
       \/ task[t] = "running" /\ task' = [task EXCEPT ![t] = "ended"]
    /\ UNCHANGED <<now, status, revision, lease, generation, seq, tasks, ever, rows,
                   calls, runs, issued, obs>>

\* Task identities come from starting a task, so only started ones are tracked.
Started == {t \in Tasks : task[t] # "new"}

=============================================================================
