------------------------------ MODULE GoalState ------------------------------
(***************************************************************************)
(* The durable state of SqliteGoalRepository (goals, scheduled             *)
(* continuations, fenced mutation calls, recurring run ledger) and the     *)
(* queries its transactions are built from.  GoalLease and Continuation    *)
(* hold the transactions, GoalRepository the specification.                *)
(*                                                                         *)
(* One clock tick stands for one minute.  A column that may be NULL is 0   *)
(* here: the clock starts at 1 and tokens are numbered from 1.  All        *)
(* callers are the one owner client; assertOwner rejects the others        *)
(* without a write.                                                        *)
(***************************************************************************)
EXTENDS Integers, Sequences, FiniteSets

CONSTANTS
    Goals,               \* goals of one workspace
    Sessions,            \* MCP sessions of the owner client
    Observers,           \* the sessions whose requests gather evidence
    Calls,               \* identities of concurrently open fenced mutations
    Tasks,               \* blocking managed tasks the goals may track
    LeaseTerms,          \* lease lengths callers ask for
    CallLease,           \* life of a fenced call without a heartbeat
    StaleGrace,          \* RUN_GOAL_STALE_RECOVERY_GRACE_SECONDS
    ProbeMin,            \* ORPHAN_PROBE_MIN_SECONDS
    EvidenceFresh,       \* age limit of blocked-recovery evidence
    EarlyTolerance,      \* how early a native wake may fire
    ClaimMin,            \* CLAIM_SUCCESSOR_MIN_SECONDS
    CollisionMin,        \* COLLISION_SUCCESSOR_MIN_SECONDS
    CollisionMax,        \* COLLISION_SUCCESSOR_MAX_SECONDS
    ExpediteLeads,       \* leads an expedite may ask for
    Interval,            \* period of a recurring watchdog
    FirstDelays,         \* delay to the first firing of a prepared wake
    PrepareOccurrences,  \* occurrences callers prepare: "interval", legacy "once"
    Outcomes,            \* receipt outcomes the host reports in this instance
    RunModes,            \* run modes reported with them
    MaxTime, MaxRevision, MaxGeneration, MaxSeq, MaxRows, MaxVersion \* bounds

ReceiptOutcomes == {"created", "create_failed", "create_uncertain", "rescheduled",
                    "reschedule_failed", "reschedule_uncertain", "consumed",
                    "cancelled", "cancel_failed", "cancel_uncertain"}
NoSession == "none"

ASSUME SetsAssumption ==
    /\ IsFiniteSet(Goals) /\ IsFiniteSet(Calls) /\ IsFiniteSet(Tasks)
    /\ Observers \subseteq Sessions
    /\ NoSession \notin Sessions
    /\ PrepareOccurrences \subseteq {"once", "interval"}
    /\ Outcomes \subseteq ReceiptOutcomes
    /\ RunModes \subseteq {"omitted", "hosted", "local"}

ASSUME TimesAssumption ==
    /\ LeaseTerms \subseteq Nat \ {0}
    /\ FirstDelays \subseteq Nat \ {0}
    /\ ExpediteLeads \subseteq Nat \ {0}
    /\ CallLease \in Nat \ {0}
    /\ StaleGrace \in Nat
    /\ ProbeMin \in Nat
    /\ EvidenceFresh \in Nat
    /\ EarlyTolerance \in Nat
    /\ ClaimMin \in Nat \ {0}
    /\ CollisionMin \in Nat \ {0}
    /\ CollisionMax \in Nat \ {0}
    /\ Interval \in Nat \ {0}

ASSUME BoundsAssumption ==
    /\ MaxTime \in Nat
    /\ MaxRevision \in Nat
    /\ MaxGeneration \in Nat
    /\ MaxSeq \in Nat
    /\ MaxRows \in Nat
    /\ MaxVersion \in Nat

VARIABLES
    now,         \* the clock
    status,      \* goals.status; "absent" before run_goal inserts the row
    revision,    \* goals.revision
    lease,       \* the six lease columns
    generation,  \* goals.lease_generation
    seq,         \* goals.lease_activity_seq
    tasks,       \* goals.tracked_tasks_json, blocking jobs only
    ever,        \* blocking jobs of every row of goal_checkpoints
    rows,        \* goal_scheduled_continuations, indexed by generation
    calls,       \* goal_fenced_mutation_calls with completed_at IS NULL
    runs,        \* goal_scheduled_continuation_runs
    issued,      \* every lease token handed out, oldest first
    obs,         \* evidence held by a request between its read and its commit
    task         \* state of each managed task

goalVars == <<status, revision, lease, generation, seq, tasks, ever, issued>>
scheduleVars == <<rows, runs>>
vars == <<now, status, revision, lease, generation, seq, tasks, ever, rows,
          calls, runs, issued, obs, task>>

Min2(a, b) == IF a <= b THEN a ELSE b
Max2(a, b) == IF a >= b THEN a ELSE b

-----------------------------------------------------------------------------
(* Record types. *)

GoalStatuses == {"absent", "active", "completed", "failed", "blocked", "cancelled"}
TerminalStatuses == {"completed", "failed", "blocked", "cancelled"}

CancelStatuses == {"cancel_required", "cancel_failed", "cancel_uncertain"}
RetimeStatuses == {"reschedule_required", "reschedule_failed", "reschedule_uncertain"}
FenceStatuses == {"prepared", "scheduled", "create_uncertain"} \cup RetimeStatuses
LiveStatuses == FenceStatuses \cup CancelStatuses
HistoricalStatuses == {"create_failed", "claimed", "terminal_noop", "superseded", "cancelled"}
UnconfirmedStatuses == {"prepared", "create_failed", "create_uncertain"}
RunOutcomes == {"acquired", "orphan_recovered", "worker_busy_noop", "terminal_cleanup_required"}

NoLease == [session |-> NoSession, token |-> 0, term |-> 0, heartbeat |-> 0, expires |-> 0]
NoProbe == [at |-> 0, generation |-> 0, seq |-> 0]

Lease == [session : Sessions \cup {NoSession}, token : Nat, term : Nat,
          heartbeat : Nat, expires : Nat]
Probe == [at : Nat, generation : Nat, seq : Nat]
Row == [status : LiveStatuses \cup HistoricalStatuses, occ : {"once", "interval"},
        due : Nat, pending : Nat, native : BOOLEAN, confirmed : BOOLEAN,
        pred : Nat, version : Nat, retimes : Nat, probe : Probe]
Call == [id : Calls, goal : Goals, generation : Nat, expires : Nat]
Run == [row : Nat, key : Nat, outcome : RunOutcomes, generation : Nat]
Token == [session : Sessions, generation : Nat, at : Nat]
Evidence == [goal : Goals, revision : Nat, generation : Nat, seq : Nat, since : Nat,
             listed : SUBSET Tasks, stage : {"goal", "fence", "tasks"}, seenGeneration : Nat,
             seenSeq : Nat, at : Nat, quiet : BOOLEAN, idle : SUBSET Tasks]

\* Every column holds a value of its kind; a violation would be a row that
\* toGoalRecord or toScheduledContinuationRecord rejects as corrupt.
TypeOK ==
    /\ now \in Nat \ {0}
    /\ status \in [Goals -> GoalStatuses]
    /\ revision \in [Goals -> Nat]
    /\ lease \in [Goals -> Lease]
    /\ generation \in [Goals -> Nat]
    /\ seq \in [Goals -> Nat]
    /\ tasks \in [Goals -> SUBSET Tasks]
    /\ ever \in [Goals -> SUBSET Tasks]
    /\ rows \in [Goals -> Seq(Row)]
    /\ calls \in SUBSET Call
    /\ runs \in [Goals -> SUBSET Run]
    /\ issued \in [Goals -> Seq(Token)]
    /\ obs \in [Sessions -> SUBSET Evidence]
    /\ task \in [Tasks -> {"new", "running", "ended"}]

Init ==
    /\ now = 1
    /\ status = [g \in Goals |-> "absent"]
    /\ revision = [g \in Goals |-> 0]
    /\ lease = [g \in Goals |-> NoLease]
    /\ generation = [g \in Goals |-> 0]
    /\ seq = [g \in Goals |-> 0]
    /\ tasks = [g \in Goals |-> {}]
    /\ ever = [g \in Goals |-> {}]
    /\ rows = [g \in Goals |-> <<>>]
    /\ calls = {}
    /\ runs = [g \in Goals |-> {}]
    /\ issued = [g \in Goals |-> <<>>]
    /\ obs = [s \in Sessions |-> {}]
    /\ task = [t \in Tasks |-> "new"]

-----------------------------------------------------------------------------
(* Queries and small updates shared by the transactions. *)

IsActive(g) == status[g] = "active"
Held(g, at) == lease[g].expires > at

\* assertMutableLease: session s presents token tok at time at.
MutableLease(g, s, tok, at) ==
    /\ IsActive(g)
    /\ lease[g].session = s
    /\ lease[g].token = tok
    /\ Held(g, at)

\* The tokens session s has ever been given for g; a worker keeps using one
\* after it was replaced.
TokensOf(s, g) == {i \in DOMAIN issued[g] : issued[g][i].session = s}

LiveIn(rs) == {k \in DOMAIN rs : rs[k].status \in LiveStatuses}
HasLive(g) == LiveIn(rows[g]) # {}
\* selectLiveScheduledContinuation: the live row of the highest generation.
IsLatestLive(g, k) == k \in LiveIn(rows[g]) /\ \A j \in LiveIn(rows[g]) : j <= k
\* selectMutationFenceContinuation, likewise over the fence statuses.
FenceIn(rs) == {k \in DOMAIN rs : rs[k].status \in FenceStatuses}
IsLatestFence(g, k) == k \in FenceIn(rows[g]) /\ \A j \in FenceIn(rows[g]) : j <= k
\* idx_goal_scheduled_continuations_one_live: a transaction that would leave
\* two live rows fails and rolls back.
IndexAdmits(rs) == \A j, k \in LiveIn(rs) : j = k

\* selectActiveScheduledGoalId finds an active goal with a live row.
ScheduledOwners == {g \in Goals : IsActive(g) /\ HasLive(g)}

EffectiveDue(r) == IF r.pending # 0 THEN r.pending ELSE r.due
\* mutationFenceDueAt; 0 when the fence has no hand-off deadline.
FenceDue(r) == IF r.occ = "interval" THEN 0
               ELSE IF r.status = "reschedule_failed" THEN r.due
               ELSE EffectiveDue(r)
BeforeHandoff(r) == FenceDue(r) = 0 \/ FenceDue(r) > now
Capped(natural, limit) == IF limit = 0 THEN natural ELSE Min2(natural, limit)

Moved(r, st) == [r EXCEPT !.status = st, !.version = @ + 1]
NewRow(occ, due, pred) ==
    [status |-> "prepared", occ |-> occ, due |-> due, pending |-> 0, native |-> FALSE,
     confirmed |-> FALSE, pred |-> pred, version |-> 0, retimes |-> 0, probe |-> NoProbe]
WithRow(g, k, r) == [rows[g] EXCEPT ![k] = r]

\* Fenced calls of the current generation that are still alive
\* (observeGoalFencedMutations, setIdleGoalPonytailModeForHost).
LiveCalls(g) == {c \in calls : c.goal = g /\ c.generation = generation[g] /\ c.expires > now}
\* Mutant of WithoutCallsOf: open fenced calls are not closed.
AllCalls(g) == calls
WithoutCallsOf(g) == {c \in calls : c.goal # g}

\* The lease columns after a renewal, and after a cap at a wake's due time.
Renewed(g, expires) == [lease EXCEPT ![g] = [@ EXCEPT !.heartbeat = now, !.expires = expires]]
CutAt(g, due) == IF lease[g].token = 0 THEN lease
                 ELSE [lease EXCEPT ![g] = [@ EXCEPT !.expires = Min2(lease[g].expires, due)]]

\* Mutant of NextGeneration: the generation is not advanced.
SameGeneration(g) == generation[g]
NextGeneration(g) == generation[g] + 1
\* The lease columns every acquisition writes: a fresh token, the next
\* generation, activity restarted.
Grant(g, s, term, expires) ==
    /\ generation[g] < MaxGeneration
    /\ generation' = [generation EXCEPT ![g] = NextGeneration(g)]
    /\ seq' = [seq EXCEPT ![g] = 0]
    /\ issued' = [issued EXCEPT ![g] =
                    Append(@, [session |-> s, generation |-> NextGeneration(g), at |-> now])]
    /\ lease' = [lease EXCEPT ![g] =
                    [session |-> s, token |-> Len(issued[g]) + 1, term |-> term,
                     heartbeat |-> now, expires |-> expires]]

-----------------------------------------------------------------------------
(* Worker-liveness evidence.  A request reads the goal, then samples the   *)
(* fence table, then the task states, and only later commits; everything   *)
(* may change in between.                                                  *)

Sampled(e) == e.stage = "tasks"

\* Mutant of EvidenceMatches: the activity sequence is not compared.
EvidenceOfGeneration(g, e) ==
    Sampled(e) /\ e.goal = g /\ e.seenGeneration = generation[g]
\* EvidenceMatches: the CAS on lease generation and activity sequence.
EvidenceMatches(g, e) ==
    Sampled(e) /\ e.goal = g /\ e.seenGeneration = generation[g] /\ e.seenSeq = seq[g]
\* Mutant of ConfirmedInactive: only fenced calls are looked at.
NoLiveCallSeen(g, e) == e.quiet
\* Every task tracked now was listed and seen terminal or absent.
ConfirmedInactive(g, e) == e.quiet /\ tasks[g] \subseteq e.idle

\* assessStaleGoalLeaseRecovery
StaleRecovery(g, e, watched) ==
    /\ EvidenceMatches(g, e)
    /\ ConfirmedInactive(g, e)
    /\ watched => now - lease[g].heartbeat >= StaleGrace

=============================================================================
