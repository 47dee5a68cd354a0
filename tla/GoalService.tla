----------------------------- MODULE GoalService -----------------------------
(***************************************************************************)
(* finish_goal and cancel_goal are not one transaction: the service walks  *)
(* from validation over the cleanup of the native task to the terminal     *)
(* transition and the abort of requests in flight.  This module composes   *)
(* the repository with these walks, with the registry of running requests, *)
(* with a native task host that tells the truth but whose receipts are     *)
(* late, lost or repeated, and with a crash of the server process.         *)
(***************************************************************************)
EXTENDS GoalRepository

CONSTANT MayCrash  \* whether the server process may crash in this instance

ASSUME CrashAssumption == MayCrash \in BOOLEAN

VARIABLES
    flow,   \* the finish or cancel request each session has under way
    tombs,  \* cancelledGoals of GoalRequestCancellationService
    reqs,   \* goal-bound tool calls, by the id of their fenced call
    host,   \* native tasks at the host: "none", "runnable" or "stopped"
    mail    \* receipts the host has sent; any may arrive at any time, or never

serviceVars == <<flow, tombs, reqs, host, mail>>
allVars == <<vars, serviceVars>>

Flow == [op : {"finish", "cancel"}, goal : Goals, token : Nat, status : TerminalStatuses,
         revision : Nat, at : Nat, stage : {"mark", "commit", "abort"}]
Request == [id : Calls, goal : Goals, phase : {"admitted", "running"}, aborted : BOOLEAN]
Receipt == [goal : Goals, row : Nat, version : Nat, outcome : {"created", "cancelled"}]

\* A session walks through one finish or cancel at a time, a fenced call
\* belongs to at most one request, and a row has at most one native task.
ServiceTypeOK ==
    /\ TypeOK
    /\ flow \in [Sessions -> SUBSET Flow] /\ \A s \in Sessions : Cardinality(flow[s]) <= 1
    /\ tombs \subseteq Goals
    /\ reqs \subseteq Request /\ \A r, q \in reqs : r.id = q.id => r = q
    /\ host \in [Goals -> [1..MaxRows -> {"none", "runnable", "stopped"}]]
    /\ mail \subseteq Receipt

ServiceInit ==
    /\ Init
    /\ flow = [s \in Sessions |-> {}]
    /\ tombs = {}
    /\ reqs = {}
    /\ host = [g \in Goals |-> [k \in 1..MaxRows |-> "none"]]
    /\ mail = {}

Go(s, f) == flow' = [flow EXCEPT ![s] = {f}]
Return(s) == flow' = [flow EXCEPT ![s] = {}]

-----------------------------------------------------------------------------
(* finishGoal. *)

\* The request samples its clock and validates: lease, revision, readiness.
FinishValidate(s, g, tok, st) ==
    /\ flow[s] = {}
    /\ MutableLease(g, s, tok, now)
    /\ CompletionReady(g, st)
    /\ Go(s, [op |-> "finish", goal |-> g, token |-> tok, status |-> st,
              revision |-> revision[g], at |-> now, stage |-> "mark"])
    /\ UNCHANGED <<vars, tombs, reqs, host, mail>>

\* markGoalFinishedForScheduledContinuation as a step of either walk: it moves
\* the live row, or finds none, or one already in cleanup.
Mark(g, at) ==
    \/ MarkFinished(g, at)
    \/ /\ \A k \in LiveIn(rows[g]) : IsLatestLive(g, k) => rows[g][k].status \in CancelStatuses
       /\ UNCHANGED vars

\* Mutant of CleanupPending: a task whose due time has passed needs no cleanup.
CleanupBeforeDue(rs) == \E k \in LiveIn(rs) : rs[k].due > now
\* requiresNativeCleanup(cancellationInstruction(row)): the marked row is
\* still live, as a task to stop or as one whose fate is not known.
CleanupPending(rs) == LiveIn(rs) # {}

\* The walk ends with pending_native_cleanup, or goes on to the commit.
FinishMark(s) ==
    \E f \in flow[s] :
        /\ f.op = "finish" /\ f.stage = "mark"
        /\ Mark(f.goal, f.at)
        /\ IF CleanupPending(rows'[f.goal]) THEN Return(s) ELSE Go(s, [f EXCEPT !.stage = "commit"])
        /\ UNCHANGED <<tombs, reqs, host, mail>>

\* The terminal transition, under the clock and revision of the request.
FinishCommit(s) ==
    \E f \in flow[s] :
        /\ f.op = "finish" /\ f.stage = "commit"
        /\ Finish(f.goal, s, f.token, f.revision, f.status, f.at)
        /\ Go(s, [f EXCEPT !.stage = "abort"])
        /\ UNCHANGED <<tombs, reqs, host, mail>>

\* The goal changed since validation: finish throws and the request fails.
FinishConflict(s) ==
    \E f \in flow[s] :
        /\ f.op = "finish" /\ f.stage = "commit"
        /\ ~(/\ MutableLease(f.goal, s, f.token, f.at)
             /\ revision[f.goal] = f.revision
             /\ CompletionReady(f.goal, f.status))
        /\ Return(s)
        /\ UNCHANGED <<vars, tombs, reqs, host, mail>>

-----------------------------------------------------------------------------
(* cancelGoal: the transition comes first, the row is marked last. *)

CancelCommit(s, g) ==
    /\ flow[s] = {}
    /\ Cancel(g) \/ CancelAgain(g)
    /\ Go(s, [op |-> "cancel", goal |-> g, token |-> 0, status |-> "cancelled",
              revision |-> revision[g], at |-> now, stage |-> "abort"])
    /\ UNCHANGED <<tombs, reqs, host, mail>>

CancelMark(s) ==
    \E f \in flow[s] :
        /\ f.op = "cancel" /\ f.stage = "mark"
        /\ Mark(f.goal, f.at)
        /\ Return(s)
        /\ UNCHANGED <<tombs, reqs, host, mail>>

\* Mutant of Aborted: requests not yet running are aborted, the others missed.
AbortedUnstarted(g) ==
    {IF r.goal = g /\ r.phase = "admitted" THEN [r EXCEPT !.aborted = TRUE] ELSE r : r \in reqs}
Aborted(g) ==
    {IF r.goal = g /\ r.phase = "running" THEN [r EXCEPT !.aborted = TRUE] ELSE r : r \in reqs}

\* cancelForGoal, called by both walks after the transition: a tombstone for
\* later registrations, an abort for the requests that are running.  Tracked
\* tasks are asked to stop as well, which TaskStep may or may not follow.
Abort(s) ==
    \E f \in flow[s] :
        /\ f.stage = "abort"
        /\ tombs' = tombs \cup {f.goal}
        /\ reqs' = Aborted(f.goal)
        /\ IF f.op = "finish" THEN Return(s) ELSE Go(s, [f EXCEPT !.stage = "mark"])
        /\ UNCHANGED <<vars, host, mail>>

-----------------------------------------------------------------------------
(* Goal-bound tool calls. *)

\* The fence admits the call before the request is registered.
Admit(c, g, s, tok) ==
    /\ BeginCall(c, g, s, tok)
    /\ \A r \in reqs : r.id # c
    /\ reqs' = reqs \cup {[id |-> c, goal |-> g, phase |-> "admitted", aborted |-> FALSE]}
    /\ UNCHANGED <<flow, tombs, host, mail>>

\* A tool outside the fence only has its lease proof validated.
AdmitUnfenced(c, g, s, tok) ==
    /\ MutableLease(g, s, tok, now)
    /\ \A x \in reqs \cup calls : x.id # c
    /\ reqs' = reqs \cup {[id |-> c, goal |-> g, phase |-> "admitted", aborted |-> FALSE]}
    /\ UNCHANGED <<vars, flow, tombs, host, mail>>

\* Mutant of Welcome: late registrations are not refused.
AlwaysWelcome(g) == TRUE
\* register refuses a goal that has a tombstone.
Welcome(g) == g \notin tombs

\* Mutant of Register: the running request is entered beside the admitted one.
RegisterBeside(r) ==
    /\ r.phase = "admitted" /\ Welcome(r.goal)
    /\ reqs' = reqs \cup {[r EXCEPT !.phase = "running"]}
    /\ UNCHANGED <<vars, flow, tombs, host, mail>>
Register(r) ==
    /\ r.phase = "admitted" /\ Welcome(r.goal)
    /\ reqs' = (reqs \ {r}) \cup {[r EXCEPT !.phase = "running"]}
    /\ UNCHANGED <<vars, flow, tombs, host, mail>>

\* The tool returned, or was refused; the fenced call ends with the request.
Settle(r) ==
    /\ r.phase = "running" \/ ~Welcome(r.goal)
    /\ reqs' = reqs \ {r}
    /\ calls' = {c \in calls : c.id # r.id}
    /\ UNCHANGED <<now, status, revision, lease, generation, seq, tasks, ever, rows, runs,
                   issued, obs, task, flow, tombs, host, mail>>

-----------------------------------------------------------------------------
(* The native task host and the agent that drives it (external). *)

\* The agent creates the native task of the row it was told to create one for,
\* once, and reports it under the version it was told.
HostCreate(g, k) ==
    /\ host[g][k] = "none" /\ rows[g][k].status = "prepared"
    /\ host' = [host EXCEPT ![g][k] = "runnable"]
    /\ mail' = mail \cup {[goal |-> g, row |-> k, version |-> rows[g][k].version,
                           outcome |-> "created"]}
    /\ UNCHANGED <<vars, flow, tombs, reqs>>

\* The agent stops the task of a row in cleanup and reports the proof.
HostStop(g, k) ==
    /\ host[g][k] = "runnable"
    /\ rows[g][k].status \in CancelStatuses /\ rows[g][k].native
    /\ host' = [host EXCEPT ![g][k] = "stopped"]
    /\ mail' = mail \cup {[goal |-> g, row |-> k, version |-> rows[g][k].version,
                           outcome |-> "cancelled"]}
    /\ UNCHANGED <<vars, flow, tombs, reqs>>

\* A receipt arrives; one of a stale version is rejected without a write.
Deliver(m) ==
    /\ rows[m.goal][m.row].version = m.version
    /\ \/ m.outcome = "created" /\ ReceiveCreated(m.goal, m.row)
       \/ m.outcome = "cancelled" /\ ReceiveCancelled(m.goal, m.row, "omitted")
    /\ UNCHANGED serviceVars

\* A runnable native task fires.
Wake(s, g, k) ==
    /\ host[g][k] = "runnable"
    /\ WakeStep(s, g, k)
    /\ UNCHANGED serviceVars

\* The process dies: what it held in memory is gone, database and host remain.
Crash ==
    /\ MayCrash
    /\ flow' = [s \in Sessions |-> {}]
    /\ tombs' = {}
    /\ reqs' = {}
    /\ obs' = [s \in Sessions |-> {}]
    /\ UNCHANGED <<now, status, revision, lease, generation, seq, tasks, ever, rows, calls,
                   runs, issued, task, host, mail>>

-----------------------------------------------------------------------------

\* The transactions that are requests of their own.
RepositoryStep ==
    /\ \/ \E g \in Goals, s \in Sessions :
            \/ AcquireStep(s, g)
            \/ \E tok \in TokensOf(s, g), T \in SUBSET Started :
                \/ \E release \in BOOLEAN : Checkpoint(g, s, tok, T, release)
                \/ \E occ \in PrepareOccurrences, d \in FirstDelays :
                      Prepare(g, s, tok, T, occ, d) \/ Refresh(g, s, tok, T, occ, d)
       \/ \E g \in Goals : \E k \in DOMAIN rows[g] : CancelContinuation(g, k)
       \/ \E s \in Observers : EvidenceStep(s)
       \/ \E c \in calls : (\E r \in reqs : r.id = c.id) /\ HeartbeatCall(c)
       \/ EnvStep
    /\ UNCHANGED serviceVars

ServiceStep ==
    \/ \E s \in Sessions :
        \/ FinishMark(s) \/ FinishCommit(s) \/ FinishConflict(s) \/ CancelMark(s) \/ Abort(s)
        \/ \E g \in Goals :
            \/ CancelCommit(s, g)
            \/ \E tok \in TokensOf(s, g) :
                \/ \E st \in TerminalStatuses \ {"cancelled"} : FinishValidate(s, g, tok, st)
                \/ \E c \in Calls : Admit(c, g, s, tok) \/ AdmitUnfenced(c, g, s, tok)
    \/ \E r \in reqs : Register(r) \/ Settle(r)

HostStep ==
    \/ \E g \in Goals : \E k \in DOMAIN rows[g] :
        HostCreate(g, k) \/ HostStop(g, k) \/ \E s \in Sessions : Wake(s, g, k)
    \/ \E m \in mail : Deliver(m)

ServiceNext == RepositoryStep \/ ServiceStep \/ HostStep \/ Crash

ServiceSpec == ServiceInit /\ [][ServiceNext]_allVars

-----------------------------------------------------------------------------
(* Safety. *)

\* A goal that finish_goal ended has no runnable native task the repository
\* knows of: whatever receipts, wakes, second finishes and crashes come between
\* the marking of the row and the terminal transition, completion waits for
\* the proof that the task is not runnable.
FinishedIsCleanedUp ==
    \A g \in Goals : status[g] \in {"completed", "failed", "blocked"} =>
        \A k \in DOMAIN rows[g] : rows[g][k].native => host[g][k] # "runnable"

\* When finish_goal or cancel_goal has returned, no request of the ended goal
\* is still running without having been told to stop: neither one that was
\* admitted before the transition and registered after it, nor one that was
\* registered before the abort.  (A goal that reconcile_goals cancelled has no
\* tombstone: that path aborts no request.)
EndedRequestsStop ==
    \A r \in reqs :
        (/\ r.phase = "running"
         /\ r.goal \in tombs \/ status[r.goal] \in {"completed", "failed", "blocked"})
        => r.aborted \/ \E s \in Sessions : \E f \in flow[s] : f.goal = r.goal /\ f.stage = "abort"

\* The comment of cancelForGoal: a goal with a tombstone is never reopened.
TombstonesAreFinal == \A g \in tombs : ~IsActive(g)

\* The release notes: a terminal or cancelled goal with an unresolved watchdog
\* enters the cleanup-only wake path, which the recurring claim takes for rows
\* in a cancel status only.
EndedWatchdogIsInCleanup ==
    \A g \in Goals :
        (status[g] \in TerminalStatuses /\ \A s \in Sessions : \A f \in flow[s] : f.goal # g) =>
            \A k \in LiveIn(rows[g]) : rows[g][k].native => rows[g][k].status \in CancelStatuses

\* The release notes: finish_goal stays pending until the exact native task is
\* proven not runnable, so a finished goal is not awakened again.
FinishedIsNotAwakened ==
    \A g \in Goals : status[g] \in {"completed", "failed", "blocked"} =>
        \A k \in DOMAIN rows[g] : host[g][k] # "runnable"

=============================================================================
