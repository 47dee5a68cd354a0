----------------------------- MODULE Automation -----------------------------
(***************************************************************************)
(* A native automation run: a graph of milestones, each dispatched as a    *)
(* durable shell task under a leased goal.                                 *)
(*   packages/application/src/automation-service.ts                        *)
(*   packages/storage/src/automation-repository.ts                         *)
(*   packages/domain/src/automation.ts                                     *)
(*                                                                         *)
(* Every tool call reads the run once and then commits a series of SQLite  *)
(* transactions, each one compared with the revision the call last saw; it *)
(* awaits the shell, the verifier and the goal in between.  A call is the  *)
(* list of the steps it still has to take (todo) and the run as it last    *)
(* read it (view).  Calls interleave step by step: advance goes on after   *)
(* its request has ended, so that a retry overlaps it, and RuntimeCrash    *)
(* ends them all between any two steps.                                    *)
(***************************************************************************)
EXTENDS Integers, Sequences, SequencesExt, FiniteSetsExt

CONSTANTS
    Callers,      \* calls that may be in progress at the same time
    Milestones,   \* the milestones, numbered by their position in the plan
    DependsOn,    \* milestone -> the milestones it depends on
    MaxAttempts,  \* MAX_AUTOMATION_ATTEMPTS_PER_MILESTONE
    MaxEvents     \* MAX_AUTOMATION_EVENTS_PER_RUN

ASSUME AutomationAssumption ==
    /\ Milestones \subseteq Nat
    /\ DependsOn \in [Milestones -> SUBSET Milestones]
    /\ MaxAttempts \in Nat \ {0}
    /\ MaxEvents \in Nat

\* A plan in which every milestone depends on the ones before it.
EarlierMilestones == [m \in Milestones |-> {d \in Milestones : d < m}]

VARIABLES
    run,      \* the rows of automation_runs, _milestones and _attempts
    call,     \* caller -> the call it is serving
    started,  \* durable shell tasks <<milestone, ordinal>> that were started
    alive,    \* the ones among them whose process still runs
    root,     \* status of the root goal
    tracked   \* the root goal's tracked tasks

autoVars == <<run, call, started, alive, root, tracked>>

RunStatuses ==
    {"active", "paused", "blocked", "completing", "completed", "failed", "cancelled"}
MilestoneStatuses ==
    {"pending", "ready", "dispatching", "running", "verifying", "completed",
     "blocked", "failed", "cancelled"}
DispatchStatuses == {"reserved", "launched", "dispatched_unresolved", "terminal"}
Attempts == [dispatch : DispatchStatuses, verified : BOOLEAN]
TaskIds == Milestones \X (1..MaxAttempts)

IsTerminalRun(status) == status \in {"completed", "failed", "cancelled"}

RunTransitions ==
    [active     |-> {"paused", "blocked", "completing", "failed", "cancelled"},
     paused     |-> {"active", "cancelled"},
     blocked    |-> {"active", "failed", "cancelled"},
     completing |-> {"completed", "blocked", "failed", "cancelled"},
     completed  |-> {}, failed |-> {}, cancelled |-> {}]

MilestoneTransitions ==
    [pending     |-> {"ready", "cancelled"},
     ready       |-> {"dispatching", "blocked", "cancelled"},
     dispatching |-> {"running", "blocked", "failed", "cancelled"},
     running     |-> {"verifying", "blocked", "failed", "cancelled"},
     verifying   |-> {"completed", "blocked", "failed", "cancelled"},
     completed   |-> {},
     blocked     |-> {"ready", "failed", "cancelled"},
     failed      |-> {"ready", "cancelled"},
     cancelled   |-> {}]

DispatchTransitions ==
    [reserved              |-> {"launched", "dispatched_unresolved", "terminal"},
     launched              |-> {"dispatched_unresolved", "terminal"},
     dispatched_unresolved |-> {"launched", "terminal"},
     terminal              |-> {}]

(***************************************************************************)
(* The steps a call is made of: the five mutations of the repository, and  *)
(* the awaits on the shell (observe, launch, reply), on the verifier and   *)
(* on the root goal (sync, cancelGoal, finishGoal).                        *)
(***************************************************************************)
ToRun(s) == [op |-> "run", to |-> s]
ToMilestone(m, s) == [op |-> "milestone", m |-> m, to |-> s]
ReserveAttempt(m) == [op |-> "reserve", m |-> m]
UpdateAttempt(m, s, ms) == [op |-> "attempt", m |-> m, to |-> s, ms |-> ms]
RecordVerification(m, s) == [op |-> "evidence", m |-> m, verdict |-> s]
Await(op, m) == [op |-> op, m |-> m]
Sync == [op |-> "sync"]
RunMutations == {"run", "milestone", "reserve", "attempt", "evidence"}

Latest(r, m) == Last(r.attempts[m])
Verdicts == {"verified", "failed", "pending", "unknown"}
Sights == {"absent", "running", "ended", "unknown"}

\* transitionRun, transitionMilestone, reserveAttempt, updateAttempt and
\* recordVerification: what each refuses.
Legal(r, item) ==
    CASE item.op = "run" -> item.to \in RunTransitions[r.status]
      [] item.op = "milestone" ->
            item.to \in MilestoneTransitions[r.ms[item.m]]
      [] item.op = "reserve" ->
            /\ "dispatching" \in MilestoneTransitions[r.ms[item.m]]
            /\ Len(r.attempts[item.m]) < MaxAttempts
      [] item.op = "attempt" ->
            /\ item.to \in DispatchTransitions[Latest(r, item.m).dispatch]
            /\ item.ms \in MilestoneTransitions[r.ms[item.m]]
      [] item.op = "evidence" ->
            /\ Latest(r, item.m).dispatch = "terminal"
            /\ CASE item.verdict = "verified" ->
                       "completed" \in MilestoneTransitions[r.ms[item.m]]
                 [] item.verdict = "failed" ->
                       "failed" \in MilestoneTransitions[r.ms[item.m]]
                 [] OTHER -> r.ms[item.m] = "verifying"

WithLatest(r, m, dispatch, verified) ==
    [r.attempts EXCEPT ![m] =
        [@ EXCEPT ![Len(@)] = [dispatch |-> dispatch, verified |-> verified]]]

\* ... and what each writes, one revision and one event later.
Applied(r, item) ==
    LET next == [r EXCEPT !.revision = @ + 1] IN
    CASE item.op = "run" -> [next EXCEPT !.status = item.to]
      [] item.op = "milestone" -> [next EXCEPT !.ms[item.m] = item.to]
      [] item.op = "reserve" ->
            [next EXCEPT
                !.ms[item.m] = "dispatching",
                !.attempts[item.m] =
                    Append(@, [dispatch |-> "reserved", verified |-> FALSE])]
      [] item.op = "attempt" ->
            [next EXCEPT
                !.ms[item.m] = item.ms,
                !.attempts = WithLatest(r, item.m, item.to,
                                        Latest(r, item.m).verified)]
      [] item.op = "evidence" ->
            [next EXCEPT
                !.ms[item.m] =
                    CASE item.verdict = "verified" -> "completed"
                      [] item.verdict = "failed" -> "failed"
                      [] OTHER -> @,
                !.attempts = WithLatest(r, item.m, "terminal",
                                        item.verdict = "verified")]

(***************************************************************************)
(* What a call decides from the run it read.                               *)
(***************************************************************************)
\* A mutant of ReadyMilestones: the dependencies need only have been started.
ReadyOnceStarted(r) ==
    {m \in Milestones : /\ r.ms[m] = "pending"
                        /\ \A d \in DependsOn[m] : r.ms[d] # "pending"}

\* readyAutomationMilestones
ReadyMilestones(r) ==
    {m \in Milestones : /\ r.ms[m] = "pending"
                        /\ \A d \in DependsOn[m] : r.ms[d] = "completed"}

InDispatch(r, statuses) ==
    {m \in Milestones : /\ r.attempts[m] # << >>
                        /\ Latest(r, m).dispatch \in statuses}

InStatus(r, statuses) == {m \in Milestones : r.ms[m] \in statuses}

RequiresPreflightGoalSync(r) ==
    \/ r.status \in {"blocked", "paused"}
    \/ InStatus(r, {"running", "verifying"}) # {}
    \/ InDispatch(r, {"launched", "dispatched_unresolved"}) # {}

\* automationGoalTrackedTasks: the attempts that may still be running.
TrackedTasks(r) ==
    {<<m, Len(r.attempts[m])>> :
        m \in InDispatch(r, {"launched", "dispatched_unresolved"})}

\* advance(): exactly one boundary, the most urgent one.
AdvanceSteps(r) ==
    LET unresolved == InDispatch(r, {"dispatched_unresolved"})
        inFlight == InStatus(r, {"dispatching", "running"})
        verifying == InStatus(r, {"verifying"})
        ready == ReadyMilestones(r)
    IN  CASE unresolved # {} -> <<Await("observeUnresolved", Min(unresolved))>>
          [] unresolved = {} /\ inFlight # {} ->
                <<Await("observeInFlight", Min(inFlight))>>
          [] unresolved \cup inFlight = {} /\ verifying # {} ->
                <<Await("verify", Min(verifying))>>
          [] unresolved \cup inFlight \cup verifying = {} /\ ready # {} ->
                <<ToMilestone(Min(ready), "ready"), ReserveAttempt(Min(ready)),
                  Await("launch", Min(ready))>>
          [] OTHER -> <<Sync>>

\* persistDispatchObservation
PersistObservation(r, m, sight) ==
    CASE sight \in {"absent", "unknown"} ->
            <<UpdateAttempt(m, "dispatched_unresolved", "blocked")>>
            \o (IF r.status = "blocked" THEN << >> ELSE <<ToRun("blocked")>>)
            \o <<Sync>>
      [] sight = "running" -> <<UpdateAttempt(m, "launched", "running"), Sync>>
      [] sight = "ended" ->
            <<UpdateAttempt(m, "launched", "running"),
              UpdateAttempt(m, "terminal", "verifying"), Sync>>

Reactivate(r) == IF r.status = "blocked" THEN <<ToRun("active")>> ELSE << >>

\* observeUnresolved: reattach a task that is found, keep waiting when the
\* shell cannot tell, and retry only after the task is proven absent.
UnresolvedSteps(r, m, sight) ==
    CASE sight = "unknown" -> <<Sync>>
      [] sight \in {"running", "ended"} ->
            Reactivate(r)
            \o <<ToMilestone(m, "ready"), ToMilestone(m, "dispatching")>>
            \o PersistObservation([r EXCEPT !.status = "active"], m, sight)
      [] sight = "absent" ->
            <<UpdateAttempt(m, "terminal", "failed")>>
            \o (IF Len(r.attempts[m]) >= MaxAttempts
                THEN <<ToRun("failed"), Sync>>
                ELSE Reactivate(r)
                     \o <<ToMilestone(m, "ready"), ReserveAttempt(m),
                          Await("launch", m)>>)

\* observeInFlight
InFlightSteps(r, m, sight) ==
    CASE /\ r.ms[m] = "dispatching" /\ sight = "absent"
         /\ Latest(r, m).dispatch = "reserved" -> <<Await("launch", m)>>
      [] /\ r.ms[m] = "running" /\ sight \in {"running", "ended"}
         /\ Latest(r, m).dispatch = "launched" ->
            (IF sight = "running" THEN << >>
             ELSE <<UpdateAttempt(m, "terminal", "verifying")>>) \o <<Sync>>
      [] OTHER -> PersistObservation(r, m, sight)

\* verifyMilestone: the evidence, then the run's own status.
VerifiedSteps(r, m, verdict) ==
    <<RecordVerification(m, verdict)>>
    \o (CASE verdict = "failed" -> <<ToRun("failed")>>
          [] verdict = "unknown" /\ r.status # "blocked" -> <<ToRun("blocked")>>
          [] OTHER -> << >>)
    \o <<Sync>>

\* The checks of finalize() on an active root goal.
ReadyToFinalize(r) ==
    /\ r.status \in {"active", "completing"}
    /\ \A m \in Milestones :
        /\ r.ms[m] = "completed"
        /\ r.attempts[m] # << >>
        /\ Latest(r, m).verified
        /\ \A i \in DOMAIN r.attempts[m] : r.attempts[m][i].dispatch = "terminal"

FinalizeSteps(r) ==
    (IF r.status = "active" THEN <<ToRun("completing")>> ELSE << >>)
    \o <<Sync, [op |-> "finishGoal"], ToRun("completed")>>
-----------------------------------------------------------------------------
AutomationInit ==
    /\ run = [status |-> "active", revision |-> 0,
              ms |-> [m \in Milestones |-> "pending"],
              attempts |-> [m \in Milestones |-> << >>]]
    /\ call = [c \in Callers |-> << >>]
    /\ started = {}
    /\ alive = {}
    /\ root = "active"
    /\ tracked = {}

\* A caller between two calls; otherwise its call has steps left.
Free(c) == call[c] = << >>
Head1(c) == Head(call[c].todo)
Enter(c, steps) ==
    call' = [call EXCEPT ![c] = [todo |-> steps, view |-> run]]
\* The call continues with `steps`, or returns when none are left.
Continue(c, steps, view) ==
    call' = [call EXCEPT ![c] =
        IF steps = << >> THEN << >> ELSE [todo |-> steps, view |-> view]]
Return(c) == call' = [call EXCEPT ![c] = << >>]
Rest(c) == Tail(call[c].todo)
Serving(c, op) == ~Free(c) /\ Head1(c).op = op

\* loadAuthorizedRun with a current lease and the current revision (a call
\* with any other revision returns CONFLICT and changes nothing), then the
\* body of advance, pause, resume, finalize or cancel.
Advance(c) ==
    /\ Free(c) /\ root = "active"
    /\ run.status \in {"active", "blocked"}
    /\ Enter(c, (IF RequiresPreflightGoalSync(run) THEN <<Sync>> ELSE << >>)
                \o AdvanceSteps(run))
    /\ UNCHANGED <<run, started, alive, root, tracked>>

Pause(c) ==
    /\ Free(c) /\ root = "active" /\ run.status = "active"
    /\ Enter(c, <<ToRun("paused"), Sync>>)
    /\ UNCHANGED <<run, started, alive, root, tracked>>

Resume(c) ==
    /\ Free(c) /\ root = "active" /\ run.status \in {"paused", "blocked"}
    /\ Enter(c, <<ToRun("active"), Sync>>)
    /\ UNCHANGED <<run, started, alive, root, tracked>>

Cancel(c) ==
    /\ Free(c)
    /\ \/ /\ root = "cancelled" /\ ~IsTerminalRun(run.status)
          /\ Enter(c, <<ToRun("cancelled")>>)
       \/ /\ root = "active"
          /\ Enter(c, <<[op |-> "cancelGoal"], ToRun("cancelled")>>)
    /\ UNCHANGED <<run, started, alive, root, tracked>>

Finalize(c) ==
    /\ Free(c)
    /\ \/ /\ root = "completed" /\ run.status = "completing"
          /\ Enter(c, <<ToRun("completed")>>)
       \/ /\ root = "active" /\ ReadyToFinalize(run)
          /\ Enter(c, FinalizeSteps(run))
    /\ UNCHANGED <<run, started, alive, root, tracked>>

\* mutate(): one transaction, refused when the revision moved, when the
\* event limit is reached or when the transition is illegal.  The call that
\* is refused returns the error.
Mutate(c) ==
    /\ ~Free(c) /\ Head1(c).op \in RunMutations
    /\ LET view == call[c].view
           item == Head1(c)
       IN  IF /\ run.revision = view.revision
              /\ view.revision + 1 < MaxEvents
              /\ Legal(run, item)
           THEN /\ run' = Applied(run, item)
                /\ Continue(c, Rest(c), run')
           ELSE /\ Return(c)
                /\ UNCHANGED run
    /\ UNCHANGED <<started, alive, root, tracked>>

\* What the shell says of a task: its real state, or that it cannot tell.
SightOf(t) ==
    {"unknown", IF t \notin started THEN "absent"
                ELSE IF t \in alive THEN "running" ELSE "ended"}

Task(c) == LET m == Head1(c).m IN <<m, Len(call[c].view.attempts[m])>>

Observe(c) ==
    /\ ~Free(c) /\ Head1(c).op \in {"observeUnresolved", "observeInFlight"}
    /\ \E sight \in SightOf(Task(c)) :
        Continue(c,
            IF Head1(c).op = "observeUnresolved"
            THEN UnresolvedSteps(call[c].view, Head1(c).m, sight)
            ELSE InFlightSteps(call[c].view, Head1(c).m, sight),
            call[c].view)
    /\ UNCHANGED <<run, started, alive, root, tracked>>

\* dispatch.launch: the registry validates the goal lease and the shell
\* starts the task, finds it started, or refuses; the answer follows.
Launch(c) ==
    /\ Serving(c, "launch")
    /\ Continue(c, <<Await("reply", Head1(c).m)>>, call[c].view)
    /\ \/ /\ root = "active"
          /\ Task(c) \notin started
          /\ started' = started \cup {Task(c)}
          /\ alive' = alive \cup {Task(c)}
       \/ UNCHANGED <<started, alive>>
    /\ UNCHANGED <<run, root, tracked>>

\* The launch returns what became of the task, or an error; a launch never
\* reports absence.
LaunchReturns(c) ==
    /\ Serving(c, "reply")
    /\ \E sight \in SightOf(Task(c)) \ {"absent"} :
        Continue(c, PersistObservation(call[c].view, Head1(c).m, sight),
                 call[c].view)
    /\ UNCHANGED <<run, started, alive, root, tracked>>

Verify(c) ==
    /\ Serving(c, "verify")
    /\ \/ \E verdict \in Verdicts :
            Continue(c, VerifiedSteps(call[c].view, Head1(c).m, verdict),
                     call[c].view)
       \/ Return(c)
    /\ UNCHANGED <<run, started, alive, root, tracked>>

\* syncGoalState: checkpoint the root goal, which fails when the goal's
\* revision or lease has changed.
SyncGoalState(c) ==
    /\ Serving(c, "sync")
    /\ \/ /\ root = "active"
          /\ tracked' = TrackedTasks(call[c].view)
          /\ Continue(c, Rest(c), call[c].view)
       \/ /\ Return(c)
          /\ UNCHANGED tracked
    /\ UNCHANGED <<run, started, alive, root>>

\* cancelGoal and finishGoal on the root goal, by this call.
EndGoal(c) ==
    /\ root = "active"
    /\ \/ Serving(c, "cancelGoal") /\ root' = "cancelled"
       \/ Serving(c, "finishGoal") /\ root' = "completed"
    /\ Continue(c, Rest(c), call[c].view)
    /\ UNCHANGED <<run, started, alive, tracked>>

GoalRefuses(c) ==
    /\ Serving(c, "cancelGoal") \/ Serving(c, "finishGoal")
    /\ Return(c)
    /\ UNCHANGED <<run, started, alive, root, tracked>>

\* The root goal is cancelled through its own tool.
GoalCancelled ==
    /\ root = "active"
    /\ root' = "cancelled"
    /\ UNCHANGED <<run, call, started, alive, tracked>>

TaskEnds(t) ==
    /\ t \in alive
    /\ alive' = alive \ {t}
    /\ UNCHANGED <<run, call, started, root, tracked>>

\* The host dies with its calls; what they committed and started stays.
RuntimeCrash ==
    /\ \E c \in Callers : ~Free(c)
    /\ call' = [c \in Callers |-> << >>]
    /\ UNCHANGED <<run, started, alive, root, tracked>>

CallSteps(c) ==
    \/ Advance(c) \/ Pause(c) \/ Resume(c) \/ Cancel(c) \/ Finalize(c)
    \/ Mutate(c) \/ Observe(c) \/ Launch(c) \/ LaunchReturns(c) \/ Verify(c)
    \/ SyncGoalState(c) \/ EndGoal(c) \/ GoalRefuses(c)

AutomationNext ==
    \/ \E c \in Callers : CallSteps(c)
    \/ \E t \in TaskIds : TaskEnds(t)
    \/ RuntimeCrash
    \/ GoalCancelled

AutomationSpec == AutomationInit /\ [][AutomationNext]_autoVars
-----------------------------------------------------------------------------
RunRows ==
    [status : RunStatuses, revision : Nat,
     ms : [Milestones -> MilestoneStatuses],
     attempts : [Milestones -> Seq(Attempts)]]

AutomationTypeOK ==
    /\ run \in RunRows
    /\ started \subseteq TaskIds
    /\ alive \subseteq started
    /\ root \in {"active", "completed", "cancelled"}
    /\ tracked \subseteq TaskIds

\* "only exact absence permits another attempt": of all attempts of a
\* milestone at most one is ever started, and when the run is completed no
\* task of it still runs.  Two advance calls that overlap break it: one finds
\* the task absent that the other is about to launch.
OneAttemptStarts ==
    /\ \A t, u \in started : t[1] = u[1] => t = u
    /\ run.status = "completed" => alive = {}

\* Work builds on verified work only.  No command runs before the milestones it
\* depends on were verified, also when a call launches from a run that has
\* moved on; and a completed run has verified evidence for every milestone and
\* a completed root goal.
WorkIsProven ==
    /\ \A t \in started : \A d \in DependsOn[t[1]] :
          run.ms[d] = "completed" /\ Latest(run, d).verified
    /\ run.status = "completed" =>
          /\ root = "completed"
          /\ \A m \in Milestones : run.ms[m] = "completed" /\ Latest(run, m).verified

\* A milestone that has been claimed for dispatch can be moved on: with no
\* call in progress, a run that is not over is never left in a state whose
\* only continuation is to refuse or to report itself idle.
NeverStranded ==
    (/\ \A c \in Callers : Free(c)
     /\ run.status \in {"active", "blocked"} /\ root = "active")
    => \A m \in Milestones : run.ms[m] # "ready"
=============================================================================
