--------------------------- MODULE ProcessManager ---------------------------
(***************************************************************************)
(* Managed processes: packages/process/src/process-manager.ts.             *)
(*                                                                         *)
(* A process runs under a writer reservation (onVerifiedNativeTermination  *)
(* releases it).  On POSIX it is a child and its process group; on Windows *)
(* an attempt of the native containment service.  An action is the code    *)
(* between two awaits.  Timers, signals and the service's answers come at  *)
(* any time.                                                               *)
(***************************************************************************)
EXTENDS Naturals, FiniteSets

CONSTANTS Procs,      \* start requests, each with a process of its own
          MaxActive   \* maxActiveProcesses

ASSUME ActiveAssumption == MaxActive \in Nat \ {0}

VARIABLES platform,  \* "posix" or "windows"
          life,      \* life[p]: what really runs (external)
          held,      \* held[p]: the reservation is not released
          request,   \* request[p]: where start() stands
          aborted,   \* aborted[p]: its signal
          rec,       \* rec[p]: the record
          accept,    \* accept[p]: nativeAcceptance, in flight or idle
          attempt,   \* attempt[p]: terminationAttempt
          refresh    \* refresh[p]: what the service reported, not yet applied

procVars == <<platform, life, held, request, aborted, rec, accept, attempt, refresh>>

VerifiedTerminal == {"exited", "failed", "stopped", "timed_out"}
ActiveStates == {"starting", "running", "termination_unverified"}
\* starting: stop target, exit state, pipes closed, notified, timeout timer
\* and recovery timer.
NoRecord == [state |-> "none", target |-> "none", stopping |-> FALSE, exit |-> "none",
             closed |-> FALSE, notified |-> FALSE, timer |-> FALSE, recovery |-> FALSE]

\* Nothing of the process runs now or will.
Gone(p) == life[p] \in {"none", "nopid", "over", "aborted"}
Final(r) == r.state \in VerifiedTerminal
Active == {p \in Procs : rec[p].state \in ActiveStates}

ProcTypeOK ==
    /\ platform \in {"posix", "windows"}
    /\ life \in [Procs -> {"none", "nopid", "queued", "runs", "orphans", "over", "aborted"}]
    /\ held \in [Procs -> BOOLEAN] /\ aborted \in [Procs -> BOOLEAN]
    /\ request \in [Procs -> {"idle", "resolving", "spawning", "cancelling", "submitting",
                              "settled", "rejected"}]
    /\ rec \in [Procs -> [state : {"none"} \cup ActiveStates \cup VerifiedTerminal,
                          target : {"none", "stopped", "timed_out"}, stopping : BOOLEAN,
                          exit : {"none"} \cup VerifiedTerminal, closed : BOOLEAN,
                          notified : BOOLEAN, timer : BOOLEAN, recovery : BOOLEAN]]
    /\ accept \in [Procs -> {"idle", "inspect", "pipes", "notify"}]
    /\ attempt \in [Procs -> {"idle", "stopping", "accepting"}]
    /\ refresh \in [Procs -> {"idle", "asked", "running", "unknown", "over", "aborted"}]

ProcInit ==
    /\ platform \in {"posix", "windows"}
    /\ life = [p \in Procs |-> "none"]
    /\ held = [p \in Procs |-> TRUE]
    /\ request = [p \in Procs |-> "idle"]
    /\ aborted = [p \in Procs |-> FALSE]
    /\ rec = [p \in Procs |-> NoRecord]
    /\ accept = [p \in Procs |-> "idle"]
    /\ attempt = [p \in Procs |-> "idle"]
    /\ refresh = [p \in Procs |-> "idle"]

Put(f, p, v) == [f EXCEPT ![p] = v]

\* Mutant of Unverified: a final state is overwritten.
UnverifiedAlways(r) == [r EXCEPT !.state = "termination_unverified", !.recovery = TRUE]
\* Mutant of Unverified: no recovery timer.
UnverifiedForEver(r) == IF Final(r) THEN r ELSE [r EXCEPT !.state = "termination_unverified"]
\* markTerminationUnverified: a record keeps looking for proof.
Unverified(r) == IF Final(r) THEN r
                 ELSE [r EXCEPT !.state = "termination_unverified", !.recovery = TRUE]
\* finish
Finished(r, st) == [r EXCEPT !.state = st, !.target = "none", !.stopping = FALSE,
                             !.timer = FALSE, !.recovery = FALSE]
\* acceptPosixCompletion joins an acceptance in flight; without a pid a child
\* that failed to start has an empty group.
Accepting(p, r) == IF Final(r) \/ accept[p] # "idle" THEN accept[p]
                   ELSE IF life[p] = "nopid" THEN (IF r.exit = "failed" THEN "notify" ELSE "inspect")
                   ELSE "inspect"

-----------------------------------------------------------------------------
\* start, POSIX.  The limit is read before the executable is resolved.
StartProcess(p) ==
    /\ platform = "posix" /\ request[p] = "idle"
    /\ \/ /\ Cardinality(Active) < MaxActive
          /\ request' = Put(request, p, "resolving") /\ UNCHANGED held
       \/ /\ Cardinality(Active) >= MaxActive
          /\ request' = Put(request, p, "rejected") /\ \E failed \in BOOLEAN : held' = Put(held, p, failed)
    /\ UNCHANGED <<platform, life, aborted, rec, accept, attempt, refresh>>

\* rejectBeforeSpawn: aborted, not found, invalid; the release may fail.
RejectBeforeSpawn(p) ==
    /\ platform = "posix" /\ request[p] = "resolving"
    /\ request' = Put(request, p, "rejected")
    /\ \E failed \in BOOLEAN : held' = Put(held, p, failed)
    /\ UNCHANGED <<platform, life, aborted, rec, accept, attempt, refresh>>

SpawnChild(p) ==
    /\ platform = "posix" /\ request[p] = "resolving" /\ ~aborted[p]
    /\ request' = Put(request, p, "spawning")
    /\ \E l \in {"runs", "nopid"} : life' = Put(life, p, l)
    /\ rec' = Put(rec, p, [NoRecord EXCEPT !.state = "starting"])
    /\ UNCHANGED <<platform, held, aborted, accept, attempt, refresh>>

\* The 'spawn' event; an abort that came first takes over.
Spawned(p) ==
    /\ request[p] = "spawning" /\ life[p] # "nopid"
    /\ IF aborted[p]
       THEN request' = Put(request, p, "cancelling") /\ UNCHANGED rec
       ELSE /\ request' = Put(request, p, "settled")
            /\ rec' = Put(rec, p, [rec[p] EXCEPT !.state = IF @ = "starting" THEN "running" ELSE @,
                                                 !.timer = ~Final(rec[p])])
    /\ UNCHANGED <<platform, life, held, aborted, accept, attempt, refresh>>

\* An event of the child updates the record and asks for an acceptance.
ChildEvent(p, r) == rec' = Put(rec, p, r) /\ accept' = Put(accept, p, Accepting(p, r))

\* The 'error' event of a child that has no pid.
SpawnErrs(p) ==
    /\ request[p] = "spawning" /\ life[p] = "nopid"
    /\ request' = Put(request, p, "settled")
    /\ ChildEvent(p, [rec[p] EXCEPT !.exit = "failed"])
    /\ UNCHANGED <<platform, life, held, aborted, attempt, refresh>>

\* The caller's signal; a child that has a pid is terminated.
Abort(p) ==
    /\ ~aborted[p] /\ request[p] \in {"resolving", "spawning"}
    /\ aborted' = Put(aborted, p, TRUE)
    /\ request' = Put(request, p, IF request[p] = "spawning" /\ life[p] # "nopid" THEN "cancelling" ELSE request[p])
    /\ UNCHANGED <<platform, life, held, rec, accept, attempt, refresh>>

\* The operating system (external): the child exits, with or without
\* descendants left in its group; they end; the pipes close.
RootExits(p) ==
    /\ platform = "posix" /\ life[p] = "runs" /\ request[p] # "spawning"
    /\ \E l \in {"orphans", "over"} : life' = Put(life, p, l)
    /\ ChildEvent(p, [rec[p] EXCEPT !.exit = "exited"])
    /\ UNCHANGED <<platform, held, request, aborted, attempt, refresh>>
OrphansEnd(p) ==
    /\ life[p] = "orphans"
    /\ life' = Put(life, p, "over")
    /\ UNCHANGED <<platform, held, request, aborted, rec, accept, attempt, refresh>>
PipesClose(p) ==
    /\ platform = "posix" /\ life[p] \in {"orphans", "over"} /\ ~rec[p].closed
    /\ ChildEvent(p, [rec[p] EXCEPT !.closed = TRUE])
    /\ UNCHANGED <<platform, life, held, request, aborted, attempt, refresh>>

\* Mutant of InspectTree: the exit of the child is proof enough.
InspectRoot(p) ==
    /\ accept[p] = "inspect"
    /\ \/ /\ life[p] \in {"over", "orphans"}
          /\ accept' = Put(accept, p, IF rec[p].closed THEN "notify" ELSE "pipes")
          /\ UNCHANGED rec
       \/ /\ accept' = Put(accept, p, "idle")
          /\ rec' = Put(rec, p, Unverified(rec[p]))
    /\ UNCHANGED <<platform, life, held, request, aborted, attempt, refresh>>
\* The group inspector answers: empty, or not, or it cannot tell.
InspectTree(p) ==
    /\ accept[p] = "inspect"
    /\ \/ /\ life[p] = "over"
          /\ accept' = Put(accept, p, IF rec[p].closed THEN "notify" ELSE "pipes")
          /\ UNCHANGED rec
       \/ /\ accept' = Put(accept, p, "idle")
          /\ rec' = Put(rec, p, Unverified(rec[p]))
    /\ UNCHANGED <<platform, life, held, request, aborted, attempt, refresh>>
\* At most a second for the pipes.
AwaitPipes(p) ==
    /\ accept[p] = "pipes"
    /\ \/ /\ rec[p].closed
          /\ accept' = Put(accept, p, "notify") /\ UNCHANGED rec
       \/ /\ ~rec[p].closed
          /\ accept' = Put(accept, p, "idle") /\ rec' = Put(rec, p, Unverified(rec[p]))
    /\ UNCHANGED <<platform, life, held, request, aborted, attempt, refresh>>

\* Mutant of EndStates: the service's state is stored as the record's.
RawEndStates(p) == {life[p]}
\* The state a verified end is recorded as; the service reports its own.
EndStates(p) == IF platform = "windows"
               THEN IF life[p] = "aborted" THEN {"stopped"} ELSE VerifiedTerminal
               ELSE {IF rec[p].target # "none" THEN rec[p].target
                     ELSE IF rec[p].exit # "none" THEN rec[p].exit ELSE "exited"}
\* Mutant of Notify: a failed release does not keep the record open.
NotifyAnyway(p) ==
    /\ accept[p] = "notify"
    /\ accept' = Put(accept, p, "idle")
    /\ \E failed \in BOOLEAN : held' = Put(held, p, failed /\ held[p])
    /\ \E st \in EndStates(p) : rec' = Put(rec, p, Finished([rec[p] EXCEPT !.notified = TRUE], st))
    /\ UNCHANGED <<platform, life, request, aborted, attempt, refresh>>
\* The reservation is released, once, and the record finished; a release that
\* fails leaves the record unverified.
Notify(p) ==
    /\ accept[p] = "notify"
    /\ accept' = Put(accept, p, "idle")
    /\ \/ /\ held' = Put(held, p, FALSE)
          /\ \E st \in EndStates(p) : rec' = Put(rec, p, Finished([rec[p] EXCEPT !.notified = TRUE], st))
       \/ /\ ~rec[p].notified
          /\ rec' = Put(rec, p, Unverified(rec[p])) /\ UNCHANGED held
    /\ UNCHANGED <<platform, life, request, aborted, attempt, refresh>>

-----------------------------------------------------------------------------
\* tryTerminate and the first part of performTermination; an attempt in
\* flight is joined.
Terminating(p, target) ==
    /\ ~Final(rec[p]) /\ attempt[p] = "idle"
    /\ IF platform = "posix" /\ life[p] = "nopid"
       THEN /\ rec' = Put(rec, p, Unverified([rec[p] EXCEPT !.target = target, !.stopping = FALSE, !.timer = FALSE]))
            /\ UNCHANGED attempt
       ELSE /\ rec' = Put(rec, p, [rec[p] EXCEPT !.target = target, !.stopping = TRUE, !.timer = FALSE])
            /\ attempt' = Put(attempt, p, "stopping")
TerminateTree(p, target) ==
    /\ Terminating(p, target)
    /\ UNCHANGED <<platform, life, held, request, aborted, accept, refresh>>

StopProcess(p) ==
    /\ rec[p].state # "none"
    /\ TerminateTree(p, IF rec[p].target = "none" THEN "stopped" ELSE rec[p].target)
TimeoutFires(p) ==
    /\ rec[p].timer
    /\ IF rec[p].state \in {"running", "termination_unverified"} /\ ~rec[p].stopping
       THEN TerminateTree(p, "timed_out")
       ELSE /\ rec' = Put(rec, p, [rec[p] EXCEPT !.timer = FALSE])
            /\ UNCHANGED <<platform, life, held, request, aborted, accept, attempt, refresh>>

\* An aborted start tries until the termination is verified.
CancelStart(p) ==
    /\ request[p] = "cancelling"
    /\ \/ TerminateTree(p, "stopped")
       \/ /\ Final(rec[p])
          /\ request' = Put(request, p, "settled")
          /\ UNCHANGED <<platform, life, held, aborted, rec, accept, attempt, refresh>>

\* terminator.stop returns, having signalled the group, or throws.
ChildStopped(p) ==
    /\ platform = "posix" /\ attempt[p] = "stopping"
    /\ \/ /\ attempt' = Put(attempt, p, "accepting")
          /\ accept' = Put(accept, p, Accepting(p, rec[p])) /\ UNCHANGED rec
       \/ /\ attempt' = Put(attempt, p, "idle")
          /\ rec' = Put(rec, p, Unverified([rec[p] EXCEPT !.stopping = FALSE])) /\ UNCHANGED accept
    /\ UNCHANGED <<platform, life, held, request, aborted, refresh>>
AttemptEnds(p) ==
    /\ attempt[p] = "accepting" /\ accept[p] = "idle"
    /\ attempt' = Put(attempt, p, "idle")
    /\ UNCHANGED <<platform, life, held, request, aborted, rec, accept, refresh>>

\* The recovery timer looks again.
RecoveryFires(p) ==
    /\ rec[p].recovery
    /\ LET r == [rec[p] EXCEPT !.recovery = FALSE] IN
        /\ rec' = Put(rec, p, r)
        /\ IF platform = "posix"
           THEN accept' = Put(accept, p, Accepting(p, r)) /\ UNCHANGED refresh
           ELSE /\ refresh' = Put(refresh, p, IF Final(r) \/ refresh[p] # "idle" THEN refresh[p] ELSE "asked")
                /\ UNCHANGED accept
    /\ UNCHANGED <<platform, life, held, request, aborted, attempt>>

-----------------------------------------------------------------------------
(* Windows: the containment service. *)

\* Mutant of Observed: a late observation reopens a final record.
ObservedLate(p, o) ==
    /\ rec' = Put(rec, p, CASE o = "running" -> [rec[p] EXCEPT !.state = "running", !.recovery = TRUE]
                            [] o = "unknown" -> Unverified(rec[p])
                            [] OTHER -> rec[p])
    /\ accept' = Put(accept, p, IF o \in {"over", "aborted"} /\ accept[p] = "idle" THEN "notify" ELSE accept[p])
\* acceptServiceObservation; a receipt joins an acceptance in flight.
Observed(p, o) ==
    IF Final(rec[p]) THEN UNCHANGED <<rec, accept>>
    ELSE /\ rec' = Put(rec, p, CASE o = "running" -> [rec[p] EXCEPT !.state = "running", !.recovery = TRUE]
                                 [] o = "unknown" -> Unverified(rec[p])
                                 [] OTHER -> rec[p])
         /\ accept' = Put(accept, p, IF o \in {"over", "aborted"} /\ accept[p] = "idle" THEN "notify" ELSE accept[p])

\* What the service says of the attempt, when it can be asked.
Report(l) == CASE l = "runs" -> "running" [] l = "over" -> "over" [] l = "aborted" -> "aborted" [] OTHER -> "unknown"
AbortedLife(l) == IF l \in {"none", "queued"} THEN "aborted" ELSE l

\* startService: the record exists before anything else happens.
StartService(p) ==
    /\ platform = "windows" /\ request[p] = "idle"
    /\ rec' = Put(rec, p, [NoRecord EXCEPT !.state = "starting"])
    /\ request' = Put(request, p, IF Cardinality(Active) >= MaxActive THEN "rejected" ELSE "resolving")
    /\ UNCHANGED <<platform, life, held, aborted, accept, attempt, refresh>>
\* attach: after a restart, an attempt of which the service knows more.
AttachService(p) ==
    /\ platform = "windows" /\ request[p] = "idle"
    /\ \E l \in {"queued", "runs", "over", "aborted"} : life' = Put(life, p, l)
    /\ rec' = Put(rec, p, [NoRecord EXCEPT !.state = "starting"])
    /\ request' = Put(request, p, "settled")
    /\ refresh' = Put(refresh, p, "asked")
    /\ UNCHANGED <<platform, held, aborted, accept, attempt>>
\* rejectBeforeDispatch: the attempt is aborted at the service.
RejectBeforeDispatch(p) ==
    /\ platform = "windows" /\ life[p] \in {"none", "aborted"}
    /\ request[p] \in {"resolving", "rejected"}
    /\ request' = Put(request, p, "settled")
    /\ \/ life' = Put(life, p, "aborted") /\ Observed(p, "aborted")
       \/ life' \in {life, Put(life, p, "aborted")} /\ Observed(p, "unknown")
    /\ UNCHANGED <<platform, held, aborted, attempt, refresh>>
SubmitProcess(p) ==
    /\ platform = "windows" /\ request[p] = "resolving" /\ ~aborted[p]
    /\ request' = Put(request, p, "submitting")
    /\ life' = Put(life, p, IF life[p] = "none" THEN "queued" ELSE life[p])
    /\ UNCHANGED <<platform, held, aborted, rec, accept, attempt, refresh>>
\* Aborted meanwhile: one cancellation is started at once.
AbortSubmission(p) ==
    /\ request[p] = "submitting" /\ ~aborted[p]
    /\ aborted' = Put(aborted, p, TRUE)
    /\ Terminating(p, "stopped") \/ ((Final(rec[p]) \/ attempt[p] # "idle") /\ UNCHANGED <<rec, attempt>>)
    /\ UNCHANGED <<platform, life, held, request, accept, refresh>>
\* The submission returns with an observation, or its outcome is unknown.
SubmitReturns(p) ==
    /\ request[p] = "submitting"
    /\ request' = Put(request, p, "settled")
    /\ \E o \in {Report(life[p]), "unknown"} : Observed(p, o)
    /\ UNCHANGED <<platform, life, held, aborted, attempt, refresh>>

\* The service (external) launches a queued attempt; the attempt ends.
ServiceRuns(p) ==
    /\ platform = "windows" /\ life[p] \in {"queued", "runs"}
    /\ life' = Put(life, p, IF life[p] = "queued" THEN "runs" ELSE "over")
    /\ UNCHANGED <<platform, held, request, aborted, rec, accept, attempt, refresh>>

\* abortBeforeDispatch and, when it came too late, cancel; or an exception.
ServiceStopped(p) ==
    /\ platform = "windows" /\ attempt[p] = "stopping"
    /\ attempt' = Put(attempt, p, "accepting")
    /\ LET l == AbortedLife(life[p]) IN
        \/ life' = Put(life, p, l) /\ Observed(p, Report(l))
        \/ l = "runs" /\ life' = Put(life, p, "over") /\ Observed(p, "over")
        \/ life' \in {life, Put(life, p, l)} /\ Observed(p, "unknown")
    /\ UNCHANGED <<platform, held, request, aborted, refresh>>

\* refreshService: the service is asked, and its answer applied later.
RefreshAnswers(p) ==
    /\ refresh[p] = "asked"
    /\ \E o \in {Report(life[p]), "unknown"} : refresh' = Put(refresh, p, o)
    /\ UNCHANGED <<platform, life, held, request, aborted, rec, accept, attempt>>
RefreshApplied(p) ==
    /\ refresh[p] \notin {"idle", "asked"}
    /\ Observed(p, refresh[p])
    /\ refresh' = Put(refresh, p, "idle")
    /\ UNCHANGED <<platform, life, held, request, aborted, attempt>>

-----------------------------------------------------------------------------
PosixStep(p) ==
    \/ StartProcess(p) \/ RejectBeforeSpawn(p) \/ SpawnChild(p) \/ Spawned(p) \/ SpawnErrs(p)
    \/ RootExits(p) \/ OrphansEnd(p) \/ PipesClose(p) \/ ChildStopped(p)
ServiceStep(p) ==
    \/ StartService(p) \/ AttachService(p) \/ RejectBeforeDispatch(p) \/ SubmitProcess(p)
    \/ AbortSubmission(p) \/ SubmitReturns(p)
    \/ ServiceRuns(p) \/ ServiceStopped(p) \/ RefreshAnswers(p) \/ RefreshApplied(p)
CommonStep(p) ==
    \/ Abort(p) \/ StopProcess(p) \/ TimeoutFires(p) \/ CancelStart(p)
    \/ InspectTree(p) \/ AwaitPipes(p) \/ Notify(p) \/ AttemptEnds(p) \/ RecoveryFires(p)

ProcNext == \E p \in Procs : PosixStep(p) \/ ServiceStep(p) \/ CommonStep(p)
ProcSpec == ProcInit /\ [][ProcNext]_procVars

\* Timers fire and promises settle; the inspector, the service and the
\* release of the reservation may fail, but not every time.
ProcFairness == \A p \in Procs :
    /\ WF_procVars(Spawned(p)) /\ WF_procVars(SpawnErrs(p)) /\ WF_procVars(SubmitReturns(p))
    /\ WF_procVars(PipesClose(p)) /\ WF_procVars(AwaitPipes(p)) /\ WF_procVars(InspectTree(p))
    /\ WF_procVars(Notify(p)) /\ WF_procVars(RecoveryFires(p)) /\ WF_procVars(RefreshAnswers(p))
    /\ WF_procVars(RefreshApplied(p)) /\ WF_procVars(RejectBeforeDispatch(p))
    /\ WF_procVars(ServiceStopped(p)) /\ WF_procVars(ChildStopped(p))
    /\ SF_procVars(InspectTree(p) /\ accept'[p] # "idle")
    /\ SF_procVars(Notify(p) /\ ~held'[p])
    /\ SF_procVars(RefreshAnswers(p) /\ refresh'[p] # "unknown")

-----------------------------------------------------------------------------
\* The writer reservation outlives the process: it is released only when
\* nothing of the process runs or can still be launched, whatever raced
\* (rejectBeforeSpawn, acceptPosixCompletion, acceptNativeReceipt), and a
\* final record has released it.
ReleasedIsGone ==
    \A p \in Procs :
        /\ ~held[p] => Gone(p) /\ (life[p] = "none" => request[p] = "rejected")
        /\ Final(rec[p]) => ~held[p]

\* No late exit, timer, cancellation or observation changes a final record.
VerifiedIsFinal == [][\A p \in Procs : Final(rec[p]) => rec'[p].state = rec[p].state]_procVars

\* A process that is gone does not stay an active record, holding its writer
\* reservation and its place under the limit: the recovery timer finds out.
GoneIsNoticed == \A p \in Procs :
    (rec[p].state # "none" /\ Gone(p) /\ life[p] # "none") ~> Final(rec[p])

\* "a default cap of 24 active managed processes"
ActiveWithinLimit == Cardinality(Active) <= MaxActive
=============================================================================
