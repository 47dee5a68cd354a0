---------------------------- MODULE Containment ----------------------------
(***************************************************************************)
(* The Windows containment service: a native service that launches writers *)
(* in kernel Jobs on behalf of the runtime and publishes repository        *)
(* imports.  An attempt is prepared, dispatched and released in a ledger   *)
(* (ServiceAttemptLedger.cs) that is written out whole at every change;    *)
(* the process, its monitor and the calls of the clients are threads of    *)
(* the service (WindowsServiceProcessRuntime.cs), which may crash, fail to *)
(* write its ledger, or be stopped, between any two of their steps.        *)
(***************************************************************************)
EXTENDS Naturals, FiniteSets

CONSTANTS Entries,       \* attempt ids a client may use
          MaxProcesses   \* MaximumConcurrentProcesses

VARIABLES service,    \* up, stopping or down
          broken,     \* ServiceAttemptLedger.unavailable
          ledger,     \* the entries in memory
          stored,     \* the entries in the ledger file
          attempt,    \* attempt[e]: the RuntimeAttempt and its threads
          target,     \* target[e]: the process (kernel)
          launched,   \* how often a process of e was resumed
          imported,   \* import transaction records on disk
          published,  \* whether the destination holds the stage (file system)
          control     \* the import command being served, under its lock

containVars == <<service, broken, ledger, stored, attempt, target, launched,
                 imported, published, control>>
ledgerVars == <<ledger, stored, broken>>
importVars == <<imported, published, control>>

Phases == {"none", "prepared", "committed", "not_started", "running",
           "terminal", "unknown"}

Entry == [phase : Phases, pid : BOOLEAN, held : BOOLEAN, shared : BOOLEAN,
          hold : BOOLEAN, cancel : BOOLEAN, commit : BOOLEAN]

NoEntry == [phase |-> "none", pid |-> FALSE, held |-> FALSE, shared |-> FALSE,
            hold |-> FALSE, cancel |-> FALSE, commit |-> FALSE]

\* launch: dispatched, the Job is being made; made: the process is suspended
\* in its Job; marked: its pid is in the ledger; watch: it runs, monitored;
\* release: its end is recorded; done: IsTerminal; orphan: registered,
\* not terminal, and no thread left that would make it so.
Stages == {"none", "launch", "made", "marked", "watch", "release", "done",
           "orphan"}

Idle == [at |-> "idle"]

NewAttempt == [at |-> "launch", cancel |-> FALSE]

NoAttempt == [at |-> "none", cancel |-> FALSE]

ContainTypeOK ==
    /\ service \in {"up", "stopping", "down"}
    /\ broken \in BOOLEAN
    /\ ledger \in [Entries -> Entry] /\ stored \in [Entries -> Entry]
    /\ attempt \in [Entries -> [at : Stages, cancel : BOOLEAN]]
    /\ target \in [Entries -> {"none", "suspended", "runs", "over"}]
    /\ launched \in [Entries -> Nat]
    /\ imported \in [Entries -> {"none", "creating", "prepared", "intent",
                                 "published"}]
    /\ published \in [Entries -> BOOLEAN]
    /\ control \in {Idle} \cup
         [at : {"creating", "staged", "validated", "committed", "moved",
                "recorded"}, e : Entries]

ContainInit ==
    /\ service = "up" /\ broken = FALSE
    /\ ledger = [e \in Entries |-> NoEntry] /\ stored = ledger
    /\ attempt = [e \in Entries |-> NoAttempt]
    /\ target = [e \in Entries |-> "none"]
    /\ launched = [e \in Entries |-> 0]
    /\ imported = [e \in Entries |-> "none"]
    /\ published = [e \in Entries |-> FALSE]
    /\ control = Idle

Answers == service # "down" /\ ~broken
Known(e) == Answers /\ ledger[e].phase # "none"
Lives(e) == target[e] \in {"suspended", "runs"}
NotTerminal(e) == attempt[e].at \notin {"none", "done"}

\* The reservation of every attempt is the global one, shared at first.
Conflicts(es, e, shared) ==
    \E d \in DOMAIN es \ {e} : es[d].held /\ ~(es[d].shared /\ shared)

-----------------------------------------------------------------------------
(* The ledger.  A change is made in memory and the whole ledger is then     *)
(* written to a temporary file, moved over the old one and read back.  A    *)
(* write that fails, before or after the move, makes the ledger unavailable *)
(* until the service restarts; the history limit is one way to fail.        *)

Persisted(es) == ledger' = es /\ stored' = es /\ UNCHANGED broken
PersistFails(es) == ledger' = es /\ stored' \in {stored, es} /\ broken' = TRUE
Persist(es) == Persisted(es) \/ PersistFails(es)

Sets(e, entry) == [ledger EXCEPT ![e] = entry]

Fresh(phase) == [NoEntry EXCEPT !.phase = phase, !.held = TRUE, !.shared = TRUE]

Prepare(e) ==
    /\ service = "up" /\ ~broken
    /\ ledger[e].phase = "none"
    /\ ~Conflicts(ledger, e, TRUE)
    /\ Persist(Sets(e, Fresh("prepared")))
    /\ UNCHANGED <<service, attempt, target, launched, importVars>>

\* An abort, or a run whose launch token cannot be made; the release that
\* follows is ReleaseEntry.
AbortBeforeLaunch(e) ==
    /\ service = "up" /\ ~broken
    /\ \/ /\ ledger[e].phase = "prepared"
          /\ Persist(Sets(e, [ledger[e] EXCEPT !.phase = "not_started"]))
       \/ /\ ledger[e].phase = "none"
          /\ ~Conflicts(ledger, e, TRUE)
          /\ Persist(Sets(e, Fresh("not_started")))
    /\ UNCHANGED <<service, attempt, target, launched, importVars>>

Settled == {"not_started", "terminal"}

\* As if a reservation could be released while its process may still run.
ReleasableAlways(entry) == entry.held /\ ~entry.hold

Releasable(entry) == entry.held /\ ~entry.hold /\ entry.phase \in Settled

Released(entry) == IF Releasable(entry) THEN [entry EXCEPT !.held = FALSE] ELSE entry

\* ServiceAttemptLedger.Release, which an abort, a cancellation and every
\* inspection call after what they did before.
ReleaseEntry(e) ==
    /\ Known(e)
    /\ Releasable(ledger[e])
    /\ Persist(Sets(e, Released(ledger[e])))
    /\ UNCHANGED <<service, attempt, target, launched, importVars>>

Unknown(entry) ==
    IF entry.phase \in {"committed", "running"}
    THEN [entry EXCEPT !.phase = "unknown"] ELSE entry

\* MarkUnknown by a thread that goes on whether or not the ledger answers.
TryMarkUnknown(e) ==
    IF ~broken /\ Unknown(ledger[e]) # ledger[e]
    THEN Persist(Sets(e, Unknown(ledger[e])))
    ELSE UNCHANGED ledgerVars

Terminal(entry, cancelled) ==
    [entry EXCEPT !.phase = "terminal", !.cancel = @ \/ cancelled]

Cancelled(entry) ==
    [entry EXCEPT !.cancel = TRUE,
                  !.phase = IF @ = "prepared" THEN "not_started" ELSE @]

\* RequestCancellation of a client, a timeout or a stop, in the ledger.
RequestCancellation(e) ==
    /\ Known(e)
    /\ ledger[e].held /\ ~ledger[e].cancel
    /\ Persist(Sets(e, Cancelled(ledger[e])))
    /\ UNCHANGED <<service, attempt, target, launched, importVars>>

-----------------------------------------------------------------------------
(* The process.                                                            *)

RunDispatch(e) ==
    /\ service = "up" /\ ~broken
    /\ ledger[e].phase = "prepared" /\ attempt[e].at = "none"
    /\ Cardinality({d \in Entries : NotTerminal(d)}) < MaxProcesses
    /\ LET es == Sets(e, [ledger[e] EXCEPT !.phase = "committed"])
       IN  \/ Persisted(es) /\ attempt' = [attempt EXCEPT ![e] = NewAttempt]
           \/ PersistFails(es) /\ UNCHANGED attempt
    /\ UNCHANGED <<service, target, launched, importVars>>

CreateSuspended(e) ==
    /\ service # "down"
    /\ attempt[e].at = "launch" /\ ~attempt[e].cancel
    /\ attempt' = [attempt EXCEPT ![e].at = "made"]
    /\ target' = [target EXCEPT ![e] = "suspended"]
    /\ UNCHANGED <<service, ledgerVars, launched, importVars>>

\* Another holder of the Job's name: nothing was created, and the attempt
\* may be taken back.
JobCollision(e) ==
    /\ service # "down" /\ attempt[e].at = "launch"
    /\ attempt' = [attempt EXCEPT ![e] = NoAttempt]
    /\ IF ~broken /\ ledger[e].phase \in {"committed", "unknown"}
             /\ ~ledger[e].pid /\ ledger[e].held
       THEN Persist(Sets(e, [ledger[e] EXCEPT !.phase = "not_started",
                                              !.held = ledger[e].hold]))
       ELSE UNCHANGED ledgerVars
    /\ UNCHANGED <<service, target, launched, importVars>>

\* As if the process were resumed before its pid is in the ledger.
ResumeUnmarked(e) ==
    /\ service # "down" /\ attempt[e].at = "made" /\ ~attempt[e].cancel
    /\ attempt' = [attempt EXCEPT ![e].at = "marked"]
    /\ UNCHANGED <<service, ledgerVars, target, launched, importVars>>

\* beforeResume: the pid is in the ledger before the process may run.
MarkRunning(e) ==
    /\ service # "down" /\ attempt[e].at = "made" /\ ~attempt[e].cancel
    /\ ~broken /\ ledger[e].phase = "committed"
    /\ Persisted(Sets(e, [ledger[e] EXCEPT !.phase = "running", !.pid = TRUE]))
    /\ attempt' = [attempt EXCEPT ![e].at = "marked"]
    /\ UNCHANGED <<service, target, launched, importVars>>

ResumeThread(e) ==
    /\ service # "down" /\ attempt[e].at = "marked"
    /\ attempt' = [attempt EXCEPT ![e].at = "watch"]
    /\ target' = [target EXCEPT ![e] = "runs"]
    /\ launched' = [launched EXCEPT ![e] = @ + 1]
    /\ UNCHANGED <<service, ledgerVars, importVars>>

Ended(e) == target' = [target EXCEPT ![e] = IF @ = "none" THEN @ ELSE "over"]

\* A cancellation, a refused or failed write, or any other failure before
\* the launch returns: the Job is closed, which kills the process, and the
\* outcome is recorded as unknown.  The attempt stays registered.
LaunchFails(e) ==
    /\ service # "down" /\ attempt[e].at \in {"launch", "made", "marked"}
    /\ attempt' = [attempt EXCEPT ![e].at = "orphan"]
    /\ Ended(e)
    /\ \/ TryMarkUnknown(e)
       \/ /\ attempt[e].at = "made" /\ ~broken /\ ledger[e].phase = "committed"
          /\ PersistFails(Sets(e, [ledger[e] EXCEPT !.phase = "running", !.pid = TRUE]))
    /\ UNCHANGED <<service, launched, importVars>>

ProcessEnds(e) ==
    /\ target[e] = "runs"
    /\ Ended(e)
    /\ UNCHANGED <<service, ledgerVars, attempt, launched, importVars>>

\* The second half of a cancellation: the launching thread will see the
\* flag, a running process is terminated with its Job.
CancelAttempt(e) ==
    /\ service # "down" /\ NotTerminal(e)
    /\ ledger[e].cancel /\ ~attempt[e].cancel
    /\ attempt' = [attempt EXCEPT ![e].cancel = TRUE]
    /\ IF attempt[e].at \in {"watch", "release"} THEN Ended(e) ELSE UNCHANGED target
    /\ UNCHANGED <<service, ledgerVars, launched, importVars>>

\* The flag arrives while the attempt has no process to terminate yet; its
\* monitor finds it set.
MonitorCancels(e) ==
    /\ service # "down" /\ attempt[e].at = "watch" /\ attempt[e].cancel
    /\ target[e] = "runs"
    /\ Ended(e)
    /\ UNCHANGED <<service, ledgerVars, attempt, launched, importVars>>

\* The Job reports no process: the end is recorded, then released.
MonitorRecords(e) ==
    /\ service # "down" /\ attempt[e].at = "watch" /\ target[e] = "over"
    /\ ~broken /\ ledger[e].phase \in {"committed", "running", "unknown"}
    /\ LET es == Sets(e, Terminal(ledger[e], attempt[e].cancel))
       IN  \/ Persisted(es) /\ attempt' = [attempt EXCEPT ![e].at = "release"]
           \/ PersistFails(es) /\ attempt' = [attempt EXCEPT ![e].at = "orphan"]
    /\ UNCHANGED <<service, target, launched, importVars>>

MonitorReleases(e) ==
    /\ service # "down" /\ attempt[e].at = "release" /\ ~broken
    /\ LET es == Sets(e, Released(ledger[e]))
       IN  \/ Persisted(es) /\ attempt' = [attempt EXCEPT ![e].at = "done"]
           \/ /\ Releasable(ledger[e]) /\ PersistFails(es)
              /\ attempt' = [attempt EXCEPT ![e].at = "orphan"]
    /\ UNCHANGED <<service, target, launched, importVars>>

\* The ledger is unavailable, or the process outlives its termination.
MonitorGivesUp(e) ==
    /\ service # "down" /\ attempt[e].at \in {"watch", "release"}
    /\ broken \/ (attempt[e].cancel /\ target[e] = "runs")
    /\ attempt' = [attempt EXCEPT ![e].at = "orphan"]
    /\ TryMarkUnknown(e)
    /\ UNCHANGED <<service, target, launched, importVars>>

\* No thread of the service is at work on it and its Job is gone or empty.
Reconcilable(e) == ledger[e].phase = "unknown" /\ ~NotTerminal(e) /\ ~Lives(e)

\* Only a recorded pid, that is a process seen in the Job, makes the
\* missing Job a proof of the end; the release that follows is ReleaseEntry.
InspectReconciles(e) ==
    /\ Known(e)
    /\ Reconcilable(e) /\ ledger[e].pid
    /\ Persist(Sets(e, Terminal(ledger[e], FALSE)))
    /\ UNCHANGED <<service, attempt, target, launched, importVars>>

-----------------------------------------------------------------------------
(* Imports: one command at a time holds the lock of                        *)
(* ServiceImportTransactionRuntime; an exception ends it at any step.      *)

\* As if an import did not look at the reservations of the others.
AcquireAnyway(e) ==
    ledger[e].held /\ ledger[e].phase \in {"committed", "running"} /\ ~ledger[e].cancel

MayAcquire(e) ==
    /\ ledger[e].held /\ ledger[e].phase \in {"committed", "running"}
    /\ ~ledger[e].cancel
    /\ ~Conflicts(ledger, e, FALSE)

AcquireImportReservation(e) ==
    /\ service = "up" /\ Known(e) /\ control = Idle /\ imported[e] = "none"
    /\ LET es == Sets(e, [ledger[e] EXCEPT !.shared = FALSE, !.hold = TRUE])
       IN  \/ /\ ledger[e].hold /\ ~ledger[e].cancel
              /\ control' = [at |-> "creating", e |-> e] /\ UNCHANGED ledgerVars
           \/ /\ ~ledger[e].hold /\ MayAcquire(e)
              /\ \/ Persisted(es) /\ control' = [at |-> "creating", e |-> e]
                 \/ PersistFails(es) /\ UNCHANGED control
    /\ UNCHANGED <<service, attempt, target, launched, imported, published>>

\* The record is saved before the stage is made, and again once it is.
PrepareImport(e) ==
    /\ service # "down"
    /\ \/ /\ control = [at |-> "creating", e |-> e]
          /\ imported' = [imported EXCEPT ![e] = "creating"]
          /\ control' = [at |-> "staged", e |-> e]
       \/ /\ control = [at |-> "staged", e |-> e]
          /\ imported' = [imported EXCEPT ![e] = "prepared"]
          /\ control' = Idle
    /\ UNCHANGED <<service, ledgerVars, attempt, target, launched, published>>

\* As if a cancellation did not stop an import that is being validated.
EnsureRunningOnly(entry) ==
    /\ entry.phase \in {"committed", "running"} /\ entry.held /\ entry.hold
    /\ ~entry.commit

EnsureImportMayValidate(entry) ==
    /\ ~entry.cancel
    /\ entry.phase \in {"committed", "running"} /\ entry.held /\ entry.hold
    /\ ~entry.commit

ValidateImport(e) ==
    /\ service = "up" /\ Known(e) /\ control = Idle /\ imported[e] = "prepared"
    /\ EnsureImportMayValidate(ledger[e])
    /\ control' = [at |-> "validated", e |-> e]
    /\ UNCHANGED <<service, ledgerVars, attempt, target, launched, imported, published>>

\* The ledger commits before the intent is saved, and checks once more.
CommitImportPublication(e) ==
    /\ service # "down" /\ control = [at |-> "validated", e |-> e]
    /\ ~broken /\ EnsureImportMayValidate(ledger[e])
    /\ LET es == Sets(e, [ledger[e] EXCEPT !.commit = TRUE])
       IN  \/ /\ Persisted(es)
              /\ \/ /\ imported' = [imported EXCEPT ![e] = "intent"]
                    /\ control' = [at |-> "committed", e |-> e]
                 \/ UNCHANGED imported /\ control' = Idle
           \/ PersistFails(es) /\ UNCHANGED imported /\ control' = Idle
    /\ UNCHANGED <<service, attempt, target, launched, published>>

Publish(e) ==
    /\ service # "down" /\ control = [at |-> "committed", e |-> e]
    /\ published' = [published EXCEPT ![e] = TRUE]
    /\ control' = [at |-> "moved", e |-> e]
    /\ UNCHANGED <<service, ledgerVars, attempt, target, launched, imported>>

SavePublished(e) ==
    /\ service # "down" /\ control = [at |-> "moved", e |-> e]
    /\ imported' = [imported EXCEPT ![e] = "published"]
    /\ control' = [at |-> "recorded", e |-> e]
    /\ UNCHANGED <<service, ledgerVars, attempt, target, launched, published>>

\* The hold is cleared and written, then the reservation released if the
\* process is settled (ReleaseEntry, by this thread or by an inspection).
CompleteImportReservation(e) ==
    /\ service # "down" /\ control = [at |-> "recorded", e |-> e]
    /\ control' = Idle
    /\ IF ~broken /\ ledger[e].hold
       THEN Persist(Sets(e, [ledger[e] EXCEPT !.hold = FALSE]))
       ELSE UNCHANGED ledgerVars
    /\ UNCHANGED <<service, attempt, target, launched, imported, published>>

\* As if an inspection trusted the intent and not the destination.
InspectIntent(e) ==
    /\ service = "up" /\ Known(e) /\ control = Idle
    /\ imported[e] \in {"intent", "published"}
    /\ imported' = [imported EXCEPT ![e] = "published"]
    /\ control' = [at |-> "recorded", e |-> e]
    /\ UNCHANGED <<service, ledgerVars, attempt, target, launched, published>>

\* InspectEntry: a client asks again; what the destination holds decides
\* whether an interrupted publication happened.
InspectPublication(e) ==
    /\ service = "up" /\ Known(e) /\ control = Idle
    /\ imported[e] \in {"intent", "published"} /\ published[e]
    /\ imported' = [imported EXCEPT ![e] = "published"]
    /\ control' = [at |-> "recorded", e |-> e]
    /\ UNCHANGED <<service, ledgerVars, attempt, target, launched, published>>

ControlFails ==
    /\ service # "down" /\ control # Idle
    /\ control' = Idle
    /\ UNCHANGED <<service, ledgerVars, attempt, target, launched, imported, published>>

-----------------------------------------------------------------------------
(* The service.                                                            *)

\* No new connection is accepted; StopAsync runs once the calls have ended.
BeginStop ==
    /\ service = "up"
    /\ service' = "stopping"
    /\ UNCHANGED <<ledgerVars, attempt, target, launched, importVars>>

\* StopAsync gives up on an attempt whose monitor did not finish in time.
StopAttempt(e) ==
    /\ service = "stopping" /\ control = Idle
    /\ attempt[e].at \in {"watch", "release", "orphan"} /\ attempt[e].cancel
    /\ TryMarkUnknown(e)
    /\ attempt' = [attempt EXCEPT ![e].at = "orphan"]
    /\ Ended(e)
    /\ UNCHANGED <<service, launched, importVars>>

\* The service ends, or dies: its Job handles close, which kills what they
\* hold (KILL_ON_JOB_CLOSE).
ServiceEnds ==
    /\ service # "down"
    /\ service' = "down" /\ broken' = FALSE
    /\ ledger' = [e \in Entries |-> NoEntry]
    /\ attempt' = [e \in Entries |-> NoAttempt]
    /\ target' = [e \in Entries |-> IF target[e] = "none" THEN "none" ELSE "over"]
    /\ control' = Idle
    /\ UNCHANGED <<stored, launched, imported, published>>

\* A dispatch without a recorded end is unknown to the next service.
Recovered(es) == [e \in Entries |-> Unknown(es[e])]

\* A write that fails while loading fails the start.
ServiceStarts ==
    /\ service = "down"
    /\ \/ /\ service' = "up"
          /\ ledger' = Recovered(stored) /\ stored' = Recovered(stored)
       \/ /\ UNCHANGED <<service, ledger>>
          /\ stored' = Recovered(stored)
    /\ UNCHANGED <<broken, attempt, target, launched, importVars>>

ClientStep(e) ==
    \/ Prepare(e) \/ AbortBeforeLaunch(e) \/ RequestCancellation(e)
    \/ CancelAttempt(e) \/ ReleaseEntry(e) \/ InspectReconciles(e)
    \/ RunDispatch(e)

LaunchStep(e) ==
    \/ CreateSuspended(e) \/ JobCollision(e) \/ MarkRunning(e)
    \/ ResumeThread(e) \/ LaunchFails(e)

MonitorStep(e) ==
    \/ ProcessEnds(e) \/ MonitorCancels(e) \/ MonitorRecords(e)
    \/ MonitorReleases(e) \/ MonitorGivesUp(e) \/ StopAttempt(e)

ImportStep(e) ==
    \/ AcquireImportReservation(e) \/ PrepareImport(e) \/ ValidateImport(e)
    \/ CommitImportPublication(e) \/ Publish(e) \/ SavePublished(e)
    \/ CompleteImportReservation(e) \/ InspectPublication(e)

ContainNext ==
    \/ \E e \in Entries : ClientStep(e) \/ LaunchStep(e) \/ MonitorStep(e) \/ ImportStep(e)
    \/ ControlFails \/ BeginStop \/ ServiceEnds \/ ServiceStarts

ContainSpec == ContainInit /\ [][ContainNext]_containVars

-----------------------------------------------------------------------------

\* ValidateStored: what the loader refuses as ATTEMPT_STORE_CORRUPT.
Storable(entry) ==
    \/ entry = NoEntry
    \/ /\ entry.phase # "none"
       /\ entry.phase = "running" => entry.pid
       /\ entry.phase \in {"prepared", "committed", "not_started"} => ~entry.pid
       /\ ~entry.held => entry.phase \in Settled
       /\ ~(entry.hold /\ entry.shared)

\* The service can always load what it last wrote: whatever the threads did
\* and wherever a crash or a failed write cut them short, every entry in the
\* file passes ValidateStored and no two held reservations conflict.
LedgerLoads ==
    \A e \in Entries :
        /\ Storable(stored[e])
        /\ stored[e].held => ~Conflicts(stored, e, stored[e].shared)

\* A writer is launched at most once, only under its reservation: a process
\* lives only while the file says so, one that ever ran has its pid in the
\* file, and what the file calls not started never ran.
LaunchIsFenced ==
    \A e \in Entries :
        /\ launched[e] <= 1
        /\ Lives(e) => /\ stored[e].held
                       /\ stored[e].phase \in {"committed", "running", "unknown"}
        /\ launched[e] > 0 => stored[e].pid
        /\ stored[e].phase = "not_started" => launched[e] = 0

\* From the reservation of an import to the record that it is published no
\* other writer lives, and what is at the destination was committed to and
\* is remembered: an import is never forgotten half-way.
PublicationIsAlone ==
    \A e \in Entries :
        /\ imported[e] \in {"creating", "prepared", "intent"} =>
             /\ stored[e].held /\ stored[e].hold
             /\ \A d \in Entries \ {e} : ~Lives(d)
        /\ published[e] => stored[e].commit /\ imported[e] \in {"intent", "published"}
        /\ imported[e] = "published" => published[e]

\* An import cancelled before it was committed to is never committed to, and
\* one that was not committed to never reaches its destination.
CancelledIsNotPublished ==
    [][\A e \in Entries :
        /\ stored[e].cancel /\ ~stored[e].commit => ~stored'[e].commit
        /\ published'[e] /\ ~published[e] => stored[e].commit]_containVars
=============================================================================
