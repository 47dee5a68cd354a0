----------------------------- MODULE ShellTasks -----------------------------
(***************************************************************************)
(* Durable shell tasks on POSIX                                            *)
(* (packages/capabilities/src/durable-shell-task-store.ts): a host reserves *)
(* a marker, writes task.json and spawns a detached worker; the worker      *)
(* spawns the command in a process group of its own, watches it and records *)
(* how it ended; any host may inspect, cancel and reconcile the task.      *)
(*                                                                         *)
(* task.json is written whole by atomic rename, by the worker while it      *)
(* lives and by hosts once they believe it gone.  Hosts and workers may die *)
(* at any step; the command's group lives on.                              *)
(***************************************************************************)
EXTENDS WriterIndex

CONSTANTS Tasks,       \* the task ids among Jobs
          LaunchedBy,  \* LaunchedBy[t]: the hosts that are asked to launch it
          MaxLives     \* bound on host restarts

ASSUME TasksAssumption == Tasks \subseteq Jobs /\ LaunchedBy \in [Tasks -> SUBSET Hosts]

VARIABLES meta,      \* task.json
          spec,      \* the spec file: unlinked by the worker that reads it
          worker,    \* the worker process
          group,     \* the command's process group
          target,    \* the worker's stopTarget
          cancel,    \* the posix.cancel file
          starts,    \* how often the command was spawned (history)
          launch,    \* launch[h]: launchWithDigest in flight
          view,      \* view[h]: the record a cancellation works on
          lives      \* host restarts so far

taskVars == <<meta, spec, worker, group, target, cancel, starts>>
hostVars == <<launch, view, lives>>
shellVars == <<indexVars, taskVars, hostVars>>

Terminal == {"completed", "failed", "cancelled", "timed_out"}
States == {"none", "running", "termination_unverified"} \cup Terminal
\* child: child_pid is recorded; stop: posix_stop_target; unlaunched:
\* posix_launch_not_started.
Meta == [state : States, child : BOOLEAN, stop : {"none", "cancelled", "timed_out"}, unlaunched : BOOLEAN]
NoMeta == [state |-> "none", child |-> FALSE, stop |-> "none", unlaunched |-> FALSE]
NoLaunch == [task |-> "none", at |-> "idle"]
NoView == [task |-> "none", meta |-> NoMeta]

ShellTypeOK ==
    /\ IndexTypeOK
    /\ meta \in [Tasks -> Meta]
    /\ spec \in [Tasks -> BOOLEAN] /\ cancel \in [Tasks -> BOOLEAN]
    /\ worker \in [Tasks -> {"none", "boot", "spawned", "watch", "exited", "dead"}]
    /\ group \in [Tasks -> {"none", "root", "orphans", "ok", "bad"}]
    /\ target \in [Tasks -> {"none", "cancelled", "timed_out"}]
    /\ starts \in [Tasks -> 0..2]
    /\ \A h \in Hosts : launch[h].task \in Tasks \cup {"none"} /\ view[h].task \in Tasks \cup {"none"}

ShellInit ==
    /\ IndexInit
    /\ meta = [t \in Tasks |-> NoMeta]
    /\ spec = [t \in Tasks |-> FALSE]
    /\ worker = [t \in Tasks |-> "none"]
    /\ group = [t \in Tasks |-> "none"]
    /\ target = [t \in Tasks |-> "none"]
    /\ cancel = [t \in Tasks |-> FALSE]
    /\ starts = [t \in Tasks |-> 0]
    /\ launch = [h \in Hosts |-> NoLaunch]
    /\ view = [h \in Hosts |-> NoView]
    /\ lives = 0

WorkerLive(t) == worker[t] \in {"boot", "spawned", "watch"}
GroupOver(t) == group[t] \in {"ok", "bad"}
\* The command's group still has processes.
Working(t) == group[t] \in {"root", "orphans"}

\* Mutant of GroupIsEmpty: no recorded child, no processes.
NoChildNoGroup(t, m) == ~m.child \/ ~Working(t)
\* posixGroupIsEmpty on a record m: no child was launched, or the recorded
\* child's group is empty.  Without a recorded child nothing is proved.
GroupIsEmpty(t, m) == \/ m.unlaunched /\ ~m.child
                      \/ m.child /\ ~Working(t)

\* The tasks inspectTaskForIndex calls terminal.
Over == {t \in Tasks : meta[t].state \in Terminal /\ GroupIsEmpty(t, meta[t])}

-----------------------------------------------------------------------------
\* launchWithDigest: there is no record yet, so the launch goes on to reserve.
LaunchCheck(h, t, k) ==
    /\ h \in LaunchedBy[t] /\ launch[h] = NoLaunch /\ meta[t].state = "none"
    /\ Observe(h, t, k, Over)
    /\ launch' = [launch EXCEPT ![h] = [task |-> t, at |-> "checked"]]
    /\ UNCHANGED <<taskVars, view, lives>>

LaunchReserve(h) ==
    /\ launch[h].at = "checked" /\ Reserve(h)
    /\ launch' = [launch EXCEPT ![h].at = "reserved"]
    /\ UNCHANGED <<taskVars, view, lives>>

LaunchRefused(h) ==
    /\ launch[h].at = "checked" /\ Refuse(h)
    /\ launch' = [launch EXCEPT ![h] = NoLaunch]
    /\ UNCHANGED <<taskVars, view, lives>>

LaunchWrite(h) ==
    LET t == launch[h].task IN
    /\ launch[h].at = "reserved" /\ ~spec[t]
    /\ meta' = [meta EXCEPT ![t] = [NoMeta EXCEPT !.state = "running"]]
    /\ spec' = [spec EXCEPT ![t] = TRUE]
    /\ launch' = [launch EXCEPT ![h].at = "written"]
    /\ UNCHANGED <<indexVars, worker, group, target, cancel, starts, view, lives>>

LaunchSpawn(h) ==
    LET t == launch[h].task IN
    /\ launch[h].at = "written"
    /\ worker' = [worker EXCEPT ![t] = "boot"]
    /\ target' = [target EXCEPT ![t] = "none"]
    /\ launch' = [launch EXCEPT ![h] = NoLaunch]
    /\ UNCHANGED <<indexVars, meta, spec, group, cancel, starts, view, lives>>

\* Writing or spawning throws: the task has failed, unlaunched, and the
\* reservation is released at once.
LaunchFail(h) ==
    LET t == launch[h].task IN
    /\ launch[h].at \in {"reserved", "written"}
    /\ meta' = [meta EXCEPT ![t] = [NoMeta EXCEPT !.state = "failed", !.unlaunched = TRUE]]
    /\ Unmark(t)
    /\ launch' = [launch EXCEPT ![h] = NoLaunch]
    /\ UNCHANGED <<noted, up, spec, worker, group, target, cancel, starts, view, lives>>

-----------------------------------------------------------------------------
\* The worker spawns the command; the child's pid is in its memory only.
WorkerSpawn(t) ==
    /\ worker[t] = "boot" /\ spec[t]
    /\ spec' = [spec EXCEPT ![t] = FALSE]
    /\ worker' = [worker EXCEPT ![t] = "spawned"]
    /\ group' = [group EXCEPT ![t] = "root"]
    /\ starts' = [starts EXCEPT ![t] = @ + 1]
    /\ UNCHANGED <<indexVars, hostVars, meta, target, cancel>>

WorkerPersist(t) ==
    /\ worker[t] = "spawned"
    /\ worker' = [worker EXCEPT ![t] = "watch"]
    /\ meta' = [meta EXCEPT ![t].child = TRUE]
    /\ UNCHANGED <<indexVars, hostVars, spec, group, target, cancel, starts>>

\* finish() without a child: spawning threw.
WorkerCannotSpawn(t) ==
    /\ worker[t] = "boot"
    /\ worker' = [worker EXCEPT ![t] = "exited"]
    /\ meta' = [meta EXCEPT ![t].state = "failed", ![t].unlaunched = TRUE]
    /\ UNCHANGED <<indexVars, hostVars, spec, group, target, cancel, starts>>

\* The root of the group exits, alone or leaving descendants; these end later.
CommandExits(t) ==
    /\ group[t] = "root"
    /\ group' = [group EXCEPT ![t] = "orphans"]
    /\ UNCHANGED <<indexVars, hostVars, meta, spec, worker, target, cancel, starts>>

GroupEnds(t) ==
    /\ Working(t)
    /\ \E r \in {"ok", "bad"} : group' = [group EXCEPT ![t] = r]
    /\ UNCHANGED <<indexVars, hostVars, meta, spec, worker, target, cancel, starts>>

\* The control timer finds the cancel file, or the time is up, which overrides
\* a cancellation: the decision is recorded before the group is stopped.
WorkerStop(t, why) ==
    /\ worker[t] = "watch" /\ target[t] # why
    /\ why = "cancelled" => cancel[t] /\ target[t] = "none"
    /\ target' = [target EXCEPT ![t] = why]
    /\ meta' = [meta EXCEPT ![t].stop = why]
    /\ UNCHANGED <<indexVars, hostVars, spec, worker, group, cancel, starts>>

WorkerKill(t) ==
    /\ worker[t] = "watch" /\ target[t] # "none" /\ Working(t)
    /\ group' = [group EXCEPT ![t] = "bad"]
    /\ UNCHANGED <<indexVars, hostVars, meta, spec, worker, target, cancel, starts>>

\* Mutant of Outcome: what the group reported is stored as it is.
OutcomeRaw(t) == group[t]
\* How a finished group is recorded.
Outcome(t) == IF target[t] # "none" THEN target[t] ELSE IF group[t] = "ok" THEN "completed" ELSE "failed"

WorkerFinish(t) ==
    /\ worker[t] = "watch" /\ GroupOver(t)
    /\ worker' = [worker EXCEPT ![t] = "exited"]
    /\ meta' = [meta EXCEPT ![t].state = Outcome(t)]
    /\ UNCHANGED <<indexVars, hostVars, spec, group, target, cancel, starts>>

\* finish() after an exit or a stop, while the group has processes or, empty,
\* has left its output pipes open elsewhere.
WorkerUnverified(t) ==
    /\ worker[t] = "watch" /\ meta[t].state = "running"
    /\ group[t] # "root" \/ target[t] # "none"
    /\ meta' = [meta EXCEPT ![t].state = "termination_unverified"]
    /\ UNCHANGED <<indexVars, hostVars, spec, worker, group, target, cancel, starts>>

WorkerDies(t) ==
    /\ WorkerLive(t)
    /\ worker' = [worker EXCEPT ![t] = "dead"]
    /\ UNCHANGED <<indexVars, hostVars, meta, spec, group, target, cancel, starts>>

-----------------------------------------------------------------------------
\* reconcilePosix: the worker is gone and the group is empty, so the host
\* records the end the worker did not.
Reconcile(h, t) ==
    /\ h \in up /\ meta[t].state \in {"running", "termination_unverified"}
    /\ GroupIsEmpty(t, meta[t]) /\ ~WorkerLive(t)
    /\ meta' = [meta EXCEPT ![t].state = IF meta[t].stop # "none" THEN meta[t].stop ELSE "failed"]
    /\ UNCHANGED <<indexVars, hostVars, spec, worker, group, target, cancel, starts>>

\* releaseTerminalReservation, from any read of the task.
ReleaseTerminal(h, t) ==
    /\ h \in up /\ t \in Over
    /\ Unmark(t)
    /\ UNCHANGED <<noted, up, taskVars, hostVars>>

\* cancel: reads and reconciles the record, ...
CancelRead(h, t) ==
    /\ h \in up /\ view[h] = NoView
    /\ meta[t].state \in {"running", "termination_unverified"}
    /\ view' = [view EXCEPT ![h] = [task |-> t, meta |-> meta[t]]]
    /\ UNCHANGED <<indexVars, taskVars, launch, lives>>

\* ... then leaves the cancel file for the worker, or, when the worker is gone,
\* writes the stop into the record it read and stops the group itself; that the
\* stop failed is swallowed.
CancelAct(h) ==
    LET t == view[h].task
        m == view[h].meta IN
    /\ h \in up /\ view[h] # NoView
    /\ cancel' = [cancel EXCEPT ![t] = TRUE]
    /\ IF WorkerLive(t) \/ ~m.child
       THEN UNCHANGED <<meta, group>>
       ELSE /\ meta' = [meta EXCEPT ![t] = [m EXCEPT !.stop = "cancelled"]]
            /\ group' \in {group, [group EXCEPT ![t] = IF Working(t) THEN "bad" ELSE @]}
    /\ view' = [view EXCEPT ![h] = NoView]
    /\ UNCHANGED <<indexVars, spec, worker, target, starts, launch, lives>>

HostCrash(h) ==
    /\ IndexCrash(h)
    /\ launch' = [launch EXCEPT ![h] = NoLaunch]
    /\ view' = [view EXCEPT ![h] = NoView]
    /\ UNCHANGED <<taskVars, lives>>

HostRestart(h) ==
    /\ lives < MaxLives /\ IndexRestart(h)
    /\ lives' = lives + 1
    /\ UNCHANGED <<taskVars, launch, view>>

WorkerStep(t) ==
    \/ WorkerSpawn(t) \/ WorkerPersist(t) \/ WorkerCannotSpawn(t)
    \/ WorkerStop(t, "cancelled") \/ WorkerStop(t, "timed_out") \/ WorkerKill(t)
    \/ WorkerFinish(t) \/ WorkerUnverified(t)
LaunchStep(h) ==
    \/ \E t \in Tasks, k \in {"opaque", "import"} : LaunchCheck(h, t, k)
    \/ LaunchReserve(h) \/ LaunchRefused(h) \/ LaunchWrite(h) \/ LaunchSpawn(h) \/ LaunchFail(h)
ReadStep(h, t) == Reconcile(h, t) \/ ReleaseTerminal(h, t)

ShellNext ==
    \/ \E h \in Hosts : LaunchStep(h) \/ CancelAct(h) \/ HostCrash(h) \/ HostRestart(h)
    \/ \E h \in Hosts, t \in Tasks : ReadStep(h, t) \/ CancelRead(h, t)
    \/ \E t \in Tasks : WorkerStep(t) \/ CommandExits(t) \/ GroupEnds(t) \/ WorkerDies(t)

ShellSpec == ShellInit /\ [][ShellNext]_shellVars

-----------------------------------------------------------------------------
\* A command that runs is covered by its marker, whoever died: the reservation
\* is given up only on proof that the group is empty.  And while a repository
\* import's command runs no other task's does.
RunningIsReserved ==
    /\ \A t \in Tasks : Working(t) => Reserved(t)
    /\ \A t, u \in Tasks :
          (Working(t) /\ Working(u) /\ t # u) =>
             \A m \in MarkerOf(t) \cup MarkerOf(u) : ~Exclusive(m.kind)

\* A recorded end is final.
TerminalIsFinal ==
    [][\A t \in Tasks : meta[t].state \in Terminal => meta'[t].state = meta[t].state]_shellVars

\* The command of a task id is run at most once.
RunsOnce == \A t \in Tasks : starts[t] <= 1
=============================================================================
