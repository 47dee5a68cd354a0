-------------------------- MODULE TunnelController --------------------------
(***************************************************************************)
(* The desktop's control of its own tunnel-client child process:           *)
(*   apps/desktop/src/main/tunnel-controller.ts                            *)
(*                                                                         *)
(* Start and Stop are operations of one queue (lifecycleTail), joined when *)
(* the same one is in flight; Stop aborts a Start that has not finished.   *)
(* Restarts after an unexpected exit are driven by timers and promises     *)
(* beside that queue.  An action is the code between two awaits.           *)
(***************************************************************************)
EXTENDS Integers, Sequences, SequencesExt, FiniteSets

CONSTANTS
    AutoReconnect,    \* autoReconnectEnabled()
    MaxAutoRestarts,  \* maxAutoRestarts(), 0 for no limit
    MaxChildren,      \* bound: children spawned in a behaviour
    MaxQueue          \* bound: operations waiting

ASSUME TunnelControllerAssumption ==
    /\ AutoReconnect \in BOOLEAN
    /\ MaxAutoRestarts \in Nat /\ MaxChildren \in Nat /\ MaxQueue \in Nat

VARIABLES
    queue,     \* operations, the head is the one that runs
    at,        \* where the head operation stands
    child,     \* the ChildProcess the controller refers to, 0 for null
    procs,     \* the tunnel-client processes of this desktop that run
    spawned,   \* how many were spawned
    intended,  \* intentionalStop
    desired,   \* the persisted desired state
    lockHeld,  \* tunnelLock # null
    apiKey,    \* lastApiKey # null
    managed,   \* runtimeMode = 'native-managed' and runtimeSupervisor # null
    timer,     \* restartTimer # null
    preparing, \* restarts that await repairDesktopTunnelProfile
    exits,     \* exits that await readExitHint in applyUnexpectedExit
    attempts   \* restartAttempts

tcVars == <<queue, at, child, procs, spawned, intended, desired, lockHeld,
            apiKey, managed, timer, preparing, exits, attempts>>

Op(kind) == [kind |-> kind, aborted |-> FALSE]
Ops == [kind : {"start", "stop"}, aborted : BOOLEAN]
InQueue(kind) == \E i \in DOMAIN queue :
                    queue[i].kind = kind /\ ~queue[i].aborted
Running(kind, place) == queue # << >> /\ Head(queue).kind = kind /\ at = place
Aborted == Head(queue).aborted
Finish == queue' = Tail(queue) /\ at' = "begin"
ChildRuns == child \in procs

ControllerInit ==
    /\ queue = << >>
    /\ at = "begin"
    /\ child = 0
    /\ procs = {}
    /\ spawned = 0
    /\ intended = FALSE
    /\ desired = "running"
    /\ lockHeld = FALSE
    /\ apiKey = FALSE
    /\ managed = FALSE
    /\ timer = FALSE
    /\ preparing = 0
    /\ exits = 0
    /\ attempts = 0

\* start(), and startAutomatically(), which honours a persisted stop.
StartTunnel(persist) ==
    /\ Len(queue) < MaxQueue
    /\ persist \/ (desired = "running" /\ ~intended)
    /\ desired' = IF persist THEN "running" ELSE desired
    /\ queue' = IF InQueue("start") THEN queue ELSE Append(queue, Op("start"))
    /\ UNCHANGED <<at, child, procs, spawned, intended, lockHeld, apiKey, managed,
                   timer, preparing, exits, attempts>>

\* saveApiKey and markAuthConfigurationChanged: the key in use is forgotten and
\* the supervisor of the managed runtime disposed.
AuthChanges ==
    /\ apiKey' = FALSE
    /\ managed' = FALSE
    /\ UNCHANGED <<queue, at, child, procs, spawned, intended, desired, lockHeld,
                   timer, preparing, exits, attempts>>

\* requestStop() from stop() and stopFromUser() (persist), stopOwned() and
\* stopForUpdate(): the flags change at once, the work is queued.
StopTunnel(persist) ==
    /\ Len(queue) < MaxQueue
    /\ desired' = IF persist THEN "stopped" ELSE desired
    /\ intended' = TRUE
    /\ timer' = FALSE
    /\ LET aborted == [i \in DOMAIN queue |->
                [queue[i] EXCEPT !.aborted = @ \/ queue[i].kind = "start"]]
       IN queue' = IF InQueue("stop") THEN aborted
                   ELSE Append(aborted, Op("stop"))
    /\ UNCHANGED <<at, child, procs, spawned, lockHeld, apiKey, managed, preparing,
                   exits, attempts>>

\* startOnce up to its first await: a managed runtime is asked to reconcile, a
\* child that runs is kept.
StartBegins ==
    /\ Running("start", "begin")
    /\ intended' = FALSE
    /\ timer' = FALSE
    /\ attempts' = 0
    /\ IF ~Aborted /\ ~managed /\ ChildRuns
       THEN Finish
       ELSE /\ at' = CASE Aborted -> "failed"
                     [] ~Aborted /\ managed -> "kicking"
                     [] OTHER -> "probing"
            /\ UNCHANGED queue
    /\ UNCHANGED <<child, procs, spawned, desired, lockHeld, apiKey, managed,
                   preparing, exits>>

\* The supervisor answers; a disposed one does not, and the start goes on.
StartKicks ==
    /\ Running("start", "kicking")
    /\ \/ ~Aborted /\ Finish
       \/ /\ Aborted \/ ~ChildRuns
          /\ at' = IF Aborted THEN "failed" ELSE "probing"
          /\ UNCHANGED queue
    /\ UNCHANGED <<child, procs, spawned, intended, desired, lockHeld, apiKey,
                   managed, timer, preparing, exits, attempts>>

\* The probe for a tunnel of someone else and tryStartNativeManagedRuntime,
\* which remembers the key before anybody has asked for the lock.  The start
\* ends here with the managed runtime, an error of it, a foreign tunnel or one
\* that cannot be judged, and keeps the key; or it falls back to the child.
StartProbes ==
    /\ Running("start", "probing")
    /\ \/ apiKey' = TRUE /\ managed' = TRUE
       \/ apiKey' \in {apiKey, TRUE} /\ managed' \in {managed, FALSE}
    /\ \/ Finish
       \/ /\ at' = "failed"
          /\ UNCHANGED queue
       \/ /\ managed' => managed
          /\ at' = "locking"
          /\ UNCHANGED queue
    /\ UNCHANGED <<child, procs, spawned, intended, desired, lockHeld, timer,
                   preparing, exits, attempts>>

\* ensureTunnelLock: a lock held elsewhere ends the start, the key stays.
StartLocks ==
    /\ Running("start", "locking")
    /\ \/ /\ lockHeld' = TRUE
          /\ at' = IF Aborted THEN "failed" ELSE "checking"
          /\ UNCHANGED queue
       \/ /\ ~lockHeld /\ UNCHANGED lockHeld
          /\ IF Aborted THEN at' = "failed" /\ UNCHANGED queue ELSE Finish
    /\ UNCHANGED <<child, procs, spawned, intended, desired, apiKey, managed, timer,
                   preparing, exits, attempts>>

\* Credential, profile repair and the doctor run; each await may end in an
\* error or find the start aborted.
StartChecks ==
    /\ Running("start", "checking")
    /\ \/ /\ ~Aborted
          /\ apiKey' = TRUE
          /\ at' = "spawning"
       \/ /\ at' = "failed"
          /\ UNCHANGED apiKey
    /\ UNCHANGED <<queue, child, procs, spawned, intended, desired, lockHeld,
                   managed, timer, preparing, exits, attempts>>

\* spawnRun: the new child replaces the reference to any earlier one.
Spawn ==
    /\ spawned < MaxChildren
    /\ spawned' = spawned + 1
    /\ child' = spawned'
    /\ procs' = procs \cup {spawned'}

\* The doctor returns; an abort during it is seen, none after.
StartSpawns ==
    /\ Running("start", "spawning")
    /\ IF Aborted
       THEN /\ at' = "failed"
            /\ UNCHANGED <<queue, child, procs, spawned, managed>>
       ELSE /\ Spawn
            /\ managed' = FALSE
            /\ Finish
    /\ UNCHANGED <<intended, desired, lockHeld, apiKey, timer, preparing, exits,
                   attempts>>

\* A mutant of StartFails: the lock goes even when the old child still runs.
FailAlwaysReleases ==
    /\ Running("start", "failed")
    /\ apiKey' = FALSE
    /\ lockHeld' = FALSE
    /\ Finish
    /\ UNCHANGED <<child, procs, spawned, intended, desired, managed, timer,
                   preparing, exits, attempts>>

\* The catch block: the key is forgotten, the lock kept only for a child, or
\* when its release cannot be confirmed.
StartFails ==
    /\ Running("start", "failed")
    /\ apiKey' = FALSE
    /\ lockHeld' \in {lockHeld, lockHeld /\ ChildRuns}
    /\ Finish
    /\ UNCHANGED <<child, procs, spawned, intended, desired, managed, timer,
                   preparing, exits, attempts>>

\* stopOnce of a managed runtime: it is verified stopped, or the stop throws.
\* The child and the lock are not looked at.
StopManaged ==
    /\ Running("stop", "begin")
    /\ managed
    /\ \/ /\ managed' = FALSE
          /\ apiKey' = FALSE
          /\ attempts' = 0
       \/ UNCHANGED <<managed, apiKey, attempts>>
    /\ Finish
    /\ UNCHANGED <<child, procs, spawned, intended, desired, lockHeld, timer,
                   preparing, exits>>

\* killOwnedChild: nothing to kill, or the identity is verified and the tree
\* is terminated, or the stop is refused and ownership retained.
StopKills ==
    /\ Running("stop", "begin")
    /\ ~managed
    /\ intended' = TRUE
    /\ timer' = FALSE
    /\ \/ /\ child' = IF ChildRuns THEN child ELSE 0
          /\ at' = IF ChildRuns THEN "killing" ELSE "releasing"
          /\ UNCHANGED queue
       \/ /\ ChildRuns
          /\ Finish
          /\ UNCHANGED child
    /\ UNCHANGED <<procs, spawned, desired, lockHeld, apiKey, managed, preparing,
                   exits, attempts>>

\* The child that was signalled is verified gone; its exit event has run.
StopVerifies ==
    /\ Running("stop", "killing")
    /\ ~ChildRuns
    /\ child' = 0
    /\ at' = "releasing"
    /\ UNCHANGED <<queue, procs, spawned, intended, desired, lockHeld, apiKey,
                   managed, timer, preparing, exits, attempts>>

\* releaseTunnelLock; an unconfirmed release throws and keeps the ownership.
StopReleases ==
    /\ Running("stop", "releasing")
    /\ \/ /\ lockHeld' = FALSE
          /\ apiKey' = FALSE
          /\ attempts' = 0
       \/ /\ lockHeld
          /\ UNCHANGED <<lockHeld, apiKey, attempts>>
    /\ Finish
    /\ UNCHANGED <<child, procs, spawned, intended, desired, managed, timer,
                   preparing, exits>>

\* handleTerminal: a tunnel client exits, by itself or killed.
ChildExits(p) ==
    /\ p \in procs
    /\ procs' = procs \ {p}
    /\ child' = IF child = p THEN 0 ELSE child
    /\ exits' = IF intended THEN exits ELSE exits + 1
    /\ UNCHANGED <<queue, at, spawned, intended, desired, lockHeld, apiKey,
                   managed, timer, preparing, attempts>>

\* applyUnexpectedExit after readExitHint, and scheduleRestart.
ExitApplied ==
    /\ exits > 0
    /\ exits' = exits - 1
    /\ attempts' = attempts + 1
    /\ LET exhausted == MaxAutoRestarts > 0 /\ attempts' >= MaxAutoRestarts
           disabled == ~AutoReconnect \/ desired = "stopped"
       IN timer' = CASE disabled -> timer
                     [] ~disabled /\ exhausted -> FALSE
                     [] OTHER -> timer \/ ~intended
    /\ UNCHANGED <<queue, at, child, procs, spawned, intended, desired, lockHeld,
                   apiKey, managed, preparing>>

TimerFires ==
    /\ timer
    /\ timer' = FALSE
    /\ preparing' = IF intended \/ ~apiKey THEN preparing ELSE preparing + 1
    /\ UNCHANGED <<queue, at, child, procs, spawned, intended, desired, lockHeld,
                   apiKey, managed, exits, attempts>>

\* A mutant of RestartPrepared: a stop during the repair goes unseen.
RestartUnchecked ==
    /\ preparing > 0
    /\ preparing' = preparing - 1
    /\ Spawn
    /\ UNCHANGED <<queue, at, intended, desired, lockHeld, apiKey, managed, timer,
                   exits, attempts>>

\* The profile is repaired: spawn, unless stopped meanwhile; or the repair
\* fails and counts as another unexpected exit.
RestartPrepared ==
    /\ preparing > 0
    /\ preparing' = preparing - 1
    /\ \/ /\ ~intended /\ apiKey
          /\ Spawn
          /\ UNCHANGED exits
       \/ /\ intended \/ ~apiKey
          /\ UNCHANGED <<child, procs, spawned, exits>>
       \/ /\ exits' = exits + 1
          /\ UNCHANGED <<child, procs, spawned>>
    /\ UNCHANGED <<queue, at, intended, desired, lockHeld, apiKey, managed, timer,
                   attempts>>

\* The stable timer: the child ran long enough to forgive earlier exits.
StableReset ==
    /\ ChildRuns /\ attempts > 0
    /\ attempts' = 0
    /\ UNCHANGED <<queue, at, child, procs, spawned, intended, desired, lockHeld,
                   apiKey, managed, timer, preparing, exits>>

QueueSteps ==
    \/ StartBegins \/ StartKicks \/ StartProbes \/ StartLocks
    \/ StartChecks \/ StartSpawns \/ StartFails
    \/ StopManaged \/ StopKills \/ StopVerifies \/ StopReleases

ControllerNext ==
    \/ \E persist \in BOOLEAN : StartTunnel(persist) \/ StopTunnel(persist)
    \/ QueueSteps
    \/ \E p \in 1..MaxChildren : ChildExits(p)
    \/ AuthChanges \/ ExitApplied \/ TimerFires \/ RestartPrepared \/ StableReset

ControllerSpec == ControllerInit /\ [][ControllerNext]_tcVars
-----------------------------------------------------------------------------
ControllerTypeOK ==
    /\ queue \in Seq(Ops)
    /\ at \in {"begin", "kicking", "probing", "locking", "checking", "spawning", "failed", "killing",
               "releasing"}
    /\ child \in 0..MaxChildren
    /\ procs \subseteq 1..MaxChildren
    /\ spawned \in 0..MaxChildren
    /\ desired \in {"running", "stopped"}
    /\ {intended, lockHeld, apiKey, managed, timer} \subseteq BOOLEAN
    /\ {preparing, exits, attempts} \subseteq Nat

\* "Never create a second tunnel-client": this desktop never runs two.
OneTunnelClient == Cardinality(procs) <= 1

\* The lock is never given away while the child the controller knows of runs,
\* started by the queue or by a restart beside it: it would let another desktop
\* start a second tunnel.
LockOutlivesChild == [][lockHeld /\ ~lockHeld' => ~ChildRuns]_tcVars

\* From the moment a stop is requested until a later start begins no client is
\* spawned: not by the start under way, not by a restart that was preparing.
StopHolds == [][intended' => spawned' = spawned]_tcVars
=============================================================================
