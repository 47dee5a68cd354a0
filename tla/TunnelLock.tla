----------------------------- MODULE TunnelLock -----------------------------
(***************************************************************************)
(* The lock file that gives one desktop process the tunnel:                *)
(*   apps/desktop/src/main/tunnel-lock.ts                                  *)
(*                                                                         *)
(* Every change of the lock file happens in a critical section.  On Windows*)
(* a helper process holds a named mutex, which its end gives back.  On     *)
(* POSIX the mutex is a second file, created exclusively and reclaimed when*)
(* its writer is dead.  A desktop that crashes leaves its files behind.    *)
(* One action is one system call, or one await between two of them.        *)
(***************************************************************************)
EXTENDS Integers, FiniteSets

CONSTANTS
    Desktops,   \* desktop processes; a restarted one is a new member
    NoDesktop   \* no owner

ASSUME TunnelLockAssumption == NoDesktop \notin Desktops

VARIABLES
    onWindows,  \* which of the two critical sections; never changes
    mutexFile,  \* the mutex: NoDesktop, its holder; the file is "blank" until written
    ownerFile,  \* the lock file's owner, NoDesktop when there is no file
    step,       \* desktop -> what it does next
    goal,       \* desktop -> "acquire" or "release"
    seen,       \* desktop -> the owner record it read or moved aside
    stale,      \* desktop -> the dead owner it decided to replace
    claim,      \* the desktops that were told they own the tunnel
    dead        \* the desktops that crashed

tlVars == <<onWindows, mutexFile, ownerFile, step, goal, seen, stale, claim, dead>>

\* The mutex file d created and has not written yet.
Blank(d) == <<"blank", d>>
DesktopLives(d) == d \notin dead
StandsAt(d, s) == DesktopLives(d) /\ step[d] = s
GoesTo(d, s) == step' = [step EXCEPT ![d] = s]
\* The call returns or dies with its process: what it had read is forgotten.
GoesIdle(d) ==
    /\ GoesTo(d, "idle")
    /\ seen' = [seen EXCEPT ![d] = NoDesktop]
    /\ stale' = [stale EXCEPT ![d] = NoDesktop]

TunnelInit ==
    /\ onWindows \in BOOLEAN
    /\ mutexFile = NoDesktop
    /\ ownerFile = NoDesktop
    /\ step = [d \in Desktops |-> "idle"]
    /\ goal = [d \in Desktops |-> "acquire"]
    /\ seen = [d \in Desktops |-> NoDesktop]
    /\ stale = [d \in Desktops |-> NoDesktop]
    /\ claim = {}
    /\ dead = {}

\* acquireTunnelLock and the release of an acquired claim; a live foreign
\* owner that is visible before the critical section ends the call at once.
LockCall(d) ==
    /\ StandsAt(d, "idle")
    /\ \/ /\ d \notin claim
          /\ ownerFile \in dead \cup {NoDesktop}
          /\ goal' = [goal EXCEPT ![d] = "acquire"]
       \/ /\ d \in claim
          /\ goal' = [goal EXCEPT ![d] = "release"]
    /\ GoesTo(d, "create")
    /\ UNCHANGED <<onWindows, mutexFile, ownerFile, seen, stale, claim, dead>>

\* A mutant of EnterNamed: what WaitOne returned is not looked at.
EnterUnheld(d) ==
    /\ StandsAt(d, "create") /\ onWindows
    /\ mutexFile' = d
    /\ GoesTo(d, "inside")
    /\ UNCHANGED <<onWindows, ownerFile, goal, seen, stale, claim, dead>>

\* Windows: the helper owns the mutex, or inherits it from one that was killed.
EnterNamed(d) ==
    /\ StandsAt(d, "create") /\ onWindows
    /\ mutexFile = NoDesktop
    /\ mutexFile' = d
    /\ GoesTo(d, "inside")
    /\ UNCHANGED <<onWindows, ownerFile, goal, seen, stale, claim, dead>>

\* Windows: the end of its input, or of the helper itself, gives the mutex back.
LeaveNamed(d) ==
    /\ StandsAt(d, "leave") /\ onWindows
    /\ mutexFile' = NoDesktop
    /\ GoesIdle(d)
    /\ UNCHANGED <<onWindows, ownerFile, goal, claim, dead>>

\* POSIX: open(mutexPath, 'wx'): the file exists before it has content.
CreateMutex(d) ==
    /\ StandsAt(d, "create") /\ ~onWindows
    /\ mutexFile = NoDesktop
    /\ mutexFile' = Blank(d)
    /\ GoesTo(d, "write")
    /\ UNCHANGED <<onWindows, ownerFile, goal, seen, stale, claim, dead>>

\* The write goes to the handle: when the file was removed meanwhile, it stays
\* removed, and another's file in its place is left alone.
WriteMutex(d) ==
    /\ StandsAt(d, "write")
    /\ mutexFile' = IF mutexFile = Blank(d) THEN d ELSE mutexFile
    /\ GoesTo(d, "inside")
    /\ UNCHANGED <<onWindows, ownerFile, goal, seen, stale, claim, dead>>

\* EEXIST: the writer named in the file is dead.
JudgeMutex(d) ==
    /\ StandsAt(d, "create") /\ ~onWindows
    /\ mutexFile \in dead
    /\ GoesTo(d, "reclaim")
    /\ UNCHANGED <<onWindows, mutexFile, ownerFile, goal, seen, stale, claim, dead>>

\* rm(mutexPath, { force: true }): whatever the path names by now.
ReclaimMutex(d) ==
    /\ StandsAt(d, "reclaim")
    /\ mutexFile' = NoDesktop
    /\ GoesTo(d, "create")
    /\ UNCHANGED <<onWindows, ownerFile, goal, seen, stale, claim, dead>>

\* The deadline passed while the mutex was another's, or blank; on Windows the
\* helper may fail of itself.
TimeOut(d) ==
    /\ StandsAt(d, "create")
    /\ onWindows \/ mutexFile # NoDesktop
    /\ GoesIdle(d)
    /\ UNCHANGED <<onWindows, mutexFile, ownerFile, goal, claim, dead>>

\* Inside the critical section: read the lock file and decide.
ReadOwner(d) ==
    /\ StandsAt(d, "inside")
    /\ seen' = [seen EXCEPT ![d] = ownerFile]
    /\ GoesTo(d, IF goal[d] = "release"
             THEN IF ownerFile = d THEN "rename" ELSE "leave"
             ELSE IF ownerFile = NoDesktop THEN "publish"
                  ELSE IF ownerFile \in dead THEN "rename" ELSE "leave")
    /\ stale' = [stale EXCEPT ![d] = ownerFile]
    /\ UNCHANGED <<onWindows, mutexFile, ownerFile, goal, claim, dead>>

\* link(publishPath, lockPath) fails when a lock file exists.
Publish(d) ==
    /\ StandsAt(d, "publish")
    /\ IF ownerFile = NoDesktop
       THEN /\ ownerFile' = d
            /\ claim' = claim \cup {d}
       ELSE UNCHANGED <<ownerFile, claim>>
    /\ GoesTo(d, "leave")
    /\ UNCHANGED <<onWindows, mutexFile, goal, seen, stale, dead>>

\* rename(lockPath, quarantinePath): moves the record that is there now.
MoveAside(d) ==
    /\ StandsAt(d, "rename")
    /\ seen' = [seen EXCEPT ![d] = ownerFile]
    /\ ownerFile' = NoDesktop
    /\ GoesTo(d, IF ownerFile = NoDesktop THEN "leave" ELSE "verify")
    /\ UNCHANGED <<onWindows, mutexFile, goal, stale, claim, dead>>

\* The moved record must be the one that was judged; otherwise it is put
\* back, unless another lock file has appeared.
VerifyMoved(d) ==
    /\ StandsAt(d, "verify")
    /\ IF seen[d] = stale[d]
       THEN /\ UNCHANGED ownerFile
            /\ IF goal[d] = "release"
               THEN GoesTo(d, "leave") /\ claim' = claim \ {d}
               ELSE GoesTo(d, "publish") /\ UNCHANGED claim
       ELSE /\ ownerFile' = IF ownerFile = NoDesktop THEN seen[d] ELSE ownerFile
            /\ GoesTo(d, "leave")
            /\ UNCHANGED claim
    /\ UNCHANGED <<onWindows, mutexFile, goal, seen, stale, dead>>

\* finally: read the mutex, and remove it when it is this desktop's.
Leave(d) ==
    /\ StandsAt(d, "leave") /\ ~onWindows
    /\ IF mutexFile = d THEN GoesTo(d, "unlink") /\ UNCHANGED <<seen, stale>> ELSE GoesIdle(d)
    /\ UNCHANGED <<onWindows, mutexFile, ownerFile, goal, claim, dead>>

UnlinkMutex(d) ==
    /\ StandsAt(d, "unlink")
    /\ mutexFile' = NoDesktop
    /\ GoesIdle(d)
    /\ UNCHANGED <<onWindows, ownerFile, goal, claim, dead>>

\* The helper on Windows loses its input with its desktop.
DesktopCrash(d) ==
    /\ DesktopLives(d)
    /\ dead' = dead \cup {d}
    /\ claim' = claim \ {d}
    /\ mutexFile' = IF onWindows /\ mutexFile = d THEN NoDesktop ELSE mutexFile
    /\ GoesIdle(d)
    /\ goal' = [goal EXCEPT ![d] = "acquire"]
    /\ UNCHANGED <<onWindows, ownerFile>>

DesktopSteps(d) ==
    \/ LockCall(d) \/ EnterNamed(d) \/ LeaveNamed(d) \/ CreateMutex(d) \/ WriteMutex(d) \/ JudgeMutex(d)
    \/ ReclaimMutex(d) \/ TimeOut(d) \/ ReadOwner(d) \/ Publish(d)
    \/ MoveAside(d) \/ VerifyMoved(d) \/ Leave(d) \/ UnlinkMutex(d)

TunnelNext == \E d \in Desktops : DesktopSteps(d) \/ DesktopCrash(d)

TunnelSpec == TunnelInit /\ [][TunnelNext]_tlVars
-----------------------------------------------------------------------------
LockSteps ==
    {"idle", "create", "write", "reclaim", "inside", "publish", "rename",
     "verify", "leave", "unlink"}

TunnelTypeOK ==
    /\ mutexFile \in Desktops \cup {NoDesktop} \cup {Blank(d) : d \in Desktops}
    /\ ownerFile \in Desktops \cup {NoDesktop}
    /\ step \in [Desktops -> LockSteps]
    /\ goal \in [Desktops -> {"acquire", "release"}]
    /\ seen \in [Desktops -> Desktops \cup {NoDesktop}]
    /\ stale \in [Desktops -> Desktops \cup {NoDesktop}]
    /\ claim \subseteq Desktops
    /\ dead \subseteq Desktops

\* A desktop that owns the tunnel and is not giving it up: it releases the
\* lock only after its tunnel client is gone.
Owners == {d \in claim : step[d] = "idle" \/ goal[d] = "acquire"}

\* At most one desktop that is alive believes it owns the tunnel.
OneOwner == \A d, e \in Owners : d = e

\* On Windows, whoever crashes or gives up wherever: the critical section is
\* one process's until its helper ends (withTunnelLockCriticalSection).
TunnelHasOneOwner == onWindows => OneOwner
=============================================================================
