--------------------------- MODULE Desktop_proofs ---------------------------
(***************************************************************************)
(* Proofs about what owns operating system processes, for any number of    *)
(* desktops, processes, callers and launches.                              *)
(***************************************************************************)
EXTENDS TunnelLock, TunnelController, ProcessManager, McpSessions, TLAPS

-----------------------------------------------------------------------------
(* The tunnel lock on Windows.                                             *)

Section == {"inside", "publish", "rename", "verify", "leave"}

LockTypes ==
    /\ ownerFile \in Desktops \cup {NoDesktop}
    /\ step \in [Desktops -> {"idle", "create"} \cup Section]
    /\ goal \in [Desktops -> {"acquire", "release"}]
    /\ seen \in [Desktops -> Desktops \cup {NoDesktop}]
    /\ stale \in [Desktops -> Desktops \cup {NoDesktop}]
    /\ claim \subseteq Desktops \ dead /\ dead \subseteq Desktops

\* A desktop inside the section holds the mutex.
SectionIsHeld == \A d \in Desktops : DesktopLives(d) /\ step[d] \in Section => mutexFile = d

\* What a desktop inside the section has read is still so.
SectionIsCurrent ==
    \A d \in Desktops : DesktopLives(d) =>
        /\ step[d] = "publish" => ownerFile = NoDesktop /\ goal[d] = "acquire"
        /\ step[d] = "rename" =>
              ownerFile = stale[d] /\ stale[d] \in IF goal[d] = "release" THEN {d} ELSE dead
        /\ step[d] = "verify" =>
              /\ ownerFile = NoDesktop /\ seen[d] = stale[d]
              /\ stale[d] \in IF goal[d] = "release" THEN {d} ELSE dead

\* The file names whoever was told it owns the tunnel, until it takes its
\* record away.
ClaimIsFiled ==
    \A d \in claim : ownerFile = d \/ (step[d] = "verify" /\ goal[d] = "release")

\* Who has not published yet, or asks anew, has no claim.
AcquirerIsNew ==
    \A d \in claim : step[d] \in {"idle", "leave"} \/ goal[d] = "release"

LockInv == onWindows => LockTypes /\ SectionIsHeld /\ SectionIsCurrent /\ ClaimIsFiled /\ AcquirerIsNew

LEMMA LockInvInit ==
    ASSUME TunnelInit
    PROVE  LockInv
  BY DEF TunnelInit, LockInv, LockTypes, SectionIsHeld, SectionIsCurrent, ClaimIsFiled, AcquirerIsNew,
         DesktopLives, Section

\* One lemma for the steps outside the section.
LEMMA OutsideKeeps ==
    ASSUME LockInv, onWindows, NEW d \in Desktops,
           LockCall(d) \/ EnterNamed(d) \/ LeaveNamed(d) \/ TimeOut(d)
    PROVE  LockInv'
  <1> USE DEF StandsAt, GoesTo, GoesIdle, DesktopLives
  <1>1. /\ LockTypes /\ SectionIsHeld /\ SectionIsCurrent /\ ClaimIsFiled /\ AcquirerIsNew
        /\ ownerFile' = ownerFile /\ claim' = claim /\ dead' = dead /\ d \notin dead
    BY DEF LockInv, LockCall, EnterNamed, LeaveNamed, TimeOut
  <1>2. /\ \A e \in Desktops \ {d} :
              /\ step'[e] = step[e] /\ goal'[e] = goal[e]
              /\ seen'[e] = seen[e] /\ stale'[e] = stale[e]
        /\ step'[d] \in {"idle", "create", "inside"}
    BY <1>1 DEF LockTypes, LockCall, EnterNamed, LeaveNamed, TimeOut
  <1>3. LockTypes'
    BY <1>1 DEF LockTypes, LockCall, EnterNamed, LeaveNamed, TimeOut, Section
  <1>4. SectionIsHeld'
    <2>1. \/ mutexFile' = mutexFile /\ step'[d] \in {"idle", "create"}
          \/ mutexFile = NoDesktop /\ mutexFile' = d
          \/ step[d] \in Section
      BY <1>1 DEF LockTypes, LockCall, EnterNamed, LeaveNamed, TimeOut, Section
    <2>2. step'[d] \in Section => mutexFile' = d
      BY <1>1 DEF LockTypes, LockCall, EnterNamed, LeaveNamed, TimeOut, Section
    <2> QED
      BY <1>1, <1>2, <2>1, <2>2, TunnelLockAssumption DEF SectionIsHeld
  <1>5. SectionIsCurrent'
    BY <1>1, <1>2 DEF SectionIsCurrent
  <1>6. ClaimIsFiled' /\ AcquirerIsNew'
    BY <1>1, <1>2 DEF ClaimIsFiled, AcquirerIsNew, LockTypes, LockCall, EnterNamed, LeaveNamed, TimeOut
  <1> QED
    BY <1>3, <1>4, <1>5, <1>6 DEF LockInv

\* Inside the section nobody else is, so nobody's reading goes stale.
LEMMA InsideKeeps ==
    ASSUME LockInv, onWindows, NEW d \in Desktops,
           ReadOwner(d) \/ Publish(d) \/ MoveAside(d) \/ VerifyMoved(d)
    PROVE  LockInv'
  <1> USE DEF StandsAt, GoesTo, DesktopLives
  <1>1. /\ LockTypes /\ SectionIsHeld /\ SectionIsCurrent /\ ClaimIsFiled /\ AcquirerIsNew
        /\ mutexFile' = mutexFile /\ goal' = goal /\ dead' = dead /\ d \notin dead
        /\ step[d] \in {"inside", "publish", "rename", "verify"}
    BY DEF LockInv, ReadOwner, Publish, MoveAside, VerifyMoved
  <1>2. /\ \A e \in Desktops \ {d} : step'[e] = step[e] /\ seen'[e] = seen[e] /\ stale'[e] = stale[e]
        /\ step'[d] \in {"publish", "rename", "verify", "leave"}
    <2>1. \E s \in {"publish", "rename", "verify", "leave"} : step' = [step EXCEPT ![d] = s]
      BY DEF ReadOwner, Publish, MoveAside, VerifyMoved
    <2>2. \A e \in Desktops \ {d} : seen'[e] = seen[e] /\ stale'[e] = stale[e]
      BY <1>1 DEF LockTypes, ReadOwner, Publish, MoveAside, VerifyMoved
    <2> QED
      BY <1>1, <2>1, <2>2 DEF LockTypes
  <1>3. \A e \in Desktops \ {d} : e \notin dead => step[e] \notin Section
    BY <1>1 DEF SectionIsHeld, Section
  <1>4. LockTypes'
    <2>1. step' \in [Desktops -> {"idle", "create"} \cup Section]
      BY <1>1 DEF LockTypes, ReadOwner, Publish, MoveAside, VerifyMoved, Section
    <2>2. claim' \subseteq claim \cup {d} /\ ownerFile' \in {ownerFile, NoDesktop, d, seen[d]}
      BY DEF ReadOwner, Publish, MoveAside, VerifyMoved
    <2>3. /\ seen' = seen \/ seen' = [seen EXCEPT ![d] = ownerFile]
          /\ stale' = stale \/ stale' = [stale EXCEPT ![d] = ownerFile]
      BY DEF ReadOwner, Publish, MoveAside, VerifyMoved
    <2>4. /\ seen' \in [Desktops -> Desktops \cup {NoDesktop}]
          /\ stale' \in [Desktops -> Desktops \cup {NoDesktop}]
      BY <1>1, <2>3 DEF LockTypes
    <2> QED
      BY <1>1, <2>1, <2>2, <2>4 DEF LockTypes
  <1>5. SectionIsHeld'
    BY <1>1, <1>2 DEF SectionIsHeld, Section
  <1>6. SectionIsCurrent'
    <2> SUFFICES ASSUME d \notin dead
                 PROVE  /\ step'[d] = "publish" => ownerFile' = NoDesktop /\ goal[d] = "acquire"
                        /\ step'[d] = "rename" =>
                             ownerFile' = stale'[d] /\ stale'[d] \in IF goal[d] = "release" THEN {d} ELSE dead
                        /\ step'[d] = "verify" =>
                             /\ ownerFile' = NoDesktop /\ seen'[d] = stale'[d]
                             /\ stale'[d] \in IF goal[d] = "release" THEN {d} ELSE dead
      BY <1>1, <1>2, <1>3 DEF SectionIsCurrent, Section
    <2>1. CASE ReadOwner(d)
      BY <1>1, <2>1 DEF LockTypes, ReadOwner
    <2>2. CASE Publish(d)
      BY <1>1, <2>2 DEF LockTypes, Publish
    <2>3. CASE MoveAside(d)
      BY <1>1, <2>3 DEF LockTypes, MoveAside, SectionIsCurrent
    <2>4. CASE VerifyMoved(d)
      BY <1>1, <2>4 DEF LockTypes, VerifyMoved, SectionIsCurrent
    <2> QED
      BY <2>1, <2>2, <2>3, <2>4
  <1>7. ClaimIsFiled'
    <2>1. CASE ReadOwner(d)
      BY <1>1, <1>2, <2>1 DEF LockTypes, ReadOwner, ClaimIsFiled
    <2>2. CASE Publish(d)
      BY <1>1, <1>2, <1>3, <2>2, TunnelLockAssumption
         DEF LockTypes, Publish, ClaimIsFiled, SectionIsCurrent, Section
    <2>3. CASE MoveAside(d)
      BY <1>1, <1>2, <2>3, TunnelLockAssumption DEF LockTypes, MoveAside, ClaimIsFiled, SectionIsCurrent
    <2>4. CASE VerifyMoved(d)
      BY <1>1, <1>2, <2>4 DEF LockTypes, VerifyMoved, ClaimIsFiled, SectionIsCurrent
    <2> QED
      BY <2>1, <2>2, <2>3, <2>4
  <1>8. AcquirerIsNew'
    <2>1. claim' \subseteq claim \/ (claim' = claim \cup {d} /\ step'[d] = "leave")
      BY <1>1 DEF LockTypes, ReadOwner, Publish, MoveAside, VerifyMoved
    <2>2. d \in claim => goal[d] = "release"
      BY <1>1 DEF AcquirerIsNew
    <2> QED
      BY <1>1, <1>2, <1>4, <2>1, <2>2 DEF LockTypes, AcquirerIsNew
  <1> QED
    BY <1>4, <1>5, <1>6, <1>7, <1>8 DEF LockInv

\* A crash gives the mutex back and leaves the file.
LEMMA LockCrashKeeps ==
    ASSUME LockInv, onWindows, NEW d \in Desktops, DesktopCrash(d)
    PROVE  LockInv'
  <1> USE DEF GoesTo, GoesIdle, DesktopLives, DesktopCrash
  <1>1. /\ LockTypes /\ SectionIsHeld /\ SectionIsCurrent /\ ClaimIsFiled /\ AcquirerIsNew
        /\ dead' = dead \cup {d} /\ claim' = claim \ {d} /\ ownerFile' = ownerFile
    BY DEF LockInv
  <1>2. \A e \in Desktops \ {d} :
            /\ step'[e] = step[e] /\ goal'[e] = goal[e]
            /\ seen'[e] = seen[e] /\ stale'[e] = stale[e]
    BY <1>1 DEF LockTypes
  <1>3. LockTypes'
    BY <1>1 DEF LockTypes
  <1>4. SectionIsHeld'
    BY <1>1, <1>2 DEF SectionIsHeld
  <1>5. SectionIsCurrent'
    BY <1>1, <1>2 DEF SectionIsCurrent
  <1>6. ClaimIsFiled' /\ AcquirerIsNew'
    BY <1>1, <1>2 DEF ClaimIsFiled, AcquirerIsNew, LockTypes
  <1> QED
    BY <1>3, <1>4, <1>5, <1>6 DEF LockInv

LEMMA LockInvNext ==
    ASSUME LockInv, [TunnelNext]_tlVars
    PROVE  LockInv'
  <1>1. CASE ~onWindows
    BY <1>1 DEF LockInv, TunnelNext, DesktopSteps, LockCall, EnterNamed, LeaveNamed, CreateMutex,
                WriteMutex, JudgeMutex, ReclaimMutex, TimeOut, ReadOwner, Publish, MoveAside,
                VerifyMoved, Leave, UnlinkMutex, DesktopCrash, tlVars
  <1>2. CASE UNCHANGED tlVars
    BY <1>2 DEF tlVars, LockInv, LockTypes, SectionIsHeld, SectionIsCurrent, ClaimIsFiled,
                AcquirerIsNew, DesktopLives
  <1>3. ASSUME onWindows, NEW d \in Desktops, DesktopSteps(d) PROVE LockInv'
    <2>1. ~(CreateMutex(d) \/ WriteMutex(d) \/ JudgeMutex(d) \/ ReclaimMutex(d) \/ Leave(d) \/ UnlinkMutex(d))
      BY <1>3 DEF LockInv, LockTypes, Section, StandsAt, CreateMutex, WriteMutex, JudgeMutex,
                  ReclaimMutex, Leave, UnlinkMutex
    <2> QED
      BY <1>3, <2>1, OutsideKeeps, InsideKeeps DEF DesktopSteps
  <1> QED
    BY <1>1, <1>2, <1>3, LockCrashKeeps DEF TunnelNext

\* On Windows at most one desktop that is alive believes it owns the tunnel
\* (withTunnelLockCriticalSection, replaceVerifiedStaleOwner, releaseTunnelLock).
THEOREM OneTunnelOwner == TunnelSpec => []TunnelHasOneOwner
  <1>1. TunnelInit => LockInv
    BY LockInvInit
  <1>2. LockInv /\ [TunnelNext]_tlVars => LockInv'
    BY LockInvNext
  <1>3. LockInv => TunnelHasOneOwner
    BY DEF LockInv, ClaimIsFiled, TunnelHasOneOwner, OneOwner, Owners
  <1> QED
    BY <1>1, <1>2, <1>3, PTL DEF TunnelSpec

-----------------------------------------------------------------------------
(* The tunnel controller.                                                  *)

\* The head of the queue is a start that has begun.
Begun == queue # <<>> /\ queue[1].kind = "start" /\ at # "begin"

\* Whatever the timers do beside the queue: a start that has begun and a stop
\* requested after it meet in its abort flag, and a stop past its kill has the
\* stop flag and nothing to kill.
ControlInv ==
    /\ queue \in Seq(Ops) /\ (queue = <<>> => at = "begin")
    /\ spawned \in Nat /\ 0 \notin procs
    /\ intended \in BOOLEAN /\ lockHeld \in BOOLEAN /\ managed \in BOOLEAN
    /\ child # 0 => child \in procs
    /\ Begun /\ intended => queue[1].aborted
    /\ at \in {"killing", "releasing"} => intended
    /\ at = "releasing" => child = 0

\* Requests only abort starts and wait at the end.
LEMMA QueueRequests ==
    ASSUME queue \in Seq(Ops), NEW op \in Ops
    PROVE  /\ Append(queue, op) \in Seq(Ops) /\ Append(queue, op) # <<>>
           /\ queue # <<>> => Append(queue, op)[1] = queue[1]
           /\ queue = <<>> => Append(queue, op)[1] = op
  OBVIOUS

LEMMA QueueFinish ==
    ASSUME queue \in Seq(Ops), queue # <<>>
    PROVE  Tail(queue) \in Seq(Ops) /\ Head(queue) = queue[1] /\ queue[1] \in Ops
  OBVIOUS

AbortStarts == [i \in DOMAIN queue |-> [queue[i] EXCEPT !.aborted = @ \/ queue[i].kind = "start"]]

LEMMA QueueAborts ==
    ASSUME queue \in Seq(Ops)
    PROVE  /\ AbortStarts \in Seq(Ops)
           /\ AbortStarts = <<>> <=> queue = <<>>
           /\ queue # <<>> /\ AbortStarts[1].kind = "start" => AbortStarts[1].aborted
  <1>1. Len(queue) \in Nat /\ DOMAIN queue = 1..Len(queue)
    OBVIOUS
  <1>2. \A i \in 1..Len(queue) : queue[i] \in Ops
    OBVIOUS
  <1>3. \A i \in 1..Len(queue) :
           LET r == [queue[i] EXCEPT !.aborted = @ \/ queue[i].kind = "start"]
           IN  r \in Ops /\ r.kind = queue[i].kind /\ (r.kind = "start" => r.aborted)
    BY <1>2 DEF Ops
  <1>4. AbortStarts \in [1..Len(queue) -> Ops]
    BY <1>1, <1>3 DEF AbortStarts
  <1>5. AbortStarts \in Seq(Ops) /\ Len(AbortStarts) = Len(queue)
    BY <1>1, <1>4
  <1>6. AbortStarts = <<>> <=> queue = <<>>
    BY <1>1, <1>5
  <1> QED
    BY <1>1, <1>3, <1>5, <1>6 DEF AbortStarts

LEMMA ControlInvInit ==
    ASSUME ControllerInit
    PROVE  ControlInv
  <1>1. <<>> \in Seq(Ops)
    OBVIOUS
  <1> QED
    BY <1>1 DEF ControllerInit, ControlInv, Begun

LEMMA OpsAreOps == Op("start") \in Ops /\ Op("stop") \in Ops /\ Op("start").kind = "start" /\ Op("stop").kind = "stop"
  BY DEF Op, Ops

LEMMA StartTunnelKeeps ==
    ASSUME ControlInv, NEW persist \in BOOLEAN, StartTunnel(persist)
    PROVE  ControlInv'
  <1>1. CASE queue' = queue
    BY <1>1 DEF ControlInv, Begun, StartTunnel
  <1>2. CASE queue' = Append(queue, Op("start"))
    <2>1. at' = at /\ UNCHANGED <<spawned, procs, child, intended, lockHeld, managed>>
      BY DEF StartTunnel
    <2>2. /\ queue' \in Seq(Ops) /\ queue' # <<>>
          /\ Begun' => queue # <<>> /\ queue'[1] = queue[1]
      BY <1>2, <2>1, QueueRequests, OpsAreOps DEF ControlInv, Begun
    <2> QED
      BY <2>1, <2>2 DEF ControlInv, Begun
  <1> QED
    BY <1>1, <1>2 DEF StartTunnel

LEMMA StopTunnelKeeps ==
    ASSUME ControlInv, NEW persist \in BOOLEAN, StopTunnel(persist)
    PROVE  ControlInv'
  <1>1. queue' = AbortStarts \/ queue' = Append(AbortStarts, Op("stop"))
    BY DEF StopTunnel, AbortStarts
  <1>2. /\ queue' \in Seq(Ops) /\ (queue' = <<>> => queue = <<>>)
        /\ queue' # <<>> /\ queue'[1].kind = "start" => queue'[1].aborted
    <2> DEFINE A == AbortStarts
    <2>0. /\ A \in Seq(Ops)
          /\ A = <<>> <=> queue = <<>>
          /\ queue # <<>> /\ A[1].kind = "start" => A[1].aborted
      <3>1. queue \in Seq(Ops)
        BY DEF ControlInv
      <3> QED
        BY <3>1, QueueAborts
    <2> HIDE DEF A
    <2>1. CASE queue' = A
      BY <2>0, <2>1
    <2>2. CASE queue' = Append(A, Op("stop"))
      <3>1. Op("stop") \in Ops /\ Op("stop").kind = "stop"
        BY OpsAreOps
      <3>2. /\ queue' \in Seq(Ops) /\ queue' # <<>>
            /\ A # <<>> => queue'[1] = A[1]
            /\ A = <<>> => queue'[1] = Op("stop")
        BY <2>0, <2>2, <3>1
      <3>3. CASE A = <<>>
        BY <3>1, <3>2, <3>3
      <3>4. CASE A # <<>>
        BY <2>0, <3>2, <3>4
      <3> QED
        BY <3>3, <3>4
    <2> QED
      BY <1>1, <2>1, <2>2 DEF A
  <1> QED
    BY <1>2 DEF ControlInv, Begun, StopTunnel

LEMMA QueueStepKeeps ==
    ASSUME ControlInv, QueueSteps
    PROVE  ControlInv'
  <1> USE DEF ControlInv, Begun, ChildRuns, Aborted
  <1>1. queue # <<>> /\ Head(queue) = queue[1] /\ queue[1] \in Ops /\ Tail(queue) \in Seq(Ops)
    BY QueueFinish DEF QueueSteps, StartBegins, StartKicks, StartProbes, StartLocks, StartChecks, StartSpawns,
       StartFails, StopManaged, StopKills, StopVerifies, StopReleases, Running
  <1>2. CASE StartBegins
    BY <1>1, <1>2 DEF StartBegins, Finish, Running
  <1>3. CASE StartKicks
    BY <1>1, <1>3 DEF StartKicks, Finish, Running
  <1>4. CASE StartProbes
    BY <1>1, <1>4 DEF StartProbes, Finish, Running
  <1>5. CASE StartLocks
    BY <1>1, <1>5 DEF StartLocks, Finish, Running
  <1>6. CASE StartChecks
    BY <1>1, <1>6 DEF StartChecks, Running
  <1>7. CASE StartSpawns
    <2>1. CASE Aborted
      BY <1>1, <1>7, <2>1 DEF StartSpawns, Running
    <2>2. CASE ~Aborted
      <3>1. /\ spawned' = spawned + 1 /\ child' = spawned' /\ procs' = procs \cup {spawned'}
            /\ queue' = Tail(queue) /\ at' = "begin" /\ managed' = FALSE
            /\ UNCHANGED <<intended, lockHeld>>
        BY <1>7, <2>2 DEF StartSpawns, Spawn, Finish
      <3>2. spawned' \in Nat /\ spawned' # 0
        BY <3>1
      <3> QED
        BY <1>1, <3>1, <3>2
    <2> QED
      BY <2>1, <2>2
  <1>8. CASE StartFails
    BY <1>1, <1>8 DEF StartFails, Finish, Running
  <1>9. CASE StopManaged
    BY <1>1, <1>9 DEF StopManaged, Finish, Running
  <1>10. CASE StopKills
    BY <1>1, <1>10 DEF StopKills, Finish, Running, Ops
  <1>11. CASE StopVerifies
    BY <1>1, <1>11 DEF StopVerifies, Running, Ops
  <1>12. CASE StopReleases
    BY <1>1, <1>12 DEF StopReleases, Finish, Running
  <1> QED
    BY <1>2, <1>3, <1>4, <1>5, <1>6, <1>7, <1>8, <1>9, <1>10, <1>11, <1>12 DEF QueueSteps

LEMMA ControlInvNext ==
    ASSUME ControlInv, [ControllerNext]_tcVars
    PROVE  ControlInv'
  <1> USE DEF ControlInv, Begun
  <1>1. ASSUME NEW p \in 1..MaxChildren, ChildExits(p) PROVE ControlInv'
    BY <1>1 DEF ChildExits
  <1>2. CASE AuthChanges
    BY <1>2 DEF AuthChanges
  <1>3. CASE ExitApplied
    BY <1>3 DEF ExitApplied
  <1>4. CASE TimerFires
    BY <1>4 DEF TimerFires
  <1>5. CASE RestartPrepared
    BY <1>5 DEF RestartPrepared, Spawn
  <1>6. CASE StableReset
    BY <1>6 DEF StableReset
  <1>7. CASE UNCHANGED tcVars
    BY <1>7 DEF tcVars
  <1> QED
    BY <1>1, <1>2, <1>3, <1>4, <1>5, <1>6, <1>7, StartTunnelKeeps, StopTunnelKeeps, QueueStepKeeps DEF ControllerNext

LEMMA ControlAlways == ControllerSpec => []ControlInv
  <1>1. ControllerInit => ControlInv
    BY ControlInvInit
  <1>2. ControlInv /\ [ControllerNext]_tcVars => ControlInv'
    BY ControlInvNext
  <1> QED
    BY <1>1, <1>2, PTL DEF ControllerSpec

\* The lock is never given away while the child the controller knows of runs
\* (the catch block of startOnce, stopOnce, spawnRun of a restart).
THEOREM LockAlwaysOutlives == ControllerSpec => LockOutlivesChild
  <1>1. ControlInv /\ [ControllerNext]_tcVars => [lockHeld /\ ~lockHeld' => ~ChildRuns]_tcVars
    <2> SUFFICES ASSUME ControlInv, ControllerNext, lockHeld, ~lockHeld'
                 PROVE  ~ChildRuns
      OBVIOUS
    <2>1. StartFails \/ StopReleases
      BY DEF ControlInv, ControllerNext, QueueSteps, StartTunnel, StopTunnel, StartBegins, StartKicks, StartProbes,
             StartLocks, StartChecks, StartSpawns, StopManaged, StopKills, StopVerifies, ChildExits, AuthChanges,
             ExitApplied, TimerFires, RestartPrepared, StableReset
    <2>2. CASE StartFails
      BY <2>2 DEF StartFails
    <2>3. CASE StopReleases
      BY <2>3 DEF ControlInv, StopReleases, Running, ChildRuns
    <2> QED
      BY <2>1, <2>2, <2>3
  <1> QED
    BY <1>1, ControlAlways, PTL DEF ControllerSpec, LockOutlivesChild

\* From a stop's request until a later start begins no client is spawned, by
\* the start under way or by a restart (requestStop, startOnce, scheduleRestart).
THEOREM StopAlwaysHolds == ControllerSpec => StopHolds
  <1>1. ControlInv /\ [ControllerNext]_tcVars => [intended' => spawned' = spawned]_tcVars
    <2> SUFFICES ASSUME ControlInv, ControllerNext, intended', spawned' # spawned
                 PROVE  FALSE
      OBVIOUS
    <2>1. StartSpawns \/ RestartPrepared
      BY DEF ControllerNext, QueueSteps, StartTunnel, StopTunnel, StartBegins, StartKicks, StartProbes, StartFails,
             StartLocks, StartChecks, StopManaged, StopKills, StopVerifies, StopReleases, ChildExits, AuthChanges,
             ExitApplied, TimerFires, StableReset
    <2>2. CASE StartSpawns
      <3>1. Begun /\ Head(queue) = queue[1]
        BY <2>2, QueueFinish DEF StartSpawns, Running, Begun, ControlInv
      <3>2. intended
        BY <2>2 DEF StartSpawns
      <3> QED
        BY <2>2, <3>1, <3>2 DEF ControlInv, StartSpawns, Aborted
    <2>3. CASE RestartPrepared
      BY <2>3 DEF RestartPrepared
    <2> QED
      BY <2>1, <2>2, <2>3
  <1> QED
    BY <1>1, ControlAlways, PTL DEF ControllerSpec, StopHolds

-----------------------------------------------------------------------------
(* Managed processes.                                                      *)

Records == [state : {"none"} \cup ActiveStates \cup VerifiedTerminal,
            target : {"none", "stopped", "timed_out"}, stopping : BOOLEAN,
            exit : {"none"} \cup VerifiedTerminal, closed : BOOLEAN,
            notified : BOOLEAN, timer : BOOLEAN, recovery : BOOLEAN]

\* ProcTypeOK, with a name for the set of records.
ProcTypes ==
    /\ platform \in {"posix", "windows"}
    /\ life \in [Procs -> {"none", "nopid", "queued", "runs", "orphans", "over", "aborted"}]
    /\ held \in [Procs -> BOOLEAN] /\ aborted \in [Procs -> BOOLEAN]
    /\ request \in [Procs -> {"idle", "resolving", "spawning", "cancelling", "submitting",
                              "settled", "rejected"}]
    /\ rec \in [Procs -> Records]
    /\ accept \in [Procs -> {"idle", "inspect", "pipes", "notify"}]
    /\ attempt \in [Procs -> {"idle", "stopping", "accepting"}]
    /\ refresh \in [Procs -> {"idle", "asked", "running", "unknown", "over", "aborted"}]

LEMMA TypesAreTypes == ProcTypes <=> ProcTypeOK
  BY DEF ProcTypes, ProcTypeOK, Records

\* What the proof needs to know of one process.  An acceptance in flight has
\* proof that nothing runs and an open record; a request that has dispatched
\* nothing has nothing to lose; and a service's report of an end stays true.
ProcFits(p) ==
    /\ accept[p] = "notify" => life[p] \in {"nopid", "over", "aborted"}
    /\ accept[p] = "pipes" => life[p] = "over"
    /\ accept[p] # "idle" => ~Final(rec[p])
    /\ refresh[p] \in {"over", "aborted"} => life[p] \in {"over", "aborted"}
    /\ ~held[p] => \/ life[p] \in {"nopid", "over", "aborted"}
                   \/ platform = "posix" /\ life[p] = "none" /\ request[p] = "rejected"
    /\ Final(rec[p]) => ~held[p]
    /\ platform = "posix" /\ request[p] \in {"idle", "resolving", "rejected"} =>
            life[p] = "none" /\ ~Final(rec[p])
    /\ request[p] = "idle" =>
            /\ life[p] = "none" /\ rec[p] = NoRecord
            /\ accept[p] = "idle" /\ attempt[p] = "idle" /\ refresh[p] = "idle"

ProcInv == ProcTypes /\ \A p \in Procs : ProcFits(p)

\* The step of one process, seen from the others.
OthersStay(p) ==
    /\ platform' = platform
    /\ \A q \in Procs \ {p} :
          /\ life'[q] = life[q] /\ held'[q] = held[q] /\ request'[q] = request[q]
          /\ rec'[q] = rec[q] /\ accept'[q] = accept[q] /\ attempt'[q] = attempt[q]
          /\ refresh'[q] = refresh[q]

LEMMA ProcFromOne ==
    ASSUME ProcInv, NEW p \in Procs, ProcTypes', OthersStay(p), ProcFits(p)'
    PROVE  ProcInv'
  <1>1. ASSUME NEW q \in Procs \ {p} PROVE ProcFits(q)'
    BY <1>1 DEF ProcInv, OthersStay, ProcFits, Final
  <1> QED
    BY <1>1 DEF ProcInv

\* The record a process starts with is open.
LEMMA NewRecord ==
    LET r == [NoRecord EXCEPT !.state = "starting"]
    IN  r \in Records /\ ~Final(r) /\ NoRecord \in Records /\ ~Final(NoRecord)
  BY DEF NoRecord, Records, Final, ActiveStates, VerifiedTerminal

\* markTerminationUnverified keeps a final record and opens no other end.
LEMMA UnverifiedFacts ==
    ASSUME NEW r \in Records
    PROVE  Unverified(r) \in Records /\ (Final(Unverified(r)) <=> Final(r))
  <1>1. CASE Final(r)
    BY <1>1 DEF Unverified
  <1>2. CASE ~Final(r)
    <2> DEFINE s == [r EXCEPT !.state = "termination_unverified", !.recovery = TRUE]
    <2>1. s \in Records
      BY DEF Records, ActiveStates
    <2>2. s.state = "termination_unverified"
      BY DEF Records
    <2> QED
      BY <1>2, <2>1, <2>2 DEF Unverified, Final, VerifiedTerminal
  <1> QED
    BY <1>1, <1>2

\* Nothing but the state of a record decides whether it is final.
LEMMA EventFacts ==
    ASSUME NEW r \in Records
    PROVE  /\ LET s == [r EXCEPT !.exit = "failed"] IN s \in Records /\ (Final(s) <=> Final(r))
           /\ LET s == [r EXCEPT !.exit = "exited"] IN s \in Records /\ (Final(s) <=> Final(r))
           /\ LET s == [r EXCEPT !.closed = TRUE] IN s \in Records /\ (Final(s) <=> Final(r))
           /\ LET s == [r EXCEPT !.stopping = FALSE] IN s \in Records /\ (Final(s) <=> Final(r))
           /\ LET s == [r EXCEPT !.timer = FALSE] IN s \in Records /\ (Final(s) <=> Final(r))
           /\ LET s == [r EXCEPT !.recovery = FALSE] IN s \in Records /\ (Final(s) <=> Final(r))
  BY DEF Records, Final, VerifiedTerminal

LEMMA TargetFacts ==
    ASSUME NEW r \in Records, NEW b \in BOOLEAN, NEW t \in {"none", "stopped", "timed_out"}
    PROVE  LET s == [r EXCEPT !.target = t, !.stopping = b, !.timer = FALSE]
           IN  s \in Records /\ (Final(s) <=> Final(r))
  BY DEF Records, Final

\* performTermination touches open records only and ends none.
LEMMA TerminatingFacts ==
    ASSUME ProcTypes, NEW p \in Procs, NEW t \in {"none", "stopped", "timed_out"}, Terminating(p, t)
    PROVE  /\ rec'[p] \in Records /\ rec' = [rec EXCEPT ![p] = rec'[p]]
           /\ ~Final(rec'[p]) /\ ~Final(rec[p])
           /\ attempt' = attempt \/ attempt' = [attempt EXCEPT ![p] = "stopping"]
  <1> DEFINE r == [rec[p] EXCEPT !.target = t, !.stopping = FALSE, !.timer = FALSE]
             s == [rec[p] EXCEPT !.target = t, !.stopping = TRUE, !.timer = FALSE]
  <1>1. rec[p] \in Records /\ ~Final(rec[p])
    BY DEF ProcTypes, Terminating
  <1>2. r \in Records /\ ~Final(r) /\ s \in Records /\ ~Final(s)
    BY <1>1, TargetFacts
  <1>3. Unverified(r) \in Records /\ ~Final(Unverified(r))
    BY <1>2, UnverifiedFacts
  <1>4. \/ rec' = [rec EXCEPT ![p] = Unverified(r)] /\ attempt' = attempt
        \/ rec' = [rec EXCEPT ![p] = s] /\ attempt' = [attempt EXCEPT ![p] = "stopping"]
    BY DEF Terminating, Put
  <1> HIDE DEF r, s
  <1>5. \/ rec'[p] = Unverified(r)
        \/ rec'[p] = s
    BY <1>4 DEF ProcTypes
  <1> QED
    BY <1>1, <1>2, <1>3, <1>4, <1>5 DEF ProcTypes

\* The 'spawn' event and a running observation end no record.
LEMMA RunningFacts ==
    ASSUME NEW r \in Records
    PROVE  /\ LET s == [r EXCEPT !.state = IF @ = "starting" THEN "running" ELSE @, !.timer = ~Final(r)]
              IN  s \in Records /\ (Final(s) <=> Final(r)) /\ (Final(r) => s.state = r.state)
           /\ LET s == [r EXCEPT !.state = "running", !.recovery = TRUE]
              IN  s \in Records /\ ~Final(s)
  BY DEF Records, Final, ActiveStates, VerifiedTerminal

\* finish makes the record final.
LEMMA FinishedFacts ==
    ASSUME NEW r \in Records, NEW st \in VerifiedTerminal
    PROVE  LET s == Finished([r EXCEPT !.notified = TRUE], st)
           IN  s \in Records /\ Final(s)
  BY DEF Records, Finished, Final

LEMMA EndStatesFacts ==
    ASSUME NEW p \in Procs, ProcTypes, ~Final(rec[p])
    PROVE  EndStates(p) \subseteq VerifiedTerminal
  BY DEF EndStates, ProcTypes, Records, VerifiedTerminal

\* acceptServiceObservation leaves a final record alone, and only the report
\* of an end starts an acceptance.
LEMMA ObservedFacts ==
    ASSUME ProcTypes, NEW p \in Procs, NEW o, Observed(p, o)
    PROVE  /\ rec'[p] \in Records /\ rec' = [rec EXCEPT ![p] = rec'[p]]
           /\ Final(rec'[p]) <=> Final(rec[p])
           /\ Final(rec[p]) => rec' = rec
           /\ accept' = [accept EXCEPT ![p] = accept'[p]]
           /\ \/ accept'[p] = accept[p]
              \/ accept'[p] = "notify" /\ ~Final(rec[p]) /\ o \in {"over", "aborted"}
  <1>1. rec[p] \in Records
    BY DEF ProcTypes
  <1>2. CASE Final(rec[p])
    BY <1>1, <1>2 DEF Observed, ProcTypes
  <1>3. CASE ~Final(rec[p])
    <2> DEFINE r == CASE o = "running" -> [rec[p] EXCEPT !.state = "running", !.recovery = TRUE]
                      [] o = "unknown" -> Unverified(rec[p])
                      [] OTHER -> rec[p]
    <2>1. r \in Records /\ ~Final(r)
      BY <1>1, <1>3, RunningFacts, UnverifiedFacts
    <2>2. rec' = [rec EXCEPT ![p] = r]
      BY <1>3 DEF Observed, Put
    <2>3. rec'[p] = r /\ rec' = [rec EXCEPT ![p] = rec'[p]]
      BY <2>2 DEF ProcTypes
    <2>4. /\ accept' = [accept EXCEPT ![p] = accept'[p]]
          /\ \/ accept'[p] = accept[p]
             \/ accept'[p] = "notify" /\ o \in {"over", "aborted"}
      BY <1>3 DEF Observed, Put, ProcTypes
    <2> HIDE DEF r
    <2> QED
      BY <1>3, <2>1, <2>3, <2>4
  <1> QED
    BY <1>2, <1>3

\* A step of p that applies the observation o, and what it does beside that.
ObservedStep(p, o, l, q, t, f) ==
    /\ Observed(p, o)
    /\ l \in {"none", "nopid", "queued", "runs", "orphans", "over", "aborted"}
    /\ q \in {"resolving", "spawning", "cancelling", "submitting", "settled", "rejected"}
    /\ t \in {"idle", "stopping", "accepting"} /\ f \in {"idle", refresh[p]}
    /\ platform' = platform /\ held' = held /\ aborted' = aborted
    /\ life' = [life EXCEPT ![p] = l] /\ request' = [request EXCEPT ![p] = q]
    /\ attempt' = [attempt EXCEPT ![p] = t] /\ refresh' = [refresh EXCEPT ![p] = f]
    /\ o \in {"over", "aborted"} => l \in {"over", "aborted"}
    /\ life[p] \in {"nopid", "over", "aborted"} => l = life[p]
    /\ \/ platform = "windows"
       \/ l = life[p] /\ (q = request[p] \/ (request[p] # "rejected" /\ q = "settled"))

\* Applying an observation keeps the invariant when an end that is reported,
\* or was known before, is the state of the process.
LEMMA ObservationKeeps ==
    ASSUME ProcInv, NEW p \in Procs, NEW o, NEW l, NEW q, NEW t, NEW f, ObservedStep(p, o, l, q, t, f)
    PROVE  ProcInv'
  <1> USE DEF ObservedStep
  <1>1. ProcTypes /\ ProcFits(p) /\ Observed(p, o)
    BY DEF ProcInv
  <1>2. /\ rec'[p] \in Records /\ rec' = [rec EXCEPT ![p] = rec'[p]]
        /\ Final(rec'[p]) <=> Final(rec[p])
        /\ accept' = [accept EXCEPT ![p] = accept'[p]]
        /\ \/ accept'[p] = accept[p]
           \/ accept'[p] = "notify" /\ ~Final(rec[p]) /\ o \in {"over", "aborted"}
    BY <1>1, ObservedFacts
  <1>3. ProcTypes'
    BY <1>1, <1>2 DEF ProcTypes
  <1>4. OthersStay(p)
    BY <1>1, <1>2 DEF ProcTypes, OthersStay
  <1>5. ProcFits(p)'
    BY <1>1, <1>2 DEF ProcTypes, ProcFits
  <1> QED
    BY <1>3, <1>4, <1>5, ProcFromOne

LEMMA RejectBeforeDispatchKeeps ==
    ASSUME ProcInv, NEW p \in Procs, RejectBeforeDispatch(p)
    PROVE  ProcInv'
  <1>1. ProcTypes
    BY DEF ProcInv
  <1>2. \E o \in {"aborted", "unknown"}, l \in {"none", "aborted"} :
            /\ Observed(p, o) /\ life' = [life EXCEPT ![p] = l]
            /\ o = "aborted" => l = "aborted"
            /\ life[p] = "aborted" => l = "aborted"
            /\ life[p] \in {"none", "aborted"}
    BY <1>1 DEF RejectBeforeDispatch, Put, ProcTypes
  <1>3. /\ platform = "windows"
        /\ request' = [request EXCEPT ![p] = "settled"] /\ attempt' = [attempt EXCEPT ![p] = attempt[p]]
        /\ refresh' = [refresh EXCEPT ![p] = refresh[p]] /\ attempt[p] \in {"idle", "stopping", "accepting"}
        /\ platform' = platform /\ held' = held /\ aborted' = aborted
    BY <1>1 DEF RejectBeforeDispatch, Put, ProcTypes
  <1>4. PICK o, l : ObservedStep(p, o, l, "settled", attempt[p], refresh[p])
    BY <1>2, <1>3 DEF ObservedStep
  <1> QED
    BY <1>4, ObservationKeeps

LEMMA SubmitReturnsKeeps ==
    ASSUME ProcInv, NEW p \in Procs, SubmitReturns(p)
    PROVE  ProcInv'
  <1>1. ProcTypes
    BY DEF ProcInv
  <1>2. PICK o \in {Report(life[p]), "unknown"} : Observed(p, o)
    BY DEF SubmitReturns
  <1>3. /\ o \in {"over", "aborted"} => life[p] \in {"over", "aborted"}
    BY <1>1, <1>2 DEF Report, ProcTypes
  <1>4. /\ life' = [life EXCEPT ![p] = life[p]] /\ request[p] = "submitting"
        /\ request' = [request EXCEPT ![p] = "settled"] /\ attempt' = [attempt EXCEPT ![p] = attempt[p]]
        /\ refresh' = [refresh EXCEPT ![p] = refresh[p]] /\ attempt[p] \in {"idle", "stopping", "accepting"}
        /\ life[p] \in {"none", "nopid", "queued", "runs", "orphans", "over", "aborted"}
        /\ platform' = platform /\ held' = held /\ aborted' = aborted
    BY <1>1 DEF SubmitReturns, Put, ProcTypes
  <1>5. ObservedStep(p, o, life[p], "settled", attempt[p], refresh[p])
    BY <1>2, <1>3, <1>4 DEF ObservedStep
  <1> QED
    BY <1>5, ObservationKeeps

LEMMA ServiceStoppedKeeps ==
    ASSUME ProcInv, NEW p \in Procs, ServiceStopped(p)
    PROVE  ProcInv'
  <1> DEFINE l == AbortedLife(life[p])
  <1>1. ProcTypes /\ request[p] # "idle"
    BY DEF ProcInv, ProcFits, ServiceStopped
  <1>2. /\ l \in {"none", "nopid", "queued", "runs", "orphans", "over", "aborted"}
        /\ life[p] \in {"nopid", "over", "aborted"} => l = life[p]
        /\ l = "runs" => life[p] = "runs"
        /\ life = [life EXCEPT ![p] = life[p]]
        /\ life[p] \in {"none", "nopid", "queued", "runs", "orphans", "over", "aborted"}
    BY <1>1 DEF AbortedLife, ProcTypes
  <1>3. Report(l) \in {"over", "aborted"} => l \in {"over", "aborted"}
    BY <1>2 DEF Report
  <1>4. /\ platform = "windows" /\ request[p] \in {"resolving", "spawning", "cancelling", "submitting", "settled", "rejected"}
        /\ request' = [request EXCEPT ![p] = request[p]] /\ attempt' = [attempt EXCEPT ![p] = "accepting"]
        /\ refresh' = [refresh EXCEPT ![p] = refresh[p]]
        /\ platform' = platform /\ held' = held /\ aborted' = aborted
    BY <1>1 DEF ServiceStopped, Put, ProcTypes
  <1>5. \/ life' = [life EXCEPT ![p] = l] /\ Observed(p, Report(l))
        \/ l = "runs" /\ life' = [life EXCEPT ![p] = "over"] /\ Observed(p, "over")
        \/ life' = life /\ Observed(p, "unknown")
        \/ life' = [life EXCEPT ![p] = l] /\ Observed(p, "unknown")
    BY DEF ServiceStopped, Put
  <1> HIDE DEF l
  <1>6. CASE life' = [life EXCEPT ![p] = l] /\ Observed(p, Report(l))
    <2>1. ObservedStep(p, Report(l), l, request[p], "accepting", refresh[p])
      BY <1>2, <1>3, <1>4, <1>6 DEF ObservedStep
    <2> QED
      BY <2>1, ObservationKeeps
  <1>7. CASE l = "runs" /\ life' = [life EXCEPT ![p] = "over"] /\ Observed(p, "over")
    <2>1. ObservedStep(p, "over", "over", request[p], "accepting", refresh[p])
      BY <1>2, <1>4, <1>7 DEF ObservedStep
    <2> QED
      BY <2>1, ObservationKeeps
  <1>8. CASE life' = life /\ Observed(p, "unknown")
    <2>1. ObservedStep(p, "unknown", life[p], request[p], "accepting", refresh[p])
      BY <1>2, <1>4, <1>8 DEF ObservedStep
    <2> QED
      BY <2>1, ObservationKeeps
  <1>9. CASE life' = [life EXCEPT ![p] = l] /\ Observed(p, "unknown")
    <2>1. ObservedStep(p, "unknown", l, request[p], "accepting", refresh[p])
      BY <1>2, <1>4, <1>9 DEF ObservedStep
    <2> QED
      BY <2>1, ObservationKeeps
  <1> QED
    BY <1>5, <1>6, <1>7, <1>8, <1>9

LEMMA RefreshAppliedKeeps ==
    ASSUME ProcInv, NEW p \in Procs, RefreshApplied(p)
    PROVE  ProcInv'
  <1>1. ProcTypes /\ ProcFits(p)
    BY DEF ProcInv
  <1>2. /\ Observed(p, refresh[p]) /\ request[p] # "idle"
        /\ refresh[p] \in {"over", "aborted"} => life[p] \in {"over", "aborted"}
    BY <1>1 DEF RefreshApplied, ProcFits
  <1>3. /\ life' = [life EXCEPT ![p] = life[p]]
        /\ request[p] \in {"resolving", "spawning", "cancelling", "submitting", "settled", "rejected"}
        /\ request' = [request EXCEPT ![p] = request[p]] /\ attempt' = [attempt EXCEPT ![p] = attempt[p]]
        /\ refresh' = [refresh EXCEPT ![p] = "idle"] /\ attempt[p] \in {"idle", "stopping", "accepting"}
        /\ life[p] \in {"none", "nopid", "queued", "runs", "orphans", "over", "aborted"}
        /\ platform' = platform /\ held' = held /\ aborted' = aborted
    BY <1>1, <1>2 DEF RefreshApplied, Put, ProcTypes
  <1>4. ObservedStep(p, refresh[p], life[p], request[p], attempt[p], "idle")
    BY <1>2, <1>3 DEF ObservedStep
  <1> QED
    BY <1>4, ObservationKeeps

\* An attempt to terminate changes a record that is not final.
LEMMA TerminateTreeKeeps ==
    ASSUME ProcInv, NEW p \in Procs, NEW t \in {"none", "stopped", "timed_out"},
           TerminateTree(p, t), request[p] # "idle"
    PROVE  ProcInv'
  <1>1. ProcTypes /\ ProcFits(p) /\ Terminating(p, t)
    BY DEF ProcInv, TerminateTree
  <1>2. /\ rec'[p] \in Records /\ rec' = [rec EXCEPT ![p] = rec'[p]]
        /\ ~Final(rec'[p]) /\ ~Final(rec[p])
        /\ attempt' = attempt \/ attempt' = [attempt EXCEPT ![p] = "stopping"]
    BY <1>1, TerminatingFacts
  <1>3. UNCHANGED <<platform, life, held, request, aborted, accept, refresh>>
    BY DEF TerminateTree
  <1>4. ProcTypes' /\ OthersStay(p)
    BY <1>1, <1>2, <1>3 DEF ProcTypes, OthersStay
  <1>5. ProcFits(p)'
    BY <1>1, <1>2, <1>3 DEF ProcFits
  <1> QED
    BY <1>4, <1>5, ProcFromOne

LEMMA AbortSubmissionKeeps ==
    ASSUME ProcInv, NEW p \in Procs, AbortSubmission(p)
    PROVE  ProcInv'
  <1>1. ProcTypes /\ ProcFits(p) /\ request[p] = "submitting"
    BY DEF ProcInv, AbortSubmission
  <1>2. /\ rec'[p] \in Records /\ rec' = [rec EXCEPT ![p] = rec'[p]]
        /\ Final(rec'[p]) <=> Final(rec[p])
        /\ attempt' = attempt \/ attempt' = [attempt EXCEPT ![p] = "stopping"]
    BY <1>1, TerminatingFacts DEF AbortSubmission, ProcTypes
  <1>3. /\ UNCHANGED <<platform, life, held, request, accept, refresh>>
        /\ aborted' = [aborted EXCEPT ![p] = TRUE]
    BY DEF AbortSubmission, Put
  <1>4. ProcTypes' /\ OthersStay(p)
    BY <1>1, <1>2, <1>3 DEF ProcTypes, OthersStay
  <1>5. ProcFits(p)'
    BY <1>1, <1>2, <1>3 DEF ProcFits
  <1> QED
    BY <1>4, <1>5, ProcFromOne

LEMMA StopProcessKeeps ==
    ASSUME ProcInv, NEW p \in Procs, StopProcess(p)
    PROVE  ProcInv'
  <1>1. rec[p] \in Records /\ request[p] # "idle"
    BY DEF ProcInv, ProcTypes, ProcFits, StopProcess, NoRecord
  <1>2. (IF rec[p].target = "none" THEN "stopped" ELSE rec[p].target) \in {"none", "stopped", "timed_out"}
    BY <1>1 DEF Records
  <1>3. TerminateTree(p, IF rec[p].target = "none" THEN "stopped" ELSE rec[p].target)
    BY DEF StopProcess
  <1> QED
    BY <1>1, <1>2, <1>3, TerminateTreeKeeps

LEMMA TimeoutFiresKeeps ==
    ASSUME ProcInv, NEW p \in Procs, TimeoutFires(p)
    PROVE  ProcInv'
  <1>1. ProcTypes /\ ProcFits(p) /\ rec[p] \in Records /\ request[p] # "idle"
    BY DEF ProcInv, ProcTypes, ProcFits, TimeoutFires, NoRecord
  <1>2. CASE TerminateTree(p, "timed_out")
    BY <1>1, <1>2, TerminateTreeKeeps
  <1>3. CASE /\ rec' = [rec EXCEPT ![p] = [rec[p] EXCEPT !.timer = FALSE]]
             /\ UNCHANGED <<platform, life, held, request, aborted, accept, attempt, refresh>>
    <2>1. rec'[p] \in Records /\ rec' = [rec EXCEPT ![p] = rec'[p]] /\ (Final(rec'[p]) <=> Final(rec[p]))
      <3> DEFINE r == [rec[p] EXCEPT !.timer = FALSE]
      <3>1. r \in Records /\ (Final(r) <=> Final(rec[p])) /\ rec' = [rec EXCEPT ![p] = r]
        BY <1>1, <1>3, EventFacts
      <3> HIDE DEF r
      <3> QED
        BY <1>1, <3>1 DEF ProcTypes
    <2>2. ProcTypes' /\ OthersStay(p)
      BY <1>1, <1>3, <2>1 DEF ProcTypes, OthersStay
    <2>3. ProcFits(p)'
      BY <1>1, <1>3, <2>1 DEF ProcFits
    <2> QED
      BY <2>2, <2>3, ProcFromOne
  <1> QED
    BY <1>2, <1>3 DEF TimeoutFires, Put

LEMMA CancelStartKeeps ==
    ASSUME ProcInv, NEW p \in Procs, CancelStart(p)
    PROVE  ProcInv'
  <1>1. ProcTypes /\ ProcFits(p) /\ request[p] = "cancelling"
    BY DEF ProcInv, CancelStart
  <1>2. CASE TerminateTree(p, "stopped")
    BY <1>1, <1>2, TerminateTreeKeeps
  <1>3. CASE /\ Final(rec[p]) /\ request' = [request EXCEPT ![p] = "settled"]
             /\ UNCHANGED <<platform, life, held, aborted, rec, accept, attempt, refresh>>
    <2>1. ProcTypes' /\ OthersStay(p)
      BY <1>1, <1>3 DEF ProcTypes, OthersStay
    <2>2. ProcFits(p)'
      BY <1>1, <1>3 DEF ProcFits, ProcTypes
    <2> QED
      BY <2>1, <2>2, ProcFromOne
  <1> QED
    BY <1>2, <1>3 DEF CancelStart, Put

\* The record becomes final in the step that releases the reservation.
LEMMA NotifyKeeps ==
    ASSUME ProcInv, NEW p \in Procs, Notify(p)
    PROVE  ProcInv'
  <1>1. /\ ProcTypes /\ ProcFits(p) /\ rec[p] \in Records /\ ~Final(rec[p])
        /\ request[p] # "idle" /\ life[p] \in {"nopid", "over", "aborted"}
    BY DEF ProcInv, ProcTypes, ProcFits, Notify
  <1>2. /\ UNCHANGED <<platform, life, request, aborted, attempt, refresh>>
        /\ accept' = [accept EXCEPT ![p] = "idle"]
    BY DEF Notify, Put
  <1>3. \/ /\ held' = [held EXCEPT ![p] = FALSE]
           /\ \E st \in EndStates(p) : rec' = [rec EXCEPT ![p] = Finished([rec[p] EXCEPT !.notified = TRUE], st)]
        \/ rec' = [rec EXCEPT ![p] = Unverified(rec[p])] /\ held' = held
    BY DEF Notify, Put
  <1>4. /\ rec'[p] \in Records /\ rec' = [rec EXCEPT ![p] = rec'[p]]
        /\ \/ held' = [held EXCEPT ![p] = FALSE]
           \/ held' = held /\ ~Final(rec'[p])
    <2>1. CASE rec' = [rec EXCEPT ![p] = Unverified(rec[p])] /\ held' = held
      BY <1>1, <2>1, UnverifiedFacts DEF ProcTypes
    <2>2. ASSUME held' = [held EXCEPT ![p] = FALSE], NEW st \in EndStates(p),
                 rec' = [rec EXCEPT ![p] = Finished([rec[p] EXCEPT !.notified = TRUE], st)]
          PROVE  rec'[p] \in Records /\ rec' = [rec EXCEPT ![p] = rec'[p]]
      <3>1. st \in VerifiedTerminal
        BY <1>1, EndStatesFacts
      <3> QED
        BY <1>1, <2>2, <3>1, FinishedFacts DEF ProcTypes
    <2> QED
      BY <1>3, <2>1, <2>2
  <1>5. ProcTypes' /\ OthersStay(p)
    BY <1>1, <1>2, <1>4 DEF ProcTypes, OthersStay
  <1>6. ProcFits(p)'
    BY <1>1, <1>2, <1>4 DEF ProcFits, ProcTypes
  <1> QED
    BY <1>5, <1>6, ProcFromOne

LEMMA RecoveryFiresKeeps ==
    ASSUME ProcInv, NEW p \in Procs, RecoveryFires(p)
    PROVE  ProcInv'
  <1> DEFINE r == [rec[p] EXCEPT !.recovery = FALSE]
  <1>1. ProcTypes /\ ProcFits(p) /\ rec[p] \in Records /\ request[p] # "idle"
    BY DEF ProcInv, ProcTypes, ProcFits, RecoveryFires, NoRecord
  <1>2. r \in Records /\ (Final(r) <=> Final(rec[p]))
    BY <1>1, EventFacts
  <1>3. /\ UNCHANGED <<platform, life, held, request, aborted, attempt>>
        /\ rec' = [rec EXCEPT ![p] = r]
        /\ \/ accept' = [accept EXCEPT ![p] = Accepting(p, r)] /\ refresh' = refresh
           \/ accept' = accept /\ \E f \in {refresh[p], "asked"} : refresh' = [refresh EXCEPT ![p] = f]
    BY DEF RecoveryFires, Put
  <1>4. /\ Accepting(p, r) \in {accept[p], "inspect", "notify"}
        /\ Accepting(p, r) # accept[p] => ~Final(r)
        /\ Accepting(p, r) = "notify" => accept[p] = "notify" \/ life[p] = "nopid"
        /\ Accepting(p, r) = "pipes" => accept[p] = "pipes"
    BY <1>1 DEF Accepting, ProcTypes
  <1> HIDE DEF r
  <1>5. ProcTypes' /\ OthersStay(p)
    BY <1>1, <1>2, <1>3, <1>4 DEF ProcTypes, OthersStay
  <1>6. ProcFits(p)'
    BY <1>1, <1>2, <1>3, <1>4 DEF ProcTypes, ProcFits
  <1> QED
    BY <1>5, <1>6, ProcFromOne

LEMMA StartProcessKeeps ==
    ASSUME ProcInv, NEW p \in Procs, StartProcess(p)
    PROVE  ProcInv'
  <1>1. ProcTypes /\ ProcFits(p) /\ rec[p] \in Records
    BY DEF ProcInv, ProcTypes
  <1>2. rec' = rec
    BY DEF StartProcess
  <1>3. ProcTypes' /\ OthersStay(p)
    BY <1>1, <1>2 DEF ProcTypes, OthersStay, Put, StartProcess
  <1>4. ProcFits(p)'
    BY <1>1, <1>2 DEF ProcTypes, ProcFits, Put, StartProcess
  <1> QED
    BY <1>3, <1>4, ProcFromOne

LEMMA RejectBeforeSpawnKeeps ==
    ASSUME ProcInv, NEW p \in Procs, RejectBeforeSpawn(p)
    PROVE  ProcInv'
  <1>1. ProcTypes /\ ProcFits(p) /\ rec[p] \in Records
    BY DEF ProcInv, ProcTypes
  <1>2. rec' = rec
    BY DEF RejectBeforeSpawn
  <1>3. ProcTypes' /\ OthersStay(p)
    BY <1>1, <1>2 DEF ProcTypes, OthersStay, Put, RejectBeforeSpawn
  <1>4. ProcFits(p)'
    BY <1>1, <1>2 DEF ProcTypes, ProcFits, Put, RejectBeforeSpawn
  <1> QED
    BY <1>3, <1>4, ProcFromOne

LEMMA SpawnChildKeeps ==
    ASSUME ProcInv, NEW p \in Procs, SpawnChild(p)
    PROVE  ProcInv'
  <1>1. ProcTypes /\ ProcFits(p) /\ rec[p] \in Records
    BY DEF ProcInv, ProcTypes
  <1>2. rec'[p] \in Records /\ rec' = [rec EXCEPT ![p] = rec'[p]] /\ ~Final(rec'[p])
    BY <1>1, NewRecord DEF ProcTypes, Put, SpawnChild
  <1>3. ProcTypes' /\ OthersStay(p)
    BY <1>1, <1>2 DEF ProcTypes, OthersStay, Put, SpawnChild
  <1>4. ProcFits(p)'
    BY <1>1, <1>2 DEF ProcTypes, ProcFits, Put, SpawnChild
  <1> QED
    BY <1>3, <1>4, ProcFromOne

LEMMA SpawnedKeeps ==
    ASSUME ProcInv, NEW p \in Procs, Spawned(p)
    PROVE  ProcInv'
  <1>1. ProcTypes /\ ProcFits(p) /\ rec[p] \in Records
    BY DEF ProcInv, ProcTypes
  <1>2. rec'[p] \in Records /\ rec' = [rec EXCEPT ![p] = rec'[p]] /\ (Final(rec'[p]) <=> Final(rec[p]))
    <2> DEFINE r == [rec[p] EXCEPT !.state = IF @ = "starting" THEN "running" ELSE @, !.timer = ~Final(rec[p])]
    <2>1. r \in Records /\ (Final(r) <=> Final(rec[p]))
      BY <1>1, RunningFacts
    <2>2. rec' = rec \/ rec' = [rec EXCEPT ![p] = r]
      BY DEF Put, Spawned
    <2> HIDE DEF r
    <2> QED
      BY <1>1, <2>1, <2>2 DEF ProcTypes
  <1>3. ProcTypes' /\ OthersStay(p)
    BY <1>1, <1>2 DEF ProcTypes, OthersStay, Put, Spawned
  <1>4. ProcFits(p)'
    BY <1>1, <1>2 DEF ProcTypes, ProcFits, Put, Spawned
  <1> QED
    BY <1>3, <1>4, ProcFromOne

LEMMA SpawnErrsKeeps ==
    ASSUME ProcInv, NEW p \in Procs, SpawnErrs(p)
    PROVE  ProcInv'
  <1>1. ProcTypes /\ ProcFits(p) /\ rec[p] \in Records
    BY DEF ProcInv, ProcTypes
  <1>2. rec'[p] \in Records /\ rec' = [rec EXCEPT ![p] = rec'[p]] /\ (Final(rec'[p]) <=> Final(rec[p]))
    <2> DEFINE r == [rec[p] EXCEPT !.exit = "failed"]
    <2>1. r \in Records /\ (Final(r) <=> Final(rec[p]))
      BY <1>1, EventFacts
    <2>2. rec' = [rec EXCEPT ![p] = r]
      BY DEF Put, SpawnErrs, ChildEvent
    <2> HIDE DEF r
    <2> QED
      BY <1>1, <2>1, <2>2 DEF ProcTypes
  <1>3. ProcTypes' /\ OthersStay(p)
    BY <1>1, <1>2 DEF ProcTypes, OthersStay, Put, SpawnErrs, ChildEvent, Accepting
  <1>4. ProcFits(p)'
    BY <1>1, <1>2 DEF ProcTypes, ProcFits, Put, SpawnErrs, ChildEvent, Accepting
  <1> QED
    BY <1>3, <1>4, ProcFromOne

LEMMA RootExitsKeeps ==
    ASSUME ProcInv, NEW p \in Procs, RootExits(p)
    PROVE  ProcInv'
  <1>1. ProcTypes /\ ProcFits(p) /\ rec[p] \in Records
    BY DEF ProcInv, ProcTypes
  <1>2. rec'[p] \in Records /\ rec' = [rec EXCEPT ![p] = rec'[p]] /\ (Final(rec'[p]) <=> Final(rec[p]))
    <2> DEFINE r == [rec[p] EXCEPT !.exit = "exited"]
    <2>1. r \in Records /\ (Final(r) <=> Final(rec[p]))
      BY <1>1, EventFacts
    <2>2. rec' = [rec EXCEPT ![p] = r]
      BY DEF Put, RootExits, ChildEvent
    <2> HIDE DEF r
    <2> QED
      BY <1>1, <2>1, <2>2 DEF ProcTypes
  <1>3. ProcTypes' /\ OthersStay(p)
    BY <1>1, <1>2 DEF ProcTypes, OthersStay, Put, RootExits, ChildEvent, Accepting
  <1>4. ProcFits(p)'
    BY <1>1, <1>2 DEF ProcTypes, ProcFits, Put, RootExits, ChildEvent, Accepting
  <1> QED
    BY <1>3, <1>4, ProcFromOne

LEMMA OrphansEndKeeps ==
    ASSUME ProcInv, NEW p \in Procs, OrphansEnd(p)
    PROVE  ProcInv'
  <1>1. ProcTypes /\ ProcFits(p) /\ rec[p] \in Records
    BY DEF ProcInv, ProcTypes
  <1>2. rec' = rec
    BY DEF OrphansEnd
  <1>3. ProcTypes' /\ OthersStay(p)
    BY <1>1, <1>2 DEF ProcTypes, OthersStay, Put, OrphansEnd
  <1>4. ProcFits(p)'
    BY <1>1, <1>2 DEF ProcTypes, ProcFits, Put, OrphansEnd
  <1> QED
    BY <1>3, <1>4, ProcFromOne

LEMMA PipesCloseKeeps ==
    ASSUME ProcInv, NEW p \in Procs, PipesClose(p)
    PROVE  ProcInv'
  <1>1. ProcTypes /\ ProcFits(p) /\ rec[p] \in Records
    BY DEF ProcInv, ProcTypes
  <1>2. rec'[p] \in Records /\ rec' = [rec EXCEPT ![p] = rec'[p]] /\ (Final(rec'[p]) <=> Final(rec[p]))
    <2> DEFINE r == [rec[p] EXCEPT !.closed = TRUE]
    <2>1. r \in Records /\ (Final(r) <=> Final(rec[p]))
      BY <1>1, EventFacts
    <2>2. rec' = [rec EXCEPT ![p] = r]
      BY DEF Put, PipesClose, ChildEvent
    <2> HIDE DEF r
    <2> QED
      BY <1>1, <2>1, <2>2 DEF ProcTypes
  <1>3. ProcTypes' /\ OthersStay(p)
    BY <1>1, <1>2 DEF ProcTypes, OthersStay, Put, PipesClose, ChildEvent, Accepting
  <1>4. ProcFits(p)'
    BY <1>1, <1>2 DEF ProcTypes, ProcFits, Put, PipesClose, ChildEvent, Accepting
  <1> QED
    BY <1>3, <1>4, ProcFromOne

LEMMA ChildStoppedKeeps ==
    ASSUME ProcInv, NEW p \in Procs, ChildStopped(p)
    PROVE  ProcInv'
  <1>1. ProcTypes /\ ProcFits(p) /\ rec[p] \in Records
    BY DEF ProcInv, ProcTypes
  <1>2. rec'[p] \in Records /\ rec' = [rec EXCEPT ![p] = rec'[p]] /\ (Final(rec'[p]) <=> Final(rec[p]))
    <2> DEFINE r == Unverified([rec[p] EXCEPT !.stopping = FALSE])
    <2>1. r \in Records /\ (Final(r) <=> Final(rec[p]))
      BY <1>1, EventFacts, UnverifiedFacts
    <2>2. rec' = rec \/ rec' = [rec EXCEPT ![p] = r]
      BY DEF Put, ChildStopped
    <2> HIDE DEF r
    <2> QED
      BY <1>1, <2>1, <2>2 DEF ProcTypes
  <1>3. ProcTypes' /\ OthersStay(p)
    BY <1>1, <1>2 DEF ProcTypes, OthersStay, Put, ChildStopped, Accepting
  <1>4. ProcFits(p)'
    BY <1>1, <1>2 DEF ProcTypes, ProcFits, Put, ChildStopped, Accepting
  <1> QED
    BY <1>3, <1>4, ProcFromOne

LEMMA StartServiceKeeps ==
    ASSUME ProcInv, NEW p \in Procs, StartService(p)
    PROVE  ProcInv'
  <1>1. ProcTypes /\ ProcFits(p) /\ rec[p] \in Records
    BY DEF ProcInv, ProcTypes
  <1>2. rec'[p] \in Records /\ rec' = [rec EXCEPT ![p] = rec'[p]] /\ ~Final(rec'[p])
    BY <1>1, NewRecord DEF ProcTypes, Put, StartService
  <1>3. ProcTypes' /\ OthersStay(p)
    BY <1>1, <1>2 DEF ProcTypes, OthersStay, Put, StartService
  <1>4. ProcFits(p)'
    BY <1>1, <1>2 DEF ProcTypes, ProcFits, Put, StartService
  <1> QED
    BY <1>3, <1>4, ProcFromOne

LEMMA AttachServiceKeeps ==
    ASSUME ProcInv, NEW p \in Procs, AttachService(p)
    PROVE  ProcInv'
  <1>1. ProcTypes /\ ProcFits(p) /\ rec[p] \in Records
    BY DEF ProcInv, ProcTypes
  <1>2. rec'[p] \in Records /\ rec' = [rec EXCEPT ![p] = rec'[p]] /\ ~Final(rec'[p])
    BY <1>1, NewRecord DEF ProcTypes, Put, AttachService
  <1>3. ProcTypes' /\ OthersStay(p)
    BY <1>1, <1>2 DEF ProcTypes, OthersStay, Put, AttachService
  <1>4. ProcFits(p)'
    BY <1>1, <1>2 DEF ProcTypes, ProcFits, Put, AttachService
  <1> QED
    BY <1>3, <1>4, ProcFromOne

LEMMA SubmitProcessKeeps ==
    ASSUME ProcInv, NEW p \in Procs, SubmitProcess(p)
    PROVE  ProcInv'
  <1>1. ProcTypes /\ ProcFits(p) /\ rec[p] \in Records
    BY DEF ProcInv, ProcTypes
  <1>2. rec' = rec
    BY DEF SubmitProcess
  <1>3. ProcTypes' /\ OthersStay(p)
    BY <1>1, <1>2 DEF ProcTypes, OthersStay, Put, SubmitProcess
  <1>4. ProcFits(p)'
    BY <1>1, <1>2 DEF ProcTypes, ProcFits, Put, SubmitProcess
  <1> QED
    BY <1>3, <1>4, ProcFromOne

LEMMA ServiceRunsKeeps ==
    ASSUME ProcInv, NEW p \in Procs, ServiceRuns(p)
    PROVE  ProcInv'
  <1>1. ProcTypes /\ ProcFits(p) /\ rec[p] \in Records
    BY DEF ProcInv, ProcTypes
  <1>2. rec' = rec
    BY DEF ServiceRuns
  <1>3. ProcTypes' /\ OthersStay(p)
    BY <1>1, <1>2 DEF ProcTypes, OthersStay, Put, ServiceRuns
  <1>4. ProcFits(p)'
    BY <1>1, <1>2 DEF ProcTypes, ProcFits, Put, ServiceRuns
  <1> QED
    BY <1>3, <1>4, ProcFromOne

LEMMA RefreshAnswersKeeps ==
    ASSUME ProcInv, NEW p \in Procs, RefreshAnswers(p)
    PROVE  ProcInv'
  <1>1. ProcTypes /\ ProcFits(p) /\ rec[p] \in Records
    BY DEF ProcInv, ProcTypes
  <1>2. rec' = rec
    BY DEF RefreshAnswers
  <1>3. ProcTypes' /\ OthersStay(p)
    BY <1>1, <1>2 DEF ProcTypes, OthersStay, Put, RefreshAnswers, Report
  <1>4. ProcFits(p)'
    BY <1>1, <1>2 DEF ProcTypes, ProcFits, Put, RefreshAnswers, Report
  <1> QED
    BY <1>3, <1>4, ProcFromOne

LEMMA AbortKeeps ==
    ASSUME ProcInv, NEW p \in Procs, Abort(p)
    PROVE  ProcInv'
  <1>1. ProcTypes /\ ProcFits(p) /\ rec[p] \in Records
    BY DEF ProcInv, ProcTypes
  <1>2. rec' = rec
    BY DEF Abort
  <1>3. ProcTypes' /\ OthersStay(p)
    BY <1>1, <1>2 DEF ProcTypes, OthersStay, Put, Abort
  <1>4. ProcFits(p)'
    BY <1>1, <1>2 DEF ProcTypes, ProcFits, Put, Abort
  <1> QED
    BY <1>3, <1>4, ProcFromOne

LEMMA InspectTreeKeeps ==
    ASSUME ProcInv, NEW p \in Procs, InspectTree(p)
    PROVE  ProcInv'
  <1>1. ProcTypes /\ ProcFits(p) /\ rec[p] \in Records
    BY DEF ProcInv, ProcTypes
  <1>2. rec'[p] \in Records /\ rec' = [rec EXCEPT ![p] = rec'[p]] /\ (Final(rec'[p]) <=> Final(rec[p]))
    BY <1>1, UnverifiedFacts DEF ProcTypes, Put, InspectTree
  <1>3. ProcTypes' /\ OthersStay(p)
    BY <1>1, <1>2 DEF ProcTypes, OthersStay, Put, InspectTree
  <1>4. ProcFits(p)'
    BY <1>1, <1>2 DEF ProcTypes, ProcFits, Put, InspectTree
  <1> QED
    BY <1>3, <1>4, ProcFromOne

LEMMA AwaitPipesKeeps ==
    ASSUME ProcInv, NEW p \in Procs, AwaitPipes(p)
    PROVE  ProcInv'
  <1>1. ProcTypes /\ ProcFits(p) /\ rec[p] \in Records
    BY DEF ProcInv, ProcTypes
  <1>2. rec'[p] \in Records /\ rec' = [rec EXCEPT ![p] = rec'[p]] /\ (Final(rec'[p]) <=> Final(rec[p]))
    BY <1>1, UnverifiedFacts DEF ProcTypes, Put, AwaitPipes
  <1>3. ProcTypes' /\ OthersStay(p)
    BY <1>1, <1>2 DEF ProcTypes, OthersStay, Put, AwaitPipes
  <1>4. ProcFits(p)'
    BY <1>1, <1>2 DEF ProcTypes, ProcFits, Put, AwaitPipes
  <1> QED
    BY <1>3, <1>4, ProcFromOne

LEMMA AttemptEndsKeeps ==
    ASSUME ProcInv, NEW p \in Procs, AttemptEnds(p)
    PROVE  ProcInv'
  <1>1. ProcTypes /\ ProcFits(p) /\ rec[p] \in Records
    BY DEF ProcInv, ProcTypes
  <1>2. rec' = rec
    BY DEF AttemptEnds
  <1>3. ProcTypes' /\ OthersStay(p)
    BY <1>1, <1>2 DEF ProcTypes, OthersStay, Put, AttemptEnds
  <1>4. ProcFits(p)'
    BY <1>1, <1>2 DEF ProcTypes, ProcFits, Put, AttemptEnds
  <1> QED
    BY <1>3, <1>4, ProcFromOne

LEMMA ProcInvInit ==
    ASSUME ProcInit
    PROVE  ProcInv
  <1>1. ProcTypes
    BY NewRecord DEF ProcInit, ProcTypes
  <1>2. ASSUME NEW p \in Procs PROVE ProcFits(p)
    BY NewRecord DEF ProcInit, ProcFits
  <1> QED
    BY <1>1, <1>2 DEF ProcInv

LEMMA ProcInvNext ==
    ASSUME ProcInv, [ProcNext]_procVars
    PROVE  ProcInv'
  <1>1. CASE UNCHANGED procVars
    BY <1>1 DEF procVars, ProcInv, ProcTypes, ProcFits, Final
  <1>2. ASSUME NEW p \in Procs, PosixStep(p) PROVE ProcInv'
    BY <1>2, StartProcessKeeps, RejectBeforeSpawnKeeps, SpawnChildKeeps, SpawnedKeeps, SpawnErrsKeeps,
       RootExitsKeeps, OrphansEndKeeps, PipesCloseKeeps, ChildStoppedKeeps DEF PosixStep
  <1>3. ASSUME NEW p \in Procs, ServiceStep(p) PROVE ProcInv'
    BY <1>3, StartServiceKeeps, AttachServiceKeeps, RejectBeforeDispatchKeeps, SubmitProcessKeeps,
       AbortSubmissionKeeps, SubmitReturnsKeeps, ServiceRunsKeeps, ServiceStoppedKeeps,
       RefreshAnswersKeeps, RefreshAppliedKeeps DEF ServiceStep
  <1>4. ASSUME NEW p \in Procs, CommonStep(p) PROVE ProcInv'
    BY <1>4, AbortKeeps, StopProcessKeeps, TimeoutFiresKeeps, CancelStartKeeps, InspectTreeKeeps,
       AwaitPipesKeeps, NotifyKeeps, AttemptEndsKeeps, RecoveryFiresKeeps DEF CommonStep
  <1> QED
    BY <1>1, <1>2, <1>3, <1>4 DEF ProcNext

LEMMA ProcAlways == ProcSpec => []ProcInv
  <1>1. ProcInit => ProcInv
    BY ProcInvInit
  <1>2. ProcInv /\ [ProcNext]_procVars => ProcInv'
    BY ProcInvNext
  <1> QED
    BY <1>1, <1>2, PTL DEF ProcSpec

\* The writer reservation of a managed process is released only when nothing
\* of the process runs or can still be launched, and a final record has
\* released it (rejectBeforeSpawn, acceptPosixCompletion, acceptNativeReceipt).
THEOREM ReleaseAlwaysFollowsTheEnd == ProcSpec => []ReleasedIsGone
  <1>1. ProcInv => ReleasedIsGone
    BY DEF ProcInv, ProcFits, ReleasedIsGone, Gone
  <1> QED
    BY <1>1, ProcAlways, PTL

\* A step of p leaves the state of a final record as it is.
FinalStays(p) == Final(rec[p]) => rec'[p].state = rec[p].state

LEMMA PosixKeepsFinal ==
    ASSUME ProcInv, NEW p \in Procs, PosixStep(p)
    PROVE  FinalStays(p)
  <1>1. ProcTypes /\ ProcFits(p) /\ rec[p] \in Records
    BY DEF ProcInv, ProcTypes
  <1>2. CASE StartProcess(p) \/ RejectBeforeSpawn(p) \/ OrphansEnd(p)
    BY <1>2 DEF FinalStays, StartProcess, RejectBeforeSpawn, OrphansEnd
  <1>3. CASE SpawnChild(p)
    BY <1>1, <1>3 DEF FinalStays, SpawnChild, ProcFits
  <1>4. CASE Spawned(p)
    <2> DEFINE s == [rec[p] EXCEPT !.state = IF @ = "starting" THEN "running" ELSE @, !.timer = ~Final(rec[p])]
    <2>1. Final(rec[p]) => s.state = rec[p].state
      BY <1>1, RunningFacts
    <2>2. rec' = rec \/ rec' = [rec EXCEPT ![p] = s]
      BY <1>4 DEF Spawned, Put
    <2> HIDE DEF s
    <2> QED
      BY <1>1, <2>1, <2>2 DEF FinalStays, ProcTypes
  <1>5. CASE SpawnErrs(p) \/ RootExits(p) \/ PipesClose(p)
    <2>1. \E e : rec' = [rec EXCEPT ![p] = [rec[p] EXCEPT !.exit = e]] \/ rec' = [rec EXCEPT ![p] = [rec[p] EXCEPT !.closed = e]]
      BY <1>5 DEF SpawnErrs, RootExits, PipesClose, ChildEvent, Put
    <2> QED
      BY <1>1, <2>1 DEF FinalStays, ProcTypes, Records
  <1>6. CASE ChildStopped(p)
    <2>1. rec' = rec \/ rec' = [rec EXCEPT ![p] = Unverified([rec[p] EXCEPT !.stopping = FALSE])]
      BY <1>6 DEF ChildStopped, Put
    <2> QED
      BY <1>1, <2>1 DEF FinalStays, Unverified, Final, ProcTypes, Records
  <1> QED
    BY <1>2, <1>3, <1>4, <1>5, <1>6 DEF PosixStep

LEMMA ServiceKeepsFinal ==
    ASSUME ProcInv, NEW p \in Procs, ServiceStep(p)
    PROVE  FinalStays(p)
  <1>1. ProcTypes /\ ProcFits(p) /\ rec[p] \in Records
    BY DEF ProcInv, ProcTypes
  <1>2. CASE SubmitProcess(p) \/ ServiceRuns(p) \/ RefreshAnswers(p)
    BY <1>2 DEF FinalStays, SubmitProcess, ServiceRuns, RefreshAnswers
  <1>3. CASE StartService(p) \/ AttachService(p)
    BY <1>1, <1>3, NewRecord DEF FinalStays, StartService, AttachService, ProcFits
  <1>4. CASE RejectBeforeDispatch(p) \/ SubmitReturns(p) \/ ServiceStopped(p) \/ RefreshApplied(p)
    <2>1. PICK o : Observed(p, o)
      BY <1>4 DEF RejectBeforeDispatch, SubmitReturns, ServiceStopped, RefreshApplied
    <2> QED
      BY <1>1, <2>1, ObservedFacts DEF FinalStays
  <1>5. CASE AbortSubmission(p)
    BY <1>1, <1>5, TerminatingFacts DEF AbortSubmission, FinalStays
  <1> QED
    BY <1>2, <1>3, <1>4, <1>5 DEF ServiceStep

LEMMA CommonKeepsFinal ==
    ASSUME ProcInv, NEW p \in Procs, CommonStep(p)
    PROVE  FinalStays(p)
  <1>1. ProcTypes /\ ProcFits(p) /\ rec[p] \in Records
    BY DEF ProcInv, ProcTypes
  <1>2. CASE Abort(p) \/ AttemptEnds(p)
    BY <1>2 DEF FinalStays, Abort, AttemptEnds
  <1>3. CASE StopProcess(p) \/ TimeoutFires(p) \/ CancelStart(p)
    <2>1. \/ ~Final(rec[p]) \/ rec' = rec
          \/ rec' = [rec EXCEPT ![p] = [rec[p] EXCEPT !.timer = FALSE]]
      BY <1>3 DEF StopProcess, TimeoutFires, CancelStart, TerminateTree, Terminating, Put
    <2> QED
      BY <1>1, <2>1 DEF FinalStays, ProcTypes, Records
  <1>4. CASE InspectTree(p) \/ AwaitPipes(p) \/ Notify(p)
    <2>1. ~Final(rec[p])
      BY <1>1, <1>4 DEF ProcFits, InspectTree, AwaitPipes, Notify
    <2> QED
      BY <2>1 DEF FinalStays
  <1>5. CASE RecoveryFires(p)
    <2>1. rec' = [rec EXCEPT ![p] = [rec[p] EXCEPT !.recovery = FALSE]]
      BY <1>5 DEF RecoveryFires, Put
    <2> QED
      BY <1>1, <2>1 DEF FinalStays, ProcTypes, Records
  <1> QED
    BY <1>2, <1>3, <1>4, <1>5 DEF CommonStep

\* Every action of p changes the record of p alone.
LEMMA RecordOfOne ==
    ASSUME ProcInv, NEW p \in Procs, PosixStep(p) \/ ServiceStep(p) \/ CommonStep(p)
    PROVE  \A q \in Procs \ {p} : rec'[q] = rec[q]
  <1>1. ProcTypes
    BY DEF ProcInv
  <1>2. \E r : rec' = rec \/ rec' = [rec EXCEPT ![p] = r]
    <2>1. CASE PosixStep(p)
      BY <2>1 DEF PosixStep, StartProcess, RejectBeforeSpawn, SpawnChild, Spawned, SpawnErrs, RootExits,
                  OrphansEnd, PipesClose, ChildStopped, ChildEvent, Put
    <2>2. CASE ServiceStep(p)
      BY <2>2 DEF ServiceStep, StartService, AttachService, RejectBeforeDispatch, SubmitProcess, AbortSubmission,
                  SubmitReturns, ServiceRuns, ServiceStopped, RefreshAnswers, RefreshApplied, Observed,
                  Terminating, Put
    <2>3. CASE CommonStep(p)
      BY <2>3 DEF CommonStep, Abort, StopProcess, TimeoutFires, CancelStart, InspectTree, AwaitPipes, Notify,
                  AttemptEnds, RecoveryFires, TerminateTree, Terminating, Put
    <2> QED
      BY <2>1, <2>2, <2>3
  <1> QED
    BY <1>1, <1>2 DEF ProcTypes

\* No late exit, timer, cancellation or observation changes the state of a
\* final record (finish, markTerminationUnverified, acceptServiceObservation).
THEOREM FinalRecordsStay == ProcSpec => VerifiedIsFinal
  <1>1. ASSUME ProcInv, [ProcNext]_procVars, NEW q \in Procs PROVE FinalStays(q)
    <2>1. CASE UNCHANGED procVars
      BY <2>1 DEF procVars, FinalStays
    <2>2. ASSUME NEW p \in Procs, PosixStep(p) \/ ServiceStep(p) \/ CommonStep(p) PROVE FinalStays(q)
      <3>1. CASE q = p
        BY <1>1, <2>2, <3>1, PosixKeepsFinal, ServiceKeepsFinal, CommonKeepsFinal
      <3>2. CASE q # p
        BY <1>1, <2>2, <3>2, RecordOfOne DEF FinalStays
      <3> QED
        BY <3>1, <3>2
    <2> QED
      BY <1>1, <2>1, <2>2 DEF ProcNext
  <1>2. ProcInv /\ [ProcNext]_procVars =>
            [\A p \in Procs : Final(rec[p]) => rec'[p].state = rec[p].state]_procVars
    BY <1>1 DEF FinalStays
  <1> QED
    BY <1>2, ProcAlways, PTL DEF ProcSpec, VerifiedIsFinal

-----------------------------------------------------------------------------
(* Child MCP servers.                                                      *)

LinkRecords == [at : LinkStages, launch : Launches \cup {"none"}, aborted : BOOLEAN,
                replaces : MaybeLink]
CallerRecords == [at : CallerStages, launch : Launches \cup {"none"}, on : MaybeLink]

\* McpTypeOK, with names for the sets of records.
McpTypes ==
    /\ gate \in {"open", "draining", "closed"}
    /\ link \in [Links -> LinkRecords]
    /\ linked \in MaybeLink /\ pending \in MaybeLink /\ unverified \in MaybeLink
    /\ shut \subseteq Links
    /\ peer \in [Links -> {"none", "alive", "gone"}]
    /\ caller \in [Callers -> CallerRecords]
    /\ faults \in 0..MaxFaults

CallerFits(k) ==
    /\ caller[k].at = "using" =>
            /\ caller[k].on # 0 /\ link[caller[k].on].at = "up"
            /\ link[caller[k].on].launch = caller[k].launch
    /\ caller[k].at \in {"join", "await"} =>
            /\ caller[k].on # 0 /\ link[caller[k].on].at # "none"
            /\ link[caller[k].on].at \notin {"late", "over"} => link[caller[k].on].launch = caller[k].launch

\* What is published is up, and whoever waits for a connection or uses one
\* asked for its launch configuration.
CallInv ==
    /\ linked # 0 => link[linked].at = "up"
    /\ pending # 0 => link[pending].at # "none"
    /\ gate = "closed" => linked = 0
    /\ \A k \in Callers : CallerFits(k)

McpInv == McpTypes /\ CallInv

\* A connection goes forward: it stays up, and keeps its launch until it ends.
LinkForward ==
    \A j \in Links :
        /\ link[j].at = "up" => link'[j].at = "up" /\ link'[j].launch = link[j].launch
        /\ link[j].at # "none" =>
                /\ link'[j].at # "none"
                /\ link'[j].at \notin {"late", "over"} =>
                        link[j].at \notin {"late", "over"} /\ link'[j].launch = link[j].launch

LEMMA CallKeeps ==
    ASSUME McpTypes, CallInv, LinkForward,
           linked' = 0 \/ linked' = linked \/ link'[linked'].at = "up",
           pending' = 0 \/ pending' = pending \/ link'[pending'].at # "none",
           gate' = "closed" => linked' = 0,
           \A k \in Callers : \/ caller'[k] = caller[k]
                              \/ caller'[k].at \notin {"using", "join", "await"}
                              \/ CallerFits(k)'
    PROVE  CallInv'
  <1>1. \A i \in MaybeLink : i # 0 => i \in Links
    BY LinksAssumption DEF MaybeLink, Links
  <1>2. ASSUME NEW k \in Callers, caller'[k] = caller[k] PROVE CallerFits(k)'
    <2>1. CallerFits(k) /\ caller[k].on \in MaybeLink
      BY DEF CallInv, McpTypes, CallerRecords
    <2> QED
      BY <1>1, <1>2, <2>1 DEF CallerFits, LinkForward
  <1>3. \A k \in Callers : CallerFits(k)'
    BY <1>2 DEF CallerFits
  <1>4. (linked # 0 => linked \in Links) /\ (pending # 0 => pending \in Links)
    BY <1>1 DEF McpTypes
  <1>5. linked' # 0 => link'[linked'].at = "up"
    BY <1>4 DEF CallInv, LinkForward
  <1>6. pending' # 0 => link'[pending'].at # "none"
    BY <1>4 DEF CallInv, LinkForward
  <1> QED
    BY <1>3, <1>5, <1>6 DEF CallInv

\* A record of which only the stage or the abort flag changes.
LEMMA AbortedLink ==
    ASSUME NEW r \in LinkRecords
    PROVE  LET s == [r EXCEPT !.aborted = TRUE]
           IN  s \in LinkRecords /\ s.at = r.at /\ s.launch = r.launch
  BY DEF LinkRecords

LEMMA MovedLink ==
    ASSUME NEW r \in LinkRecords, NEW s \in LinkStages
    PROVE  LET n == [r EXCEPT !.at = s]
           IN  n \in LinkRecords /\ n.at = s /\ n.launch = r.launch
  BY DEF LinkRecords

LEMMA ReplacingLink ==
    ASSUME NEW r \in LinkRecords, NEW j \in MaybeLink
    PROVE  LET n == [r EXCEPT !.at = "replacing", !.replaces = j]
           IN  n \in LinkRecords /\ n.at = "replacing" /\ n.launch = r.launch
  BY DEF LinkRecords, LinkStages

LEMMA NewLink ==
    ASSUME NEW s \in LinkStages, NEW l \in Launches \cup {"none"}
    PROVE  LET r == [NoLink EXCEPT !.at = s, !.launch = l]
           IN  r \in LinkRecords /\ r.at = s /\ r.launch = l
  <1>1. NoLink \in LinkRecords
    BY LinksAssumption DEF NoLink, LinkRecords, LinkStages, MaybeLink
  <1>2. ASSUME NEW n \in LinkRecords
        PROVE  LET r == [n EXCEPT !.at = s, !.launch = l]
               IN  r \in LinkRecords /\ r.at = s /\ r.launch = l
    BY DEF LinkRecords
  <1> QED
    BY <1>1, <1>2

LEMMA CallerRecord ==
    ASSUME NEW s \in CallerStages, NEW l \in Launches \cup {"none"}, NEW i \in MaybeLink
    PROVE  [at |-> s, launch |-> l, on |-> i] \in CallerRecords
  BY DEF CallerRecords

LEMMA IdleRecord == IdleCaller \in CallerRecords /\ IdleCaller.at = "idle"
  BY LinksAssumption DEF IdleCaller, CallerRecords, CallerStages, MaybeLink

LEMMA McpInvInit ==
    ASSUME McpInit
    PROVE  McpInv
  <1>1. NoLink \in LinkRecords /\ NoLink.at = "none"
    BY LinksAssumption DEF NoLink, LinkRecords, LinkStages, MaybeLink
  <1>2. McpTypes
    <2>1. 0 \in MaybeLink /\ 0 \in 0..MaxFaults
      BY LinksAssumption DEF MaybeLink
    <2> QED
      BY <1>1, <2>1, IdleRecord DEF McpInit, McpTypes
  <1>4. CallInv
    BY IdleRecord DEF McpInit, CallInv, CallerFits
  <1> QED
    BY <1>2, <1>4 DEF McpInv

LEMMA LinkNumbers == 0 \in MaybeLink /\ \A i \in Links : i \in MaybeLink /\ i # 0
  BY LinksAssumption DEF MaybeLink, Links

\* A connection that is joined, aborted and waited for, or made.
LEMMA EnsurePendingKeeps ==
    ASSUME McpInv, NEW k \in Callers, NEW launch \in Launches \cup {"none"}, EnsurePending(k, launch),
           UNCHANGED <<gate, linked, shut, unverified, faults>>
    PROVE  McpInv'
  <1>1. McpTypes /\ CallInv
    BY DEF McpInv
  <1>2. CASE pending # 0 /\ SameLaunch(pending, launch) /\ Moved(k, "join", launch, pending)
             /\ UNCHANGED <<link, pending, peer>>
    <2>1. McpTypes'
      BY <1>1, <1>2, LinkNumbers, CallerRecord DEF McpTypes, Moved, CallerStages
    <2>3. CallerFits(k)' /\ \A j \in Callers \ {k} : caller'[j] = caller[j]
      BY <1>1, <1>2 DEF Moved, McpTypes, CallerFits, CallInv, SameLaunch
    <2>4. CallInv'
      BY <1>1, <1>2, <2>3, CallKeeps DEF LinkForward, CallInv
    <2> QED
      BY <2>1, <2>4 DEF McpInv
  <1>3. CASE pending # 0 /\ Aborting(pending) /\ Moved(k, "rejoin", launch, pending)
             /\ UNCHANGED <<pending, peer>>
    <2>1. /\ pending \in Links /\ link[pending] \in LinkRecords
          /\ link' = [link EXCEPT ![pending] = [link[pending] EXCEPT !.aborted = TRUE]]
      BY <1>1, <1>3, LinksAssumption DEF McpTypes, Aborting, Links, MaybeLink
    <2>2. \A j \in Links : link'[j] \in LinkRecords /\ link'[j].at = link[j].at /\ link'[j].launch = link[j].launch
      BY <1>1, <2>1, AbortedLink DEF McpTypes
    <2>3. McpTypes'
      BY <1>1, <1>3, <2>1, <2>2, LinkNumbers, CallerRecord DEF McpTypes, Moved, CallerStages
    <2>5. \A j \in Callers : caller'[j] = caller[j] \/ caller'[j].at = "rejoin"
      BY <1>1, <1>3 DEF Moved, McpTypes
    <2>6. CallInv'
      BY <1>1, <1>3, <2>2, <2>5, CallKeeps DEF LinkForward, CallInv
    <2> QED
      BY <2>3, <2>6 DEF McpInv
  <1>4. ASSUME NEW i \in Links, pending = 0, link[i].at = "none",
               link' = [link EXCEPT ![i] = [NoLink EXCEPT !.at = "connecting", !.launch = launch]],
               pending' = i, peer' = [peer EXCEPT ![i] = "alive"], Moved(k, "await", launch, i)
        PROVE  McpInv'
    <2>1. /\ link'[i] \in LinkRecords /\ link'[i].at = "connecting" /\ link'[i].launch = launch
          /\ \A j \in Links \ {i} : link'[j] = link[j]
      <3> DEFINE r == [NoLink EXCEPT !.at = "connecting", !.launch = launch]
      <3>1. r \in LinkRecords /\ r.at = "connecting" /\ r.launch = launch
        BY NewLink DEF LinkStages
      <3> HIDE DEF r
      <3> QED
        BY <1>1, <1>4, <3>1 DEF McpTypes, r
    <2>2. McpTypes'
      BY <1>1, <1>4, <2>1, LinkNumbers, CallerRecord DEF McpTypes, Moved, CallerStages
    <2>4. CallerFits(k)' /\ \A j \in Callers \ {k} : caller'[j] = caller[j]
      BY <1>1, <1>4, <2>1, LinkNumbers DEF Moved, McpTypes, CallerFits
    <2>5. LinkForward
      BY <1>4, <2>1 DEF LinkForward
    <2>6. CallInv'
      BY <1>1, <1>4, <2>1, <2>4, <2>5, CallKeeps DEF CallInv
    <2> QED
      BY <2>2, <2>6 DEF McpInv
  <1> QED
    BY <1>2, <1>3, <1>4 DEF EnsurePending

LEMMA EnsureSessionKeeps ==
    ASSUME McpInv, NEW k \in Callers, NEW launch \in Launches \cup {"none"}, EnsureSession(k, launch),
           UNCHANGED <<gate, unverified, faults>>
    PROVE  McpInv'
  <1>1. McpTypes /\ CallInv
    BY DEF McpInv
  <1>2. CASE linked # 0 /\ link[linked].launch = launch /\ Moved(k, "using", launch, linked)
             /\ UNCHANGED <<link, linked, pending, shut, peer>>
    <2>1. McpTypes'
      BY <1>1, <1>2, CallerRecord DEF McpTypes, Moved, CallerStages
    <2>3. CallerFits(k)' /\ \A j \in Callers \ {k} : caller'[j] = caller[j]
      BY <1>1, <1>2 DEF Moved, McpTypes, CallerFits, CallInv
    <2>4. CallInv'
      BY <1>1, <1>2, <2>3, CallKeeps DEF LinkForward, CallInv
    <2> QED
      BY <2>1, <2>4 DEF McpInv
  <1>3. CASE linked # 0 /\ linked' = 0 /\ shut' = shut \cup {linked} /\ Moved(k, "drop", launch, linked)
             /\ UNCHANGED <<link, pending, peer>>
    <2>1. linked \in Links
      BY <1>1, <1>3, LinksAssumption DEF McpTypes, Links, MaybeLink
    <2>2. McpTypes'
      BY <1>1, <1>3, <2>1, LinkNumbers, CallerRecord DEF McpTypes, Moved, CallerStages
    <2>4. \A j \in Callers : caller'[j] = caller[j] \/ caller'[j].at = "drop"
      BY <1>1, <1>3 DEF Moved, McpTypes
    <2>5. CallInv'
      BY <1>1, <1>3, <2>4, CallKeeps DEF LinkForward
    <2> QED
      BY <2>2, <2>5 DEF McpInv
  <1>4. CASE EnsurePending(k, launch) /\ UNCHANGED <<linked, shut>>
    BY <1>1, <1>4, EnsurePendingKeeps DEF McpTypes
  <1> QED
    BY <1>2, <1>3, <1>4 DEF EnsureSession

LEMMA EnsureKeeps ==
    ASSUME McpInv, NEW k \in Callers, NEW launch \in Launches \cup {"none"}, Ensure(k, launch),
           UNCHANGED <<gate, unverified, faults>>
    PROVE  McpInv'
  <1>1. McpTypes /\ CallInv
    BY DEF McpInv
  <1>2. CASE unverified # 0 /\ shut' = shut \cup {unverified} /\ Moved(k, "retry", launch, unverified)
             /\ UNCHANGED <<link, linked, pending, peer>>
    <2>1. unverified \in Links
      BY <1>1, <1>2, LinksAssumption DEF McpTypes, Links, MaybeLink
    <2>2. McpTypes'
      BY <1>1, <1>2, <2>1, CallerRecord DEF McpTypes, Moved, CallerStages
    <2>4. \A j \in Callers : caller'[j] = caller[j] \/ caller'[j].at = "retry"
      BY <1>1, <1>2 DEF Moved, McpTypes
    <2>5. CallInv'
      BY <1>1, <1>2, <2>4, CallKeeps DEF LinkForward, CallInv
    <2> QED
      BY <2>2, <2>5 DEF McpInv
  <1> QED
    BY <1>2, EnsureSessionKeeps DEF Ensure

\* A request that returns, or goes on to use its connection, while what is
\* published may be dropped and the connection be forgotten.
LEMMA LeavingKeeps ==
    ASSUME McpInv, NEW k \in Callers,
           \/ Returns(k)
           \/ /\ caller[k].at \in {"join", "await"} /\ link[caller[k].on].at = "up"
              /\ Moved(k, "using", caller[k].launch, caller[k].on),
           \/ linked' = linked /\ shut' = shut
           \/ linked # 0 /\ linked' = 0 /\ shut' = shut \cup {linked},
           pending' \in {0, pending},
           UNCHANGED <<gate, link, unverified, peer, faults>>
    PROVE  McpInv'
  <1>1. McpTypes /\ CallInv
    BY DEF McpInv
  <1>2. caller[k] \in CallerRecords /\ caller[k].launch \in Launches \cup {"none"} /\ caller[k].on \in MaybeLink
    BY <1>1 DEF McpTypes, CallerRecords
  <1>3. linked # 0 => linked \in Links
    BY <1>1, LinksAssumption DEF McpTypes, Links, MaybeLink
  <1>4. McpTypes'
    <2>1. caller' \in [Callers -> CallerRecords]
      BY <1>1, <1>2, IdleRecord, CallerRecord DEF McpTypes, Returns, Moved, CallerStages
    <2> QED
      BY <1>1, <1>3, <2>1, LinkNumbers DEF McpTypes
  <1>6. \A j \in Callers : caller'[j] = caller[j] \/ caller'[j].at = "idle" \/ CallerFits(j)'
    <2>1. CallerFits(k)
      BY <1>1 DEF CallInv
    <2> QED
      BY <1>1, <2>1, IdleRecord DEF McpTypes, Returns, Moved, CallerFits
  <1>7. CallInv'
    BY <1>1, <1>6, CallKeeps DEF LinkForward, CallInv
  <1> QED
    BY <1>4, <1>7 DEF McpInv

LEMMA RequestStepKeeps ==
    ASSUME McpInv, NEW k \in Callers, RequestStep(k)
    PROVE  McpInv'
  <1>1. McpTypes
    BY DEF McpInv
  <1>2. caller[k].launch \in Launches \cup {"none"}
    BY <1>1 DEF McpTypes, CallerRecords
  <1>3. CASE Request(k)
    BY <1>3, EnsureKeeps DEF Request
  <1>4. CASE Retried(k)
    <2>1. CASE Returns(k) /\ UNCHANGED <<link, linked, pending, shut, peer>>
      BY <1>1, <1>4, <2>1, LeavingKeeps DEF Retried, McpTypes
    <2> QED
      BY <1>2, <1>4, <2>1, EnsureSessionKeeps DEF Retried
  <1>5. CASE Dropped(k)
    BY <1>2, <1>5, EnsurePendingKeeps DEF Dropped
  <1>6. CASE Rejoined(k)
    <2>1. CASE Returns(k) /\ UNCHANGED <<link, linked, pending, shut, peer>>
      BY <1>1, <1>6, <2>1, LeavingKeeps DEF Rejoined, McpTypes
    <2> QED
      BY <1>2, <1>6, <2>1, EnsureKeeps DEF Rejoined
  <1>7. CASE Joined(k)
    BY <1>1, <1>7, LeavingKeeps DEF Joined, McpTypes
  <1>8. CASE AbortWait(k)
    BY <1>1, <1>8, LeavingKeeps DEF AbortWait
  <1>9. CASE UseEnds(k)
    BY <1>1, <1>9, LeavingKeeps DEF UseEnds, McpTypes
  <1>10. CASE UseFails(k)
    BY <1>1, <1>10, LeavingKeeps DEF UseFails, Drops, McpTypes
  <1> QED
    BY <1>3, <1>4, <1>5, <1>6, <1>7, <1>8, <1>9, <1>10 DEF RequestStep

\* The promise of a connection settles.
LEMMA SettlesFacts ==
    ASSUME McpTypes, NEW i \in Links, NEW s \in {"up", "late", "over"}, Settles(i, s)
    PROVE  /\ link' \in [Links -> LinkRecords]
           /\ link'[i].at = s
           /\ s = "up" => link'[i].launch = link[i].launch
           /\ \A j \in Links \ {i} : link'[j] = link[j]
           /\ pending' = IF pending = i THEN 0 ELSE pending
           /\ pending' \in MaybeLink
  <1> DEFINE l == IF s = "up" THEN link[i].launch ELSE NoLink.launch
             r == [NoLink EXCEPT !.at = s, !.launch = l]
  <1>1. l \in Launches \cup {"none"}
    BY DEF McpTypes, LinkRecords, NoLink
  <1>2. r \in LinkRecords /\ r.at = s /\ r.launch = l
    <2>1. s \in LinkStages
      BY DEF LinkStages
    <2> HIDE DEF l
    <2> QED
      BY <1>1, <2>1, NewLink
  <1>3. link' = [link EXCEPT ![i] = r]
    BY DEF Settles, NoLink
  <1> HIDE DEF r
  <1> QED
    BY <1>2, <1>3, LinkNumbers DEF McpTypes, Settles

\* The connection moves on without settling.
LEMMA StageFacts ==
    ASSUME McpTypes, NEW i \in Links, NEW s \in LinkStages, link' = [link EXCEPT ![i].at = s]
    PROVE  /\ link' \in [Links -> LinkRecords]
           /\ link'[i].at = s /\ link'[i].launch = link[i].launch
           /\ \A j \in Links \ {i} : link'[j] = link[j]
  <1> DEFINE r == [link[i] EXCEPT !.at = s]
  <1>1. r \in LinkRecords /\ r.at = s /\ r.launch = link[i].launch
    BY MovedLink DEF McpTypes
  <1>2. link' = [link EXCEPT ![i] = r]
    OBVIOUS
  <1> HIDE DEF r
  <1> QED
    BY <1>1, <1>2 DEF McpTypes

\* A connect that failed stops its child, or fails to.
LEMMA StoppedTypes ==
    ASSUME McpTypes, NEW i \in Links, StopsOwnChild(i)
    PROVE  /\ peer' \in [Links -> {"none", "alive", "gone"}]
           /\ faults' \in 0..MaxFaults
           /\ \A j \in Links \ {i} : peer'[j] = peer[j]
           /\ peer'[i] = "gone" \/ faults' = faults + 1
  BY LinksAssumption DEF StopsOwnChild, Fault, McpTypes

LEMMA LinkStepKeeps ==
    ASSUME McpInv, NEW i \in Links, LinkStep(i)
    PROVE  McpInv'
  <1>1. McpTypes /\ CallInv
    BY DEF McpInv
  <1>2. ASSUME McpTypes', LinkForward, UNCHANGED <<gate, caller>>,
               linked' = linked \/ linked' = 0 \/ (linked' = i /\ link'[i].at = "up" /\ gate = "open"),
               pending' = pending \/ pending' = 0
        PROVE  McpInv'
    BY <1>1, <1>2, CallKeeps DEF CallInv, McpInv
  <1>3. CASE Connected(i)
    <2>1. \/ link' = [link EXCEPT ![i].at = "listing"] /\ shut' = shut
          \/ link' = [link EXCEPT ![i].at = "failing"] /\ shut' = shut \cup {i}
      BY <1>3 DEF Connected
    <2>2. /\ link' \in [Links -> LinkRecords] /\ link'[i].launch = link[i].launch
          /\ \/ link'[i].at = "listing" /\ shut' = shut
             \/ link'[i].at = "failing" /\ shut' = shut \cup {i}
          /\ \A j \in Links \ {i} : link'[j] = link[j]
      BY <1>1, <2>1, StageFacts DEF LinkStages
    <2>3. /\ link[i].at = "connecting"
          /\ UNCHANGED <<gate, linked, pending, unverified, peer, caller, faults>>
      BY <1>3 DEF Connected
    <2>4. McpTypes'
      BY <1>1, <2>2, <2>3 DEF McpTypes
    <2>6. LinkForward
      BY <2>2, <2>3 DEF LinkForward
    <2> QED
      BY <1>2, <2>3, <2>4, <2>6
  <1>4. CASE ConnectFails(i) \/ ConnectAbandoned(i) \/ FailureClosed(i)
    <2>1. PICK s \in {"late", "over"} : Settles(i, s)
      BY <1>4 DEF ConnectFails, ConnectAbandoned, FailureClosed
    <2>2. /\ link' \in [Links -> LinkRecords] /\ link'[i].at \in {"late", "over"}
          /\ \A j \in Links \ {i} : link'[j] = link[j]
          /\ pending' = (IF pending = i THEN 0 ELSE pending) /\ pending' \in MaybeLink
      BY <1>1, <2>1, SettlesFacts
    <2>3. /\ link[i].at \in {"connecting", "failing"}
          /\ UNCHANGED <<gate, linked, unverified, shut, caller>>
          /\ peer' \in [Links -> {"none", "alive", "gone"}] /\ faults' \in 0..MaxFaults
      BY <1>1, <1>4, StoppedTypes DEF ConnectFails, ConnectAbandoned, FailureClosed, McpTypes
    <2>4. McpTypes'
      BY <1>1, <2>2, <2>3 DEF McpTypes
    <2>6. LinkForward
      BY <2>2, <2>3 DEF LinkForward
    <2> QED
      BY <1>2, <2>2, <2>3, <2>4, <2>6
  <1>5. CASE LateSession(i)
    <2>1. /\ link' \in [Links -> LinkRecords] /\ link'[i].at = "over" /\ link'[i].launch = link[i].launch
          /\ \A j \in Links \ {i} : link'[j] = link[j]
      BY <1>1, <1>5, StageFacts DEF LateSession, LinkStages
    <2>2. /\ link[i].at = "late"
          /\ shut' \in {shut, shut \cup {i}}
          /\ UNCHANGED <<gate, linked, pending, unverified, caller>>
          /\ peer' \in [Links -> {"none", "alive", "gone"}] /\ faults' \in 0..MaxFaults
      BY <1>1, <1>5, StoppedTypes DEF LateSession, McpTypes
    <2>3. McpTypes'
      BY <1>1, <2>1, <2>2 DEF McpTypes
    <2>5. LinkForward
      BY <2>1, <2>2 DEF LinkForward
    <2> QED
      BY <1>2, <2>2, <2>3, <2>5
  <1>6. CASE LinkFails(i)
    <2>1. /\ link' \in [Links -> LinkRecords] /\ link'[i].at = "failing" /\ link'[i].launch = link[i].launch
          /\ \A j \in Links \ {i} : link'[j] = link[j]
      BY <1>1, <1>6, StageFacts DEF LinkFails, LinkStages
    <2>2. /\ link[i].at \in {"listing", "replacing"} /\ shut' = shut \cup {i}
          /\ UNCHANGED <<gate, linked, pending, unverified, peer, caller, faults>>
      BY <1>6 DEF LinkFails
    <2>3. McpTypes'
      BY <1>1, <2>1, <2>2 DEF McpTypes
    <2>5. LinkForward
      BY <2>1, <2>2 DEF LinkForward
    <2> QED
      BY <1>2, <2>2, <2>3, <2>5
  <1>7. CASE PublishLink(i)
    <2>1. /\ gate = "open" /\ link[i].at \in {"listing", "replacing"}
          /\ UNCHANGED <<gate, unverified, peer, caller, faults>>
      BY <1>7 DEF PublishLink
    <2>2. CASE Published(i) /\ UNCHANGED shut /\ (linked = 0 \/ link[i].at = "replacing")
      <3>1. /\ link' \in [Links -> LinkRecords] /\ link'[i].at = "up" /\ link'[i].launch = link[i].launch
            /\ \A j \in Links \ {i} : link'[j] = link[j]
            /\ pending' = (IF pending = i THEN 0 ELSE pending) /\ pending' \in MaybeLink
            /\ linked' = i /\ shut' = shut
        BY <1>1, <2>2, SettlesFacts DEF Published
      <3>2. McpTypes'
        BY <1>1, <2>1, <3>1, LinkNumbers DEF McpTypes
      <3>6. LinkForward
        BY <2>1, <3>1 DEF LinkForward
      <3> QED
        BY <1>2, <2>1, <3>1, <3>2, <3>6
    <2>3. CASE /\ link[i].at = "listing" /\ linked # 0
               /\ link' = [link EXCEPT ![i].at = "replacing", ![i].replaces = linked]
               /\ linked' = 0 /\ shut' = shut \cup {linked} /\ UNCHANGED pending
      <3>1. /\ link' \in [Links -> LinkRecords] /\ link'[i].at = "replacing" /\ link'[i].launch = link[i].launch
            /\ \A j \in Links \ {i} : link'[j] = link[j]
        <4> DEFINE r == [link[i] EXCEPT !.at = "replacing", !.replaces = linked]
        <4>1. r \in LinkRecords /\ r.at = "replacing" /\ r.launch = link[i].launch
          BY <1>1, ReplacingLink DEF McpTypes
        <4>2. link' = [link EXCEPT ![i] = r]
          BY <1>1, <2>3 DEF McpTypes
        <4> HIDE DEF r
        <4> QED
          BY <1>1, <4>1, <4>2 DEF McpTypes
      <3>2. linked \in Links
        BY <1>1, <2>3, LinksAssumption DEF McpTypes, Links, MaybeLink
      <3>3. McpTypes'
        BY <1>1, <2>1, <2>3, <3>1, <3>2, LinkNumbers DEF McpTypes
      <3>5. LinkForward
        BY <2>1, <3>1 DEF LinkForward
      <3> QED
        BY <1>2, <2>1, <2>3, <3>3, <3>5
    <2> QED
      BY <1>7, <2>2, <2>3 DEF PublishLink
  <1>8. CASE CloseSession(i)
    <2>1. /\ i \in shut /\ shut' = shut \ {i}
          /\ \/ /\ peer' = [peer EXCEPT ![i] = "gone"] /\ faults' = faults
                /\ unverified' = IF unverified = i THEN 0 ELSE unverified
             \/ /\ faults < MaxFaults /\ faults' = faults + 1
                /\ unverified' = i /\ peer' = peer
          /\ UNCHANGED <<gate, link, linked, pending, caller>>
      BY <1>8 DEF CloseSession, Fault
    <2>2. faults \in Nat /\ (faults' \in 0..MaxFaults)
      BY <1>1, <2>1, LinksAssumption DEF McpTypes
    <2>3. McpTypes'
      BY <1>1, <2>1, <2>2, LinkNumbers DEF McpTypes
    <2>7. LinkForward
      BY <2>1 DEF LinkForward
    <2> QED
      BY <1>2, <2>1, <2>3, <2>7
  <1> QED
    BY <1>3, <1>4, <1>5, <1>6, <1>7, <1>8 DEF LinkStep

\* What is pending is aborted, what is published dropped.
LEMMA ManagerStepKeeps ==
    ASSUME McpInv, UNCHANGED <<pending, unverified, peer, caller, faults>>,
           link' = link \/ (pending # 0 /\ Aborting(pending)),
           \/ linked' = linked /\ shut' = shut
           \/ linked # 0 /\ linked' = 0 /\ shut' = shut \cup {linked},
           gate' \in {"open", "draining", "closed"}, gate' = "closed" => linked' = 0
    PROVE  McpInv'
  <1>1. McpTypes /\ CallInv
    BY DEF McpInv
  <1>2. /\ linked # 0 => linked \in Links
        /\ pending # 0 => pending \in Links
    BY <1>1, LinksAssumption DEF McpTypes, Links, MaybeLink
  <1>3. /\ link' \in [Links -> LinkRecords]
        /\ \A j \in Links : link'[j].at = link[j].at /\ link'[j].launch = link[j].launch
    <2>1. CASE link' = link
      BY <1>1, <2>1 DEF McpTypes
    <2>2. CASE pending # 0 /\ Aborting(pending)
      <3>1. link' = [link EXCEPT ![pending] = [link[pending] EXCEPT !.aborted = TRUE]]
        BY <1>1, <1>2, <2>2 DEF Aborting, McpTypes
      <3> QED
        BY <1>1, <1>2, <2>2, <3>1, AbortedLink DEF McpTypes
    <2> QED
      BY <2>1, <2>2
  <1>4. McpTypes'
    BY <1>1, <1>2, <1>3, LinkNumbers DEF McpTypes
  <1>6. LinkForward
    BY <1>3 DEF LinkForward
  <1>7. CallInv'
    BY <1>1, <1>6, CallKeeps
  <1> QED
    BY <1>4, <1>7 DEF McpInv

LEMMA McpInvNext ==
    ASSUME McpInv, [McpNext]_mcpVars
    PROVE  McpInv'
  <1>1. McpTypes /\ CallInv
    BY DEF McpInv
  <1>2. CASE UNCHANGED mcpVars
    BY <1>2 DEF mcpVars, McpInv, McpTypes, CallInv, CallerFits
  <1>3. ASSUME NEW wanted, Reconcile(wanted) PROVE McpInv'
    <2>1. /\ UNCHANGED <<gate, pending, unverified, peer, caller, faults>>
          /\ link' = link \/ (pending # 0 /\ Aborting(pending))
          /\ \/ linked' = linked /\ shut' = shut
             \/ linked # 0 /\ linked' = 0 /\ shut' = shut \cup {linked}
      BY <1>3 DEF Reconcile, Drops
    <2> QED
      BY <1>1, <2>1, ManagerStepKeeps DEF McpTypes, CallInv
  <1>4. CASE SweepIdle
    BY <1>1, <1>4, ManagerStepKeeps DEF SweepIdle, Drops, McpTypes, CallInv
  <1>5. CASE Disconnect
    BY <1>1, <1>5, ManagerStepKeeps DEF Disconnect, AbortPending, Drops, McpTypes, CallInv
  <1>6. CASE CloseManager
    BY <1>1, <1>6, ManagerStepKeeps DEF CloseManager, AbortPending, Drops, McpTypes, CallInv
  <1> QED
    BY <1>2, <1>3, <1>4, <1>5, <1>6, RequestStepKeeps, LinkStepKeeps DEF McpNext

LEMMA McpAlways == McpSpec => []McpInv
  <1>1. McpInit => McpInv
    BY McpInvInit
  <1>2. McpInv /\ [McpNext]_mcpVars => McpInv'
    BY McpInvNext
  <1> QED
    BY <1>1, <1>2, PTL DEF McpSpec

\* What NoChildLost says of child i in one step.
ChildKept(i) ==
    Held(i) /\ ~Held(i)' /\ peer'[i] = "alive" =>
        \/ link[i].at \in {"connecting", "late"} /\ faults' = faults + 1
        \/ unverified = i /\ unverified' # 0
        \/ linked = i /\ linked' # 0 /\ link[linked'].at = "replacing"

\* Requests, settings and closings only move a session from published to
\* closing.
LEMMA RequestKeepsChild ==
    ASSUME McpInv, NEW i \in Links, unverified' = unverified, shut \subseteq shut',
           linked' = linked \/ (linked' = 0 /\ linked \in shut'),
           \A j \in Links : link'[j].at = link[j].at \/ link[j].at = "none"
    PROVE  ChildKept(i)
  BY DEF ChildKept, Held

LEMMA AbortKeepsStage ==
    ASSUME McpInv, NEW i \in Links, pending # 0, Aborting(pending)
    PROVE  link'[i].at = link[i].at
  <1>1. pending \in Links /\ link \in [Links -> LinkRecords]
    BY LinksAssumption DEF McpInv, McpTypes, Links, MaybeLink
  <1>2. link' = [link EXCEPT ![pending] = [link[pending] EXCEPT !.aborted = TRUE]]
    BY <1>1 DEF Aborting
  <1> QED
    BY <1>1, <1>2, AbortedLink

LEMMA PendingKeepsStage ==
    ASSUME McpInv, NEW k \in Callers, NEW launch, EnsurePending(k, launch)
    PROVE  \A j \in Links : link'[j].at = link[j].at \/ link[j].at = "none"
  <1>1. ASSUME NEW i \in Links, link[i].at = "none",
               link' = [link EXCEPT ![i] = [NoLink EXCEPT !.at = "connecting", !.launch = launch]]
        PROVE  \A j \in Links : link'[j].at = link[j].at \/ link[j].at = "none"
    BY <1>1 DEF McpInv, McpTypes
  <1> QED
    BY <1>1, AbortKeepsStage DEF EnsurePending

LEMMA RequestKeepsChildren ==
    ASSUME McpInv, NEW k \in Callers, RequestStep(k), NEW i \in Links
    PROVE  ChildKept(i)
  <1>1. ASSUME NEW launch, EnsureSession(k, launch), UNCHANGED unverified PROVE ChildKept(i)
    BY <1>1, RequestKeepsChild, PendingKeepsStage DEF EnsureSession
  <1>2. ASSUME NEW launch, Ensure(k, launch), UNCHANGED unverified PROVE ChildKept(i)
    BY <1>1, <1>2, RequestKeepsChild DEF Ensure
  <1>3. CASE Request(k) \/ Retried(k) \/ Rejoined(k)
    BY <1>1, <1>2, <1>3, RequestKeepsChild DEF Request, Retried, Rejoined
  <1>4. CASE Dropped(k)
    BY <1>4, RequestKeepsChild, PendingKeepsStage DEF Dropped
  <1>5. CASE Joined(k) \/ AbortWait(k) \/ UseEnds(k) \/ UseFails(k)
    BY <1>5, RequestKeepsChild DEF Joined, AbortWait, UseEnds, UseFails, Drops
  <1> QED
    BY <1>3, <1>4, <1>5 DEF RequestStep

LEMMA LinkKeepsChildren ==
    ASSUME McpInv, NEW j \in Links, LinkStep(j), NEW i \in Links
    PROVE  ChildKept(i)
  <1> USE LinkNumbers DEF ChildKept, Held
  <1>1. McpTypes
    BY DEF McpInv
  <1>2. CASE Connected(j)
    <2>1. \/ link' = [link EXCEPT ![j].at = "listing"] /\ shut' = shut
          \/ link' = [link EXCEPT ![j].at = "failing"] /\ shut' = shut \cup {j}
      BY <1>2 DEF Connected
    <2>2. /\ \/ link'[j].at = "listing" /\ shut' = shut
             \/ j \in shut' /\ shut \subseteq shut'
          /\ \A k \in Links \ {j} : link'[k] = link[k]
      BY <1>1, <2>1, StageFacts DEF LinkStages
    <2> QED
      BY <1>2, <2>2 DEF Connected
  <1>3. CASE ConnectFails(j)
    BY <1>1, <1>3, SettlesFacts, StoppedTypes DEF ConnectFails
  <1>4. CASE ConnectAbandoned(j)
    BY <1>1, <1>4, SettlesFacts DEF ConnectAbandoned
  <1>5. CASE LateSession(j)
    <2>1. link'[j].at = "over" /\ \A k \in Links \ {j} : link'[k] = link[k]
      BY <1>1, <1>5, StageFacts DEF LateSession, LinkStages
    <2> QED
      BY <1>1, <1>5, <2>1, StoppedTypes DEF LateSession
  <1>6. CASE LinkFails(j)
    <2>1. \A k \in Links \ {j} : link'[k] = link[k]
      BY <1>1, <1>6, StageFacts DEF LinkFails, LinkStages
    <2> QED
      BY <1>6, <2>1 DEF LinkFails
  <1>7. CASE FailureClosed(j)
    BY <1>1, <1>7, SettlesFacts DEF FailureClosed
  <1>8. CASE PublishLink(j)
    <2>1. CASE Published(j) /\ UNCHANGED shut /\ (linked = 0 \/ link[j].at = "replacing")
      BY <1>1, <1>8, <2>1, SettlesFacts DEF Published, PublishLink
    <2>2. CASE /\ link' = [link EXCEPT ![j].at = "replacing", ![j].replaces = linked]
               /\ linked' = 0 /\ shut' = shut \cup {linked}
      <3>1. link'[j].at = "replacing" /\ \A k \in Links \ {j} : link'[k] = link[k]
        BY <1>1, <2>2 DEF McpTypes, LinkRecords
      <3> QED
        BY <1>8, <2>2, <3>1 DEF PublishLink
    <2> QED
      BY <1>8, <2>1, <2>2 DEF PublishLink
  <1>9. CASE CloseSession(j)
    BY <1>1, <1>9 DEF CloseSession, McpTypes
  <1> QED
    BY <1>2, <1>3, <1>4, <1>5, <1>6, <1>7, <1>8, <1>9 DEF LinkStep

\* A child MCP server that lives leaves the manager's books only where its
\* connect failed and the factory could not stop it, where another termination
\* fails after its own, or where it is published over by a connection left
\* behind (ensure, drop, connectManaged, closeSession, the factory).
THEOREM ChildrenAreKept == McpSpec => NoChildLost
  <1>1. ASSUME McpInv, McpNext, NEW i \in Links PROVE ChildKept(i)
    <2>1. ASSUME NEW wanted, Reconcile(wanted) PROVE ChildKept(i)
      BY <1>1, <2>1, RequestKeepsChild, AbortKeepsStage DEF Reconcile, Drops
    <2>2. CASE SweepIdle
      BY <1>1, <2>2, RequestKeepsChild DEF SweepIdle, Drops
    <2>3. CASE Disconnect
      BY <1>1, <2>3, RequestKeepsChild, AbortKeepsStage DEF Disconnect, AbortPending, Drops
    <2>4. CASE CloseManager
      BY <1>1, <2>4, RequestKeepsChild, AbortKeepsStage DEF CloseManager, AbortPending, Drops
    <2> QED
      BY <1>1, <2>1, <2>2, <2>3, <2>4, RequestKeepsChildren, LinkKeepsChildren DEF McpNext
  <1>2. McpInv /\ [McpNext]_mcpVars => [\A i \in Links : ChildKept(i)]_mcpVars
    BY <1>1
  <1> QED
    BY <1>2, McpAlways, PTL DEF McpSpec, NoChildLost, ChildKept

\* A request runs on a session of the launch configuration it asked for, and
\* a closed manager publishes nothing (ensure, connectManaged, close).
THEOREM RequestsAreServed == McpSpec => []ServesItsLaunch
  <1>1. McpInv => ServesItsLaunch
    BY DEF McpInv, CallInv, CallerFits, ServesItsLaunch
  <1> QED
    BY <1>1, McpAlways, PTL

=============================================================================
