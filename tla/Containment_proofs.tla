------------------------- MODULE Containment_proofs -------------------------
(***************************************************************************)
(* Proofs about the containment service, for any number of attempts.  Every*)
(* step of a thread replaces one entry of the ledger or none (LedgerStep); *)
(* what that preserves is shown once, and the invariants go by thread.     *)
(***************************************************************************)
EXTENDS Containment, TLAPS

\* The part of ContainTypeOK the arguments need.
Types ==
    /\ service \in {"up", "stopping", "down"}
    /\ broken \in BOOLEAN
    /\ ledger \in [Entries -> Entry] /\ stored \in [Entries -> Entry]
    /\ attempt \in [Entries -> [at : Stages, cancel : BOOLEAN]]
    /\ target \in [Entries -> {"none", "suspended", "runs", "over"}]
    /\ launched \in [Entries -> Nat]

\* No two held reservations conflict, said symmetrically.
Compatible(es) ==
    \A d, e \in Entries : d # e /\ es[d].held /\ es[e].held => es[d].shared /\ es[e].shared

Good(es) == Compatible(es) /\ \A e \in Entries : Storable(es[e])

\* The ledger in memory is the one in the file until a write fails.
LedgerInv ==
    /\ Good(stored)
    /\ Good(ledger)
    /\ service # "down" /\ ~broken => stored = ledger

\* What may replace the entry of e in the ledger.
Fits(e, x) ==
    /\ x \in Entry /\ Storable(x)
    /\ ledger[e].pid => x.pid
    /\ x.held => \A d \in Entries \ {e} : ledger[d].held => ledger[d].shared /\ x.shared

\* A ledger that passes the loader still does after one entry is replaced by
\* one that fits (HasConflict, ValidateStored).
LEMMA ReplaceFits ==
    ASSUME Types, Good(ledger), NEW e \in Entries, NEW x, Fits(e, x)
    PROVE  Sets(e, x) \in [Entries -> Entry] /\ Good(Sets(e, x))
  <1>1. Sets(e, x) \in [Entries -> Entry]
    BY DEF Types, Fits, Sets
  <1>2. \A d \in Entries : Sets(e, x)[d] = IF d = e THEN x ELSE ledger[d]
    BY DEF Types, Sets
  <1>3. Compatible(Sets(e, x))
    BY <1>2 DEF Good, Compatible, Fits
  <1>4. \A d \in Entries : Storable(Sets(e, x)[d])
    BY <1>2 DEF Good, Fits
  <1> QED
    BY <1>1, <1>3, <1>4 DEF Good

\* The two ways to say that no reservations conflict agree.
LEMMA CompatibleLoads ==
    ASSUME NEW es \in [Entries -> Entry], Good(es)
    PROVE  \A e \in Entries : Storable(es[e]) /\ (es[e].held => ~Conflicts(es, e, es[e].shared))
  BY DEF Good, Compatible, Conflicts, Entry

-----------------------------------------------------------------------------
(* What the ledger's operations do to one entry.                           *)

\* Dispatched and not known to have ended.
InHand == {"committed", "running", "unknown"}

\* x may replace r: it keeps a recorded pid, and takes no reservation r did not have.
Keeps(r, x) ==
    /\ x \in Entry /\ Storable(x)
    /\ r.pid => x.pid
    /\ x.held => r.held /\ x.shared = r.shared

\* ValidateStored, for an entry that exists.
LEMMA StoredFields ==
    ASSUME NEW r \in Entry, r.phase # "none", Storable(r)
    PROVE  /\ r.phase = "running" => r.pid
           /\ r.phase \in {"prepared", "committed", "not_started"} => ~r.pid
           /\ ~r.held => r.phase \in Settled
           /\ ~(r.hold /\ r.shared)
  BY DEF Storable, NoEntry, Entry

\* The changes of phase the ledger makes.
LEMMA PhaseKeeps ==
    ASSUME NEW r \in Entry, Storable(r), r.phase # "none", NEW x \in Entry,
           x.pid = r.pid, x.held = r.held, x.shared = r.shared, x.hold = r.hold,
           \/ r.phase = "prepared" /\ x.phase \in {"not_started", "committed"}
           \/ r.phase \in InHand /\ x.phase \in {"terminal", "unknown"}
           \/ x.phase = r.phase
    PROVE  Keeps(r, x)
  <1>1. Storable(x)
    BY StoredFields DEF Storable, Settled, InHand
  <1> QED BY <1>1 DEF Keeps

\* MarkUnknown, and the recovery of an entry at a start.
LEMMA UnknownKeeps ==
    ASSUME NEW r \in Entry, Storable(r)
    PROVE  Keeps(r, Unknown(r)) /\ (r.phase \in InHand => Unknown(r).phase \in InHand)
  <1>1. CASE r.phase \in {"committed", "running"}
    <2> DEFINE x == [r EXCEPT !.phase = "unknown"]
    <2>1. Unknown(r) = x BY <1>1 DEF Unknown
    <2>2. x \in Entry /\ x.pid = r.pid /\ x.held = r.held /\ x.shared = r.shared /\ x.hold = r.hold /\ x.phase = "unknown"
      BY DEF Entry, Phases
    <2> HIDE DEF x
    <2> QED BY <1>1, <2>1, <2>2, PhaseKeeps DEF InHand
  <1>2. CASE r.phase \notin {"committed", "running"}
    BY <1>2 DEF Unknown, Keeps
  <1> QED BY <1>1, <1>2

\* RecordTerminal.
LEMMA TerminalKeeps ==
    ASSUME NEW r \in Entry, Storable(r), r.phase \in InHand, NEW c \in BOOLEAN
    PROVE  Keeps(r, Terminal(r, c))
  <1> DEFINE b == r.cancel \/ c
             x == [r EXCEPT !.phase = "terminal", !.cancel = b]
  <1>1. b \in BOOLEAN OBVIOUS
  <1>2. Terminal(r, c) = x
    BY DEF Terminal
  <1> HIDE DEF b
  <1>3. x \in Entry /\ x.pid = r.pid /\ x.held = r.held /\ x.shared = r.shared /\ x.hold = r.hold /\ x.phase = "terminal"
    BY <1>1 DEF Entry, Phases
  <1> HIDE DEF x
  <1> QED BY <1>2, <1>3, PhaseKeeps DEF InHand

\* RequestCancellation.
LEMMA CancelledKeeps ==
    ASSUME NEW r \in Entry, Storable(r), r.phase # "none"
    PROVE  Keeps(r, Cancelled(r)) /\ (r.phase \in InHand => Cancelled(r).phase \in InHand)
  <1> DEFINE p == IF r.phase = "prepared" THEN "not_started" ELSE r.phase
             x == [r EXCEPT !.cancel = TRUE, !.phase = p]
  <1>1. p \in Phases
    BY DEF Phases, Entry
  <1>2. Cancelled(r) = x
    BY DEF Cancelled, Entry
  <1>3. \/ r.phase = "prepared" /\ p = "not_started"
        \/ p = r.phase
    OBVIOUS
  <1> HIDE DEF p
  <1>4. x \in Entry /\ x.pid = r.pid /\ x.held = r.held /\ x.shared = r.shared /\ x.hold = r.hold /\ x.phase = p
    BY <1>1 DEF Entry
  <1> HIDE DEF x
  <1> QED BY <1>2, <1>3, <1>4, PhaseKeeps DEF InHand

\* Release.
LEMMA ReleasedKeeps ==
    ASSUME NEW r \in Entry, Storable(r)
    PROVE  Keeps(r, Released(r)) /\ Released(r).phase = r.phase
  <1>1. CASE Releasable(r)
    <2>1. Released(r) = [r EXCEPT !.held = FALSE] BY <1>1 DEF Released
    <2>2. /\ Released(r) \in Entry /\ Released(r).phase = r.phase /\ Released(r).pid = r.pid
          /\ Released(r).hold = r.hold /\ Released(r).shared = r.shared /\ ~Released(r).held
      BY <2>1 DEF Entry
    <2>3. r.phase \in Settled /\ r.phase # "none" BY <1>1 DEF Releasable, Settled
    <2> QED BY <2>2, <2>3, StoredFields DEF Keeps, Storable
  <1>2. CASE ~Releasable(r) BY <1>2 DEF Released, Keeps
  <1> QED BY <1>1, <1>2

-----------------------------------------------------------------------------
\* Being launched, or with a living process.
Busy(e) == attempt[e].at \in {"launch", "made", "marked"} \/ Lives(e)

\* Where the threads of the service stand, against the process and the file.
FenceInv ==
    \A e \in Entries :
        /\ Lives(e) => attempt[e].at \in {"made", "marked", "watch", "orphan"}
        /\ Busy(e) => stored[e].phase \in InHand
        /\ launched[e] <= 1
        /\ launched[e] > 0 => stored[e].pid
        /\ attempt[e].at \in {"launch", "made", "marked"} => launched[e] = 0
        /\ attempt[e].at = "marked" => stored[e].pid
        /\ service = "down" => attempt[e].at = "none"

ContainInv == Types /\ LedgerInv /\ FenceInv

\* A thread changes the entry of e, and nobody else's threads or process.
Moves(e, x) ==
    /\ ~broken /\ service # "down" /\ service' = service
    /\ Fits(e, x) /\ Persist(Sets(e, x))
    /\ Busy(e)' => x.phase \in InHand /\ (Busy(e) \/ stored' = Sets(e, x))
    /\ \A d \in Entries \ {e} : attempt'[d] = attempt[d] /\ target'[d] = target[d]

\* No thread changes the ledger.
Rests ==
    /\ UNCHANGED ledgerVars
    /\ service # "down" <=> service' # "down"
    /\ \A d \in Entries : Busy(d)' => Busy(d)

LedgerStep(e) == Rests \/ \E x \in Entry : Moves(e, x)

\* What the ledger says of an attempt, when memory and file agree.
LEMMA AgreedEntry ==
    ASSUME ContainInv, ~broken, service # "down", NEW e \in Entries
    PROVE  /\ ledger[e] = stored[e] /\ ledger[e] \in Entry /\ Storable(ledger[e])
           /\ Busy(e) => ledger[e].phase \in InHand
  BY DEF ContainInv, Types, LedgerInv, FenceInv, Good

\* An entry that keeps its reservation, or gives it up, conflicts with no one.
LEMMA KeepsMoves ==
    ASSUME ContainInv, ~broken, service # "down", service' = service,
           NEW e \in Entries, NEW x, Keeps(ledger[e], x), Persist(Sets(e, x)),
           Busy(e)' => x.phase \in InHand /\ (Busy(e) \/ stored' = Sets(e, x)),
           \A d \in Entries \ {e} : attempt'[d] = attempt[d] /\ target'[d] = target[d]
    PROVE  \E y \in Entry : Moves(e, y)
  <1>1. Fits(e, x)
    BY DEF ContainInv, LedgerInv, Good, Compatible, Fits, Keeps
  <1> QED
    BY <1>1 DEF Moves, Keeps

\* The calls of clients that change only the ledger (Prepare,
\* AbortBeforeLaunch, Release, RequestCancellation, Inspect).
LEMMA ClientMoves ==
    ASSUME ContainInv, NEW e \in Entries,
           \/ Prepare(e) \/ AbortBeforeLaunch(e) \/ ReleaseEntry(e)
           \/ RequestCancellation(e) \/ InspectReconciles(e)
    PROVE  \E x \in Entry : Moves(e, x)
  <1>0. UNCHANGED <<service, attempt, target>> /\ ~broken /\ service # "down" /\ (Busy(e)' <=> Busy(e))
    BY DEF Prepare, AbortBeforeLaunch, ReleaseEntry, RequestCancellation, InspectReconciles, Known,
           Answers, Busy, Lives
  <1>1. /\ ledger[e] = stored[e] /\ ledger[e] \in Entry /\ Storable(ledger[e])
        /\ Busy(e) => ledger[e].phase \in InHand
    BY <1>0, AgreedEntry
  <1>2. ASSUME NEW ph \in {"prepared", "not_started"}, ~Conflicts(ledger, e, TRUE),
               ledger[e].phase = "none", Persist(Sets(e, Fresh(ph)))
        PROVE  \E x \in Entry : Moves(e, x)
    <2>1. Fresh(ph) \in Entry /\ Storable(Fresh(ph)) /\ Fresh(ph).held /\ Fresh(ph).shared
      BY DEF Fresh, NoEntry, Entry, Phases, Storable
    <2>2. ~ledger[e].pid
      BY <1>1, <1>2 DEF Storable, NoEntry, Settled
    <2>3. Fits(e, Fresh(ph))
      BY <2>1, <2>2, <1>2 DEF Fits, Conflicts, ContainInv, Types
    <2> QED
      BY <2>1, <2>3, <1>0, <1>1, <1>2 DEF Moves, InHand
  <1>3. CASE Prepare(e)
    BY <1>2, <1>3 DEF Prepare
  <1>4. CASE AbortBeforeLaunch(e)
    <2>1. CASE ledger[e].phase = "none"
      BY <1>2, <1>4, <2>1 DEF AbortBeforeLaunch
    <2>2. CASE ledger[e].phase = "prepared"
      <3> DEFINE x == [ledger[e] EXCEPT !.phase = "not_started"]
      <3>1. /\ x \in Entry /\ x.pid = ledger[e].pid /\ x.held = ledger[e].held
            /\ x.shared = ledger[e].shared /\ x.hold = ledger[e].hold /\ x.phase = "not_started"
        BY <1>1 DEF Entry, Phases
      <3>2. Persist(Sets(e, x))
        BY <1>4, <2>2 DEF AbortBeforeLaunch
      <3> HIDE DEF x
      <3>3. Keeps(ledger[e], x)
        BY <3>1, <1>1, <2>2, PhaseKeeps
      <3> QED
        BY <3>2, <3>3, KeepsMoves, <1>0, <1>1, <2>2 DEF InHand
    <2> QED
      BY <1>4, <2>1, <2>2 DEF AbortBeforeLaunch
  <1>5. CASE ReleaseEntry(e)
    <2>1. Persist(Sets(e, Released(ledger[e])))
      BY <1>5 DEF ReleaseEntry
    <2> QED
      BY <2>1, KeepsMoves, ReleasedKeeps, <1>0, <1>1
  <1>6. CASE RequestCancellation(e)
    <2>1. Persist(Sets(e, Cancelled(ledger[e]))) /\ ledger[e].phase # "none"
      BY <1>6 DEF RequestCancellation, Known
    <2> QED
      BY <2>1, KeepsMoves, CancelledKeeps, <1>0, <1>1
  <1>7. CASE InspectReconciles(e)
    <2>1. Persist(Sets(e, Terminal(ledger[e], FALSE))) /\ ledger[e].phase = "unknown"
      BY <1>7 DEF InspectReconciles, Reconcilable
    <2>2. ~Busy(e)
      BY <1>7 DEF InspectReconciles, Reconcilable, Busy, NotTerminal
    <2> QED
      BY <2>1, <2>2, KeepsMoves, TerminalKeeps, <1>0, <1>1 DEF InHand
  <1> QED
    BY <1>3, <1>4, <1>5, <1>6, <1>7

\* The thread that launches a process (WindowsServiceProcessRuntime.Run,
\* ContainedProcess.StartCore).
LEMMA LaunchMoves ==
    ASSUME ContainInv, NEW e \in Entries,
           \/ RunDispatch(e) \/ JobCollision(e) \/ MarkRunning(e) \/ LaunchFails(e)
    PROVE  LedgerStep(e)
  <1>0. /\ service' = service /\ service # "down"
        /\ \A d \in Entries \ {e} : attempt'[d] = attempt[d] /\ target'[d] = target[d]
    BY DEF RunDispatch, JobCollision, MarkRunning, LaunchFails, Ended, ContainInv, Types
  <1>1. ASSUME ~broken
        PROVE  /\ ledger[e] = stored[e] /\ ledger[e] \in Entry /\ Storable(ledger[e])
               /\ Busy(e) => ledger[e].phase \in InHand
    BY <1>0, <1>1, AgreedEntry
  <1>2. \A d \in Entries \ {e} : Busy(d)' => Busy(d)
    BY <1>0 DEF Busy, Lives
  <1>3. CASE RunDispatch(e)
    <2> DEFINE x == [ledger[e] EXCEPT !.phase = "committed"]
    <2>0. ~broken /\ ledger[e].phase = "prepared" /\ attempt[e].at = "none" /\ UNCHANGED target
      BY <1>3 DEF RunDispatch
    <2>1. /\ x \in Entry /\ x.pid = ledger[e].pid /\ x.held = ledger[e].held
          /\ x.shared = ledger[e].shared /\ x.hold = ledger[e].hold /\ x.phase = "committed"
      BY <1>1, <2>0 DEF Entry, Phases
    <2>2. \/ Persisted(Sets(e, x))
          \/ PersistFails(Sets(e, x)) /\ UNCHANGED attempt
      BY <1>3 DEF RunDispatch
    <2> HIDE DEF x
    <2>3. Keeps(ledger[e], x)
      BY <2>0, <2>1, <1>1, PhaseKeeps
    <2>4. ~Lives(e) /\ ~Lives(e)'
      BY <2>0 DEF ContainInv, FenceInv, Lives
    <2>5. Busy(e)' => stored' = Sets(e, x)
      BY <2>0, <2>2, <2>4 DEF Busy, Persisted
    <2>6. Persist(Sets(e, x))
      BY <2>2 DEF Persist
    <2> QED
      BY <2>0, <2>1, <2>3, <2>5, <2>6, <1>0, KeepsMoves DEF InHand, LedgerStep
  <1>4. CASE JobCollision(e)
    <2>0. attempt[e].at = "launch" /\ attempt'[e].at = "none" /\ UNCHANGED target
      BY <1>4 DEF JobCollision, ContainInv, Types, NoAttempt
    <2>1. ~Busy(e)'
      BY <2>0 DEF Busy, Lives, ContainInv, FenceInv
    <2>2. CASE UNCHANGED ledgerVars
      BY <2>1, <2>2, <1>0, <1>2 DEF LedgerStep, Rests
    <2>3. CASE /\ ~broken /\ ~ledger[e].pid /\ ledger[e].held
               /\ ledger[e].phase \in {"committed", "unknown"}
               /\ Persist(Sets(e, [ledger[e] EXCEPT !.phase = "not_started", !.held = ledger[e].hold]))
      <3> DEFINE x == [ledger[e] EXCEPT !.phase = "not_started", !.held = ledger[e].hold]
      <3>1. /\ x \in Entry /\ x.pid = ledger[e].pid
            /\ x.shared = ledger[e].shared /\ x.hold = ledger[e].hold /\ x.phase = "not_started"
        BY <1>1, <2>3 DEF Entry, Phases
      <3>2. Persist(Sets(e, x))
        BY <2>3
      <3> HIDE DEF x
      <3>3. Keeps(ledger[e], x)
        BY <3>1, <2>3, <1>1, StoredFields DEF Keeps, Storable, Settled
      <3> QED
        BY <3>2, <3>3, <2>1, <2>3, <1>0, KeepsMoves DEF LedgerStep
    <2> QED
      BY <1>4, <2>2, <2>3 DEF JobCollision
  <1>5. ASSUME ~broken, ledger[e].phase = "committed"
        PROVE  LET x == [ledger[e] EXCEPT !.phase = "running", !.pid = TRUE]
               IN  Keeps(ledger[e], x) /\ x.phase = "running"
    <2> DEFINE x == [ledger[e] EXCEPT !.phase = "running", !.pid = TRUE]
    <2>1. /\ x \in Entry /\ x.pid /\ x.held = ledger[e].held
          /\ x.shared = ledger[e].shared /\ x.hold = ledger[e].hold /\ x.phase = "running"
      BY <1>1, <1>5 DEF Entry, Phases
    <2> HIDE DEF x
    <2>2. Keeps(ledger[e], x)
      BY <2>1, <1>1, <1>5, StoredFields DEF Keeps, Storable, Settled
    <2> QED
      BY <2>1, <2>2 DEF x
  <1>6. CASE MarkRunning(e)
    <2> DEFINE x == [ledger[e] EXCEPT !.phase = "running", !.pid = TRUE]
    <2>1. ~broken /\ ledger[e].phase = "committed" /\ Persisted(Sets(e, x))
      BY <1>6 DEF MarkRunning
    <2>2. Keeps(ledger[e], x) /\ x.phase = "running"
      BY <2>1, <1>5
    <2> HIDE DEF x
    <2> QED
      BY <2>1, <2>2, <1>0, KeepsMoves DEF LedgerStep, InHand, Persist, Persisted
  <1>7. CASE LaunchFails(e)
    <2>1. ~Busy(e)'
      BY <1>7 DEF LaunchFails, Busy, Lives, Ended, ContainInv, Types
    <2>2. CASE TryMarkUnknown(e)
      <3>1. CASE UNCHANGED ledgerVars
        BY <3>1, <2>1, <1>0, <1>2 DEF LedgerStep, Rests
      <3>2. CASE ~broken /\ Persist(Sets(e, Unknown(ledger[e])))
        BY <3>2, <2>1, <1>0, <1>1, KeepsMoves, UnknownKeeps DEF LedgerStep
      <3> QED
        BY <2>2, <3>1, <3>2 DEF TryMarkUnknown
    <2>3. CASE /\ ~broken /\ ledger[e].phase = "committed"
               /\ PersistFails(Sets(e, [ledger[e] EXCEPT !.phase = "running", !.pid = TRUE]))
      <3> DEFINE x == [ledger[e] EXCEPT !.phase = "running", !.pid = TRUE]
      <3>1. Keeps(ledger[e], x) /\ Persist(Sets(e, x))
        BY <2>3, <1>5 DEF Persist
      <3> HIDE DEF x
      <3> QED
        BY <3>1, <2>1, <2>3, <1>0, KeepsMoves DEF LedgerStep
    <2> QED
      BY <1>7, <2>2, <2>3 DEF LaunchFails
  <1> QED
    BY <1>3, <1>4, <1>6, <1>7

\* The thread that watches a process, and StopAsync.
LEMMA MonitorMoves ==
    ASSUME ContainInv, NEW e \in Entries,
           \/ MonitorRecords(e) \/ MonitorReleases(e) \/ MonitorGivesUp(e) \/ StopAttempt(e)
    PROVE  LedgerStep(e)
  <1>0. /\ service' = service /\ service # "down"
        /\ \A d \in Entries \ {e} : attempt'[d] = attempt[d] /\ target'[d] = target[d]
    BY DEF MonitorRecords, MonitorReleases, MonitorGivesUp, StopAttempt, Ended, ContainInv, Types
  <1>1. ASSUME ~broken
        PROVE  /\ ledger[e] = stored[e] /\ ledger[e] \in Entry /\ Storable(ledger[e])
               /\ Busy(e) => ledger[e].phase \in InHand
    BY <1>0, <1>1, AgreedEntry
  <1>2. \A d \in Entries \ {e} : Busy(d)' => Busy(d)
    BY <1>0 DEF Busy, Lives
  <1>3. CASE MonitorRecords(e)
    <2>1. /\ ~broken /\ ledger[e].phase \in InHand
          /\ Persist(Sets(e, Terminal(ledger[e], attempt[e].cancel)))
      BY <1>3 DEF MonitorRecords, InHand, Persist
    <2>2. ~Busy(e)' /\ attempt[e].cancel \in BOOLEAN
      BY <1>3 DEF MonitorRecords, Busy, Lives, ContainInv, Types
    <2> QED
      BY <2>1, <2>2, <1>0, <1>1, KeepsMoves, TerminalKeeps DEF LedgerStep
  <1>4. CASE MonitorReleases(e)
    <2>1. ~broken /\ Persist(Sets(e, Released(ledger[e])))
      BY <1>4 DEF MonitorReleases, Persist
    <2>2. ~Busy(e)'
      BY <1>4 DEF MonitorReleases, Busy, Lives, ContainInv, Types, FenceInv
    <2> QED
      BY <2>1, <2>2, <1>0, <1>1, KeepsMoves, ReleasedKeeps DEF LedgerStep
  <1>5. ASSUME TryMarkUnknown(e), Busy(e)' => Busy(e)
        PROVE  LedgerStep(e)
    <2>1. CASE UNCHANGED ledgerVars
      BY <2>1, <1>0, <1>2, <1>5 DEF LedgerStep, Rests
    <2>2. CASE ~broken /\ Persist(Sets(e, Unknown(ledger[e])))
      BY <2>2, <1>0, <1>1, <1>5, KeepsMoves, UnknownKeeps DEF LedgerStep
    <2> QED
      BY <1>5, <2>1, <2>2 DEF TryMarkUnknown
  <1>6. CASE MonitorGivesUp(e)
    <2>1. Busy(e)' => Busy(e)
      BY <1>6 DEF MonitorGivesUp, Busy, Lives, ContainInv, Types
    <2> QED
      BY <2>1, <1>5, <1>6 DEF MonitorGivesUp
  <1>7. CASE StopAttempt(e)
    <2>1. ~Busy(e)'
      BY <1>7 DEF StopAttempt, Busy, Lives, Ended, ContainInv, Types
    <2> QED
      BY <2>1, <1>5, <1>7 DEF StopAttempt
  <1> QED
    BY <1>3, <1>4, <1>6, <1>7

\* The import commands that change the ledger.
LEMMA ImportMoves ==
    ASSUME ContainInv, NEW e \in Entries,
           \/ AcquireImportReservation(e) \/ CommitImportPublication(e)
           \/ CompleteImportReservation(e)
    PROVE  LedgerStep(e)
  <1>0. UNCHANGED <<service, attempt, target>> /\ service # "down" /\ (\A d \in Entries : Busy(d)' <=> Busy(d))
    BY DEF AcquireImportReservation, CommitImportPublication, CompleteImportReservation, Known, Answers,
           Busy, Lives
  <1>1. ASSUME ~broken
        PROVE  /\ ledger[e] = stored[e] /\ ledger[e] \in Entry /\ Storable(ledger[e])
               /\ Busy(e) => ledger[e].phase \in InHand
    BY <1>0, <1>1, AgreedEntry
  <1>2. CASE UNCHANGED ledgerVars
    BY <1>0, <1>2 DEF LedgerStep, Rests
  <1>3. CASE AcquireImportReservation(e) /\ ~UNCHANGED ledgerVars
    <2> DEFINE x == [ledger[e] EXCEPT !.shared = FALSE, !.hold = TRUE]
    <2>1. ~broken /\ MayAcquire(e) /\ Persist(Sets(e, x))
      BY <1>3 DEF AcquireImportReservation, Known, Answers, Persist
    <2>2. /\ x \in Entry /\ x.pid = ledger[e].pid /\ x.held = ledger[e].held
          /\ ~x.shared /\ x.phase = ledger[e].phase
      BY <1>1, <2>1 DEF Entry
    <2> HIDE DEF x
    <2>3. Storable(x)
      BY <2>1, <2>2, <1>1, StoredFields DEF Storable, MayAcquire
    <2>4. \A d \in Entries \ {e} : ~ledger[d].held
      BY <2>1 DEF MayAcquire, Conflicts, ContainInv, Types
    <2>5. Fits(e, x)
      BY <2>2, <2>3, <2>4 DEF Fits
    <2> QED
      BY <2>1, <2>2, <2>5, <1>0, <1>1 DEF LedgerStep, Moves
  <1>4. CASE CommitImportPublication(e)
    <2> DEFINE x == [ledger[e] EXCEPT !.commit = TRUE]
    <2>1. ~broken /\ EnsureImportMayValidate(ledger[e]) /\ Persist(Sets(e, x))
      BY <1>4 DEF CommitImportPublication, Persist
    <2>2. /\ x \in Entry /\ x.pid = ledger[e].pid /\ x.held = ledger[e].held
          /\ x.shared = ledger[e].shared /\ x.hold = ledger[e].hold /\ x.phase = ledger[e].phase
      BY <1>1, <2>1 DEF Entry
    <2> HIDE DEF x
    <2>3. Keeps(ledger[e], x)
      BY <2>1, <2>2, <1>1, PhaseKeeps DEF EnsureImportMayValidate
    <2> QED
      BY <2>1, <2>2, <2>3, <1>0, <1>1, KeepsMoves DEF LedgerStep
  <1>5. CASE CompleteImportReservation(e) /\ ~UNCHANGED ledgerVars
    <2> DEFINE x == [ledger[e] EXCEPT !.hold = FALSE]
    <2>1. ~broken /\ ledger[e].hold /\ Persist(Sets(e, x))
      BY <1>5 DEF CompleteImportReservation
    <2>2. /\ x \in Entry /\ x.pid = ledger[e].pid /\ x.held = ledger[e].held
          /\ x.shared = ledger[e].shared /\ ~x.hold /\ x.phase = ledger[e].phase
      BY <1>1, <2>1 DEF Entry
    <2> HIDE DEF x
    <2>3. ledger[e].phase # "none"
      <3>1. ledger[e] # NoEntry
        BY <2>1 DEF NoEntry
      <3> QED
        BY <3>1, <2>1, <1>1 DEF Storable
    <2>4. Keeps(ledger[e], x)
      <3>1. ~ledger[e].shared
        BY <2>1, <2>3, <1>1, StoredFields
      <3>2. Storable(x)
        BY <3>1, <2>1, <2>2, <2>3, <1>1, StoredFields DEF Storable
      <3> QED
        BY <3>2, <2>2 DEF Keeps
    <2> QED
      BY <2>1, <2>2, <2>4, <1>0, <1>1, KeepsMoves DEF LedgerStep
  <1> QED
    BY <1>2, <1>3, <1>4, <1>5

\* The steps of threads, processes and import commands beside the ledger.
LEMMA OthersRest ==
    ASSUME ContainInv, NEW e \in Entries,
           \/ CreateSuspended(e) \/ ResumeThread(e) \/ ProcessEnds(e) \/ CancelAttempt(e)
           \/ MonitorCancels(e) \/ PrepareImport(e) \/ ValidateImport(e) \/ Publish(e)
           \/ SavePublished(e) \/ InspectPublication(e) \/ ControlFails \/ BeginStop
    PROVE  Rests
  <1>1. UNCHANGED ledgerVars /\ (service # "down" <=> service' # "down")
    BY DEF CreateSuspended, ResumeThread, ProcessEnds, CancelAttempt, MonitorCancels, PrepareImport,
           ValidateImport, Publish, SavePublished, InspectPublication, ControlFails, BeginStop, ContainInv, Types
  <1>2. CASE PrepareImport(e) \/ ValidateImport(e) \/ Publish(e) \/ SavePublished(e) \/ InspectPublication(e)
             \/ ControlFails \/ BeginStop
    <2>1. UNCHANGED <<attempt, target>>
      BY <1>2 DEF PrepareImport, ValidateImport, Publish, SavePublished, InspectPublication, ControlFails, BeginStop
    <2> QED
      BY <1>1, <2>1 DEF Rests, Busy, Lives
  <1>3. CASE CreateSuspended(e) \/ ResumeThread(e)
    BY <1>1, <1>3 DEF CreateSuspended, ResumeThread, Rests, Busy, Lives, ContainInv, Types
  <1>4. CASE ProcessEnds(e) \/ CancelAttempt(e) \/ MonitorCancels(e)
    BY <1>1, <1>4 DEF ProcessEnds, CancelAttempt, MonitorCancels, Rests, Busy, Lives, Ended, ContainInv, Types
  <1> QED
    BY <1>2, <1>3, <1>4

-----------------------------------------------------------------------------
\* A step that changes one entry, or none, keeps both ledgers loadable, and
\* the file keeps its pids and what it says of busy attempts.
LEMMA StepKeepsLedger ==
    ASSUME ContainInv, NEW e \in Entries, LedgerStep(e)
    PROVE  /\ ledger' \in [Entries -> Entry] /\ stored' \in [Entries -> Entry] /\ broken' \in BOOLEAN
           /\ LedgerInv'
           /\ \A d \in Entries : stored[d].pid => stored'[d].pid
           /\ \A d \in Entries : Busy(d)' => stored'[d].phase \in InHand
           /\ service # "down" <=> service' # "down"
  <1>1. CASE Rests
    BY <1>1 DEF Rests, ledgerVars, ContainInv, Types, LedgerInv, FenceInv, Good, Compatible
  <1>2. ASSUME NEW x \in Entry, Moves(e, x)
        PROVE  /\ ledger' \in [Entries -> Entry] /\ stored' \in [Entries -> Entry] /\ broken' \in BOOLEAN
               /\ LedgerInv'
               /\ \A d \in Entries : stored[d].pid => stored'[d].pid
               /\ \A d \in Entries : Busy(d)' => stored'[d].phase \in InHand
               /\ service # "down" <=> service' # "down"
    <2>1. Sets(e, x) \in [Entries -> Entry] /\ Good(Sets(e, x))
      BY <1>2, ReplaceFits DEF Moves, ContainInv, LedgerInv
    <2>2. \A d \in Entries : Sets(e, x)[d] = IF d = e THEN x ELSE ledger[d]
      BY DEF Sets, ContainInv, Types
    <2>3. stored = ledger /\ ~broken /\ service # "down" /\ service' = service
      BY <1>2 DEF Moves, ContainInv, LedgerInv
    <2>4. /\ ledger' = Sets(e, x) /\ stored' \in {stored, Sets(e, x)} /\ broken' \in BOOLEAN
          /\ ~broken' => stored' = Sets(e, x)
      <3>1. CASE Persisted(Sets(e, x))
        BY <2>3, <3>1 DEF Persisted, ContainInv, Types
      <3>2. CASE PersistFails(Sets(e, x))
        BY <3>2 DEF PersistFails
      <3> QED
        BY <1>2, <3>1, <3>2 DEF Moves, Persist
    <2>5. LedgerInv'
      <3>1. Good(ledger') /\ Good(stored')
        BY <2>1, <2>3, <2>4 DEF ContainInv, LedgerInv
      <3>2. Good(ledger)' /\ Good(stored)'
        BY <3>1 DEF Good, Compatible
      <3> QED
        BY <3>2, <2>4 DEF LedgerInv
    <2>6. \A d \in Entries : stored[d].pid => stored'[d].pid
      BY <2>2, <2>3, <2>4, <1>2 DEF Moves, Fits
    <2>7. ASSUME NEW d \in Entries, Busy(d)'
          PROVE  stored'[d].phase \in InHand
      <3>1. CASE d = e
        BY <2>2, <2>3, <2>4, <2>7, <1>2, <3>1 DEF Moves, ContainInv, FenceInv
      <3>2. CASE d # e
        <4>1. Busy(d)
          BY <1>2, <2>7, <3>2 DEF Moves, Busy, Lives
        <4> QED
          BY <4>1, <2>2, <2>3, <2>4, <3>2 DEF ContainInv, FenceInv
      <3> QED
        BY <3>1, <3>2
    <2> QED
      BY <2>1, <2>3, <2>4, <2>5, <2>6, <2>7 DEF ContainInv, Types
  <1> QED
    BY <1>1, <1>2 DEF LedgerStep

\* The attempts, processes and launches after the step of a thread: what
\* FenceInv says of them beside the file.
ThreadsFenced ==
    \A e \in Entries :
        /\ Lives(e) => attempt[e].at \in {"made", "marked", "watch", "orphan"}
        /\ launched[e] <= 1
        /\ launched[e] > 0 => stored[e].pid
        /\ attempt[e].at \in {"launch", "made", "marked"} => launched[e] = 0
        /\ attempt[e].at = "marked" => stored[e].pid
        /\ service = "down" => attempt[e].at = "none"

ThreadTypes ==
    /\ service \in {"up", "stopping", "down"}
    /\ attempt \in [Entries -> [at : Stages, cancel : BOOLEAN]]
    /\ target \in [Entries -> {"none", "suspended", "runs", "over"}]
    /\ launched \in [Entries -> Nat]

\* An attempt that changes its stage, or is cancelled, is still an attempt.
LEMMA StageTypes ==
    ASSUME NEW f \in [Entries -> [at : Stages, cancel : BOOLEAN]], NEW e \in Entries, NEW s \in Stages
    PROVE  /\ [f EXCEPT ![e].at = s] \in [Entries -> [at : Stages, cancel : BOOLEAN]]
           /\ [f EXCEPT ![e].cancel = TRUE] \in [Entries -> [at : Stages, cancel : BOOLEAN]]
  <1>1. f[e] \in [at : Stages, cancel : BOOLEAN]
    OBVIOUS
  <1>2. [f[e] EXCEPT !.at = s] \in [at : Stages, cancel : BOOLEAN]
    BY <1>1
  <1>3. [f[e] EXCEPT !.cancel = TRUE] \in [at : Stages, cancel : BOOLEAN]
    BY <1>1
  <1> QED
    BY <1>2, <1>3

\* Types of what the threads change.
LEMMA ThreadStepTypes ==
    ASSUME ContainInv, NEW e \in Entries,
           \/ ClientStep(e) \/ LaunchStep(e) \/ MonitorStep(e) \/ ImportStep(e)
           \/ ControlFails \/ BeginStop
    PROVE  ThreadTypes'
  <1>0. Types
    BY DEF ContainInv
  <1>1. attempt' \in [Entries -> [at : Stages, cancel : BOOLEAN]]
    <2>1. \/ UNCHANGED attempt
          \/ \E s \in Stages : attempt' = [attempt EXCEPT ![e].at = s]
          \/ attempt' = [attempt EXCEPT ![e].cancel = TRUE]
          \/ attempt' = [attempt EXCEPT ![e] = NewAttempt]
          \/ attempt' = [attempt EXCEPT ![e] = NoAttempt]
      <3>1. CASE ClientStep(e)
        BY <3>1 DEF ClientStep, Prepare, AbortBeforeLaunch, RequestCancellation, CancelAttempt, ReleaseEntry,
                    InspectReconciles, RunDispatch
      <3>2. CASE LaunchStep(e)
        BY <3>2 DEF LaunchStep, CreateSuspended, JobCollision, MarkRunning, ResumeThread, LaunchFails, Stages
      <3>3. CASE MonitorStep(e)
        BY <3>3 DEF MonitorStep, ProcessEnds, MonitorCancels, MonitorRecords, MonitorReleases,
                    MonitorGivesUp, StopAttempt, Stages
      <3>4. CASE ImportStep(e) \/ ControlFails \/ BeginStop
        BY <3>4 DEF ImportStep, AcquireImportReservation, PrepareImport, ValidateImport, CommitImportPublication,
                    Publish, SavePublished, CompleteImportReservation, InspectPublication, ControlFails, BeginStop
      <3> QED
        BY <3>1, <3>2, <3>3, <3>4
    <2>2. NewAttempt \in [at : Stages, cancel : BOOLEAN] /\ NoAttempt \in [at : Stages, cancel : BOOLEAN]
      BY DEF NewAttempt, NoAttempt, Stages
    <2>3. attempt \in [Entries -> [at : Stages, cancel : BOOLEAN]] /\ "none" \in Stages
      BY <1>0 DEF Types, Stages
    <2>4. CASE \E s \in Stages : attempt' = [attempt EXCEPT ![e].at = s]
      BY <2>3, <2>4, StageTypes
    <2>5. CASE attempt' = [attempt EXCEPT ![e].cancel = TRUE]
      BY <2>3, <2>5, StageTypes
    <2>6. CASE \/ UNCHANGED attempt
               \/ attempt' = [attempt EXCEPT ![e] = NewAttempt]
               \/ attempt' = [attempt EXCEPT ![e] = NoAttempt]
      BY <2>2, <2>3, <2>6
    <2> QED
      BY <2>1, <2>4, <2>5, <2>6
  <1>2. target' \in [Entries -> {"none", "suspended", "runs", "over"}]
    <2>1. \/ UNCHANGED target
          \/ Ended(e)
          \/ \E s \in {"suspended", "runs"} : target' = [target EXCEPT ![e] = s]
      <3>1. CASE ClientStep(e)
        BY <3>1 DEF ClientStep, Prepare, AbortBeforeLaunch, RequestCancellation, CancelAttempt, ReleaseEntry,
                    InspectReconciles, RunDispatch
      <3>2. CASE LaunchStep(e)
        BY <3>2 DEF LaunchStep, CreateSuspended, JobCollision, MarkRunning, ResumeThread, LaunchFails
      <3>3. CASE MonitorStep(e)
        BY <3>3 DEF MonitorStep, ProcessEnds, MonitorCancels, MonitorRecords, MonitorReleases,
                    MonitorGivesUp, StopAttempt
      <3>4. CASE ImportStep(e) \/ ControlFails \/ BeginStop
        BY <3>4 DEF ImportStep, AcquireImportReservation, PrepareImport, ValidateImport, CommitImportPublication,
                    Publish, SavePublished, CompleteImportReservation, InspectPublication, ControlFails, BeginStop
      <3> QED
        BY <3>1, <3>2, <3>3, <3>4
    <2> QED
      BY <1>0, <2>1 DEF Types, Ended
  <1>3. launched' \in [Entries -> Nat]
    <2>1. UNCHANGED launched \/ launched' = [launched EXCEPT ![e] = @ + 1]
      <3>1. CASE ClientStep(e)
        BY <3>1 DEF ClientStep, Prepare, AbortBeforeLaunch, RequestCancellation, CancelAttempt, ReleaseEntry,
                    InspectReconciles, RunDispatch
      <3>2. CASE LaunchStep(e)
        BY <3>2 DEF LaunchStep, CreateSuspended, JobCollision, MarkRunning, ResumeThread, LaunchFails
      <3>3. CASE MonitorStep(e)
        BY <3>3 DEF MonitorStep, ProcessEnds, MonitorCancels, MonitorRecords, MonitorReleases,
                    MonitorGivesUp, StopAttempt
      <3>4. CASE ImportStep(e) \/ ControlFails \/ BeginStop
        BY <3>4 DEF ImportStep, AcquireImportReservation, PrepareImport, ValidateImport, CommitImportPublication,
                    Publish, SavePublished, CompleteImportReservation, InspectPublication, ControlFails, BeginStop
      <3> QED
        BY <3>1, <3>2, <3>3, <3>4
    <2> QED
      BY <1>0, <2>1 DEF Types
  <1>4. service' \in {"up", "stopping", "down"}
    <2>1. UNCHANGED service \/ service' = "stopping"
      <3>1. CASE ClientStep(e)
        BY <3>1 DEF ClientStep, Prepare, AbortBeforeLaunch, RequestCancellation, CancelAttempt, ReleaseEntry,
                    InspectReconciles, RunDispatch
      <3>2. CASE LaunchStep(e) \/ MonitorStep(e)
        BY <3>2 DEF LaunchStep, CreateSuspended, JobCollision, MarkRunning, ResumeThread, LaunchFails,
                    MonitorStep, ProcessEnds, MonitorCancels, MonitorRecords, MonitorReleases,
                    MonitorGivesUp, StopAttempt
      <3>3. CASE ImportStep(e) \/ ControlFails \/ BeginStop
        BY <3>3 DEF ImportStep, AcquireImportReservation, PrepareImport, ValidateImport, CommitImportPublication,
                    Publish, SavePublished, CompleteImportReservation, InspectPublication, ControlFails, BeginStop
      <3> QED
        BY <3>1, <3>2, <3>3
    <2> QED
      BY <1>0, <2>1 DEF Types
  <1> QED
    BY <1>1, <1>2, <1>3, <1>4 DEF ThreadTypes

\* No step of a thread launches a second time or without the pid in the file.
LEMMA ThreadStepFenced ==
    ASSUME ContainInv, NEW e \in Entries,
           \/ ClientStep(e) \/ LaunchStep(e) \/ MonitorStep(e) \/ ImportStep(e)
           \/ ControlFails \/ BeginStop,
           \A d \in Entries : stored[d].pid => stored'[d].pid,
           service # "down" <=> service' # "down"
    PROVE  ThreadsFenced'
  <1> USE DEF ThreadsFenced, Lives
  <1>0. Types /\ FenceInv
    BY DEF ContainInv
  <1>1. CASE UNCHANGED <<attempt, target, launched>>
    BY <1>0, <1>1 DEF FenceInv
  <1>2. CASE RunDispatch(e)
    <2>1. launched[e] = 0
      <3>1. ~stored[e].pid
        BY <1>2, AgreedEntry, StoredFields DEF RunDispatch
      <3> QED
        BY <3>1, <1>0 DEF FenceInv, Types
    <2>2. attempt' \in {attempt, [attempt EXCEPT ![e] = NewAttempt]} /\ UNCHANGED <<target, launched, service>>
          /\ attempt[e].at = "none" /\ service # "down"
      BY <1>2 DEF RunDispatch
    <2> QED
      BY <2>1, <2>2, <1>0 DEF FenceInv, NewAttempt, Types
  <1>3. CASE CancelAttempt(e) \/ ProcessEnds(e) \/ MonitorCancels(e)
    BY <1>0, <1>3 DEF CancelAttempt, ProcessEnds, MonitorCancels, Ended, FenceInv, Types
  <1>4. CASE CreateSuspended(e)
    BY <1>0, <1>4 DEF CreateSuspended, FenceInv, Types
  <1>5. CASE JobCollision(e)
    BY <1>0, <1>5 DEF JobCollision, NoAttempt, FenceInv, Types
  <1>6. CASE MarkRunning(e)
    <2>1. stored'[e].pid
      BY <1>0, <1>6 DEF MarkRunning, Persisted, Sets, Types, Entry
    <2> QED
      BY <2>1, <1>0, <1>6 DEF MarkRunning, FenceInv, Types
  <1>7. CASE ResumeThread(e)
    BY <1>0, <1>7 DEF ResumeThread, FenceInv, Types
  <1>8. CASE LaunchFails(e) \/ StopAttempt(e)
    BY <1>0, <1>8 DEF LaunchFails, StopAttempt, Ended, FenceInv, Types
  <1>9. CASE MonitorRecords(e) \/ MonitorReleases(e) \/ MonitorGivesUp(e)
    <2>1. /\ UNCHANGED <<target, launched>> /\ service # "down"
          /\ attempt[e].at \in {"watch", "release"}
          /\ \E s \in {"release", "done", "orphan"} :
               attempt' = [attempt EXCEPT ![e].at = s] /\ (s = "orphan" \/ ~Lives(e))
      BY <1>0, <1>9 DEF MonitorRecords, MonitorReleases, MonitorGivesUp, FenceInv
    <2>2. PICK s \in {"release", "done", "orphan"} :
               attempt' = [attempt EXCEPT ![e].at = s] /\ (s = "orphan" \/ ~Lives(e))
      BY <2>1
    <2>3. /\ attempt'[e].at = s
          /\ \A d \in Entries \ {e} : attempt'[d] = attempt[d]
      BY <1>0, <2>2 DEF Types
    <2> QED
      BY <1>0, <2>1, <2>2, <2>3 DEF FenceInv
  <1>10. CASE \/ Prepare(e) \/ AbortBeforeLaunch(e) \/ RequestCancellation(e) \/ ReleaseEntry(e)
              \/ InspectReconciles(e) \/ ImportStep(e) \/ ControlFails \/ BeginStop
    <2>1. UNCHANGED <<attempt, target, launched>>
      BY <1>10 DEF Prepare, AbortBeforeLaunch, RequestCancellation, ReleaseEntry, InspectReconciles,
                ImportStep, AcquireImportReservation, PrepareImport, ValidateImport, CommitImportPublication,
                Publish, SavePublished, CompleteImportReservation, InspectPublication, ControlFails, BeginStop
    <2> QED
      BY <2>1, <1>1
  <1> QED
    BY <1>2, <1>3, <1>4, <1>5, <1>6, <1>7, <1>8, <1>9, <1>10 DEF ClientStep, LaunchStep, MonitorStep

-----------------------------------------------------------------------------
(* The invariant.                                                          *)

\* The steps of the threads keep it.
LEMMA ThreadStepInv ==
    ASSUME ContainInv, NEW e \in Entries,
           \/ ClientStep(e) \/ LaunchStep(e) \/ MonitorStep(e) \/ ImportStep(e)
           \/ ControlFails \/ BeginStop
    PROVE  ContainInv'
  <1>1. LedgerStep(e)
    BY ClientMoves, LaunchMoves, MonitorMoves, ImportMoves, OthersRest
       DEF ClientStep, LaunchStep, MonitorStep, ImportStep, LedgerStep
  <1>2. /\ ledger' \in [Entries -> Entry] /\ stored' \in [Entries -> Entry] /\ broken' \in BOOLEAN
        /\ LedgerInv'
        /\ \A d \in Entries : stored[d].pid => stored'[d].pid
        /\ \A d \in Entries : Busy(d)' => stored'[d].phase \in InHand
        /\ service # "down" <=> service' # "down"
    BY <1>1, StepKeepsLedger
  <1>3. ThreadTypes'
    BY ThreadStepTypes
  <1>4. ThreadsFenced'
    BY <1>2, ThreadStepFenced
  <1>5. Types'
    BY <1>2, <1>3 DEF Types, ThreadTypes
  <1>6. FenceInv'
    BY <1>2, <1>4 DEF FenceInv, ThreadsFenced
  <1> QED
    BY <1>2, <1>5, <1>6 DEF ContainInv

\* A ledger that loads still does once the dispatches it holds are unknown,
\* and it keeps every recorded pid (the constructor of ServiceAttemptLedger).
LEMMA RecoveredGood ==
    ASSUME NEW es \in [Entries -> Entry], Good(es)
    PROVE  /\ Recovered(es) \in [Entries -> Entry] /\ Good(Recovered(es))
           /\ \A e \in Entries : es[e].pid => Recovered(es)[e].pid
  <1>1. \A e \in Entries : Recovered(es)[e] = Unknown(es[e])
    BY DEF Recovered
  <1>2. \A e \in Entries : Keeps(es[e], Recovered(es)[e])
    BY <1>1, UnknownKeeps DEF Good
  <1>3. Recovered(es) \in [Entries -> Entry]
    BY <1>2 DEF Recovered, Keeps
  <1>4. Compatible(Recovered(es))
    BY <1>2 DEF Good, Compatible, Keeps
  <1> QED
    BY <1>2, <1>3, <1>4 DEF Good, Keeps

\* The service ends, at any step of its threads.
LEMMA ServiceEndsInv ==
    ASSUME ContainInv, ServiceEnds
    PROVE  ContainInv'
  <1>1. NoEntry \in Entry /\ NoAttempt \in [at : Stages, cancel : BOOLEAN]
    BY DEF NoEntry, Entry, Phases, NoAttempt, Stages
  <1>2. Types'
    BY <1>1 DEF ServiceEnds, ContainInv, Types
  <1>3. LedgerInv'
    <2>1. Good(ledger)'
      <3>1. \A e \in Entries : ledger'[e] = NoEntry
        BY DEF ServiceEnds
      <3>2. ~NoEntry.held /\ Storable(NoEntry)
        BY DEF NoEntry, Storable
      <3> QED
        BY <3>1, <3>2 DEF Good, Compatible
    <2>2. Good(stored)'
      BY DEF ServiceEnds, ContainInv, LedgerInv, Good, Compatible
    <2> QED
      BY <2>1, <2>2 DEF LedgerInv, ServiceEnds
  <1>4. FenceInv'
    <2>1. \A e \in Entries : attempt'[e].at = "none" /\ ~Lives(e)'
      BY DEF ServiceEnds, NoAttempt, Lives
    <2> QED
      BY <2>1 DEF ServiceEnds, FenceInv, Busy, ContainInv
  <1> QED
    BY <1>2, <1>3, <1>4 DEF ContainInv

\* The next service loads the file, or fails to.
LEMMA ServiceStartsInv ==
    ASSUME ContainInv, ServiceStarts
    PROVE  ContainInv'
  <1>1. /\ Recovered(stored) \in [Entries -> Entry] /\ Good(Recovered(stored))
        /\ \A e \in Entries : stored[e].pid => Recovered(stored)[e].pid
    BY RecoveredGood DEF ContainInv, Types, LedgerInv
  <1>2. /\ stored' = Recovered(stored) /\ UNCHANGED <<broken, attempt, target, launched>>
        /\ ledger' \in {ledger, Recovered(stored)} /\ service' \in {"up", "down"}
        /\ service' # "down" => ledger' = stored'
    BY DEF ServiceStarts
  <1>3. Types'
    BY <1>1, <1>2 DEF ContainInv, Types
  <1>4. LedgerInv'
    <2>1. Good(ledger') /\ Good(stored')
      BY <1>1, <1>2 DEF ContainInv, LedgerInv
    <2>2. Good(ledger)' /\ Good(stored)'
      BY <2>1 DEF Good, Compatible
    <2> QED
      BY <1>2, <2>2 DEF LedgerInv
  <1>5. FenceInv'
    <2>1. \A e \in Entries : attempt[e].at = "none" /\ ~Lives(e)
      BY DEF ServiceStarts, ContainInv, FenceInv
    <2>2. \A e \in Entries : attempt'[e].at = "none" /\ ~Lives(e)'
      BY <1>2, <2>1 DEF Lives
    <2> QED
      BY <1>1, <1>2, <2>2 DEF FenceInv, Busy, ContainInv
  <1> QED
    BY <1>3, <1>4, <1>5 DEF ContainInv

\* The inductive invariant of the containment service: the ledger in memory
\* and the one in the file both load, they agree while the service answers,
\* and every thread and process is where the file allows it to be.
THEOREM Containing == ContainSpec => []ContainInv
  <1>1. ContainInit => ContainInv
    <2> SUFFICES ASSUME ContainInit PROVE ContainInv
      OBVIOUS
    <2>1. /\ NoEntry \in Entry /\ NoAttempt \in [at : Stages, cancel : BOOLEAN]
          /\ ~NoEntry.held /\ Storable(NoEntry)
      BY DEF NoEntry, Entry, Phases, NoAttempt, Stages, Storable
    <2>2. Types
      BY <2>1 DEF ContainInit, Types
    <2>3. LedgerInv
      BY <2>1 DEF ContainInit, LedgerInv, Good, Compatible
    <2>4. FenceInv
      BY DEF ContainInit, FenceInv, Busy, Lives, NoAttempt
    <2> QED
      BY <2>2, <2>3, <2>4 DEF ContainInv
  <1>2. ContainInv /\ [ContainNext]_containVars => ContainInv'
    <2> SUFFICES ASSUME ContainInv, [ContainNext]_containVars PROVE ContainInv'
      OBVIOUS
    <2>1. CASE UNCHANGED <<service, broken, ledger, stored, attempt, target, launched>>
      BY <2>1 DEF ContainInv, Types, LedgerInv, Good, Compatible, FenceInv, Busy, Lives
    <2>2. CASE \E e \in Entries : ClientStep(e) \/ LaunchStep(e) \/ MonitorStep(e) \/ ImportStep(e)
      BY <2>2, ThreadStepInv
    <2>3. CASE ControlFails
      BY <2>1, <2>3 DEF ControlFails, ledgerVars
    <2>4. CASE BeginStop
      BY <2>4 DEF BeginStop, ledgerVars, ContainInv, Types, LedgerInv, Good, Compatible, FenceInv, Busy, Lives
    <2>5. CASE ServiceEnds \/ ServiceStarts
      BY <2>5, ServiceEndsInv, ServiceStartsInv
    <2> QED
      BY <2>1, <2>2, <2>3, <2>4, <2>5 DEF ContainNext, containVars
  <1> QED
    BY <1>1, <1>2, PTL DEF ContainSpec

\* Whatever the threads of the service did, and wherever it crashed or failed
\* to write, its next start finds a file that ValidateStored accepts and
\* reservations that do not conflict.
THEOREM LedgerAlwaysLoads == ContainSpec => []LedgerLoads
  <1>1. ContainInv => LedgerLoads
    BY CompatibleLoads DEF ContainInv, Types, LedgerInv, LedgerLoads
  <1> QED
    BY <1>1, Containing, PTL

\* A process is resumed at most once per attempt, lives only while the file
\* holds its reservation, and has its pid in the file from before it ran.
THEOREM LaunchAlwaysFenced == ContainSpec => []LaunchIsFenced
  <1>1. ContainInv => LaunchIsFenced
    <2> SUFFICES ASSUME ContainInv, NEW e \in Entries
                 PROVE  /\ launched[e] <= 1
                        /\ Lives(e) => stored[e].held /\ stored[e].phase \in InHand
                        /\ launched[e] > 0 => stored[e].pid
                        /\ stored[e].phase = "not_started" => launched[e] = 0
      BY DEF LaunchIsFenced, InHand
    <2>1. stored[e] \in Entry /\ Storable(stored[e]) /\ launched[e] \in Nat
      BY DEF ContainInv, Types, LedgerInv, Good
    <2>2. /\ launched[e] <= 1
          /\ launched[e] > 0 => stored[e].pid
          /\ Lives(e) => stored[e].phase \in InHand
      BY DEF ContainInv, FenceInv, Busy
    <2>3. stored[e].phase \in InHand => stored[e].held
      BY <2>1, StoredFields DEF InHand, Settled
    <2>4. stored[e].phase = "not_started" => ~stored[e].pid
      BY <2>1, StoredFields
    <2> QED
      BY <2>1, <2>2, <2>3, <2>4
  <1> QED
    BY <1>1, Containing, PTL


-----------------------------------------------------------------------------
(* Imports.                                                                *)

\* x holds the import, and remembers the commitment, as r does.
SameHold(r, x) ==
    x.hold = r.hold /\ x.commit = r.commit /\ (r.held /\ r.hold => x.held)

HoldsStay == \A d \in Entries : SameHold(stored[d], stored'[d])

At(s, e) == control = [at |-> s, e |-> e]

\* One command at a time: where it stands fixes what the disk holds of its
\* import.  A hold keeps the reservation until the publication is recorded.
ImportInv ==
    /\ imported \in [Entries -> {"none", "creating", "prepared", "intent", "published"}]
    /\ published \in [Entries -> BOOLEAN]
    /\ \A e \in Entries :
        /\ stored[e].hold => stored[e].held
        /\ imported[e] \in {"creating", "prepared", "intent"} => stored[e].hold
        /\ published[e] => stored[e].commit /\ imported[e] \in {"intent", "published"}
        /\ imported[e] = "published" => published[e]
        /\ At("creating", e) => imported[e] = "none" /\ stored[e].hold
        /\ At("staged", e) => imported[e] = "creating"
        /\ At("validated", e) => imported[e] = "prepared"
        /\ At("committed", e) => imported[e] = "intent" /\ stored[e].commit
        /\ At("moved", e) => imported[e] = "intent" /\ published[e]
        /\ At("recorded", e) => imported[e] = "published"

LEMMA ControlIsOne ==
    ASSUME NEW s, NEW e, NEW t, NEW d
    PROVE  /\ [at |-> s, e |-> e] = [at |-> t, e |-> d] => s = t /\ e = d
           /\ Idle = [at |-> t, e |-> d] => t = "idle"
  <1>1. [at |-> s, e |-> e] = [at |-> t, e |-> d] => s = t /\ e = d
    OBVIOUS
  <1>2. Idle.at = "idle" /\ [at |-> t, e |-> d].at = t
    BY DEF Idle
  <1> QED
    BY <1>1, <1>2

\* Steps beside the imports.
LEMMA HoldsKeepImports ==
    ASSUME ImportInv, HoldsStay, UNCHANGED importVars
    PROVE  ImportInv'
  BY DEF ImportInv, HoldsStay, SameHold, importVars, At

\* A change of the ledger that leaves the import's hold alone.
LEMMA EntryHolds ==
    ASSUME ContainInv, ~broken, service # "down", NEW e \in Entries, NEW x,
           SameHold(ledger[e], x), Persist(Sets(e, x))
    PROVE  HoldsStay
  <1>1. stored = ledger /\ stored \in [Entries -> Entry]
    BY DEF ContainInv, Types, LedgerInv
  <1>2. stored' = stored \/ stored' = [stored EXCEPT ![e] = x]
    BY <1>1 DEF Persist, Persisted, PersistFails, Sets
  <1> QED
    BY <1>1, <1>2 DEF HoldsStay, SameHold

LEMMA QuietHolds ==
    ASSUME ContainInv, UNCHANGED stored
    PROVE  HoldsStay
  BY DEF HoldsStay, SameHold, ContainInv, Types, Entry

LEMMA EntryOperations ==
    ASSUME NEW r \in Entry, NEW c \in BOOLEAN, NEW p \in Phases
    PROVE  /\ SameHold(r, Unknown(r))
           /\ SameHold(r, Released(r))
           /\ SameHold(r, Cancelled(r))
           /\ SameHold(r, Terminal(r, c))
           /\ SameHold(r, [r EXCEPT !.phase = p])
           /\ SameHold(r, [r EXCEPT !.phase = p, !.pid = TRUE])
           /\ SameHold(r, [r EXCEPT !.phase = p, !.held = r.hold])
  <1>1. SameHold(r, Unknown(r))
    BY DEF SameHold, Unknown, Entry
  <1>2. SameHold(r, Released(r))
    BY DEF SameHold, Released, Releasable, Entry
  <1>3. SameHold(r, Cancelled(r))
    BY DEF SameHold, Cancelled, Entry
  <1>4. SameHold(r, Terminal(r, c))
    BY DEF SameHold, Terminal, Entry
  <1>5. SameHold(r, [r EXCEPT !.phase = p]) /\ SameHold(r, [r EXCEPT !.phase = p, !.pid = TRUE])
    BY DEF SameHold, Entry
  <1>6. SameHold(r, [r EXCEPT !.phase = p, !.held = r.hold])
    BY DEF SameHold, Entry
  <1> QED
    BY <1>1, <1>2, <1>3, <1>4, <1>5, <1>6

LEMMA ClientHolds ==
    ASSUME ContainInv, NEW e \in Entries, ClientStep(e)
    PROVE  HoldsStay /\ UNCHANGED importVars
  <1>1. UNCHANGED importVars
    BY DEF ClientStep, Prepare, AbortBeforeLaunch, RequestCancellation, CancelAttempt, ReleaseEntry,
           InspectReconciles, RunDispatch
  <1>2. CASE UNCHANGED stored
    BY <1>1, <1>2, QuietHolds
  <1>3. CASE ~CancelAttempt(e)
    <2>1. ~broken /\ service # "down" /\ ledger[e] \in Entry /\ Storable(ledger[e])
      BY <1>3, AgreedEntry DEF ClientStep, Prepare, AbortBeforeLaunch, RequestCancellation, ReleaseEntry,
             InspectReconciles, RunDispatch, Known, Answers
    <2>2. CASE ledger[e].phase = "none"
      <3>1. ~ledger[e].hold /\ ~ledger[e].commit /\ ~ledger[e].held
        BY <2>1, <2>2 DEF Storable, NoEntry
      <3>2. \E ph : Persist(Sets(e, Fresh(ph)))
        BY <1>3, <2>2 DEF ClientStep, Prepare, AbortBeforeLaunch, RequestCancellation, ReleaseEntry,
               InspectReconciles, Reconcilable, RunDispatch, Known
      <3>3. \A ph : Fresh(ph).hold = FALSE /\ Fresh(ph).commit = FALSE
        BY DEF Fresh, NoEntry
      <3>4. \A ph : SameHold(ledger[e], Fresh(ph))
        BY <2>1, <3>1, <3>3 DEF SameHold, Entry
      <3> QED
        BY <1>1, <2>1, <3>2, <3>4, EntryHolds
    <2>3. CASE ledger[e].phase # "none"
      <3>1. \E x : Persist(Sets(e, x)) /\ SameHold(ledger[e], x)
        <4>1. CASE RequestCancellation(e)
          BY <2>1, <4>1, EntryOperations DEF RequestCancellation, Phases
        <4>2. CASE ReleaseEntry(e)
          BY <2>1, <4>2, EntryOperations DEF ReleaseEntry, Phases
        <4>3. CASE InspectReconciles(e)
          BY <2>1, <4>3, EntryOperations DEF InspectReconciles, Phases
        <4>4. CASE RunDispatch(e)
          <5>1. "committed" \in Phases
            BY DEF Phases
          <5> QED
            BY <2>1, <4>4, <5>1, EntryOperations DEF RunDispatch, Persist
        <4>5. CASE AbortBeforeLaunch(e)
          <5>1. "not_started" \in Phases
            BY DEF Phases
          <5> QED
            BY <2>1, <2>3, <4>5, <5>1, EntryOperations DEF AbortBeforeLaunch
        <4> QED
          BY <1>3, <2>3, <4>1, <4>2, <4>3, <4>4, <4>5 DEF ClientStep, Prepare
      <3> QED
        BY <1>1, <2>1, <3>1, EntryHolds
    <2> QED
      BY <2>2, <2>3
  <1>4. CASE CancelAttempt(e)
    BY <1>1, <1>2, <1>4 DEF CancelAttempt, ledgerVars
  <1> QED
    BY <1>3, <1>4

LEMMA TryMarkHolds ==
    ASSUME ContainInv, service # "down", NEW e \in Entries, TryMarkUnknown(e)
    PROVE  HoldsStay
  <1>1. CASE UNCHANGED ledgerVars
    BY <1>1, QuietHolds DEF ledgerVars
  <1>2. CASE ~broken /\ Persist(Sets(e, Unknown(ledger[e])))
    <2>1. SameHold(ledger[e], Unknown(ledger[e]))
      BY EntryOperations DEF ContainInv, Types, Phases
    <2> QED
      BY <1>2, <2>1, EntryHolds
  <1> QED
    BY <1>1, <1>2 DEF TryMarkUnknown

LEMMA ThreadHolds ==
    ASSUME ContainInv, NEW e \in Entries, LaunchStep(e) \/ MonitorStep(e)
    PROVE  HoldsStay /\ UNCHANGED importVars
  <1>1. UNCHANGED importVars
    BY DEF LaunchStep, MonitorStep, CreateSuspended, JobCollision, MarkRunning, ResumeThread, LaunchFails,
           ProcessEnds, MonitorCancels, MonitorRecords, MonitorReleases, MonitorGivesUp, StopAttempt
  <1>2. ledger[e] \in Entry /\ attempt[e].cancel \in BOOLEAN
    BY DEF ContainInv, Types
  <1>3. ASSUME ~broken, service # "down", NEW x, SameHold(ledger[e], x), Persisted(Sets(e, x)) \/ PersistFails(Sets(e, x))
        PROVE  HoldsStay
    BY <1>3, EntryHolds DEF Persist
  <1>4. CASE CreateSuspended(e) \/ ResumeThread(e) \/ ProcessEnds(e) \/ MonitorCancels(e)
    BY <1>4, QuietHolds DEF CreateSuspended, ResumeThread, ProcessEnds, MonitorCancels, ledgerVars
  <1>5. CASE JobCollision(e)
    <2>1. "not_started" \in Phases
      BY DEF Phases
    <2>2. SameHold(ledger[e], [ledger[e] EXCEPT !.phase = "not_started", !.held = ledger[e].hold])
      BY <1>2, <2>1, EntryOperations
    <2> QED
      BY <1>5, <2>2, EntryHolds, QuietHolds DEF JobCollision, ledgerVars
  <1>6. CASE MarkRunning(e) \/ LaunchFails(e)
    <2>1. "running" \in Phases
      BY DEF Phases
    <2>2. SameHold(ledger[e], [ledger[e] EXCEPT !.phase = "running", !.pid = TRUE])
      BY <1>2, <2>1, EntryOperations
    <2>3. CASE TryMarkUnknown(e)
      BY <1>6, <2>3, TryMarkHolds DEF MarkRunning, LaunchFails
    <2> QED
      BY <1>6, <2>2, <2>3, <1>3 DEF MarkRunning, LaunchFails
  <1>7. CASE MonitorRecords(e)
    <2>1. SameHold(ledger[e], Terminal(ledger[e], attempt[e].cancel))
      BY <1>2, EntryOperations DEF Phases
    <2> QED
      BY <1>7, <2>1, <1>3 DEF MonitorRecords
  <1>8. CASE MonitorReleases(e)
    <2>1. SameHold(ledger[e], Released(ledger[e]))
      BY <1>2, EntryOperations DEF Phases
    <2> QED
      BY <1>8, <2>1, <1>3 DEF MonitorReleases
  <1>9. CASE MonitorGivesUp(e) \/ StopAttempt(e)
    BY <1>9, TryMarkHolds DEF MonitorGivesUp, StopAttempt
  <1> QED
    BY <1>1, <1>4, <1>5, <1>6, <1>7, <1>8, <1>9 DEF LaunchStep, MonitorStep

\* The service ends and starts again between two commands.
LEMMA RestartHolds ==
    ASSUME ContainInv, ServiceEnds \/ ServiceStarts
    PROVE  HoldsStay
  <1>1. CASE ServiceEnds
    BY <1>1, QuietHolds DEF ServiceEnds
  <1>2. CASE ServiceStarts
    <2>1. \A d \in Entries : stored'[d] = Unknown(stored[d])
      BY <1>2 DEF ServiceStarts, Recovered
    <2>2. \A d \in Entries : SameHold(stored[d], Unknown(stored[d]))
      BY EntryOperations DEF ContainInv, Types, Phases
    <2> QED
      BY <2>1, <2>2 DEF HoldsStay
  <1> QED
    BY <1>1, <1>2

\* The command is over, or failed: nothing on disk changes.
LEMMA ControlEndsInv ==
    ASSUME ImportInv, HoldsStay, control' = Idle, UNCHANGED <<imported, published>>
    PROVE  ImportInv'
  <1>1. \A e, s : At(s, e)' => s = "idle"
    BY ControlIsOne DEF At
  <1> QED
    BY <1>1 DEF ImportInv, HoldsStay, SameHold

LEMMA ImportStepInv ==
    ASSUME ContainInv, ImportInv, NEW e \in Entries, ImportStep(e)
    PROVE  ImportInv'
  <1>1. stored \in [Entries -> Entry] /\ stored[e] \in Entry
    BY DEF ContainInv, Types
  <1>2. \A s, t, d, c : /\ (control = [at |-> s, e |-> d] /\ At(t, c)) => t = s /\ c = d
                        /\ (control' = [at |-> s, e |-> d] /\ At(t, c)') => t = s /\ c = d
                        /\ (control = Idle /\ At(t, c)) => t = "idle"
                        /\ (control' = Idle /\ At(t, c)') => t = "idle"
    BY ControlIsOne DEF At
  <1>3. ASSUME NEW s, NEW x \in {"none", "creating", "prepared", "intent", "published"},
               imported' = [imported EXCEPT ![e] = x], HoldsStay, UNCHANGED published,
               control' = [at |-> s, e |-> e] \/ (control' = Idle /\ s = "idle"),
               x \in {"creating", "prepared", "intent"} => stored[e].hold,
               published[e] => x \in {"intent", "published"},
               x = "published" => published[e],
               s = "creating" => x = "none" /\ stored[e].hold,
               s = "staged" => x = "creating",
               s = "validated" => x = "prepared",
               s = "committed" => x = "intent" /\ stored[e].commit,
               s = "moved" => x = "intent" /\ published[e],
               s = "recorded" => x = "published"
        PROVE  ImportInv'
    <2>1. \A d \in Entries \ {e} : imported'[d] = imported[d]
      BY <1>3 DEF ImportInv
    <2>2. imported'[e] = x /\ imported' \in [Entries -> {"none", "creating", "prepared", "intent", "published"}]
      BY <1>3 DEF ImportInv
    <2>3. \A d \in Entries : \A t : At(t, d)' => (t = "idle" \/ (t = s /\ d = e))
      BY <1>2, <1>3
    <2> QED
      BY <1>3, <2>1, <2>2, <2>3 DEF ImportInv, HoldsStay, SameHold
  <1>4. imported = [imported EXCEPT ![e] = imported[e]]
    BY DEF ImportInv
  <1>5. CASE PrepareImport(e)
    <2>1. UNCHANGED <<stored, published>> /\ HoldsStay
      BY <1>5, QuietHolds DEF PrepareImport, ledgerVars
    <2>2. CASE At("creating", e) /\ imported' = [imported EXCEPT ![e] = "creating"] /\ control' = [at |-> "staged", e |-> e]
      <3>1. imported[e] = "none" /\ stored[e].hold
        BY <2>2 DEF ImportInv
      <3>2. ~published[e]
        BY <3>1 DEF ImportInv
      <3> QED
        BY <1>3, <2>1, <2>2, <3>1, <3>2
    <2>3. CASE At("staged", e) /\ imported' = [imported EXCEPT ![e] = "prepared"] /\ control' = Idle
      <3>1. imported[e] = "creating"
        BY <2>3 DEF ImportInv
      <3>2. ~published[e] /\ stored[e].hold
        BY <3>1 DEF ImportInv
      <3> QED
        BY <1>3, <2>1, <2>3, <3>2
    <2> QED
      BY <1>5, <2>2, <2>3 DEF PrepareImport, At
  <1>6. CASE ValidateImport(e)
    <2>1. UNCHANGED <<stored, published, imported>> /\ HoldsStay /\ imported[e] = "prepared"
      BY <1>6, QuietHolds DEF ValidateImport, ledgerVars
    <2>2. ~published[e] /\ stored[e].hold /\ control' = [at |-> "validated", e |-> e]
      BY <1>6, <2>1 DEF ImportInv, ValidateImport
    <2> QED
      BY <1>3, <1>4, <2>1, <2>2
  <1>7. CASE SavePublished(e) \/ InspectPublication(e)
    <2>1. /\ UNCHANGED <<stored, published>> /\ HoldsStay
          /\ imported' = [imported EXCEPT ![e] = "published"] /\ control' = [at |-> "recorded", e |-> e]
      BY <1>7, QuietHolds DEF SavePublished, InspectPublication, ledgerVars
    <2>2. published[e]
      BY <1>7 DEF SavePublished, InspectPublication, ImportInv, At
    <2> QED
      BY <1>3, <2>1, <2>2
  <1>8. CASE Publish(e)
    <2>1. UNCHANGED <<stored, imported>> /\ HoldsStay /\ At("committed", e)
      BY <1>8, QuietHolds DEF Publish, ledgerVars, At
    <2>2. /\ imported[e] = "intent" /\ stored[e].commit
          /\ published' = [published EXCEPT ![e] = TRUE] /\ control' = [at |-> "moved", e |-> e]
      BY <1>8, <2>1 DEF ImportInv, Publish
    <2>3. \A d \in Entries : \A t : At(t, d)' => t = "moved" /\ d = e
      BY <1>2, <2>2
    <2>4. /\ published'[e] /\ \A d \in Entries \ {e} : published'[d] = published[d]
          /\ published' \in [Entries -> BOOLEAN]
      BY <2>2 DEF ImportInv
    <2> QED
      BY <2>1, <2>2, <2>3, <2>4 DEF ImportInv, HoldsStay, SameHold
  <1>9. CASE CommitImportPublication(e)
    <2> DEFINE x == [ledger[e] EXCEPT !.commit = TRUE]
    <2>1. /\ At("validated", e) /\ ~broken /\ service # "down"
          /\ UNCHANGED published
      BY <1>9 DEF CommitImportPublication, At
    <2>2. stored = ledger /\ imported[e] = "prepared" /\ stored[e].hold /\ ~published[e]
      BY <2>1 DEF ContainInv, LedgerInv, ImportInv
    <2>3. x.hold = stored[e].hold /\ x.held = stored[e].held /\ x.commit
      BY <1>1, <2>2 DEF Entry
    <2>4. \/ /\ stored' = [stored EXCEPT ![e] = x]
             /\ imported' = [imported EXCEPT ![e] = "intent"] /\ control' = [at |-> "committed", e |-> e]
          \/ /\ stored' \in {stored, [stored EXCEPT ![e] = x]}
             /\ imported' = imported /\ control' = Idle
      BY <1>9, <2>2 DEF CommitImportPublication, Persisted, PersistFails, Sets
    <2> HIDE DEF x
    <2>5. \A d \in Entries : /\ stored'[d].hold = stored[d].hold /\ stored'[d].held = stored[d].held
                             /\ stored[d].commit => stored'[d].commit
      BY <1>1, <2>3, <2>4
    <2>6. CASE imported' = imported /\ control' = Idle
      <3>1. \A d \in Entries : \A t : At(t, d)' => t = "idle"
        BY <1>2, <2>6
      <3> QED
        BY <2>1, <2>5, <2>6, <3>1 DEF ImportInv
    <2>7. CASE /\ stored' = [stored EXCEPT ![e] = x]
               /\ imported' = [imported EXCEPT ![e] = "intent"] /\ control' = [at |-> "committed", e |-> e]
      <3>1. \A d \in Entries : \A t : At(t, d)' => t = "committed" /\ d = e
        BY <1>2, <2>7
      <3>2. /\ imported'[e] = "intent" /\ \A d \in Entries \ {e} : imported'[d] = imported[d]
            /\ imported' \in [Entries -> {"none", "creating", "prepared", "intent", "published"}]
        BY <2>7 DEF ImportInv
      <3>3. stored'[e].commit
        BY <1>1, <2>3, <2>7
      <3> QED
        BY <2>1, <2>2, <2>5, <3>1, <3>2, <3>3 DEF ImportInv
    <2> QED
      BY <2>4, <2>6, <2>7
  <1>10. CASE CompleteImportReservation(e)
    <2>1. /\ At("recorded", e) /\ service # "down" /\ control' = Idle
          /\ UNCHANGED <<imported, published>>
      BY <1>10 DEF CompleteImportReservation, At
    <2>2. imported[e] = "published"
      BY <2>1 DEF ImportInv
    <2>3. CASE UNCHANGED ledgerVars
      BY <2>1, <2>3, QuietHolds, ControlEndsInv DEF ledgerVars
    <2>4. CASE ~broken /\ ledger[e].hold /\ Persist(Sets(e, [ledger[e] EXCEPT !.hold = FALSE]))
      <3> DEFINE x == [ledger[e] EXCEPT !.hold = FALSE]
      <3>1. stored = ledger
        BY <2>1, <2>4 DEF ContainInv, LedgerInv
      <3>2. ~x.hold /\ x.held = stored[e].held /\ x.commit = stored[e].commit
        BY <1>1, <3>1 DEF Entry
      <3>3. stored' = stored \/ stored' = [stored EXCEPT ![e] = x]
        BY <2>4, <3>1 DEF Persist, Persisted, PersistFails, Sets
      <3> HIDE DEF x
      <3>4. \A d \in Entries : /\ stored'[d].held = stored[d].held /\ stored'[d].commit = stored[d].commit
                               /\ stored'[d].hold => stored[d].hold
                               /\ d # e => stored'[d].hold = stored[d].hold
        BY <1>1, <3>2, <3>3
      <3>5. \A d \in Entries : \A t : At(t, d)' => t = "idle"
        BY <1>2, <2>1
      <3> QED
        BY <2>1, <2>2, <3>4, <3>5 DEF ImportInv
    <2> QED
      BY <1>10, <2>3, <2>4 DEF CompleteImportReservation
  <1>11. CASE AcquireImportReservation(e)
    <2> DEFINE x == [ledger[e] EXCEPT !.shared = FALSE, !.hold = TRUE]
    <2>1. /\ ~broken /\ service # "down" /\ control = Idle /\ imported[e] = "none"
          /\ UNCHANGED <<imported, published>>
      BY <1>11 DEF AcquireImportReservation, Known, Answers
    <2>2. stored = ledger /\ ~published[e]
      BY <2>1 DEF ContainInv, LedgerInv, ImportInv
    <2>3. CASE ledger[e].hold /\ control' = [at |-> "creating", e |-> e] /\ UNCHANGED ledgerVars
      <3>1. HoldsStay
        BY <2>3, QuietHolds DEF ledgerVars
      <3> QED
        BY <1>3, <1>4, <2>1, <2>2, <2>3, <3>1
    <2>4. CASE /\ MayAcquire(e)
               /\ \/ Persisted(Sets(e, x)) /\ control' = [at |-> "creating", e |-> e]
                  \/ PersistFails(Sets(e, x)) /\ UNCHANGED control
      <3>1. stored[e].held
        BY <2>2, <2>4 DEF MayAcquire
      <3>2. x.hold /\ x.held = stored[e].held /\ x.commit = stored[e].commit
        BY <1>1, <2>2 DEF Entry
      <3>3. \/ stored' = [stored EXCEPT ![e] = x] /\ control' = [at |-> "creating", e |-> e]
            \/ stored' \in {stored, [stored EXCEPT ![e] = x]} /\ control' = Idle
        BY <2>1, <2>2, <2>4 DEF Persisted, PersistFails, Sets
      <3> HIDE DEF x
      <3>4. \A d \in Entries : /\ stored'[d].held = stored[d].held /\ stored'[d].commit = stored[d].commit
                               /\ stored[d].hold => stored'[d].hold
                               /\ stored'[d].hold => stored[d].hold \/ d = e
        BY <1>1, <3>2, <3>3
      <3>5. \A d \in Entries : \A t : At(t, d)' => (t = "idle" \/ (t = "creating" /\ d = e /\ stored'[e].hold))
        BY <1>1, <1>2, <3>2, <3>3
      <3> QED
        BY <2>1, <3>1, <3>4, <3>5 DEF ImportInv
    <2> QED
      BY <1>11, <2>3, <2>4 DEF AcquireImportReservation
  <1> QED
    BY <1>5, <1>6, <1>7, <1>8, <1>9, <1>10, <1>11 DEF ImportStep

LEMMA ImportsFit == ContainSpec => []ImportInv
  <1>1. ContainInit => ImportInv
    <2> SUFFICES ASSUME ContainInit PROVE ImportInv
      OBVIOUS
    <2>1. \A e, s : At(s, e) => s = "idle"
      BY ControlIsOne DEF At, ContainInit
    <2>2. ~NoEntry.hold
      BY DEF NoEntry
    <2> QED
      BY <2>1, <2>2 DEF ContainInit, ImportInv
  <1>2. ContainInv /\ ImportInv /\ [ContainNext]_containVars => ImportInv'
    <2> SUFFICES ASSUME ContainInv, ImportInv, [ContainNext]_containVars PROVE ImportInv'
      OBVIOUS
    <2>1. CASE UNCHANGED containVars
      BY <2>1, QuietHolds, HoldsKeepImports DEF containVars, importVars
    <2>2. ASSUME NEW e \in Entries, ClientStep(e) \/ LaunchStep(e) \/ MonitorStep(e) \/ ImportStep(e)
          PROVE  ImportInv'
      BY <2>2, ClientHolds, ThreadHolds, HoldsKeepImports, ImportStepInv
    <2>3. CASE ControlFails
      BY <2>3, QuietHolds, ControlEndsInv DEF ControlFails, ledgerVars
    <2>4. CASE BeginStop
      BY <2>4, QuietHolds, HoldsKeepImports DEF BeginStop, ledgerVars
    <2>5. CASE ServiceEnds
      BY <2>5, RestartHolds, ControlEndsInv DEF ServiceEnds
    <2>6. CASE ServiceStarts
      BY <2>6, RestartHolds, HoldsKeepImports DEF ServiceStarts
    <2> QED
      BY <2>1, <2>2, <2>3, <2>4, <2>5, <2>6 DEF ContainNext
  <1> QED
    BY <1>1, <1>2, Containing, PTL DEF ContainSpec

\* From the reservation of an import to the record that it is published no
\* other writer lives, and what is at the destination was committed to and is
\* remembered (AcquireImportReservation, CommitImportPublication, Publish,
\* CompleteImportReservation).
THEOREM PublicationAlwaysAlone == ContainSpec => []PublicationIsAlone
  <1>1. ContainInv /\ ImportInv => PublicationIsAlone
    <2> SUFFICES ASSUME ContainInv, ImportInv, NEW e \in Entries, imported[e] \in {"creating", "prepared", "intent"}
                 PROVE  stored[e].held /\ stored[e].hold /\ \A d \in Entries \ {e} : ~Lives(d)
      BY DEF PublicationIsAlone, ImportInv
    <2>1. stored[e].held /\ stored[e].hold
      BY DEF ImportInv
    <2>2. ~stored[e].shared
      <3>1. stored[e] \in Entry /\ Storable(stored[e]) /\ stored[e] # NoEntry
        BY <2>1 DEF ContainInv, Types, LedgerInv, Good, NoEntry
      <3> QED
        BY <2>1, <3>1 DEF Storable
    <2>3. \A d \in Entries \ {e} : ~stored[d].held
      BY <2>1, <2>2 DEF ContainInv, LedgerInv, Good, Compatible
    <2>4. ASSUME NEW d \in Entries \ {e} PROVE ~Lives(d)
      <3>1. stored[d] \in Entry /\ Storable(stored[d])
        BY DEF ContainInv, Types, LedgerInv, Good
      <3>2. stored[d].phase \in InHand => stored[d].held
        BY <3>1, StoredFields DEF InHand, Settled
      <3>3. Lives(d) => stored[d].phase \in InHand
        BY DEF ContainInv, FenceInv, Busy
      <3> QED
        BY <2>3, <3>2, <3>3
    <2> QED
      BY <2>1, <2>4
  <1> QED
    BY <1>1, Containing, ImportsFit, PTL

\* What CancelledIsNotPublished says of one step.
CommitsFairly ==
    \A d \in Entries :
        /\ stored[d].cancel /\ ~stored[d].commit => ~stored'[d].commit
        /\ published'[d] /\ ~published[d] => stored[d].commit

LEMMA HoldsCommitFairly ==
    ASSUME HoldsStay, UNCHANGED published
    PROVE  CommitsFairly
  BY DEF HoldsStay, SameHold, CommitsFairly

LEMMA ImportCommitsFairly ==
    ASSUME ContainInv, ImportInv, NEW e \in Entries, ImportStep(e)
    PROVE  CommitsFairly
  <1>1. stored \in [Entries -> Entry] /\ stored[e] \in Entry
    BY DEF ContainInv, Types
  <1>2. CASE UNCHANGED <<stored, published>>
    BY <1>2 DEF CommitsFairly
  <1>3. CASE PrepareImport(e) \/ ValidateImport(e) \/ SavePublished(e) \/ InspectPublication(e)
    BY <1>2, <1>3 DEF PrepareImport, ValidateImport, SavePublished, InspectPublication, ledgerVars
  <1>4. CASE Publish(e)
    <2>1. UNCHANGED stored /\ stored[e].commit /\ \A d \in Entries \ {e} : published'[d] = published[d]
      BY <1>4 DEF Publish, ledgerVars, ImportInv, At
    <2> QED
      BY <2>1 DEF CommitsFairly
  <1>5. CASE CommitImportPublication(e)
    <2>1. stored = ledger /\ ~ledger[e].cancel /\ UNCHANGED published
      BY <1>5 DEF CommitImportPublication, EnsureImportMayValidate, ContainInv, LedgerInv
    <2>2. \A d \in Entries \ {e} : stored'[d] = stored[d]
      BY <1>1, <1>5, <2>1 DEF CommitImportPublication, Persisted, PersistFails, Sets
    <2> QED
      BY <2>1, <2>2 DEF CommitsFairly
  <1>6. CASE (AcquireImportReservation(e) \/ CompleteImportReservation(e)) /\ ~UNCHANGED stored
    <2>1. /\ ~broken /\ service # "down" /\ UNCHANGED published
          /\ \/ Persist(Sets(e, [ledger[e] EXCEPT !.shared = FALSE, !.hold = TRUE]))
             \/ Persist(Sets(e, [ledger[e] EXCEPT !.hold = FALSE]))
      BY <1>6 DEF AcquireImportReservation, CompleteImportReservation, Known, Answers, Persist, ledgerVars
    <2>2. stored = ledger
      BY <2>1 DEF ContainInv, LedgerInv
    <2>3. /\ [stored[e] EXCEPT !.shared = FALSE, !.hold = TRUE].commit = stored[e].commit
          /\ [stored[e] EXCEPT !.hold = FALSE].commit = stored[e].commit
      BY <1>1 DEF Entry
    <2>4. \E x : (stored' = stored \/ stored' = [stored EXCEPT ![e] = x]) /\ x.commit = stored[e].commit
      BY <2>1, <2>2, <2>3 DEF Persist, Persisted, PersistFails, Sets
    <2>5. \A d \in Entries : stored'[d].commit = stored[d].commit
      BY <1>1, <2>4
    <2> QED
      BY <2>1, <2>5 DEF CommitsFairly
  <1>7. CASE (AcquireImportReservation(e) \/ CompleteImportReservation(e)) /\ UNCHANGED stored
    BY <1>2, <1>7 DEF AcquireImportReservation, CompleteImportReservation
  <1> QED
    BY <1>3, <1>4, <1>5, <1>6, <1>7 DEF ImportStep

\* An import cancelled before it was committed to is never committed to, and
\* one not committed to never reaches its destination (RequestCancellation,
\* CommitImportPublication, EnsureImportMayValidate).
THEOREM CancelledNeverPublished == ContainSpec => CancelledIsNotPublished
  <1>1. ContainInv /\ ImportInv /\ [ContainNext]_containVars => CommitsFairly
    <2> SUFFICES ASSUME ContainInv, ImportInv, [ContainNext]_containVars PROVE CommitsFairly
      OBVIOUS
    <2>1. CASE UNCHANGED <<stored, published>>
      BY <2>1, QuietHolds, HoldsCommitFairly
    <2>2. ASSUME NEW e \in Entries, ClientStep(e) \/ LaunchStep(e) \/ MonitorStep(e) \/ ImportStep(e)
          PROVE  CommitsFairly
      BY <2>2, ClientHolds, ThreadHolds, HoldsCommitFairly, ImportCommitsFairly DEF importVars
    <2>3. CASE ControlFails \/ BeginStop
      BY <2>1, <2>3 DEF ControlFails, BeginStop, ledgerVars, importVars
    <2>4. CASE ServiceEnds \/ ServiceStarts
      BY <2>4, RestartHolds, HoldsCommitFairly DEF ServiceEnds, ServiceStarts, importVars
    <2> QED
      BY <2>1, <2>2, <2>3, <2>4 DEF ContainNext, containVars
  <1>2. ContainInv /\ ImportInv /\ [ContainNext]_containVars =>
           [\A e \in Entries :
              /\ stored[e].cancel /\ ~stored[e].commit => ~stored'[e].commit
              /\ published'[e] /\ ~published[e] => stored[e].commit]_containVars
    BY <1>1 DEF CommitsFairly
  <1> QED
    BY <1>2, Containing, ImportsFit, PTL DEF ContainSpec, CancelledIsNotPublished

=============================================================================
