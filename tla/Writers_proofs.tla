--------------------------- MODULE Writers_proofs ---------------------------
(***************************************************************************)
(* Proofs about the users of the writer index: the writer lease, for any   *)
(* servers, sessions, calls and managed writers, and the durable shell     *)
(* tasks, for any hosts and tasks.  The lease needs two invariants that    *)
(* need nothing of each other: CallInv about the journal, IndexInv about   *)
(* the reservation index.                                                  *)
(***************************************************************************)
EXTENDS ShellTasks, WriterLease, TLAPS

-----------------------------------------------------------------------------
(* The journal.                                                            *)

Rows == [gen : Nat, held : BOOLEAN, owner : Sessions \cup {NoOwner}, expires : Nat, active : Nat]

\* end() names a call by its id and generation.
CallsDiffer == \A c, d \in running : c.call = d.call => c = d

CallInv ==
    /\ row \in Rows /\ clock \in Nat
    /\ CallsDiffer
    /\ RunningIsJournaled
    /\ OneWriter

\* A step that touches neither the row nor the calls, and lets no server go.
LEMMA CallsRest ==
    ASSUME CallInv, UNCHANGED <<row, journal, running, clock>>, up \subseteq up'
    PROVE  CallInv'
  BY DEF CallInv, CallsDiffer, RunningIsJournaled, OneWriter

\* A lease changes hands while no call runs.
LEMMA NobodyRuns ==
    ASSUME CallInv, ~LiveCall \/ journal = {}
    PROVE  running = {}
  BY DEF CallInv, RunningIsJournaled, LiveCall

LEMMA UnleasedIsRow ==
    ASSUME NEW g \in Nat, NEW t \in Nat
    PROVE  Unleased(g, t) \in Rows
  BY DEF Unleased, Rows

LEMMA CallInvInit ==
    ASSUME WriterInit
    PROVE  CallInv
  <1>1. row \in Rows
    <2>1. CASE row = Unleased(0, 0)
      BY <2>1, UnleasedIsRow
    <2>2. ASSUME NEW s \in Sessions, NEW t \in Ttls,
                 row = [gen |-> 1, held |-> TRUE, owner |-> s, expires |-> 1 + t, active |-> 0]
          PROVE  row \in Rows
      <3>1. 1 + t \in Nat
        BY LeaseAssumption
      <3> QED
        BY <2>2, <3>1 DEF Rows
    <2> QED
      BY <2>1, <2>2 DEF WriterInit
  <1> QED
    BY <1>1 DEF WriterInit, CallInv, CallsDiffer, RunningIsJournaled, OneWriter

LEMMA BeginKeeps ==
    ASSUME CallInv, NEW h \in Hosts, NEW s \in Sessions, NEW c \in Calls, NEW p \in 0..MaxGen,
           Begin(h, s, c, p)
    PROVE  CallInv'
  <1> DEFINE new == [call |-> c, gen |-> row.gen, pid |-> h, by |-> s, fenced |-> row.held]
  <1>1. /\ row \in Rows /\ up' = up /\ clock' = clock
        /\ h \in up /\ running' = running \cup {new}
        /\ journal' = journal \cup {[call |-> c, gen |-> row.gen, pid |-> h]}
        /\ \A d \in running : d.call # c
        /\ row.held => row.owner = s
    BY DEF CallInv, Begin, indexVars, Matches
  <1>2. /\ row' \in Rows /\ row'.gen = row.gen /\ row'.held = row.held /\ row'.owner = row.owner
    <2>1. row' = row \/ row' = [row EXCEPT !.active = clock]
      BY DEF Begin
    <2> QED
      BY <1>1, <2>1 DEF Rows, CallInv
  <1>3. CallsDiffer'
    BY <1>1 DEF CallInv, CallsDiffer
  <1>4. RunningIsJournaled'
    <2>1. \A d \in running : d.pid \in up' /\ [call |-> d.call, gen |-> d.gen, pid |-> d.pid] \in journal'
      BY <1>1 DEF CallInv, RunningIsJournaled
    <2>2. new.pid \in up' /\ [call |-> new.call, gen |-> new.gen, pid |-> new.pid] \in journal'
      BY <1>1
    <2> QED
      BY <1>1, <2>1, <2>2 DEF RunningIsJournaled
  <1>5. OneWriter'
    BY <1>1, <1>2 DEF CallInv, OneWriter
  <1> QED
    BY <1>1, <1>2, <1>3, <1>4, <1>5 DEF CallInv

\* What keeps the generation and the owner of the row, and ends calls only.
LEMMA RowTouched ==
    ASSUME CallInv, row' \in Rows, row'.gen = row.gen, row'.held = row.held,
           row'.owner = row.owner, running' \subseteq running, clock' \in Nat, RunningIsJournaled'
    PROVE  CallInv'
  BY DEF CallInv, CallsDiffer, OneWriter

LEMMA CallEnds ==
    ASSUME CallInv, NEW c \in running, Heartbeat(c) \/ End(c) \/ EndFails(c)
    PROVE  CallInv'
  <1>1. row \in Rows /\ clock \in Nat /\ up' = up /\ clock' = clock
    BY DEF CallInv, Heartbeat, End, EndFails, indexVars
  <1>2. CASE Heartbeat(c)
    <2>1. PICK e \in Nat : row' = [row EXCEPT !.expires = e, !.active = clock]
      <3>1. (IF row.expires > clock + Beat THEN row.expires ELSE clock + Beat) \in Nat
        BY <1>1, LeaseAssumption DEF Rows
      <3> QED
        BY <1>1, <1>2, <3>1 DEF Heartbeat, Rows
    <2>2. /\ row' \in Rows /\ row'.gen = row.gen /\ row'.held = row.held /\ row'.owner = row.owner
      BY <1>1, <2>1 DEF Rows
    <2>3. running' = running /\ RunningIsJournaled'
      BY <1>1, <1>2 DEF Heartbeat, CallInv, RunningIsJournaled
    <2> QED
      BY <1>1, <2>2, <2>3, RowTouched
  <1>3. CASE End(c)
    <2>1. /\ row' \in Rows /\ row'.gen = row.gen /\ row'.held = row.held /\ row'.owner = row.owner
      <3>1. row' = row \/ row' = [row EXCEPT !.active = clock]
        BY <1>3 DEF End
      <3> QED
        BY <1>1, <3>1 DEF Rows
    <2>2. running' = running \ {c}
      BY <1>3 DEF End
    <2>3. RunningIsJournaled'
      BY <1>1, <1>3 DEF End, CallInv, CallsDiffer, RunningIsJournaled
    <2> QED
      BY <1>1, <2>1, <2>2, <2>3, RowTouched
  <1>4. CASE EndFails(c)
    BY <1>1, <1>4, RowTouched DEF EndFails, CallInv, RunningIsJournaled
  <1> QED
    BY <1>2, <1>3, <1>4

LEMMA RenewKeeps ==
    ASSUME CallInv, NEW h \in Hosts, NEW s \in Sessions, NEW p \in 1..MaxGen, NEW t \in Ttls,
           Renew(h, s, p, t)
    PROVE  CallInv'
  <1>1. row \in Rows /\ clock \in Nat /\ t \in Nat /\ up' = up /\ UNCHANGED <<clock, journal, running>>
        /\ row' = [row EXCEPT !.expires = clock + t, !.active = clock]
    BY LeaseAssumption DEF CallInv, Renew, indexVars
  <1>2. clock + t \in Nat
    BY <1>1
  <1>3. /\ row' \in Rows /\ row'.gen = row.gen /\ row'.held = row.held /\ row'.owner = row.owner
    BY <1>1, <1>2 DEF Rows
  <1> QED
    BY <1>1, <1>3, RowTouched DEF CallInv, RunningIsJournaled

\* acquire, release, revokeAbandoned: no call runs on into what they leave.
LEMMA HandsChange ==
    ASSUME CallInv, NEW h \in Hosts, NEW s \in Sessions,
           \/ \E t \in Ttls, recover \in BOOLEAN : Acquire(h, s, t, recover)
           \/ \E p \in 1..MaxGen : Release(h, s, p)
           \/ Revoke(h, s)
    PROVE  CallInv'
  <1>1. row \in Rows /\ clock \in Nat /\ clock' = clock /\ running' = running
    BY DEF CallInv, Acquire, Release, Revoke, Decided
  <1>2. running = {}
    BY NobodyRuns DEF Acquire, Release, Revoke
  <1>3. row' \in Rows
    <2>1. ASSUME NEW t \in Ttls, row' = Granted(s, t) PROVE row' \in Rows
      <3>1. row.gen + 1 \in Nat /\ clock + t \in Nat
        BY <1>1, LeaseAssumption DEF Rows
      <3> QED
        BY <1>1, <2>1, <3>1 DEF Granted, Rows
    <2>2. row.gen \in Nat /\ row.gen + 1 \in Nat /\ row.active \in Nat
      BY <1>1 DEF Rows
    <2>3. Unleased(row.gen, row.active) \in Rows /\ Unleased(row.gen + 1, clock) \in Rows
      BY <1>1, <2>2, UnleasedIsRow
    <2> QED
      BY <2>1, <2>3 DEF Acquire, Release, Revoke
  <1> QED
    BY <1>1, <1>2, <1>3 DEF CallInv, CallsDiffer, RunningIsJournaled, OneWriter

LEMMA CallInvNext ==
    ASSUME CallInv, [WriterNext]_wlVars
    PROVE  CallInv'
  <1>1. CASE CallStep
    BY <1>1, BeginKeeps, CallEnds, RenewKeeps DEF CallStep
  <1>2. CASE WorkStep
    BY <1>2, CallsRest DEF WorkStep, WorkAsk, WorkEnter, WorkRefused, WorkEnds, WorkReleased,
                           Observe, Reserve, Refuse, Unmark, leaseVars, indexVars
  <1>3. CASE Tick
    BY <1>3, RowTouched DEF Tick, CallInv, RunningIsJournaled, indexVars
  <1>4. ASSUME NEW h \in Hosts, ChangeStep(h) PROVE CallInv'
    <2>1. CASE ProbeAsk(h) \/ ProbeHeld(h) \/ ProbeRefused(h) \/ NoLeaseChange(h) \/ ProbeDropped(h)
      BY <2>1, CallsRest DEF ProbeAsk, ProbeHeld, ProbeRefused, NoLeaseChange, ProbeDropped,
                             Decided, Observe, Reserve, Refuse, indexVars
    <2> QED
      BY <1>4, <2>1, HandsChange DEF ChangeStep
  <1>5. ASSUME NEW h \in Hosts, ServerCrash(h) PROVE CallInv'
    BY <1>5, RowTouched DEF ServerCrash, IndexCrash, CallInv, RunningIsJournaled
  <1>6. ASSUME NEW h \in Hosts, ServerRestart(h) PROVE CallInv'
    BY <1>6, CallsRest DEF ServerRestart, IndexRestart, leaseVars
  <1>7. CASE UNCHANGED wlVars
    BY <1>7, CallsRest DEF wlVars, indexVars, leaseVars
  <1> QED
    BY <1>1, <1>2, <1>3, <1>4, <1>5, <1>6, <1>7 DEF WriterNext

\* The calls that run are calls of the current generation and of the owner of
\* the lease (begin, acquire, release, revokeAbandoned, end).
THEOREM OnlyOwnerWrites == WriterSpec => []OneWriter
  <1>1. WriterInit => CallInv
    BY CallInvInit
  <1>2. CallInv /\ [WriterNext]_wlVars => CallInv'
    BY CallInvNext
  <1>3. CallInv => OneWriter
    BY DEF CallInv
  <1> QED
    BY <1>1, <1>2, <1>3, PTL DEF WriterSpec

\* A running call is journaled under a live pid, so that a change of hands
\* sees it (begin, end, crash of a server).
THEOREM RunningIsSeen == WriterSpec => []RunningIsJournaled
  <1>1. WriterInit => CallInv
    BY CallInvInit
  <1>2. CallInv /\ [WriterNext]_wlVars => CallInv'
    BY CallInvNext
  <1>3. CallInv => RunningIsJournaled
    BY DEF CallInv
  <1> QED
    BY <1>1, <1>2, <1>3, PTL DEF WriterSpec

-----------------------------------------------------------------------------
(* The reservation index.                                                  *)

Note == [job : Jobs \cup {"none"}, kind : Kinds, gone : SUBSET Marker]
Probe(h) == [job |-> h, kind |-> "probe", pid |-> h]

IndexTypes ==
    /\ markers \subseteq Marker /\ up \subseteq Hosts
    /\ noted \in [Hosts -> Note]
    /\ change \in [Hosts -> {"idle", "probing", "held", "done"}]
    /\ work \in [Work -> {"idle", "runs", "over"}]

\* A reservation in flight is the probe of a change, or a managed writer's.
NotesFit ==
    \A h \in Hosts :
        \/ noted[h] = NoNote
        \/ change[h] = "probing" /\ noted[h].job = h /\ noted[h].kind = "probe"
        \/ change[h] = "idle" /\ noted[h].job \in Work /\ noted[h].kind \in {"opaque", "sync"}

ExclusiveIsAlone == \A m, n \in markers : Exclusive(m.kind) => m = n

\* The marker of a writer that runs is one that nothing reclaims.
RunsIsMarked ==
    \A j \in Work : work[j] = "runs" =>
        \E m \in markers : m.job = j /\ (m.kind = "opaque" \/ (m.kind = "sync" /\ m.pid \in up))

ProbeIsMarked == \A h \in Hosts : change[h] \in {"held", "done"} => Probe(h) \in markers

\* The server of the marker has entered the writer and will not enter it again.
Entered(m) ==
    /\ m.job \in Work /\ work[m.job] # "idle"
    /\ noted[m.pid] = NoNote \/ noted[m.pid].job # m.job

MarkersEntered == \A m \in markers : m.job \in Work => Entered(m)

\* What was proved over outside the lock is still over when it is removed
\* under the lock: the same marker is not written twice.
GoneIsOver ==
    \A h \in Hosts : \A m \in noted[h].gone :
        m \in Marker /\ Entered(m) /\ (m \in markers => work[m.job] = "over")

IndexInv ==
    /\ IndexTypes /\ NotesFit /\ ExclusiveIsAlone /\ RunsIsMarked
    /\ ProbeIsMarked /\ MarkersEntered /\ GoneIsOver

LEMMA NoNoteType == NoNote \in Note /\ NoNote.gone = {}
  BY DEF NoNote, Note, Kinds

LEMMA IndexInvInit ==
    ASSUME WriterInit
    PROVE  IndexInv
  <1>1. IndexTypes /\ NotesFit
    BY NoNoteType DEF WriterInit, IndexInit, IndexTypes, NotesFit
  <1>2. \A h \in Hosts : noted[h].gone = {}
    BY NoNoteType DEF WriterInit, IndexInit
  <1> QED
    BY <1>1, <1>2 DEF WriterInit, IndexInit, IndexInv, ExclusiveIsAlone, RunsIsMarked,
                      ProbeIsMarked, MarkersEntered, GoneIsOver

\* A step that leaves the index and the writers alone; a server may return.
LEMMA IndexRests ==
    ASSUME IndexInv, UNCHANGED <<markers, noted, change, work>>, up \subseteq up', up' \subseteq Hosts
    PROVE  IndexInv'
  BY DEF IndexInv, IndexTypes, NotesFit, ExclusiveIsAlone, RunsIsMarked, ProbeIsMarked,
         MarkersEntered, GoneIsOver, Entered

\* What a decision under the lock removes: nothing that runs, no probe.
Removable(m) == \/ m.kind = "sync" /\ m.pid \notin up
                \/ m.job \in Work /\ work[m.job] = "over"

LEMMA RemovedIsOver ==
    ASSUME IndexInv, NEW h \in Hosts, NEW m \in markers, m \in ReclaimSync \cup noted[h].gone
    PROVE  Removable(m) /\ \A g \in Hosts : m # Probe(g)
  <1>1. CASE m \in ReclaimSync
    BY <1>1 DEF ReclaimSync, Probe, Removable
  <1>2. CASE m \in noted[h].gone
    BY <1>2, LeaseAssumption DEF IndexInv, GoneIsOver, Entered, Probe, Removable
  <1> QED
    BY <1>1, <1>2

\* The note of h is dropped.
LEMMA NoteDropped ==
    ASSUME IndexInv, NEW h \in Hosts, noted' = [noted EXCEPT ![h] = NoNote]
    PROVE  /\ noted' \in [Hosts -> Note]
           /\ \A g \in Hosts : noted'[g] = IF g = h THEN NoNote ELSE noted[g]
  BY NoNoteType DEF IndexInv, IndexTypes

\* Markers are removed and notes dropped; no writer starts or ends.
LEMMA Shrinks ==
    ASSUME IndexInv, IndexTypes', NotesFit', ProbeIsMarked',
           markers' \subseteq markers, UNCHANGED <<up, work>>,
           \A g \in Hosts : noted'[g] = noted[g] \/ noted'[g] = NoNote,
           \A m \in markers \ markers' : Removable(m) \/ m.job \notin Work
    PROVE  IndexInv'
  <1>1. ExclusiveIsAlone'
    BY DEF IndexInv, ExclusiveIsAlone
  <1>2. RunsIsMarked'
    BY DEF IndexInv, RunsIsMarked, Removable
  <1>3. \A m \in Marker : Entered(m) => Entered(m)'
    BY DEF Entered, Marker
  <1>4. MarkersEntered'
    BY <1>3 DEF IndexInv, IndexTypes, MarkersEntered
  <1>5. GoneIsOver'
    BY <1>3, NoNoteType DEF IndexInv, GoneIsOver
  <1> QED
    BY <1>1, <1>2, <1>4, <1>5 DEF IndexInv

\* reserve() outside the lock, for the probe of a change or for a writer that
\* has not been entered.
LEMMA ObserveKeeps ==
    ASSUME IndexInv, NEW h \in Hosts, NEW j \in Jobs, NEW k \in Kinds, Observe(h, j, k, WorkOver),
           j \in Work => work[j] = "idle", work' = work, IndexTypes', NotesFit', ProbeIsMarked'
    PROVE  IndexInv'
  <1>1. PICK seen \in SUBSET {m \in markers : m.job # j /\ m.job \in WorkOver} :
            noted' = [noted EXCEPT ![h] = [job |-> j, kind |-> k, gone |-> seen]]
    BY DEF Observe
  <1>2. /\ noted \in [Hosts -> Note] /\ markers \subseteq Marker
        /\ markers' = markers /\ up' = up
    BY DEF IndexInv, IndexTypes, Observe
  <1>3. \A g \in Hosts : noted'[g] = IF g = h THEN [job |-> j, kind |-> k, gone |-> seen] ELSE noted[g]
    BY <1>1, <1>2
  <1>4. \A m \in Marker : Entered(m) => Entered(m)'
    BY <1>3 DEF Entered, Marker
  <1>5. ExclusiveIsAlone' /\ RunsIsMarked'
    BY <1>2 DEF IndexInv, ExclusiveIsAlone, RunsIsMarked
  <1>6. MarkersEntered'
    BY <1>2, <1>4 DEF IndexInv, MarkersEntered
  <1>7. GoneIsOver'
    <2> SUFFICES ASSUME NEW g \in Hosts, NEW m \in noted'[g].gone
                 PROVE  m \in Marker /\ Entered(m)' /\ (m \in markers' => work'[m.job] = "over")
      BY DEF GoneIsOver
    <2>1. CASE g = h
      BY <1>2, <1>3, <1>6, <2>1 DEF WorkOver, MarkersEntered
    <2>2. CASE g # h
      BY <1>2, <1>3, <1>4, <2>2 DEF IndexInv, GoneIsOver
    <2> QED
      BY <2>1, <2>2
  <1> QED
    BY <1>5, <1>6, <1>7 DEF IndexInv

\* reserve() under the lock: the marker goes in beside none of its own job,
\* and beside none at all if either is exclusive.
LEMMA ReserveFacts ==
    ASSUME IndexInv, NEW h \in Hosts, Reserve(h)
    PROVE  LET n == noted[h]
               new == [job |-> n.job, kind |-> n.kind, pid |-> h] IN
           /\ n # NoNote /\ n \in Note /\ up' = up
           /\ markers' = Remaining(n) \cup {new} /\ Remaining(n) \subseteq markers
           /\ \A m \in Remaining(n) : m.job # n.job /\ ~Exclusive(n.kind) /\ ~Exclusive(m.kind)
           /\ \A m \in markers \ Remaining(n) : Removable(m) /\ \A g \in Hosts : m # Probe(g)
           /\ ExclusiveIsAlone'
  <1> DEFINE n == noted[h]
             new == [job |-> n.job, kind |-> n.kind, pid |-> h]
  <1>1. /\ n # NoNote /\ n \in Note /\ up' = up
        /\ markers' = Remaining(n) \cup {new}
        /\ \A m \in Remaining(n) : m.job # n.job /\ ~Exclusive(n.kind) /\ ~Exclusive(m.kind)
    BY DEF IndexInv, IndexTypes, Reserve, Admits, Blocks
  <1>2. Remaining(n) \subseteq markers
    BY DEF Remaining
  <1>3. \A m \in markers \ Remaining(n) : Removable(m) /\ \A g \in Hosts : m # Probe(g)
    BY RemovedIsOver DEF Remaining
  <1>4. ExclusiveIsAlone'
    <2>1. new.kind = n.kind
      OBVIOUS
    <2> HIDE DEF n, new
    <2> QED
      BY <1>1, <2>1 DEF ExclusiveIsAlone
  <1> QED
    BY <1>1, <1>2, <1>3, <1>4

\* The probe goes in: it is the only marker.
LEMMA ProbeHeldKeeps ==
    ASSUME IndexInv, NEW h \in Hosts, ProbeHeld(h)
    PROVE  IndexInv'
  <1> DEFINE n == noted[h]
  <1>1. /\ Reserve(h) /\ noted' = [noted EXCEPT ![h] = NoNote]
        /\ change' = [change EXCEPT ![h] = "held"] /\ work' = work /\ change[h] = "probing"
    BY DEF ProbeHeld, Reserve
  <1>2. /\ noted' \in [Hosts -> Note]
        /\ \A g \in Hosts : noted'[g] = IF g = h THEN NoNote ELSE noted[g]
    BY <1>1, NoteDropped
  <1>3. /\ n # NoNote /\ up' = up
        /\ markers' = Remaining(n) \cup {[job |-> n.job, kind |-> n.kind, pid |-> h]}
        /\ Remaining(n) \subseteq markers
        /\ \A m \in Remaining(n) : ~Exclusive(n.kind)
        /\ \A m \in markers \ Remaining(n) : Removable(m) /\ \A g \in Hosts : m # Probe(g)
        /\ ExclusiveIsAlone'
    BY <1>1, ReserveFacts
  <1>4. n.job = h /\ n.kind = "probe"
    BY <1>1, <1>3 DEF IndexInv, NotesFit
  <1>5. Remaining(n) = {} /\ markers' = {Probe(h)}
    BY <1>3, <1>4 DEF Exclusive, Probe
  <1>6. /\ change \in [Hosts -> {"idle", "probing", "held", "done"}]
        /\ \A g \in Hosts : change'[g] = IF g = h THEN "held" ELSE change[g]
    BY <1>1 DEF IndexInv, IndexTypes
  <1>7. IndexTypes'
    <2>1. Probe(h) \in Marker
      BY LeaseAssumption DEF Probe, Marker, Kinds
    <2> QED
      BY <1>1, <1>2, <1>3, <1>5, <2>1 DEF IndexInv, IndexTypes
  <1>8. NotesFit'
    BY <1>2, <1>6 DEF IndexInv, NotesFit
  <1>9. RunsIsMarked'
    BY <1>1, <1>3, <1>5 DEF IndexInv, RunsIsMarked, Removable
  <1>10. ProbeIsMarked'
    BY <1>3, <1>5, <1>6 DEF IndexInv, ProbeIsMarked
  <1>11. MarkersEntered'
    BY <1>5, LeaseAssumption DEF MarkersEntered, Probe
  <1>12. GoneIsOver'
    <2>1. \A m \in Marker : Entered(m) => Entered(m)'
      BY <1>1, <1>2 DEF Entered, Marker
    <2> QED
      BY <1>1, <1>2, <1>5, <2>1, NoNoteType, LeaseAssumption DEF IndexInv, GoneIsOver, Probe, Entered
  <1> QED
    BY <1>3, <1>7, <1>8, <1>9, <1>10, <1>11, <1>12 DEF IndexInv

\* A managed writer enters: its marker was never written before.
LEMMA WorkEnterKeeps ==
    ASSUME IndexInv, NEW h \in Hosts, WorkEnter(h)
    PROVE  IndexInv'
  <1> DEFINE n == noted[h]
             j == n.job
             new == [job |-> n.job, kind |-> n.kind, pid |-> h]
  <1>1. /\ Reserve(h) /\ noted' = [noted EXCEPT ![h] = NoNote] /\ h \in up
        /\ j \in Work /\ work' = [work EXCEPT ![j] = "runs"] /\ change' = change
    BY DEF WorkEnter, Reserve
  <1>2. /\ noted' \in [Hosts -> Note]
        /\ \A g \in Hosts : noted'[g] = IF g = h THEN NoNote ELSE noted[g]
    BY <1>1, NoteDropped
  <1>3. /\ n # NoNote /\ up' = up
        /\ markers' = Remaining(n) \cup {new}
        /\ Remaining(n) \subseteq markers
        /\ \A m \in Remaining(n) : m.job # j
        /\ \A m \in markers \ Remaining(n) : Removable(m) /\ \A g \in Hosts : m # Probe(g)
        /\ ExclusiveIsAlone'
    BY <1>1, ReserveFacts
  <1>4. n.kind \in {"opaque", "sync"}
    BY <1>1, <1>3, LeaseAssumption DEF IndexInv, NotesFit
  <1>5. new \in Marker /\ new.job = j /\ new.kind = n.kind /\ new.pid = h
    BY <1>1, <1>4, LeaseAssumption DEF Marker, Kinds
  <1>6. \A i \in Work : work'[i] = IF i = j THEN "runs" ELSE work[i]
    BY <1>1 DEF IndexInv, IndexTypes
  <1> HIDE DEF new
  <1>7. IndexTypes'
    BY <1>1, <1>2, <1>3, <1>5 DEF IndexInv, IndexTypes
  <1>8. NotesFit'
    BY <1>1, <1>2 DEF IndexInv, NotesFit
  <1>9. RunsIsMarked'
    <2> SUFFICES ASSUME NEW i \in Work, work'[i] = "runs"
                 PROVE  \E m \in markers' : m.job = i /\ (m.kind = "opaque" \/ (m.kind = "sync" /\ m.pid \in up'))
      BY DEF RunsIsMarked
    <2>1. CASE i = j
      BY <1>1, <1>3, <1>4, <1>5, <2>1
    <2>2. CASE i # j
      BY <1>3, <1>6, <2>2 DEF IndexInv, RunsIsMarked, Removable
    <2> QED
      BY <2>1, <2>2
  <1>10. ProbeIsMarked'
    BY <1>1, <1>3 DEF IndexInv, ProbeIsMarked
  <1>11. \A m \in Marker : Entered(m) => Entered(m)'
    BY <1>2, <1>6 DEF Entered, Marker
  <1>12. MarkersEntered'
    <2> SUFFICES ASSUME NEW m \in markers', m.job \in Work
                 PROVE  Entered(m)'
      BY DEF MarkersEntered
    <2>1. CASE m = new
      BY <1>1, <1>2, <1>5, <1>6, <2>1 DEF Entered
    <2>2. CASE m # new
      BY <1>3, <1>11, <2>2 DEF IndexInv, IndexTypes, MarkersEntered
    <2> QED
      BY <2>1, <2>2
  <1>13. GoneIsOver'
    <2> SUFFICES ASSUME NEW g \in Hosts, NEW m \in noted'[g].gone
                 PROVE  m \in Marker /\ Entered(m)' /\ (m \in markers' => work'[m.job] = "over")
      BY DEF GoneIsOver
    <2>1. m \in noted[g].gone
      BY <1>2, NoNoteType
    <2>2. m \in Marker /\ Entered(m) /\ (m \in markers => work[m.job] = "over")
      BY <2>1 DEF IndexInv, GoneIsOver
    <2>3. m # new
      BY <1>3, <1>5, <2>2 DEF Entered
    <2>4. m \in markers' => m \in markers /\ m.job # j
      BY <1>3, <2>3
    <2> QED
      BY <1>6, <1>11, <2>2, <2>4 DEF Entered
  <1> QED
    BY <1>3, <1>7, <1>8, <1>9, <1>10, <1>12, <1>13 DEF IndexInv

\* Under the lock, refused: what is over may go.
LEMMA RefuseKeeps ==
    ASSUME IndexInv, NEW h \in Hosts, Refuse(h), work' = work,
           change' = [change EXCEPT ![h] = "idle"], change[h] \in {"idle", "probing"}
    PROVE  IndexInv'
  <1>1. /\ noted' \in [Hosts -> Note]
        /\ \A g \in Hosts : noted'[g] = IF g = h THEN NoNote ELSE noted[g]
    BY NoteDropped DEF Refuse
  <1>2. /\ \A g \in Hosts : change'[g] = IF g = h THEN "idle" ELSE change[g]
        /\ change' \in [Hosts -> {"idle", "probing", "held", "done"}]
    BY DEF IndexInv, IndexTypes
  <1>3. up' = up /\ markers' \subseteq markers
    BY DEF Refuse
  <1>4. \A m \in markers \ markers' : Removable(m) /\ \A g \in Hosts : m # Probe(g)
    BY RemovedIsOver DEF Refuse
  <1>5. IndexTypes' /\ NotesFit' /\ ProbeIsMarked'
    BY <1>1, <1>2, <1>3, <1>4 DEF IndexInv, IndexTypes, NotesFit, ProbeIsMarked
  <1> QED
    BY <1>1, <1>3, <1>4, <1>5, Shrinks

\* A marker is released, the probe's or that of a writer that is over.
LEMMA UnmarkKeeps ==
    ASSUME IndexInv, NEW j \in Jobs, Unmark(j), UNCHANGED <<noted, up, work>>,
           \/ j \in Work /\ work[j] = "over" /\ change' = change
           \/ j \in Hosts /\ change[j] = "done" /\ change' = [change EXCEPT ![j] = "idle"]
    PROVE  IndexInv'
  <1>1. markers' = {m \in markers : m.job # j}
    BY DEF Unmark, MarkerOf
  <1>2. \A m \in markers \ markers' : Removable(m) \/ m.job \notin Work
    BY <1>1, LeaseAssumption DEF Removable
  <1>3. \A g \in Hosts : g # j => change'[g] = change[g]
    BY DEF IndexInv, IndexTypes
  <1>4. IndexTypes'
    BY <1>1 DEF IndexInv, IndexTypes
  <1>5. j \in Hosts => noted[j] = NoNote /\ change'[j] = "idle"
    BY LeaseAssumption DEF IndexInv, IndexTypes, NotesFit
  <1>6. NotesFit'
    BY <1>3, <1>5 DEF IndexInv, NotesFit
  <1>7. ProbeIsMarked'
    BY <1>1, <1>3, <1>5 DEF IndexInv, ProbeIsMarked, Probe
  <1> QED
    BY <1>1, <1>2, <1>4, <1>6, <1>7, Shrinks

\* A server dies: its synchronous writers are over.
LEMMA CrashKeeps ==
    ASSUME IndexInv, NEW h \in Hosts, ServerCrash(h)
    PROVE  IndexInv'
  <1>1. /\ up' = up \ {h} /\ markers' = markers /\ noted' = [noted EXCEPT ![h] = NoNote]
        /\ change' = [change EXCEPT ![h] = "idle"]
    BY DEF ServerCrash, IndexCrash
  <1>2. /\ noted' \in [Hosts -> Note]
        /\ \A g \in Hosts : noted'[g] = IF g = h THEN NoNote ELSE noted[g]
    BY <1>1, NoteDropped
  <1>3. /\ \A g \in Hosts : change'[g] = IF g = h THEN "idle" ELSE change[g]
        /\ change' \in [Hosts -> {"idle", "probing", "held", "done"}]
    BY <1>1 DEF IndexInv, IndexTypes
  <1>4. \A j \in Work : work'[j] = IF \E m \in markers : m.job = j /\ m.kind = "sync" /\ m.pid = h
                                   THEN "over" ELSE work[j]
    BY DEF ServerCrash, MarkerOf
  <1>5. work' \in [Work -> {"idle", "runs", "over"}]
    BY DEF ServerCrash, IndexInv, IndexTypes
  <1>6. IndexTypes' /\ NotesFit' /\ ProbeIsMarked' /\ ExclusiveIsAlone'
    BY <1>1, <1>2, <1>3, <1>5 DEF IndexInv, IndexTypes, NotesFit, ProbeIsMarked, ExclusiveIsAlone
  <1>7. RunsIsMarked'
    <2> SUFFICES ASSUME NEW j \in Work, work'[j] = "runs"
                 PROVE  \E m \in markers' : m.job = j /\ (m.kind = "opaque" \/ (m.kind = "sync" /\ m.pid \in up'))
      BY DEF RunsIsMarked
    <2>1. work[j] = "runs" /\ ~\E m \in markers : m.job = j /\ m.kind = "sync" /\ m.pid = h
      BY <1>4
    <2>2. PICK m \in markers : m.job = j /\ (m.kind = "opaque" \/ (m.kind = "sync" /\ m.pid \in up))
      BY <2>1 DEF IndexInv, RunsIsMarked
    <2>3. m.kind = "opaque" \/ (m.kind = "sync" /\ m.pid \in up')
      BY <1>1, <2>1, <2>2
    <2> QED
      BY <1>1, <2>2, <2>3
  <1>8. \A m \in Marker : Entered(m) => Entered(m)'
    BY <1>2, <1>4 DEF Entered, Marker
  <1>9. MarkersEntered'
    BY <1>1, <1>8 DEF IndexInv, IndexTypes, MarkersEntered
  <1>10. GoneIsOver'
    <2> SUFFICES ASSUME NEW g \in Hosts, NEW m \in noted'[g].gone
                 PROVE  m \in Marker /\ Entered(m)' /\ (m \in markers' => work'[m.job] = "over")
      BY DEF GoneIsOver
    <2>1. m \in noted[g].gone
      BY <1>2, NoNoteType
    <2> QED
      BY <1>1, <1>4, <1>8, <2>1 DEF IndexInv, GoneIsOver, Entered
  <1> QED
    BY <1>6, <1>7, <1>9, <1>10 DEF IndexInv

\* A managed writer ends.
LEMMA WorkEndsKeeps ==
    ASSUME IndexInv, NEW j \in Work, WorkEnds(j)
    PROVE  IndexInv'
  <1>1. /\ markers' = markers /\ noted' = noted /\ up' = up /\ change' = change
        /\ work[j] = "runs" /\ work' = [work EXCEPT ![j] = "over"]
    BY DEF WorkEnds, indexVars
  <1>2. \A i \in Work : work'[i] = IF i = j THEN "over" ELSE work[i]
    BY <1>1 DEF IndexInv, IndexTypes
  <1>3. IndexTypes' /\ NotesFit' /\ ExclusiveIsAlone' /\ ProbeIsMarked' /\ RunsIsMarked'
    BY <1>1, <1>2 DEF IndexInv, IndexTypes, NotesFit, ExclusiveIsAlone, ProbeIsMarked, RunsIsMarked
  <1>4. MarkersEntered' /\ GoneIsOver'
    BY <1>1, <1>2 DEF IndexInv, MarkersEntered, GoneIsOver, Entered
  <1> QED
    BY <1>3, <1>4 DEF IndexInv

\* A note is made: the probe's, or that of a writer not yet entered.
LEMMA AskKeeps ==
    ASSUME IndexInv, NEW h \in Hosts, NEW j \in Jobs, NEW k \in Kinds, Observe(h, j, k, WorkOver),
           change[h] = "idle", work' = work,
           \/ j = h /\ k = "probe" /\ change' = [change EXCEPT ![h] = "probing"]
           \/ j \in Work /\ work[j] = "idle" /\ k \in {"opaque", "sync"} /\ change' = change
    PROVE  IndexInv'
  <1>1. PICK seen \in SUBSET markers :
            noted' = [noted EXCEPT ![h] = [job |-> j, kind |-> k, gone |-> seen]]
    BY DEF Observe
  <1>2. markers' = markers /\ up' = up /\ noted \in [Hosts -> Note] /\ markers \subseteq Marker
    BY DEF Observe, IndexInv, IndexTypes
  <1>3. [job |-> j, kind |-> k, gone |-> seen] \in Note
    BY <1>2 DEF Note
  <1>4. /\ noted' \in [Hosts -> Note]
        /\ \A g \in Hosts : noted'[g] = IF g = h THEN [job |-> j, kind |-> k, gone |-> seen] ELSE noted[g]
    BY <1>1, <1>2, <1>3
  <1>5. /\ \A g \in Hosts : g # h => change'[g] = change[g]
        /\ change'[h] = IF j \in Work THEN "idle" ELSE "probing"
        /\ change' \in [Hosts -> {"idle", "probing", "held", "done"}]
    BY LeaseAssumption DEF IndexInv, IndexTypes
  <1>6. IndexTypes' /\ NotesFit' /\ ProbeIsMarked'
    BY <1>2, <1>4, <1>5, LeaseAssumption DEF IndexInv, IndexTypes, NotesFit, ProbeIsMarked
  <1>7. j \in Work => work[j] = "idle"
    BY LeaseAssumption
  <1> QED
    BY <1>6, <1>7, ObserveKeeps

\* The transaction under the probe.
LEMMA DecidedKeeps ==
    ASSUME IndexInv, NEW h \in Hosts, Decided(h)
    PROVE  IndexInv'
  <1>1. /\ UNCHANGED <<markers, noted, up, work>> /\ change[h] = "held"
        /\ change' = [change EXCEPT ![h] = "done"]
    BY DEF Decided, indexVars
  <1>2. /\ \A g \in Hosts : change'[g] = IF g = h THEN "done" ELSE change[g]
        /\ change' \in [Hosts -> {"idle", "probing", "held", "done"}]
    BY <1>1 DEF IndexInv, IndexTypes
  <1>3. IndexTypes' /\ NotesFit' /\ ProbeIsMarked'
    BY <1>1, <1>2 DEF IndexInv, IndexTypes, NotesFit, ProbeIsMarked
  <1> QED
    BY <1>1, <1>3, Shrinks

LEMMA IndexInvNext ==
    ASSUME IndexInv, [WriterNext]_wlVars
    PROVE  IndexInv'
  <1>1. CASE CallStep \/ Tick \/ UNCHANGED wlVars
    BY <1>1, IndexRests DEF CallStep, Begin, Heartbeat, End, EndFails, Renew, Tick, wlVars, indexVars,
                            leaseVars, IndexInv, IndexTypes
  <1>2. CASE WorkStep
    <2>1. ASSUME NEW h \in Hosts, NEW j \in Work, NEW k \in {"opaque", "sync"}, WorkAsk(h, j, k)
          PROVE  IndexInv'
      BY <2>1, AskKeeps, LeaseAssumption DEF WorkAsk, leaseVars, Kinds
    <2>2. ASSUME NEW h \in Hosts, WorkRefused(h) PROVE IndexInv'
      <3>1. change[h] = "idle" /\ change' = change /\ change \in [Hosts -> {"idle", "probing", "held", "done"}]
        BY <2>2, LeaseAssumption DEF WorkRefused, Refuse, leaseVars, IndexInv, IndexTypes, NotesFit
      <3> QED
        BY <2>2, <3>1, RefuseKeeps DEF WorkRefused, leaseVars
    <2>3. ASSUME NEW j \in Work, WorkReleased(j) PROVE IndexInv'
      BY <2>3, UnmarkKeeps, LeaseAssumption DEF WorkReleased, leaseVars
    <2> QED
      BY <1>2, <2>1, <2>2, <2>3, WorkEnterKeeps, WorkEndsKeeps DEF WorkStep
  <1>3. ASSUME NEW h \in Hosts, ChangeStep(h) PROVE IndexInv'
    <2>1. CASE ProbeAsk(h)
      BY <2>1, AskKeeps, LeaseAssumption DEF ProbeAsk, Kinds
    <2>2. CASE ProbeRefused(h)
      BY <2>2, RefuseKeeps DEF ProbeRefused
    <2>3. CASE ProbeDropped(h)
      BY <2>3, UnmarkKeeps, LeaseAssumption DEF ProbeDropped
    <2> QED
      BY <1>3, <2>1, <2>2, <2>3, ProbeHeldKeeps, DecidedKeeps
         DEF ChangeStep, Acquire, Release, Revoke, NoLeaseChange
  <1>4. ASSUME NEW h \in Hosts, ServerRestart(h) PROVE IndexInv'
    BY <1>4, IndexRests DEF ServerRestart, IndexRestart, leaseVars, IndexInv, IndexTypes
  <1> QED
    BY <1>1, <1>2, <1>3, <1>4, CrashKeeps DEF WriterNext

\* The lease changes hands only while no managed writer runs: who changes it
\* holds the probe, the probe is the only marker, and a writer that runs has
\* one (holdExclusiveProbe, reserve).
THEOREM LeaseChangesAlone == WriterSpec => ChangesAlone
  <1>1. WriterInit => CallInv /\ IndexInv
    BY CallInvInit, IndexInvInit
  <1>2. CallInv /\ IndexInv /\ [WriterNext]_wlVars => (CallInv /\ IndexInv)'
    BY CallInvNext, IndexInvNext
  <1>3. CallInv /\ IndexInv /\ [WriterNext]_wlVars
            => [row'.gen # row.gen \/ row'.held # row.held => \A j \in Work : work[j] # "runs"]_wlVars
    <2> SUFFICES ASSUME CallInv, IndexInv, WriterNext, row'.gen # row.gen \/ row'.held # row.held,
                        NEW j \in Work, work[j] = "runs"
                 PROVE  FALSE
      OBVIOUS
    <2>1. row \in Rows
      BY DEF CallInv
    <2>2. PICK h \in Hosts : Decided(h)
      <3>1. ~CallStep
        BY <2>1 DEF CallStep, Begin, Heartbeat, End, EndFails, Renew, Rows
      <3>2. ~WorkStep /\ ~Tick
        BY DEF WorkStep, WorkAsk, WorkEnter, WorkRefused, WorkEnds, WorkReleased, Tick, leaseVars
      <3>3. PICK h \in Hosts : ChangeStep(h)
        BY <3>1, <3>2 DEF WriterNext, ServerCrash, ServerRestart, leaseVars
      <3> QED
        BY <3>3 DEF ChangeStep, ProbeAsk, ProbeHeld, ProbeRefused, ProbeDropped, Acquire, Release,
                    Revoke, NoLeaseChange
    <2>3. Probe(h) \in markers
      BY <2>2 DEF Decided, IndexInv, ProbeIsMarked
    <2>4. \A m \in markers : m = Probe(h)
      BY <2>3 DEF IndexInv, ExclusiveIsAlone, Exclusive, Probe
    <2> QED
      BY <2>4, LeaseAssumption DEF IndexInv, RunsIsMarked, Probe
  <1> QED
    BY <1>1, <1>2, <1>3, PTL DEF WriterSpec, ChangesAlone

-----------------------------------------------------------------------------
(* Durable shell tasks, each launched by one host.                         *)

\* No task id is asked of two hosts.
OneLauncher == \A t \in Tasks : \A h, i \in LaunchedBy[t] : h = i

TaskKinds == {"opaque", "import"}
TaskNote == [job : Jobs \cup {"none"}, kind : TaskKinds, gone : SUBSET Marker]
Launch == [task : Tasks \cup {"none"}, at : {"idle", "checked", "reserved", "written"}]
View == [task : Tasks \cup {"none"}, meta : Meta]

ShellTypes ==
    /\ markers \subseteq {m \in Marker : m.kind \in TaskKinds}
    /\ noted \in [Hosts -> TaskNote]
    /\ meta \in [Tasks -> Meta] /\ spec \in [Tasks -> BOOLEAN] /\ cancel \in [Tasks -> BOOLEAN]
    /\ worker \in [Tasks -> {"none", "boot", "spawned", "watch", "exited", "dead"}]
    /\ group \in [Tasks -> {"none", "root", "orphans", "ok", "bad"}]
    /\ target \in [Tasks -> {"none", "cancelled", "timed_out"}]
    /\ launch \in [Hosts -> Launch] /\ view \in [Hosts -> View]

Launching(h, t) == launch[h].task = t /\ launch[h].at # "idle"

\* The command may run now or later.
MayRun(t) == worker[t] \in {"boot", "spawned"} \/ Working(t)

\* The command does not run, and nothing is left that could start it.
Spent(t) ==
    /\ meta[t].state # "none"
    /\ ~MayRun(t)
    /\ \A h \in Hosts : ~Launching(h, t)

\* Two markers have different jobs, and neither is exclusive.
MarkersFit ==
    \A m, n \in markers : m # n => m.job # n.job /\ ~Exclusive(m.kind)

\* A launch in flight is its task's only one and comes before the worker.
LaunchFit(h) ==
    /\ launch[h].at # "idle" =>
         /\ launch[h].task \in Tasks /\ h \in LaunchedBy[launch[h].task]
         /\ worker[launch[h].task] = "none"
         /\ ~meta[launch[h].task].child /\ ~meta[launch[h].task].unlaunched
    /\ launch[h].at \in {"checked", "reserved"} => meta[launch[h].task].state = "none"
    /\ launch[h].at = "written" => meta[launch[h].task].state \notin Terminal \cup {"none"}
    /\ launch[h].at \in {"reserved", "written"} => Reserved(launch[h].task)

LaunchFits == \A h \in Hosts : LaunchFit(h)

\* What an observation found over stays so.
NoteFits ==
    \A h \in Hosts :
        /\ noted[h] # NoNote => launch[h].at = "checked" /\ noted[h].job = launch[h].task
        /\ \A m \in noted[h].gone : m.job \in Tasks /\ Spent(m.job)

\* A recorded child, also in a record that was read earlier, is one that the
\* worker has spawned; a record that says unlaunched is right.
RecordFits(t) ==
    /\ worker[t] \in {"none", "boot"} => group[t] = "none"
    /\ meta[t].state = "none" => worker[t] = "none" /\ ~meta[t].child /\ ~meta[t].unlaunched
    /\ meta[t].child => worker[t] \notin {"none", "boot", "spawned"}
    /\ meta[t].unlaunched /\ ~meta[t].child => Spent(t)
    /\ meta[t].state \in Terminal /\ GroupIsEmpty(t, meta[t]) => Spent(t)

ViewFits(h) ==
    /\ view[h].task \in Tasks /\ view[h].meta.state \notin Terminal \cup {"none"}
    /\ meta[view[h].task].state # "none"
    /\ view[h].meta.child => worker[view[h].task] \notin {"none", "boot", "spawned"}

RecordsFit ==
    /\ \A t \in Tasks : RecordFits(t)
    /\ \A h \in Hosts : view[h] # NoView => ViewFits(h)

\* Whatever may run is reserved.
MayRunIsReserved == \A t \in Tasks : MayRun(t) => Reserved(t)

ShellInv == ShellTypes /\ MarkersFit /\ LaunchFits /\ NoteFits /\ RecordsFit /\ MayRunIsReserved
LEMMA NotesAndViews ==
    /\ NoNote \in TaskNote /\ NoNote.gone = {}
    /\ NoMeta \in Meta /\ NoMeta.state = "none" /\ ~NoMeta.child /\ ~NoMeta.unlaunched
    /\ NoLaunch \in Launch /\ NoLaunch.at = "idle"
    /\ NoView \in View
  BY DEF NoNote, TaskNote, TaskKinds, NoMeta, Meta, States, NoLaunch, Launch, NoView, View

LEMMA ShellInvInit ==
    ASSUME ShellInit
    PROVE  ShellInv
  <1> USE NotesAndViews DEF ShellInit, IndexInit
  <1>1. ShellTypes
    BY DEF ShellTypes
  <1>2. MarkersFit /\ LaunchFits /\ NoteFits
    BY DEF MarkersFit, LaunchFits, LaunchFit, NoteFits
  <1>3. RecordsFit /\ MayRunIsReserved
    BY DEF RecordsFit, RecordFits, ViewFits, MayRunIsReserved, MayRun, Working, GroupIsEmpty, Terminal
  <1> QED
    BY <1>1, <1>2, <1>3 DEF ShellInv

\* A step of one task that is past its launch.
TaskMoves(t) ==
    /\ UNCHANGED <<markers, noted, launch>>
    /\ \A u \in Tasks \ {t} : meta'[u] = meta[u] /\ worker'[u] = worker[u] /\ group'[u] = group[u]
    /\ \A h \in Hosts : view'[h] \in {view[h], NoView}
    /\ \A h \in Hosts : ~Launching(h, t)
    /\ meta[t].state # "none" /\ meta'[t].state # "none"
    /\ MayRun(t)' => MayRun(t)
    /\ worker'[t] = "boot" => group'[t] = "none"
    /\ worker'[t] = "none" => worker[t] = "none" /\ group'[t] = group[t]
    /\ worker[t] \notin {"none", "boot", "spawned"} => worker'[t] \notin {"none", "boot", "spawned"}
    /\ meta'[t].child => worker'[t] \notin {"none", "boot", "spawned"}
    /\ meta'[t].unlaunched /\ ~meta'[t].child => ~MayRun(t)'
    /\ meta'[t].state \in Terminal /\ GroupIsEmpty(t, meta[t])' => ~MayRun(t)'

LEMMA TaskMovesKeeps ==
    ASSUME ShellInv, NEW t \in Tasks, TaskMoves(t), ShellTypes'
    PROVE  ShellInv'
  <1> USE DEF TaskMoves
  <1>1. /\ MarkersFit /\ LaunchFits /\ NoteFits /\ RecordsFit /\ MayRunIsReserved
        /\ \A j : Reserved(j)' = Reserved(j)
        /\ \A h \in Hosts, u \in Tasks : Launching(h, u)' = Launching(h, u)
    BY DEF ShellInv, Reserved, MarkerOf, Launching
  <1>2. \A u \in Tasks \ {t} : /\ MayRun(u)' = MayRun(u) /\ Spent(u)' = Spent(u)
                               /\ GroupIsEmpty(u, meta[u])' = GroupIsEmpty(u, meta[u])
    BY <1>1 DEF MayRun, Working, Spent, GroupIsEmpty
  <1>3. Spent(t)' = ~MayRun(t)' /\ (Spent(t) => Spent(t)')
    BY <1>1 DEF Spent
  <1>4. MarkersFit'
    BY <1>1 DEF MarkersFit
  <1>5. LaunchFits'
    BY <1>1 DEF LaunchFits, LaunchFit, Launching
  <1>6. NoteFits'
    BY <1>1, <1>2, <1>3 DEF NoteFits
  <1>7. RecordsFit'
    <2>1. ASSUME NEW u \in Tasks PROVE RecordFits(u)'
      <3>1. CASE u = t
        BY <1>1, <1>3, <3>1 DEF RecordsFit, RecordFits
      <3>2. CASE u # t
        BY <1>1, <1>2, <3>2 DEF RecordsFit, RecordFits
      <3> QED
        BY <3>1, <3>2
    <2>2. ASSUME NEW h \in Hosts, view'[h] # NoView PROVE ViewFits(h)'
      <3>1. view'[h] = view[h]
        BY <2>2
      <3> QED
        BY <1>1, <2>2, <3>1 DEF RecordsFit, ViewFits
    <2> QED
      BY <2>1, <2>2 DEF RecordsFit
  <1>8. MayRunIsReserved'
    BY <1>1, <1>2 DEF MayRunIsReserved
  <1> QED
    BY <1>4, <1>5, <1>6, <1>7, <1>8 DEF ShellInv

\* A task whose worker was started is past its launch.
LEMMA PastLaunch ==
    ASSUME ShellInv, NEW t \in Tasks, worker[t] # "none"
    PROVE  meta[t].state # "none" /\ \A h \in Hosts : ~Launching(h, t)
  BY DEF ShellInv, RecordsFit, RecordFits, LaunchFits, LaunchFit, Launching

LEMMA WorkerKeeps ==
    ASSUME ShellInv, NEW t \in Tasks,
           WorkerStep(t) \/ CommandExits(t) \/ GroupEnds(t) \/ WorkerDies(t)
    PROVE  ShellInv'
  <1> USE DEF indexVars, hostVars
  <1>t. ShellTypes /\ RecordFits(t) /\ meta[t] \in Meta
    BY DEF ShellInv, ShellTypes, RecordsFit
  <1>w. worker[t] # "none"
    BY <1>t DEF WorkerStep, WorkerSpawn, WorkerPersist, WorkerCannotSpawn, WorkerStop, WorkerKill, WorkerFinish,
              WorkerUnverified, CommandExits, GroupEnds, WorkerDies, WorkerLive, Working, RecordFits
  <1>p. meta[t].state # "none" /\ \A h \in Hosts : ~Launching(h, t)
    BY <1>w, PastLaunch
  <1>r. /\ worker[t] = "boot" => group[t] = "none"
        /\ meta[t].child => worker[t] \notin {"none", "boot", "spawned"}
        /\ meta[t].unlaunched /\ ~meta[t].child => ~MayRun(t)
        /\ meta[t].state \in Terminal /\ GroupIsEmpty(t, meta[t]) => ~MayRun(t)
    BY <1>t DEF RecordFits, Spent
  <1>1. CASE WorkerSpawn(t)
    <2>1. TaskMoves(t)
      BY <1>1, <1>t, <1>p, <1>r DEF WorkerSpawn, TaskMoves, MayRun, Working, GroupIsEmpty, ShellTypes
    <2>2. ShellTypes'
      BY <1>1, <1>t DEF WorkerSpawn, ShellTypes
    <2> QED
      BY <2>1, <2>2, TaskMovesKeeps
  <1>2. CASE WorkerPersist(t)
    <2>0. meta'[t] \in Meta
      BY <1>2, <1>t DEF WorkerPersist, Meta, States, Terminal, ShellTypes
    <2>1. TaskMoves(t)
      BY <1>2, <1>t, <1>p, <1>r DEF WorkerPersist, TaskMoves, MayRun, Working, GroupIsEmpty, ShellTypes, Terminal
    <2>2. ShellTypes'
      BY <2>0, <1>2, <1>t DEF WorkerPersist, ShellTypes
    <2> QED
      BY <2>1, <2>2, TaskMovesKeeps
  <1>3. CASE WorkerCannotSpawn(t)
    <2>0. meta'[t] \in Meta
      BY <1>3, <1>t DEF WorkerCannotSpawn, Meta, States, Terminal, ShellTypes
    <2>1. TaskMoves(t)
      BY <1>3, <1>t, <1>p, <1>r DEF WorkerCannotSpawn, TaskMoves, MayRun, Working, GroupIsEmpty, ShellTypes, Terminal
    <2>2. ShellTypes'
      BY <2>0, <1>3, <1>t DEF WorkerCannotSpawn, ShellTypes
    <2> QED
      BY <2>1, <2>2, TaskMovesKeeps
  <1>4. CASE WorkerKill(t)
    <2>1. TaskMoves(t)
      BY <1>4, <1>t, <1>p, <1>r DEF WorkerKill, TaskMoves, MayRun, Working, GroupIsEmpty, ShellTypes, Terminal
    <2>2. ShellTypes'
      BY <1>4, <1>t DEF WorkerKill, ShellTypes
    <2> QED
      BY <2>1, <2>2, TaskMovesKeeps
  <1>5. CASE WorkerFinish(t)
    <2>0. meta'[t] \in Meta
      BY <1>5, <1>t DEF WorkerFinish, Outcome, GroupOver, Meta, States, Terminal, ShellTypes
    <2>1. TaskMoves(t)
      BY <1>5, <1>t, <1>p, <1>r DEF WorkerFinish, Outcome, GroupOver, TaskMoves, MayRun, Working, GroupIsEmpty, ShellTypes, Terminal
    <2>2. ShellTypes'
      BY <2>0, <1>5, <1>t DEF WorkerFinish, ShellTypes
    <2> QED
      BY <2>1, <2>2, TaskMovesKeeps
  <1>6. CASE WorkerUnverified(t)
    <2>0. meta'[t] \in Meta
      BY <1>6, <1>t DEF WorkerUnverified, Meta, States, Terminal, ShellTypes
    <2>1. TaskMoves(t)
      BY <1>6, <1>t, <1>p, <1>r DEF WorkerUnverified, TaskMoves, MayRun, Working, GroupIsEmpty, ShellTypes, Terminal
    <2>2. ShellTypes'
      BY <2>0, <1>6, <1>t DEF WorkerUnverified, ShellTypes
    <2> QED
      BY <2>1, <2>2, TaskMovesKeeps
  <1>7. CASE CommandExits(t)
    <2>1. TaskMoves(t)
      BY <1>7, <1>t, <1>w, <1>p, <1>r DEF CommandExits, TaskMoves, MayRun, Working, GroupIsEmpty, ShellTypes, Terminal
    <2>2. ShellTypes'
      BY <1>7, <1>t DEF CommandExits, ShellTypes
    <2> QED
      BY <2>1, <2>2, TaskMovesKeeps
  <1>8. CASE GroupEnds(t)
    <2>1. TaskMoves(t)
      BY <1>8, <1>t, <1>w, <1>p, <1>r DEF GroupEnds, TaskMoves, MayRun, Working, GroupIsEmpty, ShellTypes, Terminal
    <2>2. ShellTypes'
      BY <1>8, <1>t DEF GroupEnds, ShellTypes
    <2> QED
      BY <2>1, <2>2, TaskMovesKeeps
  <1>9. CASE WorkerDies(t)
    <2>1. TaskMoves(t)
      BY <1>9, <1>t, <1>p, <1>r DEF WorkerDies, TaskMoves, MayRun, Working, GroupIsEmpty, ShellTypes, Terminal, WorkerLive
    <2>2. ShellTypes'
      BY <1>9, <1>t DEF WorkerDies, ShellTypes
    <2> QED
      BY <2>1, <2>2, TaskMovesKeeps
  <1>10. ASSUME NEW why \in {"cancelled", "timed_out"}, WorkerStop(t, why) PROVE ShellInv'
    <2>0. meta'[t] \in Meta
      BY <1>10, <1>t DEF WorkerStop, Meta, States, Terminal, ShellTypes
    <2>1. TaskMoves(t)
      BY <1>10, <1>t, <1>p, <1>r DEF WorkerStop, TaskMoves, MayRun, Working, GroupIsEmpty, ShellTypes, Terminal
    <2>2. ShellTypes'
      BY <2>0, <1>10, <1>t DEF WorkerStop, ShellTypes
    <2> QED
      BY <2>1, <2>2, TaskMovesKeeps
  <1> QED
    BY <1>1, <1>2, <1>3, <1>4, <1>5, <1>6, <1>7, <1>8, <1>9, <1>10 DEF WorkerStep

LEMMA ReconcileKeeps ==
    ASSUME ShellInv, NEW h \in Hosts, NEW t \in Tasks, Reconcile(h, t)
    PROVE  ShellInv'
  <1> USE DEF indexVars, hostVars
  <1>t. ShellTypes /\ RecordFits(t) /\ meta[t] \in Meta
    BY DEF ShellInv, ShellTypes, RecordsFit
  <1>1. \A i \in Hosts : ~Launching(i, t)
    BY <1>t, PastLaunch DEF Reconcile, GroupIsEmpty, RecordFits, Spent
  <1>2. meta'[t] \in Meta /\ meta'[t].state # "none" /\ meta'[t].child = meta[t].child
        /\ meta'[t].unlaunched = meta[t].unlaunched
    BY <1>t DEF Reconcile, ShellTypes, Meta, States, Terminal
  <1>3. TaskMoves(t)
    BY <1>t, <1>1, <1>2 DEF Reconcile, TaskMoves, MayRun, Working, WorkerLive, GroupIsEmpty, ShellTypes, RecordFits, Spent
  <1>4. ShellTypes'
    BY <1>t, <1>2 DEF Reconcile, ShellTypes
  <1> QED
    BY <1>3, <1>4, TaskMovesKeeps

LEMMA CancelActKeeps ==
    ASSUME ShellInv, NEW h \in Hosts, CancelAct(h)
    PROVE  ShellInv'
  <1> USE DEF indexVars
  <1>0. ShellTypes /\ ViewFits(h) /\ view[h].task \in Tasks /\ view[h].meta \in Meta
    BY DEF CancelAct, ShellInv, ShellTypes, RecordsFit, ViewFits, View
  <1>a. PICK t \in Tasks, m \in Meta : t = view[h].task /\ m = view[h].meta
    BY <1>0
  <1>t. ShellTypes /\ RecordFits(t) /\ ViewFits(h)
    BY <1>0 DEF ShellInv, RecordsFit
  <1>v. /\ view' = [view EXCEPT ![h] = NoView] /\ view' \in [Hosts -> View]
        /\ \A i \in Hosts : view'[i] \in {view[i], NoView}
    BY <1>t, NotesAndViews DEF CancelAct, ShellTypes
  <1>1. CASE WorkerLive(t) \/ ~m.child
    <2>1. UNCHANGED <<markers, noted, up, meta, group, worker, spec, launch, target>> /\ ShellTypes'
      BY <1>a, <1>1, <1>t, <1>v DEF CancelAct, ShellTypes
    <2> QED
      BY <2>1, <1>v DEF ShellInv, MarkersFit, LaunchFits, LaunchFit, NoteFits, RecordsFit, RecordFits, ViewFits, MayRunIsReserved,
         MayRun, Working, Spent, Launching, GroupIsEmpty, Reserved, MarkerOf
  <1>2. CASE ~WorkerLive(t) /\ m.child
    <2>1. /\ meta' = [meta EXCEPT ![t] = [m EXCEPT !.stop = "cancelled"]]
          /\ group' \in {group, [group EXCEPT ![t] = IF Working(t) THEN "bad" ELSE @]}
      BY <1>a, <1>2 DEF CancelAct
    <2>2. /\ meta'[t] \in Meta /\ meta'[t].state = m.state /\ meta'[t].child
          /\ worker[t] \notin {"none", "boot", "spawned"}
      BY <1>a, <1>2, <1>t, <2>1 DEF ShellTypes, Meta, ViewFits
    <2>3. meta[t].state # "none" /\ \A i \in Hosts : ~Launching(i, t)
      BY <1>t, <2>2, PastLaunch
    <2>4. TaskMoves(t)
      <3>1. /\ UNCHANGED <<markers, noted, launch, worker>> /\ m.state \notin Terminal \cup {"none"}
            /\ \A u \in Tasks \ {t} : meta'[u] = meta[u] /\ group'[u] = group[u]
        BY <1>a, <1>t, <2>1 DEF CancelAct, ShellTypes, ViewFits
      <3>2. MayRun(t)' => MayRun(t)
        BY <1>t, <2>1, <2>2, <3>1 DEF MayRun, Working, ShellTypes
      <3> QED
        BY <1>v, <2>2, <2>3, <3>1, <3>2 DEF TaskMoves
    <2>5. ShellTypes'
      <3>1. group' \in [Tasks -> {"none", "root", "orphans", "ok", "bad"}]
        BY <1>t, <2>1 DEF ShellTypes
      <3> QED
        BY <1>t, <1>v, <2>1, <2>2, <3>1 DEF CancelAct, ShellTypes
    <2> QED
      BY <1>t, <2>4, <2>5, TaskMovesKeeps
  <1> QED
    BY <1>1, <1>2

LEMMA CancelReadKeeps ==
    ASSUME ShellInv, NEW h \in Hosts, NEW t \in Tasks, CancelRead(h, t)
    PROVE  ShellInv'
  <1> USE DEF indexVars, taskVars
  <1>1. /\ UNCHANGED <<markers, noted, up, meta, group, worker, launch>>
        /\ meta[t] \in Meta /\ RecordFits(t) /\ meta[t].state \notin Terminal \cup {"none"}
    BY DEF CancelRead, ShellInv, ShellTypes, RecordsFit, Terminal
  <1>2. /\ view'[h].task = t /\ view'[h].meta = meta[t] /\ \A i \in Hosts \ {h} : view'[i] = view[i]
        /\ ShellTypes'
    BY <1>1 DEF CancelRead, ShellInv, ShellTypes, View
  <1>3. RecordsFit'
    <2>1. ViewFits(h)'
      BY <1>1, <1>2 DEF RecordFits, ViewFits
    <2> QED
      BY <2>1, <1>1, <1>2 DEF ShellInv, RecordsFit, RecordFits, ViewFits, Spent, MayRun, Working, Launching, GroupIsEmpty
  <1> QED
    BY <1>1, <1>2, <1>3 DEF ShellInv, MarkersFit, LaunchFits, LaunchFit, NoteFits, MayRunIsReserved,
       MayRun, Working, Spent, Launching, Reserved, MarkerOf

\* Markers of spent tasks and what hosts remember may vanish.
Forgets ==
    /\ UNCHANGED taskVars
    /\ markers' \subseteq markers
    /\ \A m \in markers \ markers' : m.job \in Tasks => Spent(m.job)
    /\ noted' \in [Hosts -> TaskNote] /\ launch' \in [Hosts -> Launch] /\ view' \in [Hosts -> View]
    /\ \A h \in Hosts :
        /\ noted'[h] \in {noted[h], NoNote} /\ launch'[h] \in {launch[h], NoLaunch} /\ view'[h] \in {view[h], NoView}
        /\ launch'[h] # launch[h] => noted'[h] = NoNote

LEMMA ForgetsKeeps ==
    ASSUME ShellInv, Forgets
    PROVE  ShellInv'
  <1> USE NotesAndViews DEF Forgets, taskVars
  <1>1. /\ ShellTypes /\ MarkersFit /\ LaunchFits /\ NoteFits /\ RecordsFit /\ MayRunIsReserved
        /\ UNCHANGED <<meta, spec, worker, group, target, cancel>>
    BY DEF ShellInv
  <1>2. \A t \in Tasks : /\ MayRun(t)' = MayRun(t) /\ (Spent(t) => Spent(t)')
                         /\ GroupIsEmpty(t, meta[t])' = GroupIsEmpty(t, meta[t])
    BY <1>1 DEF MayRun, Working, Spent, Launching, GroupIsEmpty
  <1>3. \A t \in Tasks : Reserved(t) /\ ~Spent(t) => Reserved(t)'
    BY DEF Reserved, MarkerOf
  <1>4. ShellTypes'
    BY <1>1 DEF ShellTypes
  <1>5. MarkersFit'
    BY <1>1 DEF MarkersFit
  <1>6. LaunchFits'
    <2> SUFFICES ASSUME NEW h \in Hosts, launch'[h].at # "idle" PROVE LaunchFit(h)'
      BY DEF LaunchFits, LaunchFit
    <2>1. launch'[h] = launch[h]
      OBVIOUS
    <2>2. ~Spent(launch[h].task)
      BY <2>1 DEF Spent, Launching
    <2> QED
      BY <1>1, <1>3, <2>1, <2>2 DEF LaunchFits, LaunchFit
  <1>7. NoteFits'
    <2> SUFFICES ASSUME NEW h \in Hosts
                 PROVE  (/\ noted[h] # NoNote => launch[h].at = "checked" /\ noted[h].job = launch[h].task
                         /\ \A m \in noted[h].gone : m.job \in Tasks /\ Spent(m.job))'
      BY DEF NoteFits
    <2>1. CASE noted'[h] = NoNote
      BY <2>1
    <2>2. CASE noted'[h] # NoNote
      BY <1>1, <1>2, <2>2 DEF NoteFits
    <2> QED
      BY <2>1, <2>2
  <1>8. RecordsFit'
    BY <1>1, <1>2 DEF RecordsFit, RecordFits, ViewFits
  <1>9. MayRunIsReserved'
    BY <1>1, <1>2, <1>3 DEF MayRunIsReserved, Spent
  <1> QED
    BY <1>4, <1>5, <1>6, <1>7, <1>8, <1>9 DEF ShellInv

\* What a reservation may remove is spent.
LEMMA RemovedIsSpent ==
    ASSUME ShellInv, NEW h \in Hosts, NEW m \in ReclaimSync \cup noted[h].gone
    PROVE  m.job \in Tasks /\ Spent(m.job)
  BY DEF ShellInv, ShellTypes, NoteFits, ReclaimSync, TaskKinds

LEMMA OverIsSpent ==
    ASSUME ShellInv, NEW t \in Over
    PROVE  t \in Tasks /\ Spent(t)
  BY DEF ShellInv, RecordsFit, RecordFits, Over

LEMMA HostsForget ==
    ASSUME ShellInv, NEW h \in Hosts,
           \/ LaunchRefused(h) \/ HostCrash(h) \/ HostRestart(h)
           \/ \E t \in Tasks : ReleaseTerminal(h, t)
    PROVE  ShellInv'
  <1> USE NotesAndViews DEF indexVars, taskVars, hostVars
  <1>1. noted \in [Hosts -> TaskNote] /\ launch \in [Hosts -> Launch] /\ view \in [Hosts -> View]
    BY DEF ShellInv, ShellTypes
  <1>2. CASE LaunchRefused(h)
    BY <1>1, <1>2, RemovedIsSpent, ForgetsKeeps DEF LaunchRefused, Refuse, Forgets
  <1>3. CASE HostCrash(h)
    BY <1>1, <1>3, ForgetsKeeps DEF HostCrash, IndexCrash, Forgets
  <1>4. CASE HostRestart(h)
    BY <1>1, <1>4, ForgetsKeeps DEF HostRestart, IndexRestart, Forgets
  <1>5. ASSUME NEW t \in Tasks, ReleaseTerminal(h, t) PROVE ShellInv'
    BY <1>1, <1>5, OverIsSpent, ForgetsKeeps DEF ReleaseTerminal, Unmark, MarkerOf, Forgets
  <1> QED
    BY <1>2, <1>3, <1>4, <1>5

LEMMA LaunchCheckKeeps ==
    ASSUME ShellInv, NEW h \in Hosts, NEW t \in Tasks, NEW k \in TaskKinds, LaunchCheck(h, t, k)
    PROVE  ShellInv'
  <1> USE DEF taskVars
  <1>1. /\ ShellTypes /\ MarkersFit /\ LaunchFits /\ NoteFits /\ RecordsFit /\ MayRunIsReserved /\ RecordFits(t)
        /\ UNCHANGED <<markers, meta, spec, worker, group, target, cancel, view>>
        /\ h \in LaunchedBy[t] /\ meta[t].state = "none" /\ launch[h] = NoLaunch /\ t \in Jobs
    BY TasksAssumption DEF ShellInv, LaunchCheck, Observe, RecordsFit
  <1>2. PICK seen \in SUBSET {m \in markers : m.job # t /\ m.job \in Over /\ m.kind \in TaskKinds} :
             noted' = [noted EXCEPT ![h] = [job |-> t, kind |-> k, gone |-> seen]]
    BY DEF LaunchCheck, Observe, TaskKinds
  <1>3. launch' = [launch EXCEPT ![h] = [task |-> t, at |-> "checked"]]
    BY DEF LaunchCheck
  <1>4. ShellTypes'
    BY <1>1, <1>2, <1>3 DEF ShellTypes, TaskNote, Launch
  <1>5. \A u \in Tasks : /\ MayRun(u)' = MayRun(u) /\ (Spent(u) => Spent(u)') /\ Reserved(u)' = Reserved(u)
                         /\ GroupIsEmpty(u, meta[u])' = GroupIsEmpty(u, meta[u])
    BY <1>1, <1>3 DEF ShellTypes, MayRun, Working, Spent, Launching, Reserved, MarkerOf, GroupIsEmpty
  <1>6. MarkersFit' /\ MayRunIsReserved'
    BY <1>1, <1>5 DEF MarkersFit, MayRunIsReserved
  <1>7. LaunchFits'
    BY <1>1, <1>3, <1>5 DEF LaunchFits, LaunchFit, RecordFits, ShellTypes
  <1>8. NoteFits'
    BY <1>1, <1>2, <1>3, <1>5, OverIsSpent DEF NoteFits, ShellTypes
  <1>9. RecordsFit'
    BY <1>1, <1>5 DEF RecordsFit, RecordFits, ViewFits
  <1> QED
    BY <1>4, <1>6, <1>7, <1>8, <1>9 DEF ShellInv

LEMMA LaunchReserveKeeps ==
    ASSUME ShellInv, NEW h \in Hosts, LaunchReserve(h)
    PROVE  ShellInv'
  <1> USE DEF taskVars
  <1>1. /\ ShellTypes /\ MarkersFit /\ LaunchFits /\ NoteFits /\ RecordsFit /\ MayRunIsReserved
        /\ UNCHANGED <<meta, spec, worker, group, target, cancel, view>>
        /\ noted[h] # NoNote /\ Admits(noted[h]) /\ launch[h].at = "checked"
    BY DEF ShellInv, LaunchReserve, Reserve
  <1>2. PICK t \in Tasks, k \in TaskKinds : t = launch[h].task /\ t = noted[h].job /\ k = noted[h].kind /\ t \in Jobs
    BY <1>1, TasksAssumption DEF LaunchFits, LaunchFit, NoteFits, ShellTypes, TaskNote
  <1> DEFINE new == [job |-> t, kind |-> k, pid |-> h]
  <1>3. /\ markers' = Remaining(noted[h]) \cup {new}
        /\ noted' = [noted EXCEPT ![h] = NoNote]
        /\ launch' = [launch EXCEPT ![h].at = "reserved"]
    BY <1>2 DEF LaunchReserve, Reserve
  <1>4. new \in Marker /\ new.job = t /\ new.kind = k /\ Remaining(noted[h]) \subseteq markers
    BY <1>2, <1>1 DEF Marker, TaskKinds, Kinds, Remaining
  <1> HIDE DEF new
  <1>5. /\ launch'[h].at = "reserved" /\ launch'[h].task = t /\ launch' \in [Hosts -> Launch]
        /\ \A i \in Hosts \ {h} : launch'[i] = launch[i]
    BY <1>1, <1>2, <1>3 DEF ShellTypes, Launch
  <1>6. ShellTypes'
    BY <1>1, <1>2, <1>3, <1>4, <1>5, NotesAndViews DEF ShellTypes
  <1>7. \A u \in Tasks : /\ MayRun(u)' = MayRun(u) /\ (Spent(u) => Spent(u)')
                         /\ GroupIsEmpty(u, meta[u])' = GroupIsEmpty(u, meta[u])
    BY <1>1, <1>2, <1>5 DEF MayRun, Working, Spent, Launching, GroupIsEmpty
  <1>8. Reserved(t)' /\ \A u \in Tasks : Reserved(u) /\ ~Spent(u) => Reserved(u)'
    BY <1>3, <1>4, RemovedIsSpent DEF Reserved, MarkerOf, Remaining
  <1>9. MarkersFit'
    <2>1. \A m \in Remaining(noted[h]) : m.job # t /\ ~Exclusive(k) /\ ~Exclusive(m.kind)
      BY <1>1, <1>2 DEF Admits, Blocks
    <2> QED
      BY <2>1, <1>1, <1>3, <1>4 DEF MarkersFit
  <1>10. LaunchFits'
    <2>1. \A i \in Hosts \ {h} : launch[i].at # "idle" => launch[i].task \in Tasks /\ ~Spent(launch[i].task)
      BY <1>1 DEF LaunchFits, LaunchFit, Spent, Launching
    <2>2. \A i \in Hosts \ {h}, u \in Tasks : launch[i].task = u /\ launch[i].at \in {"reserved", "written"} => Reserved(u)'
      BY <1>1, <1>8, <2>1 DEF LaunchFits, LaunchFit
    <2>3. ASSUME NEW i \in Hosts \ {h} PROVE LaunchFit(i)'
      BY <1>1, <1>5, <2>1, <2>2 DEF LaunchFits, LaunchFit
    <2>4. LaunchFit(h)'
      BY <1>1, <1>2, <1>5, <1>8 DEF LaunchFits, LaunchFit
    <2> QED
      BY <2>3, <2>4 DEF LaunchFits
  <1>11. NoteFits'
    BY <1>1, <1>3, <1>5, <1>7, NotesAndViews DEF NoteFits, ShellTypes
  <1>12. RecordsFit'
    BY <1>1, <1>7 DEF RecordsFit, RecordFits, ViewFits
  <1>13. MayRunIsReserved'
    BY <1>1, <1>7, <1>8 DEF MayRunIsReserved, Spent
  <1> QED
    BY <1>6, <1>9, <1>10, <1>11, <1>12, <1>13 DEF ShellInv

\* A launch in flight on t is the only one.
LEMMA OnlyLaunch ==
    ASSUME ShellInv, OneLauncher, NEW h \in Hosts, launch[h].at # "idle", NEW t \in Tasks, t = launch[h].task
    PROVE  /\ \A i \in Hosts \ {h} : ~Launching(i, t)
           /\ worker[t] = "none" /\ group[t] = "none" /\ ~meta[t].child /\ ~meta[t].unlaunched
           /\ \A i \in Hosts : view[i] # NoView /\ view[i].task = t => ~view[i].meta.child
  BY DEF ShellInv, LaunchFits, LaunchFit, RecordsFit, RecordFits, ViewFits, Launching, OneLauncher, ShellTypes, View, Meta

\* The launch h of t writes, spawns or fails.
LaunchMoves(h, t) ==
    /\ noted' = noted /\ view' = view
    /\ \A u \in Tasks \ {t} : meta'[u] = meta[u] /\ worker'[u] = worker[u] /\ group'[u] = group[u]
    /\ \A i \in Hosts \ {h} : launch'[i] = launch[i]
    /\ noted[h] = NoNote
    /\ meta'[t].state # "none" /\ ~meta'[t].child /\ group'[t] = "none"
    /\ markers' \subseteq markers /\ \A m \in markers \ markers' : m.job = t
    /\ \/ /\ launch'[h].task = t /\ launch'[h].at = "written" /\ worker'[t] = "none"
          /\ meta'[t].state \notin Terminal /\ ~meta'[t].unlaunched /\ markers' = markers
       \/ /\ launch'[h].at = "idle" /\ worker'[t] = "boot"
          /\ meta'[t].state \notin Terminal /\ ~meta'[t].unlaunched /\ markers' = markers
       \/ launch'[h].at = "idle" /\ worker'[t] = "none"

LEMMA LaunchMovesKeeps ==
    ASSUME ShellInv, OneLauncher, NEW h \in Hosts, launch[h].at \in {"reserved", "written"},
           NEW t \in Tasks, t = launch[h].task, LaunchMoves(h, t), ShellTypes'
    PROVE  ShellInv'
  <1> USE DEF LaunchMoves
  <1>1. /\ MarkersFit /\ LaunchFits /\ NoteFits /\ RecordsFit /\ MayRunIsReserved /\ ShellTypes
    BY DEF ShellInv
  <1>2. /\ \A i \in Hosts \ {h} : ~Launching(i, t)
        /\ worker[t] = "none" /\ group[t] = "none" /\ h \in LaunchedBy[t] /\ Reserved(t) /\ ~Spent(t)
        /\ \A i \in Hosts : view[i] # NoView /\ view[i].task = t => ~view[i].meta.child
    BY OnlyLaunch, <1>1 DEF LaunchFits, LaunchFit, Spent, Launching
  <1>3. \A u \in Tasks \ {t} : /\ MayRun(u)' = MayRun(u) /\ (Spent(u) => Spent(u)') /\ (Reserved(u) => Reserved(u)')
                               /\ GroupIsEmpty(u, meta[u])' = GroupIsEmpty(u, meta[u])
    BY DEF MayRun, Working, Spent, Launching, Reserved, MarkerOf, GroupIsEmpty
  <1>4. MarkersFit'
    BY <1>1 DEF MarkersFit
  <1>5. LaunchFits'
    <2>1. \A i \in Hosts \ {h} : launch[i].at # "idle" => launch[i].task \in Tasks \ {t}
      BY <1>1, <1>2 DEF LaunchFits, LaunchFit, Launching
    <2>2. markers' = markers => Reserved(t)'
      BY <1>2 DEF Reserved, MarkerOf
    <2> QED
      BY <1>1, <1>2, <1>3, <2>1, <2>2 DEF LaunchFits, LaunchFit
  <1>6. NoteFits'
    BY <1>1, <1>2, <1>3 DEF NoteFits
  <1>7. RecordsFit'
    <2>1. ~Working(t)' /\ (worker'[t] # "boot" => ~MayRun(t)')
      BY DEF Working, MayRun
    <2>2. launch'[h].at = "idle" /\ worker'[t] = "none" => Spent(t)'
      BY <1>2, <2>1 DEF Spent, Launching
    <2>3. RecordFits(t)'
      BY <2>1, <2>2 DEF RecordFits, GroupIsEmpty
    <2>4. \A u \in Tasks \ {t} : RecordFits(u)'
      BY <1>1, <1>3 DEF RecordsFit, RecordFits
    <2>5. \A i \in Hosts : view[i] # NoView => ViewFits(i)'
      BY <1>1, <1>2 DEF RecordsFit, ViewFits
    <2> QED
      BY <2>3, <2>4, <2>5 DEF RecordsFit
  <1>8. MayRunIsReserved'
    <2>1. MayRun(t)' => Reserved(t)'
      BY <1>2 DEF MayRun, Working, Reserved, MarkerOf
    <2> QED
      BY <1>1, <1>3, <2>1 DEF MayRunIsReserved
  <1> QED
    BY <1>4, <1>5, <1>6, <1>7, <1>8 DEF ShellInv

LEMMA LaunchKeeps ==
    ASSUME ShellInv, OneLauncher, NEW h \in Hosts, LaunchWrite(h) \/ LaunchSpawn(h) \/ LaunchFail(h)
    PROVE  ShellInv'
  <1> USE DEF indexVars
  <1>1. /\ launch[h].at \in {"reserved", "written"} /\ launch[h].task \in Tasks
        /\ noted[h] = NoNote /\ ShellTypes
    BY DEF LaunchWrite, LaunchSpawn, LaunchFail, ShellInv, LaunchFits, LaunchFit, NoteFits
  <1>2. PICK t \in Tasks : t = launch[h].task
    BY <1>1
  <1>3. /\ worker[t] = "none" /\ group[t] = "none" /\ ~meta[t].child /\ ~meta[t].unlaunched
        /\ launch[h].at = "written" => meta[t].state \notin Terminal \cup {"none"}
    BY <1>1, <1>2, OnlyLaunch DEF ShellInv, LaunchFits, LaunchFit
  <1>4. CASE LaunchWrite(h)
    <2>1. /\ meta'[t] = [NoMeta EXCEPT !.state = "running"] /\ launch'[h].task = t /\ launch'[h].at = "written"
          /\ launch'[h] \in Launch
      BY <1>1, <1>2, <1>4 DEF LaunchWrite, ShellTypes, Launch
    <2>2. meta'[t] \in Meta /\ meta'[t].state = "running" /\ ~meta'[t].child /\ ~meta'[t].unlaunched
      BY <2>1 DEF NoMeta, Meta, States
    <2>3. ShellTypes'
      BY <1>1, <1>2, <1>4, <2>1, <2>2 DEF LaunchWrite, ShellTypes
    <2>4. LaunchMoves(h, t)
      BY <1>1, <1>2, <1>3, <1>4, <2>1, <2>2 DEF LaunchWrite, LaunchMoves, ShellTypes, Terminal
    <2> QED
      BY <1>1, <1>2, <2>3, <2>4, LaunchMovesKeeps
  <1>5. CASE LaunchSpawn(h)
    <2>1. ShellTypes' /\ launch[h].at = "written"
      BY <1>1, <1>2, <1>5, NotesAndViews DEF LaunchSpawn, ShellTypes
    <2>2. LaunchMoves(h, t)
      BY <1>1, <1>2, <1>3, <1>5, <2>1, NotesAndViews DEF LaunchSpawn, LaunchMoves, ShellTypes
    <2> QED
      BY <1>1, <1>2, <2>1, <2>2, LaunchMovesKeeps
  <1>6. CASE LaunchFail(h)
    <2>1. meta'[t] = [NoMeta EXCEPT !.state = "failed", !.unlaunched = TRUE]
      BY <1>1, <1>2, <1>6 DEF LaunchFail, ShellTypes
    <2>2. meta'[t] \in Meta /\ meta'[t].state = "failed" /\ ~meta'[t].child
      BY <2>1 DEF NoMeta, Meta, States, Terminal
    <2>3. ShellTypes'
      BY <1>1, <1>2, <1>6, <2>1, <2>2, NotesAndViews DEF LaunchFail, Unmark, ShellTypes
    <2>4. LaunchMoves(h, t)
      BY <1>1, <1>2, <1>3, <1>6, <2>1, <2>2, NotesAndViews DEF LaunchFail, Unmark, MarkerOf, LaunchMoves, ShellTypes
    <2> QED
      BY <1>1, <1>2, <2>3, <2>4, LaunchMovesKeeps
  <1> QED
    BY <1>4, <1>5, <1>6

LEMMA ShellInvNext ==
    ASSUME ShellInv, OneLauncher, [ShellNext]_shellVars
    PROVE  ShellInv'
  <1>1. CASE UNCHANGED shellVars
    BY <1>1 DEF shellVars, indexVars, taskVars, hostVars, ShellInv, ShellTypes, MarkersFit, LaunchFits, LaunchFit, NoteFits, RecordsFit,
       RecordFits, ViewFits, MayRunIsReserved, MayRun, Working, Spent, Launching, GroupIsEmpty, Reserved, MarkerOf
  <1>2. ASSUME NEW h \in Hosts, LaunchStep(h) PROVE ShellInv'
    BY <1>2, LaunchCheckKeeps, LaunchReserveKeeps, HostsForget, LaunchKeeps DEF LaunchStep, TaskKinds
  <1>3. ASSUME NEW h \in Hosts, CancelAct(h) \/ HostCrash(h) \/ HostRestart(h) PROVE ShellInv'
    BY <1>3, CancelActKeeps, HostsForget
  <1>4. ASSUME NEW h \in Hosts, NEW t \in Tasks, ReadStep(h, t) \/ CancelRead(h, t) PROVE ShellInv'
    BY <1>4, ReconcileKeeps, HostsForget, CancelReadKeeps DEF ReadStep
  <1>5. ASSUME NEW t \in Tasks, WorkerStep(t) \/ CommandExits(t) \/ GroupEnds(t) \/ WorkerDies(t) PROVE ShellInv'
    BY <1>5, WorkerKeeps
  <1> QED
    BY <1>1, <1>2, <1>3, <1>4, <1>5 DEF ShellNext

\* As long as each task id is asked of one host only, a command that runs is
\* covered by its marker, whichever hosts and workers died, and an import's
\* command runs alone (launchWithDigest, reserve, releaseTerminalReservation).
THEOREM CommandsStayReserved ==
    ASSUME OneLauncher
    PROVE  ShellSpec => []RunningIsReserved
  <1>1. ShellInit => ShellInv
    BY ShellInvInit
  <1>2. ShellInv /\ [ShellNext]_shellVars => ShellInv'
    BY ShellInvNext
  <1>3. ShellInv => RunningIsReserved
    <2> SUFFICES ASSUME ShellInv PROVE RunningIsReserved
      OBVIOUS
    <2>1. \A t \in Tasks : Working(t) => Reserved(t)
      BY DEF ShellInv, MayRunIsReserved, MayRun
    <2>2. ASSUME NEW t \in Tasks, NEW u \in Tasks, Working(t), Working(u), t # u, NEW m \in MarkerOf(t) \cup MarkerOf(u)
          PROVE  ~Exclusive(m.kind)
      <3>1. PICK a \in markers, b \in markers : a.job = t /\ b.job = u
        BY <2>1, <2>2 DEF Reserved, MarkerOf
      <3> QED
        BY <2>2, <3>1 DEF ShellInv, MarkersFit, MarkerOf
    <2> QED
      BY <2>1, <2>2 DEF RunningIsReserved
  <1> QED
    BY <1>1, <1>2, <1>3, PTL DEF ShellSpec
=============================================================================
