-------------------------- MODULE Admission_proofs --------------------------
(***************************************************************************)
(* Proofs about the admission broker, for any number of processes, permits *)
(* and updates.  A call publishes a new journal or leaves the old one; in  *)
(* both cases its caller may not hear of it.                               *)
(***************************************************************************)
EXTENDS Admission, TLAPS

Statuses == {"unknown", "active", "quiesced", "quarantined", "removed"}
Journals ==
    [phase : {"open", "closing", "sealed"}, epoch : Nat, transaction : SUBSET Updates,
     generation : Nat, identity : [Participants -> SUBSET Principals],
     status : [Participants -> Statuses], issued : [Participants -> Nat],
     settledThrough : [Participants -> Nat],
     permit : [Permits -> {"none", "held", "settled"}],
     jobs : SUBSET Permits, finished : SUBSET Updates]

AdmissionTypes ==
    /\ adm \in Journals
    /\ working \in SUBSET Permits /\ grants \in [Permits -> Nat]
    /\ attested \in [Participants -> Nat] /\ receipts \in SUBSET Nat

\* Work runs only under a permit the journal holds.
WorkIsHeld == \A x \in working : adm.permit[x] = "held"

\* What was granted was issued, and once.
GrantsAreIssued ==
    \A m \in Participants, i \in 1..MaxSequence :
        /\ grants[<<m, i>>] <= 1
        /\ grants[<<m, i>>] > 0 => i <= adm.issued[m]

\* An id not given out has issued nothing; who is quiet said so in this epoch.
StatusesFit ==
    \A m \in Participants :
        /\ adm.status[m] = "unknown" => adm.issued[m] = 0
        /\ adm.status[m] = "quiesced" => attested[m] = adm.epoch

\* After a receipt nobody is active until admission reopens.
DrainedIsQuiet ==
    /\ \A e \in receipts : e <= adm.epoch
    /\ adm.phase # "open" /\ adm.epoch \in receipts => NothingActive

AdmissionInv ==
    /\ AdmissionTypes /\ JournalParses
    /\ WorkIsHeld /\ GrantsAreIssued /\ StatusesFit /\ DrainedIsQuiet

-----------------------------------------------------------------------------
\* The initial journal is the empty one of InitializeIsolated.
LEMMA InitInv == InitAdmission => AdmissionInv
  <1> SUFFICES ASSUME InitAdmission PROVE AdmissionInv
    OBVIOUS
  <1>1. AdmissionTypes
    BY DEF InitAdmission, AdmissionTypes, Journals, Statuses, None
  <1>2. JournalParses
    BY DEF InitAdmission, JournalParses, PermitsAreNumbered, PermitsAreOwned, SealedIsDrained,
           UpdateFits, IdentitiesDiffer, Permits, None, Enrolled
  <1>3. WorkIsHeld /\ GrantsAreIssued /\ StatusesFit /\ DrainedIsQuiet
    BY DEF InitAdmission, WorkIsHeld, GrantsAreIssued, StatusesFit, DrainedIsQuiet, Permits
  <1> QED
    BY <1>1, <1>2, <1>3 DEF AdmissionInv

\* Nothing the invariant speaks of changes: a crash, a restart, a call that
\* throws before the journal is moved.
LEMMA RestKeeps ==
    ASSUME AdmissionInv, UNCHANGED <<adm, working, grants, attested, receipts>>
    PROVE  AdmissionInv'
  <1>1. JournalParses'
    BY DEF AdmissionInv, JournalParses, PermitsAreNumbered, PermitsAreOwned, SealedIsDrained,
           UpdateFits, IdentitiesDiffer, NothingHeld, NothingActive, Enrolled
  <1> QED
    BY <1>1 DEF AdmissionInv, AdmissionTypes, WorkIsHeld, GrantsAreIssued, StatusesFit,
                DrainedIsQuiet, NothingActive

\* The types of the fields of a journal.
LEMMA JournalFields ==
    ASSUME NEW a \in Journals
    PROVE  /\ a.phase \in {"open", "closing", "sealed"} /\ a.epoch \in Nat
           /\ a.transaction \in SUBSET Updates /\ a.generation \in Nat
           /\ a.identity \in [Participants -> SUBSET Principals]
           /\ a.status \in [Participants -> Statuses]
           /\ a.issued \in [Participants -> Nat]
           /\ a.settledThrough \in [Participants -> Nat]
           /\ a.permit \in [Permits -> {"none", "held", "settled"}]
           /\ a.jobs \in SUBSET Permits /\ a.finished \in SUBSET Updates
  BY DEF Journals

\* Enter and Promote: the next number of an active participant.
LEMMA IssueKeeps ==
    ASSUME AdmissionInv, NEW p \in Principals, NEW m \in Participants,
           NEW i \in 1..MaxSequence, NEW jobs \in SUBSET Permits, Issue(p, m, i, jobs),
           adm.phase # "sealed"
    PROVE  AdmissionInv'
  <1> DEFINE x == <<m, i>>
             next == [adm EXCEPT !.permit[<<m, i>>] = "held", !.issued[m] = i, !.jobs = jobs]
  <1> USE AdmissionBounds
  <1>1. CASE UNCHANGED <<adm, callerVars>>
    BY <1>1, RestKeeps DEF Issue, callerVars
  <1>2. CASE adm' = next /\ (UNCHANGED callerVars \/ Grant(x))
    <2>1. /\ adm \in Journals /\ working \in SUBSET Permits /\ grants \in [Permits -> Nat]
          /\ attested' = attested /\ receipts' = receipts
          /\ attested \in [Participants -> Nat] /\ receipts \in SUBSET Nat
      BY <1>2 DEF AdmissionInv, AdmissionTypes, Issue, Grant, callerVars
    <2>2. x \in Permits
      BY DEF Permits
    <2>3. /\ adm'.permit = [adm.permit EXCEPT ![x] = "held"]
          /\ adm'.issued = [adm.issued EXCEPT ![m] = i]
          /\ adm'.phase = adm.phase /\ adm'.epoch = adm.epoch
          /\ adm'.transaction = adm.transaction /\ adm'.generation = adm.generation
          /\ adm'.identity = adm.identity /\ adm'.status = adm.status
          /\ adm'.settledThrough = adm.settledThrough /\ adm'.finished = adm.finished
      BY <1>2, <2>1 DEF Journals
    <2>4. /\ adm.status[m] = "active" /\ i = adm.issued[m] + 1 /\ i \in Nat
          /\ adm.issued \in [Participants -> Nat] /\ adm.epoch \in Nat
          /\ adm.settledThrough \in [Participants -> Nat]
          /\ adm.permit \in [Permits -> {"none", "held", "settled"}]
      BY <2>1, JournalFields DEF Issue
    <2>5. /\ \A n \in Participants, j \in 1..MaxSequence :
                adm'.permit[<<n, j>>] = IF n = m /\ j = i THEN "held" ELSE adm.permit[<<n, j>>]
          /\ \A n \in Participants : adm'.issued[n] = IF n = m THEN i ELSE adm.issued[n]
      BY <2>2, <2>3, <2>4 DEF Permits
    <2>6. adm' \in Journals
      <3>1. /\ [adm.permit EXCEPT ![x] = "held"] \in [Permits -> {"none", "held", "settled"}]
            /\ [adm.issued EXCEPT ![m] = i] \in [Participants -> Nat]
        BY <2>2, <2>4
      <3>2. adm' = [adm EXCEPT !.permit = [adm.permit EXCEPT ![x] = "held"],
                               !.issued = [adm.issued EXCEPT ![m] = i], !.jobs = jobs]
        BY <1>2, <2>1 DEF Journals
      <3> HIDE DEF x
      <3> QED
        BY <2>1, <3>1, <3>2 DEF Journals
    <2>7. AdmissionTypes'
      <3>1. working' \in SUBSET Permits
        BY <1>2, <2>1, <2>2 DEF Grant, callerVars
      <3>2. grants' \in [Permits -> Nat]
        BY <1>2, <2>1, <2>2 DEF Grant, callerVars
      <3> QED
        BY <2>1, <2>6, <3>1, <3>2 DEF AdmissionTypes
    <2>8. JournalParses'
      <3>1. PermitsAreNumbered'
        <4>1. \A n \in Participants : adm'.settledThrough[n] <= adm'.issued[n]
          BY <2>3, <2>4, <2>5 DEF AdmissionInv, JournalParses, PermitsAreNumbered
        <4> SUFFICES ASSUME NEW n \in Participants, NEW j \in 1..MaxSequence
                     PROVE  (adm'.permit[<<n, j>>] # "none")
                                <=> (j > adm'.settledThrough[n] /\ j <= adm'.issued[n])
          BY <4>1 DEF PermitsAreNumbered
        <4>2. /\ adm.settledThrough[n] <= adm.issued[n]
              /\ (adm.permit[<<n, j>>] # "none")
                  <=> (j > adm.settledThrough[n] /\ j <= adm.issued[n])
          BY DEF AdmissionInv, JournalParses, PermitsAreNumbered
        <4>3. CASE n = m /\ j = i
          BY <2>3, <2>4, <2>5, <4>2, <4>3
        <4>4. CASE ~(n = m /\ j = i)
          BY <2>3, <2>4, <2>5, <4>2, <4>4
        <4> QED
          BY <4>3, <4>4
      <3>2. PermitsAreOwned'
        <4> SUFFICES ASSUME NEW n \in Participants, NEW j \in 1..MaxSequence
                     PROVE  /\ adm'.permit[<<n, j>>] # "none" => Enrolled(n)'
                            /\ adm'.permit[<<n, j>>] = "held" => adm'.status[n] = "active"
          BY DEF PermitsAreOwned
        <4>1. CASE n = m /\ j = i
          BY <2>3, <2>4, <4>1 DEF Enrolled
        <4>2. CASE ~(n = m /\ j = i)
          BY <2>3, <2>5, <4>2 DEF AdmissionInv, JournalParses, PermitsAreOwned, Enrolled
        <4> QED
          BY <4>1, <4>2
      <3>3. SealedIsDrained' /\ UpdateFits' /\ IdentitiesDiffer'
        BY <2>3 DEF AdmissionInv, JournalParses, SealedIsDrained, UpdateFits, IdentitiesDiffer,
                    Enrolled
      <3> QED
        BY <3>1, <3>2, <3>3 DEF JournalParses
    <2>9. WorkIsHeld'
      BY <1>2, <2>1, <2>2, <2>3, <2>4 DEF AdmissionInv, WorkIsHeld, Grant, callerVars
    <2>10. GrantsAreIssued'
      <3> SUFFICES ASSUME NEW n \in Participants, NEW j \in 1..MaxSequence
                   PROVE  /\ grants'[<<n, j>>] <= 1
                          /\ grants'[<<n, j>>] > 0 => j <= adm'.issued[n]
        BY DEF GrantsAreIssued
      <3>1. /\ <<n, j>> \in Permits /\ grants[<<n, j>>] \in Nat /\ grants[<<n, j>>] <= 1
            /\ grants[<<n, j>>] > 0 => j <= adm.issued[n]
        BY <2>1 DEF AdmissionInv, GrantsAreIssued, Permits
      <3>2. grants'[<<n, j>>] = grants[<<n, j>>] \/ (n = m /\ j = i /\ grants'[<<n, j>>] = grants[<<n, j>>] + 1)
        BY <1>2, <2>1, <2>2, <3>1 DEF Grant, callerVars
      <3> QED
        BY <2>4, <2>5, <3>1, <3>2
    <2>11. StatusesFit'
      BY <2>1, <2>3, <2>4, <2>5 DEF AdmissionInv, StatusesFit
    <2>12. DrainedIsQuiet'
      BY <2>1, <2>3 DEF AdmissionInv, DrainedIsQuiet, NothingActive
    <2> QED
      BY <2>7, <2>8, <2>9, <2>10, <2>11, <2>12 DEF AdmissionInv
  <1> QED
    BY <1>1, <1>2 DEF Issue, Save

-----------------------------------------------------------------------------
(* Calls that change participants or the update, and no permit. *)

\* What a change of statuses must respect, and what it then leaves true.
LEMMA PermitsKept ==
    ASSUME AdmissionInv,
           adm'.permit = adm.permit, adm'.issued = adm.issued,
           adm'.settledThrough = adm.settledThrough, UNCHANGED <<working, grants>>,
           \A m \in Participants, i \in 1..MaxSequence :
               /\ adm.permit[<<m, i>>] # "none" => Enrolled(m)'
               /\ adm.permit[<<m, i>>] = "held" => adm'.status[m] = "active"
    PROVE  /\ PermitsAreNumbered' /\ PermitsAreOwned'
           /\ WorkIsHeld' /\ GrantsAreIssued'
  <1>1. PermitsAreNumbered'
    BY DEF AdmissionInv, JournalParses, PermitsAreNumbered
  <1>2. PermitsAreOwned'
    BY DEF PermitsAreOwned
  <1>3. WorkIsHeld' /\ GrantsAreIssued'
    BY DEF AdmissionInv, WorkIsHeld, GrantsAreIssued
  <1> QED
    BY <1>1, <1>2, <1>3

\* Register: a participant that comes while admission is closed is not active.
LEMMA RegisterKeeps ==
    ASSUME AdmissionInv, NEW p \in Principals, NEW m \in Participants, Register(p, m)
    PROVE  AdmissionInv'
  <1> DEFINE st == IF adm.phase = "open" THEN "active" ELSE "quarantined"
             next == [adm EXCEPT !.identity[m] = {p}, !.status[m] = st]
  <1>1. CASE UNCHANGED <<adm, callerVars>>
    BY <1>1, RestKeeps DEF Register, callerVars
  <1>2. CASE adm' = next /\ UNCHANGED callerVars
    <2>1. /\ adm \in Journals /\ UNCHANGED <<working, grants, attested, receipts>>
          /\ working \in SUBSET Permits /\ grants \in [Permits -> Nat]
          /\ attested \in [Participants -> Nat] /\ receipts \in SUBSET Nat
      BY <1>2 DEF AdmissionInv, AdmissionTypes, Register, callerVars
    <2>2. /\ adm'.identity = [adm.identity EXCEPT ![m] = {p}]
          /\ adm'.status = [adm.status EXCEPT ![m] = st]
          /\ adm'.permit = adm.permit /\ adm'.issued = adm.issued
          /\ adm'.settledThrough = adm.settledThrough
          /\ adm'.phase = adm.phase /\ adm'.epoch = adm.epoch
          /\ adm'.transaction = adm.transaction /\ adm'.generation = adm.generation
          /\ adm'.finished = adm.finished
      BY <1>2, <2>1 DEF Journals
    <2>3. adm.status \in [Participants -> Statuses] /\ adm.identity \in [Participants -> SUBSET Principals]
      BY <2>1, JournalFields
    <2>4. /\ \A n \in Participants : adm'.status[n] = IF n = m THEN st ELSE adm.status[n]
          /\ \A n \in Participants : adm'.identity[n] = IF n = m THEN {p} ELSE adm.identity[n]
          /\ adm.status[m] = "unknown"
          /\ \A n \in Participants : Enrolled(n) => adm.identity[n] # {p}
      BY <2>2, <2>3 DEF Register
    <2>5. adm' \in Journals
      <3>1. /\ [adm.identity EXCEPT ![m] = {p}] \in [Participants -> SUBSET Principals]
            /\ [adm.status EXCEPT ![m] = st] \in [Participants -> Statuses]
        BY <2>3 DEF Statuses
      <3>2. adm' = [adm EXCEPT !.identity = [adm.identity EXCEPT ![m] = {p}],
                               !.status = [adm.status EXCEPT ![m] = st]]
        BY <1>2, <2>1 DEF Journals
      <3> HIDE DEF st
      <3> QED
        BY <2>1, <3>1, <3>2 DEF Journals
    <2>6. AdmissionTypes'
      BY <2>1, <2>5 DEF AdmissionTypes
    <2>7. PermitsAreNumbered' /\ PermitsAreOwned' /\ WorkIsHeld' /\ GrantsAreIssued'
      <3>1. \A n \in Participants, i \in 1..MaxSequence : adm.permit[<<n, i>>] # "none" => n # m
        BY <2>4 DEF AdmissionInv, JournalParses, PermitsAreOwned, Enrolled
      <3>2. \A n \in Participants, i \in 1..MaxSequence :
               /\ adm.permit[<<n, i>>] # "none" => Enrolled(n)'
               /\ adm.permit[<<n, i>>] = "held" => adm'.status[n] = "active"
        BY <2>4, <3>1 DEF AdmissionInv, JournalParses, PermitsAreOwned, Enrolled
      <3> QED
        BY <2>1, <2>2, <3>2, PermitsKept
    <2>8. SealedIsDrained' /\ UpdateFits'
      BY <2>2, <2>4 DEF AdmissionInv, JournalParses, SealedIsDrained, UpdateFits,
                        NothingHeld, NothingActive
    <2>9. IdentitiesDiffer'
      BY <2>4 DEF AdmissionInv, JournalParses, IdentitiesDiffer, Enrolled
    <2>10. StatusesFit'
      BY <2>1, <2>2, <2>4 DEF AdmissionInv, StatusesFit
    <2>11. DrainedIsQuiet'
      BY <2>1, <2>2, <2>4 DEF AdmissionInv, DrainedIsQuiet, NothingActive
    <2> QED
      BY <2>6, <2>7, <2>8, <2>9, <2>10, <2>11 DEF AdmissionInv, JournalParses
  <1> QED
    BY <1>1, <1>2 DEF Register, Save

\* Quiesce and RetireParticipant: a participant without work becomes quiet, or
\* a quiet one without any permit on record goes.
LEMMA LeavingKeeps ==
    ASSUME AdmissionInv, NEW m \in Participants, NEW st \in {"quiesced", "removed"},
           adm' = [adm EXCEPT !.status[m] = st], Enrolled(m),
           UNCHANGED <<working, grants, receipts>>,
           attested' \in [Participants -> Nat],
           \A n \in Participants : attested'[n] = IF n = m /\ st = "quiesced" THEN adm.epoch
                                                 ELSE attested[n],
           \A i \in 1..MaxSequence : adm.permit[<<m, i>>] # "held",
           st = "removed" => \A i \in 1..MaxSequence : adm.permit[<<m, i>>] = "none"
    PROVE  AdmissionInv'
  <1>1. /\ adm \in Journals /\ working \in SUBSET Permits /\ grants \in [Permits -> Nat]
        /\ receipts \in SUBSET Nat
    BY DEF AdmissionInv, AdmissionTypes
  <1>2. /\ adm'.status = [adm.status EXCEPT ![m] = st]
        /\ adm'.permit = adm.permit /\ adm'.issued = adm.issued
        /\ adm'.settledThrough = adm.settledThrough /\ adm'.identity = adm.identity
        /\ adm'.phase = adm.phase /\ adm'.epoch = adm.epoch
        /\ adm'.transaction = adm.transaction /\ adm'.generation = adm.generation
        /\ adm'.finished = adm.finished
    BY <1>1 DEF Journals
  <1>3. adm.status \in [Participants -> Statuses]
    BY <1>1, JournalFields
  <1>4. \A n \in Participants : adm'.status[n] = IF n = m THEN st ELSE adm.status[n]
    BY <1>2, <1>3
  <1>5. AdmissionTypes'
    <2>1. [adm.status EXCEPT ![m] = st] \in [Participants -> Statuses]
      BY <1>3 DEF Statuses
    <2>2. adm' \in Journals
      BY <1>1, <2>1 DEF Journals
    <2> QED
      BY <1>1, <2>2 DEF AdmissionTypes
  <1>6. PermitsAreNumbered' /\ PermitsAreOwned' /\ WorkIsHeld' /\ GrantsAreIssued'
    <2>1. \A n \in Participants, i \in 1..MaxSequence :
             /\ adm.permit[<<n, i>>] # "none" => Enrolled(n)'
             /\ adm.permit[<<n, i>>] = "held" => adm'.status[n] = "active"
      BY <1>4 DEF AdmissionInv, JournalParses, PermitsAreOwned, Enrolled
    <2> QED
      BY <1>2, <2>1, PermitsKept
  <1>7. SealedIsDrained' /\ UpdateFits'
    BY <1>2, <1>4 DEF AdmissionInv, JournalParses, SealedIsDrained, UpdateFits,
                      NothingHeld, NothingActive
  <1>8. IdentitiesDiffer'
    BY <1>2, <1>4 DEF AdmissionInv, JournalParses, IdentitiesDiffer, Enrolled
  <1>9. StatusesFit'
    BY <1>2, <1>4 DEF AdmissionInv, StatusesFit
  <1>10. DrainedIsQuiet'
    BY <1>2, <1>4 DEF AdmissionInv, DrainedIsQuiet, NothingActive
  <1> QED
    BY <1>5, <1>6, <1>7, <1>8, <1>9, <1>10 DEF AdmissionInv, JournalParses

LEMMA QuiesceKeeps ==
    ASSUME AdmissionInv, NEW p \in Principals, NEW m \in Participants, NEW e \in Nat,
           Quiesce(p, m, e)
    PROVE  AdmissionInv'
  <1>1. /\ adm \in Journals /\ attested \in [Participants -> Nat]
        /\ attested' = [attested EXCEPT ![m] = e] /\ e = adm.epoch
    BY DEF Quiesce, AdmissionInv, AdmissionTypes
  <1>2. /\ attested' \in [Participants -> Nat]
        /\ \A n \in Participants : attested'[n] = IF n = m THEN adm.epoch ELSE attested[n]
    BY <1>1
  <1>3. CASE adm' = [adm EXCEPT !.status[m] = "quiesced"] /\ UNCHANGED callerVars
    <2>1. /\ Enrolled(m) /\ UNCHANGED <<working, grants, receipts>>
          /\ \A i \in 1..MaxSequence : adm.permit[<<m, i>>] # "held"
      BY <1>3 DEF Quiesce, IsMember, callerVars
    <2> QED
      BY <1>2, <1>3, <2>1, LeavingKeeps
  <1>4. CASE adm' = adm /\ UNCHANGED callerVars
    <2>1. JournalParses' /\ WorkIsHeld' /\ GrantsAreIssued' /\ DrainedIsQuiet'
      BY <1>4 DEF AdmissionInv, JournalParses, PermitsAreNumbered, PermitsAreOwned, UpdateFits,
                  SealedIsDrained, IdentitiesDiffer, WorkIsHeld, GrantsAreIssued, callerVars,
                  DrainedIsQuiet, NothingHeld, NothingActive, Enrolled
    <2>2. StatusesFit'
      BY <1>2, <1>4 DEF AdmissionInv, StatusesFit
    <2>3. AdmissionTypes'
      BY <1>2, <1>4 DEF AdmissionInv, AdmissionTypes, callerVars
    <2> QED
      BY <2>1, <2>2, <2>3 DEF AdmissionInv
  <1> QED
    BY <1>3, <1>4 DEF Quiesce, Save

LEMMA RetireKeeps ==
    ASSUME AdmissionInv, NEW p \in Principals, NEW m \in Participants, RetireParticipant(p, m)
    PROVE  AdmissionInv'
  <1>1. CASE UNCHANGED <<adm, callerVars>>
    BY <1>1, RestKeeps DEF RetireParticipant, callerVars
  <1>2. CASE adm' = [adm EXCEPT !.status[m] = "removed"] /\ UNCHANGED <<working, grants, receipts>>
    <2>1. /\ Enrolled(m) /\ adm.issued[m] = adm.settledThrough[m] /\ attested' = attested
          /\ attested \in [Participants -> Nat] /\ adm \in Journals
      BY DEF RetireParticipant, IsMember, AdmissionInv, AdmissionTypes
    <2>2. adm.issued[m] \in Nat
      BY <2>1, JournalFields
    <2>3. \A i \in 1..MaxSequence : adm.permit[<<m, i>>] = "none"
      BY <2>1, <2>2, AdmissionBounds DEF AdmissionInv, JournalParses, PermitsAreNumbered
    <2> QED
      BY <1>2, <2>1, <2>3, LeavingKeeps
  <1> QED
    BY <1>1, <1>2 DEF RetireParticipant, Save, callerVars

\* Close and Reopen: every participant becomes active; no receipt is valid.
LEMMA ActivationKeeps ==
    ASSUME AdmissionInv, adm' \in Journals, adm'.status = Activated,
           adm'.permit = adm.permit, adm'.issued = adm.issued,
           adm'.settledThrough = adm.settledThrough, adm'.identity = adm.identity,
           UNCHANGED <<working, grants, receipts, attested>>,
           adm'.phase # "sealed", adm'.epoch >= adm.epoch,
           adm'.phase = "open" \/ adm'.epoch = adm.epoch + 1,
           UpdateFits'
    PROVE  AdmissionInv'
  <1>1. /\ adm \in Journals /\ receipts \in SUBSET Nat
        /\ adm.epoch \in Nat /\ adm'.epoch \in Nat
        /\ adm.status \in [Participants -> Statuses]
    BY JournalFields DEF AdmissionInv, AdmissionTypes
  <1>2. /\ \A n \in Participants : adm'.status[n] = IF Enrolled(n) THEN "active" ELSE adm.status[n]
        /\ \A n \in Participants : Enrolled(n)' <=> Enrolled(n)
    BY <1>1 DEF Activated, Enrolled
  <1>3. AdmissionTypes'
    BY DEF AdmissionInv, AdmissionTypes
  <1>4. PermitsAreNumbered' /\ PermitsAreOwned' /\ WorkIsHeld' /\ GrantsAreIssued'
    <2>1. \A n \in Participants, i \in 1..MaxSequence :
             /\ adm.permit[<<n, i>>] # "none" => Enrolled(n)'
             /\ adm.permit[<<n, i>>] = "held" => adm'.status[n] = "active"
      BY <1>2 DEF AdmissionInv, JournalParses, PermitsAreOwned, Enrolled
    <2> QED
      BY <2>1, PermitsKept
  <1>5. SealedIsDrained' /\ IdentitiesDiffer'
    BY <1>2 DEF AdmissionInv, JournalParses, SealedIsDrained, IdentitiesDiffer
  <1>6. StatusesFit'
    BY <1>2 DEF AdmissionInv, StatusesFit, Enrolled
  <1>7. DrainedIsQuiet'
    <2>1. receipts' = receipts /\ \A e \in receipts : e \in Nat /\ e <= adm.epoch
      BY <1>1 DEF AdmissionInv, DrainedIsQuiet
    <2>2. \A e \in receipts : e <= adm'.epoch
      BY <1>1, <2>1
    <2>3. adm'.phase = "open" \/ adm'.epoch \notin receipts
      BY <1>1, <2>1
    <2> QED
      BY <2>1, <2>2, <2>3 DEF DrainedIsQuiet
  <1> QED
    BY <1>3, <1>4, <1>5, <1>6, <1>7 DEF AdmissionInv, JournalParses

LEMMA ActivatedStatuses ==
    ASSUME AdmissionInv
    PROVE  adm \in Journals /\ Activated \in [Participants -> Statuses]
  <1>1. adm \in Journals /\ adm.status \in [Participants -> Statuses]
    BY JournalFields DEF AdmissionInv, AdmissionTypes
  <1> QED
    BY <1>1 DEF Activated, Statuses

LEMMA CloseKeeps ==
    ASSUME AdmissionInv, NEW u \in Updates, Close(u)
    PROVE  AdmissionInv'
  <1> DEFINE next == [adm EXCEPT !.phase = "closing", !.epoch = adm.epoch + 1, !.transaction = {u},
                                 !.generation = 1, !.status = Activated]
  <1>1. CASE UNCHANGED <<adm, callerVars>>
    BY <1>1, RestKeeps DEF Close, callerVars
  <1>2. CASE adm' = next /\ UNCHANGED callerVars
    <2>1. /\ adm \in Journals /\ Activated \in [Participants -> Statuses] /\ adm.epoch \in Nat
      BY ActivatedStatuses, JournalFields
    <2>2. /\ adm' \in Journals
          /\ adm'.status = Activated /\ adm'.permit = adm.permit /\ adm'.issued = adm.issued
          /\ adm'.settledThrough = adm.settledThrough /\ adm'.identity = adm.identity
          /\ adm'.phase = "closing" /\ adm'.epoch = adm.epoch + 1 /\ adm'.transaction = {u}
          /\ adm'.generation = 1 /\ adm'.finished = adm.finished
      <3>1. adm.epoch + 1 \in Nat /\ {u} \in SUBSET Updates
        BY <2>1
      <3> QED
        BY <1>2, <2>1, <3>1 DEF Journals
    <2>3. u \notin adm.finished /\ UNCHANGED <<working, grants, receipts, attested>>
      BY <1>2 DEF Close, callerVars
    <2>4. UpdateFits'
      BY <2>2, <2>3 DEF UpdateFits, None
    <2> QED
      BY <2>1, <2>2, <2>3, <2>4, ActivationKeeps
  <1> QED
    BY <1>1, <1>2 DEF Close, Save

LEMMA ReopenKeeps ==
    ASSUME AdmissionInv, NEW u \in Updates, NEW g \in 1..MaxGeneration, Reopen(u, g)
    PROVE  AdmissionInv'
  <1> DEFINE next == [adm EXCEPT !.phase = "open", !.finished = adm.finished \cup {u},
                                 !.status = Activated]
  <1>1. CASE UNCHANGED <<adm, callerVars>>
    BY <1>1, RestKeeps DEF Reopen, callerVars
  <1>2. CASE adm' = next /\ UNCHANGED callerVars
    <2>1. /\ adm \in Journals /\ Activated \in [Participants -> Statuses]
          /\ adm.epoch \in Nat /\ adm.finished \in SUBSET Updates
      BY ActivatedStatuses, JournalFields
    <2>2. /\ adm' \in Journals
          /\ adm'.status = Activated /\ adm'.permit = adm.permit /\ adm'.issued = adm.issued
          /\ adm'.settledThrough = adm.settledThrough /\ adm'.identity = adm.identity
          /\ adm'.phase = "open" /\ adm'.epoch = adm.epoch /\ adm'.transaction = adm.transaction
          /\ adm'.generation = adm.generation /\ adm'.finished = adm.finished \cup {u}
      BY <1>2, <2>1 DEF Journals
    <2>3. adm.transaction = {u} /\ UNCHANGED <<working, grants, receipts, attested>>
      BY <1>2 DEF Reopen, IsOwner, callerVars
    <2>4. UpdateFits'
      BY <2>2, <2>3 DEF AdmissionInv, JournalParses, UpdateFits, None
    <2> QED
      BY <2>1, <2>2, <2>3, <2>4, ActivationKeeps
  <1> QED
    BY <1>1, <1>2 DEF Reopen, Save

\* Seal and RecoverOwner change the phase and the generation; the receipt of
\* Seal is for a journal in which nothing is held or active.
LEMMA PhaseKeeps ==
    ASSUME AdmissionInv, NEW ph \in {"closing", "sealed"}, NEW g \in Nat \ {0},
           adm' = [adm EXCEPT !.generation = g, !.phase = ph],
           adm.phase # "open", adm.transaction # None,
           ph = "sealed" => NothingHeld /\ NothingActive,
           UNCHANGED <<working, grants, attested>>,
           \/ receipts' = receipts
           \/ receipts' = receipts \cup {adm.epoch} /\ NothingActive
    PROVE  AdmissionInv'
  <1>1. /\ adm \in Journals /\ adm.epoch \in Nat /\ receipts \in SUBSET Nat
        /\ UNCHANGED <<working, grants, attested>>
    BY JournalFields DEF AdmissionInv, AdmissionTypes
  <1>2. /\ adm' \in Journals /\ adm'.phase = ph /\ adm'.generation = g
        /\ adm'.status = adm.status /\ adm'.permit = adm.permit /\ adm'.issued = adm.issued
        /\ adm'.settledThrough = adm.settledThrough /\ adm'.identity = adm.identity
        /\ adm'.epoch = adm.epoch /\ adm'.transaction = adm.transaction
        /\ adm'.finished = adm.finished
    BY <1>1 DEF Journals
  <1>3. AdmissionTypes'
    BY <1>1, <1>2 DEF AdmissionInv, AdmissionTypes
  <1>4. PermitsAreNumbered' /\ PermitsAreOwned' /\ WorkIsHeld' /\ GrantsAreIssued'
    BY <1>2 DEF AdmissionInv, JournalParses, PermitsAreNumbered, PermitsAreOwned, Enrolled,
                WorkIsHeld, GrantsAreIssued
  <1>5. SealedIsDrained' /\ IdentitiesDiffer'
    BY <1>2 DEF AdmissionInv, JournalParses, SealedIsDrained, IdentitiesDiffer, Enrolled,
                NothingHeld, NothingActive
  <1>6. UpdateFits'
    BY <1>2 DEF AdmissionInv, JournalParses, UpdateFits
  <1>7. StatusesFit'
    BY <1>2 DEF AdmissionInv, StatusesFit
  <1>8. DrainedIsQuiet'
    BY <1>1, <1>2 DEF AdmissionInv, DrainedIsQuiet, NothingActive
  <1> QED
    BY <1>3, <1>4, <1>5, <1>6, <1>7, <1>8 DEF AdmissionInv, JournalParses

LEMMA SealKeeps ==
    ASSUME AdmissionInv, NEW u \in Updates, NEW g \in 1..MaxGeneration, Seal(u, g)
    PROVE  AdmissionInv'
  <1>1. /\ adm \in Journals /\ adm.generation = g /\ g \in Nat \ {0} /\ adm.transaction # None
        /\ adm.phase # "open" /\ NothingHeld /\ NothingActive /\ attested' = attested
    BY AdmissionBounds DEF Seal, IsOwner, None, AdmissionInv, AdmissionTypes
  <1>2. CASE UNCHANGED <<adm, callerVars>>
    BY <1>1, <1>2, RestKeeps DEF callerVars
  <1>3. CASE adm.phase = "sealed" /\ adm' = adm /\ DrainReceipt
    <2>1. adm' = [adm EXCEPT !.generation = g, !.phase = "sealed"]
      BY <1>1, <1>3 DEF Journals
    <2> QED
      BY <1>1, <1>3, <2>1, PhaseKeeps DEF DrainReceipt
  <1>4. CASE adm' = [adm EXCEPT !.phase = "sealed"] /\ (DrainReceipt \/ UNCHANGED callerVars)
    <2>1. adm' = [adm EXCEPT !.generation = g, !.phase = "sealed"]
      BY <1>1, <1>4 DEF Journals
    <2> QED
      BY <1>1, <1>4, <2>1, PhaseKeeps DEF DrainReceipt, callerVars
  <1> QED
    BY <1>2, <1>3, <1>4 DEF Seal, Save

LEMMA RecoverKeeps ==
    ASSUME AdmissionInv, NEW u \in Updates, NEW g \in 1..MaxGeneration, RecoverOwner(u, g)
    PROVE  AdmissionInv'
  <1>1. CASE UNCHANGED <<adm, callerVars>>
    BY <1>1, RestKeeps DEF RecoverOwner, callerVars
  <1>2. CASE adm' = [adm EXCEPT !.generation = g, !.phase = "closing"] /\ UNCHANGED callerVars
    <2>1. /\ g \in Nat \ {0} /\ adm.phase # "open" /\ adm.transaction # None
          /\ UNCHANGED <<working, grants, attested, receipts>>
      BY <1>2, AdmissionBounds DEF RecoverOwner, callerVars, None
    <2> QED
      BY <1>2, <2>1, PhaseKeeps
  <1> QED
    BY <1>1, <1>2 DEF RecoverOwner, Save

-----------------------------------------------------------------------------
(* Settling. *)

\* The records up to the watermark go: all of them are settled.
LEMMA SettleKeeps ==
    ASSUME AdmissionInv, NEW p \in Principals, NEW m \in Participants,
           NEW i \in 1..MaxSequence, Settle(p, m, i)
    PROVE  AdmissionInv'
  <1> USE AdmissionBounds
  <1> DEFINE settled == [adm.permit EXCEPT ![<<m, i>>] = "settled"]
             permits(w) == [x \in Permits |-> IF x[1] = m /\ x[2] <= w THEN "none" ELSE settled[x]]
             jobs(w) == {x \in adm.jobs : ~(x[1] = m /\ x[2] <= w)}
             next(w) == [adm EXCEPT !.settledThrough[m] = w, !.permit = permits(w), !.jobs = jobs(w)]
  <1>1. CASE UNCHANGED <<adm, callerVars>>
    BY <1>1, RestKeeps DEF Settle, callerVars
  <1>2. ASSUME NEW w \in 0..MaxSequence, Watermark(m, w, settled), adm' = next(w),
               UNCHANGED callerVars
        PROVE  AdmissionInv'
    <2>1. /\ adm \in Journals /\ UNCHANGED <<working, grants, attested, receipts>>
          /\ working \in SUBSET Permits /\ <<m, i>> \notin working
          /\ adm.permit[<<m, i>>] = "held" /\ w \in Nat /\ <<m, i>> \in Permits
      BY <1>2 DEF AdmissionInv, AdmissionTypes, Settle, callerVars, Permits
    <2>2. /\ adm.permit \in [Permits -> {"none", "held", "settled"}]
          /\ adm.settledThrough \in [Participants -> Nat] /\ adm.issued \in [Participants -> Nat]
          /\ adm.jobs \in SUBSET Permits
      BY <2>1, JournalFields
    <2>3. /\ adm'.settledThrough = [adm.settledThrough EXCEPT ![m] = w]
          /\ adm'.permit = permits(w)
          /\ adm'.phase = adm.phase /\ adm'.epoch = adm.epoch
          /\ adm'.transaction = adm.transaction /\ adm'.generation = adm.generation
          /\ adm'.identity = adm.identity /\ adm'.status = adm.status
          /\ adm'.issued = adm.issued /\ adm'.finished = adm.finished
      BY <1>2, <2>1 DEF Journals
    <2>4. \A n \in Participants, j \in 1..MaxSequence :
             /\ <<n, j>> \in Permits
             /\ settled[<<n, j>>] = IF n = m /\ j = i THEN "settled" ELSE adm.permit[<<n, j>>]
             /\ adm'.permit[<<n, j>>] = IF n = m /\ j <= w THEN "none" ELSE settled[<<n, j>>]
      BY <2>2, <2>3 DEF Permits
    <2>5. \A n \in Participants : adm'.settledThrough[n] = IF n = m THEN w ELSE adm.settledThrough[n]
      BY <2>2, <2>3
    <2>6. /\ w >= adm.settledThrough[m] /\ w <= adm.issued[m]
          /\ \A j \in 1..MaxSequence :
                j > adm.settledThrough[m] /\ j <= w => settled[<<m, j>>] = "settled"
      BY <1>2, <2>1, <2>2 DEF Watermark
    <2>7. AdmissionTypes'
      <3>1. settled \in [Permits -> {"none", "held", "settled"}]
        BY <2>1, <2>2
      <3>2. permits(w) \in [Permits -> {"none", "held", "settled"}] /\ jobs(w) \in SUBSET Permits
        BY <2>2, <3>1
      <3>3. [adm.settledThrough EXCEPT ![m] = w] \in [Participants -> Nat]
        BY <2>1, <2>2
      <3>4. adm' = [adm EXCEPT !.settledThrough = [adm.settledThrough EXCEPT ![m] = w],
                               !.permit = permits(w), !.jobs = jobs(w)]
        BY <1>2, <2>1 DEF Journals
      <3> HIDE DEF permits, jobs, settled, next
      <3>5. adm' \in Journals
        BY <2>1, <3>2, <3>3, <3>4 DEF Journals
      <3> QED
        BY <2>1, <3>5 DEF AdmissionInv, AdmissionTypes
    <2> HIDE DEF permits, jobs, settled, next
    <2>8. PermitsAreNumbered'
      <3> SUFFICES ASSUME NEW n \in Participants
                   PROVE  /\ adm'.settledThrough[n] <= adm'.issued[n]
                          /\ \A j \in 1..MaxSequence :
                                (adm'.permit[<<n, j>>] # "none")
                                    <=> (j > adm'.settledThrough[n] /\ j <= adm'.issued[n])
        BY DEF PermitsAreNumbered
      <3>1. /\ adm.settledThrough[n] <= adm.issued[n]
            /\ \A j \in 1..MaxSequence : (adm.permit[<<n, j>>] # "none")
                    <=> (j > adm.settledThrough[n] /\ j <= adm.issued[n])
        BY DEF AdmissionInv, JournalParses, PermitsAreNumbered
      <3>2. adm'.settledThrough[n] <= adm'.issued[n]
        BY <2>3, <2>5, <2>6, <3>1
      <3>3. ASSUME NEW j \in 1..MaxSequence
            PROVE  (adm'.permit[<<n, j>>] # "none")
                        <=> (j > adm'.settledThrough[n] /\ j <= adm'.issued[n])
        <4>1. settled[<<n, j>>] # "none" <=> adm.permit[<<n, j>>] # "none"
          BY <2>1, <2>4
        <4>2. CASE n # m
          BY <2>3, <2>4, <2>5, <3>1, <4>1, <4>2
        <4>3. CASE n = m
          BY <2>1, <2>2, <2>3, <2>4, <2>5, <2>6, <3>1, <4>1, <4>3
        <4> QED
          BY <4>2, <4>3
      <3> QED
        BY <3>2, <3>3
    <2>9. PermitsAreOwned'
      <3> SUFFICES ASSUME NEW n \in Participants, NEW j \in 1..MaxSequence
                   PROVE  /\ adm'.permit[<<n, j>>] # "none" => Enrolled(n)'
                          /\ adm'.permit[<<n, j>>] = "held" => adm'.status[n] = "active"
        BY DEF PermitsAreOwned
      <3>1. /\ adm'.permit[<<n, j>>] # "none" => adm.permit[<<n, j>>] # "none"
            /\ adm'.permit[<<n, j>>] = "held" => adm.permit[<<n, j>>] = "held"
        BY <2>1, <2>4
      <3> QED
        BY <2>3, <3>1 DEF AdmissionInv, JournalParses, PermitsAreOwned, Enrolled
    <2>10. \A x \in Permits : adm'.permit[x] = "held" => adm.permit[x] = "held"
      BY <2>4 DEF Permits
    <2>11. SealedIsDrained' /\ UpdateFits' /\ IdentitiesDiffer'
      BY <2>3, <2>10 DEF AdmissionInv, JournalParses, SealedIsDrained, UpdateFits,
                         IdentitiesDiffer, Enrolled, NothingHeld, NothingActive
    <2>12. WorkIsHeld'
      <3> SUFFICES ASSUME NEW n \in Participants, NEW j \in 1..MaxSequence, <<n, j>> \in working
                   PROVE  adm'.permit[<<n, j>>] = "held"
        BY <2>1 DEF WorkIsHeld, Permits
      <3>1. adm.permit[<<n, j>>] = "held" /\ ~(n = m /\ j = i)
        BY <2>1 DEF AdmissionInv, WorkIsHeld
      <3>2. settled[<<n, j>>] = "held"
        BY <2>4, <3>1
      <3>3. j > adm.settledThrough[n]
        BY <3>1 DEF AdmissionInv, JournalParses, PermitsAreNumbered
      <3>4. ~(n = m /\ j <= w)
        BY <2>6, <3>2, <3>3
      <3> QED
        BY <2>4, <3>2, <3>4
    <2>13. GrantsAreIssued' /\ StatusesFit'
      BY <2>1, <2>3 DEF AdmissionInv, GrantsAreIssued, StatusesFit
    <2>14. DrainedIsQuiet'
      BY <2>1, <2>3 DEF AdmissionInv, DrainedIsQuiet, NothingActive
    <2> QED
      BY <2>7, <2>8, <2>9, <2>11, <2>12, <2>13, <2>14 DEF AdmissionInv, JournalParses
  <1> HIDE DEF permits, jobs, settled
  <1>3. \/ UNCHANGED <<adm, callerVars>>
        \/ \E w \in 0..MaxSequence :
              Watermark(m, w, settled) /\ adm' = next(w) /\ UNCHANGED callerVars
    BY DEF Settle, Save, settled, permits, jobs
  <1> HIDE DEF next
  <1> QED
    BY <1>1, <1>2, <1>3

LEMMA WorkEndsKeeps ==
    ASSUME AdmissionInv, NEW x \in Permits, WorkEnds(x)
    PROVE  AdmissionInv'
  <1>1. JournalParses' /\ GrantsAreIssued' /\ StatusesFit' /\ DrainedIsQuiet'
    BY DEF AdmissionInv, JournalParses, PermitsAreNumbered, PermitsAreOwned, SealedIsDrained,
           UpdateFits, IdentitiesDiffer, GrantsAreIssued, StatusesFit, DrainedIsQuiet,
           NothingHeld, NothingActive, Enrolled, WorkEnds
  <1>2. AdmissionTypes' /\ WorkIsHeld'
    BY DEF AdmissionInv, AdmissionTypes, WorkIsHeld, WorkEnds
  <1> QED
    BY <1>1, <1>2 DEF AdmissionInv

-----------------------------------------------------------------------------
(* The theorems. *)

LEMMA NextKeeps ==
    ASSUME AdmissionInv, [NextAdmission]_admissionVars
    PROVE  AdmissionInv'
  <1>1. CASE UNCHANGED admissionVars
    BY <1>1, RestKeeps DEF admissionVars
  <1>2. CASE CrashCore \/ RestartCore
    BY <1>2, RestKeeps DEF CrashCore, RestartCore, callerVars
  <1>3. CASE \E x \in Permits : WorkEnds(x)
    BY <1>3, WorkEndsKeeps
  <1>4. ASSUME NEW p \in Principals, NEW m \in Participants,
               \/ Register(p, m) \/ RetireParticipant(p, m)
               \/ \E e \in 1..adm.epoch : Quiesce(p, m, e)
        PROVE  AdmissionInv'
    <2>1. \A e \in 1..adm.epoch : e \in Nat
      BY JournalFields DEF AdmissionInv, AdmissionTypes
    <2> QED
      BY <1>4, <2>1, RegisterKeeps, RetireKeeps, QuiesceKeeps
  <1>5. ASSUME NEW p \in Principals, NEW m \in Participants, NEW i \in 1..MaxSequence,
               \/ EnterWork(p, m, i) \/ RepeatEnter(p, m, i) \/ Settle(p, m, i)
               \/ \E parent \in 1..MaxSequence : Promote(p, m, i, parent)
        PROVE  AdmissionInv'
    <2>1. adm.jobs \in SUBSET Permits /\ <<m, i>> \in Permits
      BY JournalFields DEF AdmissionInv, AdmissionTypes, Permits
    <2>2. CASE EnterWork(p, m, i)
      BY <2>1, <2>2, IssueKeeps DEF EnterWork
    <2>3. CASE \E parent \in 1..MaxSequence : Promote(p, m, i, parent)
      <3>1. adm.jobs \cup {<<m, i>>} \in SUBSET Permits
        BY <2>1
      <3>2. adm.phase # "sealed" /\ Issue(p, m, i, adm.jobs \cup {<<m, i>>})
        BY <2>3 DEF Promote
      <3> QED
        BY <3>1, <3>2, IssueKeeps
    <2>4. CASE RepeatEnter(p, m, i)
      BY <2>4, RestKeeps DEF RepeatEnter, Existing, callerVars
    <2>5. CASE Settle(p, m, i)
      BY <2>5, SettleKeeps
    <2> QED
      BY <1>5, <2>2, <2>3, <2>4, <2>5
  <1>6. ASSUME NEW u \in Updates,
               \/ Close(u)
               \/ \E g \in 1..MaxGeneration : Seal(u, g) \/ RecoverOwner(u, g) \/ Reopen(u, g)
        PROVE  AdmissionInv'
    BY <1>6, CloseKeeps, SealKeeps, RecoverKeeps, ReopenKeeps
  <1> QED
    BY <1>1, <1>2, <1>3, <1>4, <1>5, <1>6 DEF NextAdmission

LEMMA Admitting == SpecAdmission => []AdmissionInv
  BY InitInv, NextKeeps, PTL DEF SpecAdmission

\* Between a drain receipt and the reopening of admission nothing runs, however
\* many processes, permits, updates, owners and crashes there are.  Work runs
\* only under a held permit of an active participant, and after the receipt
\* nobody becomes active.
THEOREM DrainAlwaysHolds == SpecAdmission => []DrainHolds
  <1>1. AdmissionInv => DrainHolds
    <2> SUFFICES ASSUME AdmissionInv, adm.phase # "open", adm.epoch \in receipts
                 PROVE  /\ working = {}
                        /\ \A m \in Participants : Enrolled(m) =>
                            \/ adm.status[m] = "quarantined"
                            \/ adm.status[m] = "quiesced" /\ attested[m] = adm.epoch
      BY DEF DrainHolds
    <2>1. NothingActive /\ working \in SUBSET Permits /\ adm \in Journals
      BY DEF AdmissionInv, DrainedIsQuiet, AdmissionTypes
    <2>2. ASSUME NEW x \in working PROVE FALSE
      <3>1. PICK m \in Participants, i \in 1..MaxSequence : x = <<m, i>>
        BY <2>1 DEF Permits
      <3>2. adm.permit[<<m, i>>] = "held"
        BY <3>1 DEF AdmissionInv, WorkIsHeld
      <3> QED
        BY <2>1, <3>2 DEF AdmissionInv, JournalParses, PermitsAreOwned, NothingActive
    <2>3. \A m \in Participants : adm.status[m] \in Statuses
      BY <2>1, JournalFields
    <2>4. \A m \in Participants : Enrolled(m) =>
             \/ adm.status[m] = "quarantined"
             \/ adm.status[m] = "quiesced" /\ attested[m] = adm.epoch
      BY <2>1, <2>3 DEF AdmissionInv, StatusesFit, NothingActive, Enrolled, Statuses
    <2> QED
      BY <2>2, <2>4
  <1> QED
    BY <1>1, Admitting, PTL

\* No permit is granted twice: a number is granted when it is issued, and the
\* numbers of a participant only grow.
THEOREM GrantedAtMostOnce == SpecAdmission => []GrantedOnce
  <1>1. AdmissionInv => GrantedOnce
    BY DEF AdmissionInv, GrantsAreIssued, GrantedOnce, Permits
  <1> QED
    BY <1>1, Admitting, PTL

\* Every journal the broker writes passes the checks of Parse, which it runs on
\* what it is about to write and on what it reads.
THEOREM JournalAlwaysParses == SpecAdmission => []JournalParses
  <1>1. AdmissionInv => JournalParses
    BY DEF AdmissionInv
  <1> QED
    BY <1>1, Admitting, PTL
=============================================================================
