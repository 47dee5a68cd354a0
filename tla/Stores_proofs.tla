--------------------------- MODULE Stores_proofs ----------------------------
(***************************************************************************)
(* Safety of what the runtime keeps on disk, for every value of the        *)
(* constants: the journal, the transaction and the slot of the update      *)
(* worker, the canonical database, the automation runs, and the files that *)
(* are edited.                                                             *)
(***************************************************************************)
EXTENDS UpdateWorker, SqliteLifecycle, Automation, FileMutations, SequenceTheorems,
        WellFoundedInduction, TLAPS

-----------------------------------------------------------------------------
(* The inductive invariant of the update worker. *)

\* A journal record, and what it records of a request.
IsJournal(j) ==
    /\ j = [kind |-> "journal", gen |-> j.gen, rev |-> j.rev, prev |-> j.prev, owner |-> j.owner,
            phase |-> j.phase, req |-> j.req, tx |-> j.tx, history |-> j.history]
    /\ j.gen \in Nat \ {0} /\ j.rev \in Nat
RecordedIn(j, r) == {h.tx : h \in {x \in j.history \cup {Receipt(j)} : x.req = r}}
\* A journal that says the same of every answered request.
KeepsAnswers(j) == \A r \in Requests : answers[r] # {} => RecordedIn(j, r) = answers[r]
\* A journal the worker may publish, and the request it is for, if it is.
Publishable(j) == IsJournal(j) /\ Adoptable(j) /\ KeepsAnswers(j)
IsFor(j, for) == for \in Requests => for = j.req /\ RecordedIn(j, for) = {j.tx}

\* A publication under way fits the files it has not changed yet.
PendingFits(f, rec, for) ==
    \/ f = "journal" /\ Publishable(rec) /\ IsFor(rec, for)
    \/ f = "transaction" /\ for = "store" /\ ValidSelectionPhase(rec, file["slot"])
    \/ f = "slot" /\ for = "store" /\ ValidSelectionPhase(file["transaction"], rec)
PublishedFits(f, rec, for) ==
    \/ /\ f = "journal" /\ rec = Journal /\ IsJournal(rec) /\ IsFor(rec, for)
       /\ stage["journal"] = Unwritten
    \/ f # "journal" /\ for = "store"
IsJob(j) == /\ j = [at |-> j.at, file |-> j.file, rec |-> j.rec, for |-> j.for]
            /\ j.at \in {"write", "publish", "published"} /\ j.file \in Files
JobFits ==
    \/ job = AtRest
    \/ /\ IsJob(job)
       /\ job.at \in {"write", "publish"} => PendingFits(job.file, job.rec, job.for)
       /\ job.at = "published" => PublishedFits(job.file, job.rec, job.for)

Shapes == /\ file = [f \in Files |-> file[f]] /\ stage = [f \in Files |-> stage[f]]
          /\ answers = [r \in Requests |-> answers[r]]
JournalFits == Journal = Unwritten \/ IsJournal(Journal)
StageFits == stage["journal"] \in {Unwritten, Torn} \/ Publishable(stage["journal"])
UpdateInv == Shapes /\ JournalFits /\ StageFits /\ JobFits /\ AnswersKept /\ SlotFitsPhase


\* A fact about a record and the published files stays true while the files
\* and the answers stay.
LEMMA FactsStay ==
    ASSUME file' = file, answers' = answers
    PROVE  /\ \A j : Publishable(j) => Publishable(j)'
           /\ \A j, for : IsFor(j, for) => IsFor(j, for)'
           /\ \A f, rec, for : PendingFits(f, rec, for) => PendingFits(f, rec, for)'
           /\ JournalFits => JournalFits'
           /\ AnswersKept => AnswersKept'
           /\ SlotFitsPhase => SlotFitsPhase'
<1>1. Journal' = Journal /\ (\A r : Recorded(r)' = Recorded(r))
  BY DEF Journal, Recorded
<1>2. \A j : Publishable(j) => Publishable(j)'
  BY <1>1 DEF Publishable, KeepsAnswers, Adoptable
<1>3. \A j, for : IsFor(j, for) => IsFor(j, for)'
  BY DEF IsFor
<1>4. \A f, rec, for : PendingFits(f, rec, for) => PendingFits(f, rec, for)'
  BY <1>2, <1>3 DEF PendingFits
<1>5. JournalFits => JournalFits'
  BY <1>1 DEF JournalFits
<1>6. AnswersKept => AnswersKept'
  BY <1>1 DEF AnswersKept
<1>7. SlotFitsPhase => SlotFitsPhase'
  BY DEF SlotFitsPhase
<1> QED
  BY <1>2, <1>3, <1>4, <1>5, <1>6, <1>7

\* The records of the journal are told from the absent and from the torn file.
LEMMA JournalIsWritten ==
    ASSUME NEW j, IsJournal(j)
    PROVE  j # Unwritten /\ j # Torn
<1>1. j.kind = "journal"
  BY DEF IsJournal
<1>2. Unwritten.kind = "none" /\ Torn.kind = "torn"
  BY DEF Unwritten, Torn
<1> QED
  BY <1>1, <1>2

\* What the published journal records of a request.
LEMMA RecordedIsRecordedIn ==
    ASSUME UpdateInv, NEW r
    PROVE  /\ Journal = Unwritten => Recorded(r) = {}
           /\ Journal # Unwritten => IsJournal(Journal) /\ Recorded(r) = RecordedIn(Journal, r)
  BY DEF UpdateInv, JournalFits, Recorded, RecordedIn, Written

\* A step that keeps the files, the pending files and the answers and is done
\* with its publication keeps the invariant.
LEMMA RestKeeps ==
    ASSUME UpdateInv, file' = file, stage' = stage, answers' = answers,
           job' = AtRest \/ job' = job
    PROVE  UpdateInv'
<1>1. StageFits'
  BY FactsStay DEF UpdateInv, StageFits
<1>2. JobFits'
  <2>1. CASE job' = AtRest
    BY <2>1 DEF JobFits
  <2>2. CASE job' = job
    <3>1. \A f, rec, for : PublishedFits(f, rec, for) => PublishedFits(f, rec, for)'
      BY FactsStay DEF PublishedFits, Journal
    <3>2. PICK j : j = job  OBVIOUS
    <3>3. job' = j /\ (IsJob(j) => IsJob(j)')
      BY <2>2, <3>2 DEF IsJob
    <3> QED
      BY <3>1, <3>2, <3>3, FactsStay DEF UpdateInv, JobFits, IsJob
  <2> QED
    BY <2>1, <2>2
<1> QED
  BY <1>1, <1>2, FactsStay DEF UpdateInv, Shapes

\* Creating a pending file keeps the invariant, when its record fits.
LEMMA StageKeeps ==
    ASSUME UpdateInv, NEW f \in Files, NEW rec, NEW for, PendingFits(f, rec, for),
           Stage(f, rec, for)
    PROVE  UpdateInv'
<1>1. /\ file' = file /\ answers' = answers /\ stage' = [stage EXCEPT ![f] = Torn]
      /\ job' = [at |-> "write", file |-> f, rec |-> rec, for |-> for]
  BY DEF Stage
<1>2. StageFits'
  <2>1. CASE f = "journal"
    BY <1>1, <2>1 DEF UpdateInv, Shapes, StageFits, Files
  <2>2. CASE f # "journal"
    <3>1. stage'["journal"] = stage["journal"]
      BY <1>1, <2>2 DEF UpdateInv, Shapes, Files
    <3> QED
      BY <1>1, <3>1, FactsStay DEF UpdateInv, StageFits
  <2> QED
    BY <2>1, <2>2
<1>3. JobFits'
  <2>1. PendingFits(f, rec, for)'
    BY <1>1, FactsStay
  <2>2. job'.at = "write" /\ job'.file = f /\ job'.rec = rec /\ job'.for = for
    BY <1>1
  <2>3. IsJob(job)'
    BY <1>1, <2>2 DEF IsJob
  <2> QED
    BY <2>1, <2>2, <2>3 DEF JobFits
<1>4. Shapes'
  BY <1>1 DEF UpdateInv, Shapes
<1> QED
  BY <1>1, <1>2, <1>3, <1>4, FactsStay DEF UpdateInv


-----------------------------------------------------------------------------
(* Publication. *)

\* The pending file gets its record.
LEMMA WriteStageKeeps ==
    ASSUME UpdateInv, WriteStage
    PROVE  UpdateInv'
<1>1. PICK f, rec, for : f = job.file /\ rec = job.rec /\ for = job.for  OBVIOUS
<1>2. /\ job = [at |-> "write", file |-> f, rec |-> rec, for |-> for] /\ f \in Files
      /\ PendingFits(f, rec, for)
  <2>1. job # AtRest /\ job.at = "write"
    BY DEF WriteStage, AtRest
  <2> QED
    BY <1>1, <2>1 DEF UpdateInv, JobFits, IsJob
<1>3. /\ file' = file /\ answers' = answers /\ stage' = [stage EXCEPT ![f] = rec]
      /\ job' = [at |-> "publish", file |-> f, rec |-> rec, for |-> for]
  BY <1>1, <1>2 DEF WriteStage
<1>4. StageFits'
  <2>1. CASE f = "journal"
    <3>1. stage'["journal"] = rec /\ Publishable(rec)
      BY <1>2, <1>3, <2>1 DEF UpdateInv, Shapes, Files, PendingFits
    <3> QED
      BY <1>3, <3>1, FactsStay DEF StageFits
  <2>2. CASE f # "journal"
    <3>1. stage'["journal"] = stage["journal"]
      BY <1>2, <1>3, <2>2 DEF UpdateInv, Shapes, Files
    <3> QED
      BY <1>3, <3>1, FactsStay DEF UpdateInv, StageFits
  <2> QED
    BY <2>1, <2>2
<1>5. JobFits'
  <2>1. PendingFits(f, rec, for)'
    BY <1>2, <1>3, FactsStay
  <2>2. job'.at = "publish" /\ job'.file = f /\ job'.rec = rec /\ job'.for = for
    BY <1>3
  <2>3. IsJob(job)'
    BY <1>2, <1>3, <2>2 DEF IsJob
  <2> QED
    BY <2>1, <2>2, <2>3 DEF JobFits
<1>6. Shapes'
  BY <1>3 DEF UpdateInv, Shapes
<1> QED
  BY <1>3, <1>4, <1>5, <1>6, FactsStay DEF UpdateInv

\* The pending file is moved over the published one.
LEMMA PublishStageKeeps ==
    ASSUME UpdateInv, PublishStage
    PROVE  UpdateInv'
<1>1. PICK f, rec, for : f = job.file /\ rec = job.rec /\ for = job.for  OBVIOUS
<1>2. /\ job = [at |-> "publish", file |-> f, rec |-> rec, for |-> for] /\ f \in Files
      /\ PendingFits(f, rec, for)
  <2>1. job # AtRest /\ job.at = "publish"
    BY DEF PublishStage, AtRest
  <2> QED
    BY <1>1, <2>1 DEF UpdateInv, JobFits, IsJob
<1>3. /\ file' = [file EXCEPT ![f] = rec] /\ answers' = answers
      /\ stage' = [stage EXCEPT ![f] = Unwritten]
      /\ job' = [at |-> "published", file |-> f, rec |-> rec, for |-> for]
  BY <1>1, <1>2 DEF PublishStage
<1>4. Shapes'
  BY <1>3 DEF UpdateInv, Shapes
<1>5. /\ job'.at = "published" /\ job'.file = f /\ job'.rec = rec /\ job'.for = for
      /\ IsJob(job)'
  <2>1. job'.at = "published" /\ job'.file = f /\ job'.rec = rec /\ job'.for = for
    BY <1>3
  <2> QED
    BY <1>2, <1>3, <2>1 DEF IsJob
<1>6. CASE f = "journal"
  <2>1. Publishable(rec) /\ IsFor(rec, for)
    BY <1>2, <1>6 DEF PendingFits
  <2>2. /\ file'["journal"] = rec /\ file'["transaction"] = file["transaction"]
        /\ file'["slot"] = file["slot"] /\ stage'["journal"] = Unwritten
    BY <1>3, <1>6 DEF UpdateInv, Shapes, Files
  <2>3. IsJournal(rec) /\ KeepsAnswers(rec)
    BY <2>1 DEF Publishable
  <2>4. Journal' = rec /\ JournalFits'
    BY <2>2, <2>3 DEF Journal, JournalFits, IsJournal
  <2>5. StageFits'
    BY <2>2 DEF StageFits
  <2>6. JobFits'
    BY <1>5, <1>6, <2>1, <2>2, <2>3, <2>4 DEF JobFits, PublishedFits, IsFor, IsJournal
  <2>7. AnswersKept'
    <3>1. \A r : Recorded(r)' = RecordedIn(rec, r)
      BY <2>3, <2>4, JournalIsWritten DEF Recorded, RecordedIn, Written
    <3> QED
      BY <1>3, <2>3, <3>1 DEF AnswersKept, KeepsAnswers
  <2>8. SlotFitsPhase'
    BY <2>2 DEF UpdateInv, SlotFitsPhase
  <2> QED
    BY <1>4, <2>4, <2>5, <2>6, <2>7, <2>8 DEF UpdateInv
<1>7. CASE f # "journal"
  <2>1. file'["journal"] = file["journal"] /\ stage'["journal"] = stage["journal"]
    BY <1>2, <1>3, <1>7 DEF UpdateInv, Shapes, Files
  <2>2. Journal' = Journal /\ (\A r : Recorded(r)' = Recorded(r))
    BY <2>1 DEF Journal, Recorded
  <2>3. JournalFits' /\ AnswersKept'
    BY <1>3, <2>2 DEF UpdateInv, JournalFits, AnswersKept
  <2>4. StageFits'
    BY <1>3, <2>1, <2>2 DEF UpdateInv, StageFits, Publishable, KeepsAnswers, Adoptable
  <2>5. JobFits'
    BY <1>2, <1>5, <1>7 DEF JobFits, PublishedFits, PendingFits
  <2>6. SlotFitsPhase'
    <3>1. CASE f = "transaction"
      <4>1. file'["transaction"] = rec /\ file'["slot"] = file["slot"]
        BY <1>3, <3>1 DEF UpdateInv, Shapes, Files
      <4> QED
        BY <1>2, <3>1, <4>1 DEF SlotFitsPhase, PendingFits
    <3>2. CASE f = "slot"
      <4>1. file'["slot"] = rec /\ file'["transaction"] = file["transaction"]
        BY <1>3, <3>2 DEF UpdateInv, Shapes, Files
      <4> QED
        BY <1>2, <3>2, <4>1 DEF SlotFitsPhase, PendingFits
    <3> QED
      BY <1>2, <1>7, <3>1, <3>2 DEF Files
  <2> QED
    BY <1>4, <2>3, <2>4, <2>5, <2>6 DEF UpdateInv
<1> QED
  BY <1>6, <1>7

\* The finished form of the published journal may be published over it, for
\* the request that the published one is for.
LEMMA FinishFits ==
    ASSUME UpdateInv, Journal # Unwritten, NEW for, IsFor(Journal, for)
    PROVE  PendingFits("journal", Finish(Journal), for)
<1>1. PICK j : j = Journal  OBVIOUS
<1>2. IsJournal(j) /\ KeepsAnswers(j)
  BY <1>1, RecordedIsRecordedIn DEF UpdateInv, KeepsAnswers, AnswersKept
<1>3. PICK k : k = Finish(j)  OBVIOUS
<1>4. PICK d : d = Digest(j)  OBVIOUS
<1>5. k = [kind |-> "journal", gen |-> IF j.owner = worker THEN j.gen ELSE j.gen + 1,
           rev |-> j.rev + 1, prev |-> d, owner |-> worker, phase |-> "unavailable",
           req |-> j.req, tx |-> j.tx, history |-> j.history]
  <2>1. PICK g, v, p, o, h, q, t, y :
          /\ j = [kind |-> "journal", gen |-> g, rev |-> v, prev |-> p, owner |-> o,
                  phase |-> h, req |-> q, tx |-> t, history |-> y]
    BY <1>2 DEF IsJournal
  <2>2. k = [j EXCEPT !.phase = "unavailable", !.owner = worker, !.prev = d,
                      !.rev = v + 1, !.gen = IF o = worker THEN g ELSE g + 1]
    BY <1>3, <1>4, <2>1 DEF Finish
  <2> QED
    BY <2>1, <2>2
<1>6. IsJournal(k)
  BY <1>2, <1>5 DEF IsJournal
<1>7. \A r : RecordedIn(k, r) = RecordedIn(j, r)
  BY <1>5 DEF RecordedIn, Receipt
<1>8. Adoptable(k)
  BY <1>1, <1>2, <1>4, <1>5 DEF Adoptable, Written, IsJournal
<1>9. KeepsAnswers(k)
  BY <1>2, <1>7 DEF KeepsAnswers
<1>10. IsFor(k, for)
  BY <1>1, <1>5, <1>7 DEF IsFor
<1> QED
  BY <1>1, <1>3, <1>6, <1>8, <1>9, <1>10 DEF PendingFits, Publishable


\* A published preauth journal is finished.
LEMMA FinishPreauthKeeps ==
    ASSUME UpdateInv, FinishPreauth
    PROVE  UpdateInv'
<1>1. PICK for : for = job.for  OBVIOUS
<1>2. job # AtRest /\ job.at = "published" /\ job.file = "journal"
  BY DEF FinishPreauth, AtRest
<1>3. job.rec = Journal /\ IsJournal(Journal) /\ IsFor(Journal, for)
  BY <1>1, <1>2 DEF UpdateInv, JobFits, PublishedFits
<1>4. PICK rec : rec = Finish(Journal)  OBVIOUS
<1>5. PendingFits("journal", rec, for)
  BY <1>3, <1>4, FinishFits, JournalIsWritten
<1>6. Stage("journal", rec, for)
  BY <1>1, <1>4 DEF FinishPreauth
<1> QED
  BY <1>5, <1>6, StageKeeps DEF Files

\* The command ends, and a request is answered with the transaction of the
\* journal that was published for it.
LEMMA AnswerKeeps ==
    ASSUME UpdateInv, Answer
    PROVE  UpdateInv'
<1>1. PICK f, rec, for : f = job.file /\ rec = job.rec /\ for = job.for  OBVIOUS
<1>2. job # AtRest /\ job.at = "published"
  BY DEF Answer, AtRest
<1>3. PublishedFits(f, rec, for)
  BY <1>1, <1>2 DEF UpdateInv, JobFits
<1>4. job' = AtRest /\ file' = file /\ stage' = stage
  BY DEF Answer
<1>5. CASE for \notin Requests
  BY <1>1, <1>4, <1>5, RestKeeps DEF Answer
<1>6. CASE for \in Requests
  <2>1. /\ f = "journal" /\ rec = Journal /\ IsJournal(Journal) /\ stage["journal"] = Unwritten
        /\ RecordedIn(Journal, for) = {rec.tx}
    BY <1>3, <1>6, RequestsAssumption DEF PublishedFits, IsFor
  <2>2. answers' = [answers EXCEPT ![for] = @ \cup {rec.tx}]
    BY <1>1, <1>6 DEF Answer
  <2>3. Recorded(for) = {rec.tx}
    BY <2>1, RecordedIsRecordedIn, JournalIsWritten
  <2>4. \A r : Recorded(r)' = Recorded(r)
    BY <1>4 DEF Recorded, Journal
  <2>5. AnswersKept'
    BY <1>6, <2>2, <2>3, <2>4 DEF UpdateInv, Shapes, AnswersKept
  <2>6. Shapes'
    BY <1>4, <2>2 DEF UpdateInv, Shapes
  <2>7. StageFits' /\ JobFits'
    BY <1>4, <2>1 DEF StageFits, JobFits
  <2>8. JournalFits' /\ SlotFitsPhase'
    BY <1>4 DEF UpdateInv, JournalFits, Journal, IsJournal, SlotFitsPhase
  <2> QED
    BY <2>5, <2>6, <2>7, <2>8 DEF UpdateInv
<1> QED
  BY <1>5, <1>6

-----------------------------------------------------------------------------
(* Commands. *)

\* The first journal of a request says of every other request what the
\* published one says.
LEMMA PreauthFits ==
    ASSUME UpdateInv, NEW r \in Requests, Recorded(r) = {}
    PROVE  PendingFits("journal", Preauth(r), r)
<1>1. PICK k : k = Preauth(r)  OBVIOUS
<1>2. PICK d : d = Digest(Journal)  OBVIOUS
<1>3. PICK g, v : /\ g = (IF Written(Journal) THEN Journal.gen + 1 ELSE 1)
                  /\ v = (IF Written(Journal) THEN Journal.rev + 1 ELSE 1)
  OBVIOUS
<1>4. g \in Nat \ {0} /\ v \in Nat
  BY <1>3 DEF UpdateInv, JournalFits, IsJournal, Written
<1>5. k = [kind |-> "journal", gen |-> g, rev |-> v, prev |-> d, owner |-> worker,
           phase |-> "preauth", req |-> r, tx |-> <<worker, v>>, history |-> NextHistory]
  BY <1>1, <1>2, <1>3 DEF Preauth
<1>6. IsJournal(k)
  BY <1>4, <1>5 DEF IsJournal
<1>7. Adoptable(k)
  BY <1>2, <1>3, <1>4, <1>5 DEF Adoptable, Written, UpdateInv, JournalFits, IsJournal
<1>8. Receipt(k) = [req |-> r, tx |-> k.tx] /\ k.req = r
  BY <1>5 DEF Receipt
<1>9. \A s : Recorded(s) = {h.tx : h \in {x \in NextHistory : x.req = s}}
  BY DEF Recorded, NextHistory
<1>10. \A s : RecordedIn(k, s) = Recorded(s) \cup (IF s = r THEN {k.tx} ELSE {})
  <2>1. TAKE s
  <2>2. k.history = NextHistory
    BY <1>5
  <2>3. {x \in NextHistory \cup {Receipt(k)} : x.req = s}
          = {x \in NextHistory : x.req = s} \cup (IF s = r THEN {Receipt(k)} ELSE {})
    BY <1>8
  <2>4. Receipt(k).tx = k.tx
    BY <1>8
  <2> QED
    BY <1>9, <2>2, <2>3, <2>4 DEF RecordedIn
<1>11. KeepsAnswers(k)
  BY <1>10 DEF KeepsAnswers, UpdateInv, AnswersKept
<1>12. IsFor(k, r)
  BY <1>8, <1>10 DEF IsFor
<1> QED
  BY <1>1, <1>6, <1>7, <1>11, <1>12 DEF PendingFits, Publishable

\* A new request.
LEMMA RequestKeeps ==
    ASSUME UpdateInv, NEW r \in Requests, Request(r)
    PROVE  UpdateInv'
<1>1. PICK rec : rec = Preauth(r)  OBVIOUS
<1>2. PendingFits("journal", rec, r)
  BY <1>1, PreauthFits DEF Request
<1>3. Stage("journal", rec, r)
  BY <1>1 DEF Request
<1> QED
  BY <1>2, <1>3, StageKeeps DEF Files

\* A request the journal knows.
LEMMA RepeatRequestKeeps ==
    ASSUME UpdateInv, NEW r \in Requests, RepeatRequest(r)
    PROVE  UpdateInv'
<1>1. /\ file' = file /\ stage' = stage /\ job' = job /\ job = AtRest
      /\ stage["journal"] = Unwritten /\ answers' = [answers EXCEPT ![r] = @ \cup Recorded(r)]
  BY DEF RepeatRequest, WorkerFree
<1>2. \A s : Recorded(s)' = Recorded(s)
  BY <1>1 DEF Recorded, Journal
<1>3. AnswersKept'
  BY <1>1, <1>2 DEF UpdateInv, Shapes, AnswersKept
<1>4. Shapes'
  BY <1>1 DEF UpdateInv, Shapes
<1>5. StageFits' /\ JobFits'
  BY <1>1 DEF StageFits, JobFits
<1>6. JournalFits' /\ SlotFitsPhase'
  BY <1>1 DEF UpdateInv, JournalFits, Journal, IsJournal, SlotFitsPhase
<1> QED
  BY <1>3, <1>4, <1>5, <1>6 DEF UpdateInv

\* A pending journal is taken over as it is.
LEMMA AdoptStageKeeps ==
    ASSUME UpdateInv, AdoptStage
    PROVE  UpdateInv'
<1>1. PICK rec : rec = stage["journal"]  OBVIOUS
<1>2. /\ file' = file /\ stage' = stage /\ answers' = answers
      /\ job' = [at |-> "publish", file |-> "journal", rec |-> rec, for |-> "recover"]
  BY <1>1 DEF AdoptStage
<1>3. Publishable(rec)
  <2>1. rec # Unwritten /\ rec.kind = "journal"
    BY <1>1 DEF AdoptStage, Written, Adoptable
  <2>2. Torn.kind = "torn"
    BY DEF Torn
  <2> QED
    BY <1>1, <2>1, <2>2 DEF UpdateInv, StageFits
<1>4. PendingFits("journal", rec, "recover")
  BY <1>3, RequestsAssumption DEF PendingFits, IsFor
<1>5. JobFits'
  <2>1. PendingFits("journal", rec, "recover")'
    BY <1>2, <1>4, FactsStay
  <2>2. job'.at = "publish" /\ job'.file = "journal" /\ job'.rec = rec /\ job'.for = "recover"
    BY <1>2
  <2>3. IsJob(job)'
    BY <1>2, <2>2 DEF IsJob, Files
  <2> QED
    BY <2>1, <2>2, <2>3 DEF JobFits
<1>6. StageFits' /\ Shapes'
  BY <1>2, FactsStay DEF UpdateInv, StageFits, Shapes
<1> QED
  BY <1>2, <1>5, <1>6, FactsStay DEF UpdateInv

\* A preauth journal of a process that is gone is finished.
LEMMA RecoverPreauthKeeps ==
    ASSUME UpdateInv, RecoverPreauth
    PROVE  UpdateInv'
<1>1. PICK rec : rec = Finish(Journal)  OBVIOUS
<1>2. IsFor(Journal, "recover") /\ Journal # Unwritten
  BY RequestsAssumption DEF RecoverPreauth, IsFor, Written
<1>3. PendingFits("journal", rec, "recover")
  BY <1>1, <1>2, FinishFits
<1>4. Stage("journal", rec, "recover")
  BY <1>1 DEF RecoverPreauth
<1> QED
  BY <1>3, <1>4, StageKeeps DEF Files


-----------------------------------------------------------------------------
(* The transaction store. *)

\* The first selection of the slot, before there is a transaction.
LEMMA InitializeSelectionKeeps ==
    ASSUME UpdateInv, NEW slot, NEW image, NEW data, InitializeSelection(slot, image, data)
    PROVE  UpdateInv'
<1>1. PICK rec : rec = [kind |-> "slot", gen |-> 1, rev |-> 1, prev |-> Unwritten, by |-> 0,
                        slot |-> slot, image |-> image, data |-> data]
  OBVIOUS
<1>2. Stage("slot", rec, "store") /\ file["transaction"] = Unwritten
  BY <1>1 DEF InitializeSelection
<1>3. PendingFits("slot", rec, "store")
  BY <1>2 DEF PendingFits, ValidSelectionPhase, Written
<1> QED
  BY <1>2, <1>3, StageKeeps DEF Files

\* A new transaction is checked against the published slot.
LEMMA CreateTransactionKeeps ==
    ASSUME UpdateInv, NEW image, NEW data, CreateTransaction(image, data)
    PROVE  UpdateInv'
<1>1. PICK rec : Stage("transaction", rec, "store") /\ ValidSelectionPhase(rec, file["slot"])
  BY DEF CreateTransaction
<1>2. PendingFits("transaction", rec, "store")
  BY <1>1 DEF PendingFits
<1> QED
  BY <1>1, <1>2, StageKeeps DEF Files

\* A transaction that advances is checked against the published slot.
LEMMA AdvanceTransactionKeeps ==
    ASSUME UpdateInv, NEW q, AdvanceTransaction(q)
    PROVE  UpdateInv'
<1>1. PICK rec : Stage("transaction", rec, "store") /\ ValidSelectionPhase(rec, file["slot"])
  BY DEF AdvanceTransaction
<1>2. PendingFits("transaction", rec, "store")
  BY <1>1 DEF PendingFits
<1> QED
  BY <1>1, <1>2, StageKeeps DEF Files

\* The record of a selection, and that it is one.
LEMMA SelectedFits ==
    ASSUME NEW t, NEW s, NEW place
    PROVE  /\ Written(Selected(t, s, place))
           /\ place = t.candidate => IsCandidateSelection(t, Selected(t, s, place))
           /\ place = t.previous => IsPreviousSelection(t, Selected(t, s, place))
<1>1. PICK v, d : v = (IF s.gen = t.gen THEN s.rev + 1 ELSE 1) /\ d = Digest(s)  OBVIOUS
<1>2. PICK rec : rec = Selected(t, s, place)  OBVIOUS
<1>3. rec = [kind |-> "slot", gen |-> t.gen, rev |-> v, prev |-> d, by |-> t.gen,
             slot |-> place.slot, image |-> place.image, data |-> place.data]
  BY <1>1, <1>2 DEF Selected
<1>4. Written(rec)
  <2>1. rec.kind = "slot" /\ Unwritten.kind = "none"
    BY <1>3 DEF Unwritten
  <2> QED
    BY <2>1 DEF Written
<1>5. place = t.candidate => IsCandidateSelection(t, rec)
  BY <1>3 DEF IsCandidateSelection
<1>6. place = t.previous => IsPreviousSelection(t, rec)
  BY <1>3 DEF IsPreviousSelection
<1> QED
  BY <1>2, <1>4, <1>5, <1>6

\* The slot becomes the candidate.
LEMMA SelectCandidateKeeps ==
    ASSUME UpdateInv, SelectCandidate
    PROVE  UpdateInv'
<1>1. PICK t, s : t = file["transaction"] /\ s = file["slot"]  OBVIOUS
<1>2. PICK rec : rec = Selected(t, s, t.candidate)  OBVIOUS
<1>3. Stage("slot", rec, "store") /\ t.phase = "candidate_selection_intent"
  BY <1>1, <1>2 DEF SelectCandidate, InPhase
<1>4. Written(rec) /\ IsCandidateSelection(t, rec)
  BY <1>2, SelectedFits
<1>5. ValidSelectionPhase(t, rec)
  BY <1>3, <1>4 DEF ValidSelectionPhase
<1>6. PendingFits("slot", rec, "store")
  BY <1>1, <1>5 DEF PendingFits
<1> QED
  BY <1>3, <1>6, StageKeeps DEF Files

\* The slot becomes what it was.
LEMMA SelectPreviousKeeps ==
    ASSUME UpdateInv, SelectPrevious
    PROVE  UpdateInv'
<1>1. PICK t, s : t = file["transaction"] /\ s = file["slot"]  OBVIOUS
<1>2. PICK rec : rec = Selected(t, s, t.previous)  OBVIOUS
<1>3. Stage("slot", rec, "store") /\ t.phase = "previous_selection_intent"
  BY <1>1, <1>2 DEF SelectPrevious, InPhase
<1>4. Written(rec) /\ IsPreviousSelection(t, rec)
  BY <1>2, SelectedFits
<1>5. ValidSelectionPhase(t, rec)
  BY <1>3, <1>4 DEF ValidSelectionPhase
<1>6. PendingFits("slot", rec, "store")
  BY <1>1, <1>5 DEF PendingFits
<1> QED
  BY <1>3, <1>6, StageKeeps DEF Files

-----------------------------------------------------------------------------
(* The theorems about the update worker. *)

\* The files before the first worker, which no invariant can fault.
LEMMA UpdateStarts == InitUpdate => UpdateInv
<1> SUFFICES ASSUME InitUpdate PROVE UpdateInv
  OBVIOUS
<1>1. Journal = Unwritten /\ stage["journal"] = Unwritten /\ file["transaction"] = Unwritten
  BY DEF InitUpdate, Journal, Files
<1>2. Shapes
  BY DEF InitUpdate, Shapes
<1>3. JournalFits /\ StageFits /\ JobFits /\ SlotFitsPhase
  BY <1>1 DEF InitUpdate, JournalFits, StageFits, JobFits, SlotFitsPhase,
              ValidSelectionPhase, Written
<1>4. AnswersKept
  BY DEF InitUpdate, AnswersKept
<1> QED
  BY <1>2, <1>3, <1>4 DEF UpdateInv

\* No step of a worker, its death and its failures included, breaks the
\* invariant.
LEMMA UpdateStepKeeps == UpdateInv /\ [NextUpdate]_updateVars => UpdateInv'
<1> SUFFICES ASSUME UpdateInv, [NextUpdate]_updateVars PROVE UpdateInv'
  OBVIOUS
<1>1. CASE UNCHANGED updateVars
  BY <1>1, RestKeeps DEF updateVars
<1>2. CASE StartWorker \/ WorkerCrash \/ WorkerThrows
  BY <1>2, RestKeeps DEF StartWorker, WorkerCrash, WorkerThrows
<1>3. CASE WriteStage
  BY <1>3, WriteStageKeeps
<1>4. CASE PublishStage
  BY <1>4, PublishStageKeeps
<1>5. CASE FinishPreauth
  BY <1>5, FinishPreauthKeeps
<1>6. CASE Answer
  BY <1>6, AnswerKeeps
<1>7. CASE \E r \in Requests : Request(r) \/ RepeatRequest(r)
  BY <1>7, RequestKeeps, RepeatRequestKeeps
<1>8. CASE AdoptStage \/ RecoverPreauth
  BY <1>8, AdoptStageKeeps, RecoverPreauthKeeps
<1>9. CASE \E slot \in {"A", "B"}, i, d \in Images : InitializeSelection(slot, i, d)
  BY <1>9, InitializeSelectionKeeps
<1>10. CASE \E i, d \in Images : CreateTransaction(i, d)
  BY <1>10, CreateTransactionKeeps
<1>11. CASE \E q \in UpdatePhases : AdvanceTransaction(q)
  BY <1>11, AdvanceTransactionKeeps
<1>12. CASE SelectCandidate \/ SelectPrevious
  BY <1>12, SelectCandidateKeeps, SelectPreviousKeeps
<1> QED
  BY <1>1, <1>2, <1>3, <1>4, <1>5, <1>6, <1>7, <1>8, <1>9, <1>10, <1>11, <1>12
  DEF NextUpdate

\* The files and the publication under way fit each other in every state the
\* workers can reach, however many of them die.
THEOREM UpdateHolds == SpecUpdate => []UpdateInv
  BY UpdateStarts, UpdateStepKeeps, PTL DEF SpecUpdate

\* A request that was answered keeps its one transaction on disk
\* (UpdateWorkerCore: a repeat is answered from the journal).
THEOREM AnswersAlwaysKept == SpecUpdate => []AnswersKept
<1>1. UpdateInv => AnswersKept
  BY DEF UpdateInv
<1> QED
  BY <1>1, UpdateHolds, PTL

\* A pending journal that was written whole passes the checks of recovery,
\* wherever the worker that wrote it died (UpdateWorkerCore, pending journal).
THEOREM StagedAlwaysAdoptable == SpecUpdate => []StagedIsAdoptable
<1>1. UpdateInv => StagedIsAdoptable
  BY DEF UpdateInv, StageFits, Publishable, StagedIsAdoptable
<1> QED
  BY <1>1, UpdateHolds, PTL

\* The published slot is one the phase of the published transaction allows
\* (UpdateTransactionStore.ValidateSelectionPhase).
THEOREM SlotAlwaysFits == SpecUpdate => []SlotFitsPhase
<1>1. UpdateInv => SlotFitsPhase
  BY DEF UpdateInv
<1> QED
  BY <1>1, UpdateHolds, PTL


-----------------------------------------------------------------------------
(* The canonical database under the lifecycle lock. *)

\* The user's data is in a backup before anything moves the database.
UserKept == \/ "user" \in archive
            \/ /\ canonical = "user"
               /\ \A p \in Pids : pc[p] \notin {"saved", "aside", "swapped"}

\* One process is inside the lock.
OneInside == \A p, q \in Pids : pc[p] \in UnderLock /\ pc[q] \in UnderLock => p = q

\* A database that is away is covered by a claim, whose owner is dead or can
\* still put it back; who is about to connect finds a database; and none is
\* blank.
Restoring == {"claimed", "copied", "saved", "aside", "swapped"}
AwayIsClaimed == canonical = NoFile =>
    \E q \in claims : pc[q] = "dead" \/ (pc[q] = "aside" /\ aside # NoFile)
NoneIsBlank == /\ canonical # "blank" /\ aside # "blank"
               /\ \A p \in Pids : conn[p] # "blank"
Guarded == /\ OneInside /\ AwayIsClaimed /\ NoneIsBlank
           /\ \A p \in Pids : pc[p] \in Restoring => p \in claims
           /\ \A p \in Pids : pc[p] = "opening" => canonical # NoFile

\* Who works on a database has one.
Connected == \A p \in Pids : pc[p] \in {"opened", "schema", "use"} => conn[p] # NoFile
WellFormed == LifecycleTypeOK /\ Connected

LifecycleInv == WellFormed /\ UserKept /\ (LockIsExclusive => Guarded)

\* A process that goes from one place to another.
LEMMA Proceeds ==
    ASSUME LifecycleTypeOK, NEW p \in Pids, NEW from, NEW to, Proceed(p, from, to)
    PROVE  /\ pc[p] = from /\ pc'[p] = to
           /\ \A q \in Pids : q # p => pc'[q] = pc[q]
  BY DEF LifecycleTypeOK, Proceed

\* Every step keeps the types, and a connection for whoever needs one.
LEMMA LifecycleTypes == WellFormed /\ [LifecycleNext]_dbVars => WellFormed'
<1> SUFFICES ASSUME WellFormed, [LifecycleNext]_dbVars PROVE WellFormed'
  OBVIOUS
<1>1. CASE UNCHANGED dbVars
  BY <1>1 DEF WellFormed, Connected, LifecycleTypeOK, dbVars
<1>2. ASSUME NEW p \in Pids, LockStep(p) PROVE WellFormed'
  <2>1. CASE Begins(p) \/ CreateLock(p) \/ JudgeLock(p) \/ ReclaimLock(p)
    BY <2>1 DEF WellFormed, Connected, LifecycleTypeOK, Begins, CreateLock, JudgeLock, ReclaimLock, Proceed, UnderLock
  <2>2. ASSUME NEW next \in {"wait", "use", "dead"}, DropLock(p, next) PROVE WellFormed'
    BY <2>2 DEF WellFormed, Connected, LifecycleTypeOK, DropLock, Errands
  <2> QED
    BY <1>2, <2>1, <2>2 DEF LockStep
<1>3. ASSUME NEW p \in Pids, RestoreStep(p) PROVE WellFormed'
  <2>1. CASE RestoreNothing(p) \/ RestoreClaim(p) \/ RestoreCopy(p)
    BY <2>1 DEF WellFormed, Connected, LifecycleTypeOK, RestoreNothing, RestoreClaim, RestoreCopy, Proceed, UnderLock
  <2>2. CASE RestoreSave(p)
    BY <2>2 DEF WellFormed, Connected, LifecycleTypeOK, RestoreSave, Proceed, UnderLock
  <2>3. CASE RestoreAside(p) \/ RestoreSwap(p)
    BY <2>3 DEF WellFormed, Connected, LifecycleTypeOK, RestoreAside, RestoreSwap, Proceed, UnderLock, Data
  <2>4. CASE RestoreFinish(p) \/ RestoreFails(p)
    BY <2>4 DEF WellFormed, Connected, LifecycleTypeOK, RestoreFinish, RestoreFails, Proceed, UnderLock
  <2> QED
    BY <1>3, <2>1, <2>2, <2>3, <2>4 DEF RestoreStep
<1>4. ASSUME NEW p \in Pids, OpenStep(p) PROVE WellFormed'
  <2>1. CASE OpenRefused(p) \/ OpenChecked(p) \/ OpenVerified(p) \/ MigrateFails(p)
    BY <2>1 DEF WellFormed, Connected, LifecycleTypeOK, OpenRefused, OpenChecked, OpenVerified, MigrateFails, Proceed, UnderLock
  <2>2. CASE OpenConnect(p)
    BY <2>2 DEF WellFormed, Connected, LifecycleTypeOK, OpenConnect, Proceed, UnderLock, Data, NoFile
  <2>3. CASE Migrate(p)
    <3>1. pc[p] = "schema" /\ conn[p] \in Data
      BY <2>3 DEF Migrate, Proceed, WellFormed, Connected, LifecycleTypeOK
    <3> QED
      BY <2>3, <3>1 DEF WellFormed, Connected, LifecycleTypeOK, Migrate, Proceed, UnderLock
  <2> QED
    BY <1>4, <2>1, <2>2, <2>3 DEF OpenStep
<1>5. ASSUME NEW p \in Pids, UseStep(p) PROVE WellFormed'
  <2>1. CASE ScheduleRestore(p) \/ NoticeReplaced(p)
    BY <2>1 DEF WellFormed, Connected, LifecycleTypeOK, ScheduleRestore, NoticeReplaced, Proceed, Errands
  <2>2. CASE BackUp(p)
    <3>1. conn[p] \in Data
      BY <2>2 DEF BackUp, WellFormed, Connected, LifecycleTypeOK
    <3> QED
      BY <2>2, <3>1 DEF WellFormed, Connected, LifecycleTypeOK, BackUp
  <2>3. CASE Refresh(p)
    BY <2>3 DEF WellFormed, Connected, LifecycleTypeOK, Refresh, Proceed, UnderLock
  <2> QED
    BY <1>5, <2>1, <2>2, <2>3 DEF UseStep
<1>6. ASSUME NEW p \in Pids, Kill(p) PROVE WellFormed'
  BY <1>6 DEF WellFormed, Connected, LifecycleTypeOK, Kill
<1> QED
  BY <1>1, <1>2, <1>3, <1>4, <1>5, <1>6 DEF LifecycleNext


\* The user's data is not lost, whoever is inside the lock.
LEMMA UserStays ==
    ASSUME WellFormed, UserKept, [LifecycleNext]_dbVars
    PROVE  UserKept'
<1>1. CASE "user" \in archive
  <2>1. archive \subseteq archive'
    <3>1. CASE UNCHANGED dbVars
      BY <3>1 DEF dbVars
    <3>2. ASSUME NEW p \in Pids, LockStep(p) \/ Kill(p) PROVE archive \subseteq archive'
      BY <3>2 DEF LockStep, Begins, CreateLock, JudgeLock, ReclaimLock, DropLock, Kill
    <3>3. ASSUME NEW p \in Pids, RestoreStep(p) PROVE archive \subseteq archive'
      BY <3>3 DEF RestoreStep, RestoreNothing, RestoreClaim, RestoreCopy, RestoreSave,
                  RestoreAside, RestoreSwap, RestoreFinish, RestoreFails
    <3>4. ASSUME NEW p \in Pids, OpenStep(p) \/ UseStep(p) PROVE archive \subseteq archive'
      BY <3>4 DEF OpenStep, OpenRefused, OpenChecked, OpenConnect, OpenVerified, Migrate,
                  MigrateFails, UseStep, ScheduleRestore, BackUp, NoticeReplaced, Refresh
    <3> QED
      BY <3>1, <3>2, <3>3, <3>4 DEF LifecycleNext
  <2> QED
    BY <1>1, <2>1 DEF UserKept
<1>2. CASE /\ canonical = "user"
           /\ \A p \in Pids : pc[p] \notin {"saved", "aside", "swapped"}
  <2> USE DEF WellFormed, LifecycleTypeOK
  <2>1. CASE UNCHANGED dbVars
    BY <1>2, <2>1 DEF dbVars, UserKept
  <2>2. ASSUME NEW p \in Pids, LockStep(p) \/ Kill(p) PROVE UserKept'
    BY <1>2, <2>2 DEF UserKept, Proceed, LockStep, Begins, CreateLock, JudgeLock, ReclaimLock, DropLock, Kill
  <2>3. ASSUME NEW p \in Pids, RestoreNothing(p) \/ RestoreClaim(p) \/ RestoreCopy(p) PROVE UserKept'
    BY <1>2, <2>3 DEF UserKept, Proceed, RestoreNothing, RestoreClaim, RestoreCopy
  <2>4. ASSUME NEW p \in Pids, RestoreSave(p) PROVE UserKept'
    BY <1>2, <2>4 DEF UserKept, RestoreSave, NoFile
  <2>5. ASSUME NEW p \in Pids, RestoreAside(p) \/ RestoreSwap(p) \/ RestoreFinish(p) PROVE UserKept'
    BY <1>2, <2>5 DEF Proceed, RestoreAside, RestoreSwap, RestoreFinish
  <2>6. ASSUME NEW p \in Pids, RestoreFails(p) PROVE UserKept'
    BY <1>2, <2>6 DEF UserKept, RestoreFails
  <2>7. ASSUME NEW p \in Pids, OpenStep(p) PROVE UserKept'
    BY <1>2, <2>7 DEF UserKept, Proceed, OpenStep, OpenRefused, OpenChecked, OpenConnect,
                      OpenVerified, Migrate, MigrateFails, NoFile
  <2>8. ASSUME NEW p \in Pids, UseStep(p) PROVE UserKept'
    BY <1>2, <2>8 DEF UserKept, Proceed, UseStep, ScheduleRestore, BackUp, NoticeReplaced, Refresh
  <2> QED
    BY <2>1, <2>2, <2>3, <2>4, <2>5, <2>6, <2>7, <2>8 DEF LifecycleNext, RestoreStep
<1> QED
  BY <1>1, <1>2 DEF UserKept

\* A process that stays or leaves, and a database that stays where it is,
\* keep the guard.
LEMMA QuietKeepsGuard ==
    ASSUME WellFormed, Guarded, WellFormed', NEW p \in Pids,
           canonical' = canonical, aside' = aside, claims \subseteq claims',
           \A q \in Pids : q # p => pc'[q] = pc[q] /\ conn'[q] = conn[q],
           pc'[p] \in UnderLock => pc[p] \in UnderLock,
           pc'[p] \in Restoring => pc[p] \in Restoring \/ p \in claims',
           pc'[p] = "opening" => canonical # NoFile,
           pc[p] \notin {"dead", "aside"} \/ pc'[p] \in {"dead", pc[p]},
           conn'[p] # "blank"
    PROVE  Guarded'
<1>1. OneInside'
  BY DEF Guarded, OneInside
<1>2. AwayIsClaimed'
  <2> SUFFICES ASSUME canonical = NoFile
               PROVE  \E q \in claims' : pc'[q] = "dead" \/ (pc'[q] = "aside" /\ aside' # NoFile)
    BY DEF AwayIsClaimed
  <2>1. PICK q \in claims : pc[q] = "dead" \/ (pc[q] = "aside" /\ aside # NoFile)
    BY DEF Guarded, AwayIsClaimed
  <2>2. q \in Pids
    BY <2>1 DEF WellFormed, LifecycleTypeOK
  <2>3. pc'[q] = "dead" \/ (pc'[q] = "aside" /\ aside # NoFile)
    BY <2>1, <2>2
  <2> QED
    BY <2>1, <2>3
<1>3. NoneIsBlank'
  BY DEF Guarded, NoneIsBlank
<1>4. \A q \in Pids : pc'[q] \in Restoring => q \in claims'
  BY DEF Guarded
<1>5. \A q \in Pids : pc'[q] = "opening" => canonical' # NoFile
  BY DEF Guarded
<1> QED
  BY <1>1, <1>2, <1>3, <1>4, <1>5 DEF Guarded


\* The steps of the lock itself: entering it finds nobody inside, or the two
\* overlap.
LEMMA LockKeepsGuard ==
    ASSUME WellFormed, Guarded, WellFormed', ~overlap', NEW p \in Pids, LockStep(p) \/ Kill(p)
    PROVE  Guarded'
<1> USE DEF WellFormed, LifecycleTypeOK
<1>1. NoneIsBlank
  BY DEF Guarded
<1>2. CASE CreateLock(p)
  <2>1. /\ pc[p] = "wait" /\ pc'[p] = "start" /\ (\A q \in Pids : q # p => pc'[q] = pc[q])
        /\ canonical' = canonical /\ aside' = aside /\ claims' = claims /\ conn' = conn
    BY <1>2 DEF CreateLock, Proceed
  <2>2. \A q \in Pids : pc[q] \notin UnderLock
    BY <1>2 DEF CreateLock
  <2>3. OneInside'
    BY <2>1, <2>2 DEF OneInside
  <2>4. AwayIsClaimed'
    BY <2>1 DEF Guarded, AwayIsClaimed
  <2>5. NoneIsBlank'
    BY <2>1 DEF Guarded, NoneIsBlank
  <2>6. \A q \in Pids : /\ pc'[q] \in Restoring => q \in claims'
                        /\ pc'[q] = "opening" => canonical' # NoFile
    BY <2>1 DEF Guarded, Restoring
  <2> QED
    BY <2>3, <2>4, <2>5, <2>6 DEF Guarded
<1>3. CASE Begins(p) \/ JudgeLock(p) \/ ReclaimLock(p)
  BY <1>1, <1>3, QuietKeepsGuard
  DEF Begins, JudgeLock, ReclaimLock, Proceed, UnderLock, Restoring, NoneIsBlank
<1>4. CASE \E next \in {"wait", "use", "dead"} : DropLock(p, next)
  BY <1>1, <1>4, QuietKeepsGuard DEF DropLock, UnderLock, Restoring, NoneIsBlank
<1>5. CASE Kill(p)
  BY <1>1, <1>5, QuietKeepsGuard DEF Kill, UnderLock, Restoring, NoneIsBlank, NoFile
<1> QED
  BY <1>2, <1>3, <1>4, <1>5 DEF LockStep

\* The steps of a restore.
LEMMA RestoreKeepsGuard ==
    ASSUME WellFormed, Guarded, WellFormed', NEW p \in Pids, RestoreStep(p)
    PROVE  Guarded'
<1> USE DEF WellFormed, LifecycleTypeOK
<1>1. /\ NoneIsBlank /\ OneInside
      /\ \A q \in Pids : pc[q] \in Restoring => q \in claims
  BY DEF Guarded
<1>2. CASE RestoreNothing(p) \/ RestoreClaim(p) \/ RestoreCopy(p) \/ RestoreSave(p)
  BY <1>1, <1>2, QuietKeepsGuard
  DEF RestoreNothing, RestoreClaim, RestoreCopy, RestoreSave, Proceed, UnderLock, Restoring, NoneIsBlank
<1>3. ASSUME pc[p] \in Restoring, NEW q \in Pids, q # p
      PROVE  pc[q] \notin UnderLock /\ pc[q] # "aside" /\ pc[q] # "opening"
  BY <1>1, <1>3 DEF OneInside, Restoring, UnderLock
<1>4. ASSUME pc[p] \in Restoring, pc'[p] \in UnderLock,
             \A q \in Pids : q # p => pc'[q] = pc[q],
             pc'[p] \in Restoring => p \in claims', pc'[p] # "opening",
             claims \subseteq claims' \cup {p}
      PROVE  /\ OneInside'
             /\ \A q \in Pids : /\ pc'[q] \in Restoring => q \in claims'
                                /\ pc'[q] = "opening" => canonical' # NoFile
  <2>1. OneInside'
    BY <1>3, <1>4 DEF OneInside
  <2>2. \A q \in Pids : pc'[q] \in Restoring => q \in claims'
    BY <1>1, <1>4
  <2>3. \A q \in Pids : pc'[q] = "opening" => canonical' # NoFile
    BY <1>3, <1>4
  <2> QED
    BY <2>1, <2>2, <2>3
<1>5. CASE RestoreAside(p)
  <2>1. /\ pc[p] = "saved" /\ pc'[p] = "aside" /\ (\A q \in Pids : q # p => pc'[q] = pc[q])
        /\ aside' = canonical /\ canonical' = NoFile /\ claims' = claims /\ conn' = conn
    BY <1>5 DEF RestoreAside, Proceed
  <2>2. p \in claims /\ pc[p] \in Restoring
    BY <1>1, <2>1 DEF Restoring
  <2>3. AwayIsClaimed'
    <3>1. CASE canonical # NoFile
      BY <2>1, <2>2, <3>1 DEF AwayIsClaimed
    <3>2. CASE canonical = NoFile
      <4>1. PICK q \in claims : pc[q] = "dead" \/ (pc[q] = "aside" /\ aside # NoFile)
        BY <3>2 DEF Guarded, AwayIsClaimed
      <4>2. q \in Pids /\ q # p
        BY <2>1, <4>1
      <4>3. pc'[q] = "dead"
        BY <1>3, <2>1, <2>2, <4>1, <4>2
      <4> QED
        BY <2>1, <4>1, <4>3 DEF AwayIsClaimed
    <3> QED
      BY <3>1, <3>2
  <2>4. NoneIsBlank'
    BY <1>1, <2>1 DEF NoneIsBlank, NoFile
  <2> QED
    BY <1>4, <2>1, <2>2, <2>3, <2>4 DEF Guarded, Restoring, UnderLock
<1>6. CASE RestoreSwap(p)
  <2>1. /\ pc[p] = "aside" /\ pc'[p] = "swapped" /\ (\A q \in Pids : q # p => pc'[q] = pc[q])
        /\ aside' = aside /\ canonical' = "backup" /\ claims' = claims /\ conn' = conn
    BY <1>6 DEF RestoreSwap, Proceed
  <2>2. AwayIsClaimed' /\ NoneIsBlank'
    BY <1>1, <2>1 DEF AwayIsClaimed, NoneIsBlank, NoFile
  <2> QED
    BY <1>1, <1>4, <2>1, <2>2 DEF Guarded, Restoring, UnderLock
<1>7. CASE RestoreFinish(p)
  <2>1. /\ pc[p] = "swapped" /\ pc'[p] = "done" /\ (\A q \in Pids : q # p => pc'[q] = pc[q])
        /\ aside' = NoFile /\ canonical' = canonical /\ claims' = claims \ {p} /\ conn' = conn
    BY <1>7 DEF RestoreFinish, Proceed
  <2>2. AwayIsClaimed'
    <3> SUFFICES ASSUME canonical = NoFile
                 PROVE  \E q \in claims' : pc'[q] = "dead"
      BY <2>1 DEF AwayIsClaimed
    <3>1. PICK q \in claims : pc[q] = "dead" \/ (pc[q] = "aside" /\ aside # NoFile)
      BY DEF Guarded, AwayIsClaimed
    <3>2. q \in Pids /\ q # p
      BY <2>1, <3>1
    <3>3. pc'[q] = "dead"
      BY <1>3, <2>1, <3>1, <3>2 DEF Restoring
    <3> QED
      BY <2>1, <3>1, <3>2, <3>3
  <2>3. NoneIsBlank'
    BY <1>1, <2>1 DEF NoneIsBlank, NoFile
  <2> QED
    BY <1>1, <1>4, <2>1, <2>2, <2>3 DEF Guarded, Restoring, UnderLock
<1>8. CASE RestoreFails(p)
  <2>1. /\ pc[p] \in {"claimed", "copied", "saved", "aside"} /\ pc'[p] = "done"
        /\ (\A q \in Pids : q # p => pc'[q] = pc[q])
        /\ claims' = claims \ {p} /\ conn' = conn
        /\ IF pc[p] = "aside" /\ aside # NoFile /\ canonical = NoFile
           THEN canonical' = aside /\ aside' = NoFile
           ELSE canonical' = canonical /\ aside' = aside
    BY <1>8 DEF RestoreFails
  <2>2. AwayIsClaimed'
    <3> SUFFICES ASSUME canonical' = NoFile
                 PROVE  \E q \in claims' : pc'[q] = "dead"
      BY DEF AwayIsClaimed
    <3>1. canonical = NoFile /\ ~(pc[p] = "aside" /\ aside # NoFile)
      BY <2>1
    <3>2. PICK q \in claims : pc[q] = "dead" \/ (pc[q] = "aside" /\ aside # NoFile)
      BY <3>1 DEF Guarded, AwayIsClaimed
    <3>3. q \in Pids /\ q # p
      BY <2>1, <3>1, <3>2
    <3>4. pc'[q] = "dead"
      BY <1>3, <2>1, <3>2, <3>3 DEF Restoring
    <3> QED
      BY <2>1, <3>2, <3>3, <3>4
  <2>3. NoneIsBlank'
    BY <1>1, <2>1 DEF NoneIsBlank, NoFile
  <2> QED
    BY <1>1, <1>4, <2>1, <2>2, <2>3 DEF Guarded, Restoring, UnderLock
<1> QED
  BY <1>2, <1>5, <1>6, <1>7, <1>8 DEF RestoreStep

\* The steps of opening and of using the database.
LEMMA OpenKeepsGuard ==
    ASSUME WellFormed, Guarded, WellFormed', NEW p \in Pids, OpenStep(p) \/ UseStep(p)
    PROVE  Guarded'
<1> USE DEF WellFormed, LifecycleTypeOK
<1>1. NoneIsBlank /\ AwayIsClaimed
  BY DEF Guarded
<1>2. CASE OpenRefused(p)
  BY <1>1, <1>2, QuietKeepsGuard DEF OpenRefused, UnderLock, Restoring, NoneIsBlank, NoFile
<1>3. CASE OpenChecked(p)
  <2>1. canonical # NoFile
    BY <1>1, <1>3 DEF OpenChecked, AwayIsClaimed
  <2> QED
    BY <1>1, <1>3, <2>1, QuietKeepsGuard DEF OpenChecked, Proceed, UnderLock, Restoring, NoneIsBlank
<1>4. CASE OpenConnect(p)
  <2>1. canonical # NoFile
    BY <1>4 DEF OpenConnect, Proceed, Guarded
  <2> QED
    BY <1>1, <1>4, <2>1, QuietKeepsGuard DEF OpenConnect, Proceed, UnderLock, Restoring, NoneIsBlank
<1>5. CASE OpenVerified(p) \/ Migrate(p) \/ MigrateFails(p)
  BY <1>1, <1>5, QuietKeepsGuard
  DEF OpenVerified, Migrate, MigrateFails, Proceed, UnderLock, Restoring, NoneIsBlank, NoFile
<1>6. CASE ScheduleRestore(p) \/ BackUp(p) \/ NoticeReplaced(p)
  BY <1>1, <1>6, QuietKeepsGuard
  DEF ScheduleRestore, BackUp, NoticeReplaced, Proceed, UnderLock, Restoring, NoneIsBlank
<1>7. CASE Refresh(p)
  BY <1>1, <1>7, QuietKeepsGuard DEF Refresh, Proceed, UnderLock, Restoring, NoneIsBlank
<1> QED
  BY <1>2, <1>3, <1>4, <1>5, <1>6, <1>7 DEF OpenStep, UseStep

\* Once two processes were inside the lock, that stays known.
LEMMA OverlapStays ==
    ASSUME [LifecycleNext]_dbVars, overlap
    PROVE  overlap'
<1>1. CASE UNCHANGED dbVars
  BY <1>1 DEF dbVars
<1>2. ASSUME NEW p \in Pids, LockStep(p) \/ Kill(p) PROVE overlap'
  BY <1>2 DEF LockStep, Begins, CreateLock, JudgeLock, ReclaimLock, DropLock, Kill
<1>3. ASSUME NEW p \in Pids, RestoreStep(p) PROVE overlap'
  BY <1>3 DEF RestoreStep, RestoreNothing, RestoreClaim, RestoreCopy, RestoreSave,
              RestoreAside, RestoreSwap, RestoreFinish, RestoreFails
<1>4. ASSUME NEW p \in Pids, OpenStep(p) \/ UseStep(p) PROVE overlap'
  BY <1>4 DEF OpenStep, OpenRefused, OpenChecked, OpenConnect, OpenVerified, Migrate,
              MigrateFails, UseStep, ScheduleRestore, BackUp, NoticeReplaced, Refresh
<1> QED
  BY <1>1, <1>2, <1>3, <1>4 DEF LifecycleNext

-----------------------------------------------------------------------------
(* The theorem about the database. *)

\* The user's data survives a restore that is killed anywhere, and while the
\* lock has let in one process at a time nobody works on a blank database
\* (applyPendingSqliteRestoreUnlocked, assertNoConcurrentRestore).
THEOREM DataAlwaysKept == LifecycleSpec => []DataKept
<1>1. LifecycleInit => LifecycleInv
  <2> SUFFICES ASSUME LifecycleInit PROVE LifecycleInv
    OBVIOUS
  <2>1. WellFormed /\ UserKept
    BY DEF LifecycleInit, WellFormed, Connected, LifecycleTypeOK, UserKept, Errands, Data
  <2>2. Guarded
    BY DEF LifecycleInit, Guarded, OneInside, AwayIsClaimed, NoneIsBlank, Restoring, UnderLock, NoFile
  <2> QED
    BY <2>1, <2>2 DEF LifecycleInv
<1>2. LifecycleInv /\ [LifecycleNext]_dbVars => LifecycleInv'
  <2> SUFFICES ASSUME LifecycleInv, [LifecycleNext]_dbVars PROVE LifecycleInv'
    OBVIOUS
  <2>1. WellFormed' /\ UserKept'
    BY LifecycleTypes, UserStays DEF LifecycleInv
  <2>2. ASSUME ~overlap' PROVE Guarded'
    <3>1. Guarded /\ WellFormed
      BY <2>2, OverlapStays DEF LifecycleInv, LockIsExclusive
    <3>2. CASE UNCHANGED dbVars
      BY <3>1, <3>2 DEF dbVars, Guarded, OneInside, AwayIsClaimed, NoneIsBlank
    <3> QED
      BY <2>1, <2>2, <3>1, <3>2, LockKeepsGuard, RestoreKeepsGuard, OpenKeepsGuard
      DEF LifecycleNext
  <2> QED
    BY <2>1, <2>2 DEF LifecycleInv, LockIsExclusive
<1>3. LifecycleInv => DataKept
  BY DEF LifecycleInv, UserKept, Guarded, NoneIsBlank, DataKept
<1> QED
  BY <1>1, <1>2, <1>3, PTL DEF LifecycleSpec

-----------------------------------------------------------------------------
(* The automation runs: the steps a call may have before it. *)

\* The steps that only advance takes.
WorkOps == {"milestone", "reserve", "attempt", "evidence", "observeUnresolved",
            "observeInFlight", "verify", "launch", "reply"}

Steps == {ToRun(s) : s \in RunStatuses} \cup {Sync, [op |-> "cancelGoal"], [op |-> "finishGoal"]}
    \cup {ToMilestone(m, s) : m \in Milestones, s \in {"ready", "dispatching"}}
    \cup {ReserveAttempt(m) : m \in Milestones}
    \cup {UpdateAttempt(m, s, ms) : m \in Milestones, s \in DispatchStatuses,
                                    ms \in {"running", "verifying", "blocked", "failed"}}
    \cup {RecordVerification(m, v) : m \in Milestones, v \in Verdicts}
    \cup {Await(op, m) : op \in {"observeUnresolved", "observeInFlight", "verify", "launch", "reply"},
                         m \in Milestones}

\* A step about a milestone, and one that needs an attempt of it.
Works(x) == x.op \in WorkOps
Needs(x) == x.op \in WorkOps \ {"milestone", "reserve"} \/ (x.op = "milestone" /\ x.to = "dispatching")

HasAttempt(m) == run.attempts[m] # << >>
MayWork(m) == \A d \in DependsOn[m] : run.ms[d] = "completed"
AllDone == \A m \in Milestones : run.ms[m] = "completed"

\* The steps of a call other than the end of finalize: all of them about
\* milestones whose dependencies are completed, and an attempt is there, or is
\* reserved by the step before, when one is needed.
Final == ToRun("completed")
Ending == {ToRun("completing"), Final}
StepFits(t, i) ==
    /\ t[i] \notin Ending
    /\ Works(t[i]) => MayWork(t[i].m)
    /\ Needs(t[i]) => HasAttempt(t[i].m) \/ (i > 1 /\ t[i - 1] = ReserveAttempt(t[i].m))
Plain(t) == t \in Seq(Steps) /\ \A i \in 1..Len(t) : StepFits(t, i)

\* What is left of finalize.
FinishGoal == [op |-> "finishGoal"]
Finalizing(t) ==
    /\ AllDone
    /\ \/ t = <<ToRun("completing"), Sync, FinishGoal, Final>>
       \/ t = <<Sync, FinishGoal, Final>>
       \/ t = <<FinishGoal, Final>>
       \/ t = <<Final>> /\ root = "completed"

IsCall(k) == \/ k = << >>
             \/ /\ k = [todo |-> k.todo, view |-> k.view] /\ k.todo # << >>
                /\ Plain(k.todo) \/ Finalizing(k.todo)
CallsFit == /\ call = [c \in Callers |-> call[c]]
            /\ \A c \in Callers : IsCall(call[c])

IsRow(r) == /\ r = [status |-> r.status, revision |-> r.revision, ms |-> r.ms, attempts |-> r.attempts]
            /\ r.ms \in [Milestones -> MilestoneStatuses]
            /\ r.attempts \in [Milestones -> Seq(Attempts)]
RowFits(r, m) ==
    /\ r.ms[m] \notin {"pending", "ready"} => r.attempts[m] # << >>
    /\ r.attempts[m] # << >> => r.ms[m] # "pending"
    /\ r.ms[m] = "completed" => Latest(r, m).verified
RunFits == /\ IsRow(run)
           /\ \A m \in Milestones : RowFits(run, m) /\ (run.ms[m] # "pending" => MayWork(m))
StartedFit == \A t \in started : t[1] \in Milestones /\ MayWork(t[1])
StatusFits == /\ run.status \in {"completing", "completed"} => AllDone
              /\ run.status = "completed" => root = "completed"

AutoInv == RunFits /\ CallsFit /\ StartedFit /\ StatusFits


\* The least of some milestones is one of them (FiniteSetsExt!Min).
LEMMA MinIsMember ==
    ASSUME NEW S \in SUBSET Milestones, S # {}
    PROVE  Min(S) \in S
<1>1. S \subseteq Nat
  BY AutomationAssumption
<1>2. PICK x \in S : \A y \in S : ~ (<<y, x>> \in OpToRel(<, Nat))
  BY <1>1, WFMin, NatLessThanWellFounded
<1>3. \A y \in S : x =< y
  <2>1. SUFFICES ASSUME NEW y \in S, y < x PROVE FALSE
    BY <1>1
  <2>2. PICK z : z = <<y, x>>  OBVIOUS
  <2>3. z \in Nat \X Nat /\ z[1] = y /\ z[2] = x
    BY <1>1, <1>2, <2>2
  <2>4. z \in {ss \in Nat \X Nat : ss[1] < ss[2]}
    BY <2>1, <2>3
  <2> QED
    BY <1>2, <2>2, <2>4 DEF OpToRel
<1> QED
  BY <1>2, <1>3 DEF Min

\* Steps stay fitting while the completed milestones and the attempts stay.
Grows == \A m \in Milestones : /\ run.ms[m] = "completed" => run'.ms[m] = "completed"
                               /\ HasAttempt(m) => HasAttempt(m)'

\* A step has a milestone when it is about one.
LEMMA StepShape ==
    ASSUME NEW x \in Steps
    PROVE  /\ Works(x) => x.m \in Milestones
           /\ Needs(x) => Works(x)
  BY DEF Steps, Works, Needs, WorkOps, ToRun, Sync, ToMilestone, ReserveAttempt,
         UpdateAttempt, RecordVerification, Await

\* ... and so do the facts about the calls.
LEMMA FitStays ==
    ASSUME Grows, root' = root \/ root = "active"
    PROVE  /\ \A m \in Milestones : MayWork(m) => MayWork(m)'
           /\ AllDone => AllDone'
           /\ \A t : Plain(t) => Plain(t)'
           /\ \A t : Finalizing(t) => Finalizing(t)'
<1>1. \A m \in Milestones : MayWork(m) => MayWork(m)'
  BY AutomationAssumption DEF Grows, MayWork
<1>2. AllDone => AllDone'
  BY DEF Grows, AllDone
<1>3. ASSUME NEW t, Plain(t) PROVE Plain(t)'
  <2>1. SUFFICES ASSUME NEW i \in 1..Len(t) PROVE StepFits(t, i)'
    BY <1>3 DEF Plain
  <2>2. t[i] \in Steps /\ StepFits(t, i)
    BY <1>3, <2>1 DEF Plain
  <2> QED
    BY <1>1, <2>2, StepShape DEF StepFits, Grows
<1>4. ASSUME NEW t, Finalizing(t) PROVE Finalizing(t)'
  BY <1>2, <1>4 DEF Finalizing
<1> QED
  BY <1>1, <1>2, <1>3, <1>4

-----------------------------------------------------------------------------
(* Lists of steps. *)

\* A step that fits wherever it stands.
Fit(x) == /\ x \in Steps /\ x \notin Ending
          /\ Works(x) => MayWork(x.m)
          /\ Needs(x) => HasAttempt(x.m)

\* Short lists of such steps.
LEMMA PlainShort ==
    /\ Plain(<< >>)
    /\ \A x : Fit(x) => Plain(<<x>>)
    /\ \A x, y : Fit(x) /\ Fit(y) => Plain(<<x, y>>)
    /\ \A x, y, z : Fit(x) /\ Fit(y) /\ Fit(z) => Plain(<<x, y, z>>)
<1>1. Plain(<< >>)
  BY DEF Plain
<1>2. ASSUME NEW x, Fit(x) PROVE Plain(<<x>>)
  <2>1. x \in Steps
    BY <1>2 DEF Fit
  <2>2. <<x>> \in Seq(Steps) /\ Len(<<x>>) = 1 /\ <<x>>[1] = x
    BY <2>1
  <2> QED
    BY <1>2, <2>2 DEF Plain, StepFits, Fit
<1>3. ASSUME NEW x, NEW y, Fit(x), Fit(y) PROVE Plain(<<x, y>>)
  <2>1. PICK t : t = <<x, y>>  OBVIOUS
  <2>2. x \in Steps /\ y \in Steps
    BY <1>3 DEF Fit
  <2>3. t \in Seq(Steps) /\ Len(t) = 2 /\ t[1] = x /\ t[2] = y
    BY <2>1, <2>2
  <2>4. \A i \in 1..Len(t) : t[i] = x \/ t[i] = y
    BY <2>3
  <2> QED
    BY <1>3, <2>1, <2>3, <2>4 DEF Plain, StepFits, Fit
<1>4. ASSUME NEW x, NEW y, NEW z, Fit(x), Fit(y), Fit(z) PROVE Plain(<<x, y, z>>)
  <2>1. PICK t : t = <<x, y, z>>  OBVIOUS
  <2>2. x \in Steps /\ y \in Steps /\ z \in Steps
    BY <1>4 DEF Fit
  <2>3. t \in Seq(Steps) /\ Len(t) = 3 /\ t[1] = x /\ t[2] = y /\ t[3] = z
    BY <2>1, <2>2
  <2>4. \A i \in 1..Len(t) : t[i] = x \/ t[i] = y \/ t[i] = z
    BY <2>3
  <2> QED
    BY <1>4, <2>1, <2>3, <2>4 DEF Plain, StepFits, Fit
<1> QED
  BY <1>1, <1>2, <1>3, <1>4

\* Two lists one after the other.
LEMMA PlainConcat ==
    ASSUME NEW s, NEW t, Plain(s), Plain(t)
    PROVE  Plain(s \o t)
<1>1. s \in Seq(Steps) /\ t \in Seq(Steps)
  BY DEF Plain
<1>2. PICK u : u = s \o t  OBVIOUS
<1>3. /\ u \in Seq(Steps) /\ Len(u) = Len(s) + Len(t)
      /\ \A i \in 1..Len(s) : u[i] = s[i]
      /\ \A i \in 1..Len(t) : u[Len(s) + i] = t[i]
  BY <1>1, <1>2
<1>4. ASSUME NEW i \in 1..Len(u) PROVE StepFits(u, i)
  <2>1. CASE i =< Len(s)
    <3>1. i \in 1..Len(s) /\ u[i] = s[i] /\ (i > 1 => u[i - 1] = s[i - 1])
      <4>1. i \in 1..Len(s) /\ (i > 1 => i - 1 \in 1..Len(s))
        BY <1>1, <1>3, <1>4, <2>1
      <4> QED
        BY <1>3, <4>1
    <3>2. StepFits(s, i)
      BY <3>1 DEF Plain
    <3> QED
      BY <3>1, <3>2 DEF StepFits
  <2>2. CASE i > Len(s)
    <3>1. PICK j \in 1..Len(t) : i = Len(s) + j
      <4>1. i - Len(s) \in 1..Len(t) /\ i = Len(s) + (i - Len(s))
        BY <1>1, <1>3, <1>4, <2>2
      <4> QED
        BY <4>1
    <3>2. StepFits(t, j) /\ u[i] = t[j]
      BY <1>3, <3>1 DEF Plain
    <3>3. j > 1 => i > 1 /\ u[i - 1] = t[j - 1]
      <4> SUFFICES ASSUME j > 1 PROVE i > 1 /\ u[i - 1] = t[j - 1]
        OBVIOUS
      <4>1. j - 1 \in 1..Len(t) /\ i - 1 = Len(s) + (j - 1) /\ i > 1
        BY <1>1, <3>1
      <4> QED
        BY <1>3, <4>1
    <3> QED
      BY <3>2, <3>3 DEF StepFits
  <2> QED
    BY <1>1, <1>3, <1>4, <2>1, <2>2
<1> QED
  BY <1>2, <1>3, <1>4 DEF Plain

\* The rest of a list after a step, whose head is not a reservation or has
\* been applied by that step.
LEMMA PlainTail ==
    ASSUME NEW t, Plain(t), t # << >>, Grows, root' = root \/ root = "active",
           \A m \in Milestones : Head(t) = ReserveAttempt(m) => HasAttempt(m)'
    PROVE  Plain(Tail(t))'
<1>0. Plain(t)'
  BY FitStays
<1>1. t \in Seq(Steps) /\ Len(t) > 0
  BY DEF Plain
<1>2. PICK u : u = Tail(t)  OBVIOUS
<1>3. /\ u \in Seq(Steps) /\ Len(u) = Len(t) - 1
      /\ \A i \in 1..Len(u) : u[i] = t[i + 1]
  BY <1>1, <1>2
<1>4. ASSUME NEW i \in 1..Len(u) PROVE StepFits(u, i)'
  <2>1. StepFits(t, i + 1)' /\ u[i] = t[i + 1] /\ u[i] \in Steps
    BY <1>0, <1>1, <1>3, <1>4 DEF Plain
  <2>2. CASE i = 1
    <3>1. Head(t) = t[1]
      BY <1>1
    <3>2. Needs(u[1]) => HasAttempt(u[1].m)'
      <4> SUFFICES ASSUME Needs(u[1]) PROVE HasAttempt(u[1].m)'
        OBVIOUS
      <4>1. u[1].m \in Milestones
        BY <2>1, <2>2, StepShape
      <4>2. HasAttempt(u[1].m)' \/ t[1] = ReserveAttempt(u[1].m)
        BY <2>1, <2>2 DEF StepFits
      <4> QED
        BY <3>1, <4>1, <4>2
    <3> QED
      BY <2>1, <2>2, <3>2 DEF StepFits
  <2>3. CASE i > 1
    <3>1. u[i - 1] = t[i]
      <4>1. i - 1 \in 1..Len(u) /\ (i - 1) + 1 = i
        BY <1>3, <1>4, <2>3
      <4> QED
        BY <1>3, <4>1
    <3> QED
      BY <2>1, <2>3, <3>1 DEF StepFits
  <2> QED
    BY <1>3, <1>4, <2>2, <2>3
<1> QED
  BY <1>2, <1>3, <1>4 DEF Plain


\* The steps about a milestone that may be worked on.
LEMMA FitSteps ==
    ASSUME NEW m \in Milestones, MayWork(m)
    PROVE  /\ Fit(ToMilestone(m, "ready")) /\ Fit(ReserveAttempt(m))
           /\ HasAttempt(m) =>
                /\ Fit(ToMilestone(m, "dispatching"))
                /\ \A s \in DispatchStatuses, ms \in {"running", "verifying", "blocked", "failed"} :
                      Fit(UpdateAttempt(m, s, ms))
                /\ \A v \in Verdicts : Fit(RecordVerification(m, v))
                /\ \A op \in {"observeUnresolved", "observeInFlight", "verify", "launch", "reply"} :
                      Fit(Await(op, m))
<1>1. \A e \in Ending : e.op = "run"
  BY DEF Ending, Final, ToRun
<1>2. ASSUME NEW s \in {"ready", "dispatching"} PROVE
        /\ ToMilestone(m, s) \in Steps /\ ToMilestone(m, s).op = "milestone"
        /\ ToMilestone(m, s).m = m /\ ToMilestone(m, s).to = s
  BY DEF Steps, ToMilestone
<1>3. /\ ReserveAttempt(m) \in Steps /\ ReserveAttempt(m).op = "reserve"
      /\ ReserveAttempt(m).m = m
  BY DEF Steps, ReserveAttempt
<1>4. ASSUME NEW s \in DispatchStatuses, NEW ms \in {"running", "verifying", "blocked", "failed"} PROVE
        /\ UpdateAttempt(m, s, ms) \in Steps /\ UpdateAttempt(m, s, ms).op = "attempt"
        /\ UpdateAttempt(m, s, ms).m = m
  BY DEF Steps, UpdateAttempt
<1>5. ASSUME NEW v \in Verdicts PROVE
        /\ RecordVerification(m, v) \in Steps /\ RecordVerification(m, v).op = "evidence"
        /\ RecordVerification(m, v).m = m
  BY DEF Steps, RecordVerification
<1>6. ASSUME NEW op \in {"observeUnresolved", "observeInFlight", "verify", "launch", "reply"} PROVE
        /\ Await(op, m) \in Steps /\ Await(op, m).op = op /\ Await(op, m).m = m
  BY DEF Steps, Await
<1>7. Fit(ToMilestone(m, "ready")) /\ Fit(ReserveAttempt(m))
  BY <1>1, <1>2, <1>3 DEF Fit, Works, Needs, WorkOps
<1>8. HasAttempt(m) => Fit(ToMilestone(m, "dispatching"))
  BY <1>1, <1>2 DEF Fit, Works, Needs, WorkOps
<1>9. HasAttempt(m) =>
        \A s \in DispatchStatuses, ms \in {"running", "verifying", "blocked", "failed"} :
            Fit(UpdateAttempt(m, s, ms))
  BY <1>1, <1>4 DEF Fit, Works, Needs, WorkOps
<1>10. HasAttempt(m) => \A v \in Verdicts : Fit(RecordVerification(m, v))
  BY <1>1, <1>5 DEF Fit, Works, Needs, WorkOps
<1>11. HasAttempt(m) =>
         \A op \in {"observeUnresolved", "observeInFlight", "verify", "launch", "reply"} :
             Fit(Await(op, m))
  BY <1>1, <1>6 DEF Fit, Works, Needs, WorkOps
<1> QED
  BY <1>7, <1>8, <1>9, <1>10, <1>11

\* The steps about the run and its goal.
LEMMA FitRunSteps ==
    /\ \A s \in RunStatuses \ {"completing", "completed"} : Fit(ToRun(s))
    /\ Fit(Sync) /\ Fit([op |-> "cancelGoal"]) /\ Fit(FinishGoal)
<1>1. \A e \in Ending : e.op = "run" /\ e.to \in {"completing", "completed"}
  BY DEF Ending, Final, ToRun
<1>2. ASSUME NEW s \in RunStatuses PROVE ToRun(s) \in Steps /\ ToRun(s).op = "run" /\ ToRun(s).to = s
  BY DEF Steps, ToRun
<1>3. /\ Sync \in Steps /\ [op |-> "cancelGoal"] \in Steps /\ FinishGoal \in Steps
      /\ Sync.op = "sync" /\ FinishGoal.op = "finishGoal"
  BY DEF Steps, FinishGoal, Sync
<1> QED
  BY <1>1, <1>2, <1>3 DEF Fit, Works, Needs, WorkOps

\* The three steps of a dispatch: the attempt the launch needs is reserved by
\* the step before it.
LEMMA PlainDispatch ==
    ASSUME NEW m \in Milestones, MayWork(m)
    PROVE  Plain(<<ToMilestone(m, "ready"), ReserveAttempt(m), Await("launch", m)>>)
<1>1. PICK x, y, z : x = ToMilestone(m, "ready") /\ y = ReserveAttempt(m) /\ z = Await("launch", m)
  OBVIOUS
<1>2. Fit(x) /\ Fit(y)
  BY <1>1, FitSteps
<1>3. z \in Steps /\ z.op = "launch" /\ z.m = m /\ z \notin Ending
  <2>1. z \in Steps /\ z.op = "launch" /\ z.m = m
    BY <1>1 DEF Steps, Await
  <2>2. \A e \in Ending : e.op = "run"
    BY DEF Ending, Final, ToRun
  <2> QED
    BY <2>1, <2>2
<1>4. PICK t : t = <<x, y, z>>  OBVIOUS
<1>5. t \in Seq(Steps) /\ Len(t) = 3 /\ t[1] = x /\ t[2] = y /\ t[3] = z
  BY <1>2, <1>3, <1>4 DEF Fit
<1>6. StepFits(t, 1) /\ StepFits(t, 2)
  BY <1>2, <1>5 DEF StepFits, Fit
<1>7. StepFits(t, 3)
  BY <1>1, <1>3, <1>5 DEF StepFits
<1>8. \A i \in 1..Len(t) : i = 1 \/ i = 2 \/ i = 3
  BY <1>5
<1> QED
  BY <1>1, <1>4, <1>5, <1>6, <1>7, <1>8 DEF Plain

-----------------------------------------------------------------------------
(* What a call decides. *)

\* What is written after a launch or an observation.
LEMMA PlainObservation ==
    ASSUME NEW m \in Milestones, MayWork(m), HasAttempt(m), NEW r, NEW sight \in Sights
    PROVE  Plain(PersistObservation(r, m, sight))
<1>1. /\ Fit(UpdateAttempt(m, "dispatched_unresolved", "blocked"))
      /\ Fit(UpdateAttempt(m, "launched", "running"))
      /\ Fit(UpdateAttempt(m, "terminal", "verifying"))
  BY FitSteps DEF DispatchStatuses
<1>2. Fit(ToRun("blocked")) /\ Fit(Sync)
  BY FitRunSteps DEF RunStatuses
<1>3. CASE sight \in {"absent", "unknown"}
  <2>1. PICK a, b, c : /\ a = <<UpdateAttempt(m, "dispatched_unresolved", "blocked")>>
                       /\ b = (IF r.status = "blocked" THEN << >> ELSE <<ToRun("blocked")>>)
                       /\ c = <<Sync>>
    OBVIOUS
  <2>2. Plain(a) /\ Plain(b) /\ Plain(c)
    BY <1>1, <1>2, <2>1, PlainShort
  <2>3. Plain((a \o b) \o c)
    BY <2>2, PlainConcat
  <2>4. PersistObservation(r, m, sight) = (a \o b) \o c
    BY <1>3, <2>1 DEF PersistObservation
  <2> QED
    BY <2>3, <2>4
<1>4. CASE sight = "running"
  <2>1. PersistObservation(r, m, sight) = <<UpdateAttempt(m, "launched", "running"), Sync>>
    BY <1>4 DEF PersistObservation
  <2> QED
    BY <1>1, <1>2, <2>1, PlainShort
<1>5. CASE sight = "ended"
  <2>1. PersistObservation(r, m, sight)
          = <<UpdateAttempt(m, "launched", "running"), UpdateAttempt(m, "terminal", "verifying"), Sync>>
    BY <1>5 DEF PersistObservation
  <2> QED
    BY <1>1, <1>2, <2>1, PlainShort
<1> QED
  BY <1>3, <1>4, <1>5 DEF Sights


\* An attempt whose outcome is not known.
LEMMA PlainUnresolved ==
    ASSUME NEW m \in Milestones, MayWork(m), HasAttempt(m), NEW r, NEW sight \in Sights
    PROVE  Plain(UnresolvedSteps(r, m, sight))
<1>1. Fit(Sync) /\ Fit(ToRun("active")) /\ Fit(ToRun("failed"))
  BY FitRunSteps DEF RunStatuses
<1>2. /\ Fit(ToMilestone(m, "ready")) /\ Fit(ToMilestone(m, "dispatching"))
      /\ Fit(UpdateAttempt(m, "terminal", "failed"))
  BY FitSteps DEF DispatchStatuses
<1>3. PICK a : a = Reactivate(r)  OBVIOUS
<1>4. Plain(a)
  BY <1>1, <1>3, PlainShort DEF Reactivate
<1>5. CASE sight = "unknown"
  <2>1. UnresolvedSteps(r, m, sight) = <<Sync>>
    BY <1>5 DEF UnresolvedSteps
  <2> QED
    BY <1>1, <2>1, PlainShort
<1>6. CASE sight \in {"running", "ended"}
  <2>1. PICK b, c : /\ b = <<ToMilestone(m, "ready"), ToMilestone(m, "dispatching")>>
                    /\ c = PersistObservation([r EXCEPT !.status = "active"], m, sight)
    OBVIOUS
  <2>2. Plain(b) /\ Plain(c)
    BY <1>2, <2>1, PlainShort, PlainObservation
  <2>3. Plain((a \o b) \o c)
    BY <1>4, <2>2, PlainConcat
  <2>4. UnresolvedSteps(r, m, sight) = (a \o b) \o c
    BY <1>3, <1>6, <2>1 DEF UnresolvedSteps
  <2> QED
    BY <2>3, <2>4
<1>7. CASE sight = "absent"
  <2>1. PICK b, c, d : /\ b = <<UpdateAttempt(m, "terminal", "failed")>>
                       /\ c = <<ToRun("failed"), Sync>>
                       /\ d = <<ToMilestone(m, "ready"), ReserveAttempt(m), Await("launch", m)>>
    OBVIOUS
  <2>2. Plain(b) /\ Plain(c) /\ Plain(d)
    BY <1>1, <1>2, <2>1, PlainShort, PlainDispatch
  <2>3. Plain(b \o c) /\ Plain(a \o d) /\ Plain(b \o (a \o d))
    BY <1>4, <2>2, PlainConcat
  <2>4. UnresolvedSteps(r, m, sight)
          = b \o (IF Len(r.attempts[m]) >= MaxAttempts THEN c ELSE a \o d)
    BY <1>3, <1>7, <2>1 DEF UnresolvedSteps
  <2>5. UnresolvedSteps(r, m, sight) \in {b \o c, b \o (a \o d)}
    BY <2>4
  <2> QED
    BY <2>3, <2>5
<1> QED
  BY <1>5, <1>6, <1>7 DEF Sights

\* An attempt that is under way.
LEMMA PlainInFlight ==
    ASSUME NEW m \in Milestones, MayWork(m), HasAttempt(m), NEW r, NEW sight \in Sights
    PROVE  Plain(InFlightSteps(r, m, sight))
<1>1. Fit(Sync) /\ Fit(Await("launch", m)) /\ Fit(UpdateAttempt(m, "terminal", "verifying"))
  BY FitSteps, FitRunSteps DEF DispatchStatuses
<1>2. PICK a, b : /\ a = (IF sight = "running" THEN << >>
                          ELSE <<UpdateAttempt(m, "terminal", "verifying")>>)
                  /\ b = <<Sync>>
  OBVIOUS
<1>3. Plain(a) /\ Plain(b)
  BY <1>1, <1>2, PlainShort
<1>4. Plain(a \o b) /\ Plain(<<Await("launch", m)>>) /\ Plain(PersistObservation(r, m, sight))
  BY <1>1, <1>3, PlainConcat, PlainShort, PlainObservation
<1>5. InFlightSteps(r, m, sight)
        \in {a \o b, <<Await("launch", m)>>, PersistObservation(r, m, sight)}
  BY <1>2 DEF InFlightSteps
<1> QED
  BY <1>4, <1>5

\* What follows the verifier's answer.
LEMMA PlainVerified ==
    ASSUME NEW m \in Milestones, MayWork(m), HasAttempt(m), NEW r, NEW verdict \in Verdicts
    PROVE  Plain(VerifiedSteps(r, m, verdict))
<1>1. /\ Fit(Sync) /\ Fit(ToRun("failed")) /\ Fit(ToRun("blocked"))
      /\ Fit(RecordVerification(m, verdict))
  BY FitSteps, FitRunSteps DEF RunStatuses
<1>2. PICK a, b, c :
        /\ a = <<RecordVerification(m, verdict)>>
        /\ b = (CASE verdict = "failed" -> <<ToRun("failed")>>
                  [] verdict = "unknown" /\ r.status # "blocked" -> <<ToRun("blocked")>>
                  [] OTHER -> << >>)
        /\ c = <<Sync>>
  OBVIOUS
<1>3. Plain(a) /\ Plain(c)
  BY <1>1, <1>2, PlainShort
<1>4. Plain(b)
  <2>1. b \in {<< >>, <<ToRun("failed")>>, <<ToRun("blocked")>>}
    BY <1>2
  <2> QED
    BY <1>1, <2>1, PlainShort
<1>5. Plain((a \o b) \o c)
  BY <1>3, <1>4, PlainConcat
<1>6. VerifiedSteps(r, m, verdict) = (a \o b) \o c
  BY <1>2 DEF VerifiedSteps
<1> QED
  BY <1>5, <1>6

\* The boundary that advance takes.
LEMMA PlainAdvance ==
    ASSUME RunFits
    PROVE  Plain(AdvanceSteps(run)) /\ AdvanceSteps(run) # << >>
<1>1. PICK U, F, V, R : /\ U = InDispatch(run, {"dispatched_unresolved"})
                        /\ F = InStatus(run, {"dispatching", "running"})
                        /\ V = InStatus(run, {"verifying"}) /\ R = ReadyMilestones(run)
  OBVIOUS
<1>2. /\ U \in SUBSET Milestones /\ F \in SUBSET Milestones
      /\ V \in SUBSET Milestones /\ R \in SUBSET Milestones
  BY <1>1 DEF InDispatch, InStatus, ReadyMilestones
<1>3. \A m \in U \cup F \cup V : MayWork(m) /\ HasAttempt(m)
  BY <1>1 DEF InDispatch, InStatus, RunFits, RowFits, HasAttempt
<1>4. \A m \in R : MayWork(m)
  BY <1>1 DEF ReadyMilestones, MayWork
<1>5. Plain(<<Sync>>)
  BY FitRunSteps, PlainShort
<1>6. ASSUME NEW m \in Milestones, MayWork(m), HasAttempt(m)
      PROVE  /\ Plain(<<Await("observeUnresolved", m)>>)
             /\ Plain(<<Await("observeInFlight", m)>>) /\ Plain(<<Await("verify", m)>>)
  BY <1>6, FitSteps, PlainShort
<1>7. CASE U # {}
  <2>1. AdvanceSteps(run) = <<Await("observeUnresolved", Min(U))>>
    BY <1>1, <1>7 DEF AdvanceSteps
  <2> QED
    <3>1. PICK m : m = Min(U)  OBVIOUS
    <3>2. m \in Milestones /\ MayWork(m) /\ HasAttempt(m)
      BY <1>2, <1>3, <1>7, <3>1, MinIsMember
    <3>3. AdvanceSteps(run) = <<Await("observeUnresolved", m)>>
      BY <2>1, <3>1
    <3>4. Plain(<<Await("observeUnresolved", m)>>)
      BY <1>6, <3>2
    <3> QED
      BY <3>3, <3>4
<1>8. CASE U = {} /\ F # {}
  <2>1. AdvanceSteps(run) = <<Await("observeInFlight", Min(F))>>
    BY <1>1, <1>8 DEF AdvanceSteps
  <2> QED
    <3>1. PICK m : m = Min(F)  OBVIOUS
    <3>2. m \in Milestones /\ MayWork(m) /\ HasAttempt(m)
      BY <1>2, <1>3, <1>8, <3>1, MinIsMember
    <3>3. AdvanceSteps(run) = <<Await("observeInFlight", m)>>
      BY <2>1, <3>1
    <3>4. Plain(<<Await("observeInFlight", m)>>)
      BY <1>6, <3>2
    <3> QED
      BY <3>3, <3>4
<1>9. CASE U \cup F = {} /\ V # {}
  <2>1. AdvanceSteps(run) = <<Await("verify", Min(V))>>
    BY <1>1, <1>9 DEF AdvanceSteps
  <2> QED
    <3>1. PICK m : m = Min(V)  OBVIOUS
    <3>2. m \in Milestones /\ MayWork(m) /\ HasAttempt(m)
      BY <1>2, <1>3, <1>9, <3>1, MinIsMember
    <3>3. AdvanceSteps(run) = <<Await("verify", m)>>
      BY <2>1, <3>1
    <3>4. Plain(<<Await("verify", m)>>)
      BY <1>6, <3>2
    <3> QED
      BY <3>3, <3>4
<1>10. CASE U \cup F \cup V = {} /\ R # {}
  <2>1. AdvanceSteps(run) = <<ToMilestone(Min(R), "ready"), ReserveAttempt(Min(R)),
                              Await("launch", Min(R))>>
    BY <1>1, <1>10 DEF AdvanceSteps
  <2>2. Min(R) \in Milestones /\ MayWork(Min(R))
    BY <1>2, <1>4, <1>10, MinIsMember
  <2> QED
    BY <2>1, <2>2, PlainDispatch
<1>11. CASE U \cup F \cup V \cup R = {}
  <2>1. AdvanceSteps(run) = <<Sync>>
    BY <1>1, <1>11 DEF AdvanceSteps
  <2> QED
    BY <1>5, <2>1
<1> QED
  BY <1>7, <1>8, <1>9, <1>10, <1>11


-----------------------------------------------------------------------------
(* What a mutation of the run writes. *)

\* Replacing the latest attempt.
LEMMA LatestReplaced ==
    ASSUME NEW r, IsRow(r), NEW m \in Milestones, r.attempts[m] # << >>,
           NEW d \in DispatchStatuses, NEW v \in BOOLEAN
    PROVE  \E a \in Seq(Attempts) :
              /\ WithLatest(r, m, d, v) = [r.attempts EXCEPT ![m] = a]
              /\ a # << >> /\ Len(a) = Len(r.attempts[m])
              /\ Last(a).verified = v /\ Last(a).dispatch = d
<1>1. PICK s : s = r.attempts[m]  OBVIOUS
<1>2. s \in Seq(Attempts) /\ Len(s) \in Nat /\ Len(s) > 0
  BY <1>1 DEF IsRow
<1>3. PICK x : x = [dispatch |-> d, verified |-> v]  OBVIOUS
<1>4. x \in Attempts /\ x.verified = v /\ x.dispatch = d
  BY <1>3 DEF Attempts
<1>5. PICK a : a = [s EXCEPT ![Len(s)] = x]  OBVIOUS
<1>6. a \in Seq(Attempts) /\ Len(a) = Len(s) /\ a[Len(s)] = x
  BY <1>2, <1>4, <1>5
<1>7. a # << >> /\ Last(a) = x
  BY <1>2, <1>6 DEF Last
<1>8. WithLatest(r, m, d, v) = [r.attempts EXCEPT ![m] = a]
  BY <1>1, <1>3, <1>5 DEF WithLatest
<1> QED
  BY <1>1, <1>4, <1>6, <1>7, <1>8

\* A row with one milestone rewritten.
RowWritten(r, k, m, s, a) ==
    /\ k = [status |-> r.status, revision |-> r.revision + 1,
            ms |-> [r.ms EXCEPT ![m] = s], attempts |-> [r.attempts EXCEPT ![m] = a]]
    /\ s \in MilestoneStatuses \ {"pending"} /\ a \in Seq(Attempts)

\* What becomes of the latest attempt of the milestone: only evidence completes
\* it, on an attempt that is closed.
AttemptWritten(r, x, s, a) ==
    /\ s = "completed" => x.op = "evidence"
    /\ x.op = "milestone" => a = r.attempts[x.m]
    /\ x.op = "reserve" => Last(a).dispatch = "reserved"
    /\ x.op \in {"attempt", "evidence"} => Len(a) = Len(r.attempts[x.m])
    /\ x.op = "attempt" => Last(a).dispatch = x.to
    /\ x.op = "evidence" => Last(a).dispatch = "terminal" /\ Latest(r, x.m).dispatch = "terminal"

\* A legal mutation rewrites the status of the run, or one milestone that is
\* not completed: it keeps its attempts, and is completed only by evidence.
LEMMA AppliedWrites ==
    ASSUME NEW r, IsRow(r), NEW x \in Steps, x.op \in RunMutations, Legal(r, x),
           Works(x) => RowFits(r, x.m), Needs(x) => r.attempts[x.m] # << >>
    PROVE  \/ /\ x.op = "run"
              /\ Applied(r, x) = [status |-> x.to, revision |-> r.revision + 1,
                                  ms |-> r.ms, attempts |-> r.attempts]
           \/ \E s, a : /\ x.op # "run" /\ x.m \in Milestones
                        /\ RowWritten(r, Applied(r, x), x.m, s, a)
                        /\ r.ms[x.m] # "completed"
                        /\ x.op = "reserve" => a # << >>
                        /\ r.attempts[x.m] # << >> => a # << >>
                        /\ s # "ready" => a # << >>
                        /\ s = "completed" => Last(a).verified
                        /\ AttemptWritten(r, x, s, a)
<1>1. PICK st, re, mi, at : /\ r = [status |-> st, revision |-> re, ms |-> mi, attempts |-> at]
                            /\ mi \in [Milestones -> MilestoneStatuses]
                            /\ at \in [Milestones -> Seq(Attempts)]
  BY DEF IsRow
<1>2. CASE x.op = "run"
  <2>1. Applied(r, x) = [[r EXCEPT !.revision = @ + 1] EXCEPT !.status = x.to]
    BY <1>2 DEF Applied
  <2> QED
    BY <1>1, <1>2, <2>1
<1>3. CASE x.op = "milestone"
  <2>1. x.m \in Milestones /\ x.to \in {"ready", "dispatching"}
    BY <1>3 DEF Steps, ToRun, Sync, ToMilestone, ReserveAttempt, UpdateAttempt,
                RecordVerification, Await
  <2>2. PICK m, to : m = x.m /\ to = x.to  OBVIOUS
  <2>3. Applied(r, x) = [[r EXCEPT !.revision = @ + 1] EXCEPT !.ms[m] = to]
    BY <1>3, <2>2 DEF Applied
  <2>4. Applied(r, x) = [status |-> st, revision |-> re + 1, ms |-> [mi EXCEPT ![m] = to],
                         attempts |-> at]
    BY <1>1, <2>3
  <2>5. at = [at EXCEPT ![m] = at[m]] /\ at[m] \in Seq(Attempts)
    BY <1>1, <2>1, <2>2
  <2>6. RowWritten(r, Applied(r, x), m, to, at[m])
    BY <1>1, <2>1, <2>2, <2>4, <2>5 DEF RowWritten, MilestoneStatuses
  <2>7. to \in MilestoneTransitions[r.ms[m]]
    BY <1>3, <2>2 DEF Legal
  <2>8. r.ms[m] # "completed"
    BY <2>7 DEF MilestoneTransitions
  <2>9. to = "dispatching" => at[m] # << >>
    BY <1>1, <1>3, <2>2 DEF Needs
  <2>10. AttemptWritten(r, x, to, at[m])
    BY <1>1, <1>3, <2>1, <2>2 DEF AttemptWritten
  <2> QED
    BY <1>1, <1>3, <2>1, <2>2, <2>6, <2>8, <2>9, <2>10
<1>4. CASE x.op = "reserve"
  <2>1. x.m \in Milestones
    BY <1>4 DEF Steps, ToRun, Sync, ToMilestone, ReserveAttempt, UpdateAttempt,
                RecordVerification, Await
  <2>2. PICK m, e : m = x.m /\ e = [dispatch |-> "reserved", verified |-> FALSE]  OBVIOUS
  <2>3. Applied(r, x) = [[r EXCEPT !.revision = @ + 1] EXCEPT
                            !.ms[m] = "dispatching", !.attempts[m] = Append(@, e)]
    BY <1>4, <2>2 DEF Applied
  <2>4. PICK a : a = Append(at[m], e)  OBVIOUS
  <2>5. Applied(r, x) = [status |-> st, revision |-> re + 1, ms |-> [mi EXCEPT ![m] = "dispatching"],
                         attempts |-> [at EXCEPT ![m] = a]]
    BY <1>1, <2>3, <2>4
  <2>6. a \in Seq(Attempts) /\ a # << >>
    BY <1>1, <2>1, <2>2, <2>4 DEF Attempts, DispatchStatuses
  <2>7. RowWritten(r, Applied(r, x), m, "dispatching", a)
    BY <1>1, <2>5, <2>6 DEF RowWritten, MilestoneStatuses
  <2>8. "dispatching" \in MilestoneTransitions[r.ms[m]]
    BY <1>4, <2>2 DEF Legal
  <2>9. r.ms[m] # "completed"
    BY <2>8 DEF MilestoneTransitions
  <2>10. /\ x.op # "run" /\ m \in Milestones /\ RowWritten(r, Applied(r, x), m, "dispatching", a)
         /\ r.ms[m] # "completed"
         /\ x.op = "reserve" => a # << >>
         /\ r.attempts[m] # << >> => a # << >>
         /\ "dispatching" # "ready" => a # << >>
         /\ "dispatching" = "completed" => Last(a).verified
         /\ AttemptWritten(r, x, "dispatching", a)
    <3>1. Last(a) = e
      <4>1. at[m] \in Seq(Attempts) /\ e \in Attempts
        BY <1>1, <2>1, <2>2 DEF Attempts, DispatchStatuses
      <4>2. a[Len(a)] = e
        BY <2>4, <4>1
      <4> QED
        BY <4>2 DEF Last
    <3>2. AttemptWritten(r, x, "dispatching", a)
      BY <1>4, <2>2, <3>1 DEF AttemptWritten
    <3> QED
      BY <1>4, <2>1, <2>2, <2>6, <2>7, <2>9, <3>2
  <2> QED
    BY <2>2, <2>10
<1>5. CASE x.op = "attempt"
  <2>1. /\ x.m \in Milestones /\ x.to \in DispatchStatuses
        /\ x.ms \in {"running", "verifying", "blocked", "failed"}
    BY <1>5 DEF Steps, ToRun, Sync, ToMilestone, ReserveAttempt, UpdateAttempt,
                RecordVerification, Await
  <2>2. PICK m, s, w : m = x.m /\ s = x.ms /\ w = WithLatest(r, m, x.to, Latest(r, m).verified)
    OBVIOUS
  <2>3. r.attempts[m] # << >>
    BY <1>5, <2>2 DEF Needs, WorkOps
  <2>4. Latest(r, m).verified \in BOOLEAN
    <3>1. at[m] \in Seq(Attempts) /\ at[m] # << >> /\ Latest(r, m) = at[m][Len(at[m])]
      BY <1>1, <2>1, <2>2, <2>3 DEF Latest, Last
    <3>2. Latest(r, m) \in Attempts
      BY <3>1
    <3> QED
      BY <3>2 DEF Attempts
  <2>5. PICK a \in Seq(Attempts) : /\ w = [r.attempts EXCEPT ![m] = a] /\ a # << >>
                                   /\ Len(a) = Len(r.attempts[m]) /\ Last(a).dispatch = x.to
    <3>1. PICK d \in DispatchStatuses, v \in BOOLEAN : d = x.to /\ v = Latest(r, m).verified
      BY <2>1, <2>4
    <3>2. \E a \in Seq(Attempts) : /\ WithLatest(r, m, d, v) = [r.attempts EXCEPT ![m] = a]
                                  /\ a # << >> /\ Len(a) = Len(r.attempts[m])
                                  /\ Last(a).verified = v /\ Last(a).dispatch = d
      <4>1. m \in Milestones
        BY <2>1, <2>2
      <4> QED
        BY <2>3, <4>1, LatestReplaced
    <3>3. w = WithLatest(r, m, d, v)
      BY <2>2, <3>1
    <3> QED
      BY <3>1, <3>2, <3>3
  <2>6. Applied(r, x) = [[r EXCEPT !.revision = @ + 1] EXCEPT !.ms[m] = s, !.attempts = w]
    BY <1>5, <2>2 DEF Applied
  <2>7. Applied(r, x) = [status |-> st, revision |-> re + 1, ms |-> [mi EXCEPT ![m] = s],
                         attempts |-> [at EXCEPT ![m] = a]]
    BY <1>1, <2>5, <2>6
  <2>8. RowWritten(r, Applied(r, x), m, s, a)
    BY <1>1, <2>1, <2>2, <2>5, <2>7 DEF RowWritten, MilestoneStatuses
  <2>9. s \in MilestoneTransitions[r.ms[m]]
    BY <1>5, <2>2 DEF Legal
  <2>10. r.ms[m] # "completed" /\ s # "completed"
    BY <2>1, <2>2, <2>9 DEF MilestoneTransitions
  <2>11. /\ x.op # "run" /\ m \in Milestones /\ RowWritten(r, Applied(r, x), m, s, a)
         /\ r.ms[m] # "completed"
         /\ x.op = "reserve" => a # << >>
         /\ r.attempts[m] # << >> => a # << >>
         /\ s # "ready" => a # << >>
         /\ s = "completed" => Last(a).verified
         /\ AttemptWritten(r, x, s, a)
    <3>1. AttemptWritten(r, x, s, a)
      BY <1>5, <2>2, <2>5, <2>10 DEF AttemptWritten
    <3> QED
      BY <1>5, <2>1, <2>2, <2>5, <2>8, <2>10, <3>1
  <2> QED
    BY <2>2, <2>11
<1>6. CASE x.op = "evidence"
  <2>1. x.m \in Milestones /\ x.verdict \in Verdicts
    BY <1>6 DEF Steps, ToRun, Sync, ToMilestone, ReserveAttempt, UpdateAttempt,
                RecordVerification, Await
  <2>2. PICK m, v, w : /\ m = x.m /\ v = x.verdict
                       /\ w = WithLatest(r, m, "terminal", v = "verified")
    OBVIOUS
  <2>3. r.attempts[m] # << >>
    BY <1>6, <2>2 DEF Needs, WorkOps
  <2>4. PICK a \in Seq(Attempts) :
          /\ w = [r.attempts EXCEPT ![m] = a] /\ a # << >> /\ Last(a).verified = (v = "verified")
          /\ Len(a) = Len(r.attempts[m]) /\ Last(a).dispatch = "terminal"
    <3>1. PICK b \in BOOLEAN : b = (v = "verified")
      OBVIOUS
    <3>2. PICK d \in DispatchStatuses : d = "terminal"
      BY DEF DispatchStatuses
    <3>3. \E a \in Seq(Attempts) : /\ WithLatest(r, m, d, b) = [r.attempts EXCEPT ![m] = a]
                                  /\ a # << >> /\ Len(a) = Len(r.attempts[m])
                                  /\ Last(a).verified = b /\ Last(a).dispatch = d
      <4>1. m \in Milestones
        BY <2>1, <2>2
      <4> QED
        BY <2>3, <4>1, LatestReplaced
    <3>4. w = WithLatest(r, m, d, b)
      BY <2>2, <3>1, <3>2
    <3> QED
      BY <3>1, <3>2, <3>3, <3>4
  <2>5. PICK s : s = (CASE v = "verified" -> "completed" [] v = "failed" -> "failed"
                        [] OTHER -> mi[m])
    OBVIOUS
  <2>6. Applied(r, x) = [[r EXCEPT !.revision = @ + 1] EXCEPT
                            !.ms[m] = CASE v = "verified" -> "completed" [] v = "failed" -> "failed"
                                        [] OTHER -> @,
                            !.attempts = w]
    BY <1>6, <2>2 DEF Applied
  <2>7. Applied(r, x) = [status |-> st, revision |-> re + 1, ms |-> [mi EXCEPT ![m] = s],
                         attempts |-> [at EXCEPT ![m] = a]]
    BY <1>1, <2>4, <2>5, <2>6
  <2>8. /\ v = "verified" => "completed" \in MilestoneTransitions[r.ms[m]]
        /\ v = "failed" => "failed" \in MilestoneTransitions[r.ms[m]]
        /\ v \notin {"verified", "failed"} => r.ms[m] = "verifying"
    BY <1>6, <2>2 DEF Legal
  <2>9. r.ms[m] # "completed" /\ (s = "completed" => v = "verified")
        /\ s \in {"completed", "failed", "verifying"}
    BY <1>1, <2>5, <2>8 DEF MilestoneTransitions
  <2>10. RowWritten(r, Applied(r, x), m, s, a)
    BY <1>1, <2>4, <2>7, <2>9 DEF RowWritten, MilestoneStatuses
  <2>11. /\ x.op # "run" /\ m \in Milestones /\ RowWritten(r, Applied(r, x), m, s, a)
         /\ r.ms[m] # "completed"
         /\ x.op = "reserve" => a # << >>
         /\ r.attempts[m] # << >> => a # << >>
         /\ s # "ready" => a # << >>
         /\ s = "completed" => Last(a).verified
         /\ AttemptWritten(r, x, s, a)
    <3>1. Latest(r, m).dispatch = "terminal"
      BY <1>6, <2>2 DEF Legal
    <3>2. AttemptWritten(r, x, s, a)
      BY <1>6, <2>2, <2>4, <3>1 DEF AttemptWritten
    <3> QED
      BY <1>6, <2>1, <2>2, <2>4, <2>9, <2>10, <3>2
  <2> QED
    BY <2>2, <2>11
<1> QED
  BY <1>2, <1>3, <1>4, <1>5, <1>6 DEF RunMutations


-----------------------------------------------------------------------------
(* The steps of the calls keep the invariant. *)

\* The entry of one call changes.
LEMMA CallChanges ==
    ASSUME CallsFit, Grows, root' = root \/ root = "active", NEW c \in Callers, NEW k, IsCall(k)',
           call' = [call EXCEPT ![c] = k]
    PROVE  CallsFit'
<1>1. ASSUME NEW d \in Callers PROVE IsCall(call[d])'
  <2>1. PICK j : j = call[d]  OBVIOUS
  <2>2. CASE d = c
    <3>1. call'[d] = k
      BY <2>2 DEF CallsFit
    <3> QED
      BY <3>1
  <2>3. CASE d # c
    <3>1. call'[d] = j /\ IsCall(j)
      BY <2>1, <2>3 DEF CallsFit
    <3>2. IsCall(j)'
      BY <3>1, FitStays DEF IsCall
    <3> QED
      BY <3>1, <3>2
  <2> QED
    BY <2>2, <2>3
<1>2. \A d \in Callers : IsCall(call[d])'
  BY <1>1
<1> QED
  BY <1>2 DEF CallsFit

\* A call that goes on with some steps, or returns.
LEMMA CallContinues ==
    ASSUME CallsFit, Grows, root' = root \/ root = "active", NEW c \in Callers,
           NEW t, NEW v, Plain(t)' \/ Finalizing(t)', Continue(c, t, v)
    PROVE  CallsFit'
<1>1. PICK k : k = (IF t = << >> THEN << >> ELSE [todo |-> t, view |-> v])  OBVIOUS
<1>2. IsCall(k)'
  <2>1. CASE t = << >>
    BY <1>1, <2>1 DEF IsCall
  <2>2. CASE t # << >>
    <3>1. k = [todo |-> t, view |-> v] /\ k.todo = t /\ k.view = v
      BY <1>1, <2>2
    <3> QED
      BY <2>2, <3>1 DEF IsCall
  <2> QED
    BY <2>1, <2>2
<1>3. call' = [call EXCEPT ![c] = k]
  BY <1>1 DEF Continue
<1> QED
  BY <1>2, <1>3, CallChanges

\* A call that returns.
LEMMA CallReturns ==
    ASSUME CallsFit, Grows, root' = root \/ root = "active", NEW c \in Callers, Return(c)
    PROVE  CallsFit'
<1>1. PICK k : k = << >>  OBVIOUS
<1>2. IsCall(k)' /\ call' = [call EXCEPT ![c] = k]
  BY <1>1 DEF IsCall, Return
<1> QED
  BY <1>2, CallChanges

\* The first step of a call in progress.
LEMMA CallHead ==
    ASSUME CallsFit, NEW c \in Callers, ~Free(c)
    PROVE  LET t == call[c].todo IN
           /\ t # << >> /\ (Plain(t) \/ Finalizing(t))
           /\ Plain(t) => Head1(c) = t[1] /\ t[1] \in Steps /\ Fit(Head1(c))
<1>1. PICK t : t = call[c].todo  OBVIOUS
<1>2. t # << >> /\ (Plain(t) \/ Finalizing(t))
  BY <1>1 DEF CallsFit, IsCall, Free
<1>3. ASSUME Plain(t) PROVE Head1(c) = t[1] /\ t[1] \in Steps /\ Fit(Head1(c))
  <2>1. t \in Seq(Steps) /\ Len(t) \in Nat /\ Len(t) > 0
    BY <1>2, <1>3 DEF Plain
  <2>2. Head1(c) = t[1] /\ t[1] \in Steps
    BY <1>1, <2>1 DEF Head1
  <2>3. StepFits(t, 1)
    BY <1>3, <2>1 DEF Plain
  <2> QED
    BY <2>2, <2>3 DEF StepFits, Fit
<1> QED
  BY <1>1, <1>2, <1>3

\* Steps that leave the run alone.
LEMMA RunStays ==
    ASSUME AutoInv, run' = run, root' = root \/ root = "active"
    PROVE  Grows /\ RunFits' /\ StatusFits'
           /\ (started' = started => StartedFit')
<1>1. Grows
  BY DEF Grows, HasAttempt
<1>2. RunFits'
  BY DEF AutoInv, RunFits, IsRow, RowFits, MayWork, Latest
<1>3. StatusFits'
  BY DEF AutoInv, StatusFits, AllDone
<1>4. started' = started => StartedFit'
  BY DEF AutoInv, StartedFit, MayWork
<1> QED
  BY <1>1, <1>2, <1>3, <1>4

\* A head that waits on the shell or on the verifier is about a milestone
\* that may be worked on and has an attempt.
LEMMA HeadWorks ==
    ASSUME CallsFit, NEW c \in Callers, ~Free(c),
           Head1(c).op \in {"observeUnresolved", "observeInFlight", "verify", "launch", "reply"}
    PROVE  Head1(c).m \in Milestones /\ MayWork(Head1(c).m) /\ HasAttempt(Head1(c).m)
<1>1. PICK t : t = call[c].todo  OBVIOUS
<1>2. Plain(t)
  <2>1. SUFFICES ASSUME Finalizing(t) PROVE FALSE
    BY <1>1, CallHead
  <2>2. Head1(c) \in {ToRun("completing"), Sync, FinishGoal, Final}
    BY <1>1, <2>1 DEF Finalizing, Head1
  <2> QED
    BY <2>2 DEF ToRun, Sync, FinishGoal, Final
<1>3. Fit(Head1(c))
  BY <1>1, <1>2, CallHead
<1>4. Works(Head1(c)) /\ Needs(Head1(c))
  BY DEF Works, Needs, WorkOps
<1> QED
  BY <1>3, <1>4, StepShape DEF Fit

\* One step before three.
LEMMA Prefixed ==
    ASSUME NEW a, NEW b, NEW c, NEW d
    PROVE  <<a>> \o <<b, c, d>> = <<a, b, c, d>> /\ << >> \o <<b, c, d>> = <<b, c, d>>
<1>1. PICK S, x, y, z : S = {a, b, c, d} /\ x = <<a>> /\ y = <<b, c, d>> /\ z = <<a, b, c, d>>
  OBVIOUS
<1>2. x \in Seq(S) /\ y \in Seq(S) /\ z \in Seq(S) /\ x \o y \in Seq(S) /\ << >> \o y \in Seq(S)
  BY <1>1
<1>3. << >> \o y = y
  BY <1>2, ConcatEmptySeq
<1>4. Len(x) = 1 /\ Len(y) = 3 /\ Len(z) = 4 /\ Len(x \o y) = 4
  BY <1>1, <1>2
<1>5. \A i \in 1..4 : (x \o y)[i] = z[i]
  <2>1. (x \o y)[1] = a /\ (x \o y)[2] = b /\ (x \o y)[3] = c /\ (x \o y)[4] = d
    BY <1>1
  <2>2. z[1] = a /\ z[2] = b /\ z[3] = c /\ z[4] = d
    BY <1>1
  <2>3. PICK u : u = x \o y  OBVIOUS
  <2>4. u[1] = z[1] /\ u[2] = z[2] /\ u[3] = z[3] /\ u[4] = z[4]
    BY <2>1, <2>2, <2>3
  <2>5. \A i \in 1..4 : i = 1 \/ i = 2 \/ i = 3 \/ i = 4
    OBVIOUS
  <2>6. \A i \in 1..4 : u[i] = z[i]
    BY <2>4, <2>5
  <2> QED
    BY <2>3, <2>6
<1>6. x \o y = z
  BY <1>2, <1>4, <1>5, SeqEqual
<1> QED
  BY <1>1, <1>3, <1>6

\* A call that begins.
LEMMA CallBegins ==
    ASSUME AutoInv, NEW c \in Callers,
           Advance(c) \/ Pause(c) \/ Resume(c) \/ Cancel(c) \/ Finalize(c)
    PROVE  AutoInv'
<1>1. run' = run /\ root' = root /\ started' = started
  BY DEF Advance, Pause, Resume, Cancel, Finalize
<1>2. Grows /\ RunFits' /\ StatusFits' /\ StartedFit'
  BY <1>1, RunStays
<1>3. CallsFit
  BY DEF AutoInv
<1>4. SUFFICES ASSUME NEW t, Enter(c, t), t # << >>, Plain(t) \/ Finalizing(t)
               PROVE  CallsFit'
  <2>1. SUFFICES \E t : Enter(c, t) /\ t # << >> /\ (Plain(t) \/ Finalizing(t))
    BY <1>2, <1>4 DEF AutoInv
  <2>2. CASE Advance(c)
    <3>1. PICK a, b : /\ a = (IF RequiresPreflightGoalSync(run) THEN <<Sync>> ELSE << >>)
                      /\ b = AdvanceSteps(run)
      OBVIOUS
    <3>2. Plain(a) /\ Plain(b) /\ b # << >>
      BY <3>1, PlainShort, FitRunSteps, PlainAdvance DEF AutoInv
    <3>3. Plain(a \o b) /\ a \o b # << >>
      <4>1. a \in Seq(Steps) /\ b \in Seq(Steps)
        BY <3>2 DEF Plain
      <4>2. Len(b) > 0 /\ Len(a \o b) = Len(a) + Len(b) /\ Len(a) \in Nat /\ Len(b) \in Nat
        BY <3>2, <4>1
      <4> QED
        BY <3>2, <4>2, PlainConcat
    <3>4. Enter(c, a \o b)
      BY <2>2, <3>1 DEF Advance
    <3> QED
      BY <3>3, <3>4
  <2>3. CASE Pause(c) \/ Resume(c)
    <3>1. Plain(<<ToRun("paused"), Sync>>) /\ Plain(<<ToRun("active"), Sync>>)
      BY PlainShort, FitRunSteps DEF RunStatuses
    <3>2. Enter(c, <<ToRun("paused"), Sync>>) \/ Enter(c, <<ToRun("active"), Sync>>)
      BY <2>3 DEF Pause, Resume
    <3> QED
      BY <3>1, <3>2
  <2>4. CASE Cancel(c)
    <3>1. Plain(<<ToRun("cancelled")>>) /\ Plain(<<[op |-> "cancelGoal"], ToRun("cancelled")>>)
      BY PlainShort, FitRunSteps DEF RunStatuses
    <3>2. \/ Enter(c, <<ToRun("cancelled")>>)
          \/ Enter(c, <<[op |-> "cancelGoal"], ToRun("cancelled")>>)
      BY <2>4 DEF Cancel
    <3> QED
      BY <3>1, <3>2
  <2>5. CASE Finalize(c)
    <3>1. CASE root = "completed" /\ run.status = "completing" /\ Enter(c, <<Final>>)
      <4>1. Finalizing(<<Final>>)
        BY <3>1 DEF AutoInv, StatusFits, Finalizing
      <4> QED
        BY <3>1, <4>1
    <3>2. CASE ReadyToFinalize(run) /\ Enter(c, FinalizeSteps(run))
      <4>1. AllDone
        BY <3>2 DEF ReadyToFinalize, AllDone
      <4>2. \/ FinalizeSteps(run) = <<ToRun("completing"), Sync, FinishGoal, Final>>
            \/ FinalizeSteps(run) = <<Sync, FinishGoal, Final>>
        <5>1. PICK x : x = <<Sync, FinishGoal, Final>>  OBVIOUS
        <5>2. FinalizeSteps(run) = (IF run.status = "active" THEN <<ToRun("completing")>> ELSE << >>) \o x
          BY <5>1 DEF FinalizeSteps, FinishGoal, Final
        <5>3. /\ <<ToRun("completing")>> \o <<Sync, FinishGoal, Final>>
                   = <<ToRun("completing"), Sync, FinishGoal, Final>>
              /\ << >> \o <<Sync, FinishGoal, Final>> = <<Sync, FinishGoal, Final>>
          BY Prefixed
        <5> QED
          BY <5>1, <5>2, <5>3
      <4> QED
        BY <3>2, <4>1, <4>2 DEF Finalizing
    <3> QED
      BY <2>5, <3>1, <3>2 DEF Finalize, Final
  <2> QED
    BY <2>2, <2>3, <2>4, <2>5
<1>5. PICK k : k = [todo |-> t, view |-> run]  OBVIOUS
<1>6. call' = [call EXCEPT ![c] = k]
  BY <1>4, <1>5 DEF Enter
<1>7. Plain(t)' \/ Finalizing(t)'
  BY <1>1, <1>2, <1>4, FitStays
<1>8. IsCall(k)'
  <2>1. k.todo = t /\ k = [todo |-> k.todo, view |-> k.view]
    BY <1>5
  <2> QED
    BY <1>4, <1>7, <2>1 DEF IsCall
<1> QED
  BY <1>1, <1>2, <1>3, <1>6, <1>8, CallChanges


\* The rest of finalize.
LEMMA FinalizingTail ==
    ASSUME NEW t, Finalizing(t), Grows, root' = root \/ root = "active",
           Head(t) = FinishGoal => root' = "completed"
    PROVE  Plain(Tail(t))' \/ Finalizing(Tail(t))'
<1>1. AllDone'
  BY FitStays DEF Finalizing
<1>2. CASE t = <<ToRun("completing"), Sync, FinishGoal, Final>>
  <2>1. Tail(t) = <<Sync, FinishGoal, Final>>
    BY <1>2
  <2> QED
    BY <1>1, <2>1 DEF Finalizing
<1>3. CASE t = <<Sync, FinishGoal, Final>>
  <2>1. Tail(t) = <<FinishGoal, Final>>
    BY <1>3
  <2> QED
    BY <1>1, <2>1 DEF Finalizing
<1>4. CASE t = <<FinishGoal, Final>>
  <2>1. Tail(t) = <<Final>> /\ Head(t) = FinishGoal
    BY <1>4
  <2> QED
    BY <1>1, <2>1 DEF Finalizing
<1>5. CASE t = <<Final>>
  <2>1. Tail(t) = << >>
    BY <1>5
  <2>2. Plain(<< >>)'
    BY DEF Plain
  <2> QED
    BY <2>1, <2>2
<1> QED
  BY <1>2, <1>3, <1>4, <1>5 DEF Finalizing

\* The run gets another status.
LEMMA StatusWritten ==
    ASSUME AutoInv, NEW s, started' = started,
           run' = [status |-> s, revision |-> run.revision + 1, ms |-> run.ms,
                   attempts |-> run.attempts]
    PROVE  Grows /\ RunFits' /\ StartedFit' /\ run'.status = s
<1>1. run'.ms = run.ms /\ run'.attempts = run.attempts /\ run'.status = s
  OBVIOUS
<1>2. Grows
  BY <1>1 DEF Grows, HasAttempt
<1>3. IsRow(run)'
  BY <1>1 DEF AutoInv, RunFits, IsRow
<1>4. RunFits'
  BY <1>1, <1>3 DEF AutoInv, RunFits, RowFits, MayWork, Latest
<1>5. StartedFit'
  BY <1>1 DEF AutoInv, StartedFit, MayWork
<1> QED
  BY <1>1, <1>2, <1>4, <1>5

\* One milestone is rewritten.
LEMMA MilestoneWritten ==
    ASSUME AutoInv, NEW m \in Milestones, NEW s, NEW a, started' = started, root' = root,
           RowWritten(run, run', m, s, a), MayWork(m),
           run.ms[m] # "completed", run.attempts[m] # << >> => a # << >>,
           s # "ready" => a # << >>, s = "completed" => Last(a).verified
    PROVE  /\ Grows /\ RunFits' /\ StartedFit' /\ StatusFits'
           /\ a # << >> => HasAttempt(m)'
<1>1. IsRow(run)
  BY DEF AutoInv, RunFits
<1>2. /\ run'.ms = [run.ms EXCEPT ![m] = s] /\ run'.attempts = [run.attempts EXCEPT ![m] = a]
      /\ run'.status = run.status /\ s \in MilestoneStatuses \ {"pending"} /\ a \in Seq(Attempts)
      /\ run' = [status |-> run'.status, revision |-> run'.revision, ms |-> run'.ms,
                 attempts |-> run'.attempts]
  BY DEF RowWritten
<1>3. /\ run'.ms[m] = s /\ run'.attempts[m] = a
      /\ \A n \in Milestones : n # m => run'.ms[n] = run.ms[n] /\ run'.attempts[n] = run.attempts[n]
  BY <1>1, <1>2 DEF IsRow
<1>4. Grows
  BY <1>3 DEF Grows, HasAttempt
<1>5. IsRow(run)'
  BY <1>1, <1>2 DEF IsRow
<1>6. /\ \A n \in Milestones : MayWork(n) => MayWork(n)'
      /\ AllDone => AllDone'
  BY <1>4, FitStays
<1>7. ASSUME NEW n \in Milestones PROVE RowFits(run, n)' /\ (run'.ms[n] # "pending" => MayWork(n)')
  <2>1. CASE n = m
    BY <1>2, <1>3, <1>6, <2>1 DEF RowFits, Latest
  <2>2. CASE n # m
    BY <1>3, <1>6, <2>2 DEF AutoInv, RunFits, RowFits, Latest
  <2> QED
    BY <2>1, <2>2
<1>8. RunFits'
  BY <1>5, <1>7 DEF RunFits
<1>9. StartedFit'
  BY <1>6 DEF AutoInv, StartedFit
<1>10. StatusFits'
  BY <1>2, <1>6 DEF AutoInv, StatusFits
<1>11. a # << >> => HasAttempt(m)'
  BY <1>3 DEF HasAttempt
<1> QED
  BY <1>4, <1>8, <1>9, <1>10, <1>11

\* A transaction on the run.
LEMMA MutateKeeps ==
    ASSUME AutoInv, NEW c \in Callers, Mutate(c)
    PROVE  AutoInv'
<1>1. PICK t, x : t = call[c].todo /\ x = Head1(c)  OBVIOUS
<1>2. /\ ~Free(c) /\ x.op \in RunMutations /\ CallsFit /\ RunFits
      /\ started' = started /\ root' = root
  BY <1>1 DEF Mutate, AutoInv
<1>3. t # << >> /\ (Plain(t) \/ Finalizing(t)) /\ (Plain(t) => Fit(x))
  BY <1>1, <1>2, CallHead
<1>4. CASE run' = run /\ Return(c)
  <2>1. Grows /\ RunFits' /\ StatusFits' /\ StartedFit'
    BY <1>2, <1>4, RunStays
  <2> QED
    BY <1>2, <1>4, <2>1, CallReturns DEF AutoInv
<1>5. CASE Legal(run, x) /\ run' = Applied(run, x) /\ Continue(c, Tail(t), run')
  <2>1. PICK v : v = run'  OBVIOUS
  <2>2. SUFFICES /\ Grows /\ RunFits' /\ StatusFits' /\ StartedFit'
                 /\ Plain(Tail(t))' \/ Finalizing(Tail(t))'
    <3>1. PICK u : u = Tail(t)  OBVIOUS
    <3>2. Continue(c, u, v) /\ (Plain(u)' \/ Finalizing(u)')
      BY <1>5, <2>1, <2>2, <3>1
    <3> QED
      BY <1>2, <2>2, <3>2, CallContinues DEF AutoInv
  <2>3. CASE Finalizing(t)
    <3>1. x \in {ToRun("completing"), Final} /\ (x = Final => root = "completed")
      <4>1. \/ x = ToRun("completing") \/ x = Sync \/ x = FinishGoal
            \/ x = Final /\ root = "completed"
        BY <1>1, <2>3 DEF Finalizing, Head1
      <4>2. Sync.op = "sync" /\ FinishGoal.op = "finishGoal"
        BY DEF Sync, FinishGoal
      <4>3. ToRun("completing") # Final
        BY DEF ToRun, Final
      <4> QED
        BY <1>2, <4>1, <4>2, <4>3 DEF RunMutations
    <3>2. /\ x \in Steps /\ x.op = "run" /\ ~Works(x) /\ ~Needs(x)
          /\ x.to \in {"completing", "completed"} /\ (x.to = "completed" => x = Final)
      BY <3>1 DEF Steps, ToRun, Final, RunStatuses, Works, Needs, WorkOps
    <3>3. run' = [status |-> x.to, revision |-> run.revision + 1, ms |-> run.ms,
                  attempts |-> run.attempts]
      BY <1>2, <1>5, <3>2, AppliedWrites DEF RunFits
    <3>4. Grows /\ RunFits' /\ StartedFit' /\ run'.status = x.to
      BY <1>2, <3>3, StatusWritten
    <3>5. AllDone'
      BY <1>2, <2>3, <3>4, FitStays DEF Finalizing
    <3>6. StatusFits'
      BY <1>2, <3>1, <3>2, <3>4, <3>5 DEF StatusFits
    <3>7. Head(t) # FinishGoal
      <4>1. Head(t) = x /\ FinishGoal.op = "finishGoal"
        BY <1>1 DEF Head1, FinishGoal
      <4> QED
        BY <3>2, <4>1
    <3> QED
      BY <1>2, <2>3, <3>4, <3>6, <3>7, FinalizingTail
  <2>4. CASE Plain(t)
    <3>1. /\ Fit(x) /\ x \in Steps /\ (Works(x) => x.m \in Milestones /\ MayWork(x.m))
          /\ (Needs(x) => HasAttempt(x.m))
      BY <1>3, <2>4, StepShape DEF Fit
    <3>2. \/ /\ x.op = "run"
             /\ run' = [status |-> x.to, revision |-> run.revision + 1,
                        ms |-> run.ms, attempts |-> run.attempts]
          \/ \E s, a : /\ x.op # "run" /\ x.m \in Milestones
                       /\ RowWritten(run, run', x.m, s, a)
                       /\ run.ms[x.m] # "completed"
                       /\ x.op = "reserve" => a # << >>
                       /\ run.attempts[x.m] # << >> => a # << >>
                       /\ s # "ready" => a # << >>
                       /\ s = "completed" => Last(a).verified
                       /\ AttemptWritten(run, x, s, a)
      <4>1. IsRow(run) /\ (Works(x) => RowFits(run, x.m))
            /\ (Needs(x) => run.attempts[x.m] # << >>)
        BY <1>2, <3>1 DEF RunFits, HasAttempt
      <4> QED
        BY <1>2, <1>5, <3>1, <4>1, AppliedWrites
    <3>3. Head(t) = x
      BY <1>1 DEF Head1
    <3>4. CASE x.op = "run"
      <4>1. run' = [status |-> x.to, revision |-> run.revision + 1, ms |-> run.ms,
                    attempts |-> run.attempts]
        BY <3>2, <3>4
      <4>2. Grows /\ RunFits' /\ StartedFit' /\ run'.status = x.to
        BY <1>2, <4>1, StatusWritten
      <4>3. x.to \notin {"completing", "completed"}
        <5>1. x = ToRun(x.to)
          BY <3>1, <3>4 DEF Steps, ToRun, Sync, ToMilestone, ReserveAttempt, UpdateAttempt,
                            RecordVerification, Await
        <5> QED
          BY <3>1, <5>1 DEF Fit, Ending, Final
      <4>4. StatusFits'
        BY <4>2, <4>3 DEF StatusFits
      <4>5. \A m \in Milestones : x # ReserveAttempt(m)
        BY <3>4 DEF ReserveAttempt
      <4> QED
        BY <1>2, <1>3, <2>4, <3>3, <4>2, <4>4, <4>5, PlainTail
    <3>5. CASE x.op # "run"
      <4>1. PICK s, a : /\ x.m \in Milestones /\ RowWritten(run, run', x.m, s, a)
                        /\ run.ms[x.m] # "completed"
                        /\ x.op = "reserve" => a # << >>
                        /\ run.attempts[x.m] # << >> => a # << >>
                        /\ s # "ready" => a # << >>
                        /\ s = "completed" => Last(a).verified
        BY <3>2, <3>5
      <4>2. MayWork(x.m)
        BY <1>2, <3>1, <3>5 DEF Works, WorkOps, RunMutations
      <4>3. Grows /\ RunFits' /\ StartedFit' /\ StatusFits' /\ (a # << >> => HasAttempt(x.m)')
        BY <1>2, <4>1, <4>2, MilestoneWritten
      <4>4. ASSUME NEW m \in Milestones, x = ReserveAttempt(m) PROVE HasAttempt(m)'
        <5>1. x.op = "reserve" /\ x.m = m
          BY <4>4 DEF ReserveAttempt
        <5> QED
          BY <4>1, <4>3, <5>1
      <4> QED
        BY <1>2, <1>3, <2>4, <3>3, <4>3, <4>4, PlainTail
    <3> QED
      BY <3>4, <3>5
  <2> QED
    BY <1>3, <2>3, <2>4
<1> QED
  BY <1>1, <1>4, <1>5 DEF Mutate, Rest


\* An answer of the shell or of the verifier.
LEMMA AnswerArrives ==
    ASSUME AutoInv, NEW c \in Callers, Observe(c) \/ LaunchReturns(c) \/ Verify(c)
    PROVE  AutoInv'
<1>1. run' = run /\ root' = root /\ started' = started /\ CallsFit
  BY DEF Observe, LaunchReturns, Verify, AutoInv
<1>2. Grows /\ RunFits' /\ StatusFits' /\ StartedFit'
  BY <1>1, RunStays
<1>3. PICK m, v : m = Head1(c).m /\ v = call[c].view  OBVIOUS
<1>4. m \in Milestones /\ MayWork(m) /\ HasAttempt(m)
  BY <1>1, <1>3, HeadWorks DEF Observe, LaunchReturns, Verify, Serving
<1>5. ASSUME NEW t, Plain(t), Continue(c, t, v) PROVE AutoInv'
  BY <1>1, <1>2, <1>5, CallContinues, FitStays DEF AutoInv
<1>6. \A k \in TaskIds \cup {Task(c)} : SightOf(k) \subseteq Sights
  BY DEF SightOf, Sights
<1>7. CASE Observe(c)
  <2>1. PICK sight \in Sights :
          Continue(c, IF Head1(c).op = "observeUnresolved" THEN UnresolvedSteps(v, m, sight)
                      ELSE InFlightSteps(v, m, sight), v)
    BY <1>3, <1>6, <1>7 DEF Observe
  <2>2. PICK t : t = (IF Head1(c).op = "observeUnresolved" THEN UnresolvedSteps(v, m, sight)
                      ELSE InFlightSteps(v, m, sight))
    OBVIOUS
  <2>3. Plain(t)
    BY <1>4, <2>2, PlainUnresolved, PlainInFlight
  <2> QED
    BY <1>5, <2>1, <2>2, <2>3
<1>8. CASE LaunchReturns(c)
  <2>1. PICK sight \in Sights : Continue(c, PersistObservation(v, m, sight), v)
    BY <1>3, <1>6, <1>8 DEF LaunchReturns
  <2> QED
    BY <1>4, <1>5, <2>1, PlainObservation
<1>9. CASE Verify(c)
  <2>1. CASE Return(c)
    BY <1>1, <1>2, <2>1, CallReturns DEF AutoInv
  <2>2. CASE \E verdict \in Verdicts : Continue(c, VerifiedSteps(v, m, verdict), v)
    BY <1>4, <1>5, <2>2, PlainVerified
  <2> QED
    BY <1>3, <1>9, <2>1, <2>2 DEF Verify
<1> QED
  BY <1>7, <1>8, <1>9

\* A launch: the task that is started is of a milestone that may be worked on,
\* however old the view of the call is.
LEMMA LaunchKeeps ==
    ASSUME AutoInv, NEW c \in Callers, Launch(c)
    PROVE  AutoInv'
<1>1. /\ run' = run /\ root' = root /\ CallsFit /\ ~Free(c) /\ Head1(c).op = "launch"
  BY DEF Launch, Serving, AutoInv
<1>2. Grows /\ RunFits' /\ StatusFits'
  BY <1>1, RunStays
<1>3. PICK m, v : m = Head1(c).m /\ v = call[c].view  OBVIOUS
<1>4. m \in Milestones /\ MayWork(m) /\ HasAttempt(m)
  BY <1>1, <1>3, HeadWorks
<1>5. CallsFit'
  <2>1. PICK t : t = <<Await("reply", m)>>  OBVIOUS
  <2>2. Plain(t)
    BY <1>4, <2>1, FitSteps, PlainShort
  <2>3. Continue(c, t, v)
    BY <1>3, <2>1 DEF Launch
  <2> QED
    BY <1>1, <1>2, <2>2, <2>3, CallContinues, FitStays
<1>6. StartedFit'
  <2>1. PICK k : k = Task(c)  OBVIOUS
  <2>2. k[1] = m
    BY <1>3, <2>1 DEF Task
  <2>3. started' \subseteq started \cup {k}
    BY <2>1 DEF Launch
  <2>4. \A n \in Milestones : MayWork(n) => MayWork(n)'
    BY <1>1, <1>2, FitStays
  <2> QED
    BY <1>4, <2>2, <2>3, <2>4 DEF AutoInv, StartedFit
<1> QED
  BY <1>2, <1>5, <1>6 DEF AutoInv

\* The root goal is checkpointed or ended by the call.
LEMMA GoalStepKeeps ==
    ASSUME AutoInv, NEW c \in Callers, SyncGoalState(c) \/ EndGoal(c)
    PROVE  AutoInv'
<1>1. /\ run' = run /\ (root' = root \/ root = "active") /\ started' = started /\ CallsFit
      /\ ~Free(c)
  BY DEF SyncGoalState, EndGoal, AutoInv, Serving
<1>2. Grows /\ RunFits' /\ StatusFits' /\ StartedFit'
  BY <1>1, RunStays
<1>3. CASE Return(c)
  BY <1>1, <1>2, <1>3, CallReturns DEF AutoInv
<1>4. CASE Continue(c, Rest(c), call[c].view)
  <2>1. PICK t, u, v : t = call[c].todo /\ u = Tail(t) /\ v = call[c].view  OBVIOUS
  <2>2. t # << >> /\ (Plain(t) \/ Finalizing(t)) /\ Head1(c) = Head(t)
    BY <1>1, <2>1, CallHead DEF Head1
  <2>3. CASE Plain(t)
    <3>1. \A m \in Milestones : Head(t) # ReserveAttempt(m)
      BY <2>2 DEF SyncGoalState, EndGoal, Serving, ReserveAttempt
    <3>2. Plain(u)'
      BY <1>1, <1>2, <2>1, <2>2, <2>3, <3>1, PlainTail
    <3> QED
      BY <1>1, <1>2, <1>4, <2>1, <3>2, CallContinues DEF AutoInv, Rest
  <2>4. CASE Finalizing(t)
    <3>1. Head(t) = FinishGoal => root' = "completed"
      BY <2>2 DEF SyncGoalState, EndGoal, Serving, FinishGoal
    <3>2. Plain(u)' \/ Finalizing(u)'
      BY <1>1, <1>2, <2>1, <2>4, <3>1, FinalizingTail
    <3> QED
      BY <1>1, <1>2, <1>4, <2>1, <3>2, CallContinues DEF AutoInv, Rest
  <2> QED
    BY <2>2, <2>3, <2>4
<1> QED
  BY <1>3, <1>4 DEF SyncGoalState, EndGoal

\* What a call that ends leaves, and what happens outside of the calls.
LEMMA OthersKeep ==
    ASSUME AutoInv,
           \/ \E c \in Callers : GoalRefuses(c)
           \/ RuntimeCrash
           \/ \E t \in TaskIds : TaskEnds(t)
           \/ GoalCancelled
           \/ UNCHANGED autoVars
    PROVE  AutoInv'
<1>1. run' = run /\ (root' = root \/ root = "active") /\ started' = started /\ CallsFit
  BY DEF GoalRefuses, RuntimeCrash, TaskEnds, GoalCancelled, autoVars, AutoInv
<1>2. Grows /\ RunFits' /\ StatusFits' /\ StartedFit'
  BY <1>1, RunStays
<1>3. CASE \E c \in Callers : Return(c)
  BY <1>1, <1>2, <1>3, CallReturns DEF AutoInv
<1>4. CASE call' = call
  <2>1. \A k : IsCall(k) => IsCall(k)'
    BY <1>1, <1>2, FitStays DEF IsCall
  <2>2. CallsFit'
    BY <1>1, <1>4, <2>1 DEF CallsFit
  <2> QED
    BY <1>2, <2>2 DEF AutoInv
<1>5. CASE call' = [c \in Callers |-> << >>]
  BY <1>1, <1>2, <1>5 DEF AutoInv, CallsFit, IsCall
<1> QED
  BY <1>3, <1>4, <1>5 DEF GoalRefuses, RuntimeCrash, TaskEnds, GoalCancelled, autoVars

-----------------------------------------------------------------------------
(* The theorem about the automation runs. *)

\* The invariant holds at the start ...
LEMMA AutoStarts == AutomationInit => AutoInv
<1> SUFFICES ASSUME AutomationInit PROVE AutoInv
  OBVIOUS
<1>1. /\ run.ms = [m \in Milestones |-> "pending"] /\ run.status = "active"
      /\ run.attempts = [m \in Milestones |-> << >>]
      /\ run = [status |-> run.status, revision |-> run.revision, ms |-> run.ms,
                attempts |-> run.attempts]
  BY DEF AutomationInit
<1>2. IsRow(run)
  BY <1>1 DEF IsRow, MilestoneStatuses
<1>3. RunFits
  BY <1>1, <1>2 DEF RunFits, RowFits
<1>4. CallsFit /\ StartedFit /\ StatusFits
  BY <1>1 DEF AutomationInit, CallsFit, IsCall, StartedFit, StatusFits
<1> QED
  BY <1>3, <1>4 DEF AutoInv

\* ... and every step keeps it.
LEMMA AutoStepKeeps == AutoInv /\ [AutomationNext]_autoVars => AutoInv'
  BY CallBegins, MutateKeeps, AnswerArrives, LaunchKeeps, GoalStepKeeps, OthersKeep
  DEF AutomationNext, CallSteps

\* For any number of calls of any number of hosts: no command runs before what
\* it depends on is verified, and a completed run has all its evidence and a
\* completed goal (automation-service.ts, automation-repository.ts).
THEOREM WorkAlwaysProven == AutomationSpec => []WorkIsProven
<1>1. AutoInv => WorkIsProven
  <2> SUFFICES ASSUME AutoInv PROVE WorkIsProven
    OBVIOUS
  <2>1. \A m \in Milestones : run.ms[m] = "completed" => Latest(run, m).verified
    BY DEF AutoInv, RunFits, RowFits
  <2>2. ASSUME NEW t \in started, NEW d \in DependsOn[t[1]]
        PROVE  run.ms[d] = "completed" /\ Latest(run, d).verified
    <3>1. t[1] \in Milestones /\ MayWork(t[1]) /\ d \in Milestones
      BY <2>2, AutomationAssumption DEF AutoInv, StartedFit
    <3> QED
      BY <2>1, <2>2, <3>1 DEF MayWork
  <2>3. run.status = "completed" =>
          root = "completed" /\ \A m \in Milestones : run.ms[m] = "completed" /\ Latest(run, m).verified
    BY <2>1 DEF AutoInv, StatusFits, AllDone
  <2> QED
    BY <2>2, <2>3 DEF WorkIsProven
<1> QED
  BY <1>1, AutoStarts, AutoStepKeeps, PTL DEF AutomationSpec

-----------------------------------------------------------------------------
(* The inductive invariant of the file mutations. *)

IsOp(m) == m = [at |-> m.at, kind |-> m.kind, on |-> m.on, to |-> m.to, before |-> m.before, back |-> m.back,
                done |-> m.done, broken |-> m.broken, met |-> m.met]
Idle == Over \cup {"new"}
DoneIn(m) == {m.done[i] : i \in 1..Len(m.done)}
Fetching == {"untrash", "swap", "swapping", "swapped"}
Trashing == Fetching \cup {"delete", "deleteKept", "external"}
\* An operation that may still put an item into the trash.
MayTrash == {"new", "delete", "deleteKept", "swap"}

\* What a checkpoint stores of content c, where g is the ground; the content c
\* of path p is stored, or is not to be.
Read(g, c) == IF c \in Paths /\ g[2][c] = "garbled" THEN Mangled ELSE c
Secured(p, c, k, g) == c = Absent \/ p \in g[1] \/ Read(g, c) \in k

\* A replacement works on the contents d that it looked at and keeps, as long
\* as it is alone on its paths.
ReplaceFits(o, m, d, k, g) ==
    m.at \in {"seen", "kept", "undo"} =>
        /\ m.kind \notin {"move", "copy"} /\ (m.to = o \/ m.to \in k)
        /\ m.done \in Seq(m.on)
        /\ \A i, j \in 1..Len(m.done) : m.done[i] = m.done[j] => i = j
        /\ m.at = "seen" => m.done = <<>>
        /\ m.at = "undo" => m.done # <<>>
        /\ m.at # "undo" => ~m.broken
        /\ \A p \in m.on : m.before[p] \in Content \cup {Absent} /\ m.back[p] \in Content \cup {Absent}
        /\ ~m.met =>
            \A p \in m.on :
                /\ m.at # "seen" => Secured(p, m.before[p], k, g)
                /\ m.back[p] = m.before[p] \/ (m.kind = "checkpoint" /\ m.back[p] = Read(g, m.before[p]))
                /\ d[p] = m.to \/ (p \notin DoneIn(m) /\ d[p] \in {m.before[p], m.back[p]})
                /\ p \notin DoneIn(m) /\ ~m.broken => d[p] \in {m.before[p], m.back[p]}
\* A transfer finds its destination free, and what it copied there.
TransferFits(m, d) ==
    m.at \in {"move", "copy", "copied"} =>
        /\ m.kind \in {"move", "copy"} /\ m.to \in Paths
        /\ \A p, r \in m.on : p = r
        /\ ~m.met => /\ m.at # "copied" => d[m.to] = Absent
                     /\ m.at = "copied" => \A p \in m.on : p # m.to /\ d[p] = d[m.to]
\* The operations of the Recovery Trash: what is about to be replaced is in
\* the trash, and what is about to leave the trash is on the disk.
TrashFits(o, m, d, k, tr, g) ==
    /\ m.at \in Trashing => m.kind \in {"delete", "external", "restore"} /\ \A p, r \in m.on : p = r
    /\ m.at = "deleteKept" /\ ~m.met => \A p \in m.on : Read(g, d[p]) \in k
    /\ m.at \in Fetching => m.to \in Edits /\ \A t \in tr : t.item = m.to => t.path \in m.on
    /\ m.at = "untrash" /\ ~m.met => \A p \in m.on : d[p] = Absent
    /\ m.at \in {"external", "swapping"} /\ ~m.met =>
        \A p \in m.on : d[p] = Absent \/ p \in g[1] \/ \E t \in tr : t.item = o /\ t.content = d[p]
    /\ m.at = "swapped" /\ ~m.met => \A t \in tr : t.item = m.to => d[t.path] = t.content
    /\ m.at \notin Idle => \A t \in tr : t.item = o => t.path \in m.on
Fits(o, m, d, k, tr, g) ==
    /\ IsOp(m) /\ m.on \subseteq Paths /\ m.broken \in BOOLEAN /\ m.met \in BOOLEAN
    /\ m.at \in Idle \cup {"seen", "kept", "undo", "move", "copy", "copied"} \cup Trashing
    /\ ReplaceFits(o, m, d, k, g) /\ TransferFits(m, d) /\ TrashFits(o, m, d, k, tr, g)

TrashItems == [item : Edits, path : Paths, content : Content, kind : {"deleted", "backup"}]
FileShapes ==
    /\ disk \in [Paths -> Content \cup {Absent}]
    /\ kept \subseteq Content
    /\ trash \subseteq TrashItems
    /\ mut = [o \in Edits |-> mut[o]]
\* An operation that may still trash a file has no item yet, and none restores it.
Fresh ==
    \A o \in Edits : mut[o].at \in MayTrash =>
        /\ \A t \in trash : t.item # o
        /\ \A x \in Edits : mut[x].at \in Fetching => mut[x].to # o
\* An operation trashes one file.
TrashedOnce == \A t, u \in trash : t.item = u.item => t = u
\* Two operations that are open on one path have met.
Apart ==
    \A o, x \in Open : o # x /\ ~mut[o].met => Footprint(mut[o]) \cap Footprint(mut[x]) = {}
FileInv ==
    /\ FileShapes /\ Fresh /\ TrashedOnce /\ Apart
    /\ \A o \in Edits : Fits(o, mut[o], disk, kept, trash, ground)

\* An operation keeps fitting while its own paths, if it is alone on them, do
\* not change, the checkpoints grow, nothing it waits for enters the trash and
\* nothing of its own leaves it.
LEMMA FitsStay ==
    ASSUME NEW o, NEW m, NEW d, NEW e, NEW k, NEW l, NEW tr, NEW ts, NEW g, k \subseteq l,
           Fits(o, m, d, k, tr, g),
           m.at \in Idle \/ m.met \/ \A p \in Footprint(m) : e[p] = d[p],
           \A t \in ts : t \in tr \/ (t.item # o /\ (m.at \notin Fetching \/ t.item # m.to)),
           \A t \in tr : t \in ts \/ m.at \in Idle \/ m.met \/ t.item # o
    PROVE  Fits(o, m, e, l, ts, g)
<1>0. CASE m.at \in Idle
  BY <1>0 DEF Fits, ReplaceFits, TransferFits, TrashFits, Idle, Over, Trashing, Fetching
<1>a. CASE m.at \notin Idle
  <2>1. \A p \in m.on : m.met \/ e[p] = d[p]
    BY <1>a DEF Footprint
  <2>2. ReplaceFits(o, m, e, l, g)
    BY <2>1 DEF Fits, ReplaceFits, Secured
  <2>3. TransferFits(m, e)
    <3>1. m.kind \in {"move", "copy"} => m.met \/ e[m.to] = d[m.to]
      BY <1>a DEF Footprint
    <3> QED BY <2>1, <3>1 DEF Fits, TransferFits
  <2>4. TrashFits(o, m, e, l, ts, g)
    <3>1. m.at \in {"external", "swapping"} /\ ~m.met =>
            \A p \in m.on : e[p] = Absent \/ p \in g[1] \/ \E t \in ts : t.item = o /\ t.content = e[p]
      BY <1>a, <2>1 DEF Fits, TrashFits
    <3>2. m.at = "swapped" /\ ~m.met => \A t \in ts : t.item = m.to => e[t.path] = t.content
      BY <1>a, <2>1 DEF Fits, TrashFits, Fetching
    <3> QED BY <1>a, <2>1, <3>1, <3>2 DEF Fits, TrashFits
  <2> QED BY <2>2, <2>3, <2>4 DEF Fits
<1> QED BY <1>0, <1>a

\* Nor does meeting another operation change that.
LEMMA FitsMet ==
    ASSUME NEW o, NEW m, NEW d, NEW k, NEW tr, NEW g, NEW b \in BOOLEAN, Fits(o, m, d, k, tr, g)
    PROVE  LET n == [m EXCEPT !.met = @ \/ b]
           IN  Fits(o, n, d, k, tr, g) /\ Footprint(n) = Footprint(m) /\ n.at = m.at /\ (n.met <=> (m.met \/ b))
               /\ n.to = m.to
<1> DEFINE n == [m EXCEPT !.met = @ \/ b]
<1>1. /\ n.at = m.at /\ n.kind = m.kind /\ n.on = m.on /\ n.to = m.to /\ n.before = m.before /\ n.back = m.back
      /\ n.done = m.done /\ n.broken = m.broken /\ n.met = (m.met \/ b) /\ IsOp(n)
  BY DEF Fits, IsOp
<1> HIDE DEF n
<1>2. DoneIn(n) = DoneIn(m) /\ Footprint(n) = Footprint(m)
  BY <1>1 DEF DoneIn, Footprint
<1>a. m.met \in BOOLEAN
  BY DEF Fits
<1>3. ReplaceFits(o, n, d, k, g)
  BY <1>1, <1>2, <1>a DEF Fits, ReplaceFits
<1>4. TransferFits(n, d) /\ TrashFits(o, n, d, k, tr, g)
  BY <1>1, <1>2, <1>a DEF Fits, TransferFits, TrashFits
<1>5. Fits(o, n, d, k, tr, g)
  BY <1>1, <1>3, <1>4, <1>a DEF Fits
<1> QED BY <1>1, <1>2, <1>5 DEF n

\* The contents that an action may not lose, and the targets it has to give back.
Survives(c) == Counts(c) => c \in Recoverable' \/ GivenUp(c)
Returned(o, p) ==
    disk'[p] = mut[o].before[p] \/ (mut[o].kind = "checkpoint" /\ disk'[p] = Decoded(mut[o].before[p]))
LosesNothing ==
    \A c \in Recoverable : Survives(c) \/ \E o \in Edits : mut[o].met /\ mut'[o] # mut[o]
UndoesFailed ==
    \A o \in Edits :
        (mut[o].at # "failed" /\ mut'[o].at = "failed" /\ mut[o].kind \in {"patch", "checkpoint"} /\ ~mut'[o].broken
           /\ ~mut[o].met)
           => \A p \in mut[o].on : Returned(o, p)

\* What every step of an operation that is open has in common: it touches its
\* own paths only, and n is what it goes on with.
Progress(o, n) ==
    /\ o \in Open /\ mut' = [mut EXCEPT ![o] = n] /\ ground' = ground
    /\ n.at \notin Idle => Footprint(n) = Footprint(mut[o]) /\ n.met = mut[o].met
    /\ n.at \notin MayTrash
    /\ n.at \in Fetching => mut[o].at \in Fetching /\ n.to = mut[o].to
    /\ disk' \in [Paths -> Content \cup {Absent}]
    /\ \A p \in Paths \ Footprint(mut[o]) : disk'[p] = disk[p]
    /\ kept \subseteq kept' /\ kept' \subseteq Content
    /\ trash' \subseteq TrashItems
    /\ \A t \in trash' : t \in trash \/ (t.item = o /\ mut[o].at \in MayTrash)
    /\ \A t \in trash : t \in trash' \/ t.path \in Footprint(mut[o])
    /\ TrashedOnce'
    /\ Fits(o, n, disk', kept', trash', ground)

LEMMA Progressed ==
    ASSUME FileInv, NEW o \in Edits, NEW n, Progress(o, n)
    PROVE  FileInv'
<1>1. \A x \in Edits : mut'[x] = IF x = o THEN n ELSE mut[x]
  BY DEF FileInv, FileShapes, Progress
<1>2. mut[o].at \notin Idle
  BY DEF Progress, Open, Idle
<1>3. \A x \in Open' : x \in Open /\ (x = o => n.at \notin Idle)
  BY <1>1, <1>2 DEF Open, Idle, Over
<1>4. FileShapes'
  <2>1. mut' = [x \in Edits |-> mut'[x]]
    BY <1>1 DEF FileInv, FileShapes, Progress
  <2> QED BY <2>1 DEF Progress, FileShapes, TrashItems, Content
<1>6. Fresh'
  <2> SUFFICES ASSUME NEW x \in Edits, mut'[x].at \in MayTrash
               PROVE  /\ \A t \in trash' : t.item # x
                      /\ \A y \in Edits : mut'[y].at \in Fetching => mut'[y].to # x
    BY DEF Fresh, MayTrash, Fetching
  <2>1. x # o /\ mut[x].at \in MayTrash
    BY <1>1 DEF Progress
  <2>2. \A t \in trash' : t.item # x
    BY <2>1 DEF FileInv, Fresh, Progress
  <2>3. \A y \in Edits : mut'[y].at \in Fetching => mut[y].at \in Fetching /\ mut'[y].to = mut[y].to
    BY <1>1 DEF Progress
  <2> QED BY <2>1, <2>2, <2>3 DEF FileInv, Fresh
<1>7. Apart'
  <2> SUFFICES ASSUME NEW x \in Open', NEW y \in Open', x # y, ~mut'[x].met
               PROVE  Footprint(mut'[x]) \cap Footprint(mut'[y]) = {}
    BY DEF Apart, Footprint
  <2>1. \A z \in Open' : z \in Edits /\ Footprint(mut'[z]) = Footprint(mut[z]) /\ mut'[z].met = mut[z].met
    BY <1>1, <1>3 DEF Open, Progress
  <2> QED BY <2>1, <1>3 DEF FileInv, Apart
<1>8. ASSUME NEW x \in Edits PROVE Fits(x, mut'[x], disk', kept', trash', ground)
  <2>1. CASE x = o
    BY <1>1, <2>1 DEF Progress
  <2>2. CASE x # o
    <3>1. mut'[x] = mut[x] /\ Fits(x, mut[x], disk, kept, trash, ground)
      BY <1>1, <2>2 DEF FileInv
    <3>a. mut[x].at \in Idle \/ mut[x].met \/ Footprint(mut[x]) \cap Footprint(mut[o]) = {}
      BY <2>2 DEF Open, Idle, FileInv, Apart, Progress
    <3>2. mut[x].at \in Idle \/ mut[x].met \/ \A p \in Footprint(mut[x]) : disk'[p] = disk[p]
      <4> SUFFICES ASSUME mut[x].at \notin Idle, ~mut[x].met, NEW p \in Footprint(mut[x])
                   PROVE  disk'[p] = disk[p]
        OBVIOUS
      <4>2. p \notin Footprint(mut[o])
        BY <3>a
      <4>3. p \in Paths
        BY <3>1 DEF Footprint, Fits, TransferFits, ReplaceFits, TrashFits, Idle
      <4> QED BY <4>2, <4>3 DEF Progress
    <3>3. \A t \in trash' : t \in trash \/ (t.item # x /\ (mut[x].at \notin Fetching \/ t.item # mut[x].to))
      BY <2>2 DEF Progress, FileInv, Fresh
    <3>4. ASSUME NEW t \in trash, t \notin trash', mut[x].at \notin Idle, ~mut[x].met PROVE t.item # x
      <4>1. t.path \in Footprint(mut[o])
        BY <3>4 DEF Progress
      <4>2. t.item = x => t.path \in mut[x].on
        BY <3>1, <3>4 DEF Fits, TrashFits
      <4> QED BY <3>a, <3>4, <4>1, <4>2 DEF Footprint
    <3> QED BY <3>1, <3>2, <3>3, <3>4, FitsStay DEF Progress
  <2> QED BY <2>1, <2>2
<1> QED BY <1>4, <1>6, <1>7, <1>8 DEF FileInv, Progress

\* An operation that starts.
LEMMA Started ==
    ASSUME FileInv, NEW o \in Edits, NEW m, Start(o, m), ground' = ground, m.met = FALSE, m.at \notin Idle,
           Fits(o, m, disk, kept', trash', ground),
           m.at \in Fetching => \E t \in trash : t.item = m.to,
           m.at \in MayTrash => trash' = trash,
           disk' = disk, kept \subseteq kept', kept' \subseteq Content,
           trash \subseteq trash', \A t \in trash' : t \in trash \/ t.item = o,
           trash' \subseteq TrashItems, TrashedOnce'
    PROVE  FileInv' /\ LosesNothing /\ UndoesFailed
<1> DEFINE Hit(x) == x \in Open /\ Footprint(m) \cap Footprint(mut[x]) # {}
           hit == \E y \in Edits : Hit(y)
           n == [m EXCEPT !.met = @ \/ hit]
<1>0. mut[o].at = "new" /\ o \notin Open
  BY DEF Start, Open
<1>1. mut' = [x \in Edits |-> IF x = o THEN n ELSE [mut[x] EXCEPT !.met = @ \/ Hit(x)]]
  <2>1. [m EXCEPT !.met = \E y \in Edits : Hit(y)] = n
    BY DEF Fits, IsOp
  <2> QED BY <2>1 DEF Start, Meets
<1>2. /\ Fits(o, n, disk, kept', trash', ground) /\ Footprint(n) = Footprint(m) /\ n.at = m.at
      /\ (n.met <=> \E y \in Edits : Hit(y)) /\ n.to = m.to
  <2>1. hit \in BOOLEAN /\ m.met = FALSE
    OBVIOUS
  <2> HIDE DEF hit
  <2>2. LET r == [m EXCEPT !.met = @ \/ hit]
        IN  /\ Fits(o, r, disk, kept', trash', ground) /\ Footprint(r) = Footprint(m) /\ r.at = m.at
            /\ (r.met <=> (m.met \/ hit)) /\ r.to = m.to
    BY <2>1, FitsMet
  <2> QED BY <2>1, <2>2 DEF hit
<1>3. ASSUME NEW x \in Edits \ {o}
      PROVE  /\ Fits(x, mut'[x], disk, kept', trash', ground) /\ Footprint(mut'[x]) = Footprint(mut[x])
             /\ mut'[x].at = mut[x].at /\ (mut'[x].met <=> (mut[x].met \/ Hit(x)))
             /\ mut'[x].to = mut[x].to
  <2>1. Fits(x, mut[x], disk, kept', trash', ground)
    <3>1. Fits(x, mut[x], disk, kept, trash, ground)
      BY DEF FileInv
    <3>2. \A t \in trash' : t \in trash \/ (t.item # x /\ (mut[x].at \notin Fetching \/ t.item # mut[x].to))
      BY <1>0 DEF FileInv, Fresh, MayTrash
    <3> QED BY <3>1, <3>2, FitsStay
  <2>2. Hit(x) \in BOOLEAN /\ mut'[x] = [mut[x] EXCEPT !.met = @ \/ Hit(x)]
    BY <1>1
  <2> HIDE DEF Hit
  <2> QED BY <2>1, <2>2, FitsMet
<1>4. mut'[o] = n
  BY <1>1
<1> HIDE DEF n
<1>5. FileShapes'
  <2>1. mut' = [x \in Edits |-> mut'[x]]
    BY <1>1
  <2> QED BY <2>1 DEF FileInv, FileShapes, TrashItems, Content
<1>6. Open' = Open \cup {o}
  BY <1>2, <1>3, <1>4 DEF Open, Idle
<1>8. Fresh'
  <2> SUFFICES ASSUME NEW x \in Edits, mut'[x].at \in MayTrash
               PROVE  /\ \A t \in trash' : t.item # x
                      /\ \A y \in Edits : mut'[y].at \in Fetching => mut'[y].to # x
    BY DEF Fresh, MayTrash, Fetching
  <2>1. mut[x].at \in MayTrash
    BY <1>0, <1>3 DEF MayTrash
  <2>2. \A t \in trash : t.item # x
    BY <2>1 DEF FileInv, Fresh
  <2>3. \A t \in trash' : t.item # x
    BY <2>2, <1>2, <1>4
  <2>4. ASSUME NEW y \in Edits, mut'[y].at \in Fetching PROVE mut'[y].to # x
    <3>1. CASE y = o
      BY <2>2, <2>4, <3>1, <1>2, <1>4
    <3>2. CASE y # o
      BY <2>1, <2>4, <3>2, <1>3 DEF FileInv, Fresh
    <3> QED BY <3>1, <3>2
  <2> QED BY <2>3, <2>4
<1>9. Apart'
  <2> SUFFICES ASSUME NEW x \in Open', NEW y \in Open', x # y, ~mut'[x].met
               PROVE  Footprint(mut'[x]) \cap Footprint(mut'[y]) = {}
    BY DEF Apart, Footprint
  <2>0. x \in Edits /\ y \in Edits
    BY DEF Open
  <2>1. CASE x = o
    BY <2>0, <2>1, <1>2, <1>3, <1>4, <1>6
  <2>2. CASE y = o
    BY <2>0, <2>2, <1>2, <1>3, <1>4, <1>6
  <2>3. CASE x # o /\ y # o
    BY <2>0, <2>3, <1>3, <1>6 DEF FileInv, Apart
  <2> QED BY <2>1, <2>2, <2>3
<1>10. FileInv'
  BY <1>2, <1>3, <1>4, <1>5, <1>8, <1>9 DEF FileInv
<1>11. LosesNothing
  BY DEF LosesNothing, Survives, Recoverable, OnDisk, InTrash
<1>12. UndoesFailed
  BY <1>2, <1>3, <1>4 DEF UndoesFailed, Idle, Over
<1> QED BY <1>10, <1>11, <1>12

\* What the step of an operation has to show of the contents it replaces.
Careful(o, n) ==
    /\ n # mut[o]
    /\ mut[o].met \/ \A c \in OnDisk \cup InTrash : Survives(c)
    /\ (n.at = "failed" /\ ~n.broken /\ mut[o].kind \in {"patch", "checkpoint"} /\ ~mut[o].met)
         => \A p \in mut[o].on : Returned(o, p)

LEMMA StepSafe ==
    ASSUME FileInv, NEW o \in Edits, NEW n, Progress(o, n), Careful(o, n)
    PROVE  FileInv' /\ LosesNothing /\ UndoesFailed
<1>1. \A x \in Edits : mut'[x] = IF x = o THEN n ELSE mut[x]
  BY DEF FileInv, FileShapes, Progress
<1>2. LosesNothing
  <2> SUFFICES ASSUME NEW c \in Recoverable, ~mut[o].met
               PROVE  Survives(c)
    BY <1>1 DEF LosesNothing, Careful
  <2>1. CASE c \in kept
    BY <2>1 DEF Progress, Survives, Recoverable
  <2>2. CASE c \in OnDisk \cup InTrash
    BY <2>2 DEF Careful
  <2> QED BY <2>1, <2>2 DEF Recoverable
<1>3. UndoesFailed
  BY <1>1 DEF UndoesFailed, Careful
<1> QED BY <1>2, <1>3, Progressed

\* An operation that is over has nothing left to fit.
LEMMA OverFits ==
    ASSUME NEW o, NEW m, NEW at \in Over, NEW d, NEW k, NEW tr, NEW g, m.broken \in BOOLEAN
    PROVE  /\ Fits(o, Now(m, at), d, k, tr, g)
           /\ Now(m, at).at = at /\ Now(m, at).broken = m.broken
<1>1. Now(m, at) = [at |-> at, kind |-> "none", on |-> {}, to |-> Absent, before |-> <<>>, back |-> <<>>,
                    done |-> <<>>, broken |-> m.broken, met |-> FALSE]
  BY DEF Now, Unstarted, Operation
<1> QED BY <1>1 DEF Fits, IsOp, ReplaceFits, TransferFits, TrashFits, Idle, Over, Trashing, Fetching

LEMMA EndsSafe ==
    ASSUME FileInv, NEW o \in Open, NEW m, NEW at \in Over, m.broken \in BOOLEAN,
           mut' = [mut EXCEPT ![o] = Now(m, at)], ground' = ground,
           disk' \in [Paths -> Content \cup {Absent}],
           \A p \in Paths \ Footprint(mut[o]) : disk'[p] = disk[p],
           kept' = kept, TrashedOnce',
           \A t \in trash' : t \in trash \/ (t.item = o /\ mut[o].at \in MayTrash),
           \A t \in trash : t \in trash' \/ t.path \in Footprint(mut[o]),
           trash' \subseteq TrashItems,
           mut[o].met \/ \A c \in OnDisk \cup InTrash : Survives(c),
           (at = "failed" /\ ~m.broken /\ mut[o].kind \in {"patch", "checkpoint"} /\ ~mut[o].met)
             => \A p \in mut[o].on : Returned(o, p)
    PROVE  FileInv' /\ LosesNothing /\ UndoesFailed
<1> DEFINE n == Now(m, at)
<1>1. Fits(o, n, disk', kept', trash', ground) /\ n.at = at /\ n.broken = m.broken
  BY OverFits
<1>2. o \in Edits /\ mut[o].at \notin Idle /\ at \in Idle /\ at \notin MayTrash /\ at \notin Fetching
  BY DEF Open, Idle, Over, MayTrash, Fetching
<1> HIDE DEF n
<1>3. Progress(o, n)
  BY <1>1, <1>2 DEF Progress, FileInv, FileShapes, n
<1>4. Careful(o, n)
  BY <1>1, <1>2 DEF Careful
<1> QED BY <1>2, <1>3, <1>4, StepSafe

\* What counts is read as it is.
LEMMA CountedIsRead ==
    ASSUME NEW c, Counts(c)
    PROVE  Read(ground, c) = c
BY OpenAssumption DEF Counts, Read, ground
LEMMA DecodedIsRead ==
    ASSUME NEW c
    PROVE  Decoded(c) = Read(ground, c) /\ Read(ground, Read(ground, c)) = Read(ground, c)
           /\ (c \in Content => Read(ground, c) \in Content) /\ (c # Absent => Read(ground, c) # Absent)
           /\ Read(ground, Absent) = Absent
BY OpenAssumption DEF Decoded, Read, ground, Content, Mangled, Absent

\* Of a step that replaces one file and takes nothing out of the trash, only
\* what that file held is in question.
LEMMA OneReplaced ==
    ASSUME FileInv, NEW p \in Paths, NEW x \in Content \cup {Absent}, disk' = [disk EXCEPT ![p] = x],
           trash \subseteq trash', disk[p] = Absent \/ Survives(disk[p])
    PROVE  /\ disk' \in [Paths -> Content \cup {Absent}]
           /\ \A r \in Paths : disk'[r] = IF r = p THEN x ELSE disk[r]
           /\ \A c \in OnDisk \cup InTrash : Survives(c)
<1>1. /\ disk' \in [Paths -> Content \cup {Absent}]
      /\ \A r \in Paths : disk'[r] = IF r = p THEN x ELSE disk[r]
  BY DEF FileInv, FileShapes
<1>2. ASSUME NEW c \in OnDisk \cup InTrash PROVE Survives(c)
  <2>1. CASE c \in InTrash
    BY <2>1 DEF Survives, Recoverable, InTrash
  <2>2. CASE c \in OnDisk
    <3>1. PICK r \in Paths : c = disk[r] /\ c # Absent
      BY <2>2 DEF OnDisk
    <3>2. CASE r = p
      BY <3>1, <3>2
    <3>3. CASE r # p
      BY <3>1, <3>3, <1>1 DEF Survives, Recoverable, OnDisk
    <3> QED BY <3>2, <3>3
  <2> QED BY <1>2, <2>1, <2>2
<1> QED BY <1>1, <1>2

\* What is stored in a checkpoint, in the trash or outside may be replaced.
LEMMA MayReplace ==
    ASSUME NEW p \in Paths, NEW k, k \subseteq kept', disk[p] # Absent,
           \/ Secured(p, disk[p], k, ground)
           \/ \E t \in trash' : t.content = disk[p]
           \/ disk'[p] = disk[p]
    PROVE  Survives(disk[p])
<1> SUFFICES ASSUME Counts(disk[p]) PROVE disk[p] \in Recoverable' \/ GivenUp(disk[p])
  BY DEF Survives
<1>1. Read(ground, disk[p]) = disk[p]
  BY CountedIsRead
<1>2. CASE disk'[p] = disk[p]
  BY <1>2 DEF Recoverable, OnDisk
<1>3. CASE p \in outside /\ disk'[p] # disk[p]
  BY <1>3 DEF GivenUp
<1>4. CASE disk[p] \in kept'
  BY <1>4 DEF Recoverable
<1>5. CASE \E t \in trash' : t.content = disk[p]
  BY <1>5 DEF Recoverable, InTrash
<1> QED BY <1>1, <1>2, <1>3, <1>4, <1>5 DEF Secured, ground

\* An operation that goes on: its stage, and the targets written so far, one
\* more and one less.
LEMMA WithDone ==
    ASSUME NEW m, IsOp(m), NEW d
    PROVE  LET w == [m EXCEPT !.done = d]
           IN  /\ w.at = m.at /\ w.kind = m.kind /\ w.on = m.on /\ w.to = m.to /\ w.before = m.before /\ w.back = m.back
               /\ w.done = d /\ w.broken = m.broken /\ w.met = m.met /\ IsOp(w)
BY DEF IsOp
LEMMA WithAt ==
    ASSUME NEW m, IsOp(m), NEW a
    PROVE  LET w == [m EXCEPT !.at = a]
           IN  /\ w.at = a /\ w.kind = m.kind /\ w.on = m.on /\ w.to = m.to /\ w.before = m.before /\ w.back = m.back
               /\ w.done = m.done /\ w.broken = m.broken /\ w.met = m.met /\ IsOp(w)
BY DEF IsOp
LEMMA UndoneRecord ==
    ASSUME NEW m, IsOp(m), NEW d, NEW b
    PROVE  LET w == [m EXCEPT !.done = d, !.broken = b]
           IN  /\ w.at = m.at /\ w.kind = m.kind /\ w.on = m.on /\ w.to = m.to /\ w.before = m.before /\ w.back = m.back
               /\ w.done = d /\ w.broken = b /\ w.met = m.met /\ IsOp(w)
<1> DEFINE u == [m EXCEPT !.done = d]
           w == [m EXCEPT !.done = d, !.broken = b]
<1>1. w = [u EXCEPT !.broken = b]
  OBVIOUS
<1>2. /\ u.at = m.at /\ u.kind = m.kind /\ u.on = m.on /\ u.to = m.to /\ u.before = m.before /\ u.back = m.back
      /\ u.done = d /\ u.broken = m.broken /\ u.met = m.met /\ IsOp(u)
  BY WithDone
<1> HIDE DEF u
<1>3. LET v == [u EXCEPT !.broken = b]
      IN  /\ v.at = u.at /\ v.kind = u.kind /\ v.on = u.on /\ v.to = u.to /\ v.before = u.before /\ v.back = u.back
          /\ v.done = u.done /\ v.broken = b /\ v.met = u.met /\ IsOp(v)
  BY <1>2 DEF IsOp
<1> QED BY <1>1, <1>2, <1>3
LEMMA KeptRecord ==
    ASSUME NEW m, IsOp(m), NEW a, NEW b
    PROVE  LET w == [m EXCEPT !.at = a, !.back = b]
           IN  /\ w.at = a /\ w.kind = m.kind /\ w.on = m.on /\ w.to = m.to /\ w.before = m.before /\ w.back = b
               /\ w.done = m.done /\ w.broken = m.broken /\ w.met = m.met /\ IsOp(w)
<1> DEFINE u == [m EXCEPT !.at = a]
           w == [m EXCEPT !.at = a, !.back = b]
<1>1. w = [u EXCEPT !.back = b]
  OBVIOUS
<1>2. /\ u.at = a /\ u.kind = m.kind /\ u.on = m.on /\ u.to = m.to /\ u.before = m.before /\ u.back = m.back
      /\ u.done = m.done /\ u.broken = m.broken /\ u.met = m.met /\ IsOp(u)
  BY WithAt
<1> HIDE DEF u
<1>3. LET v == [u EXCEPT !.back = b]
      IN  /\ v.at = u.at /\ v.kind = u.kind /\ v.on = u.on /\ v.to = u.to /\ v.before = u.before /\ v.back = b
          /\ v.done = u.done /\ v.broken = u.broken /\ v.met = u.met /\ IsOp(v)
  BY <1>2 DEF IsOp
<1> QED BY <1>1, <1>2, <1>3
LEMMA Appended ==
    ASSUME NEW S, NEW s \in Seq(S), NEW p \in S, p \notin {s[i] : i \in 1..Len(s)},
           \A i, j \in 1..Len(s) : s[i] = s[j] => i = j
    PROVE  LET t == Append(s, p)
           IN  /\ t \in Seq(S) /\ t # <<>> /\ Len(t) # Len(s)
               /\ {t[i] : i \in 1..Len(t)} = {s[i] : i \in 1..Len(s)} \cup {p}
               /\ \A i, j \in 1..Len(t) : t[i] = t[j] => i = j
<1> DEFINE t == Append(s, p)
<1>1. /\ t \in Seq(S) /\ Len(t) = Len(s) + 1 /\ Len(s) \in Nat
      /\ \A i \in 1..Len(t) : t[i] = IF i = Len(s) + 1 THEN p ELSE s[i]
  OBVIOUS
<1> HIDE DEF t
<1>2. {t[i] : i \in 1..Len(t)} = {s[i] : i \in 1..Len(s)} \cup {p}
  <2>1. ASSUME NEW i \in 1..Len(t) PROVE t[i] \in {s[j] : j \in 1..Len(s)} \cup {p}
    BY <1>1
  <2>2. ASSUME NEW i \in 1..Len(s) PROVE s[i] \in {t[j] : j \in 1..Len(t)}
    <3>1. i \in 1..Len(t) /\ t[i] = s[i]
      BY <1>1
    <3> QED BY <3>1
  <2>3. p \in {t[j] : j \in 1..Len(t)}
    <3>1. Len(t) \in 1..Len(t) /\ t[Len(t)] = p
      BY <1>1
    <3> QED BY <3>1
  <2> DEFINE T == {t[i] : i \in 1..Len(t)}
             R == {s[i] : i \in 1..Len(s)}
  <2>4. T \subseteq R \cup {p} /\ R \subseteq T /\ p \in T
    BY <2>1, <2>2, <2>3
  <2> HIDE DEF T, R
  <2>5. T = R \cup {p}
    BY <2>4
  <2> QED BY <2>5 DEF T, R
<1>3. \A i, j \in 1..Len(t) : t[i] = t[j] => i = j
  <2>1. \A i \in 1..Len(s) : s[i] # p
    OBVIOUS
  <2> QED BY <1>1, <2>1
<1>4. t # <<>> /\ Len(t) # Len(s)
  BY <1>1
<1> QED BY <1>1, <1>2, <1>3, <1>4 DEF t
LEMMA Shortened ==
    ASSUME NEW S, NEW s \in Seq(S), s # <<>>,
           \A i, j \in 1..Len(s) : s[i] = s[j] => i = j
    PROVE  LET t == SubSeq(s, 1, Len(s) - 1)
               p == s[Len(s)]
           IN  /\ p \in S /\ t \in Seq(S) /\ Len(t) # Len(s) /\ (Len(s) # 1 => t # <<>>)
               /\ p \notin {t[i] : i \in 1..Len(t)}
               /\ {s[i] : i \in 1..Len(s)} = {t[i] : i \in 1..Len(t)} \cup {p}
               /\ (Len(s) = 1 => {t[i] : i \in 1..Len(t)} = {})
               /\ \A i, j \in 1..Len(t) : t[i] = t[j] => i = j
<1> DEFINE t == SubSeq(s, 1, Len(s) - 1)
           p == s[Len(s)]
<1>0. Len(s) \in Nat \ {0}
  OBVIOUS
<1>1. /\ t \in Seq(S) /\ Len(t) = Len(s) - 1 /\ p \in S
      /\ \A i \in 1..Len(t) : t[i] = s[i]
  <2>1. 1 \in Int /\ Len(s) - 1 \in Int /\ \A i \in 1..(Len(s) - 1) : s[i] \in S
    BY <1>0
  <2>2. /\ t \in Seq(S) /\ Len(t) = IF 1 <= Len(s) - 1 THEN (Len(s) - 1) - 1 + 1 ELSE 0
        /\ \A i \in 1..((Len(s) - 1) - 1 + 1) : t[i] = s[1 + i - 1]
    BY <2>1, SubSeqProperties
  <2> HIDE DEF t
  <2>3. Len(t) = Len(s) - 1
    <3>1. Len(t) = IF 1 <= Len(s) - 1 THEN (Len(s) - 1) - 1 + 1 ELSE 0
      BY <2>2
    <3> DEFINE k == Len(s)
    <3>2. k \in Nat \ {0} /\ Len(t) = IF 1 <= k - 1 THEN (k - 1) - 1 + 1 ELSE 0
      BY <1>0, <3>1
    <3> HIDE DEF k
    <3>3. Len(t) = k - 1
      BY <3>2
    <3> QED BY <3>3 DEF k
  <2>4. \A i \in 1..Len(t) : t[i] = s[i]
    <3> SUFFICES ASSUME NEW i \in 1..Len(t) PROVE t[i] = s[i]
      OBVIOUS
    <3>1. i \in 1..((Len(s) - 1) - 1 + 1) /\ 1 + i - 1 = i
      BY <1>0, <2>3
    <3> QED BY <2>2, <3>1
  <2>5. p \in S
    BY <1>0
  <2> QED BY <2>2, <2>3, <2>4, <2>5
<1> HIDE DEF t
<1>2. {s[i] : i \in 1..Len(s)} = {t[i] : i \in 1..Len(t)} \cup {p}
  <2>1. ASSUME NEW i \in 1..Len(s) PROVE s[i] \in {t[j] : j \in 1..Len(t)} \cup {p}
    <3>1. CASE i = Len(s)
      BY <3>1
    <3>2. CASE i # Len(s)
      <4>1. i \in 1..Len(t) /\ t[i] = s[i]
        BY <3>2, <1>0, <1>1
      <4> QED BY <4>1
    <3> QED BY <3>1, <3>2
  <2>2. ASSUME NEW i \in 1..Len(t) PROVE t[i] \in {s[j] : j \in 1..Len(s)}
    <3>1. i \in 1..Len(s) /\ t[i] = s[i]
      BY <1>0, <1>1
    <3> QED BY <3>1
  <2>3. p \in {s[j] : j \in 1..Len(s)}
    BY <1>0
  <2> DEFINE T == {t[i] : i \in 1..Len(t)}
             R == {s[i] : i \in 1..Len(s)}
  <2>4. R \subseteq T \cup {p} /\ T \subseteq R /\ p \in R
    BY <2>1, <2>2, <2>3
  <2> HIDE DEF T, R
  <2>5. R = T \cup {p}
    BY <2>4
  <2> QED BY <2>5 DEF T, R
<1>3. \A i, j \in 1..Len(t) : t[i] = t[j] => i = j
  BY <1>0, <1>1
<1>4. \A i \in 1..Len(t) : t[i] # p
  BY <1>0, <1>1
<1>5. Len(t) # Len(s) /\ (Len(s) # 1 => t # <<>>) /\ (Len(s) = 1 => 1..Len(t) = {})
  BY <1>0, <1>1
<1> HIDE DEF p
<1> QED BY <1>1, <1>2, <1>3, <1>4, <1>5 DEF t, p

\* The replacements: inspect, keep, commit, roll back.
LEMMA ReplaceStarts ==
    ASSUME FileInv, NEW o \in Edits, NEW kind \in {"create", "write", "edit", "patch", "checkpoint"},
           NEW ps \in SUBSET Paths, NEW c, c = o \/ c \in kept,
           Start(o, Operation("seen", kind, ps, c, [p \in ps |-> disk[p]])),
           UNCHANGED <<disk, kept, trash>>, ground' = ground
    PROVE  FileInv' /\ LosesNothing /\ UndoesFailed
<1> DEFINE m == Operation("seen", kind, ps, c, [p \in ps |-> disk[p]])
<1>1. m = [at |-> "seen", kind |-> kind, on |-> ps, to |-> c, before |-> [p \in ps |-> disk[p]],
           back |-> [p \in ps |-> disk[p]], done |-> <<>>, broken |-> FALSE, met |-> FALSE]
  BY DEF Operation
<1>2. Start(o, m)
  OBVIOUS
<1> HIDE DEF m
<1>3. ReplaceFits(o, m, disk, kept', ground)
  BY <1>1 DEF ReplaceFits, DoneIn, FileInv, FileShapes
<1>a. \A t \in trash : t.item # o
  BY <1>2 DEF Start, FileInv, Fresh, MayTrash
<1>4. Fits(o, m, disk, kept', trash', ground)
  BY <1>1, <1>3, <1>a DEF Fits, IsOp, TransferFits, TrashFits, Trashing, Fetching
<1>5. m.met = FALSE /\ m.at = "seen" /\ m.at \notin Idle /\ m.at \notin Fetching /\ m.at \notin MayTrash
  BY <1>1 DEF Idle, Over, Fetching, MayTrash
<1> QED BY <1>2, <1>4, <1>5, Started DEF FileInv, FileShapes, TrashedOnce

LEMMA KeepSafe ==
    ASSUME FileInv, NEW o \in Edits, Keep(o), ground' = ground
    PROVE  FileInv' /\ LosesNothing /\ UndoesFailed
<1> DEFINE m == mut[o]
           b == IF m.kind = "checkpoint" THEN [p \in m.on |-> Decoded(disk[p])] ELSE m.back
           n == [m EXCEPT !.at = "kept", !.back = b]
<1>0. m.at = "seen" /\ o \in Open /\ Fits(o, m, disk, kept, trash, ground)
  BY DEF Keep, Open, Over, FileInv
<1>1. /\ n.at = "kept" /\ n.kind = m.kind /\ n.on = m.on /\ n.to = m.to /\ n.before = m.before /\ n.back = b
      /\ n.done = m.done /\ n.broken = m.broken /\ n.met = m.met /\ IsOp(n)
  <2>1. IsOp(m)
    BY <1>0 DEF Fits
  <2> HIDE DEF b
  <2> QED BY <2>1, KeptRecord
<1>2. mut' = [mut EXCEPT ![o] = n] /\ UNCHANGED <<disk, trash>>
  BY DEF Keep
<1>a. \A p \in m.on : disk[p] \in Content \cup {Absent} /\ Decoded(disk[p]) = Read(ground, disk[p])
                      /\ Read(ground, disk[p]) \in Content \cup {Absent}
  BY <1>0, DecodedIsRead DEF Fits, FileInv, FileShapes
<1>3. kept \subseteq kept' /\ kept' \subseteq Content
  <2>1. \A p \in ToKeep(o) : Decoded(disk[p]) \in Content
    BY <1>0, DecodedIsRead DEF Keep, ToKeep, FileInv, FileShapes, Fits
  <2> QED BY <2>1 DEF Keep, FileInv, FileShapes
<1> HIDE DEF n
<1>4. ReplaceFits(o, n, disk, kept', ground)
  <2>1. ASSUME NEW p \in m.on, ~m.met
        PROVE  /\ disk[p] \in {m.before[p], m.back[p]} /\ Read(ground, disk[p]) = Read(ground, m.before[p])
               /\ m.back[p] \in {m.before[p], Read(ground, m.before[p])}
    BY <1>0, <2>1, DecodedIsRead DEF Fits, ReplaceFits, DoneIn
  <2>2. DoneIn(n) = DoneIn(m)
    BY <1>1 DEF DoneIn
  <2>3. ASSUME NEW p \in m.on, ~m.met PROVE Secured(p, m.before[p], kept', ground)
    <3>1. p \in ToKeep(o) => Read(ground, disk[p]) \in kept'
      BY <1>a DEF Keep
    <3> QED BY <2>1, <2>3, <3>1 DEF ToKeep, Secured, ground
  <2>4. ASSUME NEW p \in m.on PROVE b[p] \in Content \cup {Absent}
    BY <1>0, <1>a, <2>4 DEF Fits, ReplaceFits
  <2>5. ASSUME NEW p \in m.on, ~m.met
        PROVE  /\ b[p] = m.before[p] \/ (m.kind = "checkpoint" /\ b[p] = Read(ground, m.before[p]))
               /\ disk[p] \in {m.before[p], b[p]}
    <3>1. CASE m.kind = "checkpoint"
      <4>1. b[p] = Read(ground, m.before[p])
        BY <1>a, <2>1, <2>5, <3>1
      <4> QED BY <2>1, <2>5, <3>1, <4>1
    <3>2. CASE m.kind # "checkpoint"
      <4>1. b[p] = m.back[p] /\ m.back[p] = m.before[p]
        BY <1>0, <2>5, <3>2 DEF Fits, ReplaceFits
      <4> QED BY <2>1, <2>5, <4>1
    <3> QED BY <3>1, <3>2
  <2>6. ~m.broken /\ m.done = <<>> /\ DoneIn(m) = {}
    BY <1>0 DEF Fits, ReplaceFits, DoneIn
  <2> HIDE DEF b
  <2> QED BY <1>0, <1>1, <1>3, <2>2, <2>3, <2>4, <2>5, <2>6 DEF Fits, ReplaceFits
<1>5. Fits(o, n, disk, kept', trash, ground)
  BY <1>0, <1>1, <1>4 DEF Fits, TransferFits, TrashFits, Trashing, Fetching, Idle, Over
<1>6. Progress(o, n)
  BY <1>0, <1>1, <1>2, <1>3, <1>5 DEF Progress, FileInv, FileShapes, TrashedOnce, Footprint, MayTrash, Fetching
<1>7. Careful(o, n)
  BY <1>0, <1>1, <1>2, <1>3 DEF Careful, Survives, Recoverable, OnDisk, InTrash
<1> QED BY <1>6, <1>7, StepSafe

\* Of an operation that fails before it has changed anything.
LEMMA FailsSafe ==
    ASSUME FileInv, NEW o \in Edits,
           mut[o].at \in {"seen", "kept", "move", "copy", "copied"} \cup Trashing,
           mut[o].at = "kept" => mut[o].done = <<>>,
           mut' = [mut EXCEPT ![o] = Now(mut[o], "failed")], UNCHANGED <<disk, kept, trash>>, ground' = ground
    PROVE  FileInv' /\ LosesNothing /\ UndoesFailed
<1>1. o \in Open /\ Fits(o, mut[o], disk, kept, trash, ground)
  BY DEF Open, Over, FileInv, Trashing, Fetching
<1>2. ASSUME mut[o].kind \in {"patch", "checkpoint"}, ~mut[o].met, ~mut[o].broken,
             mut[o].at \in {"seen", "kept"}, NEW p \in mut[o].on
      PROVE  Returned(o, p)
  BY <1>1, <1>2, DecodedIsRead DEF Fits, ReplaceFits, DoneIn, Returned
<1>3. mut[o].kind \in {"patch", "checkpoint"} => mut[o].at \in {"seen", "kept"}
  BY <1>1 DEF Fits, TransferFits, TrashFits
<1>4. mut[o].broken \in BOOLEAN
  BY <1>1 DEF Fits
<1>5. \A c \in OnDisk \cup InTrash : Survives(c)
  BY DEF Survives, Recoverable, OnDisk, InTrash
<1> QED BY <1>1, <1>2, <1>3, <1>4, <1>5, EndsSafe DEF FileInv, FileShapes, Over, TrashedOnce

LEMMA CommitSafe ==
    ASSUME FileInv, NEW o \in Edits, NEW p \in Paths, NEW aborted \in BOOLEAN, Commit(o, p, aborted), ground' = ground
    PROVE  FileInv' /\ LosesNothing /\ UndoesFailed
<1> DEFINE m == mut[o]
           w == [m EXCEPT !.done = Append(m.done, p)]
           at == IF aborted THEN "undo" ELSE IF Committed(o) \cup {p} = m.on THEN "ok" ELSE "kept"
           n == Now(w, at)
<1>0. /\ m.at = "kept" /\ o \in Open /\ Fits(o, m, disk, kept, trash, ground) /\ p \in m.on /\ p \notin DoneIn(m)
      /\ disk' = [disk EXCEPT ![p] = m.to] /\ UNCHANGED <<kept, trash>>
      /\ mut' = [mut EXCEPT ![o] = n]
  BY DEF Commit, Committed, DoneIn, Open, Over, FileInv
<1>1. m.to \in Content
  BY <1>0 DEF Fits, ReplaceFits, Content, FileInv, FileShapes
<1>a. ~m.met => disk[p] = Absent \/ Survives(disk[p])
  <2> SUFFICES ASSUME ~m.met, disk[p] # Absent PROVE Survives(disk[p])
    OBVIOUS
  <2>1. /\ disk[p] \in {m.before[p], m.back[p]} /\ Secured(p, m.before[p], kept, ground)
        /\ m.back[p] \in {m.before[p], Read(ground, m.before[p])}
    BY <1>0 DEF Fits, ReplaceFits
  <2>2. Secured(p, disk[p], kept, ground)
    BY <2>1, DecodedIsRead DEF Secured
  <2> QED BY <2>2, <1>0, MayReplace
<1>2. /\ disk' \in [Paths -> Content \cup {Absent}]
      /\ \A q \in Paths : disk'[q] = IF q = p THEN m.to ELSE disk[q]
  BY <1>0, <1>1 DEF FileInv, FileShapes
<1>3. \A q \in Paths \ Footprint(m) : disk'[q] = disk[q]
  BY <1>0, <1>2 DEF Footprint
<1>4. m.met \/ \A c \in OnDisk \cup InTrash : Survives(c)
  BY <1>0, <1>1, <1>a, OneReplaced
<1>5. /\ w.at = m.at /\ w.kind = m.kind /\ w.on = m.on /\ w.to = m.to /\ w.before = m.before /\ w.back = m.back
      /\ w.done = Append(m.done, p) /\ w.broken = m.broken /\ w.met = m.met /\ IsOp(w)
  <2>1. IsOp(m)
    BY <1>0 DEF Fits
  <2> QED BY <2>1, WithDone
<1>6. m.done \in Seq(m.on) /\ w.done \in Seq(m.on) /\ DoneIn(w) = DoneIn(m) \cup {p} /\ w.done # <<>>
      /\ \A i, j \in 1..Len(w.done) : w.done[i] = w.done[j] => i = j
  <2>1. m.done \in Seq(m.on) /\ p \in m.on /\ \A i, j \in 1..Len(m.done) : m.done[i] = m.done[j] => i = j
    BY <1>0 DEF Fits, ReplaceFits
  <2>2. p \notin {m.done[i] : i \in 1..Len(m.done)}
    BY <1>0 DEF DoneIn
  <2> DEFINE s == m.done
             t == Append(s, p)
  <2>3. /\ t \in Seq(m.on) /\ t # <<>> /\ Len(t) # Len(s)
        /\ {t[i] : i \in 1..Len(t)} = {s[i] : i \in 1..Len(s)} \cup {p}
        /\ \A i, j \in 1..Len(t) : t[i] = t[j] => i = j
    <3> HIDE DEF s
    <3> QED BY <2>1, <2>2, Appended DEF s
  <2>4. w.done = t
    BY <1>5
  <2> HIDE DEF w, t
  <2>5. DoneIn(w) = {t[i] : i \in 1..Len(t)} /\ DoneIn(m) = {s[i] : i \in 1..Len(s)}
    BY <2>4 DEF DoneIn
  <2> QED BY <2>1, <2>3, <2>4, <2>5
<1> HIDE DEF w
<1>7. CASE at = "ok"
  <2>1. w.broken \in BOOLEAN
    BY <1>0, <1>5 DEF Fits
  <2> QED BY <2>1, <1>0, <1>2, <1>3, <1>4, <1>7, EndsSafe DEF Over, FileInv, FileShapes, TrashedOnce
<1>8. CASE at # "ok"
  <2>a. at \in {"kept", "undo"}
    BY <1>8
  <2>1. n = [w EXCEPT !.at = at]
    BY <2>a DEF Now, Over
  <2> HIDE DEF at, n
  <2>c. LET v == [w EXCEPT !.at = at]
        IN  /\ v.at = at /\ v.kind = w.kind /\ v.on = w.on /\ v.to = w.to /\ v.before = w.before /\ v.back = w.back
            /\ v.done = w.done /\ v.broken = w.broken /\ v.met = w.met /\ IsOp(v)
    BY <1>5, WithAt
  <2>2. /\ n.at = at /\ n.kind = m.kind /\ n.on = m.on /\ n.to = m.to /\ n.before = m.before /\ n.back = m.back
        /\ n.done = w.done /\ n.broken = m.broken /\ n.met = m.met /\ IsOp(n)
    BY <1>5, <2>1, <2>c
  <2>b. DoneIn(n) = DoneIn(m) \cup {p}
    <3>1. DoneIn(n) = DoneIn(w)
      BY <2>2 DEF DoneIn
    <3> QED BY <3>1, <1>6
  <2>3. ReplaceFits(o, n, disk', kept', ground)
    <3>1. /\ m.kind \notin {"move", "copy"} /\ (m.to = o \/ m.to \in kept) /\ ~m.broken
          /\ \A q \in m.on : m.before[q] \in Content \cup {Absent} /\ m.back[q] \in Content \cup {Absent}
      BY <1>0 DEF Fits, ReplaceFits
    <3>2. ASSUME NEW q \in m.on, ~m.met
          PROVE  /\ Secured(q, m.before[q], kept, ground)
                 /\ m.back[q] = m.before[q] \/ (m.kind = "checkpoint" /\ m.back[q] = Read(ground, m.before[q]))
                 /\ disk'[q] = m.to \/ (q \notin DoneIn(n) /\ disk'[q] \in {m.before[q], m.back[q]})
                 /\ q \notin DoneIn(n) => disk'[q] \in {m.before[q], m.back[q]}
      <4>1. q \in Paths
        BY <1>0 DEF Fits
      <4> QED BY <1>0, <1>2, <2>b, <3>2, <4>1 DEF Fits, ReplaceFits
    <3> QED BY <1>0, <1>6, <2>a, <2>2, <3>1, <3>2 DEF ReplaceFits
  <2>4. Fits(o, n, disk', kept', trash', ground)
    BY <1>0, <2>a, <2>2, <2>3 DEF Fits, TransferFits, TrashFits, Trashing, Fetching, Idle, Over
  <2>5. mut' = [mut EXCEPT ![o] = n]
    BY <1>0
  <2>6. Progress(o, n)
    BY <1>0, <1>2, <1>3, <2>a, <2>2, <2>4, <2>5 DEF Progress, Footprint, FileInv, FileShapes, TrashedOnce, MayTrash, Fetching
  <2>7. n # m
    <3>1. DoneIn(n) # DoneIn(m)
      BY <1>0, <2>b
    <3> QED BY <3>1
  <2>8. Careful(o, n)
    BY <1>4, <2>a, <2>2, <2>7 DEF Careful
  <2> QED BY <2>6, <2>8, StepSafe
<1> QED BY <1>7, <1>8

LEMMA CommitFailsSafe ==
    ASSUME FileInv, NEW o \in Edits, CommitFails(o), ground' = ground
    PROVE  FileInv' /\ LosesNothing /\ UndoesFailed
<1> DEFINE m == mut[o]
           n == [m EXCEPT !.at = "undo"]
<1>0. m.at = "kept" /\ o \in Open /\ Fits(o, m, disk, kept, trash, ground) /\ UNCHANGED <<disk, kept, trash>>
  BY DEF CommitFails, Stands, Open, Over, FileInv
<1>1. CASE m.done = <<>>
  BY <1>0, <1>1, FailsSafe DEF CommitFails, Stands
<1>2. CASE m.done # <<>>
  <2>1. /\ n.at = "undo" /\ n.kind = m.kind /\ n.on = m.on /\ n.to = m.to /\ n.before = m.before /\ n.back = m.back
        /\ n.done = m.done /\ n.broken = m.broken /\ n.met = m.met /\ IsOp(n)
    BY <1>0 DEF Fits, IsOp
  <2>2. mut' = [mut EXCEPT ![o] = n]
    BY <1>2 DEF CommitFails, Stands, Now, Over
  <2> HIDE DEF n
  <2>3. ReplaceFits(o, n, disk, kept, ground)
    <3>1. DoneIn(n) = DoneIn(m)
      BY <2>1 DEF DoneIn
    <3> QED BY <1>0, <1>2, <2>1, <3>1 DEF Fits, ReplaceFits
  <2>4. Fits(o, n, disk, kept, trash, ground)
    BY <1>0, <2>1, <2>3 DEF Fits, TransferFits, TrashFits, Trashing, Fetching, Idle, Over
  <2>5. Progress(o, n)
    BY <1>0, <2>1, <2>2, <2>4 DEF Progress, FileInv, FileShapes, TrashedOnce, Footprint, MayTrash, Fetching
  <2>6. Careful(o, n)
    BY <1>0, <2>1 DEF Careful, Survives, Recoverable, OnDisk, InTrash
  <2> QED BY <2>5, <2>6, StepSafe
<1> QED BY <1>1, <1>2

\* One rollback, done or failed.
LEMMA UndoneSafe ==
    ASSUME FileInv, NEW o \in Edits, NEW failed \in BOOLEAN, mut[o].at = "undo", Undone(o, failed),
           disk' = IF failed THEN disk
                   ELSE [disk EXCEPT ![mut[o].done[Len(mut[o].done)]] = mut[o].back[mut[o].done[Len(mut[o].done)]]],
           UNCHANGED <<kept, trash>>, ground' = ground
    PROVE  FileInv' /\ LosesNothing /\ UndoesFailed
<1> DEFINE m == mut[o]
           s == m.done
           t == SubSeq(s, 1, Len(s) - 1)
           p == s[Len(s)]
           b == m.broken \/ failed
           w == [m EXCEPT !.done = t, !.broken = b]
           at == IF Len(s) = 1 THEN "failed" ELSE "undo"
           n == Now(w, at)
<1>0. /\ o \in Open /\ Fits(o, m, disk, kept, trash, ground)
      /\ disk' = IF failed THEN disk ELSE [disk EXCEPT ![p] = m.back[p]]
      /\ mut' = [mut EXCEPT ![o] = n]
  BY DEF Undone, Open, Over, FileInv
<1>1. /\ s \in Seq(m.on) /\ s # <<>>
      /\ \A i, j \in 1..Len(s) : s[i] = s[j] => i = j
  BY <1>0 DEF Fits, ReplaceFits
<1>2. /\ p \in m.on /\ t \in Seq(m.on) /\ Len(t) # Len(s) /\ (Len(s) # 1 => t # <<>>)
      /\ p \notin {t[i] : i \in 1..Len(t)}
      /\ {s[i] : i \in 1..Len(s)} = {t[i] : i \in 1..Len(t)} \cup {p}
      /\ (Len(s) = 1 => {t[i] : i \in 1..Len(t)} = {})
      /\ \A i, j \in 1..Len(t) : t[i] = t[j] => i = j
  <2> HIDE DEF s
  <2> QED BY <1>1, Shortened
<1>3. /\ w.at = m.at /\ w.kind = m.kind /\ w.on = m.on /\ w.to = m.to /\ w.before = m.before /\ w.back = m.back
      /\ w.done = t /\ w.broken = (m.broken \/ failed) /\ w.met = m.met /\ IsOp(w)
  <2>1. IsOp(m)
    BY <1>0 DEF Fits
  <2> HIDE DEF t, b
  <2>2. /\ w.at = m.at /\ w.kind = m.kind /\ w.on = m.on /\ w.to = m.to /\ w.before = m.before /\ w.back = m.back
        /\ w.done = t /\ w.broken = b /\ w.met = m.met /\ IsOp(w)
    BY <2>1, UndoneRecord
  <2> QED BY <2>2 DEF b
<1> HIDE DEF w, t, p
<1>4. DoneIn(m) = DoneIn(w) \cup {p} /\ p \notin DoneIn(w) /\ (Len(s) = 1 => DoneIn(w) = {})
  <2>1. DoneIn(w) = {t[i] : i \in 1..Len(t)} /\ DoneIn(m) = {s[i] : i \in 1..Len(s)}
    BY <1>3 DEF DoneIn
  <2> QED BY <1>2, <2>1
<1>5. p \in Paths /\ m.back[p] \in Content \cup {Absent} /\ m.broken \in BOOLEAN /\ m.on \subseteq Paths
  BY <1>0, <1>2 DEF Fits, ReplaceFits
<1>6. \A q \in Paths : disk'[q] = IF q = p /\ ~failed THEN m.back[p] ELSE disk[q]
  BY <1>0, <1>5 DEF FileInv, FileShapes
<1>7. disk' \in [Paths -> Content \cup {Absent}]
  BY <1>0, <1>5 DEF FileInv, FileShapes
<1>8. \A q \in Paths \ Footprint(m) : disk'[q] = disk[q]
  BY <1>2, <1>6 DEF Footprint
<1>9. m.met \/ \A c \in OnDisk \cup InTrash : Survives(c)
  <2>1. CASE failed
    BY <2>1, <1>0 DEF Survives, Recoverable, OnDisk, InTrash
  <2>2. CASE ~failed
    <3>1. disk' = [disk EXCEPT ![p] = m.back[p]]
      BY <1>0, <2>2
    <3>2. ~m.met => Survives(disk[p])
      <4>1. ~m.met => disk[p] = m.to /\ (m.to = o \/ m.to \in kept)
        BY <1>0, <1>2, <1>4 DEF Fits, ReplaceFits
      <4>2. ~Counts(o)
        BY OpenAssumption DEF Counts
      <4> QED BY <4>1, <4>2 DEF Survives, Recoverable
    <3> QED BY <3>1, <3>2, <1>5, OneReplaced
  <2> QED BY <2>1, <2>2
<1>10. \A q \in m.on : ~m.met /\ ~w.broken /\ q \notin DoneIn(w) => disk'[q] \in {m.before[q], m.back[q]}
  <2> SUFFICES ASSUME NEW q \in m.on, ~m.met, ~w.broken, q \notin DoneIn(w)
               PROVE  disk'[q] \in {m.before[q], m.back[q]}
    OBVIOUS
  <2>1. q \in Paths /\ ~failed /\ ~m.broken
    BY <1>3, <1>5
  <2>2. q # p => disk[q] \in {m.before[q], m.back[q]}
    BY <1>0, <1>4, <2>1 DEF Fits, ReplaceFits
  <2> QED BY <1>6, <2>1, <2>2
<1>11. CASE Len(s) = 1
  <2>1. at = "failed" /\ w.broken \in BOOLEAN
    BY <1>3, <1>5, <1>11
  <2>2. ASSUME NEW q \in m.on, ~m.met, ~w.broken PROVE Returned(o, q)
    <3>1. disk'[q] \in {m.before[q], m.back[q]}
      BY <1>4, <1>10, <1>11, <2>2
    <3>2. m.back[q] = m.before[q] \/ (m.kind = "checkpoint" /\ m.back[q] = Read(ground, m.before[q]))
      BY <1>0, <2>2 DEF Fits, ReplaceFits
    <3> QED BY <3>1, <3>2, DecodedIsRead DEF Returned
  <2> QED BY <2>1, <2>2, <1>0, <1>7, <1>8, <1>9, EndsSafe DEF Over, FileInv, FileShapes, TrashedOnce
<1>12. CASE Len(s) # 1
  <2>1. n = w
    <3>1. [w EXCEPT !.at = "undo"] = w
      BY <1>3 DEF IsOp
    <3> QED BY <1>12, <3>1 DEF Now, Over
  <2>2. ReplaceFits(o, w, disk', kept', ground)
    <3>1. \A q \in m.on : ~m.met => disk'[q] = m.to \/ (q \notin DoneIn(w) /\ disk'[q] \in {m.before[q], m.back[q]})
      BY <1>0, <1>4, <1>5, <1>6 DEF Fits, ReplaceFits
    <3>2. /\ m.kind \notin {"move", "copy"} /\ (m.to = o \/ m.to \in kept)
          /\ \A q \in m.on : m.before[q] \in Content \cup {Absent} /\ m.back[q] \in Content \cup {Absent}
          /\ ~m.met => \A q \in m.on :
                /\ Secured(q, m.before[q], kept, ground)
                /\ m.back[q] = m.before[q] \/ (m.kind = "checkpoint" /\ m.back[q] = Read(ground, m.before[q]))
      BY <1>0 DEF Fits, ReplaceFits
    <3> QED BY <1>2, <1>3, <1>10, <1>12, <3>1, <3>2 DEF ReplaceFits
  <2>3. Fits(o, w, disk', kept', trash', ground)
    BY <1>0, <1>3, <1>5, <2>2 DEF Fits, TransferFits, TrashFits, Trashing, Fetching, Idle, Over
  <2>4. Progress(o, w)
    BY <1>0, <1>3, <1>7, <1>8, <2>1, <2>3 DEF Progress, Footprint, FileInv, FileShapes, TrashedOnce, MayTrash, Fetching
  <2>5. w # m
    BY <1>2, <1>3
  <2>6. Careful(o, w)
    BY <1>3, <1>9, <2>5 DEF Careful
  <2> QED BY <2>4, <2>6, StepSafe
<1> QED BY <1>11, <1>12

LEMMA ReplaceSafe ==
    ASSUME FileInv, NEW o \in Edits, ReplaceStep(o), ground' = ground
    PROVE  FileInv' /\ LosesNothing /\ UndoesFailed
<1>1. ASSUME NEW kind \in {"create", "write", "edit", "patch"}, NEW ps \in SUBSET Paths, Inspect(o, kind, ps)
      PROVE  FileInv' /\ LosesNothing /\ UndoesFailed
  BY <1>1, ReplaceStarts DEF Inspect
<1>2. ASSUME NEW ps \in SUBSET Paths, NEW c \in kept, InspectRestore(o, ps, c)
      PROVE  FileInv' /\ LosesNothing /\ UndoesFailed
  BY <1>2, ReplaceStarts DEF InspectRestore
<1>3. CASE GiveUp(o)
  BY <1>3, FailsSafe DEF GiveUp, Stands
<1>4. CASE Rollback(o)
  BY <1>4, UndoneSafe DEF Rollback
<1>5. CASE RollbackFails(o)
  BY <1>5, UndoneSafe DEF RollbackFails
<1> QED BY <1>1, <1>2, <1>3, <1>4, <1>5, KeepSafe, CommitSafe, CommitFailsSafe DEF ReplaceStep

-----------------------------------------------------------------------------
\* The transfers.
LEMMA TransferStarts ==
    ASSUME FileInv, NEW o \in Edits, NEW kind \in {"move", "copy"}, NEW p \in Paths, NEW q \in Paths,
           Transfer(o, kind, p, q), ground' = ground
    PROVE  FileInv' /\ LosesNothing /\ UndoesFailed
<1> DEFINE m == Operation(kind, kind, {p}, q, <<>>)
<1>1. m = [at |-> kind, kind |-> kind, on |-> {p}, to |-> q, before |-> <<>>, back |-> <<>>, done |-> <<>>, broken |-> FALSE,
           met |-> FALSE]
  BY DEF Operation
<1>2. Start(o, m) /\ disk[q] = Absent /\ UNCHANGED <<disk, kept, trash>>
  BY DEF Transfer
<1> HIDE DEF m
<1>3. Fits(o, m, disk, kept', trash', ground)
  <2>1. \A t \in trash : t.item # o
    BY <1>2 DEF Start, FileInv, Fresh, MayTrash
  <2> QED BY <1>1, <1>2, <2>1 DEF Fits, IsOp, ReplaceFits, TransferFits, TrashFits, Trashing, Fetching
<1>4. m.met = FALSE /\ m.at \notin Fetching /\ m.at \notin MayTrash /\ m.at \notin Idle
  BY <1>1 DEF Idle, Over, Fetching, MayTrash
<1> QED BY <1>2, <1>3, <1>4, Started DEF FileInv, FileShapes, TrashedOnce

LEMMA RenameSafe ==
    ASSUME FileInv, NEW o \in Edits, NEW p \in Paths, Rename(o, p), ground' = ground
    PROVE  FileInv' /\ LosesNothing /\ UndoesFailed
<1> DEFINE m == mut[o]
           q == m.to
<1>0. /\ m.at = "move" /\ o \in Open /\ Fits(o, m, disk, kept, trash, ground) /\ p \in m.on
      /\ disk[p] # Absent /\ mut' = [mut EXCEPT ![o] = Now(mut[o], "ok")]
      /\ disk' = [disk EXCEPT ![q] = disk[p], ![p] = Absent] /\ UNCHANGED <<kept, trash>>
  BY DEF Rename, Stands, Open, Over, FileInv
<1>1. /\ q \in Paths /\ q \in Footprint(m) /\ p \in Footprint(m) /\ m.broken \in BOOLEAN
      /\ (~m.met => disk[q] = Absent)
  BY <1>0 DEF Fits, TransferFits, Footprint
<1>2. /\ disk' \in [Paths -> Content \cup {Absent}]
      /\ \A r \in Paths : disk'[r] = IF r = p THEN Absent ELSE IF r = q THEN disk[p] ELSE disk[r]
  BY <1>0, <1>1 DEF FileInv, FileShapes
<1>3. m.met \/ \A c \in OnDisk \cup InTrash : Survives(c)
  <2> SUFFICES ASSUME ~m.met, NEW c \in OnDisk \cup InTrash PROVE c \in Recoverable'
    BY DEF Survives
  <2>1. CASE c \in InTrash
    BY <2>1, <1>0 DEF Recoverable, InTrash
  <2>2. CASE c \in OnDisk
    <3>1. PICK r \in Paths : c = disk[r] /\ c # Absent
      BY <2>2 DEF OnDisk
    <3>2. r # q /\ p # q
      BY <3>1, <1>0, <1>1
    <3>3. \E x \in Paths : disk'[x] = c
      BY <3>1, <3>2, <1>1, <1>2
    <3> QED BY <3>1, <3>3 DEF Recoverable, OnDisk
  <2> QED BY <2>1, <2>2
<1>4. \A r \in Paths \ Footprint(m) : disk'[r] = disk[r]
  BY <1>1, <1>2
<1> QED BY <1>0, <1>1, <1>2, <1>3, <1>4, EndsSafe DEF Over, FileInv, FileShapes, TrashedOnce

LEMMA CopyOverSafe ==
    ASSUME FileInv, NEW o \in Edits, NEW p \in Paths, CopyOver(o, p), ground' = ground
    PROVE  FileInv' /\ LosesNothing /\ UndoesFailed
<1> DEFINE m == mut[o]
           q == m.to
           n == [m EXCEPT !.at = "copied"]
<1>0. /\ m.at \in {"move", "copy"} /\ o \in Open /\ Fits(o, m, disk, kept, trash, ground) /\ p \in m.on
      /\ disk[p] # Absent /\ disk[q] = Absent
      /\ \/ m.at = "copy" /\ mut' = [mut EXCEPT ![o] = Now(mut[o], "ok")]
         \/ m.at = "move" /\ mut' = [mut EXCEPT ![o] = n]
      /\ disk' = [disk EXCEPT ![q] = disk[p]] /\ UNCHANGED <<kept, trash>>
  BY DEF CopyOver, Stands, Open, Over, FileInv, Now
<1>1. q \in Paths /\ q \in Footprint(m) /\ m.broken \in BOOLEAN
  BY <1>0 DEF Fits, TransferFits, Footprint
<1>2. /\ disk' \in [Paths -> Content \cup {Absent}]
      /\ \A r \in Paths : disk'[r] = IF r = q THEN disk[p] ELSE disk[r]
  BY <1>0, <1>1 DEF FileInv, FileShapes
<1>3. \A c \in OnDisk \cup InTrash : Survives(c)
  <2> SUFFICES ASSUME NEW c \in OnDisk \cup InTrash PROVE c \in Recoverable'
    BY DEF Survives
  <2>1. CASE c \in InTrash
    BY <2>1, <1>0 DEF Recoverable, InTrash
  <2>2. CASE c \in OnDisk
    <3>1. PICK r \in Paths : c = disk[r] /\ c # Absent
      BY <2>2 DEF OnDisk
    <3>2. disk'[r] = c
      BY <3>1, <1>0, <1>1, <1>2
    <3> QED BY <3>1, <3>2 DEF Recoverable, OnDisk
  <2> QED BY <2>1, <2>2
<1>4. \A r \in Paths \ Footprint(m) : disk'[r] = disk[r]
  BY <1>1, <1>2
<1>5. CASE m.at = "copy"
  <2>1. mut' = [mut EXCEPT ![o] = Now(mut[o], "ok")]
    BY <1>0, <1>5
  <2> QED BY <2>1, <1>0, <1>1, <1>2, <1>3, <1>4, EndsSafe DEF Over, FileInv, FileShapes, TrashedOnce
<1>6. CASE m.at = "move"
  <2>1. /\ n.at = "copied" /\ n.kind = m.kind /\ n.on = m.on /\ n.to = m.to
        /\ n.broken = m.broken /\ n.met = m.met /\ IsOp(n)
    BY <1>0 DEF Fits, IsOp
  <2>2. mut' = [mut EXCEPT ![o] = n]
    BY <1>0, <1>6
  <2> HIDE DEF n
  <2>3. ASSUME NEW r \in m.on PROVE r = p
    BY <1>0, <1>6, <2>3 DEF Fits, TransferFits
  <2>4. TransferFits(n, disk')
    BY <1>0, <1>1, <1>2, <2>1, <2>3 DEF Fits, TransferFits
  <2>5. Fits(o, n, disk', kept', trash', ground)
    BY <1>0, <2>1, <2>4 DEF Fits, ReplaceFits, TrashFits, Trashing, Fetching, Idle, Over
  <2>6. Progress(o, n)
    BY <1>0, <1>2, <1>4, <2>1, <2>2, <2>5 DEF Progress, FileInv, FileShapes, TrashedOnce, Footprint, MayTrash, Fetching
  <2>7. Careful(o, n)
    BY <1>3, <1>6, <2>1 DEF Careful
  <2> QED BY <2>6, <2>7, StepSafe
<1> QED BY <1>0, <1>5, <1>6

LEMMA RemoveSourceSafe ==
    ASSUME FileInv, NEW o \in Edits, NEW p \in Paths, RemoveSource(o, p), ground' = ground
    PROVE  FileInv' /\ LosesNothing /\ UndoesFailed
<1> DEFINE m == mut[o]
           q == m.to
<1>0. /\ m.at = "copied" /\ o \in Open /\ Fits(o, m, disk, kept, trash, ground) /\ p \in m.on
      /\ mut' = [mut EXCEPT ![o] = Now(mut[o], "ok")]
      /\ disk' = [disk EXCEPT ![p] = Absent] /\ UNCHANGED <<kept, trash>>
  BY DEF RemoveSource, Stands, Open, Over, FileInv
<1>1. /\ q \in Paths /\ p \in Footprint(m) /\ m.broken \in BOOLEAN
      /\ (~m.met => p # q /\ disk[p] = disk[q])
  BY <1>0 DEF Fits, TransferFits, Footprint
<1>2. /\ disk' \in [Paths -> Content \cup {Absent}]
      /\ \A r \in Paths : disk'[r] = IF r = p THEN Absent ELSE disk[r]
  BY <1>0 DEF FileInv, FileShapes
<1>3. m.met \/ \A c \in OnDisk \cup InTrash : Survives(c)
  <2> SUFFICES ASSUME ~m.met, NEW c \in OnDisk \cup InTrash PROVE c \in Recoverable'
    BY DEF Survives
  <2>1. CASE c \in InTrash
    BY <2>1, <1>0 DEF Recoverable, InTrash
  <2>2. CASE c \in OnDisk
    <3>1. PICK r \in Paths : c = disk[r] /\ c # Absent
      BY <2>2 DEF OnDisk
    <3>2. \E x \in Paths : disk'[x] = c
      BY <3>1, <1>1, <1>2
    <3> QED BY <3>1, <3>2 DEF Recoverable, OnDisk
  <2> QED BY <2>1, <2>2
<1>4. \A r \in Paths \ Footprint(m) : disk'[r] = disk[r]
  BY <1>1, <1>2
<1> QED BY <1>0, <1>1, <1>2, <1>3, <1>4, EndsSafe DEF Over, FileInv, FileShapes, TrashedOnce

LEMMA TransferSafe ==
    ASSUME FileInv, NEW o \in Edits, TransferStep(o), ground' = ground
    PROVE  FileInv' /\ LosesNothing /\ UndoesFailed
<1>1. CASE TransferFails(o)
  BY <1>1, FailsSafe DEF TransferFails
<1> QED BY <1>1, TransferStarts, RenameSafe, CopyOverSafe, RemoveSourceSafe DEF TransferStep

-----------------------------------------------------------------------------
\* The Recovery Trash.
LEMMA DeleteStarts ==
    ASSUME FileInv, NEW o \in Edits, NEW p \in Paths, NEW keeps \in BOOLEAN, DeleteLook(o, p, keeps), ground' = ground
    PROVE  FileInv' /\ LosesNothing /\ UndoesFailed
<1> DEFINE at == IF keeps THEN "deleteKept" ELSE "delete"
           m == Operation(at, "delete", {p}, Absent, <<>>)
<1>1. m = [at |-> at, kind |-> "delete", on |-> {p}, to |-> Absent, before |-> <<>>, back |-> <<>>, done |-> <<>>,
           broken |-> FALSE, met |-> FALSE]
  BY DEF Operation
<1>2. Start(o, m) /\ UNCHANGED <<disk, trash>>
  BY DEF DeleteLook
<1>a. kept \subseteq kept' /\ kept' \subseteq Content /\ (at = "deleteKept" => Read(ground, disk[p]) \in kept')
  <2>1. Decoded(disk[p]) = Read(ground, disk[p]) /\ Read(ground, disk[p]) \in Content
    BY DecodedIsRead DEF DeleteLook, FileInv, FileShapes
  <2> QED BY <2>1 DEF DeleteLook, FileInv, FileShapes
<1>b. \A t \in trash : t.item # o
  BY <1>2 DEF Start, FileInv, Fresh, MayTrash
<1>c. at \in {"delete", "deleteKept"}
  OBVIOUS
<1> HIDE DEF m, at
<1>3. Fits(o, m, disk, kept', trash', ground)
  BY <1>1, <1>2, <1>a, <1>b, <1>c DEF Fits, IsOp, ReplaceFits, TransferFits, TrashFits, Trashing, Fetching
<1>4. m.met = FALSE /\ m.at \notin Fetching /\ m.at \notin Idle
  BY <1>1, <1>c DEF Idle, Over, Fetching
<1> QED BY <1>2, <1>a, <1>3, <1>4, Started DEF FileInv, FileShapes, TrashedOnce

\* The items that an operation puts into the trash.
LEMMA ItemFits ==
    ASSUME FileInv, NEW o \in Edits, NEW p \in Paths, NEW kind \in {"deleted", "backup"}, disk[p] # Absent,
           mut[o].at \in MayTrash, trash' = trash \cup {Item(o, p, kind)}
    PROVE  /\ trash \subseteq trash' /\ \A t \in trash' : t \in trash \/ (t.item = o /\ t.path = p)
           /\ trash' \subseteq TrashItems /\ TrashedOnce'
           /\ \E t \in trash' : t.item = o /\ t.content = disk[p]
<1> DEFINE u == Item(o, p, kind)
<1>1. u.item = o /\ u.path = p /\ u.content = disk[p] /\ u \in TrashItems
  BY DEF Item, TrashItems, FileInv, FileShapes
<1>2. \A t \in trash : t.item # o
  BY DEF FileInv, Fresh
<1> HIDE DEF u
<1>3. trash' = trash \cup {u}
  BY DEF u
<1> QED BY <1>1, <1>2, <1>3 DEF FileInv, FileShapes, TrashedOnce

LEMMA ExternalStarts ==
    ASSUME FileInv, NEW o \in Edits, NEW p \in Paths, ExternalLook(o, p), ground' = ground
    PROVE  FileInv' /\ LosesNothing /\ UndoesFailed
<1> DEFINE m == Operation("external", "external", {p}, o, <<>>)
<1>1. m = [at |-> "external", kind |-> "external", on |-> {p}, to |-> o, before |-> <<>>, back |-> <<>>, done |-> <<>>,
           broken |-> FALSE, met |-> FALSE]
  BY DEF Operation
<1>2. Start(o, m) /\ UNCHANGED <<disk, kept>> /\ mut[o].at \in MayTrash
  BY DEF ExternalLook, Start, MayTrash
<1>b. \A t \in trash : t.item # o
  BY <1>2 DEF FileInv, Fresh
<1>3. /\ trash \subseteq trash' /\ \A t \in trash' : t \in trash \/ (t.item = o /\ t.path = p)
      /\ trash' \subseteq TrashItems /\ TrashedOnce'
      /\ disk[p] = Absent \/ p \in outside \/ \E t \in trash' : t.item = o /\ t.content = disk[p]
  <2>1. CASE disk[p] = Absent \/ p \in outside
    BY <2>1 DEF ExternalLook, FileInv, FileShapes, TrashedOnce
  <2>2. CASE ~(disk[p] = Absent \/ p \in outside)
    BY <1>2, <2>2, ItemFits DEF ExternalLook
  <2> QED BY <2>1, <2>2
<1>a. outside = ground[1]
  BY DEF ground
<1> HIDE DEF m
<1>4. Fits(o, m, disk, kept', trash', ground)
  BY <1>1, <1>a, <1>b, <1>3 DEF Fits, IsOp, ReplaceFits, TransferFits, TrashFits, Trashing, Fetching
<1>5. m.met = FALSE /\ m.at \notin Fetching /\ m.at \notin MayTrash /\ m.at \notin Idle
  BY <1>1 DEF Idle, Over, Fetching, MayTrash
<1> QED BY <1>2, <1>3, <1>4, <1>5, Started DEF FileInv, FileShapes

LEMMA RestoreStarts ==
    ASSUME FileInv, NEW o \in Edits, NEW t \in trash, RestoreLook(o, t), ground' = ground
    PROVE  FileInv' /\ LosesNothing /\ UndoesFailed
<1> DEFINE at == IF disk[t.path] = Absent THEN "untrash" ELSE "swap"
           m == Operation(at, "restore", {t.path}, t.item, <<>>)
<1>1. m = [at |-> at, kind |-> "restore", on |-> {t.path}, to |-> t.item, before |-> <<>>, back |-> <<>>, done |-> <<>>,
           broken |-> FALSE, met |-> FALSE]
  BY DEF Operation
<1>2. Start(o, m) /\ UNCHANGED <<disk, kept, trash>>
  BY DEF RestoreLook
<1>a. at \in {"untrash", "swap"} /\ (at = "untrash" => disk[t.path] = Absent)
  OBVIOUS
<1>3. t.item \in Edits /\ t.path \in Paths
  BY DEF FileInv, FileShapes, TrashItems
<1>4. \A u \in trash : u.item = t.item => u.path = t.path
  BY DEF FileInv, TrashedOnce
<1>b. \A u \in trash : u.item # o
  BY <1>2 DEF Start, FileInv, Fresh, MayTrash
<1> HIDE DEF m, at
<1>5. Fits(o, m, disk, kept', trash', ground)
  BY <1>1, <1>2, <1>a, <1>b, <1>3, <1>4 DEF Fits, IsOp, ReplaceFits, TransferFits, TrashFits, Trashing, Fetching
<1>6. m.met = FALSE /\ m.to = t.item /\ m.at \notin Idle
  BY <1>1, <1>a DEF Idle, Over
<1> QED BY <1>2, <1>3, <1>5, <1>6, Started DEF FileInv, FileShapes, TrashedOnce

\* A file leaves the disk for the trash, or for good.
LEMMA DeletedSafe ==
    ASSUME FileInv, NEW o \in Edits, NEW p \in Paths, ToTrash(o, p) \/ Unlink(o, p), ground' = ground
    PROVE  FileInv' /\ LosesNothing /\ UndoesFailed
<1> DEFINE m == mut[o]
<1>0. /\ m.at \in {"delete", "deleteKept"} /\ o \in Open /\ Fits(o, m, disk, kept, trash, ground) /\ p \in m.on
      /\ disk[p] # Absent /\ disk' = [disk EXCEPT ![p] = Absent] /\ kept' = kept
      /\ mut[o].at \in MayTrash
  BY DEF ToTrash, Unlink, Stands, Open, Over, FileInv, MayTrash
<1>a. PICK at \in {"ok", "gone"} :
        /\ mut' = [mut EXCEPT ![o] = Now(mut[o], at)]
        /\ trash' = trash \cup {Item(o, p, "deleted")} \/ (trash' = trash /\ (at = "gone" \/ m.at = "deleteKept"))
  BY DEF ToTrash, Unlink, Stands
<1>1. p \in Footprint(m) /\ m.broken \in BOOLEAN
  BY <1>0 DEF Fits, Footprint
<1>2. /\ disk' \in [Paths -> Content \cup {Absent}]
      /\ \A r \in Paths : disk'[r] = IF r = p THEN Absent ELSE disk[r]
  BY <1>0 DEF FileInv, FileShapes
<1>3. /\ trash \subseteq trash' /\ \A t \in trash' : t \in trash \/ t.item = o
      /\ trash' \subseteq TrashItems /\ TrashedOnce'
      /\ at = "gone" \/ m.at = "deleteKept" \/ \E t \in trash' : t.content = disk[p]
  <2>1. CASE trash' = trash \cup {Item(o, p, "deleted")}
    BY <1>0, <2>1, ItemFits
  <2>2. CASE trash' = trash /\ (at = "gone" \/ m.at = "deleteKept")
    BY <2>2 DEF FileInv, FileShapes, TrashedOnce
  <2> QED BY <1>a, <2>1, <2>2
<1>4. m.met \/ Survives(disk[p])
  <2>1. CASE at = "gone"
    <3>1. mut'[o].at = "gone" /\ mut[o].at # "gone"
      <4>1. mut'[o] = Now(mut[o], "gone")
        BY <1>a, <2>1 DEF FileInv, FileShapes
      <4> QED BY <4>1, <1>0, <1>1, OverFits DEF Over
    <3> QED BY <1>0, <3>1 DEF Survives, GivenUp
  <2>2. CASE m.at = "deleteKept"
    <3>1. m.met \/ Secured(p, disk[p], kept, ground)
      BY <1>0, <2>2 DEF Fits, TrashFits, Secured
    <3> QED BY <1>0, <3>1, MayReplace
  <2>3. CASE \E t \in trash' : t.content = disk[p]
    BY <1>0, <2>3, MayReplace
  <2> QED BY <1>3, <2>1, <2>2, <2>3
<1>5. m.met \/ \A c \in OnDisk \cup InTrash : Survives(c)
  BY <1>0, <1>3, <1>4, OneReplaced
<1>6. \A r \in Paths \ Footprint(m) : disk'[r] = disk[r]
  BY <1>1, <1>2
<1> QED BY <1>0, <1>a, <1>1, <1>2, <1>3, <1>5, <1>6, EndsSafe DEF Over

\* The other program writes, or a plain write tears the file.
LEMMA OverwrittenSafe ==
    ASSUME FileInv, NEW o \in Edits, NEW p \in Paths, ExternalWrite(o, p) \/ WriteTorn(o, p), ground' = ground
    PROVE  FileInv' /\ LosesNothing /\ UndoesFailed
<1> DEFINE m == mut[o]
<1>0. /\ m.at \in {"external", "swapping"} /\ o \in Open /\ Fits(o, m, disk, kept, trash, ground) /\ p \in m.on
      /\ UNCHANGED <<kept, trash>>
  BY DEF ExternalWrite, WriteTorn, Stands, Open, Over, FileInv
<1>a. PICK at \in {"ok", "failed"}, x \in {o, Mangled} :
        mut' = [mut EXCEPT ![o] = Now(mut[o], at)] /\ disk' = [disk EXCEPT ![p] = x]
  BY DEF ExternalWrite, WriteTorn, Stands
<1>1. p \in Footprint(m) /\ m.broken \in BOOLEAN /\ m.kind \notin {"patch", "checkpoint"} /\ x \in Content
  BY <1>0 DEF Fits, Footprint, TrashFits, Trashing, Fetching, Content
<1>2. /\ disk' \in [Paths -> Content \cup {Absent}]
      /\ \A r \in Paths : disk'[r] = IF r = p THEN x ELSE disk[r]
  BY <1>a, <1>1 DEF FileInv, FileShapes
<1>3. m.met \/ disk[p] = Absent \/ Survives(disk[p])
  <2>1. m.met \/ disk[p] = Absent \/ Secured(p, disk[p], kept, ground) \/ \E t \in trash' : t.content = disk[p]
    BY <1>0 DEF Fits, TrashFits, Secured
  <2> QED BY <1>0, <2>1, MayReplace
<1>4. m.met \/ \A c \in OnDisk \cup InTrash : Survives(c)
  BY <1>0, <1>a, <1>1, <1>3, OneReplaced
<1>5. \A r \in Paths \ Footprint(m) : disk'[r] = disk[r]
  BY <1>1, <1>2
<1> QED BY <1>0, <1>a, <1>1, <1>2, <1>4, <1>5, EndsSafe DEF Over, FileInv, FileShapes, TrashedOnce

LEMMA UntrashSafe ==
    ASSUME FileInv, NEW o \in Edits, NEW t \in trash, Untrash(o, t), ground' = ground
    PROVE  FileInv' /\ LosesNothing /\ UndoesFailed
<1> DEFINE m == mut[o]
<1>0. /\ m.at = "untrash" /\ o \in Open /\ Fits(o, m, disk, kept, trash, ground) /\ t.item = m.to
      /\ mut' = [mut EXCEPT ![o] = Now(mut[o], "ok")] /\ trash' = trash \ {t}
      /\ disk' = [disk EXCEPT ![t.path] = t.content] /\ kept' = kept
  BY DEF Untrash, Restored, Stands, Open, Over, FileInv
<1>1. /\ t.path \in m.on /\ t.path \in Paths /\ t.content \in Content /\ m.broken \in BOOLEAN
      /\ t.path \in Footprint(m) /\ (~m.met => disk[t.path] = Absent)
  BY <1>0 DEF Fits, TrashFits, Fetching, Footprint, FileInv, FileShapes, TrashItems
<1>2. /\ disk' \in [Paths -> Content \cup {Absent}]
      /\ \A r \in Paths : disk'[r] = IF r = t.path THEN t.content ELSE disk[r]
  BY <1>0, <1>1 DEF FileInv, FileShapes
<1>3. m.met \/ \A c \in OnDisk \cup InTrash : Survives(c)
  <2> SUFFICES ASSUME ~m.met, NEW c \in OnDisk \cup InTrash PROVE c \in Recoverable'
    BY DEF Survives
  <2>1. CASE c \in InTrash
    <3>1. PICK u \in trash : c = u.content
      BY <2>1 DEF InTrash
    <3>2. CASE u = t
      <4>1. t.content = disk'[t.path] /\ t.content # Absent
        BY <1>1, <1>2, OpenAssumption DEF Content, Mangled, Absent
      <4> QED BY <3>1, <3>2, <4>1, <1>1 DEF Recoverable, OnDisk
    <3>3. CASE u # t
      BY <3>1, <3>3, <1>0 DEF Recoverable, InTrash
    <3> QED BY <3>2, <3>3
  <2>2. CASE c \in OnDisk
    <3>1. PICK r \in Paths : c = disk[r] /\ c # Absent
      BY <2>2 DEF OnDisk
    <3>2. disk'[r] = c
      BY <3>1, <1>1, <1>2
    <3> QED BY <3>1, <3>2 DEF Recoverable, OnDisk
  <2> QED BY <2>1, <2>2
<1>4. \A r \in Paths \ Footprint(m) : disk'[r] = disk[r]
  BY <1>1, <1>2
<1>5. TrashedOnce' /\ \A u \in trash : u \in trash' \/ u.path \in Footprint(m)
  BY <1>0, <1>1 DEF FileInv, TrashedOnce
<1> QED BY <1>0, <1>1, <1>2, <1>3, <1>4, <1>5, EndsSafe DEF Over, FileInv, FileShapes

\* The replacement of a file by its backup: the file to the trash, the backup
\* onto the file, the backup dropped.
LEMMA BackUpSafe ==
    ASSUME FileInv, NEW o \in Edits, NEW p \in Paths, BackUpReplaced(o, p), ground' = ground
    PROVE  FileInv' /\ LosesNothing /\ UndoesFailed
<1> DEFINE m == mut[o]
           n == [m EXCEPT !.at = "swapping"]
<1>0. /\ m.at = "swap" /\ m.at \in MayTrash /\ o \in Open /\ Fits(o, m, disk, kept, trash, ground) /\ p \in m.on
      /\ disk[p] # Absent /\ trash' = trash \cup {Item(o, p, "backup")} /\ UNCHANGED <<disk, kept>>
      /\ mut' = [mut EXCEPT ![o] = n]
  BY DEF BackUpReplaced, Stands, Now, Open, Over, FileInv, MayTrash
<1>1. /\ n.at = "swapping" /\ n.kind = m.kind /\ n.on = m.on /\ n.to = m.to
      /\ n.broken = m.broken /\ n.met = m.met /\ IsOp(n)
  BY <1>0 DEF Fits, IsOp
<1> HIDE DEF n
<1>2. /\ trash \subseteq trash' /\ \A t \in trash' : t \in trash \/ (t.item = o /\ t.path = p)
      /\ trash' \subseteq TrashItems /\ TrashedOnce'
      /\ \E t \in trash' : t.item = o /\ t.content = disk[p]
  BY <1>0, ItemFits
<1>3. m.to # o /\ \A q \in m.on : q = p
  BY <1>0 DEF FileInv, Fresh, Fetching, Fits, TrashFits, Trashing
<1>4. Fits(o, n, disk', kept', trash', ground)
  <2>1. TrashFits(o, n, disk', kept', trash', ground)
    BY <1>0, <1>1, <1>2, <1>3 DEF Fits, TrashFits, Trashing, Fetching, Idle, Over
  <2> QED BY <1>0, <1>1, <2>1 DEF Fits, ReplaceFits, TransferFits, Trashing, Fetching
<1>5. Progress(o, n)
  BY <1>0, <1>1, <1>2, <1>4 DEF Progress, FileInv, FileShapes, Footprint, MayTrash, Fetching
<1>6. Careful(o, n)
  BY <1>0, <1>1, <1>2 DEF Careful, Survives, Recoverable, OnDisk, InTrash
<1> QED BY <1>5, <1>6, StepSafe

LEMMA SwapInSafe ==
    ASSUME FileInv, NEW o \in Edits, NEW t \in trash, SwapIn(o, t), ground' = ground
    PROVE  FileInv' /\ LosesNothing /\ UndoesFailed
<1> DEFINE m == mut[o]
           n == [m EXCEPT !.at = "swapped"]
<1>0. /\ m.at = "swapping" /\ o \in Open /\ Fits(o, m, disk, kept, trash, ground) /\ t.item = m.to
      /\ disk' = [disk EXCEPT ![t.path] = t.content] /\ UNCHANGED <<kept, trash>>
      /\ mut' = [mut EXCEPT ![o] = n]
  BY DEF SwapIn, Restored, Stands, Now, Open, Over, FileInv
<1>1. /\ n.at = "swapped" /\ n.kind = m.kind /\ n.on = m.on /\ n.to = m.to
      /\ n.broken = m.broken /\ n.met = m.met /\ IsOp(n)
  BY <1>0 DEF Fits, IsOp
<1> HIDE DEF n
<1>2. /\ t.path \in m.on /\ t.path \in Paths /\ t.content \in Content
      /\ t.path \in Footprint(m)
  BY <1>0 DEF Fits, TrashFits, Fetching, Footprint, FileInv, FileShapes, TrashItems
<1>3. /\ disk' \in [Paths -> Content \cup {Absent}]
      /\ \A r \in Paths : disk'[r] = IF r = t.path THEN t.content ELSE disk[r]
  BY <1>0, <1>2 DEF FileInv, FileShapes
<1>4. m.met \/ disk[t.path] = Absent \/ Survives(disk[t.path])
  <2>1. \/ m.met \/ disk[t.path] = Absent \/ Secured(t.path, disk[t.path], kept, ground)
        \/ \E u \in trash' : u.content = disk[t.path]
    BY <1>0, <1>2 DEF Fits, TrashFits, Secured
  <2> QED BY <1>0, <1>2, <2>1, MayReplace
<1>5. m.met \/ \A c \in OnDisk \cup InTrash : Survives(c)
  BY <1>0, <1>2, <1>4, OneReplaced
<1>6. \A u \in trash : u.item = m.to => u = t
  BY <1>0 DEF FileInv, TrashedOnce
<1>7. Fits(o, n, disk', kept', trash', ground)
  <2>1. TrashFits(o, n, disk', kept', trash', ground)
    BY <1>0, <1>1, <1>2, <1>3, <1>6 DEF Fits, TrashFits, Trashing, Fetching, Idle, Over
  <2> QED BY <1>0, <1>1, <2>1 DEF Fits, ReplaceFits, TransferFits, Trashing, Fetching
<1>8. \A r \in Paths \ Footprint(m) : disk'[r] = disk[r]
  BY <1>2, <1>3
<1>9. Progress(o, n)
  BY <1>0, <1>1, <1>3, <1>7, <1>8 DEF Progress, FileInv, FileShapes, TrashedOnce, Footprint, MayTrash, Fetching
<1>10. Careful(o, n)
  BY <1>0, <1>1, <1>5 DEF Careful
<1> QED BY <1>9, <1>10, StepSafe

LEMMA DropSafe ==
    ASSUME FileInv, NEW o \in Edits, DropItem(o), ground' = ground
    PROVE  FileInv' /\ LosesNothing /\ UndoesFailed
<1> DEFINE m == mut[o]
<1>0. /\ m.at = "swapped" /\ o \in Open /\ Fits(o, m, disk, kept, trash, ground)
      /\ mut' = [mut EXCEPT ![o] = Now(mut[o], "ok")] /\ trash' = {t \in trash : t.item # m.to}
      /\ UNCHANGED <<disk, kept>>
  BY DEF DropItem, Stands, Open, Over, FileInv
<1>1. m.broken \in BOOLEAN /\ \A t \in trash : t.item = m.to => t.path \in m.on /\ t.path \in Paths /\ t.content # Absent
  BY <1>0, OpenAssumption DEF Fits, TrashFits, Fetching, FileInv, FileShapes, TrashItems, Content, Mangled, Absent
<1>2. m.met \/ \A c \in OnDisk \cup InTrash : Survives(c)
  <2> SUFFICES ASSUME ~m.met, NEW c \in OnDisk \cup InTrash PROVE c \in Recoverable'
    BY DEF Survives
  <2>1. CASE c \in OnDisk
    BY <1>0, <2>1 DEF Recoverable, OnDisk
  <2>2. CASE c \in InTrash
    <3>1. PICK u \in trash : c = u.content
      BY <2>2 DEF InTrash
    <3>2. CASE u.item = m.to
      <4>1. disk[u.path] = c /\ u.path \in Paths /\ c # Absent
        BY <1>0, <1>1, <3>1, <3>2 DEF Fits, TrashFits
      <4> QED BY <4>1, <1>0 DEF Recoverable, OnDisk
    <3>3. CASE u.item # m.to
      BY <3>1, <3>3, <1>0 DEF Recoverable, InTrash
    <3> QED BY <3>2, <3>3
  <2> QED BY <2>1, <2>2
<1>3. TrashedOnce' /\ \A u \in trash : u \in trash' \/ u.path \in Footprint(m)
  BY <1>0, <1>1 DEF FileInv, TrashedOnce, Footprint
<1> QED BY <1>0, <1>1, <1>2, <1>3, EndsSafe DEF Over, FileInv, FileShapes

LEMMA TrashSafe ==
    ASSUME FileInv, NEW o \in Edits, DeleteStep(o) \/ TrashStep(o), ground' = ground
    PROVE  FileInv' /\ LosesNothing /\ UndoesFailed
<1>1. CASE FailBefore(o)
  BY <1>1, FailsSafe DEF FailBefore, Trashing, Fetching
<1>2. CASE DeleteStep(o)
  BY <1>2, DeleteStarts, DeletedSafe DEF DeleteStep
<1>3. CASE TrashStep(o)
  BY <1>1, <1>3, ExternalStarts, OverwrittenSafe, BackUpSafe, RestoreStarts, UntrashSafe, SwapInSafe, DropSafe
     DEF TrashStep
<1> QED BY <1>2, <1>3

-----------------------------------------------------------------------------
LEMMA PurgeSafe ==
    ASSUME FileInv, NEW t \in trash, Purge(t), ground' = ground
    PROVE  FileInv' /\ LosesNothing /\ UndoesFailed
<1> DEFINE i == t.item
           b == i \in Open
<1>a. i \in Edits /\ b \in BOOLEAN
  BY DEF FileInv, FileShapes, TrashItems
<1>0. /\ trash' = trash \ {t} /\ UNCHANGED <<disk, kept>>
      /\ mut' = [x \in Edits |-> IF x = i THEN [mut[x] EXCEPT !.met = @ \/ b] ELSE mut[x]]
  <2>1. mut' = [mut EXCEPT ![i].met = @ \/ b]
    BY DEF Purge
  <2> HIDE DEF b, i
  <2>2. mut' = [mut EXCEPT ![i] = [mut[i] EXCEPT !.met = @ \/ b]] /\ mut = [x \in Edits |-> mut[x]]
    BY <2>1, <1>a DEF FileInv, FileShapes
  <2>3. mut' = [x \in Edits |-> IF x = i THEN [mut[x] EXCEPT !.met = @ \/ b] ELSE mut[x]]
    BY <2>2, <1>a
  <2> QED BY <2>3 DEF Purge
<1> HIDE DEF i
<1>1. /\ mut'[i] = [mut[i] EXCEPT !.met = @ \/ b]
      /\ \A x \in Edits : x # i => mut'[x] = mut[x]
  BY <1>0, <1>a
<1>2. /\ Fits(i, mut'[i], disk, kept, trash, ground) /\ Footprint(mut'[i]) = Footprint(mut[i])
      /\ mut'[i].at = mut[i].at /\ (mut'[i].met <=> (mut[i].met \/ b)) /\ mut'[i].to = mut[i].to
  <2>1. Fits(i, mut[i], disk, kept, trash, ground)
    BY <1>a DEF FileInv
  <2> HIDE DEF b
  <2> QED BY <1>a, <1>1, <2>1, FitsMet
<1>3. \A x \in Edits : /\ Footprint(mut'[x]) = Footprint(mut[x]) /\ mut'[x].at = mut[x].at
                       /\ mut'[x].to = mut[x].to /\ (mut[x].met => mut'[x].met)
  <2>1. mut[i].met => mut'[i].met
    BY <1>2
  <2> QED BY <1>1, <1>2, <2>1
<1>4. ASSUME NEW x \in Edits PROVE Fits(x, mut'[x], disk', kept', trash', ground)
  <2>1. Fits(x, mut'[x], disk, kept, trash, ground)
    BY <1>1, <1>2 DEF FileInv
  <2>2. ASSUME NEW u \in trash, u \notin trash', u.item = x PROVE mut'[x].at \in Idle \/ mut'[x].met
    <3>1. x = i
      BY <1>0, <2>2 DEF i
    <3> QED BY <3>1, <1>2, <1>a DEF Open, Idle
  <2>3. \A u \in trash' : u \in trash
    BY <1>0
  <2>4. disk' = disk /\ kept' = kept
    BY <1>0
  <2> HIDE DEF b
  <2> QED BY <2>1, <2>2, <2>3, <2>4, FitsStay
<1>5. Open' = Open
  BY <1>3 DEF Open
<1>6. FileShapes' /\ Fresh' /\ TrashedOnce'
  <2>1. mut' = [x \in Edits |-> mut'[x]]
    BY <1>0
  <2>2. FileShapes'
    BY <1>0, <2>1 DEF FileInv, FileShapes, TrashItems, Content
  <2>3. Fresh'
    BY <1>0, <1>3 DEF FileInv, Fresh
  <2> QED BY <1>0, <2>2, <2>3 DEF FileInv, TrashedOnce
<1>7. Apart'
  <2> SUFFICES ASSUME NEW x \in Open', NEW y \in Open', x # y, ~mut'[x].met
               PROVE  Footprint(mut'[x]) \cap Footprint(mut'[y]) = {}
    BY DEF Apart, Footprint
  <2>1. x \in Edits /\ y \in Edits /\ x \in Open /\ y \in Open
    BY <1>5 DEF Open
  <2>2. ~mut[x].met
    BY <1>3, <2>1
  <2> QED BY <1>3, <2>1, <2>2 DEF FileInv, Apart
<1>8. LosesNothing
  <2> SUFFICES ASSUME NEW c \in Recoverable PROVE Survives(c)
    BY DEF LosesNothing
  <2>1. CASE c \in InTrash
    BY <2>1, <1>3 DEF Survives, GivenUp
  <2>2. CASE c \in OnDisk \cup kept
    BY <2>2, <1>0 DEF Survives, Recoverable, OnDisk
  <2> QED BY <2>1, <2>2 DEF Recoverable
<1>9. UndoesFailed
  BY <1>3 DEF UndoesFailed
<1> QED BY <1>4, <1>6, <1>7, <1>8, <1>9 DEF FileInv

LEMMA KillSafe ==
    ASSUME FileInv, KillMutations, ground' = ground
    PROVE  FileInv' /\ LosesNothing /\ UndoesFailed
<1>0. /\ mut' = [o \in Edits |-> IF o \in Open THEN Now(mut[o], "dead") ELSE mut[o]]
      /\ UNCHANGED <<disk, kept, trash>>
  BY DEF KillMutations
<1>1. \A o \in Edits : mut'[o] = IF o \in Open THEN Now(mut[o], "dead") ELSE mut[o]
  BY <1>0
<1>2. ASSUME NEW o \in Open PROVE o \in Edits /\ mut[o].at \notin Idle /\ mut[o].broken \in BOOLEAN
  BY DEF Open, Idle, FileInv, Fits
<1>3. ASSUME NEW o \in Open
      PROVE  Fits(o, mut'[o], disk, kept, trash, ground) /\ mut'[o].at = "dead"
  <2>1. mut'[o] = Now(mut[o], "dead") /\ mut[o].broken \in BOOLEAN /\ "dead" \in Over
    BY <1>1, <1>2 DEF Over
  <2> QED BY <2>1, OverFits
<1>4. \A o \in Edits : Fits(o, mut'[o], disk', kept', trash', ground)
  BY <1>0, <1>1, <1>3 DEF FileInv
<1>5. \A o \in Edits : mut'[o].at = "dead" \/ mut'[o] = mut[o]
  BY <1>1, <1>3
<1>6. Open' = {}
  BY <1>1, <1>3 DEF Open, Over
<1>7. FileShapes' /\ TrashedOnce' /\ Apart'
  <2>1. mut' = [o \in Edits |-> mut'[o]]
    BY <1>0
  <2>2. FileShapes'
    BY <1>0, <2>1 DEF FileInv, FileShapes, TrashItems, Content
  <2> QED BY <1>0, <1>6, <2>2 DEF FileInv, TrashedOnce, Apart
<1>8. Fresh'
  <2>1. \A o \in Edits : mut'[o].at \notin Fetching
    BY <1>6 DEF Open, Over, Fetching
  <2> QED BY <1>0, <1>5, <2>1 DEF FileInv, Fresh, MayTrash
<1>9. LosesNothing /\ UndoesFailed
  BY <1>0, <1>5 DEF LosesNothing, UndoesFailed, Survives, Recoverable, OnDisk, InTrash
<1> QED BY <1>4, <1>7, <1>8, <1>9 DEF FileInv

LEMMA FileStarts ==
    ASSUME FileInit
    PROVE  FileInv
<1>1. Unstarted = [at |-> "new", kind |-> "none", on |-> {}, to |-> Absent, before |-> <<>>, back |-> <<>>, done |-> <<>>,
                   broken |-> FALSE, met |-> FALSE]
  BY DEF Unstarted, Operation
<1>2. \A o \in Edits : mut[o] = Unstarted
  BY DEF FileInit
<1>3. Unstarted.at = "new"
  BY <1>1
<1>4. ASSUME NEW o \in Edits PROVE Fits(o, mut[o], disk, kept, trash, ground)
  <2>1. Fits(o, Unstarted, disk, kept, trash, ground)
    BY <1>1 DEF Fits, IsOp, ReplaceFits, TransferFits, TrashFits, Trashing, Fetching, Idle
  <2> QED BY <1>2, <2>1
<1>5. Open = {}
  BY <1>2, <1>3 DEF Open
<1>6. Fresh
  BY <1>2, <1>3 DEF FileInit, Fresh, Fetching
<1> QED BY <1>2, <1>4, <1>5, <1>6 DEF FileInit, FileInv, FileShapes, TrashedOnce, Apart

LEMMA FileStep ==
    ASSUME FileInv, [FileNext]_fileVars
    PROVE  FileInv' /\ ((LosesNothing /\ UndoesFailed) \/ UNCHANGED fileVars)
<1>1. CASE UNCHANGED fileVars
  BY <1>1 DEF fileVars, FileInv, FileShapes, Fresh, TrashedOnce, Apart, Open, ground
<1>2. CASE FileNext
  <2>1. ground' = ground
    BY <1>2 DEF FileNext
  <2> QED BY <1>2, <2>1, ReplaceSafe, TransferSafe, TrashSafe, PurgeSafe, KillSafe DEF FileNext
<1> QED BY <1>1, <1>2

\* An operation of file-service.ts or checkpoint-service.ts that no other one
\* met never loses, inside the workspace, a content that is not garbled: with
\* any number of files, of operations and of them open at once, a checkpoint
\* or the Recovery Trash keeps what it replaces, also when it fails, tears a
\* file or is killed between two writes, until a delete answers that it is not
\* recoverable or the trash is purged.
THEOREM FilesNeverLost == FileSpec => NothingLost
<1>1. FileInit => FileInv
  BY FileStarts
<1>2. FileInv /\ [FileNext]_fileVars => FileInv'
  BY FileStep
<1>3. FileInv /\ [FileNext]_fileVars =>
        [\A c \in Recoverable :
          \/ Counts(c) => c \in Recoverable' \/ GivenUp(c)
          \/ \E o \in Edits : mut[o].met /\ mut'[o] # mut[o]]_fileVars
  BY FileStep DEF LosesNothing, Survives
<1> QED BY <1>1, <1>2, <1>3, PTL DEF FileSpec, NothingLost

\* runMutationTransaction: a patch or checkpoint restore that fails or is
\* aborted, after its last write too, with every rollback done leaves all of
\* its targets as it found them, a restore at least their text, if no other
\* open operation met it there.
THEOREM FailuresAlwaysUndone == FileSpec => FailedIsUndone
<1>1. FileInit => FileInv
  BY FileStarts
<1>2. FileInv /\ [FileNext]_fileVars => FileInv'
  BY FileStep
<1>3. FileInv /\ [FileNext]_fileVars =>
        [\A o \in Edits :
          (mut[o].at # "failed" /\ mut'[o].at = "failed" /\ mut[o].kind \in {"patch", "checkpoint"} /\ ~mut'[o].broken
             /\ ~mut[o].met)
             => \A p \in mut[o].on :
                   \/ disk'[p] = mut[o].before[p]
                   \/ mut[o].kind = "checkpoint" /\ disk'[p] = Decoded(mut[o].before[p])]_fileVars
  BY FileStep DEF UndoesFailed, Returned
<1> QED BY <1>1, <1>2, <1>3, PTL DEF FileSpec, FailedIsUndone
=============================================================================
