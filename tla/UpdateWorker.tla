---------------------------- MODULE UpdateWorker ----------------------------
(***************************************************************************)
(* The native update worker (native/update-worker): the journal of update  *)
(* requests and the store of the update transaction and of the active slot.*)
(* Each of the three is one file, published by writing a pending file,     *)
(* flushing it and moving it over the old one; one process at a time holds *)
(* the lock of the directory, and may die or fail between any two of these *)
(* steps.                                                                  *)
(*                                                                         *)
(* Left out: commands that are refused or held (they change nothing), the  *)
(* release a request names, the tunnel snapshot, and overflow of the       *)
(* 64-bit generation and revision (refused).  A digest is the record       *)
(* without its own predecessor's digest.                                   *)
(***************************************************************************)
EXTENDS Naturals, Sequences, FiniteSets

CONSTANTS Requests,      \* ids of update requests
          Images,        \* digests of application slots and ids of data
          MaxHistory,    \* receipts a journal keeps
          MaxWorkers     \* worker processes, one after the other

\* What a publication is for is a request, or neither of these two.
ASSUME RequestsAssumption == "recover" \notin Requests /\ "store" \notin Requests

VARIABLES file,      \* published records: journal, transaction, slot
          stage,     \* their pending files
          worker,    \* the process that holds the lock, 0 if none
          workers,   \* processes started so far
          job,       \* the publication the worker is at
          answers    \* transactions each request was answered with (history)

updateVars == <<file, stage, worker, workers, job, answers>>

Files == {"journal", "transaction", "slot"}
Unwritten == [kind |-> "none"]
Torn == [kind |-> "torn"]      \* cut off before the flush: does not decode
AtRest == [at |-> "idle"]

UpdatePhases == {"candidate_ready", "quiesce_intent", "quiesced", "tunnel_stop_intent",
           "tunnel_stopped", "candidate_selection_intent", "candidate_selected",
           "candidate_launch_intent", "trial_started", "health_verified",
           "commit_intent", "committed", "rollback_intent",
           "previous_selection_intent", "previous_selected",
           "previous_launch_intent", "previous_started", "rollback_verified",
           "rollback_unverified"}

Forward == <<"candidate_ready", "quiesce_intent", "quiesced", "tunnel_stop_intent",
             "tunnel_stopped", "candidate_selection_intent", "candidate_selected",
             "candidate_launch_intent", "trial_started">>
Backward == <<"rollback_intent", "previous_selection_intent", "previous_selected",
              "previous_launch_intent", "previous_started">>

InitUpdate ==
    /\ file = [f \in Files |-> Unwritten] /\ stage = [f \in Files |-> Unwritten]
    /\ worker = 0 /\ workers = 0 /\ job = AtRest
    /\ answers = [r \in Requests |-> {}]

Written(x) == x # Unwritten
Digest(x) == IF Written(x) THEN [x EXCEPT !.prev = Unwritten] ELSE Unwritten

-----------------------------------------------------------------------------
(* Records. *)

Journal == file["journal"]
JournalOver(j) == j.phase = "unavailable"
Receipt(j) == [req |-> j.req, tx |-> j.tx]

\* Transactions the published journal has for request r.
Recorded(r) ==
    IF ~Written(Journal) THEN {}
    ELSE {h.tx : h \in {x \in Journal.history \cup {Receipt(Journal)} : x.req = r}}

\* History of a journal that follows the present one.
\* Its mutant does not add the present one to it.
HistoryForgotten == IF Written(Journal) THEN Journal.history ELSE {}
NextHistory == IF Written(Journal) THEN Journal.history \cup {Receipt(Journal)} ELSE {}

\* The transaction id is a fresh GUID: the worker and the revision name it.
Preauth(r) ==
    [kind |-> "journal", gen |-> IF Written(Journal) THEN Journal.gen + 1 ELSE 1,
     rev |-> IF Written(Journal) THEN Journal.rev + 1 ELSE 1, prev |-> Digest(Journal),
     owner |-> worker, phase |-> "preauth", req |-> r,
     tx |-> <<worker, IF Written(Journal) THEN Journal.rev + 1 ELSE 1>>,
     history |-> NextHistory]

\* A mutant of Finish: the revision stays.
FinishInPlace(j) == [j EXCEPT !.phase = "unavailable", !.owner = worker, !.prev = Digest(j)]
Finish(j) ==
    [j EXCEPT !.phase = "unavailable", !.owner = worker, !.prev = Digest(j),
              !.rev = @ + 1, !.gen = IF j.owner = worker THEN @ ELSE @ + 1]

\* What recovery demands of a pending journal before it publishes it.
Adoptable(staged) ==
    /\ staged.kind = "journal"
    /\ staged.prev = Digest(Journal)
    /\ staged.rev = (IF Written(Journal) THEN Journal.rev ELSE 0) + 1
    /\ staged.gen >= (IF Written(Journal) THEN Journal.gen ELSE 1)
    /\ staged.gen <= (IF Written(Journal) THEN Journal.gen ELSE 0) + 1

IsCandidateSelection(t, s) ==
    /\ s.gen = t.gen /\ s.by = t.gen
    /\ s.slot = t.candidate.slot /\ s.image = t.candidate.image /\ s.data = t.candidate.data

IsPreviousSelection(t, s) ==
    /\ s.slot = t.previous.slot /\ s.image = t.previous.image /\ s.data = t.previous.data
    /\ \/ s.gen < t.gen /\ Digest(s) = t.prevSelection
       \/ s.gen = t.gen /\ s.by = t.gen

\* Which selections go with which phase.
ValidSelectionPhase(t, s) ==
    \/ ~Written(t)
    \/ /\ Written(s)
       /\ \/ /\ t.phase \in {"candidate_ready", "quiesce_intent", "quiesced",
                             "tunnel_stop_intent", "tunnel_stopped", "previous_selected",
                             "previous_launch_intent", "previous_started",
                             "rollback_verified", "rollback_unverified"}
             /\ IsPreviousSelection(t, s)
          \/ /\ t.phase \in {"candidate_selection_intent", "rollback_intent",
                             "previous_selection_intent"}
             /\ IsPreviousSelection(t, s) \/ IsCandidateSelection(t, s)
          \/ /\ t.phase \in {"candidate_selected", "candidate_launch_intent",
                             "trial_started", "health_verified", "commit_intent",
                             "committed"}
             /\ IsCandidateSelection(t, s)

Follows(path, p, q) == \E i \in 1..(Len(path) - 1) : path[i] = p /\ path[i + 1] = q
On(path, p) == \E i \in 1..Len(path) : path[i] = p

\* UpdatePhases whose evidence nothing can yet produce are refused.
EvidenceRequired(p) == p \in {"health_verified", "committed", "rollback_verified"}

CanAdvance(p, q) ==
    /\ ~EvidenceRequired(q)
    /\ p \notin {"committed", "rollback_verified", "rollback_unverified"}
    /\ \/ q = "rollback_intent" /\ ~On(Backward, p)
       \/ q = "rollback_unverified" /\ On(Backward, p)
       \/ q \notin {"rollback_intent", "rollback_unverified"}
          /\ \/ Follows(Forward, p, q) \/ Follows(Backward, p, q)
             \/ p = "health_verified" /\ q = "commit_intent"

SafeToStart(t) == t.phase \in {"committed", "rollback_verified"}

-----------------------------------------------------------------------------
(* Publication: pending file created, written and flushed, moved, read back. *)

WorkerFree == worker # 0 /\ job = AtRest

\* The pending file is created new: one that is already there refuses.
Stage(f, rec, for) ==
    /\ stage[f] = Unwritten
    /\ stage' = [stage EXCEPT ![f] = Torn]
    /\ job' = [at |-> "write", file |-> f, rec |-> rec, for |-> for]
    /\ UNCHANGED <<file, worker, workers, answers>>

WriteStage ==
    /\ job.at = "write"
    /\ stage' = [stage EXCEPT ![job.file] = job.rec]
    /\ job' = [job EXCEPT !.at = "publish"]
    /\ UNCHANGED <<file, worker, workers, answers>>

PublishStage ==
    /\ job.at = "publish"
    /\ job.rec.prev = Digest(file[job.file])
    /\ file' = [file EXCEPT ![job.file] = job.rec]
    /\ stage' = [stage EXCEPT ![job.file] = Unwritten]
    /\ job' = [job EXCEPT !.at = "published"]
    /\ UNCHANGED <<worker, workers, answers>>

\* A preauth journal that was published is finished at once.
FinishPreauth ==
    /\ job.at = "published" /\ job.file = "journal" /\ ~JournalOver(job.rec)
    /\ Stage("journal", Finish(Journal), job.for)

\* Anything else ends the command; a request is answered.
Answer ==
    /\ job.at = "published"
    /\ job.file = "journal" => JournalOver(job.rec)
    /\ job' = AtRest
    /\ answers' = IF job.for \in Requests
                  THEN [answers EXCEPT ![job.for] = @ \cup {job.rec.tx}]
                  ELSE answers
    /\ UNCHANGED <<file, stage, worker, workers>>

\* An I/O failure ends the command with a refusal, a crash ends the process.
\* The files stay as they are.
WorkerThrows ==
    /\ worker # 0 /\ job # AtRest
    /\ job' = AtRest
    /\ UNCHANGED <<file, stage, worker, workers, answers>>

WorkerCrash ==
    /\ worker # 0
    /\ worker' = 0 /\ job' = AtRest
    /\ UNCHANGED <<file, stage, workers, answers>>

-----------------------------------------------------------------------------
(* Commands of the worker. *)

StartWorker ==
    /\ worker = 0 /\ workers < MaxWorkers
    /\ workers' = workers + 1 /\ worker' = workers + 1
    /\ UNCHANGED <<file, stage, job, answers>>

\* No publication of the transaction or of the slot is pending, and a
\* transaction that exists is over and its slot is the selected one.
Undisturbed ==
    LET t == file["transaction"] s == file["slot"] IN
    /\ stage["transaction"] = Unwritten /\ stage["slot"] = Unwritten
    /\ Written(t) => /\ SafeToStart(t) /\ Written(s)
                    /\ s.gen = t.gen /\ s.by = t.gen
                    /\ LET place == IF t.phase = "committed" THEN t.candidate ELSE t.previous
                       IN s.slot = place.slot /\ s.image = place.image

\* A new request.  Its expected position is the journal's, or it is refused.
Request(r) ==
    /\ WorkerFree /\ Undisturbed /\ stage["journal"] = Unwritten
    /\ Written(Journal) => JournalOver(Journal) /\ Cardinality(Journal.history) < MaxHistory
    /\ Recorded(r) = {}
    /\ Stage("journal", Preauth(r), r)

\* A request the journal knows is answered from it, whatever its position.
RepeatRequest(r) ==
    /\ WorkerFree /\ Undisturbed /\ stage["journal"] = Unwritten
    /\ Written(Journal) /\ JournalOver(Journal)
    /\ Recorded(r) # {}
    /\ answers' = [answers EXCEPT ![r] = @ \cup Recorded(r)]
    /\ UNCHANGED <<file, stage, worker, workers, job>>

\* The worker takes over from a process that is gone, or from itself; when it
\* cannot tell, the command is held.
AdoptStage ==
    /\ WorkerFree /\ Undisturbed
    /\ Written(stage["journal"]) /\ Adoptable(stage["journal"])
    /\ job' = [at |-> "publish", file |-> "journal", rec |-> stage["journal"], for |-> "recover"]
    /\ UNCHANGED <<file, stage, worker, workers, answers>>

RecoverPreauth ==
    /\ WorkerFree /\ Undisturbed /\ stage["journal"] = Unwritten
    /\ Written(Journal) /\ ~JournalOver(Journal)
    /\ Stage("journal", Finish(Journal), "recover")

-----------------------------------------------------------------------------
(* The transaction store. *)

OtherSlot(s) == IF s = "A" THEN "B" ELSE "A"
Place(s) == [slot |-> s.slot, image |-> s.image, data |-> s.data]

InitializeSelection(slot, image, data) ==
    /\ WorkerFree
    /\ \A f \in {"transaction", "slot"} : file[f] = Unwritten /\ stage[f] = Unwritten
    /\ Stage("slot", [kind |-> "slot", gen |-> 1, rev |-> 1, prev |-> Unwritten, by |-> 0,
                      slot |-> slot, image |-> image, data |-> data], "store")

\* Checks of PersistTransaction that do not depend on the record.
MayPersist == WorkerFree /\ stage["transaction"] = Unwritten /\ stage["slot"] = Unwritten

CreateTransaction(image, data) ==
    LET t == file["transaction"] s == file["slot"]
        next == [kind |-> "transaction", gen |-> s.gen + 1, rev |-> 1, prev |-> Digest(t),
                 phase |-> "candidate_ready", prevSelection |-> Digest(s),
                 previous |-> Place(s),
                 candidate |-> [slot |-> OtherSlot(s.slot), image |-> image, data |-> data]]
    IN /\ MayPersist /\ Written(s)
       /\ Written(t) => SafeToStart(t) /\ next.gen = t.gen + 1
       /\ image # s.image /\ data # s.data
       /\ ValidSelectionPhase(next, s)
       /\ Stage("transaction", next, "store")

AdvanceTransaction(q) ==
    LET t == file["transaction"]
        next == [t EXCEPT !.phase = q, !.rev = @ + 1, !.prev = Digest(t)]
    IN /\ MayPersist /\ Written(t)
       /\ CanAdvance(t.phase, q)
       /\ ValidSelectionPhase(next, file["slot"])
       /\ Stage("transaction", next, "store")

\* The slot of transaction t becomes its candidate, respectively what it was.
Selected(t, s, place) ==
    [kind |-> "slot", gen |-> t.gen, rev |-> IF s.gen = t.gen THEN s.rev + 1 ELSE 1,
     prev |-> Digest(s), by |-> t.gen,
     slot |-> place.slot, image |-> place.image, data |-> place.data]

\* A mutant of InPhase: the phase is not looked at.
InAnyPhase(t, p) == Written(t)
InPhase(t, p) == Written(t) /\ t.phase = p

SelectCandidate ==
    LET t == file["transaction"] s == file["slot"] IN
    /\ MayPersist /\ InPhase(t, "candidate_selection_intent") /\ Written(s)
    /\ t.prevSelection = Digest(s) /\ t.gen = s.gen + 1 /\ t.previous = Place(s)
    /\ Stage("slot", Selected(t, s, t.candidate), "store")

SelectPrevious ==
    LET t == file["transaction"] s == file["slot"] IN
    /\ MayPersist /\ InPhase(t, "previous_selection_intent") /\ Written(s)
    /\ s.gen = t.gen /\ s.by = t.gen /\ Place(s) = t.candidate
    /\ Stage("slot", Selected(t, s, t.previous), "store")

-----------------------------------------------------------------------------
NextUpdate ==
    \/ StartWorker \/ WorkerCrash \/ WorkerThrows
    \/ WriteStage \/ PublishStage \/ FinishPreauth \/ Answer
    \/ \E r \in Requests : Request(r) \/ RepeatRequest(r)
    \/ AdoptStage \/ RecoverPreauth
    \/ \E slot \in {"A", "B"}, i, d \in Images : InitializeSelection(slot, i, d)
    \/ \E i, d \in Images : CreateTransaction(i, d)
    \/ \E q \in UpdatePhases : AdvanceTransaction(q)
    \/ SelectCandidate \/ SelectPrevious

SpecUpdate == InitUpdate /\ [][NextUpdate]_updateVars

-----------------------------------------------------------------------------
(* Properties. *)

\* A request that was answered with a transaction stays recorded with that one
\* transaction, through later requests, crashes, failed writes and take-overs
\* by other workers: a repeat can neither start another nor be told another.
AnswersKept == \A r \in Requests : answers[r] # {} => Recorded(r) = answers[r]

\* Wherever the worker died or failed, a pending journal that was written whole
\* passes the checks of recovery against the published one, so that the next
\* worker can finish it; only a torn one holds the installation.
StagedIsAdoptable ==
    stage["journal"] \in {Unwritten, Torn} \/ Adoptable(stage["journal"])

\* The published transaction and the published slot fit each other at every
\* point at which the process can die between the two files: the slot is the
\* previous one or the candidate with its own image and data, and which of the
\* two the phase allows.
SlotFitsPhase == ValidSelectionPhase(file["transaction"], file["slot"])
=============================================================================
