------------------------------ MODULE Admission ------------------------------
(***************************************************************************)
(* The update admission broker (native/update-admission-broker): it counts *)
(* the work of the runtime processes so that an update starts only when    *)
(* nothing runs.  A process registers as a participant and enters work     *)
(* under numbered permits; an update closes admission, waits until every   *)
(* permit is settled and every participant quiesced, and seals it, which   *)
(* gives it the receipt it may update on.  All of it is one journal file,  *)
(* published by a pending file and a move.                                 *)
(*                                                                         *)
(* Calls are serialized by a lock, so that a call is one step; but it can  *)
(* fail, or the process die, after the pending file is written or after    *)
(* the move.  The caller then learns nothing and retries.                  *)
(*                                                                         *)
(* Left out: calls that are refused or repeated without effect, the        *)
(* expected revision (a caller can always read it), the disposition of a   *)
(* reopened update, the limits of 128 participants and 256 updates, and    *)
(* overflow of the 64-bit counters (refused).                              *)
(***************************************************************************)
EXTENDS Naturals

CONSTANTS Principals,      \* native identities of the runtime processes
          Participants,    \* ids given out at registration (fresh GUIDs)
          Updates,         \* update transactions
          MaxSequence,     \* permits per participant
          MaxGeneration    \* owners of one update, one after the other

ASSUME AdmissionBounds == MaxSequence \in Nat /\ MaxGeneration \in Nat

VARIABLES adm,        \* state in admission.json
          staged,    \* admission.pending.json exists
          core,       \* "serving", or "gone": poisoned or dead
          working,    \* permits whose holder was told to start and has not ended
          grants,     \* times each permit was granted (history)
          attested,   \* epoch of the evidence each participant was last quiesced on (history)
          receipts,   \* epochs a drain receipt was handed out for (history)
          retired     \* principals marked as retired in memory

admissionVars == <<adm, staged, core, working, grants, attested, receipts, retired>>
callerVars == <<working, grants, receipts, retired>>

Permits == Participants \X (1..MaxSequence)
None == {}         \* no transaction, no identity

InitAdmission ==
    /\ adm = [phase |-> "open", epoch |-> 1, transaction |-> None, generation |-> 0,
              identity |-> [m \in Participants |-> None],
              status |-> [m \in Participants |-> "unknown"],
              issued |-> [m \in Participants |-> 0],
              settledThrough |-> [m \in Participants |-> 0],
              permit |-> [p \in Permits |-> "none"], jobs |-> {}, finished |-> {}]
    /\ staged = FALSE /\ core = "serving"
    /\ working = {} /\ grants = [p \in Permits |-> 0]
    /\ attested = [m \in Participants |-> 0] /\ receipts = {} /\ retired = {}

Enrolled(m) == adm.status[m] \notin {"unknown", "removed"}
NothingHeld == \A p \in Permits : adm.permit[p] # "held"
NothingActive == \A m \in Participants : adm.status[m] # "active"

-----------------------------------------------------------------------------
(* Publication. *)

\* The caller is answered and the effects of the answer take place; or the
\* call throws after the move; or it throws before it, and the pending file
\* that stays refuses every later start.
Save(next, answer) ==
    \/ adm' = next /\ answer /\ UNCHANGED <<staged, core>>
    \/ adm' = next /\ core' = "gone" /\ UNCHANGED <<staged, callerVars>>
    \/ staged' = TRUE /\ core' = "gone" /\ UNCHANGED <<adm, callerVars>>

\* The process dies between two calls, or a call fails before it writes.
CrashCore ==
    /\ core = "serving" /\ core' = "gone"
    /\ UNCHANGED <<adm, staged, attested, callerVars>>

\* A retired principal is an object in memory, which may or may not outlive it.
RestartCore ==
    /\ core = "gone" /\ ~staged
    /\ core' = "serving"
    /\ retired' \in SUBSET retired
    /\ UNCHANGED <<adm, staged, working, grants, attested, receipts>>

-----------------------------------------------------------------------------
(* Participants. *)

\* Member: the caller is the participant's principal.
IsMember(p, m) ==
    /\ core = "serving" /\ p \notin retired
    /\ Enrolled(m) /\ adm.identity[m] = {p}

Register(p, m) ==
    /\ core = "serving" /\ p \notin retired
    /\ \A n \in Participants : Enrolled(n) => adm.identity[n] # {p}
    /\ adm.status[m] = "unknown"
    /\ Save([adm EXCEPT !.identity[m] = {p},
                        !.status[m] = IF adm.phase = "open" THEN "active" ELSE "quarantined"],
            UNCHANGED callerVars)
    /\ UNCHANGED attested

\* Granted: the holder starts to work.
Grant(x) ==
    /\ working' = working \cup {x}
    /\ grants' = [grants EXCEPT ![x] = @ + 1]
    /\ UNCHANGED <<receipts, retired>>

Issue(p, m, i, jobs) ==
    /\ IsMember(p, m)
    /\ i = adm.issued[m] + 1 /\ i <= MaxSequence
    /\ adm.status[m] = "active"
    /\ Save([adm EXCEPT !.permit[<<m, i>>] = "held", !.issued[m] = i, !.jobs = jobs],
            Grant(<<m, i>>))
    /\ UNCHANGED attested

EnterWork(p, m, i) == adm.phase = "open" /\ Issue(p, m, i, adm.jobs)

\* Work that holds a permit hands over to a job, also while admission closes.
Promote(p, m, i, parent) ==
    /\ adm.phase # "sealed"
    /\ adm.permit[<<m, parent>>] = "held" /\ <<m, parent>> \notin adm.jobs
    /\ Issue(p, m, i, adm.jobs \cup {<<m, i>>})

\* What a repeated call for a held permit is told: to reconcile.  Its mutant
\* grants the permit again.
GrantAgain(x) == Grant(x)
Existing(x) == UNCHANGED callerVars

RepeatEnter(p, m, i) ==
    /\ IsMember(p, m) /\ adm.permit[<<m, i>>] = "held"
    /\ Existing(<<m, i>>)
    /\ UNCHANGED <<adm, staged, core, attested>>

WorkEnds(x) ==
    /\ x \in working /\ working' = working \ {x}
    /\ UNCHANGED <<adm, staged, core, grants, attested, receipts, retired>>

\* The records of settled permits go up to the first that is not settled.
\* Its mutant goes over one permit that is not.
WatermarkPast(m, w, permit) ==
    /\ w >= adm.settledThrough[m] /\ w <= adm.issued[m]
    /\ w < adm.issued[m] => permit[<<m, w + 1>>] # "settled"
Watermark(m, w, permit) ==
    /\ w >= adm.settledThrough[m] /\ w <= adm.issued[m]
    /\ \A j \in (adm.settledThrough[m] + 1)..w : permit[<<m, j>>] = "settled"
    /\ w < adm.issued[m] => permit[<<m, w + 1>>] # "settled"

\* The evidence, bound to the permit, says that its operation or job is over.
Settle(p, m, i) ==
    LET settled == [adm.permit EXCEPT ![<<m, i>>] = "settled"] IN
    /\ IsMember(p, m)
    /\ adm.permit[<<m, i>>] = "held" /\ <<m, i>> \notin working
    /\ \E w \in 0..MaxSequence :
        /\ Watermark(m, w, settled)
        /\ Save([adm EXCEPT !.settledThrough[m] = w,
                            !.permit = [x \in Permits |-> IF x[1] = m /\ x[2] <= w THEN "none"
                                                          ELSE settled[x]],
                            !.jobs = {x \in @ : ~(x[1] = m /\ x[2] <= w)}],
                UNCHANGED callerVars)
    /\ UNCHANGED attested

\* The evidence is bound to an epoch, which must be the present one: what
\* a participant said before admission closed is not taken.
Quiesce(p, m, e) ==
    /\ IsMember(p, m) /\ e = adm.epoch
    /\ \A i \in 1..MaxSequence : adm.permit[<<m, i>>] # "held"
    /\ adm.status[m] = "active"
    /\ Save([adm EXCEPT !.status[m] = "quiesced"], UNCHANGED callerVars)
    /\ attested' = [attested EXCEPT ![m] = e]

RetireParticipant(p, m) ==
    /\ IsMember(p, m)
    /\ adm.status[m] # "active" /\ adm.issued[m] = adm.settledThrough[m]
    /\ Save([adm EXCEPT !.status[m] = "removed"],
            retired' = retired \cup {p} /\ UNCHANGED <<working, grants, receipts>>)
    /\ UNCHANGED attested

-----------------------------------------------------------------------------
(* Updates. *)

Activated == [m \in Participants |-> IF Enrolled(m) THEN "active" ELSE adm.status[m]]

\* The owner of the update is the one of the present generation.
IsOwner(u, g) == core = "serving" /\ adm.transaction = {u} /\ adm.generation = g

\* Who was quiet in an earlier epoch has to be so again in this one.
Close(u) ==
    /\ core = "serving" /\ adm.phase = "open" /\ u \notin adm.finished
    /\ Save([adm EXCEPT !.phase = "closing", !.epoch = @ + 1, !.transaction = {u},
                        !.generation = 1, !.status = Activated],
            UNCHANGED callerVars)
    /\ UNCHANGED attested

DrainReceipt ==
    /\ receipts' = receipts \cup {adm.epoch}
    /\ UNCHANGED <<working, grants, retired>>

\* Sealing again hands the receipt out again.
Seal(u, g) ==
    /\ IsOwner(u, g)
    /\ adm.phase # "open" /\ NothingHeld /\ NothingActive
    /\ \/ adm.phase = "sealed" /\ DrainReceipt /\ UNCHANGED <<adm, staged, core>>
       \/ adm.phase = "closing" /\ Save([adm EXCEPT !.phase = "sealed"], DrainReceipt)
    /\ UNCHANGED attested

\* The owner died; the evidence says so.
RecoverOwner(u, g) ==
    /\ core = "serving" /\ adm.phase # "open"
    /\ adm.transaction = {u} /\ g = adm.generation + 1 /\ g <= MaxGeneration
    /\ Save([adm EXCEPT !.generation = g, !.phase = "closing"], UNCHANGED callerVars)
    /\ UNCHANGED attested

Reopen(u, g) ==
    /\ IsOwner(u, g) /\ adm.phase = "sealed"
    /\ Save([adm EXCEPT !.phase = "open", !.finished = @ \cup {u}, !.status = Activated],
            UNCHANGED callerVars)
    /\ UNCHANGED attested

-----------------------------------------------------------------------------
NextAdmission ==
    \/ CrashCore \/ RestartCore
    \/ \E x \in Permits : WorkEnds(x)
    \/ \E p \in Principals, m \in Participants :
        \/ Register(p, m) \/ RetireParticipant(p, m)
        \/ \E e \in 1..adm.epoch : Quiesce(p, m, e)
        \/ \E i \in 1..MaxSequence :
            \/ EnterWork(p, m, i) \/ RepeatEnter(p, m, i) \/ Settle(p, m, i)
            \/ \E parent \in 1..MaxSequence : Promote(p, m, i, parent)
    \/ \E u \in Updates :
        \/ Close(u)
        \/ \E g \in 1..MaxGeneration : Seal(u, g) \/ RecoverOwner(u, g) \/ Reopen(u, g)

SpecAdmission == InitAdmission /\ [][NextAdmission]_admissionVars

-----------------------------------------------------------------------------
(* Properties. *)

\* From the moment a drain receipt is handed out until admission reopens no
\* work runs and none can start, through crashes, repeated calls, a change of
\* owner and processes that register meanwhile; and whoever is a participant
\* said so in this epoch, or came too late to have worked in it.
DrainHolds ==
    (adm.phase # "open" /\ adm.epoch \in receipts) =>
        /\ working = {}
        /\ \A m \in Participants : Enrolled(m) =>
            \/ adm.status[m] = "quarantined"
            \/ adm.status[m] = "quiesced" /\ attested[m] = adm.epoch

\* A permit is granted at most once, whatever calls were repeated after
\* a lost answer or a restart: work is never started twice under one permit.
GrantedOnce == \A x \in Permits : grants[x] <= 1

\* The permits on record are those after the watermark.
PermitsAreNumbered ==
    \A m \in Participants :
        /\ adm.settledThrough[m] <= adm.issued[m]
        /\ \A i \in 1..MaxSequence :
            (adm.permit[<<m, i>>] # "none") <=> (i > adm.settledThrough[m] /\ i <= adm.issued[m])

\* They belong to participants, the held ones to active participants.
PermitsAreOwned ==
    \A m \in Participants, i \in 1..MaxSequence :
        /\ adm.permit[<<m, i>>] # "none" => Enrolled(m)
        /\ adm.permit[<<m, i>>] = "held" => adm.status[m] = "active"

SealedIsDrained == adm.phase = "sealed" => NothingHeld /\ NothingActive

\* The last update is finished exactly when admission is open.
UpdateFits ==
    IF adm.transaction = None THEN adm.generation = 0 /\ adm.phase = "open"
    ELSE adm.generation # 0 /\ (adm.transaction \subseteq adm.finished <=> adm.phase = "open")

\* One process is one participant.
IdentitiesDiffer ==
    \A m, n \in Participants :
        Enrolled(m) /\ Enrolled(n) /\ adm.identity[m] = adm.identity[n] => m = n

\* What the broker writes is what it accepts when it reads (Parse): otherwise
\* every later call is refused, and so is the next start.
JournalParses ==
    /\ PermitsAreNumbered /\ PermitsAreOwned /\ SealedIsDrained
    /\ UpdateFits /\ IdentitiesDiffer
=============================================================================
