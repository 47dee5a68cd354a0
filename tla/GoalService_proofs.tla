------------------------- MODULE GoalService_proofs --------------------------
(***************************************************************************)
(* What finish_goal and cancel_goal leave behind, for every value of the   *)
(* constants: no request of an ended goal runs on untold, and no native    *)
(* task of a finished goal can wake anybody.                               *)
(***************************************************************************)
EXTENDS GoalService, GoalTypes_proofs

-----------------------------------------------------------------------------
(* Requests of an ended goal. *)

Finished == {"completed", "failed", "blocked"}

\* The abort of the requests of g is still to come.
AbortPending(g) == \E s \in Sessions : \E f \in flow[s] : f.goal = g /\ f.stage = "abort"

IsWalk(f) == /\ f.goal \in Goals /\ f.status \in TerminalStatuses
             /\ f.op = "finish" => f.status # "cancelled"
             /\ f = [op |-> f.op, goal |-> f.goal, token |-> f.token, status |-> f.status,
                     revision |-> f.revision, at |-> f.at, stage |-> f.stage]

\* A session walks through one finish or cancel at a time.
WalksFit == /\ flow = [s \in Sessions |-> flow[s]]
            /\ \A s \in Sessions : \A f, h \in flow[s] : f = h
            /\ \A s \in Sessions : \A f \in flow[s] : IsWalk(f)
            /\ reqs \subseteq Request
            /\ status = [g \in Goals |-> status[g]]

\* EndedRequestsStop is not inductive: a request that was admitted before the
\* end may still register.  So no request, admitted or running, is of a
\* finished goal that has no tombstone and waits for none, and once there is a
\* tombstone every running request was aborted.
StopInv ==
    /\ WalksFit
    /\ \A r \in reqs : status[r.goal] \in Finished => r.goal \in tombs \/ AbortPending(r.goal)
    /\ \A r \in reqs : r.phase = "running" /\ r.goal \in tombs => r.aborted

\* The step finishes no goal.
FinishesNone == /\ status' = [g \in Goals |-> status'[g]]
                /\ \A g \in Goals : status'[g] \in Finished => status[g] \in Finished

\* Every transaction but finish leaves goals unfinished: an acquisition makes
\* one active, a cancellation makes it cancelled.
LEMMA RepositoryFinishesNone ==
    ASSUME WalksFit, RepositoryStep
    PROVE  FinishesNone
<1> USE DEF FinishesNone, WalksFit, Finished
<1>1. ASSUME NEW g \in Goals, NEW s \in Sessions, AcquireStep(s, g) PROVE FinishesNone
  BY <1>1 DEF AcquireStep, Create, AcquireFree, AcquireStale, RecoverBlocked
<1>2. ASSUME NEW g \in Goals, NEW s \in Sessions, NEW tok, NEW T, NEW release,
             Checkpoint(g, s, tok, T, release) PROVE FinishesNone
  BY <1>2 DEF Checkpoint
<1>3. ASSUME NEW g \in Goals, NEW s \in Sessions, NEW tok, NEW T, NEW occ, NEW d,
             Prepare(g, s, tok, T, occ, d) \/ Refresh(g, s, tok, T, occ, d) PROVE FinishesNone
  BY <1>3 DEF Prepare, Refresh, PrepareGoal
<1>4. ASSUME NEW g \in Goals, NEW k, CancelContinuation(g, k) PROVE FinishesNone
  BY <1>4 DEF CancelContinuation, UpdateRow
<1>5. ASSUME NEW s \in Sessions, EvidenceStep(s) PROVE FinishesNone
  BY <1>5 DEF EvidenceStep, ReadGoal, Reconcile, Terminate, ObserveFence, ReadTasks, DropEvidence
<1>6. ASSUME NEW c, HeartbeatCall(c) PROVE FinishesNone
  BY <1>6 DEF HeartbeatCall
<1>7. ASSUME EnvStep PROVE FinishesNone
  BY <1>7 DEF EnvStep, Tick, TaskStep
<1> QED BY <1>1, <1>2, <1>3, <1>4, <1>5, <1>6, <1>7, SetsAssumption DEF RepositoryStep

LEMMA WakeFinishesNone ==
    ASSUME WalksFit, NEW s, NEW g, NEW k, WakeStep(s, g, k)
    PROVE  FinishesNone
  BY DEF FinishesNone, WalksFit, Finished, WakeStep, ClaimUntimely, ClaimTerminal, UpdateRow,
         ClaimRecurringCleanup, ClaimCollision, ClaimRecurringBusy, ClaimTakeover, ClaimRetired,
         ClaimRecurringTakeover

\* A step that only finishes nothing, and takes no walk, request or tombstone.
LEMMA QuietStepKeepsStop ==
    ASSUME StopInv, FinishesNone, UNCHANGED <<flow, tombs, reqs>>
    PROVE  StopInv'
  BY DEF StopInv, WalksFit, FinishesNone, AbortPending, Request

\* A session whose walk is not about to abort takes another one.
LEMMA WalkKeepsStop ==
    ASSUME StopInv, FinishesNone, UNCHANGED <<tombs, reqs>>,
           NEW s \in Sessions, \A f \in flow[s] : f.stage # "abort",
           NEW F, \A f \in F : IsWalk(f), \A f, h \in F : f = h, flow' = [flow EXCEPT ![s] = F]
    PROVE  StopInv'
<1>1. \A z \in Sessions : flow'[z] = IF z = s THEN F ELSE flow[z]
  BY DEF StopInv, WalksFit
<1>2. WalksFit'
  BY <1>1 DEF StopInv, WalksFit, FinishesNone
<1>3. \A g : AbortPending(g) => AbortPending(g)'
  BY <1>1 DEF AbortPending
<1> QED BY <1>2, <1>3 DEF StopInv, WalksFit, FinishesNone, Request

\* Validation, marking and a failed commit leave every request where it was
\* (finishGoal, cancelGoal).
LEMMA WalksKeepStop ==
    ASSUME StopInv, NEW s \in Sessions,
           \/ FinishMark(s) \/ FinishConflict(s) \/ CancelMark(s)
           \/ \E g \in Goals, st \in TerminalStatuses \ {"cancelled"} : \E tok : FinishValidate(s, g, tok, st)
    PROVE  StopInv'
<1> USE DEF Go, Return
<1>1. FinishesNone
  BY DEF FinishMark, FinishConflict, CancelMark, FinishValidate, Mark, MarkFinished, UpdateRow, vars,
         FinishesNone, StopInv, WalksFit
<1>2. ASSUME NEW f \in flow[s] PROVE IsWalk([f EXCEPT !.stage = "commit"])
  BY <1>2 DEF StopInv, WalksFit, IsWalk
<1>3. CASE FinishMark(s) \/ FinishConflict(s) \/ CancelMark(s)
  <2>1. PICK f \in flow[s] : /\ f.stage \in {"mark", "commit"} /\ UNCHANGED <<tombs, reqs>>
                             /\ \E F \in SUBSET {[f EXCEPT !.stage = "commit"]} :
                                   flow' = [flow EXCEPT ![s] = F]
    BY <1>3 DEF FinishMark, FinishConflict, CancelMark
  <2>2. \A h \in flow[s] : h.stage # "abort"
    BY <2>1 DEF StopInv, WalksFit
  <2>3. PICK F \in SUBSET {[f EXCEPT !.stage = "commit"]} : flow' = [flow EXCEPT ![s] = F]
    BY <2>1
  <2>4. (\A x \in F : IsWalk(x)) /\ \A x, y \in F : x = y
    BY <1>2, <2>3
  <2> QED BY <1>1, <2>1, <2>2, <2>3, <2>4, WalkKeepsStop
<1>4. CASE \E g \in Goals, st \in TerminalStatuses \ {"cancelled"} : \E tok : FinishValidate(s, g, tok, st)
  <2>0. PICK g \in Goals, st \in TerminalStatuses \ {"cancelled"} : \E tok : FinishValidate(s, g, tok, st)
    BY <1>4
  <2>1. PICK tok : FinishValidate(s, g, tok, st)
    BY <2>0
  <2> DEFINE f == [op |-> "finish", goal |-> g, token |-> tok, status |-> st,
                   revision |-> revision[g], at |-> now, stage |-> "mark"]
  <2>2. IsWalk(f)
    BY DEF IsWalk
  <2>3. flow[s] = {} /\ flow' = [flow EXCEPT ![s] = {f}] /\ UNCHANGED <<tombs, reqs>>
    BY <2>1 DEF FinishValidate
  <2>4. (\A x \in {f} : IsWalk(x)) /\ \A x, y \in {f} : x = y
    BY <2>2
  <2> HIDE DEF f
  <2> QED BY <1>1, <2>3, <2>4, WalkKeepsStop
<1> QED BY <1>3, <1>4

\* The transition and the announcement of the abort are one step: from then on
\* a request of the goal waits for it (finish, cancel).
LEMMA CommitKeepsStop ==
    ASSUME StopInv, NEW s \in Sessions, NEW f, IsWalk(f), f.stage = "abort",
           flow' = [flow EXCEPT ![s] = {f}], \A h \in flow[s] : h.stage # "abort",
           UNCHANGED <<tombs, reqs>>,
           status' = [g \in Goals |-> status'[g]],
           \A g \in Goals : status'[g] \in Finished => status[g] \in Finished \/ g = f.goal
    PROVE  StopInv'
<1>1. \A z \in Sessions : flow'[z] = IF z = s THEN {f} ELSE flow[z]
  BY DEF StopInv, WalksFit
<1>2. WalksFit'
  BY <1>1 DEF StopInv, WalksFit
<1>3. \A g : AbortPending(g) => AbortPending(g)'
  BY <1>1 DEF AbortPending
<1>4. AbortPending(f.goal)'
  BY <1>1 DEF AbortPending
<1> QED BY <1>2, <1>3, <1>4 DEF StopInv, WalksFit, Request

LEMMA CommitsKeepStop ==
    ASSUME StopInv, NEW s \in Sessions,
           \/ FinishCommit(s)
           \/ \E g \in Goals : CancelCommit(s, g)
    PROVE  StopInv'
<1> USE DEF Go
<1>1. CASE FinishCommit(s)
  <2>1. PICK f \in flow[s] : /\ f.stage = "commit"
                             /\ Finish(f.goal, s, f.token, f.revision, f.status, f.at)
                             /\ flow' = [flow EXCEPT ![s] = {[f EXCEPT !.stage = "abort"]}]
                             /\ UNCHANGED <<tombs, reqs>>
    BY <1>1 DEF FinishCommit
  <2>2. IsWalk(f) /\ f.goal \in Goals
    BY DEF StopInv, WalksFit, IsWalk
  <2>3. PICK h : h = [f EXCEPT !.stage = "abort"]
    OBVIOUS
  <2>4. IsWalk(h) /\ h.stage = "abort" /\ h.goal = f.goal
    BY <2>2, <2>3 DEF IsWalk
  <2>5. status' = [status EXCEPT ![f.goal] = f.status]
    BY <2>1 DEF Finish, Terminate
  <2>6. /\ status' = [g \in Goals |-> status'[g]]
        /\ \A g \in Goals : status'[g] \in Finished => status[g] \in Finished \/ g = h.goal
    BY <2>2, <2>4, <2>5 DEF StopInv, WalksFit
  <2>7. \A x \in flow[s] : x.stage # "abort"
    BY <2>1 DEF StopInv, WalksFit
  <2> QED BY <2>1, <2>3, <2>4, <2>6, <2>7, CommitKeepsStop
<1>2. CASE \E g \in Goals : CancelCommit(s, g)
  <2>1. PICK g \in Goals : CancelCommit(s, g)
    BY <1>2
  <2>2. PICK f : f = [op |-> "cancel", goal |-> g, token |-> 0, status |-> "cancelled",
                      revision |-> revision[g], at |-> now, stage |-> "abort"]
    OBVIOUS
  <2>3. IsWalk(f) /\ f.stage = "abort" /\ f.goal = g
    BY <2>2 DEF IsWalk, TerminalStatuses
  <2>4. flow[s] = {} /\ flow' = [flow EXCEPT ![s] = {f}] /\ UNCHANGED <<tombs, reqs>>
    BY <2>1, <2>2 DEF CancelCommit
  <2>5. /\ status' = [x \in Goals |-> status'[x]]
        /\ \A x \in Goals : status'[x] \in Finished => status[x] \in Finished
    BY <2>1 DEF CancelCommit, Cancel, CancelAgain, Terminate, StopInv, WalksFit, Finished
  <2> QED BY <2>3, <2>4, <2>5, CommitKeepsStop
<1> QED BY <1>1, <1>2

\* The abort leaves a tombstone where it announced itself, and reaches every
\* request that is running by then (cancelForGoal).
LEMMA AbortKeepsStop ==
    ASSUME StopInv, NEW s \in Sessions, Abort(s)
    PROVE  StopInv'
<1>1. PICK f \in flow[s] : /\ f.stage = "abort" /\ tombs' = tombs \cup {f.goal}
                           /\ reqs' = Aborted(f.goal) /\ UNCHANGED <<vars, host, mail>>
                           /\ \E F \in SUBSET {[f EXCEPT !.stage = "mark"]} :
                                 flow' = [flow EXCEPT ![s] = F]
  BY DEF Abort, Go, Return
<1>2. PICK F \in SUBSET {[f EXCEPT !.stage = "mark"]} : flow' = [flow EXCEPT ![s] = F]
  BY <1>1
<1>3. IsWalk([f EXCEPT !.stage = "mark"])
  BY DEF StopInv, WalksFit, IsWalk
<1>4. \A z \in Sessions : flow'[z] = IF z = s THEN F ELSE flow[z]
  BY <1>2 DEF StopInv, WalksFit
<1>5. status' = status
  BY <1>1 DEF vars
<1>6. \A q \in reqs' : \E r \in reqs :
          /\ q \in Request /\ q.goal = r.goal /\ q.phase = r.phase /\ (r.aborted => q.aborted)
          /\ r.goal = f.goal /\ r.phase = "running" => q.aborted
  <2> SUFFICES ASSUME NEW q \in reqs'
               PROVE  \E r \in reqs :
                         /\ q \in Request /\ q.goal = r.goal /\ q.phase = r.phase /\ (r.aborted => q.aborted)
                         /\ r.goal = f.goal /\ r.phase = "running" => q.aborted
    OBVIOUS
  <2>1. PICK r \in reqs : q = IF r.goal = f.goal /\ r.phase = "running"
                              THEN [r EXCEPT !.aborted = TRUE] ELSE r
    BY <1>1 DEF Aborted
  <2>2. r \in Request
    BY DEF StopInv, WalksFit
  <2> QED BY <2>1, <2>2 DEF Request
<1>7. WalksFit'
  <2>1. \A z \in Sessions : \A x, y \in flow'[z] : x = y
    BY <1>2, <1>4 DEF StopInv, WalksFit
  <2>2. \A z \in Sessions : \A x \in flow'[z] : IsWalk(x)
    BY <1>2, <1>3, <1>4 DEF StopInv, WalksFit
  <2>3. reqs' \subseteq Request
    BY <1>6
  <2> QED BY <1>2, <1>5, <2>1, <2>2, <2>3 DEF StopInv, WalksFit
<1>8. \A g : AbortPending(g) => AbortPending(g)' \/ g = f.goal
  <2> SUFFICES ASSUME NEW g, NEW z \in Sessions, NEW h \in flow[z], h.goal = g, h.stage = "abort"
               PROVE  AbortPending(g)' \/ g = f.goal
    BY DEF AbortPending
  <2>1. CASE z = s
    BY <2>1 DEF StopInv, WalksFit
  <2>2. CASE z # s
    BY <2>2, <1>4 DEF AbortPending
  <2> QED BY <2>1, <2>2
<1>9. \A q \in reqs' : status'[q.goal] \in Finished => q.goal \in tombs' \/ AbortPending(q.goal)'
  BY <1>1, <1>5, <1>6, <1>8 DEF StopInv
<1>10. \A q \in reqs' : q.phase = "running" /\ q.goal \in tombs' => q.aborted
  BY <1>1, <1>6 DEF StopInv
<1> QED BY <1>7, <1>9, <1>10 DEF StopInv

\* A request is admitted under the lease of an active goal, is refused a
\* tombstone when it registers, and leaves (register, release).
LEMMA RequestsKeepStop ==
    ASSUME StopInv,
           \/ \E c \in Calls, g \in Goals, s \in Sessions : \E tok :
                 Admit(c, g, s, tok) \/ AdmitUnfenced(c, g, s, tok)
           \/ \E r \in reqs : Register(r) \/ Settle(r)
    PROVE  StopInv'
<1> USE DEF StopInv, WalksFit, AbortPending
<1>1. CASE \E c \in Calls, g \in Goals, s \in Sessions : \E tok :
                 Admit(c, g, s, tok) \/ AdmitUnfenced(c, g, s, tok)
  <2>0. PICK c \in Calls, g \in Goals, s \in Sessions :
                 \E tok : Admit(c, g, s, tok) \/ AdmitUnfenced(c, g, s, tok)
    BY <1>1
  <2>1. PICK tok : Admit(c, g, s, tok) \/ AdmitUnfenced(c, g, s, tok)
    BY <2>0
  <2>2. PICK q \in Request : /\ q.goal = g /\ q.phase = "admitted"
                             /\ reqs' = reqs \cup {q}
    BY <2>1 DEF Admit, AdmitUnfenced, Request
  <2>3. status[g] = "active" /\ UNCHANGED <<status, flow, tombs>>
    BY <2>1 DEF Admit, AdmitUnfenced, BeginCall, MutableLease, IsActive, vars
  <2> QED BY <2>2, <2>3 DEF Finished
<1>2. CASE \E r \in reqs : Register(r)
  <2>1. PICK r \in reqs : Register(r)
    BY <1>2
  <2>2. PICK q : q = [r EXCEPT !.phase = "running"]
    OBVIOUS
  <2>a. q \in Request /\ q.goal = r.goal /\ q.phase = "running"
    BY <2>2 DEF Request
  <2>b. reqs' = (reqs \ {r}) \cup {q}
    BY <2>1, <2>2 DEF Register
  <2>3. r.goal \notin tombs /\ UNCHANGED <<status, flow, tombs>>
    BY <2>1 DEF Register, Welcome, vars
  <2> QED BY <2>a, <2>b, <2>3
<1>3. CASE \E r \in reqs : Settle(r)
  BY <1>3 DEF Settle
<1> QED BY <1>1, <1>2, <1>3

\* Every step of the service keeps it; a crash forgets the requests too.
LEMMA StopInvStep ==
    ASSUME StopInv, [ServiceNext]_allVars
    PROVE  StopInv'
<1>1. CASE UNCHANGED allVars
  BY <1>1 DEF allVars, vars, serviceVars, StopInv, WalksFit, AbortPending, IsWalk
<1>2. CASE RepositoryStep
  <2>1. UNCHANGED <<flow, tombs, reqs>>
    BY <1>2 DEF RepositoryStep, serviceVars
  <2> QED BY <1>2, <2>1, RepositoryFinishesNone, QuietStepKeepsStop DEF StopInv
<1>3. CASE ServiceStep
  BY <1>3, WalksKeepStop, CommitsKeepStop, AbortKeepsStop, RequestsKeepStop DEF ServiceStep
<1>4. CASE HostStep
  <2>1. ASSUME NEW g, NEW k, HostCreate(g, k) \/ HostStop(g, k)
        PROVE  FinishesNone /\ UNCHANGED <<flow, tombs, reqs>>
    BY <2>1 DEF HostCreate, HostStop, vars, FinishesNone, StopInv, WalksFit
  <2>2. ASSUME NEW m, Deliver(m) PROVE FinishesNone /\ UNCHANGED <<flow, tombs, reqs>>
    BY <2>2 DEF Deliver, ReceiveCreated, ReceiveCancelled, UpdateRow, serviceVars, FinishesNone,
                StopInv, WalksFit
  <2>3. ASSUME NEW s, NEW g, NEW k, Wake(s, g, k)
        PROVE  FinishesNone /\ UNCHANGED <<flow, tombs, reqs>>
    BY <2>3, WakeFinishesNone DEF Wake, serviceVars, StopInv
  <2>4. FinishesNone /\ UNCHANGED <<flow, tombs, reqs>>
    BY <1>4, <2>1, <2>2, <2>3 DEF HostStep
  <2> QED BY <2>4, QuietStepKeepsStop
<1>5. CASE Crash
  BY <1>5 DEF Crash, StopInv, WalksFit
<1> QED BY <1>1, <1>2, <1>3, <1>4, <1>5 DEF ServiceNext

\* When finish_goal or cancel_goal has returned, every request of the ended
\* goal that is running was told to stop, however admission, registration, the
\* transition and the abort of several sessions interleaved.
THEOREM EndedRequestsAlwaysStop == ServiceSpec => []EndedRequestsStop
<1>1. ServiceInit => StopInv
  BY DEF ServiceInit, Init, StopInv, WalksFit
<1>2. StopInv /\ [ServiceNext]_allVars => StopInv'
  BY StopInvStep
<1>3. StopInv => EndedRequestsStop
  BY DEF StopInv, EndedRequestsStop, AbortPending, Finished
<1> QED BY <1>1, <1>2, <1>3, PTL DEF ServiceSpec


-----------------------------------------------------------------------------
(* Native tasks of a finished goal. *)

\* A watchdog row, given what its native task is at the host.
RowFits(r, at) ==
    /\ r.occ = "interval"
    /\ r.status \in {"prepared", "scheduled", "superseded", "cancelled"} \cup CancelStatuses
    /\ r.status \in {"prepared", "superseded"} => ~r.native
    /\ r.status = "cancelled" => at = "stopped"
RowsFit == \A g \in Goals : /\ Len(rows[g]) <= MaxRows
                            /\ \A k \in DOMAIN rows[g] : RowFits(rows[g][k], host[g][k])

\* A receipt under way is about a row, and a proof that a task was stopped is true.
MailFits == \A m \in mail : /\ m.goal \in Goals /\ m.row \in DOMAIN rows[m.goal]
                            /\ m.outcome = "cancelled" => host[m.goal][m.row] = "stopped"
HostFits == host \in [Goals -> [1..MaxRows -> {"none", "runnable", "stopped"}]]

\* A finished goal has no live row, and a finish about to commit at the revision
\* it validated found none: what makes a row live raises the revision.
EndedFits == \A g \in Goals : status[g] \in Finished => LiveIn(rows[g]) = {}
CommitFits ==
    \A s \in Sessions : \A f \in flow[s] : f.op = "finish" =>
        /\ f.revision \in Nat /\ f.revision <= revision[f.goal]
        /\ (f.stage = "commit" /\ f.revision = revision[f.goal]) => LiveIn(rows[f.goal]) = {}

CleanInv == LeaseInv /\ StopInv /\ RowsFit /\ MailFits /\ HostFits /\ EndedFits /\ CommitFits

\* What a step may do to the rows: nothing, move a live one, or prepare one for
\* an active goal under a new revision.
MovesRow(g, k, q) == /\ k \in LiveIn(rows[g]) /\ RowFits(q, host[g][k])
                     /\ rows' = [rows EXCEPT ![g] = WithRow(g, k, q)]
PreparesRow(g, q) == /\ IsActive(g) /\ revision'[g] > revision[g] /\ Len(rows[g]) < MaxRows
                     /\ q.status = "prepared" /\ RowFits(q, "none")
                     /\ rows' = [rows EXCEPT ![g] = Append(rows[g], q)]
RowsStep == /\ \A g \in Goals : revision'[g] >= revision[g]
            /\ \/ rows' = rows
               \/ \E g \in Goals, q \in Row : PreparesRow(g, q) \/ \E k \in LiveIn(rows[g]) : MovesRow(g, k, q)

\* A stopped native task is never started again.
StoppedStays == /\ HostFits'
                /\ \A g \in Goals : \A k \in 1..MaxRows : host[g][k] = "stopped" => host'[g][k] = "stopped"

\* The lease invariant, from the class of a step and the other types.
LEMMA ClassedKeepsLease ==
    ASSUME LeaseInv, StepClass, RestType'
    PROVE  LeaseInv'
<1>1. LeadType' /\ LeaseColumns'
  BY LeadTypeStep, LeaseColumnsStep DEF LeaseInv
<1> QED BY <1>1 DEF LeaseInv, TypeOK, LeadType, RestType

\* A row that moved.
LEMMA MovedFields ==
    ASSUME NEW r \in Row, NEW st
    PROVE  /\ Moved(r, st).status = st /\ Moved(r, st).occ = r.occ /\ Moved(r, st).native = r.native
           /\ Moved(r, st).version = r.version + 1
  BY DEF Moved, Row

\* The rows a step leaves fit; no row is lost; none is live that was not, but
\* under a new revision of an active goal.
LEMMA RowsStepKeeps ==
    ASSUME TypeOK, RowsFit, HostFits, RowsStep, StoppedStays
    PROVE  /\ RowsFit'
           /\ \A g \in Goals : DOMAIN rows[g] \subseteq DOMAIN rows'[g]
           /\ \A g \in Goals : LiveIn(rows[g]) = {} =>
                 \/ LiveIn(rows'[g]) = {}
                 \/ IsActive(g) /\ revision'[g] > revision[g]
<1>0. \A g \in Goals : rows[g] \in Seq(Row) /\ DOMAIN rows[g] = 1..Len(rows[g]) /\ Len(rows[g]) \in Nat
  BY DEF TypeOK
<1>b. \A g \in Goals : DOMAIN rows[g] \subseteq 1..MaxRows
  BY <1>0, BoundsAssumption DEF RowsFit
<1>1. CASE rows' = rows
  BY <1>0, <1>1, <1>b DEF RowsFit, RowFits, StoppedStays
<1>2. ASSUME NEW g \in Goals, NEW q \in Row, PreparesRow(g, q)
      PROVE  /\ RowsFit'
             /\ \A x \in Goals : DOMAIN rows[x] \subseteq DOMAIN rows'[x]
             /\ \A x \in Goals : LiveIn(rows[x]) = {} =>
                   LiveIn(rows'[x]) = {} \/ (IsActive(x) /\ revision'[x] > revision[x])
  <2>1. \A x \in Goals \ {g} : rows'[x] = rows[x]
    BY <1>2 DEF PreparesRow, TypeOK
  <2>2. rows'[g] = Append(rows[g], q) /\ IsActive(g) /\ revision'[g] > revision[g]
    BY <1>2 DEF PreparesRow, TypeOK
  <2>3. /\ DOMAIN rows'[g] = 1..(Len(rows[g]) + 1) /\ Len(rows'[g]) = Len(rows[g]) + 1
        /\ \A k \in 1..Len(rows[g]) : rows'[g][k] = rows[g][k]
        /\ rows'[g][Len(rows[g]) + 1] = q
    BY <1>0, <2>2
  <2>4. RowFits(q, host'[g][Len(rows[g]) + 1])
    BY <1>2 DEF PreparesRow, RowFits
  <2>5. Len(rows'[g]) <= MaxRows
    BY <1>0, <1>2, <2>3, BoundsAssumption DEF PreparesRow
  <2>7. \A x \in Goals : \A k \in DOMAIN rows[x] : RowFits(rows[x][k], host'[x][k])
    BY <1>b DEF RowsFit, RowFits, StoppedStays
  <2>6. ASSUME NEW k \in DOMAIN rows'[g] PROVE RowFits(rows'[g][k], host'[g][k])
    <3>1. CASE k = Len(rows[g]) + 1
      BY <2>3, <2>4, <3>1
    <3>2. CASE k # Len(rows[g]) + 1
      <4>1. k \in 1..Len(rows[g])
        BY <1>0, <2>3, <3>2
      <4> QED BY <1>0, <2>3, <2>7, <4>1
    <3> QED BY <3>1, <3>2
  <2>8. RowsFit'
    BY <2>1, <2>5, <2>6, <2>7 DEF RowsFit
  <2> QED BY <1>0, <2>1, <2>2, <2>3, <2>8
<1>3. ASSUME NEW g \in Goals, NEW q \in Row, NEW k \in LiveIn(rows[g]), MovesRow(g, k, q)
      PROVE  /\ RowsFit'
             /\ \A x \in Goals : DOMAIN rows[x] \subseteq DOMAIN rows'[x]
             /\ \A x \in Goals : LiveIn(rows[x]) = {} =>
                   LiveIn(rows'[x]) = {} \/ (IsActive(x) /\ revision'[x] > revision[x])
  <2>1. \A x \in Goals \ {g} : rows'[x] = rows[x]
    BY <1>3 DEF MovesRow, TypeOK
  <2>2. rows'[g] = [rows[g] EXCEPT ![k] = q] /\ k \in DOMAIN rows[g]
    BY <1>3 DEF MovesRow, TypeOK, WithRow, LiveIn
  <2>3. DOMAIN rows'[g] = DOMAIN rows[g] /\ Len(rows'[g]) = Len(rows[g])
    BY <1>0, <2>2
  <2>4. \A j \in DOMAIN rows[g] : rows'[g][j] = IF j = k THEN q ELSE rows[g][j]
    BY <1>0, <2>2
  <2>5. RowFits(q, host'[g][k])
    BY <1>b, <1>3, <2>2 DEF MovesRow, RowFits, StoppedStays
  <2>6. \A x \in Goals : \A j \in DOMAIN rows[x] : RowFits(rows[x][j], host'[x][j])
    BY <1>b DEF RowsFit, RowFits, StoppedStays
  <2>7. RowsFit'
    BY <2>1, <2>3, <2>4, <2>5, <2>6 DEF RowsFit
  <2> QED BY <2>1, <2>3, <2>7, <1>3
<1> QED BY <1>1, <1>2, <1>3 DEF RowsStep


\* No row and no revision changes.
LEMMA SameRows ==
    ASSUME TypeOK, rows' = rows, revision' = revision
    PROVE  RowsStep
  BY DEF RowsStep, TypeOK

\* A revision is raised and no row changes.
LEMMA RaisedRows ==
    ASSUME TypeOK, NEW g \in Goals, rows' = rows, revision' = [revision EXCEPT ![g] = @ + 1]
    PROVE  RowsStep
  BY DEF RowsStep, TypeOK

\* A transaction that writes a live row.
LEMMA UpdatedRows ==
    ASSUME TypeOK, NEW g \in Goals, NEW k \in LiveIn(rows[g]), NEW q \in Row,
           RowFits(q, host[g][k]), UpdateRow(g, k, q)
    PROVE  RowsStep
<1>1. rows' = [rows EXCEPT ![g] = WithRow(g, k, q)] /\ revision' = revision
  BY DEF UpdateRow
<1>2. \A x \in Goals : revision'[x] >= revision[x]
  BY <1>1 DEF TypeOK
<1> QED BY <1>1, <1>2 DEF RowsStep, MovesRow

\* The steps that leave the rows alone but for a revision.
LEMMA AcquireRows ==
    ASSUME TypeOK, NEW g \in Goals, NEW s, AcquireStep(s, g)
    PROVE  RowsStep
<1>1. rows' = rows /\ (revision' = revision \/ revision' = [revision EXCEPT ![g] = @ + 1])
  BY DEF AcquireStep, Create, AcquireFree, AcquireStale, RecoverBlocked
<1> QED BY <1>1, SameRows, RaisedRows

LEMMA EvidenceRows ==
    ASSUME TypeOK, NEW s, EvidenceStep(s)
    PROVE  RowsStep
<1>1. rows' = rows /\ (revision' = revision \/ \E g \in Goals : revision' = [revision EXCEPT ![g] = @ + 1])
  BY DEF EvidenceStep, ReadGoal, Reconcile, Terminate, ObserveFence, ReadTasks, DropEvidence
<1> QED BY <1>1, SameRows, RaisedRows

\* A watchdog row is prepared once and not retimed (prepareScheduledContinuation).
LEMMA PrepareRows ==
    ASSUME TypeOK, NEW g \in Goals, NEW s, NEW tok, NEW T, NEW d \in FirstDelays,
           Prepare(g, s, tok, T, "interval", d) \/ Refresh(g, s, tok, T, "interval", d)
    PROVE  RowsStep
<1>1. CASE Prepare(g, s, tok, T, "interval", d)
  <2>1. PICK q : q = NewRow("interval", now + d, 0)
    OBVIOUS
  <2>2. q \in Row
    BY <2>1, NewRowType, LeaseFields, TimesAssumption DEF TypeOK
  <2>3. q.status = "prepared" /\ RowFits(q, "none")
    BY <2>1 DEF NewRow, RowFits
  <2>4. /\ IsActive(g) /\ Len(rows[g]) < MaxRows /\ revision' = [revision EXCEPT ![g] = @ + 1]
        /\ rows' = [rows EXCEPT ![g] = Append(rows[g], q)]
    BY <1>1, <2>1 DEF Prepare, PrepareGoal, MutableLease
  <2>5. revision'[g] > revision[g] /\ \A x \in Goals : revision'[x] >= revision[x]
    BY <2>4 DEF TypeOK
  <2> QED BY <2>2, <2>3, <2>4, <2>5 DEF RowsStep, PreparesRow
<1>2. CASE Refresh(g, s, tok, T, "interval", d)
  <2>1. rows' = rows /\ revision' = [revision EXCEPT ![g] = @ + 1]
    BY <1>2 DEF Refresh, Retimes, PrepareGoal
  <2> QED BY <2>1, RaisedRows
<1> QED BY <1>1, <1>2

\* Cancelling and finishing move a live row into cleanup, or supersede one that
\* has no native task.
LEMMA CancelRows ==
    ASSUME TypeOK, RowsFit, NEW g \in Goals,
           (\E k \in DOMAIN rows[g] : CancelContinuation(g, k)) \/ (\E at : MarkFinished(g, at))
    PROVE  RowsStep /\ RestType'
<1>1. PICK k \in DOMAIN rows[g] : \E st :
         /\ k \in LiveIn(rows[g]) /\ UpdateRow(g, k, Moved(rows[g][k], st))
         /\ st \in CancelStatuses \/ (st = "superseded" /\ ~rows[g][k].native)
  <2>1. CASE \E k \in DOMAIN rows[g] : CancelContinuation(g, k)
    <3>1. PICK k \in DOMAIN rows[g] : CancelContinuation(g, k)
      BY <2>1
    <3>2. RowFits(rows[g][k], host[g][k])
      BY DEF RowsFit
    <3>3. k \in LiveIn(rows[g])
      BY <3>1, <3>2 DEF CancelContinuation, RowFits, LiveIn, LiveStatuses, FenceStatuses, CancelStatuses
    <3>4. CancelTarget(rows[g][k]) \in CancelStatuses
             \/ (CancelTarget(rows[g][k]) = "superseded" /\ ~rows[g][k].native)
      BY DEF CancelTarget, CancelStatuses
    <3>5. UpdateRow(g, k, Moved(rows[g][k], CancelTarget(rows[g][k])))
      BY <3>1 DEF CancelContinuation
    <3> QED BY <3>3, <3>4, <3>5
  <2>2. CASE \E at : MarkFinished(g, at)
    <3>1. PICK at : MarkFinished(g, at)
      BY <2>2
    <3>2. PICK k \in DOMAIN rows[g] : /\ k \in LiveIn(rows[g])
                                      /\ UpdateRow(g, k, Moved(rows[g][k], FinishTarget(rows[g][k], at)))
      BY <3>1 DEF MarkFinished, IsLatestLive
    <3>3. FinishTarget(rows[g][k], at) \in CancelStatuses
             \/ (FinishTarget(rows[g][k], at) = "superseded" /\ ~rows[g][k].native)
      BY DEF FinishTarget, CancelStatuses
    <3> QED BY <3>2, <3>3
  <2> QED BY <2>1, <2>2
<1>2. rows[g][k] \in Row
  BY RowFields
<1>a. PICK st : /\ k \in LiveIn(rows[g]) /\ UpdateRow(g, k, Moved(rows[g][k], st))
                /\ st \in CancelStatuses \/ (st = "superseded" /\ ~rows[g][k].native)
  BY <1>1
<1>3. PICK q : q = Moved(rows[g][k], st)
  OBVIOUS
<1>4. q \in Row
  BY <1>a, <1>2, <1>3, MovedType DEF RowStatuses, LiveStatuses, HistoricalStatuses
<1>5. RowFits(q, host[g][k])
  BY <1>a, <1>2, <1>3, MovedFields DEF RowFits, RowsFit, CancelStatuses
<1> QED BY <1>a, <1>3, <1>4, <1>5, UpdatedRows, UpdateRowRest

\* A receipt confirms a prepared row, or ends one whose task was stopped.
LEMMA DeliverRows ==
    ASSUME TypeOK, RowsFit, MailFits, NEW m \in mail, Deliver(m)
    PROVE  RowsStep /\ RestType' /\ StepClass
<1> DEFINE g == m.goal
           k == m.row
           r == rows[g][k]
<1>1. g \in Goals /\ k \in DOMAIN rows[g] /\ r \in Row /\ RowFits(r, host[g][k])
  BY RowFields DEF MailFits, RowsFit
<1>2. PICK q \in Row : k \in LiveIn(rows[g]) /\ RowFits(q, host[g][k]) /\ UpdateRow(g, k, q)
  <2>1. CASE m.outcome = "created" /\ ReceiveCreated(g, k)
    <3>1. PICK p : p = Moved(r, "scheduled")
      OBVIOUS
    <3>2. p \in Row
      BY <1>1, <3>1, MovedType DEF RowStatuses, LiveStatuses, FenceStatuses
    <3>3. p.status = "scheduled" /\ p.occ = r.occ
      BY <1>1, <3>1, MovedFields
    <3>4. PICK q : q = [p EXCEPT !.native = TRUE, !.confirmed = TRUE]
      OBVIOUS
    <3>5. q \in Row /\ q.status = "scheduled" /\ q.occ = r.occ
      BY <3>2, <3>3, <3>4 DEF Row
    <3>6. r.status = "prepared"
      BY <1>1, <2>1 DEF ReceiveCreated, RowFits, UnconfirmedStatuses, CancelStatuses
    <3>7. k \in LiveIn(rows[g])
      BY <1>1, <3>6 DEF LiveIn, LiveStatuses, FenceStatuses
    <3>8. UpdateRow(g, k, q)
      BY <2>1, <3>1, <3>4 DEF ReceiveCreated, ReceiptStatus
    <3>9. RowFits(q, host[g][k])
      BY <1>1, <3>5 DEF RowFits
    <3> QED BY <3>5, <3>7, <3>8, <3>9
  <2>2. CASE m.outcome = "cancelled" /\ ReceiveCancelled(g, k, "omitted")
    <3>1. PICK p : p = Moved(r, "cancelled")
      OBVIOUS
    <3>2. p \in Row
      BY <1>1, <3>1, MovedType DEF RowStatuses, HistoricalStatuses
    <3>3. p.status = "cancelled" /\ p.occ = r.occ
      BY <1>1, <3>1, MovedFields
    <3>4. PICK q : q = [p EXCEPT !.confirmed = Confirmed(r, "omitted")]
      OBVIOUS
    <3>5. q \in Row /\ q.status = "cancelled" /\ q.occ = r.occ
      BY <1>1, <3>2, <3>3, <3>4, ConfirmedType DEF Row
    <3>7. k \in LiveIn(rows[g])
      BY <1>1, <2>2 DEF ReceiveCancelled, LiveIn, LiveStatuses
    <3>8. UpdateRow(g, k, q)
      BY <2>2, <3>1, <3>4 DEF ReceiveCancelled, ReceiptStatus
    <3>9. RowFits(q, host[g][k])
      BY <1>1, <2>2, <3>5 DEF RowFits, MailFits
    <3> QED BY <3>5, <3>7, <3>8, <3>9
  <2> QED BY <2>1, <2>2 DEF Deliver
<1> QED BY <1>1, <1>2, UpdatedRows, UpdateRowRest, UpdateRowIsIdle DEF StepClass

\* A watchdog that fires leaves its row alone (claimRecurringScheduledContinuation).
LEMMA WakeRows ==
    ASSUME TypeOK, RowsFit, NEW s, NEW g \in Goals, NEW k \in DOMAIN rows[g], WakeStep(s, g, k)
    PROVE  RowsStep
<1>1. rows[g][k].occ = "interval"
  BY DEF RowsFit, RowFits
<1>2. rows' = rows /\ revision' = revision
  BY <1>1 DEF WakeStep, ClaimUntimely, Fired, ClaimTerminal, ClaimRecurringCleanup, ClaimCollision,
         ClaimRecurringBusy, ClaimTakeover, ClaimRetired, ClaimRecurringTakeover
<1> QED BY <1>2, SameRows


\* What a step does to receipts, statuses and walks.
MailStep == \A m \in mail' : \/ m \in mail
                             \/ /\ m.goal \in Goals /\ m.row \in DOMAIN rows[m.goal]
                                /\ m.outcome = "cancelled" => host'[m.goal][m.row] = "stopped"
EndStep == \A g \in Goals : status'[g] \in Finished => status[g] \in Finished \/ LiveIn(rows'[g]) = {}
WalkStep == \A s \in Sessions : \A f \in flow'[s] : f.op = "finish" =>
                \/ f \in flow[s]
                \/ /\ f.revision \in Nat /\ f.revision <= revision'[f.goal]
                   /\ f.stage = "commit" => LiveIn(rows'[f.goal]) = {}

\* The parts together.
LEMMA CleanFrom ==
    ASSUME CleanInv, LeaseInv', StopInv', RowsStep, StoppedStays, MailStep, EndStep, WalkStep
    PROVE  CleanInv'
<1>1. TypeOK /\ revision \in [Goals -> Nat] /\ revision' \in [Goals -> Nat]
  BY DEF CleanInv, LeaseInv, TypeOK
<1>2. /\ RowsFit'
      /\ \A g \in Goals : DOMAIN rows[g] \subseteq DOMAIN rows'[g]
      /\ \A g \in Goals : LiveIn(rows[g]) = {} =>
            LiveIn(rows'[g]) = {} \/ (IsActive(g) /\ revision'[g] > revision[g])
  BY <1>1, RowsStepKeeps DEF CleanInv
<1>3. \A g \in Goals : DOMAIN rows[g] \subseteq 1..MaxRows
  <2> SUFFICES ASSUME NEW g \in Goals PROVE DOMAIN rows[g] \subseteq 1..MaxRows
    OBVIOUS
  <2>1. DOMAIN rows[g] = 1..Len(rows[g]) /\ Len(rows[g]) \in Nat
    BY <1>1 DEF TypeOK
  <2> QED BY <2>1, BoundsAssumption DEF CleanInv, RowsFit
<1>4. MailFits'
  <2> SUFFICES ASSUME NEW m \in mail'
               PROVE  /\ m.goal \in Goals /\ m.row \in DOMAIN rows'[m.goal]
                      /\ m.outcome = "cancelled" => host'[m.goal][m.row] = "stopped"
    BY DEF MailFits
  <2>1. CASE m \in mail
    <3>1. m.goal \in Goals /\ m.row \in DOMAIN rows[m.goal] /\ m.row \in 1..MaxRows
      BY <1>3, <2>1 DEF CleanInv, MailFits
    <3> QED BY <1>2, <2>1, <3>1 DEF CleanInv, MailFits, StoppedStays
  <2>2. CASE m \notin mail
    BY <1>2, <2>2 DEF MailStep
  <2> QED BY <2>1, <2>2
<1>5. EndedFits'
  BY <1>2 DEF CleanInv, EndedFits, EndStep, IsActive, Finished
<1>6. CommitFits'
  <2> SUFFICES ASSUME NEW s \in Sessions, NEW f \in flow'[s], f.op = "finish"
               PROVE  /\ f.revision \in Nat /\ f.revision <= revision'[f.goal]
                      /\ (f.stage = "commit" /\ f.revision = revision'[f.goal]) => LiveIn(rows'[f.goal]) = {}
    BY DEF CommitFits
  <2>0. f.goal \in Goals
    BY DEF StopInv, WalksFit, IsWalk
  <2>1. CASE f \in flow[s]
    <3>1. /\ f.revision \in Nat /\ f.revision <= revision[f.goal]
          /\ (f.stage = "commit" /\ f.revision = revision[f.goal]) => LiveIn(rows[f.goal]) = {}
      BY <2>1 DEF CleanInv, CommitFits
    <3>2. revision'[f.goal] >= revision[f.goal] /\ revision'[f.goal] \in Nat /\ revision[f.goal] \in Nat
      BY <1>1, <2>0 DEF RowsStep
    <3> QED BY <1>2, <2>0, <3>1, <3>2
  <2>2. CASE f \notin flow[s]
    BY <2>2 DEF WalkStep
  <2> QED BY <2>1, <2>2
<1> QED BY <1>2, <1>4, <1>5, <1>6 DEF CleanInv, StoppedStays

\* A step of the repository that is no walk, and no step of the host.
LEMMA PlainKeepsClean ==
    ASSUME CleanInv, StopInv', LeaseInv', RowsStep, FinishesNone,
           UNCHANGED <<host, mail>>,
           \A s \in Sessions : \A f \in flow'[s] : f \in flow[s] \/ f.op # "finish"
    PROVE  CleanInv'
<1>1. StoppedStays
  BY DEF CleanInv, HostFits, StoppedStays
<1> QED BY <1>1, CleanFrom DEF MailStep, EndStep, WalkStep, FinishesNone

\* Nothing of the repository changes.
LEMMA VarsStay ==
    ASSUME CleanInv, UNCHANGED vars
    PROVE  LeaseInv' /\ RowsStep /\ FinishesNone
<1>1. LeaseInv'
  BY LeaseInvStep DEF CleanInv
<1>2. RowsStep
  BY SameRows DEF CleanInv, LeaseInv, vars
<1> QED BY <1>1, <1>2 DEF vars, FinishesNone, CleanInv, StopInv, WalksFit

WatchdogsOnly == PrepareOccurrences \subseteq {"interval"}

\* The repository's own requests.
LEMMA RepositoryKeepsClean ==
    ASSUME WatchdogsOnly, CleanInv, StopInv', RepositoryStep
    PROVE  CleanInv'
<1>0. TypeOK /\ LeaseInv /\ RowsFit /\ WalksFit
  BY DEF CleanInv, LeaseInv, StopInv
<1>1. FinishesNone
  BY <1>0, RepositoryFinishesNone
<1>2. Next
  BY DEF RepositoryStep, Next, WorkerStep, OwnerStep, CallStep
<1>3. LeaseInv'
  BY <1>0, <1>2, LeaseInvStep
<1>4. RowsStep
  <2>1. ASSUME NEW g \in Goals, NEW s \in Sessions, NEW tok, NEW T, NEW release,
               Checkpoint(g, s, tok, T, release) PROVE RowsStep
    <3>1. rows' = rows /\ revision' = [revision EXCEPT ![g] = @ + 1]
      BY <2>1 DEF Checkpoint
    <3> QED BY <1>0, <3>1, RaisedRows
  <2>2. ASSUME NEW c, HeartbeatCall(c) PROVE RowsStep
    <3>1. rows' = rows /\ revision' = revision
      BY <2>2 DEF HeartbeatCall
    <3> QED BY <1>0, <3>1, SameRows
  <2>3. ASSUME EnvStep PROVE RowsStep
    <3>1. rows' = rows /\ revision' = revision
      BY <2>3 DEF EnvStep, Tick, TaskStep
    <3> QED BY <1>0, <3>1, SameRows
  <2>4. ASSUME NEW g \in Goals, NEW s \in Sessions, NEW tok, NEW T, NEW occ \in PrepareOccurrences,
               NEW d \in FirstDelays, Prepare(g, s, tok, T, occ, d) \/ Refresh(g, s, tok, T, occ, d)
        PROVE RowsStep
    <3>1. occ = "interval"
      BY DEF WatchdogsOnly
    <3> QED BY <1>0, <2>4, <3>1, PrepareRows
  <2> QED BY <1>0, <2>1, <2>2, <2>3, <2>4, AcquireRows, EvidenceRows, CancelRows DEF RepositoryStep
<1>5. UNCHANGED <<host, mail>> /\ flow' = flow
  BY DEF RepositoryStep, serviceVars
<1> QED BY <1>1, <1>3, <1>4, <1>5, PlainKeepsClean

\* The walk of a finish (finishGoal).
LEMMA FinishKeepsClean ==
    ASSUME CleanInv, StopInv', NEW s \in Sessions,
           \/ FinishMark(s) \/ FinishCommit(s) \/ FinishConflict(s)
           \/ \E g \in Goals : \E tok, st : FinishValidate(s, g, tok, st)
    PROVE  CleanInv'
<1> USE DEF Go, Return
<1>0. /\ TypeOK /\ LeaseInv /\ RowsFit /\ WalksFit
      /\ flow = [z \in Sessions |-> flow[z]] /\ revision \in [Goals -> Nat]
  BY DEF CleanInv, LeaseInv, StopInv, WalksFit, TypeOK
<1>s. StoppedStays /\ MailStep
  BY DEF CleanInv, HostFits, StoppedStays, MailStep, FinishMark, FinishCommit, FinishConflict, FinishValidate
<1>1. CASE FinishMark(s)
  <2>1. PICK f \in flow[s] :
           /\ f.op = "finish" /\ f.stage = "mark" /\ Mark(f.goal, f.at)
           /\ flow' = [flow EXCEPT ![s] = IF CleanupPending(rows'[f.goal]) THEN {}
                                          ELSE {[f EXCEPT !.stage = "commit"]}]
    BY <1>1 DEF FinishMark
  <2>2. IsWalk(f) /\ f.goal \in Goals /\ f.revision \in Nat /\ f.revision <= revision[f.goal]
    BY <2>1 DEF CleanInv, StopInv, WalksFit, IsWalk, CommitFits
  <2>3. LeaseInv' /\ RowsStep /\ FinishesNone
    <3>1. CASE MarkFinished(f.goal, f.at)
      <4>1. RowsStep /\ RestType'
        BY <1>0, <2>2, <3>1, CancelRows
      <4>2. StepClass
        BY <3>1, UpdateRowIsIdle DEF MarkFinished, StepClass
      <4>3. FinishesNone
        BY <1>0, <3>1 DEF MarkFinished, UpdateRow, FinishesNone, WalksFit
      <4> QED BY <1>0, <4>1, <4>2, <4>3, ClassedKeepsLease
    <3>2. CASE UNCHANGED vars
      BY <3>2, VarsStay
    <3> QED BY <2>1, <3>1, <3>2 DEF Mark
  <2>4. PICK h : h = [f EXCEPT !.stage = "commit"]
    OBVIOUS
  <2>5. h.goal = f.goal /\ h.revision = f.revision
    BY <2>2, <2>4 DEF IsWalk
  <2>6. WalkStep
    <3>1. \A z \in Sessions \ {s} : flow'[z] = flow[z]
      BY <1>0, <2>1
    <3>2. flow'[s] = IF CleanupPending(rows'[f.goal]) THEN {} ELSE {h}
      BY <1>0, <2>1, <2>4
    <3>3. h.revision \in Nat /\ h.revision <= revision'[h.goal]
      <4>1. revision'[f.goal] >= revision[f.goal]
        BY <2>2, <2>3 DEF RowsStep
      <4>2. revision'[f.goal] \in Nat /\ revision[f.goal] \in Nat
        BY <1>0, <2>2, <2>3 DEF LeaseInv, TypeOK
      <4> QED BY <2>2, <2>5, <4>1, <4>2
    <3>4. \A x \in flow'[s] : x = h /\ LiveIn(rows'[h.goal]) = {}
      BY <2>5, <3>2 DEF CleanupPending
    <3> QED BY <3>1, <3>3, <3>4 DEF WalkStep
  <2>7. EndStep
    BY <2>3 DEF EndStep, FinishesNone
  <2> QED BY <1>s, <2>3, <2>6, <2>7, CleanFrom
<1>2. CASE FinishCommit(s)
  <2>1. PICK f \in flow[s] :
           /\ f.op = "finish" /\ f.stage = "commit"
           /\ Finish(f.goal, s, f.token, f.revision, f.status, f.at)
           /\ flow' = [flow EXCEPT ![s] = {[f EXCEPT !.stage = "abort"]}]
    BY <1>2 DEF FinishCommit
  <2>2. /\ IsWalk(f) /\ f.goal \in Goals /\ f.status \in TerminalStatuses
        /\ f.revision \in Nat /\ f.revision <= revision[f.goal]
    BY <2>1 DEF CleanInv, StopInv, WalksFit, IsWalk, CommitFits
  <2>3. /\ revision[f.goal] = f.revision /\ rows' = rows
        /\ revision' = [revision EXCEPT ![f.goal] = @ + 1]
        /\ status' = [status EXCEPT ![f.goal] = f.status]
    BY <2>1 DEF Finish, Terminate
  <2>4. LiveIn(rows[f.goal]) = {}
    BY <2>1, <2>3 DEF CleanInv, CommitFits
  <2>5. LeaseInv'
    <3>1. Ending(f.goal, f.status)
      <4>1. f.status \notin {"active"}
        BY <2>2 DEF TerminalStatuses
      <4>2. calls' = calls /\ lease' = [lease EXCEPT ![f.goal] = NoLease] /\ IsActive(f.goal)
            /\ UNCHANGED <<generation, issued>>
        BY <2>1 DEF Finish, Terminate, MutableLease
      <4>3. f.status # "cancelled"
        BY <2>1, <2>2 DEF IsWalk
      <4> QED BY <2>3, <4>1, <4>2, <4>3 DEF Ending
    <3>2. StepClass
      BY <2>2, <3>1 DEF StepClass
    <3>3. RestType'
      <4>1. /\ tasks' = [tasks EXCEPT ![f.goal] = {}]
            /\ UNCHANGED <<now, seq, ever, rows, runs, obs, task>>
        BY <2>1 DEF Finish, Terminate
      <4>2. revision' \in [Goals -> Nat]
        BY <1>0, <2>2, <2>3
      <4>3. tasks' \in [Goals -> SUBSET Tasks]
        BY <1>0, <2>2, <4>1 DEF TypeOK
      <4> QED BY <1>0, <4>1, <4>2, <4>3 DEF RestType, TypeOK
    <3> QED BY <1>0, <3>2, <3>3, ClassedKeepsLease
  <2>6. RowsStep
    BY <1>0, <2>2, <2>3, RaisedRows
  <2>7. EndStep
    BY <1>0, <2>2, <2>3, <2>4 DEF EndStep, WalksFit
  <2>8. PICK h : h = [f EXCEPT !.stage = "abort"]
    OBVIOUS
  <2>9. h.goal = f.goal /\ h.revision = f.revision /\ h.stage = "abort"
    BY <2>2, <2>8 DEF IsWalk
  <2>10. WalkStep
    <3>1. \A z \in Sessions \ {s} : flow'[z] = flow[z]
      BY <1>0, <2>1
    <3>2. flow'[s] = {h}
      BY <1>0, <2>1, <2>8
    <3>3. h.revision \in Nat /\ h.revision <= revision'[h.goal]
      BY <1>0, <2>2, <2>3, <2>9
    <3> QED BY <2>9, <3>1, <3>2, <3>3 DEF WalkStep
  <2> QED BY <1>s, <2>5, <2>6, <2>7, <2>10, CleanFrom
<1>3. CASE FinishConflict(s)
  <2>1. UNCHANGED <<vars, host, mail>> /\ flow' = [flow EXCEPT ![s] = {}]
    BY <1>3 DEF FinishConflict
  <2>2. \A z \in Sessions : \A f \in flow'[z] : f \in flow[z]
    BY <1>0, <2>1
  <2> QED BY <2>1, <2>2, VarsStay, PlainKeepsClean
<1>4. CASE \E g \in Goals : \E tok, st : FinishValidate(s, g, tok, st)
  <2>0. PICK g \in Goals : \E tok, st : FinishValidate(s, g, tok, st)
    BY <1>4
  <2>1. PICK tok, st : FinishValidate(s, g, tok, st)
    BY <2>0
  <2>2. PICK h : h = [op |-> "finish", goal |-> g, token |-> tok, status |-> st,
                      revision |-> revision[g], at |-> now, stage |-> "mark"]
    OBVIOUS
  <2>3. UNCHANGED vars /\ flow' = [flow EXCEPT ![s] = {h}]
    BY <2>1, <2>2 DEF FinishValidate
  <2>4. h.goal = g /\ h.revision = revision[g] /\ h.stage = "mark"
    BY <2>2
  <2>5. WalkStep
    <3>1. \A z \in Sessions \ {s} : flow'[z] = flow[z]
      BY <1>0, <2>3
    <3>2. flow'[s] = {h} /\ revision' = revision
      BY <1>0, <2>3 DEF vars
    <3>3. h.revision \in Nat /\ h.revision <= revision'[h.goal]
      BY <1>0, <2>4, <3>2
    <3> QED BY <2>4, <3>1, <3>2, <3>3 DEF WalkStep
  <2>6. EndStep
    BY <2>3 DEF EndStep, vars
  <2> QED BY <1>s, <2>3, <2>5, <2>6, VarsStay, CleanFrom
<1> QED BY <1>1, <1>2, <1>3, <1>4

\* The walk of a cancellation, and the abort of either walk.
LEMMA CancelKeepsClean ==
    ASSUME CleanInv, StopInv', NEW s \in Sessions,
           CancelMark(s) \/ Abort(s) \/ \E g \in Goals : CancelCommit(s, g)
    PROVE  CleanInv'
<1> USE DEF Go, Return
<1>0. /\ TypeOK /\ LeaseInv /\ RowsFit /\ WalksFit
      /\ flow = [z \in Sessions |-> flow[z]] /\ revision \in [Goals -> Nat]
  BY DEF CleanInv, LeaseInv, StopInv, WalksFit, TypeOK
<1>1. CASE CancelMark(s)
  <2>1. PICK f \in flow[s] : Mark(f.goal, f.at) /\ flow' = [flow EXCEPT ![s] = {}] /\ UNCHANGED <<host, mail>>
    BY <1>1 DEF CancelMark
  <2>2. f.goal \in Goals
    BY <1>0 DEF WalksFit, IsWalk
  <2>3. LeaseInv' /\ RowsStep /\ FinishesNone
    <3>1. CASE MarkFinished(f.goal, f.at)
      <4>1. RowsStep /\ RestType'
        BY <1>0, <2>2, <3>1, CancelRows
      <4>2. StepClass
        BY <3>1, UpdateRowIsIdle DEF MarkFinished, StepClass
      <4>3. FinishesNone
        BY <1>0, <3>1 DEF MarkFinished, UpdateRow, FinishesNone, WalksFit
      <4> QED BY <1>0, <4>1, <4>2, <4>3, ClassedKeepsLease
    <3>2. CASE UNCHANGED vars
      BY <3>2, VarsStay
    <3> QED BY <2>1, <3>1, <3>2 DEF Mark
  <2>4. \A z \in Sessions : \A h \in flow'[z] : h \in flow[z]
    BY <1>0, <2>1
  <2> QED BY <2>1, <2>3, <2>4, PlainKeepsClean
<1>2. CASE Abort(s)
  <2>1. PICK f \in flow[s] : /\ UNCHANGED <<vars, host, mail>>
                             /\ flow' = [flow EXCEPT ![s] = IF f.op = "finish" THEN {}
                                                            ELSE {[f EXCEPT !.stage = "mark"]}]
    BY <1>2 DEF Abort
  <2>2. PICK h : h = [f EXCEPT !.stage = "mark"]
    OBVIOUS
  <2>3. h.op = f.op
    BY <1>0, <2>2 DEF WalksFit, IsWalk
  <2>4. \A z \in Sessions : \A x \in flow'[z] : x \in flow[z] \/ x.op # "finish"
    BY <1>0, <2>1, <2>2, <2>3
  <2> QED BY <2>1, <2>4, VarsStay, PlainKeepsClean
<1>3. CASE \E g \in Goals : CancelCommit(s, g)
  <2>1. PICK g \in Goals : CancelCommit(s, g)
    BY <1>3
  <2>2. /\ Cancel(g) \/ CancelAgain(g)
        /\ UNCHANGED <<host, mail>>
    BY <2>1 DEF CancelCommit
  <2>3. LeaseInv'
    BY <1>0, <2>2, LeaseInvStep DEF Next, OwnerStep
  <2>4. RowsStep
    <3>1. rows' = rows /\ (revision' = revision \/ revision' = [revision EXCEPT ![g] = @ + 1])
      BY <2>2 DEF Cancel, CancelAgain, Terminate
    <3> QED BY <1>0, <3>1, SameRows, RaisedRows
  <2>5. FinishesNone
    BY <1>0, <2>2 DEF Cancel, CancelAgain, Terminate, FinishesNone, Finished, WalksFit
  <2>6. PICK h : h = [op |-> "cancel", goal |-> g, token |-> 0, status |-> "cancelled",
                      revision |-> revision[g], at |-> now, stage |-> "abort"]
    OBVIOUS
  <2>7. flow' = [flow EXCEPT ![s] = {h}] /\ h.op # "finish"
    BY <2>1, <2>6 DEF CancelCommit
  <2>8. \A z \in Sessions : \A x \in flow'[z] : x \in flow[z] \/ x.op # "finish"
    BY <1>0, <2>7
  <2> QED BY <2>2, <2>3, <2>4, <2>5, <2>8, PlainKeepsClean
<1> QED BY <1>1, <1>2, <1>3

\* Requests come and go, and the process crashes: no row changes.
LEMMA RequestsKeepClean ==
    ASSUME CleanInv, StopInv',
           \/ \E c \in Calls, g \in Goals, s \in Sessions : \E tok \in TokensOf(s, g) :
                 Admit(c, g, s, tok) \/ AdmitUnfenced(c, g, s, tok)
           \/ \E r \in reqs : Register(r) \/ Settle(r)
           \/ Crash
    PROVE  CleanInv'
<1>0. /\ TypeOK /\ LeaseInv /\ RowsFit /\ WalksFit
  BY DEF CleanInv, LeaseInv, StopInv, WalksFit
<1>1. CASE UNCHANGED <<vars, flow, host, mail>>
  BY <1>1, VarsStay, PlainKeepsClean
<1>2. ASSUME NEW c \in Calls, NEW g \in Goals, NEW s \in Sessions, NEW tok \in TokensOf(s, g),
             Admit(c, g, s, tok) PROVE CleanInv'
  <2>1. BeginCall(c, g, s, tok) /\ UNCHANGED <<flow, host, mail>>
    BY <1>2 DEF Admit
  <2>2. LeaseInv'
    BY <1>0, <2>1, LeaseInvStep DEF Next, WorkerStep
  <2>3. rows' = rows /\ revision' = revision /\ status' = status
    BY <2>1 DEF BeginCall
  <2>4. RowsStep /\ FinishesNone
    BY <1>0, <2>3, SameRows DEF FinishesNone, WalksFit
  <2> QED BY <2>1, <2>2, <2>4, PlainKeepsClean
<1>3. ASSUME NEW r \in reqs, Settle(r) PROVE CleanInv'
  <2>1. StepClass /\ RestType'
    BY <1>0, <1>3 DEF Settle, StepClass, Idle, LeadVars, RestType, TypeOK
  <2>2. RowsStep /\ FinishesNone /\ UNCHANGED <<flow, host, mail>>
    BY <1>0, <1>3, SameRows DEF Settle, FinishesNone, WalksFit
  <2> QED BY <1>0, <2>1, <2>2, ClassedKeepsLease, PlainKeepsClean
<1>4. CASE Crash
  <2>1. StepClass
    BY <1>4 DEF Crash, StepClass, Idle, LeadVars
  <2>2. RestType'
    BY <1>0, <1>4 DEF Crash, RestType, TypeOK
  <2>3. RowsStep /\ FinishesNone /\ UNCHANGED <<host, mail>>
    BY <1>0, <1>4, SameRows DEF Crash, FinishesNone, WalksFit
  <2>4. \A s \in Sessions : flow'[s] = {}
    BY <1>4 DEF Crash
  <2> QED BY <1>0, <2>1, <2>2, <2>3, <2>4, ClassedKeepsLease, PlainKeepsClean
<1> QED BY <1>1, <1>2, <1>3, <1>4 DEF AdmitUnfenced, Register

\* The native task host and its receipts.
LEMMA HostKeepsClean ==
    ASSUME CleanInv, StopInv', HostStep
    PROVE  CleanInv'
<1>0. /\ TypeOK /\ LeaseInv /\ RowsFit /\ WalksFit /\ MailFits /\ HostFits
  BY DEF CleanInv, LeaseInv, StopInv, WalksFit
<1>1. ASSUME NEW g \in Goals, NEW k \in DOMAIN rows[g], HostCreate(g, k) \/ HostStop(g, k)
      PROVE  CleanInv'
  <2>1. k \in 1..MaxRows
    <3>1. DOMAIN rows[g] = 1..Len(rows[g]) /\ Len(rows[g]) \in Nat /\ Len(rows[g]) <= MaxRows
      BY <1>0 DEF TypeOK, RowsFit
    <3> QED BY <3>1, BoundsAssumption
  <2>2. PICK to \in {"runnable", "stopped"}, out \in {"created", "cancelled"} :
           /\ host' = [host EXCEPT ![g][k] = to] /\ host[g][k] # "stopped"
           /\ out = "cancelled" => to = "stopped"
           /\ mail' = mail \cup {[goal |-> g, row |-> k, version |-> rows[g][k].version, outcome |-> out]}
           /\ UNCHANGED <<vars, flow>>
    BY <1>1 DEF HostCreate, HostStop
  <2>3. host'[g][k] = to
    BY <1>0, <2>1, <2>2 DEF HostFits
  <2>4. StoppedStays
    BY <1>0, <2>1, <2>2 DEF HostFits, StoppedStays
  <2>5. MailStep
    BY <2>2, <2>3 DEF MailStep
  <2>6. EndStep /\ WalkStep
    BY <2>2 DEF EndStep, WalkStep, vars
  <2> QED BY <2>2, <2>4, <2>5, <2>6, VarsStay, CleanFrom
<1>2. ASSUME NEW m \in mail, Deliver(m) PROVE CleanInv'
  <2>1. RowsStep /\ LeaseInv'
    BY <1>0, <1>2, DeliverRows, ClassedKeepsLease
  <2>2. UNCHANGED <<flow, host, mail, status>>
    BY <1>2 DEF Deliver, ReceiveCreated, ReceiveCancelled, UpdateRow, serviceVars
  <2>3. FinishesNone
    BY <1>0, <2>2 DEF FinishesNone, WalksFit
  <2> QED BY <2>1, <2>2, <2>3, PlainKeepsClean
<1>3. ASSUME NEW g \in Goals, NEW k \in DOMAIN rows[g], NEW s \in Sessions, Wake(s, g, k)
      PROVE  CleanInv'
  <2>1. WakeStep(s, g, k) /\ UNCHANGED <<flow, host, mail>>
    BY <1>3 DEF Wake, serviceVars
  <2>2. LeaseInv'
    BY <1>0, <2>1, LeaseInvStep DEF Next
  <2>3. RowsStep /\ FinishesNone
    BY <1>0, <2>1, WakeRows, WakeFinishesNone
  <2> QED BY <2>1, <2>2, <2>3, PlainKeepsClean
<1> QED BY <1>1, <1>2, <1>3 DEF HostStep

LEMMA CleanInvStep ==
    ASSUME WatchdogsOnly, CleanInv, [ServiceNext]_allVars
    PROVE  CleanInv'
<1>1. StopInv'
  BY StopInvStep DEF CleanInv
<1>2. CASE UNCHANGED allVars
  BY <1>1, <1>2, VarsStay, PlainKeepsClean DEF allVars, serviceVars
<1>3. CASE RepositoryStep
  BY <1>1, <1>3, RepositoryKeepsClean
<1>4. CASE ServiceStep
  BY <1>1, <1>4, FinishKeepsClean, CancelKeepsClean, RequestsKeepClean DEF ServiceStep
<1>5. CASE HostStep \/ Crash
  BY <1>1, <1>5, HostKeepsClean, RequestsKeepClean
<1> QED BY <1>2, <1>3, <1>4, <1>5 DEF ServiceNext

\* If callers prepare watchdogs only (one-time wakes are the legacy form), a
\* goal that finish_goal ended has no runnable native task the repository knows
\* of, whatever receipts, wakes, cancellations, second finishes and crashes come
\* between the marking of the row and the terminal transition.
THEOREM FinishedAlwaysClean ==
    ASSUME PrepareOccurrences \subseteq {"interval"}
    PROVE  ServiceSpec => []FinishedIsCleanedUp
<1>0. WatchdogsOnly
  BY DEF WatchdogsOnly
<1>1. ServiceInit => CleanInv
  <2> SUFFICES ASSUME ServiceInit PROVE CleanInv
    OBVIOUS
  <2>1. LeaseInv
    BY LeaseInvInit DEF ServiceInit
  <2>2. StopInv
    BY DEF ServiceInit, Init, StopInv, WalksFit
  <2>3. RowsFit /\ MailFits /\ HostFits
    BY BoundsAssumption DEF ServiceInit, Init, RowsFit, MailFits, HostFits
  <2>4. EndedFits /\ CommitFits
    BY DEF ServiceInit, Init, EndedFits, CommitFits, Finished
  <2> QED BY <2>1, <2>2, <2>3, <2>4 DEF CleanInv
<1>2. CleanInv /\ [ServiceNext]_allVars => CleanInv'
  BY <1>0, CleanInvStep
<1>3. CleanInv => FinishedIsCleanedUp
  <2> SUFFICES ASSUME CleanInv, NEW g \in Goals, status[g] \in Finished,
                      NEW k \in DOMAIN rows[g], rows[g][k].native
               PROVE  host[g][k] # "runnable"
    BY DEF FinishedIsCleanedUp, Finished
  <2>1. rows[g][k].status \notin LiveStatuses
    BY DEF CleanInv, EndedFits, LiveIn
  <2>2. RowFits(rows[g][k], host[g][k])
    BY DEF CleanInv, RowsFit
  <2> QED BY <2>1, <2>2 DEF RowFits, LiveStatuses, FenceStatuses
<1> QED BY <1>1, <1>2, <1>3, PTL DEF ServiceSpec
=============================================================================
