-------------------------- MODULE GoalTypes_proofs ---------------------------
(***************************************************************************)
(* Every step of GoalRepository belongs to one of four classes, by what it *)
(* does to the goal status, the lease columns and the fence table: idle,   *)
(* renewal, ending, hand-over; from that, type correctness for every value *)
(* of the constants.  The theorems of GoalRepository_proofs are proved     *)
(* class by class too, not action by action.                               *)
(***************************************************************************)
EXTENDS GoalRepository, SequenceTheorems, TLAPS

-----------------------------------------------------------------------------
(* The four classes of steps. *)

\* The goal rows, the lease columns and the ledger of tokens.
LeadVars == <<status, lease, generation, issued>>

\* Nothing but calls ending.
Idle ==
    /\ UNCHANGED LeadVars
    /\ calls' \subseteq calls

\* The holder of g renews its lease, perhaps with a call of its generation.
SameCalls == calls' = calls
AdmitsCall(g) ==
    \E c \in Calls :
        /\ \A x \in calls : x.id # c
        /\ calls' = calls \cup {[id |-> c, goal |-> g, generation |-> generation[g],
                                 expires |-> now + CallLease]}
RenewsCall(g) ==
    \E c \in calls :
        /\ c.goal = g /\ c.generation = generation[g]
        /\ calls' = (calls \ {c}) \cup {[c EXCEPT !.expires = now + CallLease]}

Renewal(g) ==
    /\ UNCHANGED <<status, generation, issued>>
    /\ IsActive(g)
    /\ lease[g].token # 0
    /\ \E h \in Nat \ {0}, e \in Nat :
          lease' = [lease EXCEPT ![g] = [lease[g] EXCEPT !.heartbeat = h, !.expires = e]]
    /\ SameCalls \/ AdmitsCall(g) \/ RenewsCall(g)

\* The lease is released, or the goal ends; a cancellation closes its calls.
Ending(g, st) ==
    /\ UNCHANGED <<generation, issued>>
    /\ IsActive(g)
    /\ status' = [status EXCEPT ![g] = st]
    /\ lease' = [lease EXCEPT ![g] = NoLease]
    /\ calls' \subseteq calls
    /\ st = "active" => calls' = calls
    /\ st = "cancelled" => \A c \in calls' : c.goal # g

\* Session s takes over g under a new token and the next generation.
HandOver(g, s) ==
    /\ status[g] \in {"absent", "active", "blocked"}
    /\ status' = [status EXCEPT ![g] = "active"]
    /\ generation' = [generation EXCEPT ![g] = @ + 1]
    /\ issued' = [issued EXCEPT ![g] =
                    Append(@, [session |-> s, generation |-> generation[g] + 1, at |-> now])]
    /\ \E term \in Nat \ {0}, e \in Nat :
          lease' = [lease EXCEPT ![g] = [session |-> s, token |-> Len(issued[g]) + 1,
                                         term |-> term, heartbeat |-> now, expires |-> e]]
    /\ calls' = calls

StepClass ==
    \/ Idle
    \/ \E g \in Goals : Renewal(g)
    \/ \E g \in Goals : \E st \in TerminalStatuses \cup {"active"} : Ending(g, st)
    \/ \E g \in Goals, s \in Sessions : HandOver(g, s)

-----------------------------------------------------------------------------
(* Facts about the small operators. *)

USE SetsAssumption, TimesAssumption, BoundsAssumption

\* The smaller of two numbers, and a cap, are numbers (minIso).
LEMMA MinNat == ASSUME NEW a \in Nat, NEW b \in Nat PROVE Min2(a, b) \in Nat
  BY DEF Min2

\* The larger of two numbers is a number.
LEMMA MaxNat == ASSUME NEW a \in Nat, NEW b \in Nat PROVE Max2(a, b) \in Nat
  BY DEF Max2

\* A natural lease expiry capped by a deadline is a number.
LEMMA CappedNat == ASSUME NEW a \in Nat, NEW b \in Nat PROVE Capped(a, b) \in Nat
  BY DEF Capped, Min2

\* A granted lease makes the step a hand-over (acquire, claim, recoverBlocked).
LEMMA GrantHandsOver ==
  ASSUME TypeOK, NEW g \in Goals, NEW s \in Sessions, NEW term \in LeaseTerms,
         NEW e \in Nat, Grant(g, s, term, e),
         status[g] \in {"absent", "active", "blocked"},
         status' = [status EXCEPT ![g] = "active"], calls' = calls
  PROVE  HandOver(g, s)
  BY DEF HandOver, Grant, NextGeneration, TypeOK

\* The tokens of a session are numbered from 1.
LEMMA TokensPositive ==
  ASSUME TypeOK, NEW g \in Goals, NEW s, NEW tok \in TokensOf(s, g)
  PROVE  tok \in Nat \ {0}
  BY DEF TokensOf, TypeOK

\* Each lease column has its type.
LEMMA LeaseFields ==
  ASSUME TypeOK, NEW g \in Goals
  PROVE  /\ lease[g] \in Lease
         /\ lease[g].token \in Nat /\ lease[g].term \in Nat
         /\ lease[g].heartbeat \in Nat /\ lease[g].expires \in Nat
         /\ now \in Nat \ {0}
  BY DEF TypeOK, Lease

\* A renewal writes a time as the lease expiry.
LEMMA RenewalNat ==
  ASSUME TypeOK, NEW g \in Goals, NEW limit \in Nat
  PROVE  now + lease[g].term \in Nat /\ Capped(now + lease[g].term, limit) \in Nat
<1>1. now + lease[g].term \in Nat
  BY LeaseFields
<1> QED BY <1>1, CappedNat

\* Each field of a stored row has its type.
LEMMA RowFields ==
  ASSUME TypeOK, NEW g \in Goals, NEW k \in DOMAIN rows[g]
  PROVE  /\ rows[g][k] \in Row
         /\ rows[g][k].due \in Nat /\ rows[g][k].pending \in Nat
         /\ rows[g][k].retimes \in Nat
         /\ EffectiveDue(rows[g][k]) \in Nat
         /\ FenceDue(rows[g][k]) \in Nat
<1>1. rows[g] \in Seq(Row)
  BY DEF TypeOK
<1>2. rows[g][k] \in Row
  BY <1>1
<1>3. rows[g][k].due \in Nat /\ rows[g][k].pending \in Nat /\ rows[g][k].retimes \in Nat
  BY <1>2 DEF Row
<1> QED
  BY <1>2, <1>3 DEF EffectiveDue, FenceDue

\* A checkpoint writes a time as the lease expiry.
LEMMA CheckpointExpiryNat ==
  ASSUME TypeOK, NEW g \in Goals, NEW n \in Nat
  PROVE  CheckpointExpiry(g, n) \in Nat
<1> DEFINE K == CHOOSE k \in LiveIn(rows[g]) : IsLatestLive(g, k)
<1>1. CASE \E k \in LiveIn(rows[g]) : IsLatestLive(g, k) /\ rows[g][k].occ = "once"
  <2>1. K \in LiveIn(rows[g])
    BY <1>1
  <2>2. K \in DOMAIN rows[g]
    BY <2>1 DEF LiveIn
  <2>3. EffectiveDue(rows[g][K]) \in Nat
    BY <2>2, RowFields
  <2>4. CheckpointExpiry(g, n) = Min2(n, EffectiveDue(rows[g][K]))
    BY <1>1 DEF CheckpointExpiry
  <2> QED BY <2>3, <2>4, MinNat
<1>2. CASE ~\E k \in LiveIn(rows[g]) : IsLatestLive(g, k) /\ rows[g][k].occ = "once"
  BY <1>2 DEF CheckpointExpiry
<1> QED BY <1>1, <1>2

\* Every prepare renews the lease of the worker that asked (prepareScheduledContinuation).
LEMMA PrepareGoalRenews ==
  ASSUME TypeOK, NEW g \in Goals, NEW T, NEW limit \in Nat, NEW s, NEW tok \in Nat \ {0},
         MutableLease(g, s, tok, now), PrepareGoal(g, T, limit)
  PROVE  Renewal(g)
<1>1. Capped(now + lease[g].term, limit) \in Nat
  BY RenewalNat
<1>2. lease[g].token # 0 /\ IsActive(g)
  BY DEF MutableLease
<1> QED
  BY <1>1, <1>2, LeaseFields DEF PrepareGoal, Renewal, Renewed, SameCalls

\* A transaction that writes one row only leaves the lease alone.
LEMMA UpdateRowIsIdle ==
  ASSUME NEW g, NEW k, NEW r, UpdateRow(g, k, r)
  PROVE  Idle
  BY DEF UpdateRow, Idle, LeadVars

-----------------------------------------------------------------------------
(* Rows keep their type. *)

RowStatuses == LiveStatuses \cup HistoricalStatuses

\* A row that changes its status is still a row, one version on.
LEMMA MovedType ==
  ASSUME NEW r \in Row, NEW st \in RowStatuses
  PROVE  Moved(r, st) \in Row
<1>1. PICK n \in Nat : n = r.version + 1
  BY DEF Row
<1>2. PICK p : p = [r EXCEPT !.status = st]
  OBVIOUS
<1>3. p \in Row
  BY <1>2 DEF Row, RowStatuses
<1>4. Moved(r, st) = [p EXCEPT !.version = n]
  BY <1>1, <1>2 DEF Moved, Row
<1>5. [p EXCEPT !.version = n] \in Row
  BY <1>3 DEF Row
<1> QED
  BY <1>4, <1>5

\* A prepared row is a row.
LEMMA NewRowType ==
  ASSUME NEW occ \in {"once", "interval"}, NEW due \in Nat, NEW pred \in Nat
  PROVE  NewRow(occ, due, pred) \in Row
  BY DEF NewRow, Row, LiveStatuses, FenceStatuses, NoProbe, Probe

\* Replacing one row of a goal keeps the others.
LEMMA RowSet ==
  ASSUME NEW rs \in Seq(Row), NEW k \in DOMAIN rs, NEW r \in Row
  PROVE  /\ [rs EXCEPT ![k] = r] \in Seq(Row)
         /\ DOMAIN [rs EXCEPT ![k] = r] = DOMAIN rs
  BY SMTT(20)

\* The successor is reserved at the next generation (prepareFreshClaimSuccessor).
LEMMA ReservedType ==
  ASSUME NEW rs \in Seq(Row), NEW k \in DOMAIN rs, NEW due \in Nat, CanReserve(rs, k)
  PROVE  /\ Reserved(rs, k, due) \in Seq(Row)
         /\ k + 1 \in DOMAIN Reserved(rs, k, due)
         /\ SuccessorDue(rs, k, due) \in Nat
<1> k \in Nat /\ k <= Len(rs)
  OBVIOUS
<1>1. Reserved(rs, k, due) \in Seq(Row) /\ k + 1 \in DOMAIN Reserved(rs, k, due)
  <2>1. CASE SuccessorIn(rs, k) = {}
    <3>1. k = Len(rs)
      BY <2>1 DEF CanReserve
    <3>2. NewRow("once", due, k) \in Row
      BY NewRowType
    <3> QED BY <2>1, <3>1, <3>2 DEF Reserved
  <2>2. CASE SuccessorIn(rs, k) # {}
    <3>1. SuccessorIn(rs, k) = {k + 1}
      BY <2>2 DEF CanReserve
    <3>2. k + 1 \in DOMAIN rs
      BY <3>1 DEF SuccessorIn
    <3>3. "prepared" \in RowStatuses
      BY DEF RowStatuses, LiveStatuses, FenceStatuses
    <3>4. Moved(rs[k + 1], "prepared") \in Row
      BY <3>2, <3>3, MovedType
    <3>5. [Moved(rs[k + 1], "prepared") EXCEPT !.due = due] \in Row
      BY <3>4 DEF Row
    <3> QED BY <2>2, <3>2, <3>5, RowSet DEF Reserved
  <2> QED BY <2>1, <2>2
<1>2. Reserved(rs, k, due)[k + 1] \in Row
  BY <1>1
<1> QED
  BY <1>1, <1>2 DEF SuccessorDue, Row

-----------------------------------------------------------------------------
(* Every step belongs to a class. *)

\* The worker's transactions renew its lease, release it, or end the goal.
LEMMA WorkerStepClass ==
  ASSUME TypeOK, NEW g \in Goals, NEW s \in Sessions, WorkerStep(s, g)
  PROVE  StepClass
<1> PICK tok \in TokensOf(s, g) :
        \/ \E T \in SUBSET Started, release \in BOOLEAN : Checkpoint(g, s, tok, T, release)
        \/ \E st \in TerminalStatuses \ {"cancelled"} : Finish(g, s, tok, revision[g], st, now)
        \/ \E T \in SUBSET Started, occ \in PrepareOccurrences, d \in FirstDelays :
                Prepare(g, s, tok, T, occ, d) \/ Refresh(g, s, tok, T, occ, d)
        \/ \E k \in DOMAIN rows[g], lead \in ExpediteLeads : Expedite(g, k, s, tok, lead)
        \/ \E c \in Calls : BeginCall(c, g, s, tok)
  BY DEF WorkerStep
<1> tok \in Nat \ {0}
  BY TokensPositive
<1>1. CASE \E T \in SUBSET Started, release \in BOOLEAN : Checkpoint(g, s, tok, T, release)
  <2> PICK T \in SUBSET Started, release \in BOOLEAN : Checkpoint(g, s, tok, T, release)
    BY <1>1
  <2> lease[g].token # 0 /\ IsActive(g)
    BY DEF Checkpoint, MutableLease
  <2> CheckpointExpiry(g, now + lease[g].term) \in Nat
    BY LeaseFields, CheckpointExpiryNat
  <2>1. CASE release
    <3>1. Ending(g, "active")
      BY <2>1 DEF Checkpoint, Ending, TypeOK, IsActive
    <3> QED BY <3>1 DEF StepClass
  <2>2. CASE ~release
    <3>1. Renewal(g)
      BY <2>2, LeaseFields DEF Checkpoint, Renewal, Renewed, SameCalls
    <3> QED BY <3>1 DEF StepClass
  <2> QED BY <2>1, <2>2
<1>2. CASE \E st \in TerminalStatuses \ {"cancelled"} : Finish(g, s, tok, revision[g], st, now)
  <2> PICK st \in TerminalStatuses \ {"cancelled"} : Finish(g, s, tok, revision[g], st, now)
    BY <1>2
  <2>1. Ending(g, st)
    BY DEF Finish, MutableLease, Terminate, Ending
  <2> QED BY <2>1 DEF StepClass
<1>3. CASE \E T \in SUBSET Started, occ \in PrepareOccurrences, d \in FirstDelays :
              Prepare(g, s, tok, T, occ, d) \/ Refresh(g, s, tok, T, occ, d)
  <2> PICK T \in SUBSET Started, occ \in PrepareOccurrences, d \in FirstDelays :
              Prepare(g, s, tok, T, occ, d) \/ Refresh(g, s, tok, T, occ, d)
    BY <1>3
  <2> now + d \in Nat
    BY LeaseFields
  <2>1. CASE Prepare(g, s, tok, T, occ, d)
    <3>1. MutableLease(g, s, tok, now)
      BY <2>1 DEF Prepare
    <3>2. PrepareGoal(g, T, IF occ = "once" THEN now + d ELSE 0)
      BY <2>1 DEF Prepare
    <3>3. Renewal(g)
      BY <3>1, <3>2, PrepareGoalRenews
    <3> QED BY <3>3 DEF StepClass
  <2>2. CASE Refresh(g, s, tok, T, occ, d)
    <3> DEFINE Limit(r) == IF r.occ = "interval" THEN 0
                           ELSE IF Retimes(r, occ, now + d) THEN now + d ELSE EffectiveDue(r)
    <3>1. PICK k \in DOMAIN rows[g] : /\ MutableLease(g, s, tok, now)
                                      /\ PrepareGoal(g, T, Limit(rows[g][k]))
      BY <2>2 DEF Refresh
    <3>2. Limit(rows[g][k]) \in Nat
      BY RowFields
    <3>3. Renewal(g)
      BY <3>1, <3>2, PrepareGoalRenews
    <3> QED BY <3>3 DEF StepClass
  <2> QED BY <2>1, <2>2
<1>4. CASE \E k \in DOMAIN rows[g], lead \in ExpediteLeads : Expedite(g, k, s, tok, lead)
  BY <1>4, UpdateRowIsIdle DEF Expedite, StepClass
<1>5. CASE \E c \in Calls : BeginCall(c, g, s, tok)
  <2> PICK c \in Calls : BeginCall(c, g, s, tok)
    BY <1>5
  <2>1. PICK k \in DOMAIN rows[g] :
          /\ IsActive(g) /\ lease[g].token = tok
          /\ \A x \in calls : x.id # c
          /\ calls' = calls \cup {[id |-> c, goal |-> g, generation |-> generation[g],
                                   expires |-> now + CallLease]}
          /\ lease' = Renewed(g, Capped(now + lease[g].term, FenceDue(rows[g][k])))
          /\ UNCHANGED <<status, generation, issued>>
    BY DEF BeginCall
  <2>2. Capped(now + lease[g].term, FenceDue(rows[g][k])) \in Nat
    BY RowFields, RenewalNat
  <2>3. AdmitsCall(g)
    BY <2>1 DEF AdmitsCall
  <2>4. Renewal(g)
    BY <2>1, <2>2, <2>3, LeaseFields DEF Renewal, Renewed
  <2> QED BY <2>4 DEF StepClass
<1> QED
  BY <1>1, <1>2, <1>3, <1>4, <1>5

\* An acquisition is a hand-over, of an active or a blocked goal.
LEMMA AcquireStepClass ==
  ASSUME TypeOK, NEW g \in Goals, NEW s \in Sessions, AcquireStep(s, g)
  PROVE  StepClass
<1> PICK term \in LeaseTerms : \/ Create(g, s, term)
                               \/ AcquireFree(g, s, term)
                               \/ AcquireStale(g, s, term)
                               \/ RecoverBlocked(g, s, term)
  BY DEF AcquireStep
<1> now + term \in Nat
  BY LeaseFields
<1>1. CASE Create(g, s, term)
  BY <1>1, GrantHandsOver DEF Create, StepClass
<1>2. CASE AcquireFree(g, s, term)
  <2>1. status' = [status EXCEPT ![g] = "active"]
    BY <1>2 DEF AcquireFree, IsActive, TypeOK
  <2> QED BY <1>2, <2>1, GrantHandsOver DEF AcquireFree, IsActive, StepClass
<1>3. CASE AcquireStale(g, s, term)
  <2>1. status' = [status EXCEPT ![g] = "active"]
    BY <1>3 DEF AcquireStale, IsActive, TypeOK
  <2> QED BY <1>3, <2>1, GrantHandsOver DEF AcquireStale, IsActive, StepClass
<1>4. CASE RecoverBlocked(g, s, term)
  BY <1>4, GrantHandsOver DEF RecoverBlocked, StepClass
<1> QED BY <1>1, <1>2, <1>3, <1>4

\* Cancelling ends the goal and closes its calls; the other owner transactions are idle.
LEMMA OwnerStepClass ==
  ASSUME TypeOK, NEW g \in Goals, OwnerStep(g)
  PROVE  StepClass
<1>1. CASE Cancel(g)
  <2>1. Ending(g, "cancelled")
    BY <1>1 DEF Cancel, Terminate, Ending, WithoutCallsOf
  <2> QED BY <2>1 DEF StepClass, TerminalStatuses
<1>2. CASE CancelAgain(g)
  BY <1>2 DEF CancelAgain, WithoutCallsOf, Idle, LeadVars, StepClass
<1>3. CASE SetIdlePolicy(g)
  BY <1>3 DEF SetIdlePolicy, Idle, LeadVars, StepClass
<1>4. CASE MarkFinished(g, now)
  BY <1>4, UpdateRowIsIdle DEF MarkFinished, StepClass
<1>5. CASE \E k \in DOMAIN rows[g] : CancelContinuation(g, k)
  BY <1>5, UpdateRowIsIdle DEF CancelContinuation, StepClass
<1> QED BY <1>1, <1>2, <1>3, <1>4, <1>5 DEF OwnerStep

\* A receipt writes one row only.
LEMMA ReceiptStepClass ==
  ASSUME NEW g, NEW k, ReceiptStep(g, k)
  PROVE  StepClass
<1>1. CASE ReceiveCreated(g, k)
  BY <1>1, UpdateRowIsIdle DEF ReceiveCreated, StepClass
<1>2. CASE \E m \in RunModes : ReceiveRescheduled(g, k, m)
  BY <1>2, UpdateRowIsIdle DEF ReceiveRescheduled, StepClass
<1>3. CASE \E m \in RunModes, out \in Outcomes : ReceiveRetimeUnsettled(g, k, out, m)
  BY <1>3, UpdateRowIsIdle DEF ReceiveRetimeUnsettled, StepClass
<1>4. CASE \E m \in RunModes : ReceiveConsumed(g, k, m)
  BY <1>4, UpdateRowIsIdle DEF ReceiveConsumed, StepClass
<1>5. CASE \E m \in RunModes : ReceiveCancelled(g, k, m)
  BY <1>5, UpdateRowIsIdle DEF ReceiveCancelled, StepClass
<1>6. CASE \E m \in RunModes, out \in Outcomes : ReceiveCancelUnsettled(g, k, out, m)
  BY <1>6, UpdateRowIsIdle DEF ReceiveCancelUnsettled, StepClass
<1>7. CASE \E m \in RunModes, out \in Outcomes, named \in BOOLEAN :
              ReceiveCreateUnsettled(g, k, out, named, m)
  BY <1>7, UpdateRowIsIdle DEF ReceiveCreateUnsettled, StepClass
<1> QED BY <1>1, <1>2, <1>3, <1>4, <1>5, <1>6, <1>7 DEF ReceiptStep

\* A wake that only cuts the holder's lease short renews it, or finds no holder.
LEMMA CutIsClassed ==
  ASSUME TypeOK, LeaseColumns, NEW g \in Goals, IsActive(g), NEW due \in Nat,
         lease' = CutAt(g, due), UNCHANGED <<status, generation, issued, calls>>
  PROVE  StepClass
<1>1. CASE lease[g].token = 0
  BY <1>1 DEF CutAt, Idle, LeadVars, StepClass
<1>2. CASE lease[g].token # 0
  <2> DEFINE h == lease[g].heartbeat
             e == Min2(lease[g].expires, due)
  <2>1. h \in Nat \ {0}
    BY <1>2, LeaseFields DEF LeaseColumns
  <2>2. e \in Nat
    BY LeaseFields, MinNat
  <2>3. lease' = [lease EXCEPT ![g] = [lease[g] EXCEPT !.heartbeat = h, !.expires = e]]
    <3>1. [lease[g] EXCEPT !.expires = e] = [lease[g] EXCEPT !.heartbeat = h, !.expires = e]
      BY LeaseFields DEF Lease
    <3>2. lease' = [lease EXCEPT ![g] = [lease[g] EXCEPT !.expires = e]]
      BY <1>2 DEF CutAt
    <3> HIDE DEF e, h
    <3> QED BY <3>1, <3>2
  <2>4. Renewal(g)
    <3> HIDE DEF e, h
    <3> QED BY <1>2, <2>1, <2>2, <2>3 DEF Renewal, SameCalls
  <2> QED BY <2>4 DEF StepClass
<1> QED BY <1>1, <1>2

\* The delays of reserved successors are numbers of minutes.
LEMMA ClaimDelayNat ==
  ASSUME TypeOK, NEW term \in LeaseTerms
  PROVE  now + ClaimDelay(term) \in Nat
<1>1. ClaimDelay(term) \in Nat
  BY DEF ClaimDelay, Min2, Max2
<1> QED BY <1>1 DEF TypeOK

\* A collision successor is due at a time (adaptiveCollisionSuccessorSeconds).
LEMMA CollisionDelayNat ==
  ASSUME TypeOK, NEW g \in Goals, NEW r, NEW probing \in BOOLEAN
  PROVE  now + CollisionDelay(g, r, probing) \in Nat
<1> DEFINE aligned == IF Held(g, now) THEN lease[g].expires - now + EarlyTolerance ELSE 0
           floor == IF probing THEN ProbeMin + EarlyTolerance ELSE aligned
           wait == Max2(Max2(CollisionMin, Backoff(r.retimes)), floor)
<1>1. Backoff(r.retimes) \in Nat
  BY DEF Backoff
<1>2. aligned \in Nat
  BY LeaseFields DEF Held
<1>3. floor \in Nat
  BY <1>2
<1>4. wait \in Nat
  <2> HIDE DEF floor
  <2> QED BY <1>1, <1>3, MaxNat
<1>5. CollisionDelay(g, r, probing) = Min2(CollisionMax, wait)
  BY DEF CollisionDelay
<1>6. CollisionDelay(g, r, probing) \in Nat
  <2> HIDE DEF wait
  <2> QED BY <1>4, <1>5, MinNat
<1> QED BY <1>6, LeaseFields

\* The row a claim or a collision retires still has the type of a row.
LEMMA RetiredRows ==
  ASSUME TypeOK, NEW g \in Goals, NEW k \in DOMAIN rows[g], NEW r \in Row
  PROVE  /\ WithRow(g, k, r) \in Seq(Row)
         /\ k \in DOMAIN WithRow(g, k, r)
  BY RowSet DEF WithRow, TypeOK

\* A claimed row is a row.
LEMMA ClaimedRow ==
  ASSUME NEW r \in Row
  PROVE  [Moved(r, "claimed") EXCEPT !.pending = 0, !.probe = NoProbe] \in Row
<1>1. Moved(r, "claimed") \in Row
  BY MovedType DEF RowStatuses, HistoricalStatuses
<1> QED BY <1>1 DEF Row, Probe, NoProbe

\* A superseded row is a row.
LEMMA CollidedRow ==
  ASSUME NEW r \in Row, NEW probe \in Probe
  PROVE  [Moved(r, "superseded") EXCEPT !.pending = 0, !.retimes = @ + 1, !.probe = probe] \in Row
<1> DEFINE q == Moved(r, "superseded")
<1>1. q \in Row
  BY MovedType DEF RowStatuses, HistoricalStatuses
<1> HIDE DEF q
<1>2. q.retimes + 1 \in Nat
  BY <1>1 DEF Row
<1>3. [q EXCEPT !.pending = 0, !.retimes = q.retimes + 1, !.probe = probe] \in Row
  BY <1>1, <1>2 DEF Row
<1> QED BY <1>3 DEF q

\* An orphan probe has its type.
LEMMA ProbeAtType ==
  ASSUME TypeOK, NEW g \in Goals, NEW at \in Nat
  PROVE  ProbeAt(g, at) \in Probe
  BY DEF ProbeAt, NoProbe, Probe, TypeOK

\* A collision cuts the lease of the holder, if there is one.
LEMMA CollideCuts ==
  ASSUME TypeOK, NEW g \in Goals, NEW k \in DOMAIN rows[g], NEW probe \in Probe,
         Collide(g, k, probe)
  PROVE  /\ IsActive(g)
         /\ \E due \in Nat : lease' = CutAt(g, due)
<1> DEFINE r == rows[g][k]
           rs == WithRow(g, k, [Moved(r, "superseded") EXCEPT !.pending = 0,
                                  !.retimes = @ + 1, !.probe = probe])
           due == now + CollisionDelay(g, r, probe.at # 0)
<1>1. rs \in Seq(Row) /\ k \in DOMAIN rs
  BY RowFields, CollidedRow, RetiredRows
<1>2. due \in Nat
  BY CollisionDelayNat
<1>3. CanReserve(rs, k) /\ IsActive(g)
  BY DEF Collide
<1>4. SuccessorDue(rs, k, due) \in Nat
  BY <1>1, <1>2, <1>3, ReservedType
<1>5. lease' = CutAt(g, SuccessorDue(rs, k, due))
  BY DEF Collide
<1> QED BY <1>3, <1>4, <1>5

\* A wake takes over, cuts the lease, or leaves it alone.
LEMMA WakeStepClass ==
  ASSUME TypeOK, LeaseColumns, NEW g \in Goals, NEW s \in Sessions,
         NEW k \in DOMAIN rows[g], WakeStep(s, g, k)
  PROVE  StepClass
<1>1. CASE ClaimUntimely(g, k)
  <2>1. NoProbe \in Probe /\ ProbeAt(g, rows[g][k].probe.at) \in Probe
    <3>1. rows[g][k].probe.at \in Nat
      BY RowFields DEF Row, Probe
    <3> QED BY <3>1, ProbeAtType DEF NoProbe, Probe
  <2>2. PICK probe \in Probe : Collide(g, k, probe)
    BY <1>1, <2>1 DEF ClaimUntimely
  <2>3. UNCHANGED <<status, generation, issued, calls>>
    BY <1>1 DEF ClaimUntimely
  <2> QED BY <2>2, <2>3, CollideCuts, CutIsClassed
<1>2. CASE ClaimTerminal(g, k)
  BY <1>2, UpdateRowIsIdle DEF ClaimTerminal, StepClass
<1>3. CASE ClaimRecurringCleanup(g, k)
  BY <1>3 DEF ClaimRecurringCleanup, Idle, LeadVars, StepClass
<1>4. CASE ClaimCollision(s, g, k)
  <2>1. PICK e \in obs[s] :
          Collide(g, k, ProbeAt(g, IF ~ConfirmedInactive(g, e) THEN 0
                                   ELSE IF Probed(g, rows[g][k]) THEN rows[g][k].probe.at ELSE now))
    BY <1>4 DEF ClaimCollision
  <2>2. PICK probe \in Probe : Collide(g, k, probe)
    <3>1. rows[g][k].probe.at \in Nat
      BY RowFields DEF Row, Probe
    <3> QED BY <2>1, <3>1, ProbeAtType, LeaseFields
  <2>3. UNCHANGED <<status, generation, issued, calls>>
    BY <1>4 DEF ClaimCollision
  <2> QED BY <2>2, <2>3, CollideCuts, CutIsClassed
<1>5. CASE ClaimRecurringBusy(s, g, k)
  BY <1>5 DEF ClaimRecurringBusy, Idle, LeadVars, StepClass
<1>6. CASE \E term \in LeaseTerms : ClaimTakeover(s, g, k, term)
  <2> PICK term \in LeaseTerms : ClaimTakeover(s, g, k, term)
    BY <1>6
  <2> DEFINE rs == WithRow(g, k, [Moved(rows[g][k], "claimed") EXCEPT !.pending = 0,
                                                                     !.probe = NoProbe])
             due == now + ClaimDelay(term)
             end == Min2(now + term, SuccessorDue(rs, k, due))
  <2>1. IsActive(g) /\ CanReserve(rs, k) /\ Grant(g, s, term, end) /\ UNCHANGED <<status, calls>>
    BY DEF ClaimTakeover
  <2>2. rs \in Seq(Row) /\ k \in DOMAIN rs
    BY RowFields, ClaimedRow, RetiredRows
  <2>3. SuccessorDue(rs, k, due) \in Nat
    BY <2>1, <2>2, ClaimDelayNat, ReservedType
  <2>4. end \in Nat
    <3>1. now + term \in Nat
      BY LeaseFields
    <3> HIDE DEF rs, due
    <3> QED BY <2>3, <3>1, MinNat
  <2>5. status' = [status EXCEPT ![g] = "active"]
    BY <2>1 DEF IsActive, TypeOK
  <2>6. HandOver(g, s)
    <3> HIDE DEF end
    <3> QED BY <2>1, <2>4, <2>5, GrantHandsOver DEF IsActive
  <2> QED BY <2>6 DEF StepClass
<1>7. CASE \E term \in LeaseTerms : ClaimRetired(g, k, term)
  <2> PICK term \in LeaseTerms : ClaimRetired(g, k, term)
    BY <1>7
  <2> DEFINE due == now + ClaimDelay(term)
  <2>1. /\ IsActive(g) /\ CanReserve(rows[g], k)
        /\ lease' = CutAt(g, SuccessorDue(rows[g], k, due))
        /\ UNCHANGED <<status, generation, issued, calls>>
    BY DEF ClaimRetired
  <2>2. SuccessorDue(rows[g], k, due) \in Nat
    BY <2>1, ClaimDelayNat, ReservedType DEF TypeOK
  <2> HIDE DEF due
  <2> QED BY <2>1, <2>2, CutIsClassed
<1>8. CASE \E term \in LeaseTerms : ClaimRecurringTakeover(s, g, k, term)
  <2> PICK term \in LeaseTerms : ClaimRecurringTakeover(s, g, k, term)
    BY <1>8
  <2>1. IsActive(g) /\ Grant(g, s, term, now + term) /\ UNCHANGED <<status, calls>>
    BY DEF ClaimRecurringTakeover, RecurringDue
  <2>2. status' = [status EXCEPT ![g] = "active"] /\ now + term \in Nat
    BY <2>1, LeaseFields DEF IsActive, TypeOK
  <2>3. HandOver(g, s)
    BY <2>1, <2>2, GrantHandsOver DEF IsActive
  <2> QED BY <2>3 DEF StepClass
<1> QED BY <1>1, <1>2, <1>3, <1>4, <1>5, <1>6, <1>7, <1>8 DEF WakeStep

\* Gathering evidence is idle; reconcile ends the goal and closes its calls.
LEMMA EvidenceStepClass ==
  ASSUME TypeOK, NEW s \in Sessions, EvidenceStep(s)
  PROVE  StepClass
<1>1. CASE \E g \in Goals : ReadGoal(s, g)
  BY <1>1 DEF ReadGoal, Idle, LeadVars, StepClass
<1>2. CASE \E g \in Goals : Reconcile(g, s)
  <2> PICK g \in Goals : Reconcile(g, s)
    BY <1>2
  <2>1. Ending(g, "cancelled")
    BY DEF Reconcile, Terminate, Ending, WithoutCallsOf
  <2> QED BY <2>1 DEF StepClass, TerminalStatuses
<1>3. CASE ObserveFence(s)
  BY <1>3 DEF ObserveFence, Idle, LeadVars, StepClass
<1>4. CASE \E doubt \in BOOLEAN : ReadTasks(s, doubt)
  BY <1>4 DEF ReadTasks, Idle, LeadVars, StepClass
<1>5. CASE DropEvidence(s)
  BY <1>5 DEF DropEvidence, Idle, LeadVars, StepClass
<1> QED BY <1>1, <1>2, <1>3, <1>4, <1>5 DEF EvidenceStep

\* A heartbeat renews a call of the current generation; the end of a call is idle.
LEMMA CallStepClass ==
  ASSUME TypeOK, LeaseColumns, CallStep
  PROVE  StepClass
<1>1. CASE \E c \in calls : EndCall(c)
  BY <1>1 DEF EndCall, Idle, LeadVars, StepClass
<1>2. CASE \E c \in calls : HeartbeatCall(c)
  <2> PICK c \in calls : HeartbeatCall(c)
    BY <1>2
  <2> PICK g \in Goals : c.goal = g
    BY DEF HeartbeatCall
  <2>1. PICK k \in DOMAIN rows[g] :
          /\ c.goal = g /\ IsActive(g) /\ c.generation = generation[g] /\ Held(g, now)
          /\ calls' = (calls \ {c}) \cup {[c EXCEPT !.expires = now + CallLease]}
          /\ lease' = Renewed(g, Capped(now + lease[g].term, FenceDue(rows[g][k])))
          /\ UNCHANGED <<status, generation, issued>>
    BY DEF HeartbeatCall, CallIsCurrent
  <2>2. Capped(now + lease[g].term, FenceDue(rows[g][k])) \in Nat
    BY RowFields, RenewalNat
  <2>3. lease[g].token # 0
    BY <2>1, LeaseFields DEF Held, LeaseColumns, NoLease
  <2>4. RenewsCall(g)
    BY <2>1 DEF RenewsCall
  <2>5. Renewal(g)
    BY <2>1, <2>2, <2>3, <2>4, LeaseFields DEF Renewal, Renewed
  <2> QED BY <2>5 DEF StepClass
<1> QED BY <1>1, <1>2 DEF CallStep

\* Every step is idle, or a renewal, an end, or a hand-over of one goal.
LEMMA NextClass ==
  ASSUME TypeOK, LeaseColumns, Next
  PROVE  StepClass
<1>1. CASE EnvStep
  BY <1>1 DEF EnvStep, Tick, TaskStep, Idle, LeadVars, StepClass
<1> QED
  BY <1>1, WorkerStepClass, AcquireStepClass, OwnerStepClass, ReceiptStepClass, WakeStepClass,
     EvidenceStepClass, CallStepClass DEF Next

-----------------------------------------------------------------------------
(* Type correctness. *)

\* The types of the columns the step classes speak of, and of the others.
LeadType ==
    /\ status \in [Goals -> GoalStatuses]
    /\ lease \in [Goals -> Lease]
    /\ generation \in [Goals -> Nat]
    /\ issued \in [Goals -> Seq(Token)]
    /\ calls \in SUBSET Call

RestType ==
    /\ now \in Nat \ {0}
    /\ revision \in [Goals -> Nat]
    /\ seq \in [Goals -> Nat]
    /\ tasks \in [Goals -> SUBSET Tasks]
    /\ ever \in [Goals -> SUBSET Tasks]
    /\ rows \in [Goals -> Seq(Row)]
    /\ runs \in [Goals -> SUBSET Run]
    /\ obs \in [Sessions -> SUBSET Evidence]
    /\ task \in [Tasks -> {"new", "running", "ended"}]

\* The classes preserve the types of the goal rows and the fence table.
LEMMA LeadTypeStep ==
  ASSUME TypeOK, StepClass
  PROVE  LeadType'
<1>1. CASE Idle
  BY <1>1 DEF Idle, LeadVars, LeadType, TypeOK
<1>2. CASE \E g \in Goals : Renewal(g)
  <2> PICK g \in Goals : Renewal(g)
    BY <1>2
  <2>1. PICK h \in Nat \ {0}, e \in Nat :
          lease' = [lease EXCEPT ![g] = [lease[g] EXCEPT !.heartbeat = h, !.expires = e]]
    BY DEF Renewal
  <2>2. [lease[g] EXCEPT !.heartbeat = h, !.expires = e] \in Lease
    BY LeaseFields DEF Lease
  <2>3. lease' \in [Goals -> Lease]
    BY <2>1, <2>2 DEF TypeOK
  <2>4. calls' \in SUBSET Call
    <3>0. now + CallLease \in Nat
      BY LeaseFields
    <3>1. CASE SameCalls
      BY <3>1 DEF SameCalls, TypeOK
    <3>2. CASE AdmitsCall(g)
      <4> PICK c \in Calls :
             calls' = calls \cup {[id |-> c, goal |-> g, generation |-> generation[g],
                                   expires |-> now + CallLease]}
        BY <3>2 DEF AdmitsCall
      <4> QED BY <3>0 DEF Call, TypeOK
    <3>3. CASE RenewsCall(g)
      <4> PICK c \in calls :
             calls' = (calls \ {c}) \cup {[c EXCEPT !.expires = now + CallLease]}
        BY <3>3 DEF RenewsCall
      <4>1. c \in Call
        BY DEF TypeOK
      <4>2. [c EXCEPT !.expires = now + CallLease] \in Call
        BY <3>0, <4>1 DEF Call
      <4> QED BY <4>2 DEF TypeOK
    <3> QED BY <3>1, <3>2, <3>3 DEF Renewal
  <2>5. UNCHANGED <<status, generation, issued>>
    BY DEF Renewal
  <2> QED BY <2>3, <2>4, <2>5 DEF LeadType, TypeOK
<1>3. CASE \E g \in Goals : \E st \in TerminalStatuses \cup {"active"} : Ending(g, st)
  <2> PICK g \in Goals, st \in TerminalStatuses \cup {"active"} : Ending(g, st)
    BY <1>3
  <2>1. NoLease \in Lease
    BY DEF NoLease, Lease
  <2>2. st \in GoalStatuses
    BY DEF TerminalStatuses, GoalStatuses
  <2> QED BY <2>1, <2>2 DEF Ending, LeadType, TypeOK
<1>4. CASE \E g \in Goals, s \in Sessions : HandOver(g, s)
  <2> PICK g \in Goals, s \in Sessions : HandOver(g, s)
    BY <1>4
  <2>1. PICK term \in Nat \ {0}, e \in Nat :
          lease' = [lease EXCEPT ![g] = [session |-> s, token |-> Len(issued[g]) + 1,
                                         term |-> term, heartbeat |-> now, expires |-> e]]
    BY DEF HandOver
  <2>2. lease' \in [Goals -> Lease]
    BY <2>1 DEF Lease, TypeOK
  <2>3. issued' \in [Goals -> Seq(Token)]
    <3>1. [session |-> s, generation |-> generation[g] + 1, at |-> now] \in Token
      BY DEF Token, TypeOK
    <3> QED BY <3>1 DEF HandOver, TypeOK
  <2>4. status' \in [Goals -> GoalStatuses] /\ generation' \in [Goals -> Nat] /\ calls' = calls
    BY DEF HandOver, TypeOK, GoalStatuses
  <2> QED BY <2>2, <2>3, <2>4 DEF LeadType, TypeOK
<1> QED BY <1>1, <1>2, <1>3, <1>4 DEF StepClass

\* Writing a typed row, or appending one, keeps the table typed.
LEMMA RowsSet ==
  ASSUME TypeOK, NEW g \in Goals, NEW rs \in Seq(Row)
  PROVE  [rows EXCEPT ![g] = rs] \in [Goals -> Seq(Row)]
  BY DEF TypeOK

\* A transaction that writes one typed row keeps the rest typed.
LEMMA UpdateRowRest ==
  ASSUME TypeOK, NEW g \in Goals, NEW k \in DOMAIN rows[g], NEW r \in Row, UpdateRow(g, k, r)
  PROVE  RestType'
<1>1. rows' \in [Goals -> Seq(Row)]
  BY RetiredRows, RowsSet DEF UpdateRow
<1> QED BY <1>1 DEF UpdateRow, RestType, TypeOK

\* An acquisition restarts the activity sequence.
LEMMA GrantSeq ==
  ASSUME TypeOK, NEW g \in Goals, NEW s, NEW term, NEW e, Grant(g, s, term, e)
  PROVE  seq' \in [Goals -> Nat]
  BY DEF Grant, TypeOK

\* Every prepare stores typed checkpoint data.
LEMMA PrepareGoalRest ==
  ASSUME TypeOK, NEW g \in Goals, NEW T \in SUBSET Started, NEW limit, PrepareGoal(g, T, limit),
         rows' \in [Goals -> Seq(Row)]
  PROVE  RestType'
<1>1. revision' \in [Goals -> Nat] /\ tasks' \in [Goals -> SUBSET Tasks]
  BY DEF PrepareGoal, TypeOK, Started
<1>2. ever' \in [Goals -> SUBSET Tasks]
  BY DEF PrepareGoal, TypeOK, Started
<1> QED
  BY <1>1, <1>2 DEF PrepareGoal, RestType, TypeOK

\* The worker's transactions keep the types of the remaining columns.
LEMMA WorkerStepRest ==
  ASSUME TypeOK, NEW g \in Goals, NEW s \in Sessions, WorkerStep(s, g)
  PROVE  RestType'
<1> PICK tok \in TokensOf(s, g) :
        \/ \E T \in SUBSET Started, release \in BOOLEAN : Checkpoint(g, s, tok, T, release)
        \/ \E st \in TerminalStatuses \ {"cancelled"} : Finish(g, s, tok, revision[g], st, now)
        \/ \E T \in SUBSET Started, occ \in PrepareOccurrences, d \in FirstDelays :
                Prepare(g, s, tok, T, occ, d) \/ Refresh(g, s, tok, T, occ, d)
        \/ \E k \in DOMAIN rows[g], lead \in ExpediteLeads : Expedite(g, k, s, tok, lead)
        \/ \E c \in Calls : BeginCall(c, g, s, tok)
  BY DEF WorkerStep
<1>1. CASE \E T \in SUBSET Started, release \in BOOLEAN : Checkpoint(g, s, tok, T, release)
  BY <1>1 DEF Checkpoint, RestType, TypeOK, Started
<1>2. CASE \E st \in TerminalStatuses \ {"cancelled"} : Finish(g, s, tok, revision[g], st, now)
  BY <1>2 DEF Finish, Terminate, RestType, TypeOK
<1>3. CASE \E T \in SUBSET Started, occ \in PrepareOccurrences, d \in FirstDelays :
              Prepare(g, s, tok, T, occ, d)
  <2> PICK T \in SUBSET Started, occ \in PrepareOccurrences, d \in FirstDelays :
              Prepare(g, s, tok, T, occ, d)
    BY <1>3
  <2>1. NewRow(occ, now + d, 0) \in Row
    <3>1. now + d \in Nat /\ occ \in {"once", "interval"}
      BY LeaseFields
    <3> QED BY <3>1, NewRowType
  <2>2. Append(rows[g], NewRow(occ, now + d, 0)) \in Seq(Row)
    BY <2>1 DEF TypeOK
  <2>3. rows' = [rows EXCEPT ![g] = Append(rows[g], NewRow(occ, now + d, 0))]
    BY DEF Prepare
  <2>4. rows' \in [Goals -> Seq(Row)]
    BY <2>2, <2>3, RowsSet
  <2> QED BY <2>4, PrepareGoalRest DEF Prepare
<1>4. CASE \E T \in SUBSET Started, occ \in PrepareOccurrences, d \in FirstDelays :
              Refresh(g, s, tok, T, occ, d)
  <2> PICK T \in SUBSET Started, occ \in PrepareOccurrences, d \in FirstDelays :
              Refresh(g, s, tok, T, occ, d)
    BY <1>4
  <2> DEFINE Late(k) == [Moved(rows[g][k], "reschedule_required") EXCEPT !.pending = now + d]
  <2>1. PICK k \in DOMAIN rows[g] :
          /\ \E limit : PrepareGoal(g, T, limit)
          /\ rows' = rows \/ rows' = [rows EXCEPT ![g] = WithRow(g, k, Late(k))]
    BY DEF Refresh
  <2>2. Late(k) \in Row
    <3>1. Moved(rows[g][k], "reschedule_required") \in Row
      BY RowFields, MovedType DEF RowStatuses, LiveStatuses, FenceStatuses, RetimeStatuses
    <3>2. now + d \in Nat
      BY LeaseFields
    <3> QED BY <3>1, <3>2 DEF Row
  <2>3. rows' \in [Goals -> Seq(Row)]
    <3> HIDE DEF Late
    <3>1. [rows EXCEPT ![g] = WithRow(g, k, Late(k))] \in [Goals -> Seq(Row)]
      BY <2>2, RetiredRows, RowsSet
    <3> QED BY <2>1, <3>1 DEF TypeOK
  <2> QED BY <2>1, <2>3, PrepareGoalRest
<1>5. CASE \E k \in DOMAIN rows[g], lead \in ExpediteLeads : Expedite(g, k, s, tok, lead)
  <2> PICK k \in DOMAIN rows[g], lead \in ExpediteLeads : Expedite(g, k, s, tok, lead)
    BY <1>5
  <2> DEFINE r == [Moved(rows[g][k], "reschedule_required") EXCEPT !.pending = now + lead]
  <2>1. UpdateRow(g, k, r)
    BY DEF Expedite
  <2>2. r \in Row
    <3>1. Moved(rows[g][k], "reschedule_required") \in Row
      BY RowFields, MovedType DEF RowStatuses, LiveStatuses, FenceStatuses, RetimeStatuses
    <3>2. now + lead \in Nat
      BY LeaseFields
    <3> QED BY <3>1, <3>2 DEF Row
  <2> HIDE DEF r
  <2> QED BY <2>1, <2>2, UpdateRowRest
<1>6. CASE \E c \in Calls : BeginCall(c, g, s, tok)
  BY <1>6 DEF BeginCall, RestType, TypeOK
<1> QED BY <1>1, <1>2, <1>3, <1>4, <1>5, <1>6

\* An acquisition drops the evidence it used and restarts the activity sequence.
LEMMA AcquireStepRest ==
  ASSUME TypeOK, NEW g \in Goals, NEW s \in Sessions, AcquireStep(s, g)
  PROVE  RestType'
<1> PICK term \in LeaseTerms : \/ Create(g, s, term)
                               \/ AcquireFree(g, s, term)
                               \/ AcquireStale(g, s, term)
                               \/ RecoverBlocked(g, s, term)
  BY DEF AcquireStep
<1>1. CASE Create(g, s, term)
  BY <1>1, GrantSeq DEF Create, RestType, TypeOK
<1>2. CASE AcquireFree(g, s, term)
  BY <1>2, GrantSeq DEF AcquireFree, RestType, TypeOK
<1>3. CASE AcquireStale(g, s, term)
  BY <1>3, GrantSeq DEF AcquireStale, RestType, TypeOK
<1>4. CASE RecoverBlocked(g, s, term)
  <2>1. seq' \in [Goals -> Nat]
    BY <1>4, GrantSeq DEF RecoverBlocked
  <2>2. obs' = [obs EXCEPT ![s] = {}] /\ revision' = [revision EXCEPT ![g] = @ + 1]
    BY <1>4 DEF RecoverBlocked
  <2>3. obs' \in [Sessions -> SUBSET Evidence] /\ revision' \in [Goals -> Nat]
    BY <2>2 DEF TypeOK
  <2>4. UNCHANGED <<now, tasks, ever, rows, runs, task>>
    BY <1>4 DEF RecoverBlocked
  <2> QED BY <2>1, <2>3, <2>4 DEF RestType, TypeOK
<1> QED BY <1>1, <1>2, <1>3, <1>4

\* Cancellation and the end of a goal move a row to a status of a row.
LEMMA OwnerStepRest ==
  ASSUME TypeOK, NEW g \in Goals, OwnerStep(g)
  PROVE  RestType'
<1>1. CASE Cancel(g)
  BY <1>1 DEF Cancel, Terminate, RestType, TypeOK
<1>2. CASE CancelAgain(g)
  BY <1>2 DEF CancelAgain, RestType, TypeOK
<1>3. CASE SetIdlePolicy(g)
  BY <1>3 DEF SetIdlePolicy, RestType, TypeOK
<1>4. CASE MarkFinished(g, now)
  <2> PICK k \in DOMAIN rows[g] :
          UpdateRow(g, k, Moved(rows[g][k], FinishTarget(rows[g][k], now)))
    BY <1>4 DEF MarkFinished
  <2>1. FinishTarget(rows[g][k], now) \in RowStatuses
    BY DEF FinishTarget, RowStatuses, LiveStatuses, CancelStatuses, HistoricalStatuses
  <2>2. Moved(rows[g][k], FinishTarget(rows[g][k], now)) \in Row
    BY <2>1, RowFields, MovedType
  <2> QED BY <2>2, UpdateRowRest
<1>5. CASE \E k \in DOMAIN rows[g] : CancelContinuation(g, k)
  <2> PICK k \in DOMAIN rows[g] : UpdateRow(g, k, Moved(rows[g][k], CancelTarget(rows[g][k])))
    BY <1>5 DEF CancelContinuation
  <2>1. CancelTarget(rows[g][k]) \in RowStatuses
    BY DEF CancelTarget, RowStatuses, LiveStatuses, CancelStatuses, HistoricalStatuses
  <2>2. Moved(rows[g][k], CancelTarget(rows[g][k])) \in Row
    BY <2>1, RowFields, MovedType
  <2> QED BY <2>2, UpdateRowRest
<1> QED BY <1>1, <1>2, <1>3, <1>4, <1>5 DEF OwnerStep

\* The status a receipt stands for is a status of a row (receiptStatus).
LEMMA ReceiptStatusType ==
  ASSUME NEW out \in Outcomes
  PROVE  ReceiptStatus(out) \in RowStatuses
<1>1. out \in ReceiptOutcomes
  OBVIOUS
<1>2. CASE out \in {"created", "rescheduled"}
  BY <1>2 DEF ReceiptStatus, RowStatuses, LiveStatuses, FenceStatuses
<1>3. CASE out = "consumed"
  BY <1>3 DEF ReceiptStatus, RowStatuses, HistoricalStatuses
<1>4. CASE out \notin {"created", "rescheduled", "consumed"}
  <2>1. ReceiptStatus(out) = out
    BY <1>4 DEF ReceiptStatus
  <2>2. out \in RowStatuses
    BY <1>1, <1>4 DEF ReceiptOutcomes, RowStatuses, LiveStatuses, FenceStatuses, RetimeStatuses,
       CancelStatuses, HistoricalStatuses
  <2> QED BY <2>1, <2>2
<1> QED BY <1>2, <1>3, <1>4

\* A run mode reported with a receipt leaves confirmed_runs_on a Boolean.
LEMMA ConfirmedType ==
  ASSUME NEW r \in Row, NEW m
  PROVE  Confirmed(r, m) \in BOOLEAN
<1>1. r.confirmed \in BOOLEAN
  BY DEF Row
<1>2. CASE m = "hosted"
  BY <1>2 DEF Confirmed
<1>3. CASE m = "local"
  BY <1>3 DEF Confirmed
<1>4. CASE m # "hosted" /\ m # "local"
  BY <1>1, <1>4 DEF Confirmed
<1> QED BY <1>2, <1>3, <1>4

\* Every receipt leaves a typed row (recordScheduledContinuationReceipt).
LEMMA ReceiptStepRest ==
  ASSUME TypeOK, NEW g \in Goals, NEW k \in DOMAIN rows[g], ReceiptStep(g, k)
  PROVE  RestType'
<1> DEFINE r == rows[g][k]
           q(out) == Moved(r, ReceiptStatus(out))
<1>0. r \in Row /\ EffectiveDue(r) \in Nat
  BY RowFields
<1>q. ASSUME NEW out \in Outcomes PROVE q(out) \in Row
  BY <1>0, ReceiptStatusType, MovedType
<1>c. ASSUME NEW m PROVE Confirmed(r, m) \in BOOLEAN
  BY <1>0, ConfirmedType
<1>1. CASE ReceiveCreated(g, k)
  <2>1. "created" \in Outcomes /\ UpdateRow(g, k, [q("created") EXCEPT !.native = TRUE, !.confirmed = TRUE])
    BY <1>1 DEF ReceiveCreated
  <2> HIDE DEF q, r
  <2>2. [q("created") EXCEPT !.native = TRUE, !.confirmed = TRUE] \in Row
    BY <1>q, <2>1 DEF Row
  <2> QED BY <2>1, <2>2, UpdateRowRest
<1>2. CASE \E m \in RunModes : ReceiveRescheduled(g, k, m)
  <2> PICK m \in RunModes : ReceiveRescheduled(g, k, m)
    BY <1>2
  <2> DEFINE p == [q("rescheduled") EXCEPT !.due = EffectiveDue(r), !.pending = 0,
                          !.retimes = @ + 1, !.confirmed = Confirmed(r, m)]
  <2>1. "rescheduled" \in Outcomes /\ UpdateRow(g, k, p)
    BY DEF ReceiveRescheduled
  <2>2. p \in Row
    <3> HIDE DEF q, r
    <3>1. q("rescheduled") \in Row
      BY <1>q, <2>1
    <3>2. q("rescheduled").retimes + 1 \in Nat
      BY <3>1 DEF Row
    <3>3. Confirmed(r, m) \in BOOLEAN
      BY <1>c
    <3> QED BY <1>0, <3>1, <3>2, <3>3 DEF Row
  <2> HIDE DEF p
  <2> QED BY <2>1, <2>2, UpdateRowRest
<1>3. CASE \E m \in RunModes, out \in Outcomes : ReceiveRetimeUnsettled(g, k, out, m)
  <2> PICK m \in RunModes, out \in Outcomes : ReceiveRetimeUnsettled(g, k, out, m)
    BY <1>3
  <2>1. UpdateRow(g, k, [q(out) EXCEPT !.confirmed = Confirmed(r, m)])
    BY DEF ReceiveRetimeUnsettled
  <2> HIDE DEF q, r
  <2>2. [q(out) EXCEPT !.confirmed = Confirmed(r, m)] \in Row
    BY <1>q, <1>c DEF Row
  <2> QED BY <2>1, <2>2, UpdateRowRest
<1>4. CASE \E m \in RunModes : ReceiveConsumed(g, k, m)
  <2> PICK m \in RunModes : ReceiveConsumed(g, k, m)
    BY <1>4
  <2>1. "consumed" \in Outcomes
        /\ UpdateRow(g, k, [q("consumed") EXCEPT !.pending = 0, !.confirmed = Confirmed(r, m)])
    BY DEF ReceiveConsumed
  <2> HIDE DEF q, r
  <2>2. [q("consumed") EXCEPT !.pending = 0, !.confirmed = Confirmed(r, m)] \in Row
    BY <1>q, <1>c, <2>1 DEF Row
  <2> QED BY <2>1, <2>2, UpdateRowRest
<1>5. CASE \E m \in RunModes : ReceiveCancelled(g, k, m)
  <2> PICK m \in RunModes : ReceiveCancelled(g, k, m)
    BY <1>5
  <2>1. "cancelled" \in Outcomes /\ UpdateRow(g, k, [q("cancelled") EXCEPT !.confirmed = Confirmed(r, m)])
    BY DEF ReceiveCancelled
  <2> HIDE DEF q, r
  <2>2. [q("cancelled") EXCEPT !.confirmed = Confirmed(r, m)] \in Row
    BY <1>q, <1>c, <2>1 DEF Row
  <2> QED BY <2>1, <2>2, UpdateRowRest
<1>6. CASE \E m \in RunModes, out \in Outcomes : ReceiveCancelUnsettled(g, k, out, m)
  <2> PICK m \in RunModes, out \in Outcomes : ReceiveCancelUnsettled(g, k, out, m)
    BY <1>6
  <2>1. UpdateRow(g, k, [q(out) EXCEPT !.confirmed = Confirmed(r, m)])
    BY DEF ReceiveCancelUnsettled
  <2> HIDE DEF q, r
  <2>2. [q(out) EXCEPT !.confirmed = Confirmed(r, m)] \in Row
    BY <1>q, <1>c DEF Row
  <2> QED BY <2>1, <2>2, UpdateRowRest
<1>7. CASE \E m \in RunModes, out \in Outcomes, named \in BOOLEAN :
              ReceiveCreateUnsettled(g, k, out, named, m)
  <2> PICK m \in RunModes, out \in Outcomes, named \in BOOLEAN :
              ReceiveCreateUnsettled(g, k, out, named, m)
    BY <1>7
  <2> DEFINE p == [q(out) EXCEPT !.native = @ \/ named, !.confirmed = Confirmed(r, m)]
  <2>1. UpdateRow(g, k, p)
    BY DEF ReceiveCreateUnsettled
  <2>2. p \in Row
    <3> HIDE DEF q, r
    <3>1. q(out) \in Row /\ Confirmed(r, m) \in BOOLEAN
      BY <1>q, <1>c
    <3>2. (q(out).native \/ named) \in BOOLEAN
      OBVIOUS
    <3> QED BY <3>1, <3>2 DEF Row
  <2> HIDE DEF p
  <2> QED BY <2>1, <2>2, UpdateRowRest
<1> QED BY <1>1, <1>2, <1>3, <1>4, <1>5, <1>6, <1>7 DEF ReceiptStep

\* Reading, sampling and dropping evidence keeps it typed.
LEMMA EvidenceStepRest ==
  ASSUME TypeOK, NEW s \in Sessions, EvidenceStep(s)
  PROVE  RestType'
<1>1. CASE \E g \in Goals : ReadGoal(s, g)
  <2> PICK g \in Goals : ReadGoal(s, g)
    BY <1>1
  <2> DEFINE e == [goal |-> g, revision |-> revision[g], generation |-> generation[g],
                   seq |-> seq[g], since |-> now,
                   listed |-> IF status[g] = "blocked" THEN ever[g] ELSE tasks[g],
                   stage |-> "goal", seenGeneration |-> 0, seenSeq |-> 0, at |-> 0,
                   quiet |-> FALSE, idle |-> {}]
  <2>1. obs' = [obs EXCEPT ![s] = {e}]
    BY DEF ReadGoal
  <2>2. e \in Evidence
    BY DEF Evidence, TypeOK
  <2> HIDE DEF e
  <2>3. obs' \in [Sessions -> SUBSET Evidence]
    BY <2>1, <2>2 DEF TypeOK
  <2> QED BY <2>3 DEF ReadGoal, RestType, TypeOK
<1>2. CASE \E g \in Goals : Reconcile(g, s)
  BY <1>2 DEF Reconcile, Terminate, RestType, TypeOK
<1>3. CASE ObserveFence(s)
  <2> DEFINE d(e) == [e EXCEPT !.stage = "fence", !.seenGeneration = generation[e.goal],
                               !.seenSeq = seq[e.goal], !.at = now,
                               !.quiet = LiveCalls(e.goal) = {}]
  <2>1. PICK e \in obs[s] : obs' = [obs EXCEPT ![s] = {d(e)}]
    BY <1>3 DEF ObserveFence
  <2>2. e \in Evidence
    BY DEF TypeOK
  <2>3. d(e) \in Evidence
    <3>1. generation[e.goal] \in Nat /\ seq[e.goal] \in Nat /\ now \in Nat
      BY <2>2 DEF Evidence, TypeOK
    <3>2. (LiveCalls(e.goal) = {}) \in BOOLEAN
      OBVIOUS
    <3> QED BY <2>2, <3>1, <3>2 DEF Evidence
  <2> HIDE DEF d
  <2>4. obs' \in [Sessions -> SUBSET Evidence]
    BY <2>1, <2>3 DEF TypeOK
  <2> QED BY <1>3, <2>4 DEF ObserveFence, RestType, TypeOK
<1>4. CASE \E doubt \in BOOLEAN : ReadTasks(s, doubt)
  <2> PICK doubt \in BOOLEAN : ReadTasks(s, doubt)
    BY <1>4
  <2> DEFINE d(e) == [e EXCEPT !.stage = "tasks", !.quiet = e.quiet /\ ~doubt,
                               !.idle = {t \in e.listed : task[t] # "running"}]
  <2>1. PICK e \in obs[s] : obs' = [obs EXCEPT ![s] = {d(e)}]
    BY DEF ReadTasks
  <2>2. e \in Evidence
    BY DEF TypeOK
  <2>3. d(e) \in Evidence
    <3>1. {t \in e.listed : task[t] # "running"} \in SUBSET Tasks
      BY <2>2 DEF Evidence
    <3>2. (e.quiet /\ ~doubt) \in BOOLEAN
      OBVIOUS
    <3> QED BY <2>2, <3>1, <3>2 DEF Evidence
  <2> HIDE DEF d
  <2>4. obs' \in [Sessions -> SUBSET Evidence]
    BY <2>1, <2>3 DEF TypeOK
  <2> QED BY <2>4 DEF ReadTasks, RestType, TypeOK
<1>5. CASE DropEvidence(s)
  BY <1>5 DEF DropEvidence, RestType, TypeOK
<1> QED BY <1>1, <1>2, <1>3, <1>4, <1>5 DEF EvidenceStep

\* A heartbeat or the end of a call touches no schedule and no evidence.
LEMMA CallStepRest ==
  ASSUME TypeOK, CallStep
  PROVE  RestType'
<1>1. CASE \E c \in calls : HeartbeatCall(c)
  <2>1. PICK g \in Goals : /\ seq' = [seq EXCEPT ![g] = @ + 1]
                           /\ UNCHANGED <<now, revision, tasks, ever, rows, runs, obs, task>>
    BY <1>1 DEF HeartbeatCall
  <2> QED BY <2>1 DEF RestType, TypeOK
<1>2. CASE \E c \in calls : EndCall(c)
  BY <1>2 DEF EndCall, RestType, TypeOK
<1> QED BY <1>1, <1>2 DEF CallStep

\* Time passes and tasks start and end.
LEMMA EnvStepRest ==
  ASSUME TypeOK, EnvStep
  PROVE  RestType'
<1>1. CASE Tick
  BY <1>1 DEF Tick, RestType, TypeOK
<1>2. CASE \E t \in Tasks : TaskStep(t)
  BY <1>2 DEF TaskStep, RestType, TypeOK
<1> QED BY <1>1, <1>2 DEF EnvStep

\* A collision leaves typed rows (prepareFreshCollisionSuccessor).
LEMMA CollideRows ==
  ASSUME TypeOK, NEW g \in Goals, NEW k \in DOMAIN rows[g], NEW probe \in Probe,
         Collide(g, k, probe)
  PROVE  rows' \in [Goals -> Seq(Row)]
<1> DEFINE r == rows[g][k]
           rs == WithRow(g, k, [Moved(r, "superseded") EXCEPT !.pending = 0,
                                  !.retimes = @ + 1, !.probe = probe])
           due == now + CollisionDelay(g, r, probe.at # 0)
           after == Reserved(rs, k, due)
           heir == [after[k + 1] EXCEPT !.retimes = r.retimes + 1, !.probe = probe]
<1>1. rs \in Seq(Row) /\ k \in DOMAIN rs
  BY RowFields, CollidedRow, RetiredRows
<1>2. due \in Nat /\ r.retimes + 1 \in Nat
  <2>1. due \in Nat
    BY CollisionDelayNat
  <2>2. r.retimes \in Nat
    BY RowFields
  <2> HIDE DEF due, r
  <2> QED BY <2>1, <2>2
<1>3. CanReserve(rs, k)
  BY DEF Collide
<1>4. after \in Seq(Row) /\ k + 1 \in DOMAIN after
  <2> HIDE DEF rs, due
  <2> QED BY <1>1, <1>2, <1>3, ReservedType
<1>5. rows' = [rows EXCEPT ![g] = [after EXCEPT ![k + 1] = heir]]
  BY DEF Collide
<1> HIDE DEF after
<1>6. heir \in Row
  <2>1. after[k + 1] \in Row
    BY <1>4
  <2> QED BY <1>2, <2>1 DEF Row
<1>7. [after EXCEPT ![k + 1] = heir] \in Seq(Row)
  <2> HIDE DEF heir
  <2> QED BY <1>4, <1>6, RowSet
<1> HIDE DEF heir
<1> QED BY <1>5, <1>7, RowsSet

\* The run ledger holds typed entries (recordRecurringRun).
LEMMA RecordType ==
  ASSUME TypeOK, NEW g \in Goals, NEW k \in DOMAIN rows[g], NEW outcome \in RunOutcomes,
         NEW gen \in Nat, Record(g, k, outcome, gen)
  PROVE  runs' \in [Goals -> SUBSET Run]
<1> DEFINE x == [row |-> k, key |-> RunKey(rows[g][k]), outcome |-> outcome, generation |-> gen]
           kept == {y \in runs[g] : y.row # k \/ y.key # RunKey(rows[g][k])}
<1>1. RunKey(rows[g][k]) \in Nat
  BY RowFields, LeaseFields DEF RunKey
<1>2. k \in Nat
  BY DEF TypeOK
<1>3. x \in Run
  BY <1>1, <1>2 DEF Run
<1>4. kept \subseteq Run
  BY DEF TypeOK
<1>5. runs' = [runs EXCEPT ![g] = kept \cup {x}]
  BY DEF Record
<1> HIDE DEF x, kept
<1> QED BY <1>3, <1>4, <1>5 DEF TypeOK

\* A wake, whatever it finds, leaves typed rows and a typed ledger.
LEMMA WakeStepRest ==
  ASSUME TypeOK, NEW g \in Goals, NEW s \in Sessions,
         NEW k \in DOMAIN rows[g], WakeStep(s, g, k)
  PROVE  RestType'
<1>1. CASE ClaimUntimely(g, k)
  <2>1. NoProbe \in Probe /\ ProbeAt(g, rows[g][k].probe.at) \in Probe
    <3>1. rows[g][k].probe.at \in Nat
      BY RowFields DEF Row, Probe
    <3> QED BY <3>1, ProbeAtType DEF NoProbe, Probe
  <2>2. PICK probe \in Probe : Collide(g, k, probe)
    BY <1>1, <2>1 DEF ClaimUntimely
  <2>3. rows' \in [Goals -> Seq(Row)]
    BY <2>2, CollideRows
  <2> QED BY <1>1, <2>3 DEF ClaimUntimely, RestType, TypeOK
<1>2. CASE ClaimTerminal(g, k)
  <2>1. Moved(rows[g][k], "terminal_noop") \in Row
    BY RowFields, MovedType DEF RowStatuses, HistoricalStatuses
  <2> QED BY <1>2, <2>1, UpdateRowRest DEF ClaimTerminal
<1>3. CASE ClaimRecurringCleanup(g, k)
  <2>1. runs' \in [Goals -> SUBSET Run]
    BY <1>3, RecordType DEF ClaimRecurringCleanup, RunOutcomes
  <2> QED BY <1>3, <2>1 DEF ClaimRecurringCleanup, RestType, TypeOK
<1>4. CASE ClaimCollision(s, g, k)
  <2>1. PICK e \in obs[s] :
          Collide(g, k, ProbeAt(g, IF ~ConfirmedInactive(g, e) THEN 0
                                   ELSE IF Probed(g, rows[g][k]) THEN rows[g][k].probe.at ELSE now))
    BY <1>4 DEF ClaimCollision
  <2>2. PICK probe \in Probe : Collide(g, k, probe)
    <3>1. rows[g][k].probe.at \in Nat
      BY RowFields DEF Row, Probe
    <3> QED BY <2>1, <3>1, ProbeAtType, LeaseFields
  <2>3. rows' \in [Goals -> Seq(Row)]
    BY <2>2, CollideRows
  <2> QED BY <1>4, <2>3 DEF ClaimCollision, RestType, TypeOK
<1>5. CASE ClaimRecurringBusy(s, g, k)
  <2>1. runs' \in [Goals -> SUBSET Run]
    BY <1>5, RecordType DEF ClaimRecurringBusy, RunOutcomes
  <2> QED BY <1>5, <2>1 DEF ClaimRecurringBusy, RestType, TypeOK
<1>6. CASE \E term \in LeaseTerms : ClaimTakeover(s, g, k, term)
  <2> PICK term \in LeaseTerms : ClaimTakeover(s, g, k, term)
    BY <1>6
  <2> DEFINE rs == WithRow(g, k, [Moved(rows[g][k], "claimed") EXCEPT !.pending = 0,
                                                                     !.probe = NoProbe])
             due == now + ClaimDelay(term)
  <2>1. /\ CanReserve(rs, k)
        /\ rows' = [rows EXCEPT ![g] = Reserved(rs, k, due)]
        /\ \E end : Grant(g, s, term, end)
        /\ obs' = [obs EXCEPT ![s] = {}]
        /\ UNCHANGED <<now, revision, tasks, ever, runs, task>>
    BY DEF ClaimTakeover
  <2>2. rs \in Seq(Row) /\ k \in DOMAIN rs
    BY RowFields, ClaimedRow, RetiredRows
  <2>3. due \in Nat
    BY ClaimDelayNat
  <2> HIDE DEF rs, due
  <2>4. rows' \in [Goals -> Seq(Row)]
    BY <2>1, <2>2, <2>3, ReservedType, RowsSet
  <2>5. seq' \in [Goals -> Nat]
    BY <2>1, GrantSeq
  <2> QED BY <2>1, <2>4, <2>5 DEF RestType, TypeOK
<1>7. CASE \E term \in LeaseTerms : ClaimRetired(g, k, term)
  <2> PICK term \in LeaseTerms : ClaimRetired(g, k, term)
    BY <1>7
  <2> DEFINE due == now + ClaimDelay(term)
  <2>1. CanReserve(rows[g], k) /\ rows' = [rows EXCEPT ![g] = Reserved(rows[g], k, due)]
    BY DEF ClaimRetired
  <2>2. due \in Nat /\ rows[g] \in Seq(Row)
    BY ClaimDelayNat DEF TypeOK
  <2> HIDE DEF due
  <2>3. rows' \in [Goals -> Seq(Row)]
    BY <2>1, <2>2, ReservedType, RowsSet
  <2> QED BY <2>3 DEF ClaimRetired, RestType, TypeOK
<1>8. CASE \E term \in LeaseTerms : ClaimRecurringTakeover(s, g, k, term)
  <2> PICK term \in LeaseTerms : ClaimRecurringTakeover(s, g, k, term)
    BY <1>8
  <2>1. PICK outcome \in RunOutcomes : Record(g, k, outcome, NextGeneration(g))
    BY DEF ClaimRecurringTakeover, RunOutcomes
  <2>2. NextGeneration(g) \in Nat
    BY DEF NextGeneration, TypeOK
  <2>3. runs' \in [Goals -> SUBSET Run]
    BY <2>1, <2>2, RecordType
  <2>4. seq' \in [Goals -> Nat]
    BY GrantSeq DEF ClaimRecurringTakeover
  <2> QED BY <2>3, <2>4 DEF ClaimRecurringTakeover, RestType, TypeOK
<1> QED BY <1>1, <1>2, <1>3, <1>4, <1>5, <1>6, <1>7, <1>8 DEF WakeStep

\* Every step keeps the types of the remaining columns.
LEMMA RestTypeStep ==
  ASSUME TypeOK, Next
  PROVE  RestType'
  BY WorkerStepRest, AcquireStepRest, OwnerStepRest, ReceiptStepRest, WakeStepRest,
     EvidenceStepRest, CallStepRest, EnvStepRest DEF Next

-----------------------------------------------------------------------------
(* The lease columns. *)

\* Each class keeps the six lease columns consistent: a renewal of an active
\* goal, a lease cleared with the end, a full lease granted to an active goal.
LEMMA LeaseColumnsStep ==
  ASSUME TypeOK, LeaseColumns, StepClass
  PROVE  LeaseColumns'
<1>1. CASE Idle
  BY <1>1 DEF Idle, LeadVars, LeaseColumns
<1>2. CASE \E g \in Goals : Renewal(g)
  <2> PICK g \in Goals : Renewal(g)
    BY <1>2
  <2>1. PICK h \in Nat \ {0}, e \in Nat :
          lease' = [lease EXCEPT ![g] = [lease[g] EXCEPT !.heartbeat = h, !.expires = e]]
    BY DEF Renewal
  <2>2. status' = status /\ status[g] = "active" /\ lease[g].token # 0
    BY DEF Renewal, IsActive
  <2>3. /\ lease'[g].token = lease[g].token /\ lease'[g].term = lease[g].term
        /\ lease'[g].heartbeat = h
    BY <2>1, LeaseFields DEF TypeOK, Lease
  <2>4. \A x \in Goals \ {g} : lease'[x] = lease[x]
    BY <2>1 DEF TypeOK
  <2> QED BY <2>2, <2>3, <2>4 DEF LeaseColumns
<1>3. CASE \E g \in Goals : \E st \in TerminalStatuses \cup {"active"} : Ending(g, st)
  <2> PICK g \in Goals, st \in TerminalStatuses \cup {"active"} : Ending(g, st)
    BY <1>3
  <2> QED BY DEF Ending, LeaseColumns, TypeOK, NoLease
<1>4. CASE \E g \in Goals, s \in Sessions : HandOver(g, s)
  <2> PICK g \in Goals, s \in Sessions : HandOver(g, s)
    BY <1>4
  <2>1. PICK term \in Nat \ {0}, e \in Nat :
          lease' = [lease EXCEPT ![g] = [session |-> s, token |-> Len(issued[g]) + 1,
                                         term |-> term, heartbeat |-> now, expires |-> e]]
    BY DEF HandOver
  <2>2. status' = [status EXCEPT ![g] = "active"]
    BY DEF HandOver
  <2>3. Len(issued[g]) \in Nat
    BY DEF TypeOK
  <2>4. lease'[g].token # 0 /\ lease'[g].term > 0 /\ lease'[g].heartbeat > 0
    BY <2>1, <2>3 DEF TypeOK
  <2>5. \A x \in Goals \ {g} : lease'[x] = lease[x] /\ status'[x] = status[x]
    BY <2>1, <2>2 DEF TypeOK
  <2>6. status'[g] = "active"
    BY <2>2 DEF TypeOK
  <2> QED BY <2>4, <2>5, <2>6 DEF LeaseColumns
<1> QED BY <1>1, <1>2, <1>3, <1>4 DEF StepClass

-----------------------------------------------------------------------------
(* The theorems. *)

\* TypeOK is not inductive alone: a heartbeat renews the lease of an active
\* goal, and only LeaseColumns says that a lease that has not expired has an
\* owner.
LeaseInv == TypeOK /\ LeaseColumns

\* The empty database of acquire's first call satisfies the invariant.
LEMMA LeaseInvInit == Init => LeaseInv
<1> SUFFICES ASSUME Init PROVE LeaseInv
  OBVIOUS
<1>1. NoLease \in Lease /\ "absent" \in GoalStatuses
  BY DEF NoLease, Lease, GoalStatuses
<1>2. TypeOK
  BY <1>1 DEF Init, TypeOK
<1>3. LeaseColumns
  BY DEF Init, LeaseColumns, NoLease
<1> QED BY <1>2, <1>3 DEF LeaseInv

\* Every transaction keeps the types and the lease columns.
LEMMA LeaseInvStep == LeaseInv /\ [Next]_vars => LeaseInv'
<1> SUFFICES ASSUME LeaseInv, [Next]_vars PROVE LeaseInv'
  OBVIOUS
<1> TypeOK /\ LeaseColumns
  BY DEF LeaseInv
<1>1. CASE Next
  <2>1. StepClass
    BY <1>1, NextClass
  <2>2. LeadType' /\ RestType' /\ LeaseColumns'
    BY <1>1, <2>1, LeadTypeStep, RestTypeStep, LeaseColumnsStep
  <2> QED BY <2>2 DEF LeaseInv, TypeOK, LeadType, RestType
<1>2. CASE UNCHANGED vars
  BY <1>2 DEF LeaseInv, vars, TypeOK, LeaseColumns
<1> QED BY <1>1, <1>2

\* Every reachable database holds rows toGoalRecord and
\* toScheduledContinuationRecord accept, and no goal that ended holds a lease:
\* validateLeaseState never finds a corrupt lease.
THEOREM LeaseInvHolds == Spec => []LeaseInv
<1> QED BY LeaseInvInit, LeaseInvStep, PTL DEF Spec

\* Type correctness of every column.
THEOREM TypeCorrect == Spec => []TypeOK
<1>1. LeaseInv => TypeOK
  BY DEF LeaseInv
<1> QED BY <1>1, LeaseInvHolds, PTL

\* The lease columns are written and cleared together (validateLeaseState).
THEOREM LeaseColumnsHold == Spec => []LeaseColumns
<1>1. LeaseInv => LeaseColumns
  BY DEF LeaseInv
<1> QED BY <1>1, LeaseInvHolds, PTL

=============================================================================
