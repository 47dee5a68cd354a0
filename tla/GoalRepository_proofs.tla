------------------------ MODULE GoalRepository_proofs ------------------------
(***************************************************************************)
(* Safety of GoalRepository for every value of its constants: fencing,     *)
(* the draining of superseded calls, the quiet of cancelled goals, the     *)
(* chain of continuation rows, the evidence a takeover rests on and the    *)
(* refinement of WorkerAuthority.  The argument goes over the step classes *)
(* (for rows and evidence over the actions), under the invariant of        *)
(* GoalTypes_proofs.                                                       *)
(***************************************************************************)
EXTENDS GoalTypes_proofs

USE SetsAssumption, TimesAssumption, BoundsAssumption

-----------------------------------------------------------------------------
(* Fencing. *)

\* Each class keeps the newest token in charge: only a hand-over issues a
\* token, under a generation greater than all before.
LEMMA FencingStep ==
  ASSUME TypeOK, LeaseColumns, Fencing, StepClass
  PROVE  Fencing'
<1> USE DEF Fencing, GenerationsDistinct, NewestTokenHolds
<1>1. CASE Idle
  BY <1>1 DEF Idle, LeadVars
<1>2. CASE \E g \in Goals : Renewal(g)
  <2> PICK g \in Goals : Renewal(g)
    BY <1>2
  <2>1. PICK h \in Nat \ {0}, e \in Nat :
          lease' = [lease EXCEPT ![g] = [lease[g] EXCEPT !.heartbeat = h, !.expires = e]]
    BY DEF Renewal
  <2>2. \A x \in Goals : lease'[x].token = lease[x].token /\ lease'[x].session = lease[x].session
    <3>1. lease'[g].token = lease[g].token /\ lease'[g].session = lease[g].session
      BY <2>1, LeaseFields DEF TypeOK, Lease
    <3>2. \A x \in Goals \ {g} : lease'[x] = lease[x]
      BY <2>1 DEF TypeOK
    <3> QED BY <3>1, <3>2
  <2>3. UNCHANGED <<generation, issued>>
    BY DEF Renewal
  <2> QED BY <2>2, <2>3
<1>3. CASE \E g \in Goals : \E st \in TerminalStatuses \cup {"active"} : Ending(g, st)
  <2> PICK g \in Goals, st \in TerminalStatuses \cup {"active"} : Ending(g, st)
    BY <1>3
  <2>1. lease'[g].token = 0 /\ \A x \in Goals \ {g} : lease'[x] = lease[x]
    BY DEF Ending, TypeOK, NoLease
  <2>2. UNCHANGED <<generation, issued>>
    BY DEF Ending
  <2> QED BY <2>1, <2>2
<1>4. CASE \E g \in Goals, s \in Sessions : HandOver(g, s)
  <2> PICK g \in Goals, s \in Sessions : HandOver(g, s)
    BY <1>4
  <2> DEFINE tk == [session |-> s, generation |-> generation[g] + 1, at |-> now]
  <2>1. issued'[g] = Append(issued[g], tk) /\ generation'[g] = generation[g] + 1
    BY DEF HandOver, TypeOK
  <2>2. lease'[g].token = Len(issued[g]) + 1 /\ lease'[g].session = s
    BY DEF HandOver, TypeOK
  <2>3. \A x \in Goals \ {g} : /\ issued'[x] = issued[x] /\ generation'[x] = generation[x]
                               /\ lease'[x] = lease[x]
    BY DEF HandOver, TypeOK
  <2>4. /\ issued[g] \in Seq(Token) /\ generation[g] \in Nat
        /\ \A i \in DOMAIN issued[g] : issued[g][i].generation \in Nat
    <3>1. issued[g] \in Seq(Token) /\ generation[g] \in Nat
      BY DEF TypeOK
    <3>2. ASSUME NEW i \in DOMAIN issued[g] PROVE issued[g][i].generation \in Nat
      <4>1. issued[g][i] \in Token
        BY <3>1
      <4> QED BY <4>1 DEF Token
    <3> QED BY <3>1, <3>2
  <2>5. /\ tk.generation = generation[g] + 1 /\ tk.session = s
    OBVIOUS
  <2> HIDE DEF tk
  <2>6. /\ DOMAIN issued'[g] = 1..(Len(issued[g]) + 1)
        /\ Len(issued'[g]) = Len(issued[g]) + 1
        /\ issued'[g][Len(issued[g]) + 1] = tk
        /\ \A i \in DOMAIN issued[g] : issued'[g][i] = issued[g][i]
    BY <2>1, <2>4
  <2>7. \A i, j \in DOMAIN issued'[g] :
            i < j => issued'[g][i].generation < issued'[g][j].generation
    <3> SUFFICES ASSUME NEW i \in DOMAIN issued'[g], NEW j \in DOMAIN issued'[g], i < j
                 PROVE  issued'[g][i].generation < issued'[g][j].generation
      OBVIOUS
    <3>1. i \in DOMAIN issued[g]
      BY <2>4, <2>6
    <3>2. issued[g][i].generation <= generation[g]
      BY <3>1
    <3>3. CASE j \in DOMAIN issued[g]
      BY <2>6, <3>1, <3>3
    <3>4. CASE j = Len(issued[g]) + 1
      <4>1. issued'[g][i] = issued[g][i] /\ issued'[g][j] = tk
        BY <2>6, <3>1, <3>4
      <4>2. issued[g][i].generation \in Nat
        BY <2>4, <3>1
      <4> QED BY <2>4, <2>5, <3>2, <4>1, <4>2
    <3> QED BY <2>4, <2>6, <3>3, <3>4
  <2>8. /\ lease'[g].token = Len(issued'[g])
        /\ issued'[g][lease'[g].token].session = lease'[g].session
        /\ issued'[g][lease'[g].token].generation = generation'[g]
    BY <2>1, <2>2, <2>5, <2>6
  <2>9. \A i \in DOMAIN issued'[g] : issued'[g][i].generation <= generation'[g]
    <3> SUFFICES ASSUME NEW i \in DOMAIN issued'[g]
                 PROVE  issued'[g][i].generation <= generation'[g]
      OBVIOUS
    <3>1. CASE i \in DOMAIN issued[g]
      BY <2>1, <2>4, <2>6, <3>1
    <3>2. CASE i = Len(issued[g]) + 1
      BY <2>1, <2>4, <2>5, <2>6, <3>2
    <3> QED BY <2>4, <2>6, <3>1, <3>2
  <2> QED BY <2>3, <2>7, <2>8, <2>9
<1> QED BY <1>1, <1>2, <1>3, <1>4 DEF StepClass

\* Fencing of the goal lease, for any number of goals, sessions and calls: the
\* generations of the tokens of a goal strictly increase, and the lease in
\* force is that of the newest token.  A worker that was replaced by run_goal,
\* a wake or a blocked recovery can therefore never pass assertMutableLease
\* or admit a fenced call again.
THEOREM FencingHolds == Spec => []Fencing
<1>1. Init => Fencing
  BY DEF Init, Fencing, GenerationsDistinct, NewestTokenHolds, NoLease
<1>2. LeaseInv /\ Fencing /\ [Next]_vars => Fencing'
  <2> SUFFICES ASSUME LeaseInv, Fencing, [Next]_vars PROVE Fencing'
    OBVIOUS
  <2>1. CASE Next
    BY <2>1, NextClass, FencingStep DEF LeaseInv
  <2>2. CASE UNCHANGED vars
    BY <2>2 DEF vars, Fencing, GenerationsDistinct, NewestTokenHolds
  <2> QED BY <2>1, <2>2
<1> QED BY <1>1, <1>2, LeaseInvHolds, PTL DEF Spec

-----------------------------------------------------------------------------
(* Fenced calls. *)

\* Each class keeps a cancelled goal quiet: cancellation closes the calls of
\* the goal, and only an active goal admits or renews one.
LEMMA CancelledStep ==
  ASSUME TypeOK, CancelledIsQuiet, StepClass
  PROVE  CancelledIsQuiet'
<1> USE DEF CancelledIsQuiet
<1>0. \A c \in calls : c.goal \in Goals
  BY DEF TypeOK, Call
<1>1. CASE Idle
  BY <1>1 DEF Idle, LeadVars
<1>2. CASE \E g \in Goals : Renewal(g)
  <2> PICK g \in Goals : Renewal(g)
    BY <1>2
  <2>1. \A c \in calls' : c.goal = g \/ c \in calls
    <3>1. CASE SameCalls
      BY <3>1 DEF SameCalls
    <3>2. CASE AdmitsCall(g)
      BY <3>2 DEF AdmitsCall
    <3>3. CASE RenewsCall(g)
      <4> PICK c \in calls :
             /\ c.goal = g
             /\ calls' = (calls \ {c}) \cup {[c EXCEPT !.expires = now + CallLease]}
        BY <3>3 DEF RenewsCall
      <4>1. [c EXCEPT !.expires = now + CallLease].goal = g
        BY DEF TypeOK, Call
      <4> QED BY <4>1
    <3> QED BY <3>1, <3>2, <3>3 DEF Renewal
  <2>2. status' = status /\ status[g] = "active"
    BY DEF Renewal, IsActive
  <2> QED BY <2>1, <2>2
<1>3. CASE \E g \in Goals : \E st \in TerminalStatuses \cup {"active"} : Ending(g, st)
  <2> PICK g \in Goals, st \in TerminalStatuses \cup {"active"} : Ending(g, st)
    BY <1>3
  <2>1. \A x \in Goals \ {g} : status'[x] = status[x]
    BY DEF Ending, TypeOK
  <2>2. status'[g] = st /\ (st = "cancelled" => \A c \in calls' : c.goal # g)
    BY DEF Ending, TypeOK
  <2> QED BY <1>0, <2>1, <2>2 DEF Ending
<1>4. CASE \E g \in Goals, s \in Sessions : HandOver(g, s)
  <2> PICK g \in Goals, s \in Sessions : HandOver(g, s)
    BY <1>4
  <2>1. status'[g] = "active" /\ \A x \in Goals \ {g} : status'[x] = status[x]
    BY DEF HandOver, TypeOK
  <2> QED BY <1>0, <2>1 DEF HandOver
<1> QED BY <1>1, <1>2, <1>3, <1>4 DEF StepClass

\* A cancelled goal never has an open fenced call again.
THEOREM CancelledStaysQuiet == Spec => []CancelledIsQuiet
<1>1. Init => CancelledIsQuiet
  BY DEF Init, CancelledIsQuiet
<1>2. LeaseInv /\ CancelledIsQuiet /\ [Next]_vars => CancelledIsQuiet'
  <2> SUFFICES ASSUME LeaseInv, CancelledIsQuiet, [Next]_vars PROVE CancelledIsQuiet'
    OBVIOUS
  <2>1. CASE Next
    BY <2>1, NextClass, CancelledStep DEF LeaseInv
  <2>2. CASE UNCHANGED vars
    BY <2>2 DEF vars, CancelledIsQuiet
  <2> QED BY <2>1, <2>2
<1> QED BY <1>1, <1>2, LeaseInvHolds, PTL DEF Spec

-----------------------------------------------------------------------------
(* Superseded calls. *)

\* No transaction moves the clock; time itself moves it forward.
LEMMA ClockStep ==
  ASSUME TypeOK, Next
  PROVE  now' = now \/ now' = now + 1
<1>1. ASSUME NEW g, NEW k, NEW r, UpdateRow(g, k, r) PROVE now' = now
  BY <1>1 DEF UpdateRow
<1>2. ASSUME NEW g \in Goals, NEW s \in Sessions, WorkerStep(s, g) PROVE now' = now
  <2>1. ASSUME NEW tok, NEW T, NEW b, NEW st, NEW c,
               \/ Checkpoint(g, s, tok, T, b)
               \/ Finish(g, s, tok, revision[g], st, now)
               \/ BeginCall(c, g, s, tok)
        PROVE  now' = now
    BY <2>1 DEF Checkpoint, Finish, BeginCall
  <2>2. ASSUME NEW tok, NEW T, NEW occ, NEW d, NEW k, NEW lead,
               \/ Prepare(g, s, tok, T, occ, d)
               \/ Refresh(g, s, tok, T, occ, d)
               \/ Expedite(g, k, s, tok, lead)
        PROVE  now' = now
    BY <1>1, <2>2 DEF Prepare, Refresh, PrepareGoal, Expedite
  <2> QED BY <1>2, <2>1, <2>2 DEF WorkerStep
<1>3. ASSUME NEW g \in Goals, NEW s \in Sessions, AcquireStep(s, g) PROVE now' = now
  BY <1>3 DEF AcquireStep, Create, AcquireFree, AcquireStale, RecoverBlocked
<1>4. ASSUME NEW g \in Goals, OwnerStep(g) PROVE now' = now
  BY <1>1, <1>4 DEF OwnerStep, Cancel, CancelAgain, SetIdlePolicy, MarkFinished, CancelContinuation
<1>5. ASSUME NEW g \in Goals, NEW k, ReceiptStep(g, k) PROVE now' = now
  BY <1>1, <1>5 DEF ReceiptStep, ReceiveCreated, ReceiveRescheduled, ReceiveRetimeUnsettled,
     ReceiveConsumed, ReceiveCancelled, ReceiveCancelUnsettled, ReceiveCreateUnsettled
<1>6. ASSUME NEW g \in Goals, NEW s \in Sessions, NEW k, WakeStep(s, g, k) PROVE now' = now
  <2>1. ASSUME ClaimUntimely(g, k) \/ ClaimTerminal(g, k) \/ ClaimRecurringCleanup(g, k)
               \/ ClaimCollision(s, g, k) \/ ClaimRecurringBusy(s, g, k)
        PROVE  now' = now
    BY <1>1, <2>1 DEF ClaimUntimely, ClaimTerminal, ClaimRecurringCleanup, ClaimCollision,
       ClaimRecurringBusy
  <2>2. ASSUME NEW term \in LeaseTerms,
               \/ ClaimTakeover(s, g, k, term)
               \/ ClaimRetired(g, k, term)
               \/ ClaimRecurringTakeover(s, g, k, term)
        PROVE  now' = now
    BY <2>2 DEF ClaimTakeover, ClaimRetired, ClaimRecurringTakeover
  <2> QED BY <1>6, <2>1, <2>2 DEF WakeStep
<1>7. ASSUME NEW s \in Sessions, EvidenceStep(s) PROVE now' = now
  BY <1>7 DEF EvidenceStep, ReadGoal, Reconcile, ObserveFence, ReadTasks, DropEvidence
<1>8. CASE CallStep
  BY <1>8 DEF CallStep, HeartbeatCall, EndCall
<1>9. CASE EnvStep
  BY <1>9 DEF EnvStep, Tick, TaskStep
<1> QED BY <1>2, <1>3, <1>4, <1>5, <1>6, <1>7, <1>8, <1>9 DEF Next

\* A call is never of a generation to come, and lives one call lease at most.
CallsBounded ==
    \A c \in calls : c.generation <= generation[c.goal] /\ c.expires <= now + CallLease

DrainInv == CallsBounded /\ SupersededCallsDrain

\* Each class bounds the calls of replaced workers: a call of the generation
\* in force is bounded by the clock, and the clock of the hand-over is stored
\* with the token that supersedes it.
LEMMA DrainStep ==
  ASSUME TypeOK, DrainInv, StepClass, now' = now \/ now' = now + 1
  PROVE  DrainInv'
<1>0. /\ now \in Nat /\ CallLease \in Nat /\ now' >= now
      /\ \A g \in Goals : generation[g] \in Nat /\ issued[g] \in Seq(Token)
      /\ \A c \in calls : c \in Call /\ c.goal \in Goals /\ c.generation \in Nat /\ c.expires \in Nat
  <2>1. ASSUME NEW c \in calls PROVE c \in Call /\ c.goal \in Goals /\ c.generation \in Nat /\ c.expires \in Nat
    <3>1. c \in Call
      BY DEF TypeOK
    <3> QED BY <3>1 DEF Call
  <2> QED BY <2>1 DEF TypeOK
<1>a. ASSUME NEW c \in calls
      PROVE  c.generation <= generation[c.goal] /\ c.expires <= now + CallLease
  BY DEF DrainInv, CallsBounded
<1>1. CASE Idle
  BY <1>0, <1>1 DEF Idle, LeadVars, DrainInv, CallsBounded, SupersededCallsDrain
<1>2. CASE \E g \in Goals : Renewal(g)
  <2> PICK g \in Goals : Renewal(g)
    BY <1>2
  <2>1. UNCHANGED <<generation, issued>>
    BY DEF Renewal
  <2>2. \A c \in calls' : \/ c \in calls
                          \/ /\ c.goal = g /\ c.generation = generation[g]
                             /\ c.expires = now + CallLease
    <3>1. CASE SameCalls
      BY <3>1 DEF SameCalls
    <3>2. CASE AdmitsCall(g)
      BY <3>2 DEF AdmitsCall
    <3>3. CASE RenewsCall(g)
      <4>1. PICK c \in calls :
             /\ c.goal = g /\ c.generation = generation[g]
             /\ calls' = (calls \ {c}) \cup {[c EXCEPT !.expires = now + CallLease]}
        BY <3>3 DEF RenewsCall
      <4> DEFINE d == [c EXCEPT !.expires = now + CallLease]
      <4>2. c \in Call
        BY <1>0
      <4>3. d.goal = g /\ d.generation = generation[g] /\ d.expires = now + CallLease
        BY <4>1, <4>2 DEF Call
      <4> HIDE DEF d
      <4> QED BY <4>1, <4>3 DEF d
    <3> QED BY <3>1, <3>2, <3>3 DEF Renewal
  <2>3. ASSUME NEW c \in calls' PROVE c.generation <= generation[c.goal] /\ c.expires <= now' + CallLease
    <3>1. CASE c \in calls
      BY <1>0, <1>a, <3>1
    <3>2. CASE c.goal = g /\ c.generation = generation[g] /\ c.expires = now + CallLease
      BY <1>0, <3>2
    <3> QED BY <2>2, <3>1, <3>2
  <2>4. ASSUME NEW c \in calls', c.generation < generation[c.goal] PROVE c \in calls
    BY <1>0, <2>2, <2>4
  <2> QED BY <2>1, <2>3, <2>4 DEF DrainInv, CallsBounded, SupersededCallsDrain
<1>3. CASE \E g \in Goals : \E st \in TerminalStatuses \cup {"active"} : Ending(g, st)
  BY <1>0, <1>3 DEF Ending, DrainInv, CallsBounded, SupersededCallsDrain
<1>4. CASE \E g \in Goals, s \in Sessions : HandOver(g, s)
  <2> PICK g \in Goals, s \in Sessions : HandOver(g, s)
    BY <1>4
  <2> DEFINE tk == [session |-> s, generation |-> generation[g] + 1, at |-> now]
  <2>1. /\ issued'[g] = Append(issued[g], tk) /\ generation'[g] = generation[g] + 1
        /\ \A x \in Goals \ {g} : issued'[x] = issued[x] /\ generation'[x] = generation[x]
        /\ calls' = calls
    BY DEF HandOver, TypeOK
  <2>2. tk.generation = generation[g] + 1 /\ tk.at = now
    OBVIOUS
  <2> HIDE DEF tk
  <2>3. /\ Len(issued[g]) + 1 \in DOMAIN issued'[g]
        /\ issued'[g][Len(issued[g]) + 1] = tk
    BY <1>0, <2>1
  <2>4. ASSUME NEW c \in calls'
        PROVE  c.generation <= generation'[c.goal] /\ c.expires <= now' + CallLease
    <3>1. c \in calls /\ c.generation <= generation[c.goal] /\ c.expires <= now + CallLease
      BY <1>a, <2>1
    <3>2. generation[c.goal] <= generation'[c.goal] /\ generation'[c.goal] \in Nat
      <4>1. c.goal \in Goals /\ generation[c.goal] \in Nat
        BY <1>0, <3>1
      <4>2. CASE c.goal = g
        BY <2>1, <4>1, <4>2
      <4>3. CASE c.goal # g
        BY <2>1, <4>1, <4>3
      <4> QED BY <4>2, <4>3
    <3>3. /\ c.generation \in Nat /\ c.expires \in Nat
          /\ generation[c.goal] \in Nat /\ now' \in Nat
      BY <1>0, <3>1
    <3> QED BY <1>0, <3>1, <3>2, <3>3
  <2>5. ASSUME NEW c \in calls', c.generation < generation'[c.goal]
        PROVE  \E i \in DOMAIN issued'[c.goal] :
                  /\ issued'[c.goal][i].generation > c.generation
                  /\ c.expires <= issued'[c.goal][i].at + CallLease
    <3>1. CASE c.goal = g
      <4>1. c.generation <= generation[g] /\ c.expires <= now + CallLease
        BY <1>a, <2>1, <3>1
      <4>2. tk.generation > c.generation /\ c.expires <= tk.at + CallLease
        BY <1>0, <2>1, <2>2, <4>1
      <4> QED BY <2>3, <3>1, <4>2
    <3>2. CASE c.goal # g
      <4>1. c \in calls /\ c.goal \in Goals \ {g}
        BY <1>0, <2>1, <3>2
      <4>2. issued'[c.goal] = issued[c.goal] /\ generation'[c.goal] = generation[c.goal]
        BY <2>1, <4>1
      <4> QED BY <2>5, <4>1, <4>2 DEF DrainInv, SupersededCallsDrain
    <3> QED BY <3>1, <3>2
  <2> QED BY <2>4, <2>5 DEF DrainInv, CallsBounded, SupersededCallsDrain
<1> QED BY <1>1, <1>2, <1>3, <1>4 DEF StepClass

\* A worker that was replaced drains within one call lease of the hand-over,
\* whatever it and its successors do: heartbeats of its calls fail.
THEOREM SupersededDrain == Spec => []SupersededCallsDrain
<1>1. Init => DrainInv
  BY DEF Init, DrainInv, CallsBounded, SupersededCallsDrain
<1>2. LeaseInv /\ DrainInv /\ [Next]_vars => DrainInv'
  <2> SUFFICES ASSUME LeaseInv, DrainInv, [Next]_vars PROVE DrainInv'
    OBVIOUS
  <2>1. CASE Next
    <3>1. TypeOK /\ StepClass
      BY <2>1, NextClass DEF LeaseInv
    <3>2. now' = now \/ now' = now + 1
      BY <2>1, <3>1, ClockStep
    <3> QED BY <3>1, <3>2, DrainStep
  <2>2. CASE UNCHANGED vars
    BY <2>2 DEF vars, DrainInv, CallsBounded, SupersededCallsDrain
  <2> QED BY <2>1, <2>2
<1>3. DrainInv => SupersededCallsDrain
  BY DEF DrainInv
<1> QED BY <1>1, <1>2, <1>3, LeaseInvHolds, PTL DEF Spec

-----------------------------------------------------------------------------
(* The chain of continuation rows. *)

\* What RetimeIsBound says of one row, and the two row invariants of one goal;
\* Follows leaves open whether row k itself, just claimed, has its successor.
RowFits(r) == r.status \in RetimeStatuses => r.native /\ r.pending # 0
Follows(rs, k) ==
    \A j \in DOMAIN rs :
        /\ RowFits(rs[j])
        /\ (j # k /\ rs[j].status = "claimed") => j + 1 \in DOMAIN rs /\ rs[j + 1].pred = j
ChainFits(rs) == Follows(rs, 0)
\* Row q may replace row r of a goal.
Replaces(q, r) ==
    /\ q \in Row /\ q.pred = r.pred /\ RowFits(q)
    /\ q.status = "claimed" => r.status = "claimed"
ChainInv == \A g \in Goals : ChainFits(rows[g])
\* At most the rows of one goal change, and they still fit.
ChainMoves == \/ rows' = rows
              \/ \E g \in Goals : \E rs : rows' = [rows EXCEPT ![g] = rs] /\ ChainFits(rs)

\* A row that changes its status keeps its other columns (and its predecessor).
LEMMA MovedFields ==
  ASSUME NEW r \in Row, NEW st
  PROVE  /\ Moved(r, st).status = st /\ Moved(r, st).pred = r.pred
         /\ Moved(r, st).native = r.native /\ Moved(r, st).pending = r.pending
  BY DEF Moved, Row

\* A replaced row keeps the chain: its successor and its predecessor still match.
LEMMA ChainReplace ==
  ASSUME NEW rs \in Seq(Row), NEW m, Follows(rs, m), NEW k \in DOMAIN rs, NEW q,
         Replaces(q, rs[k])
  PROVE  Follows([rs EXCEPT ![k] = q], m)
<1> DEFINE qs == [rs EXCEPT ![k] = q]
<1>1. DOMAIN qs = DOMAIN rs /\ \A j \in DOMAIN rs : qs[j] = IF j = k THEN q ELSE rs[j]
  OBVIOUS
<1>2. \A j \in DOMAIN rs : qs[j].pred = rs[j].pred
  BY <1>1 DEF Replaces
<1>3. \A j \in DOMAIN rs : RowFits(qs[j]) /\ (qs[j].status = "claimed" => rs[j].status = "claimed")
  BY <1>1 DEF Replaces, Follows
<1> HIDE DEF qs
<1>4. Follows(qs, m)
  BY <1>1, <1>2, <1>3 DEF Follows
<1> QED BY <1>4 DEF qs

\* A new row at the end of the chain keeps it.
LEMMA ChainAppend ==
  ASSUME NEW rs \in Seq(Row), ChainFits(rs), NEW q \in Row, q.status = "prepared"
  PROVE  ChainFits(Append(rs, q))
<1> DEFINE qs == Append(rs, q)
<1>1. /\ DOMAIN rs = 1..Len(rs) /\ DOMAIN qs = 1..(Len(rs) + 1) /\ Len(rs) \in Nat
      /\ \A j \in DOMAIN rs : qs[j] = rs[j]
      /\ qs[Len(rs) + 1] = q
  OBVIOUS
<1>2. RowFits(q) /\ q.status # "claimed"
  BY DEF RowFits, RetimeStatuses
<1> HIDE DEF qs
<1>3. ASSUME NEW j \in DOMAIN qs
      PROVE  /\ RowFits(qs[j])
             /\ (j # 0 /\ qs[j].status = "claimed") => j + 1 \in DOMAIN qs /\ qs[j + 1].pred = j
  <2>1. CASE j = Len(rs) + 1
    BY <1>1, <1>2, <2>1
  <2>2. CASE j # Len(rs) + 1
    <3>1. j \in DOMAIN rs
      BY <1>1, <2>2
    <3>2. /\ RowFits(rs[j])
          /\ rs[j].status = "claimed" => j + 1 \in DOMAIN rs /\ rs[j + 1].pred = j
      BY <3>1, <1>1 DEF ChainFits, Follows
    <3> QED BY <1>1, <3>1, <3>2
  <2> QED BY <2>1, <2>2
<1>4. ChainFits(qs)
  BY <1>3 DEF ChainFits, Follows
<1> QED BY <1>4 DEF qs

\* Whether the successor is new or was there already, row k has one afterwards
\* (prepareFreshClaimSuccessor, refreshUnconfirmedClaimSuccessorIfStale).
LEMMA ChainReserve ==
  ASSUME NEW rs \in Seq(Row), NEW k \in DOMAIN rs, Follows(rs, k), CanReserve(rs, k),
         NEW due \in Nat
  PROVE  ChainFits(Reserved(rs, k, due))
<1>0. k \in Nat \ {0} /\ DOMAIN rs = 1..Len(rs) /\ Len(rs) \in Nat
  OBVIOUS
<1>1. CASE SuccessorIn(rs, k) = {}
  <2> DEFINE q == NewRow("once", due, k)
             qs == Append(rs, q)
  <2>1. k = Len(rs) /\ Reserved(rs, k, due) = qs
    BY <1>1 DEF CanReserve, Reserved
  <2>2. q \in Row /\ q.pred = k /\ q.status = "prepared"
    BY <1>0, NewRowType DEF NewRow
  <2>3. RowFits(q) /\ q.status # "claimed"
    BY <2>2 DEF RowFits, RetimeStatuses
  <2> HIDE DEF q
  <2>4. /\ DOMAIN qs = 1..(k + 1) /\ qs[k + 1] = q
        /\ \A j \in DOMAIN rs : qs[j] = rs[j]
    BY <2>1, <2>2
  <2> HIDE DEF qs
  <2>5. ASSUME NEW j \in DOMAIN qs
        PROVE  /\ RowFits(qs[j])
               /\ (j # 0 /\ qs[j].status = "claimed") => j + 1 \in DOMAIN qs /\ qs[j + 1].pred = j
    <3>1. CASE j = k + 1
      BY <2>3, <2>4, <3>1
    <3>2. CASE j = k
      <4>1. RowFits(rs[k])
        BY DEF Follows
      <4> QED BY <1>0, <2>2, <2>4, <3>2, <4>1
    <3>3. CASE j # k /\ j # k + 1
      <4>1. j \in DOMAIN rs
        BY <1>0, <2>1, <2>4, <3>3
      <4>2. /\ RowFits(rs[j])
            /\ rs[j].status = "claimed" => j + 1 \in DOMAIN rs /\ rs[j + 1].pred = j
        BY <3>3, <4>1 DEF Follows
      <4> QED BY <1>0, <2>1, <2>4, <4>1, <4>2
    <3> QED BY <3>1, <3>2, <3>3
  <2> QED BY <2>1, <2>5 DEF ChainFits, Follows
<1>2. CASE SuccessorIn(rs, k) # {}
  <2>1. SuccessorIn(rs, k) = {k + 1}
    BY <1>2 DEF CanReserve
  <2>2. k + 1 \in DOMAIN rs /\ rs[k + 1].pred = k
    BY <2>1 DEF SuccessorIn
  <2>3. ChainFits(rs)
    BY <2>2 DEF ChainFits, Follows
  <2> DEFINE q == [Moved(rs[k + 1], "prepared") EXCEPT !.due = due]
  <2>4. Replaces(q, rs[k + 1])
    <3>1. rs[k + 1] \in Row
      BY <2>2
    <3> DEFINE p == Moved(rs[k + 1], "prepared")
    <3>2. p \in Row /\ p.status = "prepared" /\ p.pred = rs[k + 1].pred
      BY <3>1, MovedType, MovedFields DEF RowStatuses, LiveStatuses, FenceStatuses
    <3> HIDE DEF p
    <3>3. [p EXCEPT !.due = due] \in Row
      BY <3>2 DEF Row
    <3>4. [p EXCEPT !.due = due].status = "prepared" /\ [p EXCEPT !.due = due].pred = rs[k + 1].pred
      BY <3>2 DEF Row
    <3> QED BY <3>3, <3>4 DEF p, Replaces, RowFits, RetimeStatuses
  <2> HIDE DEF q
  <2>5. ChainFits([rs EXCEPT ![k + 1] = q])
    BY <2>2, <2>3, <2>4, ChainReplace DEF ChainFits
  <2> QED BY <1>2, <2>3, <2>5 DEF Reserved, q
<1> QED BY <1>1, <1>2

\* A transaction that writes one row keeps the chain when the row may replace
\* the old one.
LEMMA UpdateMoves ==
  ASSUME TypeOK, ChainInv, NEW g \in Goals, NEW k \in DOMAIN rows[g], NEW q,
         Replaces(q, rows[g][k]), rows' = [rows EXCEPT ![g] = WithRow(g, k, q)]
  PROVE  ChainMoves
<1>1. rows[g] \in Seq(Row) /\ ChainFits(rows[g])
  BY DEF TypeOK, ChainInv
<1>2. ChainFits(WithRow(g, k, q))
  BY <1>1, ChainReplace DEF ChainFits, WithRow
<1> QED BY <1>2 DEF ChainMoves

\* A row moved to a status that is neither claimed nor reschedule_* may
\* replace the old one, whatever else the transaction writes in it.
LEMMA QuietReplaces ==
  ASSUME NEW r \in Row, NEW st \in RowStatuses \ (RetimeStatuses \cup {"claimed"})
  PROVE  Replaces(Moved(r, st), r)
<1>1. Moved(r, st) \in Row
  BY MovedType
<1> QED BY <1>1, MovedFields DEF Replaces, RowFits


\* A retime asked by the worker, through refresh or expedite, names the time it
\* asks for, of a row that has a native task.
LEMMA RetimeReplaces ==
  ASSUME NEW r \in Row, r.native, NEW at \in Nat \ {0}
  PROVE  Replaces([Moved(r, "reschedule_required") EXCEPT !.pending = at], r)
<1> DEFINE p == Moved(r, "reschedule_required")
<1>1. p \in Row /\ p.status = "reschedule_required" /\ p.pred = r.pred /\ p.native
  BY MovedType, MovedFields DEF RowStatuses, LiveStatuses, FenceStatuses, RetimeStatuses
<1> HIDE DEF p
<1> DEFINE q == [p EXCEPT !.pending = at]
<1>2. q \in Row /\ q.status = "reschedule_required" /\ q.pred = r.pred /\ q.native /\ q.pending = at
  BY <1>1 DEF Row
<1> HIDE DEF q
<1>3. Replaces(q, r)
  BY <1>2 DEF Replaces, RowFits
<1> QED BY <1>3 DEF p, q

\* The worker's transactions: prepare appends a row, refresh and expedite
\* replace one.
LEMMA WorkerChain ==
  ASSUME TypeOK, ChainInv, NEW g \in Goals, NEW s \in Sessions, WorkerStep(s, g)
  PROVE  ChainMoves
<1> PICK tok \in TokensOf(s, g) :
        \/ \E T \in SUBSET Started, release \in BOOLEAN : Checkpoint(g, s, tok, T, release)
        \/ \E st \in TerminalStatuses \ {"cancelled"} : Finish(g, s, tok, revision[g], st, now)
        \/ \E T \in SUBSET Started, occ \in PrepareOccurrences, d \in FirstDelays :
                Prepare(g, s, tok, T, occ, d) \/ Refresh(g, s, tok, T, occ, d)
        \/ \E k \in DOMAIN rows[g], lead \in ExpediteLeads : Expedite(g, k, s, tok, lead)
        \/ \E c \in Calls : BeginCall(c, g, s, tok)
  BY DEF WorkerStep
<1>1. CASE \E T \in SUBSET Started, release \in BOOLEAN : Checkpoint(g, s, tok, T, release)
  BY <1>1 DEF Checkpoint, ChainMoves
<1>2. CASE \E st \in TerminalStatuses \ {"cancelled"} : Finish(g, s, tok, revision[g], st, now)
  BY <1>2 DEF Finish, Terminate, ChainMoves
<1>3. CASE \E T \in SUBSET Started, occ \in PrepareOccurrences, d \in FirstDelays :
              Prepare(g, s, tok, T, occ, d)
  <2> PICK T \in SUBSET Started, occ \in PrepareOccurrences, d \in FirstDelays :
              Prepare(g, s, tok, T, occ, d)
    BY <1>3
  <2> DEFINE q == NewRow(occ, now + d, 0)
  <2>1. q \in Row
    <3>1. now + d \in Nat /\ occ \in {"once", "interval"}
      BY LeaseFields
    <3> QED BY <3>1, NewRowType
  <2>2. q.status = "prepared"
    BY DEF NewRow
  <2>3. rows' = [rows EXCEPT ![g] = Append(rows[g], q)]
    BY DEF Prepare
  <2>4. rows[g] \in Seq(Row) /\ ChainFits(rows[g])
    BY DEF TypeOK, ChainInv
  <2> HIDE DEF q
  <2>5. ChainFits(Append(rows[g], q))
    BY <2>1, <2>2, <2>4, ChainAppend
  <2> QED BY <2>3, <2>5 DEF ChainMoves
<1>4. CASE \E T \in SUBSET Started, occ \in PrepareOccurrences, d \in FirstDelays :
              Refresh(g, s, tok, T, occ, d)
  <2> PICK T \in SUBSET Started, occ \in PrepareOccurrences, d \in FirstDelays :
              Refresh(g, s, tok, T, occ, d)
    BY <1>4
  <2> DEFINE Late(k) == [Moved(rows[g][k], "reschedule_required") EXCEPT !.pending = now + d]
  <2>1. PICK k \in DOMAIN rows[g] :
          \/ rows' = rows
          \/ rows[g][k].native /\ rows' = [rows EXCEPT ![g] = WithRow(g, k, Late(k))]
    BY DEF Refresh, Retimes
  <2>2. now + d \in Nat \ {0}
    BY LeaseFields
  <2>3. rows[g][k].native => Replaces(Late(k), rows[g][k])
    BY <2>2, RowFields, RetimeReplaces
  <2> HIDE DEF Late
  <2> QED BY <2>1, <2>3, UpdateMoves DEF ChainMoves
<1>5. CASE \E k \in DOMAIN rows[g], lead \in ExpediteLeads : Expedite(g, k, s, tok, lead)
  <2> PICK k \in DOMAIN rows[g], lead \in ExpediteLeads : Expedite(g, k, s, tok, lead)
    BY <1>5
  <2> DEFINE q == [Moved(rows[g][k], "reschedule_required") EXCEPT !.pending = now + lead]
  <2>1. rows[g][k].native /\ rows' = [rows EXCEPT ![g] = WithRow(g, k, q)]
    BY DEF Expedite, UpdateRow
  <2>2. now + lead \in Nat \ {0}
    BY LeaseFields
  <2>3. Replaces(q, rows[g][k])
    BY <2>1, <2>2, RowFields, RetimeReplaces
  <2> HIDE DEF q
  <2> QED BY <2>1, <2>3, UpdateMoves
<1>6. CASE \E c \in Calls : BeginCall(c, g, s, tok)
  BY <1>6 DEF BeginCall, ChainMoves
<1> QED BY <1>1, <1>2, <1>3, <1>4, <1>5, <1>6

\* Cancellation and the end of a goal move a row out of its retime.
LEMMA OwnerChain ==
  ASSUME TypeOK, ChainInv, NEW g \in Goals, OwnerStep(g)
  PROVE  ChainMoves
<1> DEFINE Quiet == RowStatuses \ (RetimeStatuses \cup {"claimed"})
<1>1. CASE Cancel(g)
  BY <1>1 DEF Cancel, Terminate, ChainMoves
<1>2. CASE CancelAgain(g)
  BY <1>2 DEF CancelAgain, ChainMoves
<1>3. CASE SetIdlePolicy(g)
  BY <1>3 DEF SetIdlePolicy, ChainMoves
<1>4. CASE MarkFinished(g, now)
  <2> PICK k \in DOMAIN rows[g] :
          rows' = [rows EXCEPT ![g] = WithRow(g, k, Moved(rows[g][k], FinishTarget(rows[g][k], now)))]
    BY <1>4 DEF MarkFinished, UpdateRow
  <2>1. FinishTarget(rows[g][k], now) \in Quiet
    BY DEF FinishTarget, RowStatuses, LiveStatuses, CancelStatuses, HistoricalStatuses, RetimeStatuses
  <2> QED BY <2>1, RowFields, QuietReplaces, UpdateMoves
<1>5. CASE \E k \in DOMAIN rows[g] : CancelContinuation(g, k)
  <2> PICK k \in DOMAIN rows[g] :
          rows' = [rows EXCEPT ![g] = WithRow(g, k, Moved(rows[g][k], CancelTarget(rows[g][k])))]
    BY <1>5 DEF CancelContinuation, UpdateRow
  <2>1. CancelTarget(rows[g][k]) \in Quiet
    BY DEF CancelTarget, RowStatuses, LiveStatuses, CancelStatuses, HistoricalStatuses, RetimeStatuses
  <2> QED BY <2>1, RowFields, QuietReplaces, UpdateMoves
<1> QED BY <1>1, <1>2, <1>3, <1>4, <1>5 DEF OwnerStep

\* An acquisition, evidence, a fenced call, the clock and the tasks leave the
\* rows alone.
LEMMA OtherChain ==
  ASSUME \/ \E s \in Sessions, g \in Goals : AcquireStep(s, g)
         \/ \E s \in Observers : EvidenceStep(s)
         \/ CallStep
         \/ EnvStep
  PROVE  ChainMoves
<1>1. CASE \E s \in Sessions, g \in Goals : AcquireStep(s, g)
  BY <1>1 DEF AcquireStep, Create, AcquireFree, AcquireStale, RecoverBlocked, ChainMoves
<1>2. CASE \E s \in Observers : EvidenceStep(s)
  <2> PICK s \in Observers : EvidenceStep(s)
    BY <1>2
  <2>1. CASE \E g \in Goals : ReadGoal(s, g)
    BY <2>1 DEF ReadGoal, ChainMoves
  <2>2. CASE \E g \in Goals : Reconcile(g, s)
    BY <2>2 DEF Reconcile, Terminate, ChainMoves
  <2>3. CASE ObserveFence(s)
    BY <2>3 DEF ObserveFence, ChainMoves
  <2>4. CASE \E doubt \in BOOLEAN : ReadTasks(s, doubt)
    BY <2>4 DEF ReadTasks, ChainMoves
  <2>5. CASE DropEvidence(s)
    BY <2>5 DEF DropEvidence, ChainMoves
  <2> QED BY <2>1, <2>2, <2>3, <2>4, <2>5 DEF EvidenceStep
<1>3. CASE CallStep
  BY <1>3 DEF CallStep, HeartbeatCall, EndCall, ChainMoves
<1>4. CASE EnvStep
  BY <1>4 DEF EnvStep, Tick, TaskStep, ChainMoves
<1> QED BY <1>1, <1>2, <1>3, <1>4


\* A receipt replaces its row: an unsettled retime needs the native task and
\* the pending time it speaks of, every other outcome leaves the retime
\* (recordScheduledContinuationReceipt).
LEMMA ReceiptReplaces ==
  ASSUME NEW r \in Row, NEW out \in Outcomes,
         NEW q \in Row, q.pred = r.pred, q.status = ReceiptStatus(out),
         out \in {"reschedule_failed", "reschedule_uncertain"} => q.native /\ q.pending # 0
  PROVE  Replaces(q, r)
<1>1. out \in ReceiptOutcomes
  OBVIOUS
<1>2. ReceiptStatus(out) # "claimed"
  <2>1. CASE out \in {"created", "rescheduled"}
    BY <2>1 DEF ReceiptStatus
  <2>2. CASE out = "consumed"
    BY <2>2 DEF ReceiptStatus
  <2>3. CASE out \notin {"created", "rescheduled", "consumed"}
    BY <1>1, <2>3 DEF ReceiptStatus, ReceiptOutcomes
  <2> QED BY <2>1, <2>2, <2>3
<1>3. ReceiptStatus(out) \in RetimeStatuses => out \in {"reschedule_failed", "reschedule_uncertain"}
  <2>1. CASE out \in {"created", "rescheduled"}
    BY <2>1 DEF ReceiptStatus, RetimeStatuses
  <2>2. CASE out = "consumed"
    BY <2>2 DEF ReceiptStatus, RetimeStatuses
  <2>3. CASE out \notin {"created", "rescheduled", "consumed"}
    BY <1>1, <2>3 DEF ReceiptStatus, ReceiptOutcomes, RetimeStatuses
  <2> QED BY <2>1, <2>2, <2>3
<1> QED BY <1>2, <1>3 DEF Replaces, RowFits

\* Every receipt keeps the chain.
LEMMA ReceiptChain ==
  ASSUME TypeOK, ChainInv, NEW g \in Goals, NEW k \in DOMAIN rows[g], ReceiptStep(g, k)
  PROVE  ChainMoves
<1> DEFINE r == rows[g][k]
           q(out) == Moved(r, ReceiptStatus(out))
<1>0. r \in Row /\ EffectiveDue(r) \in Nat
  BY RowFields
<1>q. ASSUME NEW out \in Outcomes
      PROVE  /\ q(out) \in Row /\ q(out).status = ReceiptStatus(out) /\ q(out).pred = r.pred
             /\ q(out).native = r.native /\ q(out).pending = r.pending
  BY <1>0, ReceiptStatusType, MovedType, MovedFields
<1>c. ASSUME NEW m PROVE Confirmed(r, m) \in BOOLEAN
  BY <1>0, ConfirmedType
<1>u. ASSUME NEW p, Replaces(p, r), UpdateRow(g, k, p) PROVE ChainMoves
  BY <1>u, UpdateMoves DEF UpdateRow
<1>1. CASE ReceiveCreated(g, k)
  <2> DEFINE p == [q("created") EXCEPT !.native = TRUE, !.confirmed = TRUE]
  <2>1. "created" \in Outcomes /\ UpdateRow(g, k, p)
    BY <1>1 DEF ReceiveCreated
  <2>2. p \in Row /\ p.status = ReceiptStatus("created") /\ p.pred = r.pred
    <3> HIDE DEF q, r
    <3>1. /\ q("created") \in Row /\ q("created").status = ReceiptStatus("created")
          /\ q("created").pred = r.pred
      BY <1>q, <2>1
    <3> QED BY <3>1 DEF Row
  <2> HIDE DEF p, r
  <2> QED BY <1>0, <1>u, <2>1, <2>2, ReceiptReplaces
<1>2. CASE \E m \in RunModes : ReceiveRescheduled(g, k, m)
  <2> PICK m \in RunModes : ReceiveRescheduled(g, k, m)
    BY <1>2
  <2> DEFINE p == [q("rescheduled") EXCEPT !.due = EffectiveDue(r), !.pending = 0,
                          !.retimes = @ + 1, !.confirmed = Confirmed(r, m)]
  <2>1. "rescheduled" \in Outcomes /\ UpdateRow(g, k, p)
    BY DEF ReceiveRescheduled
  <2>2. p \in Row /\ p.status = ReceiptStatus("rescheduled") /\ p.pred = r.pred
    <3> HIDE DEF q, r
    <3>1. /\ q("rescheduled") \in Row /\ q("rescheduled").status = ReceiptStatus("rescheduled")
          /\ q("rescheduled").pred = r.pred
      BY <1>q, <2>1
    <3>2. q("rescheduled").retimes + 1 \in Nat
      BY <3>1 DEF Row
    <3>3. Confirmed(r, m) \in BOOLEAN
      BY <1>c
    <3> QED BY <1>0, <3>1, <3>2, <3>3 DEF Row
  <2> HIDE DEF p, r
  <2> QED BY <1>0, <1>u, <2>1, <2>2, ReceiptReplaces
<1>3. CASE \E m \in RunModes, out \in Outcomes : ReceiveRetimeUnsettled(g, k, out, m)
  <2> PICK m \in RunModes, out \in Outcomes : ReceiveRetimeUnsettled(g, k, out, m)
    BY <1>3
  <2> DEFINE p == [q(out) EXCEPT !.confirmed = Confirmed(r, m)]
  <2>1. r.native /\ r.pending # 0 /\ UpdateRow(g, k, p)
    BY DEF ReceiveRetimeUnsettled
  <2>2. /\ p \in Row /\ p.status = ReceiptStatus(out) /\ p.pred = r.pred
        /\ p.native = r.native /\ p.pending = r.pending
    <3> HIDE DEF q, r
    <3>1. /\ q(out) \in Row /\ q(out).status = ReceiptStatus(out) /\ q(out).pred = r.pred
          /\ q(out).native = r.native /\ q(out).pending = r.pending
          /\ Confirmed(r, m) \in BOOLEAN
      BY <1>q, <1>c
    <3> QED BY <3>1 DEF Row
  <2> HIDE DEF p, r
  <2> QED BY <1>0, <1>u, <2>1, <2>2, ReceiptReplaces
<1>4. CASE \E m \in RunModes : ReceiveConsumed(g, k, m)
  <2> PICK m \in RunModes : ReceiveConsumed(g, k, m)
    BY <1>4
  <2> DEFINE p == [q("consumed") EXCEPT !.pending = 0, !.confirmed = Confirmed(r, m)]
  <2>1. "consumed" \in Outcomes /\ UpdateRow(g, k, p)
    BY DEF ReceiveConsumed
  <2>2. p \in Row /\ p.status = ReceiptStatus("consumed") /\ p.pred = r.pred
    <3> HIDE DEF q, r
    <3>1. /\ q("consumed") \in Row /\ q("consumed").status = ReceiptStatus("consumed")
          /\ q("consumed").pred = r.pred
          /\ Confirmed(r, m) \in BOOLEAN
      BY <1>q, <1>c, <2>1
    <3> QED BY <3>1 DEF Row
  <2> HIDE DEF p, r
  <2> QED BY <1>0, <1>u, <2>1, <2>2, ReceiptReplaces
<1>5. CASE \E m \in RunModes : ReceiveCancelled(g, k, m)
  <2> PICK m \in RunModes : ReceiveCancelled(g, k, m)
    BY <1>5
  <2> DEFINE p == [q("cancelled") EXCEPT !.confirmed = Confirmed(r, m)]
  <2>1. "cancelled" \in Outcomes /\ UpdateRow(g, k, p)
    BY DEF ReceiveCancelled
  <2>2. p \in Row /\ p.status = ReceiptStatus("cancelled") /\ p.pred = r.pred
    <3> HIDE DEF q, r
    <3>1. /\ q("cancelled") \in Row /\ q("cancelled").status = ReceiptStatus("cancelled")
          /\ q("cancelled").pred = r.pred
          /\ Confirmed(r, m) \in BOOLEAN
      BY <1>q, <1>c, <2>1
    <3> QED BY <3>1 DEF Row
  <2> HIDE DEF p, r
  <2> QED BY <1>0, <1>u, <2>1, <2>2, ReceiptReplaces
<1>6. CASE \E m \in RunModes, out \in Outcomes : ReceiveCancelUnsettled(g, k, out, m)
  <2> PICK m \in RunModes, out \in Outcomes : ReceiveCancelUnsettled(g, k, out, m)
    BY <1>6
  <2> DEFINE p == [q(out) EXCEPT !.confirmed = Confirmed(r, m)]
  <2>1. out \in {"cancel_failed", "cancel_uncertain"} /\ UpdateRow(g, k, p)
    BY DEF ReceiveCancelUnsettled
  <2>2. p \in Row /\ p.status = ReceiptStatus(out) /\ p.pred = r.pred
    <3> HIDE DEF q, r
    <3>1. /\ q(out) \in Row /\ q(out).status = ReceiptStatus(out) /\ q(out).pred = r.pred
          /\ q(out).native = r.native /\ q(out).pending = r.pending
          /\ Confirmed(r, m) \in BOOLEAN
      BY <1>q, <1>c
    <3> QED BY <3>1 DEF Row
  <2> HIDE DEF p, r
  <2> QED BY <1>0, <1>u, <2>1, <2>2, ReceiptReplaces
<1>7. CASE \E m \in RunModes, out \in Outcomes, named \in BOOLEAN :
              ReceiveCreateUnsettled(g, k, out, named, m)
  <2> PICK m \in RunModes, out \in Outcomes, named \in BOOLEAN :
              ReceiveCreateUnsettled(g, k, out, named, m)
    BY <1>7
  <2> DEFINE p == [q(out) EXCEPT !.native = @ \/ named, !.confirmed = Confirmed(r, m)]
  <2>1. out \in {"create_failed", "create_uncertain"} /\ UpdateRow(g, k, p)
    BY DEF ReceiveCreateUnsettled
  <2>2. p \in Row /\ p.status = ReceiptStatus(out) /\ p.pred = r.pred
    <3> HIDE DEF q, r
    <3>1. /\ q(out) \in Row /\ q(out).status = ReceiptStatus(out) /\ q(out).pred = r.pred
          /\ Confirmed(r, m) \in BOOLEAN
      BY <1>q, <1>c
    <3>2. (q(out).native \/ named) \in BOOLEAN
      OBVIOUS
    <3> QED BY <3>1, <3>2 DEF Row
  <2> HIDE DEF p, r
  <2> QED BY <1>0, <1>u, <2>1, <2>2, ReceiptReplaces
<1> QED BY <1>1, <1>2, <1>3, <1>4, <1>5, <1>6, <1>7 DEF ReceiptStep


\* The rows with row k retired, or claimed and not yet succeeded, still fit
\* everywhere else.
LEMMA RetiredFollows ==
  ASSUME TypeOK, ChainInv, NEW g \in Goals, NEW k \in DOMAIN rows[g],
         NEW q \in Row, q.pred = rows[g][k].pred, q.status \in {"claimed", "superseded"}
  PROVE  Follows(WithRow(g, k, q), k)
<1> DEFINE rs == rows[g]
           qs == WithRow(g, k, q)
<1>1. rs \in Seq(Row) /\ ChainFits(rs)
  BY DEF TypeOK, ChainInv
<1>2. DOMAIN qs = DOMAIN rs /\ \A j \in DOMAIN rs : qs[j] = IF j = k THEN q ELSE rs[j]
  BY <1>1 DEF WithRow
<1>3. RowFits(q) /\ 0 \notin DOMAIN rs
  BY <1>1 DEF RowFits, RetimeStatuses
<1>4. \A j \in DOMAIN rs : qs[j].pred = rs[j].pred
  BY <1>2
<1> HIDE DEF qs, rs
<1>5. Follows(qs, k)
  BY <1>1, <1>2, <1>3, <1>4 DEF ChainFits, Follows
<1> QED BY <1>5 DEF qs

\* A collision retires the firing row and leaves the successor reserved.
LEMMA CollideChain ==
  ASSUME TypeOK, ChainInv, NEW g \in Goals, NEW k \in DOMAIN rows[g], NEW probe \in Probe,
         Collide(g, k, probe)
  PROVE  ChainMoves
<1> DEFINE r == rows[g][k]
           q == [Moved(r, "superseded") EXCEPT !.pending = 0, !.retimes = @ + 1, !.probe = probe]
           rs == WithRow(g, k, q)
           due == now + CollisionDelay(g, r, probe.at # 0)
           after == Reserved(rs, k, due)
           heir == [after[k + 1] EXCEPT !.retimes = r.retimes + 1, !.probe = probe]
<1>1. q \in Row /\ q.pred = r.pred /\ q.status = "superseded"
  <2>1. r \in Row
    BY RowFields
  <2>2. q \in Row
    BY <2>1, CollidedRow
  <2> DEFINE p == Moved(r, "superseded")
  <2>3. p \in Row /\ p.pred = r.pred /\ p.status = "superseded"
    BY <2>1, MovedType, MovedFields DEF RowStatuses, HistoricalStatuses
  <2> HIDE DEF p, r
  <2>4. LET x == [p EXCEPT !.pending = 0, !.retimes = @ + 1, !.probe = probe]
        IN  x.pred = r.pred /\ x.status = "superseded"
    BY <2>3 DEF Row
  <2> QED BY <2>2, <2>4 DEF p
<1>2. CanReserve(rs, k) /\ rows' = [rows EXCEPT ![g] = [after EXCEPT ![k + 1] = heir]]
  BY DEF Collide
<1>3. due \in Nat /\ r.retimes \in Nat
  BY CollisionDelayNat, RowFields
<1> HIDE DEF q, r, due
<1>4. rs \in Seq(Row) /\ k \in DOMAIN rs
  BY <1>1, RetiredRows
<1>5. Follows(rs, k)
  BY <1>1, RetiredFollows DEF r
<1> HIDE DEF rs
<1>6. after \in Seq(Row) /\ k + 1 \in DOMAIN after /\ ChainFits(after)
  BY <1>2, <1>3, <1>4, <1>5, ReservedType, ChainReserve
<1> HIDE DEF after
<1>7. after[k + 1] \in Row /\ RowFits(after[k + 1])
  BY <1>6 DEF ChainFits, Follows
<1>8. /\ heir \in Row /\ heir.pred = after[k + 1].pred /\ heir.status = after[k + 1].status
      /\ heir.native = after[k + 1].native /\ heir.pending = after[k + 1].pending
  <2> DEFINE a == after[k + 1]
             n == r.retimes + 1
  <2>1. a \in Row /\ n \in Nat
    BY <1>3, <1>7
  <2> HIDE DEF a, n
  <2>2. LET h == [a EXCEPT !.retimes = n, !.probe = probe]
        IN  /\ h \in Row /\ h.pred = a.pred /\ h.status = a.status
            /\ h.native = a.native /\ h.pending = a.pending
    BY <2>1 DEF Row
  <2> QED BY <2>2 DEF a, n
<1>9. Replaces(heir, after[k + 1])
  <2> HIDE DEF heir
  <2> QED BY <1>7, <1>8 DEF Replaces, RowFits
<1>10. ChainFits([after EXCEPT ![k + 1] = heir])
  <2> HIDE DEF heir
  <2> QED BY <1>6, <1>9, ChainReplace DEF ChainFits
<1> QED BY <1>2, <1>10 DEF ChainMoves

\* A wake that takes over claims its row and reserves the successor in one
\* transaction; one that comes back finds or recovers it.
LEMMA WakeChain ==
  ASSUME TypeOK, ChainInv, NEW g \in Goals, NEW s \in Sessions,
         NEW k \in DOMAIN rows[g], WakeStep(s, g, k)
  PROVE  ChainMoves
<1>0. rows[g][k] \in Row /\ rows[g][k].probe.at \in Nat
  BY RowFields DEF Row, Probe
<1>1. CASE ClaimUntimely(g, k)
  <2>1. NoProbe \in Probe /\ ProbeAt(g, rows[g][k].probe.at) \in Probe
    BY <1>0, ProbeAtType DEF NoProbe, Probe
  <2>2. PICK probe \in Probe : Collide(g, k, probe)
    BY <1>1, <2>1 DEF ClaimUntimely
  <2> QED BY <2>2, CollideChain
<1>2. CASE ClaimTerminal(g, k)
  <2>1. Replaces(Moved(rows[g][k], "terminal_noop"), rows[g][k])
    BY <1>0, QuietReplaces DEF RowStatuses, HistoricalStatuses, RetimeStatuses
  <2> QED BY <1>2, <2>1, UpdateMoves DEF ClaimTerminal, UpdateRow
<1>3. CASE ClaimRecurringCleanup(g, k)
  BY <1>3 DEF ClaimRecurringCleanup, ChainMoves
<1>4. CASE ClaimCollision(s, g, k)
  <2>1. PICK e \in obs[s] :
          Collide(g, k, ProbeAt(g, IF ~ConfirmedInactive(g, e) THEN 0
                                   ELSE IF Probed(g, rows[g][k]) THEN rows[g][k].probe.at ELSE now))
    BY <1>4 DEF ClaimCollision
  <2>2. PICK probe \in Probe : Collide(g, k, probe)
    BY <1>0, <2>1, ProbeAtType, LeaseFields
  <2> QED BY <2>2, CollideChain
<1>5. CASE ClaimRecurringBusy(s, g, k)
  BY <1>5 DEF ClaimRecurringBusy, ChainMoves
<1>6. CASE \E term \in LeaseTerms : ClaimTakeover(s, g, k, term)
  <2> PICK term \in LeaseTerms : ClaimTakeover(s, g, k, term)
    BY <1>6
  <2> DEFINE q == [Moved(rows[g][k], "claimed") EXCEPT !.pending = 0, !.probe = NoProbe]
             rs == WithRow(g, k, q)
             due == now + ClaimDelay(term)
  <2>1. CanReserve(rs, k) /\ rows' = [rows EXCEPT ![g] = Reserved(rs, k, due)]
    BY DEF ClaimTakeover
  <2>2. q \in Row /\ q.pred = rows[g][k].pred /\ q.status = "claimed"
    <3>1. q \in Row
      BY <1>0, ClaimedRow
    <3> DEFINE p == Moved(rows[g][k], "claimed")
    <3>2. p \in Row /\ p.pred = rows[g][k].pred /\ p.status = "claimed"
      BY <1>0, MovedType, MovedFields DEF RowStatuses, HistoricalStatuses
    <3> HIDE DEF p
    <3>3. LET x == [p EXCEPT !.pending = 0, !.probe = NoProbe]
          IN  x.pred = rows[g][k].pred /\ x.status = "claimed"
      BY <3>2 DEF Row
    <3> QED BY <3>1, <3>3 DEF p
  <2>3. due \in Nat
    BY ClaimDelayNat
  <2> HIDE DEF q, due
  <2>4. rs \in Seq(Row) /\ k \in DOMAIN rs /\ Follows(rs, k)
    BY <2>2, RetiredRows, RetiredFollows
  <2> HIDE DEF rs
  <2>5. ChainFits(Reserved(rs, k, due))
    BY <2>1, <2>3, <2>4, ChainReserve
  <2> QED BY <2>1, <2>5 DEF ChainMoves
<1>7. CASE \E term \in LeaseTerms : ClaimRetired(g, k, term)
  <2> PICK term \in LeaseTerms : ClaimRetired(g, k, term)
    BY <1>7
  <2> DEFINE due == now + ClaimDelay(term)
  <2>1. CanReserve(rows[g], k) /\ rows' = [rows EXCEPT ![g] = Reserved(rows[g], k, due)]
    BY DEF ClaimRetired
  <2>2. due \in Nat /\ rows[g] \in Seq(Row) /\ ChainFits(rows[g])
    BY ClaimDelayNat DEF TypeOK, ChainInv
  <2>3. Follows(rows[g], k)
    <3>1. 0 \notin DOMAIN rows[g]
      BY <2>2
    <3> QED BY <2>2, <3>1 DEF ChainFits, Follows
  <2> HIDE DEF due
  <2>4. ChainFits(Reserved(rows[g], k, due))
    BY <2>1, <2>2, <2>3, ChainReserve
  <2> QED BY <2>1, <2>4 DEF ChainMoves
<1>8. CASE \E term \in LeaseTerms : ClaimRecurringTakeover(s, g, k, term)
  BY <1>8 DEF ClaimRecurringTakeover, ChainMoves
<1> QED BY <1>1, <1>2, <1>3, <1>4, <1>5, <1>6, <1>7, <1>8 DEF WakeStep

\* Every transaction keeps the rows of every goal in a fitting chain.
LEMMA ChainStep ==
  ASSUME TypeOK, ChainInv, [Next]_vars
  PROVE  ChainInv'
<1>1. CASE Next
  <2>1. ChainMoves
    BY <1>1, WorkerChain, OwnerChain, ReceiptChain, WakeChain, OtherChain DEF Next
  <2> QED BY <2>1 DEF ChainMoves, ChainInv, TypeOK
<1>2. CASE UNCHANGED vars
  BY <1>2 DEF vars, ChainInv
<1> QED BY <1>1, <1>2

\* The chain of rows fits in every reachable database.
THEOREM ChainHolds == Spec => []ChainInv
<1>1. Init => ChainInv
  BY DEF Init, ChainInv, ChainFits, Follows
<1>2. LeaseInv /\ ChainInv /\ [Next]_vars => ChainInv'
  BY ChainStep DEF LeaseInv
<1> QED BY <1>1, <1>2, LeaseInvHolds, PTL DEF Spec

\* A claimed one-time wake has its successor, through every order of claims,
\* collisions, duplicate wakes and late receipts: an active goal never loses
\* its future wake by firing one.
THEOREM WakesAreSucceeded == Spec => []ClaimedHasSuccessor
<1>1. LeaseInv /\ ChainInv => ClaimedHasSuccessor
  <2> SUFFICES ASSUME LeaseInv, ChainInv, NEW g \in Goals, NEW k \in DOMAIN rows[g],
                      rows[g][k].status = "claimed"
               PROVE  k + 1 \in DOMAIN rows[g] /\ rows[g][k + 1].pred = k
    BY DEF ClaimedHasSuccessor
  <2>1. k # 0
    BY DEF LeaseInv, TypeOK
  <2> QED BY <2>1 DEF ChainInv, ChainFits, Follows
<1> QED BY <1>1, LeaseInvHolds, ChainHolds, PTL

\* No transaction has to be rejected by the CHECK constraint on reschedule_*
\* rows: each has its native task and the time it was asked for.
THEOREM RetimesStayBound == Spec => []RetimeIsBound
<1>1. ChainInv => RetimeIsBound
  BY DEF ChainInv, ChainFits, Follows, RowFits, RetimeIsBound
<1> QED BY <1>1, ChainHolds, PTL

-----------------------------------------------------------------------------
(* Evidence stays true until its goal moves. *)

\* What a request observed of the fence table: while generation and activity
\* are as it saw them, no fenced call has become live.
Observed(e) ==
    /\ e.seenGeneration <= generation[e.goal]
    /\ e.seenGeneration = generation[e.goal] =>
         /\ e.seenSeq <= seq[e.goal]
         /\ (e.seenSeq = seq[e.goal] /\ e.quiet) => LiveCalls(e.goal) = {}
\* What it read of the goal and of its tasks: while the revision stands, the
\* tasks of an active goal are among those it asked about, and a task it saw
\* idle has ended for good.
Sound(e) ==
    /\ e.since <= now
    /\ status[e.goal] # "absent"
    /\ e.revision <= revision[e.goal]
    /\ (e.revision = revision[e.goal] /\ IsActive(e.goal)) => tasks[e.goal] \subseteq e.listed
    /\ e.listed \subseteq Started
    /\ \A t \in e.idle : task[t] = "ended"
    /\ e.stage # "goal" => Observed(e)
\* Only started tasks are tracked, and every request holds sound evidence.
Tracked == \A g \in Goals : tasks[g] \subseteq Started /\ ever[g] \subseteq Started
EvidenceInv == Tracked /\ \A s \in Sessions : \A e \in obs[s] : Sound(e)


\* What a step does to goal x that evidence about x depends on: any change of
\* the tracked tasks moves the revision, and any call that becomes live moves
\* the activity sequence or the generation.
KeepsAt(x) ==
    /\ status[x] # "absent" => status'[x] # "absent"
    /\ \/ revision[x] < revision'[x]
       \/ /\ revision'[x] = revision[x] /\ tasks'[x] = tasks[x]
          /\ status'[x] = "active" => status[x] \in {"active", "absent"}
    /\ \/ generation[x] < generation'[x]
       \/ /\ generation'[x] = generation[x]
          /\ \/ seq[x] < seq'[x]
             \/ seq'[x] = seq[x] /\ {c \in calls' : c.goal = x} \subseteq calls
    /\ tasks'[x] \subseteq tasks[x] \cup Started
    /\ ever'[x] \subseteq ever[x] \cup Started
\* Time does not go back, and a task that started or ended stays so.
TasksKeep ==
    /\ now' \in Nat /\ now <= now'
    /\ \A t \in Tasks : /\ task[t] # "new" => task'[t] # "new"
                        /\ task[t] = "ended" => task'[t] = "ended"
Keeps == TasksKeep /\ \A x \in Goals : KeepsAt(x)

\* Each field of collected evidence has its type.
LEMMA EvidenceFields ==
  ASSUME NEW e \in Evidence
  PROVE  /\ e.goal \in Goals /\ e.revision \in Nat /\ e.since \in Nat
         /\ e.seenGeneration \in Nat /\ e.seenSeq \in Nat /\ e.generation \in Nat /\ e.seq \in Nat
         /\ e.listed \subseteq Tasks /\ e.idle \subseteq Tasks
         /\ e.quiet \in BOOLEAN /\ e.stage \in {"goal", "fence", "tasks"}
  BY DEF Evidence

\* Columns evidence is compared with are numbers.
LEMMA GoalNumbers ==
  ASSUME TypeOK, NEW x \in Goals
  PROVE  /\ revision[x] \in Nat /\ generation[x] \in Nat /\ seq[x] \in Nat /\ now \in Nat
         /\ tasks[x] \subseteq Tasks /\ ever[x] \subseteq Tasks
  BY DEF TypeOK

\* Evidence that was sound stays sound.
LEMMA SoundKept ==
  ASSUME TypeOK, TypeOK', Keeps, NEW e \in Evidence, Sound(e)
  PROVE  Sound(e)'
<1> DEFINE x == e.goal
<1>0. x \in Goals /\ KeepsAt(x) /\ TasksKeep
  BY EvidenceFields DEF Keeps
<1>1. /\ revision[x] \in Nat /\ generation[x] \in Nat /\ seq[x] \in Nat /\ now \in Nat
      /\ revision'[x] \in Nat /\ generation'[x] \in Nat /\ seq'[x] \in Nat /\ now' \in Nat
  BY <1>0 DEF TypeOK
<1>2. e.since <= now' /\ status'[x] # "absent" /\ e.revision <= revision'[x]
  BY <1>0, <1>1, EvidenceFields DEF Sound, KeepsAt, TasksKeep
<1>3. (e.revision = revision'[x] /\ status'[x] = "active") => tasks'[x] \subseteq e.listed
  <2> SUFFICES ASSUME e.revision = revision'[x], status'[x] = "active"
               PROVE  tasks'[x] \subseteq e.listed
    OBVIOUS
  <2>1. revision'[x] = revision[x] /\ tasks'[x] = tasks[x] /\ status[x] \in {"active", "absent"}
    BY <1>0, <1>1, EvidenceFields DEF Sound, KeepsAt
  <2> QED BY <2>1 DEF Sound, IsActive
<1>4. e.listed \subseteq Started'
  BY <1>0, EvidenceFields DEF Sound, TasksKeep, Started
<1>5. \A t \in e.idle : task'[t] = "ended"
  BY <1>0, EvidenceFields DEF Sound, TasksKeep
<1>6. ASSUME e.stage # "goal" PROVE Observed(e)'
  <2>1. Observed(e)
    BY <1>6 DEF Sound
  <2>2. e.seenGeneration <= generation'[x]
    BY <1>0, <1>1, <2>1, EvidenceFields DEF Observed, KeepsAt
  <2>3. ASSUME e.seenGeneration = generation'[x]
        PROVE  /\ e.seenSeq <= seq'[x]
               /\ (e.seenSeq = seq'[x] /\ e.quiet) => LiveCalls(x)' = {}
    <3>1. generation'[x] = generation[x] /\ e.seenSeq <= seq[x]
      BY <1>0, <1>1, <2>1, <2>3, EvidenceFields DEF Observed, KeepsAt
    <3>2. e.seenSeq <= seq'[x]
      BY <1>0, <1>1, <3>1, EvidenceFields DEF KeepsAt
    <3>3. ASSUME e.seenSeq = seq'[x], e.quiet PROVE LiveCalls(x)' = {}
      <4>1. seq'[x] = seq[x] /\ {c \in calls' : c.goal = x} \subseteq calls
        BY <1>0, <1>1, <3>1, <3>3, EvidenceFields DEF KeepsAt
      <4>2. LiveCalls(x) = {}
        BY <2>1, <2>3, <3>1, <3>3, <4>1 DEF Observed
      <4>3. LiveCalls(x)' \subseteq LiveCalls(x)
        <5>1. ASSUME NEW c \in calls', c.goal = x, c.generation = generation'[x], c.expires > now'
              PROVE  c \in LiveCalls(x)
          <6>1. c \in calls
            BY <4>1, <5>1
          <6>2. c.expires \in Nat
            BY <6>1 DEF TypeOK, Call
          <6>3. c.expires > now
            BY <1>0, <1>1, <5>1, <6>2 DEF TasksKeep
          <6> QED BY <3>1, <5>1, <6>1, <6>3 DEF LiveCalls
        <5> QED BY <5>1 DEF LiveCalls
      <4> QED BY <4>2, <4>3
    <3> QED BY <3>2, <3>3
  <2> QED BY <2>2, <2>3 DEF Observed
<1> QED BY <1>2, <1>3, <1>4, <1>5, <1>6 DEF Sound, IsActive

\* Tracked tasks stay started ones.
LEMMA TrackedKept ==
  ASSUME TypeOK, Keeps, Tracked
  PROVE  Tracked'
<1>1. Started \subseteq Started'
  BY DEF Keeps, TasksKeep, Started
<1> QED BY <1>1 DEF Tracked, Keeps, KeepsAt


-----------------------------------------------------------------------------
(* Every step keeps evidence. *)

\* The columns evidence depends on, of the goals other than g.
OthersKept(g) ==
    \A x \in Goals \ {g} :
        /\ status'[x] = status[x] /\ revision'[x] = revision[x] /\ generation'[x] = generation[x]
        /\ seq'[x] = seq[x] /\ tasks'[x] = tasks[x] /\ ever'[x] = ever[x]
        /\ {c \in calls' : c.goal = x} \subseteq calls
Timeless == UNCHANGED <<now, task>>
\* A transaction that touches none of them.
Still == Timeless /\ UNCHANGED <<status, revision, generation, seq, tasks, ever, calls>>

\* A transaction on one goal keeps evidence when it keeps evidence on that goal.
LEMMA OneGoalKeeps ==
  ASSUME TypeOK, Timeless, NEW g \in Goals, KeepsAt(g), OthersKept(g)
  PROVE  Keeps
<1>1. TasksKeep
  BY DEF Timeless, TasksKeep, TypeOK
<1>2. ASSUME NEW x \in Goals, x # g PROVE KeepsAt(x)
  BY <1>2, GoalNumbers DEF OthersKept, KeepsAt
<1> QED BY <1>1, <1>2 DEF Keeps

\* A transaction on none of these columns keeps evidence.
LEMMA StillKeeps ==
  ASSUME TypeOK, Still
  PROVE  Keeps
<1>1. TasksKeep
  BY DEF Still, Timeless, TasksKeep, TypeOK
<1>2. ASSUME NEW x \in Goals PROVE KeepsAt(x)
  BY GoalNumbers DEF Still, KeepsAt
<1> QED BY <1>1, <1>2 DEF Keeps

\* A hand-over moves the generation.
LEMMA GrantKeeps ==
  ASSUME TypeOK, NEW g \in Goals, NEW s, NEW term, NEW at, Grant(g, s, term, at),
         Timeless, UNCHANGED <<tasks, ever, calls>>,
         status' = [status EXCEPT ![g] = "active"],
         \/ status[g] \in {"active", "absent"} /\ revision' = revision
         \/ revision' = [revision EXCEPT ![g] = @ + 1]
  PROVE  Keeps
<1>1. generation'[g] = generation[g] + 1 /\ status'[g] = "active"
  BY DEF Grant, NextGeneration, TypeOK
<1>2. KeepsAt(g)
  BY <1>1, GoalNumbers DEF KeepsAt, TypeOK
<1>3. OthersKept(g)
  BY DEF OthersKept, Grant, TypeOK
<1> QED BY <1>2, <1>3, OneGoalKeeps

\* The end of a goal moves its revision and adds no call.
LEMMA TerminateKeeps ==
  ASSUME TypeOK, NEW g \in Goals, NEW st \in TerminalStatuses, Terminate(g, st), Timeless,
         UNCHANGED <<generation, seq, ever>>, calls' \subseteq calls
  PROVE  Keeps
<1>1. revision'[g] = revision[g] + 1 /\ tasks'[g] = {} /\ status'[g] = st
  BY DEF Terminate, TypeOK
<1>2. KeepsAt(g)
  BY <1>1, GoalNumbers DEF KeepsAt, TerminalStatuses
<1>3. OthersKept(g)
  BY DEF OthersKept, Terminate, TypeOK
<1> QED BY <1>2, <1>3, OneGoalKeeps

\* An admitted or renewed call moves the activity sequence of its goal.
LEMMA ActivityKeeps ==
  ASSUME TypeOK, NEW g \in Goals, seq' = [seq EXCEPT ![g] = @ + 1], Timeless,
         UNCHANGED <<status, revision, generation, tasks, ever>>,
         \A c \in calls' : c.goal = g \/ c \in calls
  PROVE  Keeps
<1>1. seq'[g] = seq[g] + 1
  BY DEF TypeOK
<1>2. KeepsAt(g)
  BY <1>1, GoalNumbers DEF KeepsAt
<1>3. OthersKept(g)
  BY DEF OthersKept, TypeOK
<1> QED BY <1>2, <1>3, OneGoalKeeps

\* Checkpoint data written under a new revision tracks started tasks.
LEMMA RevisionKeeps ==
  ASSUME TypeOK, NEW g \in Goals, NEW T \in SUBSET Started,
         revision' = [revision EXCEPT ![g] = @ + 1], tasks' = [tasks EXCEPT ![g] = T],
         ever' = [ever EXCEPT ![g] = @ \cup T],
         seq' = seq \/ seq' = [seq EXCEPT ![g] = @ + 1],
         Timeless, UNCHANGED <<status, generation, calls>>
  PROVE  Keeps
<1>1. revision'[g] = revision[g] + 1 /\ tasks'[g] = T /\ ever'[g] = ever[g] \cup T
      /\ (seq'[g] = seq[g] \/ seq'[g] = seq[g] + 1)
  BY DEF TypeOK
<1>2. KeepsAt(g)
  BY <1>1, GoalNumbers DEF KeepsAt
<1>3. OthersKept(g)
  BY DEF OthersKept, TypeOK
<1> QED BY <1>2, <1>3, OneGoalKeeps

\* A step that only forgets calls keeps evidence.
LEMMA FewerCallsKeep ==
  ASSUME TypeOK, Timeless, calls' \subseteq calls,
         UNCHANGED <<status, revision, generation, seq, tasks, ever>>
  PROVE  Keeps
<1>1. TasksKeep
  BY DEF Timeless, TasksKeep, TypeOK
<1>2. ASSUME NEW x \in Goals PROVE KeepsAt(x)
  BY GoalNumbers DEF KeepsAt
<1> QED BY <1>1, <1>2 DEF Keeps


-----------------------------------------------------------------------------
(* What evidence proves when it is used. *)

\* The step keeps evidence: what a request holds afterwards it held before, or
\* has just collected.
EvidenceMoves ==
    /\ Keeps
    /\ \A s \in Sessions : \A e \in obs'[s] : e \in obs[s] \/ Sound(e)'

\* TakeoverIsQuiet and TurnsAreQuiet of one step and one goal.
QuietTakeover(g) ==
    (/\ generation'[g] # generation[g]
     /\ \/ IsActive(g) /\ Held(g, now)
        \/ rows'[g] # rows[g] \/ runs'[g] # runs[g]) => NoWriter(g)
QuietEnd(g) ==
    (IsActive(g) /\ status'[g] = "cancelled" /\ obs' # obs) =>
        NoWriter(g) /\ ~Held(g, now) /\ ~HasLive(g)
QuietReopening(g) ==
    (status[g] \in TerminalStatuses /\ status'[g] # status[g]) =>
        /\ status[g] = "blocked" /\ status'[g] = "active"
        /\ LiveCalls(g) = {} /\ ~HasLive(g)
        /\ \A t \in ever[g] : task[t] # "running"
QuietTurn(g) == QuietEnd(g) /\ QuietReopening(g)
Quiet == \A g \in Goals : QuietTakeover(g) /\ QuietTurn(g)
\* Requests keep their evidence or drop it.
ObsKept == obs' = obs \/ \E s \in Sessions : obs' = [obs EXCEPT ![s] = {}]

\* Evidence that is kept, or dropped, was held before the step.
LEMMA KeepsAreMoves ==
  ASSUME TypeOK, Keeps, ObsKept
  PROVE  EvidenceMoves
<1>1. \A s \in Sessions : \A e \in obs'[s] : e \in obs[s]
  BY DEF ObsKept, TypeOK
<1> QED BY <1>1 DEF EvidenceMoves

\* A step that changes neither status nor generation is quiet.
LEMMA SameIsQuiet ==
  ASSUME status' = status, generation' = generation
  PROVE  Quiet
  BY DEF Quiet, QuietTakeover, QuietTurn, QuietEnd, QuietReopening, IsActive

\* A step quiet for g that leaves the status and the generation of the others
\* is quiet.
LEMMA OneIsQuiet ==
  ASSUME NEW g \in Goals, QuietTakeover(g), QuietTurn(g),
         \A x \in Goals \ {g} : status'[x] = status[x] /\ generation'[x] = generation[x]
  PROVE  Quiet
<1>1. ASSUME NEW x \in Goals, x # g PROVE QuietTakeover(x) /\ QuietTurn(x)
  BY <1>1 DEF QuietTakeover, QuietTurn, QuietEnd, QuietReopening, IsActive
<1> QED BY <1>1 DEF Quiet

\* Evidence that still matches, and was quiet, proves that no fenced call of
\* the goal is live at the commit (the CAS on generation and activity).
LEMMA MatchedIsQuiet ==
  ASSUME TypeOK, EvidenceInv, NEW s \in Sessions, NEW e \in obs[s], NEW g \in Goals,
         e.goal = g, Sampled(e), e.quiet,
         e.seenGeneration = generation[g], e.seenSeq = seq[g]
  PROVE  LiveCalls(g) = {}
<1>1. Sound(e) /\ e.stage # "goal"
  BY DEF EvidenceInv, Sampled
<1> QED BY <1>1 DEF Sound, Observed

\* A task seen idle is not running.
LEMMA IdleIsOver ==
  ASSUME EvidenceInv, NEW s \in Sessions, NEW e \in obs[s]
  PROVE  \A t \in e.idle : task[t] # "running"
  BY DEF EvidenceInv, Sound

\* The evidence of a takeover or a stale acquisition proves that nobody writes.
LEMMA InactiveIsQuiet ==
  ASSUME TypeOK, EvidenceInv, NEW s \in Sessions, NEW e \in obs[s], NEW g \in Goals,
         EvidenceMatches(g, e), ConfirmedInactive(g, e)
  PROVE  NoWriter(g)
<1>1. LiveCalls(g) = {}
  BY MatchedIsQuiet DEF EvidenceMatches, ConfirmedInactive
<1>2. \A t \in tasks[g] : task[t] # "running"
  BY IdleIsOver DEF ConfirmedInactive
<1> QED BY <1>1, <1>2 DEF NoWriter

\* A hand-over on an active goal is quiet when it is quiet for that goal.
LEMMA GrantIsQuiet ==
  ASSUME TypeOK, NEW g \in Goals, NEW s, NEW term, NEW at, Grant(g, s, term, at),
         \/ NoWriter(g)
         \/ ~(IsActive(g) /\ Held(g, now)) /\ rows' = rows /\ runs' = runs,
         \/ status' = status
         \/ status' = [status EXCEPT ![g] = "active"] /\ status[g] = "absent"
         \/ /\ status' = [status EXCEPT ![g] = "active"] /\ status[g] = "blocked"
            /\ LiveCalls(g) = {} /\ ~HasLive(g) /\ \A t \in ever[g] : task[t] # "running"
  PROVE  Quiet
<1>1. QuietTakeover(g)
  BY DEF QuietTakeover
<1>2. QuietTurn(g)
  BY DEF QuietTurn, QuietEnd, QuietReopening, IsActive, TypeOK, TerminalStatuses
<1>3. \A x \in Goals \ {g} : status'[x] = status[x] /\ generation'[x] = generation[x]
  BY DEF Grant, TypeOK
<1> QED BY <1>1, <1>2, <1>3, OneIsQuiet

\* The end of an active goal by its worker or its owner.
LEMMA EndIsQuiet ==
  ASSUME TypeOK, NEW g \in Goals, NEW st, Terminate(g, st), IsActive(g), generation' = generation,
         st = "cancelled" => obs' = obs \/ (NoWriter(g) /\ ~Held(g, now) /\ ~HasLive(g))
  PROVE  Quiet
<1>1. QuietTakeover(g)
  BY DEF QuietTakeover
<1>2. QuietTurn(g)
  BY DEF Terminate, QuietTurn, QuietEnd, QuietReopening, IsActive, TypeOK, TerminalStatuses
<1>3. \A x \in Goals \ {g} : status'[x] = status[x] /\ generation'[x] = generation[x]
  BY DEF Terminate, TypeOK
<1> QED BY <1>1, <1>2, <1>3, OneIsQuiet


-----------------------------------------------------------------------------
(* The actions. *)

\* A transaction on the rows alone.
LEMMA StillIsQuiet ==
  ASSUME TypeOK, Still, ObsKept
  PROVE  EvidenceMoves /\ Quiet
<1>1. status' = status /\ generation' = generation
  BY DEF Still
<1> QED BY <1>1, StillKeeps, KeepsAreMoves, SameIsQuiet

\* A receipt, a cancellation or a retime of one row.
LEMMA UpdateRowIsQuiet ==
  ASSUME TypeOK, NEW g, NEW k, NEW r, UpdateRow(g, k, r)
  PROVE  EvidenceMoves /\ Quiet
<1>1. Still /\ ObsKept
  BY DEF UpdateRow, Still, Timeless, ObsKept
<1> QED BY <1>1, StillIsQuiet

\* prepareScheduledContinuation writes the goal row under a new revision.
LEMMA PrepareGoalIsQuiet ==
  ASSUME TypeOK, NEW g \in Goals, NEW T \in SUBSET Started, NEW limit, PrepareGoal(g, T, limit)
  PROVE  EvidenceMoves /\ Quiet
<1>1. Timeless /\ ObsKept /\ UNCHANGED <<status, generation, seq, calls>>
  BY DEF PrepareGoal, Timeless, ObsKept
<1>2. Keeps
  BY <1>1, RevisionKeeps DEF PrepareGoal
<1> QED BY <1>1, <1>2, KeepsAreMoves, SameIsQuiet

\* The worker's transactions.
LEMMA WorkerIsQuiet ==
  ASSUME TypeOK, NEW g \in Goals, NEW s \in Sessions, WorkerStep(s, g)
  PROVE  EvidenceMoves /\ Quiet
<1> PICK tok \in TokensOf(s, g) :
        \/ \E T \in SUBSET Started, release \in BOOLEAN : Checkpoint(g, s, tok, T, release)
        \/ \E st \in TerminalStatuses \ {"cancelled"} : Finish(g, s, tok, revision[g], st, now)
        \/ \E T \in SUBSET Started, occ \in PrepareOccurrences, d \in FirstDelays :
                Prepare(g, s, tok, T, occ, d) \/ Refresh(g, s, tok, T, occ, d)
        \/ \E k \in DOMAIN rows[g], lead \in ExpediteLeads : Expedite(g, k, s, tok, lead)
        \/ \E c \in Calls : BeginCall(c, g, s, tok)
  BY DEF WorkerStep
<1>1. CASE \E T \in SUBSET Started, release \in BOOLEAN : Checkpoint(g, s, tok, T, release)
  <2> PICK T \in SUBSET Started, release \in BOOLEAN : Checkpoint(g, s, tok, T, release)
    BY <1>1
  <2>1. Timeless /\ ObsKept /\ UNCHANGED <<status, generation, calls>>
    BY DEF Checkpoint, Timeless, ObsKept
  <2>2. Keeps
    BY <2>1, RevisionKeeps DEF Checkpoint
  <2> QED BY <2>1, <2>2, KeepsAreMoves, SameIsQuiet
<1>2. CASE \E st \in TerminalStatuses \ {"cancelled"} : Finish(g, s, tok, revision[g], st, now)
  <2> PICK st \in TerminalStatuses \ {"cancelled"} : Finish(g, s, tok, revision[g], st, now)
    BY <1>2
  <2>1. /\ Timeless /\ ObsKept /\ UNCHANGED <<generation, seq, ever, calls>>
        /\ Terminate(g, st) /\ IsActive(g)
    BY DEF Finish, Timeless, ObsKept, MutableLease
  <2>2. Keeps
    BY <2>1, TerminateKeeps
  <2> QED BY <2>1, <2>2, KeepsAreMoves, EndIsQuiet
<1>3. CASE \E T \in SUBSET Started, occ \in PrepareOccurrences, d \in FirstDelays :
              Prepare(g, s, tok, T, occ, d) \/ Refresh(g, s, tok, T, occ, d)
  <2> PICK T \in SUBSET Started, occ \in PrepareOccurrences, d \in FirstDelays :
              Prepare(g, s, tok, T, occ, d) \/ Refresh(g, s, tok, T, occ, d)
    BY <1>3
  <2>1. CASE Prepare(g, s, tok, T, occ, d)
    BY <2>1, PrepareGoalIsQuiet DEF Prepare
  <2>2. CASE Refresh(g, s, tok, T, occ, d)
    <3>1. PICK k \in DOMAIN rows[g] :
            PrepareGoal(g, T, IF rows[g][k].occ = "interval" THEN 0
                              ELSE IF Retimes(rows[g][k], occ, now + d) THEN now + d
                              ELSE EffectiveDue(rows[g][k]))
      BY <2>2 DEF Refresh
    <3> QED BY <3>1, PrepareGoalIsQuiet
  <2> QED BY <2>1, <2>2
<1>4. CASE \E k \in DOMAIN rows[g], lead \in ExpediteLeads : Expedite(g, k, s, tok, lead)
  <2>1. PICK k : \E r : UpdateRow(g, k, r)
    BY <1>4 DEF Expedite
  <2> QED BY <2>1, UpdateRowIsQuiet
<1>5. CASE \E c \in Calls : BeginCall(c, g, s, tok)
  <2> PICK c \in Calls : BeginCall(c, g, s, tok)
    BY <1>5
  <2>1. /\ Timeless /\ ObsKept /\ UNCHANGED <<status, revision, generation, tasks, ever>>
        /\ seq' = [seq EXCEPT ![g] = @ + 1]
        /\ \A x \in calls' : x.goal = g \/ x \in calls
    BY DEF BeginCall, Timeless, ObsKept
  <2>2. Keeps
    BY <2>1, ActivityKeeps
  <2> QED BY <2>1, <2>2, KeepsAreMoves, SameIsQuiet
<1> QED BY <1>1, <1>2, <1>3, <1>4, <1>5

\* Acquisition: of a free lease, of a stale one and of a blocked goal.
LEMMA AcquireIsQuiet ==
  ASSUME TypeOK, EvidenceInv, NEW g \in Goals, NEW s \in Sessions, AcquireStep(s, g)
  PROVE  EvidenceMoves /\ Quiet
<1> PICK term \in LeaseTerms : \/ Create(g, s, term)
                               \/ AcquireFree(g, s, term)
                               \/ AcquireStale(g, s, term)
                               \/ RecoverBlocked(g, s, term)
  BY DEF AcquireStep
<1>a. IsActive(g) => status = [status EXCEPT ![g] = "active"]
  BY DEF IsActive, TypeOK
<1>1. CASE Create(g, s, term)
  <2>1. /\ Grant(g, s, term, now + term) /\ status[g] = "absent"
        /\ status' = [status EXCEPT ![g] = "active"] /\ Timeless /\ ObsKept
        /\ UNCHANGED <<tasks, ever, calls, revision, rows, runs>> /\ ~IsActive(g)
    BY <1>1 DEF Create, Timeless, ObsKept, IsActive
  <2>2. Keeps
    BY <2>1, GrantKeeps
  <2>3. Quiet
    BY <2>1, GrantIsQuiet
  <2> QED BY <2>1, <2>2, <2>3, KeepsAreMoves
<1>2. CASE AcquireFree(g, s, term)
  <2>1. /\ Grant(g, s, term, now + term) /\ IsActive(g) /\ ~Held(g, now) /\ Timeless /\ ObsKept
        /\ UNCHANGED <<status, tasks, ever, calls, revision, rows, runs>>
    BY <1>2 DEF AcquireFree, Timeless, ObsKept
  <2>2. Keeps
    BY <1>a, <2>1, GrantKeeps DEF IsActive
  <2>3. Quiet
    BY <2>1, GrantIsQuiet
  <2> QED BY <2>1, <2>2, <2>3, KeepsAreMoves
<1>3. CASE AcquireStale(g, s, term)
  <2>1. PICK e \in obs[s] :
          /\ Grant(g, s, term, now + term) /\ IsActive(g) /\ Timeless /\ ObsKept
          /\ StaleRecovery(g, e, HasLive(g))
          /\ UNCHANGED <<status, tasks, ever, calls, revision, rows, runs>>
    BY <1>3 DEF AcquireStale, Timeless, ObsKept
  <2>2. Keeps
    BY <1>a, <2>1, GrantKeeps DEF IsActive
  <2>3. NoWriter(g)
    BY <2>1, InactiveIsQuiet DEF StaleRecovery
  <2>4. Quiet
    BY <2>1, <2>3, GrantIsQuiet
  <2> QED BY <2>1, <2>2, <2>4, KeepsAreMoves
<1>4. CASE RecoverBlocked(g, s, term)
  <2>1. PICK e \in obs[s] :
          /\ Grant(g, s, term, now + term) /\ status[g] = "blocked" /\ ~HasLive(g)
          /\ status' = [status EXCEPT ![g] = "active"] /\ Timeless /\ ObsKept
          /\ revision' = [revision EXCEPT ![g] = @ + 1]
          /\ EvidenceMatches(g, e) /\ e.quiet /\ HistoryIdle(g, e)
          /\ UNCHANGED <<tasks, ever, calls, rows, runs>> /\ ~IsActive(g)
    BY <1>4 DEF RecoverBlocked, Timeless, ObsKept, IsActive
  <2>2. Keeps
    BY <2>1, GrantKeeps
  <2>3. LiveCalls(g) = {}
    BY <2>1, MatchedIsQuiet DEF EvidenceMatches
  <2>4. \A t \in ever[g] : task[t] # "running"
    BY <2>1, IdleIsOver DEF HistoryIdle
  <2>5. Quiet
    BY <2>1, <2>3, <2>4, GrantIsQuiet
  <2> QED BY <2>1, <2>2, <2>5, KeepsAreMoves
<1> QED BY <1>1, <1>2, <1>3, <1>4

\* The owner's requests and the receipts of the host.
LEMMA OwnerIsQuiet ==
  ASSUME TypeOK, NEW g \in Goals, OwnerStep(g)
  PROVE  EvidenceMoves /\ Quiet
<1>1. CASE Cancel(g)
  <2>1. /\ Timeless /\ obs' = obs /\ UNCHANGED <<generation, seq, ever>> /\ calls' \subseteq calls
        /\ Terminate(g, "cancelled") /\ IsActive(g) /\ "cancelled" \in TerminalStatuses
    BY <1>1 DEF Cancel, Timeless, WithoutCallsOf, TerminalStatuses
  <2>2. Keeps
    BY <2>1, TerminateKeeps
  <2> QED BY <2>1, <2>2, KeepsAreMoves, EndIsQuiet DEF ObsKept
<1>2. CASE CancelAgain(g)
  <2>1. /\ Timeless /\ ObsKept /\ calls' \subseteq calls
        /\ UNCHANGED <<status, revision, generation, seq, tasks, ever>>
    BY <1>2 DEF CancelAgain, Timeless, ObsKept, WithoutCallsOf
  <2> QED BY <2>1, FewerCallsKeep, KeepsAreMoves, SameIsQuiet
<1>3. CASE SetIdlePolicy(g)
  <2>1. /\ Timeless /\ ObsKept /\ revision' = [revision EXCEPT ![g] = @ + 1]
        /\ UNCHANGED <<status, generation, seq, tasks, ever, calls>>
    BY <1>3 DEF SetIdlePolicy, Timeless, ObsKept
  <2>2. KeepsAt(g) /\ OthersKept(g)
    BY <2>1, GoalNumbers DEF KeepsAt, OthersKept, TypeOK
  <2> QED BY <2>1, <2>2, OneGoalKeeps, KeepsAreMoves, SameIsQuiet
<1>4. CASE MarkFinished(g, now) \/ \E k \in DOMAIN rows[g] : CancelContinuation(g, k)
  <2>1. PICK k : \E r : UpdateRow(g, k, r)
    BY <1>4 DEF MarkFinished, CancelContinuation
  <2> QED BY <2>1, UpdateRowIsQuiet
<1> QED BY <1>1, <1>2, <1>3, <1>4 DEF OwnerStep

\* The receipts of the host touch one row (recordScheduledContinuationReceipt).
LEMMA ReceiptIsQuiet ==
  ASSUME TypeOK, NEW g \in Goals, NEW k \in DOMAIN rows[g], ReceiptStep(g, k)
  PROVE  EvidenceMoves /\ Quiet
<1>1. PICK r : UpdateRow(g, k, r)
  <2>1. CASE ReceiveCreated(g, k)
    BY <2>1 DEF ReceiveCreated
  <2>2. CASE \E m \in RunModes : ReceiveRescheduled(g, k, m)
    BY <2>2 DEF ReceiveRescheduled
  <2>3. CASE \E m \in RunModes, out \in Outcomes : ReceiveRetimeUnsettled(g, k, out, m)
    BY <2>3 DEF ReceiveRetimeUnsettled
  <2>4. CASE \E m \in RunModes : ReceiveConsumed(g, k, m)
    BY <2>4 DEF ReceiveConsumed
  <2>5. CASE \E m \in RunModes : ReceiveCancelled(g, k, m)
    BY <2>5 DEF ReceiveCancelled
  <2>6. CASE \E m \in RunModes, out \in Outcomes : ReceiveCancelUnsettled(g, k, out, m)
    BY <2>6 DEF ReceiveCancelUnsettled
  <2>7. CASE \E m \in RunModes, out \in Outcomes, named \in BOOLEAN :
                ReceiveCreateUnsettled(g, k, out, named, m)
    BY <2>7 DEF ReceiveCreateUnsettled
  <2> QED BY <2>1, <2>2, <2>3, <2>4, <2>5, <2>6, <2>7 DEF ReceiptStep
<1> QED BY <1>1, UpdateRowIsQuiet


\* The wakes: a takeover rests on evidence that still matches at its commit.
LEMMA WakeIsQuiet ==
  ASSUME TypeOK, EvidenceInv, NEW g \in Goals, NEW s \in Sessions,
         NEW k \in DOMAIN rows[g], WakeStep(s, g, k)
  PROVE  EvidenceMoves /\ Quiet
<1>a. IsActive(g) => status = [status EXCEPT ![g] = "active"]
  BY DEF IsActive, TypeOK
<1>1. CASE ClaimUntimely(g, k)
  <2>1. Still /\ ObsKept
    BY <1>1 DEF ClaimUntimely, Still, Timeless, ObsKept
  <2> QED BY <2>1, StillIsQuiet
<1>2. CASE ClaimTerminal(g, k)
  BY <1>2, UpdateRowIsQuiet DEF ClaimTerminal
<1>3. CASE ClaimRecurringCleanup(g, k)
  <2>1. Still /\ ObsKept
    BY <1>3 DEF ClaimRecurringCleanup, Still, Timeless, ObsKept
  <2> QED BY <2>1, StillIsQuiet
<1>4. CASE ClaimCollision(s, g, k)
  <2>1. Still /\ ObsKept
    BY <1>4 DEF ClaimCollision, Still, Timeless, ObsKept
  <2> QED BY <2>1, StillIsQuiet
<1>5. CASE ClaimRecurringBusy(s, g, k)
  <2>1. Still /\ ObsKept
    BY <1>5 DEF ClaimRecurringBusy, Still, Timeless, ObsKept
  <2> QED BY <2>1, StillIsQuiet
<1>6. CASE \E term \in LeaseTerms : ClaimTakeover(s, g, k, term)
  <2>1. PICK term \in LeaseTerms : ClaimTakeover(s, g, k, term)
    BY <1>6
  <2>2. PICK e \in obs[s] :
          /\ \E at : Grant(g, s, term, at)
          /\ IsActive(g) /\ EvidenceMatches(g, e) /\ WorkerGone(g, rows[g][k], e)
          /\ obs' = [obs EXCEPT ![s] = {}]
          /\ UNCHANGED <<now, status, revision, tasks, ever, calls, task>>
    BY <2>1 DEF ClaimTakeover
  <2>3. Timeless /\ ObsKept
    BY <2>2 DEF Timeless, ObsKept
  <2>4. Keeps
    BY <1>a, <2>2, <2>3, GrantKeeps DEF IsActive
  <2>5. NoWriter(g)
    BY <2>2, InactiveIsQuiet DEF WorkerGone
  <2>6. Quiet
    BY <2>2, <2>5, GrantIsQuiet
  <2> QED BY <2>3, <2>4, <2>6, KeepsAreMoves
<1>7. CASE \E term \in LeaseTerms : ClaimRetired(g, k, term)
  <2>1. Still /\ ObsKept
    BY <1>7 DEF ClaimRetired, Still, Timeless, ObsKept
  <2> QED BY <2>1, StillIsQuiet
<1>8. CASE \E term \in LeaseTerms : ClaimRecurringTakeover(s, g, k, term)
  <2>1. PICK term \in LeaseTerms : ClaimRecurringTakeover(s, g, k, term)
    BY <1>8
  <2>2. PICK e \in obs[s] :
          /\ \E at : Grant(g, s, term, at)
          /\ IsActive(g) /\ EvidenceMatches(g, e) /\ RecurringWorkerGone(g, e)
          /\ obs' = [obs EXCEPT ![s] = {}]
          /\ UNCHANGED <<now, status, revision, tasks, ever, calls, task>>
    BY <2>1 DEF ClaimRecurringTakeover, RecurringDue
  <2>3. Timeless /\ ObsKept
    BY <2>2 DEF Timeless, ObsKept
  <2>4. Keeps
    BY <1>a, <2>2, <2>3, GrantKeeps DEF IsActive
  <2>5. NoWriter(g)
    BY <2>2, InactiveIsQuiet DEF RecurringWorkerGone
  <2>6. Quiet
    BY <2>2, <2>5, GrantIsQuiet
  <2> QED BY <2>3, <2>4, <2>6, KeepsAreMoves
<1> QED BY <1>1, <1>2, <1>3, <1>4, <1>5, <1>6, <1>7, <1>8 DEF WakeStep

\* A reconciliation is quiet: revision, generation and activity are as they
\* were when the request read the goal, before it looked for a worker.
LEMMA ReconcileIsQuiet ==
  ASSUME TypeOK, EvidenceInv, NEW g \in Goals, NEW s \in Sessions, Reconcile(g, s)
  PROVE  EvidenceMoves /\ Quiet
<1>1. PICK e \in obs[s] :
        /\ e.goal = g /\ Sampled(e) /\ IsActive(g) /\ UnchangedSince(g, e) /\ SeenIdle(e)
        /\ ~Held(g, e.since) /\ ~HasLive(g) /\ Terminate(g, "cancelled")
        /\ calls' = WithoutCallsOf(g) /\ obs' = [obs EXCEPT ![s] = {}]
        /\ UNCHANGED <<now, generation, seq, ever, rows, runs, issued, task>>
  BY DEF Reconcile
<1>2. e \in Evidence /\ Sound(e)
  BY DEF EvidenceInv, TypeOK
<1>3. NoWriter(g)
  <2>1. LiveCalls(g) = {}
    BY <1>1, MatchedIsQuiet DEF UnchangedSince, SeenIdle
  <2>2. tasks[g] \subseteq e.idle
    BY <1>1, <1>2 DEF Sound, UnchangedSince, SeenIdle
  <2> QED BY <2>1, <2>2, IdleIsOver DEF NoWriter
<1>4. ~Held(g, now)
  BY <1>1, <1>2, LeaseFields, EvidenceFields DEF Held, Sound
<1>5. Quiet
  BY <1>1, <1>3, <1>4, EndIsQuiet
<1>6. Timeless /\ ObsKept /\ calls' \subseteq calls /\ "cancelled" \in TerminalStatuses
  BY <1>1 DEF Timeless, ObsKept, WithoutCallsOf, TerminalStatuses
<1> QED BY <1>1, <1>5, <1>6, TerminateKeeps, KeepsAreMoves

\* Collected evidence is sound when it is collected.
LEMMA CollectedIsSound ==
  ASSUME TypeOK, Still, NEW s \in Sessions, NEW e, Sound(e)', obs' = [obs EXCEPT ![s] = {e}]
  PROVE  EvidenceMoves /\ Quiet
<1>1. \A z \in Sessions : \A x \in obs'[z] : x \in obs[z] \/ Sound(x)'
  BY DEF TypeOK
<1>2. status' = status /\ generation' = generation
  BY DEF Still
<1> QED BY <1>1, <1>2, StillKeeps, SameIsQuiet DEF EvidenceMoves

\* A step that touches nothing evidence depends on keeps it.
LEMMA StillSound ==
  ASSUME Still, NEW e, Sound(e)
  PROVE  Sound(e)'
<1>1. LiveCalls(e.goal)' = LiveCalls(e.goal) /\ Started' = Started
  BY DEF Still, Timeless, LiveCalls, Started
<1>2. Observed(e) => Observed(e)'
  BY <1>1 DEF Observed, Still
<1> QED BY <1>1, <1>2 DEF Sound, Still, Timeless, IsActive

\* Reading the goal, sampling the fence table and reading the task states.
LEMMA EvidenceIsQuiet ==
  ASSUME TypeOK, EvidenceInv, NEW s \in Sessions, EvidenceStep(s)
  PROVE  EvidenceMoves /\ Quiet
<1>1. CASE \E g \in Goals : ReadGoal(s, g)
  <2> PICK g \in Goals : ReadGoal(s, g)
    BY <1>1
  <2>0. PICK e :
          e = [goal |-> g, revision |-> revision[g], generation |-> generation[g],
               seq |-> seq[g], since |-> now,
               listed |-> IF status[g] = "blocked" THEN ever[g] ELSE tasks[g],
               stage |-> "goal", seenGeneration |-> 0, seenSeq |-> 0, at |-> 0,
               quiet |-> FALSE, idle |-> {}]
    OBVIOUS
  <2>1. Still /\ obs' = [obs EXCEPT ![s] = {e}] /\ status[g] \in {"active", "blocked"}
    BY <2>0 DEF ReadGoal, Still, Timeless
  <2>2. /\ e.goal = g /\ e.revision = revision[g] /\ e.since = now /\ e.stage = "goal" /\ e.idle = {}
        /\ e.listed \subseteq Started
        /\ IsActive(g) => e.listed = tasks[g]
    BY <2>0 DEF EvidenceInv, Tracked, IsActive
  <2>3. Sound(e)
    BY <2>1, <2>2, GoalNumbers DEF Sound
  <2> QED BY <2>1, <2>3, StillSound, CollectedIsSound
<1>2. CASE \E g \in Goals : Reconcile(g, s)
  BY <1>2, ReconcileIsQuiet
<1>3. CASE ObserveFence(s)
  <2>1. PICK e \in obs[s] :
          /\ e.stage = "goal" /\ Still
          /\ obs' = [obs EXCEPT ![s] =
                      {[e EXCEPT !.stage = "fence", !.seenGeneration = generation[e.goal],
                                 !.seenSeq = seq[e.goal], !.at = now,
                                 !.quiet = LiveCalls(e.goal) = {}]}]
    BY <1>3 DEF ObserveFence, Still, Timeless
  <2>2. e \in Evidence /\ Sound(e)
    BY DEF EvidenceInv, TypeOK
  <2> DEFINE gen == generation[e.goal]
             sq == seq[e.goal]
             calm == LiveCalls(e.goal) = {}
  <2>3. gen \in Nat /\ sq \in Nat
    BY <2>2, EvidenceFields, GoalNumbers
  <2> HIDE DEF gen, sq, calm
  <2>f. PICK f : f = [e EXCEPT !.stage = "fence", !.seenGeneration = gen, !.seenSeq = sq,
                              !.at = now, !.quiet = calm]
    OBVIOUS
  <2>4. /\ f.goal = e.goal /\ f.revision = e.revision /\ f.since = e.since
        /\ f.listed = e.listed /\ f.idle = e.idle
        /\ f.seenGeneration = gen /\ f.seenSeq = sq /\ f.quiet = calm
    BY <2>2, <2>f DEF Evidence
  <2>5. obs' = [obs EXCEPT ![s] = {f}]
    BY <2>1, <2>f DEF gen, sq, calm
  <2>c. f.quiet => LiveCalls(e.goal) = {}
    BY <2>4, Zenon DEF calm
  <2>6. Observed(f)
    BY <2>3, <2>4, <2>c DEF Observed, gen, sq
  <2>7. Sound(f)
    BY <2>2, <2>4, <2>6 DEF Sound
  <2> QED BY <2>1, <2>5, <2>7, StillSound, CollectedIsSound
<1>4. CASE \E doubt \in BOOLEAN : ReadTasks(s, doubt)
  <2> PICK doubt \in BOOLEAN : ReadTasks(s, doubt)
    BY <1>4
  <2>1. PICK e \in obs[s] :
          /\ e.stage = "fence" /\ Still
          /\ obs' = [obs EXCEPT ![s] =
                      {[e EXCEPT !.stage = "tasks", !.quiet = e.quiet /\ ~doubt,
                                 !.idle = {t \in e.listed : task[t] # "running"}]}]
    BY DEF ReadTasks, Still, Timeless
  <2>2. e \in Evidence /\ Sound(e)
    BY DEF EvidenceInv, TypeOK
  <2> DEFINE seen == {t \in e.listed : task[t] # "running"}
             calm == e.quiet /\ ~doubt
  <2>3. \A t \in seen : task[t] = "ended"
    BY <2>2 DEF Sound, Started, TypeOK
  <2>4. calm => e.quiet
    OBVIOUS
  <2> HIDE DEF seen, calm
  <2>f. PICK f : f = [e EXCEPT !.stage = "tasks", !.quiet = calm, !.idle = seen]
    OBVIOUS
  <2>5. /\ f.goal = e.goal /\ f.revision = e.revision /\ f.since = e.since
        /\ f.listed = e.listed /\ f.idle = seen
        /\ f.seenGeneration = e.seenGeneration /\ f.seenSeq = e.seenSeq /\ f.quiet = calm
    BY <2>2, <2>f DEF Evidence
  <2>6. obs' = [obs EXCEPT ![s] = {f}]
    BY <2>1, <2>f DEF seen, calm
  <2>7. Observed(f)
    BY <2>1, <2>2, <2>4, <2>5 DEF Observed, Sound
  <2>8. Sound(f)
    BY <2>2, <2>3, <2>5, <2>7 DEF Sound
  <2> QED BY <2>1, <2>6, <2>8, StillSound, CollectedIsSound
<1>5. CASE DropEvidence(s)
  <2>1. Still /\ ObsKept
    BY <1>5 DEF DropEvidence, Still, Timeless, ObsKept
  <2> QED BY <2>1, StillIsQuiet
<1> QED BY <1>1, <1>2, <1>3, <1>4, <1>5 DEF EvidenceStep

\* Heartbeats and ends of fenced calls.
LEMMA CallIsQuiet ==
  ASSUME TypeOK, CallStep
  PROVE  EvidenceMoves /\ Quiet
<1>1. CASE \E c \in calls : HeartbeatCall(c)
  <2> PICK c \in calls : HeartbeatCall(c)
    BY <1>1
  <2>1. PICK g \in Goals :
          /\ c.goal = g /\ seq' = [seq EXCEPT ![g] = @ + 1] /\ Timeless /\ ObsKept
          /\ calls' = (calls \ {c}) \cup {[c EXCEPT !.expires = now + CallLease]}
          /\ UNCHANGED <<status, revision, generation, tasks, ever>>
    BY DEF HeartbeatCall, Timeless, ObsKept
  <2>2. [c EXCEPT !.expires = now + CallLease].goal = g
    BY <2>1 DEF TypeOK, Call
  <2>3. \A x \in calls' : x.goal = g \/ x \in calls
    BY <2>1, <2>2
  <2>4. Keeps
    BY <2>1, <2>3, ActivityKeeps
  <2> QED BY <2>1, <2>4, KeepsAreMoves, SameIsQuiet
<1>2. CASE \E c \in calls : EndCall(c)
  <2>1. /\ Timeless /\ ObsKept /\ calls' \subseteq calls
        /\ UNCHANGED <<status, revision, generation, seq, tasks, ever>>
    BY <1>2 DEF EndCall, Timeless, ObsKept
  <2> QED BY <2>1, FewerCallsKeep, KeepsAreMoves, SameIsQuiet
<1> QED BY <1>1, <1>2 DEF CallStep

\* Time passes; tasks start and end, once.
LEMMA EnvIsQuiet ==
  ASSUME TypeOK, EnvStep
  PROVE  EvidenceMoves /\ Quiet
<1>1. TasksKeep
  <2>1. CASE Tick
    BY <2>1 DEF Tick, TasksKeep, TypeOK
  <2>2. CASE \E t \in Tasks : TaskStep(t)
    BY <2>2 DEF TaskStep, TasksKeep, TypeOK
  <2> QED BY <2>1, <2>2 DEF EnvStep
<1>2. UNCHANGED <<status, revision, generation, seq, tasks, ever, calls, obs>>
  BY DEF EnvStep, Tick, TaskStep
<1>3. ASSUME NEW x \in Goals PROVE KeepsAt(x)
  BY <1>2, GoalNumbers DEF KeepsAt
<1> QED BY <1>1, <1>2, <1>3, KeepsAreMoves, SameIsQuiet DEF Keeps, ObsKept

-----------------------------------------------------------------------------
(* Hand-overs and turns are quiet. *)

\* Every transaction keeps evidence and is quiet.
LEMMA NextIsQuiet ==
  ASSUME TypeOK, EvidenceInv, Next
  PROVE  EvidenceMoves /\ Quiet
  BY WorkerIsQuiet, AcquireIsQuiet, OwnerIsQuiet, ReceiptIsQuiet, WakeIsQuiet, EvidenceIsQuiet,
     CallIsQuiet, EnvIsQuiet DEF Next

\* Every step leaves the evidence of every request sound.
LEMMA EvidenceStays ==
  ASSUME TypeOK, TypeOK', EvidenceInv, [Next]_vars
  PROVE  EvidenceInv'
<1>1. CASE Next
  <2>1. EvidenceMoves
    BY <1>1, NextIsQuiet
  <2>2. Tracked'
    BY <2>1, TrackedKept DEF EvidenceInv, EvidenceMoves
  <2>3. ASSUME NEW s \in Sessions, NEW e \in obs'[s] PROVE Sound(e)'
    <3>1. CASE e \in obs[s]
      <4>1. e \in Evidence /\ Sound(e)
        BY <3>1 DEF EvidenceInv, TypeOK
      <4> QED BY <2>1, <4>1, SoundKept DEF EvidenceMoves
    <3> QED BY <2>1, <2>3, <3>1 DEF EvidenceMoves
  <2> QED BY <2>2, <2>3 DEF EvidenceInv
<1>2. CASE UNCHANGED vars
  BY <1>2 DEF vars, EvidenceInv, Tracked, Sound, Observed, Started, IsActive, LiveCalls
<1> QED BY <1>1, <1>2

\* The evidence a request holds stays true until the goal moves, through every
\* step between its reads and its commit.
THEOREM EvidenceHolds == Spec => []EvidenceInv
<1>1. Init => EvidenceInv
  BY DEF Init, EvidenceInv, Tracked
<1>2. LeaseInv /\ LeaseInv' /\ EvidenceInv /\ [Next]_vars => EvidenceInv'
  BY EvidenceStays DEF LeaseInv
<1> QED BY <1>1, <1>2, LeaseInvHolds, PTL DEF Spec

\* A lease changes hands behind its worker's back only when nobody writes.
THEOREM TakeoversAreQuiet == Spec => TakeoverIsQuiet
<1> DEFINE A == \A g \in Goals :
                  (/\ generation'[g] # generation[g]
                   /\ \/ IsActive(g) /\ Held(g, now)
                      \/ rows'[g] # rows[g] \/ runs'[g] # runs[g]) => NoWriter(g)
<1>1. LeaseInv /\ EvidenceInv /\ [Next]_vars => [A]_vars
  BY NextIsQuiet DEF LeaseInv, Quiet, QuietTakeover
<1> QED BY <1>1, LeaseInvHolds, EvidenceHolds, PTL DEF Spec, TakeoverIsQuiet

\* A goal is ended or reopened behind its worker's back only when nobody works
\* on it.
THEOREM TurnsStayQuiet == Spec => TurnsAreQuiet
<1> DEFINE A == \A g \in Goals :
                  /\ (IsActive(g) /\ status'[g] = "cancelled" /\ obs' # obs) =>
                        NoWriter(g) /\ ~Held(g, now) /\ ~HasLive(g)
                  /\ (status[g] \in TerminalStatuses /\ status'[g] # status[g]) =>
                        /\ status[g] = "blocked" /\ status'[g] = "active"
                        /\ LiveCalls(g) = {} /\ ~HasLive(g)
                        /\ \A t \in ever[g] : task[t] # "running"
<1>1. LeaseInv /\ EvidenceInv /\ [Next]_vars => [A]_vars
  BY NextIsQuiet DEF LeaseInv, Quiet, QuietTurn, QuietEnd, QuietReopening
<1> QED BY <1>1, LeaseInvHolds, EvidenceHolds, PTL DEF Spec, TurnsAreQuiet

-----------------------------------------------------------------------------
(* Refinement of WorkerAuthority. *)

\* The mapped variables.
Places == [g \in Goals |-> Standing(status[g])]
Holders == [g \in Goals |-> lease[g].session]
Writers == {[id |-> c.id, goal |-> c.goal, epoch |-> c.generation] : c \in calls}

\* The standing of each status.
LEMMA StandingOf ==
  /\ \A st \in {"absent", "active", "blocked"} : Standing(st) = st
  /\ \A st \in {"completed", "failed", "cancelled"} : Standing(st) = "ended"
  BY DEF Standing

\* A lease with a token names the session it was granted to.
LEMMA HolderIsSession ==
  ASSUME TypeOK, Fencing, NEW g \in Goals, lease[g].token # 0
  PROVE  lease[g].session # NoSession
<1>1. /\ lease[g].token = Len(issued[g])
      /\ issued[g][lease[g].token].session = lease[g].session
  BY DEF Fencing, NewestTokenHolds
<1>2. issued[g] \in Seq(Token) /\ lease[g].token \in Nat
  BY LeaseFields DEF TypeOK
<1>3. issued[g][lease[g].token] \in Token
  BY <1>1, <1>2
<1>4. issued[g][lease[g].token].session \in Sessions
  BY <1>3 DEF Token
<1> QED BY <1>1, <1>4

\* A step that leaves the mapped goal columns alone and only ends calls.
LEMMA MapsToLeave ==
  ASSUME Places' = Places, Holders' = Holders, generation' = generation, Writers' \subseteq Writers
  PROVE  Authority!Leave
  BY DEF Places, Holders, Writers, Authority!Leave

\* A renewal of the lease is invisible; the call it may admit is an admission.
LEMMA RenewalMaps ==
  ASSUME TypeOK, Fencing, NEW g \in Goals, Renewal(g)
  PROVE  Authority!Next
<1>1. PICK h \in Nat \ {0}, e \in Nat :
        lease' = [lease EXCEPT ![g] = [lease[g] EXCEPT !.heartbeat = h, !.expires = e]]
  BY DEF Renewal
<1>2. Holders' = Holders
  <2>1. lease'[g].session = lease[g].session
    BY <1>1, LeaseFields DEF TypeOK, Lease
  <2>2. \A x \in Goals \ {g} : lease'[x] = lease[x]
    BY <1>1 DEF TypeOK
  <2> QED BY <2>1, <2>2 DEF Holders
<1>3. Places' = Places /\ generation' = generation
  BY DEF Places, Renewal
<1>4. CASE SameCalls
  <2>1. Writers' \subseteq Writers
    BY <1>4 DEF Writers, SameCalls
  <2> QED BY <1>2, <1>3, <2>1, MapsToLeave DEF Authority!Next
<1>5. CASE AdmitsCall(g)
  <2>1. PICK c \in Calls :
          /\ \A x \in calls : x.id # c
          /\ calls' = calls \cup {[id |-> c, goal |-> g, generation |-> generation[g],
                                   expires |-> now + CallLease]}
    BY <1>5 DEF AdmitsCall
  <2> DEFINE w == [id |-> c, goal |-> g, epoch |-> generation[g]]
  <2>2. Writers' = Writers \cup {w}
    <3> DEFINE n == [id |-> c, goal |-> g, generation |-> generation[g], expires |-> now + CallLease]
               Seen(x) == [id |-> x.id, goal |-> x.goal, epoch |-> x.generation]
    <3>1. Seen(n) = w
      OBVIOUS
    <3>2. calls' = calls \cup {n}
      BY <2>1
    <3>3. Writers = {Seen(x) : x \in calls} /\ Writers' = {Seen(x) : x \in calls'}
      BY DEF Writers
    <3> HIDE DEF n, Seen, w
    <3> QED BY <3>1, <3>2, <3>3
  <2>3. \A x \in Writers : x.id # c
    BY <2>1 DEF Writers
  <2>4. Places[g] = "active" /\ Holders[g] # NoSession
    <3>1. status[g] = "active" /\ lease[g].token # 0
      BY DEF Renewal, IsActive
    <3> QED BY <3>1, StandingOf, HolderIsSession DEF Places, Holders
  <2>5. Authority!Admit(w)
    BY <1>2, <1>3, <2>2, <2>3, <2>4 DEF Authority!Admit, Places, Holders, Writers
  <2> QED BY <2>5 DEF Authority!Next
<1>6. CASE RenewsCall(g)
  <2>1. PICK c \in calls : calls' = (calls \ {c}) \cup {[c EXCEPT !.expires = now + CallLease]}
    BY <1>6 DEF RenewsCall
  <2> DEFINE d == [c EXCEPT !.expires = now + CallLease]
  <2>2. c \in Call
    BY DEF TypeOK
  <2>3. d.id = c.id /\ d.goal = c.goal /\ d.generation = c.generation
    BY <2>2 DEF Call
  <2>4. calls' = (calls \ {c}) \cup {d}
    BY <2>1
  <2> HIDE DEF d
  <2>5. Writers' \subseteq Writers
    <3> SUFFICES ASSUME NEW x \in calls'
                 PROVE  [id |-> x.id, goal |-> x.goal, epoch |-> x.generation] \in Writers
      BY DEF Writers
    <3>1. CASE x = d
      BY <2>3, <3>1 DEF Writers
    <3>2. CASE x \in calls
      BY <3>2 DEF Writers
    <3> QED BY <2>4, <3>1, <3>2
  <2> QED BY <1>2, <1>3, <2>5, MapsToLeave DEF Authority!Next
<1> QED BY <1>4, <1>5, <1>6 DEF Renewal

\* Releasing the lease is a release, ending the goal an end.
LEMMA EndingMaps ==
  ASSUME TypeOK, NEW g \in Goals, NEW st \in TerminalStatuses \cup {"active"}, Ending(g, st)
  PROVE  Authority!Next
<1>1. Places[g] = "active" /\ generation' = generation
  BY StandingOf DEF Ending, IsActive, Places
<1>2. Places' = [Places EXCEPT ![g] = Standing(st)]
  BY DEF Ending, Places, TypeOK
<1>3. Holders' = [Holders EXCEPT ![g] = NoSession]
  BY DEF Ending, Holders, TypeOK, NoLease
<1>4. Writers' \subseteq Writers
  BY DEF Ending, Writers
<1>5. CASE st = "active"
  <2>1. Places' = Places /\ Writers' = Writers
    <3>1. Standing(st) = "active"
      BY <1>5, StandingOf
    <3>2. Places' = Places
      BY <1>1, <1>2, <3>1 DEF Places
    <3> QED BY <1>5, <3>2 DEF Ending, Writers
  <2>2. Authority!Release(g)
    BY <1>1, <1>3, <2>1 DEF Authority!Release, Places, Holders, Writers
  <2> QED BY <2>2 DEF Authority!Next
<1>6. CASE st # "active"
  <2>1. Standing(st) \in {"blocked", "ended"}
    BY <1>6, StandingOf DEF TerminalStatuses
  <2>2. Authority!End(g, Standing(st))
    BY <1>1, <1>2, <1>3, <1>4 DEF Authority!End, Places, Holders, Writers
  <2> QED BY <2>1, <2>2 DEF Authority!Next
<1> QED BY <1>5, <1>6

\* Every acquisition is a hand-over of a goal that has not ended.
LEMMA HandOverMaps ==
  ASSUME TypeOK, NEW g \in Goals, NEW s \in Sessions, HandOver(g, s)
  PROVE  Authority!Next
<1>1. Places[g] # "ended"
  BY StandingOf DEF HandOver, Places
<1>2. Places' = [Places EXCEPT ![g] = "active"]
  <2>1. Standing("active") = "active"
    BY StandingOf
  <2>2. status' = [status EXCEPT ![g] = "active"]
    BY DEF HandOver
  <2> QED BY <2>1, <2>2 DEF Places, TypeOK
<1>3. Holders' = [Holders EXCEPT ![g] = s]
  <2>1. lease'[g].session = s /\ \A x \in Goals \ {g} : lease'[x] = lease[x]
    BY DEF HandOver, TypeOK
  <2> QED BY <2>1 DEF Holders
<1>4. generation' = [generation EXCEPT ![g] = @ + 1] /\ Writers' = Writers
  BY DEF HandOver, Writers
<1>5. Authority!HandOver(g, s)
  BY <1>1, <1>2, <1>3, <1>4 DEF Authority!HandOver, Places, Holders, Writers
<1> QED BY <1>5 DEF Authority!Next

\* The repository implements the abstract lease: through run_goal, wakes,
\* receipts, cancellation, reconciliation and blocked recovery in any order, a
\* goal is led by one session per generation, an ended goal is never led again
\* and no mutation is admitted under an old generation.
THEOREM RefinesAuthority == Spec => ImplementsAuthority
<1>1. Init => Authority!Init
  <2> SUFFICES ASSUME Init PROVE Authority!Init
    OBVIOUS
  <2>1. Places = [g \in Goals |-> "absent"]
    BY StandingOf DEF Init, Places
  <2>2. Holders = [g \in Goals |-> NoSession] /\ Writers = {}
    BY DEF Init, Holders, Writers, NoLease
  <2> QED BY <2>1, <2>2 DEF Authority!Init, Init, Places, Holders, Writers
<1>2. LeaseInv /\ Fencing /\ [Next]_vars => [Authority!Next]_(Authority!vars)
  <2> SUFFICES ASSUME LeaseInv, Fencing, [Next]_vars PROVE [Authority!Next]_(Authority!vars)
    OBVIOUS
  <2>1. CASE Next
    <3>1. StepClass /\ TypeOK
      BY <2>1, NextClass DEF LeaseInv
    <3>2. CASE Idle
      <4>1. Places' = Places /\ Holders' = Holders /\ generation' = generation
        BY <3>2 DEF Idle, LeadVars, Places, Holders
      <4>2. Writers' \subseteq Writers
        BY <3>2 DEF Idle, Writers
      <4> QED BY <4>1, <4>2, MapsToLeave DEF Authority!Next
    <3> QED BY <3>1, <3>2, RenewalMaps, EndingMaps, HandOverMaps DEF StepClass
  <2>2. CASE UNCHANGED vars
    BY <2>2 DEF vars, Authority!vars
  <2> QED BY <2>1, <2>2
<1> QED
  BY <1>1, <1>2, LeaseInvHolds, FencingHolds, PTL DEF Spec, ImplementsAuthority, Authority!Spec

=============================================================================
