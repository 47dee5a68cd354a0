----------------------------- MODULE Continuation -----------------------------
(***************************************************************************)
(* The transactions of SqliteGoalRepository on scheduled continuations:    *)
(* prepare and refresh, the receipts of the native task host, cancellation,*)
(* expedite, and the claim a fired native wake makes.  Row k of goal g is  *)
(* the continuation of generation k; the identity of a native task is      *)
(* reduced to whether the row has one (a receipt naming another task is    *)
(* rejected).                                                              *)
(***************************************************************************)
EXTENDS GoalLease

\* What every prepare writes on the goal row: checkpoint data without an
\* activity bump, and a renewed lease up to limit (0: no limit).
PrepareGoal(g, T, limit) ==
    /\ revision[g] < MaxRevision
    /\ revision' = [revision EXCEPT ![g] = @ + 1]
    /\ tasks' = [tasks EXCEPT ![g] = T]
    /\ ever' = [ever EXCEPT ![g] = @ \cup T]
    /\ lease' = Renewed(g, Capped(now + lease[g].term, limit))
    /\ UNCHANGED <<now, status, generation, seq, calls, runs, issued, obs, task>>

\* prepareScheduledContinuation when the goal has no live row: at most one
\* active goal of the workspace may own a schedule.
Prepare(g, s, tok, T, occ, delay) ==
    /\ MutableLease(g, s, tok, now)
    /\ ScheduledOwners \subseteq {g}
    /\ ~HasLive(g)
    /\ Len(rows[g]) < MaxRows
    /\ PrepareGoal(g, T, IF occ = "once" THEN now + delay ELSE 0)
    /\ rows' = [rows EXCEPT ![g] = Append(@, NewRow(occ, now + delay, 0))]

\* refreshLiveScheduledContinuation: a legacy caller (occ = "once") retimes a
\* confirmed one-time wake when the new due time is a minute or more away.
\* Should two goals own schedules, the owner query returns the one updated
\* last; which one that is, is left open.
Retimes(r, occ, due) == r.status = "scheduled" /\ r.occ = "once" /\ occ = "once" /\ due # r.due
Refresh(g, s, tok, T, occ, delay) ==
    \E k \in DOMAIN rows[g] : LET r == rows[g][k] due == now + delay IN
        /\ IsLatestLive(g, k)
        /\ MutableLease(g, s, tok, now)
        /\ r.status \notin CancelStatuses
        /\ r.status = "scheduled" => r.native /\ r.confirmed
        /\ (r.status = "scheduled" /\ r.occ = "once" /\ occ = "once") => r.due > now
        /\ Retimes(r, occ, due) => r.version < MaxVersion
        /\ PrepareGoal(g, T, IF r.occ = "interval" THEN 0
                             ELSE IF Retimes(r, occ, due) THEN due ELSE EffectiveDue(r))
        /\ rows' = IF Retimes(r, occ, due)
                   THEN [rows EXCEPT ![g] =
                            WithRow(g, k, [Moved(r, "reschedule_required") EXCEPT !.pending = due])]
                   ELSE rows

-----------------------------------------------------------------------------
(* A transaction that writes only row k of goal g. *)

UpdateRow(g, k, r) ==
    /\ rows[g][k].version < MaxVersion
    /\ IndexAdmits(WithRow(g, k, r))
    /\ rows' = [rows EXCEPT ![g] = WithRow(g, k, r)]
    /\ UNCHANGED <<now, status, revision, lease, generation, seq, tasks, ever, calls,
                   runs, issued, obs, task>>

\* Mutant of ReceiptStatus: the outcome is stored as the status.
RawOutcome(out) == out
\* receiptStatus: the row status a receipt outcome stands for.
ReceiptStatus(out) == CASE out \in {"created", "rescheduled"} -> "scheduled"
                        [] out = "consumed" -> "superseded"
                        [] OTHER -> out

\* confirmed_runs_on after a receipt that reports mode m.
Confirmed(r, m) == CASE m = "hosted" -> TRUE
                     [] m = "local" -> FALSE
                     [] OTHER -> r.confirmed

\* recordScheduledContinuationReceipt, outcome created.
ReceiveCreated(g, k) == LET r == rows[g][k] IN
    /\ "created" \in Outcomes
    /\ r.status \in UnconfirmedStatuses
    /\ UpdateRow(g, k, [Moved(r, ReceiptStatus("created")) EXCEPT !.native = TRUE, !.confirmed = TRUE])

\* ..., outcome rescheduled: confirms the pending time, or an early-fire
\* correction of a scheduled row.
ReceiveRescheduled(g, k, m) == LET r == rows[g][k] IN
    /\ "rescheduled" \in Outcomes
    /\ r.native
    /\ \/ r.pending # 0 /\ r.status \in RetimeStatuses
       \/ r.pending = 0 /\ r.status = "scheduled"
    /\ UpdateRow(g, k, [Moved(r, ReceiptStatus("rescheduled")) EXCEPT
                          !.due = EffectiveDue(r), !.pending = 0,
                          !.retimes = @ + 1, !.confirmed = Confirmed(r, m)])

\* ..., outcome reschedule_failed or reschedule_uncertain.  The code asks for
\* a native task and a pending time, not for a status.
ReceiveRetimeUnsettled(g, k, out, m) == LET r == rows[g][k] IN
    /\ out \in Outcomes \cap {"reschedule_failed", "reschedule_uncertain"}
    /\ r.native /\ r.pending # 0
    /\ UpdateRow(g, k, [Moved(r, ReceiptStatus(out)) EXCEPT !.confirmed = Confirmed(r, m)])

\* ..., outcome consumed: a one-time native task ran.
ReceiveConsumed(g, k, m) == LET r == rows[g][k] IN
    /\ "consumed" \in Outcomes
    /\ r.occ = "once" /\ r.native
    /\ r.status \in LiveStatuses \ {"prepared"}
    /\ UpdateRow(g, k, [Moved(r, ReceiptStatus("consumed")) EXCEPT
                          !.pending = 0, !.confirmed = Confirmed(r, m)])

\* ..., outcome cancelled, with evidence that the task is not runnable.
ReceiveCancelled(g, k, m) == LET r == rows[g][k] IN
    /\ "cancelled" \in Outcomes
    /\ r.status \in CancelStatuses /\ r.native
    /\ UpdateRow(g, k, [Moved(r, ReceiptStatus("cancelled")) EXCEPT !.confirmed = Confirmed(r, m)])

\* ..., outcome cancel_failed or cancel_uncertain.
ReceiveCancelUnsettled(g, k, out, m) == LET r == rows[g][k] IN
    /\ out \in Outcomes \cap {"cancel_failed", "cancel_uncertain"}
    /\ r.status \in CancelStatuses
    /\ UpdateRow(g, k, [Moved(r, ReceiptStatus(out)) EXCEPT !.confirmed = Confirmed(r, m)])

\* ..., outcome create_failed or create_uncertain: accepted from any status,
\* with or without a task identity.
ReceiveCreateUnsettled(g, k, out, named, m) == LET r == rows[g][k] IN
    /\ out \in Outcomes \cap {"create_failed", "create_uncertain"}
    /\ UpdateRow(g, k, [Moved(r, ReceiptStatus(out)) EXCEPT !.native = @ \/ named,
                                             !.confirmed = Confirmed(r, m)])

\* The status cancelScheduledContinuation moves a row to; the rows it leaves
\* alone (already cancelled, fired, or in cleanup) are not listed here.
CancelTarget(r) ==
    IF r.native /\ r.status \in {"cancel_failed", "cancel_uncertain", "scheduled",
                                 "create_uncertain"} \cup RetimeStatuses
    THEN "cancel_required"
    ELSE IF ~r.native /\ r.status \in {"prepared", "create_failed"} THEN "superseded"
    ELSE "cancel_uncertain"

CancelContinuation(g, k) == LET r == rows[g][k] IN
    /\ r.status \notin {"cancelled", "superseded", "claimed", "terminal_noop"}
    /\ ~(r.status = "cancel_required" /\ r.native)
    /\ UpdateRow(g, k, Moved(r, CancelTarget(r)))

\* markGoalFinishedForScheduledContinuation: the status given to the live row
\* when its goal ends; at is the time the ending request sampled.
FinishTarget(r, at) ==
    IF r.native /\ r.status \in {"scheduled", "create_uncertain"} \cup RetimeStatuses
    THEN IF r.occ = "once" /\ EffectiveDue(r) <= at THEN "cancel_uncertain" ELSE "cancel_required"
    ELSE IF ~r.native /\ r.status = "prepared" THEN "superseded"
    ELSE "cancel_uncertain"

MarkFinished(g, at) ==
    \E k \in DOMAIN rows[g] :
        /\ IsLatestLive(g, k)
        /\ rows[g][k].status \notin CancelStatuses
        /\ UpdateRow(g, k, Moved(rows[g][k], FinishTarget(rows[g][k], at)))

\* Mutant of Expedite: the requested time is not recorded as pending.
ExpediteUnrecorded(g, k, s, tok, lead) == LET r == rows[g][k] IN
    /\ MutableLease(g, s, tok, now)
    /\ r.occ = "once" /\ r.status = "scheduled" /\ r.native /\ r.confirmed
    /\ r.due > now + lead
    /\ UpdateRow(g, k, Moved(r, "reschedule_required"))

\* expediteScheduledContinuation (one-time rows only): asks the host for an
\* earlier firing of the same task.
Expedite(g, k, s, tok, lead) == LET r == rows[g][k] IN
    /\ MutableLease(g, s, tok, now)
    /\ generation[g] = issued[g][tok].generation
    /\ r.occ = "once" /\ r.status = "scheduled" /\ r.native /\ r.confirmed
    /\ r.due > now + lead
    /\ UpdateRow(g, k, [Moved(r, "reschedule_required") EXCEPT !.pending = now + lead])

-----------------------------------------------------------------------------
(* Successor reservation for a one-time wake. *)

\* The successor of row k has an identity derived from k, so at most one row
\* carries pred = k.
SuccessorIn(rs, k) == {j \in DOMAIN rs : rs[j].pred = k}
\* refreshUnconfirmedClaimSuccessorIfStale: a creation known to have failed
\* and whose time has passed is offered again.
Recreatable(r) == r.status = "create_failed" /\ ~r.native /\ r.due <= now
\* assertClaimSuccessorInvariant and the checks of prepareFreshClaimSuccessor.
CanReserve(rs, k) ==
    /\ rs[k].native /\ rs[k].confirmed
    /\ IF SuccessorIn(rs, k) # {}
       THEN /\ SuccessorIn(rs, k) = {k + 1}
            /\ rs[k + 1].status \in UnconfirmedStatuses
            /\ rs[k + 1].version < MaxVersion
       ELSE LiveIn(rs) = {} /\ k = Len(rs) /\ k < MaxRows
\* Mutant of Reserved: the successor does not record its predecessor.
ReservedUnlinked(rs, k, due) == Append(rs, NewRow("once", due, 0))
Reserved(rs, k, due) ==
    IF SuccessorIn(rs, k) = {} THEN Append(rs, NewRow("once", due, k))
    ELSE IF Recreatable(rs[k + 1])
         THEN [rs EXCEPT ![k + 1] = [Moved(rs[k + 1], "prepared") EXCEPT !.due = due]]
         ELSE rs
\* The due time of the reserved successor caps the goal's lease.
SuccessorDue(rs, k, due) == Reserved(rs, k, due)[k + 1].due

ClaimDelay(term) == Min2(CollisionMax, Max2(ClaimMin, term))
\* adaptiveCollisionSuccessorSeconds
Backoff(n) == CollisionMin * (IF n = 0 THEN 1 ELSE IF n = 1 THEN 2 ELSE IF n = 2 THEN 4 ELSE 8)
CollisionDelay(g, r, probing) ==
    LET aligned == IF Held(g, now) THEN lease[g].expires - now + EarlyTolerance ELSE 0
        floor == IF probing THEN ProbeMin + EarlyTolerance ELSE aligned
    IN Min2(CollisionMax, Max2(Max2(CollisionMin, Backoff(r.retimes)), floor))

-----------------------------------------------------------------------------
(* claimScheduledContinuation, one-time rows. *)

Due(r) == now + EarlyTolerance >= r.due
Probed(g, r) == r.probe.at # 0 /\ r.probe.generation = generation[g] /\ r.probe.seq = seq[g]
\* Two matching probes far enough apart prove the holder gone.
OrphanProven(g, r) == Probed(g, r) /\ now - r.probe.at >= ProbeMin
\* Mutant of WorkerGone: an expired lease is proof enough.
LeaseExpired(g, r, e) == ~Held(g, now) \/ (ConfirmedInactive(g, e) /\ OrphanProven(g, r))
\* The evidence and the lease, or two probes, allow a takeover.
WorkerGone(g, r, e) == ConfirmedInactive(g, e) /\ (OrphanProven(g, r) \/ ~Held(g, now))
Fired(r) == /\ r.occ = "once" /\ r.status \in {"prepared", "scheduled", "create_uncertain"}
            /\ r.native /\ r.confirmed

\* The wake takes the lease: row k is claimed, its successor reserved and the
\* new lease capped at the successor's due time, in one transaction.
ClaimTakeover(s, g, k, term) ==
    \E e \in obs[s] :
        LET r == rows[g][k]
            rs == WithRow(g, k, [Moved(r, "claimed") EXCEPT !.pending = 0, !.probe = NoProbe])
            due == now + ClaimDelay(term)
        IN  /\ IsActive(g) /\ Fired(r) /\ Due(r) /\ r.version < MaxVersion
            /\ EvidenceMatches(g, e) /\ WorkerGone(g, r, e)
            /\ CanReserve(rs, k) /\ IndexAdmits(Reserved(rs, k, due))
            /\ rows' = [rows EXCEPT ![g] = Reserved(rs, k, due)]
            /\ Grant(g, s, term, Min2(now + term, SuccessorDue(rs, k, due)))
            /\ obs' = [obs EXCEPT ![s] = {}]
            /\ UNCHANGED <<now, status, revision, tasks, ever, calls, runs, task>>

\* Mutant of Collide: the firing row is retired and no successor reserved.
CollideUnrenewed(g, k, probe) ==
    LET r == rows[g][k]
    IN  /\ IsActive(g) /\ r.native /\ r.confirmed /\ r.version < MaxVersion
        /\ rows' = [rows EXCEPT ![g] = WithRow(g, k, Moved(r, "superseded"))]
        /\ lease' = lease

\* prepareFreshCollisionSuccessor: the firing row is retired, the holder keeps
\* its lease up to the due time of the successor; probe is carried over.
Collide(g, k, probe) ==
    LET r == rows[g][k]
        rs == WithRow(g, k, [Moved(r, "superseded") EXCEPT !.pending = 0,
                                !.retimes = @ + 1, !.probe = probe])
        due == now + CollisionDelay(g, r, probe.at # 0)
        after == Reserved(rs, k, due)
    IN  /\ IsActive(g) /\ r.native /\ r.confirmed /\ r.version < MaxVersion
        /\ CanReserve(rs, k) /\ IndexAdmits(after)
        /\ rows' = [rows EXCEPT ![g] =
                      [after EXCEPT ![k + 1] = [@ EXCEPT !.retimes = r.retimes + 1, !.probe = probe]]]
        /\ lease' = CutAt(g, SuccessorDue(rs, k, due))

ProbeAt(g, at) == IF at = 0 THEN NoProbe ELSE [at |-> at, generation |-> generation[g], seq |-> seq[g]]

\* A retime row that fired, or a wake that fired too early, is retired without
\* looking at the evidence.
ClaimUntimely(g, k) == LET r == rows[g][k] IN
    /\ \/ r.occ = "once" /\ r.status \in RetimeStatuses /\ Collide(g, k, ProbeAt(g, r.probe.at))
       \/ Fired(r) /\ ~Due(r) /\ Collide(g, k, NoProbe)
    /\ UNCHANGED <<now, status, revision, generation, seq, tasks, ever, calls, runs,
                   issued, obs, task>>

\* A due wake meets a worker that is, or may be, alive.  A quiet holder of an
\* unexpired lease starts, or keeps, an orphan probe.
ClaimCollision(s, g, k) ==
    \E e \in obs[s] : LET r == rows[g][k] IN
        /\ Fired(r) /\ Due(r)
        /\ EvidenceMatches(g, e)
        /\ ~WorkerGone(g, r, e)
        /\ Collide(g, k, ProbeAt(g, IF ~ConfirmedInactive(g, e) THEN 0
                                    ELSE IF Probed(g, r) THEN r.probe.at ELSE now))
        /\ obs' = [obs EXCEPT ![s] = {}]
        /\ UNCHANGED <<now, status, revision, generation, seq, tasks, ever, calls, runs,
                       issued, task>>

\* A wake already claimed or superseded comes back (a duplicate, or a crash
\* before its successor was recorded): the successor is recovered.
ClaimRetired(g, k, term) ==
    LET r == rows[g][k]
        due == now + ClaimDelay(term)
    IN  /\ IsActive(g) /\ r.occ = "once" /\ r.status \in {"claimed", "superseded"}
        /\ r.status = "claimed" => \A j \in LiveIn(rows[g]) :
                IsLatestLive(g, j) => j = k + 1 /\ rows[g][j].status \in UnconfirmedStatuses
        /\ CanReserve(rows[g], k) /\ IndexAdmits(Reserved(rows[g], k, due))
        /\ rows' = [rows EXCEPT ![g] = Reserved(@, k, due)]
        /\ lease' = CutAt(g, SuccessorDue(rows[g], k, due))
        /\ UNCHANGED <<now, status, revision, generation, seq, tasks, ever, calls, runs,
                       issued, obs, task>>

\* A wake of a goal that has ended.
ClaimTerminal(g, k) ==
    /\ status[g] \in TerminalStatuses
    /\ rows[g][k].occ = "once"
    /\ rows[g][k].status \notin {"claimed", "superseded", "terminal_noop"}
    /\ UpdateRow(g, k, Moved(rows[g][k], "terminal_noop"))

-----------------------------------------------------------------------------
(* claimRecurringScheduledContinuation: interval rows. *)

\* recurringRunKey: the number of whole intervals since the anchor.
RunKey(r) == IF now <= r.due THEN 0 ELSE (now - r.due) \div Interval
\* recordRecurringRun: one ledger entry per row and run key, overwritten.
Record(g, k, outcome, gen) ==
    runs' = [runs EXCEPT ![g] =
               {x \in @ : x.row # k \/ x.key # RunKey(rows[g][k])}
                 \cup {[row |-> k, key |-> RunKey(rows[g][k]), outcome |-> outcome,
                        generation |-> gen]}]

RecurringDue(g, k) == LET r == rows[g][k] IN
    /\ IsActive(g) /\ r.occ = "interval"
    /\ r.status \in {"scheduled", "create_uncertain"}
    /\ r.native /\ r.confirmed /\ Due(r)

RecurringWorkerGone(g, e) ==
    ConfirmedInactive(g, e) /\ (~Held(g, now) \/ StaleRecovery(g, e, TRUE))

\* claimRecurringContinuationLease.  Interval rows never carry a probe.
ClaimRecurringTakeover(s, g, k, term) ==
    \E e \in obs[s] :
        /\ RecurringDue(g, k)
        /\ EvidenceMatches(g, e) /\ RecurringWorkerGone(g, e)
        /\ Grant(g, s, term, now + term)
        /\ Record(g, k, IF Held(g, now) THEN "orphan_recovered" ELSE "acquired", NextGeneration(g))
        /\ obs' = [obs EXCEPT ![s] = {}]
        /\ UNCHANGED <<now, status, revision, tasks, ever, rows, calls, task>>

ClaimRecurringBusy(s, g, k) ==
    \E e \in obs[s] :
        /\ RecurringDue(g, k)
        /\ EvidenceMatches(g, e)
        /\ ~RecurringWorkerGone(g, e)
        /\ Record(g, k, "worker_busy_noop", 0)
        /\ obs' = [obs EXCEPT ![s] = {}]
        /\ UNCHANGED <<now, status, revision, lease, generation, seq, tasks, ever, rows,
                       calls, issued, task>>

\* A recurring wake after completion was requested only asks for cleanup.
ClaimRecurringCleanup(g, k) == LET r == rows[g][k] IN
    /\ r.occ = "interval" /\ r.status \in CancelStatuses
    /\ r.native /\ r.confirmed
    /\ \A x \in runs[g] : x.row # k \/ x.key # RunKey(r)
    /\ Record(g, k, "terminal_cleanup_required", 0)
    /\ UNCHANGED <<now, status, revision, lease, generation, seq, tasks, ever, rows,
                   calls, issued, obs, task>>

=============================================================================
