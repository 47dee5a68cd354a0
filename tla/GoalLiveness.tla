---------------------------- MODULE GoalLiveness ----------------------------
(***************************************************************************)
(* What must eventually happen to a goal whose worker stopped: the native  *)
(* wake that was armed for it finds out and hands the goal to another      *)
(* session.  GoalRepository under the fairness of time, of the native host *)
(* and of the requests a wake makes; the worker owes nothing.              *)
(***************************************************************************)
EXTENDS GoalRepository

\* A wake that ends in a hand-over, and one that finds the worker alive.
TakesOver(s, g) == \E k \in DOMAIN rows[g], term \in LeaseTerms :
    ClaimTakeover(s, g, k, term) \/ ClaimRecurringTakeover(s, g, k, term)
Collides(s, g) == \E k \in DOMAIN rows[g] : ClaimCollision(s, g, k)

\* Time passes and the host creates the tasks it was asked for.  A wake fires
\* again and again: its request may be lost, and may be unable to read the
\* state of a task, but not every time.
Fairness ==
    /\ WF_vars(Tick)
    /\ \A g \in Goals : WF_vars(\E k \in DOMAIN rows[g] : ReceiveCreated(g, k))
    /\ \A g \in Goals : WF_vars(\E k \in DOMAIN rows[g] : Due(rows[g][k]) /\ ClaimUntimely(g, k))
    /\ \A s \in Observers :
        /\ \A g \in Goals :
            /\ WF_vars(ReadGoal(s, g))
            /\ SF_vars(TakesOver(s, g)) /\ SF_vars(Collides(s, g))
        /\ SF_vars(ObserveFence(s)) /\ WF_vars(DropEvidence(s))
        /\ SF_vars(ReadTasks(s, FALSE))

\* The steps of GoalRepository without those of the owner (who may end a goal
\* or its schedule at any time) and of other sessions that come by chance:
\* whatever recovers the goal here, a wake does.
LiveNext ==
    \/ \E g \in Goals, s \in Sessions :
        \/ WorkerStep(s, g)
        \/ \E term \in LeaseTerms : Create(g, s, term)
        \/ \E k \in DOMAIN rows[g] : ReceiptStep(g, k) \/ WakeStep(s, g, k)
    \/ \E s \in Observers : EvidenceStep(s)
    \/ CallStep
    \/ EnvStep

LiveSpec == Init /\ [][LiveNext]_vars /\ Fairness

\* The host confirmed the wake of g, a recurring one or one of a chain.
Armed(g, occ) == \E k \in DOMAIN rows[g] :
    rows[g][k].occ = occ /\ rows[g][k].status = "scheduled" /\ rows[g][k].native /\ rows[g][k].confirmed
\* The goal has ended or has a new worker.
Settled(g) == ~IsActive(g) \/ generation[g] > 1
\* A bound of the instance, not the code, is what stops the wakes.
OutOfBounds(g) ==
    \/ now = MaxTime /\ (Held(g, now) \/ LiveCalls(g) # {} \/ \E k \in FenceIn(rows[g]) : ~Due(rows[g][k]))
    \/ Len(rows[g]) = MaxRows /\ rows[g][MaxRows].occ = "once"

\* A goal with a confirmed wake is not left to a worker that is gone: it ends,
\* or another generation gets the lease.  A recurring wake stays armed when it
\* finds the worker alive (claimRecurringScheduledContinuation); a one-time wake
\* that does, or that cannot tell, leaves a later one behind
\* (prepareFreshCollisionSuccessor).
OrphansRecover ==
    \A g \in Goals, occ \in {"once", "interval"} :
        Armed(g, occ) ~> (Settled(g) \/ OutOfBounds(g))
=============================================================================
