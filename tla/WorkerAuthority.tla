--------------------------- MODULE WorkerAuthority ---------------------------
(***************************************************************************)
(* What the goal lease promises its users, without clocks, evidence,       *)
(* schedules or revisions: authority over a goal is an epoch held by one   *)
(* session, it changes hands only under a new epoch, an ended goal is      *)
(* final, and a writer is admitted only under the epoch in force.          *)
(***************************************************************************)
EXTENDS Naturals

CONSTANTS Goals, Sessions, Calls, Nobody

VARIABLES
    standing,  \* "absent", "active", "blocked" or "ended"
    epoch,     \* number of grants so far
    holder,    \* the session in charge, or Nobody
    writers    \* admitted mutations, each with the epoch it was admitted in

vars == <<standing, epoch, holder, writers>>

Init ==
    /\ standing = [g \in Goals |-> "absent"]
    /\ epoch = [g \in Goals |-> 0]
    /\ holder = [g \in Goals |-> Nobody]
    /\ writers = {}

\* The goal is created, taken over, or reopened after a block.
HandOver(g, s) ==
    /\ standing[g] # "ended"
    /\ standing' = [standing EXCEPT ![g] = "active"]
    /\ epoch' = [epoch EXCEPT ![g] = @ + 1]
    /\ holder' = [holder EXCEPT ![g] = s]
    /\ UNCHANGED writers

Release(g) ==
    /\ standing[g] = "active"
    /\ holder' = [holder EXCEPT ![g] = Nobody]
    /\ UNCHANGED <<standing, epoch, writers>>

\* Ending a goal may also dismiss its writers.
End(g, st) ==
    /\ standing[g] = "active"
    /\ standing' = [standing EXCEPT ![g] = st]
    /\ holder' = [holder EXCEPT ![g] = Nobody]
    /\ \E W \in SUBSET writers : writers' = W
    /\ UNCHANGED epoch

Admit(w) ==
    /\ standing[w.goal] = "active"
    /\ holder[w.goal] # Nobody
    /\ w.epoch = epoch[w.goal]
    /\ \A x \in writers : x.id # w.id
    /\ writers' = writers \cup {w}
    /\ UNCHANGED <<standing, epoch, holder>>

Leave ==
    /\ \E W \in SUBSET writers : writers' = W
    /\ UNCHANGED <<standing, epoch, holder>>

Next ==
    \/ \E g \in Goals : \/ \E s \in Sessions : HandOver(g, s)
                        \/ Release(g)
                        \/ \E st \in {"blocked", "ended"} : End(g, st)
    \/ \E c \in Calls, g \in Goals : Admit([id |-> c, goal |-> g, epoch |-> epoch[g]])
    \/ Leave

Spec == Init /\ [][Next]_vars

=============================================================================
