---------------------------- MODULE MCLiveness ----------------------------
(***************************************************************************)
(* Model-checking instance of what must eventually happen: a goal whose    *)
(* worker is gone is recovered by a wake, and a process that is gone is    *)
(* noticed.  The two share no state; the scene, chosen in the initial      *)
(* state, says which of them moves and which fairness is assumed.          *)
(***************************************************************************)
EXTENDS GoalLiveness, ProcessManager

VARIABLE scene

SceneInit == scene \in {"goal", "processes"} /\ Init /\ ProcInit /\ (scene = "goal" => platform = "posix")

SceneNext ==
    /\ UNCHANGED scene
    /\ \/ scene = "goal" /\ LiveNext /\ UNCHANGED procVars
       \/ scene = "processes" /\ ProcNext /\ UNCHANGED vars

SceneSpec ==
    /\ SceneInit /\ [][SceneNext]_<<scene, vars, procVars>>
    /\ \/ scene = "goal" /\ Fairness
       \/ scene = "processes" /\ ProcFairness
=============================================================================
