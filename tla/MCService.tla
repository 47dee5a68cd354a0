----------------------------- MODULE MCService -----------------------------
(***************************************************************************)
(* Model-checking instance of the goal service: a goal with a watchdog and *)
(* nobody who looks for dead workers, or a goal without one that is        *)
(* reconciled and reopened.  The scene is chosen in the initial state; the *)
(* two together exceed the time a run may take.                            *)
(***************************************************************************)
EXTENDS GoalService

CONSTANT ReopenTime   \* bound on the clock of the second scene

VARIABLE scene

SceneInit == ServiceInit /\ scene \in {"watchdog", "reopen"}

SceneNext ==
    /\ UNCHANGED scene
    /\ ServiceNext
    /\ scene = "watchdog" => UNCHANGED obs
    /\ scene = "reopen" => now' <= ReopenTime /\ UNCHANGED <<rows, host, mail>>

SceneSpec == SceneInit /\ [][SceneNext]_<<scene, allVars>>
=============================================================================
