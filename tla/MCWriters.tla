----------------------------- MODULE MCWriters -----------------------------
(***************************************************************************)
(* Model-checking instance of the two users of the writer index: the       *)
(* durable shell tasks and the writer leases.  The scene, chosen in the    *)
(* initial state, says which of the two runs, so that one run explores     *)
(* the state space of each and not their product.                          *)
(***************************************************************************)
EXTENDS ShellTasks, WriterLease, TLC

VARIABLE scene

sceneVars == <<scene, shellVars, leaseVars>>

SceneInit ==
    /\ scene \in {"shell", "lease"}
    /\ ShellInit /\ WriterInit
    /\ scene = "shell" => ~row.held

SceneNext ==
    /\ UNCHANGED scene
    /\ \/ scene = "shell" /\ ShellNext /\ UNCHANGED leaseVars
       \/ scene = "lease" /\ WriterNext /\ UNCHANGED <<taskVars, hostVars>>

SceneSpec == SceneInit /\ [][SceneNext]_sceneVars

CONSTANT Launcher
\* One host is asked to launch all tasks, each once or more.
AskedOfOne == [t \in Tasks |-> {Launcher}]

TaskSymmetry == Permutations(Tasks)

\* Only values the code writes: markers, task files, leases and journals
\* hold what their columns and fields may hold.
WriterTypes == ShellTypeOK /\ WriterTypeOK
=============================================================================
