----------------------------- MODULE MCDesktop -----------------------------
(***************************************************************************)
(* Model-checking instance of what owns operating system processes: the    *)
(* tunnel lock between desktops, the tunnel controller inside one, the     *)
(* process manager and the child MCP sessions.  The scene, chosen in the   *)
(* initial state, says which of them moves.                                *)
(***************************************************************************)
EXTENDS TunnelLock, TunnelController, ProcessManager, McpSessions, TLC

VARIABLE scene

sceneVars == <<scene, tlVars, tcVars, procVars, mcpVars>>

SceneInit ==
    /\ scene \in {"lock", "controller", "processes", "sessions"}
    /\ TunnelInit /\ ControllerInit /\ ProcInit /\ McpInit
    /\ scene # "processes" => platform = "posix"
    /\ scene # "lock" => onWindows

\* The POSIX section is explored by two desktops: what it guarantees to more
\* is the question of another run.
FewOnPosix == ~onWindows => \A d \in Desktops \ Procs : step'[d] = "idle" /\ d \notin dead'

\* Two requests race over two connections; what needs a third one, left by
\* aborted requests, needs one request at a time.
FewRequests ==
    Cardinality({i \in Links : link'[i].at # "none"}) > 2
      => Cardinality({k \in Callers : caller'[k].at # "idle"}) <= 1

SceneNext ==
    /\ UNCHANGED scene
    /\ \/ scene = "lock" /\ TunnelNext /\ FewOnPosix /\ UNCHANGED <<tcVars, procVars, mcpVars>>
       \/ scene = "controller" /\ ControllerNext /\ UNCHANGED <<tlVars, procVars, mcpVars>>
       \/ scene = "processes" /\ ProcNext /\ UNCHANGED <<tlVars, tcVars, mcpVars>>
       \/ scene = "sessions" /\ McpNext /\ FewRequests /\ UNCHANGED <<tlVars, tcVars, procVars>>

SceneSpec == SceneInit /\ [][SceneNext]_sceneVars

\* Desktops, processes, callers and launches are named alike, so that one
\* permutation is a symmetry of every scene.
SceneSymmetry == Permutations(Procs)

\* Only values the code writes: locks, queues and process records
\* hold what their columns and fields may hold.
DesktopTypes == TunnelTypeOK /\ ControllerTypeOK /\ ProcTypeOK /\ McpTypeOK
=============================================================================
