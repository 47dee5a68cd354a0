------------------------------ MODULE MCStores ------------------------------
(***************************************************************************)
(* Model-checking instance of what the runtime keeps on disk: the canonical*)
(* database, the files it edits, the automation runs, the ledger of the    *)
(* containment service, the journals of the update worker and of the       *)
(* admission broker.  The scene, chosen in the initial state, says which   *)
(* of them moves, so that one run explores the state space of each and not *)
(* their product.                                                          *)
(***************************************************************************)
EXTENDS SqliteLifecycle, FileMutations, Automation, Containment,
        UpdateWorker, Admission, TLC

VARIABLE scene

sceneVars == <<scene, dbVars, fileVars, autoVars, containVars, updateVars,
               admissionVars>>

Scenes == {"database", "files", "automation", "containment", "update",
           "admission"}

\* The paths outside the workspace, and those not holding text.
Odd == outside \X {"outside"} \cup {p \in Paths : form[p] # "text"} \X {"form"}
\* Two operations go side by side and a third follows them alone.  Where a path
\* is odd, two are enough: one that leaves something to lose and one that could
\* lose it.
FewOperations ==
    LET begun == Cardinality({o \in Edits : mut'[o].at # "new"}) IN
    /\ Odd # {} => begun <= 2
    /\ begun > 2 => Cardinality(Open') <= 1

SceneInit ==
    /\ scene \in Scenes
    /\ LifecycleInit /\ FileInit /\ AutomationInit /\ ContainInit /\ InitUpdate
    /\ InitAdmission
    /\ scene # "database" => ~pending
    /\ scene # "files" => disk = [p \in Paths |-> Absent]
    /\ Cardinality(Odd) <= IF scene = "files" THEN 1 ELSE 0

SceneNext ==
    /\ UNCHANGED scene
    /\ \/ /\ scene = "database" /\ LifecycleNext
          /\ UNCHANGED <<fileVars, autoVars, containVars, updateVars, admissionVars>>
       \/ /\ scene = "files" /\ FileNext
          /\ FewOperations
          /\ UNCHANGED <<dbVars, autoVars, containVars, updateVars, admissionVars>>
       \/ /\ scene = "automation" /\ AutomationNext
          /\ UNCHANGED <<dbVars, fileVars, containVars, updateVars, admissionVars>>
       \/ /\ scene = "containment" /\ ContainNext
          /\ UNCHANGED <<dbVars, fileVars, autoVars, updateVars, admissionVars>>
       \/ /\ scene = "update" /\ NextUpdate
          /\ UNCHANGED <<dbVars, fileVars, autoVars, containVars, admissionVars>>
       \/ /\ scene = "admission" /\ NextAdmission
          /\ UNCHANGED <<dbVars, fileVars, autoVars, containVars, updateVars>>

SceneSpec == SceneInit /\ [][SceneNext]_sceneVars

\* Paths, ledger entries, images, principals and participants are named alike,
\* and so are edits and requests: one permutation is a symmetry of every scene.
StoreSymmetry == Permutations(Paths) \cup Permutations(Edits)
=============================================================================
