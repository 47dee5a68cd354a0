------------------------------ MODULE MCGoals ------------------------------
(***************************************************************************)
(* Model-checking instance of the goal repository: two sessions that race  *)
(* for a goal without scheduled wakes, or one session whose wakes get      *)
(* every receipt in every order, or two sessions, fenced calls and one     *)
(* watchdog.  The scene is chosen in the initial state; all of it together *)
(* exceeds the time a run may take.                                        *)
(***************************************************************************)
EXTENDS GoalRepository

CONSTANTS Scheduler,       \* the first worker in every scene
          ReceiptTime,     \* bounds of the second scene
          ReceiptRevision,
          WatchTime,       \* bounds of the third scene
          WatchRevision

VARIABLE scene

sceneVars == <<scene, vars>>

SceneInit == Init /\ scene \in {"sessions", "receipts", "watchdog"}

\* Nobody but the scheduler leads the goal, once and for a shorter time.
Scheduled ==
    /\ now' <= ReceiptTime /\ UNCHANGED <<obs, task>>
    /\ \A g \in Goals : revision'[g] <= ReceiptRevision /\ generation'[g] <= 1

\* The steps of Next for a goal with one recurring wake, created as it was
\* prepared.  (A goal that completes is left as one that fails, but for the
\* tasks it may not have.)
WatchWorker(s, g) ==
    \E tok \in TokensOf(s, g) :
        \/ \E T \in SUBSET Started :
              \/ \E release \in BOOLEAN : Checkpoint(g, s, tok, T, release)
              \/ rows[g] = <<>> /\ Prepare(g, s, tok, T, "interval", 1)
              \/ Refresh(g, s, tok, T, "interval", 1)
        \/ \E st \in {"failed", "blocked"} : Finish(g, s, tok, revision[g], st, now)
        \/ \E c \in Calls : BeginCall(c, g, s, tok)

WatchNext ==
    /\ \/ \E g \in Goals, s \in Sessions : WatchWorker(s, g) \/ AcquireStep(s, g)
       \/ \E g \in Goals : OwnerStep(g) \/ \E k \in DOMAIN rows[g] : ReceiveCreated(g, k)
       \/ \E g \in Goals, s \in Sessions : \E k \in DOMAIN rows[g] : WakeStep(s, g, k)
       \/ \E s \in Observers : EvidenceStep(s)
       \/ CallStep
       \/ EnvStep
    /\ now' <= WatchTime
    /\ \A g \in Goals :
         /\ revision'[g] <= WatchRevision
         /\ \A k \in DOMAIN rows'[g] : rows'[g][k].version <= 1

SceneNext ==
    /\ UNCHANGED scene
    /\ \/ scene = "sessions" /\ Next /\ UNCHANGED <<rows, calls>>
       \/ scene = "receipts" /\ Next /\ UNCHANGED calls /\ Scheduled
       \/ scene = "watchdog" /\ WatchNext
    /\ \A g \in Goals : generation'[g] = 1 => lease'[g].session \in {NoSession, Scheduler}

SceneSpec == SceneInit /\ [][SceneNext]_sceneVars
=============================================================================
