---------------------------- MODULE WriterIndex ----------------------------
(***************************************************************************)
(* The reservation index of background writers                             *)
(* (packages/capabilities/src/durable-shell-task-index.ts and              *)
(* shared-managed-writer-admission.ts).                                    *)
(*                                                                         *)
(* Every writer that outlives a tool call, on any workspace, first leaves a *)
(* marker file: a durable shell task ("opaque"), a repository import, a    *)
(* synchronous mutation ("sync"), and the probe a workspace lease holds    *)
(* while it changes hands.  Import and probe need the whole index.         *)
(*                                                                         *)
(* reserve() looks at the other markers outside the index lock, because    *)
(* the proof that a task is over may take long, and decides under it: two  *)
(* steps here.  What is under the lock is one step.                        *)
(***************************************************************************)
EXTENDS FiniteSets, Naturals

CONSTANTS Hosts,      \* server processes sharing the data directory
          Jobs,       \* reservation ids
          MaxShell    \* maxConcurrentTasks of durable shell tasks

ASSUME HostsAssumption == IsFiniteSet(Hosts) /\ IsFiniteSet(Jobs)
ASSUME CapacityAssumption == MaxShell \in Nat \ {0}

VARIABLES markers,    \* the files in .index/v1/active
          noted,      \* noted[h]: what a reservation in flight has observed
          up          \* the hosts that run

indexVars == <<markers, noted, up>>

Kinds == {"opaque", "import", "probe", "sync"}
\* mutationKind = "repository_import"
Exclusive(k) == k \in {"import", "probe"}
Marker == [job : Jobs, kind : Kinds, pid : Hosts]
NoNote == [job |-> "none", kind |-> "opaque", gone |-> {}]

IndexTypeOK ==
    /\ markers \subseteq Marker
    /\ up \subseteq Hosts
    /\ \A h \in Hosts : noted[h] = NoNote \/ noted[h].job \in Jobs

IndexInit ==
    /\ markers = {}
    /\ noted = [h \in Hosts |-> NoNote]
    /\ up = Hosts

MarkerOf(j) == {m \in markers : m.job = j}
Reserved(j) == MarkerOf(j) # {}

\* A synchronous mutation ends with its process, whose pid is seen to be gone.
ReclaimSync == {m \in markers : m.kind = "sync" /\ m.pid \notin up}

\* Outside the lock: which markers are proved over.  A task is judged by its
\* own record (over); a failing inspection proves nothing.
Observe(h, j, k, over) ==
    /\ h \in up /\ noted[h] = NoNote
    /\ \E seen \in SUBSET {m \in markers : m.job # j /\ m.job \in over /\ m.kind \in {"opaque", "import"}} :
          noted' = [noted EXCEPT ![h] = [job |-> j, kind |-> k, gone |-> seen]]
    /\ UNCHANGED <<markers, up>>

\* The markers a decision under the lock still finds: a marker that changed
\* since it was observed is not removed.
Remaining(n) == markers \ (ReclaimSync \cup n.gone)
\* Mutant of Blocks: an exclusive writer looks at exclusive ones only.
BlocksEqual(n, m) == Exclusive(n.kind) /\ Exclusive(m.kind)
Blocks(n, m) == Exclusive(n.kind) \/ Exclusive(m.kind)
Full(n) == n.kind = "opaque" /\ Cardinality({m \in Remaining(n) : m.kind \in {"opaque", "import"}}) >= MaxShell
Admits(n) == /\ ~\E m \in Remaining(n) : m.job = n.job \/ Blocks(n, m)
             /\ ~Full(n)

\* Under the lock: the marker is written.
Reserve(h) ==
    LET n == noted[h] IN
    /\ h \in up /\ n # NoNote /\ Admits(n)
    /\ markers' = Remaining(n) \cup {[job |-> n.job, kind |-> n.kind, pid |-> h]}
    /\ noted' = [noted EXCEPT ![h] = NoNote]
    /\ UNCHANGED up

\* Under the lock: refused.  What was proved over before the blocking marker
\* was met is gone all the same.
Refuse(h) ==
    LET n == noted[h] IN
    /\ h \in up /\ n # NoNote /\ ~Admits(n)
    /\ \E gone \in SUBSET n.gone : markers' = markers \ (ReclaimSync \cup gone)
    /\ noted' = [noted EXCEPT ![h] = NoNote]
    /\ UNCHANGED up

\* release() and releaseAfterVerifiedTermination().
Unmark(j) == /\ Reserved(j)
             /\ markers' = markers \ MarkerOf(j)

\* A host is killed; its reservations in flight are lost, its markers are not.
IndexCrash(h) ==
    /\ h \in up
    /\ up' = up \ {h}
    /\ noted' = [noted EXCEPT ![h] = NoNote]
    /\ UNCHANGED markers

\* A host starts again under another pid is a further member of Hosts; under
\* the same pid, the dead one's markers look alive again.
IndexRestart(h) ==
    /\ h \notin up
    /\ up' = up \cup {h}
    /\ UNCHANGED <<markers, noted>>
=============================================================================
