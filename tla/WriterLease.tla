---------------------------- MODULE WriterLease ----------------------------
(***************************************************************************)
(* The writer lease of one workspace                                       *)
(* (packages/capabilities/src/workspace-writer-lease.ts) and the calls the *)
(* tool registry runs under it (packages/mcp-server/src/tool-registry.ts). *)
(*                                                                         *)
(* A session may lease the workspace; while it is leased only calls that   *)
(* carry the proof of the current generation begin.  Every call, with a    *)
(* lease or without, is journaled with the pid of its server.  A lease     *)
(* changes hands (acquire, release, revoke) between two steps on the       *)
(* reservation index: the exclusive probe goes in first and comes out      *)
(* last, and the server may die in between.                                *)
(*                                                                         *)
(* A proof is named by the generation it was issued for: any session may   *)
(* present any proof.                                                      *)
(***************************************************************************)
EXTENDS WriterIndex

CONSTANTS Sessions,
          Peers,       \* the sessions that share one client id
          Calls,
          Work,        \* the managed writers among Jobs
          Ttls,        \* lease durations
          Grace,       \* WORKSPACE_WRITER_STALE_GRACE_MS
          Beat,        \* what a heartbeat extends the lease to
          MaxNow,      \* bound on the clock
          MaxGen       \* bound on generations

ASSUME LeaseAssumption ==
    /\ Peers \subseteq Sessions /\ Work \subseteq Jobs
    /\ Hosts \subseteq Jobs \ Work     \* host h files its probes under h
    /\ Ttls \subseteq Nat \ {0} /\ Grace \in Nat /\ Beat \in Nat
    /\ MaxNow \in Nat /\ MaxGen \in Nat

VARIABLES row,       \* workspace_writer_leases
          journal,   \* workspace_writer_calls
          running,   \* the calls that run in a server
          change,    \* change[h]: acquire, release or revoke in flight
          work,      \* the managed writers: "idle", "runs", "over"
          clock

leaseVars == <<row, journal, running, change, work, clock>>
wlVars == <<indexVars, leaseVars>>

Client(s) == IF s \in Peers THEN "peers" ELSE s
NoOwner == "nobody"
Unleased(g, t) == [gen |-> g, held |-> FALSE, owner |-> NoOwner, expires |-> 0, active |-> t]

WriterTypeOK ==
    /\ IndexTypeOK
    /\ row.gen \in Nat /\ row.held \in BOOLEAN /\ row.owner \in Sessions \cup {NoOwner}
    /\ row.held <=> row.owner # NoOwner
    /\ row.expires \in Nat /\ row.active \in Nat /\ clock \in Nat
    /\ journal \subseteq [call : Calls, gen : Nat, pid : Hosts]
    /\ running \subseteq [call : Calls, gen : Nat, pid : Hosts, by : Sessions, fenced : BOOLEAN]
    /\ work \in [Work -> {"idle", "runs", "over"}]
    /\ change \in [Hosts -> {"idle", "probing", "held", "done"}]

\* The table is empty, or holds a lease from before last_activity_at existed.
WriterInit ==
    /\ IndexInit
    /\ \/ row = Unleased(0, 0)
       \/ \E s \in Sessions, t \in Ttls :
             row = [gen |-> 1, held |-> TRUE, owner |-> s, expires |-> 1 + t, active |-> 0]
    /\ journal = {}
    /\ running = {}
    /\ change = [h \in Hosts |-> "idle"]
    /\ work = [j \in Work |-> "idle"]
    /\ clock = 1

-----------------------------------------------------------------------------
\* processAlive on the journaled pids.
LiveCall == \E c \in journal : c.pid \in up
Matches(s, p) == row.held /\ row.owner = s /\ row.gen = p
IdleSameClient(s) == /\ row.held /\ Client(row.owner) = Client(s) /\ row.active > 0
                     /\ clock - row.active >= Grace

\* Mutant of Begin: the proof's generation is not compared.
BeginAnyProof(h, s, c, p) ==
    /\ h \in up /\ ~\E d \in journal \cup running : d.call = c
    /\ row.held => row.expires > clock /\ p # 0
    /\ journal' = journal \cup {[call |-> c, gen |-> row.gen, pid |-> h]}
    /\ running' = running \cup {[call |-> c, gen |-> row.gen, pid |-> h, by |-> s, fenced |-> row.held]}
    /\ UNCHANGED <<indexVars, row, change, work, clock>>
\* begin: read and journal in one transaction.  p = 0: no proof.
Begin(h, s, c, p) ==
    /\ h \in up /\ ~\E d \in journal \cup running : d.call = c
    /\ IF row.held THEN row.expires > clock /\ Matches(s, p) ELSE p = 0
    /\ journal' = journal \cup {[call |-> c, gen |-> row.gen, pid |-> h]}
    /\ running' = running \cup {[call |-> c, gen |-> row.gen, pid |-> h, by |-> s, fenced |-> row.held]}
    /\ row' = IF row.held THEN [row EXCEPT !.active = clock] ELSE row
    /\ UNCHANGED <<indexVars, change, work, clock>>

\* The registry's timer, while the call runs.
Heartbeat(c) ==
    /\ c \in running /\ c.fenced
    /\ row.gen = c.gen /\ row.held /\ \E d \in journal : d.call = c.call /\ d.gen = c.gen
    /\ row' = [row EXCEPT !.expires = IF @ > clock + Beat THEN @ ELSE clock + Beat, !.active = clock]
    /\ UNCHANGED <<indexVars, journal, running, change, work, clock>>

End(c) ==
    /\ c \in running
    /\ running' = running \ {c}
    /\ journal' = {d \in journal : ~(d.call = c.call /\ d.gen = c.gen)}
    /\ row' = IF row.gen = c.gen THEN [row EXCEPT !.active = clock] ELSE row
    /\ UNCHANGED <<indexVars, change, work, clock>>

\* The transaction of end throws: the registry does not try again.
EndFails(c) ==
    /\ c \in running
    /\ running' = running \ {c}
    /\ UNCHANGED <<indexVars, row, journal, change, work, clock>>

Renew(h, s, p, t) ==
    /\ h \in up /\ Matches(s, p)
    /\ row' = [row EXCEPT !.expires = clock + t, !.active = clock]
    /\ UNCHANGED <<indexVars, journal, running, change, work, clock>>

-----------------------------------------------------------------------------
\* holdExclusiveProbe.  Which change it is for, and whose, is chosen with the
\* transaction: the probe is the same for all.  A managed writer of the index is proved over by its
\* own record.
WorkOver == {j \in Work : work[j] = "over"}
ProbeAsk(h) ==
    /\ change[h] = "idle"
    /\ Observe(h, h, "probe", WorkOver)
    /\ change' = [change EXCEPT ![h] = "probing"]
    /\ UNCHANGED <<row, journal, running, work, clock>>

ProbeHeld(h) ==
    /\ change[h] = "probing" /\ Reserve(h)
    /\ change' = [change EXCEPT ![h] = "held"]
    /\ UNCHANGED <<row, journal, running, work, clock>>

ProbeRefused(h) ==
    /\ change[h] = "probing" /\ Refuse(h)
    /\ change' = [change EXCEPT ![h] = "idle"]
    /\ UNCHANGED <<row, journal, running, work, clock>>

\* The transactions under the probe; each then gives the probe up.
Decided(h) == /\ h \in up /\ change[h] = "held"
              /\ change' = [change EXCEPT ![h] = "done"]
              /\ UNCHANGED <<indexVars, running, work, clock>>
Granted(s, t) == [gen |-> row.gen + 1, held |-> TRUE, owner |-> s, expires |-> clock + t, active |-> clock]

\* Mutant of Acquire: the journaled calls are not looked at.
AcquireOverCalls(h, s, t, recover) ==
    /\ Decided(h) /\ row.gen < MaxGen
    /\ row.held /\ row.expires > clock => recover /\ IdleSameClient(s)
    /\ journal' = {}
    /\ row' = Granted(s, t)
Acquire(h, s, t, recover) ==
    /\ Decided(h) /\ row.gen < MaxGen
    /\ row.held /\ row.expires > clock => recover /\ IdleSameClient(s)
    /\ ~LiveCall
    /\ journal' = {}
    /\ row' = Granted(s, t)

Release(h, s, p) ==
    /\ Decided(h) /\ Matches(s, p)
    /\ journal = {}
    /\ row' = Unleased(row.gen, row.active)
    /\ UNCHANGED journal

\* revokeAbandoned: abandonment() finds the lease not live.
Revoke(h, s) ==
    /\ Decided(h) /\ row.held /\ row.gen < MaxGen
    /\ ~LiveCall
    /\ row.expires <= clock \/ IdleSameClient(s)
    /\ journal' = {}
    /\ row' = Unleased(row.gen + 1, clock)

\* Any of them ends in a conflict, or in nothing to revoke.
NoLeaseChange(h) == Decided(h) /\ UNCHANGED <<row, journal>>

ProbeDropped(h) ==
    /\ h \in up /\ change[h] = "done"
    /\ Unmark(h)
    /\ change' = [change EXCEPT ![h] = "idle"]
    /\ UNCHANGED <<noted, up, row, journal, running, work, clock>>

-----------------------------------------------------------------------------
\* Managed writers: an opaque process (enter, or a durable task), which no
\* host's death ends, and a synchronous mutation, which its own host's does.
WorkAsk(h, j, k) ==
    /\ change[h] = "idle" /\ work[j] = "idle"
    /\ Observe(h, j, k, WorkOver)
    /\ UNCHANGED leaseVars
WorkEnter(h) ==
    /\ noted[h].job \in Work /\ Reserve(h)
    /\ work' = [work EXCEPT ![noted[h].job] = "runs"]
    /\ UNCHANGED <<row, journal, running, change, clock>>
WorkRefused(h) ==
    /\ noted[h].job \in Work /\ Refuse(h)
    /\ UNCHANGED leaseVars
WorkEnds(j) ==
    /\ work[j] = "runs"
    /\ work' = [work EXCEPT ![j] = "over"]
    /\ UNCHANGED <<indexVars, row, journal, running, change, clock>>
WorkReleased(j) ==
    /\ work[j] = "over" /\ Unmark(j)
    /\ UNCHANGED <<noted, up, leaseVars>>

\* A server dies: its calls and its synchronous mutations with it.
ServerCrash(h) ==
    /\ IndexCrash(h)
    /\ running' = {c \in running : c.pid # h}
    /\ change' = [change EXCEPT ![h] = "idle"]
    /\ work' = [j \in Work |-> IF \E m \in MarkerOf(j) : m.kind = "sync" /\ m.pid = h THEN "over" ELSE work[j]]
    /\ UNCHANGED <<row, journal, clock>>

\* A new server is given the dead one's pid: what that one journaled looks
\* alive.
ServerRestart(h) == IndexRestart(h) /\ UNCHANGED leaseVars

Tick == clock < MaxNow /\ clock' = clock + 1 /\ UNCHANGED <<indexVars, row, journal, running, change, work>>

CallStep ==
    \/ \E h \in Hosts, s \in Sessions, c \in Calls, p \in 0..MaxGen : Begin(h, s, c, p)
    \/ \E c \in running : Heartbeat(c) \/ End(c) \/ EndFails(c)
    \/ \E h \in Hosts, s \in Sessions, p \in 1..MaxGen, t \in Ttls : Renew(h, s, p, t)
ChangeStep(h) ==
    \/ ProbeAsk(h) \/ ProbeHeld(h) \/ ProbeRefused(h)
    \/ \E s \in Sessions, t \in Ttls, recover \in BOOLEAN : Acquire(h, s, t, recover)
    \/ \E s \in Sessions, p \in 1..MaxGen : Release(h, s, p)
    \/ \E s \in Sessions : Revoke(h, s)
    \/ NoLeaseChange(h) \/ ProbeDropped(h)
WorkStep ==
    \/ \E h \in Hosts, j \in Work, k \in {"opaque", "sync"} : WorkAsk(h, j, k)
    \/ \E h \in Hosts : WorkEnter(h) \/ WorkRefused(h)
    \/ \E j \in Work : WorkEnds(j) \/ WorkReleased(j)

WriterNext ==
    \/ CallStep \/ WorkStep \/ Tick
    \/ \E h \in Hosts : ChangeStep(h) \/ ServerCrash(h) \/ ServerRestart(h)

WriterSpec == WriterInit /\ [][WriterNext]_wlVars

-----------------------------------------------------------------------------
\* The calls that run are calls of the current generation and, while the
\* workspace is leased, of its owner: no call of an earlier owner, and no call
\* that began without a lease, runs on into somebody's lease.
OneWriter ==
    \A c \in running : c.gen = row.gen /\ (row.held => c.fenced /\ c.by = row.owner)

\* A running call is journaled under a live pid, so that it is seen.
RunningIsJournaled ==
    \A c \in running : c.pid \in up /\ [call |-> c.call, gen |-> c.gen, pid |-> c.pid] \in journal

\* The lease changes hands only while no managed writer runs on any workspace.
ChangesAlone == [][row'.gen # row.gen \/ row'.held # row.held => \A j \in Work : work[j] # "runs"]_wlVars
=============================================================================
