---------------------------- MODULE McpSessions ----------------------------
(***************************************************************************)
(* McpSessionManager: the child MCP servers that tool calls go through.    *)
(* One server name is modelled; its maps hold one published session, one   *)
(* pending connection and one session whose termination failed.  Calls,    *)
(* connections, closings and changes of settings interleave at every       *)
(* await; an aborted call leaves its connection running on its own.        *)
(***************************************************************************)
EXTENDS Naturals, FiniteSets

CONSTANTS Callers,       \* requests that may be in progress at once
          Launches,      \* launch configurations (their fingerprints)
          MaxLinks,      \* bound: connections started
          MaxFaults      \* bound: failed terminations

ASSUME LinksAssumption == MaxLinks \in Nat /\ MaxFaults \in Nat

VARIABLES gate,        \* open, draining (close() waits) or closed
          link,        \* link[i]: the i-th connection, connectManaged
          linked,      \* sessions.get(server), 0 for none
          pending,     \* pendingConnections.get(server)
          unverified,  \* unverifiedSessions.get(server)
          shut,        \* sessions whose close() is in progress
          peer,        \* peer[i]: the child process of link i
          caller,      \* caller[k]: a describe, listResources or call
          faults       \* terminations that failed so far

mcpVars == <<gate, link, linked, pending, unverified, shut, peer,
             caller, faults>>

Links == 1..MaxLinks
MaybeLink == 0..MaxLinks

\* late: the promise has failed, factory.connect has not returned yet.
LinkStages == {"none", "connecting", "listing", "replacing", "up", "failing",
               "late", "over"}

CallerStages == {"idle", "retry", "drop", "rejoin", "join", "await", "using"}

McpTypeOK ==
    /\ gate \in {"open", "draining", "closed"}
    /\ link \in [Links -> [at : LinkStages, launch : Launches \cup {"none"}, aborted : BOOLEAN,
                           replaces : MaybeLink]]
    /\ linked \in MaybeLink /\ pending \in MaybeLink /\ unverified \in MaybeLink
    /\ shut \subseteq Links
    /\ peer \in [Links -> {"none", "alive", "gone"}]
    /\ caller \in [Callers -> [at : CallerStages, launch : Launches \cup {"none"}, on : MaybeLink]]
    /\ faults \in 0..MaxFaults

NoLink == [at |-> "none", launch |-> "none", aborted |-> FALSE, replaces |-> 0]
IdleCaller == [at |-> "idle", launch |-> "none", on |-> 0]

McpInit ==
    /\ gate = "open"
    /\ link = [i \in Links |-> NoLink]
    /\ linked = 0 /\ pending = 0 /\ unverified = 0 /\ shut = {}
    /\ peer = [i \in Links |-> "none"]
    /\ caller = [k \in Callers |-> IdleCaller]
    /\ faults = 0

LinkSettled(i) == link[i].at \in {"up", "late", "over"}

Fault == faults < MaxFaults /\ faults' = faults + 1

-----------------------------------------------------------------------------
(* ensure: from one await to the next.                                     *)

Moved(k, at, launch, i) == caller' = [caller EXCEPT ![k] = [at |-> at, launch |-> launch, on |-> i]]
Returns(k) == caller' = [caller EXCEPT ![k] = IdleCaller]

Aborting(i) == link' = [link EXCEPT ![i].aborted = TRUE]

\* As if any pending connection would do.
AnyLaunch(i, launch) == TRUE

SameLaunch(i, launch) == link[i].launch = launch

\* The connection that is pending is joined, or aborted and waited for; with
\* none, a new one is made, and the factory spawns its child at once.
EnsurePending(k, launch) ==
    \/ /\ pending # 0 /\ SameLaunch(pending, launch)
       /\ Moved(k, "join", launch, pending)
       /\ UNCHANGED <<link, pending, peer>>
    \/ /\ pending # 0 /\ ~SameLaunch(pending, launch)
       /\ Aborting(pending)
       /\ Moved(k, "rejoin", launch, pending)
       /\ UNCHANGED <<pending, peer>>
    \/ /\ pending = 0
       /\ \E i \in Links :
            /\ link[i].at = "none" /\ \A j \in 1..(i - 1) : link[j].at # "none"
            /\ link' = [link EXCEPT ![i] = [NoLink EXCEPT !.at = "connecting", !.launch = launch]]
            /\ pending' = i
            /\ peer' = [peer EXCEPT ![i] = "alive"]
            /\ Moved(k, "await", launch, i)

\* The session of another launch configuration is dropped first.
EnsureSession(k, launch) ==
    \/ /\ linked # 0 /\ link[linked].launch = launch
       /\ Moved(k, "using", launch, linked)
       /\ UNCHANGED <<link, linked, pending, shut, peer>>
    \/ /\ linked # 0 /\ link[linked].launch # launch
       /\ linked' = 0 /\ shut' = shut \cup {linked}
       /\ Moved(k, "drop", launch, linked)
       /\ UNCHANGED <<link, pending, peer>>
    \/ /\ linked = 0
       /\ EnsurePending(k, launch)
       /\ UNCHANGED <<linked, shut>>

Ensure(k, launch) ==
    /\ gate = "open"
    /\ \/ /\ unverified # 0
          /\ shut' = shut \cup {unverified}
          /\ Moved(k, "retry", launch, unverified)
          /\ UNCHANGED <<link, linked, pending, peer>>
       \/ unverified = 0 /\ EnsureSession(k, launch)

Request(k) ==
    /\ caller[k].at = "idle"
    /\ \E launch \in Launches : Ensure(k, launch)
    /\ UNCHANGED <<gate, unverified, faults>>

\* A retried termination that fails again fails the request.
Retried(k) ==
    /\ caller[k].at = "retry" /\ caller[k].on \notin shut
    /\ \/ /\ unverified # 0
          /\ Returns(k) /\ UNCHANGED <<link, linked, pending, shut, peer>>
       \/ unverified = 0 /\ EnsureSession(k, caller[k].launch)
    /\ UNCHANGED <<gate, unverified, faults>>

Dropped(k) ==
    /\ caller[k].at = "drop" /\ caller[k].on \notin shut
    /\ EnsurePending(k, caller[k].launch)
    /\ UNCHANGED <<gate, linked, unverified, shut, faults>>

\* The aborted connection has ended: ensure starts over.
Rejoined(k) ==
    /\ caller[k].at = "rejoin" /\ LinkSettled(caller[k].on)
    /\ \/ Ensure(k, caller[k].launch)
       \/ gate # "open" /\ Returns(k) /\ UNCHANGED <<link, linked, pending, shut, peer>>
    /\ UNCHANGED <<gate, unverified, faults>>

\* The connection waited for has settled.
Joined(k) ==
    /\ caller[k].at \in {"join", "await"} /\ LinkSettled(caller[k].on)
    /\ IF link[caller[k].on].at = "up"
       THEN Moved(k, "using", caller[k].launch, caller[k].on)
       ELSE Returns(k)
    /\ UNCHANGED <<gate, link, linked, pending, unverified, shut, peer, faults>>

\* The signal of the request aborts its wait; the connection goes on, and
\* the request that started it forgets it (the finally of ensure).
AbortWait(k) ==
    /\ caller[k].at \in {"join", "await"}
    /\ pending' = IF caller[k].at = "await" /\ pending = caller[k].on THEN 0 ELSE pending
    /\ Returns(k)
    /\ UNCHANGED <<gate, link, linked, unverified, shut, peer, faults>>

UseEnds(k) ==
    /\ caller[k].at = "using"
    /\ Returns(k)
    /\ UNCHANGED <<gate, link, linked, pending, unverified, shut, peer, faults>>

\* drop(server, expected): a session that is no longer the published one is
\* left to whoever took it out.
Drops(i) ==
    IF i # 0 /\ linked = i
    THEN linked' = 0 /\ shut' = shut \cup {i}
    ELSE UNCHANGED <<linked, shut>>

\* A failed listing, a timeout or an abort drops the session.
UseFails(k) ==
    /\ caller[k].at = "using"
    /\ Drops(caller[k].on)
    /\ Returns(k)
    /\ UNCHANGED <<gate, link, pending, unverified, peer, faults>>

-----------------------------------------------------------------------------
(* connectManaged                                                          *)

\* The promise of i settles; ensure takes it out of the map.
Settles(i, at) ==
    /\ link' = [link EXCEPT ![i] = [NoLink EXCEPT !.at = at,
                                       !.launch = IF at = "up" THEN link[i].launch ELSE @]]
    /\ pending' = IF pending = i THEN 0 ELSE pending

\* The factory returns a session.
Connected(i) ==
    /\ link[i].at = "connecting" /\ ~link[i].aborted
    /\ \/ /\ gate = "open"
          /\ link' = [link EXCEPT ![i].at = "listing"]
          /\ UNCHANGED shut
       \/ /\ gate # "open"
          /\ link' = [link EXCEPT ![i].at = "failing"]
          /\ shut' = shut \cup {i}
    /\ UNCHANGED <<gate, linked, pending, unverified, peer, caller, faults>>

\* The factory fails and stops the child it spawned; that this fails too is
\* swallowed.
StopsOwnChild(i) ==
    \/ peer' = [peer EXCEPT ![i] = "gone"] /\ UNCHANGED faults
    \/ Fault /\ UNCHANGED peer

ConnectFails(i) ==
    /\ link[i].at = "connecting" /\ ~link[i].aborted
    /\ Settles(i, "over")
    /\ StopsOwnChild(i)
    /\ UNCHANGED <<gate, linked, unverified, shut, caller>>

\* withTimeout: the abort or the timeout wins.
ConnectAbandoned(i) ==
    /\ link[i].at = "connecting"
    /\ Settles(i, "late")
    /\ UNCHANGED <<gate, linked, unverified, shut, peer, caller, faults>>

\* onLateValue: a session that arrives after all is closed; the factory may
\* as well fail late.
LateSession(i) ==
    /\ link[i].at = "late"
    /\ link' = [link EXCEPT ![i].at = "over"]
    /\ \/ shut' = shut \cup {i} /\ UNCHANGED <<peer, faults>>
       \/ StopsOwnChild(i) /\ UNCHANGED shut
    /\ UNCHANGED <<gate, linked, pending, unverified, caller>>

\* The first listing fails, times out or was aborted, or its catalogue is
\* refused; so does a connection that finds the manager closed.
LinkFails(i) ==
    /\ \/ link[i].at = "listing"
       \/ link[i].at = "replacing" /\ link[i].replaces \notin shut /\ gate # "open"
    /\ link' = [link EXCEPT ![i].at = "failing"]
    /\ shut' = shut \cup {i}
    /\ UNCHANGED <<gate, linked, pending, unverified, peer, caller, faults>>

FailureClosed(i) ==
    /\ link[i].at = "failing" /\ i \notin shut
    /\ Settles(i, "over")
    /\ UNCHANGED <<gate, linked, unverified, shut, peer, caller, faults>>

Published(i) == linked' = i /\ Settles(i, "up")

\* As if the session that is published already were just overwritten.
PublishOver(i) ==
    /\ link[i].at = "listing" /\ ~link[i].aborted /\ gate = "open"
    /\ Published(i)
    /\ UNCHANGED <<gate, unverified, shut, peer, caller, faults>>

\* The session is published, once the one it replaces is closed.
PublishLink(i) ==
    /\ gate = "open"
    /\ \/ /\ link[i].at = "listing" /\ ~link[i].aborted
          /\ IF linked = 0
             THEN Published(i) /\ UNCHANGED shut
             ELSE /\ link' = [link EXCEPT ![i].at = "replacing", ![i].replaces = linked]
                  /\ linked' = 0 /\ shut' = shut \cup {linked}
                  /\ UNCHANGED pending
       \/ /\ link[i].at = "replacing" /\ link[i].replaces \notin shut
          /\ Published(i) /\ UNCHANGED shut
    /\ UNCHANGED <<gate, unverified, peer, caller, faults>>

-----------------------------------------------------------------------------
(* closeSession, the idle sweep, settings, disconnect and close.           *)

CloseSession(i) ==
    /\ i \in shut /\ shut' = shut \ {i}
    /\ \/ /\ peer' = [peer EXCEPT ![i] = "gone"]
          /\ unverified' = IF unverified = i THEN 0 ELSE unverified
          /\ UNCHANGED faults
       \/ /\ Fault
          /\ unverified' = i
          /\ UNCHANGED peer
    /\ UNCHANGED <<gate, link, linked, pending, caller>>

\* No call is in flight and none was for the idle time.
SweepIdle ==
    /\ gate = "open" /\ linked # 0
    /\ \A k \in Callers : caller[k].at = "using" => caller[k].on # linked
    /\ Drops(linked)
    /\ UNCHANGED <<gate, link, pending, unverified, peer, caller, faults>>

\* What does not have the desired launch (none: disabled or excluded) goes.
Reconcile(wanted) ==
    /\ \/ linked # 0 /\ link[linked].launch \notin wanted
       \/ pending # 0 /\ link[pending].launch \notin wanted /\ ~link[pending].aborted
    /\ IF linked # 0 /\ link[linked].launch \notin wanted
       THEN Drops(linked) ELSE UNCHANGED <<linked, shut>>
    /\ IF pending # 0 /\ link[pending].launch \notin wanted
       THEN Aborting(pending) ELSE UNCHANGED link
    /\ UNCHANGED <<gate, pending, unverified, peer, caller, faults>>

\* disconnect and close abort what is pending, wait for it (or for a
\* timeout), and then drop what is published.
AbortPending == IF pending # 0 THEN Aborting(pending) ELSE UNCHANGED link

Disconnect ==
    /\ \/ pending # 0 /\ AbortPending /\ UNCHANGED <<linked, shut>>
       \/ linked # 0 /\ Drops(linked) /\ UNCHANGED link
    /\ UNCHANGED <<gate, pending, unverified, peer, caller, faults>>

CloseManager ==
    /\ \/ gate = "open" /\ gate' = "draining" /\ AbortPending /\ UNCHANGED <<linked, shut>>
       \/ gate = "draining" /\ gate' = "closed" /\ Drops(linked) /\ UNCHANGED link
    /\ UNCHANGED <<pending, unverified, peer, caller, faults>>

RequestStep(k) ==
    \/ Request(k) \/ Retried(k) \/ Dropped(k) \/ Rejoined(k) \/ Joined(k)
    \/ AbortWait(k) \/ UseEnds(k) \/ UseFails(k)

LinkStep(i) ==
    \/ Connected(i) \/ ConnectFails(i) \/ ConnectAbandoned(i) \/ LateSession(i)
    \/ LinkFails(i) \/ FailureClosed(i) \/ PublishLink(i) \/ CloseSession(i)

McpNext ==
    \/ \E k \in Callers : RequestStep(k)
    \/ \E i \in Links : LinkStep(i)
    \/ \E wanted \in {{}} \cup {{l} : l \in Launches} : Reconcile(wanted)
    \/ SweepIdle \/ Disconnect \/ CloseManager

McpSpec == McpInit /\ [][McpNext]_mcpVars

-----------------------------------------------------------------------------

\* Somebody will still close it, or already knows that it could not be.
Held(i) ==
    \/ i \in {linked, unverified} \cup shut
    \/ link[i].at \in {"connecting", "late", "listing", "replacing"}

\* A child that lives leaves the manager's books in three ways and no other,
\* whatever is joined, aborted, replaced, reconciled and timed out: its connect
\* fails and the factory cannot stop it (nobody remembers that); it was the
\* unverified one and another termination fails (the map has one slot); or it
\* was published while a connection whose request was aborted closed the
\* session it replaces, and is published over.
NoChildLost ==
    [][\A i \in Links :
         Held(i) /\ ~Held(i)' /\ peer'[i] = "alive" =>
            \/ link[i].at \in {"connecting", "late"} /\ faults' = faults + 1
            \/ unverified = i /\ unverified' # 0
            \/ linked = i /\ linked' # 0 /\ link[linked'].at = "replacing"]_mcpVars

\* A request runs on a session of the launch configuration it asked for,
\* however connections were joined, aborted and replaced meanwhile, and once
\* the manager is closed nothing is published any more.
ServesItsLaunch ==
    /\ \A k \in Callers :
         caller[k].at = "using" => link[caller[k].on].launch = caller[k].launch
    /\ gate = "closed" => linked = 0
=============================================================================
