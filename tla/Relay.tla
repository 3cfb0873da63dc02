------------------------------- MODULE Relay -------------------------------
(***************************************************************************)
(* The addresses and relays of a machine's private network                 *)
(* (vpn/device.go, vpn/relay.go): an address of an environment in the      *)
(* network stack, the relays that carry its ports to the containers, and   *)
(* the UDP flows a relay keeps. A device call holds the device's lock from *)
(* start to end; the relay loops take only the lock of their entry, so     *)
(* datagrams arrive between any two calls and a loop outlives the close of *)
(* its socket.                                                             *)
(***************************************************************************)
EXTENDS Naturals, FiniteSets

CONSTANTS
    Own,           \* the machine's own address
    EnvAddrs,      \* addresses of environments
    Targets,       \* host:port a relay may carry to
    Clients,       \* source addresses of datagrams
    Restricted,    \* those a route may be restricted to
    MaxSockets,    \* bound: relay sockets opened in a behaviour
    MaxRelayOps,   \* bound: device calls
    MaxRelayFaults \* bound: failures of the stack or of a dial

ASSUME RelayAssumption == MaxSockets \in Nat

RelayAddrs == {Own} \cup EnvAddrs
RelayKeys == RelayAddrs    \* one UDP port of each address
Everyone == "everyone"     \* Route.Allow is the zero prefix
RelayRoutes == [target : Targets, allow : {Everyone} \cup Restricted]
Closed == 0                \* relayEntry.closer = nil
NoSocket == [state |-> "none", key |-> Own, flows |-> {}]

VARIABLES
    raised,     \* the device is up
    onDevice,       \* device: its addresses
    stacked,    \* the network stack's addresses
    zone,       \* what the resolver answers
    relays,     \* device: key |-> [route, socket]
    sockets,    \* every socket opened: its state, key and flows
    carried,    \* the last datagram: the route's target, and where it went
    relayOps, relayFaults,
    asked,      \* the routes the callers want: those of the last calls
    halfDone    \* "zone", "routes": a call failed before it got there, and
                \* no later one did

relayVars == <<raised, onDevice, stacked, zone, relays, sockets, carried,
               relayOps, relayFaults, asked, halfDone>>

Flows == [client : Clients, named : Targets, dialled : Targets]

RelayTypeOK ==
    /\ raised \in BOOLEAN /\ halfDone \subseteq {"zone", "routes"}
    /\ onDevice \subseteq RelayAddrs /\ stacked \subseteq RelayAddrs /\ zone \subseteq RelayAddrs
    /\ DOMAIN relays \subseteq RelayKeys
    /\ \A k \in DOMAIN relays : relays[k].route \in RelayRoutes /\ relays[k].socket \in 0..MaxSockets
    /\ \A i \in 1..MaxSockets :
           /\ sockets[i].state \in {"none", "open", "closed", "ended"}
           /\ sockets[i].flows \subseteq Flows
           \* one conversation per client and target
           /\ \A f, g \in sockets[i].flows :
                  f.client = g.client /\ f.named = g.named => f = g

RelayInit ==
    /\ raised = FALSE /\ onDevice = {} /\ stacked = {} /\ zone = {}
    /\ relays = [k \in {} |-> [route |-> [target |-> "", allow |-> Everyone], socket |-> Closed]]
    /\ sockets = [i \in 1..MaxSockets |-> NoSocket]
    /\ carried = [want |-> "", went |-> ""]
    /\ relayOps = 0 /\ relayFaults = 0 /\ halfDone = {}
    /\ asked = [k \in {} |-> [target |-> "", allow |-> Everyone]]

-----------------------------------------------------------------------------
(* Sockets.                                                                 *)

Unused == {i \in 1..MaxSockets : sockets[i].state = "none"}
Listening(s) == {i \in DOMAIN s : s[i].state = "open"}

\* The numbers the sockets of the keys ks get: the first unused ones, in some
\* order of the keys.
FirstUnused(c) == {i \in Unused : Cardinality({j \in Unused : j < i}) < c}
Numbered(ks) ==
    {n \in [ks -> FirstUnused(Cardinality(ks))] : \A k, l \in ks : k # l => n[k] # n[l]}

\* closer.Close: the loop notices later.
Shut(s, closing) == [i \in DOMAIN s |->
    IF i \in closing THEN [s[i] EXCEPT !.state = "closed"] ELSE s[i]]

\* startRelay for the keys of n.
Opened(s, n) == [i \in DOMAIN s |->
    IF \E k \in DOMAIN n : n[k] = i
    THEN [state |-> "open", key |-> CHOOSE k \in DOMAIN n : n[k] = i, flows |-> {}]
    ELSE s[i]]

SocketsOf(ks) == {relays[k].socket : k \in ks} \ {Closed}
Keep(ks) == [k \in ks |-> relays[k]]

Call == relayOps < MaxRelayOps /\ relayOps' = relayOps + 1
Fails == relayFaults < MaxRelayFaults /\ relayFaults' = relayFaults + 1
Works == UNCHANGED relayFaults
StillAsked(ks) == [k \in ks \cap DOMAIN asked |-> asked[k]]

MutSyncZone == zone' = zone \cup onDevice' /\ halfDone' = halfDone \ {"zone"}
\* syncZoneLocked: the last thing a call that changes addresses does.
SyncZone == zone' = onDevice' /\ halfDone' = halfDone \ {"zone"}

-----------------------------------------------------------------------------
(* Up and Down.                                                             *)

\* Up: a new stack, the addresses, the zone, every relay of the table.
RelayUp ==
    /\ Call /\ ~raised
    /\ \E n \in Numbered(DOMAIN relays) :
           /\ sockets' = Opened(sockets, n)
           /\ relays' = [k \in DOMAIN relays |-> [relays[k] EXCEPT !.socket = n[k]]]
    /\ raised' = TRUE /\ stacked' = onDevice \cup {Own}
    /\ UNCHANGED <<onDevice, carried, asked>> /\ SyncZone /\ Works

\* downLocked: the table stays, its sockets are closed with the stack.
AllShut == [k \in DOMAIN relays |-> [relays[k] EXCEPT !.socket = Closed]]

\* startLocked fails at a relay: downLocked closes those already started.
RelayUpFails ==
    /\ Call /\ ~raised /\ Fails
    /\ \E ks \in SUBSET DOMAIN relays : \E n \in Numbered(ks) :
           /\ ks # DOMAIN relays
           /\ sockets' = Shut(Opened(sockets, n), {n[k] : k \in ks})
    /\ UNCHANGED <<raised, onDevice, stacked, relays, carried, asked>> /\ SyncZone

RelayDown ==
    /\ Call /\ raised
    /\ sockets' = Shut(sockets, SocketsOf(DOMAIN relays))
    /\ relays' = AllShut
    /\ raised' = FALSE /\ stacked' = {}
    /\ UNCHANGED <<onDevice, zone, carried, asked, halfDone>> /\ Works

-----------------------------------------------------------------------------
(* Addresses.                                                               *)

MutWithoutAddrs(gone) == relays
\* removeAddressLocked for the addresses gone: their relays first.
WithoutAddrs(gone) == Keep(DOMAIN relays \ gone)

\* SetAddresses: what next does not name is removed, the machine's own address
\* excepted, then what is missing is added; the zone last.
SetAddresses ==
    /\ Call
    /\ \E next \in SUBSET RelayAddrs :
           LET gone == onDevice \ (next \cup {Own}) IN
           /\ relays' = WithoutAddrs(gone)
           /\ sockets' = Shut(sockets, SocketsOf(gone \cap DOMAIN relays))
           /\ onDevice' = next \cup (onDevice \cap {Own})
           /\ stacked' = IF raised THEN (stacked \ gone) \cup next ELSE stacked
    /\ SyncZone /\ asked' = StillAsked(onDevice')
    /\ UNCHANGED <<raised, carried>> /\ Works

\* ... or the stack refuses one removal or one addition: what was done stays,
\* and the zone is not touched.
SetAddressesFails ==
    /\ Call /\ raised /\ Fails
    /\ \E next \in SUBSET RelayAddrs :
           LET gone == onDevice \ (next \cup {Own}) IN
           \/ \E ip \in gone, done \in SUBSET gone :
                  /\ ip \notin done
                  \* the relays of ip are closed before the stack answers
                  /\ relays' = WithoutAddrs(done \cup {ip})
                  /\ sockets' = Shut(sockets, SocketsOf((done \cup {ip}) \cap DOMAIN relays))
                  /\ onDevice' = onDevice \ done /\ stacked' = stacked \ done
           \/ \E ip \in next \ (onDevice \cup {Own}), done \in SUBSET (next \ onDevice) :
                  /\ ip \notin done
                  /\ relays' = WithoutAddrs(gone)
                  /\ sockets' = Shut(sockets, SocketsOf(gone \cap DOMAIN relays))
                  /\ onDevice' = (onDevice \ gone) \cup done /\ stacked' = (stacked \ gone) \cup done
    /\ halfDone' = halfDone \cup {"zone"} /\ asked' = StillAsked(DOMAIN relays')
    /\ UNCHANGED <<raised, zone, carried>>

AddAddress ==
    /\ Call
    /\ \E ip \in RelayAddrs \ onDevice :
           /\ onDevice' = onDevice \cup {ip}
           /\ stacked' = IF raised THEN stacked \cup {ip} ELSE stacked
    /\ SyncZone
    /\ UNCHANGED <<raised, relays, sockets, carried, asked>> /\ Works

RemoveAddress ==
    /\ Call
    /\ \E ip \in EnvAddrs :
           /\ relays' = WithoutAddrs({ip})
           /\ sockets' = Shut(sockets, SocketsOf({ip} \cap DOMAIN relays))
           /\ onDevice' = onDevice \ {ip}
           /\ stacked' = IF raised THEN stacked \ {ip} ELSE stacked
    /\ SyncZone /\ asked' = StillAsked(onDevice')
    /\ UNCHANGED <<raised, carried>> /\ Works

-----------------------------------------------------------------------------
(* Routes.                                                                  *)

\* setRoutes refuses a route on an address the device does not have.
OnHeld(next) == DOMAIN next \subseteq onDevice

MutStale(scope, next) == DOMAIN relays \ DOMAIN next
\* The relays of the scope the new routes do not name are closed.
Stale(scope, next) == (DOMAIN relays \cap scope) \ DOMAIN next

\* Kept relays take the new route without a new socket; new ones get one when
\* the device is up. Opening stops at the first key that cannot be had.
SetRoutesOf(scope) ==
    /\ Call
    /\ \E ks \in SUBSET scope : \E next \in [ks -> RelayRoutes] :
           LET gone == Stale(scope, next)
               new == ks \ DOMAIN relays
               kept == [k \in DOMAIN relays \ gone |->
                            IF k \in ks THEN [relays[k] EXCEPT !.route = next[k]] ELSE relays[k]] IN
           /\ OnHeld(next)
           /\ \E got \in SUBSET new : \E n \in Numbered(IF raised THEN got ELSE {}) :
                  /\ relays' = [k \in DOMAIN kept \cup got |->
                         IF k \in got
                         THEN [route |-> next[k], socket |-> IF raised THEN n[k] ELSE Closed]
                         ELSE kept[k]]
                  /\ sockets' = Opened(Shut(sockets, SocketsOf(gone)), n)
                  /\ \/ got = new /\ Works /\ halfDone' = IF scope = RelayKeys
                                                 THEN halfDone \ {"routes"} ELSE halfDone
                     \/ got # new /\ raised /\ Fails /\ halfDone' = halfDone \cup {"routes"}
           /\ asked' = [k \in ks \cup (DOMAIN asked \ scope) |->
                            IF k \in ks THEN next[k] ELSE asked[k]]
    /\ UNCHANGED <<raised, onDevice, stacked, zone, carried>>

SetRoutes == SetRoutesOf(RelayKeys)
SetAddressRoutes == \E ip \in RelayAddrs : SetRoutesOf({ip})

-----------------------------------------------------------------------------
(* The relay loops.                                                         *)

MutFound(i, client, target) == {f \in sockets[i].flows : f.client = client}
\* The name a flow has in the loop's table: its client and the route's target.
Found(i, client, target) ==
    {f \in sockets[i].flows : f.client = client /\ f.named = target}

Allowed(route, client) == route.allow \in {Everyone, client}

\* relayUDP reads a datagram: it follows the route of now, over the flow of
\* that client and target, dialled when there is none.
Datagram ==
    /\ \E i \in Listening(sockets), client \in Clients :
           LET k == sockets[i].key
               route == relays[k].route
               found == Found(i, client, route.target)
               new == [client |-> client, named |-> route.target, dialled |-> route.target] IN
           /\ k \in DOMAIN relays /\ relays[k].socket = i
           /\ Allowed(route, client)
           /\ \/ /\ found = {}
                 /\ sockets' = [sockets EXCEPT ![i].flows = @ \cup {new}]
                 /\ carried' = [want |-> route.target, went |-> route.target]
              \/ \E f \in found :
                     /\ carried' = [want |-> route.target, went |-> f.dialled]
                     /\ UNCHANGED sockets
    /\ UNCHANGED <<raised, onDevice, stacked, zone, relays, relayOps, relayFaults, asked, halfDone>>

\* A flow's reader meets udpIdle or an error and drops the flow.
FlowEnds ==
    /\ \E i \in 1..MaxSockets : \E f \in sockets[i].flows :
           sockets' = [sockets EXCEPT ![i].flows = @ \ {f}]
    /\ UNCHANGED <<raised, onDevice, stacked, zone, relays, carried, relayOps, relayFaults, asked, halfDone>>

\* ReadFrom fails on the closed socket: the loop closes its flows and returns.
LoopEnds ==
    /\ \E i \in 1..MaxSockets :
           /\ sockets[i].state = "closed"
           /\ sockets' = [sockets EXCEPT ![i].state = "ended", ![i].flows = {}]
    /\ UNCHANGED <<raised, onDevice, stacked, zone, relays, carried, relayOps, relayFaults, asked, halfDone>>

RelayNext ==
    \/ RelayUp \/ RelayUpFails \/ RelayDown
    \/ SetAddresses \/ SetAddressesFails \/ AddAddress \/ RemoveAddress
    \/ SetRoutes \/ SetAddressRoutes
    \/ Datagram \/ FlowEnds \/ LoopEnds

RelaySpec == RelayInit /\ [][RelayNext]_relayVars

-----------------------------------------------------------------------------
(* Properties.                                                              *)

\* No listener is left behind and none is missing: whatever failed on the way,
\* the open sockets are those of the device's table, a relay is on an address
\* the device holds and the stack has, and a device that is down has none.
ListenersAreRelays ==
    /\ Listening(sockets) = SocketsOf(DOMAIN relays)
    /\ \A k \in DOMAIN relays :
           /\ k \in onDevice
           /\ raised => relays[k].socket # Closed /\ k \in stacked
    /\ ~raised => Listening(sockets) = {}

\* A datagram goes to the target its route names when it is carried, also when
\* the client spoke to the same relay before the route was changed.
CarriedByRoute == carried.went = carried.want

\* The table holds the routes the callers asked for, each call for the addresses
\* it is about (SetRoutes for all, SetAddressRoutes for one), through Up and Down
\* and removed addresses; a SetRoutes made again completes one that failed.
RoutesAsAsked ==
    "routes" \notin halfDone =>
        /\ DOMAIN relays = DOMAIN asked
        /\ \A k \in DOMAIN asked : relays[k].route = asked[k]

\* The names resolve to the addresses the device has, unless a call failed part
\* of the way and was not made again.
ZoneIsHeld == "zone" \notin halfDone => zone = onDevice

\* The listeners are those of the table, on addresses that are there, a datagram
\* goes where its route says now, the table holds the routes the callers asked
\* for, and the names resolve to the addresses of the device.
RelaysAgree ==
    RelayTypeOK /\ ListenersAreRelays /\ CarriedByRoute /\ RoutesAsAsked /\ ZoneIsHeld
=============================================================================
