------------------------------- MODULE Fleet -------------------------------
(***************************************************************************)
(* The fleet: a hub that admits machines with one-time tokens, keeps one   *)
(* row, one WireGuard peer and one ingress forward per member, and keeps   *)
(* the directory of who holds which environment from what the members      *)
(* announce; and the members, which join, announce, are removed and leave. *)
(*                                                                         *)
(* The hub serves every command in a goroutine of its own and takes no     *)
(* lock around them: join[m], ann[m] and rem[m] are such commands, and     *)
(* each step of theirs is one store statement or one call of the device.   *)
(* A machine is its key, and joins under its own name.                     *)
(***************************************************************************)
EXTENDS Naturals, FiniteSets

CONSTANTS
    Members,      \* machines that may join
    Joined,       \* the ones that are members at the start
    Envs,         \* environments (app and name)
    Tokens,       \* join tokens the hub may issue
    MaxSubnet,    \* the /16s of the fleet's range, the hub's own left out
    MaxCommands,  \* bound: commands the hub serves at once, announcements apart
    MaxEvents     \* bound: what administrators, users, time and crashes do

NoSubnet == 0
Subnets  == 1..MaxSubnet
None     == "none"

\* Some of the machines are members already.
ASSUME FleetAssumption == MaxSubnet \in Nat /\ Joined \subseteq Members

VARIABLES
    row,      \* hub store: machine |-> its subnet, NoSubnet when it has no row
    token,    \* hub store: token |-> "unissued", "unused", "deleted", or who used it
    old,      \* tokens whose expiry and grace have passed
    dir,      \* hub store: environment |-> machine in the directory
    peer,     \* hub device: machine |-> subnet of its machine peer
    door,     \* hub device: machines with an ingress forward
    names,    \* hub device: environments whose fleet name is published
    boot,     \* hub device: tokens whose bootstrap peer is admitted
    tickets,  \* hub memory: joinTickets
    retired,  \* hub memory: joinPeers, machine |-> token whose peer it came by
    cfg,      \* member file: machine |-> subnet of its member block
    left,     \* member store: the fleet.left setting
    envs,     \* member store: the environments it holds
    join, ann, rem,       \* commands the hub is serving
    events                \* how much of MaxEvents is used

hubStore  == <<row, token, old, dir>>
hubDevice == <<peer, door, names, boot>>
hubMemory == <<tickets, retired>>
member    == <<cfg, left, envs>>
fleetVars == <<hubStore, hubDevice, hubMemory, member, join, ann, rem, events>>

NotServing == [pc |-> "idle"]

Room == Cardinality({m \in Members : join[m] # NotServing}) + Cardinality({m \in Members : rem[m] # NotServing}) < MaxCommands
FleetEvent == events < MaxEvents /\ events' = events + 1

FleetTypeOK ==
    /\ row \in [Members -> {NoSubnet} \cup Subnets]
    /\ peer \in [Members -> {NoSubnet} \cup Subnets]
    /\ cfg \in [Members -> {NoSubnet} \cup Subnets]
    /\ left \in [Members -> BOOLEAN]
    /\ token \in [Tokens -> {"unissued", "unused", "deleted"} \cup Members]
    /\ dir \in [Envs -> Members \cup {None}]
    /\ door \subseteq Members /\ names \subseteq Envs
    /\ old \subseteq Tokens /\ boot \subseteq Tokens
    /\ retired \in [Members -> Tokens \cup {None}]
    /\ envs \in [Members -> SUBSET Envs]

FleetInit ==
    /\ row \in [Members -> {NoSubnet} \cup Subnets]
    /\ \A m \in Members : (row[m] # NoSubnet) = (m \in Joined)
    /\ \A m, o \in Joined : m # o => row[m] # row[o]
    /\ peer = row /\ cfg = row
    /\ left = [m \in Members |-> FALSE]
    /\ token = [t \in Tokens |-> "unissued"] /\ old = {}
    /\ dir = [e \in Envs |-> None]
    /\ door = Joined /\ names = {} /\ boot = {} /\ tickets = {}
    /\ retired = [m \in Members |-> None]
    /\ envs = [m \in Members |-> {}]
    /\ join = [m \in Members |-> NotServing]
    /\ ann = [m \in Members |-> NotServing]
    /\ rem = [m \in Members |-> NotServing]
    /\ events = 0

-----------------------------------------------------------------------------
(* Tokens and the bootstrap peers that carry a join.                        *)

HoldJoinPeer(t) == tickets' = tickets \cup {t}

\* The token whose peer a machine came by, if any, is done with.
RetireJoinPeer(m, t) == retired' = [retired EXCEPT ![m] = t]
DropJoinPeer(m) ==
    /\ boot' = boot \ {retired[m]}
    /\ tickets' = tickets \ {retired[m]}
    /\ retired' = [retired EXCEPT ![m] = None]

\* At the start of a hub: no bootstrap peer survives, and none is held.
SweepJoinPeers == boot' = {} /\ tickets' = {} /\ retired' = [m \in Members |-> None]

\* MachineToken: the bootstrap peer is admitted, the token recorded and the
\* peer held until the token has expired.
MachineToken(t) ==
    /\ token[t] = "unissued"
    /\ token' = [token EXCEPT ![t] = "unused"]
    /\ boot' = boot \cup {t}
    /\ HoldJoinPeer(t)
    /\ UNCHANGED <<row, old, dir, peer, door, names, retired, member, join, ann, rem, events>>

\* The token's lifetime and its grace pass.
Expire(t) ==
    /\ token[t] # "unissued" /\ t \notin old
    /\ old' = old \cup {t}
    /\ UNCHANGED <<row, token, dir, hubDevice, hubMemory, member, join, ann, rem, events>>

InFlight == {retired[m] : m \in Members}
StalePeers == {t \in tickets : t \in old /\ t \notin InFlight}

\* expireJoinPeers, from the token's timer and from the hub's heartbeat.
ExpireJoinPeers ==
    /\ token' = [t \in Tokens |-> IF token[t] = "unused" /\ t \in old THEN "deleted" ELSE token[t]]
    /\ boot' = boot \ StalePeers
    /\ tickets' = tickets \ StalePeers
    /\ UNCHANGED <<row, old, dir, peer, door, names, retired, member, join, ann, rem, events>>

-----------------------------------------------------------------------------
(* fleetChanged, which ends a join and a removal: the device's machine      *)
(* peers, forwards and names are made those of the store. The rows are read *)
(* once, and the peers dropped and added later: nothing is locked.          *)

Collides(p, m, s) == \E o \in Members \ {m} : p[o] = s

\* AddMachinePeer refuses a subnet that overlaps another peer's, and the first
\* refusal ends the loop, which ranges over a map in no particular order.
SyncMachinePeers(want) ==
    LET wanted == {m \in Members : want[m] # NoSubnet}
        with(A) == [m \in Members |->
            IF m \in A THEN want[m] ELSE IF m \in wanted THEN peer[m] ELSE NoSubnet]
    IN  \E A \in SUBSET wanted :
            /\ \A m \in A : ~Collides(with(A), m, want[m])
            /\ A = wanted \/ \E m \in wanted \ A : Collides(with(A), m, want[m])
            /\ peer' = with(A)

SyncForwards  == door' = {m \in Members : row[m] # NoSubnet}
SyncFleetNames == names' = {e \in Envs : dir[e] # None}

-----------------------------------------------------------------------------
(* Joining: the member's redeem call and MachineRedeem on the hub.          *)

\* Token.Check, and the second chance of the machine that used it: its first
\* answer may have been lost.
TokenOK(m, t) == \/ token[t] = "unused" /\ t \notin old
                 \/ token[t] = m

\* The lowest free one.
AllocateSubnet(taken) == CHOOSE s \in Subnets \ taken : \A o \in Subnets \ taken : s <= o

\* admitMember's choice: a machine the fleet knows keeps its subnet.
SubnetFor(m) ==
    IF row[m] # NoSubnet THEN row[m] ELSE AllocateSubnet({row[o] : o \in Members})

\* The joining machine reaches the hub through the token's bootstrap peer; the
\* hub reads the token and the machines. A machine that still has a member
\* block is told it has joined already.
JoinStart(m, t) ==
    /\ Room /\ join[m] = NotServing /\ cfg[m] = NoSubnet /\ t \in boot
    /\ TokenOK(m, t)
    /\ row[m] # NoSubnet \/ ~(Subnets \subseteq {row[o] : o \in Members})
    /\ join' = [join EXCEPT ![m] = [pc |-> "put", tok |-> t, sub |-> SubnetFor(m), want |-> row]]
    /\ UNCHANGED <<hubStore, hubDevice, hubMemory, member, ann, rem, events>>

\* PutFleetMachine: an upsert by name, and the subnet column is unique.
JoinPut(m) ==
    /\ join[m].pc = "put"
    /\ IF Collides(row, m, join[m].sub)
       THEN /\ join' = [join EXCEPT ![m] = NotServing]
            /\ UNCHANGED row
       ELSE /\ row' = [row EXCEPT ![m] = join[m].sub]
            /\ join' = [join EXCEPT ![m].pc = "peer"]
    /\ UNCHANGED <<token, old, dir, hubDevice, hubMemory, member, ann, rem, events>>

\* Mutant: no machineDoesNotCollideLocked.
MutJoinPeer(m) ==
    /\ join[m].pc = "peer"
    /\ peer' = [peer EXCEPT ![m] = join[m].sub]
    /\ join' = [join EXCEPT ![m].pc = "spend"]
    /\ UNCHANGED <<hubStore, door, names, boot, hubMemory, member, ann, rem, events>>

\* AddMachinePeer under the device's lock.
JoinPeer(m) ==
    /\ join[m].pc = "peer"
    /\ IF Collides(peer, m, join[m].sub)
       THEN /\ join' = [join EXCEPT ![m] = NotServing]
            /\ UNCHANGED peer
       ELSE /\ peer' = [peer EXCEPT ![m] = join[m].sub]
            /\ join' = [join EXCEPT ![m].pc = "spend"]
    /\ UNCHANGED <<hubStore, door, names, boot, hubMemory, member, ann, rem, events>>

\* RedeemJoinToken, whose "already used" is not an error of the join,
\* retireJoinPeer, and the rows fleetChanged works from.
JoinSpend(m) ==
    /\ join[m].pc = "spend"
    /\ LET t == join[m].tok
       IN  IF token[t] = "deleted"
           THEN /\ join' = [join EXCEPT ![m] = NotServing]
                /\ UNCHANGED <<token, retired>>
           ELSE /\ token' = [token EXCEPT ![t] = IF @ = "unused" THEN m ELSE @]
                /\ RetireJoinPeer(m, t)
                /\ join' = [join EXCEPT ![m].pc = "sync", ![m].want = row]
    /\ UNCHANGED <<row, old, dir, hubDevice, tickets, member, ann, rem, events>>

JoinSync(m) ==
    /\ join[m].pc = "sync"
    /\ SyncMachinePeers(join[m].want) /\ SyncForwards /\ SyncFleetNames
    /\ join' = [join EXCEPT ![m].pc = "reply"]
    /\ UNCHANGED <<hubStore, boot, hubMemory, member, ann, rem, events>>

\* The answer reaches the member while its one-off tunnel stands.
RedeemAnswered(m) == join[m].tok \in boot
WriteMemberConfig(m, sub) == cfg' = [cfg EXCEPT ![m] = sub]

\* The member writes its block and restarts its daemon, or it gave up, and
\* the answer is lost.
JoinReply(m) ==
    /\ join[m].pc = "reply"
    /\ join' = [join EXCEPT ![m] = NotServing]
    /\ \/ RedeemAnswered(m) /\ WriteMemberConfig(m, join[m].sub)
       \/ UNCHANGED cfg
    /\ UNCHANGED <<hubStore, hubDevice, hubMemory, left, envs, ann, rem, events>>

-----------------------------------------------------------------------------
(* Announcements.                                                           *)

\* The member's daemon announces and the hub's tunnel lets it in.
Announces(m) == cfg[m] # NoSubnet /\ ~left[m] /\ peer[m] = cfg[m]

\* A session is a machine's when its row exists as the session opens; any
\* other is refused as a person's, in words the member does not look for.
AnnounceOpen(m, full, es) ==
    /\ ann[m] = NotServing /\ Announces(m) /\ row[m] # NoSubnet
    /\ ann' = [ann EXCEPT ![m] = [pc |-> "require", full |-> full, envs |-> es]]
    /\ UNCHANGED <<hubStore, hubDevice, hubMemory, member, join, rem>>

\* AnnounceAll on every heartbeat and after a destroy; announce with the one
\* environment just made.
Heartbeat(m) == AnnounceOpen(m, TRUE, envs[m]) /\ UNCHANGED events
Announce(m) == FleetEvent /\ \E e \in envs[m] : AnnounceOpen(m, FALSE, {e})

\* leaveFleetIn: the setting that makes it a machine of one again.
LeaveFleet(m) == left' = [left EXCEPT ![m] = TRUE]

\* The refusal a member looks for, and only its heartbeat does.
RemovedByHub(m) == ann[m].full /\ cfg[m] # NoSubnet

\* requireMachinePeer looks the row up again.
AnnounceRequire(m) ==
    /\ ann[m].pc = "require"
    /\ IF row[m] = NoSubnet
       THEN /\ ann' = [ann EXCEPT ![m] = NotServing]
            /\ IF RemovedByHub(m) THEN LeaveFleet(m) ELSE UNCHANGED left
       ELSE /\ ann' = [ann EXCEPT ![m].pc = "apply"]
            /\ UNCHANGED left
    /\ UNCHANGED <<hubStore, hubDevice, hubMemory, cfg, envs, join, rem, events>>

\* ApplyAnnouncement: what is announced is recorded, and a full announcement
\* forgets what the machine no longer names.
Applied(m, a) == [e \in Envs |->
    IF e \in a.envs THEN m ELSE IF a.full /\ dir[e] = m THEN None ELSE dir[e]]

AnnounceApply(m) ==
    /\ ann[m].pc = "apply"
    /\ dir' = Applied(m, ann[m])
    /\ ann' = [ann EXCEPT ![m].pc = "record"]
    /\ UNCHANGED <<row, token, old, hubDevice, hubMemory, member, join, rem, events>>

\* syncFleetNames, then recordAnnouncement and its dropJoinPeer.
AnnounceRecord(m) ==
    /\ ann[m].pc = "record"
    /\ SyncFleetNames
    /\ DropJoinPeer(m)
    /\ ann' = [ann EXCEPT ![m] = NotServing]
    /\ UNCHANGED <<row, token, old, dir, peer, door, member, join, rem, events>>

-----------------------------------------------------------------------------
(* Removing a member, on the hub (MachineRemove), and leaving, on it.       *)

Held(m) == {e \in Envs : dir[e] = m}

\* Refused while the directory has environments of the machine's, unless
\* forced.
RemoveStart(m, force) ==
    /\ Room /\ rem[m] = NotServing /\ row[m] # NoSubnet /\ FleetEvent
    /\ force \/ Held(m) = {}
    /\ rem' = [rem EXCEPT ![m] = [pc |-> "row", envs |-> Held(m), want |-> row]]
    /\ UNCHANGED <<hubStore, hubDevice, hubMemory, member, join, ann>>

\* The row goes first: from here on the machine's calls are refused.
RemoveRow(m) ==
    /\ rem[m].pc = "row"
    /\ row' = [row EXCEPT ![m] = NoSubnet]
    /\ rem' = [rem EXCEPT ![m].pc = "envs"]
    /\ UNCHANGED <<token, old, dir, hubDevice, hubMemory, member, join, ann, events>>

\* A call can reach the member. It may also not: the machine was not heard of
\* for UnreachableAfter, or the call fails, and that is only logged.
CanTell(m) == peer[m] # NoSubnet /\ peer[m] = cfg[m]

\* destroyOnMember and DeleteDirectoryEntry, one environment at a time.
RemoveEnv(m, e) ==
    /\ rem[m].pc = "envs" /\ e \in rem[m].envs
    /\ \/ CanTell(m) /\ envs' = [envs EXCEPT ![m] = @ \ {e}]
       \/ UNCHANGED envs
    /\ dir' = [dir EXCEPT ![e] = None]
    /\ rem' = [rem EXCEPT ![m].envs = @ \ {e}]
    /\ UNCHANGED <<row, token, old, hubDevice, hubMemory, cfg, left, join, ann, events>>

\* tellMemberRemoved: MachineRemoved on the member leaves the fleet.
RemoveTell(m) ==
    /\ rem[m].pc = "envs" /\ rem[m].envs = {}
    /\ \/ CanTell(m) /\ LeaveFleet(m)
       \/ UNCHANGED left
    /\ rem' = [rem EXCEPT ![m].pc = "peer"]
    /\ UNCHANGED <<hubStore, hubDevice, hubMemory, cfg, envs, join, ann, events>>

RemoveMachinePeer(m) ==
    /\ rem[m].pc = "peer"
    /\ peer' = [peer EXCEPT ![m] = NoSubnet]
    /\ door' = door \ {m}
    /\ rem' = [rem EXCEPT ![m].pc = "sync", ![m].want = row]
    /\ UNCHANGED <<hubStore, names, boot, hubMemory, member, join, ann, events>>

RemoveSync(m) ==
    /\ rem[m].pc = "sync"
    /\ SyncMachinePeers(rem[m].want) /\ SyncForwards /\ SyncFleetNames
    /\ rem' = [rem EXCEPT ![m] = NotServing]
    /\ UNCHANGED <<hubStore, boot, hubMemory, member, join, ann, events>>

ForgetLeftFleet(m) == left' = [left EXCEPT ![m] = FALSE]

\* `member leave`, run on the machine: its member block goes, and the restart
\* of a daemon that names no hub forgets that it had been removed.
Leave(m) ==
    /\ FleetEvent /\ cfg[m] # NoSubnet
    /\ cfg' = [cfg EXCEPT ![m] = NoSubnet]
    /\ ForgetLeftFleet(m)
    /\ UNCHANGED <<hubStore, hubDevice, hubMemory, envs, join, ann, rem>>

-----------------------------------------------------------------------------
(* What the machines hold, and the hub's restart.                           *)

\* placeAndForward: an environment the directory has is made where it is. A
\* machine outside the fleet asks nobody.
EnvCreate(m, e) ==
    /\ FleetEvent /\ e \notin envs[m]
    /\ cfg[m] = NoSubnet \/ left[m] \/ dir[e] \in {None, m}
    /\ envs' = [envs EXCEPT ![m] = @ \cup {e}]
    /\ UNCHANGED <<hubStore, hubDevice, hubMemory, cfg, left, join, ann, rem>>

EnvDestroy(m, e) ==
    /\ FleetEvent /\ e \in envs[m]
    /\ envs' = [envs EXCEPT ![m] = @ \ {e}]
    /\ UNCHANGED <<hubStore, hubDevice, hubMemory, cfg, left, join, ann, rem>>

\* The commands die with the daemon; startFleetNetwork rebuilds the device
\* from the store and sweepJoinPeers drops every bootstrap peer.
HubRestarts ==
    /\ FleetEvent
    /\ peer' = row
    /\ SyncForwards /\ SyncFleetNames
    /\ SweepJoinPeers
    /\ join' = [m \in Members |-> NotServing]
    /\ ann' = [m \in Members |-> NotServing]
    /\ rem' = [m \in Members |-> NotServing]
    /\ UNCHANGED <<hubStore, member>>

-----------------------------------------------------------------------------
JoinStep(m) == \/ JoinPut(m) \/ JoinPeer(m) \/ JoinSpend(m)
               \/ JoinSync(m) \/ JoinReply(m)
AnnounceStep(m) == AnnounceRequire(m) \/ AnnounceApply(m) \/ AnnounceRecord(m)
RemoveStep(m) == \/ RemoveRow(m) \/ \E e \in Envs : RemoveEnv(m, e)
                 \/ RemoveTell(m) \/ RemoveMachinePeer(m) \/ RemoveSync(m)

FleetNext ==
    \/ \E t \in Tokens : MachineToken(t) \/ Expire(t)
    \/ ExpireJoinPeers \/ HubRestarts
    \/ \E m \in Members :
        \/ \E t \in Tokens : JoinStart(m, t)
        \/ JoinStep(m) \/ RemoveStep(m)
        \/ Heartbeat(m) \/ Announce(m) \/ AnnounceStep(m) \/ Leave(m)
        \/ \E force \in BOOLEAN : RemoveStart(m, force)
        \/ \E e \in Envs : EnvCreate(m, e) \/ EnvDestroy(m, e)

\* A served command runs on, the member's ticker and the hub's timers fire.
\* Nothing makes an administrator act or a call succeed.
FleetFairness ==
    /\ \A m \in Members :
        /\ WF_fleetVars(JoinStep(m)) /\ WF_fleetVars(RemoveStep(m)) /\ WF_fleetVars(Heartbeat(m))
        /\ WF_fleetVars(AnnounceStep(m))
    /\ \A t \in Tokens : WF_fleetVars(Expire(t))
    /\ WF_fleetVars(ExpireJoinPeers)

FleetSpec == FleetInit /\ [][FleetNext]_fleetVars /\ FleetFairness

-----------------------------------------------------------------------------
(* Properties.                                                              *)

\* No two machine peers of the hub's device share a subnet, whatever joins,
\* removals and half-done syncs overlap: a packet to a member's address has
\* one way to go (machineDoesNotCollideLocked).
PeersDisjoint ==
    \A m, o \in Members : m # o /\ peer[m] # NoSubnet => peer[m] # peer[o]

\* The subnet of a machine does not change while the hub has its row, after
\* lost answers, retries and rejoins: the addresses of its environments are
\* in it (admitMember keeps the subnet of a machine it knows).
KeepsSubnet ==
    \A m \in Members : row[m] # NoSubnet /\ row'[m] # NoSubnet => row'[m] = row[m]

Quiet == \A m \in Members :
    join[m] = NotServing /\ rem[m] = NotServing /\ ann[m] = NotServing

\* When no command is being served, the names the hub publishes are those of
\* the directory, and it keeps no forward to a machine it has no row of
\* (syncFleetNames and syncForwards after every change).
QuietPublished ==
    Quiet => /\ names = {e \in Envs : dir[e] # None}
             /\ door \subseteq {m \in Members : row[m] # NoSubnet}

\* No two machine peers of the hub share a subnet, between commands the hub
\* publishes its directory, and a machine keeps its subnet while the hub has
\* its row.
FleetAgrees ==
    /\ [](FleetTypeOK /\ PeersDisjoint /\ QuietPublished)
    /\ [][KeepsSubnet]_fleetVars

\* A bootstrap peer does not stay: once its token is past its time, it is
\* dropped, or a machine that redeemed it has yet to announce itself
\* (expireJoinPeers, dropJoinPeer, sweepJoinPeers).
BootstrapEnds ==
    \A t \in Tokens : (t \in boot /\ t \in old) ~> (t \notin boot \/ t \in InFlight)

Connected(m) == Announces(m) /\ row[m] # NoSubnet
Holds(m, e) == e \in envs[m] /\ \A o \in Members \ {m} : e \notin envs[o]

\* The directory comes to name the one machine that holds an environment, and
\* no machine that does not, whatever announcements were lost, late or
\* overtaken, as long as that machine stays in the fleet (the full
\* announcement of every heartbeat).
DirectoryCatchesUp ==
    \A m \in Members, e \in Envs :
        /\ <>[](Connected(m) /\ Holds(m, e)) => <>[](dir[e] = m)
        /\ <>[](Connected(m) /\ e \notin envs[m]) => <>[](dir[e] # m)
=============================================================================
