------------------------------- MODULE Peers -------------------------------
(***************************************************************************)
(* The peers of a machine's private network: rows in the store, the        *)
(* device's own table, and what WireGuard has been told, kept together by  *)
(* Network.AddPeer, rotate, admit and RemovePeer. Commands run at the same *)
(* time and take no lock: a step is a store statement or a device call.    *)
(* The hub also lends an address to a machine that joins, in the device    *)
(* only (MachineToken).                                                    *)
(***************************************************************************)
EXTENDS Naturals, FiniteSets, FiniteSetsExt

CONSTANTS
    PeerNames,       \* peer names
    PublicKeys,      \* public keys
    MaxAddr,         \* addresses of the peer range: 1..MaxAddr
    PeerCommands,    \* slots for commands served at once
    MaxPeerCommands, \* bound: commands in a behaviour
    MaxPeerFaults    \* bound: device failures and restarts

Join == "join"        \* the bootstrap peer of a join token, and its key
NoAddr == 0
Addrs == 1..MaxAddr
NoPeer == [key |-> "none", ip |-> NoAddr]
PeerRecords == {NoPeer} \cup [key : PublicKeys \cup {Join}, ip : Addrs]

\* The bootstrap peer and its key are no peer's, nor is the key of no peer.
PeersSetup == {Join, NoPeer.key} \cap (PeerNames \cup PublicKeys) = {} /\ MaxAddr \in Nat
ASSUME PeersAssumption == PeersSetup

VARIABLES
    rows,     \* store: name |-> peer
    dev,     \* device: name |-> peer, the bootstrap peer too
    live,    \* WireGuard: key |-> the address it may use
    cmd,     \* commands being served
    shared,  \* names and keys two commands worked on at the same time
    cut,     \* names whose WireGuard entry a failed call left half changed
    peersStarted, peerFaults

peersVars == <<rows, dev, live, cmd, shared, cut, peersStarted, peerFaults>>

PeerIdle == [pc |-> "idle"]

PeersTypeOK ==
    /\ rows \in [PeerNames -> PeerRecords]
    /\ dev \in [PeerNames \cup {Join} -> PeerRecords]
    /\ live \in [PublicKeys \cup {Join} -> {NoAddr} \cup Addrs]
    \* the unique columns of the table
    /\ \A n, o \in PeerNames : n # o /\ rows[n] # NoPeer =>
           rows[n].key # rows[o].key /\ rows[n].ip # rows[o].ip
    /\ shared \subseteq PeerNames \cup PublicKeys /\ cut \subseteq PeerNames

PeersInit ==
    /\ rows = [n \in PeerNames |-> NoPeer]
    /\ dev = [n \in PeerNames \cup {Join} |-> NoPeer]
    /\ live = [k \in PublicKeys \cup {Join} |-> NoAddr]
    /\ cmd = [c \in PeerCommands |-> PeerIdle]
    /\ shared = {} /\ cut = {} /\ peersStarted = 0 /\ peerFaults = 0

-----------------------------------------------------------------------------
(* The device.                                                              *)

\* peerSection replaces the allowed addresses of a key, and WireGuard gives an
\* address to one key: the last that asked.
Told(l, k, ip) == [x \in DOMAIN l |->
    IF x = k THEN ip ELSE IF l[x] = ip THEN NoAddr ELSE l[x]]
Dropped(l, k) == [x \in DOMAIN l |-> IF x = k THEN NoAddr ELSE l[x]]

\* Mutant: a peer whose key did not change is taken for the same peer.
MutDeviceAdd(n, p) ==
    /\ dev' = [dev EXCEPT ![n] = p]
    /\ live' = IF dev[n] # NoPeer THEN live ELSE Told(live, p.key, p.ip)

\* Device.AddPeer: a peer that is there as it is asked for is left alone; a
\* peer whose key changed is dropped under its old key first.
DeviceAdd(n, p) ==
    /\ dev' = [dev EXCEPT ![n] = p]
    /\ live' = IF dev[n] = p THEN live
               ELSE Told(IF dev[n] # NoPeer /\ dev[n].key # p.key
                         THEN Dropped(live, dev[n].key) ELSE live, p.key, p.ip)

\* The call fails before anything changed, or after the old key was dropped.
DeviceAddFails(n, p) ==
    /\ dev[n] # p /\ peerFaults < MaxPeerFaults /\ peerFaults' = peerFaults + 1
    /\ UNCHANGED dev
    /\ \/ UNCHANGED <<live, cut>>
       \/ /\ dev[n] # NoPeer /\ dev[n].key # p.key
          /\ live' = Dropped(live, dev[n].key)
          /\ cut' = cut \cup {n}

DeviceRemove(n) ==
    /\ dev' = [dev EXCEPT ![n] = NoPeer]
    /\ live' = IF dev[n] = NoPeer THEN live ELSE Dropped(live, dev[n].key)

-----------------------------------------------------------------------------
(* Network.AddPeer.                                                         *)

\* What a command works on: the peer's name, its key and the key it had.
WorksOn(rec) == IF rec = PeerIdle THEN {}
                ELSE {rec.name, rec.peer.key, rec.old.key} \ {NoPeer.key}

Starts(c, rec) ==
    /\ cmd[c] = PeerIdle
    /\ peersStarted < MaxPeerCommands /\ peersStarted' = peersStarted + 1
    /\ cmd' = [cmd EXCEPT ![c] = rec]
    /\ shared' = shared \cup
         (WorksOn(rec) \cap UNION {WorksOn(cmd[d]) : d \in PeerCommands})

\* A name that is taken is a rotation, and one that is not an admission.
AddPeer(c, n, k) ==
    /\ Starts(c,
         [pc |-> CASE rows[n] = NoPeer -> "alloc"
                   [] rows[n].key = k  -> "install"
                   [] OTHER           -> "setkey",
          name |-> n, peer |-> [key |-> k, ip |-> rows[n].ip], old |-> rows[n]])
    /\ UNCHANGED <<rows, dev, live, cut, peerFaults>>

\* AllocatePeer: the lowest address the ledger of rows does not have.
Ledger == {rows[n].ip : n \in PeerNames}

Allocate(c) ==
    /\ cmd[c].pc = "alloc"
    /\ cmd' = IF Addrs \subseteq Ledger THEN [cmd EXCEPT ![c] = PeerIdle]
              ELSE [cmd EXCEPT ![c].pc = "insert", ![c].peer.ip = Min(Addrs \ Ledger)]
    /\ UNCHANGED <<rows, dev, live, shared, cut, peersStarted, peerFaults>>

\* Mutant: an address taken meanwhile ends the command after the row was
\* looked for, and the peer is installed all the same.
MutInsert(c) ==
    LET n == cmd[c].name p == cmd[c].peer
    IN  /\ cmd[c].pc = "insert"
        /\ cmd' = [cmd EXCEPT ![c].pc = "install"]
        /\ rows' = IF rows[n] = NoPeer /\ \A o \in PeerNames : rows[o].key # p.key /\ rows[o].ip # p.ip
                  THEN [rows EXCEPT ![n] = p] ELSE rows
        /\ UNCHANGED <<dev, live, shared, cut, peersStarted, peerFaults>>

\* Store.AddPeer: name, key and address are unique. Another add of the name,
\* or a key registered under another name, ends the command; an address
\* taken meanwhile is allocated again.
Insert(c) ==
    LET n == cmd[c].name p == cmd[c].peer
        keyTaken == \E o \in PeerNames : rows[o].key = p.key
        ipTaken  == p.ip \in Ledger
    IN  /\ cmd[c].pc = "insert"
        /\ \/ /\ rows[n] # NoPeer \/ keyTaken
              /\ cmd' = [cmd EXCEPT ![c] = PeerIdle]
              /\ UNCHANGED rows
           \/ /\ rows[n] = NoPeer /\ ~keyTaken /\ ipTaken
              /\ cmd' = [cmd EXCEPT ![c].pc = "alloc"]
              /\ UNCHANGED rows
           \/ /\ rows[n] = NoPeer /\ ~keyTaken /\ ~ipTaken
              /\ rows' = [rows EXCEPT ![n] = p]
              /\ cmd' = [cmd EXCEPT ![c].pc = "install"]
        /\ UNCHANGED <<dev, live, shared, cut, peersStarted, peerFaults>>

\* Mutant: a key another name has is given all the same.
MutSetKey(c) ==
    LET n == cmd[c].name
    IN  /\ cmd[c].pc = "setkey"
        /\ rows' = [rows EXCEPT ![n].key = cmd[c].peer.key]
        /\ cmd' = [cmd EXCEPT ![c].pc = "install"]
        /\ UNCHANGED <<dev, live, shared, cut, peersStarted, peerFaults>>

\* rotate's SetPeerKey.
SetKey(c) ==
    LET n == cmd[c].name k == cmd[c].peer.key
    IN  /\ cmd[c].pc = "setkey"
        /\ IF rows[n] = NoPeer \/ \E o \in PeerNames \ {n} : rows[o].key = k
           THEN cmd' = [cmd EXCEPT ![c] = PeerIdle] /\ UNCHANGED rows
           ELSE /\ rows' = [rows EXCEPT ![n].key = k]
                /\ cmd' = [cmd EXCEPT ![c].pc = "install"]
        /\ UNCHANGED <<dev, live, shared, cut, peersStarted, peerFaults>>

Install(c) ==
    /\ cmd[c].pc = "install"
    /\ \/ /\ DeviceAdd(cmd[c].name, cmd[c].peer)
          /\ cmd' = [cmd EXCEPT ![c] = PeerIdle]
          /\ UNCHANGED <<cut, peersStarted, peerFaults>>
       \/ /\ DeviceAddFails(cmd[c].name, cmd[c].peer)
          /\ cmd' = [cmd EXCEPT ![c].pc = "undo"]
    /\ UNCHANGED <<rows, shared, peersStarted>>

\* Mutant: a refused rotation keeps the new key in the row.
MutUndoPeer(c) ==
    LET n == cmd[c].name
    IN  /\ cmd[c].pc = "undo"
        /\ rows' = [rows EXCEPT ![n] = IF cmd[c].old = NoPeer THEN NoPeer ELSE @]
        /\ cmd' = [cmd EXCEPT ![c] = PeerIdle]
        /\ UNCHANGED <<dev, live, shared, cut, peersStarted, peerFaults>>

\* A refused admission takes its row back, a refused rotation restores the
\* old key, unless another name has it by now.
UndoPeer(c) ==
    LET n == cmd[c].name old == cmd[c].old
    IN  /\ cmd[c].pc = "undo"
        /\ rows' = [rows EXCEPT ![n] =
             IF old = NoPeer THEN NoPeer
             ELSE IF @ = NoPeer \/ \E o \in PeerNames \ {n} : rows[o].key = old.key THEN @
             ELSE [@ EXCEPT !.key = old.key]]
        /\ cmd' = [cmd EXCEPT ![c] = PeerIdle]
        /\ UNCHANGED <<dev, live, shared, cut, peersStarted, peerFaults>>

-----------------------------------------------------------------------------
(* Network.RemovePeer: revoked on the device, then forgotten.               *)

RemovePeer(c, n) ==
    /\ rows[n] # NoPeer
    /\ Starts(c, [pc |-> "revoke", name |-> n, peer |-> rows[n], old |-> rows[n]])
    /\ UNCHANGED <<rows, dev, live, cut, peerFaults>>

Revoke(c) ==
    /\ cmd[c].pc = "revoke"
    /\ \/ /\ DeviceRemove(cmd[c].name)
          /\ cmd' = [cmd EXCEPT ![c].pc = "forget"]
          /\ UNCHANGED peerFaults
       \/ /\ dev[cmd[c].name] # NoPeer /\ peerFaults < MaxPeerFaults
          /\ peerFaults' = peerFaults + 1
          /\ cmd' = [cmd EXCEPT ![c] = PeerIdle]
          /\ UNCHANGED <<dev, live>>
    /\ UNCHANGED <<rows, shared, cut, peersStarted>>

Forget(c) ==
    /\ cmd[c].pc = "forget"
    /\ rows' = [rows EXCEPT ![cmd[c].name] = NoPeer]
    /\ cmd' = [cmd EXCEPT ![c] = PeerIdle]
    /\ UNCHANGED <<dev, live, shared, cut, peersStarted, peerFaults>>

-----------------------------------------------------------------------------
(* The address a token lends, and the daemon's restart.                     *)

\* reserveJoinAddress looks at the device's peers, and the peer is the
\* device's alone: the ledger of rows does not have its address.
Lend ==
    LET taken == {dev[n].ip : n \in PeerNames}
    IN  /\ dev[Join] = NoPeer /\ ~(Addrs \subseteq taken)
        /\ DeviceAdd(Join, [key |-> Join, ip |-> Min(Addrs \ taken)])
        /\ UNCHANGED <<rows, cmd, shared, cut, peersStarted, peerFaults>>

\* dropJoinPeer, or the expiry of the token.
TakeBack ==
    /\ dev[Join] # NoPeer
    /\ DeviceRemove(Join)
    /\ UNCHANGED <<rows, cmd, shared, cut, peersStarted, peerFaults>>

\* Mutant: the device comes up with the peers it had, and not the rows.
MutRestart ==
    /\ peerFaults < MaxPeerFaults /\ peerFaults' = peerFaults + 1
    /\ cmd' = [c \in PeerCommands |-> PeerIdle]
    /\ shared' = {} /\ cut' = {}
    /\ UNCHANGED <<rows, dev, live, peersStarted>>

\* Network.Start: a new device is given the rows, and the commands are gone.
Restart ==
    /\ peerFaults < MaxPeerFaults /\ peerFaults' = peerFaults + 1
    /\ dev' = [n \in PeerNames \cup {Join} |-> IF n = Join THEN NoPeer ELSE rows[n]]
    /\ live' = [k \in PublicKeys \cup {Join} |->
         IF \E n \in PeerNames : rows[n].key = k
         THEN rows[CHOOSE n \in PeerNames : rows[n].key = k].ip ELSE NoAddr]
    /\ cmd' = [c \in PeerCommands |-> PeerIdle]
    /\ shared' = {} /\ cut' = {}
    /\ UNCHANGED <<rows, peersStarted>>

PeersNext ==
    \/ \E c \in PeerCommands :
        \/ \E n \in PeerNames, k \in PublicKeys : AddPeer(c, n, k)
        \/ Allocate(c) \/ Insert(c) \/ SetKey(c) \/ Install(c) \/ UndoPeer(c)
        \/ \E n \in PeerNames : RemovePeer(c, n)
        \/ Revoke(c) \/ Forget(c)
    \/ Lend \/ TakeBack \/ Restart

PeersSpec == PeersInit /\ [][PeersNext]_peersVars

-----------------------------------------------------------------------------
(* Properties.                                                              *)

PeersQuiet == \A c \in PeerCommands : cmd[c] = PeerIdle

\* When no command runs, and no two wanted the same name or key at once, the
\* device's table is the rows: whatever was refused, failed, retried after a
\* lost race for an address, or cut off by a restart, a revoked peer is out
\* and a recorded peer is in (AddPeer, rotate and RemovePeer undo or order
\* their two halves).
TableIsRows == PeersQuiet /\ shared = {} => \A n \in PeerNames : dev[n] = rows[n]

\* And WireGuard lets that peer in at its own address, when no two commands
\* wanted the same name or key at once and no failed rotation had dropped its
\* key (Told, the one key of an address; a rotation frees its old key in the
\* store before the device drops it).
LiveIsRows ==
    PeersQuiet /\ shared = {} => \A n \in PeerNames \ cut :
        rows[n] # NoPeer => live[rows[n].key] = rows[n].ip

\* Between commands the store, the device and WireGuard agree on the peers.
PeersAgree == PeersTypeOK /\ TableIsRows /\ LiveIsRows
=============================================================================
