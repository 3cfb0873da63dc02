--------------------------- MODULE NetworkProofs ---------------------------
(***************************************************************************)
(* The machine's private network: proofs about Peers (the rows, the table  *)
(* of the device, what WireGuard was told), Relay (the addresses, the      *)
(* relays, their sockets and flows), VpnClient (the files of a commander   *)
(* that has its tunnel to the hub) and Fleet (the machines of a hub).      *)
(*                                                                         *)
(* Peers, for any names, keys and addresses, any number of commands at     *)
(* once, and any failures of the device and restarts.                      *)
(* The columns of the store stay unique whatever overlaps. The rest is     *)
(* about commands that do not want the same name or key at once: then a    *)
(* name is either a command's, whose progress tells what the row and the   *)
(* device have (Stage), or nobody's, and the two agree (Settled). The      *)
(* device's entries have keys and addresses of their own because they are  *)
(* the rows', or the ones a rotation is about to replace (KeysKept).       *)
(*                                                                         *)
(* Relay, for any addresses, targets and clients: every relay has a socket *)
(* of its own while the device is up (Placed, OwnSockets), the sockets     *)
(* that listen are those (Heard), and a conversation is dialled to the     *)
(* target it is named for (GoodSockets): the last is what makes a datagram *)
(* follow the route of now although flows outlive the route they were      *)
(* opened for.                                                             *)
(*                                                                         *)
(* VpnClient, for any processes, commands and changes of the hub: a        *)
(* process that is past the key file has the key of the file (KeyOf),      *)
(* because only one ever writes it (OneWriter); what an up has done so far *)
(* tells what the hub, the entry and the record are (DoneBy), although     *)
(* another up may be at any other step; and the record on the disk fits    *)
(* the key and the pin (Fits), because a fleet is removed alone            *)
(* (AloneInFleet).                                                         *)
(*                                                                         *)
(* Fleet, for any machines, environments, tokens and subnets, and any      *)
(* joins, removals, announcements and restarts at once: the rows and the   *)
(* machine peers have subnets of their own (OwnSubnets), a join has the    *)
(* subnet its machine already has (KnownKept), and while a name or a       *)
(* forward is not what the store says some command is yet to publish it    *)
(* (NamesKept, DoorsKept).                                                 *)
(***************************************************************************)
EXTENDS Peers, Relay, VpnClient, Fleet, WellFoundedInduction, TLAPS

RowSet == {NoPeer} \cup [key : PublicKeys, ip : Addrs]
CmdPcs == {"alloc", "insert", "setkey", "install", "undo", "revoke", "forget"}
CmdSet == [pc : CmdPcs, name : PeerNames, peer : [key : PublicKeys, ip : {NoAddr} \cup Addrs], old : RowSet]

Types ==
    /\ rows \in [PeerNames -> RowSet]
    /\ dev \in [PeerNames \cup {Join} -> PeerRecords] /\ \A n \in PeerNames : dev[n] \in RowSet
    /\ dev[Join] \in {NoPeer} \cup [key : {Join}, ip : Addrs]
    /\ live \in [PublicKeys \cup {Join} -> {NoAddr} \cup Addrs]
    /\ cmd \in [PeerCommands -> {PeerIdle} \cup CmdSet]
    /\ \A c \in PeerCommands : cmd[c].pc \in {"insert", "install", "undo", "setkey"} => cmd[c].peer.ip \in Addrs
    /\ shared \subseteq PeerNames \cup PublicKeys /\ cut \subseteq PeerNames

\* The unique columns of the table.
Unique ==
    \A n, o \in PeerNames : n # o /\ rows[n] # NoPeer =>
        rows[n].key # rows[o].key /\ rows[n].ip # rows[o].ip

Apart == \A c, d \in PeerCommands : c # d => WorksOn(cmd[c]) \cap WorksOn(cmd[d]) = {}

Free(n) == \A c \in PeerCommands : cmd[c] = PeerIdle \/ cmd[c].name # n
Settled == \A n \in PeerNames : Free(n) => dev[n] = rows[n]

\* What the row and the device have of the name a command works on.
Stage(k) ==
    /\ k.pc \in {"alloc", "insert"} =>
        rows[k.name] = NoPeer /\ dev[k.name] = NoPeer /\ k.old = NoPeer
    /\ k.pc = "setkey" =>
        /\ rows[k.name] = k.old /\ dev[k.name] = k.old /\ k.old # NoPeer
        /\ k.peer.ip = k.old.ip
    /\ k.pc \in {"install", "undo"} =>
        /\ rows[k.name] = k.peer /\ dev[k.name] = k.old
        /\ k.old # NoPeer => k.peer.ip = k.old.ip
    /\ k.pc = "revoke" => rows[k.name] = k.old /\ dev[k.name] = k.old
    /\ k.pc = "forget" => dev[k.name] = NoPeer

Staged == \A c \in PeerCommands : cmd[c] # PeerIdle => Stage(cmd[c])

\* The key a rotation replaces stays its name's until it is dropped.
KeysKept ==
    \A c \in PeerCommands : cmd[c] # PeerIdle /\ cmd[c].old # NoPeer =>
        \A o \in PeerNames \ {cmd[c].name} : rows[o].key # cmd[c].old.key

\* WireGuard lets in what the device has.
Admitted == \A n \in PeerNames \ cut : dev[n] # NoPeer => live[dev[n].key] = dev[n].ip

Orderly == Apart /\ Settled /\ Staged /\ KeysKept

PeersInv == Types /\ Unique /\ (shared = {} => Orderly /\ Admitted)

-----------------------------------------------------------------------------
(* Addresses and sets. *)

\* The lowest address of some is one of them.
LEMMA MinIsOne ==
    ASSUME PeersSetup, NEW S \in SUBSET Addrs, S # {}
    PROVE  Min(S) \in S
  <1>1. S \subseteq Nat
    BY DEF Addrs, PeersSetup
  <1>2. PICK x \in S : \A y \in S : ~(<<y, x>> \in OpToRel(<, Nat))
    BY <1>1, WFMin, NatLessThanWellFounded
  <1>3. \A y \in S : ~(y < x)
    BY <1>1, <1>2 DEF OpToRel
  <1>4. \A y \in S : x <= y
    BY <1>1, <1>3
  <1> QED
    BY <1>4 DEF Min

\* Facts about the types, and about what a command works on.
LEMMA Apartness ==
    ASSUME PeersSetup
    PROVE  /\ NoPeer.key \notin PublicKeys \cup PeerNames /\ NoPeer.ip = NoAddr /\ NoAddr \notin Addrs
           /\ NoPeer.key = "none" /\ Join \notin PeerNames /\ Join \notin PublicKeys
           /\ \A p \in RowSet : p # NoPeer => p.key \in PublicKeys /\ p.ip \in Addrs
           /\ \A k \in CmdSet : /\ k # PeerIdle /\ k.name \in WorksOn(k) /\ k.peer.key \in WorksOn(k)
                                /\ k.old # NoPeer => k.old.key \in WorksOn(k)
           /\ \A k \in CmdSet : k.pc \in CmdPcs /\ k.name \in PeerNames /\ k.old \in RowSet
                                /\ k.peer.key \in PublicKeys /\ k.peer.ip \in {NoAddr} \cup Addrs
  <1>1. /\ NoPeer.key \notin PublicKeys \cup PeerNames /\ NoPeer.ip = NoAddr /\ NoAddr \notin Addrs
        /\ NoPeer.key = "none" /\ Join \notin PeerNames /\ Join \notin PublicKeys
    BY DEF PeersSetup, NoPeer, NoAddr, Addrs
  <1>2. \A p \in RowSet : p # NoPeer => p.key \in PublicKeys /\ p.ip \in Addrs
    BY DEF RowSet
  <1>3. ASSUME NEW k \in CmdSet
        PROVE  k.pc \in CmdPcs /\ k.name \in PeerNames /\ k.old \in RowSet
               /\ k.peer.key \in PublicKeys /\ k.peer.ip \in {NoAddr} \cup Addrs
    BY DEF CmdSet
  <1>4. ASSUME NEW k \in CmdSet
        PROVE  /\ k # PeerIdle /\ k.name \in WorksOn(k) /\ k.peer.key \in WorksOn(k)
               /\ k.old # NoPeer => k.old.key \in WorksOn(k)
    <2>1. k # PeerIdle
      BY <1>3 DEF CmdPcs, PeerIdle
    <2> QED
      BY <1>1, <1>2, <1>3, <2>1 DEF WorksOn
  <1> QED
    BY <1>1, <1>2, <1>3, <1>4

\* A device entry is its name's row, or the one that a command replaces.
FromRow(m) ==
    /\ rows[m] # NoPeer /\ dev[m].ip = rows[m].ip
    /\ \/ dev[m] = rows[m]
       \/ \E c \in PeerCommands : cmd[c] \in CmdSet /\ cmd[c].name = m /\ dev[m] = cmd[c].old

\* So it is while no two commands want the same.
LEMMA DeviceFromRow ==
    ASSUME PeersSetup, Types, Orderly, NEW m \in PeerNames, dev[m] # NoPeer
    PROVE  FromRow(m)
  <1>1. CASE Free(m)
    BY <1>1 DEF Orderly, Settled, FromRow
  <1>2. ASSUME NEW c \in PeerCommands, cmd[c] # PeerIdle, cmd[c].name = m PROVE FromRow(m)
    <2>1. cmd[c] \in CmdSet /\ Stage(cmd[c]) /\ cmd[c].pc \in CmdPcs /\ cmd[c].peer.key \in PublicKeys
      BY <1>2, Apartness DEF Types, Orderly, Staged
    <2>2. cmd[c].peer # NoPeer
      BY <2>1, Apartness
    <2>3. cmd[c].pc \in {"setkey", "install", "undo", "revoke"}
      BY <1>2, <2>1 DEF Stage, CmdPcs
    <2>4. CASE cmd[c].pc \in {"setkey", "revoke"}
      BY <1>2, <2>1, <2>4 DEF Stage, FromRow
    <2>5. CASE cmd[c].pc \in {"install", "undo"}
      <3>1. rows[m] = cmd[c].peer /\ dev[m] = cmd[c].old /\ rows[m].ip = dev[m].ip
        BY <1>2, <2>1, <2>5 DEF Stage
      <3> QED
        BY <1>2, <2>1, <2>2, <3>1 DEF FromRow
    <2> QED
      BY <2>3, <2>4, <2>5
  <1> QED
    BY <1>1, <1>2 DEF Free

\* And then no two device entries have the same key or address.
LEMMA DeviceUnique ==
    ASSUME PeersSetup, Types, Unique, Orderly, NEW n \in PeerNames, NEW o \in PeerNames, n # o,
           dev[n] # NoPeer, dev[o] # NoPeer
    PROVE  dev[n].key # dev[o].key /\ dev[n].ip # dev[o].ip
  <1>1. \A m \in PeerNames : dev[m] # NoPeer => FromRow(m)
    BY DeviceFromRow
  <1>2. dev[n].ip # dev[o].ip
    BY <1>1 DEF Unique, FromRow
  <1>3. ASSUME NEW a \in PeerNames, NEW b \in PeerNames, a # b, dev[a] # NoPeer, dev[b] # NoPeer,
               NEW c \in PeerCommands, cmd[c] \in CmdSet, cmd[c].name = a, dev[a] = cmd[c].old
        PROVE  dev[a].key # dev[b].key
    <2>1. CASE dev[b] = rows[b]
      BY <1>3, <2>1, Apartness DEF Orderly, KeysKept
    <2>2. ASSUME NEW d \in PeerCommands, cmd[d] \in CmdSet, cmd[d].name = b, dev[b] = cmd[d].old
          PROVE  dev[a].key # dev[b].key
      <3>1. c # d
        BY <1>3, <2>2
      <3>2. WorksOn(cmd[c]) \cap WorksOn(cmd[d]) = {}
        BY <3>1 DEF Orderly, Apart
      <3>3. cmd[c].old.key \in WorksOn(cmd[c]) /\ cmd[d].old.key \in WorksOn(cmd[d])
        BY <1>3, <2>2, Apartness
      <3> QED
        BY <1>3, <2>2, <3>2, <3>3
    <2> QED
      BY <1>1, <1>3, <2>1, <2>2 DEF FromRow
  <1>4. dev[n].key # dev[o].key
    <2>1. CASE dev[n] = rows[n] /\ dev[o] = rows[o]
      BY <1>1, <2>1 DEF Unique, FromRow
    <2> QED
      BY <1>1, <1>3, <2>1 DEF FromRow
  <1> QED
    BY <1>2, <1>4
-----------------------------------------------------------------------------
(* A step of a command. *)

\* The commands and the names that a step of a command is not about.
LEMMA StepOfCommand ==
    ASSUME PeersSetup, Types, Orderly, NEW c \in PeerCommands, cmd[c] \in CmdSet,
           NEW k \in {PeerIdle} \cup CmdSet, cmd' = [cmd EXCEPT ![c] = k],
           k # PeerIdle => /\ k.name = cmd[c].name /\ k.peer.key = cmd[c].peer.key /\ k.old = cmd[c].old
                           /\ Stage(k)',
           k = PeerIdle => dev'[cmd[c].name] = rows'[cmd[c].name],
           \A o \in PeerNames \ {cmd[c].name} : rows'[o] = rows[o] /\ dev'[o] = dev[o],
           rows'[cmd[c].name].key \in {rows[cmd[c].name].key, "none", cmd[c].peer.key, cmd[c].old.key}
    PROVE  Orderly'
  <1>1. /\ cmd'[c] = k /\ \A d \in PeerCommands \ {c} : cmd'[d] = cmd[d]
        /\ \A d \in PeerCommands : cmd[d] \in {PeerIdle} \cup CmdSet
    BY DEF Types
  <1>2. WorksOn(cmd[c])' \subseteq WorksOn(cmd[c]) /\ \A d \in PeerCommands \ {c} : WorksOn(cmd[d])' = WorksOn(cmd[d])
    BY <1>1, Apartness DEF WorksOn
  <1>3. Apart'
    BY <1>2 DEF Orderly, Apart
  <1>4. ASSUME NEW d \in PeerCommands \ {c}, cmd[d] # PeerIdle
        PROVE  /\ cmd[d] \in CmdSet /\ cmd[d].name \in PeerNames /\ cmd[d].name # cmd[c].name
               /\ cmd[d].old # NoPeer => /\ cmd[d].old.key # cmd[c].peer.key
                                         /\ cmd[d].old.key \in PublicKeys
                                         /\ cmd[c].old # NoPeer => cmd[d].old.key # cmd[c].old.key
    <2>1. cmd[d] \in CmdSet /\ WorksOn(cmd[c]) \cap WorksOn(cmd[d]) = {}
      BY <1>1, <1>4 DEF Orderly, Apart
    <2> QED
      BY <2>1, Apartness
  <1>5. Settled'
    <2>1. ASSUME NEW o \in PeerNames, Free(o)' PROVE dev'[o] = rows'[o]
      <3>1. CASE o = cmd[c].name
        BY <1>1, <2>1, <3>1 DEF Free
      <3>2. CASE o # cmd[c].name
        <4>1. Free(o)
          BY <1>1, <2>1, <3>2 DEF Free
        <4> QED
          BY <3>2, <4>1 DEF Orderly, Settled
      <3> QED
        BY <3>1, <3>2
    <2> QED
      BY <2>1 DEF Settled
  <1>6. Staged'
    <2>1. ASSUME NEW d \in PeerCommands, cmd'[d] # PeerIdle PROVE Stage(cmd[d])'
      <3>1. CASE d = c
        <4>1. Stage(k)'
          BY <1>1, <2>1, <3>1
        <4> QED
          BY <1>1, <3>1, <4>1 DEF Stage
      <3>2. CASE d # c
        <4>1. /\ cmd'[d] = cmd[d] /\ Stage(cmd[d]) /\ rows'[cmd[d].name] = rows[cmd[d].name]
              /\ dev'[cmd[d].name] = dev[cmd[d].name]
          BY <1>1, <1>4, <2>1, <3>2 DEF Orderly, Staged
        <4> QED
          BY <4>1 DEF Stage
      <3> QED
        BY <3>1, <3>2
    <2> QED
      BY <2>1 DEF Staged
  <1>7. KeysKept'
    <2>1. ASSUME NEW d \in PeerCommands, cmd'[d] # PeerIdle, cmd'[d].old # NoPeer, NEW o \in PeerNames \ {cmd'[d].name}
          PROVE  rows'[o].key # cmd'[d].old.key
      <3>1. CASE d = c
        <4>1. k # PeerIdle /\ cmd'[d].old = cmd[c].old /\ cmd'[d].name = cmd[c].name /\ cmd[c] # PeerIdle
          BY <1>1, <2>1, <3>1, Apartness
        <4> QED
          BY <2>1, <4>1 DEF Orderly, KeysKept
      <3>2. CASE d # c
        <4>1. cmd'[d] = cmd[d] /\ rows[o].key # cmd[d].old.key
          BY <1>1, <2>1, <3>2 DEF Orderly, KeysKept
        <4>2. CASE o # cmd[c].name
          BY <4>1, <4>2
        <4>3. CASE o = cmd[c].name
          <5>1. /\ cmd[d].old.key # cmd[c].peer.key /\ cmd[d].old.key \in PublicKeys
                /\ cmd[c].old # NoPeer => cmd[d].old.key # cmd[c].old.key
            BY <1>4, <2>1, <3>2, <4>1
          <5>2. "none" \notin PublicKeys /\ NoPeer.key = "none"
            BY Apartness
          <5> QED
            BY <4>1, <4>3, <5>1, <5>2
        <4> QED
          BY <4>2, <4>3
      <3> QED
        BY <3>1, <3>2
    <2> QED
      BY <2>1 DEF KeysKept
  <1> QED
    BY <1>3, <1>5, <1>6, <1>7 DEF Orderly

\* The start of a command: what it works on is nobody else's.
LEMMA StartOfCommand ==
    ASSUME PeersSetup, PeersInv, NEW c \in PeerCommands, NEW k \in CmdSet, Starts(c, k),
           k.pc \in {"insert", "install", "undo", "setkey"} => k.peer.ip \in Addrs,
           k.old = rows[k.name], dev[k.name] = rows[k.name] => Stage(k),
           UNCHANGED <<rows, dev, live, cut, peerFaults>>
    PROVE  PeersInv'
  <1>1. /\ cmd[c] = PeerIdle /\ cmd' = [cmd EXCEPT ![c] = k] /\ Types /\ Unique
        /\ shared' = shared \cup (WorksOn(k) \cap UNION {WorksOn(cmd[d]) : d \in PeerCommands})
    BY DEF Starts, PeersInv
  <1>2. /\ cmd'[c] = k /\ \A d \in PeerCommands \ {c} : cmd'[d] = cmd[d]
        /\ \A d \in PeerCommands : cmd[d] \in {PeerIdle} \cup CmdSet
        /\ cmd' \in [PeerCommands -> {PeerIdle} \cup CmdSet]
    BY <1>1 DEF Types
  <1>3. WorksOn(k) \subseteq PeerNames \cup PublicKeys
    BY Apartness DEF WorksOn, RowSet
  <1>4. Types'
    BY <1>1, <1>2, <1>3 DEF Types
  <1>5. Unique'
    BY <1>1 DEF Unique
  <1>6. ASSUME shared' = {} PROVE Orderly' /\ Admitted'
    <2>1. shared = {} /\ Orderly /\ Admitted
      BY <1>1, <1>6 DEF PeersInv
    <2>2. \A d \in PeerCommands : WorksOn(k) \cap WorksOn(cmd[d]) = {}
      BY <1>1, <1>6
    <2>3. Apart'
      BY <1>2, <2>1, <2>2 DEF Orderly, Apart
    <2>4. Free(k.name)
      BY <1>2, <2>2, Apartness DEF Free
    <2>5. dev[k.name] = rows[k.name] /\ k.name \in PeerNames /\ k.old \in RowSet
      BY <2>1, <2>4, Apartness DEF Orderly, Settled
    <2>6. Stage(k) /\ Stage(k)'
      BY <2>5 DEF Stage
    <2>7. Settled'
      BY <1>1, <1>2, <2>1 DEF Orderly, Settled, Free
    <2>8. Staged'
      BY <1>2, <2>1, <2>6 DEF Orderly, Staged, Stage
    <2>9. KeysKept'
      <3>1. k.old # NoPeer => \A o \in PeerNames \ {k.name} : rows[o].key # k.old.key
        BY <1>1, <2>5 DEF Unique
      <3> QED
        BY <1>2, <2>1, <3>1 DEF Orderly, KeysKept
    <2>10. Admitted'
      BY <2>1 DEF Admitted
    <2> QED
      BY <2>3, <2>7, <2>8, <2>9, <2>10 DEF Orderly
  <1> QED
    BY <1>4, <1>5, <1>6 DEF PeersInv

\* The steps that begin a command.
LEMMA BeginKeeps ==
    ASSUME PeersSetup, PeersInv, NEW c \in PeerCommands, NEW n \in PeerNames,
           RemovePeer(c, n) \/ \E k \in PublicKeys : AddPeer(c, n, k)
    PROVE  PeersInv'
  <1>1. rows[n] \in RowSet /\ rows[n].ip \in {NoAddr} \cup Addrs /\ (rows[n] # NoPeer => rows[n].ip \in Addrs)
    BY Apartness DEF PeersInv, Types
  <1>2. ASSUME NEW k \in PublicKeys, AddPeer(c, n, k) PROVE PeersInv'
    <2>1. PICK r : r = [pc |-> CASE rows[n] = NoPeer -> "alloc"
                                 [] rows[n].key = k  -> "install"
                                 [] OTHER            -> "setkey",
                        name |-> n, peer |-> [key |-> k, ip |-> rows[n].ip], old |-> rows[n]]
      OBVIOUS
    <2>2. /\ r.name = n /\ r.peer = [key |-> k, ip |-> rows[n].ip] /\ r.old = rows[n]
          /\ \/ rows[n] = NoPeer /\ r.pc = "alloc"
             \/ rows[n] # NoPeer /\ rows[n].key = k /\ r.pc = "install"
             \/ rows[n] # NoPeer /\ r.pc = "setkey"
      <3>1. CASE rows[n] = NoPeer
        BY <1>2, <2>1, <3>1, Apartness
      <3>2. CASE rows[n] # NoPeer /\ rows[n].key = k
        BY <2>1, <3>2
      <3>3. CASE rows[n] # NoPeer /\ rows[n].key # k
        BY <2>1, <3>3
      <3> QED
        BY <3>1, <3>2, <3>3
    <2>3. r \in CmdSet
      BY <1>1, <2>1, <2>2 DEF CmdSet, CmdPcs
    <2>4. r.pc \in {"insert", "install", "undo", "setkey"} => r.peer.ip \in Addrs
      BY <1>1, <2>2
    <2>5. dev[n] = rows[n] => Stage(r)
      <3>1. rows[n] # NoPeer /\ rows[n].key = k => rows[n] = r.peer
        BY <1>1, <2>2 DEF RowSet
      <3> QED
        BY <2>2, <3>1 DEF Stage
    <2>6. Starts(c, r) /\ UNCHANGED <<rows, dev, live, cut, peerFaults>>
      BY <1>2, <2>1 DEF AddPeer
    <2> QED
      BY <2>2, <2>3, <2>4, <2>5, <2>6, StartOfCommand
  <1>3. CASE RemovePeer(c, n)
    <2>1. PICK r : r = [pc |-> "revoke", name |-> n, peer |-> rows[n], old |-> rows[n]]
      OBVIOUS
    <2>2. rows[n] # NoPeer /\ Starts(c, r) /\ UNCHANGED <<rows, dev, live, cut, peerFaults>>
      BY <1>3, <2>1 DEF RemovePeer
    <2>3. r \in CmdSet /\ r.pc = "revoke" /\ r.name = n /\ r.old = rows[n]
      BY <1>1, <2>1, <2>2 DEF CmdSet, CmdPcs, RowSet
    <2>4. dev[n] = rows[n] => Stage(r)
      BY <2>3 DEF Stage
    <2> QED
      BY <2>2, <2>3, <2>4, StartOfCommand
  <1> QED
    BY <1>2, <1>3

\* What a command is when it is at a step.
LEMMA CommandAt ==
    ASSUME Types, NEW c \in PeerCommands, cmd[c].pc # "idle"
    PROVE  /\ cmd[c] \in CmdSet /\ cmd[c].name \in PeerNames /\ cmd[c].old \in RowSet
           /\ cmd[c].peer \in [key : PublicKeys, ip : {NoAddr} \cup Addrs]
           /\ cmd[c].pc \in {"insert", "install", "undo", "setkey"} =>
                cmd[c].peer \in [key : PublicKeys, ip : Addrs] /\ cmd[c].peer \in RowSet
  <1>1. cmd[c] \in CmdSet
    BY DEF Types, PeerIdle
  <1>2. /\ cmd[c].name \in PeerNames /\ cmd[c].old \in RowSet
        /\ cmd[c].peer \in [key : PublicKeys, ip : {NoAddr} \cup Addrs]
    BY <1>1 DEF CmdSet
  <1> QED
    BY <1>1, <1>2 DEF Types, RowSet

\* A step on the store: the device and WireGuard are left alone.
LEMMA StoreStep ==
    ASSUME PeersSetup, PeersInv, NEW c \in PeerCommands, cmd[c] \in CmdSet,
           NEW k \in {PeerIdle} \cup CmdSet, cmd' = [cmd EXCEPT ![c] = k],
           k.pc \in {"insert", "install", "undo", "setkey"} => k.peer.ip \in Addrs,
           NEW p \in RowSet, rows' = [rows EXCEPT ![cmd[c].name] = p],
           p = rows[cmd[c].name] \/ p = NoPeer
             \/ \A o \in PeerNames \ {cmd[c].name} : rows[o].key # p.key /\ rows[o].ip # p.ip,
           shared = {} /\ Orderly =>
             /\ k # PeerIdle => /\ k.name = cmd[c].name /\ k.peer.key = cmd[c].peer.key /\ k.old = cmd[c].old
                                /\ Stage(k)'
             /\ k = PeerIdle => dev[cmd[c].name] = p
             /\ p.key \in {rows[cmd[c].name].key, "none", cmd[c].peer.key, cmd[c].old.key},
           UNCHANGED <<dev, live, shared, cut>>
    PROVE  PeersInv'
  <1>1. /\ Types /\ Unique /\ cmd[c].name \in PeerNames /\ rows'[cmd[c].name] = p
        /\ \A o \in PeerNames \ {cmd[c].name} : rows'[o] = rows[o]
        /\ rows' \in [PeerNames -> RowSet]
    BY Apartness DEF PeersInv, Types
  <1>2. cmd' \in [PeerCommands -> {PeerIdle} \cup CmdSet] /\ cmd'[c] = k /\ \A d \in PeerCommands \ {c} : cmd'[d] = cmd[d]
    BY <1>1 DEF Types
  <1>3. Types'
    BY <1>1, <1>2 DEF Types
  <1>4. Unique'
    <2>1. CASE p = rows[cmd[c].name]
      BY <1>1, <2>1 DEF Unique
    <2>2. CASE p = NoPeer
      <3>1. \A n \in PeerNames : rows[n] # NoPeer => rows[n].key # NoPeer.key /\ rows[n].ip # NoPeer.ip
        BY <1>1, Apartness DEF Types
      <3> QED
        BY <1>1, <2>2, <3>1 DEF Unique
    <2>3. CASE \A o \in PeerNames \ {cmd[c].name} : rows[o].key # p.key /\ rows[o].ip # p.ip
      BY <1>1, <2>3 DEF Unique
    <2> QED
      BY <2>1, <2>2, <2>3
  <1>5. ASSUME shared' = {} PROVE Orderly' /\ Admitted'
    <2>1. shared = {} /\ Orderly /\ Admitted
      BY <1>5 DEF PeersInv
    <2>2. Orderly'
      BY <1>1, <2>1, StepOfCommand
    <2>3. Admitted'
      BY <2>1 DEF Admitted
    <2> QED
      BY <2>2, <2>3
  <1> QED
    BY <1>3, <1>4, <1>5 DEF PeersInv

LEMMA AllocateKeeps ==
    ASSUME PeersSetup, PeersInv, NEW c \in PeerCommands, Allocate(c)
    PROVE  PeersInv'
  <1>1. /\ Types /\ cmd[c].pc = "alloc" /\ cmd[c] \in CmdSet /\ cmd[c].name \in PeerNames
        /\ UNCHANGED <<rows, dev, live, shared, cut>>
    BY CommandAt DEF PeersInv, Allocate
  <1>2. rows' = [rows EXCEPT ![cmd[c].name] = rows[cmd[c].name]] /\ rows[cmd[c].name] \in RowSet
    BY <1>1 DEF Types
  <1>3. shared = {} /\ Orderly => Stage(cmd[c])
    BY <1>1, Apartness DEF Orderly, Staged
  <1>4. CASE Addrs \subseteq Ledger
    <2>1. cmd' = [cmd EXCEPT ![c] = PeerIdle] /\ PeerIdle.pc = "idle"
      BY <1>4 DEF Allocate, PeerIdle
    <2>2. shared = {} /\ Orderly => dev[cmd[c].name] = rows[cmd[c].name]
      BY <1>1, <1>3 DEF Stage
    <2> QED
      BY <1>1, <1>2, <2>1, <2>2, StoreStep
  <1>5. CASE ~(Addrs \subseteq Ledger)
    <2>1. PICK ip \in Addrs : ip = Min(Addrs \ Ledger)
      BY <1>5, MinIsOne
    <2>2. PICK k : k = [cmd[c] EXCEPT !.pc = "insert", !.peer.ip = ip]
      OBVIOUS
    <2>3. /\ k \in CmdSet /\ k.pc = "insert" /\ k.name = cmd[c].name /\ k.old = cmd[c].old
          /\ k.peer.key = cmd[c].peer.key /\ k.peer.ip = ip
      BY <1>1, <2>1, <2>2 DEF CmdSet, CmdPcs
    <2>4. cmd' = [cmd EXCEPT ![c] = k]
      BY <1>5, <2>1, <2>2 DEF Allocate
    <2>5. k # PeerIdle
      BY <2>3, Apartness
    <2>6. shared = {} /\ Orderly => Stage(k)'
      BY <1>1, <1>3, <2>3 DEF Stage
    <2> QED
      BY <1>1, <1>2, <2>3, <2>4, <2>5, <2>6, StoreStep
  <1> QED
    BY <1>4, <1>5

LEMMA InsertKeeps ==
    ASSUME PeersSetup, PeersInv, NEW c \in PeerCommands, Insert(c)
    PROVE  PeersInv'
  <1> DEFINE n == cmd[c].name
             p == cmd[c].peer
  <1>1. /\ Types /\ cmd[c].pc = "insert" /\ cmd[c] \in CmdSet /\ n \in PeerNames /\ p \in RowSet
        /\ p.ip \in Addrs /\ UNCHANGED <<dev, live, shared, cut>> /\ rows[n] \in RowSet
    BY CommandAt DEF PeersInv, Insert, Types
  <1>2. shared = {} /\ Orderly => Stage(cmd[c])
    BY <1>1, Apartness DEF Orderly, Staged
  <1>3. shared = {} /\ Orderly => dev[n] = rows[n] /\ rows[n] = NoPeer
    BY <1>1, <1>2 DEF Stage
  <1>4. rows = [rows EXCEPT ![n] = rows[n]] /\ PeerIdle.pc = "idle"
    BY <1>1 DEF Types, PeerIdle
  <1>5. CASE cmd' = [cmd EXCEPT ![c] = PeerIdle] /\ UNCHANGED rows
    BY <1>1, <1>3, <1>4, <1>5, StoreStep
  <1>6. CASE cmd' = [cmd EXCEPT ![c].pc = "alloc"] /\ UNCHANGED rows
    <2>1. PICK k : k = [cmd[c] EXCEPT !.pc = "alloc"]
      OBVIOUS
    <2>2. /\ k \in CmdSet /\ k.pc = "alloc" /\ k.name = n /\ k.old = cmd[c].old /\ k.peer = p
          /\ cmd' = [cmd EXCEPT ![c] = k]
      BY <1>1, <1>6, <2>1 DEF CmdSet, CmdPcs
    <2>3. shared = {} /\ Orderly => Stage(k)'
      BY <1>1, <1>2, <1>6, <2>2 DEF Stage
    <2>4. k # PeerIdle /\ rows' = [rows EXCEPT ![n] = rows[n]]
      BY <1>4, <1>6, <2>2, Apartness
    <2> QED
      BY <1>1, <2>2, <2>3, <2>4, StoreStep
  <1>7. CASE /\ rows[n] = NoPeer /\ ~\E o \in PeerNames : rows[o].key = p.key
             /\ p.ip \notin Ledger /\ rows' = [rows EXCEPT ![n] = p]
             /\ cmd' = [cmd EXCEPT ![c].pc = "install"]
    <2>1. PICK k : k = [cmd[c] EXCEPT !.pc = "install"]
      OBVIOUS
    <2>2. /\ k \in CmdSet /\ k.pc = "install" /\ k.name = n /\ k.old = cmd[c].old /\ k.peer = p
          /\ cmd' = [cmd EXCEPT ![c] = k]
      BY <1>1, <1>7, <2>1 DEF CmdSet, CmdPcs
    <2>3. rows'[n] = p
      BY <1>1, <1>7 DEF Types
    <2>4. shared = {} /\ Orderly => Stage(k)'
      BY <1>1, <1>2, <2>2, <2>3 DEF Stage
    <2>5. \A o \in PeerNames \ {n} : rows[o].key # p.key /\ rows[o].ip # p.ip
      BY <1>7 DEF Ledger
    <2> QED
      BY <1>1, <1>7, <2>2, <2>4, <2>5, Apartness, StoreStep
  <1> QED
    BY <1>5, <1>6, <1>7 DEF Insert

LEMMA SetKeyKeeps ==
    ASSUME PeersSetup, PeersInv, NEW c \in PeerCommands, SetKey(c)
    PROVE  PeersInv'
  <1> DEFINE n == cmd[c].name
  <1>1. /\ Types /\ cmd[c].pc = "setkey" /\ cmd[c] \in CmdSet /\ n \in PeerNames
        /\ cmd[c].peer \in [key : PublicKeys, ip : Addrs]
        /\ UNCHANGED <<dev, live, shared, cut>> /\ rows[n] \in RowSet
    BY CommandAt DEF PeersInv, SetKey, Types
  <1>2. shared = {} /\ Orderly => Stage(cmd[c])
    BY <1>1, Apartness DEF Orderly, Staged
  <1>3. rows = [rows EXCEPT ![n] = rows[n]] /\ PeerIdle.pc = "idle"
    BY <1>1 DEF Types, PeerIdle
  <1>4. CASE cmd' = [cmd EXCEPT ![c] = PeerIdle] /\ UNCHANGED rows
    <2>1. shared = {} /\ Orderly => dev[n] = rows[n]
      BY <1>1, <1>2 DEF Stage
    <2> QED
      BY <1>1, <1>3, <1>4, <2>1, StoreStep
  <1>5. CASE /\ rows[n] # NoPeer /\ ~\E o \in PeerNames \ {n} : rows[o].key = cmd[c].peer.key
             /\ rows' = [rows EXCEPT ![n].key = cmd[c].peer.key]
             /\ cmd' = [cmd EXCEPT ![c].pc = "install"]
    <2>1. PICK k : k = [cmd[c] EXCEPT !.pc = "install"]
      OBVIOUS
    <2>2. /\ k \in CmdSet /\ k.pc = "install" /\ k.name = n /\ k.old = cmd[c].old /\ k.peer = cmd[c].peer
          /\ cmd' = [cmd EXCEPT ![c] = k]
      BY <1>1, <1>5, <2>1 DEF CmdSet, CmdPcs
    <2>3. PICK p : p = [rows[n] EXCEPT !.key = cmd[c].peer.key]
      OBVIOUS
    <2>4. /\ p \in RowSet /\ p.key = cmd[c].peer.key /\ p.ip = rows[n].ip
          /\ rows' = [rows EXCEPT ![n] = p] /\ rows'[n] = p /\ p = [key |-> cmd[c].peer.key, ip |-> rows[n].ip]
      BY <1>1, <1>5, <2>3 DEF Types, RowSet
    <2>5. shared = {} /\ Orderly => Stage(k)'
      <3> SUFFICES ASSUME shared = {}, Orderly PROVE Stage(k)'
        OBVIOUS
      <3>1. rows[n] = cmd[c].old /\ dev[n] = cmd[c].old /\ cmd[c].peer.ip = cmd[c].old.ip
        BY <1>1, <1>2 DEF Stage
      <3>2. p = cmd[c].peer
        BY <1>1, <2>4, <3>1
      <3> QED
        BY <1>1, <2>2, <2>4, <3>1, <3>2 DEF Stage
    <2>6. \A o \in PeerNames \ {n} : rows[o].key # p.key /\ rows[o].ip # p.ip
      BY <1>1, <1>5, <2>4 DEF PeersInv, Unique
    <2>7. k # PeerIdle /\ k.peer.ip \in Addrs /\ k.peer.key = cmd[c].peer.key
      BY <1>1, <2>2, Apartness
    <2>8. shared = {} /\ Orderly =>
            /\ k # PeerIdle => /\ k.name = cmd[c].name /\ k.peer.key = cmd[c].peer.key /\ k.old = cmd[c].old
                               /\ Stage(k)'
            /\ k = PeerIdle => dev[cmd[c].name] = p
            /\ p.key \in {rows[cmd[c].name].key, "none", cmd[c].peer.key, cmd[c].old.key}
      BY <2>2, <2>4, <2>5, <2>7
    <2>9. rows' = [rows EXCEPT ![cmd[c].name] = p] /\ cmd' = [cmd EXCEPT ![c] = k] /\ p \in RowSet
      BY <2>2, <2>4
    <2> QED
      BY <1>1, <2>2, <2>6, <2>7, <2>8, <2>9, StoreStep
  <1> QED
    BY <1>4, <1>5 DEF SetKey

LEMMA UndoKeeps ==
    ASSUME PeersSetup, PeersInv, NEW c \in PeerCommands, UndoPeer(c)
    PROVE  PeersInv'
  <1> DEFINE n == cmd[c].name
             was == cmd[c].old
  <1>1. /\ Types /\ cmd[c].pc = "undo" /\ cmd[c] \in CmdSet /\ n \in PeerNames /\ was \in RowSet
        /\ cmd[c].peer \in [key : PublicKeys, ip : Addrs]
        /\ UNCHANGED <<dev, live, shared, cut>> /\ rows[n] \in RowSet
        /\ cmd' = [cmd EXCEPT ![c] = PeerIdle] /\ PeerIdle.pc = "idle"
    BY CommandAt DEF PeersInv, UndoPeer, Types, PeerIdle
  <1>2. PICK p : p = IF was = NoPeer THEN NoPeer
                     ELSE IF rows[n] = NoPeer \/ \E o \in PeerNames \ {n} : rows[o].key = was.key THEN rows[n]
                     ELSE [rows[n] EXCEPT !.key = was.key]
    OBVIOUS
  <1>3. rows' = [rows EXCEPT ![n] = p]
    BY <1>2 DEF UndoPeer
  <1>4. /\ p \in RowSet
        /\ \/ p = rows[n] \/ p = NoPeer
           \/ \A o \in PeerNames \ {n} : rows[o].key # p.key /\ rows[o].ip # p.ip
    <2>1. CASE was = NoPeer
      BY <1>2, <2>1 DEF RowSet
    <2>2. CASE was # NoPeer /\ (rows[n] = NoPeer \/ \E o \in PeerNames \ {n} : rows[o].key = was.key)
      BY <1>1, <1>2, <2>2
    <2>3. CASE was # NoPeer /\ ~(rows[n] = NoPeer \/ \E o \in PeerNames \ {n} : rows[o].key = was.key)
      <3>1. p = [rows[n] EXCEPT !.key = was.key] /\ was.key \in PublicKeys
        BY <1>1, <1>2, <2>3, Apartness
      <3>2. p \in RowSet /\ p.key = was.key /\ p.ip = rows[n].ip
        BY <1>1, <2>3, <3>1 DEF RowSet
      <3> QED
        BY <1>1, <2>3, <3>2 DEF PeersInv, Unique
    <2> QED
      BY <2>1, <2>2, <2>3
  <1>5. ASSUME shared = {}, Orderly
        PROVE  dev[n] = p /\ p.key \in {rows[n].key, "none", cmd[c].peer.key, was.key}
    <2>1. rows[n] = cmd[c].peer /\ dev[n] = was /\ (was # NoPeer => cmd[c].peer.ip = was.ip)
      BY <1>1, <1>5, Apartness DEF Orderly, Staged, Stage
    <2>2. was # NoPeer => \A o \in PeerNames \ {n} : rows[o].key # was.key
      BY <1>1, <1>5, Apartness DEF Orderly, KeysKept
    <2>3. rows[n] # NoPeer
      BY <1>1, <2>1, Apartness
    <2>4. CASE was = NoPeer
      BY <1>2, <2>1, <2>4, Apartness
    <2>5. CASE was # NoPeer
      <3>1. p = [rows[n] EXCEPT !.key = was.key]
        BY <1>2, <2>2, <2>3, <2>5
      <3>2. p = was
        BY <1>1, <2>1, <2>5, <3>1 DEF RowSet
      <3> QED
        BY <2>1, <3>2
    <2> QED
      BY <2>4, <2>5
  <1> QED
    BY <1>1, <1>3, <1>4, <1>5, StoreStep

LEMMA ForgetKeeps ==
    ASSUME PeersSetup, PeersInv, NEW c \in PeerCommands, Forget(c)
    PROVE  PeersInv'
  <1>1. /\ Types /\ cmd[c].pc = "forget" /\ cmd[c] \in CmdSet /\ cmd[c].name \in PeerNames
        /\ UNCHANGED <<dev, live, shared, cut>> /\ rows' = [rows EXCEPT ![cmd[c].name] = NoPeer]
        /\ cmd' = [cmd EXCEPT ![c] = PeerIdle] /\ PeerIdle.pc = "idle" /\ NoPeer \in RowSet /\ NoPeer.key = "none"
    BY CommandAt, Apartness DEF PeersInv, Forget, PeerIdle, RowSet
  <1>2. shared = {} /\ Orderly => dev[cmd[c].name] = NoPeer
    BY <1>1, Apartness DEF Orderly, Staged, Stage
  <1> QED
    BY <1>1, <1>2, StoreStep

-----------------------------------------------------------------------------
(* Steps on the device. *)

\* Telling WireGuard of a peer takes the address from nobody who has another.
LEMMA ToldOthers ==
    ASSUME PeersSetup, NEW l \in [PublicKeys \cup {Join} -> {NoAddr} \cup Addrs],
           NEW k \in PublicKeys \cup {Join}, NEW ip \in Addrs
    PROVE  /\ Told(l, k, ip) \in [PublicKeys \cup {Join} -> {NoAddr} \cup Addrs] /\ Told(l, k, ip)[k] = ip
           /\ \A x \in PublicKeys \cup {Join} : x # k /\ l[x] # ip => Told(l, k, ip)[x] = l[x]
  BY DEF Told

LEMMA DroppedOthers ==
    ASSUME NEW l \in [PublicKeys \cup {Join} -> {NoAddr} \cup Addrs], NEW k
    PROVE  /\ Dropped(l, k) \in [PublicKeys \cup {Join} -> {NoAddr} \cup Addrs]
           /\ \A x \in PublicKeys \cup {Join} : x # k => Dropped(l, k)[x] = l[x]
  BY DEF Dropped

\* A step on the device: the store is left alone, and of the other names
\* WireGuard lets in what it did.
LEMMA DeviceStep ==
    ASSUME PeersSetup, PeersInv, NEW c \in PeerCommands, cmd[c] \in CmdSet,
           NEW k \in {PeerIdle} \cup CmdSet, cmd' = [cmd EXCEPT ![c] = k],
           k.pc \in {"insert", "install", "undo", "setkey"} => k.peer.ip \in Addrs,
           NEW p \in RowSet, dev' = [dev EXCEPT ![cmd[c].name] = p],
           live' \in [PublicKeys \cup {Join} -> {NoAddr} \cup Addrs],
           cut' \subseteq PeerNames, cut \subseteq cut', UNCHANGED <<rows, shared>>,
           shared = {} /\ Orderly =>
             /\ k # PeerIdle => /\ k.name = cmd[c].name /\ k.peer.key = cmd[c].peer.key /\ k.old = cmd[c].old
                                /\ Stage(k)'
             /\ k = PeerIdle => p = rows[cmd[c].name]
             /\ \A o \in PeerNames \ {cmd[c].name} : dev[o] # NoPeer /\ live[dev[o].key] = dev[o].ip =>
                    live'[dev[o].key] = dev[o].ip
             /\ cmd[c].name \notin cut' /\ p # NoPeer =>
                    (Admitted => live'[p.key] = p.ip)
    PROVE  PeersInv'
  <1>1. /\ Types /\ Unique /\ cmd[c].name \in PeerNames /\ dev'[cmd[c].name] = p /\ p \in PeerRecords
        /\ \A o \in (PeerNames \cup {Join}) \ {cmd[c].name} : dev'[o] = dev[o]
        /\ dev' \in [PeerNames \cup {Join} -> PeerRecords] /\ Join # cmd[c].name
    BY Apartness DEF PeersInv, Types, RowSet, PeerRecords
  <1>2. cmd' \in [PeerCommands -> {PeerIdle} \cup CmdSet] /\ cmd'[c] = k /\ \A d \in PeerCommands \ {c} : cmd'[d] = cmd[d]
    BY <1>1 DEF Types
  <1>3. Types'
    BY <1>1, <1>2 DEF Types
  <1>4. Unique'
    BY <1>1 DEF Unique
  <1>5. ASSUME shared' = {} PROVE Orderly' /\ Admitted'
    <2>1. shared = {} /\ Orderly /\ Admitted
      BY <1>5 DEF PeersInv
    <2>2. Orderly'
      BY <1>1, <2>1, StepOfCommand
    <2>3. ASSUME NEW o \in PeerNames \ cut', dev'[o] # NoPeer PROVE live'[dev'[o].key] = dev'[o].ip
      <3>1. CASE o = cmd[c].name
        BY <1>1, <2>1, <2>3, <3>1
      <3>2. CASE o # cmd[c].name
        BY <1>1, <2>1, <2>3, <3>2 DEF Admitted
      <3> QED
        BY <3>1, <3>2
    <2>4. Admitted'
      BY <2>3 DEF Admitted
    <2> QED
      BY <2>2, <2>4
  <1> QED
    BY <1>3, <1>4, <1>5 DEF PeersInv

LEMMA InstallKeeps ==
    ASSUME PeersSetup, PeersInv, NEW c \in PeerCommands, Install(c)
    PROVE  PeersInv'
  <1> DEFINE n == cmd[c].name
             p == cmd[c].peer
  <1>1. /\ Types /\ Unique /\ cmd[c].pc = "install" /\ cmd[c] \in CmdSet /\ n \in PeerNames /\ p \in RowSet
        /\ p.key \in PublicKeys /\ p.ip \in Addrs /\ p # NoPeer /\ dev[n] \in RowSet
        /\ live \in [PublicKeys \cup {Join} -> {NoAddr} \cup Addrs]
        /\ UNCHANGED <<rows, shared>> /\ PeerIdle.pc = "idle" /\ cut \subseteq PeerNames
    BY CommandAt, Apartness DEF PeersInv, Install, Types, PeerIdle
  <1>2. ASSUME shared = {}, Orderly
        PROVE  /\ rows[n] = p /\ dev[n] = cmd[c].old /\ Stage(cmd[c])
               /\ \A o \in PeerNames \ {n} : dev[o] # NoPeer =>
                    /\ dev[o].key \in PublicKeys /\ dev[o].key # p.key /\ dev[o].ip # p.ip
                    /\ dev[n] # NoPeer => dev[o].key # dev[n].key
    <2>1. rows[n] = p /\ dev[n] = cmd[c].old /\ Stage(cmd[c])
      BY <1>1, <1>2, Apartness DEF Orderly, Staged, Stage
    <2>2. ASSUME NEW o \in PeerNames \ {n}, dev[o] # NoPeer
          PROVE  dev[o].key \in PublicKeys /\ dev[o].key # p.key /\ dev[o].ip # p.ip
      <3>1. FromRow(o)
        BY <1>1, <1>2, <2>2, DeviceFromRow
      <3>2. rows[o].key # p.key /\ rows[o].ip # p.ip
        BY <1>1, <2>1 DEF Unique
      <3>3. ASSUME NEW d \in PeerCommands, cmd[d] \in CmdSet, cmd[d].name = o, dev[o] = cmd[d].old
            PROVE  dev[o].key # p.key
        <4>1. WorksOn(cmd[c]) \cap WorksOn(cmd[d]) = {}
          BY <1>2, <3>3 DEF Orderly, Apart
        <4> QED
          BY <1>1, <2>2, <3>3, <4>1, Apartness
      <3> QED
        BY <1>1, <2>2, <3>1, <3>2, <3>3, Apartness DEF FromRow, Types
    <2>3. ASSUME NEW o \in PeerNames \ {n}, dev[o] # NoPeer, dev[n] # NoPeer PROVE dev[o].key # dev[n].key
      BY <1>1, <1>2, <2>3, DeviceUnique
    <2> QED
      BY <2>1, <2>2, <2>3
  <1>3. Dropped(live, dev[n].key) \in [PublicKeys \cup {Join} -> {NoAddr} \cup Addrs]
        /\ \A x \in PublicKeys \cup {Join} : x # dev[n].key => Dropped(live, dev[n].key)[x] = live[x]
    BY <1>1, DroppedOthers
  <1>4. CASE DeviceAdd(n, p) /\ cmd' = [cmd EXCEPT ![c] = PeerIdle] /\ UNCHANGED cut
    <2>1. PICK l : l = IF dev[n] # NoPeer /\ dev[n].key # p.key THEN Dropped(live, dev[n].key) ELSE live
      OBVIOUS
    <2>2. /\ l \in [PublicKeys \cup {Join} -> {NoAddr} \cup Addrs]
          /\ \A x \in PublicKeys : (dev[n] # NoPeer => x # dev[n].key) => l[x] = live[x]
      BY <1>1, <1>3, <2>1
    <2>3. /\ Told(l, p.key, p.ip) \in [PublicKeys \cup {Join} -> {NoAddr} \cup Addrs]
          /\ Told(l, p.key, p.ip)[p.key] = p.ip
          /\ \A x \in PublicKeys \cup {Join} : x # p.key /\ l[x] # p.ip => Told(l, p.key, p.ip)[x] = l[x]
      BY <1>1, <2>2, ToldOthers
    <2>4. live' = IF dev[n] = p THEN live ELSE Told(l, p.key, p.ip)
      BY <1>4, <2>1 DEF DeviceAdd
    <2>5. dev' = [dev EXCEPT ![n] = p]
      BY <1>4 DEF DeviceAdd
    <2>6. live' \in [PublicKeys \cup {Join} -> {NoAddr} \cup Addrs]
      BY <1>1, <2>3, <2>4
    <2>7. ASSUME shared = {}, Orderly
          PROVE  /\ p = rows[n]
                 /\ \A o \in PeerNames \ {n} : dev[o] # NoPeer /\ live[dev[o].key] = dev[o].ip =>
                        live'[dev[o].key] = dev[o].ip
                 /\ n \notin cut' => (Admitted => live'[p.key] = p.ip)
      <3>1. CASE dev[n] = p
        BY <1>1, <1>2, <1>4, <2>4, <2>7, <3>1 DEF Admitted
      <3>2. CASE dev[n] # p
        BY <1>2, <2>2, <2>3, <2>4, <2>7, <3>2
      <3> QED
        BY <3>1, <3>2
    <2> QED
      BY <1>1, <1>4, <2>5, <2>6, <2>7, DeviceStep
  <1>5. CASE DeviceAddFails(n, p) /\ cmd' = [cmd EXCEPT ![c].pc = "undo"]
    <2>1. PICK k : k = [cmd[c] EXCEPT !.pc = "undo"]
      OBVIOUS
    <2>2. /\ k \in CmdSet /\ k.pc = "undo" /\ k.name = n /\ k.old = cmd[c].old /\ k.peer = p
          /\ cmd' = [cmd EXCEPT ![c] = k]
      BY <1>1, <1>5, <2>1 DEF CmdSet, CmdPcs
    <2>3. k # PeerIdle
      BY <2>2, Apartness
    <2>4. dev' = dev /\ dev' = [dev EXCEPT ![n] = dev[n]]
      BY <1>1, <1>5 DEF DeviceAddFails, Types
    <2>5. shared = {} /\ Orderly => Stage(k)'
      BY <1>1, <1>2, <2>2, <2>4 DEF Stage
    <2>6. \/ live' = live /\ cut' = cut
          \/ dev[n] # NoPeer /\ live' = Dropped(live, dev[n].key) /\ cut' = cut \cup {n}
      BY <1>5 DEF DeviceAddFails
    <2>7. live' \in [PublicKeys \cup {Join} -> {NoAddr} \cup Addrs] /\ cut' \subseteq PeerNames /\ cut \subseteq cut'
      BY <1>1, <1>3, <2>6
    <2>8. ASSUME shared = {}, Orderly
          PROVE  /\ \A o \in PeerNames \ {n} : dev[o] # NoPeer /\ live[dev[o].key] = dev[o].ip =>
                        live'[dev[o].key] = dev[o].ip
                 /\ n \notin cut' /\ dev[n] # NoPeer => (Admitted => live'[dev[n].key] = dev[n].ip)
      BY <1>1, <1>2, <1>3, <2>6, <2>8 DEF Admitted
    <2> QED
      BY <1>1, <2>2, <2>3, <2>4, <2>5, <2>7, <2>8, DeviceStep
  <1> QED
    BY <1>4, <1>5 DEF Install

LEMMA RevokeKeeps ==
    ASSUME PeersSetup, PeersInv, NEW c \in PeerCommands, Revoke(c)
    PROVE  PeersInv'
  <1> DEFINE n == cmd[c].name
  <1>1. /\ Types /\ Unique /\ cmd[c].pc = "revoke" /\ cmd[c] \in CmdSet /\ n \in PeerNames
        /\ dev[n] \in RowSet /\ live \in [PublicKeys \cup {Join} -> {NoAddr} \cup Addrs] /\ NoPeer \in RowSet
        /\ UNCHANGED <<rows, shared, cut>> /\ PeerIdle.pc = "idle" /\ cut \subseteq PeerNames
    BY CommandAt, Apartness DEF PeersInv, Revoke, Types, PeerIdle, RowSet
  <1>2. shared = {} /\ Orderly => Stage(cmd[c]) /\ rows[n] = dev[n]
    BY <1>1, Apartness DEF Orderly, Staged, Stage
  <1>3. CASE DeviceRemove(n) /\ cmd' = [cmd EXCEPT ![c].pc = "forget"]
    <2>1. PICK k : k = [cmd[c] EXCEPT !.pc = "forget"]
      OBVIOUS
    <2>2. /\ k \in CmdSet /\ k.pc = "forget" /\ k.name = n /\ k.old = cmd[c].old /\ k.peer = cmd[c].peer
          /\ cmd' = [cmd EXCEPT ![c] = k]
      BY <1>1, <1>3, <2>1 DEF CmdSet, CmdPcs
    <2>3. k # PeerIdle
      BY <2>2, Apartness
    <2>4. dev' = [dev EXCEPT ![n] = NoPeer] /\ dev'[n] = NoPeer
          /\ live' = IF dev[n] = NoPeer THEN live ELSE Dropped(live, dev[n].key)
      BY <1>1, <1>3 DEF DeviceRemove, Types
    <2>5. Stage(k)'
      BY <2>2, <2>4 DEF Stage
    <2>6. /\ Dropped(live, dev[n].key) \in [PublicKeys \cup {Join} -> {NoAddr} \cup Addrs]
          /\ \A x \in PublicKeys \cup {Join} : x # dev[n].key => Dropped(live, dev[n].key)[x] = live[x]
      BY <1>1, DroppedOthers
    <2>7. live' \in [PublicKeys \cup {Join} -> {NoAddr} \cup Addrs]
      BY <1>1, <2>4, <2>6
    <2>8. ASSUME shared = {}, Orderly, NEW o \in PeerNames \ {n}, dev[o] # NoPeer, live[dev[o].key] = dev[o].ip
          PROVE  live'[dev[o].key] = dev[o].ip
      <3>1. dev[o].key \in PublicKeys /\ (dev[n] # NoPeer => dev[o].key # dev[n].key)
        BY <1>1, <2>8, DeviceUnique, Apartness DEF Types
      <3> QED
        BY <2>4, <2>6, <2>8, <3>1
    <2> QED
      BY <1>1, <2>2, <2>3, <2>4, <2>5, <2>7, <2>8, DeviceStep
  <1>4. CASE cmd' = [cmd EXCEPT ![c] = PeerIdle] /\ UNCHANGED <<dev, live>>
    <2>1. dev' = [dev EXCEPT ![n] = dev[n]]
      BY <1>1, <1>4 DEF Types
    <2> QED
      BY <1>1, <1>2, <1>4, <2>1, DeviceStep DEF Admitted
  <1> QED
    BY <1>3, <1>4 DEF Revoke

\* The bootstrap peer has a key of its own, and gets an address that the device
\* has nobody at.
LEMMA JoinKeeps ==
    ASSUME PeersSetup, PeersInv, Lend \/ TakeBack
    PROVE  PeersInv'
  <1>1. /\ Types /\ Unique /\ UNCHANGED <<rows, cmd, shared, cut>> /\ Join \notin PeerNames /\ Join \notin PublicKeys
        /\ dev \in [PeerNames \cup {Join} -> PeerRecords]
        /\ live \in [PublicKeys \cup {Join} -> {NoAddr} \cup Addrs]
        /\ \A n \in PeerNames : dev[n] # NoPeer => dev[n].key \in PublicKeys
    BY Apartness DEF PeersInv, Types, Lend, TakeBack
  <1>2. PICK p \in {NoPeer} \cup [key : {Join}, ip : Addrs] :
            /\ dev' = [dev EXCEPT ![Join] = p]
            /\ live' \in [PublicKeys \cup {Join} -> {NoAddr} \cup Addrs]
            /\ \A n \in PeerNames : dev[n] # NoPeer /\ live[dev[n].key] = dev[n].ip =>
                    live'[dev[n].key] = dev[n].ip
    <2>1. CASE Lend
      <3> DEFINE taken == {dev[n].ip : n \in PeerNames}
      <3>1. dev[Join] = NoPeer /\ ~(Addrs \subseteq taken)
            /\ DeviceAdd(Join, [key |-> Join, ip |-> Min(Addrs \ taken)])
        BY <2>1 DEF Lend
      <3>2. PICK ip : ip = Min(Addrs \ taken)
        OBVIOUS
      <3>3. ip \in Addrs \ taken
        BY <3>1, <3>2, MinIsOne
      <3>4. dev' = [dev EXCEPT ![Join] = [key |-> Join, ip |-> ip]] /\ live' = Told(live, Join, ip)
        BY <3>1, <3>2, Apartness DEF DeviceAdd, NoPeer, Join
      <3>5. /\ Told(live, Join, ip) \in [PublicKeys \cup {Join} -> {NoAddr} \cup Addrs]
            /\ \A x \in PublicKeys \cup {Join} : x # Join /\ live[x] # ip => Told(live, Join, ip)[x] = live[x]
        BY <1>1, <3>3, ToldOthers
      <3>6. \A n \in PeerNames : dev[n].ip # ip
        BY <3>3
      <3>7. [key |-> Join, ip |-> ip] \in {NoPeer} \cup [key : {Join}, ip : Addrs]
        BY <3>3
      <3>8. ASSUME NEW n \in PeerNames, dev[n] # NoPeer, live[dev[n].key] = dev[n].ip
            PROVE  live'[dev[n].key] = dev[n].ip
        <4>1. dev[n].key \in PublicKeys /\ dev[n].key # Join /\ live[dev[n].key] # ip
          BY <1>1, <3>6, <3>8
        <4> QED
          BY <3>4, <3>5, <3>8, <4>1
      <3> QED
        <4>1. PICK q \in {NoPeer} \cup [key : {Join}, ip : Addrs] : q = [key |-> Join, ip |-> ip]
          BY <3>7
        <4>2. dev' = [dev EXCEPT ![Join] = q]
          BY <3>4, <4>1
        <4>3. live' \in [PublicKeys \cup {Join} -> {NoAddr} \cup Addrs]
          BY <3>4, <3>5
        <4> QED
          BY <3>8, <4>2, <4>3
    <2>2. CASE TakeBack
      <3>1. dev' = [dev EXCEPT ![Join] = NoPeer] /\ dev[Join].key = Join /\ live' = Dropped(live, Join)
        BY <1>1, <2>2 DEF TakeBack, DeviceRemove, Types
      <3> QED
        <4>1. /\ live' \in [PublicKeys \cup {Join} -> {NoAddr} \cup Addrs]
              /\ \A x \in PublicKeys \cup {Join} : x # Join => live'[x] = live[x]
          BY <1>1, <3>1, DroppedOthers
        <4>2. \A n \in PeerNames : dev[n] # NoPeer /\ live[dev[n].key] = dev[n].ip =>
                live'[dev[n].key] = dev[n].ip
          BY <1>1, <4>1
        <4> QED
          BY <3>1, <4>1, <4>2
    <2> QED
      BY <2>1, <2>2
  <1>3. /\ p \in PeerRecords /\ dev'[Join] = p /\ \A n \in PeerNames : dev'[n] = dev[n]
        /\ dev' \in [PeerNames \cup {Join} -> PeerRecords]
    BY <1>1, <1>2 DEF PeerRecords
  <1>4. Types'
    BY <1>1, <1>2, <1>3 DEF Types
  <1>5. Unique'
    BY <1>1 DEF Unique
  <1>6. ASSUME shared' = {} PROVE Orderly' /\ Admitted'
    <2>1. Orderly /\ Admitted
      BY <1>1, <1>6 DEF PeersInv
    <2>2. Apart' /\ KeysKept'
      BY <1>1, <2>1 DEF Orderly, Apart, KeysKept, WorksOn
    <2>3. Settled'
      BY <1>1, <1>3, <2>1 DEF Orderly, Settled, Free
    <2>4. Staged'
      <3>1. ASSUME NEW c \in PeerCommands, cmd[c] # PeerIdle PROVE Stage(cmd[c])'
        <4>1. Stage(cmd[c]) /\ cmd[c].name \in PeerNames
          BY <1>1, <2>1, <3>1, Apartness DEF Orderly, Staged, Types
        <4> QED
          BY <1>1, <1>3, <4>1 DEF Stage
      <3> QED
        BY <1>1, <3>1 DEF Staged
    <2>5. Admitted'
      BY <1>1, <1>2, <1>3, <2>1 DEF Admitted
    <2> QED
      BY <2>2, <2>3, <2>4, <2>5 DEF Orderly
  <1> QED
    BY <1>4, <1>5, <1>6 DEF PeersInv

\* A new device is given the rows, and the rows are enough: a key is in one.
LEMMA RestartKeeps ==
    ASSUME PeersSetup, PeersInv, Restart
    PROVE  PeersInv'
  <1>1. /\ Types /\ Unique /\ rows' = rows /\ shared' = {} /\ cut' = {} /\ cmd' = [c \in PeerCommands |-> PeerIdle]
        /\ Join \notin PeerNames /\ Join \notin PublicKeys /\ NoPeer.key \notin PublicKeys /\ NoPeer.key # Join
    BY Apartness DEF PeersInv, Restart, NoPeer, Join
  <1>2. dev' \in [PeerNames \cup {Join} -> PeerRecords] /\ dev'[Join] = NoPeer /\ \A n \in PeerNames : dev'[n] = rows[n]
    BY <1>1 DEF Restart, Types, PeerRecords, RowSet
  <1>3. ASSUME NEW k \in PublicKeys \cup {Join}
        PROVE  /\ live'[k] \in {NoAddr} \cup Addrs
               /\ \A n \in PeerNames : rows[n].key = k => live'[k] = rows[n].ip
    <2>1. live'[k] = IF \E n \in PeerNames : rows[n].key = k
                     THEN rows[CHOOSE n \in PeerNames : rows[n].key = k].ip ELSE NoAddr
      BY DEF Restart
    <2>2. CASE \E n \in PeerNames : rows[n].key = k
      <3>1. PICK m \in PeerNames : m = (CHOOSE n \in PeerNames : rows[n].key = k) /\ rows[m].key = k
        BY <2>2
      <3>2. rows[m] # NoPeer /\ rows[m] \in RowSet
        BY <1>1, <3>1 DEF Types
      <3>3. \A n \in PeerNames : rows[n].key = k => n = m
        BY <1>1, <3>1, <3>2 DEF Unique
      <3>4. live'[k] = rows[m].ip
        BY <2>1, <2>2, <3>1
      <3> QED
        BY <3>2, <3>3, <3>4, Apartness
    <2>3. CASE ~\E n \in PeerNames : rows[n].key = k
      BY <2>1, <2>3
    <2> QED
      BY <2>2, <2>3
  <1>4. live' \in [PublicKeys \cup {Join} -> {NoAddr} \cup Addrs]
    BY <1>3 DEF Restart
  <1>5. Types'
    <2>1. \A c \in PeerCommands : cmd'[c] = PeerIdle /\ cmd'[c].pc = "idle"
      BY <1>1 DEF PeerIdle
    <2>2. \A n \in PeerNames : dev'[n] \in RowSet
      BY <1>1, <1>2 DEF Types
    <2> QED
      BY <1>1, <1>2, <1>4, <2>1, <2>2 DEF Types
  <1>6. Unique'
    BY <1>1 DEF Unique
  <1>7. Orderly'
    <2>1. Apart'
      BY <1>1 DEF Apart, WorksOn
    <2>2. Settled' /\ Staged' /\ KeysKept'
      BY <1>1, <1>2 DEF Settled, Staged, KeysKept
    <2> QED
      BY <2>1, <2>2 DEF Orderly
  <1>8. Admitted'
    <2>1. \A n \in PeerNames : rows[n] # NoPeer => rows[n].key \in PublicKeys
      BY <1>1, Apartness DEF Types
    <2> QED
      BY <1>2, <1>3, <2>1 DEF Admitted
  <1> QED
    BY <1>5, <1>6, <1>7, <1>8 DEF PeersInv

-----------------------------------------------------------------------------
(* The theorems. *)

LEMMA PeersInitially ==
    ASSUME PeersSetup, PeersInit
    PROVE  PeersInv
  <1>1. \A c \in PeerCommands : cmd[c] = PeerIdle /\ cmd[c].pc = "idle"
    BY DEF PeersInit, PeerIdle
  <1>2. /\ \A n \in PeerNames : rows[n] = NoPeer /\ dev[n] = NoPeer
        /\ dev[Join] = NoPeer
    BY DEF PeersInit
  <1>3. Types
    BY <1>1, <1>2 DEF PeersInit, Types, RowSet, PeerRecords
  <1>4. Unique /\ Admitted
    BY <1>2 DEF Unique, Admitted
  <1>5. Orderly
    <2>1. Apart
      BY <1>1 DEF Apart, WorksOn
    <2> QED
      BY <1>1, <1>2, <2>1 DEF Orderly, Settled, Staged, KeysKept
  <1> QED
    BY <1>3, <1>4, <1>5 DEF PeersInv

LEMMA PeersStep ==
    ASSUME PeersSetup, PeersInv, [PeersNext]_peersVars
    PROVE  PeersInv'
  <1>1. ASSUME NEW c \in PeerCommands, NEW n \in PeerNames, RemovePeer(c, n) \/ \E k \in PublicKeys : AddPeer(c, n, k)
        PROVE  PeersInv'
    BY <1>1, BeginKeeps
  <1>2. ASSUME NEW c \in PeerCommands, Allocate(c) \/ Insert(c) \/ SetKey(c) \/ UndoPeer(c) \/ Forget(c)
        PROVE  PeersInv'
    BY <1>2, AllocateKeeps, InsertKeeps, SetKeyKeeps, UndoKeeps, ForgetKeeps
  <1>3. ASSUME NEW c \in PeerCommands, Install(c) \/ Revoke(c) PROVE PeersInv'
    BY <1>3, InstallKeeps, RevokeKeeps
  <1>4. CASE Lend \/ TakeBack \/ Restart
    BY <1>4, JoinKeeps, RestartKeeps
  <1>5. CASE UNCHANGED peersVars
    <2>1. Types' /\ Unique'
      BY <1>5 DEF peersVars, PeersInv, Types, Unique
    <2>2. shared' = {} => Orderly' /\ Admitted'
      <3> SUFFICES ASSUME shared' = {} PROVE Orderly' /\ Admitted'
        OBVIOUS
      <3>1. Orderly /\ Admitted
        BY <1>5 DEF peersVars, PeersInv
      <3>2. Apart' /\ Settled' /\ KeysKept' /\ Admitted'
        BY <1>5, <3>1 DEF peersVars, Orderly, Apart, WorksOn, Settled, Free, KeysKept, Admitted
      <3>3. Staged'
        BY <1>5, <3>1 DEF peersVars, Orderly, Staged, Stage
      <3> QED
        BY <3>2, <3>3 DEF Orderly
    <2> QED
      BY <2>1, <2>2 DEF PeersInv
  <1> QED
    BY <1>1, <1>2, <1>3, <1>4, <1>5 DEF PeersNext

\* The invariant holds of every behaviour.
THEOREM PeersStayInOrder ==
    PeersSpec => []PeersInv
  <1>1. PeersInit => PeersInv
    BY PeersInitially, PeersAssumption
  <1>2. PeersInv /\ [PeersNext]_peersVars => PeersInv'
    BY PeersStep, PeersAssumption
  <1> QED
    BY <1>1, <1>2, PTL DEF PeersSpec

\* Whatever commands overlap, no two rows of the peers have the same key or the
\* same address, and the device and WireGuard hold peers only (Store.AddPeer,
\* SetPeerKey, and the rotation that restores a key).
THEOREM PeersAreTyped ==
    PeersSpec => []PeersTypeOK
  <1>1. PeersInv => PeersTypeOK
    <2> SUFFICES ASSUME PeersInv PROVE PeersTypeOK
      OBVIOUS
    <2>1. rows \in [PeerNames -> PeerRecords]
      BY DEF PeersInv, Types, RowSet, PeerRecords
    <2> QED
      BY <2>1 DEF PeersInv, Types, Unique, PeersTypeOK
  <1> QED
    BY <1>1, PeersStayInOrder, PTL

\* When no command runs and no two wanted the same name or key at once, the
\* table of the device is the rows, whatever failed or was cut off (AddPeer,
\* rotate, RemovePeer, Network.Start).
THEOREM DeviceIsStore ==
    PeersSpec => []TableIsRows
  <1>1. PeersInv => TableIsRows
    BY DEF PeersInv, Orderly, Settled, Free, TableIsRows, PeersQuiet
  <1> QED
    BY <1>1, PeersStayInOrder, PTL

\* And WireGuard lets each recorded peer in at its own address, unless a failed
\* rotation had dropped its key (Device.AddPeer, peerSection, MachineToken).
THEOREM RecordedPeersGetIn ==
    PeersSpec => []LiveIsRows
  <1>1. PeersInv => LiveIsRows
    <2> SUFFICES ASSUME PeersInv, PeersQuiet, shared = {}, NEW n \in PeerNames \ cut, rows[n] # NoPeer
                 PROVE  live[rows[n].key] = rows[n].ip
      BY DEF LiveIsRows
    <2>1. dev[n] = rows[n]
      BY DEF PeersInv, Orderly, Settled, Free, PeersQuiet
    <2> QED
      BY <2>1 DEF PeersInv, Admitted
  <1> QED
    BY <1>1, PeersStayInOrder, PTL

\* PeersStayAgreed: whatever commands overlap, fail or are cut off, no two rows
\* share a key or an address; and between commands that did not want the same
\* name or key at once, the device's table is the rows and WireGuard lets each
\* recorded peer in at its own address (vpn/network.go, vpn/device.go).
THEOREM PeersStayAgreed ==
    PeersSpec => []PeersAgree
  <1>1. PeersTypeOK /\ TableIsRows /\ LiveIsRows => PeersAgree
    BY DEF PeersAgree
  <1> QED
    BY <1>1, PeersAreTyped, DeviceIsStore, RecordedPeersGetIn, PTL

-----------------------------------------------------------------------------
(* The relays.                                                              *)

SocketNumbers == 1..MaxSockets
SocketSet == [state : {"none", "open", "closed", "ended"}, key : RelayAddrs, flows : SUBSET Flows]
RelaySet == [route : RelayRoutes, socket : 0..MaxSockets]

\* The sockets, and the conversations each has: one per client and target,
\* dialled to the target it is named for.
GoodSockets(s) ==
    /\ s \in [SocketNumbers -> SocketSet]
    /\ \A i \in SocketNumbers : \A f, g \in s[i].flows :
           /\ f.client = g.client /\ f.named = g.named => f = g
           /\ f.named = f.dialled

RelayTypes ==
    /\ raised \in BOOLEAN /\ halfDone \subseteq {"zone", "routes"}
    /\ onDevice \subseteq RelayAddrs /\ stacked \subseteq RelayAddrs /\ zone \subseteq RelayAddrs
    /\ relays = [k \in DOMAIN relays |-> relays[k]]
    /\ asked = [k \in DOMAIN asked |-> asked[k]]
    /\ DOMAIN relays \subseteq RelayAddrs /\ DOMAIN asked \subseteq RelayAddrs
    /\ \A k \in DOMAIN relays : relays[k] \in RelaySet
    /\ \A k \in DOMAIN asked : asked[k] \in RelayRoutes
    /\ GoodSockets(sockets)

\* A relay is on an address the device has, with a socket while it is up.
Placed ==
    /\ \A k \in DOMAIN relays :
           k \in onDevice /\ (IF raised THEN relays[k].socket # Closed ELSE relays[k].socket = Closed)
    /\ raised => onDevice \subseteq stacked

\* No two relays have one socket ...
OwnSockets ==
    \A k, l \in DOMAIN relays :
        k # l /\ relays[k].socket # Closed => relays[k].socket # relays[l].socket
\* ... and the sockets that listen are theirs.
Heard ==
    \A i \in SocketNumbers :
        sockets[i].state = "open" <=> \E k \in DOMAIN relays : relays[k].socket = i

RelayInv ==
    RelayTypes /\ Placed /\ OwnSockets /\ Heard /\ CarriedByRoute /\ RoutesAsAsked /\ ZoneIsHeld

-----------------------------------------------------------------------------
LEMMA SocketNumbering == Closed \notin SocketNumbers /\ 0..MaxSockets = {Closed} \cup SocketNumbers
  BY RelayAssumption DEF SocketNumbers, Closed

\* closer.Close.
LEMMA ShutIs ==
    ASSUME NEW s, GoodSockets(s), NEW C
    PROVE  /\ GoodSockets(Shut(s, C))
           /\ \A i \in SocketNumbers :
                  Shut(s, C)[i].state = IF i \in C THEN "closed" ELSE s[i].state
  <1>0. s \in [SocketNumbers -> SocketSet] /\ DOMAIN s = SocketNumbers
    BY DEF GoodSockets
  <1>1. ASSUME NEW i \in SocketNumbers
        PROVE  /\ Shut(s, C)[i] \in SocketSet /\ Shut(s, C)[i].flows = s[i].flows
               /\ Shut(s, C)[i].state = IF i \in C THEN "closed" ELSE s[i].state
    <2>1. s[i] \in SocketSet
      BY <1>0
    <2>2. Shut(s, C)[i] = IF i \in C THEN [s[i] EXCEPT !.state = "closed"] ELSE s[i]
      BY <1>0 DEF Shut
    <2> QED
      BY <2>1, <2>2 DEF SocketSet
  <1>2. Shut(s, C) \in [SocketNumbers -> SocketSet]
    <2>1. Shut(s, C) = [i \in SocketNumbers |-> Shut(s, C)[i]]
      BY <1>0 DEF Shut
    <2> QED
      BY <1>1, <2>1
  <1>3. \A i \in SocketNumbers : \A f, g \in Shut(s, C)[i].flows :
           /\ f.client = g.client /\ f.named = g.named => f = g
           /\ f.named = f.dialled
    BY <1>1 DEF GoodSockets
  <1> QED
    BY <1>1, <1>2, <1>3 DEF GoodSockets

\* startRelay, for the keys of n, each with a socket of its own.
LEMMA OpenedIs ==
    ASSUME NEW s, GoodSockets(s), NEW ks \in SUBSET RelayAddrs, NEW n \in [ks -> SocketNumbers]
    PROVE  /\ GoodSockets(Opened(s, n))
           /\ \A i \in SocketNumbers :
                  Opened(s, n)[i].state = IF \E k \in ks : n[k] = i THEN "open" ELSE s[i].state
  <1>0. s \in [SocketNumbers -> SocketSet] /\ DOMAIN s = SocketNumbers /\ DOMAIN n = ks
    BY DEF GoodSockets
  <1>1. ASSUME NEW i \in SocketNumbers
        PROVE  /\ Opened(s, n)[i] \in SocketSet
               /\ Opened(s, n)[i].flows = IF \E k \in ks : n[k] = i THEN {} ELSE s[i].flows
               /\ Opened(s, n)[i].state = IF \E k \in ks : n[k] = i THEN "open" ELSE s[i].state
    <2>1. s[i] \in SocketSet
      BY <1>0
    <2>2. CASE \E k \in ks : n[k] = i
      <3> DEFINE key == CHOOSE k \in DOMAIN n : n[k] = i
      <3>1. Opened(s, n)[i] = [state |-> "open", key |-> key, flows |-> {}]
        BY <1>0, <2>2 DEF Opened
      <3>2. key \in RelayAddrs
        BY <1>0, <2>2
      <3> HIDE DEF key
      <3> QED
        BY <2>2, <3>1, <3>2 DEF SocketSet
    <2>3. CASE ~\E k \in ks : n[k] = i
      BY <1>0, <2>1, <2>3 DEF Opened
    <2> QED
      BY <2>2, <2>3
  <1>2. Opened(s, n) \in [SocketNumbers -> SocketSet]
    <2>1. Opened(s, n) = [i \in SocketNumbers |-> Opened(s, n)[i]]
      BY <1>0 DEF Opened
    <2> QED
      BY <1>1, <2>1
  <1>3. \A i \in SocketNumbers : \A f, g \in Opened(s, n)[i].flows :
           /\ f.client = g.client /\ f.named = g.named => f = g
           /\ f.named = f.dialled
    BY <1>1 DEF GoodSockets
  <1> QED
    BY <1>1, <1>2, <1>3 DEF GoodSockets

LEMMA NumberedIs ==
    ASSUME NEW ks, NEW n \in Numbered(ks)
    PROVE  /\ n \in [ks -> SocketNumbers]
           /\ \A k \in ks : sockets[n[k]].state = "none"
           /\ \A k, l \in ks : k # l => n[k] # n[l]
  <1>1. FirstUnused(Cardinality(ks)) \subseteq Unused
    BY DEF FirstUnused
  <1>2. \A i \in Unused : i \in SocketNumbers /\ sockets[i].state = "none"
    BY DEF Unused, SocketNumbers
  <1> QED
    BY <1>1, <1>2 DEF Numbered

LEMMA RelayStarts == RelayInit => RelayInv
  <1> SUFFICES ASSUME RelayInit PROVE RelayInv
    OBVIOUS
  <1>0. /\ raised = FALSE /\ onDevice = {} /\ stacked = {} /\ zone = {} /\ halfDone = {}
        /\ DOMAIN relays = {} /\ DOMAIN asked = {}
        /\ relays = [k \in DOMAIN relays |-> relays[k]] /\ asked = [k \in DOMAIN asked |-> asked[k]]
        /\ sockets = [i \in SocketNumbers |-> NoSocket] /\ carried = [want |-> "", went |-> ""]
    BY DEF RelayInit, SocketNumbers
  <1>1. NoSocket \in SocketSet /\ NoSocket.flows = {} /\ NoSocket.state = "none"
    BY DEF NoSocket, SocketSet, RelayAddrs
  <1>2. GoodSockets(sockets) /\ \A i \in SocketNumbers : sockets[i].state = "none"
    BY <1>0, <1>1 DEF GoodSockets
  <1>3. RelayTypes
    BY <1>0, <1>2 DEF RelayTypes
  <1> QED
    BY <1>0, <1>2, <1>3 DEF RelayInv, Placed, OwnSockets, Heard, CarriedByRoute, RoutesAsAsked, ZoneIsHeld

-----------------------------------------------------------------------------
\* What RelayInv says, in the form the steps use it.
LEMMA RelayFacts ==
    ASSUME RelayInv
    PROVE  /\ raised \in BOOLEAN /\ halfDone \subseteq {"zone", "routes"}
           /\ onDevice \subseteq RelayAddrs /\ stacked \subseteq RelayAddrs /\ zone \subseteq RelayAddrs
           /\ relays = [k \in DOMAIN relays |-> relays[k]]
           /\ asked = [k \in DOMAIN asked |-> asked[k]]
           /\ DOMAIN relays \subseteq onDevice /\ DOMAIN asked \subseteq RelayAddrs
           /\ \A k \in DOMAIN relays : relays[k] \in RelaySet /\ k \in RelayAddrs
           /\ \A k \in DOMAIN relays : relays[k].route \in RelayRoutes
           /\ \A k \in DOMAIN relays : relays[k].socket \in {Closed} \cup SocketNumbers
           /\ \A k \in DOMAIN asked : asked[k] \in RelayRoutes
           /\ GoodSockets(sockets) /\ sockets \in [SocketNumbers -> SocketSet]
           /\ \A k \in DOMAIN relays : raised <=> relays[k].socket # Closed
           /\ raised => onDevice \subseteq stacked
           /\ OwnSockets /\ Heard /\ CarriedByRoute /\ RoutesAsAsked /\ ZoneIsHeld
  <1>1. RelayTypes /\ Placed /\ OwnSockets /\ Heard /\ CarriedByRoute /\ RoutesAsAsked /\ ZoneIsHeld
    BY DEF RelayInv
  <1>2. /\ raised \in BOOLEAN /\ halfDone \subseteq {"zone", "routes"}
        /\ onDevice \subseteq RelayAddrs /\ stacked \subseteq RelayAddrs /\ zone \subseteq RelayAddrs
        /\ relays = [k \in DOMAIN relays |-> relays[k]]
        /\ asked = [k \in DOMAIN asked |-> asked[k]]
        /\ DOMAIN relays \subseteq RelayAddrs /\ DOMAIN asked \subseteq RelayAddrs
        /\ \A k \in DOMAIN relays : relays[k] \in RelaySet
        /\ \A k \in DOMAIN asked : asked[k] \in RelayRoutes
        /\ GoodSockets(sockets)
    BY <1>1, Zenon DEF RelayTypes
  <1>3. \A k \in DOMAIN relays :
           k \in onDevice /\ (raised <=> relays[k].socket # Closed)
    BY <1>1 DEF Placed
  <1>4. raised => onDevice \subseteq stacked
    BY <1>1 DEF Placed
  <1>5. \A r \in RelaySet : r.route \in RelayRoutes /\ r.socket \in {Closed} \cup SocketNumbers
    BY SocketNumbering DEF RelaySet
  <1>6. sockets \in [SocketNumbers -> SocketSet]
    BY <1>2 DEF GoodSockets
  <1> QED
    BY <1>1, <1>2, <1>3, <1>4, <1>5, <1>6

\* The sockets of some relays.
LEMMA SocketsOfThem ==
    ASSUME NEW ks, NEW i \in SocketNumbers
    PROVE  i \in SocketsOf(ks) <=> \E k \in ks : relays[k].socket = i
  BY SocketNumbering DEF SocketsOf

\* removeAddressLocked: the relays of the addresses G are dropped, and their
\* sockets, no others, are closed.
LEMMA AddrsDropped ==
    ASSUME RelayInv, NEW G,
           relays' = WithoutAddrs(G), sockets' = Shut(sockets, SocketsOf(G \cap DOMAIN relays))
    PROVE  /\ DOMAIN relays' = DOMAIN relays \ G
           /\ relays' = [k \in DOMAIN relays' |-> relays'[k]]
           /\ \A k \in DOMAIN relays' : relays'[k] = relays[k]
           /\ GoodSockets(sockets)' /\ OwnSockets' /\ Heard'
  <1>1. /\ DOMAIN relays' = DOMAIN relays \ G
        /\ relays' = [k \in DOMAIN relays' |-> relays'[k]]
        /\ \A k \in DOMAIN relays' : relays'[k] = relays[k]
    BY DEF WithoutAddrs, Keep
  <1>2. GoodSockets(sockets) /\ OwnSockets /\ Heard
    BY RelayFacts
  <1>3. GoodSockets(sockets')
    BY <1>2, ShutIs
  <1>4. \A i \in SocketNumbers :
            sockets'[i].state = IF i \in SocketsOf(G \cap DOMAIN relays) THEN "closed" ELSE sockets[i].state
    BY <1>2, ShutIs
  <1>5. OwnSockets'
    BY <1>1, <1>2 DEF OwnSockets
  <1>6. ASSUME NEW i \in SocketNumbers
        PROVE  sockets'[i].state = "open" <=> \E k \in DOMAIN relays' : relays'[k].socket = i
    <2>1. i # Closed
      BY SocketNumbering
    <2>2. i \in SocketsOf(G \cap DOMAIN relays) <=> \E k \in G \cap DOMAIN relays : relays[k].socket = i
      BY SocketsOfThem
    <2>3. sockets[i].state = "open" <=> \E k \in DOMAIN relays : relays[k].socket = i
      BY <1>2 DEF Heard
    <2>4. sockets'[i].state = IF i \in SocketsOf(G \cap DOMAIN relays) THEN "closed" ELSE sockets[i].state
      BY <1>4
    <2>5. \A k, l \in DOMAIN relays : relays[k].socket = i /\ relays[l].socket = i => k = l
      BY <1>2, <2>1 DEF OwnSockets
    <2> QED
      BY <1>1, <2>2, <2>3, <2>4, <2>5
  <1> QED
    BY <1>1, <1>3, <1>5, <1>6 DEF Heard, GoodSockets

\* The parts of RelayInv about a table that only lost relays.
LEMMA AddrsDroppedInv ==
    ASSUME RelayInv, NEW G, DOMAIN relays' = DOMAIN relays \ G,
           relays' = [k \in DOMAIN relays' |-> relays'[k]],
           \A k \in DOMAIN relays' : relays'[k] = relays[k],
           GoodSockets(sockets)', OwnSockets', Heard',
           raised' = raised, carried' = carried,
           halfDone' \subseteq {"zone", "routes"}, "routes" \notin halfDone' => "routes" \notin halfDone,
           onDevice' \subseteq RelayAddrs, stacked' \subseteq RelayAddrs, zone' \subseteq RelayAddrs,
           DOMAIN relays' \subseteq onDevice', raised => onDevice' \subseteq stacked',
           NEW A, asked' = StillAsked(A),
           "routes" \notin halfDone => DOMAIN relays' = DOMAIN relays \cap A,
           "zone" \notin halfDone' => zone' = onDevice'
    PROVE  RelayInv'
  <1>1. /\ DOMAIN asked' = DOMAIN asked \cap A
        /\ asked' = [k \in DOMAIN asked' |-> asked'[k]]
        /\ \A k \in DOMAIN asked' : asked'[k] = asked[k]
    BY DEF StillAsked
  <1>2. /\ \A k \in DOMAIN relays : relays[k] \in RelaySet
        /\ \A k \in DOMAIN asked : asked[k] \in RelayRoutes
        /\ DOMAIN asked \subseteq RelayAddrs /\ raised \in BOOLEAN
        /\ \A k \in DOMAIN relays : raised <=> relays[k].socket # Closed
        /\ CarriedByRoute /\ RoutesAsAsked
    BY RelayFacts
  <1>3. RelayTypes'
    <2>1. /\ \A k \in DOMAIN relays' : relays'[k] \in RelaySet
          /\ \A k \in DOMAIN asked' : asked'[k] \in RelayRoutes
          /\ DOMAIN asked' \subseteq RelayAddrs /\ DOMAIN relays' \subseteq RelayAddrs
          /\ raised' \in BOOLEAN
      BY <1>1, <1>2
    <2> QED
      BY <1>1, <2>1 DEF RelayTypes, RelaySet, RelayRoutes, GoodSockets, RelayAddrs
  <1>4. Placed'
    BY <1>2 DEF Placed
  <1>5. RoutesAsAsked'
    BY <1>1, <1>2 DEF RoutesAsAsked
  <1>6. CarriedByRoute' /\ ZoneIsHeld'
    BY <1>2 DEF CarriedByRoute, ZoneIsHeld
  <1> QED
    BY <1>3, <1>4, <1>5, <1>6 DEF RelayInv

LEMMA SetAddressesKeeps == RelayInv /\ SetAddresses => RelayInv'
  <1> SUFFICES ASSUME RelayInv, SetAddresses PROVE RelayInv'
    OBVIOUS
  <1>0. PICK next \in SUBSET RelayAddrs :
            /\ relays' = WithoutAddrs(onDevice \ (next \cup {Own}))
            /\ sockets' = Shut(sockets, SocketsOf((onDevice \ (next \cup {Own})) \cap DOMAIN relays))
            /\ onDevice' = next \cup (onDevice \cap {Own})
            /\ stacked' = IF raised THEN (stacked \ (onDevice \ (next \cup {Own}))) \cup next ELSE stacked
    BY DEF SetAddresses
  <1> DEFINE gone == onDevice \ (next \cup {Own})
  <1>1. /\ raised' = raised /\ carried' = carried /\ asked' = StillAsked(onDevice')
        /\ zone' = onDevice' /\ halfDone' = halfDone \ {"zone"}
    BY DEF SetAddresses, SyncZone
  <1>2. /\ DOMAIN relays' = DOMAIN relays \ gone
        /\ relays' = [k \in DOMAIN relays' |-> relays'[k]]
        /\ \A k \in DOMAIN relays' : relays'[k] = relays[k]
        /\ GoodSockets(sockets)' /\ OwnSockets' /\ Heard'
    BY <1>0, AddrsDropped
  <1>3. /\ raised \in BOOLEAN /\ halfDone \subseteq {"zone", "routes"} /\ DOMAIN relays \subseteq onDevice
        /\ onDevice \subseteq RelayAddrs /\ stacked \subseteq RelayAddrs
        /\ raised => onDevice \subseteq stacked
    BY RelayFacts
  <1>5. onDevice' \subseteq RelayAddrs /\ stacked' \subseteq RelayAddrs
    BY <1>0, <1>3
  <1>6. raised => onDevice' \subseteq stacked'
    BY <1>0, <1>3
  <1>7. DOMAIN relays' \subseteq onDevice' /\ DOMAIN relays' = DOMAIN relays \cap onDevice'
    BY <1>0, <1>2, <1>3
  <1> HIDE DEF gone
  <1> QED
    BY <1>1, <1>2, <1>3, <1>5, <1>6, <1>7, AddrsDroppedInv

LEMMA RemoveAddressKeeps == RelayInv /\ RemoveAddress => RelayInv'
  <1> SUFFICES ASSUME RelayInv, RemoveAddress PROVE RelayInv'
    OBVIOUS
  <1>0. PICK ip \in EnvAddrs :
            /\ relays' = WithoutAddrs({ip})
            /\ sockets' = Shut(sockets, SocketsOf({ip} \cap DOMAIN relays))
            /\ onDevice' = onDevice \ {ip}
            /\ stacked' = IF raised THEN stacked \ {ip} ELSE stacked
    BY DEF RemoveAddress
  <1>1. /\ raised' = raised /\ carried' = carried /\ asked' = StillAsked(onDevice')
        /\ zone' = onDevice' /\ halfDone' = halfDone \ {"zone"}
    BY DEF RemoveAddress, SyncZone
  <1>2. /\ DOMAIN relays' = DOMAIN relays \ {ip}
        /\ relays' = [k \in DOMAIN relays' |-> relays'[k]]
        /\ \A k \in DOMAIN relays' : relays'[k] = relays[k]
        /\ GoodSockets(sockets)' /\ OwnSockets' /\ Heard'
    BY <1>0, AddrsDropped
  <1>3. /\ raised \in BOOLEAN /\ halfDone \subseteq {"zone", "routes"} /\ DOMAIN relays \subseteq onDevice
        /\ onDevice \subseteq RelayAddrs /\ stacked \subseteq RelayAddrs
        /\ raised => onDevice \subseteq stacked
    BY RelayFacts
  <1>4. onDevice' \subseteq RelayAddrs /\ stacked' \subseteq RelayAddrs
    BY <1>0, <1>3
  <1>5. raised => onDevice' \subseteq stacked'
    BY <1>0, <1>3
  <1>6. DOMAIN relays' \subseteq onDevice' /\ DOMAIN relays' = DOMAIN relays \cap onDevice'
    BY <1>0, <1>2, <1>3
  <1> QED
    BY <1>1, <1>2, <1>3, <1>4, <1>5, <1>6, AddrsDroppedInv

LEMMA SetAddressesFailsKeeps == RelayInv /\ SetAddressesFails => RelayInv'
  <1> SUFFICES ASSUME RelayInv, SetAddressesFails PROVE RelayInv'
    OBVIOUS
  <1>0. PICK next \in SUBSET RelayAddrs :
            LET gone == onDevice \ (next \cup {Own}) IN
            \/ \E ip \in gone, done \in SUBSET gone :
                   /\ ip \notin done
                   /\ relays' = WithoutAddrs(done \cup {ip})
                   /\ sockets' = Shut(sockets, SocketsOf((done \cup {ip}) \cap DOMAIN relays))
                   /\ onDevice' = onDevice \ done /\ stacked' = stacked \ done
            \/ \E ip \in next \ (onDevice \cup {Own}), done \in SUBSET (next \ onDevice) :
                   /\ ip \notin done
                   /\ relays' = WithoutAddrs(gone)
                   /\ sockets' = Shut(sockets, SocketsOf(gone \cap DOMAIN relays))
                   /\ onDevice' = (onDevice \ gone) \cup done /\ stacked' = (stacked \ gone) \cup done
    BY DEF SetAddressesFails
  <1>1. /\ raised' = raised /\ carried' = carried /\ asked' = StillAsked(DOMAIN relays')
        /\ zone' = zone /\ halfDone' = halfDone \cup {"zone"}
    BY DEF SetAddressesFails
  <1>2. /\ halfDone \subseteq {"zone", "routes"} /\ DOMAIN relays \subseteq onDevice
        /\ onDevice \subseteq RelayAddrs /\ stacked \subseteq RelayAddrs /\ zone \subseteq RelayAddrs
        /\ raised => onDevice \subseteq stacked
    BY RelayFacts
  <1> DEFINE gone == onDevice \ (next \cup {Own})
  <1>3. \E G : /\ relays' = WithoutAddrs(G)
               /\ sockets' = Shut(sockets, SocketsOf(G \cap DOMAIN relays))
               /\ onDevice' \subseteq RelayAddrs /\ stacked' \subseteq RelayAddrs
               /\ (raised => onDevice' \subseteq stacked') /\ onDevice \ G \subseteq onDevice'
    <2>1. CASE \E ip \in gone, done \in SUBSET gone :
                  /\ relays' = WithoutAddrs(done \cup {ip})
                  /\ sockets' = Shut(sockets, SocketsOf((done \cup {ip}) \cap DOMAIN relays))
                  /\ onDevice' = onDevice \ done /\ stacked' = stacked \ done
      <3>1. PICK ip \in gone, done \in SUBSET gone :
                  /\ relays' = WithoutAddrs(done \cup {ip})
                  /\ sockets' = Shut(sockets, SocketsOf((done \cup {ip}) \cap DOMAIN relays))
                  /\ onDevice' = onDevice \ done /\ stacked' = stacked \ done
        BY <2>1
      <3>2. /\ onDevice' \subseteq RelayAddrs /\ stacked' \subseteq RelayAddrs
            /\ (raised => onDevice' \subseteq stacked') /\ onDevice \ (done \cup {ip}) \subseteq onDevice'
        BY <1>2, <3>1
      <3> QED
        BY <3>1, <3>2
    <2>2. CASE \E ip \in next \ (onDevice \cup {Own}), done \in SUBSET (next \ onDevice) :
                  /\ relays' = WithoutAddrs(gone)
                  /\ sockets' = Shut(sockets, SocketsOf(gone \cap DOMAIN relays))
                  /\ onDevice' = (onDevice \ gone) \cup done /\ stacked' = (stacked \ gone) \cup done
      <3>1. PICK done \in SUBSET (next \ onDevice) :
                  /\ relays' = WithoutAddrs(gone)
                  /\ sockets' = Shut(sockets, SocketsOf(gone \cap DOMAIN relays))
                  /\ onDevice' = (onDevice \ gone) \cup done /\ stacked' = (stacked \ gone) \cup done
        BY <2>2
      <3>2. /\ onDevice' \subseteq RelayAddrs /\ stacked' \subseteq RelayAddrs
            /\ (raised => onDevice' \subseteq stacked') /\ onDevice \ gone \subseteq onDevice'
        BY <1>2, <3>1
      <3> QED
        BY <3>1, <3>2
    <2> QED
      BY <1>0, <2>1, <2>2
  <1> HIDE DEF gone
  <1>4. PICK G : /\ relays' = WithoutAddrs(G)
                 /\ sockets' = Shut(sockets, SocketsOf(G \cap DOMAIN relays))
                 /\ onDevice' \subseteq RelayAddrs /\ stacked' \subseteq RelayAddrs
                 /\ (raised => onDevice' \subseteq stacked') /\ onDevice \ G \subseteq onDevice'
    BY <1>3
  <1>5. /\ DOMAIN relays' = DOMAIN relays \ G
        /\ relays' = [k \in DOMAIN relays' |-> relays'[k]]
        /\ \A k \in DOMAIN relays' : relays'[k] = relays[k]
        /\ GoodSockets(sockets)' /\ OwnSockets' /\ Heard'
    BY <1>4, AddrsDropped
  <1>6. /\ DOMAIN relays' \subseteq onDevice' /\ DOMAIN relays' = DOMAIN relays \cap DOMAIN relays'
        /\ halfDone' \subseteq {"zone", "routes"} /\ zone' \subseteq RelayAddrs
        /\ "zone" \in halfDone' /\ ("routes" \notin halfDone' => "routes" \notin halfDone)
    BY <1>1, <1>2, <1>4, <1>5
  <1> QED
    BY <1>1, <1>4, <1>5, <1>6, AddrsDroppedInv

-----------------------------------------------------------------------------
\* A device that is down has no listener.
LEMMA DownIsSilent ==
    ASSUME RelayInv, ~raised
    PROVE  \A i \in SocketNumbers : sockets[i].state # "open"
  <1>1. \A k \in DOMAIN relays : relays[k].socket = Closed
    BY RelayFacts
  <1>2. Heard
    BY RelayFacts
  <1> QED
    BY <1>1, <1>2, SocketNumbering DEF Heard

LEMMA RelayUpKeeps == RelayInv /\ RelayUp => RelayInv'
  <1> SUFFICES ASSUME RelayInv, RelayUp PROVE RelayInv'
    OBVIOUS
  <1>0. PICK n \in Numbered(DOMAIN relays) :
            /\ sockets' = Opened(sockets, n)
            /\ relays' = [k \in DOMAIN relays |-> [relays[k] EXCEPT !.socket = n[k]]]
    BY DEF RelayUp
  <1>1. /\ ~raised /\ raised' = TRUE /\ stacked' = onDevice \cup {Own}
        /\ onDevice' = onDevice /\ carried' = carried /\ asked' = asked
        /\ zone' = onDevice' /\ halfDone' = halfDone \ {"zone"}
    BY DEF RelayUp, SyncZone
  <1>2. /\ n \in [DOMAIN relays -> SocketNumbers]
        /\ \A k, l \in DOMAIN relays : k # l => n[k] # n[l]
    BY NumberedIs
  <1>3. /\ halfDone \subseteq {"zone", "routes"} /\ onDevice \subseteq RelayAddrs
        /\ asked = [k \in DOMAIN asked |-> asked[k]]
        /\ DOMAIN relays \subseteq onDevice /\ DOMAIN asked \subseteq RelayAddrs
        /\ \A k \in DOMAIN relays : relays[k] \in RelaySet
        /\ \A k \in DOMAIN asked : asked[k] \in RelayRoutes
        /\ GoodSockets(sockets) /\ CarriedByRoute /\ RoutesAsAsked
    BY RelayFacts
  <1>4. DOMAIN relays' = DOMAIN relays /\ relays' = [k \in DOMAIN relays' |-> relays'[k]]
    BY <1>0
  <1>5. ASSUME NEW k \in DOMAIN relays
        PROVE  relays'[k] \in RelaySet /\ relays'[k].route = relays[k].route /\ relays'[k].socket = n[k]
    <2>1. relays'[k] = [relays[k] EXCEPT !.socket = n[k]] /\ relays[k] \in RelaySet
      BY <1>0, <1>3
    <2>2. n[k] \in 0..MaxSockets
      BY <1>2, SocketNumbering
    <2> QED
      BY <2>1, <2>2 DEF RelaySet
  <1>7. /\ GoodSockets(sockets')
        /\ \A i \in SocketNumbers :
               sockets'[i].state = IF \E k \in DOMAIN relays : n[k] = i THEN "open" ELSE sockets[i].state
    <2> DEFINE ks == DOMAIN relays
    <2>1. ks \in SUBSET RelayAddrs /\ n \in [ks -> SocketNumbers]
      BY <1>2, <1>3
    <2> HIDE DEF ks
    <2>2. /\ GoodSockets(Opened(sockets, n))
          /\ \A i \in SocketNumbers :
                 Opened(sockets, n)[i].state = IF \E k \in ks : n[k] = i THEN "open" ELSE sockets[i].state
      BY <1>3, <2>1, OpenedIs
    <2> QED
      BY <1>0, <2>2, Zenon DEF ks
  <1>8. RelayTypes'
    <2>1. /\ onDevice' \subseteq RelayAddrs /\ stacked' \subseteq RelayAddrs /\ zone' \subseteq RelayAddrs
          /\ halfDone' \subseteq {"zone", "routes"} /\ DOMAIN relays' \subseteq RelayAddrs
      BY <1>1, <1>3, <1>4 DEF RelayAddrs
    <2>2. GoodSockets(sockets)'
      BY <1>7 DEF GoodSockets
    <2> QED
      BY <1>1, <1>3, <1>4, <1>5, <2>1, <2>2 DEF RelayTypes
  <1>9. Placed'
    BY <1>1, <1>2, <1>3, <1>4, <1>5, SocketNumbering DEF Placed
  <1>10. OwnSockets'
    BY <1>2, <1>4, <1>5 DEF OwnSockets
  <1>11. Heard'
    BY <1>1, <1>4, <1>5, <1>7, DownIsSilent DEF Heard
  <1>12. RoutesAsAsked' /\ CarriedByRoute' /\ ZoneIsHeld'
    BY <1>1, <1>3, <1>4, <1>5 DEF RoutesAsAsked, CarriedByRoute, ZoneIsHeld
  <1> QED
    BY <1>8, <1>9, <1>10, <1>11, <1>12 DEF RelayInv

LEMMA RelayUpFailsKeeps == RelayInv /\ RelayUpFails => RelayInv'
  <1> SUFFICES ASSUME RelayInv, RelayUpFails PROVE RelayInv'
    OBVIOUS
  <1>a. PICK ks \in SUBSET DOMAIN relays :
            \E n \in Numbered(ks) : sockets' = Shut(Opened(sockets, n), {n[k] : k \in ks})
    BY DEF RelayUpFails
  <1>0. PICK n \in Numbered(ks) : sockets' = Shut(Opened(sockets, n), {n[k] : k \in ks})
    BY <1>a
  <1>1. /\ ~raised /\ raised' = raised /\ stacked' = stacked /\ relays' = relays
        /\ onDevice' = onDevice /\ carried' = carried /\ asked' = asked
        /\ zone' = onDevice' /\ halfDone' = halfDone \ {"zone"}
    BY DEF RelayUpFails, SyncZone
  <1>2. n \in [ks -> SocketNumbers]
    BY NumberedIs
  <1>3. RelayTypes /\ Placed /\ OwnSockets /\ Heard /\ CarriedByRoute /\ RoutesAsAsked
    BY DEF RelayInv
  <1>4. GoodSockets(sockets) /\ ks \in SUBSET RelayAddrs
    BY RelayFacts
  <1> DEFINE up == Opened(sockets, n)
             shut == {n[k] : k \in ks}
  <1>5. /\ GoodSockets(up)
        /\ \A i \in SocketNumbers :
               up[i].state = IF \E k \in ks : n[k] = i THEN "open" ELSE sockets[i].state
    BY <1>2, <1>4, OpenedIs
  <1>6. \A i \in SocketNumbers : i \in shut <=> \E k \in ks : n[k] = i
    OBVIOUS
  <1> HIDE DEF up, shut
  <1>7. sockets' = Shut(up, shut)
    BY <1>0 DEF up, shut
  <1>8. /\ GoodSockets(sockets')
        /\ \A i \in SocketNumbers : sockets'[i].state = IF i \in shut THEN "closed" ELSE up[i].state
    BY <1>5, <1>7, ShutIs
  <1>9. \A i \in SocketNumbers : sockets'[i].state # "open" /\ sockets[i].state # "open"
    BY <1>1, <1>5, <1>6, <1>8, DownIsSilent
  <1>10. RelayTypes'
    <2>1. GoodSockets(sockets)'
      BY <1>8 DEF GoodSockets
    <2> QED
      BY <1>1, <1>3, <2>1 DEF RelayTypes
  <1>11. Heard'
    BY <1>1, <1>3, <1>9 DEF Heard
  <1>12. Placed' /\ OwnSockets' /\ CarriedByRoute' /\ RoutesAsAsked' /\ ZoneIsHeld'
    BY <1>1, <1>3 DEF Placed, OwnSockets, CarriedByRoute, RoutesAsAsked, ZoneIsHeld
  <1> QED
    BY <1>10, <1>11, <1>12 DEF RelayInv

LEMMA RelayDownKeeps == RelayInv /\ RelayDown => RelayInv'
  <1> SUFFICES ASSUME RelayInv, RelayDown PROVE RelayInv'
    OBVIOUS
  <1>1. /\ raised' = FALSE /\ stacked' = {} /\ relays' = AllShut
        /\ sockets' = Shut(sockets, SocketsOf(DOMAIN relays))
        /\ onDevice' = onDevice /\ carried' = carried /\ asked' = asked
        /\ zone' = zone /\ halfDone' = halfDone
    BY DEF RelayDown
  <1>2. RelayTypes /\ Placed /\ Heard /\ CarriedByRoute /\ RoutesAsAsked /\ ZoneIsHeld
    BY DEF RelayInv
  <1>3. GoodSockets(sockets) /\ \A k \in DOMAIN relays : relays[k] \in RelaySet
    BY RelayFacts
  <1>4. DOMAIN relays' = DOMAIN relays /\ relays' = [k \in DOMAIN relays' |-> relays'[k]]
    BY <1>1 DEF AllShut
  <1>5. ASSUME NEW k \in DOMAIN relays
        PROVE  relays'[k] \in RelaySet /\ relays'[k].route = relays[k].route /\ relays'[k].socket = Closed
    <2>1. relays'[k] = [relays[k] EXCEPT !.socket = Closed] /\ relays[k] \in RelaySet
      BY <1>1, <1>3 DEF AllShut
    <2>2. Closed \in 0..MaxSockets
      BY SocketNumbering
    <2> QED
      BY <2>1, <2>2 DEF RelaySet
  <1>6. /\ GoodSockets(sockets')
        /\ \A i \in SocketNumbers :
               sockets'[i].state = IF i \in SocketsOf(DOMAIN relays) THEN "closed" ELSE sockets[i].state
    BY <1>1, <1>3, ShutIs
  <1>7. \A i \in SocketNumbers : sockets'[i].state # "open"
    BY <1>2, <1>6, SocketsOfThem DEF Heard
  <1>8. RelayTypes'
    <2>1. GoodSockets(sockets)'
      BY <1>6 DEF GoodSockets
    <2> QED
      BY <1>1, <1>2, <1>4, <1>5, <2>1 DEF RelayTypes
  <1>9. Placed'
    BY <1>1, <1>2, <1>4, <1>5 DEF Placed
  <1>10. OwnSockets'
    BY <1>4, <1>5 DEF OwnSockets
  <1>11. Heard'
    BY <1>4, <1>5, <1>7, SocketNumbering DEF Heard
  <1>12. RoutesAsAsked' /\ CarriedByRoute' /\ ZoneIsHeld'
    BY <1>1, <1>2, <1>4, <1>5 DEF RoutesAsAsked, CarriedByRoute, ZoneIsHeld
  <1> QED
    BY <1>8, <1>9, <1>10, <1>11, <1>12 DEF RelayInv

LEMMA AddAddressKeeps == RelayInv /\ AddAddress => RelayInv'
  <1> SUFFICES ASSUME RelayInv, AddAddress PROVE RelayInv'
    OBVIOUS
  <1>0. PICK ip \in RelayAddrs \ onDevice :
            /\ onDevice' = onDevice \cup {ip}
            /\ stacked' = IF raised THEN stacked \cup {ip} ELSE stacked
    BY DEF AddAddress
  <1>1. /\ raised' = raised /\ relays' = relays /\ sockets' = sockets /\ carried' = carried
        /\ asked' = asked /\ zone' = onDevice' /\ halfDone' = halfDone \ {"zone"}
    BY DEF AddAddress, SyncZone
  <1>2. RelayTypes /\ Placed /\ OwnSockets /\ Heard /\ CarriedByRoute /\ RoutesAsAsked
    BY DEF RelayInv
  <1>3. RelayTypes'
    <2>1. GoodSockets(sockets)'
      BY <1>1, <1>2 DEF RelayTypes, GoodSockets
    <2> QED
      BY <1>0, <1>1, <1>2, <2>1 DEF RelayTypes
  <1>4. Placed'
    BY <1>0, <1>1, <1>2 DEF Placed
  <1>5. OwnSockets' /\ Heard' /\ CarriedByRoute' /\ RoutesAsAsked' /\ ZoneIsHeld'
    BY <1>1, <1>2 DEF OwnSockets, Heard, CarriedByRoute, RoutesAsAsked, ZoneIsHeld
  <1> QED
    BY <1>3, <1>4, <1>5 DEF RelayInv

-----------------------------------------------------------------------------
\* A step of a relay loop: only the flows of one socket change, and its state
\* unless it listened.
LEMMA LoopKeeps ==
    ASSUME RelayInv, GoodSockets(sockets)', CarriedByRoute',
           \A j \in SocketNumbers : sockets'[j].state = "open" <=> sockets[j].state = "open",
           UNCHANGED <<raised, onDevice, stacked, zone, relays, asked, halfDone>>
    PROVE  RelayInv'
  <1>1. RelayTypes /\ Placed /\ OwnSockets /\ Heard /\ RoutesAsAsked /\ ZoneIsHeld
    BY DEF RelayInv
  <1>2. RelayTypes'
    BY <1>1 DEF RelayTypes
  <1>3. Heard'
    BY <1>1 DEF Heard
  <1>4. Placed' /\ OwnSockets' /\ RoutesAsAsked' /\ ZoneIsHeld'
    BY <1>1 DEF Placed, OwnSockets, RoutesAsAsked, ZoneIsHeld
  <1> QED
    BY <1>2, <1>3, <1>4 DEF RelayInv

\* One socket changed: the others have what they had.
LEMMA OneSocket ==
    ASSUME NEW s, GoodSockets(s), NEW t, NEW i \in SocketNumbers, NEW b \in SocketSet,
           t = [s EXCEPT ![i] = b],
           \A f, g \in b.flows : /\ f.client = g.client /\ f.named = g.named => f = g
                                 /\ f.named = f.dialled
    PROVE  GoodSockets(t) /\ \A j \in SocketNumbers : t[j] = IF j = i THEN b ELSE s[j]
  <1>1. s \in [SocketNumbers -> SocketSet]
    BY DEF GoodSockets
  <1>2. t \in [SocketNumbers -> SocketSet] /\ \A j \in SocketNumbers : t[j] = IF j = i THEN b ELSE s[j]
    BY <1>1
  <1> QED
    BY <1>2 DEF GoodSockets

LEMMA DatagramKeeps == RelayInv /\ Datagram => RelayInv'
  <1> SUFFICES ASSUME RelayInv, Datagram PROVE RelayInv'
    OBVIOUS
  <1>0. PICK i \in Listening(sockets), client \in Clients :
            LET k == sockets[i].key
                route == relays[k].route
                found == Found(i, client, route.target)
                new == [client |-> client, named |-> route.target, dialled |-> route.target] IN
            /\ k \in DOMAIN relays /\ relays[k].socket = i
            /\ Allowed(route, client)
            /\ \/ /\ found = {}
                  /\ sockets' = [sockets EXCEPT ![i].flows = @ \cup {new}]
                  /\ carried' = [want |-> route.target, went |-> route.target]
               \/ \E f \in found :
                      /\ carried' = [want |-> route.target, went |-> f.dialled]
                      /\ UNCHANGED sockets
    BY DEF Datagram
  <1>1. UNCHANGED <<raised, onDevice, stacked, zone, relays, asked, halfDone>>
    BY DEF Datagram
  <1>2. /\ GoodSockets(sockets) /\ sockets \in [SocketNumbers -> SocketSet]
        /\ \A k \in DOMAIN relays : relays[k].route \in RelayRoutes
    BY RelayFacts
  <1>3. i \in SocketNumbers /\ sockets[i] \in SocketSet
    BY <1>2 DEF Listening
  <1> DEFINE target == relays[sockets[i].key].route.target
             new == [client |-> client, named |-> target, dialled |-> target]
             earlier == sockets[i].flows
             b == [sockets[i] EXCEPT !.flows = earlier \cup {new}]
  <1>4. target \in Targets
    BY <1>0, <1>2 DEF RelayRoutes
  <1>5. \A f, g \in earlier : /\ f.client = g.client /\ f.named = g.named => f = g
                          /\ f.named = f.dialled
    BY <1>2, <1>3 DEF GoodSockets
  <1>6. CASE /\ Found(i, client, target) = {}
             /\ sockets' = [sockets EXCEPT ![i].flows = @ \cup {new}]
             /\ carried' = [want |-> target, went |-> target]
    <2>0. Found(i, client, target) = {} /\ carried' = [want |-> target, went |-> target]
      BY <1>6
    <2>1. sockets' = [sockets EXCEPT ![i] = b]
      BY <1>6, <1>2, <1>3
    <2>2. \A f \in earlier : ~(f.client = client /\ f.named = target)
      BY <2>0 DEF Found
    <2> HIDE DEF target
    <2>3. new \in Flows /\ new.client = client /\ new.named = target /\ new.dialled = target
      BY <1>4 DEF Flows
    <2> HIDE DEF new
    <2>4. b \in SocketSet /\ b.flows = earlier \cup {new} /\ b.state = sockets[i].state
      BY <1>3, <2>3 DEF SocketSet
    <2> HIDE DEF b, earlier
    <2>5. \A f, g \in b.flows : /\ f.client = g.client /\ f.named = g.named => f = g
                                /\ f.named = f.dialled
      BY <1>5, <2>2, <2>3, <2>4
    <2>6. GoodSockets(sockets') /\ \A j \in SocketNumbers : sockets'[j] = IF j = i THEN b ELSE sockets[j]
      BY <1>2, <1>3, <2>1, <2>4, <2>5, OneSocket
    <2>7. GoodSockets(sockets)'
      BY <2>6 DEF GoodSockets
    <2>8. \A j \in SocketNumbers : sockets'[j].state = "open" <=> sockets[j].state = "open"
      BY <2>4, <2>6
    <2>9. CarriedByRoute'
      BY <2>0 DEF CarriedByRoute
    <2> QED
      BY <1>1, <2>7, <2>8, <2>9, LoopKeeps
  <1>7. CASE \E f \in Found(i, client, target) :
                 carried' = [want |-> target, went |-> f.dialled] /\ UNCHANGED sockets
    <2>1. PICK f \in Found(i, client, target) :
                 carried' = [want |-> target, went |-> f.dialled] /\ UNCHANGED sockets
      BY <1>7
    <2> HIDE DEF target
    <2>2. f \in earlier /\ f.named = target
      BY DEF Found
    <2>3. f.dialled = target
      BY <1>5, <2>2
    <2>4. CarriedByRoute'
      BY <2>1, <2>3 DEF CarriedByRoute
    <2>5. GoodSockets(sockets)'
      BY <1>2, <2>1 DEF GoodSockets
    <2> QED
      BY <1>1, <2>1, <2>4, <2>5, LoopKeeps
  <1> QED
    BY <1>0, <1>6, <1>7

LEMMA FlowEndsKeeps == RelayInv /\ FlowEnds => RelayInv'
  <1> SUFFICES ASSUME RelayInv, FlowEnds PROVE RelayInv'
    OBVIOUS
  <1>0. PICK i \in SocketNumbers :
            \E f \in sockets[i].flows : sockets' = [sockets EXCEPT ![i].flows = @ \ {f}]
    BY DEF FlowEnds, SocketNumbers
  <1>1. PICK f \in sockets[i].flows : sockets' = [sockets EXCEPT ![i].flows = @ \ {f}]
    BY <1>0
  <1>2. UNCHANGED <<raised, onDevice, stacked, zone, relays, asked, halfDone, carried>>
    BY DEF FlowEnds
  <1>3. GoodSockets(sockets) /\ sockets \in [SocketNumbers -> SocketSet] /\ CarriedByRoute
    BY RelayFacts
  <1> DEFINE b == [sockets[i] EXCEPT !.flows = sockets[i].flows \ {f}]
  <1>4. sockets' = [sockets EXCEPT ![i] = b]
    BY <1>1, <1>3
  <1>5. b \in SocketSet /\ b.flows \subseteq sockets[i].flows /\ b.state = sockets[i].state
    BY <1>3 DEF SocketSet
  <1>6. \A g, h \in sockets[i].flows : /\ g.client = h.client /\ g.named = h.named => g = h
                                       /\ g.named = g.dialled
    BY <1>3 DEF GoodSockets
  <1> HIDE DEF b
  <1>a. \A g, h \in b.flows : /\ g.client = h.client /\ g.named = h.named => g = h
                              /\ g.named = g.dialled
    BY <1>5, <1>6
  <1>7. GoodSockets(sockets') /\ \A j \in SocketNumbers : sockets'[j] = IF j = i THEN b ELSE sockets[j]
    BY <1>3, <1>4, <1>5, <1>a, OneSocket
  <1>8. GoodSockets(sockets)'
    BY <1>7 DEF GoodSockets
  <1>9. \A j \in SocketNumbers : sockets'[j].state = "open" <=> sockets[j].state = "open"
    BY <1>5, <1>7
  <1>10. CarriedByRoute'
    BY <1>2, <1>3 DEF CarriedByRoute
  <1> QED
    BY <1>2, <1>8, <1>9, <1>10, LoopKeeps

LEMMA LoopEndsKeeps == RelayInv /\ LoopEnds => RelayInv'
  <1> SUFFICES ASSUME RelayInv, LoopEnds PROVE RelayInv'
    OBVIOUS
  <1>1. PICK i \in SocketNumbers :
            /\ sockets[i].state = "closed"
            /\ sockets' = [sockets EXCEPT ![i].state = "ended", ![i].flows = {}]
    BY DEF LoopEnds, SocketNumbers
  <1>2. UNCHANGED <<raised, onDevice, stacked, zone, relays, asked, halfDone, carried>>
    BY DEF LoopEnds
  <1>3. GoodSockets(sockets) /\ sockets \in [SocketNumbers -> SocketSet] /\ CarriedByRoute
    BY RelayFacts
  <1> DEFINE b == [sockets[i] EXCEPT !.state = "ended", !.flows = {}]
  <1>4. sockets' = [sockets EXCEPT ![i] = b]
    BY <1>1, <1>3
  <1>5. b \in SocketSet /\ b.flows = {} /\ b.state = "ended"
    BY <1>3 DEF SocketSet
  <1> HIDE DEF b
  <1>7. GoodSockets(sockets') /\ \A j \in SocketNumbers : sockets'[j] = IF j = i THEN b ELSE sockets[j]
    BY <1>3, <1>4, <1>5, OneSocket
  <1>8. GoodSockets(sockets)'
    BY <1>7 DEF GoodSockets
  <1>9. \A j \in SocketNumbers : sockets'[j].state = "open" <=> sockets[j].state = "open"
    BY <1>1, <1>5, <1>7
  <1>10. CarriedByRoute'
    BY <1>2, <1>3 DEF CarriedByRoute
  <1> QED
    BY <1>2, <1>8, <1>9, <1>10, LoopKeeps

-----------------------------------------------------------------------------
\* setRoutes: the sockets of the relays that go are closed, those of the new
\* ones, of numbers that nobody has, are opened.
LEMMA SetRoutesKeeps ==
    ASSUME RelayInv, NEW scope \in SUBSET RelayAddrs, SetRoutesOf(scope)
    PROVE  RelayInv'
  <1>a. PICK ks \in SUBSET scope :
            \E next \in [ks -> RelayRoutes] :
            LET gone == Stale(scope, next)
                new == ks \ DOMAIN relays
                kept == [k \in DOMAIN relays \ gone |->
                             IF k \in ks THEN [relays[k] EXCEPT !.route = next[k]] ELSE relays[k]] IN
            /\ OnHeld(next)
            /\ \E got \in SUBSET new : \E n \in Numbered(IF raised THEN got ELSE {}) :
                   /\ relays' = [k \in DOMAIN kept \cup got |->
                          IF k \in got
                          THEN [route |-> next[k], socket |-> IF raised THEN n[k] ELSE Closed]
                          ELSE kept[k]]
                   /\ sockets' = Opened(Shut(sockets, SocketsOf(gone)), n)
                   /\ \/ got = new /\ Works /\ halfDone' = IF scope = RelayKeys
                                                  THEN halfDone \ {"routes"} ELSE halfDone
                      \/ got # new /\ raised /\ Fails /\ halfDone' = halfDone \cup {"routes"}
            /\ asked' = [k \in ks \cup (DOMAIN asked \ scope) |->
                             IF k \in ks THEN next[k] ELSE asked[k]]
    BY DEF SetRoutesOf
  <1>b. PICK next \in [ks -> RelayRoutes] :
            LET gone == Stale(scope, next)
                new == ks \ DOMAIN relays
                kept == [k \in DOMAIN relays \ gone |->
                             IF k \in ks THEN [relays[k] EXCEPT !.route = next[k]] ELSE relays[k]] IN
            /\ OnHeld(next)
            /\ \E got \in SUBSET new : \E n \in Numbered(IF raised THEN got ELSE {}) :
                   /\ relays' = [k \in DOMAIN kept \cup got |->
                          IF k \in got
                          THEN [route |-> next[k], socket |-> IF raised THEN n[k] ELSE Closed]
                          ELSE kept[k]]
                   /\ sockets' = Opened(Shut(sockets, SocketsOf(gone)), n)
                   /\ \/ got = new /\ Works /\ halfDone' = IF scope = RelayKeys
                                                  THEN halfDone \ {"routes"} ELSE halfDone
                      \/ got # new /\ raised /\ Fails /\ halfDone' = halfDone \cup {"routes"}
            /\ asked' = [k \in ks \cup (DOMAIN asked \ scope) |->
                             IF k \in ks THEN next[k] ELSE asked[k]]
    BY <1>a
  <1> DEFINE gone == Stale(scope, next)
             new == ks \ DOMAIN relays
             staying == DOMAIN relays \ gone
             kept == [k \in DOMAIN relays \ gone |->
                         IF k \in ks THEN [relays[k] EXCEPT !.route = next[k]] ELSE relays[k]]
             ends(got) == \/ got = new /\ Works /\ halfDone' = IF scope = RelayKeys
                                                   THEN halfDone \ {"routes"} ELSE halfDone
                          \/ got # new /\ raised /\ Fails /\ halfDone' = halfDone \cup {"routes"}
             table(got, n) == [k \in DOMAIN kept \cup got |->
                                  IF k \in got
                                  THEN [route |-> next[k], socket |-> IF raised THEN n[k] ELSE Closed]
                                  ELSE kept[k]]
  <1>1. gone = (DOMAIN relays \cap scope) \ ks /\ DOMAIN kept = staying /\ ks \subseteq onDevice
    BY <1>b DEF Stale, OnHeld
  <1>c. PICK got \in SUBSET new : \E n \in Numbered(IF raised THEN got ELSE {}) :
            relays' = table(got, n) /\ sockets' = Opened(Shut(sockets, SocketsOf(gone)), n) /\ ends(got)
    BY <1>b, Zenon
  <1>d. PICK n \in Numbered(IF raised THEN got ELSE {}) :
            relays' = table(got, n) /\ sockets' = Opened(Shut(sockets, SocketsOf(gone)), n) /\ ends(got)
    BY <1>c, Zenon
  <1>2. /\ relays' = [k \in staying \cup got |->
               IF k \in got
               THEN [route |-> next[k], socket |-> IF raised THEN n[k] ELSE Closed]
               ELSE kept[k]]
        /\ sockets' = Opened(Shut(sockets, SocketsOf(gone)), n)
        /\ \/ got = new /\ halfDone' = IF scope = RelayKeys
                                       THEN halfDone \ {"routes"} ELSE halfDone
           \/ got # new /\ halfDone' = halfDone \cup {"routes"}
    <2> HIDE DEF kept, staying, gone, new
    <2> QED
      BY <1>1, <1>d, Zenon
  <1>3. asked' = [k \in ks \cup (DOMAIN asked \ scope) |-> IF k \in ks THEN next[k] ELSE asked[k]]
    BY <1>b
  <1>4. UNCHANGED <<raised, onDevice, stacked, zone, carried>>
    BY DEF SetRoutesOf
  <1>5. /\ raised \in BOOLEAN /\ halfDone \subseteq {"zone", "routes"}
        /\ onDevice \subseteq RelayAddrs /\ stacked \subseteq RelayAddrs /\ zone \subseteq RelayAddrs
        /\ DOMAIN relays \subseteq onDevice /\ DOMAIN asked \subseteq RelayAddrs
        /\ \A k \in DOMAIN relays : relays[k] \in RelaySet
        /\ \A k \in DOMAIN asked : asked[k] \in RelayRoutes
        /\ GoodSockets(sockets)
        /\ \A k \in DOMAIN relays : raised <=> relays[k].socket # Closed
        /\ raised => onDevice \subseteq stacked
        /\ CarriedByRoute /\ RoutesAsAsked /\ ZoneIsHeld
    BY RelayFacts
  <1>6. OwnSockets /\ Heard /\ \A k \in DOMAIN relays : relays[k].socket \in {Closed} \cup SocketNumbers
    BY RelayFacts
  <1> DEFINE opened == IF raised THEN got ELSE {}
  <1>7. /\ n \in [opened -> SocketNumbers]
        /\ \A k \in opened : sockets[n[k]].state = "none"
        /\ \A k, l \in opened : k # l => n[k] # n[l]
    BY NumberedIs
  <1>8. \A k \in opened, l \in DOMAIN relays : n[k] # relays[l].socket
    BY <1>6, <1>7 DEF Heard
  \* the table
  <1>9. DOMAIN relays' = staying \cup got /\ relays' = [k \in DOMAIN relays' |-> relays'[k]]
    BY <1>2
  <1>10. ASSUME NEW k \in got
         PROVE  /\ relays'[k] \in RelaySet /\ relays'[k].route = next[k]
                /\ relays'[k].socket = IF raised THEN n[k] ELSE Closed
    <2>1. relays'[k] = [route |-> next[k], socket |-> IF raised THEN n[k] ELSE Closed]
      BY <1>2
    <2>2. next[k] \in RelayRoutes /\ (IF raised THEN n[k] ELSE Closed) \in 0..MaxSockets
      BY <1>7, SocketNumbering
    <2> QED
      BY <2>1, <2>2 DEF RelaySet
  <1>11. ASSUME NEW k \in staying
         PROVE  /\ relays'[k] \in RelaySet /\ relays'[k].socket = relays[k].socket
                /\ relays'[k].route = IF k \in ks THEN next[k] ELSE relays[k].route
    <2>1. relays'[k] = IF k \in ks THEN [relays[k] EXCEPT !.route = next[k]] ELSE relays[k]
      BY <1>2
    <2>2. relays[k] \in RelaySet /\ (k \in ks => next[k] \in RelayRoutes)
      BY <1>5
    <2> QED
      BY <2>1, <2>2 DEF RelaySet
  \* the sockets
  <1> DEFINE shut == Shut(sockets, SocketsOf(gone))
  <1>12. /\ GoodSockets(shut)
         /\ \A i \in SocketNumbers :
                shut[i].state = IF i \in SocketsOf(gone) THEN "closed" ELSE sockets[i].state
    BY <1>5, ShutIs
  <1>13. opened \in SUBSET RelayAddrs
    OBVIOUS
  <1>14. sockets' = Opened(shut, n)
    BY <1>2
  <1>15. /\ staying \subseteq DOMAIN relays /\ got \cap staying = {} /\ got \subseteq ks
         /\ \A k \in DOMAIN relays : k \in staying \/ k \in gone
         /\ gone \subseteq DOMAIN relays /\ gone \cap staying = {}
         /\ opened \subseteq got /\ (raised => opened = got) /\ (~raised => opened = {})
    BY <1>1
  <1>16. /\ got = new => staying \cup got = (DOMAIN relays \ scope) \cup ks
         /\ ks \subseteq scope
    BY <1>1
  <1>17. \A i \in SocketNumbers : i \in SocketsOf(gone) <=> \E k \in gone : relays[k].socket = i
    BY SocketsOfThem
  <1>18. /\ got = new => halfDone' = IF scope = RelayKeys THEN halfDone \ {"routes"} ELSE halfDone
         /\ got # new => halfDone' = halfDone \cup {"routes"}
    BY <1>2
  <1> HIDE DEF gone, new, staying, kept, opened, shut
  <1>19. /\ GoodSockets(sockets')
         /\ \A i \in SocketNumbers :
                sockets'[i].state = IF \E k \in opened : n[k] = i THEN "open" ELSE shut[i].state
    BY <1>7, <1>12, <1>13, <1>14, OpenedIs
  <1>20. RelayTypes'
    <2>1. /\ DOMAIN asked' \subseteq RelayAddrs /\ asked' = [k \in DOMAIN asked' |-> asked'[k]]
          /\ \A k \in DOMAIN asked' : asked'[k] \in RelayRoutes
      BY <1>3, <1>5
    <2>2. DOMAIN relays' \subseteq RelayAddrs /\ \A k \in DOMAIN relays' : relays'[k] \in RelaySet
      BY <1>1, <1>5, <1>9, <1>10, <1>11, <1>15
    <2>3. GoodSockets(sockets)'
      BY <1>19 DEF GoodSockets
    <2>4. halfDone' \subseteq {"zone", "routes"}
      BY <1>5, <1>18
    <2> QED
      BY <1>4, <1>5, <1>9, <2>1, <2>2, <2>3, <2>4 DEF RelayTypes
  <1>21. Placed'
    <2>1. ASSUME NEW k \in DOMAIN relays'
          PROVE  k \in onDevice /\ (raised <=> relays'[k].socket # Closed)
      <3>1. CASE k \in got
        BY <1>1, <1>7, <1>10, <1>15, <3>1, SocketNumbering
      <3>2. CASE k \in staying
        BY <1>5, <1>11, <1>15, <3>2
      <3> QED
        BY <1>9, <3>1, <3>2
    <2> QED
      BY <1>4, <1>5, <2>1 DEF Placed
  <1>22. OwnSockets'
    <2> SUFFICES ASSUME NEW k \in DOMAIN relays', NEW l \in DOMAIN relays', k # l,
                        relays'[k].socket # Closed
                 PROVE  relays'[k].socket # relays'[l].socket
      BY DEF OwnSockets
    <2>1. CASE k \in staying /\ l \in staying
      BY <1>6, <1>11, <1>15, <2>1 DEF OwnSockets
    <2>2. CASE k \in got /\ l \in got
      BY <1>7, <1>10, <1>15, <2>2
    <2>3. CASE k \in got /\ l \in staying
      BY <1>8, <1>10, <1>11, <1>15, <2>3
    <2>4. CASE k \in staying /\ l \in got
      BY <1>8, <1>10, <1>11, <1>15, <2>4
    <2> QED
      BY <1>9, <2>1, <2>2, <2>3, <2>4
  <1>23. Heard'
    <2>1. ASSUME NEW i \in SocketNumbers
          PROVE  sockets'[i].state = "open" <=> \E k \in DOMAIN relays' : relays'[k].socket = i
      <3>1. i # Closed
        BY SocketNumbering
      <3>2. (\E k \in DOMAIN relays' : relays'[k].socket = i)
               <=> (\E k \in opened : n[k] = i) \/ (\E k \in staying : relays[k].socket = i)
        BY <1>9, <1>10, <1>11, <1>15, <3>1
      <3>3. sockets[i].state = "open" <=> \E k \in DOMAIN relays : relays[k].socket = i
        BY <1>6 DEF Heard
      <3>4. \A k, l \in DOMAIN relays : relays[k].socket = i /\ relays[l].socket = i => k = l
        BY <1>6, <3>1 DEF OwnSockets
      <3>5. shut[i].state = "open" <=> \E k \in staying : relays[k].socket = i
        BY <1>12, <1>15, <1>17, <3>3, <3>4
      <3> QED
        BY <1>19, <3>2, <3>5
    <2> QED
      BY <2>1 DEF Heard
  <1>24. RoutesAsAsked'
    <2> SUFFICES ASSUME "routes" \notin halfDone'
                 PROVE  /\ DOMAIN relays' = DOMAIN asked'
                        /\ \A k \in DOMAIN asked' : relays'[k].route = asked'[k]
      BY DEF RoutesAsAsked
    <2>1. got = new
      BY <1>18
    <2>2. DOMAIN relays' = (DOMAIN relays \ scope) \cup ks
      BY <1>9, <1>16, <2>1
    <2>3. /\ DOMAIN asked' = ks \cup (DOMAIN asked \ scope)
          /\ \A k \in DOMAIN asked' : asked'[k] = IF k \in ks THEN next[k] ELSE asked[k]
      BY <1>3
    <2>4. ASSUME NEW k \in DOMAIN relays'
          PROVE  relays'[k].route = IF k \in ks THEN next[k] ELSE relays[k].route
      BY <1>9, <1>10, <1>11, <1>15
    <2>5. CASE scope = RelayKeys
      <3>1. DOMAIN relays \ scope = {} /\ DOMAIN asked \ scope = {}
        BY <1>5, <2>5 DEF RelayKeys
      <3> QED
        BY <2>2, <2>3, <2>4, <3>1
    <2>6. CASE scope # RelayKeys
      <3>1. "routes" \notin halfDone
        BY <1>18, <2>1, <2>6
      <3>2. DOMAIN relays = DOMAIN asked /\ \A k \in DOMAIN asked : relays[k].route = asked[k]
        BY <1>5, <3>1 DEF RoutesAsAsked
      <3> QED
        BY <2>2, <2>3, <2>4, <3>2
    <2> QED
      BY <2>5, <2>6
  <1>25. CarriedByRoute' /\ ZoneIsHeld'
    <2>1. "zone" \in halfDone' <=> "zone" \in halfDone
      BY <1>18
    <2> QED
      BY <1>4, <1>5, <2>1 DEF CarriedByRoute, ZoneIsHeld
  <1> QED
    BY <1>20, <1>21, <1>22, <1>23, <1>24, <1>25 DEF RelayInv

LEMMA RelayStep == RelayInv /\ [RelayNext]_relayVars => RelayInv'
  <1>1. ASSUME RelayInv, SetRoutes PROVE RelayInv'
    BY <1>1, SetRoutesKeeps DEF SetRoutes, RelayKeys
  <1>2. ASSUME RelayInv, SetAddressRoutes PROVE RelayInv'
    <2>1. PICK ip \in RelayAddrs : SetRoutesOf({ip})
      BY <1>2 DEF SetAddressRoutes
    <2> QED
      BY <1>2, <2>1, SetRoutesKeeps
  <1>3. ASSUME RelayInv, UNCHANGED relayVars PROVE RelayInv'
    <2>1. /\ UNCHANGED <<raised, onDevice, stacked, zone, relays, asked, halfDone>>
          /\ sockets' = sockets /\ carried' = carried
      BY <1>3 DEF relayVars
    <2>2. GoodSockets(sockets) /\ CarriedByRoute
      BY <1>3, RelayFacts
    <2>3. GoodSockets(sockets)' /\ CarriedByRoute'
      BY <2>1, <2>2 DEF GoodSockets, CarriedByRoute
    <2> QED
      BY <1>3, <2>1, <2>3, LoopKeeps
  <1> QED
    BY <1>1, <1>2, <1>3, RelayUpKeeps, RelayUpFailsKeeps, RelayDownKeeps, SetAddressesKeeps,
       SetAddressesFailsKeeps, AddAddressKeeps, RemoveAddressKeeps, DatagramKeeps,
       FlowEndsKeeps, LoopEndsKeeps
    DEF RelayNext

\* RelayInv is at least what the run checks.
LEMMA RelayInvAgrees == RelayInv => RelaysAgree
  <1> SUFFICES ASSUME RelayInv PROVE RelaysAgree
    OBVIOUS
  <1>1. /\ raised \in BOOLEAN /\ halfDone \subseteq {"zone", "routes"}
        /\ onDevice \subseteq RelayAddrs /\ stacked \subseteq RelayAddrs /\ zone \subseteq RelayAddrs
        /\ DOMAIN relays \subseteq onDevice
        /\ \A k \in DOMAIN relays : relays[k].route \in RelayRoutes
        /\ \A k \in DOMAIN relays : relays[k].socket \in {Closed} \cup SocketNumbers
        /\ \A k \in DOMAIN relays : raised <=> relays[k].socket # Closed
        /\ raised => onDevice \subseteq stacked
        /\ Heard /\ CarriedByRoute /\ RoutesAsAsked /\ ZoneIsHeld
    BY RelayFacts
  <1>2. GoodSockets(sockets) /\ sockets \in [SocketNumbers -> SocketSet]
    BY RelayFacts
  <1>3. RelayTypeOK
    <2>1. \A k \in DOMAIN relays : relays[k].route \in RelayRoutes /\ relays[k].socket \in 0..MaxSockets
      BY <1>1, SocketNumbering
    <2>2. \A i \in SocketNumbers : sockets[i] \in SocketSet
      BY <1>2
    <2>3. \A i \in SocketNumbers :
              sockets[i].state \in {"none", "open", "closed", "ended"} /\ sockets[i].flows \subseteq Flows
      BY <2>2 DEF SocketSet
    <2>4. \A i \in SocketNumbers : \A f, g \in sockets[i].flows :
              f.client = g.client /\ f.named = g.named => f = g
      BY <1>2 DEF GoodSockets
    <2> QED
      BY <1>1, <2>1, <2>3, <2>4 DEF RelayTypeOK, RelayKeys, SocketNumbers
  <1>4. ListenersAreRelays
    <2>1. Listening(sockets) = {i \in SocketNumbers : sockets[i].state = "open"}
      BY <1>2 DEF Listening
    <2>2. SocketsOf(DOMAIN relays) \subseteq SocketNumbers
      BY <1>1 DEF SocketsOf
    <2>3. Listening(sockets) = SocketsOf(DOMAIN relays)
      BY <1>1, <2>1, <2>2, SocketsOfThem DEF Heard
    <2>4. ~raised => SocketsOf(DOMAIN relays) = {}
      BY <1>1 DEF SocketsOf
    <2> QED
      BY <1>1, <2>3, <2>4 DEF ListenersAreRelays
  <1> QED
    BY <1>1, <1>3, <1>4 DEF RelaysAgree

\* RelaysStayAgreed: for any addresses, targets, clients and bounds, whatever
\* call or failure comes between two datagrams, the listeners of the machine are
\* the relays of the device's table, on addresses that are there; a datagram goes
\* where its route says now; the table holds the routes that were asked for; and
\* the names resolve to the device's addresses (vpn/device.go, vpn/relay.go).
THEOREM RelaysStayAgreed == RelaySpec => []RelaysAgree
  <1>1. RelayInit => RelayInv
    BY RelayStarts
  <1>2. RelayInv /\ [RelayNext]_relayVars => RelayInv'
    BY RelayStep
  <1>3. RelayInv => RelaysAgree
    BY RelayInvAgrees
  <1> QED
    BY <1>1, <1>2, <1>3, PTL DEF RelaySpec

-----------------------------------------------------------------------------
\* VpnClient.
KeySteps == {"key", "create", "write"}
UpSteps == {"prev", "service", "status", "peer", "pin", "config", "record", "serviceLast", "verify"}
FleetSteps == {"read", "forgetRecord", "forgetKey", "config2"}
ClientSteps == {"idle", "probe", "down", "dial"} \cup KeySteps \cup UpSteps \cup FleetSteps

Tunnels(n) == [machine : 0..2, at : 0..2, pub : 0..n]
Entries == [known : BOOLEAN, pin : 0..2]
ProcSet(n) == [cmd : CommanderCommands \cup {"none"}, pc : ClientSteps, kp : 0..n, prev : Tunnels(n),
               rec : Tunnels(n), cfg : Entries, dev : Tunnels(n), twice : BOOLEAN,
               said : {"nothing", "ok", "failed", "killed", "reached", "noanswer", "unproven"}]

ClientTypes ==
    /\ keysMade \in Nat
    /\ hub \in [key : 1..2, at : 1..2, admitted : 0..keysMade]
    /\ keyFile \in -1..keysMade
    /\ recFile \in Tunnels(keysMade) /\ svc \in Tunnels(keysMade)
    /\ entry \in Entries
    /\ unit \in BOOLEAN /\ disturbed \in BOOLEAN
    /\ proc \in [CommanderProcs -> ProcSet(keysMade)]

\* Which command a step is of.
StepOf(x) ==
    /\ x.pc \in FleetSteps <=> x.pc # "idle" /\ x.cmd \in {"remove", "add"}
    /\ x.pc \in {"forgetRecord", "forgetKey"} => x.cmd = "remove"
    /\ x.pc \in UpSteps => x.cmd \in {"up", "transparent"}
    /\ x.pc = "verify" => x.cmd = "up"
    /\ x.pc \in KeySteps => x.cmd \in {"up", "transparent", "probe"}
    /\ x.pc \in {"service", "serviceLast"} => x.cmd = "transparent"
    /\ x.pc = "down" => x.cmd = "down"
    /\ x.pc = "probe" => x.cmd = "probe"
    /\ x.pc = "dial" => x.cmd = "dial"
    /\ x.twice => x.pc \in {"pin", "config", "record"} /\ x.cmd = "up"
    /\ x.pc # "idle" => x.said = "nothing"

\* The key a process has is the one of the key file f.
KeyOf(x, f) ==
    /\ x.pc \in UpSteps => x.kp = f /\ x.kp > 0
    /\ x.pc = "write" => f = EmptyFile /\ x.kp > 0

OneWriter == \A p, q \in CommanderProcs : proc[p].pc = "write" /\ proc[q].pc = "write" => p = q

\* A fleet is added and removed with nothing else under way.
AloneInFleet ==
    \A p \in CommanderProcs : proc[p].pc \in FleetSteps =>
        /\ \A q \in CommanderProcs : q # p => ~Running(q)
        /\ proc[p].cmd = "remove" =>
               \A q \in CommanderProcs : ~(proc[q].said = "ok" /\ proc[q].cmd = "up")
        /\ proc[p].pc = "config2" /\ proc[p].cmd = "remove" => recFile = NoRec
        /\ proc[p].pc = "config2" /\ proc[p].cmd = "add" => ~entry.known
        /\ proc[p].pc = "forgetKey" => recFile = NoRec

\* What an up has done so far, with the hub h, the key file f, the record r
\* and the entry n.
OfHub(r, h, f) == r.machine = h.key /\ r.pub = f
DoneBy(x, h, f, r, n) ==
    /\ x.pc \in {"peer", "pin", "config", "record", "verify"} => OfHub(x.rec, h, f) /\ n.known
    /\ x.pc \in {"pin", "config", "record", "verify"} => h.admitted = f
    /\ x.pc = "config" => n.pin \in {0, h.key} /\ x.cfg = [known |-> TRUE, pin |-> h.key]
    /\ x.pc \in {"record", "verify"} \/ x.twice => n.pin = h.key
    /\ x.pc = "verify" \/ x.twice => OfHub(r, h, f)
    /\ x.said = "ok" /\ x.cmd = "up" =>
           f > 0 /\ OfHub(r, h, f) /\ f = h.admitted /\ n.known /\ n.pin = h.key

\* The record on the disk.
Fits(f, r, n) ==
    /\ ~n.known => r = NoRec
    /\ r # NoRec => r.pub > 0 /\ r.machine > 0 /\ r.pub = f /\ n.pin = r.machine

Undisturbed ==
    /\ \A p \in CommanderProcs : KeyOf(proc[p], keyFile)
    /\ OneWriter
    /\ AloneInFleet
    /\ \A p \in CommanderProcs : DoneBy(proc[p], hub, keyFile, recFile, entry)
    /\ Fits(keyFile, recFile, entry)

ClientInv ==
    /\ ClientTypes
    /\ \A p \in CommanderProcs : StepOf(proc[p])
    /\ ~disturbed => Undisturbed

-----------------------------------------------------------------------------
LEMMA ProcSetGrows ==
    ASSUME NEW n \in Nat, NEW m \in Nat, n <= m
    PROVE  Tunnels(n) \subseteq Tunnels(m) /\ ProcSet(n) \subseteq ProcSet(m)
  <1>1. 0..n \subseteq 0..m
    OBVIOUS
  <1>2. Tunnels(n) \subseteq Tunnels(m)
    BY <1>1 DEF Tunnels
  <1> QED
    BY <1>1, <1>2 DEF ProcSet

\* A process that works on neither adds nor removes the fleet shows that
\* nobody does.
LEMMA NoFleet ==
    ASSUME AloneInFleet, NEW p \in CommanderProcs, proc[p].pc \notin FleetSteps, Running(p)
    PROVE  \A q \in CommanderProcs : proc[q].pc \notin FleetSteps
  BY DEF AloneInFleet, Running

\* One process goes on, in whatever way.
LEMMA OneSteps ==
    ASSUME ClientInv, NEW p \in CommanderProcs, NEW x, proc' = [proc EXCEPT ![p] = x],
           keysMade' \in Nat, keysMade <= keysMade', x \in ProcSet(keysMade'),
           hub' \in [key : 1..2, at : 1..2, admitted : 0..keysMade'], keyFile' \in -1..keysMade',
           recFile' \in Tunnels(keysMade'), svc' \in Tunnels(keysMade'), entry' \in Entries,
           unit' = unit, disturbed' = disturbed, StepOf(x),
           ~disturbed =>
               /\ KeyOf(x, keyFile')
               /\ \A q \in CommanderProcs \ {p} : KeyOf(proc[q], keyFile')
               /\ x.pc = "write" => \A q \in CommanderProcs \ {p} : proc[q].pc # "write"
               /\ AloneInFleet'
               /\ DoneBy(x, hub', keyFile', recFile', entry')
               /\ \A q \in CommanderProcs \ {p} : DoneBy(proc[q], hub', keyFile', recFile', entry')
               /\ Fits(keyFile', recFile', entry')
    PROVE  ClientInv'
  <1>1. proc \in [CommanderProcs -> ProcSet(keysMade)] /\ keysMade \in Nat
    BY DEF ClientInv, ClientTypes
  <1>2. proc \in [CommanderProcs -> ProcSet(keysMade')]
    BY <1>1, ProcSetGrows
  <1>3. proc' \in [CommanderProcs -> ProcSet(keysMade')]
    BY <1>2
  <1>4. proc'[p] = x /\ \A q \in CommanderProcs \ {p} : proc'[q] = proc[q]
    BY <1>1
  <1>5. ClientTypes'
    BY <1>3 DEF ClientInv, ClientTypes
  <1>6. (\A q \in CommanderProcs : StepOf(proc[q]))'
    BY <1>4 DEF ClientInv
  <1>7. ASSUME ~disturbed PROVE Undisturbed'
    <2>1. Undisturbed
      BY <1>7 DEF ClientInv
    <2>2. OneWriter'
      BY <1>4, <1>7, <2>1 DEF OneWriter, Undisturbed
    <2>3. \A q \in CommanderProcs : KeyOf(proc'[q], keyFile')
      BY <1>4, <1>7
    <2>4. \A q \in CommanderProcs : DoneBy(proc'[q], hub', keyFile', recFile', entry')
      BY <1>4, <1>7
    <2> QED
      BY <1>7, <2>2, <2>3, <2>4 DEF Undisturbed
  <1> QED
    BY <1>5, <1>6, <1>7 DEF ClientInv

\* A running process goes on and leaves the hub and the files as they are.
LEMMA QuietStep ==
    ASSUME ClientInv, NEW p \in CommanderProcs, NEW x, proc' = [proc EXCEPT ![p] = x],
           Running(p), x \in ProcSet(keysMade), StepOf(x),
           UNCHANGED <<hub, keyFile, recFile, entry, unit, keysMade, disturbed>>,
           svc' \in Tunnels(keysMade), x.pc \notin FleetSteps, x.pc # "write",
           ~disturbed => KeyOf(x, keyFile) /\ DoneBy(x, hub, keyFile, recFile, entry)
    PROVE  ClientInv'
  <1>1. proc'[p] = x /\ \A q \in CommanderProcs \ {p} : proc'[q] = proc[q]
    BY DEF ClientInv, ClientTypes
  <1>2. ~disturbed => AloneInFleet'
    BY <1>1 DEF ClientInv, Undisturbed, AloneInFleet, Running
  <1>3. ~disturbed =>
          /\ \A q \in CommanderProcs \ {p} : KeyOf(proc[q], keyFile')
          /\ \A q \in CommanderProcs \ {p} : DoneBy(proc[q], hub', keyFile', recFile', entry')
          /\ Fits(keyFile', recFile', entry')
          /\ KeyOf(x, keyFile') /\ DoneBy(x, hub', keyFile', recFile', entry')
    BY DEF ClientInv, Undisturbed
  <1>4. /\ keysMade' \in Nat /\ keysMade <= keysMade' /\ x \in ProcSet(keysMade')
        /\ hub' \in [key : 1..2, at : 1..2, admitted : 0..keysMade'] /\ keyFile' \in -1..keysMade'
        /\ recFile' \in Tunnels(keysMade') /\ svc' \in Tunnels(keysMade') /\ entry' \in Entries
    BY DEF ClientInv, ClientTypes
  <1> QED
    BY <1>2, <1>3, <1>4, OneSteps

\* What a process is after its end.
LEMMA EndIs ==
    ASSUME ClientTypes, NEW p \in CommanderProcs,
           NEW said \in {"nothing", "ok", "failed", "killed", "reached", "noanswer", "unproven"}
    PROVE  LET x == [Idle EXCEPT !.cmd = proc[p].cmd, !.said = said]
           IN /\ Ends(p, said) = [proc EXCEPT ![p] = x] /\ x \in ProcSet(keysMade) /\ StepOf(x)
              /\ x.pc = "idle" /\ x.cmd = proc[p].cmd /\ x.said = said /\ ~x.twice
              /\ KeyOf(x, keyFile)
  <1> DEFINE x == [Idle EXCEPT !.cmd = proc[p].cmd, !.said = said]
  <1>1. proc[p].cmd \in CommanderCommands \cup {"none"} /\ keysMade \in Nat
    BY DEF ClientTypes, ProcSet
  <1>2. NoRec \in Tunnels(keysMade) /\ NoDev \in Tunnels(keysMade) /\ NoCfg \in Entries
    BY <1>1 DEF NoRec, NoDev, NoCfg, Tunnels, Entries
  <1>3. "none" \in CommanderCommands \cup {"none"} /\ "idle" \in ClientSteps /\ 0 \in 0..keysMade
    BY <1>1 DEF ClientSteps
  <1>a. Idle \in ProcSet(keysMade)
    BY <1>2, <1>3 DEF Idle, ProcSet
  <1>4. x \in ProcSet(keysMade)
    BY <1>1, <1>a DEF ProcSet
  <1>b. Idle.pc = "idle" /\ ~Idle.twice
    BY DEF Idle
  <1>5. x.pc = "idle" /\ x.cmd = proc[p].cmd /\ x.said = said /\ ~x.twice
    BY <1>1, <1>a, <1>b DEF ProcSet
  <1> HIDE DEF x
  <1>6. StepOf(x) /\ KeyOf(x, keyFile)
    BY <1>5 DEF StepOf, KeyOf, FleetSteps, UpSteps, KeySteps
  <1>7. Ends(p, said) = [proc EXCEPT ![p] = x]
    BY DEF Ends, x
  <1> QED
    BY <1>4, <1>5, <1>6, <1>7 DEF x

LEMMA EndKeeps ==
    ASSUME ClientInv, NEW p \in CommanderProcs, Running(p),
           NEW said \in {"nothing", "ok", "failed", "killed", "reached", "noanswer", "unproven"},
           proc' = Ends(p, said), said = "ok" => proc[p].cmd # "up",
           UNCHANGED <<hub, keyFile, recFile, entry, unit, keysMade, disturbed>>,
           svc' \in Tunnels(keysMade)
    PROVE  ClientInv'
  <1> DEFINE x == [Idle EXCEPT !.cmd = proc[p].cmd, !.said = said]
  <1>1. /\ Ends(p, said) = [proc EXCEPT ![p] = x] /\ x \in ProcSet(keysMade) /\ StepOf(x)
        /\ x.pc = "idle" /\ x.cmd = proc[p].cmd /\ x.said = said /\ ~x.twice
        /\ KeyOf(x, keyFile)
    BY EndIs DEF ClientInv
  <1> HIDE DEF x
  <1>2. DoneBy(x, hub, keyFile, recFile, entry)
    BY <1>1 DEF DoneBy
  <1>3. x.pc \notin FleetSteps /\ x.pc # "write"
    BY <1>1 DEF FleetSteps
  <1> QED
    BY <1>1, <1>2, <1>3, QuietStep

LEMMA ToStepIs ==
    ASSUME ClientTypes, NEW p \in CommanderProcs, NEW pc \in ClientSteps
    PROVE  LET x == [proc[p] EXCEPT !.pc = pc]
           IN /\ ToStep(p, pc) = [proc EXCEPT ![p] = x] /\ x \in ProcSet(keysMade)
              /\ x.pc = pc /\ x.cmd = proc[p].cmd /\ x.kp = proc[p].kp /\ x.rec = proc[p].rec
              /\ x.cfg = proc[p].cfg /\ x.twice = proc[p].twice /\ x.said = proc[p].said
  <1> DEFINE x == [proc[p] EXCEPT !.pc = pc]
  <1>1. proc[p] \in ProcSet(keysMade) /\ proc \in [CommanderProcs -> ProcSet(keysMade)]
    BY DEF ClientTypes
  <1>2. /\ x \in ProcSet(keysMade)
        /\ x.pc = pc /\ x.cmd = proc[p].cmd /\ x.kp = proc[p].kp /\ x.rec = proc[p].rec
        /\ x.cfg = proc[p].cfg /\ x.twice = proc[p].twice /\ x.said = proc[p].said
    BY <1>1 DEF ProcSet
  <1>3. ToStep(p, pc) = [proc EXCEPT ![p] = x]
    BY <1>1 DEF ToStep
  <1> QED
    BY <1>2, <1>3

\* The facts of a process that works on a key or a tunnel.
LEMMA AtStep ==
    ASSUME ClientInv, NEW p \in CommanderProcs, proc[p].pc # "idle"
    PROVE  /\ ClientTypes /\ Running(p) /\ StepOf(proc[p]) /\ proc[p] \in ProcSet(keysMade)
           /\ proc[p].said = "nothing" /\ svc \in Tunnels(keysMade)
           /\ proc \in [CommanderProcs -> ProcSet(keysMade)]
           /\ ~disturbed => /\ KeyOf(proc[p], keyFile) /\ Fits(keyFile, recFile, entry)
                            /\ DoneBy(proc[p], hub, keyFile, recFile, entry) /\ Undisturbed
  BY DEF ClientInv, ClientTypes, Undisturbed, Running, StepOf

\* The key of the file is taken, or there is none in it.
LEMMA LoadKeeps ==
    ASSUME ClientInv, NEW p \in CommanderProcs, proc[p].pc \in {"key", "create"}, LoadKeyFile(p),
           UNCHANGED <<hub, keyFile, recFile, entry, unit, svc, keysMade, disturbed>>
    PROVE  ClientInv'
  <1>1. /\ ClientTypes /\ Running(p) /\ StepOf(proc[p]) /\ proc[p] \in ProcSet(keysMade)
        /\ proc[p].said = "nothing" /\ svc \in Tunnels(keysMade)
        /\ proc \in [CommanderProcs -> ProcSet(keysMade)]
    BY AtStep
  <1>2. CASE keyFile > 0 /\ proc' = [proc EXCEPT ![p].kp = keyFile, ![p].pc = AfterKey(p)]
    <2> DEFINE x == [proc[p] EXCEPT !.kp = keyFile, !.pc = AfterKey(p)]
    <2>1. proc' = [proc EXCEPT ![p] = x]
      BY <1>1, <1>2
    <2>2. proc[p].cmd \in {"up", "transparent", "probe"} /\ ~proc[p].twice
      BY <1>1 DEF StepOf, KeySteps
    <2>3. AfterKey(p) = (IF proc[p].cmd = "probe" THEN "probe" ELSE "prev") /\ AfterKey(p) \in ClientSteps
      BY DEF AfterKey, ClientSteps, UpSteps
    <2>4. keyFile \in 0..keysMade
      BY <1>1, <1>2 DEF ClientTypes
    <2>5. /\ x \in ProcSet(keysMade) /\ x.pc = AfterKey(p) /\ x.kp = keyFile /\ x.cmd = proc[p].cmd
          /\ x.said = proc[p].said /\ x.twice = proc[p].twice
      BY <1>1, <2>3, <2>4 DEF ProcSet
    <2> HIDE DEF x
    <2>6. StepOf(x) /\ x.pc \notin FleetSteps /\ x.pc # "write"
      BY <1>1, <2>2, <2>3, <2>5 DEF StepOf, FleetSteps, UpSteps, KeySteps
    <2>7. KeyOf(x, keyFile) /\ DoneBy(x, hub, keyFile, recFile, entry)
      BY <1>1, <1>2, <2>2, <2>3, <2>5 DEF KeyOf, DoneBy, UpSteps
    <2> QED
      BY <1>1, <2>1, <2>5, <2>6, <2>7, QuietStep
  <1>3. CASE proc' = Ends(p, "failed")
    BY <1>1, <1>3, EndKeeps
  <1> QED
    BY <1>2, <1>3 DEF LoadKeyFile

LEMMA EnsureKeyKeeps == ASSUME ClientInv, NEW p \in CommanderProcs, EnsureKey(p) PROVE ClientInv'
  <1>1. /\ proc[p].pc = "key"
        /\ UNCHANGED <<hub, keyFile, recFile, entry, unit, svc, keysMade, disturbed>>
    BY DEF EnsureKey, clientFiles
  <1>2. CASE LoadKeyFile(p)
    BY <1>1, <1>2, LoadKeeps
  <1>3. CASE proc' = ToStep(p, "create")
    <2> DEFINE x == [proc[p] EXCEPT !.pc = "create"]
    <2>1. /\ ClientTypes /\ Running(p) /\ StepOf(proc[p])
          /\ proc[p].said = "nothing" /\ svc \in Tunnels(keysMade)
      BY <1>1, AtStep
    <2>2. "create" \in ClientSteps
      BY DEF ClientSteps, KeySteps
    <2>3. /\ proc' = [proc EXCEPT ![p] = x] /\ x \in ProcSet(keysMade)
          /\ x.pc = "create" /\ x.cmd = proc[p].cmd /\ x.twice = proc[p].twice /\ x.said = proc[p].said
      BY <1>3, <2>1, <2>2, ToStepIs
    <2> HIDE DEF x
    <2>4. StepOf(x) /\ x.pc \notin FleetSteps /\ x.pc # "write" /\ ~x.twice
      BY <1>1, <2>1, <2>3 DEF StepOf, FleetSteps, UpSteps, KeySteps
    <2>5. KeyOf(x, keyFile) /\ DoneBy(x, hub, keyFile, recFile, entry)
      BY <2>1, <2>3, <2>4 DEF KeyOf, DoneBy, UpSteps
    <2> QED
      BY <1>1, <2>1, <2>3, <2>4, <2>5, QuietStep
  <1> QED
    BY <1>2, <1>3 DEF EnsureKey

\* While the key file has no key, nobody is past it.
LEMMA NoKeyYet ==
    ASSUME ClientInv, ~disturbed, ~(keyFile > 0)
    PROVE  /\ \A q \in CommanderProcs : proc[q].pc \notin UpSteps
           /\ \A q \in CommanderProcs : \A f : proc[q].pc # "write" => KeyOf(proc[q], f)
           /\ \A q \in CommanderProcs : \A f : DoneBy(proc[q], hub, f, recFile, entry)
           /\ recFile = NoRec
  <1>1. Undisturbed /\ \A q \in CommanderProcs : StepOf(proc[q])
    BY DEF ClientInv
  <1>2. \A q \in CommanderProcs : proc[q].pc \notin UpSteps
    BY <1>1 DEF Undisturbed, KeyOf
  <1>3. \A q \in CommanderProcs : ~proc[q].twice /\ ~(proc[q].said = "ok" /\ proc[q].cmd = "up")
    BY <1>1, <1>2 DEF Undisturbed, DoneBy, StepOf, UpSteps
  <1>4. recFile = NoRec
    BY <1>1 DEF Undisturbed, Fits
  <1>5. \A q \in CommanderProcs : \A f : DoneBy(proc[q], hub, f, recFile, entry)
    BY <1>2, <1>3 DEF DoneBy, UpSteps
  <1>6. \A q \in CommanderProcs : \A f : proc[q].pc # "write" => KeyOf(proc[q], f)
    BY <1>2 DEF KeyOf
  <1> QED
    BY <1>2, <1>4, <1>5, <1>6

LEMMA CreateKeyFileKeeps ==
    ASSUME ClientInv, NEW p \in CommanderProcs, CreateKeyFile(p) PROVE ClientInv'
  <1>1. proc[p].pc = "create" /\ UNCHANGED <<hub, recFile, entry, unit, svc, disturbed>>
    BY DEF CreateKeyFile
  <1>2. CASE keyFile # NoFile
    BY <1>1, <1>2, LoadKeeps DEF CreateKeyFile
  <1>3. CASE keyFile = NoFile
    <2> DEFINE x == [proc[p] EXCEPT !.kp = keysMade + 1, !.pc = "write"]
    <2>1. /\ keyFile' = EmptyFile /\ keysMade' = keysMade + 1
          /\ proc' = [proc EXCEPT ![p].kp = keysMade + 1, ![p].pc = "write"]
      BY <1>3 DEF CreateKeyFile
    <2>2. /\ ClientTypes /\ Running(p) /\ StepOf(proc[p]) /\ proc[p] \in ProcSet(keysMade)
          /\ proc[p].said = "nothing" /\ svc \in Tunnels(keysMade)
          /\ proc \in [CommanderProcs -> ProcSet(keysMade)] /\ keysMade \in Nat
          /\ ~disturbed => Undisturbed
      BY <1>1, AtStep DEF ClientTypes
    <2>3. proc' = [proc EXCEPT ![p] = x]
      BY <2>1, <2>2
    <2>4. /\ ProcSet(keysMade) \subseteq ProcSet(keysMade') /\ Tunnels(keysMade) \subseteq Tunnels(keysMade')
          /\ keysMade' \in Nat /\ keysMade <= keysMade'
      BY <2>1, <2>2, ProcSetGrows
    <2>5. /\ x \in ProcSet(keysMade') /\ x.pc = "write" /\ x.kp = keysMade + 1 /\ x.cmd = proc[p].cmd
          /\ x.said = proc[p].said /\ x.twice = proc[p].twice
      <3>1. proc[p] \in ProcSet(keysMade') /\ keysMade + 1 \in 0..keysMade' /\ "write" \in ClientSteps
        BY <2>1, <2>2, <2>4 DEF ClientSteps, KeySteps
      <3> QED
        BY <3>1 DEF ProcSet
    <2> HIDE DEF x
    <2>6. StepOf(x) /\ ~x.twice
      BY <1>1, <2>2, <2>5 DEF StepOf, FleetSteps, UpSteps, KeySteps
    <2>7. /\ hub' \in [key : 1..2, at : 1..2, admitted : 0..keysMade'] /\ keyFile' \in -1..keysMade'
          /\ recFile' \in Tunnels(keysMade') /\ svc' \in Tunnels(keysMade') /\ entry' \in Entries
      <3>1. 0..keysMade \subseteq 0..keysMade' /\ -1 \in -1..keysMade'
        BY <2>4, <2>2
      <3>2. hub' \in [key : 1..2, at : 1..2, admitted : 0..keysMade']
        BY <1>1, <2>2, <3>1 DEF ClientTypes
      <3> QED
        BY <1>1, <2>1, <2>2, <2>4, <3>1, <3>2 DEF ClientTypes, EmptyFile
    <2>8. ASSUME ~disturbed
          PROVE  /\ KeyOf(x, keyFile')
                 /\ \A q \in CommanderProcs \ {p} : KeyOf(proc[q], keyFile')
                 /\ x.pc = "write" => \A q \in CommanderProcs \ {p} : proc[q].pc # "write"
                 /\ AloneInFleet'
                 /\ DoneBy(x, hub', keyFile', recFile', entry')
                 /\ \A q \in CommanderProcs \ {p} : DoneBy(proc[q], hub', keyFile', recFile', entry')
                 /\ Fits(keyFile', recFile', entry')
      <3>1. /\ \A q \in CommanderProcs : \A f : proc[q].pc # "write" => KeyOf(proc[q], f)
            /\ \A q \in CommanderProcs : \A f : DoneBy(proc[q], hub, f, recFile, entry)
            /\ recFile = NoRec
        BY <1>3, <2>8, NoKeyYet DEF NoFile
      <3>2. \A q \in CommanderProcs : proc[q].pc # "write"
        BY <1>3, <2>2, <2>8 DEF Undisturbed, KeyOf, NoFile, EmptyFile
      <3>3. KeyOf(x, keyFile')
        BY <2>1, <2>2, <2>5 DEF KeyOf, UpSteps
      <3>4. DoneBy(x, hub', keyFile', recFile', entry')
        BY <2>2, <2>5, <2>6 DEF DoneBy
      <3>5. AloneInFleet'
        <4>1. \A q \in CommanderProcs : proc[q].pc \notin FleetSteps
          BY <1>1, <2>2, <2>8, NoFleet DEF Undisturbed, FleetSteps
        <4>2. \A q \in CommanderProcs : proc'[q].pc \notin FleetSteps
          BY <2>2, <2>3, <2>5, <4>1 DEF FleetSteps
        <4> QED
          BY <4>2 DEF AloneInFleet
      <3>6. Fits(keyFile', recFile', entry')
        BY <1>1, <3>1 DEF Fits
      <3> QED
        BY <1>1, <3>1, <3>2, <3>3, <3>4, <3>5, <3>6
    <2> QED
      BY <1>1, <2>3, <2>4, <2>5, <2>6, <2>7, <2>8, OneSteps
  <1> QED
    BY <1>2, <1>3

\* Nobody adds or removes the fleet beside a process that does neither.
LEMMA StaysAlone ==
    ASSUME ClientInv, ~disturbed, NEW p \in CommanderProcs, NEW x, proc' = [proc EXCEPT ![p] = x],
           Running(p), proc[p].pc \notin FleetSteps, x.pc \notin FleetSteps
    PROVE  AloneInFleet'
  <1>1. \A q \in CommanderProcs : proc[q].pc \notin FleetSteps
    BY NoFleet DEF ClientInv, Undisturbed
  <1>2. proc \in [CommanderProcs -> ProcSet(keysMade)]
    BY DEF ClientInv, ClientTypes
  <1>3. \A q \in CommanderProcs : proc'[q].pc \notin FleetSteps
    BY <1>1, <1>2
  <1> QED
    BY <1>3 DEF AloneInFleet

LEMMA WriteKeyKeeps == ASSUME ClientInv, NEW p \in CommanderProcs, WriteKey(p) PROVE ClientInv'
  <1> DEFINE x == [proc[p] EXCEPT !.pc = AfterKey(p)]
  <1>1. /\ proc[p].pc = "write" /\ keyFile' = (IF keyFile = NoFile THEN NoFile ELSE proc[p].kp)
        /\ proc' = ToStep(p, AfterKey(p))
        /\ UNCHANGED <<hub, recFile, entry, unit, svc, keysMade, disturbed>>
    BY DEF WriteKey
  <1>2. /\ ClientTypes /\ Running(p) /\ StepOf(proc[p]) /\ proc[p] \in ProcSet(keysMade)
        /\ proc[p].said = "nothing" /\ svc \in Tunnels(keysMade) /\ keysMade \in Nat
        /\ ~disturbed => Undisturbed /\ KeyOf(proc[p], keyFile)
    BY <1>1, AtStep DEF ClientTypes
  <1>3. AfterKey(p) = (IF proc[p].cmd = "probe" THEN "probe" ELSE "prev") /\ AfterKey(p) \in ClientSteps
    BY DEF AfterKey, ClientSteps, UpSteps
  <1>4. /\ proc' = [proc EXCEPT ![p] = x] /\ x \in ProcSet(keysMade) /\ x.pc = AfterKey(p)
        /\ x.cmd = proc[p].cmd /\ x.kp = proc[p].kp /\ x.twice = proc[p].twice /\ x.said = proc[p].said
    BY <1>1, <1>2, <1>3, ToStepIs
  <1> HIDE DEF x
  <1>5. StepOf(x) /\ ~x.twice /\ x.pc \notin FleetSteps /\ x.pc # "write"
    BY <1>1, <1>2, <1>3, <1>4 DEF StepOf, FleetSteps, UpSteps, KeySteps
  <1>6. /\ hub' \in [key : 1..2, at : 1..2, admitted : 0..keysMade'] /\ keyFile' \in -1..keysMade'
        /\ recFile' \in Tunnels(keysMade') /\ svc' \in Tunnels(keysMade') /\ entry' \in Entries
    <2>1. proc[p].kp \in 0..keysMade
      BY <1>2 DEF ProcSet
    <2>2. keyFile' \in -1..keysMade'
      BY <1>1, <1>2, <2>1 DEF ClientTypes, NoFile
    <2> QED
      BY <1>1, <1>2, <2>2 DEF ClientTypes
  <1>7. ASSUME ~disturbed
        PROVE  /\ KeyOf(x, keyFile')
               /\ \A q \in CommanderProcs \ {p} : KeyOf(proc[q], keyFile')
               /\ x.pc = "write" => \A q \in CommanderProcs \ {p} : proc[q].pc # "write"
               /\ AloneInFleet'
               /\ DoneBy(x, hub', keyFile', recFile', entry')
               /\ \A q \in CommanderProcs \ {p} : DoneBy(proc[q], hub', keyFile', recFile', entry')
               /\ Fits(keyFile', recFile', entry')
    <2>1. keyFile = EmptyFile /\ proc[p].kp > 0 /\ keyFile' = proc[p].kp
      BY <1>1, <1>2, <1>7 DEF KeyOf, NoFile, EmptyFile
    <2>2. /\ \A q \in CommanderProcs : \A f : proc[q].pc # "write" => KeyOf(proc[q], f)
          /\ \A q \in CommanderProcs : \A f : DoneBy(proc[q], hub, f, recFile, entry)
          /\ recFile = NoRec
      BY <1>7, <2>1, NoKeyYet DEF EmptyFile
    <2>3. \A q \in CommanderProcs \ {p} : proc[q].pc # "write"
      BY <1>1, <1>2, <1>7 DEF Undisturbed, OneWriter
    <2>4. KeyOf(x, keyFile')
      BY <1>4, <1>5, <2>1 DEF KeyOf
    <2>5. DoneBy(x, hub', keyFile', recFile', entry')
      BY <1>2, <1>3, <1>4, <1>5 DEF DoneBy
    <2>6. AloneInFleet'
      BY <1>1, <1>2, <1>4, <1>5, <1>7, StaysAlone DEF FleetSteps
    <2>7. Fits(keyFile', recFile', entry')
      BY <1>1, <2>2 DEF Fits
    <2> QED
      BY <1>1, <2>2, <2>3, <2>4, <2>5, <2>6, <2>7
  <1>8. keysMade' \in Nat /\ keysMade <= keysMade' /\ x \in ProcSet(keysMade')
    BY <1>1, <1>2, <1>4
  <1> QED
    BY <1>1, <1>4, <1>5, <1>6, <1>7, <1>8, OneSteps

\* The record as it is loaded, and the device of the pool.
LEMMA LoadedIs ==
    ASSUME ClientTypes
    PROVE  /\ LoadPinned.rec \in Tunnels(keysMade)
           /\ \A p \in CommanderProcs, r \in Tunnels(keysMade) :
                  CanOpenDevice(p) => Pooled(p, r) \in Tunnels(keysMade)
           /\ \A p \in CommanderProcs : Reaches(p) => entry.known /\ DevAfter(p) \in Tunnels(keysMade)
  <1>0. keysMade \in Nat /\ recFile \in Tunnels(keysMade) /\ keyFile \in -1..keysMade
    BY DEF ClientTypes
  <1>1. LoadPinned.rec \in Tunnels(keysMade)
    BY <1>0 DEF LoadPinned, NoRec, Tunnels
  <1>2. ASSUME NEW p \in CommanderProcs, NEW r \in Tunnels(keysMade), CanOpenDevice(p)
        PROVE  Pooled(p, r) \in Tunnels(keysMade)
    <2>1. proc[p].dev \in Tunnels(keysMade)
      BY DEF ClientTypes, ProcSet
    <2>2. CASE proc[p].dev # NoDev
      BY <2>1, <2>2 DEF Pooled
    <2>3. CASE proc[p].dev = NoDev
      <3>1. keyFile \in 0..keysMade
        BY <1>0, <1>2, <2>3 DEF CanOpenDevice
      <3>2. [r EXCEPT !.pub = keyFile] \in Tunnels(keysMade)
        BY <3>1 DEF Tunnels
      <3> QED
        BY <2>3, <3>2 DEF Pooled
    <2> QED
      BY <2>2, <2>3
  <1>3. ASSUME NEW p \in CommanderProcs, Reaches(p)
        PROVE  entry.known /\ DevAfter(p) \in Tunnels(keysMade)
    <2>1. Way(p) \in {"ssh", "host", "device"}
      BY <1>3 DEF Reaches
    <2>2. entry.known
      <3>1. CASE ~entry.known
        BY <2>1, <3>1 DEF Way
      <3> QED
        BY <3>1, <1>0 DEF ClientTypes, Entries
    <2>3. Way(p) = "device" => CanOpenDevice(p)
      BY DEF Way
    <2>4. proc[p].dev \in Tunnels(keysMade)
      BY DEF ClientTypes, ProcSet
    <2>5. Way(p) = "device" => Pooled(p, LoadPinned.rec) \in Tunnels(keysMade)
      BY <1>1, <1>2, <2>3
    <2>6. DevAfter(p) \in Tunnels(keysMade)
      BY <2>4, <2>5 DEF DevAfter
    <2> QED
      BY <2>2, <2>6
  <1> QED
    BY <1>1, <1>2, <1>3

LEMMA LoadPrevKeeps == ASSUME ClientInv, NEW p \in CommanderProcs, LoadPrev(p) PROVE ClientInv'
  <1>1. /\ proc[p].pc = "prev"
        /\ UNCHANGED <<hub, keyFile, recFile, entry, unit, svc, keysMade, disturbed>>
    BY DEF LoadPrev, clientFiles
  <1>2. /\ ClientTypes /\ Running(p) /\ StepOf(proc[p]) /\ proc[p] \in ProcSet(keysMade)
        /\ proc[p].said = "nothing" /\ svc \in Tunnels(keysMade)
        /\ proc \in [CommanderProcs -> ProcSet(keysMade)]
        /\ ~disturbed => KeyOf(proc[p], keyFile)
    BY <1>1, AtStep
  <1>3. CASE proc[p].cmd = "transparent" /\ ~unit
    BY <1>1, <1>2, <1>3, EndKeeps DEF LoadPrev
  <1>4. CASE ~(proc[p].cmd = "transparent" /\ ~unit)
    <2> DEFINE pc == IF proc[p].cmd = "transparent" /\ LoadPinned.rec # NoRec THEN "service" ELSE "status"
               x == [proc[p] EXCEPT !.prev = LoadPinned.rec, !.pc = pc]
    <2>1. proc' = [proc EXCEPT ![p].prev = LoadPinned.rec, ![p].pc = pc]
      BY <1>4 DEF LoadPrev
    <2>2. proc' = [proc EXCEPT ![p] = x]
      BY <1>2, <2>1
    <2>3. pc \in {"service", "status"} /\ (pc = "service" => proc[p].cmd = "transparent")
      OBVIOUS
    <2> HIDE DEF pc
    <2>4. pc \in ClientSteps
      BY <2>3 DEF ClientSteps, UpSteps
    <2>5. LoadPinned.rec \in Tunnels(keysMade)
      BY <1>2, LoadedIs
    <2>6. /\ x \in ProcSet(keysMade) /\ x.pc = pc /\ x.cmd = proc[p].cmd /\ x.kp = proc[p].kp
          /\ x.twice = proc[p].twice /\ x.said = proc[p].said
      BY <1>2, <2>4, <2>5 DEF ProcSet
    <2> HIDE DEF x
    <2>7. StepOf(x) /\ ~x.twice /\ x.pc \notin FleetSteps /\ x.pc # "write"
      BY <1>1, <1>2, <2>3, <2>6 DEF StepOf, FleetSteps, UpSteps, KeySteps
    <2>8. ~disturbed => KeyOf(x, keyFile) /\ DoneBy(x, hub, keyFile, recFile, entry)
      BY <1>1, <1>2, <2>3, <2>6, <2>7 DEF KeyOf, DoneBy, UpSteps
    <2> QED
      BY <1>1, <1>2, <2>2, <2>6, <2>7, <2>8, QuietStep
  <1> QED
    BY <1>3, <1>4

LEMMA TransparentUpKeeps ==
    ASSUME ClientInv, NEW p \in CommanderProcs, TransparentUp(p) PROVE ClientInv'
  <1>1. /\ proc[p].pc \in {"service", "serviceLast"}
        /\ svc' = (IF svc = NoRec /\ ServiceStarts THEN ServiceRecord ELSE svc)
        /\ proc' = (IF svc' = NoRec THEN Ends(p, "failed")
                    ELSE IF proc[p].pc = "serviceLast" THEN Ends(p, "ok")
                    ELSE ToStep(p, "status"))
        /\ UNCHANGED <<hub, keyFile, recFile, entry, unit, keysMade, disturbed>>
    BY DEF TransparentUp, clientFiles
  <1>2. /\ ClientTypes /\ Running(p) /\ StepOf(proc[p]) /\ proc[p] \in ProcSet(keysMade)
        /\ proc[p].said = "nothing" /\ svc \in Tunnels(keysMade)
        /\ ~disturbed => KeyOf(proc[p], keyFile)
    BY <1>1, AtStep
  <1>3. svc' \in Tunnels(keysMade)
    <2>1. recFile \in Tunnels(keysMade) /\ (ServiceStarts => keyFile \in 0..keysMade)
      BY <1>2 DEF ClientTypes, ServiceStarts
    <2>2. ServiceStarts => ServiceRecord \in Tunnels(keysMade)
      BY <2>1 DEF ServiceRecord, Tunnels
    <2> QED
      BY <1>1, <1>2, <2>2
  <1>4. proc[p].cmd = "transparent"
    BY <1>1, <1>2 DEF StepOf
  <1>5. CASE proc' = Ends(p, "failed") \/ proc' = Ends(p, "ok")
    BY <1>1, <1>2, <1>3, <1>4, <1>5, EndKeeps
  <1>6. CASE proc' = ToStep(p, "status")
    <2> DEFINE x == [proc[p] EXCEPT !.pc = "status"]
    <2>1. "status" \in ClientSteps
      BY DEF ClientSteps, UpSteps
    <2>2. /\ proc' = [proc EXCEPT ![p] = x] /\ x \in ProcSet(keysMade)
          /\ x.pc = "status" /\ x.cmd = proc[p].cmd /\ x.kp = proc[p].kp
          /\ x.twice = proc[p].twice /\ x.said = proc[p].said
      BY <1>2, <1>6, <2>1, ToStepIs
    <2> HIDE DEF x
    <2>3. StepOf(x) /\ x.pc \notin FleetSteps /\ x.pc # "write" /\ ~x.twice
      BY <1>1, <1>2, <1>4, <2>2 DEF StepOf, FleetSteps, UpSteps, KeySteps
    <2>4. ~disturbed => KeyOf(x, keyFile) /\ DoneBy(x, hub, keyFile, recFile, entry)
      BY <1>1, <1>2, <2>2, <2>3 DEF KeyOf, DoneBy, UpSteps
    <2> QED
      BY <1>1, <1>2, <1>3, <2>2, <2>3, <2>4, QuietStep
  <1> QED
    BY <1>1, <1>5, <1>6

LEMMA MachineStatusKeeps ==
    ASSUME ClientInv, NEW p \in CommanderProcs, MachineStatus(p) PROVE ClientInv'
  <1>1. /\ proc[p].pc = "status"
        /\ UNCHANGED <<hub, keyFile, recFile, entry, unit, svc, keysMade, disturbed>>
    BY DEF MachineStatus, clientFiles
  <1>2. /\ ClientTypes /\ Running(p) /\ StepOf(proc[p]) /\ proc[p] \in ProcSet(keysMade)
        /\ proc[p].said = "nothing" /\ svc \in Tunnels(keysMade)
        /\ proc \in [CommanderProcs -> ProcSet(keysMade)]
        /\ ~disturbed => KeyOf(proc[p], keyFile)
    BY <1>1, AtStep
  <1>3. CASE ~Reaches(p)
    BY <1>1, <1>2, <1>3, EndKeeps DEF MachineStatus
  <1>4. CASE Reaches(p)
    <2> DEFINE r == [machine |-> hub.key, at |-> hub.at, pub |-> proc[p].kp]
               x == [proc[p] EXCEPT !.pc = "peer", !.dev = DevAfter(p), !.rec = r]
    <2>1. proc' = [proc EXCEPT ![p].pc = "peer", ![p].dev = DevAfter(p), ![p].rec = r]
      BY <1>4 DEF MachineStatus
    <2>2. r \in Tunnels(keysMade) /\ r.machine = hub.key /\ r.pub = proc[p].kp
      BY <1>2 DEF ClientTypes, ProcSet, Tunnels
    <2> HIDE DEF r
    <2>3. proc' = [proc EXCEPT ![p] = x]
      BY <1>2, <2>1
    <2>4. entry.known /\ DevAfter(p) \in Tunnels(keysMade) /\ "peer" \in ClientSteps
      BY <1>2, <1>4, LoadedIs DEF ClientSteps, UpSteps
    <2>5. /\ x \in ProcSet(keysMade) /\ x.pc = "peer" /\ x.cmd = proc[p].cmd /\ x.kp = proc[p].kp
          /\ x.twice = proc[p].twice /\ x.said = proc[p].said /\ x.rec = r
      BY <1>2, <2>2, <2>4 DEF ProcSet
    <2> HIDE DEF x
    <2>6. StepOf(x) /\ ~x.twice /\ x.pc \notin FleetSteps /\ x.pc # "write"
      BY <1>1, <1>2, <2>5 DEF StepOf, FleetSteps, UpSteps, KeySteps
    <2>7. ~disturbed => KeyOf(x, keyFile) /\ DoneBy(x, hub, keyFile, recFile, entry)
      BY <1>1, <1>2, <2>2, <2>4, <2>5, <2>6 DEF KeyOf, DoneBy, UpSteps, OfHub
    <2> QED
      BY <1>1, <1>2, <2>3, <2>5, <2>6, <2>7, QuietStep
  <1> QED
    BY <1>3, <1>4

LEMMA AddOwnPeerKeeps ==
    ASSUME ClientInv, NEW p \in CommanderProcs, AddOwnPeer(p) PROVE ClientInv'
  <1>1. /\ proc[p].pc = "peer"
        /\ UNCHANGED <<keyFile, recFile, entry, unit, svc, keysMade, disturbed>>
    BY DEF AddOwnPeer, clientFiles
  <1>2. /\ ClientTypes /\ Running(p) /\ StepOf(proc[p]) /\ proc[p] \in ProcSet(keysMade)
        /\ proc[p].said = "nothing" /\ svc \in Tunnels(keysMade) /\ keysMade \in Nat
        /\ proc \in [CommanderProcs -> ProcSet(keysMade)]
        /\ ~disturbed => /\ KeyOf(proc[p], keyFile) /\ Fits(keyFile, recFile, entry)
                         /\ DoneBy(proc[p], hub, keyFile, recFile, entry) /\ Undisturbed
    BY <1>1, AtStep DEF ClientTypes
  <1>3. CASE ~Reaches(p)
    BY <1>1, <1>2, <1>3, EndKeeps DEF AddOwnPeer
  <1>4. CASE Reaches(p)
    <2> DEFINE x == [proc[p] EXCEPT !.pc = "pin", !.dev = DevAfter(p)]
    <2>1. /\ hub' = [hub EXCEPT !.admitted = proc[p].kp]
          /\ proc' = [proc EXCEPT ![p].pc = "pin", ![p].dev = DevAfter(p)]
      BY <1>4 DEF AddOwnPeer
    <2>2. proc' = [proc EXCEPT ![p] = x]
      BY <1>2, <2>1
    <2>3. DevAfter(p) \in Tunnels(keysMade) /\ "pin" \in ClientSteps
      BY <1>2, <1>4, LoadedIs DEF ClientSteps, UpSteps
    <2>4. /\ x \in ProcSet(keysMade) /\ x.pc = "pin" /\ x.cmd = proc[p].cmd /\ x.kp = proc[p].kp
          /\ x.twice = proc[p].twice /\ x.said = proc[p].said /\ x.rec = proc[p].rec
      BY <1>2, <2>3 DEF ProcSet
    <2> HIDE DEF x
    <2>5. StepOf(x) /\ ~x.twice /\ x.pc \notin FleetSteps /\ x.pc # "write"
      BY <1>1, <1>2, <2>4 DEF StepOf, FleetSteps, UpSteps, KeySteps
    <2>6. /\ hub' \in [key : 1..2, at : 1..2, admitted : 0..keysMade]
          /\ hub'.key = hub.key /\ hub'.admitted = proc[p].kp
      <3>1. proc[p].kp \in 0..keysMade /\ hub \in [key : 1..2, at : 1..2, admitted : 0..keysMade]
        BY <1>2 DEF ProcSet, ClientTypes
      <3> QED
        BY <2>1, <3>1
    <2>7. ASSUME ~disturbed
          PROVE  /\ KeyOf(x, keyFile')
                 /\ \A q \in CommanderProcs \ {p} : KeyOf(proc[q], keyFile')
                 /\ x.pc = "write" => \A q \in CommanderProcs \ {p} : proc[q].pc # "write"
                 /\ AloneInFleet'
                 /\ DoneBy(x, hub', keyFile', recFile', entry')
                 /\ \A q \in CommanderProcs \ {p} : DoneBy(proc[q], hub', keyFile', recFile', entry')
                 /\ Fits(keyFile', recFile', entry')
      <3>1. hub'.admitted = keyFile
        BY <1>1, <1>2, <2>6, <2>7 DEF KeyOf, UpSteps
      <3>2. KeyOf(x, keyFile')
        BY <1>1, <1>2, <2>4, <2>7 DEF KeyOf, UpSteps
      <3>3. DoneBy(x, hub', keyFile', recFile', entry')
        BY <1>1, <1>2, <2>4, <2>5, <2>6, <2>7, <3>1 DEF DoneBy, OfHub
      <3>4. \A q \in CommanderProcs \ {p} : DoneBy(proc[q], hub', keyFile', recFile', entry')
        <4> SUFFICES ASSUME NEW q \in CommanderProcs \ {p} PROVE DoneBy(proc[q], hub', keyFile, recFile, entry)
          BY <1>1
        <4>1. DoneBy(proc[q], hub, keyFile, recFile, entry)
          BY <1>2, <2>7 DEF Undisturbed
        <4> QED
          BY <2>6, <3>1, <4>1 DEF DoneBy, OfHub
      <3>5. AloneInFleet'
        BY <1>1, <1>2, <2>2, <2>5, <2>7, StaysAlone DEF FleetSteps
      <3> QED
        BY <1>1, <1>2, <2>5, <2>7, <3>2, <3>3, <3>4, <3>5 DEF Undisturbed
    <2>8. /\ keysMade' \in Nat /\ keysMade <= keysMade' /\ x \in ProcSet(keysMade')
          /\ hub' \in [key : 1..2, at : 1..2, admitted : 0..keysMade'] /\ keyFile' \in -1..keysMade'
          /\ recFile' \in Tunnels(keysMade') /\ svc' \in Tunnels(keysMade') /\ entry' \in Entries
      BY <1>1, <1>2, <2>4, <2>6 DEF ClientTypes
    <2> QED
      BY <1>1, <2>2, <2>5, <2>7, <2>8, OneSteps
  <1> QED
    BY <1>3, <1>4

\* The entry with a key pinned in it.
LEMMA PinnedIs ==
    ASSUME NEW e \in Entries, e.known, NEW m \in 0..2
    PROVE  [e EXCEPT !.pin = m] \in Entries /\ [e EXCEPT !.pin = m] = [known |-> TRUE, pin |-> m]
  <1>1. e.known = TRUE
    BY DEF Entries
  <1>2. /\ [e EXCEPT !.pin = m] \in Entries
        /\ [e EXCEPT !.pin = m].known = e.known /\ [e EXCEPT !.pin = m].pin = m
    BY DEF Entries
  <1>3. \A a, b \in Entries : a.known = b.known /\ a.pin = b.pin => a = b
    BY DEF Entries
  <1>4. [known |-> TRUE, pin |-> m] \in Entries
    BY DEF Entries
  <1> QED
    BY <1>1, <1>2, <1>3, <1>4

LEMMA ReadConfigKeeps == ASSUME ClientInv, NEW p \in CommanderProcs, ReadConfig(p) PROVE ClientInv'
  <1>1. /\ proc[p].pc = "pin"
        /\ UNCHANGED <<hub, keyFile, recFile, entry, unit, svc, keysMade, disturbed>>
    BY DEF ReadConfig, clientFiles
  <1>2. /\ ClientTypes /\ Running(p) /\ StepOf(proc[p]) /\ proc[p] \in ProcSet(keysMade)
        /\ proc[p].said = "nothing" /\ svc \in Tunnels(keysMade)
        /\ proc \in [CommanderProcs -> ProcSet(keysMade)]
        /\ ~disturbed => KeyOf(proc[p], keyFile) /\ DoneBy(proc[p], hub, keyFile, recFile, entry)
    BY <1>1, AtStep
  <1>3. CASE PinFails(entry, proc[p].rec.machine)
    BY <1>1, <1>2, <1>3, EndKeeps DEF ReadConfig
  <1>4. CASE ~PinFails(entry, proc[p].rec.machine) /\ Pins(entry, proc[p].rec.machine)
    <2> DEFINE c == [entry EXCEPT !.pin = proc[p].rec.machine]
               x == [proc[p] EXCEPT !.cfg = c, !.pc = "config"]
    <2>1. proc' = [proc EXCEPT ![p].cfg = c, ![p].pc = "config"]
      BY <1>4 DEF ReadConfig
    <2>2. entry \in Entries /\ entry.known /\ entry.pin = 0 /\ proc[p].rec.machine \in 0..2
      BY <1>2, <1>4 DEF ClientTypes, Pins, ProcSet, Tunnels
    <2>3. c \in Entries /\ c = [known |-> TRUE, pin |-> proc[p].rec.machine]
      BY <2>2, PinnedIs
    <2> HIDE DEF c
    <2>4. proc' = [proc EXCEPT ![p] = x]
      BY <1>2, <2>1
    <2>5. "config" \in ClientSteps
      BY DEF ClientSteps, UpSteps
    <2>6. /\ x \in ProcSet(keysMade) /\ x.pc = "config" /\ x.cmd = proc[p].cmd /\ x.kp = proc[p].kp
          /\ x.twice = proc[p].twice /\ x.said = proc[p].said /\ x.rec = proc[p].rec /\ x.cfg = c
      BY <1>2, <2>3, <2>5 DEF ProcSet
    <2> HIDE DEF x
    <2>7. StepOf(x) /\ x.pc \notin FleetSteps /\ x.pc # "write"
      BY <1>1, <1>2, <2>6 DEF StepOf, FleetSteps, UpSteps, KeySteps
    <2>8. ~disturbed => KeyOf(x, keyFile) /\ DoneBy(x, hub, keyFile, recFile, entry)
      BY <1>1, <1>2, <2>2, <2>3, <2>6, <2>7 DEF KeyOf, DoneBy, UpSteps, OfHub
    <2> QED
      BY <1>1, <1>2, <2>4, <2>6, <2>7, <2>8, QuietStep
  <1>5. CASE ~PinFails(entry, proc[p].rec.machine) /\ ~Pins(entry, proc[p].rec.machine)
    <2> DEFINE x == [proc[p] EXCEPT !.pc = "record"]
    <2>1. "record" \in ClientSteps
      BY DEF ClientSteps, UpSteps
    <2>2. /\ proc' = [proc EXCEPT ![p] = x] /\ x \in ProcSet(keysMade)
          /\ x.pc = "record" /\ x.cmd = proc[p].cmd /\ x.kp = proc[p].kp /\ x.rec = proc[p].rec
          /\ x.twice = proc[p].twice /\ x.said = proc[p].said
      BY <1>2, <1>5, <2>1, ToStepIs DEF ReadConfig
    <2> HIDE DEF x
    <2>3. StepOf(x) /\ x.pc \notin FleetSteps /\ x.pc # "write"
      BY <1>1, <1>2, <2>2 DEF StepOf, FleetSteps, UpSteps, KeySteps
    <2>4. ~disturbed => entry.pin = hub.key
      BY <1>1, <1>2, <1>5 DEF DoneBy, PinFails, Pins, OfHub
    <2>5. ~disturbed => KeyOf(x, keyFile) /\ DoneBy(x, hub, keyFile, recFile, entry)
      BY <1>1, <1>2, <2>2, <2>3, <2>4 DEF KeyOf, DoneBy, UpSteps, OfHub
    <2> QED
      BY <1>1, <1>2, <2>2, <2>3, <2>5, QuietStep
  <1> QED
    BY <1>3, <1>4, <1>5

LEMMA WriteConfigKeeps == ASSUME ClientInv, NEW p \in CommanderProcs, WriteConfig(p) PROVE ClientInv'
  <1> DEFINE x == [proc[p] EXCEPT !.pc = "record"]
  <1>1. /\ proc[p].pc = "config" /\ entry' = proc[p].cfg /\ proc' = ToStep(p, "record")
        /\ UNCHANGED <<hub, keyFile, recFile, unit, svc, keysMade, disturbed>>
    BY DEF WriteConfig
  <1>2. /\ ClientTypes /\ Running(p) /\ StepOf(proc[p]) /\ proc[p] \in ProcSet(keysMade)
        /\ proc[p].said = "nothing" /\ svc \in Tunnels(keysMade) /\ keysMade \in Nat
        /\ proc \in [CommanderProcs -> ProcSet(keysMade)]
        /\ ~disturbed => /\ KeyOf(proc[p], keyFile) /\ Fits(keyFile, recFile, entry)
                         /\ DoneBy(proc[p], hub, keyFile, recFile, entry) /\ Undisturbed
    BY <1>1, AtStep DEF ClientTypes
  <1>3. "record" \in ClientSteps
    BY DEF ClientSteps, UpSteps
  <1>4. /\ proc' = [proc EXCEPT ![p] = x] /\ x \in ProcSet(keysMade)
        /\ x.pc = "record" /\ x.cmd = proc[p].cmd /\ x.kp = proc[p].kp /\ x.rec = proc[p].rec
        /\ x.twice = proc[p].twice /\ x.said = proc[p].said
    BY <1>1, <1>2, <1>3, ToStepIs
  <1> HIDE DEF x
  <1>5. StepOf(x) /\ x.pc \notin FleetSteps /\ x.pc # "write"
    BY <1>1, <1>2, <1>4 DEF StepOf, FleetSteps, UpSteps, KeySteps
  <1>6. ASSUME ~disturbed
        PROVE  /\ KeyOf(x, keyFile')
               /\ \A q \in CommanderProcs \ {p} : KeyOf(proc[q], keyFile')
               /\ x.pc = "write" => \A q \in CommanderProcs \ {p} : proc[q].pc # "write"
               /\ AloneInFleet'
               /\ DoneBy(x, hub', keyFile', recFile', entry')
               /\ \A q \in CommanderProcs \ {p} : DoneBy(proc[q], hub', keyFile', recFile', entry')
               /\ Fits(keyFile', recFile', entry')
    <2>1. /\ entry.pin \in {0, hub.key} /\ entry.known /\ OfHub(proc[p].rec, hub, keyFile)
          /\ proc[p].cfg = [known |-> TRUE, pin |-> hub.key] /\ hub.admitted = keyFile
      BY <1>1, <1>2, <1>6 DEF DoneBy
    <2>2. entry'.known /\ entry'.pin = hub.key
      BY <1>1, <2>1
    <2>3. KeyOf(x, keyFile')
      BY <1>1, <1>2, <1>4, <1>6 DEF KeyOf, UpSteps
    <2>4. DoneBy(x, hub', keyFile', recFile', entry')
      BY <1>1, <1>2, <1>4, <1>5, <1>6, <2>1, <2>2 DEF DoneBy
    <2>5. \A q \in CommanderProcs \ {p} : DoneBy(proc[q], hub', keyFile', recFile', entry')
      <3> SUFFICES ASSUME NEW q \in CommanderProcs \ {p} PROVE DoneBy(proc[q], hub, keyFile, recFile, entry')
        BY <1>1
      <3>1. DoneBy(proc[q], hub, keyFile, recFile, entry)
        BY <1>2, <1>6 DEF Undisturbed
      <3> QED
        BY <2>2, <3>1 DEF DoneBy
    <2>6. AloneInFleet'
      BY <1>1, <1>2, <1>4, <1>5, <1>6, StaysAlone DEF FleetSteps
    <2>7. Fits(keyFile', recFile', entry')
      BY <1>1, <1>2, <1>6, <2>1, <2>2 DEF Fits, ClientTypes, Tunnels
    <2> QED
      BY <1>1, <1>2, <1>5, <1>6, <2>3, <2>4, <2>5, <2>6, <2>7 DEF Undisturbed
  <1>7. /\ keysMade' \in Nat /\ keysMade <= keysMade' /\ x \in ProcSet(keysMade')
        /\ hub' \in [key : 1..2, at : 1..2, admitted : 0..keysMade'] /\ keyFile' \in -1..keysMade'
        /\ recFile' \in Tunnels(keysMade') /\ svc' \in Tunnels(keysMade') /\ entry' \in Entries
    <2>1. proc[p].cfg \in Entries
      BY <1>2 DEF ProcSet
    <2> QED
      BY <1>1, <1>2, <1>4, <2>1 DEF ClientTypes
  <1> QED
    BY <1>1, <1>4, <1>5, <1>6, <1>7, OneSteps

\* The record is written whether the command goes on as x or has ended as x.
LEMMA SaveRecordStep ==
    ASSUME ClientInv, NEW p \in CommanderProcs, NEW x, proc[p].pc = "record",
           proc' = [proc EXCEPT ![p] = x], recFile' = proc[p].rec,
           UNCHANGED <<hub, keyFile, entry, unit, svc, keysMade, disturbed>>,
           x \in ProcSet(keysMade), StepOf(x), x.pc \in {"idle", "verify", "serviceLast"}, ~x.twice,
           x.pc # "idle" => x.kp = proc[p].kp /\ x.rec = proc[p].rec
    PROVE  ClientInv'
  <1>1. /\ ClientTypes /\ Running(p) /\ StepOf(proc[p]) /\ proc[p] \in ProcSet(keysMade)
        /\ keysMade \in Nat
        /\ proc \in [CommanderProcs -> ProcSet(keysMade)]
        /\ ~disturbed => /\ KeyOf(proc[p], keyFile) /\ Fits(keyFile, recFile, entry)
                         /\ DoneBy(proc[p], hub, keyFile, recFile, entry) /\ Undisturbed
    BY AtStep DEF ClientTypes
  <1>2. x.pc \notin FleetSteps /\ x.pc # "write"
    BY DEF FleetSteps
  <1>3. ASSUME ~disturbed
        PROVE  /\ KeyOf(x, keyFile')
               /\ \A q \in CommanderProcs \ {p} : KeyOf(proc[q], keyFile')
               /\ x.pc = "write" => \A q \in CommanderProcs \ {p} : proc[q].pc # "write"
               /\ AloneInFleet'
               /\ DoneBy(x, hub', keyFile', recFile', entry')
               /\ \A q \in CommanderProcs \ {p} : DoneBy(proc[q], hub', keyFile', recFile', entry')
               /\ Fits(keyFile', recFile', entry')
    <2>1. /\ entry.pin = hub.key /\ entry.known /\ OfHub(proc[p].rec, hub, keyFile)
          /\ hub.admitted = keyFile /\ keyFile > 0 /\ proc[p].kp = keyFile
      BY <1>1, <1>3 DEF DoneBy, KeyOf, UpSteps
    <2>2. OfHub(recFile', hub, keyFile)
      BY <2>1
    <2>3. KeyOf(x, keyFile')
      BY <2>1 DEF KeyOf, UpSteps
    <2>4. DoneBy(x, hub', keyFile', recFile', entry')
      BY <2>1, <2>2 DEF DoneBy
    <2>5. \A q \in CommanderProcs \ {p} : DoneBy(proc[q], hub', keyFile', recFile', entry')
      <3> SUFFICES ASSUME NEW q \in CommanderProcs \ {p} PROVE DoneBy(proc[q], hub, keyFile, recFile', entry)
        OBVIOUS
      <3>1. DoneBy(proc[q], hub, keyFile, recFile, entry)
        BY <1>1, <1>3 DEF Undisturbed
      <3> QED
        BY <2>1, <2>2, <3>1 DEF DoneBy
    <2>6. AloneInFleet'
      BY <1>1, <1>2, <1>3, StaysAlone DEF FleetSteps
    <2>7. Fits(keyFile', recFile', entry')
      BY <1>1, <2>1, <2>2 DEF Fits, OfHub, ClientTypes
    <2> QED
      BY <1>1, <1>2, <1>3, <2>3, <2>4, <2>5, <2>6, <2>7 DEF Undisturbed
  <1>4. /\ keysMade' \in Nat /\ keysMade <= keysMade' /\ x \in ProcSet(keysMade')
        /\ hub' \in [key : 1..2, at : 1..2, admitted : 0..keysMade'] /\ keyFile' \in -1..keysMade'
        /\ recFile' \in Tunnels(keysMade') /\ svc' \in Tunnels(keysMade') /\ entry' \in Entries
    <2>1. proc[p].rec \in Tunnels(keysMade)
      BY <1>1 DEF ProcSet
    <2> QED
      BY <1>1, <2>1 DEF ClientTypes
  <1> QED
    BY <1>3, <1>4, OneSteps

LEMMA SaveRecordKeeps == ASSUME ClientInv, NEW p \in CommanderProcs, SaveRecord(p) PROVE ClientInv'
  <1>1. /\ proc[p].pc = "record" /\ recFile' = proc[p].rec
        /\ UNCHANGED <<hub, keyFile, entry, unit, svc, keysMade, disturbed>>
    BY DEF SaveRecord
  <1>2. ClientTypes /\ StepOf(proc[p]) /\ proc[p].said = "nothing" /\ proc[p] \in ProcSet(keysMade)
    BY <1>1, AtStep
  <1>3. CASE proc[p].twice
    <2> DEFINE x == [Idle EXCEPT !.cmd = proc[p].cmd, !.said = "ok"]
    <2>1. /\ proc' = [proc EXCEPT ![p] = x] /\ x \in ProcSet(keysMade) /\ StepOf(x)
          /\ x.pc = "idle" /\ ~x.twice
      BY <1>2, <1>3, EndIs DEF SaveRecord
    <2> HIDE DEF x
    <2> QED
      BY <1>1, <2>1, SaveRecordStep
  <1>4. CASE ~proc[p].twice
    <2> DEFINE s == IF proc[p].cmd = "transparent" THEN "serviceLast" ELSE "verify"
               x == [proc[p] EXCEPT !.pc = s]
    <2>1. s \in ClientSteps /\ s \in {"serviceLast", "verify"}
      BY DEF ClientSteps, UpSteps
    <2>2. s = "serviceLast" <=> proc[p].cmd = "transparent"
      OBVIOUS
    <2>3. proc' = ToStep(p, s)
      BY <1>4 DEF SaveRecord
    <2> HIDE DEF s
    <2>4. /\ proc' = [proc EXCEPT ![p] = x] /\ x \in ProcSet(keysMade)
          /\ x.pc = s /\ x.cmd = proc[p].cmd /\ x.kp = proc[p].kp /\ x.rec = proc[p].rec
          /\ x.twice = proc[p].twice /\ x.said = proc[p].said
      BY <1>2, <2>1, <2>3, ToStepIs
    <2> HIDE DEF x
    <2>5. StepOf(x)
      BY <1>1, <1>2, <1>4, <2>1, <2>2, <2>4 DEF StepOf, FleetSteps, UpSteps, KeySteps
    <2> QED
      BY <1>1, <1>4, <2>1, <2>4, <2>5, SaveRecordStep
  <1> QED
    BY <1>3, <1>4

LEMMA VerifyKeeps == ASSUME ClientInv, NEW p \in CommanderProcs, Verify(p) PROVE ClientInv'
  <1>1. /\ proc[p].pc = "verify"
        /\ UNCHANGED <<hub, keyFile, recFile, entry, unit, svc, keysMade, disturbed>>
    BY DEF Verify, clientFiles
  <1>2. /\ ClientTypes /\ Running(p) /\ StepOf(proc[p]) /\ proc[p] \in ProcSet(keysMade)
        /\ proc[p].said = "nothing" /\ svc \in Tunnels(keysMade)
        /\ proc \in [CommanderProcs -> ProcSet(keysMade)]
        /\ ~disturbed => KeyOf(proc[p], keyFile) /\ DoneBy(proc[p], hub, keyFile, recFile, entry)
    BY <1>1, AtStep
  <1>3. CASE proc' = Ends(p, "failed")
    BY <1>1, <1>2, <1>3, EndKeeps
  <1>4. CASE CanOpenDevice(p) /\ Answers(Pooled(p, proc[p].rec))
    <2> DEFINE d == Pooled(p, proc[p].rec)
               x == [proc[p] EXCEPT !.dev = d, !.pc = "pin", !.twice = TRUE]
    <2>1. proc' = [proc EXCEPT ![p].dev = d, ![p].pc = "pin", ![p].twice = TRUE]
      BY <1>4 DEF Verify
    <2>2. proc[p].rec \in Tunnels(keysMade)
      BY <1>2 DEF ProcSet
    <2>3. d \in Tunnels(keysMade) /\ "pin" \in ClientSteps
      BY <1>2, <1>4, <2>2, LoadedIs DEF ClientSteps, UpSteps
    <2> HIDE DEF d
    <2>4. proc' = [proc EXCEPT ![p] = x]
      BY <1>2, <2>1
    <2>5. /\ x \in ProcSet(keysMade) /\ x.pc = "pin" /\ x.cmd = proc[p].cmd /\ x.kp = proc[p].kp
          /\ x.twice /\ x.said = proc[p].said /\ x.rec = proc[p].rec
      BY <1>2, <2>3 DEF ProcSet
    <2> HIDE DEF x
    <2>6. StepOf(x) /\ x.pc \notin FleetSteps /\ x.pc # "write"
      BY <1>1, <1>2, <2>5 DEF StepOf, FleetSteps, UpSteps, KeySteps
    <2>7. ~disturbed => KeyOf(x, keyFile) /\ DoneBy(x, hub, keyFile, recFile, entry)
      BY <1>1, <1>2, <2>5, <2>6 DEF KeyOf, DoneBy, UpSteps
    <2> QED
      BY <1>1, <1>2, <2>4, <2>5, <2>6, <2>7, QuietStep
  <1> QED
    BY <1>3, <1>4 DEF Verify

\* The commands that only end.
LEMMA OneShotKeeps ==
    ASSUME ClientInv, NEW p \in CommanderProcs, ProbeHub(p) \/ Dial(p) \/ Down(p) \/ KillCommand(p)
    PROVE  ClientInv'
  <1>1. CASE ProbeHub(p)
    <2>1. /\ proc[p].pc = "probe"
          /\ UNCHANGED <<hub, keyFile, recFile, entry, unit, svc, keysMade, disturbed>>
      BY <1>1 DEF ProbeHub, clientFiles
    <2>2. Running(p) /\ svc \in Tunnels(keysMade)
      BY <2>1, AtStep
    <2>3. \/ proc' = Ends(p, "failed") \/ proc' = Ends(p, "reached")
          \/ proc' = Ends(p, "noanswer") \/ proc' = Ends(p, "unproven")
      BY <1>1 DEF ProbeHub
    <2> QED
      BY <2>1, <2>2, <2>3, EndKeeps
  <1>2. CASE Dial(p)
    <2>1. /\ proc[p].pc = "dial"
          /\ UNCHANGED <<hub, keyFile, recFile, entry, unit, svc, keysMade, disturbed>>
      BY <1>2 DEF Dial, clientFiles
    <2>2. Running(p) /\ svc \in Tunnels(keysMade)
      BY <2>1, AtStep
    <2>3. proc' = Ends(p, "failed") \/ proc' = Ends(p, "reached")
      BY <1>2 DEF Dial
    <2> QED
      BY <2>1, <2>2, <2>3, EndKeeps
  <1>3. CASE Down(p)
    <2>1. /\ proc[p].pc = "down"
          /\ UNCHANGED <<hub, keyFile, recFile, entry, unit, keysMade, disturbed>>
      BY <1>3 DEF Down, clientFiles
    <2>2. Running(p) /\ svc \in Tunnels(keysMade) /\ proc[p].cmd = "down" /\ keysMade \in Nat
      BY <2>1, AtStep DEF StepOf, ClientTypes
    <2>3. svc' = svc \/ svc' = NoRec
      BY <1>3 DEF Down
    <2>4. svc' \in Tunnels(keysMade)
      BY <2>2, <2>3 DEF NoRec, Tunnels
    <2>5. proc' = Ends(p, "failed") \/ proc' = Ends(p, "ok")
      BY <1>3 DEF Down
    <2> QED
      BY <2>1, <2>2, <2>4, <2>5, EndKeeps
  <1>4. CASE KillCommand(p)
    <2>1. /\ Running(p) /\ proc' = Ends(p, "killed")
          /\ UNCHANGED <<hub, keyFile, recFile, entry, unit, svc, keysMade, disturbed>>
      BY <1>4 DEF KillCommand, clientFiles
    <2>2. svc \in Tunnels(keysMade)
      BY DEF ClientInv, ClientTypes
    <2> QED
      BY <2>1, <2>2, EndKeeps
  <1> QED
    BY <1>1, <1>2, <1>3, <1>4

\* Beside a fleet add or remove nobody works, and a remove has overtaken what
\* the ups have answered.
LEMMA FleetAlone ==
    ASSUME ClientInv, ~disturbed, NEW p \in CommanderProcs, proc[p].pc \in FleetSteps
    PROVE  /\ \A q \in CommanderProcs \ {p} : proc[q].pc = "idle" /\ ~proc[q].twice
           /\ \A q \in CommanderProcs \ {p} : \A f : KeyOf(proc[q], f)
           /\ \A q \in CommanderProcs \ {p} : \A f, r, n :
                  ~(proc[q].said = "ok" /\ proc[q].cmd = "up") => DoneBy(proc[q], hub, f, r, n)
           /\ proc[p].cmd = "remove" =>
                  \A q \in CommanderProcs : ~(proc[q].said = "ok" /\ proc[q].cmd = "up")
  <1>1. AloneInFleet /\ \A q \in CommanderProcs : StepOf(proc[q])
    BY DEF ClientInv, Undisturbed
  <1>2. \A q \in CommanderProcs \ {p} : proc[q].pc = "idle"
    BY <1>1 DEF AloneInFleet, Running
  <1>3. \A q \in CommanderProcs \ {p} : ~proc[q].twice
    BY <1>1, <1>2 DEF StepOf
  <1>4. \A q \in CommanderProcs \ {p} : \A f : KeyOf(proc[q], f)
    BY <1>2 DEF KeyOf, UpSteps
  <1>5. \A q \in CommanderProcs \ {p} : \A f, r, n :
            ~(proc[q].said = "ok" /\ proc[q].cmd = "up") => DoneBy(proc[q], hub, f, r, n)
    BY <1>2, <1>3 DEF DoneBy
  <1>6. proc[p].cmd = "remove" =>
            \A q \in CommanderProcs : ~(proc[q].said = "ok" /\ proc[q].cmd = "up")
    BY <1>1 DEF AloneInFleet
  <1> QED
    BY <1>2, <1>3, <1>4, <1>5, <1>6

\* A fleet add or remove goes on to x, and a remove may forget a file.
LEMMA FleetStep ==
    ASSUME ClientInv, NEW p \in CommanderProcs, NEW x, proc' = [proc EXCEPT ![p] = x],
           proc[p].pc \in FleetSteps, x.pc \in FleetSteps, x.cmd = proc[p].cmd,
           x \in ProcSet(keysMade), x.said = "nothing", ~x.twice, StepOf(x),
           UNCHANGED <<hub, entry, unit, svc, keysMade, disturbed>>,
           keyFile' \in -1..keysMade, recFile' \in Tunnels(keysMade),
           proc[p].cmd = "remove" \/ UNCHANGED <<keyFile, recFile>>,
           ~disturbed => Fits(keyFile', recFile', entry),
           ~disturbed => /\ x.pc = "config2" /\ x.cmd = "remove" => recFile' = NoRec
                         /\ x.pc = "config2" /\ x.cmd = "add" => ~entry.known
                         /\ x.pc = "forgetKey" => recFile' = NoRec
    PROVE  ClientInv'
  <1>1. ClientTypes /\ proc \in [CommanderProcs -> ProcSet(keysMade)] /\ keysMade \in Nat
    BY DEF ClientInv, ClientTypes
  <1>2. proc'[p] = x /\ \A q \in CommanderProcs \ {p} : proc'[q] = proc[q]
    BY <1>1
  <1>3. ASSUME ~disturbed
        PROVE  /\ KeyOf(x, keyFile')
               /\ \A q \in CommanderProcs \ {p} : KeyOf(proc[q], keyFile')
               /\ x.pc = "write" => \A q \in CommanderProcs \ {p} : proc[q].pc # "write"
               /\ AloneInFleet'
               /\ DoneBy(x, hub', keyFile', recFile', entry')
               /\ \A q \in CommanderProcs \ {p} : DoneBy(proc[q], hub', keyFile', recFile', entry')
               /\ Fits(keyFile', recFile', entry')
    <2>1. /\ \A q \in CommanderProcs \ {p} : proc[q].pc = "idle" /\ ~proc[q].twice
          /\ \A q \in CommanderProcs \ {p} : \A f : KeyOf(proc[q], f)
          /\ \A q \in CommanderProcs \ {p} : \A f, r, n :
                 ~(proc[q].said = "ok" /\ proc[q].cmd = "up") => DoneBy(proc[q], hub, f, r, n)
          /\ proc[p].cmd = "remove" =>
                 \A q \in CommanderProcs : ~(proc[q].said = "ok" /\ proc[q].cmd = "up")
      BY <1>3, FleetAlone
    <2>2. KeyOf(x, keyFile') /\ x.pc # "write"
      BY DEF KeyOf, FleetSteps, UpSteps
    <2>3. DoneBy(x, hub', keyFile', recFile', entry')
      BY DEF DoneBy, FleetSteps
    <2>4. \A q \in CommanderProcs \ {p} : DoneBy(proc[q], hub', keyFile', recFile', entry')
      <3>1. CASE proc[p].cmd = "remove"
        BY <2>1, <3>1
      <3>2. CASE UNCHANGED <<keyFile, recFile>>
        BY <1>3, <3>2 DEF ClientInv, Undisturbed
      <3> QED
        BY <3>1, <3>2
    <2>5. AloneInFleet'
      <3>1. \A q \in CommanderProcs : proc'[q].pc \in FleetSteps => q = p
        BY <1>2, <2>1 DEF FleetSteps
      <3>2. \A q \in CommanderProcs : q # p => proc'[q].pc = "idle"
        BY <1>2, <2>1
      <3>3. proc'[p].cmd = "remove" =>
                \A q \in CommanderProcs : ~(proc'[q].said = "ok" /\ proc'[q].cmd = "up")
        BY <1>2, <2>1
      <3> QED
        BY <1>2, <1>3, <3>1, <3>2, <3>3 DEF AloneInFleet, Running
    <2> QED
      BY <1>3, <2>1, <2>2, <2>3, <2>4, <2>5
  <1>4. /\ keysMade' \in Nat /\ keysMade <= keysMade' /\ x \in ProcSet(keysMade')
        /\ hub' \in [key : 1..2, at : 1..2, admitted : 0..keysMade'] /\ keyFile' \in -1..keysMade'
        /\ recFile' \in Tunnels(keysMade') /\ svc' \in Tunnels(keysMade') /\ entry' \in Entries
    BY <1>1 DEF ClientTypes
  <1> QED
    BY <1>3, <1>4, OneSteps

LEMMA FleetReadKeeps == ASSUME ClientInv, NEW p \in CommanderProcs, FleetRead(p) PROVE ClientInv'
  <1>1. /\ proc[p].pc = "read"
        /\ UNCHANGED <<hub, keyFile, recFile, entry, unit, svc, keysMade, disturbed>>
    BY DEF FleetRead, clientFiles
  <1>2. /\ ClientTypes /\ Running(p) /\ StepOf(proc[p]) /\ proc[p] \in ProcSet(keysMade)
        /\ proc[p].said = "nothing" /\ svc \in Tunnels(keysMade)
        /\ proc \in [CommanderProcs -> ProcSet(keysMade)]
        /\ ~disturbed => Fits(keyFile, recFile, entry)
    BY <1>1, AtStep
  <1> DEFINE removing == proc[p].cmd = "remove"
             c == [known |-> ~removing, pin |-> 0]
             s == IF removing THEN "forgetRecord" ELSE "config2"
  <1>3. CASE entry.known # removing
    BY <1>1, <1>2, <1>3, EndKeeps DEF FleetRead
  <1>4. CASE ~(entry.known # removing)
    <2> DEFINE x == [proc[p] EXCEPT !.cfg = c, !.pc = s]
    <2>1. proc' = [proc EXCEPT ![p].cfg = c, ![p].pc = s]
      BY <1>4 DEF FleetRead
    <2>2. c \in Entries /\ s \in ClientSteps /\ s \in {"forgetRecord", "config2"} /\ s \in FleetSteps
      BY DEF Entries, ClientSteps, FleetSteps
    <2>3. s = "forgetRecord" <=> proc[p].cmd = "remove"
      OBVIOUS
    <2>4. proc[p].cmd # "remove" => ~entry.known
      BY <1>4
    <2> HIDE DEF c, s, removing
    <2>5. proc' = [proc EXCEPT ![p] = x]
      BY <1>2, <2>1
    <2>6. /\ x \in ProcSet(keysMade) /\ x.pc = s /\ x.cmd = proc[p].cmd
          /\ x.twice = proc[p].twice /\ x.said = proc[p].said
      BY <1>2, <2>2 DEF ProcSet
    <2> HIDE DEF x
    <2>7. proc[p].cmd \in {"remove", "add"} /\ ~proc[p].twice /\ proc[p].pc \in FleetSteps
      BY <1>1, <1>2 DEF StepOf, FleetSteps
    <2>8. StepOf(x)
      BY <1>2, <2>2, <2>3, <2>6, <2>7 DEF StepOf, FleetSteps, UpSteps, KeySteps
    <2>9. keyFile' \in -1..keysMade /\ recFile' \in Tunnels(keysMade)
      BY <1>1, <1>2 DEF ClientTypes
    <2>10. /\ x.pc = "config2" /\ x.cmd = "remove" => recFile' = NoRec
           /\ x.pc = "config2" /\ x.cmd = "add" => ~entry.known
           /\ x.pc = "forgetKey" => recFile' = NoRec
      BY <2>2, <2>3, <2>4, <2>6
    <2> QED
      BY <1>1, <1>2, <2>2, <2>5, <2>6, <2>7, <2>8, <2>9, <2>10, FleetStep
  <1> QED
    BY <1>3, <1>4

LEMMA ForgetFilesKeeps ==
    ASSUME ClientInv, NEW p \in CommanderProcs, ForgetRecord(p) \/ ForgetKey(p) PROVE ClientInv'
  <1> DEFINE s == IF proc[p].pc = "forgetRecord" THEN "forgetKey" ELSE "config2"
             x == [proc[p] EXCEPT !.pc = s]
  <1>1. /\ proc[p].pc \in {"forgetRecord", "forgetKey"} /\ proc' = ToStep(p, s)
        /\ UNCHANGED <<hub, entry, unit, svc, keysMade, disturbed>>
        /\ \/ proc[p].pc = "forgetRecord" /\ recFile' = NoRec /\ keyFile' = keyFile
           \/ proc[p].pc = "forgetKey" /\ recFile' = recFile /\ keyFile' = NoFile
    BY DEF ForgetRecord, ForgetKey
  <1>2. /\ s \in {"forgetKey", "config2"} /\ s \in ClientSteps /\ s \in FleetSteps
        /\ proc[p].pc \in FleetSteps
    BY <1>1 DEF ClientSteps, FleetSteps
  <1> HIDE DEF s
  <1>3. /\ ClientTypes /\ StepOf(proc[p]) /\ proc[p].said = "nothing" /\ keysMade \in Nat
        /\ ~disturbed => Fits(keyFile, recFile, entry) /\ Undisturbed
    BY <1>1, AtStep DEF ClientTypes
  <1>4. /\ proc' = [proc EXCEPT ![p] = x] /\ x \in ProcSet(keysMade)
        /\ x.pc = s /\ x.cmd = proc[p].cmd
        /\ x.twice = proc[p].twice /\ x.said = proc[p].said
    BY <1>1, <1>2, <1>3, ToStepIs
  <1> HIDE DEF x
  <1>5. proc[p].cmd = "remove" /\ ~proc[p].twice
    BY <1>1, <1>3 DEF StepOf
  <1>6. StepOf(x)
    BY <1>2, <1>3, <1>4, <1>5 DEF StepOf, FleetSteps, UpSteps, KeySteps
  <1>7. keyFile' \in -1..keysMade /\ recFile' \in Tunnels(keysMade)
    BY <1>1, <1>3 DEF ClientTypes, NoFile, NoRec, Tunnels
  <1>8. ~disturbed => recFile' = NoRec
    BY <1>1, <1>2, <1>3 DEF Undisturbed, AloneInFleet
  <1>9. ~disturbed => Fits(keyFile', recFile', entry)
    BY <1>8 DEF Fits
  <1> QED
    BY <1>1, <1>2, <1>3, <1>4, <1>5, <1>6, <1>7, <1>8, <1>9, FleetStep

LEMMA FleetWriteKeeps == ASSUME ClientInv, NEW p \in CommanderProcs, FleetWrite(p) PROVE ClientInv'
  <1> DEFINE x == [Idle EXCEPT !.cmd = proc[p].cmd, !.said = "ok"]
  <1>1. /\ proc[p].pc = "config2" /\ entry' = proc[p].cfg /\ proc' = Ends(p, "ok")
        /\ UNCHANGED <<hub, keyFile, recFile, unit, svc, keysMade, disturbed>>
    BY DEF FleetWrite
  <1>2. /\ ClientTypes /\ StepOf(proc[p]) /\ proc[p] \in ProcSet(keysMade) /\ keysMade \in Nat
        /\ proc \in [CommanderProcs -> ProcSet(keysMade)]
        /\ ~disturbed => Fits(keyFile, recFile, entry) /\ Undisturbed
    BY <1>1, AtStep DEF ClientTypes
  <1>3. /\ proc' = [proc EXCEPT ![p] = x] /\ x \in ProcSet(keysMade) /\ StepOf(x)
        /\ x.pc = "idle" /\ x.cmd = proc[p].cmd /\ x.said = "ok" /\ ~x.twice
        /\ KeyOf(x, keyFile)
    BY <1>1, <1>2, EndIs
  <1> HIDE DEF x
  <1>4. proc[p].cmd \in {"remove", "add"} /\ proc[p].pc \in FleetSteps
    BY <1>1, <1>2 DEF StepOf, FleetSteps
  <1>5. ASSUME ~disturbed
        PROVE  /\ KeyOf(x, keyFile')
               /\ \A q \in CommanderProcs \ {p} : KeyOf(proc[q], keyFile')
               /\ x.pc = "write" => \A q \in CommanderProcs \ {p} : proc[q].pc # "write"
               /\ AloneInFleet'
               /\ DoneBy(x, hub', keyFile', recFile', entry')
               /\ \A q \in CommanderProcs \ {p} : DoneBy(proc[q], hub', keyFile', recFile', entry')
               /\ Fits(keyFile', recFile', entry')
    <2>1. /\ \A q \in CommanderProcs \ {p} : proc[q].pc = "idle" /\ ~proc[q].twice
          /\ \A q \in CommanderProcs \ {p} : \A f : KeyOf(proc[q], f)
          /\ \A q \in CommanderProcs \ {p} : \A f, r, n :
                 ~(proc[q].said = "ok" /\ proc[q].cmd = "up") => DoneBy(proc[q], hub, f, r, n)
          /\ proc[p].cmd = "remove" =>
                 \A q \in CommanderProcs : ~(proc[q].said = "ok" /\ proc[q].cmd = "up")
      BY <1>4, <1>5, FleetAlone
    <2>2. proc[p].cmd = "add" => ~entry.known
      BY <1>1, <1>2, <1>4, <1>5 DEF Undisturbed, AloneInFleet
    <2>3. recFile = NoRec
      BY <1>1, <1>2, <1>4, <1>5, <2>2 DEF Undisturbed, AloneInFleet, Fits
    <2>4. \A q \in CommanderProcs \ {p} : ~(proc[q].said = "ok" /\ proc[q].cmd = "up")
      BY <1>2, <1>4, <1>5, <2>1, <2>2 DEF Undisturbed, DoneBy
    <2>5. \A q \in CommanderProcs \ {p} : DoneBy(proc[q], hub', keyFile', recFile', entry')
      BY <1>1, <2>1, <2>4
    <2>6. DoneBy(x, hub', keyFile', recFile', entry')
      BY <1>3, <1>4 DEF DoneBy
    <2>7. AloneInFleet'
      <3>1. \A q \in CommanderProcs : proc'[q].pc = "idle"
        BY <1>2, <1>3, <2>1
      <3> QED
        BY <3>1 DEF AloneInFleet, FleetSteps
    <2>8. Fits(keyFile', recFile', entry')
      BY <1>1, <2>3 DEF Fits
    <2> QED
      BY <1>1, <1>3, <2>1, <2>5, <2>6, <2>7, <2>8
  <1>6. /\ keysMade' \in Nat /\ keysMade <= keysMade' /\ x \in ProcSet(keysMade')
        /\ hub' \in [key : 1..2, at : 1..2, admitted : 0..keysMade'] /\ keyFile' \in -1..keysMade'
        /\ recFile' \in Tunnels(keysMade') /\ svc' \in Tunnels(keysMade') /\ entry' \in Entries
    <2>1. proc[p].cfg \in Entries
      BY <1>2 DEF ProcSet
    <2> QED
      BY <1>1, <1>2, <1>3, <2>1 DEF ClientTypes
  <1> QED
    BY <1>1, <1>3, <1>5, <1>6, OneSteps

\* The processes with their answers overtaken.
LEMMA OvertakenIs ==
    ASSUME ClientTypes
    PROVE  /\ Overtaken \in [CommanderProcs -> ProcSet(keysMade)]
           /\ \A p \in CommanderProcs :
                  /\ Overtaken[p].pc = proc[p].pc /\ Overtaken[p].cmd = proc[p].cmd
                  /\ Overtaken[p].twice = proc[p].twice /\ Overtaken[p].said = "nothing"
                  /\ StepOf(proc[p]) => StepOf(Overtaken[p])
  <1>1. ASSUME NEW p \in CommanderProcs
        PROVE  /\ Overtaken[p] \in ProcSet(keysMade)
               /\ Overtaken[p].pc = proc[p].pc /\ Overtaken[p].cmd = proc[p].cmd
               /\ Overtaken[p].twice = proc[p].twice /\ Overtaken[p].said = "nothing"
    <2>1. proc[p] \in ProcSet(keysMade)
      BY DEF ClientTypes
    <2>2. Overtaken[p] = [proc[p] EXCEPT !.said = "nothing"]
      BY DEF Overtaken
    <2> QED
      BY <2>1, <2>2 DEF ProcSet
  <1>2. Overtaken \in [CommanderProcs -> ProcSet(keysMade)]
    BY <1>1 DEF Overtaken
  <1>3. \A p \in CommanderProcs : StepOf(proc[p]) => StepOf(Overtaken[p])
    BY <1>1 DEF StepOf
  <1> QED
    BY <1>1, <1>2, <1>3

\* Between commands nothing but the record on the disk is at stake.
LEMMA NobodyWorks ==
    ASSUME \A p \in CommanderProcs : proc[p].pc = "idle" /\ ~proc[p].twice /\ proc[p].said # "ok",
           Fits(keyFile, recFile, entry)
    PROVE  Undisturbed
  <1>1. \A p \in CommanderProcs : KeyOf(proc[p], keyFile)
    BY DEF KeyOf, UpSteps
  <1>2. \A p \in CommanderProcs : DoneBy(proc[p], hub, keyFile, recFile, entry)
    BY DEF DoneBy
  <1>3. OneWriter /\ AloneInFleet
    BY DEF OneWriter, AloneInFleet, FleetSteps
  <1> QED
    BY <1>1, <1>2, <1>3 DEF Undisturbed

LEMMA HubChangesKeeps == ASSUME ClientInv, HubChanges PROVE ClientInv'
  <1>1. /\ disturbed' = (disturbed \/ \E p \in CommanderProcs : Running(p))
        /\ proc' = Overtaken /\ UNCHANGED <<keyFile, recFile, entry, unit, svc, keysMade>>
        /\ \/ hub' = [hub EXCEPT !.at = 3 - @]
           \/ hub' = [hub EXCEPT !.key = 3 - @, !.admitted = 0]
           \/ hub' = [hub EXCEPT !.admitted = 0]
    BY DEF HubChanges, clientFiles
  <1>2. ClientTypes /\ \A p \in CommanderProcs : StepOf(proc[p])
    BY DEF ClientInv
  <1>3. /\ proc' \in [CommanderProcs -> ProcSet(keysMade')]
        /\ \A p \in CommanderProcs :
                  /\ proc'[p].pc = proc[p].pc /\ proc'[p].twice = proc[p].twice
                  /\ proc'[p].said = "nothing" /\ StepOf(proc'[p])
    BY <1>1, <1>2, OvertakenIs
  <1>4. hub' \in [key : 1..2, at : 1..2, admitted : 0..keysMade]
    <2>1. hub \in [key : 1..2, at : 1..2, admitted : 0..keysMade] /\ keysMade \in Nat
      BY <1>2 DEF ClientTypes
    <2>2. 3 - hub.at \in 1..2 /\ 3 - hub.key \in 1..2 /\ 0 \in 0..keysMade
      BY <2>1
    <2> QED
      BY <1>1, <2>1, <2>2
  <1>5. ClientTypes'
    BY <1>1, <1>2, <1>3, <1>4 DEF ClientTypes
  <1>6. ASSUME ~disturbed' PROVE Undisturbed'
    <2>1. ~disturbed /\ \A p \in CommanderProcs : proc[p].pc = "idle"
      BY <1>1, <1>6 DEF Running
    <2>2. \A p \in CommanderProcs : proc'[p].pc = "idle" /\ ~proc'[p].twice /\ proc'[p].said # "ok"
      BY <1>2, <1>3, <2>1 DEF StepOf
    <2>3. Fits(keyFile', recFile', entry')
      BY <1>1, <2>1 DEF ClientInv, Undisturbed
    <2>4. \A p \in CommanderProcs : KeyOf(proc'[p], keyFile')
      BY <2>2 DEF KeyOf, UpSteps
    <2>5. \A p \in CommanderProcs : DoneBy(proc'[p], hub', keyFile', recFile', entry')
      BY <2>2 DEF DoneBy
    <2>6. OneWriter' /\ AloneInFleet'
      BY <2>2 DEF OneWriter, AloneInFleet, FleetSteps
    <2> QED
      BY <2>3, <2>4, <2>5, <2>6 DEF Undisturbed
  <1> QED
    BY <1>3, <1>5, <1>6 DEF ClientInv

\* The unit and the service are no part of what the commands agree on.
LEMMA UnitKeeps == ASSUME ClientInv, InstallUnit \/ UninstallUnit PROVE ClientInv'
  <1>1. UNCHANGED <<hub, keyFile, recFile, entry, proc, keysMade, disturbed>>
    BY Zenon DEF InstallUnit, UninstallUnit, clientFiles
  <1>s. svc' = NoRec \/ (keyFile > 0 /\ svc' = ServiceRecord)
    BY Zenon DEF InstallUnit, UninstallUnit
  <1>u. unit' \in BOOLEAN
    BY Zenon DEF InstallUnit, UninstallUnit
  <1>2. ClientTypes
    BY DEF ClientInv
  <1>3. svc' \in Tunnels(keysMade)
    <2>1. keysMade \in Nat /\ recFile \in Tunnels(keysMade) /\ keyFile \in -1..keysMade
      BY <1>2 DEF ClientTypes
    <2>2. NoRec \in Tunnels(keysMade)
      BY <2>1 DEF NoRec, Tunnels
    <2>3. keyFile > 0 => ServiceRecord \in Tunnels(keysMade)
      BY <2>1 DEF ServiceRecord, Tunnels
    <2> QED
      BY <1>s, <2>2, <2>3
  <1>4. ClientTypes'
    BY <1>1, <1>u, <1>2, <1>3 DEF ClientTypes
  <1>5. ~disturbed' => Undisturbed'
    BY <1>1 DEF ClientInv, Undisturbed, OneWriter, AloneInFleet, Running
  <1> QED
    BY <1>1, <1>4, <1>5 DEF ClientInv

\* A command at its first step.
LEMMA FirstIs ==
    ASSUME ClientTypes, NEW c \in CommanderCommands
    PROVE  LET x == [Idle EXCEPT !.cmd = c, !.pc = FirstStep(c)]
           IN /\ x \in ProcSet(keysMade) /\ StepOf(x) /\ x.cmd = c /\ x.said = "nothing" /\ ~x.twice
              /\ x.pc \in {"key", "down", "dial", "read"}
              /\ x.pc = "read" <=> c \in {"remove", "add"}
  <1> DEFINE x == [Idle EXCEPT !.cmd = c, !.pc = FirstStep(c)]
  <1>1. keysMade \in Nat
    BY DEF ClientTypes
  <1>2. NoRec \in Tunnels(keysMade) /\ NoDev \in Tunnels(keysMade) /\ NoCfg \in Entries
    BY <1>1 DEF NoRec, NoDev, NoCfg, Tunnels, Entries
  <1>3. "none" \in CommanderCommands \cup {"none"} /\ "idle" \in ClientSteps /\ 0 \in 0..keysMade
    BY <1>1 DEF ClientSteps
  <1>4. Idle \in ProcSet(keysMade)
    BY <1>2, <1>3 DEF Idle, ProcSet
  <1>5. /\ FirstStep(c) \in {"key", "down", "dial", "read"}
        /\ FirstStep(c) = "key" <=> c \in {"up", "transparent", "probe"}
        /\ FirstStep(c) = "down" <=> c = "down"
        /\ FirstStep(c) = "dial" <=> c = "dial"
        /\ FirstStep(c) = "read" <=> c \in {"remove", "add"}
    BY DEF FirstStep, CommanderCommands
  <1>6. FirstStep(c) \in ClientSteps
    BY <1>5 DEF ClientSteps, KeySteps, FleetSteps
  <1>7. ~Idle.twice /\ Idle.said = "nothing"
    BY DEF Idle
  <1>8. /\ x \in ProcSet(keysMade) /\ x.cmd = c /\ x.pc = FirstStep(c)
        /\ x.twice = Idle.twice /\ x.said = Idle.said
    BY <1>4, <1>6 DEF ProcSet
  <1> HIDE DEF x
  <1>9. StepOf(x)
    BY <1>5, <1>7, <1>8 DEF StepOf, FleetSteps, UpSteps, KeySteps
  <1> QED
    BY <1>5, <1>7, <1>8, <1>9 DEF x

LEMMA StartKeeps ==
    ASSUME ClientInv, NEW p \in CommanderProcs, NEW c \in CommanderCommands, StartCommand(p, c)
    PROVE  ClientInv'
  <1> DEFINE x == [Idle EXCEPT !.cmd = c, !.pc = FirstStep(c)]
             before == IF c = "remove" THEN Overtaken ELSE proc
  <1>1. /\ ~Running(p) /\ proc' = [before EXCEPT ![p] = x]
        /\ disturbed' = (disturbed \/ \E q \in CommanderProcs :
                                     Running(q) /\ {c, proc[q].cmd} \cap {"remove", "add"} # {})
        /\ UNCHANGED <<hub, keyFile, recFile, entry, unit, svc, keysMade>>
    BY DEF StartCommand, clientFiles
  <1>2. ClientTypes /\ \A q \in CommanderProcs : StepOf(proc[q])
    BY DEF ClientInv
  <1>3. /\ x \in ProcSet(keysMade) /\ StepOf(x) /\ x.cmd = c /\ x.said = "nothing" /\ ~x.twice
        /\ x.pc \in {"key", "down", "dial", "read"}
        /\ x.pc = "read" <=> c \in {"remove", "add"}
    BY <1>2, FirstIs
  <1> HIDE DEF x
  <1>4. /\ before \in [CommanderProcs -> ProcSet(keysMade)]
        /\ \A q \in CommanderProcs :
                  /\ before[q].pc = proc[q].pc /\ before[q].cmd = proc[q].cmd
                  /\ before[q].twice = proc[q].twice /\ StepOf(before[q])
                  /\ c = "remove" => before[q].said = "nothing"
                  /\ c # "remove" => before[q] = proc[q]
    BY <1>2, OvertakenIs DEF ClientTypes
  <1> HIDE DEF before
  <1>5. /\ proc' \in [CommanderProcs -> ProcSet(keysMade)] /\ proc'[p] = x
        /\ \A q \in CommanderProcs \ {p} : proc'[q] = before[q]
    BY <1>1, <1>3, <1>4
  <1>6. disturbed' \in BOOLEAN
    BY <1>1, <1>2 DEF ClientTypes
  <1>7. ClientTypes'
    BY <1>1, <1>2, <1>5, <1>6 DEF ClientTypes
  <1>8. \A q \in CommanderProcs : StepOf(proc'[q])
    BY <1>3, <1>4, <1>5
  <1>9. ASSUME ~disturbed' PROVE Undisturbed'
    <2>1. ~disturbed /\ Undisturbed
      BY <1>1, <1>9 DEF ClientInv
    <2>2. Fits(keyFile', recFile', entry')
      BY <1>1, <2>1 DEF Undisturbed
    <2>3. KeyOf(x, keyFile) /\ DoneBy(x, hub, keyFile, recFile, entry) /\ x.pc # "write"
      BY <1>3 DEF KeyOf, DoneBy, UpSteps
    <2>4. CASE c \in {"remove", "add"}
      <3>1. \A q \in CommanderProcs : proc[q].pc = "idle"
        BY <1>1, <1>9, <2>4 DEF Running
      <3>2. \A q \in CommanderProcs \ {p} : proc'[q].pc = "idle" /\ ~proc'[q].twice
        BY <1>4, <1>5, <1>8, <3>1 DEF StepOf
      <3>3. \A q \in CommanderProcs : KeyOf(proc'[q], keyFile')
        BY <1>1, <1>5, <2>3, <3>2 DEF KeyOf, UpSteps
      <3>4. \A q \in CommanderProcs : DoneBy(proc'[q], hub', keyFile', recFile', entry')
        <4>1. CASE c = "remove"
          BY <1>1, <1>4, <1>5, <2>3, <3>2, <4>1 DEF DoneBy
        <4>2. CASE c # "remove"
          BY <1>1, <1>4, <1>5, <2>1, <2>3, <4>2 DEF Undisturbed
        <4> QED
          BY <4>1, <4>2
      <3>5. OneWriter'
        BY <1>5, <2>3, <3>2 DEF OneWriter
      <3>6. AloneInFleet'
        <4>1. \A q \in CommanderProcs : proc'[q].pc \in FleetSteps => q = p
          BY <3>2 DEF FleetSteps
        <4>2. c = "remove" => \A q \in CommanderProcs : proc'[q].said = "nothing"
          BY <1>3, <1>4, <1>5
        <4>3. proc'[p].pc = "read" /\ proc'[p].cmd = c
          BY <1>3, <1>5, <2>4
        <4> QED
          BY <3>2, <4>1, <4>2, <4>3 DEF AloneInFleet, Running
      <3> QED
        BY <2>2, <3>3, <3>4, <3>5, <3>6 DEF Undisturbed
    <2>5. CASE c \notin {"remove", "add"}
      <3>1. \A q \in CommanderProcs \ {p} : proc'[q] = proc[q]
        BY <1>4, <1>5, <2>5
      <3>2. \A q \in CommanderProcs : proc[q].pc \notin FleetSteps
        BY <1>1, <1>2, <1>9 DEF Running, StepOf
      <3>3. \A q \in CommanderProcs : proc'[q].pc \notin FleetSteps
        BY <1>3, <1>5, <2>5, <3>1, <3>2 DEF FleetSteps
      <3>4. \A q \in CommanderProcs : KeyOf(proc'[q], keyFile')
        BY <1>1, <1>5, <2>1, <2>3, <3>1 DEF Undisturbed
      <3>5. \A q \in CommanderProcs : DoneBy(proc'[q], hub', keyFile', recFile', entry')
        BY <1>1, <1>5, <2>1, <2>3, <3>1 DEF Undisturbed
      <3>6. OneWriter'
        BY <1>5, <2>1, <2>3, <3>1 DEF Undisturbed, OneWriter
      <3>7. AloneInFleet'
        BY <3>3 DEF AloneInFleet
      <3> QED
        BY <2>2, <3>4, <3>5, <3>6, <3>7 DEF Undisturbed
    <2> QED
      BY <2>4, <2>5
  <1> QED
    BY <1>7, <1>8, <1>9 DEF ClientInv

LEMMA ClientStarts == ASSUME ClientInit PROVE ClientInv
  <1>1. /\ hub = [key |-> 1, at |-> 1, admitted |-> 0] /\ keyFile = 0 /\ recFile = NoRec
        /\ entry = [known |-> TRUE, pin |-> 0] /\ unit = TRUE /\ svc = NoRec
        /\ proc = [p \in CommanderProcs |-> Idle] /\ keysMade = 0 /\ disturbed = FALSE
    BY DEF ClientInit, NoFile
  <1>2. NoRec \in Tunnels(0) /\ NoDev \in Tunnels(0) /\ NoCfg \in Entries
    BY DEF NoRec, NoDev, NoCfg, Tunnels, Entries
  <1>3. "none" \in CommanderCommands \cup {"none"} /\ "idle" \in ClientSteps /\ 0 \in 0..0
    BY DEF ClientSteps
  <1>4. Idle \in ProcSet(0)
    BY <1>2, <1>3 DEF Idle, ProcSet
  <1>5. Idle.pc = "idle" /\ ~Idle.twice /\ Idle.said = "nothing"
    BY DEF Idle
  <1>6. StepOf(Idle)
    BY <1>5 DEF StepOf, FleetSteps, UpSteps, KeySteps
  <1>7. /\ hub \in [key : 1..2, at : 1..2, admitted : 0..keysMade] /\ keyFile \in -1..keysMade
        /\ entry \in Entries
    BY <1>1 DEF Entries
  <1>8. ClientTypes
    BY <1>1, <1>2, <1>4, <1>7 DEF ClientTypes
  <1>9. Fits(keyFile, recFile, entry)
    BY <1>1 DEF Fits
  <1>10. Undisturbed
    BY <1>1, <1>5, <1>9, NobodyWorks
  <1> QED
    BY <1>1, <1>6, <1>8, <1>10 DEF ClientInv

LEMMA ClientStep == ASSUME ClientInv, [ClientNext]_clientVars PROVE ClientInv'
  <1>1. CASE UNCHANGED clientVars
    BY <1>1 DEF clientVars, ClientInv, ClientTypes, Undisturbed, OneWriter, AloneInFleet, Running
  <1>2. ASSUME NEW p \in CommanderProcs, CommandStep(p) PROVE ClientInv'
    BY <1>2, EnsureKeyKeeps, CreateKeyFileKeeps, WriteKeyKeeps, LoadPrevKeeps, TransparentUpKeeps,
       MachineStatusKeeps, AddOwnPeerKeeps, ReadConfigKeeps, WriteConfigKeeps, SaveRecordKeeps,
       VerifyKeeps, OneShotKeeps, FleetReadKeeps, ForgetFilesKeeps, FleetWriteKeeps DEF CommandStep
  <1> QED
    BY <1>1, <1>2, StartKeeps, OneShotKeeps, HubChangesKeeps, UnitKeeps DEF ClientNext

LEMMA ClientUsable == ASSUME ClientInv PROVE TunnelUsable
  <1>1. ClientTypeOK
    <2>1. \A p \in CommanderProcs : proc[p].kp \in 0..keysMade
      BY DEF ClientInv, ClientTypes, ProcSet
    <2> QED
      BY <2>1 DEF ClientInv, ClientTypes, ClientTypeOK, Tunnels, Entries
  <1>2. UpMeansJoined
    BY DEF ClientInv, Undisturbed, DoneBy, OfHub, UpMeansJoined
  <1>3. QuietRecordUsable
    BY DEF ClientInv, Undisturbed, Fits, QuietRecordUsable
  <1> QED
    BY <1>1, <1>2, <1>3 DEF TunnelUsable

\* However the processes of the commander interleave and are killed, and
\* whatever number of them, of commands and of changes of the hub there is,
\* an up that answered ok left a record that the hub honours, and between
\* commands the record on the disk is of the pinned hub and of the key in the
\* key file. (client.Up, ensureKeyFile, pinnedRecords.Save, forgetFleetTunnel)
THEOREM TunnelStaysUsable == ClientSpec => []TunnelUsable
  <1>1. ClientInit => ClientInv
    BY ClientStarts
  <1>2. ClientInv /\ [ClientNext]_clientVars => ClientInv'
    BY ClientStep
  <1>3. ClientInv => TunnelUsable
    BY ClientUsable
  <1> QED
    BY <1>1, <1>2, <1>3, PTL DEF ClientSpec

-----------------------------------------------------------------------------
(* The fleet: the inductive invariant behind FleetAgrees. *)

\* The commands the hub serves.
SubnetRows == [Members -> {NoSubnet} \cup Subnets]
JoinPcs == {"put", "peer", "spend", "sync", "reply"}
AnnPcs == {"require", "apply", "record"}
RemPcs == {"row", "envs", "peer", "sync"}
JoinSet == [pc : JoinPcs, tok : Tokens, sub : Subnets, want : SubnetRows]
AnnSet == [pc : AnnPcs, full : BOOLEAN, envs : SUBSET Envs]
RemSet == [pc : RemPcs, envs : SUBSET Envs, want : SubnetRows]

FleetTypes ==
    /\ FleetTypeOK
    /\ join \in [Members -> JoinSet \cup {NotServing}]
    /\ ann \in [Members -> AnnSet \cup {NotServing}]
    /\ rem \in [Members -> RemSet \cup {NotServing}]

\* The subnet column is unique: a restart makes the peers from the rows.
OwnSubnets(subnets) == \A m, o \in Members : m # o /\ subnets[m] # NoSubnet => subnets[m] # subnets[o]

\* A join that is to record a machine the hub knows has that machine's subnet:
\* only its own join writes the row.
KnownKept == \A m \in Members : join[m].pc = "put" /\ row[m] # NoSubnet => join[m].sub = row[m]

\* While the names are not those of the directory, some command is to publish
\* them again.
DirNames == {e \in Envs : dir[e] # None}
NamesDue == \E m \in Members : ann[m].pc = "record" \/ rem[m].pc \in {"envs", "peer", "sync"}
NamesKept == names = DirNames \/ NamesDue

\* A forward to a machine without a row is about to be dropped.
DoorsKept == \A m \in door : row[m] # NoSubnet \/ rem[m].pc \in {"envs", "peer"}

FleetInv ==
    /\ FleetTypes
    /\ OwnSubnets(row) /\ OwnSubnets(peer)
    /\ KnownKept /\ NamesKept /\ DoorsKept

-----------------------------------------------------------------------------
(* Facts about the commands. *)

\* A command that goes on keeps what it was asked.
LEMMA JoinGoes ==
    ASSUME NEW m \in Members, FleetTypes, join[m].pc # "idle", NEW pc \in JoinPcs
    PROVE  LET j == [join[m] EXCEPT !.pc = pc] IN
           /\ join[m] \in JoinSet /\ j \in JoinSet /\ j.pc = pc /\ j.sub = join[m].sub
           /\ \A w \in SubnetRows : [j EXCEPT !.want = w] \in JoinSet /\ [j EXCEPT !.want = w].pc = pc
                                /\ [j EXCEPT !.want = w].sub = join[m].sub
  <1>1. join[m] \in JoinSet
    BY DEF FleetTypes, NotServing
  <1> QED
    BY <1>1 DEF JoinSet

LEMMA AnnGoes ==
    ASSUME NEW m \in Members, FleetTypes, ann[m].pc # "idle", NEW pc \in AnnPcs
    PROVE  LET a == [ann[m] EXCEPT !.pc = pc] IN
           ann[m] \in AnnSet /\ a \in AnnSet /\ a.pc = pc
  <1>1. ann[m] \in AnnSet
    BY DEF FleetTypes, NotServing
  <1> QED
    BY <1>1 DEF AnnSet

LEMMA RemGoes ==
    ASSUME NEW m \in Members, FleetTypes, rem[m].pc # "idle", NEW pc \in RemPcs
    PROVE  LET x == [rem[m] EXCEPT !.pc = pc] IN
           /\ rem[m] \in RemSet /\ x \in RemSet /\ x.pc = pc
           /\ \A w \in SubnetRows : [x EXCEPT !.want = w] \in RemSet /\ [x EXCEPT !.want = w].pc = pc
           /\ \A es \in SUBSET Envs : [rem[m] EXCEPT !.envs = es] \in RemSet
                                     /\ [rem[m] EXCEPT !.envs = es].pc = rem[m].pc
  <1>1. rem[m] \in RemSet
    BY DEF FleetTypes, NotServing
  <1> QED
    BY <1>1 DEF RemSet

\* The lowest free subnet is one that is free.
LEMMA SubnetIs ==
    ASSUME FleetTypes, NEW m \in Members, row[m] # NoSubnet \/ ~(Subnets \subseteq {row[o] : o \in Members})
    PROVE  SubnetFor(m) \in Subnets /\ (row[m] # NoSubnet => SubnetFor(m) = row[m])
  <1>1. row[m] \in {NoSubnet} \cup Subnets
    BY DEF FleetTypes, FleetTypeOK
  <1>2. CASE row[m] # NoSubnet
    BY <1>1, <1>2 DEF SubnetFor
  <1>3. CASE row[m] = NoSubnet
    <2> DEFINE free == Subnets \ {row[o] : o \in Members}
    <2>1. free # {} /\ free \in SUBSET Nat
      BY <1>3, FleetAssumption DEF Subnets
    <2>2. PICK x \in free : \A y \in free : ~(<<y, x>> \in OpToRel(<, Nat))
      BY <2>1, WFMin, NatLessThanWellFounded, Zenon
    <2>3. \A y \in free : ~(y < x)
      BY <2>1, <2>2 DEF OpToRel
    <2>4. \A y \in free : x <= y
      BY <2>1, <2>3
    <2>5. SubnetFor(m) \in free
      BY <1>3, <2>4 DEF SubnetFor, AllocateSubnet
    <2> QED
      BY <1>3, <2>5
  <1> QED
    BY <1>2, <1>3

\* A half-done sync leaves no two peers with one subnet: what is added was
\* compared with every other peer, and what was there before stays apart.
LEMMA SyncOwnSubnets ==
    ASSUME NEW want \in SubnetRows, peer \in SubnetRows, OwnSubnets(peer), SyncMachinePeers(want)
    PROVE  peer' \in SubnetRows /\ OwnSubnets(peer')
  <1> DEFINE wanted == {m \in Members : want[m] # NoSubnet}
             with(A) == [m \in Members |->
                IF m \in A THEN want[m] ELSE IF m \in wanted THEN peer[m] ELSE NoSubnet]
  <1>1. PICK A \in SUBSET wanted : (\A m \in A : ~Collides(with(A), m, want[m])) /\ peer' = with(A)
    BY DEF SyncMachinePeers
  <1>2. peer' \in SubnetRows
    BY <1>1 DEF SubnetRows
  <1>3. /\ \A m \in A : peer'[m] = want[m] /\ \A o \in Members \ {m} : peer'[o] # want[m]
        /\ \A m \in Members \ A : peer'[m] \in {peer[m], NoSubnet}
    BY <1>1 DEF Collides
  <1>4. OwnSubnets(peer')
    BY <1>3 DEF OwnSubnets
  <1> QED
    BY <1>2, <1>4

-----------------------------------------------------------------------------
(* One lemma for each action. *)
LEMMA MachineTokenKeeps == ASSUME FleetInv, NEW t \in Tokens, MachineToken(t) PROVE FleetInv'
  <1>1. FleetTypes'
    BY DEF FleetInv, FleetTypes, FleetTypeOK, MachineToken, HoldJoinPeer, hubStore, hubDevice, hubMemory, member
  <1>2. OwnSubnets(row)' /\ OwnSubnets(peer)'
    BY DEF FleetInv, OwnSubnets, MachineToken, HoldJoinPeer, hubStore, hubDevice, hubMemory, member
  <1>3. KnownKept'
    BY DEF FleetInv, KnownKept, MachineToken, HoldJoinPeer, hubStore, hubDevice, hubMemory, member
  <1>4. NamesKept'
    BY DEF FleetInv, NamesKept, NamesDue, DirNames, MachineToken, HoldJoinPeer, hubStore, hubDevice, hubMemory, member
  <1>5. DoorsKept'
    BY DEF FleetInv, DoorsKept, MachineToken, HoldJoinPeer, hubStore, hubDevice, hubMemory, member
  <1> QED
    BY <1>1, <1>2, <1>3, <1>4, <1>5 DEF FleetInv

LEMMA ExpireKeeps == ASSUME FleetInv, NEW t \in Tokens, Expire(t) PROVE FleetInv'
  <1>1. FleetTypes'
    BY DEF FleetInv, FleetTypes, FleetTypeOK, Expire, hubStore, hubDevice, hubMemory, member
  <1>2. OwnSubnets(row)' /\ OwnSubnets(peer)'
    BY DEF FleetInv, OwnSubnets, Expire, hubStore, hubDevice, hubMemory, member
  <1>3. KnownKept'
    BY DEF FleetInv, KnownKept, Expire, hubStore, hubDevice, hubMemory, member
  <1>4. NamesKept'
    BY DEF FleetInv, NamesKept, NamesDue, DirNames, Expire, hubStore, hubDevice, hubMemory, member
  <1>5. DoorsKept'
    BY DEF FleetInv, DoorsKept, Expire, hubStore, hubDevice, hubMemory, member
  <1> QED
    BY <1>1, <1>2, <1>3, <1>4, <1>5 DEF FleetInv

LEMMA ExpireJoinPeersKeeps == ASSUME FleetInv, ExpireJoinPeers PROVE FleetInv'
  <1>1. FleetTypes'
    BY DEF FleetInv, FleetTypes, FleetTypeOK, ExpireJoinPeers, hubStore, hubDevice, hubMemory, member
  <1>2. OwnSubnets(row)' /\ OwnSubnets(peer)'
    BY DEF FleetInv, OwnSubnets, ExpireJoinPeers, hubStore, hubDevice, hubMemory, member
  <1>3. KnownKept'
    BY DEF FleetInv, KnownKept, ExpireJoinPeers, hubStore, hubDevice, hubMemory, member
  <1>4. NamesKept'
    BY DEF FleetInv, NamesKept, NamesDue, DirNames, ExpireJoinPeers, hubStore, hubDevice, hubMemory, member
  <1>5. DoorsKept'
    BY DEF FleetInv, DoorsKept, ExpireJoinPeers, hubStore, hubDevice, hubMemory, member
  <1> QED
    BY <1>1, <1>2, <1>3, <1>4, <1>5 DEF FleetInv

LEMMA LeaveKeeps == ASSUME FleetInv, NEW m \in Members, Leave(m) PROVE FleetInv'
  <1>1. FleetTypes'
    BY DEF FleetInv, FleetTypes, FleetTypeOK, Leave, ForgetLeftFleet, hubStore, hubDevice, hubMemory, member
  <1>2. OwnSubnets(row)' /\ OwnSubnets(peer)'
    BY DEF FleetInv, OwnSubnets, Leave, ForgetLeftFleet, hubStore, hubDevice, hubMemory, member
  <1>3. KnownKept'
    BY DEF FleetInv, KnownKept, Leave, ForgetLeftFleet, hubStore, hubDevice, hubMemory, member
  <1>4. NamesKept'
    BY DEF FleetInv, NamesKept, NamesDue, DirNames, Leave, ForgetLeftFleet, hubStore, hubDevice, hubMemory, member
  <1>5. DoorsKept'
    BY DEF FleetInv, DoorsKept, Leave, ForgetLeftFleet, hubStore, hubDevice, hubMemory, member
  <1> QED
    BY <1>1, <1>2, <1>3, <1>4, <1>5 DEF FleetInv

LEMMA EnvCreateKeeps == ASSUME FleetInv, NEW m \in Members, NEW e \in Envs, EnvCreate(m, e) PROVE FleetInv'
  <1>1. FleetTypes'
    BY DEF FleetInv, FleetTypes, FleetTypeOK, EnvCreate, hubStore, hubDevice, hubMemory, member
  <1>2. OwnSubnets(row)' /\ OwnSubnets(peer)'
    BY DEF FleetInv, OwnSubnets, EnvCreate, hubStore, hubDevice, hubMemory, member
  <1>3. KnownKept'
    BY DEF FleetInv, KnownKept, EnvCreate, hubStore, hubDevice, hubMemory, member
  <1>4. NamesKept'
    BY DEF FleetInv, NamesKept, NamesDue, DirNames, EnvCreate, hubStore, hubDevice, hubMemory, member
  <1>5. DoorsKept'
    BY DEF FleetInv, DoorsKept, EnvCreate, hubStore, hubDevice, hubMemory, member
  <1> QED
    BY <1>1, <1>2, <1>3, <1>4, <1>5 DEF FleetInv

LEMMA EnvDestroyKeeps == ASSUME FleetInv, NEW m \in Members, NEW e \in Envs, EnvDestroy(m, e) PROVE FleetInv'
  <1>1. FleetTypes'
    BY DEF FleetInv, FleetTypes, FleetTypeOK, EnvDestroy, hubStore, hubDevice, hubMemory, member
  <1>2. OwnSubnets(row)' /\ OwnSubnets(peer)'
    BY DEF FleetInv, OwnSubnets, EnvDestroy, hubStore, hubDevice, hubMemory, member
  <1>3. KnownKept'
    BY DEF FleetInv, KnownKept, EnvDestroy, hubStore, hubDevice, hubMemory, member
  <1>4. NamesKept'
    BY DEF FleetInv, NamesKept, NamesDue, DirNames, EnvDestroy, hubStore, hubDevice, hubMemory, member
  <1>5. DoorsKept'
    BY DEF FleetInv, DoorsKept, EnvDestroy, hubStore, hubDevice, hubMemory, member
  <1> QED
    BY <1>1, <1>2, <1>3, <1>4, <1>5 DEF FleetInv

LEMMA JoinStartKeeps == ASSUME FleetInv, NEW m \in Members, NEW t \in Tokens, JoinStart(m, t) PROVE FleetInv'
  <1> DEFINE j == [pc |-> "put", tok |-> t, sub |-> SubnetFor(m), want |-> row]
  <1>a. /\ FleetTypes /\ join \in [Members -> JoinSet \cup {NotServing}]
        /\ join' = [join EXCEPT ![m] = j] /\ SubnetFor(m) \in Subnets /\ (row[m] # NoSubnet => SubnetFor(m) = row[m])
    BY SubnetIs DEF FleetInv, FleetTypes, JoinStart
  <1>b. j \in JoinSet /\ j.pc = "put" /\ j.sub = SubnetFor(m)
    BY <1>a DEF JoinSet, JoinPcs, SubnetRows, FleetTypes, FleetTypeOK
  <1> HIDE DEF j
  <1>1. FleetTypes'
    BY <1>a, <1>b DEF FleetInv, FleetTypes, FleetTypeOK, JoinStart, hubStore, hubDevice, hubMemory, member
  <1>2. OwnSubnets(row)' /\ OwnSubnets(peer)'
    BY DEF FleetInv, OwnSubnets, JoinStart, hubStore, hubDevice, hubMemory, member
  <1>3. KnownKept'
    BY <1>a, <1>b DEF FleetInv, KnownKept, JoinStart, hubStore, hubDevice, hubMemory, member
  <1>4. NamesKept'
    BY DEF FleetInv, NamesKept, NamesDue, DirNames, JoinStart, hubStore, hubDevice, hubMemory, member
  <1>5. DoorsKept'
    BY DEF FleetInv, DoorsKept, JoinStart, hubStore, hubDevice, hubMemory, member
  <1> QED
    BY <1>1, <1>2, <1>3, <1>4, <1>5 DEF FleetInv

\* A join is over.
LEMMA JoinOver ==
    ASSUME FleetInv, NEW m \in Members, join' = [join EXCEPT ![m] = NotServing],
           UNCHANGED <<hubStore, hubDevice, hubMemory, left, envs, ann, rem>>, cfg' \in SubnetRows
    PROVE  FleetInv'
  <1>1. join \in [Members -> JoinSet \cup {NotServing}] /\ NotServing.pc = "idle"
    BY DEF FleetInv, FleetTypes, NotServing
  <1>2. join' \in [Members -> JoinSet \cup {NotServing}] /\ join'[m].pc = "idle"
        /\ \A o \in Members \ {m} : join'[o] = join[o]
    BY <1>1
  <1>3. FleetTypes'
    BY <1>2 DEF FleetInv, FleetTypes, FleetTypeOK, SubnetRows, hubStore, hubDevice, hubMemory
  <1>4. OwnSubnets(row)' /\ OwnSubnets(peer)'
    BY DEF FleetInv, OwnSubnets, hubStore, hubDevice
  <1>5. KnownKept'
    BY <1>2 DEF FleetInv, KnownKept, hubStore
  <1>6. NamesKept' /\ DoorsKept'
    BY DEF FleetInv, NamesKept, NamesDue, DirNames, DoorsKept, hubStore, hubDevice
  <1> QED
    BY <1>3, <1>4, <1>5, <1>6 DEF FleetInv

\* A join goes on to pc, and no row changes.
LEMMA JoinStepTypes ==
    ASSUME FleetInv, NEW m \in Members, join[m].pc # "idle", NEW pc \in JoinPcs, pc # "put",
           \/ join' = [join EXCEPT ![m].pc = pc]
           \/ join' = [join EXCEPT ![m].pc = pc, ![m].want = row]
    PROVE  /\ join' \in [Members -> JoinSet \cup {NotServing}]
           /\ join'[m].pc = pc /\ \A o \in Members \ {m} : join'[o] = join[o]
  <1> DEFINE j == [join[m] EXCEPT !.pc = pc]
             k == [j EXCEPT !.want = row]
  <1>1. FleetTypes /\ join \in [Members -> JoinSet \cup {NotServing}] /\ row \in SubnetRows
    BY DEF FleetInv, FleetTypes, FleetTypeOK, SubnetRows
  <1>2. j \in JoinSet /\ j.pc = pc /\ k \in JoinSet /\ k.pc = pc
    <2>1. join[m] \in JoinSet
      BY <1>1 DEF NotServing
    <2>2. j \in JoinSet /\ j.pc = pc
      BY <2>1 DEF JoinSet
    <2> HIDE DEF j
    <2>3. k \in JoinSet /\ k.pc = pc
      BY <1>1, <2>2 DEF JoinSet
    <2> QED
      BY <2>2, <2>3
  <1>3. join' = [join EXCEPT ![m] = j] \/ join' = [join EXCEPT ![m] = k]
    BY <1>1
  <1> HIDE DEF j, k
  <1> QED
    BY <1>1, <1>2, <1>3

LEMMA JoinPutKeeps == ASSUME FleetInv, NEW m \in Members, JoinPut(m) PROVE FleetInv'
  <1>1. CASE Collides(row, m, join[m].sub)
    <2>1. cfg \in SubnetRows
      BY DEF FleetInv, FleetTypes, FleetTypeOK, SubnetRows
    <2> QED
      BY <1>1, <2>1, JoinOver DEF JoinPut, hubStore, hubDevice, hubMemory, member
  <1>2. CASE ~Collides(row, m, join[m].sub)
    <2>1. /\ join[m].pc = "put" /\ row' = [row EXCEPT ![m] = join[m].sub] /\ join' = [join EXCEPT ![m].pc = "peer"]
          /\ UNCHANGED <<token, old, dir, hubDevice, hubMemory, member, ann, rem>>
      BY <1>2 DEF JoinPut
    <2>2. "peer" \in JoinPcs /\ "put" \in JoinPcs
      BY DEF JoinPcs
    <2>3. join[m].sub \in Subnets /\ row \in SubnetRows
      BY <2>1, <2>2, JoinGoes DEF FleetInv, FleetTypes, FleetTypeOK, SubnetRows, JoinSet
    <2>4. /\ join' \in [Members -> JoinSet \cup {NotServing}]
          /\ join'[m].pc = "peer" /\ \A o \in Members \ {m} : join'[o] = join[o]
      BY <2>1, <2>2, JoinStepTypes
    <2>5. row' \in SubnetRows /\ row'[m] = join[m].sub /\ \A o \in Members \ {m} : row'[o] = row[o]
      BY <2>1, <2>3 DEF SubnetRows
    <2>a. join[m].sub # NoSubnet
      BY <2>3, FleetAssumption DEF Subnets, NoSubnet
    <2>6. FleetTypes'
      BY <2>1, <2>4, <2>5 DEF FleetInv, FleetTypes, FleetTypeOK, SubnetRows, hubDevice, hubMemory, member
    <2>7. OwnSubnets(row)' /\ OwnSubnets(peer)'
      BY <1>2, <2>1, <2>5 DEF FleetInv, OwnSubnets, Collides, hubDevice
    <2>8. KnownKept'
      BY <2>4, <2>5 DEF FleetInv, KnownKept
    <2>9. NamesKept' /\ DoorsKept'
      BY <2>1, <2>5, <2>a DEF FleetInv, NamesKept, NamesDue, DirNames, DoorsKept, hubDevice
    <2> QED
      BY <2>6, <2>7, <2>8, <2>9 DEF FleetInv
  <1> QED
    BY <1>1, <1>2

LEMMA JoinPeerKeeps == ASSUME FleetInv, NEW m \in Members, JoinPeer(m) PROVE FleetInv'
  <1>1. CASE Collides(peer, m, join[m].sub)
    <2>1. cfg \in SubnetRows
      BY DEF FleetInv, FleetTypes, FleetTypeOK, SubnetRows
    <2> QED
      BY <1>1, <2>1, JoinOver DEF JoinPeer, hubStore, hubDevice, hubMemory, member
  <1>2. CASE ~Collides(peer, m, join[m].sub)
    <2>1. /\ join[m].pc = "peer" /\ peer' = [peer EXCEPT ![m] = join[m].sub] /\ join' = [join EXCEPT ![m].pc = "spend"]
          /\ UNCHANGED <<hubStore, door, names, boot, hubMemory, member, ann, rem>>
      BY <1>2 DEF JoinPeer
    <2>2. "peer" \in JoinPcs /\ "spend" \in JoinPcs
      BY DEF JoinPcs
    <2>3. join[m].sub \in Subnets /\ peer \in SubnetRows
      BY <2>1, <2>2, JoinGoes DEF FleetInv, FleetTypes, FleetTypeOK, SubnetRows, JoinSet
    <2>4. /\ join' \in [Members -> JoinSet \cup {NotServing}]
          /\ join'[m].pc = "spend" /\ \A o \in Members \ {m} : join'[o] = join[o]
      BY <2>1, <2>2, JoinStepTypes
    <2>5. peer' \in SubnetRows /\ peer'[m] = join[m].sub /\ \A o \in Members \ {m} : peer'[o] = peer[o]
      BY <2>1, <2>3 DEF SubnetRows
    <2>6. FleetTypes'
      BY <2>1, <2>4, <2>5 DEF FleetInv, FleetTypes, FleetTypeOK, SubnetRows, hubStore, hubMemory, member
    <2>7. OwnSubnets(row)' /\ OwnSubnets(peer)'
      BY <1>2, <2>1, <2>5 DEF FleetInv, OwnSubnets, Collides, hubStore
    <2>8. KnownKept'
      BY <2>1, <2>4 DEF FleetInv, KnownKept, hubStore
    <2>9. NamesKept' /\ DoorsKept'
      BY <2>1 DEF FleetInv, NamesKept, NamesDue, DirNames, DoorsKept, hubStore
    <2> QED
      BY <2>6, <2>7, <2>8, <2>9 DEF FleetInv
  <1> QED
    BY <1>1, <1>2

LEMMA JoinSpendKeeps == ASSUME FleetInv, NEW m \in Members, JoinSpend(m) PROVE FleetInv'
  <1> DEFINE t == join[m].tok
  <1>1. CASE token[t] = "deleted"
    <2>1. cfg \in SubnetRows
      BY DEF FleetInv, FleetTypes, FleetTypeOK, SubnetRows
    <2> QED
      BY <1>1, <2>1, JoinOver DEF JoinSpend, hubStore, hubDevice, hubMemory, member
  <1>2. CASE token[t] # "deleted"
    <2>1. /\ join[m].pc = "spend" /\ join' = [join EXCEPT ![m].pc = "sync", ![m].want = row]
          /\ token' = [token EXCEPT ![t] = IF @ = "unused" THEN m ELSE @]
          /\ retired' = [retired EXCEPT ![m] = t]
          /\ UNCHANGED <<row, old, dir, hubDevice, tickets, member, ann, rem>>
      BY <1>2 DEF JoinSpend, RetireJoinPeer
    <2>2. "sync" \in JoinPcs
      BY DEF JoinPcs
    <2>3. t \in Tokens
      BY <2>1, <2>2, JoinGoes DEF FleetInv, JoinSet
    <2>4. /\ join' \in [Members -> JoinSet \cup {NotServing}]
          /\ join'[m].pc = "sync" /\ \A o \in Members \ {m} : join'[o] = join[o]
      BY <2>1, <2>2, JoinStepTypes
    <2> HIDE DEF t
    <2>5. token' \in [Tokens -> {"unissued", "unused", "deleted"} \cup Members]
      BY <2>1, <2>3 DEF FleetInv, FleetTypes, FleetTypeOK
    <2>6. retired' \in [Members -> Tokens \cup {None}]
      BY <2>1, <2>3 DEF FleetInv, FleetTypes, FleetTypeOK
    <2>7. FleetTypes'
      BY <2>1, <2>4, <2>5, <2>6 DEF FleetInv, FleetTypes, FleetTypeOK, hubDevice, member
    <2>8. OwnSubnets(row)' /\ OwnSubnets(peer)' /\ KnownKept'
      BY <2>1, <2>4 DEF FleetInv, OwnSubnets, KnownKept, hubDevice
    <2>9. NamesKept' /\ DoorsKept'
      BY <2>1 DEF FleetInv, NamesKept, NamesDue, DirNames, DoorsKept, hubDevice
    <2> QED
      BY <2>7, <2>8, <2>9 DEF FleetInv
  <1> QED
    BY <1>1, <1>2

LEMMA JoinSyncKeeps == ASSUME FleetInv, NEW m \in Members, JoinSync(m) PROVE FleetInv'
  <1>1. /\ join[m].pc = "sync" /\ SyncMachinePeers(join[m].want) /\ join' = [join EXCEPT ![m].pc = "reply"]
        /\ door' = {o \in Members : row[o] # NoSubnet} /\ names' = DirNames
        /\ UNCHANGED <<hubStore, boot, hubMemory, member, ann, rem>>
    BY DEF JoinSync, SyncForwards, SyncFleetNames, DirNames
  <1>2. "reply" \in JoinPcs /\ FleetTypes
    BY DEF JoinPcs, FleetInv
  <1>3. join[m].want \in SubnetRows /\ peer \in SubnetRows
    BY <1>1, <1>2, JoinGoes DEF FleetTypes, FleetTypeOK, SubnetRows, JoinSet
  <1>4. /\ join' \in [Members -> JoinSet \cup {NotServing}]
        /\ join'[m].pc = "reply" /\ \A o \in Members \ {m} : join'[o] = join[o]
    BY <1>1, <1>2, JoinStepTypes
  <1>5. peer' \in SubnetRows /\ OwnSubnets(peer')
    BY <1>1, <1>3, SyncOwnSubnets DEF FleetInv
  <1>6. FleetTypes'
    BY <1>1, <1>2, <1>4, <1>5 DEF FleetTypes, FleetTypeOK, SubnetRows, DirNames, hubStore, hubMemory, member
  <1>7. OwnSubnets(row)' /\ OwnSubnets(peer)'
    BY <1>1, <1>5 DEF FleetInv, OwnSubnets, hubStore
  <1>8. KnownKept'
    BY <1>1, <1>4 DEF FleetInv, KnownKept, hubStore
  <1>9. NamesKept' /\ DoorsKept'
    BY <1>1 DEF NamesKept, DirNames, DoorsKept, hubStore
  <1> QED
    BY <1>6, <1>7, <1>8, <1>9 DEF FleetInv

LEMMA JoinReplyKeeps == ASSUME FleetInv, NEW m \in Members, JoinReply(m) PROVE FleetInv'
  <1>1. /\ join[m].pc = "reply" /\ join' = [join EXCEPT ![m] = NotServing]
        /\ cfg' = [cfg EXCEPT ![m] = join[m].sub] \/ cfg' = cfg
        /\ UNCHANGED <<hubStore, hubDevice, hubMemory, left, envs, ann, rem>>
    BY DEF JoinReply, WriteMemberConfig
  <1>2. "reply" \in JoinPcs /\ FleetTypes
    BY DEF JoinPcs, FleetInv
  <1>3. join[m].sub \in Subnets /\ cfg \in SubnetRows
    BY <1>1, <1>2, JoinGoes DEF FleetTypes, FleetTypeOK, SubnetRows, JoinSet
  <1>4. cfg' \in SubnetRows
    BY <1>1, <1>3 DEF SubnetRows
  <1> QED
    BY <1>1, <1>4, JoinOver

\* An announcement goes on, or is over, and the directory is as it was.
LEMMA AnnounceGoesOn ==
    ASSUME FleetInv, NEW m \in Members, NEW a \in AnnSet \cup {NotServing}, ann' = [ann EXCEPT ![m] = a],
           ann[m].pc # "record", UNCHANGED <<hubStore, hubDevice, hubMemory, cfg, envs, join, rem>>,
           left' \in [Members -> BOOLEAN]
    PROVE  FleetInv'
  <1>1. ann \in [Members -> AnnSet \cup {NotServing}]
    BY DEF FleetInv, FleetTypes
  <1>2. ann' \in [Members -> AnnSet \cup {NotServing}] /\ \A o \in Members \ {m} : ann'[o] = ann[o]
    BY <1>1
  <1>3. FleetTypes'
    BY <1>2 DEF FleetInv, FleetTypes, FleetTypeOK, hubStore, hubDevice, hubMemory
  <1>4. OwnSubnets(row)' /\ OwnSubnets(peer)' /\ KnownKept' /\ DoorsKept'
    BY DEF FleetInv, OwnSubnets, KnownKept, DoorsKept, hubStore, hubDevice
  <1>5. NamesKept'
    BY <1>2 DEF FleetInv, NamesKept, NamesDue, DirNames, hubStore, hubDevice
  <1> QED
    BY <1>3, <1>4, <1>5 DEF FleetInv

LEMMA AnnounceOpenKeeps ==
    ASSUME FleetInv, NEW m \in Members, NEW full \in BOOLEAN, NEW es \in SUBSET Envs, AnnounceOpen(m, full, es)
    PROVE  FleetInv'
  <1> DEFINE a == [pc |-> "require", full |-> full, envs |-> es]
  <1>1. a \in AnnSet \cup {NotServing}
    BY DEF AnnSet, AnnPcs
  <1>2. ann' = [ann EXCEPT ![m] = a] /\ ann[m].pc # "record" /\ left' = left
        /\ UNCHANGED <<hubStore, hubDevice, hubMemory, cfg, envs, join, rem>>
    BY DEF AnnounceOpen, NotServing, member
  <1>3. left \in [Members -> BOOLEAN]
    BY DEF FleetInv, FleetTypes, FleetTypeOK
  <1> HIDE DEF a
  <1> QED
    BY <1>1, <1>2, <1>3, AnnounceGoesOn

LEMMA AnnounceRequireKeeps == ASSUME FleetInv, NEW m \in Members, AnnounceRequire(m) PROVE FleetInv'
  <1>1. /\ ann[m].pc = "require" /\ UNCHANGED <<hubStore, hubDevice, hubMemory, cfg, envs, join, rem>>
        /\ ann' = [ann EXCEPT ![m] = NotServing] \/ ann' = [ann EXCEPT ![m].pc = "apply"]
        /\ left' = [left EXCEPT ![m] = TRUE] \/ left' = left
    BY DEF AnnounceRequire, LeaveFleet
  <1>2. left' \in [Members -> BOOLEAN]
    BY <1>1 DEF FleetInv, FleetTypes, FleetTypeOK
  <1>3. CASE ann' = [ann EXCEPT ![m] = NotServing]
    BY <1>1, <1>2, <1>3, AnnounceGoesOn
  <1>4. CASE ann' = [ann EXCEPT ![m].pc = "apply"]
    <2> DEFINE a == [ann[m] EXCEPT !.pc = "apply"]
    <2>1. "apply" \in AnnPcs /\ FleetTypes
      BY DEF AnnPcs, FleetInv
    <2>2. a \in AnnSet /\ ann' = [ann EXCEPT ![m] = a]
      BY <1>1, <1>4, <2>1, AnnGoes DEF FleetTypes
    <2> HIDE DEF a
    <2> QED
      BY <1>1, <1>2, <2>2, AnnounceGoesOn
  <1> QED
    BY <1>1, <1>3, <1>4

LEMMA AnnounceApplyKeeps == ASSUME FleetInv, NEW m \in Members, AnnounceApply(m) PROVE FleetInv'
  <1> DEFINE a == [ann[m] EXCEPT !.pc = "record"]
  <1>1. /\ ann[m].pc = "apply" /\ dir' = Applied(m, ann[m]) /\ ann' = [ann EXCEPT ![m].pc = "record"]
        /\ UNCHANGED <<row, token, old, hubDevice, hubMemory, member, join, rem>>
    BY DEF AnnounceApply
  <1>2. "record" \in AnnPcs /\ FleetTypes /\ ann \in [Members -> AnnSet \cup {NotServing}]
        /\ dir \in [Envs -> Members \cup {None}]
    BY DEF AnnPcs, FleetInv, FleetTypes, FleetTypeOK
  <1>3. a \in AnnSet /\ a.pc = "record" /\ ann' = [ann EXCEPT ![m] = a]
    BY <1>1, <1>2, AnnGoes
  <1> HIDE DEF a
  <1>4. ann' \in [Members -> AnnSet \cup {NotServing}] /\ ann'[m].pc = "record"
    BY <1>2, <1>3
  <1>5. dir' \in [Envs -> Members \cup {None}]
    BY <1>1, <1>2 DEF Applied
  <1>6. FleetTypes'
    BY <1>1, <1>2, <1>4, <1>5 DEF FleetTypes, FleetTypeOK, hubDevice, hubMemory, member
  <1>7. OwnSubnets(row)' /\ OwnSubnets(peer)' /\ KnownKept' /\ DoorsKept'
    BY <1>1 DEF FleetInv, OwnSubnets, KnownKept, DoorsKept, hubDevice
  <1>8. NamesKept'
    BY <1>4 DEF NamesKept, NamesDue
  <1> QED
    BY <1>6, <1>7, <1>8 DEF FleetInv

LEMMA AnnounceRecordKeeps == ASSUME FleetInv, NEW m \in Members, AnnounceRecord(m) PROVE FleetInv'
  <1>1. /\ names' = DirNames /\ ann' = [ann EXCEPT ![m] = NotServing]
        /\ boot' \subseteq boot /\ retired' = [retired EXCEPT ![m] = None]
        /\ UNCHANGED <<row, token, old, dir, peer, door, member, join, rem>>
    BY DEF AnnounceRecord, SyncFleetNames, DropJoinPeer, DirNames
  <1>2. FleetTypes'
    BY <1>1 DEF FleetInv, FleetTypes, FleetTypeOK, DirNames, member
  <1>3. OwnSubnets(row)' /\ OwnSubnets(peer)' /\ KnownKept' /\ DoorsKept'
    BY <1>1 DEF FleetInv, OwnSubnets, KnownKept, DoorsKept
  <1>4. NamesKept'
    BY <1>1 DEF NamesKept, DirNames
  <1> QED
    BY <1>2, <1>3, <1>4 DEF FleetInv

-----------------------------------------------------------------------------
(* Removals. *)

\* What a removal is after a step of its own.
LEMMA RemStepTypes ==
    ASSUME FleetInv, NEW m \in Members, rem[m].pc # "idle", NEW pc \in RemPcs,
           \/ rem' = [rem EXCEPT ![m].pc = pc]
           \/ rem' = [rem EXCEPT ![m].pc = pc, ![m].want = row]
    PROVE  /\ rem' \in [Members -> RemSet \cup {NotServing}]
           /\ rem'[m].pc = pc /\ \A o \in Members \ {m} : rem'[o] = rem[o]
  <1> DEFINE j == [rem[m] EXCEPT !.pc = pc]
             k == [j EXCEPT !.want = row]
  <1>1. FleetTypes /\ rem \in [Members -> RemSet \cup {NotServing}] /\ row \in SubnetRows
    BY DEF FleetInv, FleetTypes, FleetTypeOK, SubnetRows
  <1>2. j \in RemSet /\ j.pc = pc /\ \A w \in SubnetRows : [j EXCEPT !.want = w] \in RemSet
                                                       /\ [j EXCEPT !.want = w].pc = pc
    BY <1>1, RemGoes
  <1>3. k \in RemSet /\ k.pc = pc
    <2> HIDE DEF j
    <2> QED
      BY <1>1, <1>2
  <1>4. rem' = [rem EXCEPT ![m] = j] \/ rem' = [rem EXCEPT ![m] = k]
    BY <1>1
  <1> HIDE DEF j, k
  <1> QED
    BY <1>1, <1>2, <1>3, <1>4

LEMMA RemoveStartKeeps ==
    ASSUME FleetInv, NEW m \in Members, NEW force \in BOOLEAN, RemoveStart(m, force) PROVE FleetInv'
  <1> DEFINE x == [pc |-> "row", envs |-> Held(m), want |-> row]
  <1>1. rem[m] = NotServing /\ rem' = [rem EXCEPT ![m] = x]
        /\ UNCHANGED <<hubStore, hubDevice, hubMemory, member, join, ann>>
    BY DEF RemoveStart
  <1>2. x \in RemSet /\ x.pc = "row"
    BY DEF FleetInv, FleetTypes, FleetTypeOK, RemSet, RemPcs, SubnetRows, Held
  <1> HIDE DEF x
  <1>3. rem' \in [Members -> RemSet \cup {NotServing}] /\ rem[m].pc = "idle"
        /\ \A o \in Members \ {m} : rem'[o] = rem[o]
    BY <1>1, <1>2 DEF FleetInv, FleetTypes, NotServing
  <1>4. FleetTypes'
    BY <1>1, <1>3 DEF FleetInv, FleetTypes, FleetTypeOK, hubStore, hubDevice, hubMemory, member
  <1>5. OwnSubnets(row)' /\ OwnSubnets(peer)' /\ KnownKept'
    BY <1>1 DEF FleetInv, OwnSubnets, KnownKept, hubStore, hubDevice
  <1>6. NamesKept'
    BY <1>1, <1>3 DEF FleetInv, NamesKept, NamesDue, DirNames, hubStore, hubDevice
  <1>7. DoorsKept'
    BY <1>1, <1>3 DEF FleetInv, FleetTypes, FleetTypeOK, DoorsKept, hubStore, hubDevice
  <1> QED
    BY <1>4, <1>5, <1>6, <1>7 DEF FleetInv

LEMMA RemoveRowKeeps == ASSUME FleetInv, NEW m \in Members, RemoveRow(m) PROVE FleetInv'
  <1>1. /\ rem[m].pc = "row" /\ row' = [row EXCEPT ![m] = NoSubnet] /\ rem' = [rem EXCEPT ![m].pc = "envs"]
        /\ UNCHANGED <<token, old, dir, hubDevice, hubMemory, member, join, ann>>
    BY DEF RemoveRow
  <1>2. "envs" \in RemPcs /\ row \in SubnetRows
    BY DEF RemPcs, FleetInv, FleetTypes, FleetTypeOK, SubnetRows
  <1>3. /\ rem' \in [Members -> RemSet \cup {NotServing}]
        /\ rem'[m].pc = "envs" /\ \A o \in Members \ {m} : rem'[o] = rem[o]
    BY <1>1, <1>2, RemStepTypes
  <1>4. row' \in SubnetRows /\ row'[m] = NoSubnet /\ \A o \in Members \ {m} : row'[o] = row[o]
    BY <1>1, <1>2 DEF SubnetRows
  <1>5. FleetTypes'
    BY <1>1, <1>3, <1>4 DEF FleetInv, FleetTypes, FleetTypeOK, SubnetRows, hubDevice, hubMemory, member
  <1>6. OwnSubnets(row)' /\ OwnSubnets(peer)'
    BY <1>1, <1>4 DEF FleetInv, OwnSubnets, hubDevice
  <1>7. KnownKept'
    BY <1>1, <1>4 DEF FleetInv, KnownKept
  <1>8. NamesKept'
    BY <1>3 DEF NamesKept, NamesDue
  <1>9. DoorsKept'
    BY <1>1, <1>3, <1>4 DEF FleetInv, FleetTypes, FleetTypeOK, DoorsKept, hubDevice
  <1> QED
    BY <1>5, <1>6, <1>7, <1>8, <1>9 DEF FleetInv

LEMMA RemoveEnvKeeps ==
    ASSUME FleetInv, NEW m \in Members, NEW e \in Envs, RemoveEnv(m, e) PROVE FleetInv'
  <1> DEFINE x == [rem[m] EXCEPT !.envs = rem[m].envs \ {e}]
  <1>1. /\ rem[m].pc = "envs"
        /\ envs' = [envs EXCEPT ![m] = @ \ {e}] \/ envs' = envs
        /\ dir' = [dir EXCEPT ![e] = None] /\ rem' = [rem EXCEPT ![m].envs = @ \ {e}]
        /\ UNCHANGED <<row, token, old, hubDevice, hubMemory, cfg, left, join, ann>>
    BY DEF RemoveEnv
  <1>2. "envs" \in RemPcs /\ FleetTypes /\ rem \in [Members -> RemSet \cup {NotServing}]
    BY DEF RemPcs, FleetInv, FleetTypes
  <1>3. rem[m] \in RemSet
    BY <1>1, <1>2 DEF NotServing
  <1>4. x \in RemSet /\ x.pc = "envs"
    BY <1>1, <1>3 DEF RemSet
  <1>5. rem' = [rem EXCEPT ![m] = x]
    BY <1>1, <1>2
  <1> HIDE DEF x
  <1>6. /\ rem' \in [Members -> RemSet \cup {NotServing}] /\ rem'[m].pc = "envs"
        /\ \A o \in Members \ {m} : rem'[o] = rem[o]
    BY <1>2, <1>4, <1>5
  <1>7. envs' \in [Members -> SUBSET Envs] /\ dir' \in [Envs -> Members \cup {None}]
    BY <1>1, <1>2 DEF FleetTypes, FleetTypeOK
  <1>8. FleetTypes'
    BY <1>1, <1>2, <1>6, <1>7 DEF FleetTypes, FleetTypeOK, hubDevice, hubMemory
  <1>9. OwnSubnets(row)' /\ OwnSubnets(peer)' /\ KnownKept'
    BY <1>1 DEF FleetInv, OwnSubnets, KnownKept, hubDevice
  <1>10. NamesKept'
    BY <1>6 DEF NamesKept, NamesDue
  <1>11. DoorsKept'
    BY <1>1, <1>2, <1>6 DEF FleetInv, FleetTypes, FleetTypeOK, DoorsKept, hubDevice
  <1> QED
    BY <1>8, <1>9, <1>10, <1>11 DEF FleetInv

LEMMA RemoveTellKeeps == ASSUME FleetInv, NEW m \in Members, RemoveTell(m) PROVE FleetInv'
  <1>1. /\ rem[m].pc = "envs"
        /\ left' = [left EXCEPT ![m] = TRUE] \/ left' = left
        /\ rem' = [rem EXCEPT ![m].pc = "peer"]
        /\ UNCHANGED <<hubStore, hubDevice, hubMemory, cfg, envs, join, ann>>
    BY DEF RemoveTell, LeaveFleet
  <1>2. "peer" \in RemPcs /\ FleetTypes
    BY DEF RemPcs, FleetInv
  <1>3. /\ rem' \in [Members -> RemSet \cup {NotServing}]
        /\ rem'[m].pc = "peer" /\ \A o \in Members \ {m} : rem'[o] = rem[o]
    BY <1>1, <1>2, RemStepTypes
  <1>4. left' \in [Members -> BOOLEAN]
    BY <1>1, <1>2 DEF FleetTypes, FleetTypeOK
  <1>5. FleetTypes'
    BY <1>1, <1>2, <1>3, <1>4 DEF FleetTypes, FleetTypeOK, hubStore, hubDevice, hubMemory
  <1>6. OwnSubnets(row)' /\ OwnSubnets(peer)' /\ KnownKept'
    BY <1>1 DEF FleetInv, OwnSubnets, KnownKept, hubStore, hubDevice
  <1>7. NamesKept'
    BY <1>3 DEF NamesKept, NamesDue
  <1>8. DoorsKept'
    BY <1>1, <1>2, <1>3 DEF FleetInv, FleetTypes, FleetTypeOK, DoorsKept, hubStore, hubDevice
  <1> QED
    BY <1>5, <1>6, <1>7, <1>8 DEF FleetInv

LEMMA RemoveMachinePeerKeeps == ASSUME FleetInv, NEW m \in Members, RemoveMachinePeer(m) PROVE FleetInv'
  <1>1. /\ rem[m].pc = "peer" /\ peer' = [peer EXCEPT ![m] = NoSubnet] /\ door' = door \ {m}
        /\ rem' = [rem EXCEPT ![m].pc = "sync", ![m].want = row]
        /\ UNCHANGED <<hubStore, names, boot, hubMemory, member, join, ann>>
    BY DEF RemoveMachinePeer
  <1>2. "sync" \in RemPcs /\ FleetTypes /\ peer \in SubnetRows
    BY DEF RemPcs, FleetInv, FleetTypes, FleetTypeOK, SubnetRows
  <1>3. /\ rem' \in [Members -> RemSet \cup {NotServing}]
        /\ rem'[m].pc = "sync" /\ \A o \in Members \ {m} : rem'[o] = rem[o]
    BY <1>1, <1>2, RemStepTypes
  <1>4. peer' \in SubnetRows /\ peer'[m] = NoSubnet /\ \A o \in Members \ {m} : peer'[o] = peer[o]
    BY <1>1, <1>2 DEF SubnetRows
  <1>5. FleetTypes'
    BY <1>1, <1>2, <1>3, <1>4 DEF FleetTypes, FleetTypeOK, SubnetRows, hubStore, hubMemory, member
  <1>6. OwnSubnets(row)' /\ OwnSubnets(peer)'
    BY <1>1, <1>4 DEF FleetInv, OwnSubnets, hubStore
  <1>7. KnownKept'
    BY <1>1 DEF FleetInv, KnownKept, hubStore
  <1>8. NamesKept'
    BY <1>3 DEF NamesKept, NamesDue
  <1>9. DoorsKept'
    BY <1>1, <1>2, <1>3 DEF FleetInv, FleetTypes, FleetTypeOK, DoorsKept, hubStore
  <1> QED
    BY <1>5, <1>6, <1>7, <1>8, <1>9 DEF FleetInv

LEMMA RemoveSyncKeeps == ASSUME FleetInv, NEW m \in Members, RemoveSync(m) PROVE FleetInv'
  <1>1. /\ rem[m].pc = "sync" /\ SyncMachinePeers(rem[m].want) /\ rem' = [rem EXCEPT ![m] = NotServing]
        /\ door' = {o \in Members : row[o] # NoSubnet} /\ names' = DirNames
        /\ UNCHANGED <<hubStore, boot, hubMemory, member, join, ann>>
    BY DEF RemoveSync, SyncForwards, SyncFleetNames, DirNames
  <1>2. "sync" \in RemPcs /\ FleetTypes
    BY DEF RemPcs, FleetInv
  <1>3. rem[m].want \in SubnetRows /\ peer \in SubnetRows
    BY <1>1, <1>2, RemGoes DEF FleetTypes, FleetTypeOK, SubnetRows, RemSet
  <1>4. peer' \in SubnetRows /\ OwnSubnets(peer')
    BY <1>1, <1>3, SyncOwnSubnets DEF FleetInv
  <1>5. FleetTypes'
    BY <1>1, <1>2, <1>4 DEF FleetTypes, FleetTypeOK, SubnetRows, DirNames, hubStore, hubMemory, member
  <1>6. OwnSubnets(row)' /\ OwnSubnets(peer)' /\ KnownKept'
    BY <1>1, <1>4 DEF FleetInv, OwnSubnets, KnownKept, hubStore
  <1>7. NamesKept' /\ DoorsKept'
    BY <1>1 DEF NamesKept, DirNames, DoorsKept, hubStore
  <1> QED
    BY <1>5, <1>6, <1>7 DEF FleetInv

\* A restart makes the device from the store, and no command is left.
LEMMA HubRestartsKeeps == ASSUME FleetInv, HubRestarts PROVE FleetInv'
  <1>1. /\ peer' = row /\ door' = {o \in Members : row[o] # NoSubnet} /\ names' = DirNames
        /\ boot' = {} /\ retired' = [m \in Members |-> None]
        /\ join' = [m \in Members |-> NotServing] /\ ann' = [m \in Members |-> NotServing]
        /\ rem' = [m \in Members |-> NotServing] /\ UNCHANGED <<hubStore, member>>
    BY DEF HubRestarts, SyncForwards, SyncFleetNames, SweepJoinPeers, DirNames
  <1>2. FleetTypes'
    BY <1>1 DEF FleetInv, FleetTypes, FleetTypeOK, DirNames, hubStore, member
  <1>3. OwnSubnets(row)' /\ OwnSubnets(peer)'
    BY <1>1 DEF FleetInv, OwnSubnets, hubStore
  <1>4. KnownKept'
    BY <1>1 DEF KnownKept, NotServing
  <1>5. NamesKept' /\ DoorsKept'
    BY <1>1 DEF NamesKept, DirNames, DoorsKept, hubStore
  <1> QED
    BY <1>2, <1>3, <1>4, <1>5 DEF FleetInv

-----------------------------------------------------------------------------
LEMMA FleetStarts == FleetInit => FleetInv
  <1> SUFFICES ASSUME FleetInit PROVE FleetInv
    OBVIOUS
  <1>1. FleetTypes
    BY FleetAssumption DEF FleetInit, FleetTypes, FleetTypeOK
  <1>2. OwnSubnets(row) /\ OwnSubnets(peer)
    BY DEF FleetInit, OwnSubnets
  <1>3. KnownKept
    BY DEF FleetInit, KnownKept, NotServing
  <1>4. NamesKept
    BY DEF FleetInit, NamesKept, DirNames
  <1>5. DoorsKept
    BY FleetAssumption DEF FleetInit, DoorsKept
  <1> QED
    BY <1>1, <1>2, <1>3, <1>4, <1>5 DEF FleetInv

LEMMA FleetSteady == FleetInv /\ [FleetNext]_fleetVars => FleetInv'
  <1> SUFFICES ASSUME FleetInv, [FleetNext]_fleetVars PROVE FleetInv'
    OBVIOUS
  <1>1. CASE UNCHANGED fleetVars
    BY <1>1 DEF fleetVars, hubStore, hubDevice, hubMemory, member, FleetInv, FleetTypes, FleetTypeOK,
                OwnSubnets, KnownKept, NamesKept, NamesDue, DirNames, DoorsKept
  <1>2. ASSUME NEW t \in Tokens, MachineToken(t) \/ Expire(t) PROVE FleetInv'
    BY <1>2, MachineTokenKeeps, ExpireKeeps
  <1>3. CASE ExpireJoinPeers \/ HubRestarts
    BY <1>3, ExpireJoinPeersKeeps, HubRestartsKeeps
  <1>4. ASSUME NEW m \in Members, NEW t \in Tokens, JoinStart(m, t) PROVE FleetInv'
    BY <1>4, JoinStartKeeps
  <1>5. ASSUME NEW m \in Members, JoinStep(m) PROVE FleetInv'
    BY <1>5, JoinPutKeeps, JoinPeerKeeps, JoinSpendKeeps, JoinSyncKeeps, JoinReplyKeeps DEF JoinStep
  <1>6. ASSUME NEW m \in Members, RemoveStep(m) PROVE FleetInv'
    BY <1>6, RemoveRowKeeps, RemoveEnvKeeps, RemoveTellKeeps, RemoveMachinePeerKeeps, RemoveSyncKeeps
       DEF RemoveStep
  <1>7. ASSUME NEW m \in Members, Heartbeat(m) \/ Announce(m) PROVE FleetInv'
    <2>1. envs[m] \in SUBSET Envs
      BY DEF FleetInv, FleetTypes, FleetTypeOK
    <2>2. CASE Heartbeat(m)
      BY <2>1, <2>2, AnnounceOpenKeeps DEF Heartbeat
    <2>3. CASE Announce(m)
      <3>1. PICK e \in envs[m] : AnnounceOpen(m, FALSE, {e})
        BY <2>3 DEF Announce
      <3>2. {e} \in SUBSET Envs
        BY <2>1
      <3> QED
        BY <3>1, <3>2, AnnounceOpenKeeps
    <2> QED
      BY <1>7, <2>2, <2>3
  <1>8. ASSUME NEW m \in Members, AnnounceStep(m) PROVE FleetInv'
    BY <1>8, AnnounceRequireKeeps, AnnounceApplyKeeps, AnnounceRecordKeeps DEF AnnounceStep
  <1>9. ASSUME NEW m \in Members, Leave(m) PROVE FleetInv'
    BY <1>9, LeaveKeeps
  <1>10. ASSUME NEW m \in Members, NEW force \in BOOLEAN, RemoveStart(m, force) PROVE FleetInv'
    BY <1>10, RemoveStartKeeps
  <1>11. ASSUME NEW m \in Members, NEW e \in Envs, EnvCreate(m, e) \/ EnvDestroy(m, e) PROVE FleetInv'
    BY <1>11, EnvCreateKeeps, EnvDestroyKeeps
  <1> QED
    BY <1>1, <1>2, <1>3, <1>4, <1>5, <1>6, <1>7, <1>8, <1>9, <1>10, <1>11 DEF FleetNext

\* Only a join of the machine itself writes its row, and it has its subnet.
LEMMA SubnetKept == FleetInv /\ [FleetNext]_fleetVars => [KeepsSubnet]_fleetVars
  <1> SUFFICES ASSUME FleetInv, FleetNext PROVE KeepsSubnet
    OBVIOUS
  <1>1. row \in SubnetRows
    BY DEF FleetInv, FleetTypes, FleetTypeOK, SubnetRows
  <1>2. ASSUME NEW m \in Members, JoinPut(m) PROVE KeepsSubnet
    BY <1>1, <1>2 DEF JoinPut, FleetInv, KnownKept, KeepsSubnet, SubnetRows
  <1>3. ASSUME NEW m \in Members, RemoveRow(m) PROVE KeepsSubnet
    BY <1>1, <1>3 DEF RemoveRow, KeepsSubnet, SubnetRows
  <1>4. ASSUME row' = row PROVE KeepsSubnet
    BY <1>4 DEF KeepsSubnet
  <1>5. row' = row \/ \E m \in Members : JoinPut(m) \/ RemoveRow(m)
    BY DEF FleetNext, MachineToken, Expire, ExpireJoinPeers, HubRestarts, JoinStart, JoinStep, RemoveStep,
           JoinPeer, JoinSpend, JoinSync, JoinReply, Heartbeat, Announce, AnnounceOpen, AnnounceStep,
           AnnounceRequire, AnnounceApply, AnnounceRecord, Leave, RemoveStart, RemoveEnv, RemoveTell,
           RemoveMachinePeer, RemoveSync, EnvCreate, EnvDestroy, hubStore
  <1> QED
    BY <1>2, <1>3, <1>4, <1>5

LEMMA FleetInvGives == FleetInv => FleetTypeOK /\ PeersDisjoint /\ QuietPublished
  <1> SUFFICES ASSUME FleetInv PROVE FleetTypeOK /\ PeersDisjoint /\ QuietPublished
    OBVIOUS
  <1>1. FleetTypeOK /\ PeersDisjoint
    BY DEF FleetInv, FleetTypes, OwnSubnets, PeersDisjoint
  <1>2. ASSUME Quiet PROVE names = DirNames /\ door \subseteq {m \in Members : row[m] # NoSubnet}
    <2>1. \A m \in Members : ann[m].pc = "idle" /\ rem[m].pc = "idle"
      BY <1>2 DEF Quiet, NotServing
    <2>2. names = DirNames
      BY <2>1 DEF FleetInv, NamesKept, NamesDue
    <2>3. door \subseteq {m \in Members : row[m] # NoSubnet}
      BY <1>1, <2>1 DEF FleetInv, DoorsKept, FleetTypeOK
    <2> QED
      BY <2>2, <2>3
  <1> QED
    BY <1>1, <1>2 DEF QuietPublished, DirNames

\* Whatever joins, removals, announcements and restarts overlap, no two machine
\* peers of the hub share a subnet (machineDoesNotCollideLocked), the subnet of a
\* machine stays while the hub has its row (admitMember), and when no command is
\* served the hub publishes its directory and forwards to no machine it has
\* removed (syncFleetNames, syncForwards).
THEOREM FleetAlwaysAgrees == FleetSpec => FleetAgrees
  <1>1. FleetInit /\ [][FleetNext]_fleetVars => []FleetInv
    BY FleetStarts, FleetSteady, PTL
  <1>2. FleetInit /\ [][FleetNext]_fleetVars => [](FleetTypeOK /\ PeersDisjoint /\ QuietPublished)
    BY <1>1, FleetInvGives, PTL
  <1>3. FleetInit /\ [][FleetNext]_fleetVars => [][KeepsSubnet]_fleetVars
    BY <1>1, SubnetKept, PTL
  <1> QED
    BY <1>2, <1>3, PTL DEF FleetSpec, FleetAgrees
=============================================================================
