------------------------------- MODULE Certs -------------------------------
(***************************************************************************)
(* The certificate store of the edge: src/internal/edge/certs. One edge    *)
(* process runs at a time; the store outlives it. In the "internal" mode a *)
(* process loads the machine's own root, or makes it; in both modes it     *)
(* obtains a certificate during a handshake, under the lock of the store,  *)
(* in three writes; prune removes what an issuer no longer in use left;    *)
(* Close seals the store. A tree is what one issuer stored for the one     *)
(* host of the model: the parts written of its newest certificate, and     *)
(* whether there is a certificate file. certmagic is external.             *)
(***************************************************************************)
EXTENDS Naturals, FiniteSets

CONSTANTS Prunes, MaxGen, MaxCertEvents

ASSUME CertsAssumption == MaxGen \in Nat /\ MaxCertEvents \in Nat

VARIABLES
    root,       \* [key, cert]: the stored root, 0 for none
    site,       \* tree -> what is stored for the host
    edgeProc,   \* the process: where it is, its mode, its root, its store
    obtaining,  \* the issuance a handshake started
    pruning,    \* prune -> its state
    handed,     \* the roots processes served from
    torn,       \* trees a process was killed in the middle of writing
    certEvents

certsVars == <<root, site, edgeProc, obtaining, pruning, handed, torn, certEvents>>

Modes == {"acme", "internal"}
Whole == {"key", "crt", "meta"}
NoSite == [parts |-> {}, file |-> FALSE, expired |-> FALSE, aged |-> FALSE, gen |-> 0]
NoPrune == [pc |-> "idle", all |-> FALSE, removed |-> {}]
Off == [pc |-> "off", mode |-> "acme", ca |-> 0, held |-> 0, closed |-> FALSE]

CertsInit ==
    /\ root = [key |-> 0, cert |-> 0]
    /\ site = [t \in Modes |-> NoSite]
    /\ edgeProc = Off
    /\ obtaining = "no"
    /\ pruning = [p \in Prunes |-> NoPrune]
    /\ handed = {} /\ torn = {} /\ certEvents = 0

Event == certEvents < MaxCertEvents /\ certEvents' = certEvents + 1
Proc(f, v) == edgeProc' = [edgeProc EXCEPT ![f] = v]
CertRest == UNCHANGED <<site, obtaining, pruning, torn>>

(***************************************************************************)
(* newManager, setIssuers and loadInternalCA: the root is read; only when  *)
(* there is none it is read again under the lock and made, the key first.  *)
(***************************************************************************)
NewManager(mode) ==
    /\ edgeProc.pc = "off"
    /\ edgeProc' = [Off EXCEPT !.mode = mode,
                               !.pc = IF mode = "internal" THEN "load" ELSE "run"]
    /\ UNCHANGED <<root, handed, certEvents>> /\ CertRest

Stored == root.cert # 0 /\ root.key # 0

\* load found no root: another process may be making it, so lock and look again.
MutMissing(broken) == broken \/ ~Stored
Missing(broken) == ~broken /\ ~Stored
LoadCA(broken) ==
    /\ edgeProc.pc \in {"load", "load2"}
    /\ IF broken THEN Event ELSE UNCHANGED certEvents
    /\ \/ /\ ~broken /\ Stored
          /\ edgeProc' = [edgeProc EXCEPT !.pc = "run", !.ca = root.cert, !.held = 0]
          /\ handed' = handed \cup {root.cert}
       \/ /\ Missing(broken)
          /\ edgeProc' = [edgeProc EXCEPT !.held = 1,
                !.pc = IF edgeProc.pc = "load" THEN "load2" ELSE "key"]
          /\ UNCHANGED handed
       \/ /\ broken /\ ~Missing(broken)
          /\ edgeProc' = Off
          /\ UNCHANGED handed
    /\ UNCHANGED root /\ CertRest

Generate ==
    /\ \/ /\ edgeProc.pc = "key" /\ root.key < MaxGen
          /\ root' = [root EXCEPT !.key = @ + 1]
          /\ Proc("pc", "cert")
          /\ UNCHANGED handed
       \/ /\ edgeProc.pc = "cert"
          /\ root' = [root EXCEPT !.cert = root.key]
          /\ edgeProc' = [edgeProc EXCEPT !.pc = "run", !.ca = root.key, !.held = 0]
          /\ handed' = handed \cup {root.key}
    /\ UNCHANGED certEvents /\ CertRest

(***************************************************************************)
(* A handshake for a routed host that has no usable certificate: ask, lock *)
(* the store, issue, and write the key, the certificate and its metadata.  *)
(* The sealed store refuses a lock once it is closed, and a write only     *)
(* once it is closed and nobody holds a lock.                              *)
(***************************************************************************)
Tree == edgeProc.mode

Handshake ==
    /\ edgeProc.pc = "run" /\ obtaining = "no"
    /\ site[Tree].parts # Whole \/ site[Tree].expired
    /\ site[Tree].gen < MaxGen
    /\ obtaining' = "ask"
    /\ UNCHANGED <<root, site, edgeProc, pruning, handed, torn, certEvents>>

StorageLock ==
    /\ obtaining = "ask"
    /\ \/ edgeProc.closed /\ obtaining' = "no" /\ UNCHANGED edgeProc
       \/ /\ ~edgeProc.closed
          /\ Proc("held", edgeProc.held + 1)
          /\ obtaining' = "key"
    /\ UNCHANGED <<root, site, pruning, handed, torn, certEvents>>

Release == Proc("held", edgeProc.held - 1)

MutRefused == edgeProc.closed
Refused == edgeProc.closed /\ edgeProc.held = 0

\* Issue and the writes that follow it; a refused request or write ends it.
StorageStore(issued) ==
    /\ obtaining \in Whole
    /\ ~issued => obtaining = "key"
    /\ \/ /\ ~issued \/ Refused
          /\ obtaining' = "no" /\ Release /\ UNCHANGED <<site, torn>>
       \/ /\ issued /\ ~Refused
          /\ site' = [site EXCEPT ![Tree].parts =
                        IF obtaining = "key" THEN {"key"} ELSE @ \cup {obtaining},
                      ![Tree].expired = (@ /\ obtaining # "crt"),
                      ![Tree].aged = (@ /\ obtaining # "crt"),
                      ![Tree].file = (@ \/ obtaining = "crt"),
                      ![Tree].gen = IF obtaining = "crt" THEN @ + 1 ELSE @]
          /\ torn' = IF obtaining = "meta" THEN torn \ {Tree} ELSE torn
          /\ obtaining' = CASE obtaining = "key" -> "crt"
                            [] obtaining = "crt" -> "meta"
                            [] OTHER -> "no"
          /\ IF obtaining = "meta" THEN Release ELSE UNCHANGED edgeProc
    /\ UNCHANGED <<root, pruning, handed, certEvents>>

(***************************************************************************)
(* Prune: what an issuer this process does not use stored, once it expired *)
(* and was long not written (or all of it); judged, then judged again      *)
(* under the prune lock, where another prune may have been first.          *)
(***************************************************************************)
StaleTree == CHOOSE t \in Modes : t # Tree
Removable(all) ==
    /\ site[StaleTree].file
    /\ all \/ (site[StaleTree].expired /\ site[StaleTree].aged)

PruneList(p, all) ==
    /\ edgeProc.pc = "run" /\ pruning[p].pc = "idle"
    /\ pruning' = [pruning EXCEPT ![p] = [NoPrune EXCEPT !.all = all,
            !.pc = IF Removable(all) THEN "lock" ELSE "done"]]
    /\ UNCHANGED <<root, site, edgeProc, obtaining, handed, torn, certEvents>>

PruneLock(p) ==
    /\ pruning[p].pc = "lock"
    /\ \/ edgeProc.closed /\ pruning' = [pruning EXCEPT ![p].pc = "done"] /\ UNCHANGED edgeProc
       \/ /\ ~edgeProc.closed
          /\ \A q \in Prunes : pruning[q].pc # "locked"
          /\ pruning' = [pruning EXCEPT ![p].pc = "locked"]
          /\ Proc("held", edgeProc.held + 1)
    /\ UNCHANGED <<root, site, obtaining, handed, torn, certEvents>>

MutStillRemovable(p) == TRUE
StillRemovable(p) == Removable(pruning[p].all)
PruneDelete(p) ==
    /\ pruning[p].pc = "locked"
    /\ IF StillRemovable(p)
       THEN /\ site' = [site EXCEPT ![StaleTree] = [NoSite EXCEPT !.gen = site[StaleTree].gen]]
            /\ torn' = torn \ {StaleTree}
            /\ pruning' = [pruning EXCEPT ![p].pc = "done",
                    ![p].removed = {<<StaleTree, site[StaleTree].gen>>}]
       ELSE /\ pruning' = [pruning EXCEPT ![p].pc = "done"]
            /\ UNCHANGED <<site, torn>>
    /\ Release
    /\ UNCHANGED <<root, obtaining, handed, certEvents>>

(***************************************************************************)
(* Close seals the store and waits for the locks held, for ten seconds at  *)
(* most; then the process is gone. It may also be killed at any point.     *)
(***************************************************************************)
CloseEdge ==
    /\ edgeProc.pc = "run"
    /\ edgeProc' = [edgeProc EXCEPT !.pc = "closing", !.closed = TRUE]
    /\ UNCHANGED <<root, handed, certEvents>> /\ CertRest

Partial == {t \in Modes : site[t].parts \notin {{}, Whole}}
Gone(tornTrees) ==
    /\ edgeProc' = Off /\ obtaining' = "no"
    /\ pruning' = [p \in Prunes |-> [NoPrune EXCEPT !.removed = pruning[p].removed]]
    /\ torn' = tornTrees
    /\ UNCHANGED <<root, site, handed>>

MutAllReleased == TRUE
AllReleased == edgeProc.held = 0
EdgeClosed == edgeProc.pc = "closing" /\ AllReleased /\ Gone(torn) /\ UNCHANGED certEvents
Killed == edgeProc.pc # "off" /\ Event /\ Gone(torn \cup Partial)

Age(t) ==
    /\ site[t].file /\ ~site[t].aged /\ Event
    /\ site' = [site EXCEPT ![t].aged = site[t].expired, ![t].expired = TRUE]
    /\ UNCHANGED <<root, edgeProc, obtaining, pruning, handed, torn>>

CertsNext ==
    \/ \E mode \in Modes : NewManager(mode)
    \/ \E b \in BOOLEAN : LoadCA(b) \/ StorageStore(b)
    \/ Generate \/ Handshake \/ StorageLock
    \/ \E p \in Prunes : (\E all \in BOOLEAN : PruneList(p, all)) \/ PruneLock(p) \/ PruneDelete(p)
    \/ CloseEdge \/ EdgeClosed \/ Killed
    \/ \E t \in Modes : Age(t)

CertsSpec == CertsInit /\ [][CertsNext]_certsVars
-----------------------------------------------------------------------------
CertsTypeOK ==
    /\ root \in [key : 0..MaxGen, cert : 0..MaxGen]
    /\ site \in [Modes -> [parts : SUBSET Whole, file : BOOLEAN, expired : BOOLEAN,
                           aged : BOOLEAN, gen : 0..MaxGen]]
    /\ edgeProc \in [pc : {"off", "load", "load2", "key", "cert", "run", "closing"},
                     mode : Modes, ca : 0..MaxGen, held : Nat, closed : BOOLEAN]
    /\ obtaining \in {"no", "ask"} \cup Whole
    /\ pruning \in [Prunes -> [pc : {"idle", "lock", "locked", "done"}, all : BOOLEAN,
                        removed : SUBSET (Modes \X (0..MaxGen))]]
    /\ handed \subseteq 1..MaxGen /\ torn \subseteq Modes
    /\ certEvents \in 0..MaxCertEvents

\* The root a developer was told to trust is the root the machine signs with
\* for ever: restarts, kills while it is made, unreadable files and changes of
\* the mode never make a second one (loadInternalCA).
RootKept == Cardinality(handed) <= 1

\* A stop that waited for the store leaves no certificate half written: only a
\* killed process does (sealedStorage.Store and Close).
StoppedWhole == edgeProc.pc = "off" => Partial \subseteq torn

\* Two prunes never both say they removed the same certificate (Prune looks
\* again once it has the lock).
PrunedOnce == \A p, q \in Prunes : p # q => pruning[p].removed \cap pruning[q].removed = {}

\* The machine makes one root, a stop leaves no certificate half written, and
\* no certificate is pruned twice (loadInternalCA, Close, Prune).
CertsKept == CertsTypeOK /\ RootKept /\ StoppedWhole /\ PrunedOnce
=============================================================================
