------------------------------ MODULE Firewall ------------------------------
(***************************************************************************)
(* What `caramelo fleet setup` reads of a machine's own firewall before it *)
(* installs anything (internal/firewall), and the rule --open-ports adds.  *)
(* The four readers (ufw, firewalld, nftables, iptables) are pure: each    *)
(* turns a listing into a verdict on a port.  They are checked against     *)
(* what a packet filter does with a new packet that comes from outside     *)
(* every network a rule names (Passes).  One filter is in force at a time; *)
(* text is abstracted to the rule it spells.                               *)
(***************************************************************************)
EXTENDS Integers, Sequences, FiniteSets

CONSTANTS
    TopPort,     \* ports are 1..TopPort (65535 in the code)
    Wanted,      \* the ports the machine needs: Required of its configuration
    MaxRules     \* bound: rules the operator writes

VARIABLES
    fw,          \* the filter in force: its manager, policies and rules
    unread       \* the tools whose answer cannot be read

fwVars == << fw, unread >>

Managers == {"ufw", "firewalld", "nftables", "iptables"}
Protos == {"tcp", "udp"}
Acts == {"accept", "drop"}
PortSpecs == [proto : Protos, port : 1..TopPort]

\* The ports a machine needs are some of the ports there are.
ASSUME FirewallAssumption ==
    /\ TopPort \in Nat /\ MaxRules \in Nat
    /\ Wanted \subseteq PortSpecs /\ IsFiniteSet(Wanted)

------------------------------------------------------------------------------
(* The rules a listing can spell, by what the reader makes of them.          *)

\* ufw: to ports, from anywhere or from one network; an outgoing rule; an
\* application profile; a rule to an address, which the reader calls unreadable.
UfwKinds == {"ports", "scoped", "out", "profile", "unreadable"}

\* firewalld: a port of the zone, a service the reader knows (ssh, http, https)
\* or does not, a source port, a rich rule.
ZoneKinds == {"ports", "service", "unknownservice", "sourceport", "rich"}

\* nftables: a dport rule, one limited to a source, a jump, a rule that names no
\* port, an input chain of another family, a filter on prerouting.
NftKinds == {"ports", "scoped", "jump", "other", "ipchain", "early"}

\* iptables -S INPUT: a dport rule, one limited to a source, a rule that names
\* only its target, a jump to another chain, a rule with other matches.
IptKinds == {"ports", "scoped", "all", "jump", "other"}

KindsOf(m) ==
    CASE m = "ufw" -> UfwKinds [] m = "firewalld" -> ZoneKinds
      [] m = "nftables" -> NftKinds [] m = "iptables" -> IptKinds [] OTHER -> {}

\* Only nftables has several input chains; the zone's ports only accept.
RuleSet(m) ==
    { r \in [kind : KindsOf(m), chain : {1, 2}, act : Acts, proto : Protos,
             low : 1..TopPort, high : 1..TopPort] :
        /\ r.low <= r.high
        /\ m # "nftables" => r.chain = 1
        /\ m = "firewalld" => r.act = "accept" /\ r.low = r.high
        /\ r.kind \notin {"ports", "scoped", "service", "sourceport"} =>
             r.low = 1 /\ r.high = TopPort /\ r.proto = "tcp" }

\* portRange.matches
Matches(r, p) == r.proto = p.proto /\ p.port \in r.low..r.high

\* The place of the first of the rules that hit, 0 without one.
First(hits) == IF hits = {} THEN 0 ELSE CHOOSE i \in hits : \A j \in hits : i <= j

Chains(f) == {1} \cup { f.rules[i].chain : i \in DOMAIN f.rules }

------------------------------------------------------------------------------
(* The four readers.                                                         *)

MutDecides(r, p) == r.kind \in {"ports", "scoped"} /\ Matches(r, p)

\* The rule of `ufw status verbose` that decides a port: it is for incoming
\* traffic from anywhere and names the port.
Decides(r, p) == r.kind = "ports" /\ Matches(r, p)

\* readUFW's decide: the first such rule; else a rule it cannot read or that is
\* scoped to a source leaves it undecided; else the default for incoming.
UfwDecide(f, p) ==
    LET at == First({ i \in DOMAIN f.rules : Decides(f.rules[i], p) })
        undecided == \E i \in DOMAIN f.rules :
            f.rules[i].kind = "unreadable" \/ (f.rules[i].kind = "scoped" /\ Matches(f.rules[i], p))
    IN CASE at # 0 -> IF f.rules[at].act = "accept" THEN "open" ELSE "blocked"
         [] at = 0 /\ undecided -> "unknown"
         [] OTHER -> IF f.policy[1] = "accept" THEN "open" ELSE "blocked"

\* firewalldZone.decide: ports (and source-ports, which parseFirewalld files
\* with them), then the services in order, then rich rules, then the target.
ZoneDecide(f, p) ==
    LET listed == \E i \in DOMAIN f.rules :
                    f.rules[i].kind \in {"ports", "sourceport"} /\ Matches(f.rules[i], p)
        at == First({ i \in DOMAIN f.rules :
                \/ f.rules[i].kind = "unknownservice"
                \/ f.rules[i].kind = "service" /\ Matches(f.rules[i], p) })
    IN CASE listed -> "open"
         [] ~listed /\ at # 0 -> IF f.rules[at].kind = "service" THEN "open" ELSE "unknown"
         [] OTHER -> IF \E i \in DOMAIN f.rules : f.rules[i].kind = "rich" THEN "unknown"
                     ELSE IF f.policy[1] = "accept" THEN "open" ELSE "blocked"

\* A rule of an nftables chain that stops the reading: parseNftables keeps a jump
\* or a goto as a rule with no verdict.
Unreadable(r) == r.kind = "jump"

MutDropsByPolicy(f) == f.policy[1] = "drop"

\* Some chain that hooks input drops what no rule of it decides.
DropsByPolicy(f) == \E c \in Chains(f) : f.policy[c] = "drop"

\* nftRuleset.decide: the chains in turn; an unreadable rule ends the reading, a
\* matching drop blocks, wherever it stands; an accept is remembered, and so is a
\* chain whose policy drops.  A rule that names no port was never parsed.
NftDecide(f, p) ==
    LET stop == First({ i \in DOMAIN f.rules :
            \/ Unreadable(f.rules[i])
            \/ /\ f.rules[i].kind \in {"ports", "scoped"}
               /\ Matches(f.rules[i], p) /\ f.rules[i].act = "drop" })
        accepting == \E i \in DOMAIN f.rules :
            f.rules[i].kind \in {"ports", "scoped"} /\ Matches(f.rules[i], p)
        drops == DropsByPolicy(f)
        unsure == \E i \in DOMAIN f.rules : f.rules[i].kind \in {"ipchain", "early"}
    IN CASE stop # 0 -> IF Unreadable(f.rules[stop]) THEN "unknown" ELSE "blocked"
         [] stop = 0 /\ accepting -> IF drops THEN "unknown" ELSE "open"
         [] OTHER -> IF drops THEN "blocked" ELSE IF unsure THEN "unknown" ELSE "open"

\* parseIptables and readIptables' decide: the same shape over the one INPUT
\* chain; a jump makes the whole chain unsure, a drop blocks first.
IptDecide(f, p) ==
    LET hit(r) == r.kind = "all" \/ (r.kind \in {"ports", "scoped"} /\ Matches(r, p))
        dropped == \E i \in DOMAIN f.rules : hit(f.rules[i]) /\ f.rules[i].act = "drop"
        accepted == \E i \in DOMAIN f.rules : hit(f.rules[i]) /\ f.rules[i].act = "accept"
        unsure == \E i \in DOMAIN f.rules : f.rules[i].kind = "jump"
    IN CASE dropped -> "blocked"
         [] ~dropped /\ unsure -> "unknown"
         [] OTHER -> IF accepted THEN IF f.policy[1] = "accept" THEN "open" ELSE "unknown"
                     ELSE IF f.policy[1] = "accept" THEN "open" ELSE "blocked"

\* Check as root: the readers are asked in order and the first one that finds its
\* manager in charge decides; when none does, one that could not be read leaves
\* every port unknown.
Says(f, p) ==
    IF f.manager = "none" \/ f.manager \in unread
    THEN IF unread = {} THEN "open" ELSE "unknown"
    ELSE CASE f.manager = "ufw" -> UfwDecide(f, p)
           [] f.manager = "firewalld" -> ZoneDecide(f, p)
           [] f.manager = "nftables" -> NftDecide(f, p)
           [] f.manager = "iptables" -> IptDecide(f, p)

\* Report.Blocked, over the ports the machine needs.
Blocked == { p \in Wanted : Says(fw, p) = "blocked" }

------------------------------------------------------------------------------
(* What the filter does with a new packet from outside every named network. *)

\* A chain lets it in by its first rule that applies, or by its policy.
Applies(r, p) == r.kind = "all" \/ (r.kind = "ports" /\ Matches(r, p))
ChainPasses(f, c, p) ==
    LET at == First({ i \in DOMAIN f.rules : f.rules[i].chain = c /\ Applies(f.rules[i], p) })
    IN (IF at = 0 THEN f.policy[c] ELSE f.rules[at].act) = "accept"

\* Every input chain must let it in; a zone lets in its ports and services.
Passes(f, p) ==
    CASE f.manager = "none" -> TRUE
      [] f.manager = "firewalld" ->
           \/ f.policy[1] = "accept"
           \/ \E i \in DOMAIN f.rules : f.rules[i].kind \in {"ports", "service"} /\ Matches(f.rules[i], p)
      [] OTHER -> \A c \in Chains(f) : ChainPasses(f, c, p)

\* The rules whose effect is not in the listing the reader reads: no verdict can
\* be held against one of them.
Hidden(f) == \E i \in DOMAIN f.rules :
    f.rules[i].kind \in {"profile", "unreadable", "unknownservice", "sourceport", "rich",
                         "jump", "other", "ipchain", "early"}

------------------------------------------------------------------------------
(* The operator's firewall, and the one command of setup that writes to it.  *)

FirewallInit ==
    /\ fw = [manager |-> "none", policy |-> << "accept", "accept" >>, rules |-> << >>]
    /\ unread = {}

\* A firewall is put in force, with its policy (external).
PutInForce(m, policy) ==
    /\ fw.manager = "none"
    /\ m # "nftables" => policy[2] = "accept"
    /\ fw' = [fw EXCEPT !.manager = m, !.policy = policy]
    /\ UNCHANGED unread

\* The operator adds a rule at the end (external).
WriteRule(r) ==
    /\ Len(fw.rules) < MaxRules
    /\ fw' = [fw EXCEPT !.rules = Append(@, r)]
    /\ UNCHANGED unread

\* A tool stops or starts answering (external).
ToolFails(m) == unread' = unread \cup {m} /\ UNCHANGED fw
ToolAnswers(m) == unread' = unread \ {m} /\ UNCHANGED fw

\* `ufw allow port/proto` turns the rule with the same ports over, or adds one at
\* the end (external); firewalld adds the port to the zone.
AllowRule(p) == [kind |-> "ports", chain |-> 1, act |-> "accept", proto |-> p.proto,
                 low |-> p.port, high |-> p.port]
AfterAllow(f, p) ==
    LET spec == AllowRule(p)
        same == { i \in DOMAIN f.rules : [f.rules[i] EXCEPT !.act = "accept"] = spec }
    IN IF same = {} THEN [f EXCEPT !.rules = Append(@, spec)]
       ELSE [f EXCEPT !.rules = [i \in DOMAIN @ |-> IF i \in same THEN spec ELSE @[i]]]

\* OpenCommand: the managers setup writes to.
Openable(m) == m \in {"ufw", "firewalld"}

\* FirewallStep with --open-ports, for one port it found blocked.
OpenPort(p) ==
    /\ p \in Blocked
    /\ Openable(fw.manager)
    /\ fw' = AfterAllow(fw, p)
    /\ UNCHANGED unread

FirewallNext ==
    \/ \E m \in Managers, policy \in [1..2 -> Acts] : PutInForce(m, policy)
    \/ \E r \in RuleSet(fw.manager) : WriteRule(r)
    \/ \E m \in Managers : m \notin unread /\ unread = {} /\ ToolFails(m)
    \/ \E m \in unread : ToolAnswers(m)
    \/ \E p \in Wanted : OpenPort(p)

FirewallSpec == FirewallInit /\ [][FirewallNext]_fwVars

------------------------------------------------------------------------------
(* Properties.                                                               *)

FirewallTypeOK ==
    /\ fw \in [manager : Managers \cup {"none"}, policy : [1..2 -> Acts],
               rules : Seq(RuleSet(fw.manager))]
    /\ Len(fw.rules) <= MaxRules + Cardinality(Wanted)
    /\ unread \subseteq Managers

\* A port the report calls open is let in by this machine: setup goes on without
\* a warning, and the peer that cannot reach the tunnel is told it is not this
\* machine (Check, and the four readers).
OpenMeansPasses ==
    ~Hidden(fw) => \A p \in PortSpecs : Says(fw, p) = "open" => Passes(fw, p)

\* With the two managers --open-ports writes to, a port the report calls blocked
\* is dropped: setup stops, or adds a rule, only for a port that needs one
\* (readUFW, firewalldZone.decide).
WritableBlockedDrops ==
    (Openable(fw.manager) /\ ~Hidden(fw)) =>
        \A p \in PortSpecs : Says(fw, p) = "blocked" => ~Passes(fw, p)

\* A port called open is let in, and one called blocked is dropped where setup
\* would write a rule for it, of which it writes at most one for each port it
\* needs.
FirewallRead == FirewallTypeOK /\ OpenMeansPasses /\ WritableBlockedDrops
=============================================================================
