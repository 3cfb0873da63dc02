--------------------------- MODULE ServingProofs ----------------------------
(***************************************************************************)
(* What serves the traffic tells the truth about it: proofs about          *)
(* EdgeCounts, EdgeControl, Feed and HealthLoop, for any replicas, ports,  *)
(* requests, tables and members, any limits of their buffers and any       *)
(* number of installs, rollouts, restarts, faults and lost streams.        *)
(*                                                                         *)
(* The counters (CountInv). SinceExact speaks of the mark of one instant,  *)
(* so the invariant speaks of every mark that is kept (Marked): the        *)
(* counter of a container is what the mark has of it plus what was counted *)
(* since the mark, or else the container is younger than the mark. The     *)
(* second case is why every counter must also be all that was ever counted *)
(* on its container (Totals), and both rest on a request being counted at  *)
(* most once per attempt (CountedOnce) and on no count being older than    *)
(* its container (Dated).                                                  *)
(*                                                                         *)
(* The feed (FeedInv). That no event is lost between the backlog and the   *)
(* channel is that every event above what the follower saw is in the       *)
(* channel or not yet published (OnItsWay), which needs the channel to be  *)
(* in the order of the store (Ordered).                                    *)
(*                                                                         *)
(* The broker (ControlInv). That no report falls between the replay and    *)
(* the channel is Reaches; it needs the events of before a flip to be the  *)
(* first of the history (OldFirst). That an answered push is saved is      *)
(* Stage, what a push achieved by the step it is at, and needs to know who *)
(* else the edge works for (Connected).                                    *)
(*                                                                         *)
(* Rollouts (UpInv). What an up leaves is what the pool it brings in has   *)
(* been from its first replica on (FreshPool, FreshTree), apart from the   *)
(* pool it replaces (OldPool), and what was recorded and pushed of the two *)
(* (Published). The health loop writes the same rows without a lock: it is *)
(* at rest while a command that was not raced runs (PassApart).            *)
(***************************************************************************)
EXTENDS EdgeCounts, EdgeControl, Feed, HealthLoop, FiniteSetTheorems,
        SequenceTheorems, WellFoundedInduction, TLAPS

-----------------------------------------------------------------------------
(* Sequences. *)

\* Append, as the provers need it.
LEMMA Longer ==
    ASSUME NEW S, NEW s \in Seq(S), NEW e \in S
    PROVE  /\ s \o <<e>> = Append(s, e)
           /\ Append(s, e) \in Seq(S) /\ Len(Append(s, e)) = Len(s) + 1
           /\ \A i \in 1..Len(s) : Append(s, e)[i] = s[i]
           /\ Append(s, e)[Len(s) + 1] = e
  <1>1. /\ Append(s, e) \in Seq(S) /\ Len(Append(s, e)) = Len(s) + 1
        /\ \A i \in 1..Len(s) : Append(s, e)[i] = s[i]
        /\ Append(s, e)[Len(s) + 1] = e
    BY AppendProperties
  <1>2. <<e>> \in Seq(S) /\ Len(<<e>>) = 1 /\ <<e>>[1] = e
    OBVIOUS
  <1>3. s \o <<e>> \in Seq(S) /\ Len(s \o <<e>>) = Len(s) + 1
    BY <1>2, ConcatProperties
  <1>4. \A i \in 1..Len(s \o <<e>>) : (s \o <<e>>)[i] = IF i <= Len(s) THEN s[i] ELSE <<e>>[i - Len(s)]
    BY <1>2, ConcatProperties
  <1>5. Len(s) \in Nat
    OBVIOUS
  <1>6. \A i \in 1..Len(s) + 1 : (s \o <<e>>)[i] = Append(s, e)[i]
    BY <1>1, <1>2, <1>3, <1>4, <1>5
  <1>7. s \o <<e>> = Append(s, e)
    BY <1>1, <1>3, <1>6, SeqEqual
  <1> QED
    BY <1>1, <1>7

\* Head and Tail of a sequence that has something.
LEMMA Shorter ==
    ASSUME NEW S, NEW s \in Seq(S), s # <<>>
    PROVE  /\ Len(s) \in Nat /\ Len(s) >= 1 /\ Head(s) = s[1] /\ s[1] \in S
           /\ Tail(s) \in Seq(S) /\ Len(Tail(s)) = Len(s) - 1
           /\ \A i \in 1..Len(Tail(s)) : Tail(s)[i] = s[i + 1]
  <1>1. Len(s) \in Nat /\ Len(s) >= 1
    BY EmptySeq
  <1>2. Head(s) = s[1] /\ s[1] \in S
    BY <1>1, ElementOfSeq
  <1> QED
    BY <1>1, <1>2, HeadTailProperties

-----------------------------------------------------------------------------
(* The request counters of a route. *)

Counter == [requests : Nat, errors : Nat]
Target == [port : Port \cup {0}, active : BOOLEAN, inc : Nat, counted : Counter]
MarkSet == [at : Nat, unrouted : Counter, per : [Replica -> [inc : Nat, counted : Counter]]]
Pcs == {"idle", "sent", "retry", "refused", "done"}
Req == [pc : Pcs, replica : Replica \cup {0}, port : Port \cup {0}, again : BOOLEAN]
CountSet == [q : Request, again : BOOLEAN, replica : Replica \cup {0}, port : Port \cup {0},
           to : Nat, err : BOOLEAN, at : Nat]

CountTypes ==
    /\ pool \in [Replica -> Target]
    /\ unrouted \in Counter
    /\ marks \in Seq(MarkSet) /\ marks # << >>
    /\ saved \in Tables
    /\ req \in [Request -> Req]
    /\ installs \in Nat /\ restarts \in Nat
    /\ flip \in [since : Nat, at : Nat]
    /\ ledger \in SUBSET CountSet /\ IsFiniteSet(ledger)

\* A listed container has the number of its install, one that is not listed
\* has none, and a request that was sent went to a replica.
Numbered ==
    /\ \A r \in Replica : /\ pool[r].inc <= installs
                          /\ pool[r].port # 0 => pool[r].inc > 0
                          /\ pool[r].port = 0 => pool[r] = Absent
    /\ \A q \in Request : req[q].pc \in {"sent", "retry"} => req[q].replica \in Replica

\* A count is not older than its container, nor newer than the last install.
Dated == \A e \in ledger : e.to <= e.at /\ e.at <= installs

\* An attempt of a request is counted at most once.
CountedOnce ==
    \A e \in ledger : req[e.q].pc = "done" \/ (req[e.q].again /\ ~e.again)

\* What a counter grew by.
Grown(c, o, E) ==
    /\ c.requests = o.requests + Cardinality(E)
    /\ c.errors = o.errors + Cardinality(Errors(E))

Totals ==
    /\ \A r \in Listed : Grown(pool[r].counted, Zero, On(r, 0))
    /\ Grown(unrouted, Zero, OnRoute(0))

\* What a mark knows.
MarkKnows(m) ==
    /\ m.at <= installs
    /\ Grown(unrouted, m.unrouted, OnRoute(m.at))
    /\ \A r \in Replica : m.per[r].inc <= m.at
    /\ \A r \in Listed :
        IF m.per[r].inc = pool[r].inc
        THEN Grown(pool[r].counted, m.per[r].counted, On(r, m.at))
        ELSE m.at < pool[r].inc

Marked == \A i \in 1..Len(marks) : MarkKnows(marks[i])

\* A flip is pushed after its instant was read.
Flipped == flip.at # 0 => flip.since # 0 /\ flip.since <= flip.at
Clocked == flip.since <= installs

CountInv == CountTypes /\ Numbered /\ Dated /\ CountedOnce /\ Totals /\ Marked /\ Flipped /\ Clocked

-----------------------------------------------------------------------------
(* Sets and counters. *)

\* A set of numbers up to a bound has a greatest one.
LEMMA HasGreatest ==
    ASSUME NEW n \in Nat, NEW S \in SUBSET (1..n), S # {}
    PROVE  \E i \in S : \A j \in S : j <= i
  <1> DEFINE T == {n - i : i \in S}
  <1>1. T \subseteq Nat /\ T # {}
    <2>1. PICK k \in S : TRUE
      OBVIOUS
    <2>2. n - k \in T /\ \A i \in S : n - i \in Nat
      OBVIOUS
    <2> QED
      BY <2>2
  <1>2. PICK x \in T : \A y \in T : ~(<<y, x>> \in OpToRel(<, Nat))
    BY <1>1, WFMin, NatLessThanWellFounded
  <1>3. \A y \in T : ~(y < x)
    BY <1>1, <1>2 DEF OpToRel
  <1>4. PICK i \in S : x = n - i
    OBVIOUS
  <1>5. ASSUME NEW j \in S PROVE j <= i
    <2>1. n - j \in T
      OBVIOUS
    <2> QED
      BY <1>3, <1>4, <2>1
  <1> QED
    BY <1>5

\* One more count.
LEMMA OneMore ==
    ASSUME NEW E, IsFiniteSet(E), NEW x, x \notin E, x.err \in BOOLEAN,
           NEW c \in Counter, NEW o \in Counter, Grown(c, o, E)
    PROVE  Grown(Plus(c, x.err), o, E \cup {x})
  <1>1. IsFiniteSet(Errors(E)) /\ Cardinality(E) \in Nat /\ Cardinality(Errors(E)) \in Nat
    BY FS_Subset, FS_CardinalityType DEF Errors
  <1>2. Cardinality(E \cup {x}) = Cardinality(E) + 1
    BY FS_AddElement
  <1>3. Cardinality(Errors(E \cup {x})) = Cardinality(Errors(E)) + (IF x.err THEN 1 ELSE 0)
    <2>1. CASE x.err
      <3>1. Errors(E \cup {x}) = Errors(E) \cup {x} /\ x \notin Errors(E)
        BY <2>1 DEF Errors
      <3> QED
        BY <1>1, <2>1, <3>1, FS_AddElement
    <2>2. CASE ~x.err
      <3>1. Errors(E \cup {x}) = Errors(E)
        BY <2>2 DEF Errors
      <3> QED
        BY <1>1, <2>2, <3>1
    <2> QED
      BY <2>1, <2>2
  <1> QED
    BY <1>1, <1>2, <1>3 DEF Grown, Plus, Counter

\* Nothing more.
LEMMA NoneYet ==
    ASSUME NEW c \in Counter
    PROVE  Grown(c, c, {})
  <1>1. Errors({}) = {}
    BY DEF Errors
  <1> QED
    BY <1>1, FS_EmptySet DEF Grown, Counter

-----------------------------------------------------------------------------
(* Installing a table. *)

\* A replica of a table is absent, the container that was there, or a new one
\* that counts from nothing.
LEMMA InstalledOne ==
    ASSUME Sizes, NEW p \in [Replica -> Target], NEW t \in Tables, NEW at \in Nat, NEW r \in Replica
    PROVE  LET x == Installed(p, t, at)[r] IN
           /\ x \in Target
           /\ \/ x = Absent /\ x.port = 0
              \/ x.port # 0 /\ x.port = p[r].port /\ x.inc = p[r].inc /\ x.counted = p[r].counted
              \/ x.port # 0 /\ x.inc = at /\ x.counted = Zero
  <1>1. t[r] \in [port : Port \cup {0}, active : BOOLEAN] /\ p[r] \in Target
    BY DEF Sizes, RouteTable
  <1>2. Absent \in Target /\ Zero \in Counter
    BY DEF Absent, Target, Zero, Counter
  <1>3. Installed(p, t, at)[r] = IF t[r].port = 0 THEN Absent
                                 ELSE IF p[r].port = t[r].port THEN [p[r] EXCEPT !.active = t[r].active]
                                 ELSE [Absent EXCEPT !.port = t[r].port, !.active = t[r].active, !.inc = at]
    BY DEF Installed
  <1>4. CASE t[r].port = 0
    BY <1>2, <1>3, <1>4 DEF Absent
  <1>5. CASE t[r].port # 0 /\ p[r].port = t[r].port
    BY <1>1, <1>3, <1>5 DEF Target
  <1>6. CASE t[r].port # 0 /\ p[r].port # t[r].port
    BY <1>1, <1>2, <1>3, <1>6 DEF Target, Absent
  <1> QED
    BY <1>4, <1>5, <1>6

\* The marks after a snapshot are the new one and older ones.
LEMMA SnapshotMarks ==
    ASSUME Sizes, NEW ms \in Seq(MarkSet), ms # << >>, NEW m \in MarkSet
    PROVE  /\ Snapshot(ms, m) \in Seq(MarkSet) /\ Snapshot(ms, m) # << >>
           /\ \A i \in 1..Len(Snapshot(ms, m)) :
                Snapshot(ms, m)[i] = m \/ \E j \in 1..Len(ms) : Snapshot(ms, m)[i] = ms[j]
  <1> DEFINE all == Append(ms, m)
  <1>1. /\ all \in Seq(MarkSet) /\ Len(all) = Len(ms) + 1 /\ Len(ms) \in Nat \ {0} /\ all # << >>
        /\ \A i \in 1..Len(all) : all[i] = m \/ \E j \in 1..Len(ms) : all[i] = ms[j]
    OBVIOUS
  <1> HIDE DEF all
  <1>2. Tail(all) \in Seq(MarkSet) /\ Len(Tail(all)) = Len(ms) /\ Tail(all) # << >>
    BY <1>1
  <1>3. \A i \in 1..Len(Tail(all)) : Tail(all)[i] = all[i + 1] /\ i + 1 \in 1..Len(all)
    BY <1>1, <1>2
  <1>4. Snapshot(ms, m) \in {all, Tail(all)}
    BY DEF Snapshot, all
  <1> QED
    BY <1>1, <1>2, <1>3, <1>4

\* A mark of a pool is of the type of marks.
LEMMA MarkType ==
    ASSUME NEW p \in [Replica -> Target], NEW u \in Counter, NEW at \in Nat
    PROVE  Mark(p, u, at) \in MarkSet
  BY DEF Mark, MarkSet, Target

\* A push: what was counted stays counted, and what is new has no counts.
LEMMA PushCounts ==
    ASSUME Sizes, CountInv, NEW t \in Tables, InstallTable(t),
           flip' = flip \/ (flip.since # 0 /\ flip' = [flip EXCEPT !.at = installs'])
    PROVE  CountInv'
  <1>m. PICK mk : mk = Mark(pool', unrouted, installs')
    OBVIOUS
  <1>1. /\ CountTypes /\ installs' = installs + 1 /\ installs' \in Nat /\ unrouted' = unrouted /\ req' = req
        /\ restarts' = restarts /\ ledger' = ledger /\ saved' \in Tables
        /\ pool' = Installed(pool, t, installs') /\ marks' = Snapshot(marks, mk)
    BY <1>m DEF CountInv, CountTypes, InstallTable
  <1>2. ASSUME NEW r \in Replica
        PROVE  /\ pool'[r] \in Target
               /\ \/ pool'[r] = Absent /\ pool'[r].port = 0
                  \/ pool'[r].port # 0 /\ pool'[r].port = pool[r].port /\ pool'[r].inc = pool[r].inc /\ pool'[r].counted = pool[r].counted
                  \/ pool'[r].port # 0 /\ pool'[r].inc = installs' /\ pool'[r].counted = Zero
    BY <1>1, <1>2, InstalledOne DEF CountTypes
  <1>3. pool' \in [Replica -> Target]
    BY <1>1, <1>2 DEF Installed
  <1>4. mk \in MarkSet /\ mk.at = installs' /\ mk.unrouted = unrouted
        /\ \A r \in Replica : mk.per[r].inc = pool'[r].inc /\ mk.per[r].counted = pool'[r].counted
    BY <1>m, <1>1, <1>3, MarkType DEF CountTypes, Mark
  <1>5. CountTypes'
    BY <1>1, <1>3, <1>4, SnapshotMarks DEF CountTypes
  <1>6. Numbered'
    <2>1. ASSUME NEW r \in Replica
          PROVE  /\ pool'[r].inc <= installs'
                 /\ pool'[r].port # 0 => pool'[r].inc > 0
                 /\ pool'[r].port = 0 => pool'[r] = Absent
      <3>1. /\ pool[r].inc \in Nat /\ pool[r].inc <= installs /\ installs \in Nat
            /\ pool[r].port # 0 => pool[r].inc > 0
        BY <1>1 DEF CountInv, Numbered, CountTypes, Target
      <3>2. CASE pool'[r] = Absent /\ pool'[r].port = 0
        BY <1>1, <3>1, <3>2 DEF Absent
      <3>3. CASE pool'[r].port # 0
        BY <1>1, <1>2, <3>1, <3>3
      <3> QED
        BY <1>2, <3>2, <3>3
    <2> QED
      BY <1>1, <2>1 DEF CountInv, Numbered
  <1>7. Dated' /\ CountedOnce'
    <2>1. \A e \in ledger : e.to <= e.at /\ e.at <= installs'
      BY <1>1 DEF CountInv, CountTypes, Dated, CountSet
    <2> QED
      BY <1>1, <2>1 DEF CountInv, Dated, CountedOnce
  <1>8. ASSUME NEW r \in Listed'
        PROVE  \/ /\ r \in Listed /\ pool'[r].inc = pool[r].inc /\ pool'[r].counted = pool[r].counted
                  /\ \A a \in Nat : On(r, a)' = On(r, a)
               \/ /\ pool'[r].inc = installs' /\ pool'[r].counted = Zero
                  /\ \A a \in Nat : On(r, a)' = {}
    <2>1. r \in Replica /\ pool'[r].port # 0
      BY DEF Listed
    <2>2. CASE pool'[r].port = pool[r].port /\ pool'[r].inc = pool[r].inc /\ pool'[r].counted = pool[r].counted
      BY <1>1, <2>1, <2>2 DEF Listed, On
    <2>3. CASE pool'[r].inc = installs' /\ pool'[r].counted = Zero
      <3>1. \A e \in ledger : e.to # installs'
        BY <1>1 DEF CountInv, Dated, CountTypes, CountSet
      <3> QED
        BY <1>1, <2>3, <3>1 DEF On
    <2> QED
      BY <1>2, <2>1, <2>2, <2>3
  <1>9. /\ \A a \in Nat : OnRoute(a)' = OnRoute(a)
        /\ OnRoute(mk.at)' = {} /\ \A r \in Replica : On(r, mk.at)' = {}
    <2>1. \A e \in ledger : ~(e.at >= mk.at)
      BY <1>1, <1>4 DEF CountInv, Dated, CountTypes, CountSet
    <2> QED
      BY <1>1, <2>1 DEF OnRoute, On
  <1>10. Zero \in Counter /\ \A r \in Replica : pool'[r].counted \in Counter
    BY <1>2 DEF Zero, Counter, Target
  <1>11. Totals'
    <2>1. Grown(unrouted, Zero, OnRoute(0))'
      BY <1>1, <1>9 DEF CountInv, Totals, Grown
    <2>2. ASSUME NEW r \in Listed' PROVE Grown(pool[r].counted, Zero, On(r, 0))'
      BY <1>8, <1>10, <2>2, NoneYet DEF CountInv, Totals, Grown
    <2> QED
      BY <2>1, <2>2 DEF Totals
  <1>12. ASSUME NEW m \in MarkSet, MarkKnows(m) PROVE MarkKnows(m)'
    <2>1. m.at \in Nat /\ m.at <= installs /\ \A r \in Replica : m.per[r].inc \in Nat /\ m.per[r].inc <= m.at
      BY <1>12 DEF MarkSet, MarkKnows
    <2>2. Grown(unrouted, m.unrouted, OnRoute(m.at))'
      BY <1>1, <1>9, <1>12, <2>1 DEF MarkKnows, Grown
    <2>3. ASSUME NEW r \in Listed'
          PROVE  IF m.per[r].inc = pool'[r].inc
                 THEN Grown(pool'[r].counted, m.per[r].counted, On(r, m.at)')
                 ELSE m.at < pool'[r].inc
      <3>1. r \in Replica
        BY DEF Listed
      <3> QED
        BY <1>1, <1>8, <1>12, <2>1, <2>3, <3>1 DEF MarkKnows, CountTypes
    <2>4. m.at <= installs'
      BY <1>1, <2>1 DEF CountTypes
    <2> QED
      BY <2>1, <2>2, <2>3, <2>4 DEF MarkKnows, Grown
  <1>13. MarkKnows(mk)'
    <2>1. Grown(unrouted', mk.unrouted, {})
      BY <1>1, <1>4, NoneYet DEF CountTypes
    <2>2. ASSUME NEW r \in Listed' PROVE Grown(pool'[r].counted, mk.per[r].counted, {})
      <3>1. r \in Replica
        BY DEF Listed
      <3> QED
        BY <1>4, <1>10, <3>1, NoneYet
    <2>3. \A r \in Replica : pool'[r].inc <= installs'
      BY <1>6 DEF Numbered
    <2>4. Listed' \subseteq Replica /\ installs' <= installs'
      BY <1>1 DEF Listed
    <2> QED
      BY <1>4, <1>9, <2>1, <2>2, <2>3, <2>4 DEF MarkKnows, Grown, Errors
  <1>14. Marked'
    <2>1. \A i \in 1..Len(marks) : marks[i] \in MarkSet /\ MarkKnows(marks[i])
      BY <1>1 DEF CountInv, Marked, CountTypes
    <2>2. \A i \in 1..Len(marks') : marks'[i] = mk \/ \E j \in 1..Len(marks) : marks'[i] = marks[j]
      <3>1. marks \in Seq(MarkSet) /\ marks # << >> /\ mk \in MarkSet
        BY <1>1, <1>4 DEF CountTypes
      <3>2. \A i \in 1..Len(Snapshot(marks, mk)) :
               Snapshot(marks, mk)[i] = mk \/ \E j \in 1..Len(marks) : Snapshot(marks, mk)[i] = marks[j]
        BY <3>1, SnapshotMarks
      <3> QED
        BY <1>1, <3>2
    <2>3. ASSUME NEW i \in 1..Len(marks') PROVE MarkKnows(marks[i])'
      <3>1. PICK m : m = marks'[i]
        OBVIOUS
      <3>2. MarkKnows(m)'
        BY <1>12, <1>13, <2>1, <2>2, <3>1
      <3> QED
        BY <3>1, <3>2 DEF MarkKnows
    <2> QED
      BY <2>3 DEF Marked
  <1>15. Flipped' /\ Clocked'
    BY <1>1 DEF CountInv, CountTypes, Flipped, Clocked
  <1> QED
    BY <1>5, <1>6, <1>7, <1>11, <1>14, <1>15 DEF CountInv

-----------------------------------------------------------------------------
(* A restart, and the clock of a flip. *)

\* A new process counts from nothing.
LEMMA RestartCounts ==
    ASSUME Sizes, CountInv, EdgeRestarts
    PROVE  CountInv'
  <1>m. PICK mk : mk = Mark(pool', Zero, installs')
    OBVIOUS
  <1>1. /\ CountTypes /\ installs' = installs + 1 /\ installs' \in Nat /\ unrouted' = Zero
        /\ restarts' = restarts + 1 /\ ledger' = {} /\ saved' = saved /\ flip' = flip
        /\ req' = [q \in Request |-> IF req[q].pc = "idle" THEN req[q] ELSE RequestOver]
        /\ pool' = Installed([r \in Replica |-> Absent], saved, installs') /\ marks' = <<mk>>
    BY <1>m DEF CountInv, CountTypes, EdgeRestarts
  <1>2. Zero \in Counter /\ Absent \in Target /\ [r \in Replica |-> Absent] \in [Replica -> Target]
    BY DEF Zero, Counter, Absent, Target
  <1>3. ASSUME NEW r \in Replica
        PROVE  /\ pool'[r] \in Target
               /\ \/ pool'[r] = Absent /\ pool'[r].port = 0
                  \/ pool'[r].port # 0 /\ pool'[r].inc = installs' /\ pool'[r].counted = Zero
    <2>1. [x \in Replica |-> Absent][r].port = 0
      BY DEF Absent
    <2> QED
      BY <1>1, <1>2, <1>3, <2>1, InstalledOne DEF CountTypes
  <1>4. pool' \in [Replica -> Target]
    BY <1>1, <1>3 DEF Installed
  <1>5. mk \in MarkSet /\ mk.at = installs' /\ mk.unrouted = Zero
        /\ \A r \in Replica : mk.per[r].inc = pool'[r].inc /\ mk.per[r].counted = pool'[r].counted
    BY <1>m, <1>1, <1>2, <1>4, MarkType DEF Mark
  <1>6. CountTypes'
    <2>1. req' \in [Request -> Req]
      BY <1>1 DEF CountTypes, Req, Pcs, RequestOver, Idle
    <2>2. <<mk>> \in Seq(MarkSet) /\ <<mk>> # << >>
      BY <1>5
    <2> QED
      BY <1>1, <1>2, <1>4, <2>1, <2>2, FS_EmptySet DEF CountTypes
  <1>7. Numbered'
    <2>1. \A q \in Request : req'[q].pc \notin {"sent", "retry"}
      BY <1>1 DEF RequestOver, Idle
    <2>2. ASSUME NEW r \in Replica
          PROVE  /\ pool'[r].inc <= installs'
                 /\ pool'[r].port # 0 => pool'[r].inc > 0
                 /\ pool'[r].port = 0 => pool'[r] = Absent
      <3>1. CASE pool'[r] = Absent /\ pool'[r].port = 0
        BY <1>1, <3>1 DEF Absent, CountTypes
      <3>2. CASE pool'[r].port # 0 /\ pool'[r].inc = installs'
        BY <1>1, <3>2 DEF CountTypes
      <3> QED
        BY <1>3, <2>2, <3>1, <3>2
    <2> QED
      BY <2>1, <2>2 DEF Numbered
  <1>8. Dated' /\ CountedOnce'
    BY <1>1 DEF Dated, CountedOnce
  <1>9. \A a : OnRoute(a)' = {} /\ \A r : On(r, a)' = {}
    BY <1>1 DEF OnRoute, On
  <1>10. ASSUME NEW r \in Listed' PROVE r \in Replica /\ pool'[r].counted = Zero
    BY <1>3, <1>10 DEF Listed
  <1>11. Totals'
    BY <1>1, <1>2, <1>9, <1>10, NoneYet DEF Totals, Grown, Errors
  <1>12. MarkKnows(mk)'
    <2>1. Grown(Zero, Zero, {})
      BY <1>2, NoneYet
    <2>2. \A r \in Replica : pool'[r].inc <= installs'
      BY <1>7 DEF Numbered
    <2>3. Grown(unrouted', mk.unrouted, OnRoute(mk.at)')
      BY <1>1, <1>5, <1>9, <2>1
    <2>4. ASSUME NEW r \in Listed'
          PROVE  /\ mk.per[r].inc = pool'[r].inc
                 /\ Grown(pool'[r].counted, mk.per[r].counted, On(r, mk.at)')
      BY <1>5, <1>9, <1>10, <2>1, <2>4
    <2>5. mk.at <= installs' /\ \A r \in Replica : mk.per[r].inc <= mk.at
      BY <1>1, <1>5, <2>2
    <2> QED
      BY <2>3, <2>4, <2>5 DEF MarkKnows, Grown
  <1>13. Marked'
    <2>1. Len(marks') = 1 /\ marks'[1] = mk
      BY <1>1
    <2>2. ASSUME NEW i \in 1..Len(marks') PROVE MarkKnows(marks[i])'
      <3>1. marks'[i] = mk
        BY <2>1, <2>2
      <3> QED
        BY <1>12, <3>1 DEF MarkKnows
    <2> QED
      BY <2>2 DEF Marked
  <1>14. Flipped' /\ Clocked'
    BY <1>1 DEF CountInv, CountTypes, Flipped, Clocked
  <1> QED
    BY <1>6, <1>7, <1>8, <1>11, <1>13, <1>14 DEF CountInv

-----------------------------------------------------------------------------
(* Counting. *)

\* What the invariant says of counters, marks and the ledger depends on them
\* only.
LEMMA CountsKept ==
    ASSUME Totals, Marked, UNCHANGED <<pool, unrouted, marks, installs, ledger>>
    PROVE  Totals' /\ Marked'
  <1>1. /\ \A a : OnRoute(a)' = OnRoute(a) /\ \A r : On(r, a)' = On(r, a)
        /\ Listed' = Listed
    BY DEF OnRoute, On, Listed
  <1>2. Totals'
    BY <1>1 DEF Totals, Grown
  <1>3. ASSUME NEW m, MarkKnows(m) PROVE MarkKnows(m)'
    BY <1>1, <1>3 DEF MarkKnows, Grown
  <1>4. ASSUME NEW i \in 1..Len(marks') PROVE MarkKnows(marks[i])'
    <2>1. PICK m : m = marks[i] /\ m = marks'[i]
      OBVIOUS
    <2>2. MarkKnows(m)'
      BY <1>3, <1>4, <2>1 DEF Marked
    <2> QED
      BY <2>1, <2>2 DEF MarkKnows
  <1> QED
    BY <1>2, <1>4 DEF Marked

\* A request is sent or refused, or a deploy reads the clock.
LEMMA QuietCounts ==
    ASSUME Sizes, CountInv,
           \/ ReadClock
           \/ \E q \in Request : Refuse(q) \/ \E r \in Replica : SendRequest(q, r)
           \/ UNCHANGED countVars
    PROVE  CountInv'
  <1>1. Totals' /\ Marked' /\ Dated'
    BY CountsKept DEF CountInv, ReadClock, Refuse, SendRequest, countVars, Dated
  <1>2. CASE ReadClock
    <2>1. /\ UNCHANGED <<pool, unrouted, marks, saved, req, installs, restarts, ledger>>
          /\ flip' = [flip EXCEPT !.since = installs] /\ flip \in [since : Nat, at : Nat]
          /\ installs \in Nat /\ flip.since = 0
      BY <1>2 DEF ReadClock, CountInv, CountTypes
    <2>2. CountTypes'
      BY <2>1 DEF CountInv, CountTypes
    <2>3. Numbered' /\ CountedOnce'
      BY <2>1 DEF CountInv, Numbered, CountedOnce
    <2>4. Flipped' /\ Clocked'
      BY <2>1 DEF CountInv, Flipped, Clocked
    <2> QED
      BY <1>1, <2>2, <2>3, <2>4 DEF CountInv
  <1>3. CASE UNCHANGED countVars
    <2>1. CountTypes'
      BY <1>3 DEF CountInv, countVars, CountTypes
    <2>2. Numbered' /\ CountedOnce' /\ Flipped' /\ Clocked'
      BY <1>3 DEF CountInv, countVars, Numbered, CountedOnce, Flipped, Clocked
    <2> QED
      BY <1>1, <2>1, <2>2 DEF CountInv
  <1>4. ASSUME NEW q \in Request, Refuse(q) \/ \E r \in Replica : SendRequest(q, r) PROVE CountInv'
    <2>1. /\ UNCHANGED <<pool, unrouted, marks, saved, installs, restarts, flip, ledger>>
          /\ req[q].pc \in {"idle", "retry"} /\ req[q] \in Req
      BY <1>4 DEF Refuse, SendRequest, CountInv, CountTypes
    <2>2. /\ req'[q] \in Req /\ req'[q].pc \in {"sent", "refused"} /\ req'[q].again = req[q].again
          /\ req'[q].pc = "sent" => req'[q].replica \in Replica
          /\ \A x \in Request \ {q} : req'[x] = req[x]
          /\ req' \in [Request -> Req]
      <3>1. CASE Refuse(q)
        BY <2>1, <3>1 DEF Refuse, CountInv, CountTypes, Req, Pcs
      <3>2. ASSUME NEW r \in Replica, SendRequest(q, r) PROVE <2>2!:
        <4>1. pool[r].port \in Port \cup {0}
          BY DEF CountInv, CountTypes, Target
        <4> QED
          BY <2>1, <3>2, <4>1 DEF SendRequest, CountInv, CountTypes, Req, Pcs
      <3> QED
        BY <1>4, <3>1, <3>2
    <2>3. CountedOnce'
      BY <2>1, <2>2 DEF CountInv, CountedOnce, CountTypes, CountSet
    <2>4. Numbered'
      BY <2>1, <2>2 DEF CountInv, Numbered
    <2> QED
      BY <1>1, <2>1, <2>2, <2>3, <2>4 DEF CountInv, CountTypes, Flipped, Clocked
  <1> QED
    BY <1>2, <1>3, <1>4

\* A request was counted: on the route when it names no container, and else on
\* the container that has its number.
LEMMA CountingCounts ==
    ASSUME CountInv, NEW x \in CountSet, x \notin ledger, ledger' = ledger \cup {x},
           x.at = installs, x.to <= installs, UNCHANGED <<marks, installs>>,
           \/ /\ x.to = 0 /\ pool' = pool /\ unrouted' = Plus(unrouted, x.err)
           \/ /\ x.to # 0 /\ unrouted' = unrouted
              /\ x.replica \in Listed /\ x.to = pool[x.replica].inc
              /\ pool' = [pool EXCEPT ![x.replica].counted = Plus(@, x.err)]
    PROVE  /\ pool' \in [Replica -> Target] /\ unrouted' \in Counter
           /\ ledger' \in SUBSET CountSet /\ IsFiniteSet(ledger')
           /\ \A r \in Replica : /\ pool'[r].inc = pool[r].inc /\ pool'[r].port = pool[r].port
                                 /\ pool[r].port = 0 => pool'[r] = pool[r]
           /\ Dated' /\ Totals' /\ Marked'
  <1>1. /\ CountTypes /\ x.at \in Nat /\ x.to \in Nat /\ x.err \in BOOLEAN /\ installs \in Nat
        /\ \A r \in Replica : /\ pool[r] \in Target /\ pool[r].counted \in Counter /\ pool[r].inc \in Nat
    BY DEF CountInv, CountTypes, CountSet, Target
  <1>2. \A c \in Counter : Plus(c, x.err) \in Counter
    BY <1>1 DEF Plus, Counter
  <1>3. ASSUME NEW r \in Replica
        PROVE  /\ pool'[r] \in Target /\ pool'[r].inc = pool[r].inc /\ pool'[r].port = pool[r].port
               /\ pool[r].port = 0 => pool'[r] = pool[r]
               /\ pool'[r].counted = IF x.to # 0 /\ r = x.replica THEN Plus(pool[r].counted, x.err)
                                     ELSE pool[r].counted
    <2>1. CASE x.to = 0
      BY <1>1, <2>1
    <2>2. CASE x.to # 0 /\ r # x.replica
      BY <1>1, <2>2 DEF CountTypes
    <2>3. CASE x.to # 0 /\ r = x.replica
      <3>1. pool'[r] = [pool[r] EXCEPT !.counted = Plus(pool[r].counted, x.err)] /\ pool[r].port # 0
        BY <1>1, <2>3 DEF CountTypes, Listed
      <3> QED
        BY <1>1, <1>2, <2>3, <3>1 DEF Target
    <2> QED
      BY <2>1, <2>2, <2>3
  <1>4. pool' \in [Replica -> Target] /\ unrouted' \in Counter
    <2>1. pool' \in [Replica -> Target]
      BY <1>1, <1>3 DEF CountTypes
    <2> QED
      BY <1>1, <1>2, <2>1 DEF CountTypes
  <1>5. ledger' \in SUBSET CountSet /\ IsFiniteSet(ledger')
    BY <1>1, FS_AddElement DEF CountTypes
  <1>6. Dated'
    BY <1>1 DEF CountInv, Dated
  <1>7. Listed' = Listed /\ Listed \subseteq Replica /\ \A r \in Listed : pool[r].inc > 0
    BY <1>3 DEF Listed, CountInv, Numbered
  <1>8. ASSUME NEW a \in Nat
        PROVE  /\ IsFiniteSet(OnRoute(a)) /\ x \notin OnRoute(a)
               /\ \A r \in Replica : IsFiniteSet(On(r, a)) /\ x \notin On(r, a)
    <2>1. OnRoute(a) \subseteq ledger /\ \A r \in Replica : On(r, a) \subseteq ledger
      BY DEF OnRoute, On
    <2> QED
      BY <1>1, <2>1, FS_Subset DEF CountTypes
  <1>9. ASSUME NEW a \in Nat, a <= installs
        PROVE  /\ OnRoute(a)' = IF x.to = 0 THEN OnRoute(a) \cup {x} ELSE OnRoute(a)
               /\ \A r \in Listed : On(r, a)' = IF x.to # 0 /\ r = x.replica THEN On(r, a) \cup {x}
                                                ELSE On(r, a)
    <2>1. OnRoute(a)' = IF x.to = 0 THEN OnRoute(a) \cup {x} ELSE OnRoute(a)
      BY <1>9 DEF OnRoute
    <2>2. ASSUME NEW r \in Listed
          PROVE  On(r, a)' = IF x.to # 0 /\ r = x.replica THEN On(r, a) \cup {x} ELSE On(r, a)
      <3>1. On(r, a)' = {e \in ledger \cup {x} : e.to = pool[r].inc /\ e.replica = r /\ e.at >= a}
        BY <1>3, <1>7 DEF On
      <3>2. (x.to = pool[r].inc /\ x.replica = r /\ x.at >= a) <=> (x.to # 0 /\ r = x.replica)
        BY <1>1, <1>7, <1>9
      <3> QED
        BY <3>1, <3>2 DEF On
    <2> QED
      BY <2>1, <2>2
  <1>10. ASSUME NEW a \in Nat, a <= installs, NEW o \in Counter, Grown(unrouted, o, OnRoute(a))
         PROVE  Grown(unrouted', o, OnRoute(a)')
    <2>1. CASE x.to = 0
      <3>1. OnRoute(a)' = OnRoute(a) \cup {x} /\ unrouted' = Plus(unrouted, x.err) /\ unrouted \in Counter
        BY <1>1, <1>9, <1>10, <2>1 DEF CountTypes
      <3>2. IsFiniteSet(OnRoute(a)) /\ x \notin OnRoute(a) /\ x.err \in BOOLEAN
        BY <1>1, <1>8
      <3>3. Grown(Plus(unrouted, x.err), o, OnRoute(a) \cup {x})
        BY <1>10, <3>1, <3>2, OneMore
      <3> QED
        BY <3>1, <3>3
    <2>2. CASE x.to # 0
      BY <1>9, <1>10, <2>2
    <2> QED
      BY <2>1, <2>2
  <1>11. ASSUME NEW r \in Listed, NEW a \in Nat, a <= installs, NEW o \in Counter,
                Grown(pool[r].counted, o, On(r, a))
         PROVE  Grown(pool'[r].counted, o, On(r, a)')
    <2>1. r \in Replica
      BY <1>7
    <2>2. CASE x.to # 0 /\ r = x.replica
      <3>1. On(r, a)' = On(r, a) \cup {x} /\ pool'[r].counted = Plus(pool[r].counted, x.err)
        BY <1>3, <1>9, <1>11, <2>1, <2>2
      <3>2. IsFiniteSet(On(r, a)) /\ x \notin On(r, a) /\ x.err \in BOOLEAN /\ pool[r].counted \in Counter
        BY <1>1, <1>8, <2>1 DEF CountTypes, Target
      <3>3. Grown(Plus(pool[r].counted, x.err), o, On(r, a) \cup {x})
        BY <1>11, <3>2, OneMore
      <3> QED
        BY <3>1, <3>3
    <2>3. CASE ~(x.to # 0 /\ r = x.replica)
      BY <1>3, <1>9, <1>11, <2>1, <2>3
    <2> QED
      BY <2>2, <2>3
  <1>12. Totals'
    <2>1. Zero \in Counter /\ 0 \in Nat /\ 0 <= installs
      BY <1>1 DEF Zero, Counter
    <2>2. /\ Grown(unrouted', Zero, OnRoute(0)')
          /\ \A r \in Listed : Grown(pool'[r].counted, Zero, On(r, 0)')
      BY <1>10, <1>11, <2>1 DEF CountInv, Totals
    <2> QED
      BY <1>7, <2>2 DEF Totals, Grown
  <1>13. ASSUME NEW m \in MarkSet, MarkKnows(m) PROVE MarkKnows(m)'
    <2>1. /\ m.at \in Nat /\ m.at <= installs /\ m.unrouted \in Counter
          /\ \A r \in Replica : m.per[r].inc <= m.at /\ m.per[r].counted \in Counter
      BY <1>13 DEF MarkSet, MarkKnows
    <2>2. Grown(unrouted', m.unrouted, OnRoute(m.at)')
      BY <1>10, <1>13, <2>1 DEF MarkKnows
    <2>3. ASSUME NEW r \in Listed
          PROVE  IF m.per[r].inc = pool'[r].inc
                 THEN Grown(pool'[r].counted, m.per[r].counted, On(r, m.at)')
                 ELSE m.at < pool'[r].inc
      <3>1. r \in Replica /\ pool'[r].inc = pool[r].inc
        BY <1>3, <1>7
      <3>2. CASE m.per[r].inc = pool[r].inc
        <4>1. Grown(pool[r].counted, m.per[r].counted, On(r, m.at))
          BY <1>13, <2>3, <3>2 DEF MarkKnows
        <4> QED
          BY <1>11, <2>1, <3>1, <3>2, <4>1
      <3>3. CASE m.per[r].inc # pool[r].inc
        BY <1>13, <2>3, <3>1, <3>3 DEF MarkKnows
      <3> QED
        BY <3>2, <3>3
    <2> QED
      BY <1>7, <2>1, <2>2, <2>3 DEF MarkKnows, Grown
  <1>14. Marked'
    <2>1. ASSUME NEW i \in 1..Len(marks') PROVE MarkKnows(marks[i])'
      <3>1. PICK m \in MarkSet : m = marks[i] /\ m = marks'[i]
        BY <1>1 DEF CountTypes
      <3>2. MarkKnows(m)'
        BY <1>13, <2>1, <3>1 DEF CountInv, Marked
      <3> QED
        BY <3>1, <3>2 DEF MarkKnows
    <2> QED
      BY <2>1 DEF Marked
  <1> QED
    BY <1>3, <1>4, <1>5, <1>6, <1>12, <1>14

\* Where a request's attempt is counted: on the route, or on the container
\* that has its replica's number now.
CountedAs(q, to, err) ==
    /\ ledger' = ledger \cup {Entry(q, to, err)} /\ to <= installs
    /\ \/ /\ to = 0 /\ pool' = pool /\ unrouted' = Plus(unrouted, err)
       \/ /\ to # 0 /\ unrouted' = unrouted
          /\ req[q].replica \in Listed /\ to = pool[req[q].replica].inc
          /\ pool' = [pool EXCEPT ![req[q].replica].counted = Plus(@, err)]

\* An attempt of a request is counted.
LEMMA ServeCounts ==
    ASSUME CountInv, NEW q \in Request,
           CountUnrouted(q) \/ CountRetry(q) \/ \E err \in BOOLEAN : CountEnd(q, err)
    PROVE  CountInv'
  <1>1. /\ CountTypes /\ req[q] \in Req /\ req[q].pc \in {"sent", "refused"}
        /\ req[q].replica \in Replica \cup {0} /\ req[q].port \in Port \cup {0} /\ req[q].again \in BOOLEAN
        /\ UNCHANGED <<marks, saved, installs, restarts, flip>>
    BY DEF CountInv, CountTypes, Req, CountUnrouted, CountRetry, CountEnd
  <1>2. PICK to \in Nat, err \in BOOLEAN : CountedAs(q, to, err)
    <2>1. CASE CountUnrouted(q)
      <3>1. 0 <= installs
        BY <1>1 DEF CountTypes
      <3> QED
        BY <2>1, <3>1 DEF CountUnrouted, CountedAs
    <2>2. ASSUME NEW err \in BOOLEAN, CountOn(q, err), req[q].pc = "sent" PROVE \E to \in Nat, e \in BOOLEAN : CountedAs(q, to, e)
      <3>1. /\ req[q].replica \in Replica /\ pool[req[q].replica].inc \in Nat
            /\ pool[req[q].replica].inc <= installs
        BY <1>1, <2>2 DEF CountInv, Numbered, CountTypes, Target
      <3>2. CASE req[q].replica \in Listed
        <4>1. pool[req[q].replica].inc # 0
          BY <3>1, <3>2 DEF CountInv, Numbered, Listed
        <4> QED
          BY <2>2, <3>1, <3>2, <4>1 DEF CountOn, CountedAs
      <3>3. CASE req[q].replica \notin Listed
        <4>1. pool[req[q].replica].inc = 0
          BY <3>1, <3>3 DEF CountInv, Numbered, Listed, Absent
        <4> QED
          BY <2>2, <3>1, <3>3, <4>1 DEF CountOn, CountedAs
      <3> QED
        BY <3>2, <3>3
    <2>3. CASE CountRetry(q)
      BY <2>2, <2>3 DEF CountRetry
    <2>4. ASSUME NEW err \in BOOLEAN, CountEnd(q, err) PROVE \E to \in Nat, e \in BOOLEAN : CountedAs(q, to, e)
      BY <2>2, <2>4 DEF CountEnd
    <2> QED
      BY <2>1, <2>3, <2>4
  <1>3. PICK x : x = Entry(q, to, err)
    OBVIOUS
  <1>4. /\ x \in CountSet /\ x.q = q /\ x.again = req[q].again /\ x.replica = req[q].replica
        /\ x.to = to /\ x.err = err /\ x.at = installs
    BY <1>1, <1>2, <1>3 DEF Entry, CountSet, CountTypes
  <1>5. x \notin ledger
    BY <1>1, <1>4 DEF CountInv, CountedOnce
  <1>6. /\ req' \in [Request -> Req] /\ \A y \in Request \ {q} : req'[y] = req[y]
        /\ \/ req'[q].pc = "done"
           \/ req'[q].again /\ ~req[q].again /\ req'[q].pc = "retry" /\ req'[q].replica \in Replica
    <2>1. CASE CountUnrouted(q) \/ \E e \in BOOLEAN : CountEnd(q, e)
      <3>1. req' = [req EXCEPT ![q] = RequestOver] /\ RequestOver \in Req /\ RequestOver.pc = "done"
        BY <2>1 DEF CountUnrouted, CountEnd, RequestOver, Idle, Req, Pcs
      <3> QED
        BY <1>1, <3>1 DEF CountTypes
    <2>2. CASE CountRetry(q)
      <3>1. req' = [req EXCEPT ![q] = [req[q] EXCEPT !.pc = "retry", !.again = TRUE]]
        BY <2>2 DEF CountRetry
      <3>2. ~req[q].again /\ req[q].replica \in Replica
        BY <2>2 DEF CountRetry, CountInv, Numbered
      <3> QED
        BY <1>1, <3>1, <3>2 DEF CountTypes, Req, Pcs
    <2> QED
      BY <2>1, <2>2
  <1>7. /\ pool' \in [Replica -> Target] /\ unrouted' \in Counter
        /\ ledger' \in SUBSET CountSet /\ IsFiniteSet(ledger')
        /\ \A r \in Replica : /\ pool'[r].inc = pool[r].inc /\ pool'[r].port = pool[r].port
                              /\ pool[r].port = 0 => pool'[r] = pool[r]
        /\ Dated' /\ Totals' /\ Marked'
    <2>1. /\ ledger' = ledger \cup {x} /\ x.to <= installs
          /\ \/ /\ x.to = 0 /\ pool' = pool /\ unrouted' = Plus(unrouted, x.err)
             \/ /\ x.to # 0 /\ unrouted' = unrouted
                /\ x.replica \in Listed /\ x.to = pool[x.replica].inc
                /\ pool' = [pool EXCEPT ![x.replica].counted = Plus(@, x.err)]
      BY <1>2, <1>3, <1>4 DEF CountedAs
    <2> QED
      BY <1>1, <1>4, <1>5, <2>1, CountingCounts
  <1>8. CountTypes'
    BY <1>1, <1>6, <1>7 DEF CountTypes
  <1>9. Numbered'
    BY <1>1, <1>6, <1>7 DEF CountInv, Numbered
  <1>10. CountedOnce'
    <2>1. ASSUME NEW e \in ledger' PROVE req'[e.q].pc = "done" \/ (req'[e.q].again /\ ~e.again)
      <3>1. e \in ledger \cup {x} /\ e.q \in Request
        BY <1>2, <1>3, <1>4, <2>1, <1>7 DEF CountedAs, CountSet
      <3>2. CASE e = x
        BY <1>4, <1>6, <3>2
      <3>3. CASE e \in ledger /\ e.q # q
        BY <1>6, <3>1, <3>3 DEF CountInv, CountedOnce
      <3>4. CASE e \in ledger /\ e.q = q
        <4>1. req[q].again /\ ~e.again
          BY <1>1, <3>4 DEF CountInv, CountedOnce
        <4> QED
          BY <1>6, <3>4, <4>1
      <3> QED
        BY <3>1, <3>2, <3>3, <3>4
    <2> QED
      BY <2>1 DEF CountedOnce
  <1>11. Flipped' /\ Clocked'
    BY <1>1 DEF CountInv, Flipped, Clocked
  <1> QED
    BY <1>7, <1>8, <1>9, <1>10, <1>11 DEF CountInv

-----------------------------------------------------------------------------
(* The inductive invariant. *)

\* The invariant holds when the edge starts ...
LEMMA CountInitially ==
    ASSUME Sizes, CountsInit
    PROVE  CountInv
  <1>1. PICK t \in Tables : StartWith(t)
    BY DEF CountsInit
  <1>2. PICK mk : mk = Mark(pool, Zero, 1)
    OBVIOUS
  <1>3. /\ saved \in Tables /\ pool = Installed([r \in Replica |-> Absent], saved, 1) /\ unrouted = Zero
        /\ marks = <<mk>> /\ req = [q \in Request |-> Idle] /\ installs = 1 /\ restarts = 0
        /\ flip = [since |-> 0, at |-> 0] /\ ledger = {}
    BY <1>1, <1>2 DEF StartWith
  <1>4. Zero \in Counter /\ Absent \in Target /\ [r \in Replica |-> Absent] \in [Replica -> Target]
    BY DEF Zero, Counter, Absent, Target
  <1>5. ASSUME NEW r \in Replica
        PROVE  /\ pool[r] \in Target
               /\ \/ pool[r] = Absent /\ pool[r].port = 0
                  \/ pool[r].port # 0 /\ pool[r].inc = 1 /\ pool[r].counted = Zero
    <2>1. [x \in Replica |-> Absent][r].port = 0
      BY DEF Absent
    <2> QED
      BY <1>3, <1>4, <1>5, <2>1, InstalledOne
  <1>6. pool \in [Replica -> Target]
    BY <1>3, <1>5 DEF Installed
  <1>7. mk \in MarkSet /\ mk.at = 1 /\ mk.unrouted = Zero
        /\ \A r \in Replica : mk.per[r].inc = pool[r].inc /\ mk.per[r].counted = pool[r].counted
    BY <1>2, <1>4, <1>6, MarkType DEF Mark
  <1>8. CountTypes
    <2>1. req \in [Request -> Req]
      BY <1>3 DEF Req, Pcs, Idle
    <2>2. <<mk>> \in Seq(MarkSet) /\ <<mk>> # << >>
      BY <1>7
    <2> QED
      BY <1>3, <1>4, <1>6, <2>1, <2>2, FS_EmptySet DEF CountTypes
  <1>9. ASSUME NEW r \in Replica
        PROVE  /\ pool[r].inc <= installs
               /\ pool[r].port # 0 => pool[r].inc > 0
               /\ pool[r].port = 0 => pool[r] = Absent
    <2>1. CASE pool[r] = Absent /\ pool[r].port = 0
      BY <1>3, <2>1 DEF Absent
    <2>2. CASE pool[r].port # 0 /\ pool[r].inc = 1
      BY <1>3, <2>2
    <2> QED
      BY <1>5, <2>1, <2>2
  <1>10. Numbered
    BY <1>3, <1>9 DEF Numbered, Idle
  <1>11. Dated /\ CountedOnce /\ Flipped /\ Clocked
    BY <1>3 DEF Dated, CountedOnce, Flipped, Clocked
  <1>12. \A a : OnRoute(a) = {} /\ \A r : On(r, a) = {}
    BY <1>3 DEF OnRoute, On
  <1>13. ASSUME NEW r \in Listed PROVE r \in Replica /\ pool[r].counted = Zero
    BY <1>5, <1>13 DEF Listed
  <1>14. Grown(Zero, Zero, {})
    BY <1>4, NoneYet
  <1>15. Totals
    BY <1>3, <1>12, <1>13, <1>14 DEF Totals
  <1>16. MarkKnows(mk)
    <2>1. Grown(unrouted, mk.unrouted, OnRoute(mk.at))
      BY <1>3, <1>7, <1>12, <1>14
    <2>2. ASSUME NEW r \in Listed
          PROVE  mk.per[r].inc = pool[r].inc /\ Grown(pool[r].counted, mk.per[r].counted, On(r, mk.at))
      BY <1>7, <1>12, <1>13, <1>14, <2>2
    <2>3. mk.at <= installs /\ \A r \in Replica : mk.per[r].inc <= mk.at
      BY <1>3, <1>7, <1>9
    <2> QED
      BY <2>1, <2>2, <2>3 DEF MarkKnows
  <1>17. Marked
    BY <1>3, <1>16 DEF Marked
  <1> QED
    BY <1>8, <1>10, <1>11, <1>15, <1>17 DEF CountInv

\* ... and every step of the counters keeps it.
LEMMA CountStep ==
    ASSUME Sizes, CountInv, [CountsNext]_countVars
    PROVE  CountInv'
  <1>1. CASE UNCHANGED countVars
    BY <1>1, QuietCounts
  <1>2. ASSUME NEW t \in Tables, PushOther(t) \/ FlipPush(t) PROVE CountInv'
    BY <1>2, PushCounts DEF PushOther, FlipPush
  <1>3. CASE ReadClock
    BY <1>3, QuietCounts
  <1>4. CASE EdgeRestarts
    BY <1>4, RestartCounts
  <1>5. ASSUME NEW q \in Request, Serve(q) PROVE CountInv'
    <2>1. CASE Refuse(q) \/ \E r \in Replica : SendRequest(q, r)
      BY <2>1, QuietCounts
    <2>2. CASE CountUnrouted(q) \/ CountRetry(q) \/ \E err \in BOOLEAN : CountEnd(q, err)
      BY <2>2, ServeCounts
    <2> QED
      BY <1>5, <2>1, <2>2 DEF Serve
  <1> QED
    BY <1>1, <1>2, <1>3, <1>4, <1>5 DEF CountsNext

\* Every step of the edge and of a deploy keeps the invariant.
THEOREM CountsStayTrue ==
    ASSUME Sizes
    PROVE  CountsSpec => []CountInv
  <1>1. CountsInit => CountInv
    BY CountInitially
  <1>2. CountInv /\ [CountsNext]_countVars => CountInv'
    BY CountStep
  <1> QED
    BY <1>1, <1>2, PTL DEF CountsSpec

-----------------------------------------------------------------------------
(* What a reader is told. *)

\* The mark that answers for an instant is one that is kept, and it is not
\* after the instant when the oldest one is not.
LEMMA MarkAtIsKept ==
    ASSUME CountTypes, NEW since \in Nat
    PROVE  \E i \in 1..Len(marks) :
            /\ MarkAt(since) = marks[i]
            /\ i = 1 \/ marks[i].at <= since
  <1> DEFINE before == {i \in DOMAIN marks : marks[i].at <= since}
             greatest == CHOOSE i \in before : \A j \in before : j <= i
  <1>1. Len(marks) \in Nat /\ DOMAIN marks = 1..Len(marks) /\ 1 \in 1..Len(marks)
    BY DEF CountTypes
  <1>2. MarkAt(since) = IF before = {} THEN marks[1] ELSE marks[greatest]
    BY DEF MarkAt
  <1>3. CASE before = {}
    BY <1>1, <1>2, <1>3
  <1>4. CASE before # {}
    <2>1. before \in SUBSET (1..Len(marks))
      BY <1>1
    <2>2. \E i \in before : \A j \in before : j <= i
      BY <1>1, <1>4, <2>1, HasGreatest
    <2>3. greatest \in before
      BY <2>2
    <2> QED
      BY <1>1, <1>2, <1>4, <2>3
  <1> QED
    BY <1>3, <1>4

\* A difference to a mark is what the counter grew by.
LEMMA SubIsGrown ==
    ASSUME NEW E, IsFiniteSet(E), NEW c \in Counter, NEW o \in Counter, Grown(c, o, E)
    PROVE  Sub(c, o) = [requests |-> Cardinality(E), errors |-> Cardinality(Errors(E))]
  <1>1. Cardinality(E) \in Nat /\ Cardinality(Errors(E)) \in Nat
    BY FS_Subset, FS_CardinalityType DEF Errors
  <1>2. /\ c.requests - o.requests = Cardinality(E) /\ c.errors - o.errors = Cardinality(Errors(E))
        /\ AtLeastZero(Cardinality(E)) = Cardinality(E)
        /\ AtLeastZero(Cardinality(Errors(E))) = Cardinality(Errors(E))
    BY <1>1 DEF Grown, Counter, AtLeastZero
  <1> QED
    BY <1>2 DEF Sub

\* The whole of a counter that started from nothing is what it grew by.
LEMMA WholeIsGrown ==
    ASSUME NEW E, IsFiniteSet(E), NEW c \in Counter, Grown(c, Zero, E)
    PROVE  c = [requests |-> Cardinality(E), errors |-> Cardinality(Errors(E))]
  <1>1. Cardinality(E) \in Nat /\ Cardinality(Errors(E)) \in Nat
    BY FS_Subset, FS_CardinalityType DEF Errors
  <1> QED
    BY <1>1 DEF Grown, Counter, Zero

\* What is read since an instant is what was counted since the mark that
\* answers for it.
LEMMA ReadSince ==
    ASSUME CountInv, NEW since \in Nat, NEW i \in 1..Len(marks), MarkAt(since) = marks[i]
    PROVE  /\ \A r \in Listed :
                CountsOf(r, since) = [requests |-> Cardinality(On(r, marks[i].at)),
                                      errors |-> Cardinality(Errors(On(r, marks[i].at)))]
           /\ UnroutedSince(since) = [requests |-> Cardinality(OnRoute(marks[i].at)),
                                      errors |-> Cardinality(Errors(OnRoute(marks[i].at)))]
  <1>1. PICK m \in MarkSet : m = marks[i] /\ MarkKnows(m)
    BY DEF CountInv, CountTypes, Marked
  <1>2. /\ m.at \in Nat /\ m.unrouted \in Counter /\ unrouted \in Counter
        /\ \A r \in Replica : /\ m.per[r].inc \in Nat /\ m.per[r].counted \in Counter
                              /\ pool[r].counted \in Counter /\ pool[r].inc \in Nat
    BY DEF MarkSet, CountInv, CountTypes, Target
  <1>3. IsFiniteSet(OnRoute(m.at)) /\ \A r : IsFiniteSet(On(r, m.at))
    <2>1. OnRoute(m.at) \subseteq ledger /\ \A r : On(r, m.at) \subseteq ledger
      BY DEF OnRoute, On
    <2> QED
      BY <2>1, FS_Subset DEF CountInv, CountTypes
  <1>4. UnroutedSince(since) = [requests |-> Cardinality(OnRoute(m.at)),
                                errors |-> Cardinality(Errors(OnRoute(m.at)))]
    BY <1>1, <1>2, <1>3, SubIsGrown DEF UnroutedSince, MarkKnows
  <1>5. ASSUME NEW r \in Listed
        PROVE  CountsOf(r, since) = [requests |-> Cardinality(On(r, m.at)),
                                     errors |-> Cardinality(Errors(On(r, m.at)))]
    <2>1. r \in Replica
      BY DEF Listed
    <2>2. CASE m.per[r].inc = pool[r].inc
      <3>1. Grown(pool[r].counted, m.per[r].counted, On(r, m.at))
        BY <1>1, <1>5, <2>2 DEF MarkKnows
      <3>2. CountsOf(r, since) = Sub(pool[r].counted, m.per[r].counted)
        BY <1>1, <2>2 DEF CountsOf
      <3> QED
        BY <1>2, <1>3, <2>1, <3>1, <3>2, SubIsGrown
    <2>3. CASE m.per[r].inc # pool[r].inc
      <3>1. m.at < pool[r].inc /\ Grown(pool[r].counted, Zero, On(r, 0))
        BY <1>1, <1>5, <2>3 DEF MarkKnows, CountInv, Totals
      <3>2. On(r, 0) = On(r, m.at)
        <4>1. \A e \in ledger : e.to \in Nat /\ e.at \in Nat /\ e.to <= e.at
          BY DEF CountInv, Dated, CountTypes, CountSet
        <4> QED
          BY <1>2, <2>1, <3>1, <4>1 DEF On
      <3>3. CountsOf(r, since) = pool[r].counted
        BY <1>1, <2>3 DEF CountsOf
      <3> QED
        BY <1>2, <1>3, <2>1, <3>1, <3>2, <3>3, WholeIsGrown
    <2> QED
      BY <2>2, <2>3
  <1> QED
    BY <1>1, <1>4, <1>5

\* For every instant, what the edge says it counted since then on a replica and
\* on the route is what the proxy counted after the mark that answers for the
\* instant (RoutePool.counts): for any number of replicas, requests, installs
\* and restarts, and any number of marks kept.
THEOREM CountsAreExact ==
    ASSUME Sizes
    PROVE  CountsSpec => []SinceExact
  <1>1. CountInv => SinceExact
    <2> SUFFICES ASSUME CountInv PROVE SinceExact
      OBVIOUS
    <2>1. ASSUME NEW since \in 0..installs
          PROVE  /\ \A r \in Listed :
                      CountsOf(r, since) = [requests |-> Cardinality(On(r, MarkAt(since).at)),
                                            errors |-> Cardinality(Errors(On(r, MarkAt(since).at)))]
                 /\ UnroutedSince(since) = [requests |-> Cardinality(OnRoute(MarkAt(since).at)),
                                            errors |-> Cardinality(Errors(OnRoute(MarkAt(since).at)))]
      <3>1. since \in Nat /\ CountTypes
        BY DEF CountInv, CountTypes
      <3>2. PICK i \in 1..Len(marks) : MarkAt(since) = marks[i]
        BY <3>1, MarkAtIsKept
      <3> QED
        BY <3>1, <3>2, ReadSince
    <2> QED
      BY <2>1 DEF SinceExact
  <1> QED
    BY <1>1, CountsStayTrue, PTL

\* A watch misses nothing a replica answered since its flip, as long as the
\* mark of the flip has not fallen off the list: the mark that answers for the
\* instant the flip was built (flipTargets), which the watch asks Edge.CountSet
\* for, is not after the flip's own.
THEOREM WindowIsKept ==
    ASSUME Sizes
    PROVE  CountsSpec => []WindowKept
  <1>1. CountInv => WindowKept
    <2> SUFFICES ASSUME CountInv, flip.at # 0, marks[1].at <= flip.at, NEW r \in Listed
                 PROVE  CountsOf(r, flip.since).requests >= Cardinality(On(r, flip.at))
      BY DEF WindowKept
    <2>1. CountTypes /\ flip.since \in Nat /\ flip.at \in Nat /\ flip.since <= flip.at
      BY DEF CountInv, CountTypes, Flipped
    <2>2. PICK i \in 1..Len(marks) :
            MarkAt(flip.since) = marks[i] /\ (i = 1 \/ marks[i].at <= flip.since)
      BY <2>1, MarkAtIsKept
    <2>3. marks[i].at \in Nat /\ marks[i].at <= flip.at
      <3>1. marks[i].at \in Nat
        <4>1. PICK m \in MarkSet : m = marks[i]
          BY <2>1 DEF CountTypes
        <4> QED
          BY <4>1 DEF MarkSet
      <3>2. CASE i = 1
        BY <3>1, <3>2
      <3>3. CASE marks[i].at <= flip.since
        BY <2>1, <3>1, <3>3
      <3> QED
        BY <2>2, <3>1, <3>2, <3>3
    <2>4. On(r, flip.at) \subseteq On(r, marks[i].at) /\ On(r, marks[i].at) \subseteq ledger
      BY <2>1, <2>3 DEF On, CountTypes, CountSet
    <2>5. /\ Cardinality(On(r, flip.at)) <= Cardinality(On(r, marks[i].at))
          /\ Cardinality(On(r, flip.at)) \in Nat /\ Cardinality(On(r, marks[i].at)) \in Nat
      BY <2>1, <2>4, FS_Subset, FS_CardinalityType DEF CountTypes
    <2>6. CountsOf(r, flip.since).requests = Cardinality(On(r, marks[i].at))
      BY <2>1, <2>2, ReadSince
    <2> QED
      BY <2>5, <2>6
  <1> QED
    BY <1>1, CountsStayTrue, PTL

\* Together: what a deploy's watch reads of the edge is right, for any number
\* of replicas, requests, tables, marks and restarts.
THEOREM CountsStayExact ==
    ASSUME Sizes
    PROVE  CountsSpec => []CountsExact
  <1>1. SinceExact /\ WindowKept => CountsExact
    BY DEF CountsExact
  <1> QED
    BY <1>1, CountsAreExact, WindowIsKept, PTL

-----------------------------------------------------------------------------
(* The feed of events. *)

Entries == Machines \X Numbers
ReaderSet == [pc : {"off", "query", "emit", "follow"}, seen : Numbers, printed : Seq(Entries)]
FollowSet == [pc : {"none", "dial", "read", "wait"}, seq : Numbers, up : BOOLEAN,
              known : BOOLEAN, wire : Seq(Numbers), cancelled : BOOLEAN]
Flaws == {"slow", "overlap", "foreign", "stale"}

FeedTypes ==
    /\ recorded \in [Machines -> Numbers]
    /\ unpublished \subseteq 1..recorded[Here]
    /\ bus \in Seq(Entries) /\ Len(bus) <= EventBuffer
    /\ reader \in ReaderSet
    /\ follows \in [Members -> FollowSet]
    /\ \A m \in Members : follows[m].cancelled => follows[m].pc # "none"
    /\ fleetRows \subseteq Members
    /\ setting \in [pc : {"idle", "names", "forget", "follow"}, names : SUBSET Members]
    /\ missed \subseteq Flaws

\* What is printed is not above what was seen, and nothing is printed twice.
PrintedSeen ==
    /\ \A i \in DOMAIN reader.printed : reader.printed[i][2] <= reader.seen
    /\ PrintedOnce
    /\ reader.pc \in {"off", "query"} => reader.printed = <<>> /\ reader.seen = 0

\* The events of this machine in the channel were recorded, in their order,
\* and the one that is not published yet comes after them.
Local(i) == bus[i][1] = Here
Ordered ==
    /\ \A i \in DOMAIN bus : Local(i) => bus[i][2] <= recorded[Here]
    /\ "overlap" \notin missed =>
        /\ \A a, b \in unpublished : a = b
        /\ \A i, j \in DOMAIN bus : i < j /\ Local(i) /\ Local(j) => bus[i][2] < bus[j][2]
        /\ \A a \in unpublished, i \in DOMAIN bus : Local(i) => bus[i][2] < a

KeepsUp == missed \cap {"slow", "overlap", "foreign"} = {}
Shown(n) == \E i \in DOMAIN reader.printed : reader.printed[i] = <<Here, n>>
Queued(n) == \E i \in DOMAIN bus : bus[i] = <<Here, n>>
OnItsWay ==
    KeepsUp /\ reader.pc \in {"emit", "follow"} =>
        /\ reader.seen <= recorded[Here]
        /\ \A n \in 1..recorded[Here] :
              IF n <= reader.seen THEN Shown(n) ELSE n \in unpublished \/ Queued(n)

NoneCancelled == \A m \in Members : ~follows[m].cancelled
SetTold ==
    /\ setting.pc \in {"idle", "names", "follow"} => NoneCancelled
    /\ "stale" \notin missed =>
        /\ setting.pc = "idle" => Following = fleetRows
        /\ setting.pc \in {"forget", "follow"} => setting.names = fleetRows
        /\ setting.pc = "follow" => Following \subseteq fleetRows

FeedInv == FeedTypes /\ PrintedSeen /\ Ordered /\ OnItsWay /\ SetTold

-----------------------------------------------------------------------------
(* What a step leaves alone. *)

FollowFrame ==
    /\ \A m \in Members : /\ follows'[m].cancelled = follows[m].cancelled
                          /\ follows'[m].pc = "none" <=> follows[m].pc = "none"
    /\ UNCHANGED <<fleetRows, setting>>

\* A step that neither follows, cancels nor changes the fleet keeps what Set knows.
LEMMA SetToldKept ==
    ASSUME SetTold, FollowFrame, "stale" \in missed <=> "stale" \in missed'
    PROVE  SetTold'
  <1>1. Following' = Following
    BY DEF Following, FollowFrame
  <1>2. NoneCancelled' <=> NoneCancelled
    BY DEF NoneCancelled, FollowFrame
  <1> QED
    BY <1>1, <1>2 DEF SetTold, FollowFrame

\* A member's event or a report goes into the channel, or is dropped, which the
\* follower is told of.
LEMMA Notified ==
    ASSUME FeedTypes, NEW e \in Entries, Notify(<<e>>)
    PROVE  /\ bus' \in Seq(Entries) /\ Len(bus') <= EventBuffer
           /\ bus' = bus \/ bus' = Append(bus, e)
           /\ missed' = missed \/ missed' = missed \cup {"slow"}
           /\ Subscribed /\ "slow" \notin missed' => bus' = Append(bus, e)
  <1>1. bus \o <<e>> = Append(bus, e) /\ Append(bus, e) \in Seq(Entries) /\ Len(Append(bus, e)) = Len(bus) + 1
    BY Longer DEF FeedTypes
  <1>2. Len(<<e>>) = 1 /\ Len(bus) \in Nat /\ EventBuffer \in Nat
    BY FeedAssumption DEF FeedTypes
  <1>3. bus \in Seq(Entries) /\ Len(bus) <= EventBuffer
    BY DEF FeedTypes
  <1> QED
    BY <1>1, <1>2, <1>3 DEF Notify

\* What a member's stream carries into the channel.
LEMMA CarriedKeeps ==
    ASSUME FeedInv, NEW e \in Entries, e[1] # Here,
           bus' = bus \/ bus' = Append(bus, e), missed' = missed \/ missed' = missed \cup {"slow"},
           recorded'[Here] = recorded[Here], UNCHANGED <<unpublished, reader>>
    PROVE  Ordered' /\ OnItsWay' /\ PrintedSeen'
  <1>1. PrintedSeen'
    BY DEF FeedInv, PrintedSeen, PrintedOnce
  <1>2. bus \in Seq(Entries) /\ Len(bus) \in Nat /\ DOMAIN bus = 1..Len(bus)
    BY DEF FeedInv, FeedTypes
  <1>3. /\ Append(bus, e) \in Seq(Entries) /\ Len(Append(bus, e)) = Len(bus) + 1
        /\ \A i \in 1..Len(bus) : Append(bus, e)[i] = bus[i]
        /\ Append(bus, e)[Len(bus) + 1] = e
    BY <1>2, Longer
  <1>4. DOMAIN Append(bus, e) = 1..(Len(bus) + 1)
    BY <1>3
  <1>5. \A i \in DOMAIN bus' : Local(i)' => i \in DOMAIN bus /\ bus'[i] = bus[i] /\ Local(i)
    BY <1>2, <1>3, <1>4 DEF Local
  <1>6. \A i \in DOMAIN bus : i \in DOMAIN bus' /\ bus'[i] = bus[i]
    BY <1>2, <1>3, <1>4
  <1>7. Ordered'
    BY <1>5 DEF FeedInv, Ordered
  <1>8. KeepsUp' => KeepsUp
    BY DEF KeepsUp
  <1>9. ASSUME NEW n, Queued(n) PROVE Queued(n)'
    BY <1>6, <1>9 DEF Queued
  <1>10. ASSUME NEW n PROVE Shown(n)' <=> Shown(n)
    BY DEF Shown
  <1>11. OnItsWay'
    BY <1>8, <1>9, <1>10 DEF FeedInv, OnItsWay
  <1> QED
    BY <1>1, <1>7, <1>11

\* Nothing of the follower's moves.
LEMMA ReaderKept ==
    ASSUME FeedInv, recorded'[Here] = recorded[Here], UNCHANGED <<unpublished, reader, bus>>,
           missed' = missed \/ missed' = missed \cup {"stale"}
    PROVE  Ordered' /\ OnItsWay' /\ PrintedSeen'
  <1>1. KeepsUp' => KeepsUp
    BY DEF KeepsUp
  <1> QED
    BY <1>1 DEF FeedInv, Ordered, Local, OnItsWay, Shown, Queued, PrintedSeen, PrintedOnce

-----------------------------------------------------------------------------
(* The steps. *)

\* The invariant holds at the start.
LEMMA FeedStarts ==
    ASSUME FeedInit
    PROVE  FeedInv
  <1>0. MaxRecorded \in Nat /\ 0 \in Numbers /\ EventBuffer \in Nat
    BY FeedAssumption DEF Numbers
  <1>1. recorded \in [Machines -> Numbers]
    BY <1>0 DEF FeedInit
  <1>2. bus \in Seq(Entries) /\ Len(bus) = 0 /\ DOMAIN bus = {}
    BY DEF FeedInit
  <1>3. reader \in ReaderSet
    BY <1>0 DEF FeedInit, NoReader, ReaderSet
  <1>4. NoFollow \in FollowSet
    BY <1>0 DEF NoFollow, FollowSet
  <1>5. follows \in [Members -> FollowSet] /\ \A m \in Members : follows[m] = NoFollow
    BY <1>4 DEF FeedInit
  <1>s. setting \in [pc : {"idle", "names", "forget", "follow"}, names : SUBSET Members]
    BY DEF FeedInit, NoSet
  <1>c. \A m \in Members : follows[m].cancelled => follows[m].pc # "none"
    BY <1>5 DEF NoFollow
  <1>6. FeedTypes
    BY <1>0, <1>1, <1>2, <1>3, <1>5, <1>s, <1>c DEF FeedInit, FeedTypes
  <1>7. PrintedSeen
    BY DEF FeedInit, PrintedSeen, PrintedOnce, NoReader
  <1>8. Ordered
    BY <1>2 DEF FeedInit, Ordered
  <1>9. OnItsWay
    BY DEF FeedInit, OnItsWay, NoReader
  <1>10. Following = {} /\ NoneCancelled
    BY <1>5 DEF Following, NoneCancelled, NoFollow
  <1>11. SetTold
    BY <1>10 DEF SetTold, FeedInit, NoSet
  <1> QED
    BY <1>6, <1>7, <1>8, <1>9, <1>11 DEF FeedInv

\* An event is recorded: it comes after all there are.
LEMMA AddEventKeeps ==
    ASSUME FeedInv, AddEvent
    PROVE  FeedInv'
  <1> DEFINE n == recorded[Here] + 1
  <1>0. /\ Here \in Machines /\ recorded \in [Machines -> Numbers] /\ recorded[Here] \in Nat
        /\ recorded[Here] < MaxRecorded /\ MaxRecorded \in Nat
    BY FeedAssumption DEF FeedInv, FeedTypes, AddEvent, Machines, Numbers
  <1>1. recorded' = [recorded EXCEPT ![Here] = n] /\ n \in Numbers
    BY <1>0 DEF AddEvent, Numbers
  <1>2. recorded' \in [Machines -> Numbers] /\ recorded'[Here] = n
    BY <1>0, <1>1
  <1>u. unpublished \subseteq 1..recorded[Here]
    BY DEF FeedInv, FeedTypes
  <1>a. unpublished' = unpublished \cup {n}
    BY DEF AddEvent
  <1>b. \A a \in unpublished : a \in 1..n /\ a < n
    BY <1>0, <1>u
  <1>c. n \in 1..n
    BY <1>0
  <1>3. unpublished' = unpublished \cup {n} /\ unpublished' \subseteq 1..n /\ \A a \in unpublished : a < n
    BY <1>a, <1>b, <1>c
  <1>4. UNCHANGED <<bus, reader, follows, fleetRows, setting>>
    BY DEF AddEvent
  <1>5. missed' = IF unpublished # {} THEN missed \cup {"overlap"} ELSE missed
    BY DEF AddEvent
  <1>6. FeedTypes'
    BY <1>2, <1>3, <1>4, <1>5 DEF FeedInv, FeedTypes, Flaws
  <1>7. PrintedSeen'
    BY <1>4 DEF FeedInv, PrintedSeen, PrintedOnce
  <1>8. Ordered'
    <2>1. \A i \in DOMAIN bus : Local(i) => bus[i][2] <= recorded[Here] /\ bus[i][2] \in Nat
      <3>1. \A i \in DOMAIN bus : bus[i] \in Entries
        BY DEF FeedInv, FeedTypes
      <3>2. \A i \in DOMAIN bus : bus[i][2] \in Nat
        BY <3>1 DEF Entries, Numbers
      <3> QED
        BY <3>2 DEF FeedInv, Ordered
    <2>2. \A i \in DOMAIN bus : Local(i) => bus[i][2] < n
      BY <1>0, <2>1
    <2>3. \A i : Local(i)' <=> Local(i)
      BY <1>4 DEF Local
    <2>4. \A i \in DOMAIN bus' : Local(i)' => bus'[i][2] <= recorded'[Here]
      BY <1>0, <1>2, <1>4, <2>1, <2>3
    <2>5. ASSUME "overlap" \notin missed'
          PROVE  /\ \A a, b \in unpublished' : a = b
                 /\ \A i, j \in DOMAIN bus' : i < j /\ Local(i)' /\ Local(j)' => bus'[i][2] < bus'[j][2]
                 /\ \A a \in unpublished', i \in DOMAIN bus' : Local(i)' => bus'[i][2] < a
      <3>1. unpublished' = {n} /\ "overlap" \notin missed
        BY <1>3, <1>5, <2>5
      <3> QED
        BY <1>4, <2>2, <2>3, <3>1 DEF FeedInv, Ordered
    <2> QED
      BY <2>4, <2>5 DEF Ordered
  <1>9. OnItsWay'
    <2> SUFFICES ASSUME KeepsUp', reader'.pc \in {"emit", "follow"}
                 PROVE  /\ reader'.seen <= recorded'[Here]
                        /\ \A k \in 1..recorded'[Here] :
                              IF k <= reader'.seen THEN Shown(k)' ELSE k \in unpublished' \/ Queued(k)'
      BY DEF OnItsWay
    <2>1. KeepsUp
      BY <1>5 DEF KeepsUp
    <2>2. /\ reader.seen <= recorded[Here] /\ reader.seen \in Nat
          /\ \A k \in 1..recorded[Here] :
                IF k <= reader.seen THEN Shown(k) ELSE k \in unpublished \/ Queued(k)
      BY <1>4, <2>1 DEF FeedInv, OnItsWay, FeedTypes, ReaderSet, Numbers
    <2>3. \A k : (Shown(k)' <=> Shown(k)) /\ (Queued(k)' <=> Queued(k))
      BY <1>4 DEF Shown, Queued
    <2>4. \A k \in 1..n : k \in 1..recorded[Here] \/ k = n
      BY <1>0
    <2>5. ~(n <= reader.seen) /\ reader.seen <= n
      BY <1>0, <2>2
    <2> QED
      BY <1>2, <1>3, <1>4, <2>2, <2>3, <2>4, <2>5
  <1>10. SetTold'
    BY <1>4, <1>5, SetToldKept DEF FeedInv, FollowFrame
  <1> QED
    BY <1>6, <1>7, <1>8, <1>9, <1>10 DEF FeedInv

\* It is published: behind all the others of this machine.
LEMMA NotifyKeeps ==
    ASSUME FeedInv, NEW n \in 1..MaxRecorded, Publish(n)
    PROVE  FeedInv'
  <1> DEFINE e == <<Here, n>>
  <1>0. e \in Entries /\ e[1] = Here /\ e[2] = n
    BY FeedAssumption DEF Entries, Machines, Numbers
  <1>1. /\ bus' \in Seq(Entries) /\ Len(bus') <= EventBuffer
        /\ bus' = bus \/ bus' = Append(bus, e)
        /\ missed' = missed \/ missed' = missed \cup {"slow"}
        /\ Subscribed /\ "slow" \notin missed' => bus' = Append(bus, e)
    BY <1>0, Notified DEF FeedInv, Publish
  <1>2. /\ n \in unpublished /\ unpublished' = unpublished \ {n}
        /\ UNCHANGED <<recorded, reader, follows, fleetRows, setting>>
    BY DEF Publish
  <1>3. FeedTypes'
    BY <1>1, <1>2 DEF FeedInv, FeedTypes, Flaws
  <1>4. PrintedSeen'
    BY <1>2 DEF FeedInv, PrintedSeen, PrintedOnce
  <1>5. bus \in Seq(Entries) /\ Len(bus) \in Nat /\ DOMAIN bus = 1..Len(bus)
    BY DEF FeedInv, FeedTypes
  <1>6. /\ Append(bus, e) \in Seq(Entries) /\ Len(Append(bus, e)) = Len(bus) + 1
        /\ \A i \in 1..Len(bus) : Append(bus, e)[i] = bus[i]
        /\ Append(bus, e)[Len(bus) + 1] = e
    BY <1>0, <1>5, Longer
  <1>7. DOMAIN Append(bus, e) = 1..(Len(bus) + 1)
    BY <1>6
  <1>8. \A i \in DOMAIN bus : i \in DOMAIN bus' /\ bus'[i] = bus[i] /\ (Local(i)' <=> Local(i))
    BY <1>1, <1>5, <1>6, <1>7 DEF Local
  <1>9. \A i \in DOMAIN bus' : \/ i \in DOMAIN bus
                               \/ i = Len(bus) + 1 /\ bus'[i] = e
    BY <1>1, <1>5, <1>6, <1>7
  <1>10. Ordered'
    <2>1. n <= recorded[Here]
      BY <1>2 DEF FeedInv, FeedTypes
    <2>2. \A i \in DOMAIN bus' : Local(i)' => bus'[i][2] <= recorded'[Here]
      BY <1>0, <1>2, <1>8, <1>9, <2>1 DEF FeedInv, Ordered
    <2>3. ASSUME "overlap" \notin missed'
          PROVE  /\ \A a, b \in unpublished' : a = b
                 /\ \A i, j \in DOMAIN bus' : i < j /\ Local(i)' /\ Local(j)' => bus'[i][2] < bus'[j][2]
                 /\ \A a \in unpublished', i \in DOMAIN bus' : Local(i)' => bus'[i][2] < a
      <3>1. "overlap" \notin missed
        BY <1>1, <2>3
      <3>2. unpublished' = {}
        BY <1>2, <3>1 DEF FeedInv, Ordered
      <3>3. \A i \in DOMAIN bus : Local(i) => bus[i][2] < n
        BY <1>2, <3>1 DEF FeedInv, Ordered
      <3>4. \A i, j \in DOMAIN bus : i < j /\ Local(i) /\ Local(j) => bus[i][2] < bus[j][2]
        BY <3>1 DEF FeedInv, Ordered
      <3>5. ASSUME NEW i \in DOMAIN bus', NEW j \in DOMAIN bus', i < j, Local(i)', Local(j)'
            PROVE  bus'[i][2] < bus'[j][2]
        <4>1. i \in DOMAIN bus
          BY <1>5, <1>9, <3>5
        <4>2. CASE j \in DOMAIN bus
          BY <1>8, <3>4, <3>5, <4>1, <4>2
        <4>3. CASE bus'[j] = e
          BY <1>0, <1>8, <3>3, <3>5, <4>1, <4>3
        <4> QED
          BY <1>9, <4>2, <4>3
      <3> QED
        BY <3>2, <3>5
    <2> QED
      BY <2>2, <2>3 DEF Ordered
  <1>11. OnItsWay'
    <2> SUFFICES ASSUME KeepsUp', reader'.pc \in {"emit", "follow"}
                 PROVE  /\ reader'.seen <= recorded'[Here]
                        /\ \A k \in 1..recorded'[Here] :
                              IF k <= reader'.seen THEN Shown(k)' ELSE k \in unpublished' \/ Queued(k)'
      BY DEF OnItsWay
    <2>1. KeepsUp /\ Subscribed /\ "slow" \notin missed'
      BY <1>1, <1>2 DEF KeepsUp, Subscribed
    <2>2. /\ reader.seen <= recorded[Here]
          /\ \A k \in 1..recorded[Here] :
                IF k <= reader.seen THEN Shown(k) ELSE k \in unpublished \/ Queued(k)
      BY <1>2, <2>1 DEF FeedInv, OnItsWay
    <2>3. \A k : (Shown(k)' <=> Shown(k)) /\ (Queued(k) => Queued(k)')
      BY <1>2, <1>8 DEF Shown, Queued
    <2>4. Queued(n)'
      BY <1>1, <1>5, <1>6, <1>7, <2>1 DEF Queued
    <2> QED
      BY <1>2, <2>2, <2>3, <2>4
  <1>12. SetTold'
    BY <1>1, <1>2, SetToldKept DEF FeedInv, FollowFrame
  <1> QED
    BY <1>3, <1>4, <1>10, <1>11, <1>12 DEF FeedInv

\* A subscription begins with nothing in its channel.
LEMMA FollowerKeeps ==
    ASSUME FeedInv, Subscribe
    PROVE  FeedInv'
  <1>1. /\ reader' = [NoReader EXCEPT !.pc = "query"] /\ bus' = <<>>
        /\ missed' = (missed \cap {"stale"}) \cup (IF Cardinality(unpublished) > 1 THEN {"overlap"} ELSE {})
        /\ UNCHANGED <<recorded, unpublished, follows, fleetRows, setting>>
    BY DEF Subscribe
  <1>2. reader' = [pc |-> "query", seen |-> 0, printed |-> <<>>]
    BY <1>1 DEF NoReader
  <1>3. reader' \in ReaderSet
    BY <1>2, FeedAssumption DEF ReaderSet, Numbers
  <1>4. bus' \in Seq(Entries) /\ Len(bus') <= EventBuffer /\ DOMAIN bus' = {}
    BY <1>1, FeedAssumption
  <1>5. FeedTypes'
    BY <1>1, <1>3, <1>4 DEF FeedInv, FeedTypes, Flaws
  <1>6. PrintedSeen'
    BY <1>2 DEF PrintedSeen, PrintedOnce
  <1>7. Ordered'
    <2>1. ASSUME "overlap" \notin missed', NEW a \in unpublished, NEW b \in unpublished PROVE a = b
      <3>1. recorded[Here] \in Nat /\ unpublished \subseteq 1..recorded[Here]
        BY FeedAssumption DEF FeedInv, FeedTypes, Machines, Numbers
      <3>i. IsFiniteSet(1..recorded[Here])
        BY <3>1, FS_Interval
      <3>2. IsFiniteSet(unpublished)
        BY <3>1, <3>i, FS_Subset
      <3>3. Cardinality(unpublished) \in Nat /\ ~(Cardinality(unpublished) > 1)
        BY <1>1, <2>1, <3>2, FS_CardinalityType
      <3>4. Cardinality({a, b}) <= Cardinality(unpublished)
        BY <3>2, FS_Subset
      <3>5. a # b => Cardinality({a, b}) = 2
        <4>1. IsFiniteSet({a}) /\ Cardinality({a}) = 1
          BY FS_Singleton
        <4>2. Cardinality({a} \cup {b}) = IF b \in {a} THEN 1 ELSE 1 + 1
          BY <4>1, FS_AddElement
        <4>3. {a} \cup {b} = {a, b}
          OBVIOUS
        <4> QED
          BY <4>2, <4>3
      <3> QED
        BY <3>3, <3>4, <3>5
    <2> QED
      BY <1>1, <1>4, <2>1 DEF Ordered
  <1>8. OnItsWay'
    BY <1>2 DEF OnItsWay
  <1>9. SetTold'
    BY <1>1, SetToldKept DEF FeedInv, FollowFrame
  <1> QED
    BY <1>5, <1>6, <1>7, <1>8, <1>9 DEF FeedInv

\* The rows are read: all that is recorded by then is shown.
LEMMA QueryKeeps ==
    ASSUME FeedInv, QueryEvents
    PROVE  FeedInv'
  <1> DEFINE all == [n \in 1..recorded[Here] |-> <<Here, n>>]
  <1>0. /\ Here \in Machines /\ recorded[Here] \in Numbers /\ recorded[Here] \in Nat
        /\ recorded[Here] <= MaxRecorded /\ MaxRecorded \in Nat
    BY FeedAssumption DEF FeedInv, FeedTypes, Machines, Numbers
  <1>1. /\ reader' = [pc |-> "emit", seen |-> recorded[Here], printed |-> all]
        /\ UNCHANGED <<recorded, unpublished, bus, follows, fleetRows, setting, missed>>
    BY DEF QueryEvents
  <1>2. \A n \in 1..recorded[Here] : <<Here, n>> \in Entries
    BY <1>0 DEF Entries, Numbers
  <1>3. all \in Seq(Entries)
    BY <1>0, <1>2
  <1>4. reader' \in ReaderSet
    BY <1>0, <1>1, <1>3 DEF ReaderSet
  <1>5. FeedTypes'
    BY <1>1, <1>4 DEF FeedInv, FeedTypes
  <1>6. /\ reader'.printed = all /\ reader'.seen = recorded[Here] /\ reader'.pc = "emit"
        /\ DOMAIN all = 1..recorded[Here] /\ \A n \in 1..recorded[Here] : all[n] = <<Here, n>>
    BY <1>1
  <1>7. PrintedSeen'
    BY <1>0, <1>6 DEF PrintedSeen, PrintedOnce
  <1>8. Ordered'
    BY <1>1 DEF FeedInv, Ordered, Local
  <1>9. OnItsWay'
    <2>1. ASSUME NEW n \in 1..recorded[Here] PROVE Shown(n)'
      BY <1>6 DEF Shown
    <2>2. recorded'[Here] = recorded[Here] /\ recorded[Here] <= recorded[Here] /\ \A n \in 1..recorded[Here] : n <= recorded[Here]
      BY <1>0, <1>1
    <2> QED
      BY <1>6, <2>1, <2>2 DEF OnItsWay
  <1>10. SetTold'
    BY <1>1, SetToldKept DEF FeedInv, FollowFrame
  <1> QED
    BY <1>5, <1>7, <1>8, <1>9, <1>10 DEF FeedInv

\* Manager.Events: the backlog is printed.
LEMMA EmitKeeps ==
    ASSUME FeedInv, EmitBacklog
    PROVE  FeedInv'
  <1>1. /\ reader.pc = "emit" /\ reader' = [reader EXCEPT !.pc = "follow"]
        /\ UNCHANGED <<recorded, unpublished, bus, follows, fleetRows, setting, missed>>
    BY DEF EmitBacklog
  <1>2. reader \in ReaderSet
    BY DEF FeedInv, FeedTypes
  <1>3. /\ reader' \in ReaderSet /\ reader'.pc = "follow"
        /\ reader'.seen = reader.seen /\ reader'.printed = reader.printed
    BY <1>1, <1>2 DEF ReaderSet
  <1>4. FeedTypes'
    BY <1>1, <1>3 DEF FeedInv, FeedTypes
  <1>5. PrintedSeen' /\ Ordered'
    BY <1>1, <1>3 DEF FeedInv, PrintedSeen, PrintedOnce, Ordered, Local
  <1>6. OnItsWay'
    BY <1>1, <1>3 DEF FeedInv, OnItsWay, KeepsUp, Shown, Queued
  <1>7. SetTold'
    BY <1>1, SetToldKept DEF FeedInv, FollowFrame
  <1> QED
    BY <1>4, <1>5, <1>6, <1>7 DEF FeedInv

\* The follower goes away.
LEMMA StopReadingKeeps ==
    ASSUME FeedInv, StopReading
    PROVE  FeedInv'
  <1>1. reader' = NoReader /\ bus' = <<>> /\ UNCHANGED <<recorded, unpublished, follows, fleetRows, setting, missed>>
    BY DEF StopReading
  <1>2. reader' \in ReaderSet
    BY <1>1, FeedAssumption DEF NoReader, ReaderSet, Numbers
  <1>3. bus' \in Seq(Entries) /\ Len(bus') <= EventBuffer /\ DOMAIN bus' = {}
    BY <1>1, FeedAssumption
  <1>4. FeedTypes'
    BY <1>1, <1>2, <1>3 DEF FeedInv, FeedTypes
  <1>5. PrintedSeen' /\ OnItsWay'
    BY <1>1 DEF PrintedSeen, PrintedOnce, OnItsWay, NoReader
  <1>6. Ordered'
    BY <1>1, <1>3 DEF FeedInv, Ordered
  <1>7. SetTold'
    BY <1>1, SetToldKept DEF FeedInv, FollowFrame
  <1> QED
    BY <1>4, <1>5, <1>6, <1>7 DEF FeedInv

\* The next event: of this machine, it is the first that is not shown yet.
LEMMA PrintKeeps ==
    ASSUME FeedInv, PrintEvent
    PROVE  FeedInv'
  <1> DEFINE e == Head(bus)
  <1>0. bus \in Seq(Entries) /\ bus # <<>> /\ reader.pc = "follow" /\ reader \in ReaderSet
    BY DEF FeedInv, FeedTypes, PrintEvent
  <1>1. /\ Len(bus) \in Nat /\ Len(bus) >= 1 /\ e = bus[1] /\ bus[1] \in Entries
        /\ Tail(bus) \in Seq(Entries) /\ Len(Tail(bus)) = Len(bus) - 1
        /\ \A i \in 1..Len(Tail(bus)) : Tail(bus)[i] = bus[i + 1]
    BY <1>0, Shorter
  <1>2. DOMAIN bus = 1..Len(bus) /\ DOMAIN Tail(bus) = 1..(Len(bus) - 1)
    BY <1>0, <1>1
  <1>3. bus' = Tail(bus) /\ UNCHANGED <<recorded, unpublished, follows, fleetRows, setting>>
    BY DEF PrintEvent
  <1>4. e[2] \in Numbers /\ e[2] \in Nat /\ reader.seen \in Nat /\ reader.seen \in Numbers /\ reader.printed \in Seq(Entries)
    BY <1>0, <1>1 DEF Entries, Numbers, ReaderSet
  <1>t. bus' \in Seq(Entries) /\ Len(bus') <= EventBuffer
    <2>1. Len(bus) <= EventBuffer /\ EventBuffer \in Nat
      BY FeedAssumption DEF FeedInv, FeedTypes
    <2> QED
      BY <1>1, <1>3, <2>1
  <1>5. missed' = IF e[1] # Here /\ e[2] # 0 THEN missed \cup {"foreign"} ELSE missed
    BY DEF PrintEvent
  <1>6. \A i \in DOMAIN bus' : i \in DOMAIN bus /\ i + 1 \in DOMAIN bus /\ bus'[i] = bus[i + 1]
    BY <1>1, <1>2, <1>3
  <1>7. \A i \in DOMAIN bus : i = 1 \/ (i - 1 \in DOMAIN bus' /\ bus'[i - 1] = bus[i])
    BY <1>1, <1>2, <1>3
  <1>8. CASE e[2] = 0 \/ ~Fresh(e[2])
    \* nothing is printed
    <2>1. reader' = reader
      <3>1. CASE ~Fresh(e[2])
        BY <3>1 DEF PrintEvent
      <3>2. CASE Fresh(e[2]) /\ e[2] = 0
        <4>0. ~(e[2] > reader.seen)
          BY <1>4, <3>2
        <4>1. reader' = [reader EXCEPT !.seen = reader.seen, !.printed = reader.printed]
          BY <3>2, <4>0 DEF PrintEvent
        <4> QED
          BY <1>0, <4>1 DEF ReaderSet
      <3> QED
        BY <1>8, <3>1, <3>2
    <2>2. FeedTypes'
      BY <1>t, <1>3, <1>5, <2>1 DEF FeedInv, FeedTypes, Flaws
    <2>3. PrintedSeen'
      BY <2>1 DEF FeedInv, PrintedSeen, PrintedOnce
    <2>4. Ordered'
      <3>1. \A i \in DOMAIN bus' : Local(i)' <=> Local(i + 1)
        BY <1>6 DEF Local
      <3>2. "overlap" \notin missed' => "overlap" \notin missed
        BY <1>5
      <3>3. \A i, j \in DOMAIN bus' : i < j => i + 1 < j + 1
        BY <1>1, <1>2, <1>3
      <3> QED
        BY <1>3, <1>6, <3>1, <3>2, <3>3 DEF FeedInv, Ordered
    <2>5. OnItsWay'
      <3> SUFFICES ASSUME KeepsUp'
                   PROVE  /\ reader.seen <= recorded[Here]
                          /\ \A k \in 1..recorded[Here] :
                                IF k <= reader.seen THEN Shown(k) ELSE k \in unpublished \/ Queued(k)'
        BY <1>3, <2>1 DEF OnItsWay, Shown
      <3>1. KeepsUp
        BY <1>5 DEF KeepsUp
      <3>2. /\ reader.seen <= recorded[Here]
            /\ \A k \in 1..recorded[Here] :
                  IF k <= reader.seen THEN Shown(k) ELSE k \in unpublished \/ Queued(k)
        BY <1>0, <3>1 DEF FeedInv, OnItsWay
      <3>3. ASSUME NEW k \in 1..recorded[Here], ~(k <= reader.seen), Queued(k) PROVE Queued(k)'
        <4>1. PICK i \in DOMAIN bus : bus[i] = <<Here, k>>
          BY <3>3 DEF Queued
        <4>2. i # 1
          <5> SUFFICES ASSUME e = <<Here, k>> PROVE FALSE
            BY <1>1, <4>1
          <5>1. e[2] = k /\ k # 0 /\ k \in Nat
            BY FeedAssumption
          <5> QED
            BY <1>4, <1>8, <3>3, <5>1 DEF Fresh
        <4> QED
          BY <1>7, <4>1, <4>2 DEF Queued
      <3> QED
        BY <3>2, <3>3
    <2>6. SetTold'
      BY <1>3, <1>5, SetToldKept DEF FeedInv, FollowFrame
    <2> QED
      BY <2>2, <2>3, <2>4, <2>5, <2>6 DEF FeedInv
  <1>9. CASE e[2] # 0 /\ Fresh(e[2])
    \* it is above all that was seen
    <2>0. e[2] > reader.seen
      BY <1>9 DEF Fresh
    <2>1. reader' = [reader EXCEPT !.seen = e[2], !.printed = Append(reader.printed, e)]
      BY <1>9, <2>0 DEF PrintEvent
    <2>2. /\ Append(reader.printed, e) \in Seq(Entries) /\ Len(Append(reader.printed, e)) = Len(reader.printed) + 1
          /\ \A i \in 1..Len(reader.printed) : Append(reader.printed, e)[i] = reader.printed[i]
          /\ Append(reader.printed, e)[Len(reader.printed) + 1] = e
      BY <1>1, <1>4, Longer
    <2>3. /\ reader' \in ReaderSet /\ reader'.seen = e[2] /\ reader'.pc = "follow"
          /\ reader'.printed = Append(reader.printed, e)
      BY <1>0, <1>4, <2>1, <2>2 DEF ReaderSet
    <2>4. FeedTypes'
      BY <1>t, <1>3, <1>5, <2>3 DEF FeedInv, FeedTypes, Flaws
    <2>5. /\ Len(reader.printed) \in Nat /\ DOMAIN reader.printed = 1..Len(reader.printed)
          /\ DOMAIN reader'.printed = 1..(Len(reader.printed) + 1)
      BY <1>4, <2>2, <2>3
    <2>6. /\ \A i \in DOMAIN reader.printed : i \in DOMAIN reader'.printed /\ reader'.printed[i] = reader.printed[i]
          /\ \A i \in DOMAIN reader'.printed : i \in DOMAIN reader.printed \/ (i = Len(reader.printed) + 1 /\ reader'.printed[i] = e)
          /\ Len(reader.printed) + 1 \in DOMAIN reader'.printed /\ reader'.printed[Len(reader.printed) + 1] = e
      BY <2>2, <2>3, <2>5
    <2>7. \A i \in DOMAIN reader.printed : reader.printed[i][2] <= reader.seen /\ reader.printed[i][2] \in Nat
      <3>1. \A i \in DOMAIN reader.printed : reader.printed[i] \in Entries
        BY <1>4, <2>5, ElementOfSeq
      <3> QED
        BY <3>1 DEF FeedInv, PrintedSeen, Entries, Numbers
    <2>8. \A i \in DOMAIN reader.printed : reader.printed[i][2] < e[2]
      BY <1>4, <2>0, <2>7
    <2>9. PrintedSeen'
      <3>1. \A i \in DOMAIN reader'.printed : reader'.printed[i][2] <= reader'.seen
        BY <1>4, <2>3, <2>6, <2>7, <2>8
      <3>2. PrintedOnce'
        <4> SUFFICES ASSUME NEW i \in DOMAIN reader'.printed, NEW j \in DOMAIN reader'.printed, i # j
                     PROVE  reader'.printed[i] # reader'.printed[j]
          BY DEF PrintedOnce
        <4>1. CASE i \in DOMAIN reader.printed /\ j \in DOMAIN reader.printed
          BY <2>6, <4>1 DEF FeedInv, PrintedSeen, PrintedOnce
        <4>2. ASSUME NEW k \in DOMAIN reader.printed PROVE reader.printed[k] # e
          <5>1. reader.printed[k][2] < e[2] /\ reader.printed[k][2] \in Nat
            BY <2>7, <2>8
          <5> QED
            BY <1>4, <5>1
        <4> QED
          BY <2>6, <4>1, <4>2
      <3> QED
        BY <2>3, <3>1, <3>2 DEF PrintedSeen
    <2>10. Ordered'
      <3>1. \A i \in DOMAIN bus' : Local(i)' <=> Local(i + 1)
        BY <1>6 DEF Local
      <3>2. "overlap" \notin missed' => "overlap" \notin missed
        BY <1>5
      <3>3. \A i, j \in DOMAIN bus' : i < j => i + 1 < j + 1
        BY <1>1, <1>2, <1>3
      <3> QED
        BY <1>3, <1>6, <3>1, <3>2, <3>3 DEF FeedInv, Ordered
    <2>11. OnItsWay'
      <3> SUFFICES ASSUME KeepsUp'
                   PROVE  /\ e[2] <= recorded[Here]
                          /\ \A k \in 1..recorded[Here] :
                                IF k <= e[2] THEN Shown(k)' ELSE k \in unpublished \/ Queued(k)'
        BY <1>3, <2>3 DEF OnItsWay
      <3>1. KeepsUp /\ e[1] = Here /\ "overlap" \notin missed
        BY <1>5, <1>9 DEF KeepsUp
      <3>2. /\ reader.seen <= recorded[Here]
            /\ \A k \in 1..recorded[Here] :
                  IF k <= reader.seen THEN Shown(k) ELSE k \in unpublished \/ Queued(k)
        BY <1>0, <3>1 DEF FeedInv, OnItsWay
      <3>3. 1 \in DOMAIN bus /\ Local(1) /\ e[2] <= recorded[Here]
        BY <1>1, <1>2, <3>1 DEF Local, FeedInv, Ordered
      <3>4. e = <<Here, e[2]>>
        BY <1>1, <3>1 DEF Entries
      <3>5. \A a \in unpublished : e[2] < a
        BY <1>1, <3>1, <3>3 DEF FeedInv, Ordered
      <3>6. \A i \in DOMAIN bus : i # 1 /\ Local(i) => e[2] < bus[i][2]
        <4>1. \A i \in DOMAIN bus : i # 1 => 1 < i
          BY <1>1, <1>2
        <4> QED
          BY <1>1, <3>1, <3>3, <4>1 DEF FeedInv, Ordered
      <3>7. recorded[Here] \in Nat
        BY FeedAssumption DEF FeedInv, FeedTypes, Machines, Numbers
      <3>8. ASSUME NEW k \in 1..recorded[Here], Shown(k) PROVE Shown(k)'
        BY <2>6, <3>8 DEF Shown
      <3>9. ASSUME NEW k, k = e[2] PROVE Shown(k)'
        BY <3>9, <2>6, <3>4 DEF Shown
      <3>10. ASSUME NEW k \in 1..recorded[Here], Queued(k), ~(k <= reader.seen)
             PROVE  k = e[2] \/ (k > e[2] /\ Queued(k)')
        <4>1. PICK i \in DOMAIN bus : bus[i] = <<Here, k>>
          BY <3>10 DEF Queued
        <4>2. bus[i][1] = Here /\ bus[i][2] = k
          BY <4>1
        <4>3. CASE i = 1
          BY <1>1, <4>2, <4>3
        <4>4. CASE i # 1
          <5>1. e[2] < k
            BY <3>6, <4>2, <4>4 DEF Local
          <5>2. Queued(k)'
            BY <1>7, <4>1, <4>4 DEF Queued
          <5> QED
            BY <1>4, <3>7, <5>1, <5>2
        <4> QED
          BY <4>3, <4>4
      <3>11. ASSUME NEW k \in 1..recorded[Here]
             PROVE  IF k <= e[2] THEN Shown(k)' ELSE k \in unpublished \/ Queued(k)'
        <4>1. k \in Nat
          BY <3>7
        <4>2. CASE k <= reader.seen
          <5>1. k <= e[2]
            BY <1>4, <2>0, <4>1, <4>2
          <5> QED
            BY <3>2, <3>8, <4>2, <5>1
        <4>3. CASE ~(k <= reader.seen) /\ k \in unpublished
          BY <1>4, <3>5, <4>1, <4>3
        <4>4. CASE ~(k <= reader.seen) /\ Queued(k)
          BY <1>4, <3>9, <3>10, <4>1, <4>4
        <4> QED
          BY <3>2, <4>2, <4>3, <4>4
      <3> QED
        BY <3>3, <3>11
    <2>12. SetTold'
      BY <1>3, <1>5, SetToldKept DEF FeedInv, FollowFrame
    <2> QED
      BY <2>4, <2>9, <2>10, <2>11, <2>12 DEF FeedInv
  <1> QED
    BY <1>8, <1>9

\* A change of the fleet that overtakes a Set makes its names stale.
LEMMA FleetChangedKeeps ==
    ASSUME FeedInv, NEW m \in Members, FleetChanged(m)
    PROVE  FeedInv'
  <1>1. /\ fleetRows' = (fleetRows \ {m}) \cup ({m} \ fleetRows)
        /\ setting' = IF setting.pc = "idle" THEN [NoSet EXCEPT !.pc = "names"] ELSE setting
        /\ missed' = IF setting.pc \in {"forget", "follow"} THEN missed \cup {"stale"} ELSE missed
        /\ UNCHANGED <<recorded, unpublished, bus, reader, follows>>
    BY DEF FleetChanged
  <1>2. [NoSet EXCEPT !.pc = "names"] = [pc |-> "names", names |-> {}]
    BY DEF NoSet
  <1>3. setting' \in [pc : {"idle", "names", "forget", "follow"}, names : SUBSET Members]
    BY <1>1, <1>2 DEF FeedInv, FeedTypes
  <1>4. FeedTypes'
    BY <1>1, <1>3 DEF FeedInv, FeedTypes, Flaws
  <1>5. Ordered' /\ OnItsWay' /\ PrintedSeen'
    BY <1>1, ReaderKept
  <1>6. NoneCancelled' <=> NoneCancelled
    BY <1>1 DEF NoneCancelled
  <1>7. SetTold'
    <2>1. CASE setting.pc = "idle"
      BY <1>1, <1>2, <1>6, <2>1 DEF FeedInv, SetTold
    <2>2. CASE setting.pc = "names"
      BY <1>1, <1>6, <2>2 DEF FeedInv, SetTold
    <2>3. CASE setting.pc \in {"forget", "follow"}
      BY <1>1, <1>6, <2>3 DEF FeedInv, SetTold
    <2> QED
      BY <2>1, <2>2, <2>3 DEF FeedInv, FeedTypes
  <1> QED
    BY <1>4, <1>5, <1>7 DEF FeedInv

\* Fleet.Set: what is not wanted ends before what is wanted starts.
LEMMA SetKeeps ==
    ASSUME FeedInv, SetStep
    PROVE  FeedInv'
  <1>0. UNCHANGED <<recorded, unpublished, bus, reader, fleetRows, missed>>
    BY DEF SetStep
  <1>1. Ordered' /\ OnItsWay' /\ PrintedSeen'
    BY <1>0, ReaderKept
  <1>2. follows \in [Members -> FollowSet] /\ setting \in [pc : {"idle", "names", "forget", "follow"}, names : SUBSET Members]
    BY DEF FeedInv, FeedTypes
  <1> DEFINE Typed == /\ follows' \in [Members -> FollowSet]
                      /\ \A m \in Members : follows'[m].cancelled => follows'[m].pc # "none"
                      /\ setting' \in [pc : {"idle", "names", "forget", "follow"}, names : SUBSET Members]
  <1>q. Typed /\ SetTold' => FeedInv'
    BY <1>0, <1>1 DEF FeedInv, FeedTypes
  <1>3. CASE setting.pc = "names"
    <2>1. setting' = [pc |-> "forget", names |-> fleetRows] /\ follows' = follows
      BY <1>3 DEF SetStep
    <2>2. Typed
      BY <1>2, <2>1 DEF FeedInv, FeedTypes
    <2>3. SetTold'
      BY <1>0, <2>1 DEF SetTold
    <2> QED
      BY <1>q, <2>2, <2>3
  <1>4. CASE setting.pc = "forget" /\ \E m \in Unwanted : follows' = [follows EXCEPT ![m].cancelled = TRUE] /\ UNCHANGED setting
    <2>1. PICK m \in Unwanted : follows' = [follows EXCEPT ![m].cancelled = TRUE] /\ setting' = setting
      BY <1>4
    <2>2. m \in Members /\ follows[m].pc # "none"
      BY DEF Unwanted, Following
    <2>3. follows' = [follows EXCEPT ![m] = [follows[m] EXCEPT !.cancelled = TRUE]]
      BY <2>1
    <2>4. [follows[m] EXCEPT !.cancelled = TRUE] \in FollowSet /\ [follows[m] EXCEPT !.cancelled = TRUE].pc = follows[m].pc
      BY <1>2, <2>2 DEF FollowSet
    <2>5. Typed
      BY <1>2, <2>1, <2>2, <2>3, <2>4 DEF FeedInv, FeedTypes
    <2>6. SetTold'
      BY <1>0, <1>4, <2>1 DEF FeedInv, SetTold
    <2> QED
      BY <1>q, <2>5, <2>6
  <1>5. CASE setting.pc = "forget" /\ Unwanted = {} /\ NoneCancelled /\ setting' = [setting EXCEPT !.pc = "follow"] /\ UNCHANGED follows
    <2>1. setting' = [pc |-> "follow", names |-> setting.names]
      BY <1>2, <1>5
    <2>2. Typed
      BY <1>2, <1>5, <2>1 DEF FeedInv, FeedTypes
    <2>3. Following \subseteq setting.names /\ Following' = Following /\ NoneCancelled'
      BY <1>5 DEF Unwanted, Following, NoneCancelled
    <2>4. SetTold'
      BY <1>0, <1>5, <2>1, <2>3 DEF FeedInv, SetTold
    <2> QED
      BY <1>q, <2>2, <2>4
  <1>6. CASE setting.pc = "follow"
    <2>1. /\ follows' = [m \in Members |-> IF m \in setting.names /\ follows[m].pc = "none"
                                           THEN [NoFollow EXCEPT !.pc = "dial"] ELSE follows[m]]
          /\ setting' = NoSet
      BY <1>6 DEF SetStep
    <2>2. NoFollow \in FollowSet /\ ~NoFollow.cancelled
      BY FeedAssumption DEF NoFollow, FollowSet, Numbers
    <2>3. /\ [NoFollow EXCEPT !.pc = "dial"] \in FollowSet
          /\ [NoFollow EXCEPT !.pc = "dial"].pc = "dial" /\ ~[NoFollow EXCEPT !.pc = "dial"].cancelled
      BY <2>2 DEF FollowSet
    <2>4. setting' = [pc |-> "idle", names |-> {}]
      BY <2>1 DEF NoSet
    <2>5. NoneCancelled
      BY <1>6 DEF FeedInv, SetTold
    <2>6. \A m \in Members : ~follows'[m].cancelled /\ follows'[m] \in FollowSet
      BY <1>2, <2>1, <2>2, <2>3, <2>5 DEF NoneCancelled
    <2>7. Typed
      BY <2>1, <2>4, <2>6
    <2>8. NoneCancelled'
      BY <2>6 DEF NoneCancelled
    <2>9. "stale" \notin missed => Following' = fleetRows
      <3> SUFFICES ASSUME "stale" \notin missed PROVE Following' = fleetRows
        OBVIOUS
      <3>1. setting.names = fleetRows /\ Following \subseteq fleetRows /\ fleetRows \subseteq Members
        BY <1>6 DEF FeedInv, SetTold, FeedTypes
      <3>2. Following = {m \in Members : follows[m].pc # "none"}
        BY <2>5 DEF Following, NoneCancelled
      <3>3. Following' = {m \in Members : follows'[m].pc # "none"}
        BY <2>8 DEF Following, NoneCancelled
      <3>4. \A m \in Members : follows'[m].pc # "none" <=> (follows[m].pc # "none" \/ m \in setting.names)
        BY <2>1, <2>3
      <3> QED
        BY <3>1, <3>2, <3>3, <3>4
    <2>10. SetTold'
      BY <1>0, <2>4, <2>8, <2>9 DEF SetTold
    <2> QED
      BY <1>q, <2>7, <2>10
  <1> QED
    BY <1>3, <1>4, <1>5, <1>6 DEF SetStep, NoneCancelled

\* A turn of one follow that neither starts nor ends it.
LEMMA TurnKeeps ==
    ASSUME FeedInv, NEW m \in Members, NEW f \in FollowSet, Turn(m, f),
           f.cancelled = follows[m].cancelled, f.pc # "none", follows[m].pc # "none",
           UNCHANGED <<fleetRows, setting>>,
           "stale" \in missed <=> "stale" \in missed'
    PROVE  /\ follows' \in [Members -> FollowSet] /\ SetTold'
           /\ \A k \in Members : follows'[k].cancelled => follows'[k].pc # "none"
  <1>1. follows' = [follows EXCEPT ![m] = f] /\ follows \in [Members -> FollowSet]
    BY DEF Turn, FeedInv, FeedTypes
  <1>2. follows' \in [Members -> FollowSet] /\ FollowFrame
    BY <1>1 DEF FollowFrame
  <1>3. SetTold'
    BY <1>2, SetToldKept DEF FeedInv
  <1> QED
    BY <1>1, <1>2, <1>3 DEF FeedInv, FeedTypes

\* What a follow tells the follower's channel: nothing, a report or an event.
LEMMA ToldOf ==
    ASSUME FeedInv, NEW m \in Members, NEW n \in Numbers,
           Notify(<< <<m, n>> >>) \/ UNCHANGED <<bus, missed>>,
           recorded'[Here] = recorded[Here], UNCHANGED <<unpublished, reader>>
    PROVE  /\ Ordered' /\ OnItsWay' /\ PrintedSeen'
           /\ bus' \in Seq(Entries) /\ Len(bus') <= EventBuffer /\ missed' \subseteq Flaws
           /\ "stale" \in missed <=> "stale" \in missed'
  <1> DEFINE e == <<m, n>>
  <1>1. e \in Entries /\ e[1] # Here
    BY FeedAssumption DEF Entries, Machines
  <1>2. /\ bus' \in Seq(Entries) /\ Len(bus') <= EventBuffer
        /\ bus' = bus \/ bus' = Append(bus, e)
        /\ missed' = missed \/ missed' = missed \cup {"slow"}
    <2>1. CASE Notify(<<e>>)
      BY <1>1, <2>1, Notified DEF FeedInv
    <2>2. CASE UNCHANGED <<bus, missed>>
      BY <2>2 DEF FeedInv, FeedTypes
    <2> QED
      BY <2>1, <2>2
  <1>3. Ordered' /\ OnItsWay' /\ PrintedSeen'
    BY <1>1, <1>2, CarriedKeeps
  <1> QED
    BY <1>2, <1>3 DEF FeedInv, FeedTypes, Flaws

\* Fleet.run of one member, until its follow is ended.
LEMMA FollowKeeps ==
    ASSUME FeedInv, NEW m \in Members, Dial(m) \/ ReadEvent(m) \/ RetryAfter(m) \/ StreamEnds(m)
    PROVE  FeedInv'
  <1> DEFINE fm == follows[m]
  <1>0. fm \in FollowSet /\ recorded[m] \in Numbers /\ 0 \in Numbers /\ recorded[m] \in Nat
    BY FeedAssumption DEF FeedInv, FeedTypes, Machines, Numbers
  <1>1. UNCHANGED <<recorded, unpublished, reader, fleetRows, setting>>
    BY DEF Dial, ReadEvent, RetryAfter, StreamEnds
  <1>2. \E n \in Numbers : Notify(<< <<m, n>> >>) \/ UNCHANGED <<bus, missed>>
    <2>1. CASE Dial(m) \/ StreamEnds(m)
      BY <1>0, <2>1 DEF Dial, StreamEnds, Report
    <2>2. CASE RetryAfter(m)
      BY <1>0, <2>2 DEF RetryAfter
    <2>3. CASE ReadEvent(m)
      <3>1. fm.wire \in Seq(Numbers) /\ fm.wire # <<>>
        BY <1>0, <2>3 DEF ReadEvent, FollowSet
      <3>2. Head(fm.wire) \in Numbers
        BY <3>1, Shorter
      <3> QED
        BY <2>3, <3>2 DEF ReadEvent
    <2> QED
      BY <2>1, <2>2, <2>3
  <1>3. /\ Ordered' /\ OnItsWay' /\ PrintedSeen'
        /\ bus' \in Seq(Entries) /\ Len(bus') <= EventBuffer /\ missed' \subseteq Flaws
        /\ "stale" \in missed <=> "stale" \in missed'
    <2>1. PICK n \in Numbers : Notify(<< <<m, n>> >>) \/ UNCHANGED <<bus, missed>>
      BY <1>2
    <2> QED
      BY <1>1, <2>1, ToldOf
  <1>4. \E f \in FollowSet : Turn(m, f) /\ f.cancelled = fm.cancelled /\ f.pc # "none" /\ fm.pc # "none"
    <2>1. CASE Dial(m)
      <3> DEFINE w == [n \in 1..recorded[m] |-> n]
                 a == [fm EXCEPT !.pc = "read", !.up = TRUE, !.known = TRUE, !.wire = w]
                 b == [fm EXCEPT !.pc = "wait", !.up = FALSE, !.known = TRUE]
      <3>1. w \in Seq(Numbers)
        <4>1. recorded[m] <= MaxRecorded /\ MaxRecorded \in Nat
          BY <1>0, FeedAssumption DEF Numbers
        <4>2. \A n \in 1..recorded[m] : n \in Numbers
          BY <1>0, <4>1 DEF Numbers
        <4> QED
          BY <1>0, <4>2
      <3>2. a \in FollowSet /\ a.cancelled = fm.cancelled /\ a.pc = "read"
        BY <1>0, <3>1 DEF FollowSet
      <3>3. b \in FollowSet /\ b.cancelled = fm.cancelled /\ b.pc = "wait"
        BY <1>0 DEF FollowSet
      <3> QED
        BY <2>1, <3>2, <3>3 DEF Dial, Runs
    <2>2. CASE ReadEvent(m)
      <3> DEFINE n == Head(fm.wire)
                 a == [fm EXCEPT !.wire = Tail(@), !.seq = IF n > @ THEN n ELSE @]
      <3>1. fm.wire \in Seq(Numbers) /\ fm.wire # <<>> /\ fm.pc = "read"
        BY <1>0, <2>2 DEF ReadEvent, Runs, FollowSet
      <3>2. n \in Numbers /\ Tail(fm.wire) \in Seq(Numbers)
        BY <3>1, Shorter
      <3>3. a \in FollowSet /\ a.cancelled = fm.cancelled /\ a.pc = "read"
        BY <1>0, <3>1, <3>2 DEF FollowSet
      <3> QED
        BY <2>2, <3>1, <3>3 DEF ReadEvent
    <2>3. CASE RetryAfter(m)
      <3> DEFINE a == [fm EXCEPT !.pc = "dial"]
      <3>1. a \in FollowSet /\ a.cancelled = fm.cancelled /\ a.pc = "dial"
        BY <1>0 DEF FollowSet
      <3> QED
        BY <2>3, <3>1 DEF RetryAfter, Retry, Runs
    <2>4. CASE StreamEnds(m)
      <3> DEFINE a == [fm EXCEPT !.pc = "wait", !.wire = <<>>, !.up = FALSE]
      <3>0. <<>> \in Seq(Numbers)
        OBVIOUS
      <3>1. a \in FollowSet /\ a.cancelled = fm.cancelled /\ a.pc = "wait"
        BY <1>0, <3>0 DEF FollowSet
      <3> QED
        BY <2>4, <3>1 DEF StreamEnds, Runs
    <2> QED
      BY <2>1, <2>2, <2>3, <2>4
  <1>5. /\ follows' \in [Members -> FollowSet] /\ SetTold'
        /\ \A k \in Members : follows'[k].cancelled => follows'[k].pc # "none"
    <2>1. PICK f \in FollowSet : Turn(m, f) /\ f.cancelled = fm.cancelled /\ f.pc # "none" /\ fm.pc # "none"
      BY <1>4
    <2> QED
      BY <1>1, <1>3, <2>1, TurnKeeps
  <1>6. FeedTypes'
    BY <1>1, <1>3, <1>5 DEF FeedInv, FeedTypes
  <1> QED
    BY <1>3, <1>5, <1>6 DEF FeedInv

\* A member records an event, and one that was told to end ends.
LEMMA MemberKeeps ==
    ASSUME FeedInv, NEW m \in Members, MemberRecords(m)
    PROVE  FeedInv'
  <1>0. /\ m \in Machines /\ m # Here /\ recorded \in [Machines -> Numbers] /\ recorded[m] \in Nat
        /\ recorded[m] < MaxRecorded /\ MaxRecorded \in Nat /\ follows \in [Members -> FollowSet]
    BY FeedAssumption DEF FeedInv, FeedTypes, MemberRecords, Machines, Numbers
  <1>1. recorded' = [recorded EXCEPT ![m] = recorded[m] + 1] /\ recorded[m] + 1 \in Numbers
    BY <1>0 DEF MemberRecords, Numbers
  <1>2. recorded' \in [Machines -> Numbers] /\ recorded'[Here] = recorded[Here]
    BY <1>0, <1>1
  <1>3. UNCHANGED <<unpublished, bus, reader, fleetRows, setting, missed>>
    BY DEF MemberRecords
  <1>4. Ordered' /\ OnItsWay' /\ PrintedSeen'
    BY <1>2, <1>3, ReaderKept
  <1>5. follows' \in [Members -> FollowSet] /\ FollowFrame
    <2>1. CASE follows[m].pc = "read"
      <3> DEFINE f == [follows[m] EXCEPT !.wire = Append(@, recorded[m] + 1)]
      <3>1. follows' = [follows EXCEPT ![m] = f]
        BY <2>1 DEF MemberRecords
      <3>2. Append(follows[m].wire, recorded[m] + 1) \in Seq(Numbers)
        BY <1>0, <1>1, Longer DEF FollowSet
      <3>3. f \in FollowSet /\ f.pc = follows[m].pc /\ f.cancelled = follows[m].cancelled
        BY <1>0, <3>2 DEF FollowSet
      <3> QED
        BY <1>0, <1>3, <3>1, <3>3 DEF FollowFrame
    <2>2. CASE follows[m].pc # "read"
      BY <1>0, <1>3, <2>2 DEF MemberRecords, FollowFrame
    <2> QED
      BY <2>1, <2>2
  <1>6. SetTold'
    BY <1>3, <1>5, SetToldKept DEF FeedInv
  <1>7. \A k \in Members : follows'[k].cancelled => follows'[k].pc # "none"
    BY <1>5 DEF FollowFrame, FeedInv, FeedTypes
  <1>8. FeedTypes'
    BY <1>2, <1>3, <1>5, <1>7 DEF FeedInv, FeedTypes
  <1> QED
    BY <1>4, <1>6, <1>8 DEF FeedInv

\* A stream that ends.
LEMMA EndKeeps ==
    ASSUME FeedInv, NEW m \in Members, FollowEnds(m)
    PROVE  FeedInv'
  <1>1. /\ follows[m].cancelled /\ follows' = [follows EXCEPT ![m] = NoFollow]
        /\ UNCHANGED <<recorded, unpublished, bus, reader, fleetRows, setting, missed>>
    BY DEF FollowEnds, Turn
  <1>2. NoFollow \in FollowSet /\ ~NoFollow.cancelled /\ NoFollow.pc = "none"
    BY FeedAssumption DEF NoFollow, FollowSet, Numbers
  <1>3. follows \in [Members -> FollowSet]
    BY DEF FeedInv, FeedTypes
  <1>4. FeedTypes'
    BY <1>1, <1>2, <1>3 DEF FeedInv, FeedTypes
  <1>5. Ordered' /\ OnItsWay' /\ PrintedSeen'
    BY <1>1, ReaderKept
  <1>6. setting.pc = "forget"
    BY <1>1 DEF FeedInv, SetTold, NoneCancelled, FeedTypes
  <1>7. SetTold'
    BY <1>1, <1>6 DEF FeedInv, SetTold
  <1> QED
    BY <1>4, <1>5, <1>7 DEF FeedInv

\* Every step of the feed keeps the invariant.
LEMMA FeedStep ==
    ASSUME FeedInv, [FeedNext]_feedVars
    PROVE  FeedInv'
  <1>1. CASE UNCHANGED feedVars
    <2>1. UNCHANGED <<recorded, unpublished, bus, reader, follows, fleetRows, setting, missed>>
      BY <1>1 DEF feedVars
    <2>2. Ordered' /\ OnItsWay' /\ PrintedSeen'
      BY <2>1, ReaderKept
    <2>3. SetTold'
      BY <2>1, SetToldKept DEF FeedInv, FollowFrame
    <2> QED
      BY <2>1, <2>2, <2>3 DEF FeedInv, FeedTypes
  <1> QED
    BY <1>1, AddEventKeeps, NotifyKeeps, FollowerKeeps, QueryKeeps, EmitKeeps, PrintKeeps, StopReadingKeeps,
       FleetChangedKeeps, MemberKeeps, FollowKeeps, EndKeeps, SetKeeps DEF FeedNext, FollowStep

\* For any members, any buffer and any number of events, changes of the fleet
\* and lost streams: a follower prints no event twice and, if it keeps up,
\* misses no event of its machine, and a change of the fleet that was told
\* leaves the right members followed (Manager.Events, Fleet.Set, Fleet.publish).
THEOREM FeedStaysComplete == FeedSpec => []FeedComplete
  <1>1. FeedInit => FeedInv
    BY FeedStarts
  <1>2. FeedInv /\ [FeedNext]_feedVars => FeedInv'
    BY FeedStep
  <1>3. ASSUME FeedInv PROVE FeedComplete
    <2>1. reader \in ReaderSet /\ setting.pc \in {"idle", "names", "forget", "follow"}
      BY <1>3 DEF FeedInv, FeedTypes
    <2>2. \A m \in Members : follows[m].pc \in {"none", "dial", "read", "wait"}
      BY <1>3 DEF FeedInv, FeedTypes, FollowSet
    <2>3. unpublished \subseteq Numbers
      <3>1. unpublished \subseteq 1..recorded[Here] /\ recorded[Here] \in 0..MaxRecorded
        BY <1>3 DEF FeedInv, FeedTypes, Machines, Numbers
      <3> QED
        BY <3>1, FeedAssumption DEF Numbers
    <2>4. FeedTypeOK
      BY <1>3, <2>1, <2>2, <2>3 DEF FeedInv, FeedTypes, FeedTypeOK, ReaderSet
    <2>5. PrintedOnce
      BY <1>3 DEF FeedInv, PrintedSeen
    <2>6. AloneComplete
      <3> SUFFICES ASSUME FeedQuiet, KeepsUp, NEW n \in 1..recorded[Here] PROVE Shown(n)
        BY DEF AloneComplete, LocalShown, KeepsUp, Shown
      <3>1. ~Queued(n) /\ n \notin unpublished /\ reader.pc = "follow"
        BY DEF FeedQuiet, Queued
      <3> QED
        BY <1>3, <3>1 DEF FeedInv, OnItsWay
    <2>7. FollowsMembers
      BY <1>3 DEF FeedInv, SetTold, FollowsMembers
    <2> QED
      BY <2>4, <2>5, <2>6, <2>7 DEF FeedComplete
  <1> QED
    BY <1>1, <1>2, <1>3, PTL DEF FeedSpec

-----------------------------------------------------------------------------
(* The control socket. *)

Handlers == Clients \cup {Orphan}
HandlerPcs == {"none", "install", "publish", "pushed", "save", "ingress", "set", "done", "failed"}
HistorySet == [of : Nat, old : BOOLEAN]
SubSet == [open : BOOLEAN, lagged : BOOLEAN, replay : Seq(Nat), ch : Seq(Nat)]
HandlerSet == [pc : HandlerPcs, v : Nat, saw : Nat, todo : Seq(Nat)]
WaitSet == [end : {"none", "drained", "error", "deadline"}, quiet : BOOLEAN]

ControlTypes ==
    /\ db \in 0..MaxTable
    /\ edgeState \in [up : BOOLEAN, table : Nat, file : Nat, ingress : Nat]
    /\ edgeState.table <= db /\ edgeState.file <= db /\ edgeState.ingress <= db
    /\ busy \subseteq 1..db
    /\ history \in Seq(HistorySet) /\ Len(history) <= HistoryLimit
    /\ subs \in [Clients -> SubSet]
    /\ \A c \in Clients : /\ Len(subs[c].ch) <= SubscriberBuffer /\ Len(subs[c].replay) <= HistoryLimit
                          /\ subs[c].lagged => subs[c].open
    /\ handler \in [Handlers -> HandlerSet]
    /\ \A h \in Handlers : handler[h].v <= db /\ handler[h].saw <= db
    /\ \A h \in Handlers : handler[h].pc = "publish" => handler[h].todo # <<>>
    /\ keeper \in {"push", "answer", "subscribe", "watch"}
    /\ command \in {"idle", "push", "answer", "subscribe", "watch"}
    /\ wait \in WaitSet
    /\ overlapped \in BOOLEAN

\* Who is connected: a subscription is that of a client that watches, a push
\* that of a client that waits for its answer, or of a command that gave up,
\* and an edge that is down serves nobody.
Connected ==
    /\ \A c \in Clients : subs[c].open <=> ClientAt(c) = "watch"
    /\ \A c \in Clients : handler[c].pc # "none" => ClientAt(c) = "answer"
    /\ ~(keeper = "answer" /\ command = "answer")
    /\ ~edgeState.up => /\ \A h \in Handlers : handler[h].pc = "none"
                        /\ \A c \in Clients : ~subs[c].open
    /\ ~overlapped /\ handler[Orphan].pc # "none" => \A c \in Clients : handler[c].pc = "none"
    /\ command # "idle" => db >= 1

\* Every event on its way was reported.
Honest ==
    /\ \A i \in DOMAIN history : history[i].of # Other => history[i].of \in reported
    /\ \A c \in Clients :
        /\ \A i \in DOMAIN subs[c].replay : subs[c].replay[i] # Other => subs[c].replay[i] \in reported
        /\ \A i \in DOMAIN subs[c].ch : subs[c].ch[i] # Other => subs[c].ch[i] \in reported
    /\ wait.end = "drained" /\ wait.quiet => db \in reported

OldFirst == \E k \in 1..(Len(history) + 1) : SinceFlip(k)

\* The drain the command waits for, once reported, is before it.
Reported == \E i \in DOMAIN history : history[i] = [of |-> db, old |-> FALSE]
Has(s, e) == \E i \in DOMAIN s : s[i] = e
Coming(c, e) == Has(subs[c].replay, e) \/ Has(subs[c].ch, e)
Reaches == command = "watch" /\ ~subs["command"].lagged /\ Reported => Coming("command", db)

\* What a push has achieved by the step it is at, if it had the edge for itself.
Stage(h) ==
    ~overlapped =>
        /\ handler[h].pc \in {"save", "set"} => handler[h].saw = edgeState.table
        /\ handler[h].pc \in {"ingress", "set", "done"} => edgeState.file = edgeState.table
        /\ handler[h].pc = "done" => edgeState.ingress = edgeState.table

ControlInv ==
    ControlTypes /\ Connected /\ Honest /\ OldFirst /\ Reaches /\ \A h \in Handlers : Stage(h)

-----------------------------------------------------------------------------
\* The limits, as numbers.
LEMMA BrokerLimits == HistoryLimit \in Nat /\ HistoryLimit >= 1 /\ SubscriberBuffer \in Nat /\ MaxTable \in Nat
  BY ControlAssumption

\* The two clients and the push that outlived its command.
LEMMA ClientNames ==
    /\ Clients = {"keeper", "command"} /\ Handlers = {"keeper", "command", "orphan"} /\ Orphan = "orphan"
    /\ ClientAt("keeper") = keeper /\ ClientAt("command") = command
  BY DEF Clients, Handlers, Orphan, ClientAt

\* What the edge is doing for nobody else when it does something for h.
LEMMA Alone ==
    ASSUME ControlInv, ~overlapped, NEW h \in Handlers, handler[h].pc # "none",
           NEW g \in Handlers, g # h
    PROVE  handler[g].pc = "none"
  <1>1. ~(handler["keeper"].pc # "none" /\ handler["command"].pc # "none")
    BY ClientNames DEF ControlInv, Connected
  <1>2. handler[Orphan].pc # "none" => handler["keeper"].pc = "none" /\ handler["command"].pc = "none"
    BY ClientNames DEF ControlInv, Connected
  <1> QED
    BY <1>1, <1>2, ClientNames

\* A step of one push, whose client and whose subscribers go on as they are.
LEMMA HandlerTurn ==
    ASSUME ControlInv, NEW h \in Handlers, NEW f \in HandlerSet, handler' = [handler EXCEPT ![h] = f],
           handler[h].pc # "none", edgeState'.up = edgeState.up,
           UNCHANGED <<db, history, subs, keeper, command, wait, reported, overlapped>>
    PROVE  Connected' /\ Honest' /\ OldFirst' /\ Reaches'
  <1>1. Honest' /\ OldFirst' /\ Reaches'
    BY DEF ControlInv, Honest, OldFirst, SinceFlip, Reaches, Reported, Coming, Has
  <1>2. handler \in [Handlers -> HandlerSet]
    BY DEF ControlInv, ControlTypes
  <1>3. \A g \in Handlers : handler'[g].pc # "none" => handler[g].pc # "none"
    BY <1>2
  <1>4. Clients \subseteq Handlers /\ Orphan \in Handlers /\ \A c : ClientAt(c)' = ClientAt(c)
    BY DEF Handlers, ClientAt
  <1>5. edgeState.up
    BY DEF ControlInv, Connected
  <1>6. Connected'
    BY <1>3, <1>4, <1>5 DEF ControlInv, Connected
  <1> QED
    BY <1>1, <1>6

\* The steps of Edge.PushTable that tell nobody.
LEMMA PushKeeps ==
    ASSUME ControlInv, NEW h \in Handlers,
           Install(h) \/ Pushed(h) \/ SaveTable(h) \/ Ingress(h) \/ SetIngress(h)
    PROVE  ControlInv'
  <1> DEFINE old == handler[h]
  <1>0. /\ handler \in [Handlers -> HandlerSet] /\ old \in HandlerSet /\ old.v <= db /\ old.saw <= db
        /\ db \in Nat /\ edgeState \in [up : BOOLEAN, table : Nat, file : Nat, ingress : Nat]
        /\ edgeState.table <= db /\ edgeState.file <= db /\ edgeState.ingress <= db
        /\ \A g \in Handlers : handler[g].v \in Nat /\ handler[g].saw \in Nat
    BY BrokerLimits DEF ControlInv, ControlTypes, HandlerSet
  <1>1. UNCHANGED <<db, history, subs, keeper, command, wait, reported, overlapped>>
    BY DEF Install, Pushed, SaveTable, Ingress, SetIngress, controlWorld
  <1> DEFINE Moved(f) ==
        /\ f \in HandlerSet /\ f.v <= db /\ f.saw <= db
        /\ f.pc = "publish" => f.todo # <<>>
        /\ handler' = [handler EXCEPT ![h] = f]
        /\ edgeState' \in [up : BOOLEAN, table : Nat, file : Nat, ingress : Nat] /\ edgeState'.up = edgeState.up
        /\ edgeState'.table <= db /\ edgeState'.file <= db /\ edgeState'.ingress <= db
        /\ busy' \subseteq 1..db
        /\ old.pc # "none"
        /\ ~overlapped =>
            /\ f.pc \in {"save", "set"} => f.saw = edgeState'.table
            /\ f.pc \in {"ingress", "set", "done"} => edgeState'.file = edgeState'.table
            /\ f.pc = "done" => edgeState'.ingress = edgeState'.table
  <1>2. \E f : Moved(f)
    <2>b. busy \subseteq 1..db
      BY DEF ControlInv, ControlTypes
    <2>s. Stage(h)
      BY DEF ControlInv
    <2>1. CASE Install(h)
      <3>1. PICK idle \in BOOLEAN :
               LET drains == old.v > edgeState.table
                   now == IF drains /\ idle THEN <<old.v, Other>> ELSE <<Other>>
               IN /\ busy' = IF drains /\ ~idle THEN busy \cup {old.v} ELSE busy
                  /\ handler' = [handler EXCEPT ![h].pc = "publish", ![h].todo = now]
        BY <2>1 DEF Install
      <3> DEFINE now == IF old.v > edgeState.table /\ idle THEN <<old.v, Other>> ELSE <<Other>>
                 f == [old EXCEPT !.pc = "publish", !.todo = now]
      <3>2. handler' = [handler EXCEPT ![h] = f]
        BY <1>0, <3>1
      <3>3. now \in Seq(Nat) /\ now # <<>>
        BY <1>0 DEF Other, HandlerSet
      <3>4. f \in HandlerSet /\ f.pc = "publish" /\ f.todo = now /\ f.v = old.v /\ f.saw = old.saw
        BY <1>0, <3>3 DEF HandlerSet, HandlerPcs
      <3>5. edgeState' = [edgeState EXCEPT !.table = old.v] /\ old.pc = "install"
        BY <2>1 DEF Install, HandlerAt
      <3>6. old.v \in Nat /\ (old.v > edgeState.table => old.v \in 1..db)
        BY <1>0 DEF HandlerSet
      <3>7. busy' \subseteq 1..db
        BY <2>b, <3>1, <3>6
      <3>8. Moved(f)
        BY <1>0, <3>2, <3>3, <3>4, <3>5, <3>6, <3>7
      <3> QED
        BY <3>8
    <2>2. CASE Pushed(h) \/ Ingress(h)
      <3> DEFINE f == [old EXCEPT !.pc = (IF Pushed(h) THEN "save" ELSE "set"), !.saw = edgeState.table]
      <3>1. /\ handler' = [handler EXCEPT ![h] = f] /\ edgeState' = edgeState /\ busy' = busy
            /\ old.pc = IF Pushed(h) THEN "pushed" ELSE "ingress"
        BY <1>0, <2>2 DEF Pushed, Ingress, HandlerAt
      <3>2. /\ f \in HandlerSet /\ f.pc = (IF Pushed(h) THEN "save" ELSE "set") /\ f.saw = edgeState.table
            /\ f.v = old.v
        BY <1>0 DEF HandlerSet, HandlerPcs
      <3>3. Moved(f)
        BY <1>0, <2>b, <2>s, <3>1, <3>2 DEF Stage
      <3> QED
        BY <3>3
    <2>3. CASE SaveTable(h) \/ SetIngress(h)
      <3>1. \E to \in {"ingress", "failed", "done"} :
               /\ handler' = [handler EXCEPT ![h] = [old EXCEPT !.pc = to]]
               /\ busy' = busy
               /\ \/ to = "ingress" /\ old.pc = "save" /\ edgeState' = [edgeState EXCEPT !.file = old.saw]
                  \/ to = "failed" /\ old.pc = "save" /\ edgeState' = edgeState
                  \/ to = "done" /\ old.pc = "set" /\ edgeState' = [edgeState EXCEPT !.ingress = old.saw]
                  \/ to = "failed" /\ old.pc = "set" /\ edgeState' = [edgeState EXCEPT !.ingress = 0]
        BY <1>0, <2>3 DEF SaveTable, SetIngress, HandlerAt, Step
      <3>2. PICK to \in {"ingress", "failed", "done"} :
               /\ handler' = [handler EXCEPT ![h] = [old EXCEPT !.pc = to]]
               /\ busy' = busy
               /\ \/ to = "ingress" /\ old.pc = "save" /\ edgeState' = [edgeState EXCEPT !.file = old.saw]
                  \/ to = "failed" /\ old.pc = "save" /\ edgeState' = edgeState
                  \/ to = "done" /\ old.pc = "set" /\ edgeState' = [edgeState EXCEPT !.ingress = old.saw]
                  \/ to = "failed" /\ old.pc = "set" /\ edgeState' = [edgeState EXCEPT !.ingress = 0]
        BY <3>1
      <3> DEFINE f == [old EXCEPT !.pc = to]
      <3>3. f \in HandlerSet /\ f.pc = to /\ f.saw = old.saw /\ f.v = old.v
        BY <1>0 DEF HandlerSet, HandlerPcs
      <3>4. old.saw \in Nat
        BY <1>0 DEF HandlerSet
      <3>5. edgeState' \in [up : BOOLEAN, table : Nat, file : Nat, ingress : Nat]
        BY <1>0, <3>2, <3>4
      <3>6. Moved(f)
        BY <1>0, <2>b, <2>s, <3>2, <3>3, <3>4, <3>5 DEF Stage
      <3> QED
        BY <3>6
    <2> QED
      BY <2>1, <2>2, <2>3
  <1>3. PICK f : Moved(f)
    BY <1>2
  <1>4. Connected' /\ Honest' /\ OldFirst' /\ Reaches'
    BY <1>1, <1>3, HandlerTurn
  <1>5. ControlTypes'
    BY <1>0, <1>1, <1>3 DEF ControlInv, ControlTypes
  <1>6. ASSUME NEW g \in Handlers PROVE Stage(g)'
    <2>1. CASE g = h
      BY <1>0, <1>1, <1>3, <2>1 DEF Stage
    <2>2. CASE g # h /\ ~overlapped
      BY <1>0, <1>3, <2>2, Alone DEF Stage
    <2>3. CASE overlapped
      BY <1>1, <2>3 DEF Stage
    <2> QED
      BY <2>1, <2>2, <2>3
  <1> QED
    BY <1>4, <1>5, <1>6 DEF ControlInv

-----------------------------------------------------------------------------
(* broker.publish. *)

\* The history: one more at the end, and one less at the front if it is full.
LEMMA HistoryGrows ==
    ASSUME ControlInv, NEW e \in Nat, BrokerPublish(e), db' = db
    PROVE  /\ history' \in Seq(HistorySet) /\ Len(history') <= HistoryLimit /\ OldFirst'
           /\ \A i \in DOMAIN history' : \/ history'[i] = [of |-> e, old |-> FALSE]
                                         \/ \E j \in DOMAIN history : history'[i] = history[j]
  <1> DEFINE x == [of |-> e, old |-> FALSE]
             all == Append(history, x)
             n == Len(history)
  <1>0. history \in Seq(HistorySet) /\ n \in Nat /\ n <= HistoryLimit /\ HistoryLimit \in Nat /\ DOMAIN history = 1..n
    BY BrokerLimits DEF ControlInv, ControlTypes
  <1>1. x \in HistorySet
    BY DEF HistorySet
  <1>2. /\ all \in Seq(HistorySet) /\ Len(all) = n + 1
        /\ \A i \in 1..n : all[i] = history[i]
        /\ all[n + 1] = x
    BY <1>0, <1>1, Longer
  <1>3. all # <<>>
    BY <1>0, <1>2
  <1>4. /\ Tail(all) \in Seq(HistorySet) /\ Len(Tail(all)) = n
        /\ \A i \in 1..n : Tail(all)[i] = all[i + 1]
    BY <1>0, <1>2, <1>3, Shorter
  <1>5. history' = IF n + 1 > HistoryLimit THEN Tail(all) ELSE all
    BY <1>2 DEF BrokerPublish
  <1>6. history' \in Seq(HistorySet) /\ Len(history') <= HistoryLimit
    BY <1>0, <1>2, <1>4, <1>5
  <1>k. PICK k \in 1..(n + 1) : \A i \in 1..n : history[i].old <=> i < k
    BY <1>0 DEF ControlInv, OldFirst, SinceFlip
  <1>o. \A i \in 1..(n + 1) : all[i].old <=> i < k
    BY <1>0, <1>2, <1>k
  <1>7. CASE n + 1 > HistoryLimit
    <2>1. history' = Tail(all) /\ Len(history') = n /\ DOMAIN history' = 1..n
      BY <1>4, <1>5, <1>7
    <2>2. \A i \in 1..n : history'[i] = x \/ \E j \in 1..n : history'[i] = history[j]
      <3> TAKE i \in 1..n
      <3>1. history'[i] = all[i + 1] /\ i + 1 \in 1..(n + 1)
        BY <1>0, <1>4, <2>1
      <3>2. CASE i = n
        BY <1>2, <3>1, <3>2
      <3>3. CASE i # n
        <4>0. n \in Nat
          BY <1>0
        <4>1. i + 1 \in 1..n
          BY <3>3, <4>0
        <4> QED
          BY <1>2, <3>1, <4>1
      <3> QED
        BY <3>2, <3>3
    <2>3. OldFirst'
      <3> DEFINE p == IF k = 1 THEN 1 ELSE k - 1
      <3>1. p \in 1..(n + 1)
        BY <1>0
      <3>2. \A i \in 1..n : history'[i].old <=> i < p
        <4> TAKE i \in 1..n
        <4>1. history'[i] = all[i + 1] /\ i + 1 \in 1..(n + 1)
          BY <1>0, <1>4, <2>1
        <4>2. history'[i].old <=> i + 1 < k
          BY <1>o, <4>1
        <4>3. i \in Nat /\ i >= 1 /\ k \in Nat /\ k >= 1
          BY <1>0
        <4>4. i + 1 < k <=> i < p
          BY <4>3
        <4> HIDE DEF p
        <4> QED
          BY <4>2, <4>4
      <3> QED
        BY <2>1, <3>1, <3>2 DEF OldFirst, SinceFlip
    <2> QED
      BY <1>0, <1>6, <2>1, <2>2, <2>3
  <1>8. CASE ~(n + 1 > HistoryLimit)
    <2>1. history' = all /\ Len(history') = n + 1 /\ DOMAIN history' = 1..(n + 1)
      BY <1>2, <1>5, <1>8
    <2>2. \A i \in 1..(n + 1) : history'[i] = x \/ \E j \in 1..n : history'[i] = history[j]
      BY <1>0, <1>2, <2>1
    <2>3. k \in 1..(n + 2)
      BY <1>0
    <2>4. OldFirst'
      BY <1>0, <1>o, <2>1, <2>3 DEF OldFirst, SinceFlip
    <2> QED
      BY <1>0, <1>6, <2>1, <2>2, <2>4
  <1> QED
    BY <1>7, <1>8

\* The subscribers: one that keeps up gets it, one that does not is cut off.
LEMMA SubsGrow ==
    ASSUME ControlInv, NEW e \in Nat, BrokerPublish(e), NEW c \in Clients
    PROVE  /\ subs'[c] \in SubSet /\ Len(subs'[c].ch) <= SubscriberBuffer
           /\ subs'[c].open = subs[c].open /\ subs'[c].replay = subs[c].replay
           /\ \A i \in DOMAIN subs'[c].ch : \/ subs'[c].ch[i] = e
                                            \/ \E j \in DOMAIN subs[c].ch : subs'[c].ch[i] = subs[c].ch[j]
           /\ \A j \in DOMAIN subs[c].ch : j \in DOMAIN subs'[c].ch /\ subs'[c].ch[j] = subs[c].ch[j]
           /\ ~subs'[c].lagged => ~subs[c].lagged
           /\ subs'[c].lagged => subs'[c].open
           /\ subs[c].open /\ ~subs'[c].lagged => \E i \in DOMAIN subs'[c].ch : subs'[c].ch[i] = e
  <1> DEFINE s == subs[c]
             more == [s EXCEPT !.ch = Append(@, e)]
             cut == [s EXCEPT !.lagged = TRUE]
  <1>0. s \in SubSet /\ s.ch \in Seq(Nat) /\ Len(s.ch) \in Nat /\ Len(s.ch) <= SubscriberBuffer
        /\ SubscriberBuffer \in Nat /\ (s.lagged => s.open)
    BY BrokerLimits DEF ControlInv, ControlTypes, SubSet
  <1>1. /\ Append(s.ch, e) \in Seq(Nat) /\ Len(Append(s.ch, e)) = Len(s.ch) + 1
        /\ \A i \in 1..Len(s.ch) : Append(s.ch, e)[i] = s.ch[i]
        /\ Append(s.ch, e)[Len(s.ch) + 1] = e
    BY <1>0, Longer
  <1>2. more \in SubSet /\ more.open = s.open /\ more.replay = s.replay /\ more.lagged = s.lagged /\ more.ch = Append(s.ch, e)
    BY <1>0, <1>1 DEF SubSet
  <1>3. cut \in SubSet /\ cut.open = s.open /\ cut.replay = s.replay /\ cut.lagged /\ cut.ch = s.ch
    BY <1>0 DEF SubSet
  <1>4. subs'[c] = IF ~s.open \/ s.lagged THEN s ELSE IF Len(s.ch) < SubscriberBuffer THEN more ELSE cut
    BY DEF BrokerPublish
  <1>5. CASE ~s.open \/ s.lagged
    BY <1>0, <1>4, <1>5
  <1>6. CASE ~(~s.open \/ s.lagged) /\ Len(s.ch) < SubscriberBuffer
    <2>1. subs'[c] = more
      BY <1>4, <1>6
    <2>2. DOMAIN more.ch = 1..(Len(s.ch) + 1) /\ DOMAIN s.ch = 1..Len(s.ch)
      BY <1>0, <1>1, <1>2
    <2>3. /\ \A i \in DOMAIN more.ch : more.ch[i] = e \/ \E j \in DOMAIN s.ch : more.ch[i] = s.ch[j]
          /\ \A j \in DOMAIN s.ch : j \in DOMAIN more.ch /\ more.ch[j] = s.ch[j]
          /\ \E i \in DOMAIN more.ch : more.ch[i] = e
      BY <1>0, <1>1, <1>2, <2>2
    <2>4. Len(more.ch) <= SubscriberBuffer
      BY <1>0, <1>1, <1>2, <1>6
    <2> QED
      BY <1>0, <1>2, <1>6, <2>1, <2>3, <2>4
  <1>7. CASE ~(~s.open \/ s.lagged) /\ ~(Len(s.ch) < SubscriberBuffer)
    BY <1>0, <1>3, <1>4, <1>7
  <1> QED
    BY <1>5, <1>6, <1>7

\* broker.publish keeps what is known of the history and of the subscribers.
LEMMA PublishTells ==
    ASSUME ControlInv, NEW e \in Nat, BrokerPublish(e), UNCHANGED <<db, command, wait>>
    PROVE  /\ history' \in Seq(HistorySet) /\ Len(history') <= HistoryLimit
           /\ subs' \in [Clients -> SubSet]
           /\ \A c \in Clients : /\ Len(subs'[c].ch) <= SubscriberBuffer /\ Len(subs'[c].replay) <= HistoryLimit
                                 /\ subs'[c].open = subs[c].open /\ (subs'[c].lagged => subs'[c].open)
           /\ Honest' /\ OldFirst' /\ Reaches'
  <1>1. /\ history' \in Seq(HistorySet) /\ Len(history') <= HistoryLimit /\ OldFirst'
        /\ \A i \in DOMAIN history' : \/ history'[i] = [of |-> e, old |-> FALSE]
                                      \/ \E j \in DOMAIN history : history'[i] = history[j]
    BY HistoryGrows
  <1>2. subs' = [c \in Clients |-> subs'[c]]
    BY DEF BrokerPublish
  <1>3. subs' \in [Clients -> SubSet]
    BY <1>2, SubsGrow
  <1>4. \A c \in Clients : /\ Len(subs'[c].ch) <= SubscriberBuffer /\ Len(subs'[c].replay) <= HistoryLimit
                           /\ subs'[c].open = subs[c].open /\ (subs'[c].lagged => subs'[c].open)
    BY SubsGrow DEF ControlInv, ControlTypes
  <1>5. reported' = IF e = Other THEN reported ELSE reported \cup {e}
    BY DEF BrokerPublish
  <1>6. Honest'
    <2>1. \A i \in DOMAIN history' : history'[i].of # Other => history'[i].of \in reported'
      BY <1>1, <1>5 DEF ControlInv, Honest
    <2>2. ASSUME NEW c \in Clients
          PROVE  /\ \A i \in DOMAIN subs'[c].replay : subs'[c].replay[i] # Other => subs'[c].replay[i] \in reported'
                 /\ \A i \in DOMAIN subs'[c].ch : subs'[c].ch[i] # Other => subs'[c].ch[i] \in reported'
      <3>1. /\ \A i \in DOMAIN subs[c].replay : subs[c].replay[i] # Other => subs[c].replay[i] \in reported
            /\ \A i \in DOMAIN subs[c].ch : subs[c].ch[i] # Other => subs[c].ch[i] \in reported
        BY DEF ControlInv, Honest
      <3>2. /\ subs'[c].replay = subs[c].replay
            /\ \A i \in DOMAIN subs'[c].ch : \/ subs'[c].ch[i] = e
                                             \/ \E j \in DOMAIN subs[c].ch : subs'[c].ch[i] = subs[c].ch[j]
        BY SubsGrow
      <3> QED
        BY <1>5, <3>1, <3>2
    <2>3. wait'.end = "drained" /\ wait'.quiet => db' \in reported'
      BY <1>5 DEF ControlInv, Honest
    <2> QED
      BY <2>1, <2>2, <2>3 DEF Honest
  <1>7. Reaches'
    <2> SUFFICES ASSUME command = "watch", ~subs'["command"].lagged, Reported' PROVE Coming("command", db)'
      BY DEF Reaches
    <2>1. "command" \in Clients /\ ClientAt("command") = "watch"
      BY ClientNames
    <2>2. subs["command"].open
      BY <2>1 DEF ControlInv, Connected
    <2>3. ~subs["command"].lagged /\ \E i \in DOMAIN subs'["command"].ch : subs'["command"].ch[i] = e
      BY <2>1, <2>2, SubsGrow
    <2>4. CASE e = db
      BY <2>3, <2>4 DEF Coming, Has
    <2>5. CASE e # db
      <3>1. Reported
        BY <1>1, <2>5 DEF Reported
      <3>2. Coming("command", db)
        BY <2>3, <3>1 DEF ControlInv, Reaches
      <3>3. /\ subs'["command"].replay = subs["command"].replay
            /\ \A j \in DOMAIN subs["command"].ch : j \in DOMAIN subs'["command"].ch /\ subs'["command"].ch[j] = subs["command"].ch[j]
        BY <2>1, SubsGrow
      <3> QED
        BY <3>2, <3>3 DEF Coming, Has
    <2> QED
      BY <2>4, <2>5
  <1> QED
    BY <1>1, <1>3, <1>4, <1>6, <1>7

\* An event that is published while at most a push goes on.
LEMMA PublishKeeps ==
    ASSUME ControlInv, NEW e \in Nat, BrokerPublish(e),
           UNCHANGED <<db, edgeState, keeper, command, wait, overlapped>>,
           busy' \subseteq busy,
           handler' \in [Handlers -> HandlerSet],
           \A g \in Handlers :
              /\ handler'[g].v = handler[g].v /\ handler'[g].saw = handler[g].saw
              /\ handler'[g].pc = "publish" => handler'[g].todo # <<>>
              /\ \/ handler'[g] = handler[g]
                 \/ handler[g].pc # "none" /\ handler'[g].pc \in {"publish", "pushed"}
    PROVE  ControlInv'
  <1>1. /\ history' \in Seq(HistorySet) /\ Len(history') <= HistoryLimit
        /\ subs' \in [Clients -> SubSet]
        /\ \A c \in Clients : /\ Len(subs'[c].ch) <= SubscriberBuffer /\ Len(subs'[c].replay) <= HistoryLimit
                              /\ subs'[c].open = subs[c].open /\ (subs'[c].lagged => subs'[c].open)
        /\ Honest' /\ OldFirst' /\ Reaches'
    BY PublishTells
  <1>2. ControlTypes'
    BY <1>1 DEF ControlInv, ControlTypes
  <1>3. Clients \subseteq Handlers /\ Orphan \in Handlers /\ \A c : ClientAt(c)' = ClientAt(c)
    BY DEF Handlers, ClientAt
  <1>4. \A g \in Handlers : handler'[g].pc # "none" => handler[g].pc # "none"
    OBVIOUS
  <1>5. Connected'
    BY <1>1, <1>3, <1>4 DEF ControlInv, Connected
  <1>6. ASSUME NEW g \in Handlers PROVE Stage(g)'
    BY DEF ControlInv, Stage
  <1> QED
    BY <1>1, <1>2, <1>5, <1>6 DEF ControlInv

\* Edge.PushTable publishes what the install changed.
LEMMA InstallEventKeeps ==
    ASSUME ControlInv, NEW h \in Handlers, InstallEvent(h)
    PROVE  ControlInv'
  <1> DEFINE old == handler[h]
             e == Head(old.todo)
             f == [old EXCEPT !.todo = Tail(old.todo), !.pc = IF Len(old.todo) = 1 THEN "pushed" ELSE "publish"]
  <1>0. handler \in [Handlers -> HandlerSet] /\ old \in HandlerSet /\ old.pc = "publish" /\ old.todo # <<>>
    BY DEF ControlInv, ControlTypes, InstallEvent, HandlerAt
  <1>1. old.todo \in Seq(Nat)
    BY <1>0 DEF HandlerSet
  <1>2. /\ Len(old.todo) \in Nat /\ e \in Nat /\ Tail(old.todo) \in Seq(Nat)
        /\ Len(Tail(old.todo)) = Len(old.todo) - 1
    BY <1>0, <1>1, Shorter
  <1>3. handler' = [handler EXCEPT ![h] = f]
    BY <1>0 DEF InstallEvent
  <1>4. /\ f \in HandlerSet /\ f.v = old.v /\ f.saw = old.saw /\ f.todo = Tail(old.todo)
        /\ f.pc = IF Len(old.todo) = 1 THEN "pushed" ELSE "publish"
    BY <1>0, <1>2 DEF HandlerSet, HandlerPcs
  <1>5. f.pc = "publish" => f.todo # <<>>
    <2>1. ASSUME f.pc = "publish" PROVE Len(f.todo) # 0
      BY <1>0, <1>2, <1>4, <2>1, Shorter
    <2> QED
      BY <2>1
  <1>6. \A g \in Handlers : handler[g].pc = "publish" => handler[g].todo # <<>>
    BY DEF ControlInv, ControlTypes
  <1>7. handler' \in [Handlers -> HandlerSet]
    BY <1>0, <1>3, <1>4
  <1>8. \A g \in Handlers :
              /\ handler'[g].v = handler[g].v /\ handler'[g].saw = handler[g].saw
              /\ handler'[g].pc = "publish" => handler'[g].todo # <<>>
              /\ \/ handler'[g] = handler[g]
                 \/ handler[g].pc # "none" /\ handler'[g].pc \in {"publish", "pushed"}
    <2> TAKE g \in Handlers
    <2>1. CASE g = h
      <3>1. handler'[g] = f
        BY <1>0, <1>3, <2>1
      <3> QED
        BY <1>0, <1>4, <1>5, <2>1, <3>1
    <2>2. CASE g # h
      <3>1. handler'[g] = handler[g]
        BY <1>0, <1>3, <2>2
      <3> QED
        BY <1>6, <3>1
    <2> QED
      BY <2>1, <2>2
  <1>9. BrokerPublish(e) /\ UNCHANGED <<db, edgeState, busy, keeper, command, wait, overlapped>>
    BY DEF InstallEvent
  <1> HIDE DEF e, f, old
  <1> QED
    BY <1>2, <1>7, <1>8, <1>9, PublishKeeps

\* The events that come by themselves.
LEMMA EventKeeps ==
    ASSUME ControlInv, Drained \/ OtherEvent
    PROVE  ControlInv'
  <1>1. /\ handler' = handler /\ handler \in [Handlers -> HandlerSet]
        /\ UNCHANGED <<db, edgeState, keeper, command, wait, overlapped>>
        /\ \A g \in Handlers : handler[g].pc = "publish" => handler[g].todo # <<>>
    BY DEF ControlInv, ControlTypes, Drained, OtherEvent
  <1>2. CASE Drained
    <2>1. PICK v \in busy : busy' = busy \ {v} /\ BrokerPublish(v)
      BY <1>2 DEF Drained
    <2>0. busy \subseteq 1..db
      BY DEF ControlInv, ControlTypes
    <2>2. v \in Nat /\ busy' \subseteq busy
      BY <2>0, <2>1
    <2> QED
      BY <1>1, <2>1, <2>2, PublishKeeps
  <1>3. CASE OtherEvent
    <2>1. BrokerPublish(Other) /\ busy' = busy /\ Other \in Nat
      BY <1>3 DEF OtherEvent, Other
    <2> QED
      BY <1>1, <2>1, PublishKeeps
  <1> QED
    BY <1>2, <1>3

-----------------------------------------------------------------------------
(* The clients. *)

\* Where a client goes, and the other stays.
LEMMA ClientGoes ==
    ASSUME NEW c \in Clients, NEW st, Client(c, st)
    PROVE  /\ c = "keeper" => keeper' = st /\ command' = command
           /\ c = "command" => command' = st /\ keeper' = keeper
           /\ ClientAt(c)' = st
           /\ \A d \in Clients \ {c} : ClientAt(d)' = ClientAt(d)
  BY DEF Client, ClientAt, Clients

\* The record of no push.
LEMMA NoneIsHandler == NoHandler \in HandlerSet /\ NoHandler.pc = "none" /\ NoHandler.v = 0 /\ NoHandler.saw = 0
  <1>1. <<>> \in Seq(Nat)
    OBVIOUS
  <1> QED
    BY <1>1 DEF NoHandler, HandlerSet, HandlerPcs

\* The record of no subscription.
LEMMA NoneIsSub == /\ NoSub \in SubSet /\ ~NoSub.open /\ ~NoSub.lagged
                   /\ NoSub.replay = <<>> /\ NoSub.ch = <<>>
  <1>1. <<>> \in Seq(Nat)
    OBVIOUS
  <1> QED
    BY <1>1 DEF NoSub, SubSet

\* pushTable sends the rows.
LEMMA SendKeeps ==
    ASSUME ControlInv, NEW c \in Clients, SendTable(c)
    PROVE  ControlInv'
  <1> DEFINE new == [NoHandler EXCEPT !.pc = "install", !.v = db]
  <1>0. /\ handler \in [Handlers -> HandlerSet] /\ db \in Nat /\ c \in Handlers
        /\ UNCHANGED <<db, edgeState, busy, history, subs, wait, ctlEvents, reported>>
        /\ ClientAt(c) = "push" /\ \A d \in Clients : ClientAt(d) # "answer"
    BY BrokerLimits DEF ControlInv, ControlTypes, SendTable, Handlers
  <1>1. new \in HandlerSet /\ new.pc = "install" /\ new.v = db /\ new.saw = 0
    BY <1>0, NoneIsHandler DEF HandlerSet, HandlerPcs
  <1>2. \A d \in Clients : handler[d].pc = "none"
    BY <1>0 DEF ControlInv, Connected
  <1>h. Honest' /\ OldFirst'
    BY <1>0 DEF ControlInv, Honest, OldFirst, SinceFlip
  <1>3. CASE edgeState.up
    <2>1. /\ handler' = [handler EXCEPT ![c] = new]
          /\ overlapped' = (overlapped \/ ~HandlerAt(Orphan, "none"))
          /\ Client(c, "answer")
      BY <1>3 DEF SendTable
    <2>2. /\ ClientAt(c)' = "answer" /\ \A d \in Clients \ {c} : ClientAt(d)' = ClientAt(d)
          /\ c = "keeper" => keeper' = "answer" /\ command' = command
          /\ c = "command" => command' = "answer" /\ keeper' = keeper
      BY <2>1, ClientGoes
    <2>3. \A g \in Handlers : handler'[g] = IF g = c THEN new ELSE handler[g]
      BY <1>0, <2>1
    <2>4. handler' \in [Handlers -> HandlerSet]
      BY <1>0, <1>1, <2>1
    <2>5. keeper' \in {"push", "answer", "subscribe", "watch"} /\ command' \in {"idle", "push", "answer", "subscribe", "watch"}
      BY <2>2, ClientNames DEF ControlInv, ControlTypes
    <2>6. \A g \in Handlers : /\ handler'[g].v <= db /\ handler'[g].saw <= db
                              /\ handler'[g].pc = "publish" => handler'[g].todo # <<>>
      <3> TAKE g \in Handlers
      <3>1. CASE g = c
        <4>1. handler'[g] = new
          BY <2>3, <3>1
        <4> HIDE DEF new
        <4>2. 0 <= db /\ db <= db
          BY <1>0
        <4> QED
          BY <1>1, <4>1, <4>2
      <3>2. CASE g # c
        BY <2>3, <3>2 DEF ControlInv, ControlTypes
      <3> QED
        BY <3>1, <3>2
    <2>7. ControlTypes'
      BY <1>0, <2>1, <2>4, <2>5, <2>6 DEF ControlInv, ControlTypes
    <2>8. Connected'
      <3>1. \A d \in Clients : subs'[d].open <=> ClientAt(d)' = "watch"
        BY <1>0, <2>2 DEF ControlInv, Connected
      <3>2. \A d \in Clients : handler'[d].pc # "none" => ClientAt(d)' = "answer"
        BY <1>2, <2>2, <2>3, ClientNames
      <3>3. ~(keeper' = "answer" /\ command' = "answer")
        BY <1>0, <2>2, ClientNames
      <3>4. edgeState'.up
        BY <1>0, <1>3
      <3>5. ~overlapped' => handler'[Orphan].pc = "none"
        BY <1>0, <2>1, <2>3, ClientNames DEF HandlerAt
      <3>6. command' # "idle" => db' >= 1
        BY <1>0, <2>2, ClientNames DEF ControlInv, Connected
      <3> QED
        BY <3>1, <3>2, <3>3, <3>4, <3>5, <3>6 DEF Connected
    <2>9. Reaches'
      <3>1. command' = "watch" => command = "watch"
        BY <2>2, ClientNames
      <3> QED
        BY <1>0, <3>1 DEF ControlInv, Reaches, Reported, Coming, Has
    <2>10. ASSUME NEW g \in Handlers PROVE Stage(g)'
      BY <1>0, <1>1, <2>1, <2>3 DEF ControlInv, Stage
    <2> QED
      BY <1>h, <2>7, <2>8, <2>9, <2>10 DEF ControlInv
  <1>4. CASE ~edgeState.up
    <2>1. handler' = handler /\ overlapped' = overlapped /\ Client(c, IF c = "keeper" THEN "subscribe" ELSE "idle")
      BY <1>4 DEF SendTable
    <2>2. /\ ClientAt(c)' \in {"subscribe", "idle"} /\ \A d \in Clients \ {c} : ClientAt(d)' = ClientAt(d)
          /\ c = "keeper" => keeper' = "subscribe" /\ command' = command
          /\ c = "command" => command' = "idle" /\ keeper' = keeper
      BY <2>1, ClientGoes, ClientNames
    <2>3. ControlTypes'
      <3>1. keeper' \in {"push", "answer", "subscribe", "watch"} /\ command' \in {"idle", "push", "answer", "subscribe", "watch"}
        BY <2>2, ClientNames DEF ControlInv, ControlTypes
      <3> QED
        BY <1>0, <2>1, <3>1 DEF ControlInv, ControlTypes
    <2>4. Connected'
      <3>1. \A d \in Clients : subs'[d].open <=> ClientAt(d)' = "watch"
        BY <1>0, <2>2 DEF ControlInv, Connected
      <3>2. \A d \in Clients : handler'[d].pc = "none"
        BY <1>2, <2>1
      <3>3. ~(keeper' = "answer" /\ command' = "answer")
        BY <1>0, <2>2, ClientNames
      <3>4. /\ \A g \in Handlers : handler'[g].pc = "none"
            /\ \A d \in Clients : ~subs'[d].open
        BY <1>0, <1>4, <2>1 DEF ControlInv, Connected
      <3>6. command' # "idle" => db' >= 1
        BY <1>0, <2>2, ClientNames DEF ControlInv, Connected
      <3> QED
        BY <3>1, <3>2, <3>3, <3>4, <3>6 DEF Connected
    <2>5. Reaches'
      <3>1. command' = "watch" => command = "watch"
        BY <2>2, ClientNames
      <3> QED
        BY <1>0, <3>1 DEF ControlInv, Reaches, Reported, Coming, Has
    <2>6. ASSUME NEW g \in Handlers PROVE Stage(g)'
      BY <1>0, <2>1 DEF ControlInv, Stage
    <2> QED
      BY <1>h, <2>3, <2>4, <2>5, <2>6 DEF ControlInv
  <1> QED
    BY <1>3, <1>4

\* The end of a push, of whoever asked for it.
LEMMA PushEnds ==
    ASSUME ControlInv, NEW h \in Handlers, handler' = [handler EXCEPT ![h] = NoHandler],
           UNCHANGED <<db, edgeState, busy, history, subs, wait, reported, overlapped>>,
           command' # "idle" => command # "idle",
           keeper' \in {"push", "answer", "subscribe", "watch"},
           command' \in {"idle", "push", "answer", "subscribe", "watch"},
           \A d \in Clients : /\ ClientAt(d)' = "watch" <=> ClientAt(d) = "watch"
                              /\ ClientAt(d)' = "answer" => ClientAt(d) = "answer"
                              /\ d # h => ClientAt(d)' = ClientAt(d)
    PROVE  ControlInv'
  <1>0. handler \in [Handlers -> HandlerSet] /\ Clients \subseteq Handlers /\ Orphan \in Handlers /\ db \in Nat
    BY BrokerLimits DEF ControlInv, ControlTypes, Handlers
  <1>1. \A g \in Handlers : handler'[g] = IF g = h THEN NoHandler ELSE handler[g]
    BY <1>0
  <1>2. handler' \in [Handlers -> HandlerSet]
    BY <1>0, NoneIsHandler
  <1>3. \A g \in Handlers : /\ handler'[g].v <= db /\ handler'[g].saw <= db
                            /\ handler'[g].pc = "publish" => handler'[g].todo # <<>>
    <2> TAKE g \in Handlers
    <2>1. CASE g = h
      BY <1>0, <1>1, <2>1, NoneIsHandler
    <2>2. CASE g # h
      BY <1>1, <2>2 DEF ControlInv, ControlTypes
    <2> QED
      BY <2>1, <2>2
  <1>4. ControlTypes'
    BY <1>2, <1>3 DEF ControlInv, ControlTypes
  <1>5. \A g \in Handlers : handler'[g].pc # "none" => g # h /\ handler'[g] = handler[g]
    BY <1>1, NoneIsHandler
  <1>6. Connected'
    <2>1. \A d \in Clients : subs'[d].open <=> ClientAt(d)' = "watch"
      BY DEF ControlInv, Connected
    <2>2. \A d \in Clients : handler'[d].pc # "none" => ClientAt(d)' = "answer"
      BY <1>0, <1>5 DEF ControlInv, Connected
    <2>3. ~(keeper' = "answer" /\ command' = "answer")
      <3>1. ~(ClientAt("keeper")' = "answer" /\ ClientAt("command")' = "answer")
        BY ClientNames DEF ControlInv, Connected
      <3> QED
        BY <3>1 DEF ClientAt
    <2>4. ~edgeState'.up => /\ \A g \in Handlers : handler'[g].pc = "none"
                            /\ \A d \in Clients : ~subs'[d].open
      BY <1>5 DEF ControlInv, Connected
    <2>5. ~overlapped' /\ handler'[Orphan].pc # "none" => \A d \in Clients : handler'[d].pc = "none"
      BY <1>0, <1>5 DEF ControlInv, Connected
    <2>6. command' # "idle" => db' >= 1
      BY DEF ControlInv, Connected
    <2> QED
      BY <2>1, <2>2, <2>3, <2>4, <2>5, <2>6 DEF Connected
  <1>7. Honest' /\ OldFirst'
    BY DEF ControlInv, Honest, OldFirst, SinceFlip
  <1>8. Reaches'
    <2>1. command' = "watch" => command = "watch"
      BY ClientNames DEF ClientAt
    <2> QED
      BY <2>1 DEF ControlInv, Reaches, Reported, Coming, Has
  <1>9. ASSUME NEW g \in Handlers PROVE Stage(g)'
    <2>1. CASE g = h
      BY <1>1, <2>1, NoneIsHandler DEF Stage
    <2>2. CASE g # h
      BY <1>1, <2>2 DEF ControlInv, Stage
    <2> QED
      BY <2>1, <2>2
  <1> QED
    BY <1>4, <1>6, <1>7, <1>8, <1>9 DEF ControlInv

\* The answer of a push, or the end of one nobody waits for.
LEMMA AnswerKeeps ==
    ASSUME ControlInv, (\E c \in Clients : Answer(c)) \/ OrphanEnds
    PROVE  ControlInv'
  <1>0. Clients \subseteq Handlers /\ Orphan \in Handlers /\ Orphan \notin Clients
    BY DEF Handlers, Orphan, Clients
  <1>t. /\ keeper \in {"push", "answer", "subscribe", "watch"}
        /\ command \in {"idle", "push", "answer", "subscribe", "watch"}
    BY DEF ControlInv, ControlTypes
  <1>1. ASSUME NEW c \in Clients, Answer(c) PROVE ControlInv'
    <2>1. PICK st \in {"subscribe", "idle"} : Client(c, st) /\ (c = "keeper" => st = "subscribe")
      BY <1>1 DEF Answer
    <2>2. /\ ClientAt(c)' = st /\ \A d \in Clients \ {c} : ClientAt(d)' = ClientAt(d)
          /\ c = "keeper" => keeper' = st /\ command' = command
          /\ c = "command" => command' = st /\ keeper' = keeper
      BY <2>1, ClientGoes
    <2>3. /\ ClientAt(c) = "answer" /\ handler' = [handler EXCEPT ![c] = NoHandler]
          /\ UNCHANGED <<db, edgeState, busy, history, subs, wait, reported, overlapped>>
      BY <1>1 DEF Answer, controlWorld
    <2>4. /\ keeper' \in {"push", "answer", "subscribe", "watch"}
          /\ command' \in {"idle", "push", "answer", "subscribe", "watch"}
          /\ command' # "idle" => command # "idle"
      BY <1>t, <2>1, <2>2, <2>3, ClientNames
    <2>5. \A d \in Clients : /\ ClientAt(d)' = "watch" <=> ClientAt(d) = "watch"
                             /\ ClientAt(d)' = "answer" => ClientAt(d) = "answer"
                             /\ d # c => ClientAt(d)' = ClientAt(d)
      BY <2>1, <2>2, <2>3
    <2> QED
      BY <1>0, <2>3, <2>4, <2>5, PushEnds
  <1>2. CASE OrphanEnds
    <2>1. /\ handler' = [handler EXCEPT ![Orphan] = NoHandler] /\ keeper' = keeper /\ command' = command
          /\ UNCHANGED <<db, edgeState, busy, history, subs, wait, reported, overlapped>>
      BY <1>2 DEF OrphanEnds, controlWorld
    <2>2. \A d : ClientAt(d)' = ClientAt(d)
      BY <2>1 DEF ClientAt
    <2> QED
      BY <1>0, <1>t, <2>1, <2>2, PushEnds
  <1> QED
    BY <1>1, <1>2

\* The context of a command ends while its push goes on.
LEMMA CancelKeeps ==
    ASSUME ControlInv, Cancel
    PROVE  ControlInv'
  <1>0. /\ handler \in [Handlers -> HandlerSet] /\ Clients \subseteq Handlers /\ Orphan \in Handlers
        /\ command = "answer" /\ command' = "idle" /\ handler[Orphan].pc = "none"
        /\ handler' = [handler EXCEPT !["command"] = NoHandler, ![Orphan] = handler["command"]]
        /\ UNCHANGED <<db, edgeState, busy, history, subs, keeper, wait, reported, overlapped>>
    BY DEF ControlInv, ControlTypes, Handlers, Cancel, HandlerAt
  <1>1. /\ handler'["command"] = NoHandler /\ handler'[Orphan] = handler["command"]
        /\ handler'["keeper"] = handler["keeper"] /\ handler' \in [Handlers -> HandlerSet]
    BY <1>0, ClientNames, NoneIsHandler
  <1>2. handler["keeper"].pc = "none" /\ handler'["command"].pc = "none" /\ db \in Nat
    BY <1>0, <1>1, ClientNames, BrokerLimits, NoneIsHandler DEF ControlInv, Connected, ControlTypes
  <1>3. \A g \in Handlers : /\ handler'[g].v <= db /\ handler'[g].saw <= db
                            /\ handler'[g].pc = "publish" => handler'[g].todo # <<>>
    <2> TAKE g \in Handlers
    <2>1. CASE g = "command"
      BY <1>1, <1>2, <2>1, NoneIsHandler
    <2>2. CASE g # "command"
      BY <1>1, <2>2, ClientNames DEF ControlInv, ControlTypes
    <2> QED
      BY <2>1, <2>2
  <1>4. ControlTypes'
    BY <1>0, <1>1, <1>3 DEF ControlInv, ControlTypes
  <1>5. Connected'
    <2>1. \A d \in Clients : subs'[d].open <=> ClientAt(d)' = "watch"
      BY <1>0, ClientNames DEF ControlInv, Connected, ClientAt
    <2>2. \A d \in Clients : handler'[d].pc = "none"
      BY <1>1, <1>2, ClientNames
    <2>3. edgeState.up
      BY <1>0, ClientNames DEF ControlInv, Connected, Cancel, HandlerAt
    <2> QED
      BY <1>0, <2>1, <2>2, <2>3 DEF Connected
  <1>6. Honest' /\ OldFirst' /\ Reaches'
    BY <1>0 DEF ControlInv, Honest, OldFirst, SinceFlip, Reaches
  <1>7. ASSUME NEW g \in Handlers PROVE Stage(g)'
    <2>1. CASE g = Orphan
      BY <1>0, <1>1, <2>1, ClientNames DEF ControlInv, Stage
    <2>2. CASE g # Orphan
      <3>1. handler'[g].pc = "none"
        BY <1>1, <1>2, <2>2, ClientNames
      <3> QED
        BY <3>1 DEF Stage
    <2> QED
      BY <2>1, <2>2
  <1> QED
    BY <1>4, <1>5, <1>6, <1>7 DEF ControlInv

-----------------------------------------------------------------------------
(* The subscriptions. *)

\* broker.subscribe: what is replayed is of the history, and all of it since the flip.
LEMMA ReplaySinceFlip ==
    ASSUME ControlInv, NEW r, r = Replay("command")
    PROVE  /\ r \in Seq(Nat) /\ Len(r) \in Nat /\ Len(r) <= HistoryLimit
           /\ \A i \in DOMAIN r : \E j \in DOMAIN history : r[i] = history[j].of
           /\ \A j \in DOMAIN history : ~history[j].old => \E i \in DOMAIN r : r[i] = history[j].of
  <1> DEFINE n == Len(history)
             first == CHOOSE k \in 1..(n + 1) : SinceFlip(k)
  <1>0. /\ history \in Seq(HistorySet) /\ n \in Nat /\ n <= HistoryLimit /\ HistoryLimit \in Nat
        /\ DOMAIN history = 1..n
    BY BrokerLimits DEF ControlInv, ControlTypes
  <1>1. first \in 1..(n + 1) /\ SinceFlip(first)
    BY DEF ControlInv, OldFirst
  <1>2. r = [i \in 1..(n - first + 1) |-> history[first + i - 1].of]
    BY DEF Replay
  <1> HIDE DEF first
  <1>3. first \in Nat /\ first >= 1 /\ first <= n + 1 /\ n - first + 1 \in Nat /\ n - first + 1 <= n
    BY <1>0, <1>1
  <1>4. ASSUME NEW i \in 1..(n - first + 1)
        PROVE  first + i - 1 \in 1..n /\ r[i] = history[first + i - 1].of
    BY <1>0, <1>2, <1>3
  <1>5. \A j \in 1..n : history[j].of \in Nat
    <2>1. \A j \in 1..n : history[j] \in HistorySet
      BY <1>0, ElementOfSeq
    <2> QED
      BY <2>1 DEF HistorySet
  <1>6. r \in [1..(n - first + 1) -> Nat]
    BY <1>2, <1>4, <1>5
  <1>7. r \in Seq(Nat) /\ Len(r) = n - first + 1 /\ DOMAIN r = 1..(n - first + 1)
    BY <1>3, <1>6, SeqDef
  <1>8. ASSUME NEW j \in 1..n, ~history[j].old PROVE \E i \in DOMAIN r : r[i] = history[j].of
    <2>1. ~(j < first)
      BY <1>0, <1>1, <1>8 DEF SinceFlip
    <2>2. j - first + 1 \in 1..(n - first + 1) /\ first + (j - first + 1) - 1 = j
      BY <1>0, <1>3, <2>1
    <2> QED
      BY <1>4, <1>7, <2>2
  <1>9. Len(r) \in Nat /\ Len(r) <= HistoryLimit
    BY <1>0, <1>3, <1>7
  <1>10. \A i \in DOMAIN r : \E j \in DOMAIN history : r[i] = history[j].of
    BY <1>0, <1>4, <1>7
  <1> QED
    BY <1>0, <1>7, <1>8, <1>9, <1>10

\* A change of the subscriptions and of where their clients are.
LEMMA SubsTurn ==
    ASSUME ControlInv, NEW c \in Clients, NEW s \in SubSet, subs' = [subs EXCEPT ![c] = s],
           Len(s.ch) <= SubscriberBuffer, Len(s.replay) <= HistoryLimit,
           UNCHANGED <<db, edgeState, busy, history, handler, reported, overlapped>>,
           \A i \in DOMAIN s.replay : s.replay[i] # Other => s.replay[i] \in reported,
           \A i \in DOMAIN s.ch : s.ch[i] # Other => s.ch[i] \in reported,
           wait' \in WaitSet, wait'.end = "drained" /\ wait'.quiet => db \in reported,
           keeper' \in {"push", "answer", "subscribe", "watch"},
           command' \in {"idle", "push", "answer", "subscribe", "watch"},
           ClientAt(c) # "answer", ClientAt(c)' # "answer",
           \A d \in Clients \ {c} : ClientAt(d)' = ClientAt(d),
           s.open <=> ClientAt(c)' = "watch",
           s.open => edgeState.up, s.lagged => s.open,
           command' # "idle" => command # "idle",
           Reaches'
    PROVE  ControlInv'
  <1>1. subs \in [Clients -> SubSet] /\ \A d \in Clients : subs'[d] = IF d = c THEN s ELSE subs[d]
    BY DEF ControlInv, ControlTypes
  <1>2. subs' \in [Clients -> SubSet]
    BY <1>1
  <1>3. \A d \in Clients : /\ Len(subs'[d].ch) <= SubscriberBuffer /\ Len(subs'[d].replay) <= HistoryLimit
                            /\ subs'[d].lagged => subs'[d].open
    BY <1>1 DEF ControlInv, ControlTypes
  <1>4. ControlTypes'
    BY <1>2, <1>3 DEF ControlInv, ControlTypes
  <1>5. Connected'
    <2>1. \A d \in Clients : subs'[d].open <=> ClientAt(d)' = "watch"
      BY <1>1 DEF ControlInv, Connected
    <2>2. \A d \in Clients : handler'[d].pc # "none" => ClientAt(d)' = "answer"
      BY DEF ControlInv, Connected
    <2>3. ~(keeper' = "answer" /\ command' = "answer")
      BY ClientNames DEF ClientAt
    <2>4. ~edgeState'.up => /\ \A g \in Handlers : handler'[g].pc = "none"
                            /\ \A d \in Clients : ~subs'[d].open
      BY <1>1 DEF ControlInv, Connected
    <2>5. ~overlapped' /\ handler'[Orphan].pc # "none" => \A d \in Clients : handler'[d].pc = "none"
      BY DEF ControlInv, Connected
    <2>6. command' # "idle" => db' >= 1
      BY DEF ControlInv, Connected
    <2> QED
      BY <2>1, <2>2, <2>3, <2>4, <2>5, <2>6 DEF Connected
  <1>6. Honest'
    <2>1. ASSUME NEW d \in Clients
          PROVE  /\ \A i \in DOMAIN subs'[d].replay : subs'[d].replay[i] # Other => subs'[d].replay[i] \in reported
                 /\ \A i \in DOMAIN subs'[d].ch : subs'[d].ch[i] # Other => subs'[d].ch[i] \in reported
      BY <1>1 DEF ControlInv, Honest
    <2> QED
      BY <2>1 DEF ControlInv, Honest
  <1>7. OldFirst' /\ \A g \in Handlers : Stage(g)'
    BY DEF ControlInv, OldFirst, SinceFlip, Stage
  <1> QED
    BY <1>4, <1>5, <1>6, <1>7 DEF ControlInv

\* The end of a subscription, whatever ended it.
LEMMA UnsubscribeKeeps ==
    ASSUME ControlInv, NEW c \in Clients, NEW how \in {"drained", "error", "deadline"}, Unsubscribe(c, how),
           ClientAt(c) \in {"watch", "idle", "push"},
           c = "command" /\ how = "drained" => db \in reported,
           UNCHANGED <<db, edgeState, busy, history, handler, reported, overlapped>>
    PROVE  ControlInv'
  <1>1. Client(c, IF c = "keeper" THEN "push" ELSE "idle")
    BY DEF Unsubscribe
  <1>2. /\ ClientAt(c)' \in {"push", "idle"} /\ \A d \in Clients \ {c} : ClientAt(d)' = ClientAt(d)
        /\ c = "keeper" => keeper' = "push" /\ command' = command
        /\ c = "command" => command' = "idle" /\ keeper' = keeper
    BY <1>1, ClientGoes, ClientNames
  <1>3. /\ keeper' \in {"push", "answer", "subscribe", "watch"}
        /\ command' \in {"idle", "push", "answer", "subscribe", "watch"}
        /\ command' # "idle" => command # "idle"
    BY <1>2, ClientNames DEF ControlInv, ControlTypes
  <1>4. wait' \in WaitSet /\ (wait'.end = "drained" /\ wait'.quiet => db \in reported)
    <2>1. wait \in WaitSet /\ (wait.end = "drained" /\ wait.quiet => db \in reported)
      BY DEF ControlInv, ControlTypes, Honest
    <2>2. wait' = IF c = "keeper" THEN wait ELSE [wait EXCEPT !.end = how]
      BY DEF Unsubscribe
    <2>3. CASE c = "keeper"
      BY <2>1, <2>2, <2>3
    <2>4. CASE c = "command"
      <3>1. wait' = [wait EXCEPT !.end = how]
        BY <2>2, <2>4
      <3>2. wait' \in WaitSet /\ wait'.end = how
        BY <2>1, <3>1 DEF WaitSet
      <3> QED
        BY <2>4, <3>2
    <2> QED
      BY <2>3, <2>4, ClientNames
  <1>5. subs' = [subs EXCEPT ![c] = NoSub] /\ subs \in [Clients -> SubSet]
    BY DEF Unsubscribe, ControlInv, ControlTypes
  <1>6. Reaches'
    <2>1. CASE c = "keeper"
      <3>1. subs'["command"] = subs["command"] /\ command' = command
        BY <1>2, <1>5, <2>1, ClientNames
      <3> QED
        BY <3>1 DEF ControlInv, Reaches, Reported, Coming, Has
    <2>2. CASE c = "command"
      BY <1>2, <2>2 DEF Reaches
    <2> QED
      BY <2>1, <2>2, ClientNames
  <1>7. /\ Len(NoSub.ch) <= SubscriberBuffer /\ Len(NoSub.replay) <= HistoryLimit
        /\ \A i \in DOMAIN NoSub.replay : FALSE
        /\ \A i \in DOMAIN NoSub.ch : FALSE
    BY BrokerLimits, NoneIsSub
  <1> QED
    BY <1>2, <1>3, <1>4, <1>5, <1>6, <1>7, NoneIsSub, SubsTurn

\* broker.subscribe: the replay and the registration.
LEMMA SubscribeKeeps ==
    ASSUME ControlInv, NEW c \in Clients, SubscribeTo(c)
    PROVE  ControlInv'
  <1>0. /\ ClientAt(c) = "subscribe"
        /\ UNCHANGED <<db, edgeState, busy, history, handler, reported, overlapped>>
        /\ subs \in [Clients -> SubSet]
        /\ wait \in WaitSet /\ (wait.end = "drained" /\ wait.quiet => db \in reported)
    BY DEF ControlInv, ControlTypes, Honest, SubscribeTo, controlWorld
  <1>1. CASE edgeState.up
    <2> DEFINE r == Replay(c)
               s == [NoSub EXCEPT !.open = TRUE, !.replay = r]
    <2>1. subs' = [subs EXCEPT ![c] = s] /\ Client(c, "watch") /\ wait' = wait
      BY <1>1 DEF SubscribeTo
    <2>2. /\ ClientAt(c)' = "watch" /\ \A d \in Clients \ {c} : ClientAt(d)' = ClientAt(d)
          /\ c = "keeper" => keeper' = "watch" /\ command' = command
          /\ c = "command" => command' = "watch" /\ keeper' = keeper
      BY <2>1, ClientGoes
    <2>3. /\ keeper' \in {"push", "answer", "subscribe", "watch"}
          /\ command' \in {"idle", "push", "answer", "subscribe", "watch"}
          /\ command' # "idle" => command # "idle"
      BY <1>0, <2>2, ClientNames DEF ControlInv, ControlTypes
    <2>4. c = "keeper" => r = <<>>
      BY DEF Replay
    <2>5. /\ r \in Seq(Nat) /\ Len(r) <= HistoryLimit
          /\ \A i \in DOMAIN r : r[i] # Other => r[i] \in reported
      <3>1. CASE c = "keeper"
        <4>1. NoSub.replay \in Seq(Nat) /\ NoSub.replay = <<>> /\ Len(NoSub.replay) = 0
          BY NoneIsSub DEF SubSet
        <4>2. r = NoSub.replay
          BY <2>4, <3>1, <4>1
        <4>3. \A i \in DOMAIN NoSub.replay : FALSE
          BY <4>1
        <4> HIDE DEF r
        <4> QED
          BY <4>1, <4>2, <4>3, BrokerLimits
      <3>2. CASE c = "command"
        <4>1. \A i \in DOMAIN r : \E j \in DOMAIN history : r[i] = history[j].of
          BY <3>2, ReplaySinceFlip
        <4>2. \A j \in DOMAIN history : history[j].of # Other => history[j].of \in reported
          BY DEF ControlInv, Honest
        <4>3. r \in Seq(Nat) /\ Len(r) <= HistoryLimit
          BY <3>2, ReplaySinceFlip
        <4> HIDE DEF r
        <4> QED
          BY <4>1, <4>2, <4>3
      <3> QED
        BY <3>1, <3>2, ClientNames
    <2> HIDE DEF r
    <2>6. s \in SubSet /\ s.open /\ s.replay = r /\ s.ch = <<>>
      BY <2>5, NoneIsSub DEF SubSet
    <2>7. Reaches'
      <3>1. CASE c = "keeper"
        <4>1. subs'["command"] = subs["command"] /\ command' = command
          BY <1>0, <2>1, <2>2, <3>1, ClientNames
        <4> QED
          BY <1>0, <4>1 DEF ControlInv, Reaches, Reported, Coming, Has
      <3>2. CASE c = "command"
        <4> SUFFICES ASSUME Reported' PROVE Coming("command", db)'
          BY DEF Reaches
        <4>1. subs'["command"].replay = r
          BY <1>0, <2>1, <2>6, <3>2, ClientNames
        <4>2. PICK j \in DOMAIN history : history[j] = [of |-> db, old |-> FALSE]
          BY <1>0 DEF Reported
        <4>3. history[j].of = db /\ ~history[j].old
          BY <4>2
        <4>4. \E i \in DOMAIN r : r[i] = db
          BY <3>2, <4>3, ReplaySinceFlip DEF r
        <4> QED
          BY <1>0, <4>1, <4>4 DEF Coming, Has
      <3> QED
        BY <3>1, <3>2, ClientNames
    <2>8. Len(s.ch) <= SubscriberBuffer /\ \A i \in DOMAIN s.ch : FALSE
      BY <2>6, BrokerLimits
    <2> HIDE DEF s
    <2>9. wait' \in WaitSet /\ (wait'.end = "drained" /\ wait'.quiet => db \in reported)
      BY <1>0, <2>1
    <2> QED
      BY <1>0, <1>1, <2>1, <2>2, <2>3, <2>5, <2>6, <2>7, <2>8, <2>9, SubsTurn
  <1>2. CASE ~edgeState.up
    <2>0. ~subs[c].open /\ subs' = subs
      BY <1>0, <1>2 DEF ControlInv, Connected, SubscribeTo
    <2>1. /\ Client(c, IF c = "keeper" THEN "push" ELSE "idle")
          /\ wait' = IF c = "keeper" THEN wait ELSE [wait EXCEPT !.end = "error"]
      BY <1>2 DEF SubscribeTo
    <2>2. /\ ClientAt(c)' \in {"push", "idle"} /\ \A d \in Clients \ {c} : ClientAt(d)' = ClientAt(d)
          /\ c = "keeper" => keeper' = "push" /\ command' = command
          /\ c = "command" => command' = "idle" /\ keeper' = keeper
      BY <2>1, ClientGoes, ClientNames
    <2>3. /\ keeper' \in {"push", "answer", "subscribe", "watch"}
          /\ command' \in {"idle", "push", "answer", "subscribe", "watch"}
          /\ command' # "idle" => command # "idle"
      BY <1>0, <2>2, ClientNames DEF ControlInv, ControlTypes
    <2>4. wait' \in WaitSet /\ (wait'.end = "drained" /\ wait'.quiet => db \in reported)
      <3>1. [wait EXCEPT !.end = "error"] \in WaitSet /\ [wait EXCEPT !.end = "error"].end = "error"
        BY <1>0 DEF WaitSet
      <3> QED
        BY <1>0, <2>1, <3>1
    <2>5. Reaches'
      <3>1. command' = "watch" => command = "watch"
        BY <2>2, ClientNames
      <3> QED
        BY <1>0, <2>0, <3>1 DEF ControlInv, Reaches, Reported, Coming, Has
    <2>6. /\ subs' = [subs EXCEPT ![c] = subs[c]] /\ subs[c] \in SubSet
          /\ Len(subs[c].ch) <= SubscriberBuffer /\ Len(subs[c].replay) <= HistoryLimit
          /\ subs[c].lagged => subs[c].open
          /\ \A i \in DOMAIN subs[c].replay : subs[c].replay[i] # Other => subs[c].replay[i] \in reported
          /\ \A i \in DOMAIN subs[c].ch : subs[c].ch[i] # Other => subs[c].ch[i] \in reported
      BY <1>0, <2>0 DEF ControlInv, ControlTypes, Honest
    <2> QED
      BY <1>0, <2>0, <2>2, <2>3, <2>4, <2>5, <2>6, SubsTurn
  <1> QED
    BY <1>1, <1>2

\* What a subscriber has before it: its first element and what is left after it.
LEMMA BacklogIs ==
    ASSUME ControlInv, NEW c \in Clients
    PROVE  /\ Backlog(c) # <<>> => /\ subs[c].replay # <<>> => Head(Backlog(c)) = subs[c].replay[1]
                                   /\ subs[c].replay = <<>> => subs[c].ch # <<>> /\ Head(Backlog(c)) = subs[c].ch[1]
           /\ \A e : Coming(c, e) => \E i \in DOMAIN Backlog(c) : Backlog(c)[i] = e
  <1> DEFINE p == subs[c].replay
             q == subs[c].ch
  <1>0. subs[c] \in SubSet
    BY DEF ControlInv, ControlTypes
  <1>1. p \in Seq(Nat) /\ q \in Seq(Nat) /\ Len(p) \in Nat /\ Len(q) \in Nat
    BY <1>0 DEF SubSet
  <1>2. /\ p \o q \in Seq(Nat) /\ Len(p \o q) = Len(p) + Len(q)
        /\ \A i \in 1..Len(p \o q) : (p \o q)[i] = IF i <= Len(p) THEN p[i] ELSE q[i - Len(p)]
    BY <1>1, ConcatProperties
  <1>b. Backlog(c) = p \o q
    BY DEF Backlog
  <1> HIDE DEF p, q
  <1>3. ASSUME Backlog(c) # <<>>, p # <<>> PROVE Head(Backlog(c)) = p[1]
    <2>1. Len(p) >= 1
      BY <1>1, <1>3, Shorter
    <2>2. Head(p \o q) = (p \o q)[1]
      BY <1>2, <1>b, <1>3, Shorter
    <2>3. 1 \in 1..Len(p \o q) /\ 1 <= Len(p)
      BY <1>1, <1>2, <2>1
    <2> QED
      BY <1>2, <1>b, <2>2, <2>3
  <1>4. ASSUME Backlog(c) # <<>>, p = <<>> PROVE q # <<>> /\ Head(Backlog(c)) = q[1]
    <2>1. Len(p) = 0
      BY <1>4
    <2>2. Head(p \o q) = (p \o q)[1] /\ Len(p \o q) >= 1
      BY <1>2, <1>b, <1>4, Shorter
    <2>3. 1 \in 1..Len(p \o q) /\ ~(1 <= Len(p)) /\ 1 - Len(p) = 1 /\ Len(q) >= 1
      BY <1>1, <1>2, <2>1, <2>2
    <2>4. q # <<>>
      BY <2>3
    <2> QED
      BY <1>2, <1>b, <2>2, <2>3, <2>4
  <1>5. ASSUME NEW e, NEW i \in DOMAIN p, p[i] = e PROVE \E j \in DOMAIN (p \o q) : (p \o q)[j] = e
    <2>1. i \in 1..Len(p \o q) /\ i <= Len(p)
      BY <1>1, <1>2
    <2> QED
      BY <1>2, <1>5, <2>1
  <1>6. ASSUME NEW e, NEW i \in DOMAIN q, q[i] = e PROVE \E j \in DOMAIN (p \o q) : (p \o q)[j] = e
    <2>0. i \in 1..Len(q)
      BY <1>1
    <2>1. Len(p) + i \in 1..Len(p \o q) /\ ~(Len(p) + i <= Len(p)) /\ Len(p) + i - Len(p) = i
      BY <1>1, <1>2, <2>0
    <2>2. (p \o q)[Len(p) + i] = q[i]
      BY <1>2, <2>1
    <2>3. Len(p) + i \in DOMAIN (p \o q)
      BY <1>2, <2>1
    <2> QED
      BY <1>6, <2>2, <2>3
  <1>7. \A e : Coming(c, e) => \E i \in DOMAIN Backlog(c) : Backlog(c)[i] = e
    BY <1>5, <1>6, <1>b DEF Coming, Has, p, q
  <1> QED
    BY <1>3, <1>4, <1>7 DEF p, q

\* The rest of a sequence has all of it but the first.
LEMMA RestOf ==
    ASSUME NEW s \in Seq(Nat), s # <<>>, NEW t, t = Tail(s)
    PROVE  /\ t \in Seq(Nat) /\ Len(t) <= Len(s)
           /\ \A i \in DOMAIN t : Has(s, t[i])
           /\ \A e : Has(s, e) => e = s[1] \/ Has(t, e)
  <1>1. /\ Len(s) \in Nat /\ Len(s) >= 1 /\ t \in Seq(Nat) /\ Len(t) = Len(s) - 1
        /\ \A i \in 1..Len(t) : t[i] = s[i + 1]
    BY Shorter
  <1>2. DOMAIN s = 1..Len(s) /\ DOMAIN t = 1..Len(t)
    BY <1>1
  <1>3. \A i \in DOMAIN t : i + 1 \in DOMAIN s /\ t[i] = s[i + 1]
    BY <1>1, <1>2
  <1>4. ASSUME NEW e, NEW i \in DOMAIN s, s[i] = e, e # s[1] PROVE \E j \in DOMAIN t : t[j] = e
    <2>1. i \in 1..Len(s) /\ i # 1
      BY <1>2, <1>4
    <2>2. i - 1 \in 1..Len(t) /\ i - 1 + 1 = i
      BY <1>1, <2>1
    <2>3. t[i - 1] = s[i]
      BY <1>1, <2>2
    <2> QED
      BY <1>2, <1>4, <2>2, <2>3
  <1>5. Len(t) <= Len(s)
    BY <1>1
  <1>6. \A i \in DOMAIN t : Has(s, t[i])
    BY <1>3 DEF Has
  <1>7. \A e : Has(s, e) => e = s[1] \/ Has(t, e)
    BY <1>4 DEF Has
  <1> QED
    BY <1>1, <1>5, <1>6, <1>7

\* An event reaches its subscriber.
LEMMA ReceiveKeeps ==
    ASSUME ControlInv, NEW c \in Clients, Receive(c)
    PROVE  ControlInv'
  <1> DEFINE s == subs[c]
  <1>0. /\ s.open /\ Backlog(c) # <<>> /\ s \in SubSet /\ subs \in [Clients -> SubSet]
        /\ UNCHANGED <<db, edgeState, busy, history, handler, reported, overlapped>>
        /\ Len(s.ch) <= SubscriberBuffer /\ Len(s.replay) <= HistoryLimit
        /\ \A i \in DOMAIN s.replay : s.replay[i] # Other => s.replay[i] \in reported
        /\ \A i \in DOMAIN s.ch : s.ch[i] # Other => s.ch[i] \in reported
    BY DEF ControlInv, ControlTypes, Honest, Receive, controlWorld
  <1>1. s.replay \in Seq(Nat) /\ s.ch \in Seq(Nat) /\ SubscriberBuffer \in Nat /\ HistoryLimit \in Nat
    BY <1>0, BrokerLimits DEF SubSet
  <1>2. ClientAt(c) = "watch" /\ (c = "command" => db \in Nat /\ db >= 1)
    BY <1>0, ClientNames, BrokerLimits DEF ControlInv, ControlTypes, Connected
  <1>3. /\ s.replay # <<>> => Head(Backlog(c)) = s.replay[1] /\ 1 \in DOMAIN s.replay
        /\ s.replay = <<>> => s.ch # <<>> /\ Head(Backlog(c)) = s.ch[1] /\ 1 \in DOMAIN s.ch
    <2>1. s.replay # <<>> => Len(s.replay) \in Nat /\ Len(s.replay) >= 1
      BY <1>1, Shorter
    <2>2. s.ch # <<>> => Len(s.ch) \in Nat /\ Len(s.ch) >= 1
      BY <1>1, Shorter
    <2>3. DOMAIN s.replay = 1..Len(s.replay) /\ DOMAIN s.ch = 1..Len(s.ch)
      BY <1>1
    <2>4. (s.replay # <<>> => 1 \in DOMAIN s.replay) /\ (s.ch # <<>> => 1 \in DOMAIN s.ch)
      BY <2>1, <2>2, <2>3
    <2> QED
      BY <1>0, <2>4, BacklogIs
  <1>4. CASE c = "command" /\ Head(Backlog(c)) = db
    <2>1. Unsubscribe(c, "drained")
      BY <1>4 DEF Receive
    <2>2. db # Other
      BY <1>2, <1>4 DEF Other
    <2>3. db \in reported
      BY <1>0, <1>3, <1>4, <2>2
    <2> QED
      BY <1>0, <1>2, <2>1, <2>3, UnsubscribeKeeps
  <1>5. CASE ~(c = "command" /\ Head(Backlog(c)) = db)
    <2> DEFINE rest == IF s.replay # <<>> THEN [s EXCEPT !.replay = Tail(@)] ELSE [s EXCEPT !.ch = Tail(@)]
    <2>1. subs' = [subs EXCEPT ![c] = rest] /\ UNCHANGED <<keeper, command, wait>>
      BY <1>0, <1>5 DEF Receive
    <2>2. /\ rest \in SubSet /\ rest.open = s.open /\ rest.lagged = s.lagged
          /\ s.replay # <<>> => rest.replay = Tail(s.replay) /\ rest.ch = s.ch
          /\ s.replay = <<>> => rest.ch = Tail(s.ch) /\ rest.replay = s.replay
      <3>1. CASE s.replay # <<>>
        <4>1. Tail(s.replay) \in Seq(Nat)
          BY <1>1, <3>1, Shorter
        <4> QED
          BY <1>0, <3>1, <4>1 DEF SubSet
      <3>2. CASE s.replay = <<>>
        <4>1. Tail(s.ch) \in Seq(Nat)
          BY <1>1, <1>3, <3>2, Shorter
        <4> QED
          BY <1>0, <3>2, <4>1 DEF SubSet
      <3> QED
        BY <3>1, <3>2
    <2> HIDE DEF rest
    <2>3. /\ Len(rest.ch) <= SubscriberBuffer /\ Len(rest.replay) <= HistoryLimit
          /\ \A i \in DOMAIN rest.replay : Has(s.replay, rest.replay[i])
          /\ \A i \in DOMAIN rest.ch : Has(s.ch, rest.ch[i])
          /\ \A e : Has(s.replay, e) => e = Head(Backlog(c)) \/ Has(rest.replay, e)
          /\ \A e : Has(s.ch, e) => e = Head(Backlog(c)) \/ Has(rest.ch, e)
      <3>0. /\ \A i \in DOMAIN s.replay : Has(s.replay, s.replay[i])
            /\ \A i \in DOMAIN s.ch : Has(s.ch, s.ch[i])
        BY DEF Has
      <3>1. CASE s.replay # <<>>
        <4>0. rest.replay = Tail(s.replay) /\ rest.ch = s.ch /\ Head(Backlog(c)) = s.replay[1]
          BY <1>3, <2>2, <3>1
        <4>1. /\ rest.replay \in Seq(Nat) /\ Len(rest.replay) <= Len(s.replay)
              /\ \A i \in DOMAIN rest.replay : Has(s.replay, rest.replay[i])
              /\ \A e : Has(s.replay, e) => e = s.replay[1] \/ Has(rest.replay, e)
          BY <1>1, <3>1, <4>0, RestOf
        <4>2. Len(rest.replay) \in Nat /\ Len(s.replay) \in Nat
          BY <1>1, <4>1
        <4>3. Len(rest.replay) <= HistoryLimit
          BY <1>0, <1>1, <4>1, <4>2
        <4> QED
          BY <1>0, <3>0, <4>0, <4>1, <4>3
      <3>2. CASE s.replay = <<>>
        <4>0. /\ rest.ch = Tail(s.ch) /\ rest.replay = s.replay /\ Head(Backlog(c)) = s.ch[1] /\ s.ch # <<>>
          BY <1>3, <2>2, <3>2
        <4>1. /\ rest.ch \in Seq(Nat) /\ Len(rest.ch) <= Len(s.ch)
              /\ \A i \in DOMAIN rest.ch : Has(s.ch, rest.ch[i])
              /\ \A e : Has(s.ch, e) => e = s.ch[1] \/ Has(rest.ch, e)
          BY <1>1, <4>0, RestOf
        <4>2. Len(rest.ch) \in Nat /\ Len(s.ch) \in Nat
          BY <1>1, <4>1
        <4>3. Len(rest.ch) <= SubscriberBuffer
          BY <1>0, <1>1, <4>1, <4>2
        <4> QED
          BY <1>0, <3>0, <4>0, <4>1, <4>3
      <3> QED
        BY <3>1, <3>2
    <2>4. Reaches'
      <3>1. CASE c = "keeper"
        <4>1. subs'["command"] = subs["command"]
          BY <1>0, <2>1, <3>1, ClientNames
        <4> QED
          BY <1>0, <2>1, <4>1 DEF ControlInv, Reaches, Reported, Coming, Has
      <3>2. CASE c = "command"
        <4>1. subs'["command"] = rest
          BY <1>0, <2>1, <3>2, ClientNames
        <4>2. Coming("command", db) => Coming("command", db)'
          BY <1>0, <1>5, <2>3, <3>2, <4>1 DEF Coming
        <4> QED
          BY <1>0, <2>1, <2>2, <3>2, <4>1, <4>2 DEF ControlInv, Reaches, Reported
      <3> QED
        BY <3>1, <3>2, ClientNames
    <2>5. \A d : ClientAt(d)' = ClientAt(d)
      BY <2>1 DEF ClientAt
    <2>6. /\ keeper' \in {"push", "answer", "subscribe", "watch"}
          /\ command' \in {"idle", "push", "answer", "subscribe", "watch"}
          /\ wait' \in WaitSet /\ (wait'.end = "drained" /\ wait'.quiet => db \in reported)
          /\ command' = command /\ edgeState.up /\ (rest.lagged => rest.open)
      BY <1>0, <2>1, <2>2 DEF ControlInv, ControlTypes, Honest, Connected
    <2>7. /\ \A i \in DOMAIN rest.replay : rest.replay[i] # Other => rest.replay[i] \in reported
          /\ \A i \in DOMAIN rest.ch : rest.ch[i] # Other => rest.ch[i] \in reported
      BY <1>0, <2>3 DEF Has
    <2> QED
      BY <1>0, <1>2, <2>1, <2>2, <2>3, <2>4, <2>5, <2>6, <2>7, SubsTurn
  <1> QED
    BY <1>4, <1>5

\* A subscriber is too slow, or its time is over.
LEMMA GiveUpKeeps ==
    ASSUME ControlInv, (\E c \in Clients : TooSlow(c)) \/ Deadline
    PROVE  ControlInv'
  <1>1. ASSUME NEW c \in Clients, TooSlow(c) PROVE ControlInv'
    <2>1. subs[c].open /\ ClientAt(c) = "watch"
      BY <1>1 DEF TooSlow, ControlInv, ControlTypes, Connected
    <2>2. Unsubscribe(c, "error") /\ UNCHANGED <<db, edgeState, busy, history, handler, reported, overlapped>>
      BY <1>1 DEF TooSlow, controlWorld
    <2> QED
      BY <2>1, <2>2, UnsubscribeKeeps
  <1>2. CASE Deadline
    <2>1. /\ Unsubscribe("command", "deadline") /\ ClientAt("command") = "watch"
          /\ UNCHANGED <<db, edgeState, busy, history, handler, reported, overlapped>>
      BY <1>2, ClientNames DEF Deadline, controlWorld
    <2> QED
      BY <2>1, ClientNames, UnsubscribeKeeps
  <1> QED
    BY <1>1, <1>2

-----------------------------------------------------------------------------
(* A rollout, and the edge going away and coming back. *)

\* A rollout records its table: what was reported is of before the flip.
LEMMA RecordKeeps ==
    ASSUME ControlInv, RecordTable
    PROVE  ControlInv'
  <1> DEFINE n == Len(history)
  <1>0. /\ command = "idle" /\ command' = "push" /\ db' = db + 1 /\ db \in Nat /\ db' \in 0..MaxTable
        /\ history' = [i \in DOMAIN history |-> [history[i] EXCEPT !.old = TRUE]] /\ wait' = NoWait
        /\ UNCHANGED <<edgeState, busy, subs, handler, keeper, ctlEvents, reported, overlapped>>
        /\ history \in Seq(HistorySet) /\ n \in Nat /\ n <= HistoryLimit /\ DOMAIN history = 1..n
    BY BrokerLimits DEF RecordTable, controlWorld, ControlInv, ControlTypes
  <1>1. \A i \in 1..n : history[i] \in HistorySet
    BY <1>0, ElementOfSeq
  <1>2. \A i \in 1..n : /\ history'[i] = [history[i] EXCEPT !.old = TRUE]
                        /\ history'[i] \in HistorySet /\ history'[i].of = history[i].of /\ history'[i].old = TRUE
    BY <1>0, <1>1 DEF HistorySet
  <1>3. history' \in [1..n -> HistorySet]
    BY <1>0, <1>2
  <1>4. history' \in Seq(HistorySet) /\ Len(history') = n /\ DOMAIN history' = 1..n
    BY <1>0, <1>3, SeqDef
  <1>5. wait' \in WaitSet /\ wait'.end = "none"
    BY <1>0 DEF NoWait, WaitSet
  <1>6. ControlTypes'
    <2>1. edgeState'.table <= db' /\ edgeState'.file <= db' /\ edgeState'.ingress <= db'
      BY <1>0 DEF ControlInv, ControlTypes
    <2>2. busy' \subseteq 1..db'
      <3>1. busy \subseteq 1..db /\ 1..db \subseteq 1..db'
        BY <1>0 DEF ControlInv, ControlTypes
      <3> QED
        BY <1>0, <3>1
    <2>3. \A h \in Handlers : handler'[h].v <= db' /\ handler'[h].saw <= db'
      <3>1. \A h \in Handlers : /\ handler[h].v <= db /\ handler[h].saw <= db
                                /\ handler[h].v \in Nat /\ handler[h].saw \in Nat
        BY DEF ControlInv, ControlTypes, HandlerSet
      <3> QED
        BY <1>0, <3>1
    <2>4. /\ edgeState' = edgeState /\ subs' = subs /\ handler' = handler /\ keeper' = keeper /\ overlapped' = overlapped
          /\ command' \in {"idle", "push", "answer", "subscribe", "watch"} /\ Len(history') <= HistoryLimit
      BY <1>0, <1>4
    <2> QED
      BY <1>0, <1>4, <1>5, <2>1, <2>2, <2>3, <2>4 DEF ControlInv, ControlTypes
  <1>7. Connected'
    <2>1. \A d \in Clients : /\ ClientAt(d)' = "watch" <=> ClientAt(d) = "watch"
                             /\ ClientAt(d) = "answer" => ClientAt(d)' = "answer"
      BY <1>0, ClientNames DEF ClientAt
    <2> QED
      BY <1>0, <2>1 DEF ControlInv, Connected
  <1>8. Honest'
    <2>1. \A i \in DOMAIN history' : history'[i].of # Other => history'[i].of \in reported'
      BY <1>0, <1>2, <1>4 DEF ControlInv, Honest
    <2> QED
      BY <1>0, <1>5, <2>1 DEF ControlInv, Honest
  <1>9. OldFirst'
    <2>1. n + 1 \in 1..(n + 1) /\ \A i \in 1..n : i < n + 1
      BY <1>0
    <2>2. \A i \in DOMAIN history' : history'[i].old <=> i < n + 1
      BY <1>2, <1>4, <2>1
    <2> QED
      BY <1>4, <2>1, <2>2 DEF OldFirst, SinceFlip
  <1>10. Reaches' /\ \A g \in Handlers : Stage(g)'
    BY <1>0 DEF ControlInv, Reaches, Stage
  <1> QED
    BY <1>6, <1>7, <1>8, <1>9, <1>10 DEF ControlInv

\* The history of an edge that has just started, or is not there.
LEMMA ShortHistory ==
    ASSUME NEW x \in HistorySet, ~x.old,
           history' = <<>> \/ history' = <<x>>
    PROVE  history' \in Seq(HistorySet) /\ Len(history') <= HistoryLimit /\ OldFirst'
           /\ \A i \in DOMAIN history' : history'[i] = x
  <1>0. /\ <<>> \in Seq(HistorySet) /\ Len(<<>>) = 0
        /\ <<x>> \in Seq(HistorySet) /\ Len(<<x>>) = 1
    OBVIOUS
  <1>1. history' \in Seq(HistorySet) /\ Len(history') \in {0, 1} /\ DOMAIN history' = 1..Len(history')
    <2>1. history' \in Seq(HistorySet) /\ Len(history') \in {0, 1}
      BY <1>0
    <2> QED
      BY <2>1
  <1>2. \A i \in DOMAIN history' : history'[i] = x /\ i = 1
    <2>1. CASE history' = <<>>
      BY <2>1
    <2>2. CASE history' = <<x>>
      BY <2>2
    <2> QED
      BY <2>1, <2>2
  <1>3. 1 \in 1..(Len(history') + 1) /\ \A i \in DOMAIN history' : history'[i].old <=> i < 1
    BY <1>1, <1>2
  <1>4. OldFirst'
    BY <1>3 DEF OldFirst, SinceFlip
  <1>5. Len(history') <= HistoryLimit
    BY <1>1, BrokerLimits
  <1> QED
    BY <1>1, <1>2, <1>4, <1>5

\* The edge stops.
LEMMA StopKeeps ==
    ASSUME ControlInv, EdgeStops
    PROVE  ControlInv'
  <1>0. /\ edgeState.up /\ edgeState' = [edgeState EXCEPT !.up = FALSE]
        /\ handler' = [h \in DOMAIN handler |-> NoHandler] /\ subs' = [c \in Clients |-> NoSub]
        /\ busy' = {} /\ history' = <<>> /\ db' = db /\ reported' = reported /\ overlapped' = FALSE
        /\ handler \in [Handlers -> HandlerSet] /\ db \in Nat
        /\ edgeState \in [up : BOOLEAN, table : Nat, file : Nat, ingress : Nat]
        /\ wait \in WaitSet /\ (wait.end = "drained" /\ wait.quiet => db \in reported)
    BY BrokerLimits DEF EdgeStops, ControlInv, ControlTypes, Honest
  <1>1. handler' = [h \in Handlers |-> NoHandler]
    BY <1>0
  <1>2. keeper' \in {"push", "subscribe"}
    BY DEF EdgeStops, ControlInv, ControlTypes
  <1>3. command' \in {"idle", "push", "subscribe"} /\ (command' # "idle" => command # "idle")
    BY DEF EdgeStops, ControlInv, ControlTypes
  <1>4. wait' \in WaitSet /\ (wait'.end = "drained" /\ wait'.quiet => db \in reported)
    <2>1. CASE command = "watch"
      <3>1. PICK how \in {"drained", "error"} : wait' = [end |-> how, quiet |-> FALSE]
        BY <2>1 DEF EdgeStops
      <3> QED
        BY <3>1 DEF WaitSet
    <2>2. CASE command # "watch"
      BY <1>0, <2>2 DEF EdgeStops
    <2> QED
      BY <2>1, <2>2
  <1>5. history' \in Seq(HistorySet) /\ Len(history') <= HistoryLimit /\ OldFirst' /\ DOMAIN history' = {}
    <2>1. [of |-> 0, old |-> FALSE] \in HistorySet
      BY DEF HistorySet
    <2> QED
      BY <1>0, <2>1, ShortHistory
  <1>6. \A h \in Handlers : handler'[h] = NoHandler
    BY <1>1
  <1>7. \A c \in Clients : subs'[c] = NoSub
    BY <1>0
  <1>8. ControlTypes'
    <2>1. /\ edgeState' \in [up : BOOLEAN, table : Nat, file : Nat, ingress : Nat]
          /\ edgeState'.table <= db' /\ edgeState'.file <= db' /\ edgeState'.ingress <= db'
      BY <1>0 DEF ControlInv, ControlTypes
    <2>2. handler' \in [Handlers -> HandlerSet]
      BY <1>1, NoneIsHandler
    <2>3. subs' \in [Clients -> SubSet]
      BY <1>0, NoneIsSub
    <2>4. \A h \in Handlers : /\ handler'[h].v <= db' /\ handler'[h].saw <= db'
                              /\ handler'[h].pc = "publish" => handler'[h].todo # <<>>
      BY <1>0, <1>6, NoneIsHandler
    <2>5. \A c \in Clients : /\ Len(subs'[c].ch) <= SubscriberBuffer /\ Len(subs'[c].replay) <= HistoryLimit
                             /\ subs'[c].lagged => subs'[c].open
      BY <1>7, NoneIsSub, BrokerLimits
    <2>6. db' \in 0..MaxTable /\ busy' \subseteq 1..db' /\ overlapped' \in BOOLEAN
      BY <1>0 DEF ControlInv, ControlTypes
    <2> QED
      BY <1>2, <1>3, <1>4, <1>5, <2>1, <2>2, <2>3, <2>4, <2>5, <2>6 DEF ControlTypes
  <1>9. Connected'
    <2>1. \A c \in Clients : ClientAt(c)' # "watch" /\ ~subs'[c].open
      BY <1>2, <1>3, <1>7, NoneIsSub DEF ClientAt
    <2>2. \A h \in Handlers : handler'[h].pc = "none"
      BY <1>6, NoneIsHandler
    <2>3. command' # "idle" => db' >= 1
      BY <1>0, <1>3 DEF ControlInv, Connected
    <2>4. Clients \subseteq Handlers
      BY DEF Handlers
    <2> QED
      BY <1>2, <2>1, <2>2, <2>3, <2>4 DEF Connected
  <1>10. Honest'
    <2>1. \A c \in Clients : (\A i \in DOMAIN subs'[c].replay : FALSE) /\ (\A i \in DOMAIN subs'[c].ch : FALSE)
      BY <1>7, NoneIsSub
    <2> QED
      BY <1>0, <1>4, <1>5, <2>1 DEF Honest
  <1>11. Reaches'
    BY <1>3 DEF Reaches
  <1>12. ASSUME NEW h \in Handlers PROVE Stage(h)'
    BY <1>6, NoneIsHandler DEF Stage
  <1> QED
    BY <1>5, <1>8, <1>9, <1>10, <1>11, <1>12 DEF ControlInv

\* The edge starts from its file.
LEMMA StartKeeps ==
    ASSUME ControlInv, EdgeStarts
    PROVE  ControlInv'
  <1> DEFINE x == [of |-> Other, old |-> FALSE]
  <1>0. /\ ~edgeState.up
        /\ edgeState' = [edgeState EXCEPT !.up = TRUE, !.table = edgeState.file, !.ingress = edgeState.file]
        /\ history' = <<x>>
        /\ UNCHANGED <<db, busy, subs, handler, keeper, command, wait, ctlEvents, reported, overlapped>>
        /\ edgeState \in [up : BOOLEAN, table : Nat, file : Nat, ingress : Nat] /\ edgeState.file <= db
    BY DEF EdgeStarts, ControlInv, ControlTypes
  <1>1. x \in HistorySet /\ ~x.old /\ x.of = Other
    BY DEF HistorySet, Other
  <1> HIDE DEF x
  <1>2. /\ history' \in Seq(HistorySet) /\ Len(history') <= HistoryLimit /\ OldFirst'
        /\ \A i \in DOMAIN history' : history'[i] = x
    BY <1>0, <1>1, ShortHistory
  <1>3. /\ edgeState' \in [up : BOOLEAN, table : Nat, file : Nat, ingress : Nat]
        /\ edgeState'.table <= db /\ edgeState'.file <= db /\ edgeState'.ingress <= db
    BY <1>0
  <1>4. ControlTypes'
    BY <1>0, <1>2, <1>3 DEF ControlInv, ControlTypes
  <1>5. /\ \A h \in Handlers : handler[h].pc = "none"
        /\ \A c \in Clients : ~subs[c].open
    BY <1>0 DEF ControlInv, Connected
  <1>6. (\A c : ClientAt(c)' = ClientAt(c)) /\ Clients \subseteq Handlers /\ Orphan \in Handlers /\ edgeState'.up
    BY <1>0 DEF ClientAt, Handlers
  <1>7. Connected'
    BY <1>0, <1>5, <1>6 DEF ControlInv, Connected
  <1>8. Honest'
    <2>1. \A i \in DOMAIN history' : history'[i].of # Other => history'[i].of \in reported'
      BY <1>1, <1>2
    <2> QED
      BY <1>0, <2>1 DEF ControlInv, Honest
  <1>9. Reaches'
    <2>1. command # "watch"
      BY <1>5, ClientNames DEF ControlInv, Connected
    <2> QED
      BY <1>0, <2>1 DEF Reaches
  <1>10. ASSUME NEW h \in Handlers PROVE Stage(h)'
    BY <1>0, <1>5 DEF Stage
  <1> QED
    BY <1>2, <1>4, <1>7, <1>8, <1>9, <1>10 DEF ControlInv

-----------------------------------------------------------------------------
\* The invariant holds at the start ...
LEMMA ControlStarts == ControlInit => ControlInv
  <1> SUFFICES ASSUME ControlInit PROVE ControlInv
    OBVIOUS
  <1>0. /\ db = 0 /\ edgeState = [up |-> TRUE, table |-> 0, file |-> 0, ingress |-> 0]
        /\ busy = {} /\ history = <<>> /\ subs = [c \in Clients |-> NoSub]
        /\ handler = [c \in Handlers |-> NoHandler]
        /\ keeper = "push" /\ command = "idle" /\ wait = NoWait /\ overlapped = FALSE
    BY DEF ControlInit, Handlers
  <1>1. \A h \in Handlers : handler[h] = NoHandler
    BY <1>0
  <1>2. \A c \in Clients : subs[c] = NoSub
    BY <1>0
  <1>3. history \in Seq(HistorySet) /\ Len(history) = 0 /\ DOMAIN history = {}
    BY <1>0
  <1>4. wait \in WaitSet /\ wait.end = "none"
    BY <1>0 DEF NoWait, WaitSet
  <1>5. ControlTypes
    <2>1. handler \in [Handlers -> HandlerSet]
      BY <1>0, NoneIsHandler
    <2>2. subs \in [Clients -> SubSet]
      BY <1>0, NoneIsSub
    <2>3. \A h \in Handlers : /\ handler[h].v <= db /\ handler[h].saw <= db
                              /\ handler[h].pc = "publish" => handler[h].todo # <<>>
      BY <1>0, <1>1, NoneIsHandler
    <2>4. \A c \in Clients : /\ Len(subs[c].ch) <= SubscriberBuffer /\ Len(subs[c].replay) <= HistoryLimit
                             /\ subs[c].lagged => subs[c].open
      BY <1>2, NoneIsSub, BrokerLimits
    <2>5. db \in 0..MaxTable /\ Len(history) <= HistoryLimit
      BY <1>0, <1>3, BrokerLimits
    <2>6. /\ edgeState \in [up : BOOLEAN, table : Nat, file : Nat, ingress : Nat]
          /\ edgeState.table <= db /\ edgeState.file <= db /\ edgeState.ingress <= db
      BY <1>0
    <2> QED
      BY <1>0, <1>3, <1>4, <2>1, <2>2, <2>3, <2>4, <2>5, <2>6 DEF ControlTypes
  <1>6. Connected
    <2>1. \A c \in Clients : ClientAt(c) # "watch" /\ ~subs[c].open
      BY <1>0, <1>2, NoneIsSub DEF ClientAt
    <2>2. \A h \in Handlers : handler[h].pc = "none"
      BY <1>1, NoneIsHandler
    <2>3. Clients \subseteq Handlers
      BY DEF Handlers
    <2> QED
      BY <1>0, <2>1, <2>2, <2>3 DEF Connected
  <1>7. Honest
    <2>1. \A c \in Clients : (\A i \in DOMAIN subs[c].replay : FALSE) /\ (\A i \in DOMAIN subs[c].ch : FALSE)
      BY <1>2, NoneIsSub
    <2> QED
      BY <1>3, <1>4, <2>1 DEF Honest
  <1>8. OldFirst
    <2>1. 1 \in 1..(Len(history) + 1) /\ \A i \in DOMAIN history : FALSE
      BY <1>3
    <2> QED
      BY <2>1 DEF OldFirst, SinceFlip
  <1>9. Reaches
    BY <1>0 DEF Reaches
  <1>10. ASSUME NEW h \in Handlers PROVE Stage(h)
    BY <1>1, NoneIsHandler DEF Stage
  <1> QED
    BY <1>5, <1>6, <1>7, <1>8, <1>9, <1>10 DEF ControlInv

\* ... every step keeps it ...
LEMMA ControlGoesOn == ControlInv /\ [ControlNext]_controlVars => ControlInv'
  <1> SUFFICES ASSUME ControlInv, [ControlNext]_controlVars PROVE ControlInv'
    OBVIOUS
  <1>1. CASE EdgeSteps
    <2>1. DOMAIN handler = Handlers
      BY DEF ControlInv, ControlTypes
    <2>2. PICK h \in Handlers : ServePush(h)
      BY <1>1, <2>1 DEF EdgeSteps
    <2> QED
      BY <2>2, PushKeeps, InstallEventKeeps DEF ServePush
  <1>2. CASE ClientSteps
    BY <1>2, SendKeeps, AnswerKeeps, SubscribeKeeps, ReceiveKeeps, GiveUpKeeps DEF ClientSteps
  <1>3. CASE OrphanEnds
    BY <1>3, AnswerKeeps
  <1>4. CASE Cancel
    BY <1>4, CancelKeeps
  <1>5. CASE Deadline
    BY <1>5, GiveUpKeeps
  <1>6. CASE Drained \/ OtherEvent
    BY <1>6, EventKeeps
  <1>7. CASE RecordTable
    BY <1>7, RecordKeeps
  <1>8. CASE EdgeStops
    BY <1>8, StopKeeps
  <1>9. CASE EdgeStarts
    BY <1>9, StartKeeps
  <1>10. CASE UNCHANGED controlVars
    <2>1. UNCHANGED <<db, edgeState, busy, history, subs, handler, keeper, command, wait, reported, overlapped>>
      BY <1>10 DEF controlVars
    <2>2. ControlTypes' /\ OldFirst' /\ Reaches' /\ Honest'
      BY <2>1 DEF ControlInv, ControlTypes, OldFirst, SinceFlip, Reaches, Reported, Coming, Honest
    <2>3. Connected'
      BY <2>1 DEF ControlInv, Connected, ClientAt
    <2>4. ASSUME NEW h \in Handlers PROVE Stage(h)'
      BY <2>1 DEF ControlInv, Stage
    <2> QED
      BY <2>2, <2>3, <2>4 DEF ControlInv
  <1> QED
    BY <1>1, <1>2, <1>3, <1>4, <1>5, <1>6, <1>7, <1>8, <1>9, <1>10 DEF ControlNext

\* ... and it says what the runs check.
LEMMA ControlMeans == ControlInv => DrainsTold
  <1> SUFFICES ASSUME ControlInv PROVE DrainsTold
    OBVIOUS
  <1>1. ControlTypeOK
    <2>1. db \in Nat
      BY BrokerLimits DEF ControlInv, ControlTypes
    <2>2. {edgeState.table, edgeState.file, edgeState.ingress} \subseteq 0..db
      <3>1. /\ edgeState.table \in Nat /\ edgeState.file \in Nat /\ edgeState.ingress \in Nat
            /\ edgeState.table <= db /\ edgeState.file <= db /\ edgeState.ingress <= db
        BY DEF ControlInv, ControlTypes
      <3>2. edgeState.table \in 0..db /\ edgeState.file \in 0..db /\ edgeState.ingress \in 0..db
        BY <2>1, <3>1
      <3> QED
        BY <3>2
    <2> QED
      BY <2>2 DEF ControlInv, ControlTypes, ControlTypeOK
  <1>2. DrainedMeansReported
    BY DEF ControlInv, Honest, DrainedMeansReported
  <1>3. NoReportMissed
    <2> SUFFICES ASSUME command = "watch", ~subs["command"].lagged, Reported
                 PROVE  \E i \in DOMAIN Backlog("command") : Backlog("command")[i] = db
      BY DEF NoReportMissed, Reported
    <2>1. Coming("command", db)
      BY DEF ControlInv, Reaches
    <2> QED
      BY <2>1, BacklogIs, ClientNames
  <1>4. AnswerMeansSaved
    <2>1. Clients \subseteq Handlers
      BY DEF Handlers
    <2> QED
      BY <2>1 DEF ControlInv, Stage, AnswerMeansSaved, HandlerAt
  <1> QED
    BY <1>1, <1>2, <1>3, <1>4 DEF DrainsTold

\* A drain is told to whoever waits for it, whatever the limits of the broker,
\* however many rollouts, restarts, failures and cancelled commands: DrainsTold
\* of EdgeControl (broker.publish and subscribe, Edge.PushTable, waitDrain).
THEOREM DrainsAreTold == ControlSpec => []DrainsTold
  <1>1. ControlInit => ControlInv
    BY ControlStarts
  <1>2. ControlInv /\ [ControlNext]_controlVars => ControlInv'
    BY ControlGoesOn
  <1>3. ControlInv => DrainsTold
    BY ControlMeans
  <1> QED
    BY <1>1, <1>2, <1>3, PTL DEF ControlSpec

-----------------------------------------------------------------------------
(* Rollouts. *)

UpSteps == {"idle", "roll", "start", "health", "record", "push", "drain", "legacy", "put",
            "reconcile", "extras", "putrow", "remove", "stopped", "clear", "unpush"}
UpCmdSet == [pc : UpSteps, tree : Versions \cup {0}, vars : Versions \cup {0}, old : SUBSET UpSlot,
             todo : SUBSET (1..(UpSlots + UpWant)), fresh : SUBSET UpSlot, same : BOOLEAN, ok : BOOLEAN]
PassSet == [pc : {"rest", "probe", "read", "write", "restart", "push"}, todo : SUBSET UpSlot,
            want : {"none", "active", "unhealthy"}, saw : PoolStates, pushed : BOOLEAN]

\* The replica a pass is at, and what it is to write of it.
RollTypes ==
    /\ HealthTypeOK
    /\ upCmd \in UpCmdSet
    /\ loop \in PassSet
    /\ loop.pc \in {"probe", "read", "write", "restart"} => loop.todo # {}
    /\ loop.pc \in {"read", "write"} => loop.want # "none"

\* A pass begins between commands, so one that overlaps a command was there
\* when a step of it was taken.
PassApart == ~loopRaced /\ ~UpAt("idle") => Pass("rest")

\* The pool a rollout brings in: while it starts, and once all of it answers.
AllFresh == UpAt("record") \/ UpAt("push") \/ UpAt("drain") \/ UpAt("legacy") \/ (UpAt("put") /\ upCmd.ok)
Starting == UpAt("start") \/ UpAt("health")
FreshPool ==
    /\ Starting =>
           /\ upCmd.todo # {} /\ upCmd.fresh \cap upCmd.todo = {}
           /\ Cardinality(upCmd.fresh \cup upCmd.todo) = UpWant
           /\ (upCmd.fresh \cup upCmd.todo) \cap upCmd.old = {}
    /\ AllFresh => Cardinality(upCmd.fresh) = UpWant /\ upCmd.fresh \cap upCmd.old = {}
FreshTree ==
    /\ Starting \/ AllFresh => \A i \in upCmd.fresh : cont[i].tree = upCmd.tree
    /\ UpAt("health") => First(upCmd.todo) \in UpSlot /\ cont[First(upCmd.todo)].tree = upCmd.tree

\* The pool it replaces.
OldPool ==
    /\ UpAt("drain") => upCmd.old # {}
    /\ \/ Starting \/ UpAt("record") \/ UpAt("push") \/ UpAt("drain") \/ (UpAt("put") /\ ~upCmd.ok)
       \/ upCmd.old = {}
    /\ UpAt("put") /\ upCmd.ok => ~Upgrading
    /\ UpAt("roll") => upCmd.fresh = {}

\* What is recorded and pushed of the two.
Published ==
    ~loopRaced =>
        /\ UpAt("push") => pooled = TargetsOf(upCmd.fresh, upCmd.old)
        /\ UpAt("drain") \/ UpAt("legacy") \/ (UpAt("put") /\ upCmd.ok) =>
               pooled = TargetsOf(upCmd.fresh, upCmd.old) /\ edgeTable = pooled
        /\ UpAt("unpush") => pooled = NoTargets

\* What is there, without a route and after a down.
InPlace ==
    /\ UpAt("reconcile") => /\ upCmd.todo # {} /\ upCmd.todo \subseteq 1..UpWant
                            /\ \A i \in (1..UpWant) \ upCmd.todo : There(i)
    /\ UpAt("extras") => \A i \in 1..UpWant : There(i)
    /\ UpAt("putrow") => LiveReplicas = 1..UpWant
    /\ UpAt("stopped") \/ UpAt("clear") \/ UpAt("unpush") => LiveReplicas = {}

UpInv == RollTypes /\ PassApart /\ FreshPool /\ FreshTree /\ OldPool /\ Published /\ InPlace

\* The next index is one of them.
LEMMA FirstIsIn ==
    ASSUME NEW S \in SUBSET Nat, S # {}
    PROVE  First(S) \in S /\ \A j \in S : First(S) <= j
  <1>1. PICK x \in S : \A y \in S : ~(<<y, x>> \in OpToRel(<, Nat))
    BY WFMin, NatLessThanWellFounded, Zenon
  <1>2. \A y \in S : ~(y < x)
    BY <1>1 DEF OpToRel
  <1>3. \A y \in S : x <= y
    BY <1>2
  <1> QED
    BY <1>3 DEF First

\* freeIndexes finds as many indexes as it is asked for.
FreeSets(used, n) ==
    {S \in SUBSET (1..(UpSlots + n)) :
        /\ Cardinality(S) = n /\ S \cap used = {}
        /\ \A i \in S : \A j \in 1..i : j \in S \cup used}

LEMMA OneMoreFree ==
    ASSUME NEW used \in SUBSET UpSlot, NEW n \in Nat, FreeSets(used, n) # {}
    PROVE  FreeSets(used, n + 1) # {}
  <1> DEFINE All == 1..(UpSlots + n + 1)
  <1>1. PICK S \in FreeSets(used, n) : TRUE
    OBVIOUS
  <1>2. /\ S \subseteq 1..(UpSlots + n) /\ Cardinality(S) = n /\ S \cap used = {}
        /\ \A i \in S : \A j \in 1..i : j \in S \cup used
    BY <1>1 DEF FreeSets
  <1>3. IsFiniteSet(All) /\ Cardinality(All) = UpSlots + n + 1
    BY FS_Interval, RolloutAssumption
  <1>4. IsFiniteSet(UpSlot) /\ Cardinality(UpSlot) = UpSlots
    BY FS_Interval, RolloutAssumption DEF UpSlot
  <1>5. S \subseteq All /\ used \subseteq All
    BY <1>2, RolloutAssumption DEF UpSlot
  <1>6. IsFiniteSet(S) /\ IsFiniteSet(used) /\ Cardinality(used) <= UpSlots
    BY <1>3, <1>4, <1>5, FS_Subset
  <1>7. IsFiniteSet(S \cup used) /\ Cardinality(S \cup used) <= UpSlots + n
    <2>1. S \cap used = {}
      BY <1>2
    <2>2. Cardinality(S \cup used) = Cardinality(S) + Cardinality(used) - Cardinality({})
      BY <1>6, <2>1, FS_Union
    <2> QED
      BY <1>2, <1>6, <2>2, FS_EmptySet, FS_CardinalityType, FS_Union, RolloutAssumption
  <1>8. All \ (S \cup used) # {}
    <2>1. SUFFICES ASSUME All \ (S \cup used) = {} PROVE FALSE
      OBVIOUS
    <2>2. S \cup used = All
      BY <1>5, <2>1
    <2>3. Cardinality(S \cup used) = UpSlots + n + 1
      BY <1>3, <2>2
    <2> HIDE DEF All
    <2> QED
      BY <1>7, <2>3, RolloutAssumption
  <1>9. PICK k \in All \ (S \cup used) : \A j \in All \ (S \cup used) : k <= j
    <2>1. All \ (S \cup used) \in SUBSET Nat
      BY RolloutAssumption
    <2> QED
      BY <1>8, <2>1, FirstIsIn
  <1>10. Cardinality(S \cup {k}) = n + 1
    BY <1>2, <1>6, <1>9, FS_AddElement
  <1>11. \A i \in S \cup {k} : \A j \in 1..i : j \in (S \cup {k}) \cup used
    BY <1>2, <1>9, RolloutAssumption
  <1>12. S \cup {k} \in SUBSET (1..(UpSlots + (n + 1))) /\ (S \cup {k}) \cap used = {}
    BY <1>2, <1>5, <1>9, RolloutAssumption
  <1>13. S \cup {k} \in FreeSets(used, n + 1)
    BY <1>10, <1>11, <1>12 DEF FreeSets
  <1> QED
    BY <1>13

LEMMA SomeFree ==
    ASSUME NEW used \in SUBSET UpSlot
    PROVE  \A n \in Nat : FreeSets(used, n) # {}
  <1> DEFINE Bad == {n \in Nat : FreeSets(used, n) = {}}
  <1>1. SUFFICES ASSUME Bad # {} PROVE FALSE
    OBVIOUS
  <1>2. PICK m \in Bad : \A n \in Bad : m <= n
    BY <1>1, FirstIsIn
  <1>3. {} \in FreeSets(used, 0)
    BY FS_EmptySet DEF FreeSets
  <1>4. m # 0 /\ m \in Nat
    BY <1>2, <1>3
  <1>5. m - 1 \in Nat /\ m - 1 \notin Bad
    BY <1>2, <1>4
  <1>6. FreeSets(used, (m - 1) + 1) # {}
    BY <1>5, OneMoreFree
  <1> QED
    BY <1>2, <1>4, <1>6

LEMMA FreeIndexesAre ==
    ASSUME NEW used \in SUBSET UpSlot
    PROVE  LET S == FreeIndexesOf(used, UpWant)
           IN  /\ S \subseteq 1..(UpSlots + UpWant) /\ Cardinality(S) = UpWant /\ S \cap used = {}
               /\ S # {}
  <1>1. FreeSets(used, UpWant) # {}
    BY SomeFree, RolloutAssumption
  <1>2. FreeIndexesOf(used, UpWant) \in FreeSets(used, UpWant)
    BY <1>1 DEF FreeIndexesOf, FreeSets
  <1>3. FreeIndexesOf(used, UpWant) # {}
    BY <1>2, FS_EmptySet, RolloutAssumption DEF FreeSets
  <1> QED
    BY <1>2, <1>3 DEF FreeSets

-----------------------------------------------------------------------------
(* Up and down. *)

LEMMA UpStarts == LoopInit => UpInv
  <1> SUFFICES ASSUME LoopInit PROVE UpInv
    OBVIOUS
  <1>1. First(Versions) \in Versions
    BY FirstIsIn, RolloutAssumption
  <1>2. PICK route, old \in BOOLEAN : RolloutWith(route, old)
    BY DEF LoopInit, RolloutInit
  <1>3. upCmd = NoCommand /\ loop = Resting /\ loopRaced = FALSE
    BY <1>2 DEF RolloutWith, LoopInit, LoopBegin
  <1>4. HealthTypeOK
    <2>1. cont \in [UpSlot \cup {Legacy} -> Containers]
      BY <1>2 DEF RolloutWith, NoContainer, Containers
    <2>2. exposed \in BOOLEAN /\ code \in Versions /\ secret \in Versions
      BY <1>1, <1>2 DEF RolloutWith
    <2>3. serviceRow = NoRow /\ pooled = NoTargets /\ edgeTable = NoTargets
      BY <1>2 DEF RolloutWith
    <2>4. fails = NoFails /\ down = {}
      BY DEF LoopInit, LoopBegin
    <2>5. NoFails \in [UpSlot -> 0..Failures] /\ NoTargets \in [UpSlot -> PoolStates]
      BY LoopAssumption DEF NoFails, NoTargets, PoolStates
    <2>6. NoRow \in [status : {"none", "up", "stopped"}, vars : Versions \cup {0}]
      BY DEF NoRow
    <2> QED
      BY <1>3, <2>1, <2>2, <2>3, <2>4, <2>5, <2>6 DEF HealthTypeOK, NoCommand, Resting
  <1>5. RollTypes
    BY <1>3, <1>4 DEF RollTypes, UpCmdSet, UpSteps, PassSet, PoolStates, NoCommand, Resting
  <1> QED
    BY <1>3, <1>5 DEF UpInv, PassApart, FreshPool, FreshTree, OldPool, Published, InPlace, NoCommand,
       UpAt, Starting, AllFresh

\* The container at each index, and the index a step is at.
LEMMA ContIs ==
    ASSUME RollTypes
    PROVE  /\ \A i \in UpSlot \cup {Legacy} : cont[i] \in Containers
           /\ DOMAIN cont = UpSlot \cup {Legacy} /\ Legacy \notin UpSlot
           /\ upCmd \in UpCmdSet
           /\ UpSlot \subseteq Nat /\ 1..UpWant \subseteq UpSlot /\ UpSlot \subseteq 1..(UpSlots + UpWant)
  BY RolloutAssumption DEF RollTypes, HealthTypeOK, UpSlot, Legacy

LEMMA NextIndex ==
    ASSUME RollTypes, upCmd.todo # {}
    PROVE  First(upCmd.todo) \in upCmd.todo
  <1>1. upCmd.todo \in SUBSET Nat
    BY RolloutAssumption DEF RollTypes, UpCmdSet
  <1> QED
    BY <1>1, FirstIsIn

\* A step that leaves the command, the trees and what is there alone, and the
\* tables too, or sends the recorded one, or races the command.
Kept ==
    /\ upCmd' = upCmd /\ loopRaced' = loopRaced
    /\ \A i \in UpSlot \cup {Legacy} : cont'[i].tree = cont[i].tree /\ (There(i)' <=> There(i))
    /\ loopRaced \/ UpAt("idle") \/ (pooled' = pooled /\ edgeTable' \in {edgeTable, pooled})

LEMMA KeptIsKept ==
    ASSUME UpInv, Kept
    PROVE  FreshPool' /\ FreshTree' /\ OldPool' /\ Published' /\ InPlace'
  <1>1. RollTypes /\ upCmd' = upCmd /\ loopRaced' = loopRaced
    BY DEF UpInv, Kept
  <1>2. \A i \in UpSlot \cup {Legacy} : cont'[i].tree = cont[i].tree /\ (There(i)' <=> There(i))
    BY DEF Kept
  <1>3. LiveReplicas' = LiveReplicas /\ (Upgrading' <=> Upgrading)
    BY <1>2 DEF LiveReplicas, Upgrading
  <1>4. FreshPool'
    BY <1>1 DEF UpInv, FreshPool, Starting, AllFresh, UpAt
  <1>5. FreshTree'
    <2>1. upCmd.fresh \subseteq UpSlot
      BY <1>1 DEF RollTypes, UpCmdSet
    <2> QED
      BY <1>1, <1>2, <2>1 DEF UpInv, FreshTree, Starting, AllFresh, UpAt
  <1>6. OldPool'
    BY <1>1, <1>3 DEF UpInv, OldPool, Starting, UpAt
  <1>7. Published'
    <2> SUFFICES ASSUME ~loopRaced, ~UpAt("idle") PROVE Published'
      BY <1>1 DEF Published, UpAt
    <2>1. pooled' = pooled /\ edgeTable' \in {edgeTable, pooled}
      BY DEF Kept
    <2> QED
      BY <1>1, <2>1 DEF UpInv, Published, UpAt
  <1>8. InPlace'
    <2>1. \A i \in 1..UpWant : There(i)' <=> There(i)
      BY <1>1, <1>2, ContIs
    <2> QED
      BY <1>1, <1>3, <2>1 DEF UpInv, InPlace, UpAt
  <1> QED
    BY <1>4, <1>5, <1>6, <1>7, <1>8

\* A step of a command leaves the pass alone.
LEMMA PassKept ==
    ASSUME UpInv, UpCommand
    PROVE  /\ UNCHANGED <<loop, fails, down>>
           /\ loopRaced' \in BOOLEAN /\ (~loopRaced' => ~loopRaced /\ Pass("rest")) /\ PassApart'
  <1>1. UNCHANGED <<loop, fails, down>> /\ loopRaced' = (loopRaced \/ ~Pass("rest"))
    BY DEF UpCommand
  <1>2. loopRaced \in BOOLEAN
    BY DEF UpInv, RollTypes, HealthTypeOK
  <1> QED
    BY <1>1, <1>2 DEF PassApart, Pass

LEMMA CommandTyped ==
    ASSUME UpInv, UpCommand,
           upCmd' \in UpCmdSet, cont' \in [UpSlot \cup {Legacy} -> Containers],
           serviceRow' \in [status : {"none", "up", "stopped"}, vars : Versions \cup {0}],
           pooled' \in [UpSlot -> PoolStates], edgeTable' \in [UpSlot -> PoolStates],
           UNCHANGED <<exposed, code, secret>>
    PROVE  RollTypes'
  <1>1. UNCHANGED <<loop, fails, down>> /\ loopRaced' \in BOOLEAN
    BY PassKept
  <1>2. upCmd'.old \subseteq UpSlot /\ upCmd'.fresh \subseteq UpSlot
    BY DEF UpCmdSet
  <1>3. HealthTypeOK'
    BY <1>1, <1>2 DEF UpInv, RollTypes, HealthTypeOK
  <1> QED
    BY <1>1, <1>3 DEF UpInv, RollTypes

\* What the invariant says of the types, for the steps.
LEMMA UpTypes ==
    ASSUME UpInv
    PROVE  /\ RollTypes /\ upCmd \in UpCmdSet /\ exposed \in BOOLEAN
           /\ code \in Versions /\ secret \in Versions
           /\ cont \in [UpSlot \cup {Legacy} -> Containers]
           /\ serviceRow \in [status : {"none", "up", "stopped"}, vars : Versions \cup {0}]
           /\ pooled \in [UpSlot -> PoolStates] /\ edgeTable \in [UpSlot -> PoolStates]
           /\ loopRaced \in BOOLEAN
  BY DEF UpInv, RollTypes, HealthTypeOK

\* The command is over: nothing is said of a machine without one.
LEMMA UpEndKeeps ==
    ASSUME UpInv, UpCommand, upCmd'.pc = "idle", upCmd'.old = {}, upCmd' \in UpCmdSet,
           cont' \in [UpSlot \cup {Legacy} -> Containers],
           serviceRow' \in [status : {"none", "up", "stopped"}, vars : Versions \cup {0}],
           pooled' \in [UpSlot -> PoolStates], edgeTable' \in [UpSlot -> PoolStates],
           UNCHANGED <<exposed, code, secret>>
    PROVE  UpInv'
  <1>1. RollTypes' /\ PassApart'
    BY CommandTyped, PassKept
  <1> QED
    BY <1>1 DEF UpInv, FreshPool, FreshTree, OldPool, Published, InPlace, UpAt, Starting, AllFresh

\* A step of a rollout failed: nothing is said of what is left.
LEMMA FailedKeeps ==
    ASSUME UpInv, UpCommand, upCmd' = Failed, cont' \in [UpSlot \cup {Legacy} -> Containers],
           UNCHANGED <<exposed, code, secret, serviceRow, pooled, edgeTable>>
    PROVE  UpInv'
  <1>1. upCmd' \in UpCmdSet /\ upCmd'.pc = "put" /\ upCmd'.ok = FALSE
    BY UpTypes DEF Failed, UpCmdSet, UpSteps
  <1>2. RollTypes' /\ PassApart'
    BY <1>1, UpTypes, CommandTyped, PassKept
  <1> QED
    BY <1>1, <1>2 DEF UpInv, FreshPool, FreshTree, OldPool, Published, InPlace, UpAt, Starting, AllFresh

LEMMA EndIs == NoCommand \in UpCmdSet /\ NoCommand.pc = "idle" /\ NoCommand.old = {}
  BY DEF NoCommand, UpCmdSet, UpSteps

LEMMA BeginKeeps ==
    ASSUME UpInv, UpCommand, UpBegin
    PROVE  UpInv'
  <1>1. /\ upCmd' = [NoCommand EXCEPT !.pc = IF exposed THEN "roll" ELSE "reconcile",
                           !.tree = code, !.vars = secret, !.todo = 1..UpWant, !.same = Unchanged(secret)]
        /\ UNCHANGED <<exposed, code, secret, serviceRow, pooled, cont, edgeTable>>
    BY DEF UpBegin, upStore
  <1>2. Unchanged(secret) \in BOOLEAN /\ 1..UpWant \subseteq 1..(UpSlots + UpWant) /\ 1..UpWant # {}
    BY RolloutAssumption DEF Unchanged
  <1>3. /\ upCmd' \in UpCmdSet /\ upCmd'.pc \in {"roll", "reconcile"}
        /\ upCmd'.old = {} /\ upCmd'.fresh = {} /\ upCmd'.todo = 1..UpWant
    BY <1>1, <1>2, UpTypes DEF NoCommand, UpCmdSet, UpSteps
  <1>4. RollTypes' /\ PassApart'
    BY <1>1, <1>3, UpTypes, CommandTyped, PassKept
  <1> QED
    BY <1>2, <1>3, <1>4 DEF UpInv, FreshPool, FreshTree, OldPool, Published, InPlace, UpAt, Starting, AllFresh

LEMMA RollKeeps ==
    ASSUME UpInv, UpCommand, UpRoll
    PROVE  UpInv'
  <1>1. UpAt("roll") /\ UNCHANGED <<exposed, code, secret, serviceRow, pooled, cont, edgeTable>>
    BY DEF UpRoll, upStore
  <1>2. upCmd.old = {} /\ upCmd.fresh \subseteq UpSlot
    BY <1>1, UpTypes DEF UpInv, OldPool, UpAt, Starting, UpCmdSet
  <1> DEFINE keep == upCmd.same /\ ~StaleTree(RunningPool, upCmd.tree) /\ Cardinality(RunningPool) = UpWant /\ ~Upgrading
             Kp == [upCmd EXCEPT !.pc = "record", !.fresh = RunningPool, !.todo = {}]
             Nw == [upCmd EXCEPT !.pc = "start", !.old = RunningPool, !.todo = FreeIndexesOf(RunningPool, UpWant)]
  <1>3. RunningPool \in SUBSET UpSlot
    BY DEF RunningPool
  <1>4. CASE keep /\ upCmd' = Kp
    <2>1. /\ upCmd' \in UpCmdSet /\ upCmd'.pc = "record" /\ upCmd'.fresh = RunningPool /\ upCmd'.old = {}
          /\ upCmd'.tree = upCmd.tree
      BY <1>2, <1>3, <1>4, UpTypes DEF UpCmdSet, UpSteps
    <2>2. RollTypes' /\ PassApart'
      BY <1>1, <2>1, UpTypes, CommandTyped, PassKept
    <2>3. \A i \in RunningPool : cont[i].tree = upCmd.tree
      BY <1>4 DEF StaleTree
    <2>4. FreshTree'
      BY <1>1, <2>1, <2>3 DEF FreshTree, UpAt
    <2>5. FreshPool'
      BY <1>4, <2>1 DEF FreshPool, UpAt, Starting
    <2> QED
      BY <2>1, <2>2, <2>4, <2>5 DEF UpInv, OldPool, Published, InPlace, UpAt, Starting
  <1>5. CASE upCmd' = Nw
    <2>1. PICK S : S = FreeIndexesOf(RunningPool, UpWant)
      OBVIOUS
    <2>2. S \subseteq 1..(UpSlots + UpWant) /\ Cardinality(S) = UpWant /\ S \cap RunningPool = {} /\ S # {}
      BY <1>3, <2>1, FreeIndexesAre
    <2>3. upCmd.fresh = {}
      BY <1>1 DEF UpInv, OldPool, UpAt
    <2>4. /\ upCmd' \in UpCmdSet /\ upCmd'.pc = "start" /\ upCmd'.fresh = {} /\ upCmd'.old = RunningPool
          /\ upCmd'.todo = S
      BY <1>3, <1>5, <2>1, <2>2, <2>3, UpTypes DEF UpCmdSet, UpSteps
    <2>5. RollTypes' /\ PassApart'
      BY <1>1, <2>4, UpTypes, CommandTyped, PassKept
    <2>6. FreshPool'
      <3>1. upCmd'.fresh \cup upCmd'.todo = S
        BY <2>4
      <3> QED
        BY <2>2, <2>4, <3>1 DEF FreshPool, UpAt, AllFresh
    <2> QED
      BY <2>4, <2>5, <2>6 DEF UpInv, FreshTree, OldPool, Published, InPlace, UpAt, Starting
  <1>6. CASE upCmd' = Failed
    BY <1>1, <1>6, UpTypes, FailedKeeps
  <1> QED
    BY <1>4, <1>5, <1>6 DEF UpRoll

\* A container that an up makes, or fails to make.
LEMMA MadeIs ==
    ASSUME UpInv, NEW i \in UpSlot
    PROVE  /\ \A c \in Started(upCmd) : c \in Containers /\ c.is # "none" /\ c.tree = upCmd.tree
           /\ \A c \in HalfStarted(i, upCmd) : c \in Containers
  <1>1. upCmd.tree \in Versions \cup {0} /\ upCmd.vars \in Versions \cup {0} /\ cont[i] \in Containers
    BY UpTypes DEF UpCmdSet
  <1> QED
    BY <1>1 DEF Started, HalfStarted, Containers, NoContainer

LEMMA UpStartKeeps ==
    ASSUME UpInv, UpCommand, UpStart
    PROVE  UpInv'
  <1>1. UpAt("start") /\ UNCHANGED <<exposed, code, secret, serviceRow, pooled, edgeTable>>
    BY DEF UpStart, upStore
  <1> DEFINE i == First(upCmd.todo)
  <1>2. /\ upCmd.todo # {} /\ upCmd.fresh \cap upCmd.todo = {}
        /\ Cardinality(upCmd.fresh \cup upCmd.todo) = UpWant
        /\ (upCmd.fresh \cup upCmd.todo) \cap upCmd.old = {}
        /\ \A j \in upCmd.fresh : cont[j].tree = upCmd.tree
    BY <1>1 DEF UpInv, FreshPool, FreshTree, Starting
  <1>3. i \in upCmd.todo /\ upCmd.fresh \subseteq UpSlot
    BY <1>2, UpTypes, NextIndex DEF UpCmdSet
  <1>4. CASE upCmd' = Failed /\ UNCHANGED cont
    BY <1>1, <1>4, UpTypes, FailedKeeps
  <1>5. CASE i \in UpSlot /\ UpGoto("health") /\ \E c \in Started(upCmd) : cont' = [cont EXCEPT ![i] = c]
    <2>1. PICK c \in Started(upCmd) : cont' = [cont EXCEPT ![i] = c]
      BY <1>5
    <2>2. c \in Containers /\ c.tree = upCmd.tree
      BY <1>5, MadeIs
    <2>3. upCmd' = [upCmd EXCEPT !.pc = "health"]
      BY <1>5 DEF UpGoto
    <2>4. /\ upCmd' \in UpCmdSet /\ upCmd'.pc = "health" /\ upCmd'.todo = upCmd.todo
          /\ upCmd'.fresh = upCmd.fresh /\ upCmd'.old = upCmd.old /\ upCmd'.tree = upCmd.tree
      BY <2>3, UpTypes DEF UpCmdSet, UpSteps
    <2>5. cont' \in [UpSlot \cup {Legacy} -> Containers]
      BY <1>5, <2>1, <2>2, UpTypes
    <2>6. RollTypes' /\ PassApart'
      BY <1>1, <2>4, <2>5, UpTypes, CommandTyped, PassKept
    <2>7. FreshPool'
      BY <1>2, <2>4 DEF FreshPool, UpAt, Starting, AllFresh
    <2>8. \A j \in upCmd.fresh : j # i
      BY <1>2, <1>3
    <2>9. cont'[i].tree = upCmd.tree /\ \A j \in upCmd.fresh : cont'[j].tree = upCmd.tree
      BY <1>2, <1>3, <1>5, <2>1, <2>2, <2>8, UpTypes
    <2>10. FreshTree'
      BY <1>5, <2>4, <2>9 DEF FreshTree
    <2> QED
      BY <2>4, <2>6, <2>7, <2>10 DEF UpInv, OldPool, Published, InPlace, UpAt, Starting
  <1>6. CASE i \in UpSlot /\ upCmd' = Failed /\ \E c \in HalfStarted(i, upCmd) : cont' = [cont EXCEPT ![i] = c]
    <2>1. cont' \in [UpSlot \cup {Legacy} -> Containers]
      BY <1>6, MadeIs, UpTypes
    <2> QED
      BY <1>1, <1>6, <2>1, FailedKeeps
  <1> QED
    BY <1>4, <1>5, <1>6 DEF UpStart

LEMMA HealthKeeps ==
    ASSUME UpInv, UpCommand, UpHealth
    PROVE  UpInv'
  <1>1. UpAt("health") /\ UNCHANGED <<exposed, code, secret, serviceRow, pooled, edgeTable, cont>>
    BY DEF UpHealth, upStore
  <1> DEFINE i == First(upCmd.todo)
             rest == upCmd.todo \ {i}
  <1>2. /\ upCmd.todo # {} /\ upCmd.fresh \cap upCmd.todo = {}
        /\ Cardinality(upCmd.fresh \cup upCmd.todo) = UpWant
        /\ (upCmd.fresh \cup upCmd.todo) \cap upCmd.old = {}
        /\ \A j \in upCmd.fresh : cont[j].tree = upCmd.tree
        /\ i \in UpSlot /\ cont[i].tree = upCmd.tree
    BY <1>1 DEF UpInv, FreshPool, FreshTree, Starting
  <1>3. i \in upCmd.todo
    BY <1>2, UpTypes, NextIndex
  <1>4. CASE upCmd' = Failed
    BY <1>1, <1>4, UpTypes, FailedKeeps
  <1>5. CASE upCmd' = [upCmd EXCEPT !.pc = IF rest = {} THEN "record" ELSE "start",
                                    !.fresh = @ \cup {i}, !.todo = rest]
    <2>1. /\ upCmd' \in UpCmdSet /\ upCmd'.pc = (IF rest = {} THEN "record" ELSE "start") /\ upCmd'.todo = rest
          /\ upCmd'.fresh = upCmd.fresh \cup {i} /\ upCmd'.old = upCmd.old /\ upCmd'.tree = upCmd.tree
      BY <1>2, <1>5, UpTypes DEF UpCmdSet, UpSteps
    <2>2. RollTypes' /\ PassApart'
      BY <1>1, <2>1, UpTypes, CommandTyped, PassKept
    <2>3. /\ upCmd'.fresh \cup upCmd'.todo = upCmd.fresh \cup upCmd.todo
          /\ upCmd'.fresh \cap upCmd'.todo = {} /\ upCmd'.fresh \cap upCmd.old = {}
      BY <1>2, <1>3, <2>1
    <2>4. rest = {} => upCmd'.fresh = upCmd.fresh \cup upCmd.todo
      BY <2>1, <2>3
    <2> HIDE DEF rest
    <2>5. FreshPool'
      BY <1>2, <2>1, <2>3, <2>4 DEF FreshPool, UpAt, Starting, AllFresh
    <2>6. FreshTree'
      BY <1>1, <1>2, <2>1 DEF FreshTree, UpAt
    <2> QED
      BY <2>1, <2>2, <2>5, <2>6 DEF UpInv, OldPool, Published, InPlace, UpAt, Starting
  <1> QED
    BY <1>4, <1>5 DEF UpHealth

\* What recordTargets writes.
LEMMA TargetsTyped ==
    ASSUME NEW A, NEW D
    PROVE  TargetsOf(A, D) \in [UpSlot -> PoolStates]
  BY DEF TargetsOf, PoolStates

LEMMA UpRecordKeeps ==
    ASSUME UpInv, UpCommand, UpRecord
    PROVE  UpInv'
  <1>1. UpAt("record") /\ UNCHANGED <<exposed, code, secret, serviceRow, edgeTable, cont>>
    BY DEF UpRecord
  <1>2. CASE upCmd' = Failed /\ UNCHANGED pooled
    BY <1>1, <1>2, UpTypes, FailedKeeps
  <1>3. CASE pooled' = TargetsOf(upCmd.fresh, upCmd.old) /\ UpGoto("push")
    <2>1. /\ upCmd' \in UpCmdSet /\ upCmd'.pc = "push" /\ upCmd'.fresh = upCmd.fresh /\ upCmd'.old = upCmd.old
          /\ upCmd'.tree = upCmd.tree
      BY <1>3, UpTypes DEF UpGoto, UpCmdSet, UpSteps
    <2>2. pooled' \in [UpSlot -> PoolStates]
      BY <1>3, TargetsTyped
    <2>3. RollTypes' /\ PassApart'
      BY <1>1, <2>1, <2>2, UpTypes, CommandTyped, PassKept
    <2>4. FreshPool'
      BY <1>1, <2>1 DEF UpInv, FreshPool, UpAt, Starting, AllFresh
    <2>5. FreshTree'
      BY <1>1, <2>1 DEF UpInv, FreshTree, UpAt, AllFresh, Starting
    <2>6. Published'
      <3>1. TargetsOf(upCmd.fresh, upCmd.old)' = TargetsOf(upCmd.fresh, upCmd.old)
        BY <2>1 DEF TargetsOf
      <3> QED
        BY <1>3, <2>1, <3>1 DEF Published, UpAt
    <2> QED
      BY <2>1, <2>3, <2>4, <2>5, <2>6 DEF UpInv, OldPool, InPlace, UpAt, Starting
  <1> QED
    BY <1>2, <1>3 DEF UpRecord

LEMMA UpPushKeeps ==
    ASSUME UpInv, UpCommand, UpPush
    PROVE  UpInv'
  <1>1. UpAt("push") /\ UNCHANGED <<exposed, code, secret, serviceRow, pooled, cont>>
    BY DEF UpPush, upStore
  <1>2. CASE upCmd' = Failed /\ UNCHANGED edgeTable
    BY <1>1, <1>2, UpTypes, FailedKeeps
  <1>3. CASE edgeTable' = pooled /\ UpGoto(AfterPush)
    <2>1. /\ upCmd' \in UpCmdSet /\ upCmd'.pc = AfterPush /\ upCmd'.fresh = upCmd.fresh /\ upCmd'.old = upCmd.old
          /\ upCmd'.tree = upCmd.tree
      BY <1>3, UpTypes DEF UpGoto, UpCmdSet, UpSteps, AfterPush
    <2>2. RollTypes' /\ PassApart'
      BY <1>1, <1>3, <2>1, UpTypes, CommandTyped, PassKept
    <2>3. AfterPush \in {"drain", "legacy", "put"}
      BY DEF AfterPush
    <2>4. FreshPool'
      BY <1>1, <2>1, <2>3 DEF UpInv, FreshPool, UpAt, Starting, AllFresh
    <2>5. FreshTree'
      BY <1>1, <2>1, <2>3 DEF UpInv, FreshTree, UpAt, AllFresh, Starting
    <2>6. Published'
      <3>1. TargetsOf(upCmd.fresh, upCmd.old)' = TargetsOf(upCmd.fresh, upCmd.old)
        BY <2>1 DEF TargetsOf
      <3>2. ~loopRaced' => pooled = TargetsOf(upCmd.fresh, upCmd.old)
        BY <1>1, PassKept DEF UpInv, Published
      <3> QED
        BY <1>1, <1>3, <2>1, <2>3, <3>1, <3>2 DEF Published, UpAt
    <2>7. OldPool'
      <3>1. Upgrading' <=> Upgrading
        BY <1>1 DEF Upgrading, There
      <3> QED
        BY <2>1, <3>1 DEF OldPool, UpAt, AfterPush, Starting
    <2> QED
      BY <2>1, <2>2, <2>3, <2>4, <2>5, <2>6, <2>7 DEF UpInv, InPlace, UpAt
  <1> QED
    BY <1>2, <1>3 DEF UpPush

\* stopReplica.
LEMMA StopsLeaves ==
    ASSUME UpInv, NEW i \in UpSlot \cup {Legacy}, NEW next, Stops(i, next)
    PROVE  \/ cont' = [cont EXCEPT ![i] = NoContainer] /\ upCmd' = next
           \/ cont' \in [UpSlot \cup {Legacy} -> Containers] /\ upCmd' = Failed
  <1>1. cont[i] \in Containers /\ [cont[i] EXCEPT !.is = "exited"] \in Containers
    BY UpTypes DEF Containers
  <1> QED
    BY <1>1, UpTypes DEF Stops

LEMMA Emptied ==
    ASSUME UpInv, NEW i \in UpSlot \cup {Legacy}, cont' = [cont EXCEPT ![i] = NoContainer]
    PROVE  /\ cont' \in [UpSlot \cup {Legacy} -> Containers]
           /\ ~There(i)' /\ \A j \in (UpSlot \cup {Legacy}) \ {i} : cont'[j] = cont[j]
  <1>1. NoContainer \in Containers /\ NoContainer.is = "none"
    BY DEF NoContainer, Containers
  <1> QED
    BY <1>1, UpTypes DEF There

LEMMA DrainKeeps ==
    ASSUME UpInv, UpCommand, UpDrain
    PROVE  UpInv'
  <1>1. UpAt("drain") /\ UNCHANGED <<exposed, code, secret, serviceRow, pooled, edgeTable>>
    BY DEF UpDrain, upStore
  <1> DEFINE i == First(upCmd.old)
  <1>2. upCmd.old # {} /\ upCmd.old \in SUBSET UpSlot /\ upCmd.fresh \subseteq UpSlot
    BY <1>1, UpTypes DEF UpInv, OldPool, UpCmdSet
  <1>3. i \in upCmd.old
    BY <1>2, FirstIsIn, UpTypes, ContIs
  <1>4. Stops(i, [upCmd EXCEPT !.pc = "record", !.old = @ \ {i}])
    BY DEF UpDrain
  <1> HIDE DEF i
  <1>5. CASE upCmd' = Failed /\ cont' \in [UpSlot \cup {Legacy} -> Containers]
    BY <1>1, <1>5, FailedKeeps
  <1>6. CASE cont' = [cont EXCEPT ![i] = NoContainer] /\ upCmd' = [upCmd EXCEPT !.pc = "record", !.old = @ \ {i}]
    <2>1. /\ upCmd' \in UpCmdSet /\ upCmd'.pc = "record" /\ upCmd'.fresh = upCmd.fresh
          /\ upCmd'.old = upCmd.old \ {i} /\ upCmd'.tree = upCmd.tree
      BY <1>2, <1>6, UpTypes DEF UpCmdSet, UpSteps
    <2>2. /\ cont' \in [UpSlot \cup {Legacy} -> Containers]
          /\ \A j \in (UpSlot \cup {Legacy}) \ {i} : cont'[j] = cont[j]
      BY <1>2, <1>3, <1>6, Emptied
    <2>3. RollTypes' /\ PassApart'
      BY <1>1, <2>1, <2>2, UpTypes, CommandTyped, PassKept
    <2>4. /\ Cardinality(upCmd.fresh) = UpWant /\ upCmd.fresh \cap upCmd.old = {}
          /\ \A j \in upCmd.fresh : cont[j].tree = upCmd.tree
      BY <1>1 DEF UpInv, FreshPool, FreshTree, AllFresh
    <2>5. FreshPool'
      BY <2>1, <2>4 DEF FreshPool, UpAt, Starting
    <2>6. \A j \in upCmd.fresh : cont'[j].tree = upCmd.tree
      BY <1>2, <1>3, <2>2, <2>4
    <2>7. FreshTree'
      BY <2>1, <2>6 DEF FreshTree, UpAt
    <2> QED
      BY <2>1, <2>3, <2>5, <2>7 DEF UpInv, OldPool, Published, InPlace, UpAt, Starting
  <1> QED
    BY <1>2, <1>3, <1>4, <1>5, <1>6, StopsLeaves

LEMMA LegacyKeeps ==
    ASSUME UpInv, UpCommand, UpLegacy
    PROVE  UpInv'
  <1>1. UpAt("legacy") /\ UNCHANGED <<exposed, code, secret, serviceRow, pooled, edgeTable>>
    BY DEF UpLegacy, upStore
  <1>2. Stops(Legacy, [upCmd EXCEPT !.pc = "put"])
    BY DEF UpLegacy
  <1>3. CASE upCmd' = Failed /\ cont' \in [UpSlot \cup {Legacy} -> Containers]
    BY <1>1, <1>3, FailedKeeps
  <1>4. CASE cont' = [cont EXCEPT ![Legacy] = NoContainer] /\ upCmd' = [upCmd EXCEPT !.pc = "put"]
    <2>1. /\ upCmd' \in UpCmdSet /\ upCmd'.pc = "put" /\ upCmd'.fresh = upCmd.fresh
          /\ upCmd'.old = upCmd.old /\ upCmd'.tree = upCmd.tree
      BY <1>4, UpTypes DEF UpCmdSet, UpSteps
    <2>2. /\ cont' \in [UpSlot \cup {Legacy} -> Containers] /\ ~There(Legacy)'
          /\ \A j \in UpSlot : cont'[j] = cont[j]
      BY <1>4, Emptied, UpTypes, ContIs
    <2>3. RollTypes' /\ PassApart'
      BY <1>1, <2>1, <2>2, UpTypes, CommandTyped, PassKept
    <2>4. /\ Cardinality(upCmd.fresh) = UpWant /\ upCmd.fresh \cap upCmd.old = {} /\ upCmd.old = {}
          /\ \A j \in upCmd.fresh : cont[j].tree = upCmd.tree
          /\ upCmd.fresh \subseteq UpSlot
      BY <1>1, UpTypes DEF UpInv, FreshPool, FreshTree, AllFresh, OldPool, UpAt, Starting, UpCmdSet
    <2>5. FreshPool'
      BY <2>1, <2>4 DEF FreshPool, UpAt, Starting
    <2>6. FreshTree'
      BY <2>1, <2>2, <2>4 DEF FreshTree, UpAt
    <2>7. Published'
      <3>1. TargetsOf(upCmd.fresh, upCmd.old)' = TargetsOf(upCmd.fresh, upCmd.old)
        BY <2>1 DEF TargetsOf
      <3> QED
        BY <1>1, <2>1, <3>1, PassKept DEF UpInv, Published, UpAt
    <2>8. OldPool'
      BY <2>1, <2>2, <2>4 DEF OldPool, UpAt, Upgrading
    <2> QED
      BY <2>1, <2>3, <2>5, <2>6, <2>7, <2>8 DEF UpInv, InPlace, UpAt
  <1> QED
    BY <1>2, <1>3, <1>4, StopsLeaves

LEMMA PutKeeps ==
    ASSUME UpInv, UpCommand, UpPut \/ UpPutRow
    PROVE  UpInv'
  <1>1. upCmd' = NoCommand /\ UNCHANGED <<exposed, code, secret, cont, pooled, edgeTable>>
    BY DEF UpPut, UpPutRow
  <1>2. serviceRow' = serviceRow \/ serviceRow' = [status |-> "up", vars |-> upCmd.vars]
    BY DEF UpPut, UpPutRow
  <1>3. serviceRow' \in [status : {"none", "up", "stopped"}, vars : Versions \cup {0}]
    BY <1>2, UpTypes DEF UpCmdSet
  <1> QED
    BY <1>1, <1>3, UpTypes, EndIs, UpEndKeeps

LEMMA ReconcileKeeps ==
    ASSUME UpInv, UpCommand, UpReconcile
    PROVE  UpInv'
  <1>1. UpAt("reconcile") /\ UNCHANGED <<exposed, code, secret, serviceRow, pooled, edgeTable>>
    BY DEF UpReconcile, upStore
  <1>0. PICK i : i = First(upCmd.todo)
    OBVIOUS
  <1> DEFINE rest == upCmd.todo \ {i}
             next == [upCmd EXCEPT !.todo = rest, !.pc = IF rest = {} THEN "extras" ELSE "reconcile"]
  <1>2. /\ upCmd.todo # {} /\ upCmd.todo \subseteq 1..UpWant /\ upCmd.old = {}
        /\ \A j \in (1..UpWant) \ upCmd.todo : There(j)
    BY <1>1 DEF UpInv, InPlace, OldPool, UpAt, Starting
  <1>3. i \in upCmd.todo /\ i \in 1..UpWant /\ i \in UpSlot /\ 1..UpWant \subseteq UpSlot
    BY <1>0, <1>2, UpTypes, NextIndex, ContIs
  <1>4. ASSUME upCmd' = next, cont' \in [UpSlot \cup {Legacy} -> Containers], There(i)',
               \A j \in (UpSlot \cup {Legacy}) \ {i} : cont'[j] = cont[j]
        PROVE  UpInv'
    <2>1. /\ upCmd' \in UpCmdSet /\ upCmd'.todo = rest /\ upCmd'.old = {}
          /\ upCmd'.pc = (IF rest = {} THEN "extras" ELSE "reconcile")
      BY <1>2, <1>4, UpTypes DEF UpCmdSet, UpSteps
    <2>2. RollTypes' /\ PassApart'
      BY <1>1, <1>4, <2>1, UpTypes, CommandTyped, PassKept
    <2>3. \A j \in (1..UpWant) \ rest : There(j)'
      BY <1>2, <1>3, <1>4 DEF There
    <2>4. InPlace'
      BY <1>2, <2>1, <2>3 DEF InPlace, UpAt
    <2> QED
      BY <2>1, <2>2, <2>4 DEF UpInv, FreshPool, FreshTree, OldPool, Published, UpAt, Starting, AllFresh
  <1>5. CASE RunningReplica(i) /\ upCmd' = next /\ UNCHANGED cont
    BY <1>4, <1>5, UpTypes DEF RunningReplica, There
  <1>6. CASE upCmd' = next /\ \E c \in Started(upCmd) : cont' = [cont EXCEPT ![i] = c]
    <2>1. PICK c \in Started(upCmd) : cont' = [cont EXCEPT ![i] = c]
      BY <1>6
    <2>2. c \in Containers /\ c.is # "none"
      BY <1>3, MadeIs
    <2>3. /\ cont' \in [UpSlot \cup {Legacy} -> Containers] /\ There(i)'
          /\ \A j \in (UpSlot \cup {Legacy}) \ {i} : cont'[j] = cont[j]
      BY <1>3, <2>1, <2>2, UpTypes DEF There
    <2> QED
      BY <1>4, <1>6, <2>3
  <1>7. CASE upCmd' = NoCommand /\ \E c \in HalfStarted(i, upCmd) : cont' = [cont EXCEPT ![i] = c]
    <2>1. cont' \in [UpSlot \cup {Legacy} -> Containers]
      BY <1>3, <1>7, MadeIs, UpTypes
    <2> QED
      BY <1>1, <1>7, <2>1, UpTypes, EndIs, UpEndKeeps
  <1> QED
    BY <1>0, <1>5, <1>6, <1>7 DEF UpReconcile

\* Containers removed at once.
LEMMA RemovedTyped ==
    ASSUME UpInv, NEW S, cont' = [i \in DOMAIN cont |-> IF i \in S THEN NoContainer ELSE cont[i]]
    PROVE  /\ cont' \in [UpSlot \cup {Legacy} -> Containers]
           /\ \A i \in UpSlot \cup {Legacy} : There(i)' <=> There(i) /\ i \notin S
  <1>1. NoContainer \in Containers /\ NoContainer.is = "none"
    BY DEF NoContainer, Containers
  <1> QED
    BY <1>1, UpTypes DEF There

LEMMA ExtrasKeeps ==
    ASSUME UpInv, UpCommand, UpExtras
    PROVE  UpInv'
  <1>1. UpAt("extras") /\ UNCHANGED <<exposed, code, secret, serviceRow, pooled, edgeTable>>
    BY DEF UpExtras, upStore
  <1>2. CASE cont' = [i \in DOMAIN cont |-> IF i \in Extras THEN NoContainer ELSE cont[i]] /\ UpGoto("putrow")
    <2>1. upCmd' \in UpCmdSet /\ upCmd'.pc = "putrow" /\ upCmd'.old = {}
      BY <1>1, <1>2, UpTypes DEF UpGoto, UpCmdSet, UpSteps, UpInv, OldPool, UpAt, Starting
    <2>2. /\ cont' \in [UpSlot \cup {Legacy} -> Containers]
          /\ \A i \in UpSlot \cup {Legacy} : There(i)' <=> There(i) /\ i \notin Extras
      BY <1>2, RemovedTyped
    <2>3. RollTypes' /\ PassApart'
      BY <1>1, <2>1, <2>2, UpTypes, CommandTyped, PassKept
    <2>4. \A i \in 1..UpWant : There(i)
      BY <1>1 DEF UpInv, InPlace
    <2>5. 1..UpWant \subseteq UpSlot /\ Legacy \notin UpSlot /\ UpSlot \subseteq Nat \ {0}
      BY RolloutAssumption DEF UpSlot, Legacy
    <2>6. \A i \in UpSlot \cup {Legacy} : There(i)' <=> i \in 1..UpWant
      BY <2>2, <2>4, <2>5, RolloutAssumption DEF Extras, LiveReplicas
    <2>7. LiveReplicas' = 1..UpWant
      BY <2>5, <2>6 DEF LiveReplicas
    <2> QED
      BY <2>1, <2>3, <2>7 DEF UpInv, FreshPool, FreshTree, OldPool, Published, InPlace, UpAt, Starting, AllFresh
  <1>3. CASE upCmd' = NoCommand /\ \E S \in SUBSET Extras :
                 cont' = [i \in DOMAIN cont |-> IF i \in S THEN NoContainer ELSE cont[i]]
    <2>1. cont' \in [UpSlot \cup {Legacy} -> Containers]
      BY <1>3, RemovedTyped
    <2> QED
      BY <1>1, <1>3, <2>1, UpTypes, EndIs, UpEndKeeps
  <1> QED
    BY <1>2, <1>3 DEF UpExtras

LEMMA DownKeeps ==
    ASSUME UpInv, UpCommand, Down
    PROVE  UpInv'
  <1>1. UNCHANGED <<exposed, code, secret>>
    BY DEF Down, DownBegin, DownRemove, DownRow, DownClear, DownPush
  <1>2. CASE DownBegin
    <2>1. upCmd' \in UpCmdSet /\ upCmd'.pc = "remove" /\ upCmd'.old = {}
      BY <1>2 DEF DownBegin, NoCommand, UpCmdSet, UpSteps
    <2>2. RollTypes' /\ PassApart'
      BY <1>1, <1>2, <2>1, UpTypes, CommandTyped, PassKept DEF DownBegin, upStore
    <2> QED
      BY <2>1, <2>2 DEF UpInv, FreshPool, FreshTree, OldPool, Published, InPlace, UpAt, Starting, AllFresh
  <1>3. CASE DownRemove
    <2>1. UpAt("remove") /\ UNCHANGED <<serviceRow, pooled, edgeTable>>
      BY <1>3 DEF DownRemove, upStore
    <2>2. CASE cont' = [i \in DOMAIN cont |-> NoContainer] /\ UpGoto("stopped")
      <3>1. upCmd' \in UpCmdSet /\ upCmd'.pc = "stopped" /\ upCmd'.old = {}
        BY <2>1, <2>2, UpTypes DEF UpGoto, UpCmdSet, UpSteps, UpInv, OldPool, UpAt, Starting
      <3>2. NoContainer \in Containers /\ NoContainer.is = "none"
        BY DEF NoContainer, Containers
      <3>3. cont' \in [UpSlot \cup {Legacy} -> Containers] /\ \A i \in UpSlot \cup {Legacy} : ~There(i)'
        BY <2>2, <3>2, UpTypes DEF There
      <3>4. RollTypes' /\ PassApart'
        BY <1>1, <2>1, <3>1, <3>3, UpTypes, CommandTyped, PassKept
      <3>5. LiveReplicas' = {}
        BY <3>3 DEF LiveReplicas
      <3> QED
        BY <3>1, <3>4, <3>5 DEF UpInv, FreshPool, FreshTree, OldPool, Published, InPlace, UpAt, Starting, AllFresh
    <2>3. CASE upCmd' = NoCommand /\ \E S \in SUBSET LiveReplicas :
                   cont' = [i \in DOMAIN cont |-> IF i \in S THEN NoContainer ELSE cont[i]]
      <3>1. cont' \in [UpSlot \cup {Legacy} -> Containers]
        BY <2>3, RemovedTyped
      <3> QED
        BY <1>1, <2>1, <2>3, <3>1, UpTypes, EndIs, UpEndKeeps
    <2> QED
      BY <1>3, <2>2, <2>3 DEF DownRemove
  <1>4. CASE DownRow
    <2>1. UpAt("stopped") /\ UNCHANGED <<cont, pooled, edgeTable>> /\ upCmd.old = {} /\ LiveReplicas = {}
      BY <1>4 DEF DownRow, UpInv, OldPool, InPlace, UpAt, Starting
    <2>2. serviceRow' \in [status : {"none", "up", "stopped"}, vars : Versions \cup {0}]
      BY <1>4, UpTypes DEF DownRow
    <2>3. CASE upCmd' = NoCommand
      BY <1>1, <2>1, <2>2, <2>3, UpTypes, EndIs, UpEndKeeps
    <2>4. CASE UpGoto(IF exposed THEN "clear" ELSE "idle")
      <3>1. upCmd' \in UpCmdSet /\ upCmd'.pc \in {"clear", "idle"} /\ upCmd'.old = {}
        BY <2>1, <2>4, UpTypes DEF UpGoto, UpCmdSet, UpSteps
      <3>2. RollTypes' /\ PassApart'
        BY <1>1, <2>1, <2>2, <3>1, UpTypes, CommandTyped, PassKept
      <3>3. LiveReplicas' = {}
        BY <2>1 DEF LiveReplicas, There
      <3> QED
        BY <3>1, <3>2, <3>3 DEF UpInv, FreshPool, FreshTree, OldPool, Published, InPlace, UpAt, Starting, AllFresh
    <2> QED
      BY <1>4, <2>3, <2>4 DEF DownRow
  <1>5. CASE DownClear
    <2>1. UpAt("clear") /\ UNCHANGED <<serviceRow, cont, edgeTable>> /\ upCmd.old = {} /\ LiveReplicas = {}
      BY <1>5 DEF DownClear, UpInv, OldPool, InPlace, UpAt, Starting
    <2>2. CASE upCmd' = NoCommand /\ UNCHANGED pooled
      BY <1>1, <2>1, <2>2, UpTypes, EndIs, UpEndKeeps
    <2>3. CASE pooled' = NoTargets /\ UpGoto("unpush")
      <3>1. upCmd' \in UpCmdSet /\ upCmd'.pc = "unpush" /\ upCmd'.old = {}
        BY <2>1, <2>3, UpTypes DEF UpGoto, UpCmdSet, UpSteps
      <3>2. pooled' \in [UpSlot -> PoolStates]
        BY <2>3 DEF NoTargets, PoolStates
      <3>3. RollTypes' /\ PassApart'
        BY <1>1, <2>1, <3>1, <3>2, UpTypes, CommandTyped, PassKept
      <3>4. LiveReplicas' = {}
        BY <2>1 DEF LiveReplicas, There
      <3> QED
        BY <2>3, <3>1, <3>3, <3>4 DEF UpInv, FreshPool, FreshTree, OldPool, Published, InPlace, UpAt, Starting, AllFresh
    <2> QED
      BY <1>5, <2>2, <2>3 DEF DownClear
  <1>6. CASE DownPush
    <2>1. upCmd' = NoCommand /\ UNCHANGED <<serviceRow, cont, pooled>> /\ edgeTable' \in {pooled, edgeTable}
      BY <1>6 DEF DownPush, upStore
    <2> QED
      BY <1>1, <2>1, UpTypes, EndIs, UpEndKeeps
  <1> QED
    BY <1>2, <1>3, <1>4, <1>5, <1>6 DEF Down

LEMMA CommandKeeps ==
    ASSUME UpInv, UpCommand
    PROVE  UpInv'
  BY BeginKeeps, RollKeeps, UpStartKeeps, HealthKeeps, UpRecordKeeps, UpPushKeeps, DrainKeeps, LegacyKeeps,
     PutKeeps, ReconcileKeeps, ExtrasKeeps, DownKeeps DEF UpCommand, Up

-----------------------------------------------------------------------------
(* The machine and the health loop. *)

\* The loop and the world change whether containers answer, and the tables.
LEMMA OtherTyped ==
    ASSUME UpInv, upCmd' = upCmd, loopRaced' = loopRaced, UNCHANGED <<exposed, serviceRow>>,
           code' \in Versions, secret' \in Versions,
           cont' \in [UpSlot \cup {Legacy} -> Containers],
           pooled' \in [UpSlot -> PoolStates], edgeTable' \in [UpSlot -> PoolStates],
           loop' \in PassSet, fails' \in [UpSlot -> 0..Failures], down' \subseteq UpSlot,
           loop'.pc \in {"probe", "read", "write", "restart"} => loop'.todo # {},
           loop'.pc \in {"read", "write"} => loop'.want # "none"
    PROVE  RollTypes'
  <1>1. loop'.todo \subseteq UpSlot
    BY DEF PassSet
  <1>2. HealthTypeOK'
    BY <1>1 DEF UpInv, RollTypes, HealthTypeOK
  <1> QED
    BY <1>2 DEF UpInv, RollTypes

LEMMA WorldKeeps ==
    ASSUME UpInv, World, UNCHANGED loopVars
    PROVE  UpInv'
  <1>1. UNCHANGED <<loop, fails, down, loopRaced>> /\ UNCHANGED <<upCmd, serviceRow, exposed, pooled>>
    BY DEF loopVars, World, Keep, Edit, Changes, upStore
  <1>2. code' \in Versions /\ secret' \in Versions /\ edgeTable' \in {edgeTable, pooled}
    BY UpTypes DEF World, Keep, Edit, Changes
  <1>3. /\ cont' \in [UpSlot \cup {Legacy} -> Containers]
        /\ \A i \in UpSlot \cup {Legacy} : cont'[i].tree = cont[i].tree /\ (There(i)' <=> There(i))
    <2>1. CASE UNCHANGED cont
      BY <2>1, UpTypes DEF There
    <2>2. ASSUME NEW i \in DOMAIN cont, Changes(i)
          PROVE  /\ cont' \in [UpSlot \cup {Legacy} -> Containers]
                 /\ \A j \in UpSlot \cup {Legacy} : cont'[j].tree = cont[j].tree /\ (There(j)' <=> There(j))
      <3>1. PICK is \in {"ok", "sick", "exited"} : cont' = [cont EXCEPT ![i].is = is]
        BY <2>2 DEF Changes
      <3>2. There(i) /\ i \in UpSlot \cup {Legacy} /\ cont[i] \in Containers
        BY <2>2, UpTypes DEF Changes
      <3> QED
        BY <3>1, <3>2, UpTypes DEF Containers, There
    <2> QED
      BY <2>1, <2>2 DEF World, Keep, Edit
  <1>4. RollTypes'
    BY <1>1, <1>2, <1>3, UpTypes, OtherTyped DEF RollTypes, UpInv, HealthTypeOK
  <1>5. PassApart'
    BY <1>1 DEF UpInv, PassApart, UpAt, Pass
  <1>6. Kept
    BY <1>1, <1>2, <1>3 DEF Kept
  <1> QED
    BY <1>4, <1>5, <1>6, KeptIsKept DEF UpInv

\* On to the next replica, to the push or to rest.
LEMMA AdvanceIs ==
    ASSUME UpInv, NEW p \in BOOLEAN, Advance(p)
    PROVE  /\ loop' \in PassSet
           /\ loop'.pc \in {"probe", "read", "write", "restart"} => loop'.todo # {}
           /\ loop'.pc \notin {"read", "write"}
  <1>1. loop \in PassSet
    BY DEF UpInv, RollTypes
  <1>2. loop.todo \ {One} \subseteq UpSlot /\ (loop.pushed \/ p) \in BOOLEAN
    BY <1>1 DEF PassSet
  <1> QED
    BY <1>2 DEF Advance, Resting, PassSet, PoolStates

\* A step of a pass beside no command, or one that a command raced.
LEMMA PassBeside ==
    ASSUME UpInv, ~Pass("rest") \/ UpAt("idle")
    PROVE  loopRaced \/ UpAt("idle")
  BY UpTypes DEF UpInv, PassApart

LEMMA PassStep ==
    ASSUME UpInv, LoopAlone, ~Pass("rest") \/ UpAt("idle"),
           cont' \in [UpSlot \cup {Legacy} -> Containers],
           \A i \in UpSlot \cup {Legacy} : cont'[i].tree = cont[i].tree /\ (There(i)' <=> There(i)),
           pooled' \in [UpSlot -> PoolStates], edgeTable' \in [UpSlot -> PoolStates],
           loop' \in PassSet, fails' \in [UpSlot -> 0..Failures], down' \subseteq UpSlot,
           loop'.pc \in {"probe", "read", "write", "restart"} => loop'.todo # {},
           loop'.pc \in {"read", "write"} => loop'.want # "none"
    PROVE  UpInv'
  <1>1. UNCHANGED <<exposed, code, secret, serviceRow, upCmd, loopRaced>>
    BY DEF LoopAlone
  <1>2. RollTypes'
    BY <1>1, UpTypes, OtherTyped
  <1>3. Kept
    BY <1>1, PassBeside DEF Kept
  <1>4. PassApart'
    BY <1>1, PassBeside DEF PassApart, UpAt
  <1> QED
    BY <1>2, <1>3, <1>4, KeptIsKept DEF UpInv

\* The replica a pass is at.
LEMMA OneIs ==
    ASSUME UpInv, loop.pc \in {"probe", "read", "write", "restart"}
    PROVE  /\ One \in loop.todo /\ One \in UpSlot /\ cont[One] \in Containers
           /\ loop \in PassSet /\ fails \in [UpSlot -> 0..Failures] /\ down \subseteq UpSlot
           /\ loop.todo # {} /\ ~Pass("rest")
  <1>1. loop \in PassSet /\ loop.todo # {} /\ RollTypes
    BY DEF UpInv, RollTypes
  <1>2. loop.todo \in SUBSET Nat /\ loop.todo \subseteq UpSlot
    BY <1>1, ContIs DEF PassSet
  <1>3. One \in loop.todo
    BY <1>1, <1>2, FirstIsIn DEF One
  <1> QED
    BY <1>1, <1>2, <1>3, UpTypes DEF RollTypes, HealthTypeOK, Pass

LEMMA LookKeeps ==
    ASSUME UpInv, Look
    PROVE  UpInv'
  <1>1. /\ loop' = [Resting EXCEPT !.pc = "probe", !.todo = LiveReplicas \ {Legacy}]
        /\ LiveReplicas \ {Legacy} # {} /\ UpAt("idle")
        /\ LoopAlone /\ UNCHANGED <<cont, pooled, edgeTable, fails, down>>
    BY DEF Look, loopMemory, NotBusy
  <1>2. LiveReplicas \ {Legacy} \subseteq UpSlot
    BY DEF LiveReplicas
  <1>3. loop' \in PassSet /\ loop'.pc = "probe" /\ loop'.todo # {}
    BY <1>1, <1>2 DEF Resting, PassSet, PoolStates
  <1>4. fails' \in [UpSlot -> 0..Failures] /\ down' \subseteq UpSlot
    BY <1>1 DEF UpInv, RollTypes, HealthTypeOK
  <1> QED
    BY <1>1, <1>3, <1>4, UpTypes, PassStep DEF There

LEMMA ProbeKeeps ==
    ASSUME UpInv, Probe
    PROVE  UpInv'
  <1>1. loop.pc = "probe" /\ LoopAlone /\ UNCHANGED <<cont, pooled, edgeTable>>
    BY DEF Probe, Pass
  <1>2. fails' \in [UpSlot -> 0..Failures] /\ down' \subseteq UpSlot
    <2>1. CASE HealthyOne
      BY <1>1, <2>1, OneIs, LoopAssumption DEF HealthyOne
    <2>2. CASE Unhealthy
      <3>1. fails[One] \in 0..Failures
        BY <1>1, OneIs
      <3>2. (IF fails[One] < Failures THEN fails[One] + 1 ELSE fails[One]) \in 0..Failures
        BY <3>1, LoopAssumption
      <3>3. fails' \in [UpSlot -> 0..Failures]
        BY <1>1, <2>2, <3>2, OneIs DEF Unhealthy
      <3> QED
        BY <1>1, <2>2, <3>3, OneIs DEF Unhealthy
    <2> QED
      BY <2>1, <2>2 DEF Probe
  <1>3. \/ Advance(FALSE)
        \/ \E s \in {"read", "restart"}, w \in {"active", "unhealthy"} : loop' = [loop EXCEPT !.pc = s, !.want = w]
    BY DEF Probe, HealthyOne, Unhealthy
  <1>4. /\ loop' \in PassSet
        /\ loop'.pc \in {"probe", "read", "write", "restart"} => loop'.todo # {}
        /\ loop'.pc \in {"read", "write"} => loop'.want # "none"
    <2>1. CASE Advance(FALSE)
      BY <2>1, AdvanceIs
    <2>2. ASSUME NEW s \in {"read", "restart"}, NEW w \in {"active", "unhealthy"},
                 loop' = [loop EXCEPT !.pc = s, !.want = w]
          PROVE  loop' \in PassSet /\ loop'.todo # {} /\ loop'.want # "none"
      BY <1>1, <2>2, OneIs DEF PassSet
    <2> QED
      BY <1>3, <2>1, <2>2
  <1> QED
    BY <1>1, <1>2, <1>4, UpTypes, OneIs, PassStep DEF There

LEMMA ReadKeeps ==
    ASSUME UpInv, ReadTarget
    PROVE  UpInv'
  <1>1. /\ loop.pc = "read" /\ LoopAlone /\ UNCHANGED <<cont, pooled, edgeTable, fails, down>>
        /\ loop' = [loop EXCEPT !.pc = "write", !.saw = pooled[One]]
    BY DEF ReadTarget, Pass, loopMemory
  <1>2. pooled[One] \in PoolStates /\ loop.want # "none"
    BY <1>1, OneIs, UpTypes DEF UpInv, RollTypes
  <1>3. loop' \in PassSet /\ loop'.todo # {} /\ loop'.want # "none"
    BY <1>1, <1>2, OneIs DEF PassSet
  <1> QED
    BY <1>1, <1>3, UpTypes, OneIs, PassStep DEF There

LEMMA WriteKeeps ==
    ASSUME UpInv, WriteTarget
    PROVE  UpInv'
  <1>1. loop.pc = "write" /\ LoopAlone /\ UNCHANGED <<cont, edgeTable, fails, down>>
    BY DEF WriteTarget, Pass, loopMemory
  <1>2. loop.want \in {"active", "unhealthy"}
    BY <1>1, OneIs DEF UpInv, RollTypes, PassSet
  <1>3. pooled' \in [UpSlot -> PoolStates]
    BY <1>1, <1>2, OneIs, UpTypes DEF WriteTarget, PoolStates
  <1>4. ASSUME NEW b \in BOOLEAN, Wrote(b)
        PROVE  /\ loop' \in PassSet
               /\ loop'.pc \in {"probe", "read", "write", "restart"} => loop'.todo # {}
               /\ loop'.pc \in {"read", "write"} => loop'.want # "none"
    <2>1. CASE loop.want = "unhealthy"
      BY <1>1, <1>4, <2>1, OneIs DEF Wrote, PassSet
    <2>2. CASE loop.want # "unhealthy"
      BY <1>4, <2>2, AdvanceIs DEF Wrote
    <2> QED
      BY <2>1, <2>2
  <1>5. Wrote(FALSE) \/ Wrote(TRUE) \/ loop' = Resting
    BY DEF WriteTarget
  <1>6. Resting \in PassSet /\ Resting.pc = "rest"
    BY DEF Resting, PassSet, PoolStates
  <1>7. /\ loop' \in PassSet
        /\ loop'.pc \in {"probe", "read", "write", "restart"} => loop'.todo # {}
        /\ loop'.pc \in {"read", "write"} => loop'.want # "none"
    BY <1>4, <1>5, <1>6
  <1> QED
    BY <1>1, <1>3, <1>7, UpTypes, OneIs, PassStep DEF There

LEMMA RestartKeeps ==
    ASSUME UpInv, RestartReplica
    PROVE  UpInv'
  <1>1. loop.pc = "restart" /\ LoopAlone /\ UNCHANGED <<pooled, edgeTable, down>> /\ Advance(FALSE)
    BY DEF RestartReplica, Pass
  <1>2. fails' \in [UpSlot -> 0..Failures]
    BY <1>1, OneIs, LoopAssumption DEF RestartReplica
  <1>3. PICK i : i = One
    OBVIOUS
  <1>4. i \in UpSlot /\ cont[i] \in Containers
    BY <1>1, <1>3, OneIs
  <1>5. /\ cont' \in [UpSlot \cup {Legacy} -> Containers]
        /\ \A j \in UpSlot \cup {Legacy} : cont'[j].tree = cont[j].tree /\ (There(j)' <=> There(j))
    <2>1. CASE UNCHANGED cont
      BY <2>1, UpTypes DEF There
    <2>2. ASSUME There(i), NEW is \in {"ok", "sick"}, cont' = [cont EXCEPT ![i].is = is]
          PROVE  /\ cont' \in [UpSlot \cup {Legacy} -> Containers]
                 /\ \A j \in UpSlot \cup {Legacy} : cont'[j].tree = cont[j].tree /\ (There(j)' <=> There(j))
      BY <1>4, <2>2, UpTypes DEF Containers, There
    <2> QED
      BY <1>3, <2>1, <2>2 DEF RestartReplica
  <1>6. down' \subseteq UpSlot
    BY <1>1, OneIs
  <1> QED
    BY <1>1, <1>2, <1>5, <1>6, UpTypes, OneIs, AdvanceIs, PassStep

LEMMA PushPassKeeps ==
    ASSUME UpInv, PushPass
    PROVE  UpInv'
  <1>1. /\ loop.pc = "push" /\ LoopAlone /\ UNCHANGED <<cont, pooled, fails, down>>
        /\ loop' = Resting /\ edgeTable' \in {pooled, edgeTable}
    BY DEF PushPass, Pass, loopMemory
  <1>2. Resting \in PassSet /\ Resting.pc = "rest" /\ ~Pass("rest")
    BY <1>1 DEF Resting, PassSet, PoolStates, Pass
  <1>3. fails' \in [UpSlot -> 0..Failures] /\ down' \subseteq UpSlot
    BY <1>1 DEF UpInv, RollTypes, HealthTypeOK
  <1> QED
    BY <1>1, <1>2, <1>3, UpTypes, PassStep DEF There

\* A crash ends the command and the pass.
LEMMA LoopCrashKeeps ==
    ASSUME UpInv, LoopCrash
    PROVE  UpInv'
  <1>1. /\ upCmd' = NoCommand /\ loop' = Resting /\ fails' = NoFails /\ down' = {} /\ loopRaced' = loopRaced
        /\ UNCHANGED <<exposed, code, secret, serviceRow, pooled, cont, edgeTable>>
    BY DEF LoopCrash, UpCrash, upStore
  <1>2. Resting \in PassSet /\ Resting.pc = "rest" /\ Resting.todo = {}
    BY DEF Resting, PassSet, PoolStates
  <1>3. NoFails \in [UpSlot -> 0..Failures]
    BY LoopAssumption DEF NoFails
  <1>4. HealthTypeOK'
    BY <1>1, <1>2, <1>3 DEF UpInv, RollTypes, HealthTypeOK, NoCommand
  <1>5. RollTypes'
    BY <1>1, <1>2, <1>4, EndIs DEF RollTypes
  <1> QED
    BY <1>1, <1>5, EndIs DEF UpInv, PassApart, FreshPool, FreshTree, OldPool, Published, InPlace, UpAt, Starting,
       AllFresh

LEMMA UpSteady == UpInv /\ [LoopNext]_healthVars => UpInv'
  <1> SUFFICES ASSUME UpInv, [LoopNext]_healthVars PROVE UpInv'
    OBVIOUS
  <1>1. CASE UNCHANGED healthVars
    <2>1. UNCHANGED <<exposed, code, secret, serviceRow, cont, pooled, edgeTable, upCmd, loop, fails, down, loopRaced>>
      BY <1>1 DEF healthVars, upVars, loopVars
    <2>2. RollTypes' /\ PassApart'
      BY <2>1 DEF UpInv, RollTypes, HealthTypeOK, PassApart, UpAt, Pass
    <2>3. Kept
      BY <2>1 DEF Kept, There
    <2> QED
      BY <2>2, <2>3, KeptIsKept DEF UpInv
  <1>2. CASE Loop
    BY <1>2, LookKeeps, ProbeKeeps, ReadKeeps, WriteKeeps, RestartKeeps, PushPassKeeps DEF Loop
  <1> QED
    BY <1>1, <1>2, CommandKeeps, WorldKeeps, LoopCrashKeeps DEF LoopNext

LEMMA UpInvGives == UpInv => HealthTypeOK /\ UpDelivered /\ DownDelivered
  <1> SUFFICES ASSUME UpInv PROVE HealthTypeOK /\ UpDelivered /\ DownDelivered
    OBVIOUS
  <1>1. ASSUME UpAt("put"), upCmd.ok, ~loopRaced
        PROVE  /\ pooled = TargetsOf(upCmd.fresh, {}) /\ edgeTable = pooled
               /\ Cardinality(upCmd.fresh) = UpWant /\ ~Upgrading
               /\ \A i \in upCmd.fresh : cont[i].tree = upCmd.tree
    <2>1. upCmd.old = {} /\ ~Upgrading
      BY <1>1 DEF UpInv, OldPool, UpAt, Starting
    <2>2. pooled = TargetsOf(upCmd.fresh, upCmd.old) /\ edgeTable = pooled
      BY <1>1 DEF UpInv, Published
    <2>3. Cardinality(upCmd.fresh) = UpWant /\ \A i \in upCmd.fresh : cont[i].tree = upCmd.tree
      BY <1>1 DEF UpInv, FreshPool, FreshTree, AllFresh
    <2> QED
      BY <2>1, <2>2, <2>3
  <1>2. UpAt("putrow") => LiveReplicas = 1..UpWant
    BY DEF UpInv, InPlace
  <1>3. DownDelivered
    BY DEF DownDelivered, UpInv, InPlace, Published
  <1> QED
    BY <1>1, <1>2, <1>3, UpTypes DEF UpDelivered, RollTypes

\* The replica that drainAndStop removes is one the edge was told to drain, and
\* startReplica takes an index of no replica that ran.
LEMMA OldAreDrained ==
    ASSUME UpInv, [LoopNext]_healthVars, ~loopRaced, ~UpAt("idle"),
           NEW i \in upCmd.old, RunningReplica(i), ~There(i)'
    PROVE  edgeTable[i] # "active"
  <1>1. There(i) /\ i \in UpSlot /\ upCmd.old # {}
    BY UpTypes DEF RunningReplica, There, UpCmdSet
  <1>2. cont' # cont
    BY <1>1 DEF There
  <1>3. Pass("rest")
    BY DEF UpInv, PassApart
  <1>4. ~Loop
    BY <1>3 DEF Loop, Look, NotBusy, Probe, ReadTarget, WriteTarget, RestartReplica, PushPass, Pass
  <1>5. ~LoopCrash
    BY <1>2 DEF LoopCrash, UpCrash
  <1>6. ~World
    <2>1. ASSUME NEW j \in DOMAIN cont, Changes(j) PROVE FALSE
      <3>1. PICK is \in {"ok", "sick", "exited"} : cont' = [cont EXCEPT ![j].is = is]
        BY <2>1 DEF Changes
      <3>2. cont[i] \in Containers /\ cont[j] \in Containers
        BY <1>1, <2>1, UpTypes
      <3>3. cont'[i].is # "none"
        BY <1>1, <3>1, <3>2, UpTypes DEF Containers, There
      <3> QED
        BY <3>3 DEF There
    <2> QED
      BY <1>2, <2>1 DEF World, Keep, Edit
  <1>7. UpCommand /\ (Up \/ Down)
    BY <1>2, <1>4, <1>5, <1>6 DEF LoopNext, UpCommand, healthVars, upVars
  <1>8. UpStart \/ UpDrain
    <2>1. UpAt("start") \/ UpAt("drain") \/ UpAt("health") \/ UpAt("record") \/ UpAt("push") \/ UpAt("put")
      BY <1>1 DEF UpInv, OldPool, Starting
    <2> QED
      BY <1>2, <1>7, <2>1 DEF Up, Down, UpBegin, UpRoll, UpHealth, UpRecord, UpPush, UpLegacy, UpPut,
         UpReconcile, UpExtras, UpPutRow, DownBegin, DownRemove, DownRow, DownClear, DownPush, UpAt
  <1>9. CASE UpStart
    <2>1. PICK j : j = First(upCmd.todo)
      OBVIOUS
    <2>2. UpAt("start") /\ upCmd.todo # {} /\ upCmd.todo \cap upCmd.old = {}
      BY <1>9 DEF UpStart, UpInv, FreshPool, Starting
    <2>3. j # i
      BY <2>1, <2>2, UpTypes, NextIndex
    <2>4. UNCHANGED cont \/ \E c : cont' = [cont EXCEPT ![j] = c]
      BY <1>9, <2>1 DEF UpStart
    <2>5. cont'[i] = cont[i]
      BY <1>1, <2>3, <2>4, UpTypes
    <2> QED
      BY <1>1, <2>5 DEF There
  <1>10. CASE UpDrain
    <2>1. UpAt("drain")
      BY <1>10 DEF UpDrain
    <2>2. edgeTable = TargetsOf(upCmd.fresh, upCmd.old) /\ upCmd.fresh \cap upCmd.old = {}
      BY <2>1 DEF UpInv, Published, FreshPool, AllFresh
    <2> QED
      BY <1>1, <2>2 DEF TargetsOf
  <1> QED
    BY <1>8, <1>9, <1>10

\* Whatever fails, whatever dies and whatever changes by itself, an up that ends
\* well leaves the edge exactly the replicas it was asked for, all of the code it
\* was given, a down leaves nothing, and no replica that ran stops while the edge
\* sends to it (rollService, recreateService, drainAndStop, Down), unless a pass
\* of the health loop overlapped the command; for any number of replicas,
\* indexes, commands, failures and passes.
THEOREM UpsDeliver == LoopSpec => UpDelivers
  <1>1. LoopInit /\ [][LoopNext]_healthVars => []UpInv
    BY UpStarts, UpSteady, PTL
  <1>2. LoopInit /\ [][LoopNext]_healthVars => [](HealthTypeOK /\ UpDelivered /\ DownDelivered)
    BY <1>1, UpInvGives, PTL
  <1> DEFINE OldDrained == (~loopRaced /\ ~UpAt("idle")) =>
                 \A i \in upCmd.old : RunningReplica(i) /\ ~There(i)' => edgeTable[i] # "active"
  <1>3. UpInv /\ [LoopNext]_healthVars => [OldDrained]_healthVars
    BY OldAreDrained
  <1>4. LoopInit /\ [][LoopNext]_healthVars => [][OldDrained]_healthVars
    BY <1>1, <1>3, PTL
  <1> QED
    BY <1>2, <1>4, PTL DEF LoopSpec, UpDelivers, StopsOnlyDrained
=============================================================================
