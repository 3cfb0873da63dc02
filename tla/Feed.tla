-------------------------------- MODULE Feed --------------------------------
(***************************************************************************)
(* The event feed of a hub: src/internal/progress (the hub of subscribers  *)
(* and the feeds of the members it carries), AddEvent and publish of       *)
(* src/internal/state, and `events --follow` of src/internal/env. An event *)
(* is the machine that recorded it and its number in that machine's store; *)
(* number 0 is a report that was never recorded.                           *)
(***************************************************************************)
EXTENDS Naturals, Sequences, FiniteSets

CONSTANTS
    Here,         \* this machine
    Members,     \* the machines that may be in its fleet
    EventBuffer,      \* events a subscriber may be behind
    MaxRecorded, MaxFleetChanges, MaxLosses

ASSUME FeedAssumption ==
    Here \notin Members /\ EventBuffer \in Nat /\ MaxRecorded \in Nat

VARIABLES
    recorded,     \* machine -> how many events its store holds
    unpublished,  \* events of this machine inserted and not yet notified
    bus,         \* the channel of the follower
    reader,       \* the follower: `events --follow` on this machine
    follows,      \* member -> the follow of its feed
    fleetRows,    \* the members in the store
    setting,      \* a Set of the fleet's feeds and the names it read
    missed,       \* what went wrong: "slow", "overlap", "foreign", "stale"
    fleetChanges, losses

feedVars == <<recorded, unpublished, bus, reader, follows, fleetRows, setting,
              missed, fleetChanges, losses>>

Machines == Members \cup {Here}
Numbers == 0..MaxRecorded
NoReader == [pc |-> "off", seen |-> 0, printed |-> <<>>]
NoFollow == [pc |-> "none", seq |-> 0, up |-> FALSE, known |-> FALSE,
             wire |-> <<>>, cancelled |-> FALSE]
NoSet == [pc |-> "idle", names |-> {}]

FeedInit ==
    /\ recorded = [m \in Machines |-> 0]
    /\ unpublished = {}
    /\ bus = <<>> /\ reader = NoReader
    /\ follows = [m \in Members |-> NoFollow]
    /\ fleetRows = {} /\ setting = NoSet
    /\ missed = {} /\ fleetChanges = 0 /\ losses = 0

(***************************************************************************)
(* Hub.Notify: an event goes into the channel of a subscriber, or is        *)
(* dropped when the channel is full.                                       *)
(***************************************************************************)
MutSubscribed == reader.pc = "follow"
Subscribed == reader.pc \in {"query", "emit", "follow"}
Notify(events) ==
    LET fits == Len(bus) + Len(events) <= EventBuffer IN
    /\ bus' = IF Subscribed /\ fits THEN bus \o events ELSE bus
    /\ missed' = IF Subscribed /\ ~fits THEN missed \cup {"slow"} ELSE missed

(***************************************************************************)
(* AddEvent inserts the row, which numbers it, and then publishes it.      *)
(***************************************************************************)
AddEvent ==
    /\ recorded[Here] < MaxRecorded
    /\ recorded' = [recorded EXCEPT ![Here] = @ + 1]
    /\ unpublished' = unpublished \cup {recorded[Here] + 1}
    /\ missed' = IF unpublished # {} THEN missed \cup {"overlap"} ELSE missed
    /\ UNCHANGED <<bus, reader, follows, fleetRows, setting, fleetChanges, losses>>

Publish(n) ==
    /\ n \in unpublished
    /\ unpublished' = unpublished \ {n}
    /\ Notify(<<<<Here, n>>>>)
    /\ UNCHANGED <<recorded, reader, follows, fleetRows, setting, fleetChanges, losses>>

(***************************************************************************)
(* Manager.Events with Follow: subscribe, print the rows, oldest first,    *)
(* then print what the channel brings, but nothing at or below the number  *)
(* it has seen.                                                            *)
(***************************************************************************)
Subscribe ==
    /\ reader.pc = "off"
    /\ reader' = [NoReader EXCEPT !.pc = "query"]
    /\ bus' = <<>>
    /\ missed' = (missed \cap {"stale"}) \cup
                 (IF Cardinality(unpublished) > 1 THEN {"overlap"} ELSE {})
    /\ UNCHANGED <<recorded, unpublished, follows, fleetRows, setting, fleetChanges, losses>>

QueryEvents ==
    /\ reader.pc = "query"
    /\ reader' = [pc |-> "emit",
                  seen |-> recorded[Here],
                  printed |-> [n \in 1..recorded[Here] |-> <<Here, n>>]]
    /\ UNCHANGED <<recorded, unpublished, bus, follows, fleetRows, setting,
                   missed, fleetChanges, losses>>

EmitBacklog ==
    /\ reader.pc = "emit"
    /\ reader' = [reader EXCEPT !.pc = "follow"]
    /\ UNCHANGED <<recorded, unpublished, bus, follows, fleetRows, setting,
                   missed, fleetChanges, losses>>

MutFresh(n) == TRUE
Fresh(n) == n = 0 \/ n > reader.seen
PrintEvent ==
    /\ reader.pc = "follow" /\ bus # <<>>
    /\ LET e == Head(bus) IN
        /\ IF Fresh(e[2])
           THEN reader' = [reader EXCEPT
                    !.seen = IF e[2] > @ THEN e[2] ELSE @,
                    !.printed = IF e[2] = 0 THEN @ ELSE Append(@, e)]
           ELSE UNCHANGED reader
        /\ missed' = IF e[1] # Here /\ e[2] # 0 THEN missed \cup {"foreign"} ELSE missed
    /\ bus' = Tail(bus)
    /\ UNCHANGED <<recorded, unpublished, follows, fleetRows, setting, fleetChanges, losses>>

StopReading ==
    /\ reader.pc = "follow" /\ reader' = NoReader /\ bus' = <<>>
    /\ UNCHANGED <<recorded, unpublished, follows, fleetRows, setting,
                   missed, fleetChanges, losses>>

(***************************************************************************)
(* The feeds of the members. A change of the fleet writes its row and then *)
(* calls Set with the names it read: Forget cancels a follow and waits for *)
(* it, Follow starts one.                                                  *)
(***************************************************************************)
FleetChanged(m) ==
    /\ fleetChanges < MaxFleetChanges
    /\ fleetRows' = (fleetRows \ {m}) \cup ({m} \ fleetRows)
    /\ fleetChanges' = fleetChanges + 1
    /\ setting' = IF setting.pc = "idle" THEN [NoSet EXCEPT !.pc = "names"] ELSE setting
    /\ missed' = IF setting.pc \in {"forget", "follow"} THEN missed \cup {"stale"} ELSE missed
    /\ UNCHANGED <<recorded, unpublished, bus, reader, follows, losses>>

Following == {m \in Members : follows[m].pc # "none" /\ ~follows[m].cancelled}

MutUnwanted == {}
Unwanted == Following \ setting.names

SetStep ==
    /\ \/ /\ setting.pc = "names"
          /\ setting' = [pc |-> "forget", names |-> fleetRows]
          /\ UNCHANGED follows
       \/ /\ setting.pc = "forget"
          /\ \E m \in Unwanted :
                follows' = [follows EXCEPT ![m].cancelled = TRUE]
          /\ UNCHANGED setting
       \/ /\ setting.pc = "forget" /\ Unwanted = {}
          /\ \A m \in Members : ~follows[m].cancelled
          /\ setting' = [setting EXCEPT !.pc = "follow"]
          /\ UNCHANGED follows
       \/ /\ setting.pc = "follow"
          /\ follows' = [m \in Members |->
                IF m \in setting.names /\ follows[m].pc = "none"
                THEN [NoFollow EXCEPT !.pc = "dial"] ELSE follows[m]]
          /\ setting' = NoSet
    /\ UNCHANGED <<recorded, unpublished, bus, reader, fleetRows, missed,
                   fleetChanges, losses>>

(***************************************************************************)
(* Fleet.run of one member: dial, report, read what it replays and records,*)
(* and wait to dial again when the stream ends. Only an end of the follow  *)
(* leaves the loop, at whichever step it is.                               *)
(***************************************************************************)
Report(m, up) ==
    IF follows[m].known /\ follows[m].up = up THEN UNCHANGED <<bus, missed>>
    ELSE Notify(<<<<m, 0>>>>)

Turn(m, f) == follows' = [follows EXCEPT ![m] = f]
Runs(m, pc) == follows[m].pc = pc /\ ~follows[m].cancelled

Dial(m) ==
    /\ Runs(m, "dial")
    /\ \/ /\ Turn(m, [follows[m] EXCEPT !.pc = "read", !.up = TRUE, !.known = TRUE,
                        !.wire = [n \in 1..recorded[m] |-> n]])
          /\ Report(m, TRUE) /\ UNCHANGED losses
       \/ /\ losses < MaxLosses /\ losses' = losses + 1
          /\ Turn(m, [follows[m] EXCEPT !.pc = "wait", !.up = FALSE, !.known = TRUE])
          /\ Report(m, FALSE)
    /\ UNCHANGED <<recorded, unpublished, reader, fleetRows, setting, fleetChanges>>

MemberRecords(m) ==
    /\ recorded[m] < MaxRecorded
    /\ recorded' = [recorded EXCEPT ![m] = @ + 1]
    /\ follows' = IF follows[m].pc = "read"
                  THEN [follows EXCEPT ![m].wire = Append(@, recorded[m] + 1)] ELSE follows
    /\ UNCHANGED <<unpublished, bus, reader, fleetRows, setting, missed, fleetChanges, losses>>

\* Fleet.publish: what the follow has carried already is not carried again.
ReadEvent(m) ==
    /\ Runs(m, "read") /\ follows[m].wire # <<>>
    /\ LET n == Head(follows[m].wire) IN
        /\ Turn(m, [follows[m] EXCEPT !.wire = Tail(@), !.seq = IF n > @ THEN n ELSE @])
        /\ IF n > follows[m].seq THEN Notify(<<<<m, n>>>>) ELSE UNCHANGED <<bus, missed>>
    /\ UNCHANGED <<recorded, unpublished, reader, fleetRows, setting, fleetChanges, losses>>

StreamEnds(m) ==
    /\ Runs(m, "read") /\ losses < MaxLosses
    /\ Turn(m, [follows[m] EXCEPT !.pc = "wait", !.wire = <<>>, !.up = FALSE])
    /\ Report(m, FALSE)
    /\ losses' = losses + 1
    /\ UNCHANGED <<recorded, unpublished, reader, fleetRows, setting, fleetChanges>>

MutRetry(m) == Runs(m, "wait") /\ follows[m].seq = 0
Retry(m) == Runs(m, "wait")
RetryAfter(m) ==
    /\ Retry(m) /\ Turn(m, [follows[m] EXCEPT !.pc = "dial"])
    /\ UNCHANGED <<recorded, unpublished, bus, reader, fleetRows, setting,
                   missed, fleetChanges, losses>>

MutHearsCancel(m) == follows[m].pc # "read" \/ follows[m].wire # <<>>
HearsCancel(m) == TRUE
FollowEnds(m) ==
    /\ follows[m].cancelled /\ HearsCancel(m)
    /\ Turn(m, NoFollow)
    /\ UNCHANGED <<recorded, unpublished, bus, reader, fleetRows, setting,
                   missed, fleetChanges, losses>>

FollowStep(m) == Dial(m) \/ ReadEvent(m) \/ RetryAfter(m) \/ FollowEnds(m)

FeedNext ==
    \/ AddEvent \/ \E n \in 1..MaxRecorded : Publish(n)
    \/ Subscribe \/ QueryEvents \/ EmitBacklog \/ PrintEvent \/ StopReading
    \/ \E m \in Members : FleetChanged(m) \/ MemberRecords(m) \/ StreamEnds(m) \/ FollowStep(m)
    \/ SetStep

FeedSpec == FeedInit /\ [][FeedNext]_feedVars
FeedFairness ==
    /\ WF_feedVars(SetStep)
    /\ \A m \in Members : WF_feedVars(FollowStep(m))
FeedLiveSpec == FeedSpec /\ FeedFairness
-----------------------------------------------------------------------------
FeedTypeOK ==
    /\ recorded \in [Machines -> Numbers]
    /\ unpublished \subseteq Numbers
    /\ Len(bus) <= EventBuffer
    /\ reader.pc \in {"off", "query", "emit", "follow"} /\ reader.seen \in Numbers
    /\ \A m \in Members : follows[m].pc \in {"none", "dial", "read", "wait"}
    /\ \A m \in Members : follows[m].cancelled => follows[m].pc # "none"
    /\ fleetRows \subseteq Members
    /\ setting.pc \in {"idle", "names", "forget", "follow"}

\* A follower prints no event twice, whatever members replay when they are
\* dialled again (Manager.Events and Fleet.publish).
PrintedOnce ==
    \A i, j \in DOMAIN reader.printed : i # j => reader.printed[i] # reader.printed[j]

FeedQuiet == unpublished = {} /\ bus = <<>> /\ reader.pc = "follow"
LocalShown == \A n \in 1..recorded[Here] : \E i \in DOMAIN reader.printed :
    reader.printed[i] = <<Here, n>>

\* A follower that kept up with the feed has printed every event of its own
\* machine, the ones recorded between its query and its first wait too, as
\* long as no two events were recorded at once and no member's events were
\* carried (Manager.Events subscribes before it reads the rows).
AloneComplete == FeedQuiet /\ missed \cap {"slow", "overlap", "foreign"} = {} => LocalShown

\* The same with the members' events in the feed: it is the machine's feed, and
\* carrying another machine's must not hide its own.
MergedComplete == FeedQuiet /\ missed \cap {"slow", "overlap"} = {} => LocalShown

\* Once a change of the fleet has been told, the hub follows the members in its
\* store and nobody else (Fleet.Set), unless another change overtook it.
FollowsMembers == setting.pc = "idle" /\ "stale" \notin missed => Following = fleetRows

\* A follower prints no event twice and, if it keeps up, misses no event of its
\* machine; a change of the fleet that was told leaves the right members
\* followed.
FeedComplete == FeedTypeOK /\ PrintedOnce /\ AloneComplete /\ FollowsMembers

\* Telling a change of the fleet never hangs on a silent member (Fleet.Forget).
SetEnds == setting.pc # "idle" ~> setting.pc = "idle"

\* A member that stays in the fleet is followed again whenever its feed was
\* lost (Fleet.run).
FollowedAgain == \A m \in Members :
    follows[m].pc = "wait" ~> follows[m].pc = "read" \/ follows[m].pc = "none"
=============================================================================
