---------------------------- MODULE EdgeControl ----------------------------
(***************************************************************************)
(* caramelod and the edge on the two ends of the control socket            *)
(* (internal/edge process.go, control_socket.go, broker.go, ingress.go,    *)
(* store.go; internal/env/expose.go pushTable, waitDrain;                  *)
(* internal/sshapi/edge.go keepEdgeTable).                                 *)
(*                                                                         *)
(* A table is a number: a rollout records the next one and waits for the   *)
(* replica it drains. An event is the number of the table whose replica    *)
(* drained, or Other. Two clients: the keeper, and the rollout's command.  *)
(* Requests of the same client run one after another, except that the one  *)
(* of a command that was cancelled goes on in the edge (Orphan).           *)
(***************************************************************************)
EXTENDS Naturals, Sequences

CONSTANTS
    HistoryLimit, SubscriberBuffer,  \* historyLimit, subscriberBuffer
    MaxTable,              \* bound: rollouts
    MaxEvents              \* bound: restarts, faults, cancelled commands, other events

ASSUME ControlAssumption ==
    HistoryLimit \in Nat \ {0} /\ SubscriberBuffer \in Nat /\ MaxTable \in Nat

VARIABLES
    db,       \* the table the rows describe
    edgeState,     \* the process: whether it runs, its router's table, the file, the ingress
    busy,     \* tables with a draining replica whose drain is not reported yet
    history,  \* broker.history
    subs,     \* broker.subs, by client
    handler,  \* what the edge does for a push, by client
    keeper, command,  \* where the two clients are
    wait,     \* what the command's waitDrain knows and what came of it
    ctlEvents,   \* how many of these may still happen
    reported, overlapped  \* history: see the properties

controlVars == <<db, edgeState, busy, history, subs, handler, keeper, command, wait, ctlEvents,
          reported, overlapped>>
controlWorld == <<ctlEvents, reported, overlapped>>

Clients == {"keeper", "command"}
Orphan == "orphan"
Other == 0
NoSub == [open |-> FALSE, lagged |-> FALSE, replay |-> <<>>, ch |-> <<>>]
NoHandler == [pc |-> "none", v |-> 0, saw |-> 0, todo |-> <<>>]
NoWait == [end |-> "none", quiet |-> TRUE]

ControlInit ==
    /\ db = 0
    /\ edgeState = [up |-> TRUE, table |-> 0, file |-> 0, ingress |-> 0]
    /\ busy = {} /\ history = <<>>
    /\ subs = [c \in Clients |-> NoSub]
    /\ handler = [c \in Clients \cup {Orphan} |-> NoHandler]
    /\ keeper = "push" /\ command = "idle" /\ wait = NoWait
    /\ ctlEvents = MaxEvents
    /\ reported = {} /\ overlapped = FALSE

ControlEvent == ctlEvents > 0 /\ ctlEvents' = ctlEvents - 1

-----------------------------------------------------------------------------
(* The broker. *)

\* publish: into the history, and to whoever keeps up with it.
BrokerPublish(e) ==
    LET all == Append(history, [of |-> e, old |-> FALSE])
        over == Len(all) > HistoryLimit
    IN /\ history' = IF over THEN Tail(all) ELSE all
       /\ reported' = IF e = Other THEN reported ELSE reported \cup {e}
       /\ subs' = [c \in Clients |->
            IF ~subs[c].open \/ subs[c].lagged THEN subs[c]
            ELSE IF Len(subs[c].ch) < SubscriberBuffer THEN [subs[c] EXCEPT !.ch = Append(@, e)]
            ELSE [subs[c] EXCEPT !.lagged = TRUE]]

\* Faulty variant: what was published before the registration is not replayed.
MutReplay(c) == <<>>

\* subscribe, under the lock that registers: the history since the flip, for
\* a waiter; a subscription without a since replays nothing. An event has the
\* time of its publish here, so those of before the flip are the first ones. (The
\* code stamps it just before the lock: an event of before the flip may then come
\* after it, but not one of the drain the flip starts.)
SinceFlip(k) == k \in 1..(Len(history) + 1) /\ \A i \in DOMAIN history : history[i].old <=> i < k
Replay(c) ==
    LET first == CHOOSE k \in 1..(Len(history) + 1) : SinceFlip(k)
    IN  IF c = "keeper" THEN <<>>
        ELSE [i \in 1..(Len(history) - first + 1) |-> history[first + i - 1].of]

-----------------------------------------------------------------------------
(* A push, in the edge: Edge.PushTable. *)

HandlerAt(h, step) == handler[h].pc = step
Step(h, step) == handler' = [handler EXCEPT ![h].pc = step]

\* Router.Install: the table is served; the replica it drains may be idle.
Install(h) ==
    /\ HandlerAt(h, "install")
    /\ edgeState' = [edgeState EXCEPT !.table = handler[h].v]
    /\ \E idle \in BOOLEAN :
          LET drains == handler[h].v > edgeState.table
              now == IF drains /\ idle THEN <<handler[h].v, Other>> ELSE <<Other>>
          IN /\ busy' = IF drains /\ ~idle THEN busy \cup {handler[h].v} ELSE busy
             /\ handler' = [handler EXCEPT ![h].pc = "publish", ![h].todo = now]
    /\ UNCHANGED <<db, history, subs, keeper, command, wait, ctlEvents, reported, overlapped>>

InstallEvent(h) ==
    /\ HandlerAt(h, "publish")
    /\ BrokerPublish(Head(handler[h].todo))
    /\ handler' = [handler EXCEPT ![h].todo = Tail(@),
                                  ![h].pc = IF Len(handler[h].todo) = 1 THEN "pushed" ELSE "publish"]
    /\ UNCHANGED <<db, edgeState, busy, keeper, command, wait, ctlEvents, overlapped>>

\* Router.Pushed ...
Pushed(h) ==
    /\ HandlerAt(h, "pushed")
    /\ handler' = [handler EXCEPT ![h].pc = "save", ![h].saw = edgeState.table]
    /\ UNCHANGED <<db, edgeState, busy, history, subs, keeper, command, wait, controlWorld>>

\* Faulty variant: the table is not written.
MutSaveTable(h) ==
    /\ HandlerAt(h, "save")
    /\ Step(h, "ingress")
    /\ UNCHANGED <<db, edgeState, busy, history, subs, keeper, command, wait, controlWorld>>

\* ... SaveTable: written aside, synced, renamed.
SaveTable(h) ==
    /\ HandlerAt(h, "save")
    /\ \/ /\ edgeState' = [edgeState EXCEPT !.file = handler[h].saw]
          /\ Step(h, "ingress")
          /\ UNCHANGED ctlEvents
       \/ /\ ControlEvent
          /\ Step(h, "failed")
          /\ UNCHANGED edgeState
    /\ UNCHANGED <<db, busy, history, subs, keeper, command, wait,
                   reported, overlapped>>

\* Router.Ingress ...
Ingress(h) ==
    /\ HandlerAt(h, "ingress")
    /\ handler' = [handler EXCEPT ![h].pc = "set", ![h].saw = edgeState.table]
    /\ UNCHANGED <<db, edgeState, busy, history, subs, keeper, command, wait, controlWorld>>

\* ... setIngress: the private listener is what that table asks for, or none.
SetIngress(h) ==
    /\ HandlerAt(h, "set")
    /\ \/ /\ edgeState' = [edgeState EXCEPT !.ingress = handler[h].saw]
          /\ Step(h, "done")
          /\ UNCHANGED ctlEvents
       \/ /\ ControlEvent
          /\ edgeState' = [edgeState EXCEPT !.ingress = 0]
          /\ Step(h, "failed")
    /\ UNCHANGED <<db, busy, history, subs, keeper, command, wait,
                   reported, overlapped>>

ServePush(h) ==
    Install(h) \/ InstallEvent(h) \/ Pushed(h) \/ SaveTable(h) \/ Ingress(h) \/ SetIngress(h)

\* The last request of a draining replica ends, or its deadline passes.
Drained ==
    /\ \E v \in busy : busy' = busy \ {v} /\ BrokerPublish(v)
    /\ UNCHANGED <<db, edgeState, handler, keeper, command, wait, ctlEvents, overlapped>>

\* Any other event: a certificate, a replica's state.
OtherEvent ==
    /\ edgeState.up
    /\ ControlEvent
    /\ BrokerPublish(Other)
    /\ UNCHANGED <<db, edgeState, busy, handler, keeper, command, wait, overlapped>>

-----------------------------------------------------------------------------
(* The clients. *)

Client(c, step) == IF c = "keeper" THEN keeper' = step /\ UNCHANGED command
                                   ELSE command' = step /\ UNCHANGED keeper
ClientAt(c) == IF c = "keeper" THEN keeper ELSE command

\* A rollout records the next table; the instant it counts from is now.
RecordTable ==
    /\ command = "idle" /\ db < MaxTable
    /\ db' = db + 1
    /\ command' = "push"
    /\ history' = [i \in DOMAIN history |-> [history[i] EXCEPT !.old = TRUE]]
    /\ wait' = NoWait
    /\ UNCHANGED <<edgeState, busy, subs, handler, keeper, controlWorld>>

\* pushTable under edgeTableLock: the rows are read and sent; without an edge
\* the dial fails. The keeper goes on to subscribe whatever came of it.
SendTable(c) ==
    /\ ClientAt(c) = "push"
    /\ \A d \in Clients : ClientAt(d) # "answer"
    /\ \/ /\ edgeState.up
          /\ handler' = [handler EXCEPT ![c] = [NoHandler EXCEPT !.pc = "install", !.v = db]]
          /\ overlapped' = (overlapped \/ ~HandlerAt(Orphan, "none"))
          /\ Client(c, "answer")
       \/ /\ ~edgeState.up
          /\ Client(c, IF c = "keeper" THEN "subscribe" ELSE "idle")
          /\ UNCHANGED <<handler, overlapped>>
    /\ UNCHANGED <<db, edgeState, busy, history, subs, wait, ctlEvents, reported>>

\* The answer. A command whose push failed has failed.
Answer(c) ==
    /\ ClientAt(c) = "answer" /\ handler[c].pc \in {"done", "failed"}
    /\ Client(c, IF c = "keeper" \/ HandlerAt(c, "done") THEN "subscribe" ELSE "idle")
    /\ handler' = [handler EXCEPT ![c] = NoHandler]
    /\ UNCHANGED <<db, edgeState, busy, history, subs, wait, controlWorld>>

\* socketClient.send: the command's context ends; the edge does not notice.
Cancel ==
    /\ command = "answer" /\ HandlerAt(Orphan, "none") /\ ~HandlerAt("command", "none")
    /\ ControlEvent
    /\ command' = "idle"
    /\ handler' = [handler EXCEPT !["command"] = NoHandler, ![Orphan] = handler["command"]]
    /\ UNCHANGED <<db, edgeState, busy, history, subs, keeper, wait, reported, overlapped>>

OrphanEnds ==
    /\ handler[Orphan].pc \in {"done", "failed"}
    /\ handler' = [handler EXCEPT ![Orphan] = NoHandler]
    /\ UNCHANGED <<db, edgeState, busy, history, subs, keeper, command, wait, controlWorld>>

\* Subscribe. Without an edge the keeper tries again, and the wait is an error.
SubscribeTo(c) ==
    /\ ClientAt(c) = "subscribe"
    /\ \/ /\ edgeState.up
          /\ subs' = [subs EXCEPT ![c] = [NoSub EXCEPT !.open = TRUE, !.replay = Replay(c)]]
          /\ Client(c, "watch")
          /\ UNCHANGED wait
       \/ /\ ~edgeState.up
          /\ Client(c, IF c = "keeper" THEN "push" ELSE "idle")
          /\ wait' = IF c = "keeper" THEN wait ELSE [wait EXCEPT !.end = "error"]
          /\ UNCHANGED subs
    /\ UNCHANGED <<db, edgeState, busy, history, handler, controlWorld>>

\* The subscription ends: the keeper starts again (after edgeKeeperRetry), the
\* command goes on to stop the replica.
Unsubscribe(c, how) ==
    /\ subs' = [subs EXCEPT ![c] = NoSub]
    /\ Client(c, IF c = "keeper" THEN "push" ELSE "idle")
    /\ wait' = IF c = "keeper" THEN wait ELSE [wait EXCEPT !.end = how]

Backlog(c) == subs[c].replay \o subs[c].ch

\* The next event reaches fn, which ends the wait at the drain it waits for.
Receive(c) ==
    /\ subs[c].open /\ Backlog(c) # <<>>
    /\ \/ /\ c = "command" /\ Head(Backlog(c)) = db
          /\ Unsubscribe(c, "drained")
       \/ /\ ~(c = "command" /\ Head(Backlog(c)) = db)
          /\ LET s == subs[c]
             IN  subs' = [subs EXCEPT ![c] = IF s.replay # <<>> THEN [s EXCEPT !.replay = Tail(@)]
                                                                ELSE [s EXCEPT !.ch = Tail(@)]]
          /\ UNCHANGED <<keeper, command, wait>>
    /\ UNCHANGED <<db, edgeState, busy, history, handler, controlWorld>>

\* Faulty variant: a subscriber that was dropped takes it for the end of the drain.
MutTooSlow(c) ==
    /\ subs[c].lagged /\ Backlog(c) = <<>>
    /\ Unsubscribe(c, "drained")
    /\ UNCHANGED <<db, edgeState, busy, history, handler, controlWorld>>

\* ErrSubscriberTooSlow, once what was buffered is read.
TooSlow(c) ==
    /\ subs[c].lagged /\ Backlog(c) = <<>>
    /\ Unsubscribe(c, "error")
    /\ UNCHANGED <<db, edgeState, busy, history, handler, controlWorld>>

\* Faulty variant: the wait has no deadline of its own.
MutDeadline ==
    /\ FALSE
    /\ UNCHANGED controlVars

\* waitDrain's own timeout.
Deadline ==
    /\ command = "watch"
    /\ Unsubscribe("command", "deadline")
    /\ UNCHANGED <<db, edgeState, busy, history, handler, controlWorld>>

-----------------------------------------------------------------------------
(* The edge process stops (shutdown, or it is killed) and starts again. *)

\* Every connection ends. A wait in the middle of a stream that just ends is
\* over without an error (Subscribe returns nil), one that is reset is not.
EdgeStops ==
    /\ edgeState.up /\ ControlEvent
    /\ edgeState' = [edgeState EXCEPT !.up = FALSE]
    /\ handler' = [h \in DOMAIN handler |-> NoHandler]
    /\ subs' = [c \in Clients |-> NoSub]
    /\ busy' = {} /\ history' = <<>>
    /\ keeper' = CASE keeper = "watch" -> "push" [] keeper = "answer" -> "subscribe" [] OTHER -> keeper
    /\ command' = IF command \in {"watch", "answer"} THEN "idle" ELSE command
    /\ \/ /\ command = "watch"
          /\ \E how \in {"drained", "error"} : wait' = [end |-> how, quiet |-> FALSE]
       \/ command # "watch" /\ UNCHANGED wait
    /\ UNCHANGED <<db, reported>>
    /\ overlapped' = FALSE

\* New and Serve: the table of the file, its ingress; the events of the first
\* install are dropped, only the table's own is published.
EdgeStarts ==
    /\ ~edgeState.up
    /\ edgeState' = [edgeState EXCEPT !.up = TRUE, !.table = edgeState.file, !.ingress = edgeState.file]
    /\ history' = <<[of |-> Other, old |-> FALSE]>>
    /\ UNCHANGED <<db, busy, subs, handler, keeper, command, wait, ctlEvents, reported, overlapped>>

EdgeSteps == \E h \in DOMAIN handler : ServePush(h)
ClientSteps == \E c \in Clients : SendTable(c) \/ Answer(c) \/ SubscribeTo(c) \/ Receive(c) \/ TooSlow(c)

ControlNext ==
    \/ EdgeSteps \/ ClientSteps \/ OrphanEnds
    \/ RecordTable \/ Cancel \/ Deadline
    \/ Drained \/ OtherEvent \/ EdgeStops \/ EdgeStarts

\* Each goroutine goes on, the deadline of a wait comes, systemd starts the edge.
ClientStep(c) == SendTable(c) \/ Answer(c) \/ SubscribeTo(c) \/ Receive(c) \/ TooSlow(c)
ControlFairness ==
    /\ \A h \in Clients \cup {Orphan} : WF_controlVars(ServePush(h))
    /\ \A c \in Clients :
          WF_controlVars(ClientStep(c))
    /\ WF_controlVars(Deadline) /\ WF_controlVars(EdgeStarts)

ControlSpec == ControlInit /\ [][ControlNext]_controlVars /\ ControlFairness

-----------------------------------------------------------------------------
(* Properties. *)

ControlTypeOK ==
    /\ db \in 0..MaxTable /\ {edgeState.table, edgeState.file, edgeState.ingress} \subseteq 0..db
    /\ keeper \in {"push", "answer", "subscribe", "watch"}
    /\ command \in {"idle", "push", "answer", "subscribe", "watch"}
    /\ busy \subseteq 1..db /\ Len(history) <= HistoryLimit
    /\ \A c \in Clients : Len(subs[c].ch) <= SubscriberBuffer /\ Len(subs[c].replay) <= HistoryLimit

\* A wait that ends as "the last request finished" was told of the drain, or
\* the edge went away under it. (waitDrain, broker.publish, Subscribe.)
DrainedMeansReported ==
    (wait.end = "drained" /\ wait.quiet) => db \in reported

\* No report falls between the replay and the channel: what was reported since
\* the flip, and is not older than the history, is on its way to a waiter that
\* keeps up. (broker.subscribe replays and registers under one lock.)
NoReportMissed ==
    (command = "watch" /\ ~subs["command"].lagged /\ edgeState.up
        /\ \E i \in DOMAIN history : history[i] = [of |-> db, old |-> FALSE]) =>
    \E i \in DOMAIN Backlog("command") : Backlog("command")[i] = db

\* Unless the push of a cancelled command overlapped with another, a push that
\* is answered well leaves the file a restart reads and the private listener
\* as the table that is served. (Edge.PushTable.)
AnswerMeansSaved ==
    \A c \in Clients :
        (HandlerAt(c, "done") /\ ~overlapped /\ HandlerAt(Orphan, "none")) =>
            edgeState.file = edgeState.table /\ edgeState.ingress = edgeState.table

\* A rollout never waits for a drain for ever. (waitDrain; a restart of the
\* edge forgets the drain, so only the deadline ends some waits.)
WaitsEnd == command = "watch" ~> command # "watch"

\* A wait that ends well was told of the drain, no report falls between the
\* replay and the channel of a subscription, and a push that was answered is
\* served, saved and private.
DrainsTold == ControlTypeOK /\ DrainedMeansReported /\ NoReportMissed /\ AnswerMeansSaved
=============================================================================
