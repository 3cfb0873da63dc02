----------------------------- MODULE EdgeCounts -----------------------------
(***************************************************************************)
(* What the edge counts behind one route (internal/edge/counts.go) and     *)
(* what a deploy's watch reads of it (internal/env/deploy_watch.go).       *)
(*                                                                         *)
(* Every container behind the route has a counter, the route has one for   *)
(* the requests no container took, and each install of a table takes a     *)
(* mark of them all.  A reader asks for what was counted since an instant  *)
(* and gets the difference to a mark.                                      *)
(*                                                                         *)
(* Time is the number of tables installed so far: an instant read between  *)
(* two installs is after the first and before the second.                  *)
(***************************************************************************)
EXTENDS Integers, Sequences, FiniteSets

CONSTANTS
    Replica,     \* the replica indexes, numbers from 1
    Port,        \* the ports containers are given, numbers from 1
    Request,     \* the requests that arrive
    Tables,      \* the tables the daemon may push for this route: an active
                 \* replica has a port
    MaxMarks,    \* maxCountMarks
    MaxInstalls, \* bound: tables installed
    MaxRestarts  \* bound: restarts of the edge process

\* Port 0 is a replica that is not listed.
RouteTable == [Replica -> [port : Port \cup {0}, active : BOOLEAN]]

\* What the constants stand for in the code: numbers from 1, and one mark kept
\* at least (maxCountMarks).
Sizes ==
    /\ Replica \subseteq Nat \ {0} /\ Port \subseteq Nat \ {0}
    /\ Tables \subseteq RouteTable
    /\ MaxMarks \in Nat \ {0} /\ MaxInstalls \in Nat /\ MaxRestarts \in Nat

VARIABLES
    pool,      \* RoutePool.targets: port, state, incarnation and counter
    unrouted,  \* RoutePool.unrouted
    marks,     \* RoutePool.marks
    saved,     \* routes.json, the table a restart loads
    req,       \* each request's goroutine
    installs,  \* tables installed so far
    restarts,  \* restarts so far
    flip,      \* the flip a watch counts from: its instant and its install
    ledger     \* history: every count the proxy made

countVars == <<pool, unrouted, marks, saved, req, installs, restarts, flip, ledger>>

Zero == [requests |-> 0, errors |-> 0]
Plus(c, err) == [requests |-> c.requests + 1, errors |-> c.errors + (IF err THEN 1 ELSE 0)]

\* As in EdgePool, the install that made a targetState numbers it.
Absent == [port |-> 0, active |-> FALSE, inc |-> 0, counted |-> Zero]
Listed == {r \in Replica : pool[r].port # 0}
ActiveReplicas == {r \in Replica : pool[r].active}

-----------------------------------------------------------------------------
(* Marks (snapshot, markAt, counts). *)

Mark(p, u, at) ==
    [at |-> at, unrouted |-> u,
     per |-> [r \in Replica |-> [inc |-> p[r].inc, counted |-> p[r].counted]]]

\* Appends a mark and drops the oldest one over the limit.
Snapshot(ms, mark) ==
    LET all == Append(ms, mark)
    IN  IF Len(all) > MaxMarks THEN Tail(all) ELSE all

\* Faulty variant: the newest mark is taken whatever the instant asked for.
MutMarkAt(since) == marks[Len(marks)]

\* The last mark not after the instant, or the oldest one kept.  An instant
\* before the process started has no mark before it either, so clamping it to
\* the start, as Edge.Counts does, finds the same mark.
MarkAt(since) ==
    LET before == {i \in DOMAIN marks : marks[i].at <= since}
    IN  IF before = {} THEN marks[1]
        ELSE marks[CHOOSE i \in before : \A j \in before : j <= i]

AtLeastZero(n) == IF n < 0 THEN 0 ELSE n
Sub(c, o) ==
    [requests |-> AtLeastZero(c.requests - o.requests), errors |-> AtLeastZero(c.errors - o.errors)]

\* Faulty variant: a mark of another container of the replica is subtracted.
MutCountsOf(r, since) == Sub(pool[r].counted, MarkAt(since).per[r].counted)

CountsOf(r, since) ==
    LET m == MarkAt(since).per[r]
    IN  IF m.inc = pool[r].inc THEN Sub(pool[r].counted, m.counted) ELSE pool[r].counted
UnroutedSince(since) == Sub(unrouted, MarkAt(since).unrouted)

-----------------------------------------------------------------------------
Idle == [pc |-> "idle", replica |-> 0, port |-> 0, again |-> FALSE]
RequestOver == [Idle EXCEPT !.pc = "done"]

(* Installing a table (RoutePool.install, Edge.PushTable). *)

Installed(p, t, at) ==
    [r \in Replica |->
        IF t[r].port = 0 THEN Absent
        ELSE IF p[r].port = t[r].port THEN [p[r] EXCEPT !.active = t[r].active]
        ELSE [Absent EXCEPT !.port = t[r].port, !.active = t[r].active, !.inc = at]]

InstallTable(t) ==
    /\ installs < MaxInstalls
    /\ installs' = installs + 1
    /\ pool' = Installed(pool, t, installs')
    /\ marks' = Snapshot(marks, Mark(pool', unrouted, installs'))
    /\ saved' \in {t, saved}
    /\ UNCHANGED <<unrouted, req, restarts, ledger>>

\* A push that has nothing to do with the watched flip.
PushOther(t) == InstallTable(t) /\ UNCHANGED flip

\* A deploy reads the clock when it builds the flipped targets (flipTargets);
\* it records them and pushes the table only after that.
ReadClock ==
    /\ flip.since = 0
    /\ flip' = [flip EXCEPT !.since = installs]
    /\ UNCHANGED <<pool, unrouted, marks, saved, req, installs, restarts, ledger>>

FlipPush(t) ==
    /\ flip.since # 0 /\ flip.at = 0
    /\ InstallTable(t)
    /\ flip' = [flip EXCEPT !.at = installs']

\* The process dies with its requests; a new pool counts from nothing.
EdgeRestarts ==
    /\ restarts < MaxRestarts
    /\ installs < MaxInstalls
    /\ installs' = installs + 1
    /\ pool' = Installed([r \in Replica |-> Absent], saved, installs')
    /\ unrouted' = Zero
    /\ marks' = <<Mark(pool', Zero, installs')>>
    /\ restarts' = restarts + 1
    /\ req' = [q \in Request |-> IF req[q].pc = "idle" THEN req[q] ELSE RequestOver]
    /\ ledger' = {}
    /\ UNCHANGED <<saved, flip>>

-----------------------------------------------------------------------------
(* Requests (Proxy.ServeHTTP, countRequest, countUnrouted). *)

Takers(q) == ActiveReplicas \ (IF req[q].again THEN {req[q].replica} ELSE {})

\* Which taker the rotation offers is EdgePool's matter: here it is any.
SendRequest(q, r) ==
    /\ req[q].pc \in {"idle", "retry"}
    /\ r \in Takers(q)
    /\ req' = [req EXCEPT ![q] = [@ EXCEPT !.pc = "sent", !.replica = r, !.port = pool[r].port]]
    /\ UNCHANGED <<pool, unrouted, marks, saved, installs, restarts, flip, ledger>>

Refuse(q) ==
    /\ req[q].pc \in {"idle", "retry"}
    /\ Takers(q) = {}
    /\ req' = [req EXCEPT ![q].pc = "refused"]
    /\ UNCHANGED <<pool, unrouted, marks, saved, installs, restarts, flip, ledger>>

Entry(q, to, err) ==
    [q |-> q, again |-> req[q].again, replica |-> req[q].replica, port |-> req[q].port,
     to |-> to, err |-> err, at |-> installs]

CountUnrouted(q) ==
    /\ req[q].pc = "refused"
    /\ unrouted' = Plus(unrouted, TRUE)
    /\ ledger' = ledger \cup {Entry(q, 0, TRUE)}
    /\ req' = [req EXCEPT ![q] = RequestOver]
    /\ UNCHANGED <<pool, marks, saved, installs, restarts, flip>>

\* Faulty variant: what the replica no longer has is not counted at all.
MutCountOn(q, err) ==
    LET r == req[q].replica IN
    /\ pool' = IF r \in Listed THEN [pool EXCEPT ![r].counted = Plus(@, err)] ELSE pool
    /\ ledger' = ledger \cup {Entry(q, pool[r].inc, err)}
    /\ UNCHANGED unrouted

\* On the target that has the index by now or, when none has, on the route.
CountOn(q, err) ==
    LET r == req[q].replica IN
    /\ ledger' = ledger \cup {Entry(q, pool[r].inc, err)}
    /\ \/ /\ r \in Listed
          /\ pool' = [pool EXCEPT ![r].counted = Plus(@, err)]
          /\ UNCHANGED unrouted
       \/ /\ r \notin Listed
          /\ unrouted' = Plus(unrouted, err)
          /\ UNCHANGED pool

\* The exchange ended, with or without an error.
CountEnd(q, err) ==
    /\ req[q].pc = "sent"
    /\ CountOn(q, err)
    /\ req' = [req EXCEPT ![q] = RequestOver]
    /\ UNCHANGED <<marks, saved, installs, restarts, flip>>

\* The connection failed: counted, and sent once more to another replica.
CountRetry(q) ==
    /\ req[q].pc = "sent" /\ ~req[q].again
    /\ CountOn(q, TRUE)
    /\ req' = [req EXCEPT ![q] = [@ EXCEPT !.pc = "retry", !.again = TRUE]]
    /\ UNCHANGED <<marks, saved, installs, restarts, flip>>

-----------------------------------------------------------------------------
\* A new pool is made from the table on disk.
StartWith(table) ==
    /\ saved = table
    /\ pool = Installed([r \in Replica |-> Absent], saved, 1)
    /\ unrouted = Zero
    /\ marks = <<Mark(pool, Zero, 1)>>
    /\ req = [q \in Request |-> Idle]
    /\ installs = 1
    /\ restarts = 0
    /\ flip = [since |-> 0, at |-> 0]
    /\ ledger = {}

CountsInit == \E table \in Tables : StartWith(table)

Serve(q) ==
    \/ \E r \in Replica : SendRequest(q, r)
    \/ Refuse(q) \/ CountUnrouted(q)
    \/ \E err \in BOOLEAN : CountEnd(q, err)
    \/ CountRetry(q)

CountsNext ==
    \/ \E t \in Tables : PushOther(t) \/ FlipPush(t)
    \/ ReadClock
    \/ EdgeRestarts
    \/ \E q \in Request : Serve(q)

CountsSpec == CountsInit /\ [][CountsNext]_countVars

-----------------------------------------------------------------------------
(* Properties. *)

On(r, at) == {e \in ledger : e.to = pool[r].inc /\ e.replica = r /\ e.at >= at}
OnRoute(at) == {e \in ledger : e.to = 0 /\ e.at >= at}
Errors(E) == {e \in E : e.err}

\* For every instant, what the edge says it counted since then, on a replica
\* and on the route, requests and errors, is what the proxy counted after the
\* install whose mark answers for the instant: replaced containers, restarts
\* and dropped marks subtract nothing that is not theirs.
SinceExact ==
    \A since \in 0..installs :
        LET at == MarkAt(since).at IN
        /\ \A r \in Listed :
            CountsOf(r, since) = [requests |-> Cardinality(On(r, at)),
                                  errors |-> Cardinality(Errors(On(r, at)))]
        /\ UnroutedSince(since) = [requests |-> Cardinality(OnRoute(at)),
                                   errors |-> Cardinality(Errors(OnRoute(at)))]

\* A watch misses nothing a replica answered since its flip, whatever tables
\* are pushed for other environments meanwhile, as long as the mark of the
\* flip has not fallen off the list.
WindowKept ==
    flip.at # 0 /\ marks[1].at <= flip.at =>
        \A r \in Listed : CountsOf(r, flip.since).requests >= Cardinality(On(r, flip.at))

\* What is reported since an instant is what was counted after its mark, and a
\* watch misses nothing answered since its flip.
CountsExact == SinceExact /\ WindowKept
=============================================================================
