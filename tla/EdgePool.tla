------------------------------ MODULE EdgePool ------------------------------
(***************************************************************************)
(* One route of the edge process (internal/edge): the pool of replicas     *)
(* behind it, the requests the proxy sends there, and the tables the       *)
(* daemon pushes while they run.  What the pool counts is EdgeCounts.      *)
(*                                                                         *)
(* A request is a goroutine of the HTTP server.  It takes the pool's mutex *)
(* several times (Pick, begin, Mark, end) and anything may happen between  *)
(* two of them, so each is an action of its own.  A push and a sweep hold  *)
(* the mutex from beginning to end.                                        *)
(*                                                                         *)
(* The failure window and the drain deadline end at a moment the model     *)
(* leaves open.                                                            *)
(***************************************************************************)
EXTENDS Integers, FiniteSets

CONSTANTS
    Replica,     \* the replica indexes, numbers from 1
    Port,        \* the ports containers are given, numbers from 1
    Request,     \* the requests that arrive
    Retryable,   \* the ones retryable() lets the proxy send again
    Tables,      \* the tables the daemon may push for this route
    MaxInstalls, \* bound: tables installed
    MaxRestarts  \* bound: restarts of the edge process

\* The states the pool tells apart; "held" stands for every listed state
\* that is neither routable nor draining, "none" for a replica not listed.
States == {"none", "active", "draining", "held"}
Table == [Replica -> [port : Port \cup {0}, state : States]]

ASSUME EdgePoolAssumption ==
    /\ Replica \subseteq Nat \ {0}
    /\ Port \subseteq Nat \ {0}
    /\ Retryable \subseteq Request
    /\ Tables \subseteq Table
    /\ Tables # {}
    /\ \A t \in Tables, r \in Replica : (t[r].port = 0) <=> (t[r].state = "none")
    /\ MaxInstalls \in Nat \ {0}
    /\ MaxRestarts \in Nat

\* The targets of a route are a list.
ASSUME ReplicasFinite == IsFiniteSet(Replica)

VARIABLES
    pool,      \* RoutePool.targets, by replica
    next,      \* RoutePool.next, where the rotation continues
    saved,     \* routes.json, the table a restart loads
    req,       \* each request's goroutine
    installs,  \* tables installed so far
    restarts,  \* restarts so far
    reports    \* history: EventDrained events of each replica's current drain

vars == <<pool, next, saved, req, installs, restarts, reports>>

\* targetState.  `inc` is the incarnation: the code numbers every targetState
\* it makes and only asks whether two of one replica are the same, so the
\* number of the install that made it serves as well.
Target ==
    [port : Port \cup {0}, state : States, failed : BOOLEAN, conns : SUBSET Request,
     reported : BOOLEAN, inc : Nat]
Absent ==
    [port |-> 0, state |-> "none", failed |-> FALSE, conns |-> {},
     reported |-> FALSE, inc |-> 0]

Listed == {r \in Replica : pool[r].state # "none"}
Routable(r) == pool[r].state = "active"

-----------------------------------------------------------------------------
(* Installing a table (RoutePool.install, Router.Install). *)

Fresh(want, inc) ==
    [Absent EXCEPT !.port = want.port, !.state = want.state, !.inc = inc]

\* Faulty variants: a second drain is never reported; a push forgets what runs.
MutKeepReported(ts, want) == [ts EXCEPT !.state = want.state]
MutForgetConns(ts, want) ==
    IF ts.state = want.state THEN ts
    ELSE [ts EXCEPT !.state = want.state, !.conns = {}, !.reported = FALSE]

\* A target that stays: only a change of state touches it.
Restate(ts, want) ==
    IF ts.state = want.state THEN ts
    ELSE [ts EXCEPT !.state = want.state,
                    !.reported = IF want.state = "draining" THEN FALSE ELSE @]

\* The same replica on the same port is the same container; anything else is
\* a new targetState, and what ran on the old one is no longer tracked.
Stays(p, t, r) == p[r].state # "none" /\ t[r].state # "none" /\ p[r].port = t[r].port

Wanted(p, t, at, r) ==
    IF t[r].state = "none" THEN Absent
    ELSE IF Stays(p, t, r) THEN Restate(p[r], t[r])
    ELSE Fresh(t[r], at)

\* A drain with nothing in flight is over as soon as the table is in.
DrainsNow(ts) == ts.state = "draining" /\ ts.conns = {} /\ ~ts.reported
Settled(ts) == [ts EXCEPT !.reported = @ \/ DrainsNow(ts)]

Installed(p, t, at) == [r \in Replica |-> Settled(Wanted(p, t, at, r))]

\* A target that begins a drain has no EventDrained of it yet.
ReportsAfter(p, t, at) ==
    [r \in Replica |->
        (IF Stays(p, t, r) /\ p[r].state = t[r].state THEN reports[r] ELSE 0)
        + (IF DrainsNow(Wanted(p, t, at, r)) THEN 1 ELSE 0)]

Cursor(t) == IF next >= Cardinality({r \in Replica : t[r].state # "none"}) THEN 0 ELSE next

Install(t) ==
    /\ installs' = installs + 1
    /\ pool' = Installed(pool, t, installs')
    /\ next' = Cursor(t)
    /\ reports' = ReportsAfter(pool, t, installs')

-----------------------------------------------------------------------------
(* What the daemon does (Edge.PushTable). *)

\* The table is installed before it is saved, and stays when saving fails.
PushTable(t) ==
    /\ installs < MaxInstalls
    /\ Install(t)
    /\ saved' \in {t, saved}
    /\ UNCHANGED <<req, restarts>>

-----------------------------------------------------------------------------
(* A request (Proxy.ServeHTTP, Proxy.forward). *)

Pcs == {"idle", "picked", "open", "release", "retry", "done"}
Outcomes == {"ok", "error", "dial"}
Idle == [pc |-> "idle", replica |-> 0, port |-> 0, inc |-> 0, cut |-> FALSE,
         out |-> "ok", again |-> FALSE]
Finished == [Idle EXCEPT !.pc = "done"]

\* The pool in rotation: the distance of a replica from the cursor.
Rank(r) == Cardinality({s \in Listed : s < r})
Distance(r) == (Rank(r) - next + Cardinality(Listed)) % Cardinality(Listed)
Skipped(q) == IF req[q].again THEN {req[q].replica} ELSE {}

Eligible(q) == {r \in Listed : Routable(r) /\ ~pool[r].failed /\ r \notin Skipped(q)}

\* RoutePool.Pick, at the first attempt and at the retry.
Pick(q) ==
    /\ req[q].pc \in {"idle", "retry"}
    /\ \E r \in Eligible(q) :
        /\ \A s \in Eligible(q) : Distance(r) <= Distance(s)
        /\ req' = [req EXCEPT ![q] = [@ EXCEPT !.pc = "picked", !.replica = r, !.port = pool[r].port]]
        /\ next' = (Rank(r) + 1) % Cardinality(Listed)
    /\ UNCHANGED <<pool, saved, installs, restarts, reports>>

\* Nothing takes requests: a 502, at the first attempt or at the retry.
PickNone(q) ==
    /\ req[q].pc \in {"idle", "retry"}
    /\ Eligible(q) = {}
    /\ req' = [req EXCEPT ![q] = Finished]
    /\ UNCHANGED <<pool, next, saved, installs, restarts, reports>>

\* RoutePool.begin finds the replica by its index, whatever became of it
\* since Pick, and asks for no state; the address dialled is the picked one.
Begin(q) ==
    /\ req[q].pc = "picked"
    /\ LET r == req[q].replica IN
        \/ /\ r \in Listed
           /\ pool' = [pool EXCEPT ![r].conns = @ \cup {q}]
           /\ req' = [req EXCEPT ![q] = [@ EXCEPT !.pc = "open", !.inc = pool[r].inc]]
        \/ /\ r \notin Listed
           /\ req' = [req EXCEPT ![q] = [@ EXCEPT !.pc = "release", !.out = "error"]]
           /\ UNCHANGED pool
    /\ UNCHANGED <<next, saved, installs, restarts, reports>>

\* The replica answers, or the exchange breaks off after the connection.
Answer(q, out) ==
    /\ req[q].pc = "open"
    /\ req' = [req EXCEPT ![q] = [@ EXCEPT !.pc = "release", !.out = out]]
    /\ UNCHANGED <<pool, next, saved, installs, restarts, reports>>

\* The connection cannot be made: Mark(MarkFail) takes the replica, whatever
\* container it is now, out of the rotation for FailureWindow.
DialFails(q) ==
    /\ req[q].pc = "open"
    /\ req' = [req EXCEPT ![q] = [@ EXCEPT !.pc = "release", !.out = "dial"]]
    /\ pool' = [pool EXCEPT ![req[q].replica].failed = @ \/ req[q].replica \in Listed]
    /\ UNCHANGED <<next, saved, installs, restarts, reports>>

WindowEnds(r) ==
    /\ pool[r].failed
    /\ pool' = [pool EXCEPT ![r].failed = FALSE]
    /\ UNCHANGED <<next, saved, req, installs, restarts, reports>>

\* Faulty variants: a drain is reported again, or while requests still run.
MutReportsAgain(ts, q) == q \in ts.conns /\ ts.state = "draining" /\ ts.conns = {q}
MutReportsEarly(ts, q) == q \in ts.conns /\ ts.state = "draining" /\ ~ts.reported

\* RoutePool.release: is this the request whose end finishes the drain?
FinishesDrain(ts, q) ==
    q \in ts.conns /\ ts.state = "draining" /\ ts.conns = {q} /\ ~ts.reported

Retries(q) == req[q].out = "dial" /\ ~req[q].again /\ q \in Retryable

\* RoutePool.end, then the second attempt or the end of the request.
Release(q) ==
    /\ req[q].pc = "release"
    /\ LET r == req[q].replica
           ts == pool[r]
       IN  /\ pool' = [pool EXCEPT ![r].conns = @ \ {q}, ![r].reported = @ \/ FinishesDrain(ts, q)]
           /\ reports' = [reports EXCEPT ![r] = IF FinishesDrain(ts, q) THEN @ + 1 ELSE @]
           /\ req' = [req EXCEPT ![q] =
                        IF Retries(q)
                        THEN [Idle EXCEPT !.pc = "retry", !.replica = r, !.again = TRUE]
                        ELSE Finished]
    /\ UNCHANGED <<next, saved, installs, restarts>>

-----------------------------------------------------------------------------
(* The process: its sweeper and its restarts. *)

\* Router.Sweep: the drains in D are past their deadline.  What is still open
\* on them is cut, and each is reported with what was cut.
Sweep(D) ==
    /\ D # {}
    /\ \A r \in D : pool[r].state = "draining" /\ ~pool[r].reported
    /\ pool' = [r \in Replica |->
                  IF r \in D THEN [pool[r] EXCEPT !.conns = {}, !.reported = TRUE] ELSE pool[r]]
    /\ req' = [q \in Request |->
                 IF \E r \in D : q \in pool[r].conns THEN [req[q] EXCEPT !.cut = TRUE] ELSE req[q]]
    /\ reports' = [r \in Replica |-> IF r \in D THEN reports[r] + 1 ELSE reports[r]]
    /\ UNCHANGED <<next, saved, installs, restarts>>

\* A new pool over a loaded table: NewPool builds the events of its first
\* install and drops them.
NewPool(t) ==
    /\ installs' = installs + 1
    /\ pool' = Installed([r \in Replica |-> Absent], t, installs')
    /\ next' = 0
    /\ reports' = [r \in Replica |-> IF pool'[r].reported THEN 1 ELSE 0]

\* The process dies with its requests and New loads the saved table.
Restart ==
    /\ restarts < MaxRestarts
    /\ installs < MaxInstalls
    /\ NewPool(saved)
    /\ restarts' = restarts + 1
    /\ req' = [q \in Request |-> IF req[q].pc = "idle" THEN req[q] ELSE Finished]
    /\ UNCHANGED saved

-----------------------------------------------------------------------------
Init ==
    /\ \E t \in Tables :
        /\ saved = t
        /\ pool = Installed([r \in Replica |-> Absent], t, 1)
    /\ next = 0
    /\ req = [q \in Request |-> Idle]
    /\ installs = 1
    /\ restarts = 0
    /\ reports = [r \in Replica |-> IF pool[r].reported THEN 1 ELSE 0]

Serve(q) ==
    \/ Pick(q) \/ PickNone(q) \/ Begin(q)
    \/ \E out \in {"ok", "error"} : Answer(q, out)
    \/ DialFails(q) \/ Release(q)

Next ==
    \/ \E t \in Tables : PushTable(t)
    \/ \E q \in Request : Serve(q)
    \/ \E r \in Replica : WindowEnds(r)
    \/ \E D \in SUBSET Replica : Sweep(D)
    \/ Restart

\* The sweeper ticks every sweepInterval and every drain deadline passes in
\* the end, so a drain that stays open is swept.
Fairness == \A r \in Replica : WF_vars(\E D \in SUBSET Replica : r \in D /\ Sweep(D))

Spec == Init /\ [][Next]_vars
LiveSpec == Spec /\ Fairness

-----------------------------------------------------------------------------
(* Properties. *)

\* Type invariant, and the rotation's cursor stays inside the pool.
TypeOK ==
    /\ pool \in [Replica -> Target]
    /\ next \in Nat
    /\ next = 0 \/ next < Cardinality(Listed)
    /\ saved \in Tables
    /\ req \in [Request -> [pc : Pcs, replica : Replica \cup {0}, port : Port \cup {0}, inc : Nat,
                            cut : BOOLEAN, out : Outcomes, again : BOOLEAN]]
    /\ installs \in 1..MaxInstalls
    /\ restarts \in 0..MaxRestarts
    /\ reports \in [Replica -> Nat]

Holding == {"open", "release"}
OpenOn(r) ==
    {q \in Request : /\ req[q].pc \in Holding
                     /\ req[q].replica = r
                     /\ req[q].inc = pool[r].inc
                     /\ ~req[q].cut}

\* The pool's in-flight set of a listed replica is exactly the requests the
\* proxy registered on that container and has neither released nor had cut:
\* a push, a retry, a sweep and a replaced container neither lose one (the
\* drain would end under it) nor leak one (the drain would never end).
InflightExact == \A r \in Listed : pool[r].conns = OpenOn(r)

\* A drain is reported at most once, however pushes, sweeps, late begins and
\* ends interleave.
DrainedOnce == \A r \in Replica : reports[r] <= 1

\* The step that reports a drain, be it a push, the last release or a sweep,
\* leaves no request running on the container: the last one has ended, or the
\* sweep has cut what was open.
DrainedIdle == [][\A r \in Replica : reports'[r] = reports[r] + 1 => OpenOn(r)' = {}]_vars

\* Once a drain is reported nothing runs on the replica.
DrainedStaysIdle == \A r \in Listed : pool[r].state = "draining" /\ pool[r].reported => OpenOn(r) = {}

\* Every drain ends in a report, unless the target leaves the state first.
DrainEnds ==
    \A r \in Replica :
        (pool[r].state = "draining" /\ reports[r] = 0) ~> (reports[r] > 0 \/ pool[r].state # "draining")
=============================================================================
