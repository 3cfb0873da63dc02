--------------------------- MODULE EdgePoolProofs ---------------------------
(***************************************************************************)
(* The pool keeps an exact account of what runs behind a route and reports *)
(* a drain at most once, for any number of replicas, requests and tables.  *)
(*                                                                         *)
(* The invariant adds to the two properties what they rest on: an          *)
(* incarnation is never newer than the last install, so a new targetState  *)
(* is one no request is registered on; only a registered request can have  *)
(* been cut; and a drain that is not over has no report.                   *)
(***************************************************************************)
EXTENDS EdgePool, FiniteSetTheorems, TLAPS

Reqs == [pc : Pcs, replica : Replica \cup {0}, port : Port \cup {0}, inc : Nat,
         cut : BOOLEAN, out : Outcomes, again : BOOLEAN]

Types ==
    /\ pool \in [Replica -> Target]
    /\ req \in [Request -> Reqs]
    /\ saved \in Tables
    /\ installs \in Nat
    /\ reports \in [Replica -> Nat]

\* Where the replica and the incarnation of a request come from.
Registered ==
    \A q \in Request :
        /\ req[q].inc <= installs
        /\ req[q].pc \in {"picked", "open", "release", "retry"} => req[q].replica \in Replica
        /\ req[q].pc \notin Holding => ~req[q].cut

\* The targets the pool lists are the ones an install made.
Numbered ==
    \A r \in Replica :
        /\ pool[r].inc <= installs
        /\ pool[r].state # "none" => pool[r].inc > 0
        /\ pool[r].state = "none" => pool[r].conns = {}

OpenDrains ==
    \A r \in Replica :
        /\ reports[r] <= 1
        /\ pool[r].state = "draining" /\ ~pool[r].reported => reports[r] = 0

PoolInv == Types /\ Registered /\ Numbered /\ InflightExact /\ OpenDrains

USE EdgePoolAssumption

-----------------------------------------------------------------------------
(* What an install does to one replica. *)

\* A new targetState: nothing is registered on it, and its drain, if it is in
\* one, is over at once.
LEMMA FreshTarget ==
    ASSUME NEW t \in Tables, NEW at \in Nat, NEW r \in Replica, t[r].state # "none"
    PROVE  /\ Fresh(t[r], at) \in Target
           /\ Fresh(t[r], at).conns = {}
           /\ Fresh(t[r], at).inc = at
           /\ Fresh(t[r], at).state = t[r].state
           /\ ~Fresh(t[r], at).reported
  BY DEF Fresh, Absent, Target, Table, States

\* A target that stays keeps its container and what runs on it.
LEMMA KeptTarget ==
    ASSUME NEW ts \in Target, NEW t \in Tables, NEW r \in Replica
    PROVE  /\ Restate(ts, t[r]) \in Target
           /\ Restate(ts, t[r]).conns = ts.conns
           /\ Restate(ts, t[r]).inc = ts.inc
           /\ Restate(ts, t[r]).state = t[r].state
           /\ ts.state = t[r].state => Restate(ts, t[r]).reported = ts.reported
  BY DEF Restate, Target, Table, States

\* Settling a target changes nothing but the report.
LEMMA SettledTarget ==
    ASSUME NEW ts \in Target
    PROVE  /\ Settled(ts) \in Target
           /\ Settled(ts).conns = ts.conns
           /\ Settled(ts).inc = ts.inc
           /\ Settled(ts).state = ts.state
           /\ Settled(ts).reported <=> (ts.reported \/ DrainsNow(ts))
  BY DEF Settled, Target, DrainsNow

\* What Installed makes of a replica: absent, kept or new.
LEMMA InstalledTarget ==
    ASSUME NEW p \in [Replica -> Target], NEW t \in Tables, NEW at \in Nat, NEW r \in Replica
    PROVE  LET n == Installed(p, t, at)[r] IN
           /\ n \in Target
           /\ n.state = t[r].state
           /\ t[r].state = "none" => n.conns = {} /\ n.inc = 0
           /\ t[r].state # "none" /\ Stays(p, t, r) => n.conns = p[r].conns /\ n.inc = p[r].inc
           /\ t[r].state # "none" /\ ~Stays(p, t, r) => n.conns = {} /\ n.inc = at
           /\ n.reported <=> (Wanted(p, t, at, r).reported \/ DrainsNow(Wanted(p, t, at, r)))
<1> DEFINE w == Wanted(p, t, at, r)
<1>1. Absent \in Target /\ Absent.state = "none" /\ Absent.conns = {} /\ Absent.inc = 0
  BY DEF Absent, Target, States
<1>2. /\ w \in Target
      /\ w.state = t[r].state
      /\ t[r].state = "none" => w.conns = {} /\ w.inc = 0
      /\ t[r].state # "none" /\ Stays(p, t, r) => w.conns = p[r].conns /\ w.inc = p[r].inc
      /\ t[r].state # "none" /\ ~Stays(p, t, r) => w.conns = {} /\ w.inc = at
  <2>1. CASE t[r].state = "none"
    BY <2>1, <1>1 DEF Wanted
  <2>2. CASE t[r].state # "none" /\ Stays(p, t, r)
    <3>1. w = Restate(p[r], t[r]) BY <2>2 DEF Wanted
    <3> QED BY <2>2, <3>1, KeptTarget
  <2>3. CASE t[r].state # "none" /\ ~Stays(p, t, r)
    <3>1. w = Fresh(t[r], at) BY <2>3 DEF Wanted
    <3> QED BY <2>3, <3>1, FreshTarget
  <2> QED BY <2>1, <2>2, <2>3
<1>3. Installed(p, t, at)[r] = Settled(w) BY DEF Installed
<1> HIDE DEF w
<1>4. QED BY <1>2, <1>3, SettledTarget DEF w

-----------------------------------------------------------------------------
(* Every step keeps the invariant. *)

\* Installing a table: a kept container keeps its requests, a new one has none.
LEMMA InstallStep ==
    ASSUME PoolInv, NEW t \in Tables, Install(t), UNCHANGED req, saved' \in Tables
    PROVE  PoolInv'
<1> USE DEF PoolInv
<1>1. installs' \in Nat /\ installs' = installs + 1
  BY DEF Install, Types
<1>2. \A r \in Replica : pool'[r] = Installed(pool, t, installs')[r]
  BY DEF Install
<1>3. pool \in [Replica -> Target] BY DEF Types
<1>4. Types'
  <2>1. pool' \in [Replica -> Target]
    <3>1. pool' = [r \in Replica |-> pool'[r]] BY DEF Install, Installed
    <3>2. \A r \in Replica : pool'[r] \in Target BY <1>1, <1>2, <1>3, InstalledTarget
    <3> QED BY <3>1, <3>2
  <2>2. reports' \in [Replica -> Nat]
    BY DEF Install, ReportsAfter, Types
  <2> QED BY <1>1, <2>1, <2>2 DEF Types
<1>5. Registered'
  BY <1>1 DEF Registered, Types, Reqs
<1>6. ASSUME NEW r \in Replica
      PROVE  /\ pool'[r].inc <= installs'
             /\ pool'[r].state # "none" => pool'[r].inc > 0
             /\ pool'[r].state = "none" => pool'[r].conns = {}
  <2>1. pool[r].inc \in Nat /\ pool[r].inc <= installs BY DEF Types, Numbered, Target
  <2>2. Stays(pool, t, r) => pool[r].inc > 0 BY DEF Stays, Numbered
  <2>3. /\ pool'[r].state = t[r].state
        /\ t[r].state = "none" => pool'[r].conns = {} /\ pool'[r].inc = 0
        /\ t[r].state # "none" /\ Stays(pool, t, r) => pool'[r].inc = pool[r].inc
        /\ t[r].state # "none" /\ ~Stays(pool, t, r) => pool'[r].inc = installs'
    BY <1>1, <1>2, <1>3, InstalledTarget
  <2>4. installs \in Nat BY DEF Types
  <2> QED BY <1>1, <2>1, <2>2, <2>3, <2>4
<1>7. ASSUME NEW r \in Replica, pool'[r].state # "none"
      PROVE  pool'[r].conns = OpenOn(r)'
  <2>1. CASE Stays(pool, t, r)
    <3>1. pool[r].conns = OpenOn(r) BY <2>1 DEF Stays, InflightExact, Listed
    <3>2. pool'[r].inc = pool[r].inc /\ pool'[r].conns = pool[r].conns
      BY <2>1, <1>1, <1>2, <1>3, InstalledTarget DEF Stays
    <3> QED BY <3>1, <3>2 DEF OpenOn
  <2>2. CASE ~Stays(pool, t, r)
    <3>1. pool'[r].inc = installs + 1 /\ pool'[r].conns = {}
      BY <1>7, <2>2, <1>1, <1>2, <1>3, InstalledTarget
    <3>2. \A q \in Request : req'[q].inc # installs + 1
      BY DEF Registered, Types, Reqs
    <3> QED BY <3>1, <3>2 DEF OpenOn
  <2> QED BY <2>1, <2>2
<1>8. ASSUME NEW r \in Replica
      PROVE  /\ reports'[r] <= 1
             /\ pool'[r].state = "draining" /\ ~pool'[r].reported => reports'[r] = 0
  <2> DEFINE w == Wanted(pool, t, installs', r)
             same == Stays(pool, t, r) /\ pool[r].state = t[r].state
  <2>1. reports'[r] = (IF same THEN reports[r] ELSE 0) + (IF DrainsNow(w) THEN 1 ELSE 0)
    BY DEF Install, ReportsAfter
  <2>2. same => w = pool[r]
    BY DEF Wanted, Stays, Restate
  <2>3. pool'[r].reported <=> (w.reported \/ DrainsNow(w))
    BY <1>1, <1>2, <1>3, InstalledTarget
  <2>4. reports[r] \in Nat /\ reports[r] <= 1 BY DEF Types, OpenDrains
  <2>5. pool[r].state = "draining" /\ ~pool[r].reported => reports[r] = 0 BY DEF OpenDrains
  <2>6. pool'[r].state = t[r].state BY <1>1, <1>2, <1>3, InstalledTarget
  <2>7. CASE same
    <3>1. DrainsNow(w) => pool[r].state = "draining" /\ ~pool[r].reported BY <2>7, <2>2 DEF DrainsNow
    <3> HIDE DEF w, same
    <3>2. pool'[r].state = "draining" /\ ~pool'[r].reported => reports[r] = 0
      BY <2>7, <2>2, <2>3, <2>5, <2>6 DEF same
    <3> QED BY <2>1, <2>2, <2>3, <2>4, <2>5, <2>7, <3>1, <3>2
  <2>8. CASE ~same
    <3> HIDE DEF w, same
    <3> QED BY <2>1, <2>3, <2>8
  <2> QED BY <2>7, <2>8
<1>9. Numbered' BY <1>6 DEF Numbered
<1>10. InflightExact' BY <1>7 DEF InflightExact, Listed
<1>11. OpenDrains' BY <1>8 DEF OpenDrains
<1> QED BY <1>4, <1>5, <1>9, <1>10, <1>11

\* The requests that wait and the ones that are over hold nothing.
LEMMA FinishedRequest ==
    /\ Finished \in Reqs /\ Idle \in Reqs
    /\ Finished.pc = "done" /\ Idle.pc = "idle"
    /\ Finished.pc \notin Holding /\ Idle.pc \notin Holding
    /\ Finished.pc \notin {"picked", "open", "release", "retry"}
    /\ Finished.inc = 0 /\ Idle.inc = 0
    /\ ~Finished.cut /\ ~Idle.cut
  BY DEF Finished, Idle, Reqs, Holding, Pcs, Outcomes

\* A new pool: no container of it is older than it, and no request survives.
LEMMA NewPoolStep ==
    ASSUME PoolInv, NewPool(saved), UNCHANGED saved,
           req' = [q \in Request |-> IF req[q].pc = "idle" THEN req[q] ELSE Finished]
    PROVE  PoolInv'
<1> USE DEF PoolInv
<1> DEFINE gone == [r \in Replica |-> Absent]
<1>1. installs' \in Nat /\ installs' = installs + 1 BY DEF NewPool, Types
<1>2. gone \in [Replica -> Target] BY DEF Absent, Target, States
<1>3. \A r \in Replica : pool'[r] = Installed(gone, saved, installs')[r] BY DEF NewPool
<1>4. saved \in Tables BY DEF Types
<1>5. \A r \in Replica : ~Stays(gone, saved, r) BY DEF Stays, Absent
<1>6. \A r \in Replica :
        /\ pool'[r] \in Target
        /\ pool'[r].conns = {}
        /\ pool'[r].state # "none" => pool'[r].inc = installs'
        /\ pool'[r].state = "none" => pool'[r].inc = 0
  <2> HIDE DEF gone
  <2> QED BY <1>1, <1>2, <1>3, <1>4, <1>5, InstalledTarget
<1>7. ASSUME NEW q \in Request
      PROVE  /\ req'[q] \in Reqs /\ req'[q].pc \notin Holding /\ ~req'[q].cut
             /\ req'[q].inc <= installs'
             /\ req'[q].pc \notin {"picked", "open", "release", "retry"}
  <2>1. CASE req[q].pc = "idle"
    <3>1. req'[q] = req[q] BY <2>1
    <3>2. req[q] \in Reqs /\ req[q].inc <= installs /\ req[q].inc \in Nat /\ installs \in Nat
      BY DEF Types, Registered, Reqs
    <3>3. ~req[q].cut BY <2>1 DEF Registered, Holding
    <3> QED BY <1>1, <2>1, <3>1, <3>2, <3>3 DEF Holding
  <2>2. CASE req[q].pc # "idle"
    <3>1. req'[q] = Finished BY <2>2
    <3> QED BY <1>1, <3>1, FinishedRequest
  <2> QED BY <2>1, <2>2
<1>8. Types'
  <2>1. pool' \in [Replica -> Target]
    <3>1. pool' = [r \in Replica |-> pool'[r]] BY DEF NewPool, Installed
    <3> QED BY <3>1, <1>6
  <2>2. reports' \in [Replica -> Nat] BY DEF NewPool
  <2>3. req' \in [Request -> Reqs] BY <1>7
  <2> QED BY <1>1, <2>1, <2>2, <2>3 DEF Types
<1>9. Registered' BY <1>7 DEF Registered, Holding
<1>10. Numbered' BY <1>1, <1>6 DEF Numbered, Types
<1>11. InflightExact' BY <1>6, <1>7 DEF InflightExact, OpenOn, Listed
<1>12. OpenDrains'
  <2>1. \A r \in Replica : reports'[r] = IF pool'[r].reported THEN 1 ELSE 0 BY DEF NewPool
  <2> QED BY <2>1 DEF OpenDrains
<1> QED BY <1>8, <1>9, <1>10, <1>11, <1>12
\* A step of the proxy or of the clock that changes neither the containers,
\* their states nor their reports keeps what is said of each pool and report.
LEMMA SamePool ==
    ASSUME PoolInv, UNCHANGED <<pool, reports, installs>>
    PROVE  Numbered' /\ OpenDrains'
  BY DEF PoolInv, Numbered, OpenDrains

\* A step of one request leaves the others as they are.
LEMMA OneRequest ==
    ASSUME PoolInv, NEW q \in Request, NEW x \in Reqs, UNCHANGED installs,
           req' = [req EXCEPT ![q] = x],
           x.inc <= installs,
           x.pc \in {"picked", "open", "release", "retry"} => x.replica \in Replica,
           x.pc \notin Holding => ~x.cut
    PROVE  /\ req' \in [Request -> Reqs]
           /\ req'[q] = x
           /\ \A p \in Request : p # q => req'[p] = req[p]
           /\ Registered'
<1>1. req \in [Request -> Reqs] BY DEF PoolInv, Types
<1>2. req'[q] = x /\ \A p \in Request : p # q => req'[p] = req[p] BY <1>1
<1>3. Registered'
  <2> SUFFICES ASSUME NEW p \in Request
               PROVE  /\ req'[p].inc <= installs'
                      /\ req'[p].pc \in {"picked", "open", "release", "retry"} => req'[p].replica \in Replica
                      /\ req'[p].pc \notin Holding => ~req'[p].cut
    BY DEF Registered
  <2>1. CASE p = q BY <2>1, <1>2
  <2>2. CASE p # q BY <2>2, <1>2 DEF PoolInv, Registered
  <2> QED BY <2>1, <2>2
<1> QED BY <1>1, <1>2, <1>3

\* The requests registered on each container when one request moves: it stays
\* on its container as long as it holds it.
LEMMA SameOpen ==
    ASSUME PoolInv, NEW q \in Request, NEW r \in Replica, pool'[r].inc = pool[r].inc,
           \A p \in Request : p # q => req'[p] = req[p],
           (q \in OpenOn(r)') <=> (q \in OpenOn(r))
    PROVE  OpenOn(r)' = OpenOn(r)
  BY DEF OpenOn

\* Pick registers nothing.
LEMMA PickStep ==
    ASSUME PoolInv, NEW q \in Request, Pick(q)
    PROVE  PoolInv'
<1> USE DEF PoolInv
<1>1. PICK r \in Eligible(q) :
        req' = [req EXCEPT ![q] = [@ EXCEPT !.pc = "picked", !.replica = r, !.port = pool[r].port]]
  BY DEF Pick
<1> DEFINE x == [req[q] EXCEPT !.pc = "picked", !.replica = r, !.port = pool[r].port]
<1>2. r \in Replica /\ pool[r].port \in Port \cup {0}
  BY DEF Eligible, Listed, Types, Target
<1>3. UNCHANGED <<pool, saved, installs, reports>> BY DEF Pick
<1>4. req[q] \in Reqs /\ req[q].pc \notin Holding BY DEF Types, Pick, Holding
<1>5. ~req[q].cut /\ req[q].inc <= installs BY <1>4 DEF Registered
<1>6. x \in Reqs /\ x.pc = "picked" /\ x.replica = r /\ x.inc = req[q].inc /\ x.cut = req[q].cut
  BY <1>2, <1>4 DEF Reqs, Pcs
<1>7. req' = [req EXCEPT ![q] = x] BY <1>1
<1> HIDE DEF x
<1>8. /\ req' \in [Request -> Reqs] /\ req'[q] = x /\ Registered'
      /\ \A p \in Request : p # q => req'[p] = req[p]
  BY <1>2, <1>3, <1>5, <1>6, <1>7, OneRequest
<1>9. \A s \in Replica : OpenOn(s)' = OpenOn(s)
  <2>1. \A s \in Replica : q \notin OpenOn(s) /\ q \notin OpenOn(s)'
    BY <1>4, <1>6, <1>8 DEF OpenOn, Holding
  <2> QED BY <2>1, <1>3, <1>8, SameOpen
<1>10. InflightExact' BY <1>3, <1>9 DEF InflightExact, Listed
<1>11. Types' BY <1>3, <1>8 DEF Types
<1> QED BY <1>3, <1>8, <1>10, <1>11, SamePool

\* A 502 ends a request that held nothing.
LEMMA PickNoneStep ==
    ASSUME PoolInv, NEW q \in Request, PickNone(q)
    PROVE  PoolInv'
<1> USE DEF PoolInv
<1>1. UNCHANGED <<pool, saved, installs, reports>> BY DEF PickNone
<1>2. req[q].pc \notin Holding BY DEF PickNone, Holding
<1>3. /\ req' \in [Request -> Reqs] /\ req'[q] = Finished /\ Registered'
      /\ \A p \in Request : p # q => req'[p] = req[p]
  <2>1. Finished.inc <= installs BY FinishedRequest DEF Types
  <2>2. req' = [req EXCEPT ![q] = Finished] BY DEF PickNone
  <2> QED BY <1>1, <2>1, <2>2, FinishedRequest, OneRequest
<1>4. \A s \in Replica : OpenOn(s)' = OpenOn(s)
  <2>1. \A s \in Replica : q \notin OpenOn(s) /\ q \notin OpenOn(s)'
    BY <1>2, <1>3, FinishedRequest DEF OpenOn
  <2> QED BY <2>1, <1>1, <1>3, SameOpen
<1>5. InflightExact' BY <1>1, <1>4 DEF InflightExact, Listed
<1>6. Types' BY <1>1, <1>3 DEF Types
<1> QED BY <1>1, <1>3, <1>5, <1>6, SamePool

\* Begin registers the request on the container that has the index now.
LEMMA BeginStep ==
    ASSUME PoolInv, NEW q \in Request, Begin(q)
    PROVE  PoolInv'
<1> USE DEF PoolInv
<1>1. UNCHANGED <<saved, installs, reports>> BY DEF Begin
<1>2. req[q] \in Reqs /\ req[q].pc = "picked" /\ req[q].pc \notin Holding BY DEF Begin, Holding, Types
<1>3. ~req[q].cut /\ req[q].inc <= installs BY <1>2 DEF Registered
<1>r. PICK r \in Replica : r = req[q].replica BY <1>2 DEF Registered
<1>4. pool[r] \in Target /\ pool[r].inc \in Nat /\ pool[r].inc <= installs
  BY <1>r DEF Types, Target, Numbered
<1>5. CASE r \in Listed /\ pool' = [pool EXCEPT ![r].conns = @ \cup {q}]
           /\ req' = [req EXCEPT ![q] = [@ EXCEPT !.pc = "open", !.inc = pool[r].inc]]
  <2> DEFINE x == [req[q] EXCEPT !.pc = "open", !.inc = pool[r].inc]
  <2>1. x \in Reqs /\ x.pc = "open" /\ x.inc = pool[r].inc /\ x.replica = r /\ x.cut = req[q].cut
    BY <1>2, <1>4, <1>r DEF Reqs, Pcs
  <2>2. req' = [req EXCEPT ![q] = x] BY <1>5
  <2> HIDE DEF x
  <2>3. /\ req' \in [Request -> Reqs] /\ req'[q] = x /\ Registered'
        /\ \A p \in Request : p # q => req'[p] = req[p]
    BY <1>1, <1>3, <1>r, <1>4, <2>1, <2>2, OneRequest DEF Holding
  <2>4. /\ pool' \in [Replica -> Target]
        /\ pool'[r].conns = pool[r].conns \cup {q}
        /\ \A s \in Replica : s # r => pool'[s] = pool[s]
        /\ \A s \in Replica : /\ pool'[s].inc = pool[s].inc /\ pool'[s].state = pool[s].state
                              /\ pool'[s].reported = pool[s].reported
    <3> DEFINE y == [pool[r] EXCEPT !.conns = @ \cup {q}]
    <3>1. /\ y \in Target /\ y.conns = pool[r].conns \cup {q}
          /\ y.inc = pool[r].inc /\ y.state = pool[r].state /\ y.reported = pool[r].reported
      BY <1>4 DEF Target
    <3>2. pool' = [pool EXCEPT ![r] = y] BY <1>5
    <3>3. pool \in [Replica -> Target] BY DEF Types
    <3> HIDE DEF y
    <3>4. pool'[r] = y /\ pool' \in [Replica -> Target] /\ \A s \in Replica : s # r => pool'[s] = pool[s]
      BY <3>1, <3>2, <3>3
    <3> QED BY <3>1, <3>4
  <2>5. \A s \in Replica : s # r => OpenOn(s)' = OpenOn(s)
    <3>1. \A s \in Replica : s # r => q \notin OpenOn(s) /\ q \notin OpenOn(s)'
      BY <1>2, <1>r, <2>1, <2>3 DEF OpenOn
    <3> QED BY <3>1, <2>3, <2>4, SameOpen
  <2>6. OpenOn(r)' = OpenOn(r) \cup {q}
    <3>1. q \in OpenOn(r)'
      <4>1. ~req'[q].cut BY <1>3, <1>r, <2>1, <2>3
      <4>2. req'[q].pc \in Holding BY <2>1, <2>3 DEF Holding
      <4>3. req'[q].replica = r BY <2>1, <2>3
      <4>4. req'[q].inc = pool'[r].inc BY <1>3, <1>r, <2>1, <2>3, <2>4
      <4> QED BY <4>1, <4>2, <4>3, <4>4 DEF OpenOn
    <3>2. \A p \in Request : p # q => ((p \in OpenOn(r)') <=> (p \in OpenOn(r)))
      BY <1>3, <1>r, <2>3, <2>4 DEF OpenOn
    <3>3. OpenOn(r) \subseteq Request /\ OpenOn(r)' \subseteq Request BY DEF OpenOn
    <3> QED BY <3>1, <3>2, <3>3
  <2>7. InflightExact'
    BY <1>5, <2>4, <2>5, <2>6 DEF InflightExact, Listed
  <2>8. Types' BY <1>1, <2>3, <2>4 DEF Types
  <2>9. Numbered'
    BY <1>1, <1>5, <2>4 DEF Numbered, Listed
  <2>10. OpenDrains' BY <1>1, <2>4 DEF OpenDrains
  <2> QED BY <2>3, <2>7, <2>8, <2>9, <2>10
<1>6. CASE pool' = pool /\ req' = [req EXCEPT ![q] = [@ EXCEPT !.pc = "release", !.out = "error"]]
           /\ r \notin Listed
  <2> DEFINE x == [req[q] EXCEPT !.pc = "release", !.out = "error"]
  <2>1. x \in Reqs /\ x.pc = "release" /\ x.inc = req[q].inc /\ x.replica = r /\ x.cut = req[q].cut
    BY <1>2, <1>r DEF Reqs, Pcs, Outcomes
  <2>2. req' = [req EXCEPT ![q] = x] BY <1>6
  <2> HIDE DEF x
  <2>3. /\ req' \in [Request -> Reqs] /\ req'[q] = x /\ Registered'
        /\ \A p \in Request : p # q => req'[p] = req[p]
    BY <1>1, <1>3, <1>r, <2>1, <2>2, OneRequest DEF Holding
  <2>4. \A s \in Listed : OpenOn(s)' = OpenOn(s)
    <3>1. \A s \in Listed : s \in Replica /\ q \notin OpenOn(s) /\ q \notin OpenOn(s)'
      BY <1>2, <1>r, <1>6, <2>1, <2>3 DEF OpenOn, Listed
    <3> QED BY <3>1, <1>6, <2>3, SameOpen
  <2>5. InflightExact' BY <1>6, <2>4 DEF InflightExact, Listed
  <2>6. Types' BY <1>1, <1>6, <2>3 DEF Types
  <2> QED BY <1>1, <1>6, <2>3, <2>5, <2>6, SamePool
<1> QED BY <1>r, <1>5, <1>6 DEF Begin

\* The end of an exchange leaves the request registered until it is released.
LEMMA AnswerStep ==
    ASSUME PoolInv, NEW q \in Request, NEW out \in {"ok", "error", "dial"},
           req[q].pc = "open",
           req' = [req EXCEPT ![q] = [@ EXCEPT !.pc = "release", !.out = out]],
           UNCHANGED installs
    PROVE  /\ req' \in [Request -> Reqs] /\ Registered'
           /\ \A r \in Replica : pool'[r].inc = pool[r].inc => OpenOn(r)' = OpenOn(r)
<1> USE DEF PoolInv
<1> DEFINE x == [req[q] EXCEPT !.pc = "release", !.out = out]
<1>1. req[q] \in Reqs /\ req[q].inc <= installs /\ req[q].replica \in Replica
  BY DEF Types, Registered
<1>2. /\ x \in Reqs /\ x.pc = "release" /\ x.inc = req[q].inc /\ x.replica = req[q].replica
      /\ x.cut = req[q].cut
  BY <1>1 DEF Reqs, Pcs, Outcomes
<1>3. req' = [req EXCEPT ![q] = x] OBVIOUS
<1> HIDE DEF x
<1>4. /\ req' \in [Request -> Reqs] /\ req'[q] = x /\ Registered'
      /\ \A p \in Request : p # q => req'[p] = req[p]
  BY <1>1, <1>2, <1>3, OneRequest DEF Holding
<1>5. ASSUME NEW r \in Replica, pool'[r].inc = pool[r].inc PROVE OpenOn(r)' = OpenOn(r)
  <2>1. (q \in OpenOn(r)') <=> (q \in OpenOn(r))
    BY <1>2, <1>4, <1>5 DEF OpenOn, Holding
  <2> QED BY <2>1, <1>4, <1>5, SameOpen
<1> QED BY <1>4, <1>5
\* A failed connection, and the end of its window, touch only the mark.
LEMMA MarkedTarget ==
    ASSUME PoolInv, NEW r \in Replica, NEW b \in BOOLEAN, pool' = [pool EXCEPT ![r].failed = b]
    PROVE  /\ pool' \in [Replica -> Target]
           /\ \A s \in Replica : /\ pool'[s].inc = pool[s].inc /\ pool'[s].state = pool[s].state
                                 /\ pool'[s].reported = pool[s].reported /\ pool'[s].conns = pool[s].conns
<1> DEFINE y == [pool[r] EXCEPT !.failed = b]
<1>1. pool \in [Replica -> Target] BY DEF PoolInv, Types
<1>2. /\ y \in Target /\ y.conns = pool[r].conns /\ y.inc = pool[r].inc
      /\ y.state = pool[r].state /\ y.reported = pool[r].reported
  BY <1>1 DEF Target
<1>3. pool' = [pool EXCEPT ![r] = y] OBVIOUS
<1> HIDE DEF y
<1> QED BY <1>1, <1>2, <1>3

\* What follows when no container, state, report or registration changes.
LEMMA SameTargets ==
    ASSUME PoolInv, pool' \in [Replica -> Target], UNCHANGED <<saved, installs, reports>>,
           req' \in [Request -> Reqs], Registered',
           \A s \in Replica : /\ pool'[s].inc = pool[s].inc /\ pool'[s].state = pool[s].state
                              /\ pool'[s].reported = pool[s].reported /\ pool'[s].conns = pool[s].conns
                              /\ OpenOn(s)' = OpenOn(s)
    PROVE  PoolInv'
<1> USE DEF PoolInv
<1>1. Types' BY DEF Types
<1>2. Numbered' BY DEF Numbered
<1>3. OpenDrains' BY DEF OpenDrains
<1>4. InflightExact' BY DEF InflightExact, Listed
<1> QED BY <1>1, <1>2, <1>3, <1>4

\* The answer of a replica.
LEMMA AnsweredStep ==
    ASSUME PoolInv, NEW q \in Request, NEW out \in {"ok", "error"}, Answer(q, out)
    PROVE  PoolInv'
<1>1. UNCHANGED <<pool, saved, installs, reports>> BY DEF Answer
<1>2. /\ req[q].pc = "open"
      /\ req' = [req EXCEPT ![q] = [@ EXCEPT !.pc = "release", !.out = out]]
  BY DEF Answer
<1>3. /\ req' \in [Request -> Reqs] /\ Registered'
      /\ \A r \in Replica : pool'[r].inc = pool[r].inc => OpenOn(r)' = OpenOn(r)
  BY <1>1, <1>2, AnswerStep
<1>4. pool' \in [Replica -> Target] BY <1>1 DEF PoolInv, Types
<1> QED BY <1>1, <1>3, <1>4, SameTargets

\* A connection that cannot be made.
LEMMA DialFailsStep ==
    ASSUME PoolInv, NEW q \in Request, DialFails(q)
    PROVE  PoolInv'
<1>1. UNCHANGED <<saved, installs, reports>> BY DEF DialFails
<1>2. /\ req[q].pc = "open"
      /\ req' = [req EXCEPT ![q] = [@ EXCEPT !.pc = "release", !.out = "dial"]]
  BY DEF DialFails
<1>3. /\ req' \in [Request -> Reqs] /\ Registered'
      /\ \A r \in Replica : pool'[r].inc = pool[r].inc => OpenOn(r)' = OpenOn(r)
  BY <1>1, <1>2, AnswerStep
<1>4. PICK r \in Replica : r = req[q].replica BY <1>2 DEF PoolInv, Registered
<1>5. pool' = [pool EXCEPT ![r].failed = pool[r].failed \/ r \in Listed] BY <1>4 DEF DialFails
<1>6. (pool[r].failed \/ r \in Listed) \in BOOLEAN OBVIOUS
<1>7. /\ pool' \in [Replica -> Target]
      /\ \A s \in Replica : /\ pool'[s].inc = pool[s].inc /\ pool'[s].state = pool[s].state
                            /\ pool'[s].reported = pool[s].reported /\ pool'[s].conns = pool[s].conns
  BY <1>5, <1>6, MarkedTarget
<1> QED BY <1>1, <1>3, <1>7, SameTargets

\* The end of a failure window.
LEMMA WindowEndsStep ==
    ASSUME PoolInv, NEW r \in Replica, WindowEnds(r)
    PROVE  PoolInv'
<1>1. UNCHANGED <<saved, req, installs, reports>> BY DEF WindowEnds
<1>2. /\ pool' \in [Replica -> Target]
      /\ \A s \in Replica : /\ pool'[s].inc = pool[s].inc /\ pool'[s].state = pool[s].state
                            /\ pool'[s].reported = pool[s].reported /\ pool'[s].conns = pool[s].conns
  BY MarkedTarget DEF WindowEnds
<1>3. Registered' /\ req' \in [Request -> Reqs] BY <1>1 DEF PoolInv, Registered, Types
<1>4. \A s \in Replica : OpenOn(s)' = OpenOn(s) BY <1>1, <1>2 DEF OpenOn
<1> QED BY <1>1, <1>2, <1>3, <1>4, SameTargets

\* A release takes the request off its container; the last one off a drain
\* reports it, and only if nothing did before.
LEMMA ReleaseStep ==
    ASSUME PoolInv, NEW q \in Request, Release(q)
    PROVE  /\ PoolInv'
           /\ \A r \in Replica : reports'[r] # reports[r] => OpenOn(r)' = {}
<1> USE DEF PoolInv
<1>1. UNCHANGED <<saved, installs>> BY DEF Release
<1>2. req[q].pc = "release" BY DEF Release
<1>3. PICK r \in Replica : r = req[q].replica BY <1>2 DEF Registered
<1> DEFINE f == FinishesDrain(pool[r], q)
           y == [pool[r] EXCEPT !.conns = @ \ {q}, !.reported = @ \/ f]
           x == IF Retries(q) THEN [Idle EXCEPT !.pc = "retry", !.replica = r, !.again = TRUE]
                ELSE Finished
<1>4. pool[r] \in Target /\ pool \in [Replica -> Target] BY DEF Types
<1>5. /\ y \in Target /\ y.conns = pool[r].conns \ {q} /\ y.inc = pool[r].inc
      /\ y.state = pool[r].state
      /\ y.reported <=> (pool[r].reported \/ f)
  BY <1>4 DEF Target, FinishesDrain
<1>6. x \in Reqs /\ x.pc \notin Holding /\ ~x.cut /\ x.inc = 0
      /\ (x.pc \in {"picked", "open", "release", "retry"} => x.replica \in Replica)
  <2>1. CASE Retries(q) BY <2>1 DEF Idle, Reqs, Holding, Pcs, Outcomes
  <2>2. CASE ~Retries(q) BY <2>2, FinishedRequest
  <2> QED BY <2>1, <2>2
<1>7. /\ pool' = [pool EXCEPT ![r] = y]
      /\ reports' = [reports EXCEPT ![r] = IF f THEN @ + 1 ELSE @]
      /\ req' = [req EXCEPT ![q] = x]
  BY <1>3 DEF Release
<1> HIDE DEF x, y
<1>8. /\ req' \in [Request -> Reqs] /\ req'[q] = x /\ Registered'
      /\ \A p \in Request : p # q => req'[p] = req[p]
  <2>1. x.inc <= installs BY <1>6 DEF Types
  <2> QED BY <1>1, <1>6, <1>7, <2>1, OneRequest
<1>9. pool'[r] = y /\ pool' \in [Replica -> Target] /\ \A s \in Replica : s # r => pool'[s] = pool[s]
  BY <1>4, <1>5, <1>7
<1>10. \A s \in Replica : pool'[s].inc = pool[s].inc /\ pool'[s].state = pool[s].state
  BY <1>5, <1>9
<1>11. \A s \in Replica : OpenOn(s)' = OpenOn(s) \ {q}
  <2> SUFFICES ASSUME NEW s \in Replica PROVE OpenOn(s)' = OpenOn(s) \ {q} OBVIOUS
  <2>1. q \notin OpenOn(s)' BY <1>6, <1>8 DEF OpenOn
  <2>2. \A p \in Request : p # q => ((p \in OpenOn(s)') <=> (p \in OpenOn(s)))
    BY <1>8, <1>10 DEF OpenOn
  <2>3. OpenOn(s) \subseteq Request /\ OpenOn(s)' \subseteq Request BY DEF OpenOn
  <2> QED BY <2>1, <2>2, <2>3
<1>12. \A s \in Replica : s # r => q \notin OpenOn(s) BY <1>3 DEF OpenOn
<1>13. InflightExact'
  <2> SUFFICES ASSUME NEW s \in Replica, pool'[s].state # "none" PROVE pool'[s].conns = OpenOn(s)'
    BY DEF InflightExact, Listed
  <2>1. pool[s].conns = OpenOn(s) BY <1>10 DEF InflightExact, Listed
  <2>2. CASE s = r BY <2>1, <2>2, <1>5, <1>9, <1>11
  <2>3. CASE s # r
    <3>1. q \notin OpenOn(s) /\ pool'[s] = pool[s] BY <2>3, <1>9, <1>12
    <3>2. OpenOn(s)' = OpenOn(s) BY <3>1, <1>11
    <3> QED BY <2>1, <3>1, <3>2
  <2> QED BY <2>2, <2>3
<1>14. Numbered'
  <2> SUFFICES ASSUME NEW s \in Replica
               PROVE  /\ pool'[s].inc <= installs'
                      /\ pool'[s].state # "none" => pool'[s].inc > 0
                      /\ pool'[s].state = "none" => pool'[s].conns = {}
    BY DEF Numbered
  <2>1. pool'[s].conns = pool[s].conns \/ pool'[s].conns = pool[s].conns \ {q}
    BY <1>5, <1>9
  <2> QED BY <2>1, <1>1, <1>10 DEF Numbered
<1>15. /\ reports' \in [Replica -> Nat]
       /\ reports'[r] = IF f THEN reports[r] + 1 ELSE reports[r]
       /\ \A s \in Replica : s # r => reports'[s] = reports[s]
  BY <1>7 DEF Types
<1>16. f => pool[r].state = "draining" /\ ~pool[r].reported /\ reports[r] = 0 /\ pool[r].conns = {q}
  BY DEF FinishesDrain, OpenDrains
<1> HIDE DEF f
<1>17. OpenDrains'
  <2> SUFFICES ASSUME NEW s \in Replica
               PROVE  /\ reports'[s] <= 1
                      /\ pool'[s].state = "draining" /\ ~pool'[s].reported => reports'[s] = 0
    BY DEF OpenDrains
  <2>1. CASE s # r BY <2>1, <1>9, <1>15 DEF OpenDrains
  <2>2. CASE s = r /\ f BY <2>2, <1>5, <1>9, <1>15, <1>16
  <2>3. CASE s = r /\ ~f BY <2>3, <1>5, <1>9, <1>15 DEF OpenDrains
  <2> QED BY <2>1, <2>2, <2>3
<1>18. \A s \in Replica : reports'[s] # reports[s] => OpenOn(s)' = {}
  <2>1. f => OpenOn(r) = {q} BY <1>16 DEF InflightExact, Listed
  <2> QED BY <2>1, <1>11, <1>15
<1>19. Types' BY <1>1, <1>8, <1>9, <1>15 DEF Types
<1> QED BY <1>8, <1>13, <1>14, <1>17, <1>18, <1>19

\* A sweep cuts the requests of the drains it ends, and no other.
LEMMA SweepStep ==
    ASSUME PoolInv, NEW D \in SUBSET Replica, Sweep(D)
    PROVE  PoolInv'
<1> USE DEF PoolInv
<1>1. UNCHANGED <<saved, installs>> BY DEF Sweep
<1>2. pool \in [Replica -> Target] /\ req \in [Request -> Reqs] BY DEF Types
<1>3. ASSUME NEW r \in Replica
      PROVE  /\ pool'[r] \in Target /\ pool'[r].inc = pool[r].inc /\ pool'[r].state = pool[r].state
             /\ r \in D => pool'[r].conns = {} /\ pool'[r].reported
             /\ r \notin D => pool'[r] = pool[r]
  <2>1. pool'[r] = IF r \in D THEN [pool[r] EXCEPT !.conns = {}, !.reported = TRUE] ELSE pool[r]
    BY DEF Sweep
  <2>2. pool[r] \in Target BY <1>2
  <2>3. CASE r \in D
    <3>1. pool'[r] = [pool[r] EXCEPT !.conns = {}, !.reported = TRUE] BY <2>1, <2>3
    <3>2. pool'[r] \in Target BY <2>2, <3>1 DEF Target
    <3>3. pool'[r].inc = pool[r].inc /\ pool'[r].state = pool[r].state BY <2>2, <3>1 DEF Target
    <3>4. pool'[r].conns = {} BY <2>2, <3>1 DEF Target
    <3>5. pool'[r].reported BY <2>2, <3>1 DEF Target
    <3> QED BY <2>3, <3>2, <3>3, <3>4, <3>5
  <2>4. CASE r \notin D
    <3>1. pool'[r] = pool[r] BY <2>1, <2>4
    <3> QED BY <2>2, <2>4, <3>1
  <2> QED BY <2>3, <2>4
<1>4. \A r \in D : r \in Listed /\ pool[r].conns = OpenOn(r)
  BY DEF Sweep, InflightExact, Listed
<1>5. ASSUME NEW q \in Request
      PROVE  /\ req'[q] \in Reqs /\ req'[q].pc = req[q].pc /\ req'[q].replica = req[q].replica
             /\ req'[q].inc = req[q].inc
             /\ (\E r \in D : q \in pool[r].conns) => req'[q].cut
             /\ ~(\E r \in D : q \in pool[r].conns) => req'[q] = req[q]
  <2> DEFINE c == \E r \in D : q \in pool[r].conns
  <2>1. req'[q] = IF c THEN [req[q] EXCEPT !.cut = TRUE] ELSE req[q] BY DEF Sweep
  <2>2. req[q] \in Reqs BY <1>2
  <2> HIDE DEF c
  <2>3. CASE c
    <3>1. req'[q] = [req[q] EXCEPT !.cut = TRUE] BY <2>1, <2>3
    <3>2. req'[q] \in Reqs BY <2>2, <3>1 DEF Reqs
    <3>3. req'[q].pc = req[q].pc /\ req'[q].replica = req[q].replica /\ req'[q].inc = req[q].inc
      BY <2>2, <3>1 DEF Reqs
    <3>4. req'[q].cut BY <2>2, <3>1 DEF Reqs
    <3> QED BY <2>3, <3>2, <3>3, <3>4 DEF c
  <2>4. CASE ~c
    <3>1. req'[q] = req[q] BY <2>1, <2>4
    <3> QED BY <2>2, <2>4, <3>1 DEF c
  <2> QED BY <2>3, <2>4
<1>6. Types'
  <2>1. pool' \in [Replica -> Target]
    <3>1. pool' = [r \in Replica |-> pool'[r]] BY DEF Sweep
    <3> QED BY <3>1, <1>3
  <2>2. req' \in [Request -> Reqs]
    <3>1. req' = [q \in Request |-> req'[q]] BY DEF Sweep
    <3> QED BY <3>1, <1>5
  <2>3. reports' \in [Replica -> Nat]
    <3>1. reports' = [r \in Replica |-> IF r \in D THEN reports[r] + 1 ELSE reports[r]] BY DEF Sweep
    <3>2. \A r \in Replica : reports[r] \in Nat /\ reports[r] + 1 \in Nat BY DEF Types
    <3> QED BY <3>1, <3>2
  <2> QED BY <1>1, <2>1, <2>2, <2>3 DEF Types
<1>7. Registered'
  <2> SUFFICES ASSUME NEW q \in Request
               PROVE  /\ req'[q].inc <= installs'
                      /\ req'[q].pc \in {"picked", "open", "release", "retry"} => req'[q].replica \in Replica
                      /\ req'[q].pc \notin Holding => ~req'[q].cut
    BY DEF Registered
  <2>1. (\E r \in D : q \in pool[r].conns) => req[q].pc \in Holding BY <1>4 DEF OpenOn
  <2>2. req'[q].pc \notin Holding => ~req'[q].cut BY <1>5, <2>1 DEF Registered
  <2> QED BY <1>1, <1>5, <2>2 DEF Registered
<1>8. Numbered' BY <1>1, <1>3 DEF Numbered
<1>9. ASSUME NEW r \in Replica, pool'[r].state # "none" PROVE pool'[r].conns = OpenOn(r)'
  <2>1. r \in Listed /\ pool[r].conns = OpenOn(r) BY <1>3, <1>9 DEF InflightExact, Listed
  <2>2. CASE r \in D
    <3>1. \A q \in Request : q \notin OpenOn(r)'
      <4> SUFFICES ASSUME NEW q \in Request, q \in OpenOn(r)' PROVE FALSE OBVIOUS
      <4>1. ~req'[q].cut /\ req'[q].pc \in Holding /\ req'[q].replica = r /\ req'[q].inc = pool'[r].inc
        BY DEF OpenOn
      <4>2. ~(\E s \in D : q \in pool[s].conns) BY <1>5, <4>1
      <4>3. req'[q] = req[q] BY <1>5, <4>2
      <4>4. q \in OpenOn(r) BY <4>1, <4>3, <1>3 DEF OpenOn
      <4> QED BY <2>1, <2>2, <4>2, <4>4
    <3>2. OpenOn(r)' = {} BY <3>1 DEF OpenOn
    <3> QED BY <2>2, <3>2, <1>3
  <2>3. CASE r \notin D
    <3>1. ASSUME NEW q \in Request PROVE (q \in OpenOn(r)') <=> (q \in OpenOn(r))
      <4>1. CASE \E s \in D : q \in pool[s].conns
        <5>1. PICK s \in D : q \in pool[s].conns BY <4>1
        <5>2. req[q].replica = s BY <5>1, <1>4 DEF OpenOn
        <5>3. req[q].replica # r /\ req'[q].replica # r BY <2>3, <5>2, <1>5
        <5> QED BY <5>3 DEF OpenOn
      <4>2. CASE ~(\E s \in D : q \in pool[s].conns)
        <5>1. req'[q] = req[q] BY <4>2, <1>5
        <5> QED BY <5>1, <1>3 DEF OpenOn
      <4> QED BY <4>1, <4>2
    <3>2. OpenOn(r)' = OpenOn(r) BY <3>1 DEF OpenOn
    <3> QED BY <2>1, <2>3, <3>2, <1>3
  <2> QED BY <2>2, <2>3
<1>10. InflightExact' BY <1>9 DEF InflightExact, Listed
<1>11. OpenDrains'
  <2> SUFFICES ASSUME NEW r \in Replica
               PROVE  /\ reports'[r] <= 1
                      /\ pool'[r].state = "draining" /\ ~pool'[r].reported => reports'[r] = 0
    BY DEF OpenDrains
  <2>1. reports'[r] = IF r \in D THEN reports[r] + 1 ELSE reports[r] BY DEF Sweep
  <2>2. r \in D => reports[r] = 0 BY DEF Sweep, OpenDrains
  <2>3. CASE r \in D BY <2>1, <2>2, <2>3, <1>3
  <2>4. CASE r \notin D BY <2>1, <2>4, <1>3 DEF OpenDrains
  <2> QED BY <2>3, <2>4
<1> QED BY <1>6, <1>7, <1>8, <1>10, <1>11

-----------------------------------------------------------------------------
(* The theorems. *)

\* The first pool, and every request still to come.
LEMMA PoolInvInit ==
    ASSUME Init
    PROVE  PoolInv
<1> DEFINE gone == [r \in Replica |-> Absent]
<1>1. gone \in [Replica -> Target] BY DEF Absent, Target, States
<1>2. PICK t \in Tables : saved = t /\ pool = Installed(gone, t, 1) BY DEF Init
<1>3. \A r \in Replica : ~Stays(gone, t, r) BY DEF Stays, Absent
<1>4. /\ installs = 1
      /\ req = [q \in Request |-> Idle]
      /\ reports = [r \in Replica |-> IF pool[r].reported THEN 1 ELSE 0]
  BY DEF Init
<1> HIDE DEF gone
<1>5. \A r \in Replica :
        /\ pool[r] \in Target
        /\ pool[r].conns = {}
        /\ pool[r].state # "none" => pool[r].inc = 1
        /\ pool[r].state = "none" => pool[r].inc = 0
  BY <1>1, <1>2, <1>3, InstalledTarget
<1>6. \A q \in Request : req[q] = Idle BY <1>4
<1>7. Types
  <2>1. pool = [r \in Replica |-> pool[r]] BY <1>2 DEF Installed
  <2>2. pool \in [Replica -> Target] BY <2>1, <1>5
  <2>3. req \in [Request -> Reqs] BY <1>4, FinishedRequest
  <2>4. reports \in [Replica -> Nat] BY <1>4
  <2> QED BY <1>2, <1>4, <2>2, <2>3, <2>4 DEF Types
<1>8. Registered BY <1>4, <1>6, FinishedRequest DEF Registered
<1>9. Numbered BY <1>4, <1>5 DEF Numbered
<1>10. InflightExact BY <1>5, <1>6, FinishedRequest DEF InflightExact, OpenOn, Listed
<1>11. OpenDrains BY <1>4 DEF OpenDrains
<1> QED BY <1>7, <1>8, <1>9, <1>10, <1>11 DEF PoolInv

\* A push and a restart.
LEMMA PushStep ==
    ASSUME PoolInv, NEW t \in Tables, PushTable(t)
    PROVE  PoolInv'
<1>1. Install(t) /\ UNCHANGED req /\ saved' \in {t, saved} BY DEF PushTable
<1>2. saved' \in Tables BY <1>1 DEF PoolInv, Types
<1> QED BY <1>1, <1>2, InstallStep

LEMMA RestartStep ==
    ASSUME PoolInv, Restart
    PROVE  PoolInv'
  BY NewPoolStep DEF Restart

\* The invariant is inductive: one case for each disjunct of Next.
LEMMA PoolInvStep ==
    ASSUME PoolInv, [Next]_vars
    PROVE  PoolInv'
<1>1. CASE \E t \in Tables : PushTable(t) BY <1>1, PushStep
<1>2. ASSUME NEW q \in Request, Serve(q) PROVE PoolInv'
  <2>1. CASE Pick(q) BY <2>1, PickStep
  <2>2. CASE PickNone(q) BY <2>2, PickNoneStep
  <2>3. CASE Begin(q) BY <2>3, BeginStep
  <2>4. CASE \E out \in {"ok", "error"} : Answer(q, out) BY <2>4, AnsweredStep
  <2>5. CASE DialFails(q) BY <2>5, DialFailsStep
  <2>6. CASE Release(q) BY <2>6, ReleaseStep
  <2> QED BY <1>2, <2>1, <2>2, <2>3, <2>4, <2>5, <2>6 DEF Serve
<1>3. CASE \E r \in Replica : WindowEnds(r) BY <1>3, WindowEndsStep
<1>4. CASE \E D \in SUBSET Replica : Sweep(D) BY <1>4, SweepStep
<1>5. CASE Restart BY <1>5, RestartStep
<1>6. CASE UNCHANGED vars
  <2>1. /\ pool' = pool /\ saved' = saved /\ req' = req
        /\ installs' = installs /\ reports' = reports
    BY <1>6 DEF vars
  <2>2. Types' /\ Registered' BY <2>1 DEF PoolInv, Types, Registered
  <2>3. Numbered' /\ OpenDrains' BY <2>1, SamePool
  <2>4. InflightExact' BY <2>1 DEF PoolInv, InflightExact, Listed, OpenOn
  <2> QED BY <2>2, <2>3, <2>4 DEF PoolInv
<1> QED BY <1>1, <1>2, <1>3, <1>4, <1>5, <1>6 DEF Next

\* A drain is reported by a push, a release or a sweep, and each time the
\* in-flight set of the target is empty afterwards.
LEMMA ReportStep ==
    ASSUME PoolInv, PoolInv', [Next]_vars, NEW r \in Replica, reports'[r] = reports[r] + 1
    PROVE  OpenOn(r)' = {}
<1>0. reports[r] \in Nat BY DEF PoolInv, Types
<1>1. CASE pool'[r].state # "none" /\ pool'[r].conns = {}
  BY <1>1 DEF PoolInv, InflightExact, Listed
<1>2. ASSUME NEW t \in Tables, PushTable(t) PROVE OpenOn(r)' = {}
  <2> DEFINE w == Wanted(pool, t, installs', r)
             same == Stays(pool, t, r) /\ pool[r].state = t[r].state
  <2>1. reports'[r] = (IF same THEN reports[r] ELSE 0) + (IF DrainsNow(w) THEN 1 ELSE 0)
    BY <1>2 DEF PushTable, Install, ReportsAfter
  <2>2. pool'[r] = Settled(w) BY <1>2 DEF PushTable, Install, Installed
  <2>3. w \in Target
    <3>1. pool[r] \in Target /\ installs' \in Nat BY <1>2 DEF PoolInv, Types
    <3>2. Absent \in Target BY DEF Absent, Target, States
    <3> QED BY <3>1, <3>2, KeptTarget, FreshTarget DEF Wanted
  <2>4. DrainsNow(w) => w.state = "draining" /\ w.conns = {} BY DEF DrainsNow
  <2> HIDE DEF w, same
  <2>5. DrainsNow(w) BY <1>0, <2>1
  <2>6. pool'[r].state = "draining" /\ pool'[r].conns = {} BY <2>2, <2>3, <2>4, <2>5, SettledTarget
  <2> QED BY <1>1, <2>6
<1>3. ASSUME NEW q \in Request, Serve(q) PROVE OpenOn(r)' = {}
  <2>1. CASE Release(q) BY <1>0, <2>1, ReleaseStep
  <2>2. CASE UNCHANGED reports BY <1>0, <2>2
  <2> QED BY <1>3, <2>1, <2>2 DEF Serve, Pick, PickNone, Begin, Answer, DialFails
<1>4. CASE \E s \in Replica : WindowEnds(s) BY <1>0, <1>4 DEF WindowEnds
<1>5. ASSUME NEW D \in SUBSET Replica, Sweep(D) PROVE OpenOn(r)' = {}
  <2>1. reports'[r] = IF r \in D THEN reports[r] + 1 ELSE reports[r] BY <1>5 DEF Sweep
  <2>2. r \in D BY <1>0, <2>1
  <2>3. pool'[r] = [pool[r] EXCEPT !.conns = {}, !.reported = TRUE] BY <1>5, <2>2 DEF Sweep
  <2>4. pool[r] \in Target /\ pool[r].state = "draining" BY <1>5, <2>2 DEF Sweep, PoolInv, Types
  <2>5. pool'[r].state = "draining" /\ pool'[r].conns = {} BY <2>3, <2>4 DEF Target
  <2> QED BY <1>1, <2>5
<1>6. CASE Restart
  <2>1. \A q \in Request : req'[q] = IF req[q].pc = "idle" THEN req[q] ELSE Finished
    BY <1>6 DEF Restart
  <2>2. \A q \in Request : req'[q].pc \notin Holding BY <2>1, FinishedRequest DEF Holding
  <2> QED BY <2>2 DEF OpenOn
<1>7. CASE UNCHANGED vars BY <1>0, <1>7 DEF vars
<1> QED BY <1>2, <1>3, <1>4, <1>5, <1>6, <1>7 DEF Next

-----------------------------------------------------------------------------
(* The rotation. *)

\* The cursor is inside the pool, whose size only an install changes.
CursorInv ==
    /\ next \in Nat
    /\ next = 0 \/ next < Cardinality(Listed)
    /\ installs \in 1..MaxInstalls
    /\ restarts \in 0..MaxRestarts

\* The pool is finite, so its size is a number.
LEMMA SizeOfPool ==
    ASSUME NEW S, S \subseteq Replica
    PROVE  Cardinality(S) \in Nat /\ (S # {} => Cardinality(S) > 0)
<1>1. IsFiniteSet(S) BY ReplicasFinite, FS_Subset
<1> QED BY <1>1, FS_CardinalityType, FS_EmptySet

\* What an install lists is what the table lists.
LEMMA ListedAfter ==
    ASSUME PoolInv, NEW p \in [Replica -> Target], NEW t \in Tables, NEW at \in Nat,
           pool' = Installed(p, t, at)
    PROVE  Listed' = {r \in Replica : t[r].state # "none"}
<1>1. ASSUME NEW r \in Replica PROVE pool'[r].state = t[r].state
  <2>1. p \in [Replica -> Target] /\ t \in Tables /\ at \in Nat /\ r \in Replica BY <1>1
  <2>2. Installed(p, t, at)[r].state = t[r].state BY <2>1, InstalledTarget
  <2> QED BY <2>2
<1> QED BY <1>1 DEF Listed

\* The cursor of a request's turn: the place after the replica it was given.
LEMMA PickCursor ==
    ASSUME PoolInv, CursorInv, NEW q \in Request, Pick(q)
    PROVE  CursorInv'
<1>1. PICK r \in Eligible(q) : next' = (Rank(r) + 1) % Cardinality(Listed) BY DEF Pick
<1>2. r \in Listed BY DEF Eligible
<1>3. Cardinality(Listed) \in Nat /\ Cardinality(Listed) > 0 BY <1>2, SizeOfPool DEF Listed
<1>4. Rank(r) \in Nat BY SizeOfPool DEF Rank, Listed
<1>5. next' \in Nat /\ next' < Cardinality(Listed) BY <1>1, <1>3, <1>4
<1>6. Listed' = Listed /\ installs' = installs /\ restarts' = restarts BY DEF Pick, Listed
<1> QED BY <1>5, <1>6 DEF CursorInv

\* Every other step of a request, and a sweep, lists what was listed.
LEMMA QuietCursor ==
    ASSUME PoolInv, PoolInv', CursorInv,
           \A r \in Replica : pool'[r].state = pool[r].state,
           UNCHANGED <<next, installs, restarts>>
    PROVE  CursorInv'
<1>1. Listed' = Listed BY DEF Listed
<1> QED BY <1>1 DEF CursorInv

LEMMA CursorStep ==
    ASSUME PoolInv, PoolInv', CursorInv, [Next]_vars
    PROVE  CursorInv'
<1>0. pool \in [Replica -> Target] /\ saved \in Tables /\ req \in [Request -> Reqs] BY DEF PoolInv, Types
<1>1. ASSUME NEW t \in Tables, PushTable(t) PROVE CursorInv'
  <2>1. installs' \in Nat /\ installs' \in 1..MaxInstalls /\ restarts' = restarts
    BY <1>1 DEF PushTable, Install, CursorInv
  <2>2. Listed' = {r \in Replica : t[r].state # "none"}
    BY <1>0, <1>1, <2>1, ListedAfter DEF PushTable, Install
  <2>3. next' = IF next >= Cardinality(Listed') THEN 0 ELSE next
    BY <1>1, <2>2 DEF PushTable, Install, Cursor
  <2>4. Cardinality(Listed') \in Nat BY <2>2, SizeOfPool
  <2>5. next' \in Nat /\ (next' = 0 \/ next' < Cardinality(Listed')) BY <2>3, <2>4 DEF CursorInv
  <2> QED BY <2>1, <2>5 DEF CursorInv
<1>2. ASSUME NEW q \in Request, Serve(q) PROVE CursorInv'
  <2>1. CASE Pick(q) BY <2>1, PickCursor
  <2>2. CASE PickNone(q) \/ \E out \in {"ok", "error"} : Answer(q, out)
    BY <2>2, QuietCursor DEF PickNone, Answer
  <2>3. CASE Begin(q)
    <3>1. \A r \in Replica : pool'[r].state = pool[r].state BY <1>0, <2>3 DEF Begin, Target
    <3> QED BY <2>3, <3>1, QuietCursor DEF Begin
  <2>4. CASE DialFails(q)
    <3>1. \A r \in Replica : pool'[r].state = pool[r].state BY <1>0, <2>4 DEF DialFails, Target
    <3> QED BY <2>4, <3>1, QuietCursor DEF DialFails
  <2>5. CASE Release(q)
    <3> DEFINE s == req[q].replica
               f == FinishesDrain(pool[s], q)
               y == [pool[s] EXCEPT !.conns = @ \ {q}, !.reported = @ \/ f]
    <3>a. s \in Replica BY <2>5 DEF Release, PoolInv, Registered
    <3>b. pool[s] \in Target BY <1>0, <3>a
    <3>c. y.state = pool[s].state BY <3>b DEF Target
    <3>d. pool' = [pool EXCEPT ![s] = y] BY <2>5 DEF Release
    <3> HIDE DEF s, y
    <3>1. \A r \in Replica : pool'[r].state = pool[r].state BY <1>0, <3>a, <3>c, <3>d
    <3> QED BY <2>5, <3>1, QuietCursor DEF Release
  <2> QED BY <1>2, <2>1, <2>2, <2>3, <2>4, <2>5 DEF Serve
<1>3. ASSUME NEW s \in Replica, WindowEnds(s) PROVE CursorInv'
  <2>1. \A r \in Replica : pool'[r].state = pool[r].state BY <1>0, <1>3 DEF WindowEnds, Target
  <2> QED BY <1>3, <2>1, QuietCursor DEF WindowEnds
<1>4. ASSUME NEW D \in SUBSET Replica, Sweep(D) PROVE CursorInv'
  <2>1. ASSUME NEW r \in Replica PROVE pool'[r].state = pool[r].state
    <3>1. pool[r] \in Target BY <1>0
    <3>2. [pool[r] EXCEPT !.conns = {}, !.reported = TRUE].state = pool[r].state BY <3>1 DEF Target
    <3> QED BY <1>4, <3>2 DEF Sweep
  <2> QED BY <1>4, <2>1, QuietCursor DEF Sweep
<1>5. CASE Restart
  <2>1. /\ next' = 0 /\ installs' \in 1..MaxInstalls /\ restarts' \in 0..MaxRestarts
    BY <1>5 DEF Restart, NewPool, CursorInv
  <2> QED BY <2>1 DEF CursorInv
<1>6. CASE UNCHANGED vars BY <1>6 DEF vars, CursorInv, Listed
<1> QED BY <1>1, <1>2, <1>3, <1>4, <1>5, <1>6 DEF Next

-----------------------------------------------------------------------------
\* The inductive invariant holds in every state of the edge's pool.
THEOREM PoolInvariant == Spec => []PoolInv
<1>1. Init => PoolInv BY PoolInvInit
<1>2. PoolInv /\ [Next]_vars => PoolInv' BY PoolInvStep
<1> QED BY <1>1, <1>2, PTL DEF Spec

\* Every variable keeps its type, and the cursor of the rotation never leaves
\* the pool, however pushes shorten it between two picks.
THEOREM PoolTypeOK == Spec => []TypeOK
<1>1. Init => CursorInv BY DEF Init, CursorInv
<1>2. PoolInv /\ PoolInv' /\ CursorInv /\ [Next]_vars => CursorInv' BY CursorStep
<1>3. PoolInv /\ CursorInv => TypeOK BY DEF PoolInv, Types, CursorInv, TypeOK, Reqs
<1> QED BY <1>1, <1>2, <1>3, PoolInvariant, PTL DEF Spec

\* The in-flight set of every replica is exactly the requests that run on
\* its container, whatever pushes, retries, sweeps and restarts do.
THEOREM InflightSafe == Spec => []InflightExact
<1>1. PoolInv => InflightExact BY DEF PoolInv
<1> QED BY <1>1, PoolInvariant, PTL

\* No drain is ever reported twice.
THEOREM DrainedOnceSafe == Spec => []DrainedOnce
<1>1. PoolInv => DrainedOnce BY DEF PoolInv, OpenDrains, DrainedOnce
<1> QED BY <1>1, PoolInvariant, PTL

\* At the step that reports a drain nothing runs on the container.
THEOREM DrainedIdleSafe == Spec => DrainedIdle
<1> DEFINE Step == \A r \in Replica : reports'[r] = reports[r] + 1 => OpenOn(r)' = {}
<1>1. PoolInv /\ PoolInv' /\ [Next]_vars => [Step]_vars
  <2> SUFFICES ASSUME PoolInv, PoolInv', [Next]_vars PROVE Step OBVIOUS
  <2> QED BY ReportStep
<1>2. Spec => [][Step]_vars BY <1>1, PoolInvariant, PTL DEF Spec
<1> QED BY <1>2 DEF DrainedIdle
=============================================================================
