-------------------------- MODULE DeployCrashProofs -------------------------
(***************************************************************************)
(* Deploys and a daemon that dies: when nothing fails but caramelod itself, *)
(* any number of times, at any step of SafeCrash, what the traffic of an   *)
(* environment sees is the abstract switch of Switch, one unfinished       *)
(* deploy at a time is driven, and between deploys the edge serves the     *)
(* release of the environment and nothing else runs.                       *)
(*                                                                         *)
(* The inductive invariant has two halves. RunInv says who may be running: *)
(* one run at most, one unfinished row at most, and a row without a run is *)
(* still to be resumed. ServingInv says, for every step a run may be at    *)
(* and for every row a death may leave, which containers run which         *)
(* release, which of them the edge uses and what the table in the store    *)
(* says. The refinement then needs no argument of its own: every step      *)
(* leads from one described state to another.                              *)
(***************************************************************************)
EXTENDS DeployPoolProofs

\* Nothing fails but the daemon, if it does, and where the next one can go on.
OnlyCrashes == Faults \subseteq {"crash"} /\ ("crash" \in Faults => CrashAt \subseteq SafeCrash)

-----------------------------------------------------------------------------
(* Who runs. *)

\* The steps at which a run has its release.
BuiltPcs == ReleasePcs \cup GatePcs \cup FlippedPcs \cup PromotePcs \cup {"push", "stopHeld", "rbPush"}

Owned(d) ==
    /\ pc[d] \notin {"idle", "register"} \cup EndPcs => envDeploy = d
    /\ pc[d] \notin {"idle", "register"} => d \in watches
    /\ pc[d] \in WatchingPcs => rows[d].status = "watching"
    /\ pc[d] \in BeforeWatch => rows[d].status # "watching"
    /\ pc[d] # "idle" => rows[d].status # "none"
    /\ pc[d] = "clear" => Done(d)
    /\ pc[d] \in BuiltPcs => rows[d].rel # None
    /\ rows[d].status = "watching" => rows[d].rel # None
    /\ pc[d] \notin {"idle", "commit"} \cup EndPcs => rows[d].from = envRelease
    /\ pc[d] \notin UndoPcs

\* A row that a death left.
Left(d) ==
    d \in Unfinished /\ pc[d] = "idle" =>
        /\ up => d \in todo
        /\ rows[d].from = envRelease
        /\ rows[d].status = "watching" => envDeploy = d

RunInv ==
    /\ Solo
    /\ Resuming => AllIdle
    /\ todo \subseteq Unfinished
    /\ \A d, e \in Unfinished : d = e
    /\ \A d \in Deploys : Owned(d) /\ Left(d)

-----------------------------------------------------------------------------
(* What serves. *)

\* The pool of the environment's release, and the one a deploy brings in.
Old(p) == (\A i \in p : replicas[i] = envRelease) /\ (envRelease # None => p # {})
New(d, p) == (\A i \in p : replicas[i] = rows[d].rel) /\ p # {}

\* The edge serves the environment's release and nothing else runs.
Settled == edge = targets /\ Behind(edge) = {} /\ Running = Active(edge) /\ Old(Active(edge))

\* Which containers run what, which the edge uses and what is recorded.
Placed(d) ==
    /\ pc[d] \in {"idle"} \cup EarlyPcs => fresh[d] = {} /\ held[d] = {}
    /\ pc[d] \in {"idle", "push"} \cup EarlyPcs \cup GatePcs => d \notin pushed
    /\ pc[d] \in {"commit", "rbClear"} \cup EarlyPcs \cup EndPcs => Settled
    /\ pc[d] \in RestorePcs /\ verdict[d] = "rolled_back" => Settled
    /\ pc[d] \in {"push"} \cup GatePcs =>
        /\ Active(edge) = held[d] /\ Old(held[d])
        /\ \A i \in fresh[d] : replicas[i] = rows[d].rel
        /\ fresh[d] \cap held[d] = {} /\ Running = held[d] \cup fresh[d]
    /\ pc[d] \in ({"push"} \cup GatePcs) \ {"bringUp"} => fresh[d] # {}
    /\ pc[d] \in GatePcs => edge = targets /\ Behind(edge) = {}
    /\ pc[d] \in {"stopHeld", "rbPush"} \cup FlippedPcs =>
        /\ Active(edge) = fresh[d] /\ New(d, fresh[d]) /\ Old(held[d])
        /\ fresh[d] \cap held[d] = {} /\ Running = fresh[d] \cup held[d]
    /\ pc[d] \in {"push", "stopHeld"} \cup FlippedPcs =>
        Active(targets) = fresh[d] /\ Behind(targets) = held[d]
    /\ pc[d] \in ({"stopHeld"} \cup FlippedPcs) \ {"holdPush"} => edge = targets
    /\ pc[d] \in {"promoteRecord", "promotePush", "setRelease"} =>
        Active(edge) = fresh[d] /\ New(d, fresh[d]) /\ Running = fresh[d]
    /\ pc[d] \in {"promotePush", "rbPush2"} => Active(targets) = fresh[d] /\ Behind(targets) = {}
    /\ pc[d] = "setRelease" => edge = targets /\ Behind(edge) = {}
    /\ pc[d] = "rbPush" => Active(targets) = held[d]
    /\ pc[d] \in {"rbRecord", "rbPush", "rbRecord2", "rbPush2"} => verdict[d] = "rolled_back"
    /\ pc[d] \in {"rbRecord2", "rbPush2"} => Active(edge) = fresh[d] /\ Old(fresh[d]) /\ Running = fresh[d]
    /\ pc[d] \in {"removeFresh"} \cup RestorePcs /\ verdict[d] # "rolled_back" =>
        /\ edge = targets /\ Behind(edge) = {} /\ Old(Active(edge))
        /\ Active(edge) \cap fresh[d] = {} /\ Running = Active(edge) \cup fresh[d]
    /\ pc[d] = "removeFresh" /\ verdict[d] = "rolled_back" =>
        /\ Active(edge) = held[d] /\ Old(held[d])
        /\ fresh[d] \cap held[d] = {} /\ Running = fresh[d] \cup held[d]

\* What a death leaves of a deploy: before the flip the old pool serves and
\* what else runs is the deploy's; after it both pools run and the table
\* names them, and the daemon that comes up pushes it.
Interrupted(d) ==
    d \in Unfinished /\ pc[d] = "idle" =>
        /\ rows[d].status # "watching" =>
            /\ edge = targets /\ Behind(edge) = {} /\ Old(Active(edge)) /\ Active(edge) \subseteq Running
            /\ \A i \in Running \ Active(edge) : replicas[i] = rows[d].rel
        /\ rows[d].status = "watching" =>
            /\ New(d, Active(targets)) /\ Old(Behind(targets))
            /\ Running = Active(targets) \cup Behind(targets)
            /\ Active(edge) \in {Active(targets), Behind(targets)}
            /\ up => edge = targets

ServingInv ==
    /\ \A d \in Deploys : Placed(d) /\ Interrupted(d)
    /\ AllIdle /\ Unfinished = {} => Settled

-----------------------------------------------------------------------------
(* The frame of a step of a run. *)

\* Only a crash is a failure.
LEMMA CrashOnly ==
    ASSUME OnlyCrashes, NEW k, Fault(k)
    PROVE  k = "crash"
  BY DEF OnlyCrashes, Fault

\* A step of a run changes nothing of the others, and it ends with its row
\* finished.
LEMMA RunInvStep ==
    ASSUME TypeOK, RunInv, NEW d \in Deploys, RunFrame(d),
           \A e \in Deploys : Done(e) => rows'[e] = rows[e],
           Owned(d)', pc'[d] = "idle" => Done(d)'
    PROVE  RunInv'
  <1>0. up /\ up' /\ todo = {} /\ todo' = {} /\ ~Resuming'
    BY DEF RunInv, Resuming, AllIdle, RunFrame
  <1>1. pc[d] # "idle" /\ \A e \in Deploys \ {d} : pc[e] = "idle" /\ pc'[e] = "idle" /\ rows'[e] = rows[e]
    BY DEF RunInv, Solo, RunFrame
  <1>2. \A e \in Deploys \ {d} : e \notin Unfinished
    BY <1>0, <1>1 DEF RunInv, Left
  <1>3. \A e \in Deploys \ {d} : e \notin Unfinished'
    BY <1>1, <1>2 DEF Unfinished, Done
  <1>4. Solo' /\ \A e, f \in Unfinished' : e = f
    BY <1>1, <1>3 DEF Solo, Unfinished
  <1>5. ASSUME NEW e \in Deploys \ {d} PROVE Owned(e)' /\ Left(e)'
    <2>1. rows[e].status = "watching" => rows[e].rel # None
      BY DEF RunInv, Owned
    <2> QED
      BY <1>1, <1>3, <2>1 DEF Owned, Left, EarlyPcs, GatePcs, UndoPcs, FlippedPcs, PromotePcs, EndPcs, BeforeWatch,
                              WatchingPcs, ReleasePcs, BuiltPcs
  <1>6. Left(d)'
    BY DEF Left, Unfinished
  <1> QED
    BY <1>0, <1>4, <1>5, <1>6 DEF RunInv

\* And what it leaves of the pools has to hold for its own run only.
LEMMA ServingStep ==
    ASSUME TypeOK, RunInv, RunInv', ServingInv, NEW d \in Deploys, RunFrame(d), PoolFrame(d),
           Placed(d)', pc'[d] = "idle" => Settled'
    PROVE  ServingInv'
  <1>0. up /\ up' /\ todo' = {}
    BY DEF RunInv, Resuming, AllIdle, RunFrame
  <1>1. \A e \in Deploys \ {d} : pc[e] = "idle" /\ pc'[e] = "idle"
    BY DEF RunInv, Solo, RunFrame
  <1>2. ASSUME NEW e \in Deploys \ {d} PROVE Placed(e)'
    <2>1. fresh'[e] = {} /\ held'[e] = {} /\ e \notin pushed'
      BY <1>1, <1>2 DEF ServingInv, Placed, PoolFrame
    <2> QED
      BY <1>1, <1>2, <2>1 DEF Placed, EarlyPcs, GatePcs, FlippedPcs, RestorePcs, EndPcs
  <1>3. \A e \in Deploys : Interrupted(e)'
    BY <1>0 DEF RunInv, Left, Interrupted
  <1> QED
    BY <1>2, <1>3 DEF ServingInv, AllIdle

-----------------------------------------------------------------------------
(* The steps of a run. *)

RunDone(d) == Owned(d)' /\ Placed(d)' /\ (pc'[d] = "idle" => Done(d)' /\ Settled')

\* A step that moves no container, no table and no pool leaves every formula
\* about them as it is.
LEMMA StillServing ==
    ASSUME NEW d \in Deploys, Still(d), rows'[d].rel = rows[d].rel
    PROVE  /\ Settled' <=> Settled
           /\ Old(held[d])' <=> Old(held[d])
           /\ Old(fresh[d])' <=> Old(fresh[d])
           /\ Old(Active(edge))' <=> Old(Active(edge))
           /\ New(d, fresh[d])' <=> New(d, fresh[d])
  BY DEF Still, Settled, Old, New, Active, Behind, Running

\* The steps in front of the flip that start no container.
LEMMA GateServes ==
    ASSUME TypeOK, OnlyCrashes, NEW d \in Deploys, Owned(d), Placed(d), Gate(d),
           ~Build(d), ~Start(d), ~BringUp(d), ~BringUpFails(d)
    PROVE  RunDone(d)
  <1> USE DEF EarlyPcs, GatePcs, UndoPcs, FlippedPcs, PromotePcs, RestorePcs, EndPcs, BeforeWatch, WatchingPcs,
              ReleasePcs, BuiltPcs
  <1>f. \A k : Fault(k) => k = "crash"
    BY CrashOnly
  <1>1. Still(d)
    BY <1>f DEF Gate, Register, Plan, Migrate, Before, Checking, Check, GateFails, StatusFails,
                EnterGate, PassGate, Still, NoFault, store, world, rowVars
  <1>2. rows[d] \in Row /\ (rows' = rows \/ \E s : rows' = [rows EXCEPT ![d].status = s])
    BY DEF Gate, Register, Plan, Migrate, Before, Checking, Check, GateFails, StatusFails, EnterGate, PassGate,
           SetStatus, store, TypeOK
  <1>3. rows'[d].rel = rows[d].rel /\ rows'[d].from = rows[d].from
    BY <1>2 DEF TypeOK, Row
  <1> DEFINE Moves ==
        \/ pc[d] = "register" /\ pc'[d] = "build" /\ envDeploy' = d /\ watches' = watches \cup {d} /\ rows' = rows
        \/ /\ envDeploy' = envDeploy /\ watches' = watches
           /\ \/ rows' = rows /\ pc[d] = "plan" /\ pc'[d] = "migrate"
              \/ rows'[d].status = "migrating" /\ pc[d] = "migrate" /\ pc'[d] = "before"
              \/ rows' = rows /\ pc[d] = "before" /\ pc'[d] = "start"
              \/ rows'[d].status = "checking" /\ pc[d] = "checking" /\ pc'[d] = "check"
              \/ rows' = rows /\ pc[d] = "check" /\ pc'[d] = "replace"
      Failing == pc[d] \in {"build", "plan", "before", "check"}
  <1>4. Moves \/ (StartFail(d) /\ Failing /\ envDeploy' = envDeploy /\ watches' = watches /\ rows' = rows)
    BY <1>f, GotoFrame, StatusFrame DEF Gate, Register, Plan, Migrate, Before, Checking, Check, GateFails,
       StatusFails, EnterGate, PassGate, At, store, daemon, rowVars
  <1>5. CASE Moves
    <2>1. Owned(d)'
      BY <1>1, <1>3, <1>5 DEF Owned, Still
    <2>2. Placed(d)'
      BY <1>1, <1>3, <1>5, StillPools, StillServing DEF Placed, Still
    <2> QED
      BY <1>5, <2>1, <2>2 DEF RunDone
  <1>6. CASE StartFail(d) /\ Failing /\ envDeploy' = envDeploy /\ watches' = watches /\ rows' = rows
    <2>1. pc'[d] = "restoreConfig" /\ verdict'[d] = "failed"
      BY <1>6, FailStep DEF Placed
    <2>2. Owned(d)'
      BY <1>1, <1>3, <1>6, <2>1 DEF Owned, Still
    <2>3. /\ edge = targets /\ Behind(edge) = {} /\ Old(Active(edge))
          /\ Active(edge) \cap fresh[d] = {} /\ Running = Active(edge) \cup fresh[d]
      BY <1>6 DEF Placed, Settled
    <2>4. Placed(d)'
      BY <1>1, <1>3, <2>1, <2>3, StillPools, StillServing DEF Placed, Still
    <2> QED
      BY <2>1, <2>2, <2>4 DEF RunDone
  <1> QED
    BY <1>4, <1>5, <1>6

\* The release of the deploy.
LEMMA BuildServes ==
    ASSUME TypeOK, OnlyCrashes, NEW d \in Deploys, Owned(d), Placed(d), Build(d)
    PROVE  RunDone(d)
  <1> USE DEF EarlyPcs, GatePcs, UndoPcs, FlippedPcs, PromotePcs, RestorePcs, EndPcs, BeforeWatch, WatchingPcs,
              ReleasePcs, BuiltPcs
  <1>1. \A e \in Deploys : rows[e].rel \in MaybeRelease
    BY DEF TypeOK, Row
  <1>2. RollbackTargets \subseteq Releases
    BY <1>1 DEF RollbackTargets, Built, Promoted, MaybeRelease
  <1>3. PICK r \in Releases : rows' = [rows EXCEPT ![d].rel = r]
    BY <1>2 DEF Build
  <1>4. rows'[d] = [rows[d] EXCEPT !.rel = r] /\ rows[d] \in Row
    BY <1>3 DEF TypeOK
  <1>5. rows'[d].status = rows[d].status /\ rows'[d].rel # None /\ rows'[d].from = rows[d].from
    BY <1>4, DeployAssumption DEF Row
  <1>6. /\ envDeploy' = envDeploy /\ watches' = watches /\ pc[d] = "build"
        /\ edge' = edge /\ targets' = targets /\ replicas' = replicas /\ envRelease' = envRelease
        /\ fresh' = fresh /\ held' = held /\ pushed' = pushed
    BY DEF Build, rowVars, daemon, At, world
  <1>7. pc'[d] = "plan"
    BY GotoFrame DEF Build
  <1>8. Settled' <=> Settled
    BY <1>6 DEF Settled, Old, Active, Behind, Running
  <1>9. Owned(d)'
    BY <1>5, <1>6, <1>7 DEF Owned
  <1>10. Placed(d)'
    BY <1>6, <1>7, <1>8 DEF Placed
  <1> QED
    BY <1>7, <1>9, <1>10 DEF RunDone

\* The old pool is everything that runs.
LEMMA StartServes ==
    ASSUME TypeOK, OnlyCrashes, NEW d \in Deploys, Owned(d), Placed(d), Start(d)
    PROVE  RunDone(d)
  <1> USE DEF EarlyPcs, GatePcs, UndoPcs, FlippedPcs, PromotePcs, RestorePcs, EndPcs, BeforeWatch, WatchingPcs,
              ReleasePcs, BuiltPcs
  <1>1. /\ edge' = edge /\ targets' = targets /\ replicas' = replicas /\ envRelease' = envRelease
        /\ fresh' = fresh /\ pushed' = pushed /\ pc[d] = "start" /\ envDeploy' = envDeploy /\ watches' = watches
    BY DEF Start, At, rowVars, world, daemon
  <1>2. rows[d] \in Row /\ rows' = [rows EXCEPT ![d].status = "starting"]
    BY DEF Start, SetStatus, TypeOK
  <1>3. rows'[d].rel = rows[d].rel /\ rows'[d].from = rows[d].from /\ rows'[d].status = "starting"
    BY <1>2 DEF TypeOK, Row
  <1>4. Settled /\ fresh[d] = {} /\ d \notin pushed
    BY <1>1 DEF Placed
  <1>5. /\ Active(edge)' = Active(edge) /\ Behind(edge)' = Behind(edge) /\ Running' = Running
        /\ Old(Active(edge))' <=> Old(Active(edge))
    BY <1>1 DEF Active, Behind, Running, Old
  <1>6. CASE held' = [held EXCEPT ![d] = Running] /\ Goto(d, "bringUp")
    <2>1. held'[d] = Running /\ pc'[d] = "bringUp"
      BY <1>6, GotoFrame DEF TypeOK
    <2>2. Old(held[d])'
      BY <1>1, <1>4, <2>1 DEF Settled, Old
    <2>3. Owned(d)'
      BY <1>1, <1>3, <2>1 DEF Owned
    <2>4. Placed(d)'
      BY <1>1, <1>4, <1>5, <2>1, <2>2 DEF Placed, Settled
    <2> QED
      BY <2>1, <2>3, <2>4 DEF RunDone
  <1>7. CASE StartFail(d) /\ held' = held
    <2>1. pc'[d] = "restoreConfig" /\ verdict'[d] = "failed"
      BY <1>4, <1>7, FailStep
    <2>2. Owned(d)'
      BY <1>1, <1>3, <2>1 DEF Owned
    <2>3. Placed(d)'
      BY <1>1, <1>4, <1>5, <2>1 DEF Placed, Settled
    <2> QED
      BY <2>1, <2>2, <2>3 DEF RunDone
  <1> QED
    BY <1>6, <1>7 DEF Start

\* A container of the release is started at an index nobody uses.
LEMMA BringUpServes ==
    ASSUME TypeOK, OnlyCrashes, NEW d \in Deploys, Owned(d), Placed(d), BringUp(d) \/ BringUpFails(d)
    PROVE  RunDone(d)
  <1> USE DEF EarlyPcs, GatePcs, UndoPcs, FlippedPcs, PromotePcs, RestorePcs, EndPcs, BeforeWatch, WatchingPcs,
              ReleasePcs, BuiltPcs
  <1>1. /\ edge' = edge /\ targets' = targets /\ envRelease' = envRelease /\ rows' = rows
        /\ held' = held /\ pushed' = pushed /\ pc[d] = "bringUp" /\ envDeploy' = envDeploy /\ watches' = watches
    BY DEF BringUp, BringUpFails, At, store, daemon
  <1>2. /\ Active(edge) = held[d] /\ Old(held[d]) /\ edge = targets /\ Behind(edge) = {}
        /\ \A i \in fresh[d] : replicas[i] = rows[d].rel
        /\ fresh[d] \cap held[d] = {} /\ Running = held[d] \cup fresh[d] /\ d \notin pushed
    BY <1>1 DEF Placed
  <1>3. rows[d].rel # None
    BY <1>1 DEF Owned
  <1>4. NextIndex(d) \subseteq Index \ (held[d] \cup fresh[d])
    BY DEF NextIndex, FreeIndexes
  <1>5. \/ replicas' = replicas /\ fresh' = fresh /\ StartFail(d)
        \/ /\ \E i \in NextIndex(d) : /\ replicas' = [replicas EXCEPT ![i] = rows[d].rel]
                                      /\ fresh' = [fresh EXCEPT ![d] = @ \cup {i}]
           /\ StartFail(d) \/ Goto(d, "checking") \/ Goto(d, "bringUp")
    BY DEF BringUp, BringUpFails
  <1>6. /\ fresh'[d] \cap held[d] = {}
        /\ \A j \in held[d] : replicas'[j] = replicas[j]
        /\ \A i \in fresh'[d] : replicas'[i] = rows[d].rel
        /\ Running' = Running \cup fresh'[d] /\ fresh[d] \subseteq fresh'[d]
        /\ ~StartFail(d) => fresh'[d] # {}
    <2>1. CASE replicas' = replicas /\ fresh' = fresh /\ StartFail(d)
      BY <2>1, <1>2 DEF Running, TypeOK
    <2>2. ASSUME NEW i \in NextIndex(d), replicas' = [replicas EXCEPT ![i] = rows[d].rel],
                 fresh' = [fresh EXCEPT ![d] = @ \cup {i}]
          PROVE  <1>6!:
      <3>1. i \in Index /\ i \notin held[d] /\ i \notin fresh[d]
        BY <1>4
      <3>2. fresh'[d] = fresh[d] \cup {i} /\ fresh[d] \subseteq Index /\ held[d] \subseteq Index
        BY <2>2 DEF TypeOK
      <3>3. replicas'[i] = rows[d].rel /\ \A j \in Index \ {i} : replicas'[j] = replicas[j]
        BY <2>2, <3>1 DEF TypeOK
      <3> QED
        BY <1>2, <1>3, <3>1, <3>2, <3>3 DEF Running
    <2> QED
      BY <1>5, <2>1, <2>2
  <1>7. Old(held[d])' /\ Active(edge)' = held[d] /\ Behind(edge)' = {} /\ Running' = held[d] \cup fresh'[d]
    BY <1>1, <1>2, <1>6 DEF Old, Active, Behind
  <1>8. Old(Active(edge))'
    BY <1>1, <1>7 DEF Old
  <1>9. CASE StartFail(d)
    <2>1. pc'[d] = "restoreConfig" /\ verdict'[d] = "failed"
      BY <1>2, <1>9, FailStep
    <2>2. Owned(d)'
      BY <1>1, <2>1 DEF Owned
    <2>3. Placed(d)'
      BY <1>1, <1>2, <1>6, <1>7, <1>8, <2>1 DEF Placed
    <2> QED
      BY <2>1, <2>2, <2>3 DEF RunDone
  <1>10. CASE ~StartFail(d)
    <2>1. pc'[d] \in {"checking", "bringUp"}
      BY <1>5, <1>10, GotoFrame
    <2>2. Owned(d)'
      BY <1>1, <2>1 DEF Owned
    <2>3. Placed(d)'
      BY <1>1, <1>2, <1>6, <1>7, <1>10, <2>1 DEF Placed
    <2> QED
      BY <2>1, <2>2, <2>3 DEF RunDone
  <1> QED
    BY <1>9, <1>10

\* Recording a table and pushing it succeed.
LEMMA Recorded ==
    ASSUME TypeOK, OnlyCrashes, NEW d \in Deploys, NEW t, NEW next, NEW bad, Record(d, t, next, bad)
    PROVE  /\ targets' = t /\ pc'[d] = next
           /\ edge' = edge /\ replicas' = replicas /\ envRelease' = envRelease
           /\ rows' = rows /\ envDeploy' = envDeploy /\ watches' = watches
           /\ fresh' = fresh /\ held' = held /\ pushed' = pushed
           /\ Active(edge)' = Active(edge) /\ Behind(edge)' = Behind(edge) /\ Running' = Running
           /\ Old(held[d])' <=> Old(held[d])
           /\ Old(fresh[d])' <=> Old(fresh[d])
           /\ New(d, fresh[d])' <=> New(d, fresh[d])
  <1>1. ~Fault("store")
    BY CrashOnly
  <1>2. /\ targets' = t /\ pc'[d] = next
        /\ edge' = edge /\ replicas' = replicas /\ envRelease' = envRelease
        /\ rows' = rows /\ envDeploy' = envDeploy /\ watches' = watches
        /\ fresh' = fresh /\ held' = held /\ pushed' = pushed
    BY <1>1, GotoFrame DEF Record, world, rowVars, daemon
  <1> QED
    BY <1>2 DEF Active, Behind, Running, Old, New

LEMMA Pushed ==
    ASSUME TypeOK, OnlyCrashes, NEW d \in Deploys, NEW next, NEW bad, PushTable(d, next, bad)
    PROVE  /\ edge' = targets /\ pc'[d] = next
           /\ targets' = targets /\ replicas' = replicas /\ envRelease' = envRelease
           /\ rows' = rows /\ envDeploy' = envDeploy /\ watches' = watches
           /\ fresh' = fresh /\ held' = held
           /\ Active(targets)' = Active(targets) /\ Behind(targets)' = Behind(targets)
           /\ Active(edge)' = Active(targets) /\ Behind(edge)' = Behind(targets) /\ Running' = Running
           /\ Old(held[d])' <=> Old(held[d])
           /\ Old(fresh[d])' <=> Old(fresh[d])
           /\ New(d, fresh[d])' <=> New(d, fresh[d])
  <1>1. ~Fault("push")
    BY CrashOnly
  <1>2. /\ edge' = targets /\ pc'[d] = next
        /\ targets' = targets /\ replicas' = replicas /\ envRelease' = envRelease
        /\ rows' = rows /\ envDeploy' = envDeploy /\ watches' = watches
        /\ fresh' = fresh /\ held' = held
    BY <1>1, GotoFrame DEF PushTable, store, daemon
  <1> QED
    BY <1>2 DEF Active, Behind, Running, Old, New

\* The flip.
LEMMA FlipServes ==
    ASSUME TypeOK, OnlyCrashes, NEW d \in Deploys, Owned(d), Placed(d), Flip(d)
    PROVE  RunDone(d)
  <1> USE DEF EarlyPcs, GatePcs, UndoPcs, FlippedPcs, PromotePcs, RestorePcs, EndPcs, BeforeWatch, WatchingPcs,
              ReleasePcs, BuiltPcs
  <1>f. \A k : Fault(k) => k = "crash"
    BY CrashOnly
  <1>t. fresh[d] \in SUBSET Index /\ held[d] \in SUBSET Index
    BY DEF TypeOK
  <1>1. CASE Replace(d) \/ WorkerRow(d) \/ WebRow(d) \/ SetWatching(d)
    <2>1. Still(d) /\ envDeploy' = envDeploy /\ watches' = watches
      BY <1>1, <1>f DEF Replace, WorkerRow, SetWatching, WebRow, PutRow, EnterGate, Still, NoFault, store, world,
                        rowVars, daemon
    <2>2. rows[d] \in Row /\ (rows' = rows \/ \E s : rows' = [rows EXCEPT ![d].status = s])
      BY <1>1 DEF Replace, WorkerRow, SetWatching, WebRow, EnterGate, SetStatus, store, TypeOK
    <2>3. rows'[d].rel = rows[d].rel /\ rows'[d].from = rows[d].from
      BY <2>2 DEF TypeOK, Row
    <2>4. \/ rows' = rows /\ pc[d] = "replace" /\ pc'[d] = "workerRow"
          \/ rows' = rows /\ pc[d] = "workerRow" /\ pc'[d] = "watching"
          \/ rows'[d].status = "watching" /\ pc[d] = "watching" /\ pc'[d] = "record"
          \/ rows' = rows /\ pc[d] = "webRow" /\ pc'[d] = "drain"
      BY <1>f, <1>1, GotoFrame, StatusFrame DEF Replace, WorkerRow, SetWatching, WebRow, PutRow, EnterGate, At, store
    <2>5. Owned(d)'
      BY <2>1, <2>3, <2>4 DEF Owned, Still
    <2>6. Placed(d)'
      BY <2>1, <2>3, <2>4, StillPools, StillServing DEF Placed, Still
    <2> QED
      BY <2>4, <2>5, <2>6 DEF RunDone
  <1>2. CASE RecordFlip(d)
    <2> DEFINE t == Table(fresh[d], "active", held[d], "draining")
    <2>1. pc[d] = "record" /\ Record(d, t, "push", "unrecord")
      BY <1>2 DEF RecordFlip, At
    <2>2. Active(t) = fresh[d] /\ Behind(t) = held[d]
      BY <1>t, <2>1, TableSets DEF Placed
    <2> HIDE DEF t
    <2>3. Active(targets)' = fresh[d] /\ Behind(targets)' = held[d]
      BY <2>1, <2>2, Recorded DEF Active, Behind
    <2>4. Owned(d)'
      BY <2>1, Recorded DEF Owned
    <2>5. Placed(d)'
      BY <2>1, <2>3, Recorded DEF Placed
    <2> QED
      BY <2>1, <2>4, <2>5, Recorded DEF RunDone
  <1>3. CASE Push(d)
    <2>1. pc[d] = "push" /\ PushTable(d, "webRow", "unrecord")
      BY <1>3 DEF Push, At
    <2>2. New(d, fresh[d]) /\ Old(held[d])
      BY <2>1 DEF Placed, New
    <2>3. Owned(d)'
      BY <2>1, Pushed DEF Owned
    <2>4. Placed(d)'
      BY <2>1, <2>2, Pushed DEF Placed
    <2> QED
      BY <2>1, <2>3, <2>4, Pushed DEF RunDone
  <1>4. CASE Hold(d) /\ held[d] # {}
    <2> DEFINE t == Table(fresh[d], "active", held[d], "held")
    <2>1. pc[d] = "drain" /\ Record(d, t, "holdPush", "watch")
      BY <1>4 DEF Hold, At
    <2>2. Active(t) = fresh[d] /\ Behind(t) = held[d]
      BY <1>t, <2>1, TableSets DEF Placed
    <2> HIDE DEF t
    <2>3. Active(targets)' = fresh[d] /\ Behind(targets)' = held[d]
      BY <2>1, <2>2, Recorded DEF Active, Behind
    <2>4. Owned(d)'
      BY <2>1, Recorded DEF Owned
    <2>5. Placed(d)'
      BY <2>1, <2>3, Recorded DEF Placed
    <2> QED
      BY <2>1, <2>4, <2>5, Recorded DEF RunDone
  <1>5. CASE Hold(d) /\ held[d] = {}
    <2>1. /\ pc[d] = "drain" /\ pc'[d] = "watch" /\ Still(d)
          /\ rows' = rows /\ envDeploy' = envDeploy /\ watches' = watches
      BY <1>5, GotoFrame DEF Hold, At, Still, NoFault, store, world, daemon
    <2>2. Owned(d)'
      BY <2>1 DEF Owned, Still
    <2>3. Placed(d)'
      BY <2>1, StillPools, StillServing DEF Placed, Still
    <2> QED
      BY <2>1, <2>2, <2>3 DEF RunDone
  <1>6. CASE HoldPush(d)
    <2>1. pc[d] = "holdPush" /\ PushTable(d, "watch", "watch") /\ pushed' = pushed
      BY <1>6 DEF HoldPush, At
    <2>2. Owned(d)'
      BY <2>1, Pushed DEF Owned
    <2>3. Placed(d)'
      BY <2>1, Pushed DEF Placed
    <2> QED
      BY <2>1, <2>2, <2>3, Pushed DEF RunDone
  <1>7. ~Unrecord(d) /\ ~Unpush(d)
    BY DEF Unrecord, Unpush, At, Owned
  <1> QED
    BY <1>1, <1>2, <1>3, <1>4, <1>5, <1>6, <1>7 DEF Flip

\* The watch.
LEMMA WatchServes ==
    ASSUME TypeOK, OnlyCrashes, NEW d \in Deploys, Owned(d), Placed(d), Watch(d)
    PROVE  RunDone(d)
  <1> USE DEF EarlyPcs, GatePcs, UndoPcs, FlippedPcs, PromotePcs, RestorePcs, EndPcs, BeforeWatch, WatchingPcs,
              ReleasePcs, BuiltPcs
  <1>1. Still(d) /\ rows' = rows /\ envDeploy' = envDeploy /\ watches' = watches
    BY DEF Watch, TakeLock, WatchFails, WindowOver, PromotedByHand, RolledBackByHand, Leave, Still, NoFault,
           store, world, daemon
  <1>2. ASSUME NEW step, NEW status, Leave(d, step, status)
        PROVE  pc'[d] = step /\ verdict'[d] = status
    BY <1>2, GotoFrame DEF Leave, TypeOK
  <1>3. /\ pc[d] \in {"lockWait", "watch", "await"}
        /\ pc'[d] \in {"watch", "await", "stopHeld", "rbRecord"}
        /\ pc'[d] = "rbRecord" => verdict'[d] = "rolled_back"
    BY <1>2, GotoFrame DEF Watch, TakeLock, WatchFails, WindowOver, PromotedByHand, RolledBackByHand, Watched, At
  <1>4. Owned(d)'
    BY <1>1, <1>3 DEF Owned, Still
  <1>5. Placed(d)'
    BY <1>1, <1>3, StillPools, StillServing DEF Placed, Still
  <1> QED
    BY <1>3, <1>4, <1>5 DEF RunDone

\* Stopping a pool takes all of it and nothing else.
LEMMA Stopped ==
    ASSUME TypeOK, OnlyCrashes, NEW pool \in SUBSET Index, NEW bad, StopPool(pool, bad)
    PROVE  /\ \A i \in Index \ pool : replicas'[i] = replicas[i]
           /\ bad = {} /\ Running' = Running \ pool
  <1>1. ~Fault("stop")
    BY CrashOnly
  <1>2. bad = {} /\ replicas' = [i \in Index |-> IF i \in pool THEN None ELSE replicas[i]]
    BY <1>1 DEF StopPool
  <1> QED
    BY <1>2 DEF Running

\* promote.
LEMMA PromoteServes ==
    ASSUME TypeOK, OnlyCrashes, NEW d \in Deploys, Owned(d), Placed(d), Promote(d)
    PROVE  RunDone(d)
  <1> USE DEF EarlyPcs, GatePcs, UndoPcs, FlippedPcs, PromotePcs, RestorePcs, EndPcs, BeforeWatch, WatchingPcs,
              ReleasePcs, BuiltPcs
  <1>f. \A k : Fault(k) => k = "crash"
    BY CrashOnly
  <1>t. fresh[d] \in SUBSET Index /\ held[d] \in SUBSET Index
    BY DEF TypeOK
  <1>1. CASE StopHeld(d)
    <2>1. /\ pc[d] = "stopHeld" /\ fresh' = fresh /\ edge' = edge /\ targets' = targets /\ envRelease' = envRelease
          /\ rows' = rows /\ envDeploy' = envDeploy /\ watches' = watches
      BY <1>1 DEF StopHeld, At, store, daemon
    <2>2. PICK bad \in SUBSET held[d] :
             /\ StopPool(held[d], bad)
             /\ Goto(d, IF held[d] \ bad # {} THEN "promoteRecord" ELSE "setRelease")
      BY <1>1 DEF StopHeld
    <2>3. /\ \A i \in Index \ held[d] : replicas'[i] = replicas[i]
          /\ bad = {} /\ Running' = Running \ held[d]
      BY <1>t, <2>2, Stopped
    <2>4. pc'[d] = IF held[d] # {} THEN "promoteRecord" ELSE "setRelease"
      BY <2>2, <2>3, GotoFrame
    <2>5. /\ Active(edge) = fresh[d] /\ fresh[d] \cap held[d] = {} /\ New(d, fresh[d]) /\ edge = targets
          /\ Running = fresh[d] \cup held[d] /\ Behind(targets) = held[d]
      BY <2>1 DEF Placed
    <2>6. /\ Active(edge)' = fresh[d] /\ Behind(edge)' = held[d] /\ Running' = fresh[d] /\ New(d, fresh[d])'
      BY <1>t, <2>1, <2>3, <2>5 DEF Active, Behind, New
    <2>7. Owned(d)'
      BY <2>1, <2>4 DEF Owned
    <2>8. Placed(d)'
      BY <2>1, <2>4, <2>5, <2>6 DEF Placed
    <2> QED
      BY <2>4, <2>7, <2>8 DEF RunDone
  <1>2. CASE PromoteRecord(d)
    <2> DEFINE t == Table(fresh[d], "active", {}, "none")
    <2>1. pc[d] = "promoteRecord" /\ Record(d, t, "promotePush", "setRelease")
      BY <1>2 DEF PromoteRecord, At
    <2>2. Active(t) = fresh[d] /\ Behind(t) = {}
      BY <1>t DEF Active, Behind, Table
    <2> HIDE DEF t
    <2>3. Active(targets)' = fresh[d] /\ Behind(targets)' = {}
      BY <2>1, <2>2, Recorded DEF Active, Behind
    <2>4. Owned(d)'
      BY <2>1, Recorded DEF Owned
    <2>5. Placed(d)'
      BY <2>1, <2>3, Recorded DEF Placed
    <2> QED
      BY <2>1, <2>4, <2>5, Recorded DEF RunDone
  <1>3. CASE PromotePush(d)
    <2>1. pc[d] = "promotePush" /\ PushTable(d, "setRelease", "setRelease") /\ pushed' = pushed
      BY <1>3 DEF PromotePush, At
    <2>2. Owned(d)'
      BY <2>1, Pushed DEF Owned
    <2>3. Placed(d)'
      BY <2>1, Pushed DEF Placed
    <2> QED
      BY <2>1, <2>2, <2>3, Pushed DEF RunDone
  <1>4. CASE SetRelease(d)
    <2>1. /\ edge' = edge /\ targets' = targets /\ replicas' = replicas
          /\ rows' = rows /\ envDeploy' = envDeploy /\ watches' = watches
          /\ pc[d] = "setRelease" /\ pc'[d] = "commit"
      BY <1>4, GotoFrame DEF SetRelease, world, daemon, At
    <2>2. envRelease' = rows[d].rel
      BY <1>4, <1>f, <2>1 DEF SetRelease, Owned
    <2>3. Settled'
      BY <2>1, <2>2 DEF Placed, Settled, New, Old, Active, Behind, Running
    <2>4. Owned(d)'
      BY <2>1 DEF Owned
    <2>5. Placed(d)'
      BY <2>1, <2>3 DEF Placed
    <2> QED
      BY <2>1, <2>4, <2>5 DEF RunDone
  <1>5. CASE Commit(d)
    <2>1. /\ Still(d) /\ rows' = rows /\ envDeploy' = envDeploy /\ watches' = watches
          /\ pc[d] = "commit" /\ pc'[d] = "finish"
      BY <1>5, <1>f, GotoFrame DEF Commit, Still, NoFault, world, daemon, At
    <2>2. Owned(d)'
      BY <2>1 DEF Owned, Still
    <2>3. Placed(d)'
      BY <2>1, StillPools, StillServing DEF Placed, Still
    <2> QED
      BY <2>1, <2>2, <2>3 DEF RunDone
  <1> QED
    BY <1>1, <1>2, <1>3, <1>4, <1>5 DEF Promote

\* rollback and restorePrevious.
LEMMA RollbackServes ==
    ASSUME TypeOK, OnlyCrashes, NEW d \in Deploys, Owned(d), Placed(d), Rollback(d)
    PROVE  RunDone(d)
  <1> USE DEF EarlyPcs, GatePcs, UndoPcs, FlippedPcs, PromotePcs, RestorePcs, EndPcs, BeforeWatch, WatchingPcs,
              ReleasePcs, BuiltPcs
  <1>f. \A k : Fault(k) => k = "crash"
    BY CrashOnly
  <1>t. fresh[d] \in SUBSET Index /\ held[d] \in SUBSET Index
    BY DEF TypeOK
  <1>v. ASSUME NEW bad, RollbackFailed(d, bad), pc'[d] # bad
        PROVE  verdict'[d] = verdict[d]
    BY <1>v DEF RollbackFailed, TypeOK
  <1>1. CASE RbRecord(d)
    <2> DEFINE t == Table(fresh[d], "draining", held[d], "active")
    <2>1. pc[d] = "rbRecord" /\ Record(d, t, "rbPush", "finish") /\ RollbackFailed(d, "finish")
      BY <1>1 DEF RbRecord, At
    <2>2. Active(t) = held[d]
      BY <1>t, <2>1, TableSets DEF Placed
    <2> HIDE DEF t
    <2>3. Active(targets)' = held[d]
      BY <2>1, <2>2, Recorded DEF Active
    <2>4. verdict'[d] = verdict[d]
      BY <1>v, <2>1, Recorded
    <2>5. Owned(d)'
      BY <2>1, Recorded DEF Owned
    <2>6. Placed(d)'
      BY <2>1, <2>3, <2>4, Recorded DEF Placed
    <2> QED
      BY <2>1, <2>5, <2>6, Recorded DEF RunDone
  <1>2. CASE RbPush(d)
    <2>1. /\ pc[d] = "rbPush" /\ PushTable(d, "removeFresh", "finish") /\ RollbackFailed(d, "finish")
          /\ pushed' = pushed
      BY <1>2 DEF RbPush, At
    <2>2. verdict'[d] = verdict[d]
      BY <1>v, <2>1, Pushed
    <2>3. Owned(d)'
      BY <2>1, Pushed DEF Owned
    <2>4. Placed(d)'
      BY <2>1, <2>2, Pushed DEF Placed
    <2> QED
      BY <2>1, <2>3, <2>4, Pushed DEF RunDone
  <1>3. CASE RemoveFresh(d)
    <2>1. /\ pc[d] = "removeFresh" /\ edge' = edge /\ targets' = targets /\ envRelease' = envRelease
          /\ rows' = rows /\ envDeploy' = envDeploy /\ watches' = watches /\ verdict' = verdict /\ pushed' = pushed
      BY <1>3 DEF RemoveFresh, At, store, daemon
    <2>2. /\ \A i \in Index \ fresh[d] : replicas'[i] = replicas[i]
          /\ Running' = Running \ fresh[d]
      BY <1>3, <1>t, Stopped DEF RemoveFresh
    <2>3. Active(edge)' = Active(edge) /\ Behind(edge)' = Behind(edge) /\ Active(edge) \subseteq Index
      BY <2>1 DEF Active, Behind
    <2>4. CASE verdict[d] = "rolled_back"
      <3>1. pc'[d] = "rbRecord2" /\ fresh'[d] = held[d] /\ held'[d] = {}
        BY <1>3, <2>4, GotoFrame DEF RemoveFresh, TypeOK
      <3>2. Active(edge) = held[d] /\ Old(held[d]) /\ fresh[d] \cap held[d] = {} /\ Running = fresh[d] \cup held[d]
        BY <2>1, <2>4 DEF Placed
      <3>3. Old(fresh[d])' /\ Running' = held[d]
        BY <1>t, <2>1, <2>2, <3>1, <3>2 DEF Old
      <3>4. Owned(d)'
        BY <2>1, <3>1 DEF Owned
      <3>5. Placed(d)'
        BY <2>1, <2>3, <2>4, <3>1, <3>2, <3>3 DEF Placed
      <3> QED
        BY <3>1, <3>4, <3>5 DEF RunDone
    <2>5. CASE verdict[d] # "rolled_back"
      <3>1. pc'[d] = "finish"
        BY <1>3, <2>5, GotoFrame DEF RemoveFresh
      <3>2. /\ edge = targets /\ Behind(edge) = {} /\ Old(Active(edge))
            /\ Active(edge) \cap fresh[d] = {} /\ Running = Active(edge) \cup fresh[d]
        BY <2>1, <2>5 DEF Placed
      <3>3. Old(Active(edge))' /\ Running' = Active(edge)
        BY <2>1, <2>2, <2>3, <3>2 DEF Old
      <3>4. Settled'
        BY <2>1, <2>3, <3>2, <3>3 DEF Settled
      <3>5. Owned(d)'
        BY <2>1, <3>1 DEF Owned
      <3>6. Placed(d)'
        BY <3>1, <3>4 DEF Placed
      <3> QED
        BY <3>1, <3>5, <3>6 DEF RunDone
    <2> QED
      BY <2>4, <2>5
  <1>4. CASE RbRecord2(d)
    <2> DEFINE t == Table(fresh[d], "active", {}, "none")
    <2>1. pc[d] = "rbRecord2" /\ Record(d, t, "rbPush2", "restoreConfig") /\ verdict' = verdict
      BY <1>4 DEF RbRecord2, At
    <2>2. Active(t) = fresh[d] /\ Behind(t) = {}
      BY <1>t DEF Active, Behind, Table
    <2> HIDE DEF t
    <2>3. Active(targets)' = fresh[d] /\ Behind(targets)' = {}
      BY <2>1, <2>2, Recorded DEF Active, Behind
    <2>4. Owned(d)'
      BY <2>1, Recorded DEF Owned
    <2>5. Placed(d)'
      BY <2>1, <2>3, Recorded DEF Placed
    <2> QED
      BY <2>1, <2>4, <2>5, Recorded DEF RunDone
  <1>5. CASE RbPush2(d)
    <2>1. pc[d] = "rbPush2" /\ PushTable(d, "restoreConfig", "restoreConfig") /\ verdict' = verdict /\ pushed' = pushed
      BY <1>5 DEF RbPush2, At
    <2>2. /\ Active(targets) = fresh[d] /\ Behind(targets) = {} /\ Old(fresh[d]) /\ Running = fresh[d]
          /\ verdict[d] = "rolled_back"
      BY <2>1 DEF Placed
    <2>3. Settled'
      BY <2>1, <2>2, Pushed DEF Settled, Old
    <2>4. Owned(d)'
      BY <2>1, Pushed DEF Owned
    <2>5. Placed(d)'
      BY <2>1, <2>2, <2>3, Pushed DEF Placed
    <2> QED
      BY <2>1, <2>4, <2>5, Pushed DEF RunDone
  <1>6. CASE RestoreConfig(d) \/ RestoreWeb(d) \/ RestoreWorker(d) \/ RbClear(d)
    <2>1. Still(d) /\ rows' = rows /\ watches' = watches
      BY <1>6, <1>f DEF RestoreConfig, RestoreWeb, RestoreWorker, RbClear, Still, NoFault, world, daemon
    <2>2. verdict' = verdict
      BY <1>6 DEF RestoreConfig, RestoreWeb, RestoreWorker, RbClear
    <2>3. \/ /\ pc[d] \in RestorePcs /\ envDeploy' = envDeploy
             /\ pc'[d] \in {"restoreWeb", "restoreWorker", AfterRestore(d)}
          \/ pc[d] = "rbClear" /\ pc'[d] = "finish"
      BY <1>6, GotoFrame DEF RestoreConfig, RestoreWeb, RestoreWorker, RbClear, At
    <2>4. AfterRestore(d) = IF verdict[d] = "rolled_back" THEN "rbClear" ELSE "removeFresh"
      BY DEF AfterRestore
    <2>5. Owned(d)'
      BY <2>1, <2>3, <2>4 DEF Owned, Still
    <2>6. Placed(d)'
      BY <2>1, <2>2, <2>3, <2>4, StillPools, StillServing DEF Placed, Still
    <2> QED
      BY <2>3, <2>4, <2>5, <2>6 DEF RunDone
  <1> QED
    BY <1>1, <1>2, <1>3, <1>4, <1>5, <1>6 DEF Rollback

\* finish.
LEMMA EndServes ==
    ASSUME TypeOK, OnlyCrashes, NEW d \in Deploys, Owned(d), Placed(d), Finish(d) \/ Clear(d)
    PROVE  RunDone(d)
  <1> USE DEF EarlyPcs, GatePcs, UndoPcs, FlippedPcs, PromotePcs, RestorePcs, EndPcs, BeforeWatch, WatchingPcs,
              ReleasePcs, BuiltPcs
  <1>f. \A k : Fault(k) => k = "crash"
    BY CrashOnly
  <1>1. /\ edge' = edge /\ targets' = targets /\ replicas' = replicas /\ envRelease' = envRelease
        /\ verdict' = verdict
    BY DEF Finish, Clear, rowVars, world
  <1>2. Settled' <=> Settled
    BY <1>1 DEF Settled, Old, Active, Behind, Running
  <1>3. CASE Finish(d)
    <2>1. /\ pc[d] = "finish" /\ pc'[d] = "clear" /\ rows'[d].status = verdict[d] /\ verdict[d] \in Finished
          /\ envDeploy' = envDeploy /\ watches' = watches
      BY <1>3, <1>f, GotoFrame, StatusFrame DEF Finish, At, TypeOK, rowVars, daemon
    <2>2. Done(d)' /\ rows'[d].status # "none" /\ rows'[d].status # "watching"
      BY <2>1 DEF Done, Finished
    <2>3. Owned(d)'
      BY <2>1, <2>2 DEF Owned
    <2>4. Placed(d)'
      BY <1>2, <2>1 DEF Placed
    <2> QED
      BY <2>1, <2>3, <2>4 DEF RunDone
  <1>4. CASE Clear(d)
    <2>1. pc[d] = "clear" /\ pc'[d] = "idle" /\ rows' = rows
      BY <1>4, GotoFrame DEF Clear, At
    <2>2. Done(d)' /\ Settled'
      BY <1>2, <2>1 DEF Owned, Placed, Done
    <2>3. fresh'[d] = {} /\ held'[d] = {} /\ d \notin pushed'
      BY <1>4 DEF Clear, Forget, TypeOK
    <2>4. Owned(d)'
      BY <2>1 DEF Owned
    <2>5. Placed(d)'
      BY <2>1, <2>3 DEF Placed
    <2> QED
      BY <2>2, <2>4, <2>5 DEF RunDone
  <1> QED
    BY <1>3, <1>4

\* Every step of a run.
LEMMA RunStepServes ==
    ASSUME TypeOK, ExclusionInv, OnlyCrashes, RunInv, ServingInv, NEW d \in Deploys, RunStep(d)
    PROVE  RunInv' /\ ServingInv'
  <1>1. Owned(d) /\ Placed(d)
    BY DEF RunInv, ServingInv
  <1>2. RunDone(d)
    BY <1>1, GateServes, BuildServes, StartServes, BringUpServes, FlipServes, WatchServes, PromoteServes,
       RollbackServes, EndServes DEF RunStep
  <1>3. RunFrame(d) /\ PoolFrame(d) /\ \A e \in Deploys : Done(e) => rows'[e] = rows[e]
    BY RunStepFrame, RunPoolFrame, ExclusionStep DEF Next
  <1>4. RunInv'
    BY <1>2, <1>3, RunInvStep DEF RunDone
  <1> QED
    BY <1>2, <1>3, <1>4, ServingStep DEF RunDone

-----------------------------------------------------------------------------
(* The commands, the resumption and the deaths of the daemon. *)

\* What the invariants speak of.
served == <<rows, envDeploy, envRelease, targets, edge, replicas, up, todo, watches, pc, fresh, held, pushed, verdict>>

LEMMA Unmoved ==
    ASSUME RunInv, ServingInv, UNCHANGED served
    PROVE  RunInv' /\ ServingInv'
  <1>1. RunInv'
    BY DEF served, RunInv, Solo, Resuming, AllIdle, Unfinished, Done, Owned, Left
  <1>2. (\A d \in Deploys : Placed(d)')
    BY DEF served, ServingInv, Placed, Settled, Old, New, Active, Behind, Running
  <1>3. (\A d \in Deploys : Interrupted(d)')
    BY DEF served, ServingInv, Interrupted, Old, New, Active, Behind, Running, Unfinished, Done
  <1>4. (AllIdle /\ Unfinished = {} => Settled)'
    BY DEF served, ServingInv, Settled, Old, Active, Behind, Running, AllIdle, Unfinished, Done
  <1> QED
    BY <1>1, <1>2, <1>3, <1>4 DEF ServingInv

\* A deploy begins where nothing is unfinished.
LEMMA NothingInFlight ==
    ASSUME TypeOK, ExclusionInv, RunInv, Serving, lock = 0, ~InFlight
    PROVE  AllIdle /\ Unfinished = {}
  <1> USE DEF EarlyPcs, GatePcs, UndoPcs, FlippedPcs, PromotePcs, RestorePcs, EndPcs, BeforeWatch, WatchingPcs,
              ReleasePcs, BuiltPcs
  <1>1. ASSUME NEW e \in Deploys, pc[e] # "idle" PROVE FALSE
    <2>1. pc[e] = "lockWait"
      BY <1>1, ZeroIsNoDeploy DEF ExclusionInv, MutualExclusion
    <2>2. envDeploy = e /\ rows[e].status = "watching"
      BY <2>1 DEF RunInv, Owned
    <2> QED
      BY <2>2, ZeroIsNoDeploy DEF InFlight, Done, Finished
  <1>2. ASSUME NEW e \in Unfinished PROVE FALSE
    <2>1. e \in Deploys
      BY DEF Unfinished
    <2> QED
      BY <1>1, <2>1 DEF RunInv, Left, Serving
  <1> QED
    BY <1>1, <1>2 DEF AllIdle

LEMMA BeginServes ==
    ASSUME TypeOK, ExclusionInv, RunInv, ServingInv, NEW d \in Deploys, NEW kind, Begin(d, kind)
    PROVE  RunInv' /\ ServingInv'
  <1> USE DEF EarlyPcs, GatePcs, UndoPcs, FlippedPcs, PromotePcs, RestorePcs, EndPcs, BeforeWatch, WatchingPcs,
              ReleasePcs, BuiltPcs
  <1>1. AllIdle /\ Unfinished = {}
    BY NothingInFlight DEF Begin, Unlocked
  <1>2. /\ edge' = edge /\ targets' = targets /\ replicas' = replicas /\ envRelease' = envRelease
        /\ up /\ up' /\ todo = {} /\ todo' = {} /\ fresh' = fresh /\ held' = held /\ pushed' = pushed
    BY DEF Begin, Serving, rowVars, world
  <1>3. pc'[d] = "register" /\ \A e \in Deploys \ {d} : pc'[e] = "idle"
    BY <1>1, GotoFrame DEF Begin, AllIdle
  <1>4. /\ rows'[d] = [kind |-> kind, status |-> "building", rel |-> None, from |-> envRelease]
        /\ \A e \in Deploys \ {d} : rows'[e] = rows[e]
    BY DEF Begin, TypeOK
  <1>5. rows'[d].status = "building" /\ rows'[d].from = envRelease /\ ~Done(d)'
    BY <1>4 DEF Done, Finished
  <1>6. Settled'
    BY <1>1, <1>2 DEF ServingInv, Settled, Old, Active, Behind, Running
  <1>7. \A e \in Deploys : fresh'[e] = {} /\ held'[e] = {} /\ e \notin pushed'
    BY <1>1, <1>2 DEF ServingInv, Placed, AllIdle
  <1>8. \A e \in Deploys \ {d} : e \notin Unfinished'
    BY <1>1, <1>4 DEF Unfinished, Done
  <1>9. Owned(d)' /\ Placed(d)'
    <2>1. Owned(d)'
      BY <1>2, <1>3, <1>5 DEF Owned
    <2>2. Placed(d)'
      BY <1>3, <1>6, <1>7 DEF Placed
    <2> QED
      BY <2>1, <2>2
  <1>10. ASSUME NEW e \in Deploys \ {d} PROVE Owned(e)' /\ Placed(e)'
    <2>1. rows'[e].status = "watching" => rows'[e].rel # None
      BY <1>4, <1>10 DEF RunInv, Owned
    <2>2. Owned(e)'
      BY <1>3, <2>1 DEF Owned
    <2>3. Placed(e)'
      BY <1>3, <1>7 DEF Placed
    <2> QED
      BY <2>2, <2>3
  <1>11. \A e \in Deploys : Left(e)' /\ Interrupted(e)'
    BY <1>3, <1>8 DEF Left, Interrupted
  <1>12. Solo' /\ \A e, f \in Unfinished' : e = f
    BY <1>3, <1>8 DEF Solo, Unfinished
  <1>13. RunInv'
    BY <1>2, <1>9, <1>10, <1>11, <1>12 DEF RunInv, Resuming
  <1> QED
    BY <1>3, <1>9, <1>10, <1>11, <1>13 DEF ServingInv, AllIdle

\* Nothing is left to be adopted: what a death left was resumed.
LEMMA NothingToAdopt ==
    ASSUME RunInv, NEW d \in Deploys, Adopt(d)
    PROVE  FALSE
  <1> USE DEF EarlyPcs, GatePcs, UndoPcs, FlippedPcs, PromotePcs, RestorePcs, EndPcs, BeforeWatch, WatchingPcs
  <1>1. up /\ todo = {} /\ d \notin watches /\ rows[d].status = "watching"
    BY DEF Adopt, Serving
  <1>2. d \in Unfinished
    BY <1>1 DEF Unfinished, Done, Finished
  <1> QED
    BY <1>1, <1>2 DEF RunInv, Owned, Left

LEMMA CommandServes ==
    ASSUME TypeOK, ExclusionInv, RunInv, ServingInv, NEW d \in Deploys, Command(d)
    PROVE  RunInv' /\ ServingInv'
  <1>1. CASE SignalPromote(d) \/ SignalRollback(d)
    <2>1. UNCHANGED served
      BY <1>1 DEF SignalPromote, SignalRollback, store, world, run, served
    <2> QED
      BY <2>1, Unmoved
  <1> QED
    BY <1>1, BeginServes, NothingToAdopt DEF Command

\* A daemon that comes up takes over the watch, with the pools of the table.
LEMMA ResumeWatchServes ==
    ASSUME TypeOK, OnlyCrashes, RunInv, ServingInv, NEW d \in Deploys, ResumeWatch(d)
    PROVE  RunInv' /\ ServingInv'
  <1> USE DEF EarlyPcs, GatePcs, UndoPcs, FlippedPcs, PromotePcs, RestorePcs, EndPcs, BeforeWatch, WatchingPcs,
              ReleasePcs, BuiltPcs
  <1>1. /\ up /\ up' /\ d \in todo /\ todo' = todo \ {d} /\ rows[d].status = "watching" /\ TakeOver(d)
        /\ rows' = rows /\ envDeploy' = envDeploy /\ envRelease' = envRelease
        /\ replicas' = replicas /\ pushed' = pushed
    BY DEF ResumeWatch, rowVars
  <1>2. AllIdle /\ d \in Unfinished /\ todo' = {} /\ \A e \in Deploys \ {d} : e \notin Unfinished
    BY <1>1 DEF RunInv, Resuming
  <1>3. rows[d].from = envRelease /\ envDeploy = d /\ rows[d].rel # None
    BY <1>1, <1>2 DEF RunInv, Left, Owned, AllIdle
  <1>4. /\ New(d, Active(targets)) /\ Old(Behind(targets)) /\ edge = targets
        /\ Running = Active(targets) \cup Behind(targets)
    BY <1>1, <1>2 DEF ServingInv, Interrupted, AllIdle
  <1>5. ~RepushFails
    BY CrashOnly DEF RepushFails
  <1>6. /\ targets' = Normalised /\ edge' = Normalised
        /\ fresh'[d] = Active(targets) /\ held'[d] = Behind(targets) /\ d \in watches'
        /\ \A e \in Deploys \ {d} : fresh'[e] = fresh[e] /\ held'[e] = held[e]
    BY <1>1, <1>4, <1>5 DEF TakeOver, RepushNormalised, TypeOK
  <1>7. pc'[d] = "lockWait" /\ \A e \in Deploys \ {d} : pc'[e] = "idle"
    BY <1>1, <1>2, GotoFrame DEF TakeOver, AllIdle
  <1>8. /\ Active(targets)' = Active(targets) /\ Behind(targets)' = Behind(targets)
        /\ Active(edge)' = Active(targets) /\ Behind(edge)' = Behind(targets) /\ Running' = Running
    BY <1>1, <1>6, NormalisedSets DEF Active, Behind, Running
  <1>9. Active(targets) \cap Behind(targets) = {}
    BY DEF Active, Behind
  <1>10. New(d, fresh[d])' /\ Old(held[d])'
    BY <1>1, <1>4, <1>6 DEF New, Old
  <1>11. Owned(d)'
    BY <1>1, <1>3, <1>6, <1>7 DEF Owned
  <1>12. Placed(d)'
    BY <1>4, <1>6, <1>7, <1>8, <1>9, <1>10 DEF Placed
  <1>13. ASSUME NEW e \in Deploys \ {d} PROVE Owned(e)' /\ Placed(e)'
    <2>1. /\ rows'[e].status = "watching" => rows'[e].rel # None
          /\ fresh'[e] = {} /\ held'[e] = {} /\ e \notin pushed'
      BY <1>1, <1>2, <1>6, <1>13 DEF RunInv, Owned, ServingInv, Placed, AllIdle
    <2>2. Owned(e)'
      BY <1>7, <2>1 DEF Owned
    <2>3. Placed(e)'
      BY <1>7, <2>1 DEF Placed
    <2> QED
      BY <2>2, <2>3
  <1>14. Unfinished' = Unfinished
    BY <1>1 DEF Unfinished, Done
  <1>15. \A e \in Deploys : Left(e)' /\ Interrupted(e)'
    BY <1>2, <1>7, <1>14 DEF Left, Interrupted
  <1>16. Solo' /\ \A e, f \in Unfinished' : e = f
    BY <1>7, <1>14 DEF Solo, RunInv
  <1>17. RunInv'
    BY <1>1, <1>2, <1>11, <1>13, <1>15, <1>16 DEF RunInv, Resuming
  <1> QED
    BY <1>7, <1>12, <1>13, <1>15, <1>17 DEF ServingInv, AllIdle

\* Or it ends a deploy that had not switched, and its strays are all that ran
\* besides the old pool.
LEMMA ResumeEndServes ==
    ASSUME TypeOK, OnlyCrashes, RunInv, ServingInv, NEW d \in Deploys, ResumeEnd(d)
    PROVE  RunInv' /\ ServingInv'
  <1> USE DEF EarlyPcs, GatePcs, UndoPcs, FlippedPcs, PromotePcs, RestorePcs, EndPcs, BeforeWatch, WatchingPcs,
              ReleasePcs, BuiltPcs
  <1>1. ~RepushFails /\ ~Fault("store")
    BY CrashOnly DEF RepushFails
  <1>2. /\ up /\ up' /\ d \in todo /\ todo' = todo \ {d} /\ rows[d].status # "watching"
        /\ RepushNormalised /\ EndRow(d) /\ \E bad \in SUBSET Strays(d) : StopPool(Strays(d), bad)
        /\ envRelease' = envRelease /\ pc' = pc /\ fresh' = fresh /\ held' = held /\ pushed' = pushed
    BY <1>1 DEF ResumeEnd, run
  <1>3. AllIdle /\ d \in Unfinished /\ todo' = {} /\ \A e \in Deploys \ {d} : e \notin Unfinished
    BY <1>2 DEF RunInv, Resuming
  <1>4. /\ edge = targets /\ Behind(edge) = {} /\ Old(Active(edge)) /\ Active(edge) \subseteq Running
        /\ \A i \in Running \ Active(edge) : replicas[i] = rows[d].rel
    BY <1>2, <1>3 DEF ServingInv, Interrupted, AllIdle
  <1>5. Normalised = targets
    <2>1. \A i \in Index : targets[i] # "draining"
      BY <1>4 DEF Behind
    <2> QED
      BY <2>1 DEF Normalised, TypeOK
  <1>6. edge' = edge /\ targets' = targets
    BY <1>2, <1>5 DEF RepushNormalised
  <1>7. Strays(d) = Running \ Active(edge)
    <2>1. \A i \in Index : targets[i] = "none" <=> i \notin Active(edge)
      BY <1>4 DEF Active, Behind, TypeOK, TargetStates
    <2> QED
      BY <1>4, <2>1 DEF Strays, Running
  <1>8. /\ \A i \in Index \ Strays(d) : replicas'[i] = replicas[i]
        /\ Running' = Running \ Strays(d)
    <2>1. Strays(d) \in SUBSET Index
      BY DEF Strays, Running
    <2> QED
      BY <1>2, <2>1, Stopped
  <1>9. Settled'
    <2>1. Active(edge)' = Active(edge) /\ Behind(edge)' = {} /\ Active(edge) \subseteq Index
      BY <1>4, <1>6 DEF Active, Behind
    <2>2. Running' = Active(edge) /\ \A i \in Active(edge) : replicas'[i] = replicas[i]
      BY <1>4, <1>7, <1>8, <2>1
    <2> QED
      BY <1>2, <1>4, <1>6, <2>1, <2>2 DEF Settled, Old
  <1>10. Done(d)' /\ rows'[d].status # "watching" /\ \A e \in Deploys \ {d} : rows'[e] = rows[e]
    BY <1>2, StatusFrame DEF EndRow, Done, Finished
  <1>11. Unfinished' = {}
    BY <1>3, <1>10 DEF Unfinished, Done
  <1>12. ASSUME NEW e \in Deploys PROVE Owned(e)' /\ Placed(e)' /\ Left(e)' /\ Interrupted(e)'
    <2>1. /\ rows'[e].status = "watching" => rows'[e].rel # None
          /\ fresh'[e] = {} /\ held'[e] = {} /\ e \notin pushed' /\ pc'[e] = "idle"
      BY <1>2, <1>3, <1>10, <1>12 DEF RunInv, Owned, ServingInv, Placed, AllIdle
    <2>2. Owned(e)'
      BY <2>1 DEF Owned
    <2>3. Placed(e)'
      BY <2>1 DEF Placed
    <2> QED
      BY <1>11, <2>2, <2>3 DEF Left, Interrupted
  <1>13. AllIdle' /\ Solo'
    BY <1>2, <1>3 DEF AllIdle, Solo
  <1>14. RunInv'
    BY <1>3, <1>11, <1>12, <1>13 DEF RunInv
  <1> QED
    BY <1>9, <1>12, <1>14 DEF ServingInv

LEMMA ResumeServes ==
    ASSUME TypeOK, OnlyCrashes, RunInv, ServingInv, NEW d \in Deploys, Resume(d)
    PROVE  RunInv' /\ ServingInv'
  <1>1. ~ResumeFails(d)
    BY DEF ResumeFails, OnlyCrashes
  <1> QED
    BY <1>1, ResumeWatchServes, ResumeEndServes DEF Resume

\* What a run leaves when the daemon dies.
LEMMA CrashInterrupts ==
    ASSUME TypeOK, ExclusionInv, RunInv, ServingInv, NEW d \in Unfinished, pc[d] \in SafeCrash \cup {"idle"}
    PROVE  /\ rows[d].from = envRelease
           /\ rows[d].status = "watching" => envDeploy = d
           /\ rows[d].status # "watching" =>
                /\ edge = targets /\ Behind(edge) = {} /\ Old(Active(edge)) /\ Active(edge) \subseteq Running
                /\ \A i \in Running \ Active(edge) : replicas[i] = rows[d].rel
           /\ rows[d].status = "watching" =>
                /\ New(d, Active(targets)) /\ Old(Behind(targets))
                /\ Running = Active(targets) \cup Behind(targets)
                /\ Active(edge) \in {Active(targets), Behind(targets)}
  <1> USE DEF EarlyPcs, GatePcs, UndoPcs, FlippedPcs, PromotePcs, RestorePcs, EndPcs, BeforeWatch, WatchingPcs,
              ReleasePcs, BuiltPcs
  <1>1. d \in Deploys /\ ~Done(d) /\ Owned(d) /\ Left(d) /\ Placed(d) /\ Interrupted(d)
    BY DEF Unfinished, RunInv, ServingInv
  <1>2. CASE pc[d] = "idle"
    BY <1>1, <1>2 DEF Left, Interrupted
  <1>3. pc[d] # "clear"
    BY <1>1 DEF Owned
  <1>4. CASE pc[d] \in EarlyPcs
    <2>1. Settled /\ rows[d].status # "watching" /\ rows[d].from = envRelease
      BY <1>1, <1>4 DEF Owned, Placed
    <2> QED
      BY <2>1 DEF Settled
  <1>5. CASE pc[d] \in GatePcs \ {"record"}
    <2>1. rows[d].status # "watching" /\ rows[d].from = envRelease
      BY <1>1, <1>5 DEF Owned
    <2> QED
      BY <1>1, <1>5, <2>1 DEF Placed
  <1>6. CASE pc[d] \in {"push", "stopHeld"} \cup FlippedPcs
    <2>1. rows[d].status = "watching" /\ rows[d].from = envRelease /\ envDeploy = d
      BY <1>1, <1>6 DEF Owned
    <2>2. Active(targets) = fresh[d] /\ Behind(targets) = held[d] /\ Active(edge) \in {fresh[d], held[d]}
      BY <1>1, <1>6 DEF Placed
    <2>3. New(d, fresh[d]) /\ Old(held[d]) /\ Running = fresh[d] \cup held[d]
      BY <1>1, <1>6 DEF Placed, New
    <2> QED
      BY <2>1, <2>2, <2>3
  <1> QED
    BY <1>2, <1>3, <1>4, <1>5, <1>6 DEF SafeCrash

LEMMA CrashServes ==
    ASSUME TypeOK, ExclusionInv, OnlyCrashes, RunInv, ServingInv, Crash
    PROVE  RunInv' /\ ServingInv'
  <1>1. /\ ~up' /\ todo' = {} /\ rows' = rows /\ envDeploy' = envDeploy /\ envRelease' = envRelease
        /\ targets' = targets /\ edge' = edge /\ replicas' = replicas
        /\ \A d \in Deploys : pc'[d] = "idle" /\ fresh'[d] = {} /\ held'[d] = {} /\ d \notin pushed'
    BY DEF Crash, store, world
  <1>2. \A d \in Deploys : pc[d] \in SafeCrash \cup {"idle"}
    BY DEF Crash, OnlyCrashes, Fault
  <1>3. Unfinished' = Unfinished
    BY <1>1 DEF Unfinished, Done
  <1>4. ASSUME NEW d \in Deploys PROVE Owned(d)' /\ Placed(d)' /\ Left(d)' /\ Interrupted(d)'
    <2>1. Owned(d)'
      <3>1. rows'[d].status = "watching" => rows'[d].rel # None
        BY <1>1 DEF RunInv, Owned
      <3> QED
        BY <1>1, <3>1 DEF Owned, EarlyPcs, GatePcs, UndoPcs, FlippedPcs, PromotePcs, EndPcs, BeforeWatch,
                          WatchingPcs, ReleasePcs, BuiltPcs
    <2>2. Placed(d)'
      BY <1>1 DEF Placed, EarlyPcs, GatePcs, FlippedPcs, RestorePcs, EndPcs
    <2>3. Left(d)'
      BY <1>1, <1>2, <1>3, CrashInterrupts DEF Left
    <2>4. Interrupted(d)'
      <3> SUFFICES ASSUME d \in Unfinished PROVE Interrupted(d)'
        BY <1>3 DEF Interrupted
      <3> QED
        BY <1>1, <1>2, CrashInterrupts DEF Interrupted, Old, New, Active, Behind, Running
    <2> QED
      BY <2>1, <2>2, <2>3, <2>4
  <1>5. AllIdle' /\ Solo'
    BY <1>1 DEF AllIdle, Solo
  <1>6. RunInv'
    BY <1>1, <1>3, <1>4, <1>5 DEF RunInv
  <1>7. Unfinished = {} => Settled
    <2> SUFFICES ASSUME Unfinished = {}, NEW d \in Deploys, pc[d] # "idle" PROVE Settled
      BY DEF ServingInv, AllIdle
    <2>1. Done(d)
      BY DEF Unfinished, RunInv, Owned
    <2> QED
      BY <2>1 DEF ExclusionInv, FinishedHasNoRun, ServingInv, Placed, EndPcs
  <1>8. Settled => Settled'
    BY <1>1 DEF Settled, Old, Active, Behind, Running
  <1> QED
    BY <1>3, <1>4, <1>6, <1>7, <1>8 DEF ServingInv

\* The daemon that comes up pushes the table of the store.
LEMMA RestartServes ==
    ASSUME TypeOK, OnlyCrashes, RunInv, ServingInv, Restart
    PROVE  RunInv' /\ ServingInv'
  <1>0. ~Fault("push")
    BY CrashOnly
  <1>1. /\ ~up /\ up' /\ todo' = Unfinished /\ edge' = targets
        /\ rows' = rows /\ envDeploy' = envDeploy /\ envRelease' = envRelease /\ watches' = watches
        /\ targets' = targets /\ replicas' = replicas
        /\ pc' = pc /\ fresh' = fresh /\ held' = held /\ pushed' = pushed
    BY <1>0 DEF Restart, store, run
  <1>2. Unfinished' = Unfinished /\ AllIdle /\ AllIdle'
    BY <1>1 DEF Unfinished, Done, RunInv, Resuming, AllIdle
  <1>3. ASSUME NEW d \in Deploys PROVE Owned(d)' /\ Placed(d)' /\ Left(d)' /\ Interrupted(d)'
    <2>1. Owned(d)'
      BY <1>1 DEF RunInv, Owned, Done
    <2>2. Placed(d)'
      <3>1. fresh'[d] = {} /\ held'[d] = {} /\ d \notin pushed' /\ pc'[d] = "idle"
        BY <1>1, <1>2 DEF ServingInv, Placed, AllIdle
      <3> QED
        BY <3>1 DEF Placed, EarlyPcs, GatePcs, FlippedPcs, RestorePcs, EndPcs
    <2>3. Left(d)'
      BY <1>1, <1>2 DEF RunInv, Left
    <2>4. Interrupted(d)'
      <3>1. Interrupted(d)
        BY DEF ServingInv
      <3> QED
        BY <1>1, <1>2, <3>1 DEF Interrupted, Old, New, Active, Behind, Running
    <2> QED
      BY <2>1, <2>2, <2>3, <2>4
  <1>4. RunInv'
    BY <1>1, <1>2, <1>3 DEF RunInv, Solo
  <1>5. Settled => Settled'
    BY <1>1 DEF Settled, Old, Active, Behind, Running
  <1> QED
    BY <1>2, <1>3, <1>4, <1>5 DEF ServingInv

-----------------------------------------------------------------------------
(* The invariants together. *)

CrashInv == TypeOK /\ ExclusionInv /\ RunInv /\ ServingInv

LEMMA CrashInit == Init => CrashInv
  <1> SUFFICES ASSUME Init PROVE CrashInv
    OBVIOUS
  <1>1. /\ \A d \in Deploys : /\ rows[d].status = "none" /\ pc[d] = "idle"
                              /\ fresh[d] = {} /\ held[d] = {} /\ d \notin pushed
        /\ up /\ todo = {}
    BY DEF Init
  <1>2. Unfinished = {} /\ Solo
    BY <1>1 DEF Unfinished, Solo
  <1>3. ASSUME NEW d \in Deploys PROVE Owned(d) /\ Placed(d) /\ Left(d) /\ Interrupted(d)
    <2>1. Owned(d)
      BY <1>1 DEF Owned, EarlyPcs, GatePcs, UndoPcs, FlippedPcs, PromotePcs, EndPcs, BeforeWatch, WatchingPcs,
                  ReleasePcs, BuiltPcs
    <2>2. Placed(d)
      BY <1>1 DEF Placed, EarlyPcs, GatePcs, FlippedPcs, RestorePcs, EndPcs
    <2> QED
      BY <1>2, <2>1, <2>2 DEF Left, Interrupted
  <1>4. Settled
    BY DEF Init, Settled, Old, Active, Behind, Running
  <1>5. RunInv
    BY <1>1, <1>2, <1>3 DEF RunInv, Resuming
  <1> QED
    BY <1>3, <1>4, <1>5, TypeInit, ExclusionInit DEF CrashInv, ServingInv

LEMMA CrashStep ==
    ASSUME OnlyCrashes, CrashInv, [Next]_vars
    PROVE  CrashInv'
  <1> USE DEF CrashInv
  <1>1. TypeOK' /\ ExclusionInv'
    BY TypeStep, ExclusionStep
  <1>2. CASE UNCHANGED vars
    <2>1. UNCHANGED served
      BY <1>2 DEF vars, store, world, daemon, run, served
    <2> QED
      BY <1>1, <2>1, Unmoved
  <1>3. ~Dies
    BY CrashOnly DEF Dies
  <1> QED
    BY <1>1, <1>2, <1>3, RunStepServes, CommandServes, ResumeServes, CrashServes, RestartServes DEF Next

\* The pool the edge sends traffic to runs, and it is the environment's or the
\* one that the unfinished deploy brings in.
Served ==
    /\ Active(edge) \subseteq Running
    /\ \/ Old(Active(edge))
       \/ \E d \in Unfinished : New(d, Active(edge)) /\ rows[d].rel # None /\ pc[d] # "build"

LEMMA CrashServed ==
    ASSUME CrashInv
    PROVE  Served
  <1> USE DEF EarlyPcs, GatePcs, UndoPcs, FlippedPcs, PromotePcs, RestorePcs, EndPcs, BeforeWatch, WatchingPcs,
              ReleasePcs, BuiltPcs
  <1>1. CASE AllIdle /\ Unfinished = {}
    BY <1>1 DEF CrashInv, ServingInv, Settled, Served
  <1>2. ASSUME AllIdle, NEW d \in Unfinished PROVE Served
    <2>1. d \in Deploys /\ Interrupted(d) /\ Owned(d) /\ pc[d] = "idle"
      BY <1>2 DEF CrashInv, ServingInv, RunInv, Unfinished, AllIdle
    <2>2. CASE rows[d].status # "watching"
      BY <2>1, <2>2 DEF Interrupted, Served
    <2>3. CASE rows[d].status = "watching"
      BY <2>1, <2>3 DEF Interrupted, Owned, Served
    <2> QED
      BY <2>2, <2>3
  <1>3. ASSUME NEW d \in Deploys, pc[d] # "idle" PROVE Served
    <2>1. Owned(d) /\ Placed(d) /\ pc[d] \in Steps
      BY DEF CrashInv, ServingInv, RunInv, TypeOK
    <2>2. CASE pc[d] \in {"commit", "rbClear"} \cup EarlyPcs \cup EndPcs
      BY <2>1, <2>2 DEF Placed, Settled, Served
    <2>3. CASE pc[d] \in {"push"} \cup GatePcs
      BY <2>1, <2>3 DEF Placed, Served
    <2>4. CASE pc[d] \in {"stopHeld", "rbPush", "promoteRecord", "promotePush", "setRelease"} \cup FlippedPcs
      <3>1. rows[d].rel # None /\ d \in Unfinished
        <4>1. rows[d].rel # None /\ rows[d].status # "none"
          BY <1>3, <2>1, <2>4 DEF Owned
        <4>2. ~Done(d)
          BY <2>4 DEF CrashInv, ExclusionInv, FinishedHasNoRun
        <4> QED
          BY <4>1, <4>2 DEF Unfinished
      <3>2. Active(edge) = fresh[d] /\ New(d, fresh[d]) /\ fresh[d] \subseteq Running
        BY <2>1, <2>4 DEF Placed
      <3> QED
        BY <2>4, <3>1, <3>2 DEF Served
    <2>5. CASE pc[d] \in {"rbRecord2", "rbPush2"}
      BY <2>1, <2>5 DEF Placed, Served
    <2>6. CASE pc[d] \in {"removeFresh"} \cup RestorePcs
      BY <2>1, <2>6 DEF Placed, Settled, Served
    <2>7. pc[d] \notin UndoPcs
      BY <2>1 DEF Owned
    <2> QED
      BY <1>3, <2>1, <2>2, <2>3, <2>4, <2>5, <2>6, <2>7 DEF Steps
  <1> QED
    BY <1>1, <1>2, <1>3 DEF AllIdle

-----------------------------------------------------------------------------
(* The refinement. *)

\* The release the traffic sees.
LEMMA LiveRelease ==
    ASSUME TypeOK, Active(edge) \subseteq Running
    PROVE  /\ Old(Active(edge)) => Live = envRelease
           /\ \A d \in Deploys : New(d, Active(edge)) => Live = rows[d].rel
  <1>1. Active(edge) # {} => (CHOOSE i \in Active(edge) : TRUE) \in Active(edge)
    OBVIOUS
  <1>2. Old(Active(edge)) => Live = envRelease
    <2>1. CASE Active(edge) = {}
      BY <2>1 DEF Old, Live
    <2>2. CASE Active(edge) # {}
      BY <1>1, <2>2 DEF Old, Live
    <2> QED
      BY <2>1, <2>2
  <1>3. \A d \in Deploys : New(d, Active(edge)) => Live = rows[d].rel
    BY <1>1 DEF New, Live
  <1> QED
    BY <1>2, <1>3

\* An unfinished deploy stays the only one, and keeps the release it got.
LEMMA ReleaseKept ==
    ASSUME OnlyCrashes, CrashInv, [Next]_vars, NEW d \in Unfinished
    PROVE  /\ Unfinished' \subseteq {d}
           /\ pc[d] # "build" => rows'[d].rel = rows[d].rel
  <1>0. d \in Deploys /\ rows[d] \in Row /\ Unfinished = {d}
    BY DEF CrashInv, RunInv, Unfinished, TypeOK
  <1> DEFINE Wrote == \/ rows' = rows
                      \/ \E e \in Deploys : \E s : rows' = [rows EXCEPT ![e].status = s]
                      \/ pc[d] = "build" /\ \E r : rows' = [rows EXCEPT ![d].rel = r]
  <1>1. ~\E e \in Deploys : \E kind : Begin(e, kind)
    BY <1>0, NothingInFlight DEF CrashInv, Begin, Unlocked
  <1>2. ASSUME NEW e \in Deploys, Build(e) PROVE e = d
    <2>1. pc[e] = "build" /\ ~Done(e) /\ rows[e].status # "none"
      BY <1>2 DEF Build, At, CrashInv, ExclusionInv, FinishedHasNoRun, RunInv, Owned
    <2> QED
      BY <1>0, <2>1 DEF Unfinished
  <1>3. ASSUME NEW e \in Deploys, RunStep(e) PROVE Wrote
    <2>1. CASE Gate(e)
      BY <1>2, <2>1 DEF Gate, Register, Build, Plan, Migrate, Before, Start, BringUp, BringUpFails, Checking,
                        Check, GateFails, StatusFails, EnterGate, PassGate, SetStatus, store, At
    <2>2. CASE Flip(e)
      BY <2>2 DEF Flip, Replace, WorkerRow, WebRow, SetWatching, EnterGate, SetStatus, RecordFlip, Record, Push,
                  PushTable, Hold, HoldPush, Unrecord, Unpush, store
    <2>3. CASE Watch(e) \/ Promote(e)
      BY <2>3 DEF Watch, TakeLock, WatchFails, WindowOver, PromotedByHand, RolledBackByHand, Leave, Promote,
                  StopHeld, PromoteRecord, PromotePush, SetRelease, Commit, Record, PushTable, store
    <2>4. CASE Rollback(e) \/ Finish(e) \/ Clear(e)
      BY <2>4 DEF Rollback, RbRecord, RbPush, RemoveFresh, RbRecord2, RbPush2, RestoreConfig, RestoreWeb,
                  RestoreWorker, RbClear, Record, PushTable, Finish, Clear, SetStatus, store
    <2> QED
      BY <1>3, <2>1, <2>2, <2>3, <2>4 DEF RunStep
  <1>4. ASSUME NEW e \in Deploys, Command(e) \/ Resume(e) PROVE Wrote
    BY <1>1, <1>4 DEF Command, SignalPromote, SignalRollback, Adopt, Resume, ResumeWatch, ResumeEnd, ResumeFails,
                      EndRow, SetStatus, store
  <1>5. Wrote
    BY <1>3, <1>4 DEF Next, Crash, Restart, Dies, store, vars
  <1>6. pc[d] # "build" => rows'[d].rel = rows[d].rel
    BY <1>0, <1>5 DEF CrashInv, TypeOK, Row
  <1>7. ASSUME NEW e \in Deploys, RunStep(e) PROVE \A x \in Deploys \ {d} : rows'[x] = rows[x]
    <2>1. RunFrame(e) /\ pc[e] # "idle" /\ rows[e].status # "none"
      BY <1>7, RunStepFrame DEF CrashInv, RunFrame, RunInv, Owned
    <2>2. e = d \/ Done(e)
      BY <1>0, <2>1 DEF Unfinished
    <2> QED
      BY <2>1, <2>2 DEF RunFrame, CrashInv, ExclusionInv, FinishedHasNoRun
  <1>8. ASSUME NEW e \in Deploys, Resume(e) PROVE \A x \in Deploys \ {d} : rows'[x] = rows[x]
    <2>1. e = d
      BY <1>0, <1>8 DEF Resume, ResumeWatch, ResumeEnd, ResumeFails, CrashInv, RunInv
    <2> QED
      BY <1>8, <2>1, StatusFrame DEF Resume, ResumeWatch, ResumeEnd, ResumeFails, EndRow, store, CrashInv
  <1>9. \A x \in Deploys \ {d} : rows'[x] = rows[x]
    BY <1>1, <1>7, <1>8 DEF Next, Command, SignalPromote, SignalRollback, Adopt, Crash, Restart, Dies, store, vars
  <1>10. Unfinished' \subseteq {d}
    BY <1>0, <1>9 DEF Unfinished, Done
  <1> QED
    BY <1>6, <1>10

\* A commit moves no traffic: it is of the release that is live.
LEMMA PromoteIsAbstract ==
    ASSUME OnlyCrashes, CrashInv, [Next]_vars, envRelease' # envRelease
    PROVE  Live' = Live /\ envRelease' = Live
  <1>1. PICK d \in Deploys : SetRelease(d)
    <2>1. ASSUME NEW d \in Deploys, RunStep(d) PROVE SetRelease(d)
      <3>1. ~Gate(d)
        BY DEF Gate, Register, Build, Plan, Migrate, Before, Start, BringUp, BringUpFails, Checking,
               Check, GateFails, StatusFails, EnterGate, PassGate, store, rowVars
      <3>2. ~Flip(d)
        BY DEF Flip, Replace, WorkerRow, WebRow, SetWatching, EnterGate, RecordFlip, Record, Push,
               PushTable, Hold, HoldPush, Unrecord, Unpush, store, rowVars
      <3>3. ~Watch(d) /\ (Promote(d) => SetRelease(d))
        BY DEF Watch, TakeLock, WatchFails, WindowOver, PromotedByHand, RolledBackByHand, Leave, Promote,
               StopHeld, PromoteRecord, PromotePush, Commit, Record, PushTable, store, rowVars
      <3>4. ~Rollback(d) /\ ~Finish(d) /\ ~Clear(d)
        BY DEF Rollback, RbRecord, RbPush, RemoveFresh, RbRecord2, RbPush2, RestoreConfig, RestoreWeb,
               RestoreWorker, RbClear, Record, PushTable, Finish, Clear, store, rowVars
      <3> QED
        BY <2>1, <3>1, <3>2, <3>3, <3>4 DEF RunStep
    <2>2. ASSUME NEW d \in Deploys PROVE ~Command(d) /\ ~Resume(d)
      BY DEF Command, Begin, SignalPromote, SignalRollback, Adopt, Resume, ResumeWatch, ResumeEnd, ResumeFails,
             store, rowVars
    <2> QED
      BY <2>1, <2>2 DEF Next, Crash, Restart, Dies, store, vars
  <1>2. Owned(d) /\ Placed(d) /\ TypeOK
    BY DEF CrashInv, RunInv, ServingInv
  <1>3. pc[d] = "setRelease" /\ edge' = edge /\ replicas' = replicas /\ envRelease' = rows[d].rel
    BY <1>1, <1>2 DEF SetRelease, At, world
  <1>4. New(d, Active(edge)) /\ Active(edge) \subseteq Running
    BY <1>2, <1>3 DEF Placed
  <1>5. Live = rows[d].rel
    BY <1>2, <1>4, LiveRelease
  <1>6. Live' = Live
    BY <1>3 DEF Live, Active
  <1> QED
    BY <1>3, <1>5, <1>6

\* The release that is live is the environment's or the one of the deploy in
\* flight.
Seen ==
    \/ Live = envRelease
    \/ \E d \in Unfinished : Live = rows[d].rel /\ Live \in Releases /\ pc[d] # "build"

LEMMA CrashSeen ==
    ASSUME CrashInv
    PROVE  Seen
  <1>1. Served /\ TypeOK
    BY CrashServed DEF CrashInv
  <1>2. CASE Old(Active(edge))
    BY <1>1, <1>2, LiveRelease DEF Served, Seen
  <1>3. ASSUME NEW d \in Unfinished, New(d, Active(edge)), rows[d].rel # None, pc[d] # "build"
        PROVE  Seen
    <2>1. d \in Deploys /\ rows[d].rel \in Releases
      BY <1>1, <1>3 DEF Unfinished, TypeOK, Row, MaybeRelease
    <2> QED
      BY <1>1, <1>3, <2>1, LiveRelease DEF Served, Seen
  <1> QED
    BY <1>1, <1>2, <1>3 DEF Served

\* Every other step leaves the traffic where it is, brings a release in while
\* the committed one is live, or takes it back.
LEMMA SwitchStep ==
    ASSUME OnlyCrashes, CrashInv, Seen, Seen', [Next]_vars
    PROVE  [SW!Next]_<<Live, envRelease>>
  <1> USE DEF SW!Next, SW!Flip, SW!Promote, SW!TakeBack
  <1>1. CASE envRelease' # envRelease
    BY <1>1, PromoteIsAbstract
  <1>2. CASE envRelease' = envRelease /\ Live' = envRelease'
    BY <1>2
  <1>3. ASSUME envRelease' = envRelease, NEW d \in Unfinished', Live' = rows'[d].rel, Live' \in Releases
        PROVE  [SW!Next]_<<Live, envRelease>>
    <2>1. CASE Live = envRelease
      BY <1>3, <2>1
    <2>2. ASSUME NEW e \in Unfinished, Live = rows[e].rel, pc[e] # "build" PROVE Live' = Live
      BY <1>3, <2>2, ReleaseKept
    <2> QED
      BY <1>3, <2>1, <2>2 DEF Seen
  <1> QED
    BY <1>1, <1>2, <1>3 DEF Seen

-----------------------------------------------------------------------------
(* What a daemon that dies leaves intact. *)

\* The invariants hold throughout.
LEMMA CrashSafety ==
    ASSUME OnlyCrashes
    PROVE  Spec => []CrashInv
  <1>1. Init => CrashInv
    BY CrashInit
  <1>2. CrashInv /\ [Next]_vars => CrashInv'
    BY CrashStep
  <1> QED
    BY <1>1, <1>2, PTL DEF Spec

\* However often the daemon dies, what the traffic of the environment sees is
\* the abstract switch: a new release goes live only while the committed one
\* is, and then it is committed or taken back (flip, promote, rollback,
\* ResumeDeploys).
THEOREM CrashesRefineSwitch ==
    ASSUME OnlyCrashes
    PROVE  Spec => RefinesSwitch
  <1>1. Init => SW!Init
    BY DEF Init, SW!Init, Live, Active
  <1>2. CrashInv => Seen
    BY CrashSeen
  <1>3. CrashInv /\ Seen /\ Seen' /\ [Next]_vars => [SW!Next]_<<Live, envRelease>>
    BY SwitchStep
  <1> QED
    BY <1>1, <1>2, <1>3, CrashSafety, PTL DEF Spec, RefinesSwitch, SW!Spec

\* However often the daemon dies, the edge always has a running container to
\* send traffic to once a release was promoted.
THEOREM CrashesAreNoOutage ==
    ASSUME OnlyCrashes
    PROVE  Spec => []NoOutage
  <1>1. ASSUME CrashInv PROVE NoOutage
    <2>1. Served
      BY <1>1, CrashServed
    <2> QED
      BY <2>1 DEF Served, Old, New, Running, NoOutage
  <1> QED
    BY <1>1, CrashSafety, PTL

\* However often the daemon dies, one unfinished deploy at most is the
\* environment's or has a run.
THEOREM CrashesLeaveOneInFlight ==
    ASSUME OnlyCrashes
    PROVE  Spec => []AtMostOneInFlight
  <1>1. CrashInv => AtMostOneInFlight
    BY DEF CrashInv, RunInv, AtMostOneInFlight, Driven
  <1> QED
    BY <1>1, CrashSafety, PTL

\* However often the daemon dies, once nothing is unfinished the edge serves
\* the environment's release, and nothing else runs or is recorded.
THEOREM CrashesLeaveNoStrays ==
    ASSUME OnlyCrashes
    PROVE  Spec => [](QuietServesRelease /\ QuietNoStrays)
  <1>1. ASSUME CrashInv PROVE QuietServesRelease /\ QuietNoStrays
    <2>1. Quiet => Settled
      BY <1>1 DEF Quiet, CrashInv, ServingInv, AllIdle
    <2> QED
      BY <2>1 DEF Settled, Old, Running, QuietServesRelease, QuietNoStrays
  <1> QED
    BY <1>1, CrashSafety, PTL

\* However often the daemon dies, the pool a watched deploy replaces still
\* runs, so that the rollback is only a flip of the table (resumeRun reads
\* both pools back).
THEOREM CrashesKeepHeldPool ==
    ASSUME OnlyCrashes
    PROVE  Spec => []HeldPoolReady
  <1>1. ASSUME CrashInv PROVE HeldPoolReady
    <2> SUFFICES ASSUME NEW d \in Deploys, pc[d] \in {"lockWait", "watch", "await"}
                 PROVE  rows[d].from # None => held[d] # {} /\ \A i \in held[d] : replicas[i] = rows[d].from
      BY DEF HeldPoolReady
    <2>1. rows[d].from = envRelease
      BY <1>1 DEF CrashInv, RunInv, Owned, EndPcs
    <2>2. Old(held[d])
      BY <1>1 DEF CrashInv, ServingInv, Placed, FlippedPcs
    <2> QED
      BY <2>1, <2>2 DEF Old
  <1> QED
    BY <1>1, CrashSafety, PTL

-----------------------------------------------------------------------------
(* What a deploy that nothing disturbs records. *)

\* The run is past what it had to put back.
Over(d) ==
    \/ pc[d] \in {"commit", "rbClear"} \cup EndPcs
    \/ pc[d] = "removeFresh" /\ verdict[d] # "rolled_back"

\* The steps of a run that has its container of `worker`, its row of it, and
\* the row of `web`.
LivePcs == {"drain", "holdPush", "lockWait", "watch", "await", "stopHeld", "promoteRecord", "promotePush", "setRelease"}
RowPcs == {"watching", "record", "push", "webRow"} \cup LivePcs

\* What the rows and the worker say while a run is at its step: what it has not
\* touched, or has put back, is the environment's.
Written(d) ==
    /\ pc[d] \in {"idle", "bringUp", "checking", "check", "replace"} \cup EarlyPcs => d \notin replaced
    /\ pc[d] = "workerRow" => d \in replaced
    /\ pc[d] = "webRow" => d \in pushed
    /\ pc[d] \in {"workerRow"} \cup RowPcs => worker = rows[d].rel
    /\ pc[d] \in RowPcs => workerRow = rows[d].rel
    /\ pc[d] \in LivePcs => webRow = rows[d].rel
    /\ pc[d] # "idle" /\ envRelease # None =>
        /\ d \notin pushed \/ pc[d] \in {"webRow", "restoreWorker"} \/ Over(d) => webRow = envRelease
        /\ d \notin replaced \/ Over(d) => workerRow = envRelease /\ worker = envRelease

Agree == envRelease # None => webRow = envRelease /\ workerRow = envRelease /\ worker = envRelease

RecordInv ==
    /\ up /\ todo = {}
    /\ \A d \in Deploys : Written(d)
    /\ AllIdle => Agree

\* What a step of a run leaves for RecordInv.
Noted(d) == Written(d)' /\ (pc'[d] = "idle" => Agree')

\* Every fallible call of a run succeeds.
LEMMA FailureFree ==
    ASSUME OnlyCrashes
    PROVE  ~Fault("store") /\ ~Fault("push") /\ ~Fault("worker") /\ ~Fault("stop") /\ ~Fault("plan")
           /\ ~Fault("dies")
  BY CrashOnly

\* A step that writes neither the rows nor the worker.
Silent(d) ==
    /\ webRow' = webRow /\ workerRow' = workerRow /\ worker' = worker /\ envRelease' = envRelease
    /\ replaced' = replaced

\* deployRun.fail leaves everything to restorePrevious.
LEMMA FailNotes ==
    ASSUME TypeOK, NEW d \in Deploys, pc[d] # "idle", ~Over(d), pc[d] \notin {"webRow", "restoreWorker"},
           Written(d), Silent(d), pushed' = pushed, StartFail(d)
    PROVE  Noted(d)
  <1>1. pc'[d] \in {"rbRecord", "restoreConfig"}
    BY FailFrame
  <1> QED
    BY <1>1 DEF Noted, Written, Silent, Over, EarlyPcs, EndPcs, RowPcs, LivePcs

\* The gates write no row of a service.
LEMMA GateNotes ==
    ASSUME OnlyCrashes, TypeOK, NEW d \in Deploys, Owned(d), Placed(d), Written(d), Gate(d)
    PROVE  Noted(d)
  <1> USE DEF EarlyPcs, EndPcs, RowPcs, LivePcs
  <1>1. Silent(d) /\ pushed' = pushed
    BY FailureFree DEF Gate, Register, Build, Plan, Migrate, Before, Start, BringUp, BringUpFails, Checking,
           Check, GateFails, StatusFails, EnterGate, PassGate, Silent, store, world, rowVars
  <1>2. pc[d] \in {"register", "build", "plan", "migrate", "before", "start", "bringUp", "checking", "check"}
    BY FailureFree DEF Gate, Register, Build, Plan, Migrate, Before, Start, BringUp, BringUpFails, Checking,
           Check, GateFails, StatusFails, EnterGate, PassGate, At
  <1>3. \/ StartFail(d)
        \/ pc'[d] \in {"build", "plan", "migrate", "before", "start", "bringUp", "checking", "check", "replace"}
    BY FailureFree, GotoFrame DEF Gate, Register, Build, Plan, Migrate, Before, Start, BringUp, BringUpFails, Checking,
           Check, GateFails, StatusFails, EnterGate, PassGate
  <1>4. CASE StartFail(d)
    BY <1>1, <1>2, <1>4, FailNotes DEF Over
  <1>5. CASE pc'[d] \in {"build", "plan", "migrate", "before", "start", "bringUp", "checking", "check", "replace"}
    BY <1>1, <1>2, <1>5 DEF Noted, Written, Silent, Over
  <1> QED
    BY <1>3, <1>4, <1>5

\* The flip recreates the worker and writes both rows, each after the fact.
LEMMA FlipNotes ==
    ASSUME OnlyCrashes, TypeOK, NEW d \in Deploys, Owned(d), Placed(d), Written(d), Flip(d)
    PROVE  Noted(d)
  <1> USE DEF EarlyPcs, GatePcs, UndoPcs, EndPcs, RowPcs, LivePcs
  <1>f. ~Fault("store") /\ ~Fault("push") /\ ~Fault("worker") /\ ~Fault("stop") /\ ~Fault("plan")
    BY FailureFree
  <1>1. CASE Replace(d)
    <2>1. /\ pc[d] = "replace" /\ pc'[d] = "workerRow" /\ worker' = rows[d].rel /\ replaced' = replaced \cup {d}
          /\ rows' = rows /\ webRow' = webRow /\ workerRow' = workerRow /\ envRelease' = envRelease /\ pushed' = pushed
      BY <1>1, <1>f, GotoFrame DEF Replace, At, store
    <2> QED
      BY <2>1 DEF Noted, Written, Over
  <1>2. CASE WorkerRow(d)
    <2>1. /\ pc[d] = "workerRow" /\ pc'[d] = "watching" /\ workerRow' = rows[d].rel /\ replaced' = replaced
          /\ rows' = rows /\ webRow' = webRow /\ worker' = worker /\ envRelease' = envRelease /\ pushed' = pushed
      BY <1>2, <1>f, GotoFrame DEF WorkerRow, PutRow, At, world
    <2> QED
      BY <2>1 DEF Noted, Written, Over
  <1>3. CASE SetWatching(d)
    <2>1. /\ pc[d] = "watching" /\ pc'[d] = "record" /\ rows'[d].rel = rows[d].rel /\ Silent(d) /\ pushed' = pushed
      BY <1>3, GotoFrame DEF SetWatching, EnterGate, SetStatus, At, Silent, rowVars, world, TypeOK, Row
    <2> QED
      BY <2>1 DEF Noted, Written, Silent, Over
  <1>4. CASE Push(d)
    <2>1. pc[d] = "push" /\ pc'[d] = "webRow" /\ rows' = rows /\ Silent(d) /\ pushed' = pushed \cup {d}
      BY <1>4, <1>f, GotoFrame DEF Push, PushTable, At, Silent, store
    <2> QED
      BY <2>1 DEF Noted, Written, Silent, Over, Placed
  <1>5. CASE WebRow(d)
    <2>1. /\ pc[d] = "webRow" /\ pc'[d] = "drain" /\ webRow' = rows[d].rel /\ replaced' = replaced
          /\ rows' = rows /\ workerRow' = workerRow /\ worker' = worker /\ envRelease' = envRelease /\ pushed' = pushed
      BY <1>5, <1>f, GotoFrame DEF WebRow, PutRow, At, world
    <2> QED
      BY <2>1 DEF Noted, Written, Over
  <1>6. CASE RecordFlip(d) \/ Hold(d) \/ HoldPush(d)
    <2>1. /\ rows' = rows /\ Silent(d) /\ pushed' = pushed
          /\ \/ pc[d] = "record" /\ pc'[d] = "push"
             \/ pc[d] = "drain" /\ pc'[d] \in {"holdPush", "watch"}
             \/ pc[d] = "holdPush" /\ pc'[d] = "watch"
      BY <1>6, <1>f, GotoFrame DEF RecordFlip, Hold, HoldPush, Record, PushTable, At, Silent, rowVars, world, store
    <2> QED
      BY <2>1 DEF Noted, Written, Silent, Over
  <1>7. ~Unrecord(d) /\ ~Unpush(d)
    BY DEF Owned, Unrecord, Unpush, At
  <1> QED
    BY <1>1, <1>2, <1>3, <1>4, <1>5, <1>6, <1>7 DEF Flip

\* A promotion makes the release that both rows name the environment's.
LEMMA WatchNotes ==
    ASSUME OnlyCrashes, TypeOK, NEW d \in Deploys, Owned(d), Placed(d), Written(d), Watch(d) \/ Promote(d)
    PROVE  Noted(d)
  <1> USE DEF EarlyPcs, EndPcs, RowPcs, LivePcs
  <1>f. ~Fault("store") /\ ~Fault("push") /\ ~Fault("worker") /\ ~Fault("stop") /\ ~Fault("plan")
    BY FailureFree
  <1>1. CASE Watch(d)
    <2>1. /\ rows' = rows /\ Silent(d) /\ pushed' = pushed /\ pc[d] \in {"lockWait", "watch", "await"}
          /\ pc'[d] \in {"watch", "await", "stopHeld", "rbRecord"}
      BY <1>1, GotoFrame DEF Watch, TakeLock, WatchFails, WindowOver, PromotedByHand, RolledBackByHand, Leave,
                             Watched, At, Silent, store, world
    <2> QED
      BY <2>1 DEF Noted, Written, Silent, Over
  <1>2. CASE StopHeld(d) \/ PromoteRecord(d) \/ PromotePush(d)
    <2>1. /\ rows' = rows /\ Silent(d) /\ pushed' = pushed /\ pc[d] \in {"stopHeld", "promoteRecord", "promotePush"}
          /\ pc'[d] \in {"promoteRecord", "promotePush", "setRelease"}
      BY <1>2, <1>f, GotoFrame DEF StopHeld, PromoteRecord, PromotePush, Record, PushTable, At, Silent, store, world,
                                   rowVars
    <2> QED
      BY <2>1 DEF Noted, Written, Silent, Over
  <1>3. CASE SetRelease(d)
    <2>1. /\ pc[d] = "setRelease" /\ pc'[d] = "commit" /\ envRelease' = rows[d].rel /\ rows' = rows
          /\ webRow' = webRow /\ workerRow' = workerRow /\ worker' = worker /\ replaced' = replaced
      BY <1>3, <1>f, GotoFrame DEF SetRelease, At, Owned, BuiltPcs, PromotePcs, world
    <2> QED
      BY <2>1 DEF Noted, Written, Over
  <1>4. CASE Commit(d)
    <2>1. pc[d] = "commit" /\ pc'[d] = "finish" /\ rows' = rows /\ Silent(d)
      BY <1>4, <1>f, GotoFrame DEF Commit, At, Silent, world
    <2> QED
      BY <2>1 DEF Noted, Written, Silent, Over
  <1> QED
    BY <1>1, <1>2, <1>3, <1>4 DEF Promote

\* restorePrevious puts back what the run had pushed or recreated.
LEMMA RollbackNotes ==
    ASSUME OnlyCrashes, TypeOK, NEW d \in Deploys, Owned(d), Placed(d), Written(d), Rollback(d)
    PROVE  Noted(d)
  <1> USE DEF EarlyPcs, EndPcs, RowPcs, LivePcs
  <1>f. ~Fault("store") /\ ~Fault("push") /\ ~Fault("worker") /\ ~Fault("stop") /\ ~Fault("plan")
    BY FailureFree
  <1>r. pc[d] \in {"restoreConfig", "restoreWeb", "restoreWorker"} => rows[d].from = envRelease
    BY DEF Owned
  <1>a. /\ AfterRestore(d) \in {"rbClear", "removeFresh"}
        /\ (AfterRestore(d) = "removeFresh" => verdict[d] # "rolled_back")
    BY DEF AfterRestore
  <1>1. CASE RbRecord(d) \/ RbPush(d)
    <2>1. /\ Silent(d) /\ pushed' = pushed
          /\ \/ pc[d] = "rbRecord" /\ pc'[d] = "rbPush"
             \/ pc[d] = "rbPush" /\ pc'[d] = "removeFresh"
      BY <1>1, <1>f, GotoFrame DEF RbRecord, RbPush, Record, PushTable, At, Silent, rowVars, world, store
    <2>2. verdict'[d] = "rolled_back"
      BY <1>1, <2>1 DEF RbRecord, RbPush, RollbackFailed, Placed, TypeOK
    <2> QED
      BY <2>1, <2>2 DEF Noted, Written, Silent, Over
  <1>2. CASE RemoveFresh(d)
    <2>1. /\ pc[d] = "removeFresh" /\ Silent(d) /\ pushed' = pushed
          /\ \/ pc'[d] = "finish" /\ Over(d)
             \/ pc'[d] = "rbRecord2"
      BY <1>2, GotoFrame DEF RemoveFresh, At, Silent, Over, store
    <2> QED
      BY <2>1 DEF Noted, Written, Silent, Over
  <1>3. CASE RbRecord2(d) \/ RbPush2(d)
    <2>1. /\ pc[d] \in {"rbRecord2", "rbPush2"} /\ pc'[d] \in {"rbPush2", "restoreConfig"}
          /\ Silent(d) /\ pushed' = pushed
      BY <1>3, <1>f, GotoFrame DEF RbRecord2, RbPush2, Record, PushTable, At, Silent, rowVars, world, store
    <2> QED
      BY <2>1 DEF Noted, Written, Silent, Over
  <1>4. CASE RestoreConfig(d)
    <2>1. /\ pc[d] = "restoreConfig" /\ Silent(d) /\ pushed' = pushed /\ verdict' = verdict
          /\ \/ pc'[d] = "restoreWeb"
             \/ ~Restores(d) /\ pc'[d] = AfterRestore(d)
      BY <1>4, <1>f, GotoFrame DEF RestoreConfig, At, Silent, world
    <2>2. CASE pc'[d] = "restoreWeb"
      BY <2>1, <2>2 DEF Noted, Written, Silent, Over
    <2>3. CASE ~Restores(d) /\ pc'[d] = AfterRestore(d)
      <3>1. envRelease # None => d \notin replaced /\ d \notin pushed
        BY <1>r, <2>1, <2>3 DEF Restores
      <3> QED
        BY <1>a, <2>1, <2>3, <3>1 DEF Noted, Written, Silent, Over
    <2> QED
      BY <2>1, <2>2, <2>3
  <1>5. CASE RestoreWeb(d)
    <2>1. /\ pc[d] = "restoreWeb" /\ pc'[d] = "restoreWorker" /\ webRow' = (IF d \in pushed THEN envRelease ELSE webRow)
          /\ workerRow' = workerRow /\ worker' = worker /\ envRelease' = envRelease /\ replaced' = replaced
      BY <1>5, <1>f, <1>r, GotoFrame DEF RestoreWeb, At, world
    <2> QED
      BY <2>1 DEF Noted, Written, Over
  <1>6. CASE RestoreWorker(d)
    <2>1. /\ pc[d] = "restoreWorker" /\ pc'[d] = AfterRestore(d) /\ webRow' = webRow /\ envRelease' = envRelease
          /\ replaced' = replaced
          /\ workerRow' = (IF d \in replaced THEN envRelease ELSE workerRow)
          /\ worker' = (IF d \in replaced THEN envRelease ELSE worker)
      BY <1>6, <1>f, <1>r, GotoFrame DEF RestoreWorker, At
    <2> QED
      BY <1>a, <2>1 DEF Noted, Written, Over
  <1>7. CASE RbClear(d)
    <2>1. pc[d] = "rbClear" /\ pc'[d] = "finish" /\ Silent(d)
      BY <1>7, <1>f, GotoFrame DEF RbClear, At, Silent, world
    <2> QED
      BY <2>1 DEF Noted, Written, Silent, Over
  <1> QED
    BY <1>1, <1>2, <1>3, <1>4, <1>5, <1>6, <1>7 DEF Rollback

\* The end of a run leaves the rows as they are.
LEMMA EndNotes ==
    ASSUME TypeOK, NEW d \in Deploys, Written(d), Finish(d) \/ Clear(d)
    PROVE  Noted(d)
  <1> USE DEF EarlyPcs, EndPcs, RowPcs, LivePcs
  <1>1. CASE Finish(d)
    <2>1. pc[d] = "finish" /\ pc'[d] = "clear" /\ Silent(d)
      BY <1>1, GotoFrame DEF Finish, At, Silent, rowVars, world
    <2> QED
      BY <2>1 DEF Noted, Written, Silent, Over
  <1>2. CASE Clear(d)
    <2>1. /\ pc[d] = "clear" /\ pc'[d] = "idle" /\ d \notin replaced' /\ webRow' = webRow /\ workerRow' = workerRow
          /\ worker' = worker /\ envRelease' = envRelease
      BY <1>2, GotoFrame DEF Clear, Forget, At, world
    <2> QED
      BY <2>1 DEF Noted, Written, Over, Agree
  <1> QED
    BY <1>1, <1>2

\* Every step of a run.
LEMMA RunStepNotes ==
    ASSUME OnlyCrashes, CrashInv, RecordInv, NEW d \in Deploys, RunStep(d)
    PROVE  RecordInv'
  <1>1. TypeOK /\ Owned(d) /\ Placed(d) /\ Written(d)
    BY DEF CrashInv, RunInv, ServingInv, RecordInv
  <1>2. Noted(d)
    BY <1>1, GateNotes, FlipNotes, WatchNotes, RollbackNotes, EndNotes DEF RunStep
  <1>3. RunFrame(d)
    BY <1>1, RunStepFrame
  <1>4. \A e \in Deploys \ {d} : pc'[e] = "idle" /\ pc[e] = "idle"
    BY <1>3 DEF CrashInv, RunInv, Solo, RunFrame
  <1>5. replaced' \subseteq replaced \cup {d}
    <2>1. CASE Gate(d) \/ Flip(d)
      BY <2>1 DEF Gate, Register, Build, Plan, Migrate, Before, Start, BringUp, BringUpFails, Checking,
                  Check, GateFails, StatusFails, EnterGate, PassGate, Flip, Replace, WorkerRow, WebRow, SetWatching,
                  RecordFlip, Record, Push, PushTable, Hold, HoldPush, Unrecord, Unpush
    <2>2. CASE Watch(d) \/ Promote(d)
      BY <2>2 DEF Watch, TakeLock, WatchFails, WindowOver, PromotedByHand, RolledBackByHand, Leave, Promote,
                  StopHeld, PromoteRecord, PromotePush, SetRelease, Commit, Record, PushTable
    <2>3. CASE Rollback(d) \/ Finish(d) \/ Clear(d)
      BY <2>3 DEF Rollback, RbRecord, RbPush, RemoveFresh, RbRecord2, RbPush2, RestoreConfig, RestoreWeb,
                  RestoreWorker, RbClear, Record, PushTable, Finish, Clear, Forget
    <2> QED
      BY <2>1, <2>2, <2>3 DEF RunStep
  <1>6. ASSUME NEW e \in Deploys \ {d} PROVE Written(e)'
    <2>1. e \notin replaced'
      BY <1>4, <1>5, <1>6 DEF RecordInv, Written
    <2> QED
      BY <1>4, <2>1 DEF Written, RowPcs, LivePcs
  <1> QED
    BY <1>2, <1>3, <1>6 DEF RecordInv, Noted, RunFrame, AllIdle

\* A failure is spent for good.
LEMMA FaultsSpent ==
    ASSUME OnlyCrashes, TypeOK, [Next]_vars, faults' = MaxFaults
    PROVE  faults = MaxFaults /\ ~Fault("crash")
  <1>0. faults \in 0..MaxFaults /\ MaxFaults \in Nat
    BY DeployAssumption DEF TypeOK
  <1>1. ASSUME NEW k PROVE ~Fault(k)
    BY <1>0 DEF Fault
  <1>2. ASSUME NEW d \in Deploys, RunStep(d) PROVE NoFault
    <2>1. CASE Gate(d) \/ Flip(d)
      BY <1>1, <2>1 DEF Gate, Register, Build, Plan, Migrate, Before, Start, BringUp, BringUpFails, Checking,
                  Check, GateFails, StatusFails, EnterGate, PassGate, Flip, Replace, WorkerRow, WebRow, PutRow,
                  SetWatching, RecordFlip, Record, Push, PushTable, Hold, HoldPush, Unrecord, Unpush
    <2>2. CASE Watch(d) \/ Promote(d)
      BY <1>1, <2>2 DEF Watch, TakeLock, WatchFails, WindowOver, PromotedByHand, RolledBackByHand, Leave, Promote,
                  StopHeld, StopPool, PromoteRecord, PromotePush, SetRelease, Commit, Record, PushTable
    <2>3. CASE Rollback(d) \/ Finish(d) \/ Clear(d)
      BY <1>1, <2>3 DEF Rollback, RbRecord, RbPush, RemoveFresh, StopPool, RbRecord2, RbPush2, RestoreConfig,
                  RestoreWeb, RestoreWorker, RbClear, Record, PushTable, Finish, Clear
    <2> QED
      BY <1>2, <2>1, <2>2, <2>3 DEF RunStep
  <1>3. ASSUME NEW d \in Deploys, Command(d) \/ Resume(d) PROVE NoFault
    BY <1>1, <1>3 DEF Command, Begin, SignalPromote, SignalRollback, Adopt, TakeOver, RepushFails, Resume,
                  ResumeWatch, ResumeEnd, StopPool, ResumeFails
  <1>4. ASSUME Crash \/ Restart \/ Dies PROVE NoFault
    BY <1>1, <1>4 DEF Crash, Restart, Dies
  <1>5. CASE UNCHANGED vars
    BY <1>1, <1>5 DEF vars
  <1> QED
    BY <1>1, <1>2, <1>3, <1>4, <1>5 DEF Next, NoFault

\* The daemon runs throughout, and a deploy begins where the last one ended.
LEMMA RecordStep ==
    ASSUME OnlyCrashes, CrashInv, RecordInv, [Next]_vars, ~Fault("crash")
    PROVE  RecordInv'
  <1>1. ASSUME NEW d \in Deploys, NEW kind, Begin(d, kind) PROVE RecordInv'
    <2>1. AllIdle
      BY <1>1, NothingInFlight DEF CrashInv, Begin, Unlocked
    <2>2. pc'[d] = "register" /\ \A e \in Deploys \ {d} : pc'[e] = "idle"
      BY <1>1, <2>1, GotoFrame DEF Begin, AllIdle, CrashInv
    <2>3. Silent(d) /\ pushed' = pushed /\ up' = up /\ todo' = todo
      BY <1>1 DEF Begin, Silent, rowVars, world
    <2>4. Agree /\ \A e \in Deploys : e \notin replaced
      BY <2>1 DEF RecordInv, AllIdle, Written
    <2>5. \A e \in Deploys : Written(e)'
      BY <2>2, <2>3, <2>4 DEF Written, Silent, Over, Agree, EndPcs, RowPcs, LivePcs
    <2> QED
      BY <2>2, <2>3, <2>5 DEF RecordInv, AllIdle
  <1>2. ASSUME NEW d \in Deploys, SignalPromote(d) \/ SignalRollback(d) PROVE RecordInv'
    <2>1. UNCHANGED <<rows, webRow, workerRow, worker, envRelease, pc, pushed, replaced, verdict, up, todo>>
      BY <1>2 DEF SignalPromote, SignalRollback, store, world, run
    <2> QED
      BY <2>1 DEF RecordInv, Written, Over, Agree, AllIdle
  <1>3. CASE UNCHANGED vars
    <2>1. UNCHANGED <<rows, webRow, workerRow, worker, envRelease, pc, pushed, replaced, verdict, up, todo>>
      BY <1>3 DEF vars, store, world, daemon, run
    <2> QED
      BY <2>1 DEF RecordInv, Written, Over, Agree, AllIdle
  <1>4. ~Crash /\ ~Restart /\ ~Dies /\ \A d \in Deploys : ~Resume(d) /\ ~Adopt(d)
    BY FailureFree, NothingToAdopt DEF Crash, Restart, Dies, Resume, ResumeWatch, ResumeEnd, ResumeFails, RecordInv, CrashInv
  <1> QED
    BY <1>1, <1>2, <1>3, <1>4, RunStepNotes DEF Next, Command

\* However often the daemon dies: as long as it has not died yet, whatever
\* becomes of a deploy (promoted, refused by a gate, by its watch or by hand),
\* between deploys the services' rows name the environment's release and the
\* service that is not behind the edge runs it, because restorePrevious puts
\* back all that the deploy had changed.
THEOREM RecordsAgree ==
    ASSUME OnlyCrashes
    PROVE  Spec => []UndisturbedAgrees
  <1> DEFINE Undisturbed == faults = MaxFaults => RecordInv
  <1>1. Init => Undisturbed
    <2> SUFFICES ASSUME Init PROVE RecordInv
      OBVIOUS
    <2>1. \A d \in Deploys : Written(d)
      BY DEF Init, Written, RowPcs, LivePcs
    <2> QED
      BY <2>1 DEF Init, RecordInv, Agree
  <1>2. CrashInv /\ Undisturbed /\ [Next]_vars => Undisturbed'
    <2> SUFFICES ASSUME CrashInv, Undisturbed, [Next]_vars, faults' = MaxFaults PROVE RecordInv'
      OBVIOUS
    <2>1. faults = MaxFaults /\ ~Fault("crash")
      BY FaultsSpent DEF CrashInv
    <2> QED
      BY <2>1, RecordStep
  <1>3. Undisturbed => UndisturbedAgrees
    BY DEF RecordInv, Agree, AllIdle, UndisturbedAgrees, QuietRecordsAgree, Quiet
  <1>4. Spec => []CrashInv
    BY CrashSafety
  <1> QED
    BY <1>1, <1>2, <1>3, <1>4, PTL DEF Spec

\* All of it together: however often the daemon dies where the next one can go
\* on, between deploys the edge serves the environment's release, no container
\* is left behind, one unfinished deploy at most is driven, and until the
\* first death the records name what serves.
THEOREM DeploysEndQuiet ==
    ASSUME OnlyCrashes
    PROVE  Spec => []QuietDeploys
  <1>1. QuietServesRelease /\ QuietNoStrays /\ AtMostOneInFlight /\ UndisturbedAgrees => QuietDeploys
    BY DEF QuietDeploys
  <1> QED
    BY <1>1, CrashesLeaveNoStrays, CrashesLeaveOneInFlight, RecordsAgree, PTL
=============================================================================
