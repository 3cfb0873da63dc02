-------------------------- MODULE DeployPoolProofs --------------------------
(***************************************************************************)
(* One failure is no outage: proofs about Deploy for every number of       *)
(* deploys, replicas and indexes, when at most one thing goes wrong (a     *)
(* write, a push, a stop or a start that fails, the daemon that dies at    *)
(* one of the steps of SafeCrash, a container that exits where it does no  *)
(* harm). Two failures can be an outage: a push that fails and then the    *)
(* write that should undo it.                                              *)
(*                                                                         *)
(* The argument has two inductive invariants. ControlInv: at most one run  *)
(* exists, and the row, the pointer and the waiter agree with its step.    *)
(* PoolInv: where a run stands tells which pool the edge uses, and that    *)
(* pool runs; as long as nothing has failed, the store, the edge and the   *)
(* containers also agree, so that the one failure to come finds a state    *)
(* it can be undone from.                                                  *)
(***************************************************************************)
EXTENDS MCDeploy, DeployProofs

\* At most one failure, and the daemon dies only where the next one can go on.
SingleFailure == MaxFaults <= 1 /\ CrashAt \subseteq SafeCrash

-----------------------------------------------------------------------------
(* Where a run stands. *)

EarlyPcs == {"register", "build", "plan", "migrate", "before", "start"}
GatePcs == {"bringUp", "checking", "check", "replace", "workerRow", "watching", "record"}
UndoPcs == {"unrecord", "unpush"}
FlippedPcs == {"webRow", "drain", "holdPush", "lockWait", "watch", "await", "rbRecord"}
PromotePcs == {"promoteRecord", "promotePush", "setRelease", "commit"}
RestorePcs == {"restoreConfig", "restoreWeb", "restoreWorker"}
EndPcs == {"finish", "clear"}

BeforeWatch == (EarlyPcs \cup GatePcs) \ {"record"}
WatchingPcs == {"record", "push", "stopHeld"} \cup FlippedPcs
ReleasePcs == {"plan", "migrate", "before", "start", "bringUp"}
BothPools == {"push", "rbPush"} \cup GatePcs \cup UndoPcs \cup FlippedPcs

-----------------------------------------------------------------------------
(* The control of the runs. *)

Solo == \A d, e \in Deploys : pc[d] # "idle" /\ pc[e] # "idle" => d = e

Resuming == ~up \/ todo # {}

\* The environment's pointer, the waiter and the row of a run.
Pointer(d) ==
    /\ pc[d] \notin {"idle", "register"} \cup EndPcs => envDeploy = d
    /\ pc[d] \in EndPcs => envDeploy \in {0, d}
    /\ pc[d] = "register" => ~InFlight
    /\ pc[d] \notin {"idle", "register"} => d \in watches
    /\ pc[d] \in WatchingPcs => rows[d].status = "watching"
    /\ pc[d] \in BeforeWatch => rows[d].status # "watching"
    /\ pc[d] # "idle" => rows[d].status # "none"
    /\ pc[d] \in ReleasePcs => rows[d].rel # None
    /\ pc[d] = "clear" /\ faults # 0 => Done(d)

\* A daemon that is to resume what another left finds one row at most, and
\* has no run yet; nothing more will fail.
Alone ==
    Resuming =>
        /\ faults = 0
        /\ \A d \in Deploys : pc[d] = "idle"
        /\ \A d, e \in Unfinished : d = e
        /\ \A d \in Unfinished : rows[d].status = "watching" => envDeploy = d
        /\ watches = {}

\* Until something fails every unfinished row has its run.
Unspent == faults # 0 => \A d \in Unfinished : pc[d] # "idle"

ControlInv ==
    /\ Solo /\ Alone /\ Unspent
    /\ todo \subseteq Unfinished
    /\ \A d \in Deploys : Pointer(d)

-----------------------------------------------------------------------------
(* The pools. *)

Runs(pool) == \A i \in pool : replicas[i] # None

\* There is something to go back to if there was something before.
Previous(pool) == envRelease # None => pool # {}

\* What every run knows of its pools, whatever failed.
Kept(d) ==
    /\ pc[d] \in {"idle"} \cup EarlyPcs => fresh[d] = {} /\ held[d] = {}
    /\ pc[d] \in {"idle", "push"} \cup EarlyPcs \cup GatePcs \cup UndoPcs => d \notin pushed
    /\ pc[d] \in {"stopHeld"} \cup BothPools => fresh[d] \cap held[d] = {}
    /\ pc[d] \in BothPools => Runs(fresh[d]) /\ Runs(held[d]) /\ Previous(held[d])
    /\ pc[d] \in ({"stopHeld"} \cup BothPools \cup PromotePcs) \ {"bringUp"} => fresh[d] # {}
    /\ pc[d] \in {"push"} \cup GatePcs => Active(edge) \subseteq held[d]
    /\ pc[d] \in UndoPcs => faults = 0 /\ (Active(edge) \subseteq held[d] \/ Active(edge) = fresh[d])
    /\ pc[d] \in {"stopHeld", "rbPush", "rbRecord2", "rbPush2"} \cup FlippedPcs \cup PromotePcs =>
        Active(edge) = fresh[d]
    /\ pc[d] = "push" => Active(targets) = fresh[d] /\ Behind(targets) = held[d]
    /\ pc[d] \in {"unpush", "rbPush"} => Active(targets) = held[d]
    /\ pc[d] \in {"holdPush", "promotePush", "rbPush2"} => Active(targets) = fresh[d]
    /\ pc[d] \in {"removeFresh"} \cup RestorePcs /\ verdict[d] # "rolled_back" =>
        Active(edge) \cap fresh[d] = {}
    /\ pc[d] = "removeFresh" /\ verdict[d] = "rolled_back" =>
        Active(edge) = held[d] /\ fresh[d] \cap held[d] = {}
    /\ pc[d] \in {"rbRecord", "rbPush", "rbRecord2", "rbPush2"} => verdict[d] = "rolled_back"
    /\ pc[d] \in {"rbClear"} \cup RestorePcs \cup EndPcs =>
        (fresh[d] \cap Active(edge) # {} => Active(edge) \subseteq fresh[d])

\* The store, the edge and the containers agree.
Clean == edge = targets /\ Behind(edge) = {} /\ Running = Active(edge)

\* What it knows besides as long as nothing failed.
Untouched(d) ==
    /\ pc[d] \in {"setRelease", "commit", "rbClear"} \cup EarlyPcs \cup EndPcs => Clean
    /\ pc[d] \in RestorePcs /\ verdict[d] = "rolled_back" => Clean
    /\ pc[d] \in {"push"} \cup GatePcs => Running = held[d] \cup fresh[d] /\ Active(edge) = held[d]
    /\ pc[d] \in GatePcs => edge = targets /\ Behind(edge) = {}
    /\ pc[d] \in {"removeFresh"} \cup RestorePcs /\ verdict[d] # "rolled_back" =>
        edge = targets /\ Behind(edge) = {} /\ Running = Active(edge) \cup fresh[d]
    /\ pc[d] \in {"stopHeld"} \cup FlippedPcs =>
        /\ Running = fresh[d] \cup held[d]
        /\ Active(targets) = fresh[d] /\ Behind(targets) = held[d]
    /\ pc[d] \in ({"stopHeld"} \cup FlippedPcs) \ {"holdPush"} => edge = targets
    /\ pc[d] = "stopHeld" => Runs(held[d]) /\ Previous(held[d])
    /\ pc[d] \in {"promoteRecord", "promotePush", "rbRecord2", "rbPush2"} => Running = fresh[d]
    /\ pc[d] \in {"promotePush", "rbPush2"} => Active(targets) = fresh[d] /\ Behind(targets) = {}
    /\ pc[d] = "rbPush" => Running = fresh[d] \cup held[d]
    /\ pc[d] = "removeFresh" /\ verdict[d] = "rolled_back" => Running = fresh[d] \cup held[d]

\* The watched deploy of a daemon that died can be gone on with: its table has
\* both pools, and both run.
Adoptable(d) == envDeploy = d /\ d \notin watches
Resumable(d) ==
    rows[d].status = "watching" /\ pc[d] = "idle" /\ (Resuming \/ Adoptable(d)) =>
        /\ faults = 0
        /\ Runs(Active(targets)) /\ Active(targets) # {}
        /\ Runs(Behind(targets)) /\ Previous(Behind(targets))
        /\ up => Active(edge) = Active(targets)

\* The table that a restart pushes first names a pool that runs.
Restartable ==
    Resuming =>
        /\ Runs(Active(targets)) /\ Previous(Active(targets))
        /\ up => Active(edge) = Active(targets)

PoolInv ==
    /\ NoOutage
    /\ Restartable
    /\ \A d \in Deploys : Kept(d) /\ Resumable(d)
    /\ faults # 0 => \A d \in Deploys : Untouched(d)
    /\ faults # 0 /\ (\A d \in Deploys : pc[d] = "idle") => Clean

-----------------------------------------------------------------------------
(* What the steps have in common. *)

\* A failure is the last one.
LEMMA OneFault ==
    ASSUME TypeOK, SingleFailure, NEW k, Fault(k) \/ NoFault
    PROVE  /\ faults' \in {faults, 0}
           /\ Fault(k) => faults # 0 /\ faults' = 0
           /\ NoFault => faults' = faults
  BY DeployAssumption DEF TypeOK, SingleFailure, Fault, NoFault

\* deployRun.fail of a run whose flip was not pushed.
LEMMA FailStep ==
    ASSUME TypeOK, NEW d \in Deploys, StartFail(d), d \notin pushed
    PROVE  /\ pc'[d] = "restoreConfig" /\ verdict'[d] = "failed"
           /\ \A e \in Deploys \ {d} : pc'[e] = pc[e]
  BY DEF TypeOK, StartFail, Goto

\* A step of a run leaves the pools of the others alone.
PoolFrame(d) ==
    \A e \in Deploys \ {d} :
        fresh'[e] = fresh[e] /\ held'[e] = held[e] /\ (e \in pushed' => e \in pushed)

LEMMA RunPoolFrame ==
    ASSUME TypeOK, NEW d \in Deploys, RunStep(d)
    PROVE  PoolFrame(d)
  <1> USE DEF PoolFrame
  <1>1. CASE Gate(d)
    <2>1. pushed' = pushed
      BY <1>1 DEF Gate, Register, Build, Plan, Migrate, Before, Start, BringUp, BringUpFails, Checking,
                  Check, GateFails, StatusFails, EnterGate, PassGate
    <2>2. \A e \in Deploys \ {d} : held'[e] = held[e]
      BY <1>1 DEF Gate, Register, Build, Plan, Migrate, Before, Start, BringUp, BringUpFails, Checking,
                  Check, GateFails, StatusFails, EnterGate, PassGate, TypeOK
    <2>3. \A e \in Deploys \ {d} : fresh'[e] = fresh[e]
      <3>1. CASE BringUp(d) \/ BringUpFails(d)
        BY <3>1 DEF BringUp, BringUpFails, TypeOK
      <3>2. CASE ~(BringUp(d) \/ BringUpFails(d))
        BY <1>1, <3>2 DEF Gate, Register, Build, Plan, Migrate, Before, Start, Checking,
                          Check, GateFails, StatusFails, EnterGate, PassGate
      <3> QED
        BY <3>1, <3>2
    <2> QED
      BY <2>1, <2>2, <2>3
  <1>2. CASE Flip(d)
    BY <1>2 DEF Flip, Replace, WorkerRow, SetWatching, EnterGate, RecordFlip, Record, Push, PushTable,
                WebRow, Hold, HoldPush, Unrecord, Unpush
  <1>3. CASE Watch(d)
    BY <1>3 DEF Watch, TakeLock, WatchFails, WindowOver, PromotedByHand, RolledBackByHand, Leave
  <1>4. CASE Promote(d)
    BY <1>4 DEF Promote, StopHeld, PromoteRecord, Record, PromotePush, PushTable, SetRelease, Commit, TypeOK
  <1>5. CASE Rollback(d)
    BY <1>5 DEF Rollback, RbRecord, RbPush, RemoveFresh, RbRecord2, RbPush2, Record, PushTable,
                RestoreConfig, RestoreWeb, RestoreWorker, RbClear, TypeOK
  <1>6. CASE Finish(d) \/ Clear(d)
    BY <1>6 DEF Finish, Clear, Forget, TypeOK
  <1> QED
    BY <1>1, <1>2, <1>3, <1>4, <1>5, <1>6 DEF RunStep

-----------------------------------------------------------------------------
(* A step of a run keeps the control invariant. *)

ControlStep(d) ==
    /\ faults' \in {faults, 0}
    /\ Pointer(d)'
    /\ pc'[d] = "idle" =>
        /\ faults' # 0 => Done(d)'
        /\ \A e \in Deploys : envDeploy' = e => rows'[e].status # "watching"

\* It is enough that the run's own row and step agree afterwards.
LEMMA RunControl ==
    ASSUME TypeOK, ControlInv, NEW d \in Deploys, RunFrame(d), ControlStep(d)
    PROVE  ControlInv'
  <1>0. up /\ up' /\ todo = {} /\ todo' = {} /\ ~Resuming'
    BY DEF ControlInv, Alone, Resuming, RunFrame
  <1>1. pc[d] # "idle" /\ \A e \in Deploys \ {d} : pc[e] = "idle" /\ pc'[e] = "idle" /\ rows'[e] = rows[e]
    BY DEF ControlInv, Solo, RunFrame
  <1>2. Solo'
    BY <1>1 DEF Solo
  <1>3. Alone'
    BY <1>0 DEF Alone
  <1>4. Unspent'
    <2> SUFFICES ASSUME faults' # 0, NEW e \in Deploys, e \in Unfinished', pc'[e] = "idle" PROVE FALSE
      BY DEF Unspent, Unfinished
    <2>1. faults # 0
      BY DEF ControlStep
    <2>2. CASE e = d
      BY <2>2 DEF ControlStep, Unfinished
    <2>3. CASE e # d
      BY <2>1, <2>3, <1>1 DEF ControlInv, Unspent, Unfinished, Done
    <2> QED
      BY <2>2, <2>3
  <1>5. todo' \subseteq Unfinished'
    BY <1>0
  <1>6. ASSUME NEW e \in Deploys \ {d} PROVE Pointer(e)'
    BY <1>1, <1>6 DEF Pointer, EarlyPcs, GatePcs, FlippedPcs, EndPcs, BeforeWatch, WatchingPcs, ReleasePcs
  <1> QED
    BY <1>2, <1>3, <1>4, <1>5, <1>6 DEF ControlInv, ControlStep

\* A step that writes neither the run's row nor the environment's pointer nor
\* the waiters, and spends at most the failure: only the step counts.
Steady(d) ==
    /\ faults' \in {faults, 0}
    /\ rows'[d] = rows[d] /\ envDeploy' = envDeploy /\ watches' = watches

\* The steps in front of the flip.
LEMMA GateControl ==
    ASSUME TypeOK, SingleFailure, NEW d \in Deploys, Pointer(d), d \notin pushed, Gate(d)
    PROVE  ControlStep(d)
  <1> USE DEF EarlyPcs, GatePcs, FlippedPcs, EndPcs, BeforeWatch, WatchingPcs, ReleasePcs
  <1>f. \A k : Fault(k) \/ NoFault => faults' \in {faults, 0} /\ (Fault(k) => faults' = 0)
    BY OneFault
  <1>0. ASSUME StartFail(d), Steady(d), pc[d] \in {"build", "plan", "migrate", "before", "start", "bringUp",
                                                    "checking", "check", "watching"}
        PROVE  ControlStep(d)
    BY <1>0, FailStep DEF ControlStep, Steady, Pointer
  <1>1. CASE Register(d)
    <2>0. rows' = rows /\ pc[d] = "register" /\ (NoFault \/ Fault("store"))
      BY <1>1 DEF Register, At
    <2>1. CASE envDeploy' = d /\ watches' = watches \cup {d} /\ Goto(d, "build")
      BY <1>f, <2>0, <2>1, GotoFrame DEF ControlStep, Pointer
    <2>2. CASE Fault("store") /\ Goto(d, "idle") /\ UNCHANGED <<envDeploy, watches>>
      <3>1. ~InFlight /\ 0 \notin Deploys
        BY <2>0, ZeroIsNoDeploy DEF Pointer
      <3>2. \A e \in Deploys : envDeploy' = e => rows'[e].status # "watching"
        BY <2>0, <2>2, <3>1 DEF InFlight, Done, Finished
      <3> QED
        BY <1>f, <2>0, <2>2, <3>2, GotoFrame DEF ControlStep, Pointer
    <2> QED
      BY <1>1, <2>1, <2>2 DEF Register
  <1>2. CASE Build(d)
    <2>0. \A e \in Deploys : rows[e].rel \in MaybeRelease
      BY DEF TypeOK, Row
    <2>1. RollbackTargets \subseteq Releases
      BY <2>0 DEF RollbackTargets, Built, Promoted, MaybeRelease
    <2>2. PICK r \in Releases : rows' = [rows EXCEPT ![d].rel = r]
      BY <1>2, <2>1 DEF Build
    <2>3. rows'[d] = [rows[d] EXCEPT !.rel = r]
      BY <2>2 DEF TypeOK
    <2>4. rows[d] \in Row
      BY DEF TypeOK
    <2>5. rows'[d].status = rows[d].status /\ rows'[d].rel # None
      BY <2>3, <2>4, DeployAssumption DEF Row
    <2>6. envDeploy' = envDeploy /\ watches' = watches /\ faults' = faults /\ pc[d] = "build"
      BY <1>2 DEF Build, NoFault, rowVars, daemon, At
    <2>7. pc'[d] = "plan"
      BY <1>2, GotoFrame DEF Build
    <2> QED
      BY <2>5, <2>6, <2>7 DEF ControlStep, Pointer
  <1>3. CASE Plan(d) \/ Before(d) \/ Check(d)
    <2>1. Steady(d)
      BY <1>3 DEF Plan, Before, Check, PassGate, NoFault, Steady, rowVars, store, daemon
    <2>2. \/ pc[d] = "plan" /\ pc'[d] = "migrate"
          \/ pc[d] = "before" /\ pc'[d] = "start"
          \/ pc[d] = "check" /\ pc'[d] = "replace"
      BY <1>3, GotoFrame DEF Plan, Before, Check, PassGate, At
    <2> QED
      BY <2>1, <2>2 DEF ControlStep, Pointer, Steady
  <1>4. CASE Migrate(d) \/ Checking(d) \/ Start(d)
    <2>1. rows[d] \in Row /\ \E s : rows' = [rows EXCEPT ![d].status = s]
      BY <1>4 DEF TypeOK, Migrate, Checking, EnterGate, Start, SetStatus
    <2>2. rows'[d].rel = rows[d].rel
      BY <2>1 DEF TypeOK, Row
    <2>3. rows'[d].status \in {"migrating", "checking", "starting"}
      BY <1>4, StatusFrame DEF Migrate, Checking, EnterGate, Start
    <2>4. faults' = faults /\ envDeploy' = envDeploy /\ watches' = watches
      BY <1>4 DEF Migrate, Checking, EnterGate, Start, NoFault, rowVars, daemon
    <2>5. \/ pc[d] = "migrate" /\ pc'[d] = "before"
          \/ pc[d] = "checking" /\ pc'[d] = "check"
          \/ pc[d] = "start" /\ pc'[d] \in {"bringUp", "restoreConfig"}
      BY <1>4, GotoFrame, FailStep DEF Migrate, Checking, EnterGate, Start, At
    <2> QED
      BY <2>2, <2>3, <2>4, <2>5 DEF ControlStep, Pointer
  <1>5. CASE BringUp(d)
    <2>1. Steady(d) /\ pc[d] = "bringUp"
      BY <1>5 DEF BringUp, NoFault, Steady, store, daemon, At
    <2>2. pc'[d] \in {"bringUp", "checking"}
      BY <1>5, GotoFrame DEF BringUp
    <2> QED
      BY <2>1, <2>2 DEF ControlStep, Pointer, Steady
  <1>6. CASE BringUpFails(d) \/ GateFails(d) \/ StatusFails(d)
    <2>1. faults' \in {faults, 0}
      BY <1>6, <1>f DEF BringUpFails, GateFails, StatusFails
    <2>2. StartFail(d) /\ Steady(d)
      BY <1>6, <2>1 DEF BringUpFails, GateFails, StatusFails, Steady, store, daemon
    <2> QED
      BY <1>0, <1>6, <2>2 DEF BringUpFails, GateFails, StatusFails, At
  <1> QED
    BY <1>1, <1>2, <1>3, <1>4, <1>5, <1>6 DEF Gate

\* The flip.
LEMMA FlipControl ==
    ASSUME TypeOK, SingleFailure, NEW d \in Deploys, Pointer(d), Kept(d), Flip(d)
    PROVE  ControlStep(d)
  <1> USE DEF EarlyPcs, GatePcs, UndoPcs, FlippedPcs, EndPcs, BeforeWatch, WatchingPcs, ReleasePcs
  <1>f. \A k : Fault(k) \/ NoFault => faults' \in {faults, 0}
    BY OneFault
  <1>1. CASE Replace(d) \/ Unpush(d)
    <2>1. Steady(d) /\ ((Replace(d) /\ pc[d] = "replace") \/ (Unpush(d) /\ pc[d] = "unpush"))
      BY <1>f, <1>1 DEF Replace, Unpush, Steady, store, daemon, At
    <2>2. d \notin pushed
      BY <2>1 DEF Kept
    <2>3. pc'[d] = "restoreConfig" \/ (pc[d] = "replace" /\ pc'[d] = "workerRow")
      BY <2>1, <1>1, <2>2, GotoFrame, FailStep DEF Replace, Unpush
    <2> QED
      BY <2>1, <2>3 DEF ControlStep, Pointer, Steady
  <1>2. CASE WorkerRow(d) \/ WebRow(d)
    <2>1. Steady(d)
      BY <1>f, <1>2 DEF WorkerRow, WebRow, PutRow, Steady, daemon
    <2>2. \/ pc[d] = "workerRow" /\ pc'[d] = "watching"
          \/ pc[d] = "webRow" /\ pc'[d] = "drain"
      BY <1>2, GotoFrame DEF WorkerRow, WebRow, PutRow, At
    <2> QED
      BY <2>1, <2>2 DEF ControlStep, Pointer, Steady
  <1>3. CASE SetWatching(d)
    <2>1. rows'[d].status = "watching" /\ pc[d] = "watching" /\ pc'[d] = "record"
      BY <1>3, StatusFrame, GotoFrame DEF SetWatching, EnterGate, At
    <2>2. faults' = faults /\ envDeploy' = envDeploy /\ watches' = watches
      BY <1>3 DEF SetWatching, EnterGate, NoFault, rowVars, daemon
    <2> QED
      BY <2>1, <2>2 DEF ControlStep, Pointer
  <1>4. CASE RecordFlip(d) \/ Hold(d) \/ Unrecord(d)
    <2>1. Steady(d)
      BY <1>f, <1>4 DEF RecordFlip, Hold, Unrecord, Record, Steady, store, rowVars, daemon
    <2>2. \/ pc[d] = "record" /\ pc'[d] \in {"push", "unrecord"}
          \/ pc[d] = "drain" /\ pc'[d] \in {"holdPush", "watch"}
          \/ pc[d] = "unrecord" /\ pc'[d] = "unpush"
      BY <1>4, GotoFrame DEF RecordFlip, Hold, Unrecord, Record, At
    <2> QED
      BY <2>1, <2>2 DEF ControlStep, Pointer, Steady
  <1>5. CASE Push(d) \/ HoldPush(d)
    <2>1. Steady(d)
      BY <1>f, <1>5 DEF Push, HoldPush, PushTable, Steady, store, daemon
    <2>2. \/ pc[d] = "push" /\ pc'[d] \in {"webRow", "unrecord"}
          \/ pc[d] = "holdPush" /\ pc'[d] = "watch"
      BY <1>5, GotoFrame DEF Push, HoldPush, PushTable, At
    <2> QED
      BY <2>1, <2>2 DEF ControlStep, Pointer, Steady
  <1> QED
    BY <1>1, <1>2, <1>3, <1>4, <1>5 DEF Flip

\* The watch, promote and rollback.
LEMMA TailControl ==
    ASSUME TypeOK, SingleFailure, NEW d \in Deploys, Pointer(d), Watch(d) \/ Promote(d) \/ Rollback(d)
    PROVE  ControlStep(d)
  <1> USE DEF EarlyPcs, GatePcs, FlippedPcs, EndPcs, BeforeWatch, WatchingPcs, ReleasePcs
  <1>f. \A k : Fault(k) \/ NoFault => faults' \in {faults, 0}
    BY OneFault
  <1>1. CASE Watch(d)
    <2>1. Steady(d)
      BY <1>f, <1>1 DEF Watch, TakeLock, WatchFails, WindowOver, PromotedByHand, RolledBackByHand, Leave,
                        Steady, store, daemon
    <2>2. pc[d] \in {"lockWait", "watch", "await"} /\ pc'[d] \in {"watch", "await", "stopHeld", "rbRecord"}
      BY <1>1, GotoFrame DEF Watch, TakeLock, WatchFails, WindowOver, PromotedByHand, RolledBackByHand, Leave,
                             Watched, At
    <2> QED
      BY <2>1, <2>2 DEF ControlStep, Pointer, Steady
  <1>2. CASE Promote(d)
    <2>0. faults' \in {faults, 0}
      BY <1>f, <1>2 DEF Promote, StopHeld, StopPool, PromoteRecord, Record, PromotePush, PushTable, SetRelease,
                        Commit
    <2>1. Steady(d)
      BY <2>0, <1>2 DEF Promote, StopHeld, PromoteRecord, Record, PromotePush, PushTable, SetRelease,
                        Commit, Steady, store, rowVars, daemon
    <2>2. /\ pc[d] \in {"stopHeld", "promoteRecord", "promotePush", "setRelease", "commit"}
          /\ pc'[d] \in {"promoteRecord", "promotePush", "setRelease", "commit", "finish"}
      BY <1>2, GotoFrame DEF Promote, StopHeld, PromoteRecord, Record, PromotePush, PushTable, SetRelease,
                             Commit, At
    <2> QED
      BY <2>1, <2>2 DEF ControlStep, Pointer, Steady
  <1>3. CASE RbRecord(d) \/ RbPush(d) \/ RbRecord2(d) \/ RbPush2(d)
    <2>1. Steady(d)
      BY <1>f, <1>3 DEF RbRecord, RbPush, RbRecord2, RbPush2, Record, PushTable, Steady, store, rowVars, daemon
    <2>2. /\ pc[d] \in {"rbRecord", "rbPush", "rbRecord2", "rbPush2"}
          /\ pc'[d] \in {"rbPush", "finish", "removeFresh", "rbPush2", "restoreConfig"}
      BY <1>3, GotoFrame DEF RbRecord, RbPush, RbRecord2, RbPush2, Record, PushTable, At
    <2> QED
      BY <2>1, <2>2 DEF ControlStep, Pointer, Steady
  <1>4. CASE RemoveFresh(d) \/ RestoreConfig(d) \/ RestoreWeb(d) \/ RestoreWorker(d)
    <2>1. faults' \in {faults, 0}
      BY <1>f, <1>4 DEF RemoveFresh, StopPool, RestoreConfig, RestoreWeb, RestoreWorker
    <2>2. Steady(d)
      BY <2>1, <1>4 DEF RemoveFresh, RestoreConfig, RestoreWeb, RestoreWorker, Steady, store, daemon
    <2>3. /\ pc[d] \in {"removeFresh"} \cup RestorePcs
          /\ pc'[d] \in {"rbRecord2", "finish", "removeFresh", "rbClear"} \cup RestorePcs
      BY <1>4, GotoFrame DEF RemoveFresh, RestoreConfig, RestoreWeb, RestoreWorker, AfterRestore, At, RestorePcs
    <2> QED
      BY <2>2, <2>3 DEF ControlStep, Pointer, Steady, RestorePcs
  <1>5. CASE RbClear(d)
    <2>1. faults' \in {faults, 0} /\ rows' = rows /\ watches' = watches /\ envDeploy' \in {0, envDeploy}
      BY <1>f, <1>5 DEF RbClear, daemon
    <2>2. pc[d] = "rbClear" /\ pc'[d] = "finish"
      BY <1>5, GotoFrame DEF RbClear, At
    <2> QED
      BY <2>1, <2>2 DEF ControlStep, Pointer
  <1> QED
    BY <1>1, <1>2, <1>3, <1>4, <1>5 DEF Rollback

\* finish: a failed write is the one failure, so that the other one succeeds.
LEMMA EndControl ==
    ASSUME TypeOK, SingleFailure, NEW d \in Deploys, Pointer(d), Finish(d) \/ Clear(d)
    PROVE  ControlStep(d)
  <1> USE DEF EarlyPcs, GatePcs, FlippedPcs, EndPcs, BeforeWatch, WatchingPcs, ReleasePcs
  <1>f. \A k : Fault(k) \/ NoFault => /\ faults' \in {faults, 0}
                                      /\ Fault(k) => faults # 0 /\ faults' = 0
    BY OneFault
  <1>1. CASE Finish(d)
    <2>1. pc[d] = "finish" /\ pc'[d] = "clear" /\ envDeploy' = envDeploy /\ watches' = watches
      BY <1>1, GotoFrame DEF Finish, At, rowVars, daemon
    <2>2. verdict[d] \in Finished
      BY DEF TypeOK
    <2>3. \/ rows'[d].status = verdict[d] /\ faults' = faults
          \/ faults' = 0 /\ rows'[d] = rows[d]
      BY <1>f, <1>1, StatusFrame DEF Finish, NoFault
    <2> QED
      BY <2>1, <2>2, <2>3 DEF ControlStep, Pointer, Done, Finished
  <1>2. CASE Clear(d)
    <2>1. pc[d] = "clear" /\ pc'[d] = "idle" /\ rows' = rows /\ envDeploy \in {0, d}
      BY <1>2, GotoFrame DEF Clear, At, Pointer
    <2>2. \/ envDeploy' = 0 /\ faults' = faults
          \/ faults # 0 /\ faults' = 0 /\ envDeploy' = envDeploy
      BY <1>f, <1>2 DEF Clear, NoFault
    <2>3. faults # 0 => Done(d)
      BY <2>1 DEF Pointer
    <2> QED
      BY <2>1, <2>2, <2>3, ZeroIsNoDeploy DEF ControlStep, Pointer, Done, Finished
  <1> QED
    BY <1>1, <1>2

LEMMA RunStepControl ==
    ASSUME TypeOK, SingleFailure, ControlInv, NEW d \in Deploys, Kept(d), RunStep(d)
    PROVE  ControlStep(d) /\ ControlInv'
  <1>0. Pointer(d)
    BY DEF ControlInv
  <1>1. CASE Gate(d)
    <2>1. pc[d] \in EarlyPcs \cup GatePcs
      BY <1>1 DEF Gate, Register, Build, Plan, Migrate, Before, Start, BringUp, BringUpFails, Checking,
                  Check, GateFails, StatusFails, EnterGate, PassGate, At, EarlyPcs, GatePcs
    <2>2. d \notin pushed
      BY <2>1 DEF Kept
    <2> QED
      BY <1>0, <1>1, <2>2, GateControl, RunStepFrame, RunControl
  <1>2. CASE Flip(d)
    BY <1>0, <1>2, FlipControl, RunStepFrame, RunControl
  <1>3. CASE Watch(d) \/ Promote(d) \/ Rollback(d)
    BY <1>0, <1>3, TailControl, RunStepFrame, RunControl
  <1>4. CASE Finish(d) \/ Clear(d)
    BY <1>0, <1>4, EndControl, RunStepFrame, RunControl
  <1> QED
    BY <1>1, <1>2, <1>3, <1>4 DEF RunStep

-----------------------------------------------------------------------------
(* So do the commands, the resumption and the failures. *)

AllIdle == \A d \in Deploys : pc[d] = "idle"

\* A deploy begins only when no run exists, not even one that still waits for
\* the environment's mutex: that one's row is in flight.
LEMMA BeginAlone ==
    ASSUME TypeOK, MutualExclusion, ControlInv, NEW d \in Deploys, NEW kind, Begin(d, kind)
    PROVE  AllIdle
  <1> SUFFICES ASSUME NEW e \in Deploys, pc[e] # "idle" PROVE FALSE
    BY DEF AllIdle
  <1>1. lock = 0 /\ ~InFlight
    BY DEF Begin, Unlocked
  <1>2. pc[e] = "lockWait"
    BY <1>1, ZeroIsNoDeploy DEF MutualExclusion
  <1>3. envDeploy = e /\ rows[e].status = "watching"
    BY <1>2 DEF ControlInv, Pointer, EndPcs, WatchingPcs, FlippedPcs
  <1> QED
    BY <1>1, <1>3, ZeroIsNoDeploy DEF InFlight, Done, Finished

\* Nor is a deploy adopted when a run exists: that one has the pointer and a
\* waiter.
LEMMA AdoptAlone ==
    ASSUME TypeOK, ControlInv, NEW d \in Deploys, Adopt(d)
    PROVE  AllIdle
  <1> SUFFICES ASSUME NEW e \in Deploys, pc[e] # "idle" PROVE FALSE
    BY DEF AllIdle
  <1>1. envDeploy = d /\ d \notin watches /\ rows[d].status = "watching"
    BY DEF Adopt
  <1>2. Pointer(e)
    BY DEF ControlInv
  <1>3. InFlight
    BY <1>1, ZeroIsNoDeploy DEF InFlight, Done, Finished
  <1>4. pc[e] # "register"
    BY <1>2, <1>3 DEF Pointer
  <1>5. envDeploy \in {0, e} /\ e \in watches
    BY <1>2, <1>4 DEF Pointer
  <1> QED
    BY <1>1, <1>5, ZeroIsNoDeploy

\* A daemon that resumes has one row to resume.
LEMMA ResumeAlone ==
    ASSUME TypeOK, ControlInv, NEW d \in Deploys, up, d \in todo
    PROVE  /\ AllIdle /\ faults = 0 /\ todo \ {d} = {} /\ watches = {}
           /\ d \in Unfinished
           /\ rows[d].status = "watching" => envDeploy = d
  BY DEF ControlInv, Alone, Resuming, AllIdle

\* Taking over spends at most the failure.
LEMMA TakeOverFault ==
    ASSUME TypeOK, SingleFailure, NEW d \in Deploys, TakeOver(d)
    PROVE  faults' \in {faults, 0}
  BY OneFault DEF TakeOver, RepushFails

\* Once no run existed, the one that begins or takes over is alone.
LEMMA NewRunControl ==
    ASSUME TypeOK, ControlInv, AllIdle, NEW d \in Deploys,
           up', todo' = {}, faults' \in {faults, 0},
           pc'[d] # "idle", Pointer(d)',
           \A e \in Deploys \ {d} : pc'[e] = pc[e] /\ rows'[e] = rows[e]
    PROVE  ControlInv'
  <1>1. \A e \in Deploys \ {d} : pc[e] = "idle" /\ pc'[e] = "idle"
    BY DEF AllIdle
  <1>2. Solo' /\ Alone'
    BY <1>1 DEF Solo, Alone, Resuming
  <1>3. Unspent'
    BY <1>1 DEF ControlInv, Unspent, Unfinished, Done
  <1>4. \A e \in Deploys \ {d} : Pointer(e)'
    BY <1>1 DEF Pointer, EarlyPcs, GatePcs, FlippedPcs, EndPcs, BeforeWatch, WatchingPcs, ReleasePcs
  <1> QED
    BY <1>2, <1>3, <1>4 DEF ControlInv

\* The commands keep the control invariant.
LEMMA CommandControl ==
    ASSUME TypeOK, SingleFailure, MutualExclusion, ControlInv, NEW d \in Deploys, Command(d)
    PROVE  ControlInv'
  <1> USE DEF EarlyPcs, GatePcs, FlippedPcs, EndPcs, BeforeWatch, WatchingPcs, ReleasePcs
  <1>1. ASSUME NEW kind, Begin(d, kind) PROVE ControlInv'
    <2>1. rows'[d].status = "building" /\ \A e \in Deploys \ {d} : rows'[e] = rows[e]
      BY <1>1 DEF Begin, TypeOK
    <2>2. pc'[d] = "register" /\ \A e \in Deploys \ {d} : pc'[e] = pc[e]
      BY <1>1, GotoFrame DEF Begin
    <2>3. up' /\ todo' = {} /\ faults' = faults /\ envDeploy' = envDeploy
      BY <1>1 DEF Begin, Serving, NoFault, rowVars
    <2>4. ~InFlight'
      <3>1. ~InFlight /\ rows[d].status = "none" /\ envDeploy \in Deploys \cup {0}
        BY <1>1 DEF Begin, NewId, TypeOK
      <3>2. envDeploy # d
        BY <3>1, ZeroIsNoDeploy DEF InFlight, Done, Finished
      <3> QED
        BY <2>1, <2>3, <3>1, <3>2 DEF InFlight, Done
    <2>5. Pointer(d)'
      BY <2>1, <2>2, <2>4 DEF Pointer
    <2> QED
      BY <1>1, <2>1, <2>2, <2>3, <2>5, BeginAlone, NewRunControl
  <1>2. CASE SignalPromote(d) \/ SignalRollback(d)
    BY <1>2 DEF SignalPromote, SignalRollback, NoFault, store, run, ControlInv, Solo, Alone, Resuming, Unspent,
                Unfinished, Done, Pointer, InFlight
  <1>3. CASE Adopt(d)
    <2>1. pc'[d] = "lockWait" /\ \A e \in Deploys \ {d} : pc'[e] = pc[e]
      BY <1>3, GotoFrame DEF Adopt, TakeOver
    <2>2. rows' = rows /\ envDeploy' = d /\ d \in watches' /\ rows[d].status = "watching" /\ up' /\ todo' = {}
      BY <1>3 DEF Adopt, TakeOver, Serving, rowVars
    <2>3. Pointer(d)'
      BY <2>1, <2>2 DEF Pointer
    <2>4. faults' \in {faults, 0}
      BY <1>3, TakeOverFault DEF Adopt
    <2> QED
      BY <1>3, <2>1, <2>2, <2>3, <2>4, AdoptAlone, NewRunControl
  <1> QED
    BY <1>1, <1>2, <1>3 DEF Command

\* So does the resumption.
LEMMA ResumeControl ==
    ASSUME TypeOK, SingleFailure, ControlInv, NEW d \in Deploys, Resume(d)
    PROVE  ControlInv'
  <1> USE DEF EarlyPcs, GatePcs, FlippedPcs, EndPcs, BeforeWatch, WatchingPcs, ReleasePcs
  <1>0. up /\ d \in todo /\ up' /\ todo' = todo \ {d}
    BY DEF Resume, ResumeWatch, ResumeEnd, ResumeFails
  <1>1. /\ AllIdle /\ faults = 0 /\ todo' = {}
        /\ rows[d].status = "watching" => envDeploy = d
    BY <1>0, ResumeAlone
  <1>2. CASE ResumeWatch(d)
    <2>1. pc'[d] = "lockWait" /\ \A e \in Deploys \ {d} : pc'[e] = pc[e]
      BY <1>2, GotoFrame DEF ResumeWatch, TakeOver
    <2>2. rows' = rows /\ envDeploy' = d /\ d \in watches' /\ rows[d].status = "watching"
      BY <1>1, <1>2 DEF ResumeWatch, TakeOver, rowVars
    <2>3. Pointer(d)'
      BY <2>1, <2>2 DEF Pointer
    <2>4. faults' \in {faults, 0}
      BY <1>2, TakeOverFault DEF ResumeWatch
    <2> QED
      BY <1>0, <1>1, <2>1, <2>2, <2>3, <2>4, NewRunControl
  <1>3. CASE ResumeEnd(d) \/ ResumeFails(d)
    <2>1. pc' = pc
      BY <1>3 DEF ResumeEnd, ResumeFails, run
    <2>2. faults' = 0
      BY <1>1, <1>3, OneFault DEF ResumeEnd, ResumeFails, StopPool, RepushFails
    <2> QED
      BY <1>0, <1>1, <2>1, <2>2 DEF AllIdle, ControlInv, Solo, Alone, Resuming, Unspent, Pointer
  <1> QED
    BY <1>2, <1>3 DEF Resume

\* A daemon that dies leaves one unfinished row at most, and the environment
\* points to it if it was watched.
LEMMA CrashControl ==
    ASSUME TypeOK, SingleFailure, ControlInv, Crash
    PROVE  ControlInv'
  <1>1. faults # 0 /\ faults' = 0 /\ todo' = {} /\ watches' = {} /\ rows' = rows /\ envDeploy' = envDeploy
    BY OneFault DEF Crash, store
  <1>2. \A d \in Deploys : pc'[d] = "idle"
    BY DEF Crash
  <1>3. \A d \in Unfinished : pc[d] # "idle"
    BY <1>1 DEF ControlInv, Unspent
  <1>4. \A d, e \in Unfinished : d = e
    BY <1>3 DEF ControlInv, Solo, Unfinished
  <1>5. ASSUME NEW d \in Unfinished, rows[d].status = "watching" PROVE envDeploy = d
    <2>1. d \in Deploys /\ ~Done(d) /\ Pointer(d) /\ pc[d] # "idle"
      BY <1>3 DEF Unfinished, ControlInv
    <2>2. pc[d] \in SafeCrash
      BY <2>1 DEF Crash, SingleFailure
    <2>3. pc[d] \notin {"register", "clear", "finish"}
      BY <1>1, <1>5, <2>1, <2>2 DEF Pointer, BeforeWatch, EarlyPcs, SafeCrash
    <2> QED
      BY <2>1, <2>3 DEF Pointer, EndPcs
  <1>6. Alone'
    BY <1>1, <1>2, <1>4, <1>5 DEF Alone, Unfinished, Done
  <1>7. \A d \in Deploys : Pointer(d)'
    BY <1>2 DEF Pointer, EarlyPcs, GatePcs, FlippedPcs, EndPcs, BeforeWatch, WatchingPcs, ReleasePcs
  <1> QED
    BY <1>1, <1>2, <1>6, <1>7 DEF ControlInv, Solo, Unspent

\* A restart, and a container that exits.
LEMMA OutsideControl ==
    ASSUME TypeOK, SingleFailure, ControlInv, Restart \/ HarmlessExit
    PROVE  ControlInv'
  <1>1. faults' \in {faults, 0} /\ (HarmlessExit => faults' = 0)
    BY OneFault DEF Restart, HarmlessExit, Dies
  <1>2. CASE Restart
    BY <1>1, <1>2 DEF Restart, store, run, ControlInv, Solo, Alone, Resuming, Unspent, Unfinished, Done,
                      Pointer, InFlight
  <1>3. CASE HarmlessExit
    BY <1>1, <1>3 DEF HarmlessExit, Dies, store, daemon, run, ControlInv, Solo, Alone, Resuming, Unspent,
                      Unfinished, Done, Pointer, InFlight
  <1> QED
    BY <1>2, <1>3

-----------------------------------------------------------------------------
(* The pools. A step of a run has to keep what its own run knows. *)

PoolStep(d) ==
    /\ NoOutage'
    /\ Kept(d)'
    /\ faults' # 0 => Untouched(d)'
    /\ faults' # 0 /\ pc'[d] = "idle" => Clean'

\* The other deploys have no run, and none is left that could be adopted.
LEMMA RunPools ==
    ASSUME TypeOK, ControlInv, PoolInv, NEW d \in Deploys,
           RunFrame(d), PoolFrame(d), ControlStep(d), PoolStep(d)
    PROVE  PoolInv'
  <1>0. ~Resuming'
    BY DEF ControlInv, Alone, Resuming, RunFrame
  <1>1. \A e \in Deploys \ {d} : pc[e] = "idle" /\ pc'[e] = "idle"
    BY DEF ControlInv, Solo, RunFrame
  <1>2. Restartable'
    BY <1>0 DEF Restartable
  <1>3. ASSUME NEW e \in Deploys \ {d} PROVE Kept(e)'
    <2>1. fresh'[e] = {} /\ held'[e] = {} /\ e \notin pushed'
      BY <1>1, <1>3 DEF PoolInv, Kept, PoolFrame
    <2> QED
      BY <1>1, <1>3, <2>1 DEF Kept, EarlyPcs, GatePcs, UndoPcs, BothPools, FlippedPcs, PromotePcs, RestorePcs, EndPcs
  <1>4. ASSUME NEW e \in Deploys PROVE Resumable(e)'
    <2> SUFFICES ASSUME rows'[e].status = "watching", pc'[e] = "idle", envDeploy' = e PROVE FALSE
      BY <1>0 DEF Resumable, Adoptable
    <2>1. pc'[d] # "idle" /\ e # d
      BY DEF ControlStep
    <2>2. Pointer(d)' /\ 0 \notin Deploys
      BY ZeroIsNoDeploy DEF ControlStep
    <2>3. pc'[d] = "register"
      BY <2>1, <2>2 DEF Pointer
    <2>4. ~InFlight'
      BY <2>2, <2>3 DEF Pointer
    <2> QED
      BY <2>2, <2>4 DEF InFlight, Done, Finished
  <1>5. ASSUME faults' # 0, NEW e \in Deploys \ {d} PROVE Untouched(e)'
    BY <1>1, <1>5 DEF Untouched, EarlyPcs, GatePcs, FlippedPcs, RestorePcs, EndPcs
  <1> QED
    BY <1>2, <1>3, <1>4, <1>5 DEF PoolInv, PoolStep

\* A step that moves no container, no table and no pool.
Still(d) ==
    /\ edge' = edge /\ targets' = targets /\ replicas' = replicas /\ envRelease' = envRelease
    /\ fresh'[d] = fresh[d] /\ held'[d] = held[d] /\ pushed' = pushed
    /\ faults' \in {faults, 0}

\* Every formula about the pools keeps its value.
LEMMA StillPools ==
    ASSUME NEW d \in Deploys, Still(d)
    PROVE  /\ Active(edge)' = Active(edge) /\ Behind(edge)' = Behind(edge)
           /\ Active(targets)' = Active(targets) /\ Behind(targets)' = Behind(targets)
           /\ Running' = Running
           /\ NoOutage' <=> NoOutage
           /\ Clean' <=> Clean
           /\ Runs(fresh[d])' <=> Runs(fresh[d])
           /\ Runs(held[d])' <=> Runs(held[d])
           /\ Previous(held[d])' <=> Previous(held[d])
  BY DEF Still, Active, Behind, Running, NoOutage, Clean, Runs, Previous

\* The steps in front of the flip that start no container.
LEMMA StillGatePools ==
    ASSUME TypeOK, SingleFailure, PoolInv, NEW d \in Deploys, Gate(d), ~Start(d), ~BringUp(d), ~BringUpFails(d)
    PROVE  PoolStep(d)
  <1> USE DEF EarlyPcs, GatePcs, UndoPcs, FlippedPcs, PromotePcs, RestorePcs, EndPcs, BothPools
  <1>f. \A k : Fault(k) \/ NoFault => faults' \in {faults, 0} /\ (Fault(k) => faults' = 0)
    BY OneFault
  <1>0. NoOutage /\ Kept(d) /\ (faults # 0 => Untouched(d))
    BY DEF PoolInv
  <1>1. Still(d)
    BY <1>f DEF Gate, Register, Build, Plan, Migrate, Before, Checking, Check, GateFails, StatusFails,
                EnterGate, PassGate, Still, store, world, rowVars
  <1> DEFINE Moves ==
        \/ pc[d] = "register" /\ pc'[d] \in {"build", "idle"} /\ (pc'[d] = "idle" => faults' = 0)
        \/ pc[d] = "build" /\ pc'[d] = "plan"
        \/ pc[d] = "plan" /\ pc'[d] = "migrate"
        \/ pc[d] = "migrate" /\ pc'[d] = "before"
        \/ pc[d] = "before" /\ pc'[d] = "start"
        \/ pc[d] = "checking" /\ pc'[d] = "check"
        \/ pc[d] = "check" /\ pc'[d] = "replace"
      Failing == pc[d] \in {"build", "plan", "before", "check", "migrate", "start", "checking", "watching"}
  <1>2. Moves \/ (StartFail(d) /\ Failing)
    BY <1>f, GotoFrame DEF Gate, Register, Build, Plan, Migrate, Before, Checking, Check, GateFails, StatusFails,
                EnterGate, PassGate, At
  <1>3. CASE Moves
    BY <1>0, <1>1, <1>3, StillPools DEF PoolStep, Kept, Untouched, Still
  <1>4. CASE StartFail(d) /\ Failing
    <2>1. pc'[d] = "restoreConfig" /\ verdict'[d] = "failed"
      BY <1>0, <1>4, FailStep DEF Kept
    <2>2. Active(edge) \cap fresh[d] = {}
      BY <1>0, <1>4 DEF Kept
    <2>3. faults # 0 => edge = targets /\ Behind(edge) = {} /\ Running = Active(edge) \cup fresh[d]
      BY <1>0, <1>4 DEF Kept, Untouched, Clean
    <2> QED
      BY <1>0, <1>1, <1>4, <2>1, <2>2, <2>3, StillPools DEF PoolStep, Kept, Untouched, Still
  <1> QED
    BY <1>2, <1>3, <1>4

\* The old pool is everything that runs, and it serves.
LEMMA StartPools ==
    ASSUME TypeOK, SingleFailure, PoolInv, NEW d \in Deploys, Start(d)
    PROVE  PoolStep(d)
  <1> USE DEF EarlyPcs, GatePcs, UndoPcs, FlippedPcs, PromotePcs, RestorePcs, EndPcs, BothPools
  <1>0. NoOutage /\ Kept(d) /\ (faults # 0 => Untouched(d))
    BY DEF PoolInv
  <1>1. /\ edge' = edge /\ targets' = targets /\ replicas' = replicas /\ envRelease' = envRelease
        /\ fresh' = fresh /\ pushed' = pushed /\ faults' = faults /\ pc[d] = "start"
    BY DEF Start, NoFault, At, rowVars, world
  <1>2. /\ Active(edge)' = Active(edge) /\ Behind(edge)' = Behind(edge) /\ Running' = Running
        /\ NoOutage' /\ (Clean' <=> Clean)
    BY <1>0, <1>1 DEF Active, Behind, Running, NoOutage, Clean
  <1>3. fresh[d] = {} /\ d \notin pushed /\ (faults # 0 => Clean)
    BY <1>0, <1>1 DEF Kept, Untouched
  <1>4. CASE held' = [held EXCEPT ![d] = Running] /\ Goto(d, "bringUp")
    <2>1. held'[d] = Running /\ pc'[d] = "bringUp"
      BY <1>4, GotoFrame DEF TypeOK
    <2>2. Runs(held[d])' /\ Runs(fresh[d])'
      BY <1>1, <1>3, <2>1 DEF Runs, Running
    <2>3. Active(edge) \subseteq Running
      BY <1>0 DEF NoOutage, Running, Active
    <2>4. Previous(held[d])'
      BY <1>0, <1>1, <2>1, <2>3 DEF Previous, NoOutage
    <2> QED
      BY <1>1, <1>2, <1>3, <2>1, <2>2, <2>3, <2>4 DEF PoolStep, Kept, Untouched, Clean
  <1>5. CASE StartFail(d) /\ held' = held
    BY <1>1, <1>2, <1>3, <1>5, FailStep DEF PoolStep, Kept, Untouched, Clean
  <1> QED
    BY <1>4, <1>5 DEF Start

\* A container is started at an index nobody uses.
LEMMA BringUpPools ==
    ASSUME TypeOK, SingleFailure, PoolInv, NEW d \in Deploys, Pointer(d), BringUp(d) \/ BringUpFails(d)
    PROVE  PoolStep(d)
  <1> USE DEF EarlyPcs, GatePcs, UndoPcs, FlippedPcs, PromotePcs, RestorePcs, EndPcs, BothPools
  <1>0. NoOutage /\ Kept(d) /\ (faults # 0 => Untouched(d))
    BY DEF PoolInv
  <1>1. /\ edge' = edge /\ targets' = targets /\ envRelease' = envRelease
        /\ held' = held /\ pushed' = pushed /\ faults' = faults /\ pc[d] = "bringUp"
    BY DEF BringUp, BringUpFails, NoFault, At, store
  <1>2. /\ fresh[d] \cap held[d] = {} /\ Active(edge) \subseteq held[d] /\ d \notin pushed
        /\ Runs(fresh[d]) /\ Runs(held[d]) /\ Previous(held[d])
        /\ faults # 0 => /\ Running = held[d] \cup fresh[d] /\ Active(edge) = held[d]
                         /\ edge = targets /\ Behind(edge) = {}
    BY <1>0, <1>1 DEF Kept, Untouched
  <1>3. rows[d].rel # None
    BY <1>1 DEF Pointer, ReleasePcs
  <1>4. NextIndex(d) \subseteq Index \ (held[d] \cup fresh[d])
    BY DEF NextIndex, FreeIndexes
  <1>5. \/ replicas' = replicas /\ fresh' = fresh /\ StartFail(d)
        \/ /\ \E i \in NextIndex(d) : /\ replicas' = [replicas EXCEPT ![i] = rows[d].rel]
                                      /\ fresh' = [fresh EXCEPT ![d] = @ \cup {i}]
           /\ StartFail(d) \/ Goto(d, "checking") \/ Goto(d, "bringUp")
    BY DEF BringUp, BringUpFails
  <1>6. /\ fresh'[d] \cap held[d] = {}
        /\ \A j \in Index : replicas[j] # None => replicas'[j] # None
        /\ Runs(fresh[d])'
        /\ Running' = Running \cup fresh'[d]
        /\ fresh[d] \subseteq fresh'[d]
        /\ ~StartFail(d) => fresh'[d] # {}
    <2>1. CASE replicas' = replicas /\ fresh' = fresh /\ StartFail(d)
      BY <2>1, <1>2 DEF Runs, Running, TypeOK
    <2>2. ASSUME NEW i \in NextIndex(d), replicas' = [replicas EXCEPT ![i] = rows[d].rel],
                 fresh' = [fresh EXCEPT ![d] = @ \cup {i}]
          PROVE  <1>6!:
      <3>1. i \in Index /\ i \notin held[d] /\ i \notin fresh[d]
        BY <1>4
      <3>2. fresh'[d] = fresh[d] \cup {i} /\ fresh[d] \subseteq Index
        BY <2>2 DEF TypeOK
      <3>3. replicas'[i] # None /\ \A j \in Index \ {i} : replicas'[j] = replicas[j]
        BY <2>2, <1>3, <3>1 DEF TypeOK
      <3> QED
        BY <1>2, <3>1, <3>2, <3>3 DEF Runs, Running
    <2> QED
      BY <1>5, <2>1, <2>2
  <1>7. held[d] \subseteq Index /\ fresh[d] \subseteq Index
    BY DEF TypeOK
  <1>8. NoOutage' /\ Runs(held[d])' /\ Previous(held[d])'
    BY <1>0, <1>1, <1>2, <1>6, <1>7 DEF NoOutage, Runs, Previous, Active
  <1>9. /\ Active(edge)' = Active(edge) /\ Behind(edge)' = Behind(edge)
        /\ faults # 0 => Running' = held[d] \cup fresh'[d]
    BY <1>1, <1>2, <1>6 DEF Active, Behind
  <1>10. CASE StartFail(d)
    <2>1. pc'[d] = "restoreConfig" /\ verdict'[d] = "failed"
      BY <1>2, <1>10, FailStep
    <2> QED
      BY <1>1, <1>2, <1>6, <1>8, <1>9, <2>1 DEF PoolStep, Kept, Untouched
  <1>11. CASE ~StartFail(d)
    <2>1. pc'[d] \in {"checking", "bringUp"}
      BY <1>5, <1>11, GotoFrame
    <2> QED
      BY <1>1, <1>2, <1>6, <1>8, <1>9, <1>11, <2>1 DEF PoolStep, Kept, Untouched
  <1> QED
    BY <1>10, <1>11

\* The flip: the steps that move no container and no table.
LEMMA StillFlipPools ==
    ASSUME TypeOK, SingleFailure, PoolInv, NEW d \in Deploys, Replace(d) \/ WorkerRow(d) \/ SetWatching(d) \/ WebRow(d)
    PROVE  PoolStep(d)
  <1> USE DEF EarlyPcs, GatePcs, UndoPcs, FlippedPcs, PromotePcs, RestorePcs, EndPcs, BothPools
  <1>f. \A k : Fault(k) \/ NoFault => faults' \in {faults, 0}
    BY OneFault
  <1>0. NoOutage /\ Kept(d) /\ (faults # 0 => Untouched(d))
    BY DEF PoolInv
  <1>1. Still(d)
    BY <1>f DEF Replace, WorkerRow, SetWatching, WebRow, PutRow, EnterGate, Still, store, world, rowVars
  <1> DEFINE Moves ==
        \/ pc[d] = "replace" /\ pc'[d] = "workerRow"
        \/ pc[d] = "workerRow" /\ pc'[d] = "watching"
        \/ pc[d] = "watching" /\ pc'[d] = "record"
        \/ pc[d] = "webRow" /\ pc'[d] = "drain" /\ verdict'[d] = verdict[d]
  <1>2. Moves \/ (StartFail(d) /\ pc[d] = "replace")
    BY GotoFrame DEF Replace, WorkerRow, SetWatching, WebRow, PutRow, EnterGate, At
  <1>3. CASE Moves
    BY <1>0, <1>1, <1>3, StillPools DEF PoolStep, Kept, Untouched, Still
  <1>4. CASE StartFail(d) /\ pc[d] = "replace"
    <2>1. pc'[d] = "restoreConfig" /\ verdict'[d] = "failed"
      BY <1>0, <1>4, FailStep DEF Kept
    <2>2. Active(edge) \cap fresh[d] = {}
      BY <1>0, <1>4 DEF Kept
    <2>3. faults # 0 => edge = targets /\ Behind(edge) = {} /\ Running = Active(edge) \cup fresh[d]
      BY <1>0, <1>4 DEF Kept, Untouched
    <2> QED
      BY <1>0, <1>1, <1>4, <2>1, <2>2, <2>3, StillPools DEF PoolStep, Kept, Untouched, Still
  <1> QED
    BY <1>2, <1>3, <1>4

\* What the tables a run records say.
LEMMA TableSets ==
    ASSUME NEW F \in SUBSET Index, NEW H \in SUBSET Index, F \cap H = {}
    PROVE  /\ Active(Table(F, "active", H, "draining")) = F /\ Behind(Table(F, "active", H, "draining")) = H
           /\ Active(Table(F, "active", H, "held")) = F /\ Behind(Table(F, "active", H, "held")) = H
           /\ Active(Table(F, "draining", H, "active")) = H /\ Behind(Table(F, "draining", H, "active")) = F
           /\ Active(Table(F, "active", {}, "none")) = F /\ Behind(Table(F, "active", {}, "none")) = {}
           /\ Active(Table({}, "none", H, "active")) = H /\ Behind(Table({}, "none", H, "active")) = {}
  BY DEF Active, Behind, Table

\* Recording a table moves nothing but the table.
LEMMA RecordPools ==
    ASSUME TypeOK, SingleFailure, NEW d \in Deploys, NEW t, NEW next, NEW bad, Record(d, t, next, bad)
    PROVE  /\ \/ targets' = t /\ pc'[d] = next /\ faults' = faults
              \/ targets' = targets /\ pc'[d] = bad /\ faults # 0 /\ faults' = 0
           /\ edge' = edge /\ replicas' = replicas /\ envRelease' = envRelease
           /\ fresh' = fresh /\ held' = held /\ pushed' = pushed
           /\ Active(edge)' = Active(edge) /\ Behind(edge)' = Behind(edge) /\ Running' = Running
           /\ NoOutage' <=> NoOutage
           /\ Runs(fresh[d])' <=> Runs(fresh[d])
           /\ Runs(held[d])' <=> Runs(held[d])
           /\ Previous(held[d])' <=> Previous(held[d])
  <1>1. \/ targets' = t /\ pc'[d] = next /\ faults' = faults
        \/ targets' = targets /\ pc'[d] = bad /\ faults # 0 /\ faults' = 0
    BY OneFault, GotoFrame DEF Record
  <1>2. /\ edge' = edge /\ replicas' = replicas /\ envRelease' = envRelease
        /\ fresh' = fresh /\ held' = held /\ pushed' = pushed
    BY DEF Record, world, rowVars
  <1> QED
    BY <1>1, <1>2 DEF Active, Behind, Running, NoOutage, Runs, Previous

\* Pushing it moves nothing but the edge's copy.
LEMMA PushPools ==
    ASSUME TypeOK, SingleFailure, NEW d \in Deploys, NEW next, NEW bad, PushTable(d, next, bad)
    PROVE  /\ \/ edge' = targets /\ pc'[d] = next /\ faults' = faults
              \/ edge' \in {edge, targets} /\ pc'[d] = bad /\ faults # 0 /\ faults' = 0
           /\ targets' = targets /\ replicas' = replicas /\ envRelease' = envRelease
           /\ fresh' = fresh /\ held' = held
           /\ Active(targets)' = Active(targets) /\ Behind(targets)' = Behind(targets) /\ Running' = Running
           /\ Runs(fresh[d])' <=> Runs(fresh[d])
           /\ Runs(held[d])' <=> Runs(held[d])
           /\ Previous(held[d])' <=> Previous(held[d])
  <1>1. \/ edge' = targets /\ pc'[d] = next /\ faults' = faults
        \/ edge' \in {edge, targets} /\ pc'[d] = bad /\ faults # 0 /\ faults' = 0
    BY OneFault, GotoFrame DEF PushTable
  <1>2. /\ targets' = targets /\ replicas' = replicas /\ envRelease' = envRelease
        /\ fresh' = fresh /\ held' = held
    BY DEF PushTable, store
  <1> QED
    BY <1>1, <1>2 DEF Active, Behind, Running, Runs, Previous

\* A pool that runs can serve.
LEMMA PoolServes ==
    ASSUME Runs(Active(edge)), Previous(Active(edge))
    PROVE  NoOutage
  BY DEF Runs, Previous, NoOutage

\* The flip is recorded, then pushed.
LEMMA FlipTablePools ==
    ASSUME TypeOK, SingleFailure, PoolInv, NEW d \in Deploys,
           RecordFlip(d) \/ Push(d) \/ Hold(d) \/ HoldPush(d)
    PROVE  PoolStep(d)
  <1> USE DEF EarlyPcs, GatePcs, UndoPcs, FlippedPcs, PromotePcs, RestorePcs, EndPcs, BothPools
  <1>0. NoOutage /\ Kept(d) /\ (faults # 0 => Untouched(d))
    BY DEF PoolInv
  <1>t. fresh[d] \in SUBSET Index /\ held[d] \in SUBSET Index
    BY DEF TypeOK
  <1>1. CASE RecordFlip(d)
    <2> DEFINE t == Table(fresh[d], "active", held[d], "draining")
    <2>1. pc[d] = "record" /\ Record(d, t, "push", "unrecord")
      BY <1>1 DEF RecordFlip, At
    <2>2. fresh[d] \cap held[d] = {}
      BY <1>0, <2>1 DEF Kept
    <2>3. Active(t) = fresh[d] /\ Behind(t) = held[d]
      BY <1>t, <2>2, TableSets
    <2> HIDE DEF t
    <2>4. targets' = t => Active(targets)' = fresh[d] /\ Behind(targets)' = held[d]
      BY <2>3 DEF Active, Behind
    <2> QED
      BY <1>0, <2>1, <2>4, RecordPools DEF PoolStep, Kept, Untouched
  <1>2. CASE Push(d)
    <2>1. pc[d] = "push" /\ PushTable(d, "webRow", "unrecord")
      BY <1>2 DEF Push, At
    <2>2. /\ fresh[d] \cap held[d] = {} /\ Runs(fresh[d]) /\ Runs(held[d]) /\ Previous(held[d]) /\ fresh[d] # {}
          /\ Active(edge) \subseteq held[d] /\ Active(targets) = fresh[d] /\ Behind(targets) = held[d]
          /\ d \notin pushed
          /\ faults # 0 => Running = held[d] \cup fresh[d]
      BY <1>0, <2>1 DEF Kept, Untouched
    <2>3. \/ Active(edge)' = Active(edge) /\ edge' = edge
          \/ Active(edge)' = Active(targets) /\ edge' = targets
      BY <2>1, PushPools DEF Active
    <2>4. NoOutage'
      BY <1>0, <2>1, <2>2, <2>3, PushPools DEF NoOutage, Runs
    <2>5. pc'[d] = "unrecord" => d \notin pushed'
      BY <1>2, <2>2 DEF Push
    <2> QED
      BY <2>1, <2>2, <2>3, <2>4, <2>5, PushPools DEF PoolStep, Kept, Untouched
  <1>3. CASE Hold(d) /\ held[d] # {}
    <2> DEFINE t == Table(fresh[d], "active", held[d], "held")
    <2>1. pc[d] = "drain" /\ Record(d, t, "holdPush", "watch")
      BY <1>3 DEF Hold, At
    <2>2. fresh[d] \cap held[d] = {}
      BY <1>0, <2>1 DEF Kept
    <2>3. Active(t) = fresh[d] /\ Behind(t) = held[d]
      BY <1>t, <2>2, TableSets
    <2> HIDE DEF t
    <2>4. targets' = t => Active(targets)' = fresh[d] /\ Behind(targets)' = held[d]
      BY <2>3 DEF Active, Behind
    <2> QED
      BY <1>0, <2>1, <2>4, RecordPools DEF PoolStep, Kept, Untouched
  <1>4. CASE Hold(d) /\ held[d] = {}
    <2>1. pc[d] = "drain" /\ pc'[d] = "watch" /\ Still(d)
      BY <1>4, GotoFrame DEF Hold, At, Still, NoFault, store, world
    <2> QED
      BY <1>0, <2>1, StillPools DEF PoolStep, Kept, Untouched, Still
  <1>5. CASE HoldPush(d)
    <2>1. pc[d] = "holdPush" /\ PushTable(d, "watch", "watch") /\ pushed' = pushed
      BY <1>5 DEF HoldPush, At
    <2>2. Active(edge) = fresh[d] /\ Active(targets) = fresh[d]
      BY <1>0, <2>1 DEF Kept
    <2>3. Active(edge)' = fresh[d] /\ (faults' # 0 => edge' = targets)
      BY <2>1, <2>2, PushPools DEF Active
    <2>4. NoOutage'
      BY <1>0, <2>1, <2>2, <2>3, PushPools DEF NoOutage
    <2> QED
      BY <1>0, <2>1, <2>2, <2>3, <2>4, PushPools DEF PoolStep, Kept, Untouched
  <1> QED
    BY <1>1, <1>2, <1>3, <1>4, <1>5

\* failFlip: nothing more fails, so the edge is back on the old pool before
\* the new one is removed.
LEMMA UndoPools ==
    ASSUME TypeOK, SingleFailure, PoolInv, NEW d \in Deploys, Unrecord(d) \/ Unpush(d)
    PROVE  PoolStep(d)
  <1> USE DEF EarlyPcs, GatePcs, UndoPcs, FlippedPcs, PromotePcs, RestorePcs, EndPcs, BothPools
  <1>0. NoOutage /\ Kept(d)
    BY DEF PoolInv
  <1>t. fresh[d] \in SUBSET Index /\ held[d] \in SUBSET Index
    BY DEF TypeOK
  <1>1. pc[d] \in UndoPcs /\ faults = 0
    BY <1>0 DEF Unrecord, Unpush, At, Kept
  <1>2. /\ fresh[d] \cap held[d] = {} /\ Runs(fresh[d]) /\ Runs(held[d]) /\ Previous(held[d]) /\ fresh[d] # {}
        /\ Active(edge) \subseteq held[d] \/ Active(edge) = fresh[d]
        /\ d \notin pushed
    BY <1>0, <1>1 DEF Kept
  <1>3. CASE Unrecord(d)
    <2> DEFINE t == Table({}, "none", held[d], "active")
    <2>1. Record(d, t, "unpush", "unpush")
      BY <1>3 DEF Unrecord
    <2>2. Active(t) = held[d]
      BY <1>t, <1>2, TableSets
    <2> HIDE DEF t
    <2>3. Active(targets)' = held[d]
      BY <1>1, <2>1, <2>2, RecordPools DEF Active
    <2> QED
      BY <1>0, <1>1, <1>2, <2>1, <2>3, RecordPools DEF PoolStep, Kept
  <1>4. CASE Unpush(d)
    <2>1. edge' = targets /\ faults' = 0
      BY <1>1, <1>4, OneFault DEF Unpush
    <2>2. /\ targets' = targets /\ replicas' = replicas /\ envRelease' = envRelease
          /\ fresh' = fresh /\ held' = held /\ pushed' = pushed
      BY <1>4 DEF Unpush, store
    <2>3. pc'[d] = "restoreConfig" /\ verdict'[d] = "failed"
      BY <1>2, <1>4, FailStep DEF Unpush
    <2>4. Active(edge)' = held[d]
      BY <1>0, <1>4, <2>1 DEF Kept, Unpush, At, Active
    <2>5. NoOutage'
      BY <1>2, <2>2, <2>4 DEF NoOutage, Runs, Previous
    <2> QED
      BY <1>2, <2>1, <2>2, <2>3, <2>4, <2>5 DEF PoolStep, Kept
  <1> QED
    BY <1>3, <1>4

\* The watch decides, and moves nothing.
LEMMA WatchPools ==
    ASSUME TypeOK, SingleFailure, PoolInv, NEW d \in Deploys, Watch(d)
    PROVE  PoolStep(d)
  <1> USE DEF EarlyPcs, GatePcs, UndoPcs, FlippedPcs, PromotePcs, RestorePcs, EndPcs, BothPools
  <1>0. NoOutage /\ Kept(d) /\ (faults # 0 => Untouched(d))
    BY DEF PoolInv
  <1>1. Still(d)
    BY DEF Watch, TakeLock, WatchFails, WindowOver, PromotedByHand, RolledBackByHand, Leave, Still, NoFault,
           store, world
  <1>2. ASSUME NEW step, NEW status, Leave(d, step, status)
        PROVE  pc'[d] = step /\ verdict'[d] = status
    BY <1>2, GotoFrame DEF Leave, TypeOK
  <1>3. /\ pc[d] \in {"lockWait", "watch", "await"}
        /\ pc'[d] \in {"watch", "await", "stopHeld", "rbRecord"}
        /\ pc'[d] = "rbRecord" => verdict'[d] = "rolled_back"
    BY <1>2, GotoFrame DEF Watch, TakeLock, WatchFails, WindowOver, PromotedByHand, RolledBackByHand, Watched, At
  <1> QED
    BY <1>0, <1>1, <1>3, StillPools DEF PoolStep, Kept, Untouched, Still

\* Stopping a pool takes that pool and nothing else.
LEMMA StopPools ==
    ASSUME TypeOK, SingleFailure, NEW pool \in SUBSET Index, NEW bad \in SUBSET pool, StopPool(pool, bad)
    PROVE  /\ \A i \in Index \ pool : replicas'[i] = replicas[i]
           /\ faults' \in {faults, 0}
           /\ faults' # 0 => bad = {} /\ Running' = Running \ pool
  <1>1. faults' \in {faults, 0} /\ (bad # {} => faults' = 0)
    BY OneFault DEF StopPool
  <1>2. \A i \in Index \ pool : replicas'[i] = replicas[i]
    BY DEF StopPool
  <1>3. bad = {} => Running' = Running \ pool
    BY DEF StopPool, Running, Fault
  <1> QED
    BY <1>1, <1>2, <1>3

\* promote stops the pool the edge does not use, and then forgets it.
LEMMA PromotePools ==
    ASSUME TypeOK, SingleFailure, PoolInv, NEW d \in Deploys, Promote(d)
    PROVE  PoolStep(d)
  <1> USE DEF EarlyPcs, GatePcs, UndoPcs, FlippedPcs, PromotePcs, RestorePcs, EndPcs, BothPools
  <1>f. \A k : Fault(k) \/ NoFault => faults' \in {faults, 0}
    BY OneFault
  <1>0. NoOutage /\ Kept(d) /\ (faults # 0 => Untouched(d))
    BY DEF PoolInv
  <1>t. fresh[d] \in SUBSET Index /\ held[d] \in SUBSET Index
    BY DEF TypeOK
  <1>1. CASE StopHeld(d)
    <2>1. /\ pc[d] = "stopHeld" /\ held'[d] = {} /\ fresh' = fresh /\ pushed' = pushed
          /\ edge' = edge /\ targets' = targets /\ envRelease' = envRelease
      BY <1>1 DEF StopHeld, At, TypeOK, store
    <2>2. PICK bad \in SUBSET held[d] :
             /\ StopPool(held[d], bad)
             /\ Goto(d, IF held[d] \ bad # {} THEN "promoteRecord" ELSE "setRelease")
      BY <1>1 DEF StopHeld
    <2>3. pc'[d] = IF held[d] \ bad # {} THEN "promoteRecord" ELSE "setRelease"
      BY <2>2, GotoFrame
    <2>4. /\ \A i \in Index \ held[d] : replicas'[i] = replicas[i]
          /\ faults' \in {faults, 0}
          /\ faults' # 0 => bad = {} /\ Running' = Running \ held[d]
      BY <1>t, <2>2, StopPools
    <2>5. Active(edge) = fresh[d] /\ fresh[d] \cap held[d] = {} /\ fresh[d] # {}
      BY <1>0, <2>1 DEF Kept
    <2>6. NoOutage' /\ Active(edge)' = Active(edge) /\ Behind(edge)' = Behind(edge)
      BY <1>0, <1>t, <2>1, <2>4, <2>5 DEF NoOutage, Active, Behind
    <2>7. faults' # 0 => /\ Running' = fresh[d] /\ edge = targets /\ Behind(targets) = held[d]
      BY <1>0, <2>1, <2>4, <2>5 DEF Untouched
    <2> QED
      BY <2>1, <2>3, <2>4, <2>5, <2>6, <2>7 DEF PoolStep, Kept, Untouched, Clean
  <1>2. CASE PromoteRecord(d)
    <2> DEFINE t == Table(fresh[d], "active", {}, "none")
    <2>1. pc[d] = "promoteRecord" /\ Record(d, t, "promotePush", "setRelease")
      BY <1>2 DEF PromoteRecord, At
    <2>2. Active(t) = fresh[d] /\ Behind(t) = {}
      BY <1>t, TableSets
    <2> HIDE DEF t
    <2>4. targets' = t => Active(targets)' = fresh[d] /\ Behind(targets)' = {}
      BY <2>2 DEF Active, Behind
    <2> QED
      BY <1>0, <2>1, <2>4, RecordPools DEF PoolStep, Kept, Untouched
  <1>3. CASE PromotePush(d)
    <2>1. pc[d] = "promotePush" /\ PushTable(d, "setRelease", "setRelease") /\ pushed' = pushed
      BY <1>3 DEF PromotePush, At
    <2>2. /\ Active(edge) = fresh[d] /\ Active(targets) = fresh[d]
          /\ faults # 0 => Running = fresh[d] /\ Behind(targets) = {}
      BY <1>0, <2>1 DEF Kept, Untouched
    <2>3. Active(edge)' = fresh[d] /\ (faults' # 0 => edge' = targets /\ Behind(edge)' = Behind(targets))
      BY <2>1, <2>2, PushPools DEF Active, Behind
    <2>4. NoOutage'
      BY <1>0, <2>1, <2>2, <2>3, PushPools DEF NoOutage
    <2> QED
      BY <1>0, <2>1, <2>2, <2>3, <2>4, PushPools DEF PoolStep, Kept, Untouched, Clean
  <1>4. CASE SetRelease(d) \/ Commit(d)
    <2>1. /\ edge' = edge /\ targets' = targets /\ replicas' = replicas
          /\ fresh' = fresh /\ held' = held /\ pushed' = pushed /\ faults' \in {faults, 0}
      BY <1>f, <1>4 DEF SetRelease, Commit, world
    <2>2. /\ Active(edge)' = Active(edge) /\ Behind(edge)' = Behind(edge)
          /\ Running' = Running /\ (Clean' <=> Clean)
      BY <2>1 DEF Active, Behind, Running, Clean
    <2>3. \/ pc[d] = "setRelease" /\ pc'[d] = "commit"
          \/ pc[d] = "commit" /\ pc'[d] = "finish"
      BY <1>4, GotoFrame DEF SetRelease, Commit, At
    <2>4. Active(edge) = fresh[d] /\ fresh[d] # {} /\ (faults # 0 => Clean)
      BY <1>0, <2>3 DEF Kept, Untouched
    <2>5. NoOutage'
      BY <1>0, <2>1, <2>2, <2>4 DEF NoOutage
    <2> QED
      BY <2>1, <2>2, <2>3, <2>4, <2>5 DEF PoolStep, Kept, Untouched
  <1> QED
    BY <1>1, <1>2, <1>3, <1>4 DEF Promote

\* rollback puts the edge back first and removes the new pool afterwards; a
\* failed deploy removes a pool the edge does not use.
LEMMA RollbackPools ==
    ASSUME TypeOK, SingleFailure, PoolInv, NEW d \in Deploys, Rollback(d)
    PROVE  PoolStep(d)
  <1> USE DEF EarlyPcs, GatePcs, UndoPcs, FlippedPcs, PromotePcs, RestorePcs, EndPcs, BothPools
  <1>f. \A k : Fault(k) \/ NoFault => faults' \in {faults, 0}
    BY OneFault
  <1>0. NoOutage /\ Kept(d) /\ (faults # 0 => Untouched(d))
    BY DEF PoolInv
  <1>t. fresh[d] \in SUBSET Index /\ held[d] \in SUBSET Index
    BY DEF TypeOK
  <1>v. ASSUME RollbackFailed(d, "finish"), pc'[d] # "finish" PROVE verdict'[d] = verdict[d]
    BY <1>v DEF RollbackFailed, TypeOK
  <1>1. CASE RbRecord(d)
    <2> DEFINE t == Table(fresh[d], "draining", held[d], "active")
    <2>1. pc[d] = "rbRecord" /\ Record(d, t, "rbPush", "finish") /\ RollbackFailed(d, "finish")
      BY <1>1 DEF RbRecord, At
    <2>2. fresh[d] \cap held[d] = {}
      BY <1>0, <2>1 DEF Kept
    <2>3. Active(t) = held[d]
      BY <1>t, <2>2, TableSets
    <2> HIDE DEF t
    <2>4. targets' = t => Active(targets)' = held[d]
      BY <2>3 DEF Active
    <2> QED
      BY <1>0, <1>v, <2>1, <2>4, RecordPools DEF PoolStep, Kept, Untouched
  <1>2. CASE RbPush(d)
    <2>1. pc[d] = "rbPush" /\ PushTable(d, "removeFresh", "finish") /\ RollbackFailed(d, "finish") /\ pushed' = pushed
      BY <1>2 DEF RbPush, At
    <2>2. /\ fresh[d] \cap held[d] = {} /\ Runs(fresh[d]) /\ Runs(held[d]) /\ Previous(held[d])
          /\ Active(edge) = fresh[d] /\ Active(targets) = held[d] /\ verdict[d] = "rolled_back"
          /\ faults # 0 => Running = fresh[d] \cup held[d]
      BY <1>0, <2>1 DEF Kept, Untouched
    <2>3. Active(edge)' = Active(targets) \/ (pc'[d] = "finish" /\ Active(edge)' = Active(edge))
      BY <2>1, PushPools DEF Active
    <2>4. NoOutage'
      BY <1>0, <2>1, <2>2, <2>3, PushPools DEF NoOutage, Runs, Previous
    <2>5. pc'[d] # "finish" => verdict'[d] = "rolled_back"
      BY <1>v, <2>1, <2>2
    <2> QED
      BY <2>1, <2>2, <2>3, <2>4, <2>5, PushPools DEF PoolStep, Kept, Untouched
  <1>3. CASE RemoveFresh(d)
    <2>1. /\ pc[d] = "removeFresh" /\ pushed' = pushed /\ verdict' = verdict
          /\ edge' = edge /\ targets' = targets /\ envRelease' = envRelease
      BY <1>3 DEF RemoveFresh, At, store
    <2>2. PICK bad \in SUBSET fresh[d] : StopPool(fresh[d], bad)
      BY <1>3 DEF RemoveFresh
    <2>4. /\ \A i \in Index \ fresh[d] : replicas'[i] = replicas[i]
          /\ faults' \in {faults, 0}
          /\ faults' # 0 => Running' = Running \ fresh[d]
      BY <1>t, <2>2, StopPools
    <2>5. Active(edge) \cap fresh[d] = {}
      BY <1>0, <2>1 DEF Kept
    <2>6. NoOutage' /\ Active(edge)' = Active(edge) /\ Behind(edge)' = Behind(edge)
      BY <1>0, <1>t, <2>1, <2>4, <2>5 DEF NoOutage, Active, Behind
    <2>7. CASE verdict[d] = "rolled_back"
      <3>1. fresh'[d] = held[d] /\ held'[d] = {} /\ pc'[d] = "rbRecord2"
        BY <1>3, <2>7, GotoFrame DEF RemoveFresh, TypeOK
      <3>2. Active(edge) = held[d] /\ fresh[d] \cap held[d] = {}
        BY <1>0, <2>1, <2>7 DEF Kept
      <3>3. faults' # 0 => Running' = held[d]
        BY <1>0, <2>1, <2>4, <2>7, <3>2 DEF Untouched
      <3> QED
        BY <2>1, <2>4, <2>6, <2>7, <3>1, <3>2, <3>3 DEF PoolStep, Kept, Untouched
    <2>8. CASE verdict[d] # "rolled_back"
      <3>1. fresh'[d] = {} /\ held' = held /\ pc'[d] = "finish"
        BY <1>3, <2>8, GotoFrame DEF RemoveFresh, TypeOK
      <3>2. faults' # 0 => edge = targets /\ Behind(edge) = {} /\ Running' = Active(edge)
        BY <1>0, <2>1, <2>4, <2>5, <2>8 DEF Untouched
      <3> QED
        BY <2>1, <2>4, <2>6, <2>8, <3>1, <3>2 DEF PoolStep, Kept, Untouched, Clean
    <2> QED
      BY <2>7, <2>8
  <1>4. CASE RbRecord2(d)
    <2> DEFINE t == Table(fresh[d], "active", {}, "none")
    <2>1. pc[d] = "rbRecord2" /\ Record(d, t, "rbPush2", "restoreConfig") /\ verdict' = verdict
      BY <1>4 DEF RbRecord2, At
    <2>2. Active(t) = fresh[d] /\ Behind(t) = {}
      BY <1>t, TableSets
    <2> HIDE DEF t
    <2>4. targets' = t => Active(targets)' = fresh[d] /\ Behind(targets)' = {}
      BY <2>2 DEF Active, Behind
    <2> QED
      BY <1>0, <2>1, <2>4, RecordPools DEF PoolStep, Kept, Untouched
  <1>5. CASE RbPush2(d)
    <2>1. /\ pc[d] = "rbPush2" /\ PushTable(d, "restoreConfig", "restoreConfig")
          /\ pushed' = pushed /\ verdict' = verdict
      BY <1>5 DEF RbPush2, At
    <2>2. /\ Active(edge) = fresh[d] /\ Active(targets) = fresh[d] /\ verdict[d] = "rolled_back"
          /\ faults # 0 => Running = fresh[d] /\ Behind(targets) = {}
      BY <1>0, <2>1 DEF Kept, Untouched
    <2>3. Active(edge)' = fresh[d] /\ (faults' # 0 => edge' = targets /\ Behind(edge)' = Behind(targets))
      BY <2>1, <2>2, PushPools DEF Active, Behind
    <2>4. NoOutage'
      BY <1>0, <2>1, <2>2, <2>3, PushPools DEF NoOutage
    <2> QED
      BY <1>0, <2>1, <2>2, <2>3, <2>4, PushPools DEF PoolStep, Kept, Untouched, Clean
  <1>6. CASE RestoreConfig(d) \/ RestoreWeb(d) \/ RestoreWorker(d) \/ RbClear(d)
    <2>0. faults' \in {faults, 0}
      BY <1>f, <1>6 DEF RestoreConfig, RestoreWeb, RestoreWorker, RbClear
    <2>1. Still(d) /\ verdict' = verdict
      BY <2>0, <1>6 DEF RestoreConfig, RestoreWeb, RestoreWorker, RbClear, Still, world
    <2>2. \/ pc[d] \in RestorePcs /\ pc'[d] \in RestorePcs
          \/ pc[d] \in RestorePcs /\ pc'[d] = "rbClear" /\ verdict[d] = "rolled_back"
          \/ pc[d] \in RestorePcs /\ pc'[d] = "removeFresh" /\ verdict[d] # "rolled_back"
          \/ pc[d] = "rbClear" /\ pc'[d] = "finish"
      BY <1>6, GotoFrame DEF RestoreConfig, RestoreWeb, RestoreWorker, RbClear, AfterRestore, At
    <2> QED
      BY <1>0, <2>1, <2>2, StillPools DEF PoolStep, Kept, Untouched, Still
  <1> QED
    BY <1>1, <1>2, <1>3, <1>4, <1>5, <1>6 DEF Rollback

\* finish leaves the pools alone; the run that ends forgets them.
LEMMA EndPools ==
    ASSUME TypeOK, SingleFailure, PoolInv, NEW d \in Deploys, Finish(d) \/ Clear(d)
    PROVE  PoolStep(d)
  <1> USE DEF EarlyPcs, GatePcs, UndoPcs, FlippedPcs, PromotePcs, RestorePcs, EndPcs, BothPools
  <1>f. \A k : Fault(k) \/ NoFault => faults' \in {faults, 0}
    BY OneFault
  <1>0. NoOutage /\ Kept(d) /\ (faults # 0 => Untouched(d))
    BY DEF PoolInv
  <1>1. CASE Finish(d)
    <2>1. Still(d) /\ verdict' = verdict /\ pc[d] = "finish" /\ pc'[d] = "clear"
      BY <1>f, <1>1, GotoFrame DEF Finish, Still, At, rowVars, world
    <2> QED
      BY <1>0, <2>1, StillPools DEF PoolStep, Kept, Untouched, Still
  <1>2. CASE Clear(d)
    <2>1. /\ edge' = edge /\ targets' = targets /\ replicas' = replicas /\ envRelease' = envRelease
          /\ faults' \in {faults, 0} /\ pc[d] = "clear" /\ pc'[d] = "idle"
      BY <1>f, <1>2, GotoFrame DEF Clear, At, world
    <2>2. fresh'[d] = {} /\ held'[d] = {} /\ d \notin pushed'
      BY <1>2 DEF Clear, Forget, TypeOK
    <2>3. NoOutage' /\ (Clean' <=> Clean)
      BY <1>0, <2>1 DEF NoOutage, Clean, Active, Behind, Running
    <2> QED
      BY <1>0, <2>1, <2>2, <2>3 DEF PoolStep, Kept, Untouched
  <1> QED
    BY <1>1, <1>2

\* Every step of a run keeps the pools.
LEMMA RunStepPools ==
    ASSUME TypeOK, SingleFailure, ControlInv, PoolInv, NEW d \in Deploys, RunStep(d)
    PROVE  PoolInv'
  <1>1. Pointer(d) /\ Kept(d)
    BY DEF ControlInv, PoolInv
  <1>2. CASE Gate(d)
    BY <1>1, <1>2, StillGatePools, StartPools, BringUpPools, RunStepControl, RunStepFrame, RunPoolFrame, RunPools
  <1>3. CASE Flip(d)
    <2>1. PoolStep(d)
      BY <1>3, StillFlipPools, FlipTablePools, UndoPools DEF Flip
    <2> QED
      BY <1>1, <2>1, RunStepControl, RunStepFrame, RunPoolFrame, RunPools
  <1>4. CASE Watch(d) \/ Promote(d) \/ Rollback(d) \/ Finish(d) \/ Clear(d)
    <2>1. PoolStep(d)
      BY <1>4, WatchPools, PromotePools, RollbackPools, EndPools
    <2> QED
      BY <1>1, <2>1, RunStepControl, RunStepFrame, RunPoolFrame, RunPools
  <1> QED
    BY <1>2, <1>3, <1>4 DEF RunStep

-----------------------------------------------------------------------------
(* The pools and the steps that are not a run's. *)

\* A deploy without a run knows nothing but that it has no pools.
NoPools(d) == fresh[d] = {} /\ held[d] = {} /\ d \notin pushed

LEMMA IdleKept ==
    ASSUME NEW d \in Deploys, pc[d] = "idle"
    PROVE  (Kept(d) <=> NoPools(d)) /\ Untouched(d)
  BY DEF Kept, Untouched, NoPools, EarlyPcs, GatePcs, UndoPcs, BothPools, FlippedPcs, PromotePcs, RestorePcs, EndPcs

\* A deploy begins where nothing has failed, or with what is left of it.
LEMMA BeginPools ==
    ASSUME TypeOK, MutualExclusion, ControlInv, PoolInv, NEW d \in Deploys, NEW kind, Begin(d, kind)
    PROVE  PoolInv'
  <1>1. AllIdle
    BY BeginAlone
  <1>2. /\ edge' = edge /\ targets' = targets /\ replicas' = replicas /\ envRelease' = envRelease
        /\ fresh' = fresh /\ held' = held /\ pushed' = pushed /\ faults' = faults
        /\ up' /\ todo' = {} /\ envDeploy' = envDeploy /\ ~InFlight
    BY DEF Begin, Serving, NoFault, rowVars, world
  <1>3. pc'[d] = "register" /\ \A e \in Deploys \ {d} : pc'[e] = pc[e]
    BY GotoFrame DEF Begin
  <1>4. \A e \in Deploys \ {d} : rows'[e] = rows[e]
    BY DEF Begin, TypeOK
  <1>5. NoOutage' /\ (Clean' <=> Clean)
    BY <1>2 DEF PoolInv, NoOutage, Clean, Active, Behind, Running
  <1>6. \A e \in Deploys : NoPools(e)'
    BY <1>1, <1>2, IdleKept DEF PoolInv, AllIdle, NoPools
  <1>7. Kept(d)'
    BY <1>3, <1>6 DEF Kept, NoPools, EarlyPcs, GatePcs, UndoPcs, BothPools, FlippedPcs, PromotePcs, RestorePcs, EndPcs
  <1>8. faults' # 0 => Untouched(d)'
    BY <1>1, <1>2, <1>3, <1>5 DEF PoolInv, AllIdle, Untouched, EarlyPcs, GatePcs, FlippedPcs, RestorePcs, EndPcs
  <1>9. ASSUME NEW e \in Deploys \ {d} PROVE Kept(e)' /\ Untouched(e)'
    BY <1>1, <1>3, <1>6 DEF AllIdle, Kept, Untouched, NoPools, EarlyPcs, GatePcs, UndoPcs, BothPools, FlippedPcs,
                            PromotePcs, RestorePcs, EndPcs
  <1>10. ASSUME NEW e \in Deploys PROVE Resumable(e)'
    <2> SUFFICES ASSUME rows'[e].status = "watching", pc'[e] = "idle", envDeploy' = e PROVE FALSE
      BY <1>2 DEF Resumable, Adoptable, Resuming
    <2> QED
      BY <1>2, <1>3, <1>4, ZeroIsNoDeploy DEF InFlight, Done, Finished
  <1> QED
    BY <1>2, <1>3, <1>5, <1>7, <1>8, <1>9, <1>10 DEF PoolInv, Restartable, Resuming

\* Draining or held, a target is not active.
LEMMA NormalisedSets ==
    ASSUME TypeOK
    PROVE  Active(Normalised) = Active(targets) /\ Behind(Normalised) = Behind(targets)
  BY DEF Active, Behind, Normalised, TypeOK

\* Nothing more fails once a daemon died: what it left is pushed again and
\* taken over.
LEMMA TakeOverPools ==
    ASSUME TypeOK, SingleFailure, PoolInv, AllIdle, NEW d \in Deploys, TakeOver(d),
           rows[d].status = "watching", Resuming \/ Adoptable(d), up,
           up', todo' = {}, envDeploy' = d, replicas' = replicas, envRelease' = envRelease, pushed' = pushed
    PROVE  PoolInv'
  <1> USE DEF EarlyPcs, GatePcs, UndoPcs, BothPools, FlippedPcs, PromotePcs, RestorePcs, EndPcs
  <1>1. /\ faults = 0
        /\ Runs(Active(targets)) /\ Active(targets) # {}
        /\ Runs(Behind(targets)) /\ Previous(Behind(targets))
        /\ Active(edge) = Active(targets)
    BY DEF PoolInv, Resumable, AllIdle
  <1>2. targets' = Normalised /\ edge' \in {edge, Normalised} /\ faults' = 0
    BY <1>1, OneFault DEF TakeOver, RepushFails, RepushNormalised
  <1>3. /\ fresh'[d] = Active(targets) /\ held'[d] = Behind(targets)
        /\ \A e \in Deploys \ {d} : fresh'[e] = fresh[e] /\ held'[e] = held[e]
    BY DEF TakeOver, TypeOK
  <1>4. pc'[d] = "lockWait" /\ \A e \in Deploys \ {d} : pc'[e] = "idle"
    BY GotoFrame DEF TakeOver, AllIdle
  <1>5. Active(edge)' = Active(targets)
    BY <1>1, <1>2, NormalisedSets DEF Active
  <1>6. fresh'[d] \cap held'[d] = {}
    BY <1>3 DEF Active, Behind
  <1>7. Runs(fresh[d])' /\ Runs(held[d])' /\ Previous(held[d])' /\ NoOutage'
    BY <1>1, <1>3, <1>5 DEF Runs, Previous, NoOutage
  <1>8. Kept(d)'
    BY <1>1, <1>3, <1>4, <1>5, <1>6, <1>7 DEF Kept
  <1>9. ASSUME NEW e \in Deploys \ {d} PROVE Kept(e)'
    <2>1. NoPools(e)
      BY <1>9, IdleKept DEF PoolInv, AllIdle
    <2> QED
      BY <1>3, <1>4, <1>9, <2>1 DEF Kept, NoPools
  <1>10. \A e \in Deploys : Resumable(e)'
    BY <1>4 DEF Resumable, Adoptable, Resuming
  <1> QED
    BY <1>2, <1>7, <1>8, <1>9, <1>10 DEF PoolInv, Restartable, Resuming

\* The commands keep the pools.
LEMMA CommandPools ==
    ASSUME TypeOK, SingleFailure, MutualExclusion, ControlInv, PoolInv, NEW d \in Deploys, Command(d)
    PROVE  PoolInv'
  <1>1. CASE Begin(d, "deploy") \/ Begin(d, "rollback")
    BY <1>1, BeginPools
  <1>2. CASE SignalPromote(d) \/ SignalRollback(d)
    <2>1. /\ edge' = edge /\ targets' = targets /\ replicas' = replicas /\ envRelease' = envRelease
          /\ fresh' = fresh /\ held' = held /\ pushed' = pushed /\ verdict' = verdict /\ pc' = pc
          /\ faults' = faults /\ rows' = rows /\ envDeploy' = envDeploy /\ watches' = watches
          /\ up' = up /\ todo' = todo
      BY <1>2 DEF SignalPromote, SignalRollback, NoFault, store, world, run
    <2> QED
      BY <2>1 DEF PoolInv, NoOutage, Restartable, Resuming, Resumable, Adoptable, Kept, Untouched, Clean, Runs,
                  Previous, Active, Behind, Running
  <1>3. CASE Adopt(d)
    <2>1. /\ AllIdle /\ TakeOver(d) /\ Adoptable(d) /\ rows[d].status = "watching"
          /\ up /\ up' /\ todo' = {} /\ envDeploy' = d
          /\ replicas' = replicas /\ envRelease' = envRelease /\ pushed' = pushed
      BY <1>3, AdoptAlone DEF Adopt, Adoptable, Serving, rowVars
    <2> QED
      BY <2>1, TakeOverPools
  <1> QED
    BY <1>1, <1>2, <1>3 DEF Command

\* The resumption keeps the pools: the containers it removes are in no table.
LEMMA ResumePools ==
    ASSUME TypeOK, SingleFailure, ControlInv, PoolInv, NEW d \in Deploys, Resume(d)
    PROVE  PoolInv'
  <1>0. up /\ d \in todo /\ up' /\ todo' = todo \ {d} /\ Resuming
    BY DEF Resume, ResumeWatch, ResumeEnd, ResumeFails, Resuming
  <1>1. /\ AllIdle /\ faults = 0 /\ todo' = {} /\ ~Resuming'
        /\ rows[d].status = "watching" => envDeploy = d
    BY <1>0, ResumeAlone DEF Resuming
  <1>2. CASE ResumeWatch(d)
    <2>1. /\ TakeOver(d) /\ rows[d].status = "watching" /\ envDeploy' = d
          /\ replicas' = replicas /\ envRelease' = envRelease /\ pushed' = pushed
      BY <1>1, <1>2 DEF ResumeWatch, rowVars
    <2> QED
      BY <1>0, <1>1, <2>1, TakeOverPools
  <1>3. CASE ResumeEnd(d) \/ ResumeFails(d)
    <2>1. pc' = pc /\ fresh' = fresh /\ held' = held /\ pushed' = pushed /\ envRelease' = envRelease
      BY <1>3 DEF ResumeEnd, ResumeFails, run, store
    <2>2. /\ Runs(Active(targets)) /\ Previous(Active(targets)) /\ Active(edge) = Active(targets)
      BY <1>0 DEF PoolInv, Restartable
    <2>3. \A e \in Deploys : Kept(e)'
      BY <1>1, <2>1, IdleKept DEF PoolInv, AllIdle, Kept, NoPools, EarlyPcs, GatePcs, UndoPcs, BothPools, FlippedPcs,
                                  PromotePcs, RestorePcs, EndPcs
    <2>4. CASE ResumeEnd(d)
      <3>1. /\ RepushNormalised /\ EndRow(d) /\ faults' = 0
            /\ replicas' = [i \in Index |-> IF i \in Strays(d) THEN None ELSE replicas[i]]
        BY <1>1, <2>4, OneFault DEF ResumeEnd, RepushFails, StopPool
      <3>2. Active(edge)' = Active(targets)
        BY <2>2, <3>1, NormalisedSets DEF RepushNormalised, Active
      <3>3. \A i \in Active(targets) : i \in Index /\ replicas'[i] = replicas[i]
        BY <3>1 DEF Strays, Active
      <3>4. NoOutage'
        BY <2>1, <2>2, <3>2, <3>3 DEF NoOutage, Runs, Previous
      <3>5. \A e \in Deploys : Resumable(e)'
        BY <1>1, <3>1, ZeroIsNoDeploy DEF Resumable, Adoptable, EndRow
      <3> QED
        BY <1>1, <2>3, <3>1, <3>4, <3>5 DEF PoolInv, Restartable
    <2>5. CASE ResumeFails(d)
      <3>1. /\ edge' = edge /\ targets' = targets /\ replicas' = replicas /\ faults' = 0
            /\ rows' = rows /\ envDeploy' = envDeploy
        BY <1>1, <2>5 DEF ResumeFails, NoFault, store, world
      <3>2. NoOutage'
        BY <2>1, <3>1 DEF PoolInv, NoOutage, Active
      <3>3. ASSUME NEW e \in Deploys PROVE Resumable(e)'
        <4> SUFFICES ASSUME rows'[e].status = "watching", pc'[e] = "idle" PROVE Resumable(e)'
          BY DEF Resumable
        <4>1. /\ Runs(Active(targets)) /\ Active(targets) # {}
              /\ Runs(Behind(targets)) /\ Previous(Behind(targets))
          BY <1>0, <2>1, <3>1 DEF PoolInv, Resumable
        <4> QED
          BY <1>1, <2>1, <2>2, <3>1, <4>1 DEF Resumable, Runs, Previous, Active, Behind
      <3> QED
        BY <1>1, <2>3, <3>1, <3>2, <3>3 DEF PoolInv, Restartable
    <2> QED
      BY <1>3, <2>4, <2>5
  <1> QED
    BY <1>2, <1>3 DEF Resume

\* What a daemon leaves that dies at a safe step of its run.
LEMMA CrashLeaves ==
    ASSUME TypeOK, SingleFailure, ControlInv, PoolInv, faults # 0, NEW d \in Deploys, pc[d] \in SafeCrash
    PROVE  /\ Runs(Active(targets)) /\ Previous(Active(targets))
           /\ rows[d].status = "watching" =>
                /\ Active(targets) # {}
                /\ Runs(Behind(targets)) /\ Previous(Behind(targets))
  <1> USE DEF EarlyPcs, GatePcs, UndoPcs, BothPools, FlippedPcs, PromotePcs, RestorePcs, EndPcs
  <1>0. NoOutage /\ Kept(d) /\ Untouched(d) /\ Pointer(d)
    BY DEF PoolInv, ControlInv
  <1>1. Runs(Active(edge)) /\ Previous(Active(edge))
    BY <1>0 DEF NoOutage, Runs, Previous
  <1>2. CASE pc[d] \in {"clear"} \cup EarlyPcs
    <2>1. rows[d].status # "watching"
      BY <1>0, <1>2 DEF Pointer, BeforeWatch, Done, Finished
    <2> QED
      BY <1>0, <1>1, <1>2, <2>1 DEF Untouched, Clean
  <1>3. CASE pc[d] \in GatePcs
    <2>1. rows[d].status # "watching"
      BY <1>0, <1>3 DEF Pointer, BeforeWatch, SafeCrash
    <2> QED
      BY <1>0, <1>1, <1>3, <2>1 DEF Untouched
  <1>4. CASE pc[d] \in {"push", "stopHeld"} \cup FlippedPcs
    <2>1. Active(targets) = fresh[d] /\ Behind(targets) = held[d] /\ fresh[d] # {}
      BY <1>0, <1>4 DEF Kept, Untouched
    <2>2. Runs(held[d]) /\ Previous(held[d])
      BY <1>0, <1>4 DEF Kept, Untouched
    <2>3. Runs(fresh[d])
      BY <1>0, <1>1, <1>4 DEF Kept
    <2> QED
      BY <2>1, <2>2, <2>3 DEF Previous
  <1> QED
    BY <1>2, <1>3, <1>4 DEF SafeCrash

LEMMA CrashPools ==
    ASSUME TypeOK, SingleFailure, ControlInv, PoolInv, Crash
    PROVE  PoolInv'
  <1>1. /\ faults # 0 /\ faults' = 0 /\ up' = FALSE
        /\ edge' = edge /\ targets' = targets /\ replicas' = replicas /\ envRelease' = envRelease /\ rows' = rows
    BY OneFault DEF Crash, store, world
  <1>2. \A d \in Deploys : pc'[d] = "idle" /\ NoPools(d)'
    BY DEF Crash, NoPools
  <1>3. \A d \in Deploys : Kept(d)'
    BY <1>2 DEF Kept, NoPools, EarlyPcs, GatePcs, UndoPcs, BothPools, FlippedPcs, PromotePcs, RestorePcs, EndPcs
  <1>4. NoOutage'
    BY <1>1 DEF PoolInv, NoOutage, Active
  <1>5. Runs(Active(targets)) /\ Previous(Active(targets))
    <2>1. CASE AllIdle
      BY <1>1, <2>1 DEF AllIdle, PoolInv, Clean, NoOutage, Runs, Previous
    <2>2. CASE ~AllIdle
      <3>1. PICK d \in Deploys : pc[d] # "idle"
        BY <2>2 DEF AllIdle
      <3>2. pc[d] \in SafeCrash
        BY <3>1 DEF Crash, SingleFailure
      <3> QED
        BY <1>1, <3>2, CrashLeaves
    <2> QED
      BY <2>1, <2>2
  <1>6. ASSUME NEW d \in Deploys, rows[d].status = "watching"
        PROVE  Active(targets) # {} /\ Runs(Behind(targets)) /\ Previous(Behind(targets))
    <2>1. pc[d] # "idle"
      BY <1>1, <1>6 DEF ControlInv, Unspent, Unfinished, Done, Finished
    <2>2. pc[d] \in SafeCrash
      BY <2>1 DEF Crash, SingleFailure
    <2> QED
      BY <1>1, <1>6, <2>2, CrashLeaves
  <1>7. Restartable'
    BY <1>1, <1>5 DEF Restartable, Runs, Previous, Active
  <1>8. \A d \in Deploys : Resumable(d)'
    BY <1>1, <1>5, <1>6 DEF Resumable, Runs, Previous, Active, Behind
  <1> QED
    BY <1>1, <1>3, <1>4, <1>7, <1>8 DEF PoolInv

\* A restart pushes a table whose pool runs.
LEMMA RestartPools ==
    ASSUME TypeOK, SingleFailure, ControlInv, PoolInv, Restart
    PROVE  PoolInv'
  <1>0. Resuming /\ faults = 0 /\ AllIdle
    BY DEF Restart, Resuming, ControlInv, Alone, AllIdle
  <1>1. /\ edge' = targets /\ faults' = 0 /\ up'
        /\ targets' = targets /\ replicas' = replicas /\ envRelease' = envRelease /\ rows' = rows
        /\ pc' = pc /\ fresh' = fresh /\ held' = held /\ pushed' = pushed
    BY <1>0, OneFault DEF Restart, store, run
  <1>2. Runs(Active(targets)) /\ Previous(Active(targets))
    BY <1>0 DEF PoolInv, Restartable
  <1>3. NoOutage' /\ Restartable'
    BY <1>1, <1>2 DEF NoOutage, Restartable, Runs, Previous, Active
  <1>4. \A d \in Deploys : Kept(d)'
    BY <1>0, <1>1, IdleKept DEF PoolInv, AllIdle, Kept, NoPools, EarlyPcs, GatePcs, UndoPcs, BothPools, FlippedPcs,
                                PromotePcs, RestorePcs, EndPcs
  <1>5. ASSUME NEW d \in Deploys PROVE Resumable(d)'
    <2> SUFFICES ASSUME rows'[d].status = "watching", pc'[d] = "idle" PROVE Resumable(d)'
      BY DEF Resumable
    <2>1. Active(targets) # {} /\ Runs(Behind(targets)) /\ Previous(Behind(targets))
      BY <1>0, <1>1 DEF PoolInv, Resumable
    <2> QED
      BY <1>1, <1>2, <2>1 DEF Resumable, Runs, Previous, Active, Behind
  <1> QED
    BY <1>1, <1>3, <1>4, <1>5 DEF PoolInv

\* The worker, or a container of the pool that is about to be stopped.
LEMMA ExitPools ==
    ASSUME TypeOK, SingleFailure, ControlInv, PoolInv, HarmlessExit
    PROVE  PoolInv'
  <1>1. /\ faults # 0 /\ faults' = 0
        /\ edge' = edge /\ targets' = targets /\ envRelease' = envRelease /\ rows' = rows /\ envDeploy' = envDeploy
        /\ pc' = pc /\ fresh' = fresh /\ held' = held /\ pushed' = pushed /\ verdict' = verdict
        /\ up' = up /\ todo' = todo /\ watches' = watches
    BY OneFault DEF HarmlessExit, Dies, store, daemon, run
  <1>2. ~Resuming /\ ~Resuming'
    BY <1>1 DEF ControlInv, Alone, Resuming
  <1>3. ASSUME NEW d \in Deploys PROVE Resumable(d)'
    BY <1>1, <1>2 DEF PoolInv, Resumable, Adoptable
  <1>4. CASE replicas' = replicas
    BY <1>1, <1>2, <1>3, <1>4 DEF PoolInv, Restartable, NoOutage, Kept, Runs, Previous, Active, Behind
  <1>5. CASE \E i \in Running : replicas' = [replicas EXCEPT ![i] = None]
    <2>1. PICK i \in Index : replicas' = [replicas EXCEPT ![i] = None] /\ replicas[i] # None
      BY <1>5 DEF Running
    <2>2. replicas'[i] # replicas[i] /\ \A j \in Index \ {i} : replicas'[j] = replicas[j]
      BY <2>1 DEF TypeOK
    <2>3. PICK d \in Deploys : pc[d] = "stopHeld" /\ i \in held[d]
      BY <2>2 DEF HarmlessExit
    <2>4. \A e \in Deploys \ {d} : pc[e] = "idle"
      BY <2>3 DEF ControlInv, Solo
    <2>5. Kept(d) /\ NoOutage /\ \A e \in Deploys \ {d} : NoPools(e)
      BY <2>4, IdleKept DEF PoolInv
    <2>6. Active(edge) = fresh[d] /\ fresh[d] \cap held[d] = {}
      BY <2>3, <2>5 DEF Kept, FlippedPcs, PromotePcs, BothPools
    <2>7. NoOutage' /\ Active(edge)' = Active(edge)
      BY <1>1, <2>2, <2>3, <2>5, <2>6 DEF NoOutage, Active
    <2>8. Kept(d)'
      BY <1>1, <2>3, <2>5, <2>7 DEF Kept, EarlyPcs, GatePcs, UndoPcs, BothPools, FlippedPcs, PromotePcs, RestorePcs,
                                   EndPcs
    <2>9. ASSUME NEW e \in Deploys \ {d} PROVE Kept(e)'
      BY <1>1, <2>4, <2>5, <2>9 DEF Kept, NoPools, EarlyPcs, GatePcs, UndoPcs, BothPools, FlippedPcs, PromotePcs,
                                    RestorePcs, EndPcs
    <2> QED
      BY <1>1, <1>2, <1>3, <2>7, <2>8, <2>9 DEF PoolInv, Restartable
  <1> QED
    BY <1>4, <1>5 DEF HarmlessExit, Dies

-----------------------------------------------------------------------------
(* The theorems. *)

\* What may fail in FailureSpec may fail in Spec.
LEMMA FailureIsNext == FailureNext => Next
  BY DEF FailureNext, Next, HarmlessExit

SafetyInv == TypeOK /\ ExclusionInv /\ ControlInv /\ PoolInv

\* Both invariants hold before the first deploy.
LEMMA SafetyInit == Init => SafetyInv
  <1> SUFFICES ASSUME Init PROVE ControlInv /\ PoolInv
    BY TypeInit, ExclusionInit DEF SafetyInv
  <1>1. AllIdle /\ \A d \in Deploys : rows[d].status = "none" /\ NoPools(d)
    BY DEF Init, AllIdle, NoPools
  <1>2. up /\ todo = {} /\ edge = targets /\ envRelease = None /\ envDeploy = 0
    BY DEF Init
  <1>3. Active(edge) = {} /\ Behind(edge) = {} /\ Running = {}
    BY DEF Init, Active, Behind, Running
  <1>4. ControlInv
    BY <1>1, <1>2 DEF AllIdle, ControlInv, Solo, Alone, Resuming, Unspent, Unfinished, Pointer, EarlyPcs, GatePcs,
                      FlippedPcs, EndPcs, BeforeWatch, WatchingPcs, ReleasePcs
  <1>5. \A d \in Deploys : Kept(d) /\ Untouched(d) /\ Resumable(d)
    BY <1>1, <1>2, IdleKept DEF AllIdle, Resumable
  <1>6. NoOutage /\ Restartable /\ Clean
    BY <1>2, <1>3 DEF NoOutage, Restartable, Resuming, Clean
  <1> QED
    BY <1>4, <1>5, <1>6 DEF PoolInv

\* Every step keeps them.
LEMMA SafetyStep ==
    ASSUME SingleFailure, SafetyInv, [FailureNext]_vars
    PROVE  SafetyInv'
  <1> USE DEF SafetyInv
  <1>1. TypeOK' /\ ExclusionInv'
    BY FailureIsNext, TypeStep, ExclusionStep
  <1>m. MutualExclusion
    BY DEF ExclusionInv
  <1>2. CASE UNCHANGED vars
    <2>1. ControlInv'
      BY <1>2 DEF vars, store, daemon, run, ControlInv, Solo, Alone, Resuming, Unspent, Unfinished, Done, Pointer,
                  InFlight
    <2>2. PoolInv'
      BY <1>2 DEF vars, store, world, daemon, run, PoolInv, NoOutage, Restartable, Resuming, Resumable, Adoptable,
                  Kept, Untouched, Clean, Runs, Previous, Active, Behind, Running
    <2> QED
      BY <1>1, <2>1, <2>2
  <1>3. ASSUME NEW d \in Deploys, RunStep(d) PROVE ControlInv' /\ PoolInv'
    <2>1. Kept(d)
      BY DEF PoolInv
    <2> QED
      BY <1>3, <2>1, RunStepControl, RunStepPools
  <1>4. ASSUME NEW d \in Deploys, Command(d) \/ Resume(d) PROVE ControlInv' /\ PoolInv'
    BY <1>m, <1>4, CommandControl, CommandPools, ResumeControl, ResumePools
  <1>5. CASE Crash \/ Restart \/ HarmlessExit
    BY <1>1, <1>5, CrashControl, CrashPools, OutsideControl, RestartPools, ExitPools
  <1> QED
    BY <1>1, <1>2, <1>3, <1>4, <1>5 DEF FailureNext

\* The pools of a run are never in use together.
LEMMA KeptNeverMixes ==
    ASSUME TypeOK, NEW d \in Deploys, Kept(d)
    PROVE  fresh[d] \cap Active(edge) # {} => Active(edge) \subseteq fresh[d]
  <1> USE DEF EarlyPcs, GatePcs, UndoPcs, BothPools, FlippedPcs, PromotePcs, RestorePcs, EndPcs
  <1>1. pc[d] \in Steps
    BY DEF TypeOK
  <1>2. CASE pc[d] \in {"idle"} \cup EarlyPcs
    BY <1>2 DEF Kept
  <1>3. CASE pc[d] \in {"push"} \cup GatePcs \cup UndoPcs
    BY <1>3 DEF Kept
  <1>4. CASE pc[d] \in {"stopHeld", "rbPush", "rbRecord2", "rbPush2"} \cup FlippedPcs \cup PromotePcs
    BY <1>4 DEF Kept
  <1>5. CASE pc[d] \in {"removeFresh", "rbClear"} \cup RestorePcs \cup EndPcs
    BY <1>5 DEF Kept
  <1> QED
    BY <1>1, <1>2, <1>3, <1>4, <1>5 DEF Steps

\* Whatever fails once, and wherever caramelod dies that the next one can go
\* on from: the edge always has a target once a release was promoted, and
\* every target it uses is a running container, for any number of deploys,
\* replicas and indexes.
THEOREM OneFailureIsNoOutage ==
    ASSUME SingleFailure
    PROVE  FailureSpec => []NoOutage
  <1>1. SafetyInv => NoOutage
    BY DEF SafetyInv, PoolInv
  <1>2. SafetyInv /\ [FailureNext]_vars => SafetyInv'
    BY SafetyStep
  <1> QED
    BY <1>1, <1>2, SafetyInit, PTL DEF FailureSpec

\* And it never uses the pool that is brought in and the one it replaces at
\* the same time, on the way forth or back.
THEOREM OneFailureNeverMixes ==
    ASSUME SingleFailure
    PROVE  FailureSpec => []PoolsNeverMix
  <1>1. SafetyInv => PoolsNeverMix
    BY KeptNeverMixes DEF SafetyInv, PoolInv, PoolsNeverMix
  <1>2. SafetyInv /\ [FailureNext]_vars => SafetyInv'
    BY SafetyStep
  <1> QED
    BY <1>1, <1>2, SafetyInit, PTL DEF FailureSpec
=============================================================================
