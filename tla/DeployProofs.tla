---------------------------- MODULE DeployProofs ----------------------------
(***************************************************************************)
(* Proofs about Deploy, for every set of releases, every bound and every   *)
(* set of failures.                                                        *)
(***************************************************************************)
EXTENDS Deploy, TLAPS

\* The control helpers every action is written with.
LEMMA GotoType ==
    ASSUME TypeOK, NEW d \in Deploys, NEW s \in Steps, Goto(d, s)
    PROVE  pc' \in [Deploys -> Steps]
  BY DEF TypeOK, Goto

\* Writing a known status keeps the deploys table well typed.
LEMMA StatusType ==
    ASSUME TypeOK, NEW d \in Deploys, NEW s \in Statuses, SetStatus(d, s)
    PROVE  rows' \in [Deploys -> Row]
  BY DEF TypeOK, SetStatus, Row

\* So does writing the release of a row.
LEMMA ReleaseType ==
    ASSUME TypeOK, NEW d \in Deploys, NEW r \in MaybeRelease
    PROVE  [rows EXCEPT ![d].rel = r] \in [Deploys -> Row]
  BY DEF TypeOK, Row

\* A failure spends one unit of the budget, and nothing overdraws it.
LEMMA FaultType ==
    ASSUME TypeOK, NEW k, Fault(k) \/ NoFault
    PROVE  faults' \in 0..MaxFaults
  BY DeployAssumption DEF TypeOK, Fault, NoFault

\* deployRun.fail sends a run to a known step with a finished verdict.
LEMMA FailType ==
    ASSUME TypeOK, NEW d \in Deploys, StartFail(d)
    PROVE  /\ pc' \in [Deploys -> Steps]
           /\ verdict' \in [Deploys -> Finished]
  BY DEF TypeOK, StartFail, Goto, Steps, Finished

\* A recorded pool is a well-typed targets table.
LEMMA TableType ==
    ASSUME NEW F, NEW f \in TargetStates, NEW H, NEW h \in TargetStates
    PROVE  Table(F, f, H, h) \in [Index -> TargetStates]
  BY DEF Table, TargetStates

\* An environment that was never deployed is well typed.
LEMMA TypeInit == Init => TypeOK
  BY DeployAssumption DEF Init, TypeOK, Row, MaybeRelease, Statuses, TargetStates, Steps, Finished

\* The steps in front of the flip keep the types.
LEMMA GateType ==
    ASSUME TypeOK, NEW d \in Deploys, Gate(d)
    PROVE  TypeOK'
  <1>r. rows[d] \in Row
    BY DEF TypeOK
  <1>1. CASE Register(d)
    BY <1>1, FaultType DEF TypeOK, Register, At, Goto, Steps, world
  <1>2. CASE Build(d)
    <2>0. \A e \in Deploys : rows[e].rel \in MaybeRelease
      BY DEF TypeOK, Row
    <2>a. RollbackTargets \subseteq MaybeRelease
      BY <2>0 DEF RollbackTargets, Built
    <2>1. PICK r \in MaybeRelease : rows' = [rows EXCEPT ![d].rel = r]
      BY <1>2, <2>a DEF Build, MaybeRelease
    <2>2. rows' \in [Deploys -> Row]
      BY <2>1, ReleaseType
    <2> QED
      BY <1>2, <2>2 DEF TypeOK, Build, At, Goto, NoFault, Steps, world, rowVars, daemon
  <1>3. CASE Plan(d)
    BY <1>3, <1>r DEF TypeOK, Plan, At, Goto, NoFault, Steps, world, daemon, Row
  <1>4. CASE Migrate(d) \/ Checking(d)
    <2>1. rows' \in [Deploys -> Row]
      BY <1>4, StatusType DEF Migrate, Checking, EnterGate, Statuses
    <2> QED
      BY <1>4, <2>1 DEF TypeOK, Migrate, Checking, EnterGate, At, Goto, NoFault, Steps, world, rowVars, daemon
  <1>5. CASE Before(d) \/ Check(d)
    BY <1>5 DEF TypeOK, Before, Check, PassGate, At, Goto, NoFault, Steps, store, world, daemon
  <1>6. CASE Start(d)
    <2>1. rows' \in [Deploys -> Row]
      BY <1>6, StatusType DEF Start, Statuses
    <2>2. held' \in [Deploys -> SUBSET Index]
      BY <1>6 DEF TypeOK, Start, Running
    <2>3. pc' \in [Deploys -> Steps] /\ verdict' \in [Deploys -> Finished]
      BY <1>6, FailType DEF TypeOK, Start, Goto, Steps
    <2> QED
      BY <1>6, <2>1, <2>2, <2>3 DEF TypeOK, Start, NoFault, world, rowVars, daemon
  <1>7. CASE BringUp(d)
    <2>1. PICK i \in Index : /\ replicas' = [replicas EXCEPT ![i] = rows[d].rel]
                             /\ fresh' = [fresh EXCEPT ![d] = @ \cup {i}]
                             /\ Goto(d, IF Cardinality(fresh[d] \cup {i}) = Want THEN "checking" ELSE "bringUp")
      BY <1>7 DEF BringUp, NextIndex, FreeIndexes
    <2> QED
      BY <1>7, <1>r, <2>1 DEF TypeOK, BringUp, Goto, NoFault, Steps, store, daemon, Row
  <1>8. CASE BringUpFails(d)
    <2>r. rows[d].rel \in MaybeRelease
      BY <1>r DEF Row
    <2>1. /\ replicas' \in [Index -> MaybeRelease]
          /\ fresh' \in [Deploys -> SUBSET Index]
      <3>1. CASE UNCHANGED <<replicas, fresh>>
        BY <3>1 DEF TypeOK
      <3>2. CASE \E i \in NextIndex(d) : /\ replicas' = [replicas EXCEPT ![i] = rows[d].rel]
                                         /\ fresh' = [fresh EXCEPT ![d] = @ \cup {i}]
        <4>1. NextIndex(d) \subseteq Index
          BY DEF NextIndex, FreeIndexes
        <4> QED
          BY <3>2, <4>1, <2>r DEF TypeOK
      <3> QED
        BY <1>8, <3>1, <3>2 DEF BringUpFails
    <2>2. pc' \in [Deploys -> Steps] /\ verdict' \in [Deploys -> Finished]
      BY <1>8, FailType DEF BringUpFails
    <2> QED
      BY <1>8, <2>1, <2>2 DEF TypeOK, BringUpFails, NoFault, store, daemon
  <1>9. CASE GateFails(d)
    BY <1>9, FailType DEF TypeOK, GateFails, NoFault, store, world, daemon
  <1>10. CASE StatusFails(d)
    BY <1>10, FaultType, FailType DEF TypeOK, StatusFails, store, world, daemon
  <1> QED
    BY <1>1, <1>2, <1>3, <1>4, <1>5, <1>6, <1>7, <1>8, <1>9, <1>10 DEF Gate

\* Recording a table, pushing it and leaving the watch: the three shapes most
\* steps after the gates have.
LEMMA RecordType ==
    ASSUME TypeOK, NEW d \in Deploys, NEW t \in [Index -> TargetStates],
           NEW next \in Steps, NEW bad \in Steps, Record(d, t, next, bad),
           verdict' \in [Deploys -> Finished]
    PROVE  TypeOK'
  BY FaultType DEF TypeOK, Record, Goto, rowVars, world, daemon

\* Pushing the table to the edge keeps the types.
LEMMA PushType ==
    ASSUME TypeOK, NEW d \in Deploys,
           NEW next \in Steps, NEW bad \in Steps, PushTable(d, next, bad),
           verdict' \in [Deploys -> Finished], pushed' \subseteq Deploys
    PROVE  TypeOK'
  BY FaultType DEF TypeOK, PushTable, Goto, store, daemon

\* Leaving the watch keeps the types.
LEMMA LeaveType ==
    ASSUME TypeOK, NEW d \in Deploys, NEW step \in Steps, NEW status \in Finished,
           Leave(d, step, status)
    PROVE  TypeOK'
  BY DEF TypeOK, Leave, Goto, NoFault, store, world, daemon

\* Stopping a pool only ever empties indexes.
LEMMA StopType ==
    ASSUME TypeOK, NEW pool, NEW bad, StopPool(pool, bad)
    PROVE  /\ replicas' \in [Index -> MaybeRelease]
           /\ faults' \in 0..MaxFaults
  <1>1. replicas' \in [Index -> MaybeRelease]
    BY DEF TypeOK, StopPool, MaybeRelease
  <1>2. faults' \in 0..MaxFaults
    BY FaultType DEF StopPool
  <1> QED
    BY <1>1, <1>2

\* The steps of the flip keep the types.
LEMMA FlipType ==
    ASSUME TypeOK, NEW d \in Deploys, Flip(d)
    PROVE  TypeOK'
  <1>r. rows[d].rel \in MaybeRelease
    BY DEF TypeOK, Row
  <1>1. CASE Replace(d)
    <2>1. CASE /\ worker' = rows[d].rel
               /\ Goto(d, "workerRow") /\ NoFault /\ UNCHANGED verdict
      BY <1>1, <2>1, <1>r DEF TypeOK, Replace, Goto, NoFault, Steps, store, daemon
    <2>2. CASE Fault("worker") /\ worker' \in {worker, None, rows[d].rel} /\ StartFail(d)
      <3>1. worker' \in MaybeRelease
        BY <2>2, <1>r DEF TypeOK, MaybeRelease
      <3> QED
        BY <1>1, <2>2, <3>1, FailType, FaultType DEF TypeOK, Replace, store, daemon
    <2> QED
      BY <1>1, <2>1, <2>2 DEF Replace
  <1>2. CASE WorkerRow(d) \/ WebRow(d)
    <2>1. faults' \in 0..MaxFaults
      BY <1>2, FaultType DEF WorkerRow, WebRow, PutRow
    <2> QED
      BY <1>2, <1>r, <2>1 DEF TypeOK, WorkerRow, WebRow, PutRow, Goto, Steps, world, daemon
  <1>3. CASE SetWatching(d)
    <2>1. rows' \in [Deploys -> Row]
      BY <1>3, StatusType DEF SetWatching, EnterGate, Statuses
    <2> QED
      BY <1>3, <2>1 DEF TypeOK, SetWatching, EnterGate, At, Goto, NoFault, Steps, world, rowVars, daemon
  <1>4. CASE RecordFlip(d)
    BY <1>4, RecordType, TableType DEF RecordFlip, TypeOK, Steps, TargetStates
  <1>5. CASE Push(d)
    <2>1. pushed' \subseteq Deploys
      BY <1>5 DEF Push, TypeOK
    <2> QED
      BY <1>5, <2>1, PushType DEF Push, TypeOK, Steps
  <1>6. CASE Hold(d)
    <2>1. CASE held[d] = {}
      BY <1>6, <2>1 DEF Hold, TypeOK, Goto, NoFault, Steps, store, world, daemon
    <2>2. CASE held[d] # {}
      BY <1>6, <2>2, RecordType, TableType DEF Hold, TypeOK, Steps, TargetStates
    <2> QED
      BY <2>1, <2>2
  <1>7. CASE HoldPush(d)
    BY <1>7, PushType DEF HoldPush, TypeOK, Steps
  <1>8. CASE Unrecord(d)
    BY <1>8, RecordType, TableType DEF Unrecord, TypeOK, Steps, TargetStates
  <1>9. CASE Unpush(d)
    <2>1. faults' \in 0..MaxFaults
      BY <1>9, FaultType DEF Unpush
    <2>2. edge' \in [Index -> TargetStates]
      BY <1>9 DEF Unpush, TypeOK
    <2> QED
      BY <1>9, <2>1, <2>2, FailType DEF Unpush, TypeOK, store, daemon
  <1> QED
    BY <1>1, <1>2, <1>3, <1>4, <1>5, <1>6, <1>7, <1>8, <1>9 DEF Flip

\* The steps of the watch keep the types.
LEMMA WatchType ==
    ASSUME TypeOK, NEW d \in Deploys, Watch(d)
    PROVE  TypeOK'
  <1>1. CASE TakeLock(d)
    BY <1>1 DEF TakeLock, Unlocked, TypeOK, Goto, NoFault, Steps, store, world
  <1>2. CASE WatchFails(d)
    BY <1>2, LeaveType DEF WatchFails, Steps, Finished
  <1>3. CASE WindowOver(d)
    <2>1. verdict[d] \in Finished
      BY DEF TypeOK
    <2> QED
      BY <1>3, <2>1, LeaveType DEF WindowOver, Steps, Finished
  <1>4. CASE PromotedByHand(d)
    BY <1>4, LeaveType DEF PromotedByHand, Steps, Finished
  <1>5. CASE RolledBackByHand(d)
    BY <1>5, LeaveType DEF RolledBackByHand, Steps, Finished
  <1> QED
    BY <1>1, <1>2, <1>3, <1>4, <1>5 DEF Watch

\* The steps of promote keep the types.
LEMMA PromoteType ==
    ASSUME TypeOK, NEW d \in Deploys, Promote(d)
    PROVE  TypeOK'
  <1>r. rows[d].rel \in MaybeRelease
    BY DEF TypeOK, Row
  <1>1. CASE StopHeld(d)
    <2>1. PICK bad : /\ StopPool(held[d], bad)
                     /\ Goto(d, IF held[d] \ bad # {} THEN "promoteRecord" ELSE "setRelease")
      BY <1>1 DEF StopHeld
    <2>2. pc' \in [Deploys -> Steps]
      BY <2>1 DEF TypeOK, Goto, Steps
    <2>3. replicas' \in [Index -> MaybeRelease] /\ faults' \in 0..MaxFaults
      BY <2>1, StopType
    <2> QED
      BY <1>1, <2>2, <2>3 DEF StopHeld, TypeOK, store, daemon
  <1>2. CASE PromoteRecord(d)
    BY <1>2, RecordType, TableType DEF PromoteRecord, TypeOK, Steps, TargetStates
  <1>3. CASE PromotePush(d)
    BY <1>3, PushType DEF PromotePush, TypeOK, Steps
  <1>4. CASE SetRelease(d) \/ Commit(d)
    <2>1. faults' \in 0..MaxFaults
      BY <1>4, FaultType DEF SetRelease, Commit
    <2> QED
      BY <1>4, <1>r, <2>1 DEF SetRelease, Commit, TypeOK, Goto, Steps, world, daemon
  <1> QED
    BY <1>1, <1>2, <1>3, <1>4 DEF Promote

\* The steps of rollback and restorePrevious keep the types.
LEMMA RollbackType ==
    ASSUME TypeOK, NEW d \in Deploys, Rollback(d)
    PROVE  TypeOK'
  <1>r. rows[d].from \in MaybeRelease
    BY DEF TypeOK, Row
  <1>v. ASSUME RollbackFailed(d, "finish") PROVE verdict' \in [Deploys -> Finished]
    BY <1>v DEF RollbackFailed, TypeOK, Finished
  <1>a. AfterRestore(d) \in Steps
    BY DEF AfterRestore, Steps
  <1>1. CASE RbRecord(d)
    BY <1>1, <1>v, RecordType, TableType DEF RbRecord, Steps, TargetStates
  <1>2. CASE RbPush(d)
    BY <1>2, <1>v, PushType DEF RbPush, TypeOK, Steps
  <1>3. CASE RemoveFresh(d)
    <2>1. replicas' \in [Index -> MaybeRelease] /\ faults' \in 0..MaxFaults
      BY <1>3, StopType DEF RemoveFresh
    <2>2. /\ fresh' \in [Deploys -> SUBSET Index]
          /\ held' \in [Deploys -> SUBSET Index]
          /\ pc' \in [Deploys -> Steps]
      BY <1>3 DEF RemoveFresh, TypeOK, Goto, Steps
    <2> QED
      BY <1>3, <2>1, <2>2 DEF RemoveFresh, TypeOK, store, daemon
  <1>4. CASE RbRecord2(d)
    BY <1>4, RecordType, TableType DEF RbRecord2, TypeOK, Steps, TargetStates
  <1>5. CASE RbPush2(d)
    BY <1>5, PushType DEF RbPush2, TypeOK, Steps
  <1>6. CASE RestoreConfig(d)
    <2>1. faults' \in 0..MaxFaults
      BY <1>6, FaultType DEF RestoreConfig
    <2>2. pc' \in [Deploys -> Steps]
      BY <1>6, <1>a DEF RestoreConfig, TypeOK, Goto, Steps
    <2>3. envConfig' \in MaybeRelease
      BY <1>6, <1>r DEF RestoreConfig, TypeOK
    <2> QED
      BY <1>6, <2>1, <2>2, <2>3 DEF RestoreConfig, TypeOK, world, daemon
  <1>7. CASE RestoreWeb(d)
    <2>1. faults' \in 0..MaxFaults
      BY <1>7, FaultType DEF RestoreWeb
    <2> QED
      BY <1>7, <1>r, <2>1 DEF RestoreWeb, TypeOK, Goto, Steps, world, daemon
  <1>8. CASE RestoreWorker(d)
    <2>1. faults' \in 0..MaxFaults
      BY <1>8, FaultType DEF RestoreWorker
    <2>2. worker' \in MaybeRelease /\ workerRow' \in MaybeRelease
      BY <1>8, <1>r DEF RestoreWorker, TypeOK, MaybeRelease
    <2> QED
      BY <1>8, <1>a, <2>1, <2>2 DEF RestoreWorker, TypeOK, Goto, daemon
  <1>9. CASE RbClear(d)
    <2>1. faults' \in 0..MaxFaults
      BY <1>9, FaultType DEF RbClear
    <2> QED
      BY <1>9, <2>1 DEF RbClear, TypeOK, Goto, Steps, world, daemon
  <1> QED
    BY <1>1, <1>2, <1>3, <1>4, <1>5, <1>6, <1>7, <1>8, <1>9 DEF Rollback

\* finish keeps the types.
LEMMA EndType ==
    ASSUME TypeOK, NEW d \in Deploys, Finish(d) \/ Clear(d)
    PROVE  TypeOK'
  <1>1. CASE Finish(d)
    <2>1. faults' \in 0..MaxFaults
      BY <1>1, FaultType DEF Finish
    <2>2. verdict[d] \in Statuses
      BY DEF TypeOK, Statuses
    <2>3. rows' \in [Deploys -> Row]
      BY <1>1, <2>2, StatusType DEF Finish, TypeOK
    <2> QED
      BY <1>1, <2>1, <2>3 DEF Finish, TypeOK, Goto, Steps, rowVars, world, daemon
  <1>2. CASE Clear(d)
    <2>1. faults' \in 0..MaxFaults
      BY <1>2, FaultType DEF Clear
    <2> QED
      BY <1>2, <2>1 DEF Clear, Forget, TypeOK, Goto, Steps, world
  <1> QED
    BY <1>1, <1>2

\* A watch taken over from the targets table has well-typed pools.
LEMMA TakeOverType ==
    ASSUME TypeOK, NEW d \in Deploys, TakeOver(d)
    PROVE  /\ targets' \in [Index -> TargetStates]
           /\ edge' \in [Index -> TargetStates]
           /\ fresh' \in [Deploys -> SUBSET Index]
           /\ held' \in [Deploys -> SUBSET Index]
           /\ watches' \subseteq Deploys
           /\ pc' \in [Deploys -> Steps]
           /\ faults' \in 0..MaxFaults
  <1>0. faults' \in 0..MaxFaults
    BY FaultType DEF TakeOver, RepushFails
  <1>1. Normalised \in [Index -> TargetStates]
    BY DEF Normalised, TypeOK, TargetStates
  <1>2. Active(targets) \subseteq Index /\ Behind(targets) \subseteq Index
    BY DEF Active, Behind
  <1> QED
    BY <1>0, <1>1, <1>2 DEF TakeOver, RepushNormalised, RepushFails, TypeOK, Goto, Steps

\* The commands keep the types.
LEMMA CommandType ==
    ASSUME TypeOK, NEW d \in Deploys, Command(d)
    PROVE  TypeOK'
  <1>1. ASSUME NEW kind \in {"deploy", "rollback"}, Begin(d, kind) PROVE TypeOK'
    <2>1. [kind |-> kind, status |-> "building", rel |-> None, from |-> envRelease] \in Row
      BY DEF TypeOK, Row, Statuses, MaybeRelease
    <2>2. rows' \in [Deploys -> Row]
      BY <1>1, <2>1 DEF Begin, Unlocked, TypeOK
    <2> QED
      BY <1>1, <2>2 DEF Begin, Unlocked, TypeOK, Goto, NoFault, Steps, rowVars, world
  <1>2. CASE SignalPromote(d) \/ SignalRollback(d)
    BY <1>2 DEF SignalPromote, SignalRollback, TypeOK, NoFault, store, world, run
  <1>3. CASE Adopt(d)
    BY <1>3, TakeOverType DEF Adopt, TypeOK, rowVars
  <1> QED
    BY <1>1, <1>2, <1>3 DEF Command

\* ResumeDeploys keeps the types.
LEMMA ResumeType ==
    ASSUME TypeOK, NEW d \in Deploys, Resume(d)
    PROVE  TypeOK'
  <1>1. CASE ResumeWatch(d)
    BY <1>1, TakeOverType DEF ResumeWatch, TypeOK, rowVars
  <1>2. CASE ResumeEnd(d)
    <2>1. rows' \in [Deploys -> Row]
      <3>1. ASSUME SetStatus(d, "rolled_back") PROVE rows' \in [Deploys -> Row]
        BY <3>1, StatusType DEF Statuses, Finished
      <3> QED
        BY <1>2, <3>1 DEF ResumeEnd, EndRow, TypeOK
    <2>2. Normalised \in [Index -> TargetStates]
      BY DEF Normalised, TypeOK, TargetStates
    <2>3. targets' \in [Index -> TargetStates] /\ edge' \in [Index -> TargetStates]
      BY <1>2, <2>2 DEF ResumeEnd, RepushNormalised, RepushFails, TypeOK
    <2>4. replicas' \in [Index -> MaybeRelease]
      <3>1. ASSUME CleanStrays(d) PROVE replicas' \in [Index -> MaybeRelease]
        BY <3>1 DEF CleanStrays, TypeOK, MaybeRelease
      <3> QED
        BY <1>2, <3>1, StopType DEF ResumeEnd
    <2>5. faults' \in 0..MaxFaults
      BY <1>2, StopType, FaultType DEF ResumeEnd, RepushFails
    <2>6. envDeploy' \in Deploys \cup {0}
      BY <1>2 DEF ResumeEnd, EndRow, TypeOK
    <2> QED
      BY <1>2, <2>1, <2>3, <2>4, <2>5, <2>6 DEF ResumeEnd, TypeOK, run
  <1>3. CASE ResumeFails(d)
    <2>1. faults' \in 0..MaxFaults
      BY <1>3, FaultType DEF ResumeFails
    <2> QED
      BY <1>3, <2>1 DEF ResumeFails, TypeOK, store, world, run
  <1> QED
    BY <1>1, <1>2, <1>3 DEF Resume

\* A crash, a restart and the death of a container keep the types.
LEMMA OutsideType ==
    ASSUME TypeOK, Crash \/ Restart \/ Dies
    PROVE  TypeOK'
  <1>0. faults' \in 0..MaxFaults
    BY FaultType DEF Crash, Restart, Dies
  <1>1. CASE Crash
    BY <1>0, <1>1 DEF Crash, TypeOK, Steps, store, world
  <1>2. CASE Restart
    BY <1>0, <1>2 DEF Restart, TypeOK, Unfinished, store, run
  <1>3. CASE Dies
    <2>1. replicas' \in [Index -> MaybeRelease] /\ worker' \in MaybeRelease
      BY <1>3 DEF Dies, TypeOK, Running, MaybeRelease
    <2> QED
      BY <1>0, <1>3, <2>1 DEF Dies, TypeOK, store, daemon, run
  <1> QED
    BY <1>1, <1>2, <1>3

\* Every step keeps the types.
LEMMA TypeStep == TypeOK /\ [Next]_vars => TypeOK'
  <1> SUFFICES ASSUME TypeOK, [Next]_vars PROVE TypeOK'
    OBVIOUS
  <1>1. CASE UNCHANGED vars
    BY <1>1 DEF vars, store, world, daemon, run, TypeOK
  <1>2. ASSUME NEW d \in Deploys, RunStep(d) PROVE TypeOK'
    BY <1>2, GateType, FlipType, WatchType, PromoteType, RollbackType, EndType DEF RunStep
  <1>3. ASSUME NEW d \in Deploys, Command(d) \/ Resume(d) PROVE TypeOK'
    BY <1>3, CommandType, ResumeType
  <1> QED
    BY <1>1, <1>2, <1>3, OutsideType DEF Next

\* Every variable keeps its type, whatever fails and wherever caramelod dies.
THEOREM DeployTypeOK == Spec => []TypeOK
  BY TypeInit, TypeStep, PTL DEF Spec

-----------------------------------------------------------------------------
(***************************************************************************)
(* Exclusion and finality. The mutex alone does not give either: a resumed *)
(* or adopted run exists before it holds the mutex, and a row may be       *)
(* picked up by ResumeDeploys, by adopt or by its own run. The inductive   *)
(* invariant says in addition that only a run about to clear its pointer   *)
(* has a finished row, that what is still to be resumed has no run and no  *)
(* finished row, and that a stopped daemon runs nothing.                   *)
(***************************************************************************)
FinishedHasNoRun == \A d \in Deploys : Done(d) => pc[d] \in {"idle", "clear"}
TodoHasNoRun == \A d \in todo : pc[d] = "idle" /\ ~Done(d)
StoppedRunsNothing == ~up => \A d \in Deploys : pc[d] = "idle"

ExclusionInv == MutualExclusion /\ FinishedHasNoRun /\ TodoHasNoRun /\ StoppedRunsNothing

\* What a step of a run may do to the control state: its own step and row
\* only; the mutex is taken from free and given back at the end; a row is
\* written only before "clear", and finished only on the way there.
RunFrame(d) ==
    /\ up /\ up' = up /\ todo' = todo
    /\ pc[d] # "idle"
    /\ \A e \in Deploys \ {d} : pc'[e] = pc[e] /\ rows'[e] = rows[e]
    /\ \/ lock' = lock /\ pc[d] # "lockWait"
       \/ lock = 0 /\ lock' = d
       \/ lock' = 0 /\ pc[d] # "lockWait" /\ pc'[d] = "idle"
    /\ pc[d] = "clear" => rows'[d] = rows[d] /\ pc'[d] = "idle"
    /\ rows'[d].status \in Finished => rows'[d].status = rows[d].status \/ pc'[d] = "clear"

\* deployRun.fail moves its own run, to one of two steps.
LEMMA FailFrame ==
    ASSUME TypeOK, NEW d \in Deploys, StartFail(d)
    PROVE  /\ pc'[d] \in {"rbRecord", "restoreConfig"}
           /\ \A e \in Deploys \ {d} : pc'[e] = pc[e]
  BY DEF TypeOK, StartFail, Goto

\* Goto moves its own run only.
LEMMA GotoFrame ==
    ASSUME TypeOK, NEW d \in Deploys, NEW s, Goto(d, s)
    PROVE  /\ pc'[d] = s
           /\ \A e \in Deploys \ {d} : pc'[e] = pc[e]
  BY DEF TypeOK, Goto

\* SetStatus writes its own row only.
LEMMA StatusFrame ==
    ASSUME TypeOK, NEW d \in Deploys, NEW s, SetStatus(d, s)
    PROVE  /\ rows'[d].status = s
           /\ \A e \in Deploys \ {d} : rows'[e] = rows[e]
  BY DEF TypeOK, SetStatus, Row

\* The steps in front of the flip respect the frame.
LEMMA GateFrame ==
    ASSUME TypeOK, NEW d \in Deploys, Gate(d)
    PROVE  RunFrame(d)
  <1>1. CASE Register(d)
    BY <1>1, GotoFrame DEF Register, At, RunFrame
  <1>2. CASE Build(d)
    <2>1. PICK r : rows' = [rows EXCEPT ![d].rel = r]
      BY <1>2 DEF Build
    <2>a. rows'[d] = [rows[d] EXCEPT !.rel = r] /\ \A e \in Deploys \ {d} : rows'[e] = rows[e]
      BY <2>1 DEF TypeOK
    <2>b. rows[d] \in Row
      BY DEF TypeOK
    <2>2. rows'[d].status = rows[d].status
      BY <2>a, <2>b DEF Row
    <2> QED
      BY <1>2, <2>a, <2>2, GotoFrame DEF Build, At, RunFrame, daemon
  <1>3. CASE Plan(d)
    BY <1>3, GotoFrame DEF Plan, At, RunFrame, daemon
  <1>4. CASE Migrate(d) \/ Checking(d)
    BY <1>4, GotoFrame, StatusFrame DEF Migrate, Checking, EnterGate, At, RunFrame, daemon, Finished
  <1>5. CASE Before(d) \/ Check(d)
    BY <1>5, GotoFrame DEF Before, Check, PassGate, At, RunFrame, store, daemon
  <1>6. CASE Start(d)
    BY <1>6, GotoFrame, StatusFrame, FailFrame DEF Start, At, RunFrame, daemon, Finished
  <1>7. CASE BringUp(d)
    BY <1>7, GotoFrame DEF BringUp, At, RunFrame, store, daemon
  <1>8. CASE BringUpFails(d)
    BY <1>8, FailFrame DEF BringUpFails, At, RunFrame, store, daemon
  <1>9. CASE GateFails(d) \/ StatusFails(d)
    BY <1>9, FailFrame DEF GateFails, StatusFails, RunFrame, store, daemon
  <1> QED
    BY <1>1, <1>2, <1>3, <1>4, <1>5, <1>6, <1>7, <1>8, <1>9 DEF Gate

\* Recording a table touches neither rows, mutex nor other runs.
LEMMA RecordFrame ==
    ASSUME TypeOK, NEW d \in Deploys, NEW t, NEW next, NEW bad, Record(d, t, next, bad),
           next # "clear", bad # "clear"
    PROVE  /\ up' = up /\ todo' = todo /\ lock' = lock /\ rows' = rows
           /\ \A e \in Deploys \ {d} : pc'[e] = pc[e]
  BY GotoFrame DEF Record, daemon

\* Nor does pushing it.
LEMMA PushFrame ==
    ASSUME TypeOK, NEW d \in Deploys, NEW next, NEW bad, PushTable(d, next, bad)
    PROVE  /\ up' = up /\ todo' = todo /\ lock' = lock /\ rows' = rows
           /\ \A e \in Deploys \ {d} : pc'[e] = pc[e]
  BY GotoFrame DEF PushTable, daemon, store

\* The steps of the flip respect the frame.
LEMMA FlipFrame ==
    ASSUME TypeOK, NEW d \in Deploys, Flip(d)
    PROVE  RunFrame(d)
  <1>1. CASE Replace(d)
    BY <1>1, GotoFrame, FailFrame DEF Replace, At, RunFrame, store, daemon
  <1>2. CASE WorkerRow(d) \/ WebRow(d)
    BY <1>2, GotoFrame DEF WorkerRow, WebRow, PutRow, At, RunFrame, daemon
  <1>3. CASE SetWatching(d)
    BY <1>3, GotoFrame, StatusFrame DEF SetWatching, EnterGate, At, RunFrame, daemon, Finished
  <1>4. CASE RecordFlip(d) \/ Unrecord(d)
    BY <1>4, RecordFrame DEF RecordFlip, Unrecord, At, RunFrame
  <1>5. CASE Push(d) \/ HoldPush(d)
    BY <1>5, PushFrame DEF Push, HoldPush, At, RunFrame
  <1>6. CASE Hold(d)
    BY <1>6, RecordFrame, GotoFrame DEF Hold, At, RunFrame, store, daemon
  <1>7. CASE Unpush(d)
    BY <1>7, FailFrame DEF Unpush, At, RunFrame, store, daemon
  <1> QED
    BY <1>1, <1>2, <1>3, <1>4, <1>5, <1>6, <1>7 DEF Flip

\* The steps of the watch respect the frame; one of them takes the mutex.
LEMMA WatchFrame ==
    ASSUME TypeOK, NEW d \in Deploys, Watch(d)
    PROVE  RunFrame(d)
  <1>1. CASE TakeLock(d)
    BY <1>1, GotoFrame DEF TakeLock, Unlocked, At, RunFrame, store
  <1>2. ASSUME Watched(d) \/ At(d, "watch"), NEW step, NEW status, Leave(d, step, status)
        PROVE  RunFrame(d)
    BY <1>2, GotoFrame DEF Leave, Watched, At, RunFrame, store, daemon
  <1> QED
    BY <1>1, <1>2 DEF Watch, WatchFails, WindowOver, PromotedByHand, RolledBackByHand

\* The steps of promote respect the frame.
LEMMA PromoteFrame ==
    ASSUME TypeOK, NEW d \in Deploys, Promote(d)
    PROVE  RunFrame(d)
  <1>1. CASE StopHeld(d)
    BY <1>1, GotoFrame DEF StopHeld, At, RunFrame, store, daemon
  <1>2. CASE PromoteRecord(d)
    BY <1>2, RecordFrame DEF PromoteRecord, At, RunFrame
  <1>3. CASE PromotePush(d)
    BY <1>3, PushFrame DEF PromotePush, At, RunFrame
  <1>4. CASE SetRelease(d) \/ Commit(d)
    BY <1>4, GotoFrame DEF SetRelease, Commit, At, RunFrame, daemon
  <1> QED
    BY <1>1, <1>2, <1>3, <1>4 DEF Promote

\* The steps of rollback respect the frame.
LEMMA RollbackFrame ==
    ASSUME TypeOK, NEW d \in Deploys, Rollback(d)
    PROVE  RunFrame(d)
  <1>1. CASE RbRecord(d) \/ RbRecord2(d)
    BY <1>1, RecordFrame DEF RbRecord, RbRecord2, At, RunFrame
  <1>2. CASE RbPush(d) \/ RbPush2(d)
    BY <1>2, PushFrame DEF RbPush, RbPush2, At, RunFrame
  <1>3. CASE RemoveFresh(d)
    BY <1>3, GotoFrame DEF RemoveFresh, At, RunFrame, store, daemon
  <1>4. CASE RestoreConfig(d) \/ RestoreWeb(d) \/ RestoreWorker(d) \/ RbClear(d)
    BY <1>4, GotoFrame DEF RestoreConfig, RestoreWeb, RestoreWorker, RbClear, At, RunFrame, daemon
  <1> QED
    BY <1>1, <1>2, <1>3, <1>4 DEF Rollback

\* finish respects the frame: it writes the row, then frees the mutex.
LEMMA EndFrame ==
    ASSUME TypeOK, NEW d \in Deploys, Finish(d) \/ Clear(d)
    PROVE  RunFrame(d)
  <1>1. CASE Finish(d)
    BY <1>1, GotoFrame, StatusFrame DEF Finish, At, RunFrame, daemon
  <1>2. CASE Clear(d)
    BY <1>2, GotoFrame DEF Clear, At, RunFrame
  <1> QED
    BY <1>1, <1>2

\* Every step of a run respects the frame.
LEMMA RunStepFrame ==
    ASSUME TypeOK, NEW d \in Deploys, RunStep(d)
    PROVE  RunFrame(d)
  BY GateFrame, FlipFrame, WatchFrame, PromoteFrame, RollbackFrame, EndFrame DEF RunStep

\* A free mutex, 0, is held by no deploy.
LEMMA ZeroIsNoDeploy == 0 \notin Deploys
  BY DeployAssumption DEF Deploys

\* What the daemon's other steps do to the rows: a new one, or the end of one
\* that was still to be resumed.
LEMMA CommandExclusion ==
    ASSUME TypeOK, ExclusionInv, NEW d \in Deploys, Command(d) \/ Resume(d)
    PROVE  ExclusionInv' /\ \A e \in Deploys : Done(e) => rows'[e] = rows[e]
  <1> USE DEF ExclusionInv, MutualExclusion, FinishedHasNoRun, TodoHasNoRun, StoppedRunsNothing, Done
  <1>1. ASSUME NEW kind, Begin(d, kind)
        PROVE  ExclusionInv' /\ \A e \in Deploys : Done(e) => rows'[e] = rows[e]
    <2>1. rows'[d].status = "building" /\ \A e \in Deploys \ {d} : rows'[e] = rows[e]
      BY <1>1 DEF Begin, Unlocked, TypeOK
    <2>2. rows[d].status = "none"
      BY <1>1 DEF Begin, Unlocked, NewId
    <2>3. lock = 0 /\ lock' = d /\ up /\ up' /\ todo' = {}
      BY <1>1 DEF Begin, Unlocked, Serving
    <2>4. pc'[d] = "register" /\ \A e \in Deploys \ {d} : pc'[e] = pc[e]
      BY <1>1, GotoFrame DEF Begin, Unlocked
    <2>5. MutualExclusion'
      BY <2>3, <2>4, ZeroIsNoDeploy
    <2> QED
      BY <2>1, <2>2, <2>3, <2>4, <2>5 DEF Finished
  <1>2. CASE SignalPromote(d) \/ SignalRollback(d)
    BY <1>2 DEF SignalPromote, SignalRollback, store, run
  <1>3. CASE Adopt(d) \/ ResumeWatch(d)
    <2>1. pc'[d] = "lockWait" /\ \A e \in Deploys \ {d} : pc'[e] = pc[e]
      BY <1>3, GotoFrame DEF Adopt, ResumeWatch, TakeOver
    <2>2. rows' = rows /\ lock' = lock /\ up /\ up' /\ todo' = todo \ {d}
      BY <1>3 DEF Adopt, ResumeWatch, Serving
    <2>3. rows[d].status = "watching"
      BY <1>3 DEF Adopt, ResumeWatch
    <2> QED
      BY <2>1, <2>2, <2>3 DEF TypeOK, Finished
  <1>4. CASE ResumeEnd(d)
    <2>1. /\ rows' = rows \/ rows'[d].status = "rolled_back"
          /\ \A e \in Deploys \ {d} : rows'[e] = rows[e]
      BY <1>4, StatusFrame DEF ResumeEnd, EndRow
    <2>2. pc' = pc /\ lock' = lock /\ up /\ up' /\ todo' = todo \ {d} /\ d \in todo
      BY <1>4 DEF ResumeEnd, run
    <2> QED
      BY <2>1, <2>2 DEF TypeOK
  <1>5. CASE ResumeFails(d)
    BY <1>5 DEF ResumeFails, store, run, TypeOK
  <1> QED
    BY <1>1, <1>2, <1>3, <1>4, <1>5 DEF Command, Resume

\* Every step keeps the exclusion invariant and every finished row.
LEMMA ExclusionStep ==
    ASSUME TypeOK, ExclusionInv, [Next]_vars
    PROVE  ExclusionInv' /\ \A e \in Deploys : Done(e) => rows'[e] = rows[e]
  <1> USE DEF ExclusionInv, MutualExclusion, FinishedHasNoRun, TodoHasNoRun, StoppedRunsNothing, Done
  <1>1. CASE UNCHANGED vars
    BY <1>1 DEF vars, store, daemon, run
  <1>2. ASSUME NEW d \in Deploys, RunStep(d)
        PROVE  ExclusionInv' /\ \A e \in Deploys : Done(e) => rows'[e] = rows[e]
    <2>1. RunFrame(d)
      BY <1>2, RunStepFrame
    <2>2. MutualExclusion'
      BY <2>1, ZeroIsNoDeploy DEF RunFrame
    <2>3. \A e \in Deploys : Done(e) => rows'[e] = rows[e]
      BY <2>1 DEF RunFrame
    <2>4. FinishedHasNoRun'
      BY <2>1 DEF RunFrame
    <2>5. TodoHasNoRun'
      BY <2>1 DEF RunFrame, TypeOK
    <2>6. StoppedRunsNothing'
      BY <2>1 DEF RunFrame
    <2> QED
      BY <2>2, <2>3, <2>4, <2>5, <2>6
  <1>3. CASE Crash
    BY <1>3 DEF Crash, store
  <1>4. CASE Restart
    BY <1>4 DEF Restart, Unfinished, store, run
  <1>5. CASE Dies
    BY <1>5 DEF Dies, store, daemon, run
  <1> QED
    BY <1>1, <1>2, <1>3, <1>4, <1>5, CommandExclusion DEF Next

\* The exclusion invariant holds before the first deploy.
LEMMA ExclusionInit == Init => ExclusionInv
  BY DEF Init, ExclusionInv, MutualExclusion, FinishedHasNoRun, TodoHasNoRun, StoppedRunsNothing, Done, Finished

\* Two runs of the environment's deploys are never past its mutex together:
\* a deploy, a rollback and a resumed or adopted watch exclude each other,
\* whatever fails and wherever caramelod dies.
THEOREM DeployMutualExclusion == Spec => []MutualExclusion
  <1>1. ExclusionInv => MutualExclusion
    BY DEF ExclusionInv
  <1>2. TypeOK /\ ExclusionInv /\ [Next]_vars => ExclusionInv'
    BY ExclusionStep
  <1> QED
    BY <1>1, <1>2, ExclusionInit, DeployTypeOK, PTL DEF Spec

\* The row of a deploy that ended is never written again, whatever fails and
\* wherever caramelod dies.
THEOREM DeployFinishedIsFinal == Spec => FinishedIsFinal
  <1>1. TypeOK /\ ExclusionInv /\ [Next]_vars => ExclusionInv'
    BY ExclusionStep
  <1>2. TypeOK /\ ExclusionInv /\ [Next]_vars => [\A d \in Deploys : Done(d) => rows'[d] = rows[d]]_vars
    BY ExclusionStep
  <1> QED
    BY <1>1, <1>2, ExclusionInit, DeployTypeOK, PTL DEF Spec, FinishedIsFinal
=============================================================================
