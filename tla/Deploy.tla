------------------------------- MODULE Deploy -------------------------------
(***************************************************************************)
(* The deploys of one release environment, as internal/env runs them on    *)
(* the machine that serves it: the deploy row and the environment row in   *)
(* the store, the route's targets in the store and the copy of them the    *)
(* edge process serves from, the numbered containers of one service behind *)
(* the edge ("web") and the container of one that is not ("worker"), and   *)
(* the goroutine that walks a deploy through its gates, flips the pool,    *)
(* watches it and promotes it or rolls it back.                            *)
(*                                                                         *)
(* Every step of a run that another process or a restart can observe is an *)
(* action of its own: what the daemon wrote, started or pushed before it   *)
(* stopped is what the next daemon finds.                                  *)
(***************************************************************************)
EXTENDS Integers, FiniteSets

CONSTANTS
    Releases,    \* the releases of the app
    None,        \* no release, no container
    MaxDeploys,  \* bound: the deploy rows the environment ever gets
    Want,        \* replicas `web` asks for
    Slots,       \* replica indexes the environment's port block has room for
    Manual,      \* `deploy.promote` is manual
    Faults,      \* the kinds of failure that may happen
    MaxFaults,   \* bound: how many of them
    CrashAt      \* the steps at which caramelod may die

FaultKinds == {"worker", "push", "stop", "store", "plan", "dies", "crash", "resume"}

Steps ==
    {"idle", "lockWait", "register", "build", "plan", "migrate", "before", "start",
     "bringUp", "checking", "check", "replace", "workerRow", "watching", "record",
     "push", "webRow", "drain", "holdPush", "watch", "await",
     "unrecord", "unpush",
     "stopHeld", "promoteRecord", "promotePush", "setRelease", "commit",
     "rbRecord", "rbPush", "rbRecord2", "rbPush2", "rbClear",
     "restoreConfig", "restoreWeb", "restoreWorker", "removeFresh",
     "finish", "clear"}

ASSUME DeployAssumption ==
    /\ None \notin Releases
    /\ MaxDeploys \in Nat \ {0}
    /\ Want \in Nat \ {0}
    /\ Slots \in Nat \ {0}
    /\ Manual \in BOOLEAN
    /\ Faults \subseteq FaultKinds
    /\ MaxFaults \in Nat
    /\ CrashAt \subseteq Steps

Deploys == 1..MaxDeploys
Index == 1..Slots
MaybeRelease == Releases \cup {None}

Finished == {"promoted", "rolled_back", "failed"}
Statuses == {"none", "building", "migrating", "starting", "checking", "watching"} \cup Finished
TargetStates == {"none", "active", "draining", "held"}

VARIABLES
    \* what the store keeps
    rows,        \* the deploys table
    envDeploy,   \* envs.deploy_id, 0 when no deploy is recorded
    envRelease,  \* envs.release_id
    envConfig,   \* the release whose configuration envs.config_json is
    webRow,      \* the release the services row of `web` names
    workerRow,   \* the release the services row of `worker` names
    targets,     \* the edge_targets of the route of `web`
    \* what runs beside the daemon
    edge,        \* the targets the edge process was last pushed
    replicas,    \* the release each running container of `web` runs
    worker,      \* the release the container of `worker` runs
    \* what the daemon keeps in memory
    up,          \* caramelod is running
    todo,        \* unfinished rows ResumeDeploys has not come to yet
    lock,        \* the run that holds the environment's mutex, or 0
    watches,     \* the deploys with a registered deployWait
    promoteSig,  \* the ones with a promote buffered in it
    rollbackSig, \* the ones with a rollback buffered in it
    pc,          \* the next step of each run
    fresh,       \* pool.fresh: the indexes a run started
    held,        \* pool.held: the indexes it replaces
    pushed,      \* the runs whose flip reached the edge
    replaced,    \* the runs that recreated `worker`
    verdict,     \* the status a run will finish its row with
    faults       \* bound: failures left

store == <<rows, envDeploy, envRelease, envConfig, webRow, workerRow, targets>>
world == <<edge, replicas, worker>>
daemon == <<up, todo, lock, watches, promoteSig, rollbackSig>>
run == <<pc, fresh, held, pushed, replaced, verdict>>
vars == <<store, world, daemon, run, faults>>

rowVars == <<envDeploy, envRelease, envConfig, webRow, workerRow>>

-----------------------------------------------------------------------------
(* State formulae. *)

Done(d) == rows[d].status \in Finished
\* Faulty variant: the check before a deploy is missing.
MutInFlight == FALSE

InFlight == envDeploy # 0 /\ ~Done(envDeploy)
\* Faulty variants: the query of a restart has no filter, or one too many.
MutEveryRow == {d \in Deploys : rows[d].status # "none"}
MutWatchingRows == {d \in Deploys : rows[d].status = "watching"}

Unfinished == {d \in Deploys : rows[d].status # "none" /\ ~Done(d)}
NewId(d) == rows[d].status = "none" /\ \A e \in 1..(d - 1) : rows[e].status # "none"

Running == {i \in Index : replicas[i] # None}
Active(table) == {i \in Index : table[i] = "active"}
Behind(table) == {i \in Index : table[i] \in {"held", "draining"}}

\* The table a pool is recorded as: what is in neither list has no row.
Table(F, fState, H, hState) ==
    [i \in Index |-> IF i \in F THEN fState ELSE IF i \in H THEN hState ELSE "none"]

\* The indexes freeIndexes skips are the ones that run and the ones this run
\* has already used; the next one is the smallest of the rest.
FreeIndexes(d) == Index \ (held[d] \cup fresh[d])
NextIndex(d) == {i \in FreeIndexes(d) : \A j \in FreeIndexes(d) : i <= j}

\* The releases the app has: the ones a deploy of it built.
Built == {rows[e].rel : e \in Deploys} \ {None}

\* `rollback --to R` takes any release the app has, and plain `rollback` the
\* newest promoted one that is not the environment's.
Promoted(e) == rows[e].status = "promoted" /\ rows[e].rel \notin {None, envRelease}
RollbackTargets ==
    Built \cup {rows[e].rel : e \in {x \in Deploys : Promoted(x) /\ \A y \in Deploys : Promoted(y) => y <= x}}

Healthy(d) == (\A i \in fresh[d] : replicas[i] # None) /\ (d \in replaced => worker # None)

Fault(kind) == kind \in Faults /\ faults > 0 /\ faults' = faults - 1
NoFault == UNCHANGED faults

Goto(d, step) == pc' = [pc EXCEPT ![d] = step]
At(d, step) == up /\ pc[d] = step
SetStatus(d, status) == rows' = [rows EXCEPT ![d].status = status]

-----------------------------------------------------------------------------
Init ==
    /\ rows = [d \in Deploys |-> [kind |-> "deploy", status |-> "none", rel |-> None, from |-> None]]
    /\ envDeploy = 0
    /\ envRelease = None
    /\ envConfig = None
    /\ webRow = None
    /\ workerRow = None
    /\ targets = [i \in Index |-> "none"]
    /\ edge = targets
    /\ replicas = [i \in Index |-> None]
    /\ worker = None
    /\ up = TRUE
    /\ todo = {}
    /\ lock = 0
    /\ watches = {} /\ promoteSig = {} /\ rollbackSig = {}
    /\ pc = [d \in Deploys |-> "idle"]
    /\ fresh = [d \in Deploys |-> {}]
    /\ held = [d \in Deploys |-> {}]
    /\ pushed = {} /\ replaced = {}
    /\ verdict = [d \in Deploys |-> "failed"]
    /\ faults = MaxFaults

-----------------------------------------------------------------------------
(* The commands the daemon answers once it has resumed what was in flight. *)

Serving == up /\ todo = {}

\* Faulty variant: nobody waits for the environment's mutex.
MutUnlocked == TRUE

Unlocked == lock = 0

\* Deploy and Rollback, from the check under the environment's mutex to the
\* deploy row.
Begin(d, kind) ==
    /\ Serving
    /\ Unlocked
    /\ ~InFlight
    /\ NewId(d)
    /\ kind = "rollback" => RollbackTargets # {}
    /\ rows' = [rows EXCEPT ![d] = [kind |-> kind, status |-> "building", rel |-> None, from |-> envRelease]]
    /\ lock' = d
    /\ Goto(d, "register")
    /\ NoFault
    /\ UNCHANGED <<rowVars, targets, world, up, todo, watches, promoteSig, rollbackSig,
                   fresh, held, pushed, replaced, verdict>>

\* Promote, and Rollback of the deploy in flight: a signal that the run takes
\* when it next looks, whatever step it is at now.
SignalPromote(d) ==
    /\ Serving
    /\ envDeploy = d /\ d \in watches
    /\ promoteSig' = promoteSig \cup {d}
    /\ NoFault
    /\ UNCHANGED <<store, world, up, todo, lock, watches, rollbackSig, run>>

SignalRollback(d) ==
    /\ Serving
    /\ envDeploy = d /\ d \in watches
    /\ rollbackSig' = rollbackSig \cup {d}
    /\ NoFault
    /\ UNCHANGED <<store, world, up, todo, lock, watches, promoteSig, run>>

-----------------------------------------------------------------------------
(* The gates in front of the flip. *)

\* deployRun.fail. No caller reaches it after the flip was pushed, where it
\* would roll back instead.
StartFail(d) ==
    /\ verdict' = [verdict EXCEPT ![d] = IF d \in pushed THEN "rolled_back" ELSE "failed"]
    /\ Goto(d, IF d \in pushed THEN "rbRecord" ELSE "restoreConfig")

Register(d) ==
    /\ At(d, "register")
    /\ \/ /\ envDeploy' = d
          /\ watches' = watches \cup {d}
          /\ Goto(d, "build")
          /\ NoFault
          /\ UNCHANGED lock
       \/ /\ Fault("store")                    \* the row stays, unwatched
          /\ Goto(d, "idle")
          /\ lock' = 0
          /\ UNCHANGED <<envDeploy, watches>>
    /\ UNCHANGED <<rows, envRelease, envConfig, webRow, workerRow, targets, world,
                   up, todo, promoteSig, rollbackSig, fresh, held, pushed, replaced, verdict>>

Build(d) ==
    /\ At(d, "build")
    /\ \E r \in IF rows[d].kind = "rollback" THEN RollbackTargets ELSE Releases :
          rows' = [rows EXCEPT ![d].rel = r]
    /\ Goto(d, "plan")
    /\ NoFault
    /\ UNCHANGED <<rowVars, targets, world, daemon, fresh, held, pushed, replaced, verdict>>

Plan(d) ==
    /\ At(d, "plan")
    /\ envConfig' = rows[d].rel
    /\ Goto(d, "migrate")
    /\ NoFault
    /\ UNCHANGED <<rows, envDeploy, envRelease, webRow, workerRow, targets, world, daemon,
                   fresh, held, pushed, replaced, verdict>>

\* setStatus at the head of a gate.
EnterGate(d, step, status, next) ==
    /\ At(d, step)
    /\ SetStatus(d, status)
    /\ Goto(d, next)
    /\ NoFault
    /\ UNCHANGED <<rowVars, targets, world, daemon, fresh, held, pushed, replaced, verdict>>

Migrate(d) == EnterGate(d, "migrate", "migrating", "before")
Checking(d) == EnterGate(d, "checking", "checking", "check")
SetWatching(d) == EnterGate(d, "watching", "watching", "record")

\* `deploy.before` and `deploy.check` exit zero.
PassGate(d, step, next) ==
    /\ At(d, step)
    /\ Goto(d, next)
    /\ NoFault
    /\ UNCHANGED <<store, world, daemon, fresh, held, pushed, replaced, verdict>>

Before(d) == PassGate(d, "before", "start")
Check(d) == PassGate(d, "check", "replace")

\* Every running container of the service is the old pool, routed or not.
Start(d) ==
    /\ At(d, "start")
    /\ SetStatus(d, "starting")
    /\ IF 2 * Want <= Slots
       THEN /\ held' = [held EXCEPT ![d] = Running]
            /\ Goto(d, "bringUp")
            /\ UNCHANGED verdict
       ELSE /\ StartFail(d)
            /\ UNCHANGED held
    /\ NoFault
    /\ UNCHANGED <<rowVars, targets, world, daemon, fresh, pushed, replaced>>

\* One replica started, healthy and answering.
BringUp(d) ==
    /\ At(d, "bringUp")
    /\ \E i \in NextIndex(d) :
          /\ replicas' = [replicas EXCEPT ![i] = rows[d].rel]
          /\ fresh' = [fresh EXCEPT ![d] = @ \cup {i}]
          /\ Goto(d, IF Cardinality(fresh[d] \cup {i}) = Want THEN "checking" ELSE "bringUp")
    /\ NoFault
    /\ UNCHANGED <<store, edge, worker, daemon, held, pushed, replaced, verdict>>

\* It failed: with no container, or with one that is not healthy.
BringUpFails(d) ==
    /\ At(d, "bringUp")
    /\ \/ UNCHANGED <<replicas, fresh>>
       \/ \E i \in NextIndex(d) :
             /\ replicas' = [replicas EXCEPT ![i] = rows[d].rel]
             /\ fresh' = [fresh EXCEPT ![d] = @ \cup {i}]
    /\ StartFail(d)
    /\ NoFault
    /\ UNCHANGED <<store, edge, worker, daemon, held, pushed, replaced>>

\* The build, its plan, `deploy.before` or `deploy.check` failed.
GateFails(d) ==
    /\ up /\ pc[d] \in {"build", "plan", "before", "check"}
    /\ StartFail(d)
    /\ NoFault
    /\ UNCHANGED <<store, world, daemon, fresh, held, pushed, replaced>>

\* setStatus could not write the row.
StatusFails(d) ==
    /\ up /\ pc[d] \in {"migrate", "start", "checking", "watching"}
    /\ Fault("store")
    /\ StartFail(d)
    /\ UNCHANGED <<store, world, daemon, fresh, held, pushed, replaced>>

-----------------------------------------------------------------------------
(* The flip. *)

\* recreateService of what is not behind the edge; it can fail before, between
\* or after the removal and the start.
Replace(d) ==
    /\ At(d, "replace")
    /\ replaced' = replaced \cup {d}
    /\ \/ /\ worker' = rows[d].rel
          /\ Goto(d, "workerRow")
          /\ NoFault
          /\ UNCHANGED verdict
       \/ /\ Fault("worker")
          /\ worker' \in {worker, None, rows[d].rel}
          /\ StartFail(d)
    /\ UNCHANGED <<store, edge, replicas, daemon, fresh, held, pushed>>

\* putService; its error is dropped.
PutRow(d, row, next) ==
    /\ Goto(d, next)
    /\ \/ row' = rows[d].rel /\ NoFault
       \/ Fault("store") /\ UNCHANGED row

WorkerRow(d) ==
    /\ At(d, "workerRow")
    /\ PutRow(d, workerRow, "watching")
    /\ UNCHANGED <<rows, envDeploy, envRelease, envConfig, webRow, targets, world, daemon,
                   fresh, held, pushed, replaced, verdict>>

\* recordTargets replaces the route's rows; on an error the step goes to `bad`.
Record(d, table, next, bad) ==
    /\ \/ targets' = table /\ Goto(d, next) /\ NoFault
       \/ Fault("store") /\ Goto(d, bad) /\ UNCHANGED targets
    /\ UNCHANGED <<rows, rowVars, world, daemon, fresh, held, pushed, replaced>>

\* pushRoutes sends what the store holds; an error may come after the edge
\* took the table.
PushTable(d, next, bad) ==
    /\ \/ edge' = targets /\ Goto(d, next) /\ NoFault
       \/ Fault("push") /\ edge' \in {edge, targets} /\ Goto(d, bad)
    /\ UNCHANGED <<store, replicas, worker, daemon, fresh, held, replaced>>

\* Faulty variant: the old pool is not drained.
MutRecordFlip(d) ==
    /\ At(d, "record")
    /\ Record(d, Table(fresh[d], "active", held[d], "active"), "push", "unrecord")
    /\ UNCHANGED verdict

RecordFlip(d) ==
    /\ At(d, "record")
    /\ Record(d, Table(fresh[d], "active", held[d], "draining"), "push", "unrecord")
    /\ UNCHANGED verdict

Push(d) ==
    /\ At(d, "push")
    /\ PushTable(d, "webRow", "unrecord")
    /\ pushed' = IF pc'[d] = "webRow" THEN pushed \cup {d} ELSE pushed
    /\ UNCHANGED verdict

WebRow(d) ==
    /\ At(d, "webRow")
    /\ PutRow(d, webRow, "drain")
    /\ UNCHANGED <<rows, envDeploy, envRelease, envConfig, workerRow, targets, world, daemon,
                   fresh, held, pushed, replaced, verdict>>

\* Faulty variant: what has drained is stopped at once.
MutHold(d) ==
    /\ At(d, "drain")
    /\ Goto(d, "watch") /\ NoFault
    /\ replicas' = [i \in Index |-> IF i \in held[d] THEN None ELSE replicas[i]]
    /\ UNCHANGED <<store, edge, worker, daemon, fresh, held, pushed, replaced, verdict>>

\* hold: the old pool has drained, or its deadline passed.
Hold(d) ==
    /\ At(d, "drain")
    /\ IF held[d] = {}
       THEN /\ Goto(d, "watch") /\ NoFault
            /\ UNCHANGED <<store, world, daemon, fresh, held, pushed, replaced>>
       ELSE Record(d, Table(fresh[d], "active", held[d], "held"), "holdPush", "watch")
    /\ UNCHANGED verdict

HoldPush(d) ==
    /\ At(d, "holdPush")
    /\ PushTable(d, "watch", "watch")
    /\ UNCHANGED <<pushed, verdict>>

\* Faulty variant: the failed flip stays recorded.
MutUnrecord(d) ==
    /\ At(d, "unrecord")
    /\ Goto(d, "unpush") /\ NoFault
    /\ UNCHANGED <<store, world, daemon, fresh, held, pushed, replaced, verdict>>

\* failFlip: the old pool back into the table, then fail.
Unrecord(d) ==
    /\ At(d, "unrecord")
    /\ Record(d, Table({}, "none", held[d], "active"), "unpush", "unpush")
    /\ UNCHANGED verdict

Unpush(d) ==
    /\ At(d, "unpush")
    /\ StartFail(d)
    /\ \/ edge' = targets /\ NoFault
       \/ Fault("push") /\ edge' \in {edge, targets}
    /\ UNCHANGED <<store, replicas, worker, daemon, fresh, held, pushed, replaced>>

-----------------------------------------------------------------------------
(* The watch. Time is abstract: the window may be over at any round, and the *)
(* edge may have counted too many errors at any round.                       *)

Watched(d) == up /\ pc[d] \in {"watch", "await"}

\* The run leaves the watch for `step`, to end with `status`.
Leave(d, step, status) ==
    /\ Goto(d, step)
    /\ verdict' = [verdict EXCEPT ![d] = status]
    /\ NoFault
    /\ UNCHANGED <<store, world, daemon, fresh, held, pushed, replaced>>

\* Too many errors, or a new replica that is gone.
WatchFails(d) ==
    /\ Watched(d)
    /\ Leave(d, "rbRecord", "rolled_back")

WindowOver(d) ==
    /\ At(d, "watch")
    /\ Healthy(d)
    /\ IF Manual
       THEN Leave(d, "await", verdict[d])
       ELSE Leave(d, "stopHeld", "promoted")

PromotedByHand(d) ==
    /\ Watched(d)
    /\ d \in promoteSig
    /\ Leave(d, "stopHeld", "promoted")

RolledBackByHand(d) ==
    /\ Watched(d)
    /\ d \in rollbackSig
    /\ Leave(d, "rbRecord", "rolled_back")

-----------------------------------------------------------------------------
(* Stopping a pool: stopReplica of each container. The ones in `bad` report  *)
(* an error, and the ones of those in `alive` are still running.             *)

StopPool(pool, bad) ==
    \/ /\ bad = {}
       /\ replicas' = [i \in Index |-> IF i \in pool THEN None ELSE replicas[i]]
       /\ NoFault
    \/ /\ bad # {}
       /\ Fault("stop")
       /\ \E alive \in SUBSET bad :
             replicas' = [i \in Index |-> IF i \in pool \ alive THEN None ELSE replicas[i]]

(* promote. *)

StopHeld(d) ==
    /\ At(d, "stopHeld")
    /\ \E bad \in SUBSET held[d] :
          /\ StopPool(held[d], bad)
          /\ Goto(d, IF held[d] \ bad # {} THEN "promoteRecord" ELSE "setRelease")
    /\ held' = [held EXCEPT ![d] = {}]
    /\ UNCHANGED <<store, edge, worker, daemon, fresh, pushed, replaced, verdict>>

PromoteRecord(d) ==
    /\ At(d, "promoteRecord")
    /\ Record(d, Table(fresh[d], "active", {}, "none"), "promotePush", "setRelease")
    /\ UNCHANGED verdict

PromotePush(d) ==
    /\ At(d, "promotePush")
    /\ PushTable(d, "setRelease", "setRelease")
    /\ UNCHANGED <<pushed, verdict>>

SetRelease(d) ==
    /\ At(d, "setRelease")
    /\ Goto(d, "commit")
    /\ \/ /\ envRelease' = IF rows[d].rel # None THEN rows[d].rel ELSE envRelease
          /\ NoFault
       \/ Fault("store") /\ UNCHANGED envRelease
    /\ UNCHANGED <<rows, envDeploy, envConfig, webRow, workerRow, targets, world, daemon,
                   fresh, held, pushed, replaced, verdict>>

\* saveEnv with the commit of the release.
Commit(d) ==
    /\ At(d, "commit")
    /\ Goto(d, "finish")
    /\ \/ envConfig' = (IF rows[d].rel # None THEN rows[d].rel ELSE envConfig) /\ NoFault
       \/ Fault("store") /\ UNCHANGED envConfig
    /\ UNCHANGED <<rows, envDeploy, envRelease, webRow, workerRow, targets, world, daemon,
                   fresh, held, pushed, replaced, verdict>>

-----------------------------------------------------------------------------
(* rollback. *)

\* Faulty variant: the row of a failed rollback stays open.
MutRollbackFailed(d, bad) ==
    verdict' = [verdict EXCEPT ![d] = IF pc'[d] = bad THEN "watching" ELSE @]

\* rollbackFailed, on an error of the first pushPools.
RollbackFailed(d, bad) ==
    verdict' = [verdict EXCEPT ![d] = IF pc'[d] = bad THEN "failed" ELSE @]

RbRecord(d) ==
    /\ At(d, "rbRecord")
    /\ Record(d, Table(fresh[d], "draining", held[d], "active"), "rbPush", "finish")
    /\ RollbackFailed(d, "finish")

\* Faulty variant: the new pool is removed before the edge goes back.
MutRbPush(d) ==
    /\ At(d, "rbPush")
    /\ Goto(d, "removeFresh") /\ NoFault
    /\ UNCHANGED <<store, world, daemon, fresh, held, pushed, replaced, verdict>>

RbPush(d) ==
    /\ At(d, "rbPush")
    /\ PushTable(d, "removeFresh", "finish")
    /\ RollbackFailed(d, "finish")
    /\ UNCHANGED pushed

\* removeFresh, and in a rollback the held pool takes the place of the fresh
\* one.
RemoveFresh(d) ==
    /\ At(d, "removeFresh")
    /\ \E bad \in SUBSET fresh[d] : StopPool(fresh[d], bad)
    /\ IF verdict[d] = "rolled_back"
       THEN /\ fresh' = [fresh EXCEPT ![d] = held[d]]
            /\ held' = [held EXCEPT ![d] = {}]
            /\ Goto(d, "rbRecord2")
       ELSE /\ fresh' = [fresh EXCEPT ![d] = {}]
            /\ Goto(d, "finish")
            /\ UNCHANGED held
    /\ UNCHANGED <<store, edge, worker, daemon, pushed, replaced, verdict>>

RbRecord2(d) ==
    /\ At(d, "rbRecord2")
    /\ Record(d, Table(fresh[d], "active", {}, "none"), "rbPush2", "restoreConfig")
    /\ UNCHANGED verdict

RbPush2(d) ==
    /\ At(d, "rbPush2")
    /\ PushTable(d, "restoreConfig", "restoreConfig")
    /\ UNCHANGED <<pushed, verdict>>

\* The run's own SetEnvDeploy(0), before finish writes the row.
RbClear(d) ==
    /\ At(d, "rbClear")
    /\ Goto(d, "finish")
    /\ \/ envDeploy' = 0 /\ NoFault
       \/ Fault("store") /\ UNCHANGED envDeploy
    /\ UNCHANGED <<rows, envRelease, envConfig, webRow, workerRow, targets, world, daemon,
                   fresh, held, pushed, replaced, verdict>>

-----------------------------------------------------------------------------
(* restorePrevious, which a failed deploy runs before removeFresh and a      *)
(* rolled back one after it. It does nothing for a run that neither replaced *)
(* nor pushed, and nothing for the first deploy.                             *)

Restores(d) == rows[d].from # None /\ (d \in replaced \/ d \in pushed)
AfterRestore(d) == IF verdict[d] = "rolled_back" THEN "rbClear" ELSE "removeFresh"

RestoreConfig(d) ==
    /\ At(d, "restoreConfig")
    /\ \/ /\ ~Restores(d)
          /\ Goto(d, AfterRestore(d))
          /\ NoFault /\ UNCHANGED envConfig
       \/ /\ Restores(d)
          /\ Goto(d, "restoreWeb")
          /\ \/ envConfig' = rows[d].from /\ NoFault
             \/ Fault("store") /\ UNCHANGED envConfig
       \/ /\ Restores(d)                       \* releasePlan failed
          /\ Fault("plan")
          /\ Goto(d, AfterRestore(d))
          /\ UNCHANGED envConfig
    /\ UNCHANGED <<rows, envDeploy, envRelease, webRow, workerRow, targets, world, daemon,
                   fresh, held, pushed, replaced, verdict>>

\* Faulty variant: only what was recreated gets its row back.
MutRestoreWeb(d) ==
    /\ At(d, "restoreWeb")
    /\ Goto(d, "restoreWorker") /\ NoFault
    /\ UNCHANGED <<store, world, daemon, fresh, held, pushed, replaced, verdict>>

RestoreWeb(d) ==
    /\ At(d, "restoreWeb")
    /\ Goto(d, "restoreWorker")
    /\ \/ webRow' = (IF d \in pushed THEN rows[d].from ELSE webRow) /\ NoFault
       \/ d \in pushed /\ Fault("store") /\ UNCHANGED webRow
    /\ UNCHANGED <<rows, envDeploy, envRelease, envConfig, workerRow, targets, world, daemon,
                   fresh, held, pushed, replaced, verdict>>

RestoreWorker(d) ==
    /\ At(d, "restoreWorker")
    /\ Goto(d, AfterRestore(d))
    /\ \/ /\ worker' = IF d \in replaced THEN rows[d].from ELSE worker
          /\ \/ workerRow' = (IF d \in replaced THEN rows[d].from ELSE workerRow) /\ NoFault
             \/ d \in replaced /\ Fault("store") /\ UNCHANGED workerRow
       \/ /\ d \in replaced
          /\ Fault("worker")
          /\ worker' \in {worker, None, rows[d].from}
          /\ UNCHANGED workerRow
    /\ UNCHANGED <<rows, envDeploy, envRelease, envConfig, webRow, targets, edge, replicas, daemon,
                   fresh, held, pushed, replaced, verdict>>

-----------------------------------------------------------------------------
(* finish: the row, the environment's pointer to it, the waiter, the mutex.  *)

Finish(d) ==
    /\ At(d, "finish")
    /\ Goto(d, "clear")
    /\ \/ SetStatus(d, verdict[d]) /\ NoFault
       \/ Fault("store") /\ UNCHANGED rows
    /\ UNCHANGED <<rowVars, targets, world, daemon, fresh, held, pushed, replaced, verdict>>

Forget(d) ==
    /\ fresh' = [fresh EXCEPT ![d] = {}]
    /\ held' = [held EXCEPT ![d] = {}]
    /\ pushed' = pushed \ {d}
    /\ replaced' = replaced \ {d}
    /\ promoteSig' = promoteSig \ {d}
    /\ rollbackSig' = rollbackSig \ {d}

Clear(d) ==
    /\ At(d, "clear")
    /\ Goto(d, "idle")
    /\ \/ envDeploy' = 0 /\ NoFault
       \/ Fault("store") /\ UNCHANGED envDeploy
    /\ watches' = watches \ {d}
    /\ lock' = 0
    /\ Forget(d)
    /\ UNCHANGED <<rows, envRelease, envConfig, webRow, workerRow, targets, world, up, todo, verdict>>

-----------------------------------------------------------------------------
(* caramelod stops and starts again. The edge and the containers do not.     *)

Crash ==
    /\ up
    /\ \A d \in Deploys : pc[d] \in CrashAt \cup {"idle"}
    /\ Fault("crash")
    /\ up' = FALSE
    /\ todo' = {} /\ lock' = 0
    /\ watches' = {} /\ promoteSig' = {} /\ rollbackSig' = {}
    /\ pc' = [d \in Deploys |-> "idle"]
    /\ fresh' = [d \in Deploys |-> {}]
    /\ held' = [d \in Deploys |-> {}]
    /\ pushed' = {} /\ replaced' = {}
    /\ UNCHANGED <<store, world, verdict>>

\* PushRoutes, then the list of rows to resume.
Restart ==
    /\ ~up
    /\ up' = TRUE
    /\ todo' = Unfinished
    /\ \/ edge' = targets /\ NoFault
       \/ Fault("push") /\ UNCHANGED edge
    /\ UNCHANGED <<store, replicas, worker, lock, watches, promoteSig, rollbackSig, run>>

\* resumeRun reads the pools from the targets table: what is active is the new
\* pool, what is held or still draining the old one, and a table that had a
\* draining target is recorded and pushed again.
Normalised == [i \in Index |-> IF targets[i] = "draining" THEN "held" ELSE targets[i]]
RepushNormalised ==
    /\ targets' = Normalised
    /\ edge' = IF Normalised # targets THEN Normalised ELSE edge

\* An error of that push is only a warning.
RepushFails ==
    /\ Normalised # targets
    /\ \/ Fault("store") /\ UNCHANGED <<targets, edge>>
       \/ Fault("push") /\ targets' = Normalised /\ edge' \in {edge, Normalised}

\* Faulty variant: the pools are read the wrong way round.
MutTakeOver(d) ==
    /\ (RepushNormalised /\ NoFault) \/ RepushFails
    /\ fresh' = [fresh EXCEPT ![d] = Behind(targets)]
    /\ held' = [held EXCEPT ![d] = Active(targets)]
    /\ watches' = watches \cup {d}
    /\ Goto(d, "lockWait")

\* takeOverWatch: a run that waits for the environment's mutex.
TakeOver(d) ==
    /\ (RepushNormalised /\ NoFault) \/ RepushFails
    /\ fresh' = [fresh EXCEPT ![d] = Active(targets)]
    /\ held' = [held EXCEPT ![d] = Behind(targets)]
    /\ watches' = watches \cup {d}
    /\ Goto(d, "lockWait")

ResumeWatch(d) ==
    /\ up /\ d \in todo /\ \A e \in todo : d <= e
    /\ rows[d].status = "watching"
    /\ TakeOver(d)
    /\ todo' = todo \ {d}
    /\ UNCHANGED <<rows, rowVars, replicas, worker, up, lock, promoteSig, rollbackSig,
                   pushed, replaced, verdict>>

\* Faulty variant: the containers of a deploy that had not switched stay.
MutResumeEnd(d) ==
    /\ up /\ d \in todo /\ \A e \in todo : d <= e
    /\ rows[d].status # "watching"
    /\ RepushNormalised
    /\ SetStatus(d, "rolled_back")
    /\ envDeploy' = 0
    /\ todo' = todo \ {d}
    /\ NoFault
    /\ UNCHANGED <<replicas, envRelease, envConfig, webRow, workerRow, worker, up, lock, watches,
                   promoteSig, rollbackSig, run>>

\* A deploy that had not switched is over: cleanStrays, then finish. Its
\* strays are the running containers of its release that no target names.
Strays(d) == {i \in Running : targets[i] = "none" /\ replicas[i] = rows[d].rel}
CleanStrays(d) == replicas' = [i \in Index |-> IF i \in Strays(d) THEN None ELSE replicas[i]]
EndRow(d) == SetStatus(d, "rolled_back") /\ envDeploy' = 0

ResumeEnd(d) ==
    /\ up /\ d \in todo /\ \A e \in todo : d <= e
    /\ rows[d].status # "watching"
    /\ \/ /\ RepushNormalised /\ EndRow(d)
          /\ \E bad \in SUBSET Strays(d) : StopPool(Strays(d), bad)
       \/ RepushFails /\ EndRow(d) /\ CleanStrays(d)
       \/ /\ RepushNormalised /\ CleanStrays(d)
          /\ Fault("store")
          /\ \/ UNCHANGED rows /\ envDeploy' = 0
             \/ SetStatus(d, "rolled_back") /\ UNCHANGED envDeploy
    /\ todo' = todo \ {d}
    /\ UNCHANGED <<envRelease, envConfig, webRow, workerRow, worker, up, lock, watches,
                   promoteSig, rollbackSig, run>>

\* resume returned an error: the row stays as it is and nothing watches it. It
\* happens once for each row that a crash left, so no bound is needed.
ResumeFails(d) ==
    /\ up /\ d \in todo /\ \A e \in todo : d <= e
    /\ "resume" \in Faults /\ NoFault
    /\ todo' = todo \ {d}
    /\ UNCHANGED <<store, world, up, lock, watches, promoteSig, rollbackSig, run>>

\* adopt: a promote or a rollback finds the environment's deploy watching and
\* nobody watching it.
Adopt(d) ==
    /\ Serving
    /\ envDeploy = d /\ d \notin watches
    /\ rows[d].status = "watching"
    /\ TakeOver(d)
    /\ UNCHANGED <<rows, rowVars, replicas, worker, up, todo, lock, promoteSig, rollbackSig,
                   pushed, replaced, verdict>>

TakeLock(d) ==
    /\ At(d, "lockWait")
    /\ Unlocked
    /\ lock' = d
    /\ Goto(d, "watch")
    /\ NoFault
    /\ UNCHANGED <<store, world, up, todo, watches, promoteSig, rollbackSig,
                   fresh, held, pushed, replaced, verdict>>

\* A container of the environment exits.
Dies ==
    /\ Fault("dies")
    /\ \/ \E i \in Running : replicas' = [replicas EXCEPT ![i] = None] /\ UNCHANGED worker
       \/ worker # None /\ worker' = None /\ UNCHANGED replicas
    /\ UNCHANGED <<store, edge, daemon, run>>

-----------------------------------------------------------------------------
Gate(d) ==
    \/ Register(d) \/ Build(d) \/ Plan(d) \/ Migrate(d) \/ Before(d)
    \/ Start(d) \/ BringUp(d) \/ BringUpFails(d) \/ Checking(d) \/ Check(d)
    \/ GateFails(d) \/ StatusFails(d)

Flip(d) ==
    \/ Replace(d) \/ WorkerRow(d) \/ SetWatching(d) \/ RecordFlip(d) \/ Push(d)
    \/ WebRow(d) \/ Hold(d) \/ HoldPush(d) \/ Unrecord(d) \/ Unpush(d)

Watch(d) ==
    \/ TakeLock(d) \/ WatchFails(d) \/ WindowOver(d)
    \/ PromotedByHand(d) \/ RolledBackByHand(d)

Promote(d) ==
    \/ StopHeld(d) \/ PromoteRecord(d) \/ PromotePush(d) \/ SetRelease(d) \/ Commit(d)

Rollback(d) ==
    \/ RbRecord(d) \/ RbPush(d) \/ RemoveFresh(d) \/ RbRecord2(d) \/ RbPush2(d)
    \/ RestoreConfig(d) \/ RestoreWeb(d) \/ RestoreWorker(d) \/ RbClear(d)

RunStep(d) == Gate(d) \/ Flip(d) \/ Watch(d) \/ Promote(d) \/ Rollback(d) \/ Finish(d) \/ Clear(d)

Command(d) ==
    \/ Begin(d, "deploy") \/ Begin(d, "rollback")
    \/ SignalPromote(d) \/ SignalRollback(d) \/ Adopt(d)

Resume(d) == ResumeWatch(d) \/ ResumeEnd(d) \/ ResumeFails(d)

Next ==
    \/ \E d \in Deploys : RunStep(d) \/ Command(d) \/ Resume(d)
    \/ Crash \/ Restart \/ Dies

Spec == Init /\ [][Next]_vars

\* A goroutine that can take a step takes it, and the service manager starts
\* a daemon that died. Commands, failures and deaths are never owed.
Fairness ==
    /\ \A d \in Deploys : WF_vars(RunStep(d))
    /\ \A d \in Deploys : WF_vars(Resume(d))
    /\ WF_vars(Restart)

FairSpec == Spec /\ Fairness

-----------------------------------------------------------------------------
(* Properties. *)

Row == [kind : {"deploy", "rollback"}, status : Statuses, rel : MaybeRelease, from : MaybeRelease]

\* The type of every variable.
TypeOK ==
    /\ rows \in [Deploys -> Row]
    /\ envDeploy \in Deploys \cup {0}
    /\ envRelease \in MaybeRelease
    /\ envConfig \in MaybeRelease
    /\ webRow \in MaybeRelease
    /\ workerRow \in MaybeRelease
    /\ targets \in [Index -> TargetStates]
    /\ edge \in [Index -> TargetStates]
    /\ replicas \in [Index -> MaybeRelease]
    /\ worker \in MaybeRelease
    /\ up \in BOOLEAN
    /\ todo \subseteq Deploys
    /\ lock \in Deploys \cup {0}
    /\ watches \subseteq Deploys
    /\ promoteSig \subseteq Deploys
    /\ rollbackSig \subseteq Deploys
    /\ pc \in [Deploys -> Steps]
    /\ fresh \in [Deploys -> SUBSET Index]
    /\ held \in [Deploys -> SUBSET Index]
    /\ pushed \subseteq Deploys
    /\ replaced \subseteq Deploys
    /\ verdict \in [Deploys -> Finished]
    /\ faults \in 0..MaxFaults

\* No deploy is being run, watched or resumed.
Quiet == Serving /\ Unfinished = {} /\ \A d \in Deploys : pc[d] = "idle"

\* Once a release was promoted the edge always has a target to send traffic
\* to, and every target it sends traffic to is a running container: the old
\* pool is only stopped after the edge stopped using it, by whatever path the
\* deploy ends (runDeploy, fail, promote, rollback, ResumeDeploys).
NoOutage ==
    /\ envRelease # None => Active(edge) # {}
    /\ \A i \in Active(edge) : replicas[i] # None

\* The edge never sends traffic to a container of the pool that is brought in
\* and to one of the pool it replaces at the same time, whichever way the
\* flip, its undoing or a rollback went.
PoolsNeverMix ==
    \A d \in Deploys : fresh[d] \cap Active(edge) # {} => Active(edge) \subseteq fresh[d]

\* While a deploy is watched the whole previous pool is still running, so a
\* rollback inside the window is only a flip of the table.
HeldPoolReady ==
    \A d \in Deploys :
        pc[d] \in {"lockWait", "watch", "await"} /\ rows[d].from # None =>
            /\ held[d] # {}
            /\ \A i \in held[d] : replicas[i] = rows[d].from

\* When no deploy is in progress the edge serves the release the environment
\* row names, and nothing when it names none.
QuietServesRelease ==
    Quiet => {replicas[i] : i \in Active(edge)} = {envRelease} \ {None}

\* When no deploy is in progress every running container of the service is in
\* the table, and the table the edge has is the one the store has: a deploy
\* that failed, was rolled back or was cut short leaves no container behind.
QuietNoStrays ==
    Quiet => Running = Active(targets) /\ edge = targets

\* When no deploy is in progress the services' rows name, and the service that
\* is not behind the edge runs, the release that serves (the first deploy has
\* nothing to put back).
QuietRecordsAgree ==
    Quiet /\ envRelease # None =>
        webRow = envRelease /\ workerRow = envRelease /\ worker = envRelease

\* As long as nothing has failed (a deploy that a gate, its watch or a person
\* refuses is no failure), the records of a quiet environment agree.
UndisturbedAgrees == faults = MaxFaults => QuietRecordsAgree

\* A run past the environment's mutex is the one that holds it: two deploys,
\* or a deploy and a resumed one, never interleave.
MutualExclusion ==
    \A d \in Deploys : pc[d] \notin {"idle", "lockWait"} => lock = d

\* The record of a deploy that ended is never written again, by its own run,
\* by a resumed one or by an adopted one.
FinishedIsFinal ==
    [][\A d \in Deploys : Done(d) => rows'[d] = rows[d]]_vars

\* At most one unfinished deploy is the environment's or has a run, across
\* restarts, resumptions that fail and adoptions: the row, the pointer to it
\* and the mutex let one in at a time.
Driven(d) == d \in Unfinished /\ (envDeploy = d \/ pc[d] # "idle")
AtMostOneInFlight == \A d, e \in Deploys : Driven(d) /\ Driven(e) => d = e

\* Between deploys the edge serves the release of the environment, no
\* container is left beside those of the table, and, if nothing failed, the
\* rows of the services name what serves; and one unfinished deploy at a time
\* is driven, whatever died.
QuietDeploys ==
    QuietServesRelease /\ QuietNoStrays /\ AtMostOneInFlight /\ UndisturbedAgrees

\* Every deploy that got a row ends.
DeploysEnd == \A d \in Deploys : (rows[d].status # "none") ~> Done(d)

\* What the traffic sees is the abstract switch.
Live == IF Active(edge) = {} THEN None ELSE replicas[CHOOSE i \in Active(edge) : TRUE]
SW == INSTANCE Switch WITH live <- Live, committed <- envRelease
RefinesSwitch == SW!Spec
=============================================================================
