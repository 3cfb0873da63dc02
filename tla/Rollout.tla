------------------------------ MODULE Rollout ------------------------------
(***************************************************************************)
(* `up` and `down` of a work environment with one service (internal/env    *)
(* up.go, rollout.go, replicas.go, down.go): the service's row, its        *)
(* containers by index, the targets recorded for its route and the table   *)
(* the edge was last pushed.                                               *)
(*                                                                         *)
(* A service behind the edge is rolled out: new replicas start on free     *)
(* indexes, one push moves the route to them, the old ones drain and stop. *)
(* A service without a route is reconciled in place. A command holds the   *)
(* environment's mutex, so there is one at a time; the containers change   *)
(* by themselves and the code and the secrets are edited at any time.      *)
(***************************************************************************)
EXTENDS Integers, FiniteSets

CONSTANTS
    UpWant,         \* replicas the configuration asks for
    UpSlots,        \* indexes the service's share of the port block has room for
    Versions,       \* the versions of the code and of the variables
    UpFaultKinds,   \* the kinds of failure that may happen, of "store",
                    \* "runtime", "push" and "crash"
    MaxUpFaults,    \* bound: how many of them
    MaxUpCommands,  \* bound: commands given
    MaxUpEvents     \* bound: edits, and containers that change by themselves

\* There is room for a pool (layout.fits asks for two); versions are told
\* apart by number.
ASSUME RolloutAssumption ==
    /\ UpWant \in Nat \ {0} /\ UpSlots \in Nat /\ UpWant <= UpSlots
    /\ Versions \subseteq Nat /\ Versions # {}

UpSlot == 1..UpSlots
Legacy == 0  \* legacyReplica: the container of a version without replicas

VARIABLES
    exposed,   \* the service has a route
    code,      \* the version in the worktree (treeHash)
    secret,    \* the version of the variables (the secrets' digest)
    serviceRow,       \* the row of the services table
    cont,      \* the containers, by index
    pooled,   \* the edge_targets table: the state of each index
    edgeTable,      \* the same, as last pushed
    upCmd,       \* the command that holds the environment
    upFaults, upCommands, upEvents  \* what the bounds leave

upStore == <<serviceRow, pooled>>
upBounds == <<upFaults, upCommands, upEvents>>
upVars == <<exposed, code, secret, serviceRow, cont, pooled, edgeTable, upCmd, upFaults, upCommands, upEvents>>

PoolStates == {"none", "active", "draining", "unhealthy"}
NoTargets == [i \in UpSlot |-> "none"]
NoRow == [status |-> "none", vars |-> 0]

\* "sick" runs and does not answer its check; "exited" is there and not running.
NoContainer == [is |-> "none", tree |-> 0, vars |-> 0]
There(i) == cont[i].is # "none"
RunningReplica(i) == cont[i].is \in {"ok", "sick"}

NoCommand == [pc |-> "idle", tree |-> 0, vars |-> 0, old |-> {}, todo |-> {}, fresh |-> {},
         same |-> FALSE, ok |-> TRUE]

UpAt(step) == upCmd.pc = step
UpGoto(step) == upCmd' = [upCmd EXCEPT !.pc = step]
UpFault(kind) == kind \in UpFaultKinds /\ upFaults > 0 /\ upFaults' = upFaults - 1
NoUpFault == UNCHANGED upFaults
First(S) == CHOOSE i \in S : \A j \in S : i <= j

\* A service with or without a route, and with the container of an old version
\* or without.
RolloutWith(route, old) ==
    /\ exposed = route
    /\ code = First(Versions) /\ secret = First(Versions)
    /\ serviceRow = NoRow
    /\ cont = [i \in UpSlot \cup {Legacy} |->
                 IF i = Legacy /\ old THEN [is |-> "ok", tree |-> 0, vars |-> 0]
                                      ELSE NoContainer]
    /\ pooled = NoTargets /\ edgeTable = NoTargets
    /\ upCmd = NoCommand
    /\ upFaults = MaxUpFaults /\ upCommands = MaxUpCommands /\ upEvents = MaxUpEvents

RolloutInit == \E route, old \in BOOLEAN : RolloutWith(route, old)

-----------------------------------------------------------------------------
(* What an up reads and decides. *)

\* liveReplicas, numbered, runningReplicas, legacyOf.
LiveReplicas == {i \in UpSlot \cup {Legacy} : There(i)}
RunningPool == {i \in UpSlot : RunningReplica(i)}
Upgrading == There(Legacy)

\* freeIndexes: the lowest n indexes that are not in use, within the ports or not.
FreeIndexesOf(used, n) ==
    CHOOSE S \in SUBSET (1..(UpSlots + n)) :
        /\ Cardinality(S) = n /\ S \cap used = {}
        /\ \A i \in S : \A j \in 1..i : j \in S \cup used

\* unchanged: the row has the definition that is asked for.
Unchanged(v) == serviceRow.status # "none" /\ serviceRow.vars = v

\* Faulty variant: nobody looks at the code the replicas run.
MutStaleTree(pool, tree) == FALSE

\* staleTree: some replica of the pool was started from other code.
StaleTree(pool, tree) == \E i \in pool : cont[i].tree # tree

\* Faulty variant: the replica's own state is recorded in place of its target's.
MutTargetsOf(active, draining) ==
    [i \in UpSlot |-> IF i \in active THEN "healthy"
                    ELSE IF i \in draining THEN "draining" ELSE "none"]

\* The rows recordTargets writes for a pool: what is not in it loses its row.
TargetsOf(active, draining) ==
    [i \in UpSlot |-> IF i \in active THEN "active"
                    ELSE IF i \in draining THEN "draining" ELSE "none"]

\* runContainer: the new container answers its check, or not yet, or never.
Started(v) == {[is |-> h, tree |-> v.tree, vars |-> v.vars] : h \in {"ok", "sick"}}

\* The runtime fails in Remove (the container is as it was) or in Run (it is
\* gone, or one is left that does not run).
HalfStarted(i, v) == {cont[i], NoContainer, [is |-> "exited", tree |-> v.tree, vars |-> v.vars]}

-----------------------------------------------------------------------------
(* up *)

\* Up: lock, buildPlan, saveEnv, ensureNetwork, planRoutes, treeHash. Errors
\* up to here end the command and change nothing modelled.
UpBegin ==
    /\ UpAt("idle") /\ upCommands > 0 /\ upCommands' = upCommands - 1
    /\ upCmd' = [NoCommand EXCEPT !.pc = IF exposed THEN "roll" ELSE "reconcile",
                           !.tree = code, !.vars = secret, !.todo = 1..UpWant,
                           !.same = Unchanged(secret)]
    /\ UNCHANGED <<exposed, code, secret, upStore, cont, edgeTable, upFaults, upEvents>>

\* A step of rollService failed: upService still records the row.
Failed == [upCmd EXCEPT !.pc = "put", !.ok = FALSE]

\* rollService: what runs, whether it is what is asked for, and the indexes of
\* the new pool.
UpRoll ==
    /\ UpAt("roll")
    /\ LET same == upCmd.same /\ ~StaleTree(RunningPool, upCmd.tree)
           keep == same /\ Cardinality(RunningPool) = UpWant /\ ~Upgrading
       IN \/ /\ NoUpFault
             /\ upCmd' = IF keep
                       THEN [upCmd EXCEPT !.pc = "record", !.fresh = RunningPool, !.todo = {}]
                       ELSE [upCmd EXCEPT !.pc = "start", !.old = RunningPool,
                                        !.todo = FreeIndexesOf(RunningPool, UpWant)]
          \/ /\ UpFault("runtime")
             /\ upCmd' = Failed
    /\ UNCHANGED <<exposed, code, secret, upStore, cont, edgeTable, upCommands, upEvents>>

\* startReplica on the next index; past the service's ports it is an error.
UpStart ==
    /\ UpAt("start")
    /\ LET i == First(upCmd.todo) IN
       \/ /\ i \notin UpSlot
          /\ upCmd' = Failed
          /\ NoUpFault /\ UNCHANGED cont
       \/ /\ i \in UpSlot
          /\ \E c \in Started(upCmd) : cont' = [cont EXCEPT ![i] = c]
          /\ UpGoto("health")
          /\ NoUpFault
       \/ /\ i \in UpSlot
          /\ UpFault("runtime")
          /\ \E c \in HalfStarted(i, upCmd) : cont' = [cont EXCEPT ![i] = c]
          /\ upCmd' = Failed
    /\ UNCHANGED <<exposed, code, secret, upStore, edgeTable, upCommands, upEvents>>

\* healthReplica and probeReplica: it answers before the deadline, or not.
UpHealth ==
    /\ UpAt("health")
    /\ LET i == First(upCmd.todo)
           rest == upCmd.todo \ {i}
       IN \/ /\ cont[i].is = "ok"
             /\ upCmd' = [upCmd EXCEPT !.pc = IF rest = {} THEN "record" ELSE "start",
                                   !.fresh = @ \cup {i}, !.todo = rest]
          \/ /\ cont[i].is # "ok"
             /\ upCmd' = Failed
    /\ UNCHANGED <<exposed, code, secret, upStore, cont, edgeTable, upBounds>>

\* recordTargets: of the flip, of a pool that is unchanged, and of what is
\* left after an old replica stopped.
UpRecord ==
    /\ UpAt("record")
    /\ \/ /\ pooled' = TargetsOf(upCmd.fresh, upCmd.old)
          /\ UpGoto("push")
          /\ NoUpFault
       \/ /\ UpFault("store")
          /\ upCmd' = Failed
          /\ UNCHANGED pooled
    /\ UNCHANGED <<exposed, code, secret, serviceRow, cont, edgeTable, upCommands, upEvents>>

\* pushRoutes, after each record. flipPool goes on to drain the old pool, and
\* the last push of all to a container of an old version.
AfterPush == IF upCmd.old # {} THEN "drain" ELSE IF Upgrading THEN "legacy" ELSE "put"

\* Faulty variant: the old pool is stopped before the route has moved.
MutUpPush ==
    /\ UpAt("push")
    /\ UpGoto(AfterPush)
    /\ NoUpFault
    /\ UNCHANGED <<exposed, code, secret, upStore, cont, edgeTable, upCommands, upEvents>>

UpPush ==
    /\ UpAt("push")
    /\ \/ /\ edgeTable' = pooled
          /\ UpGoto(AfterPush)
          /\ NoUpFault
       \/ /\ UpFault("push")
          /\ upCmd' = Failed
          /\ UNCHANGED edgeTable
    /\ UNCHANGED <<exposed, code, secret, upStore, cont, upCommands, upEvents>>

\* stopReplica of index i, and the command's next step: Stop may fail (it
\* runs), or Remove may (it is stopped and there).
Stops(i, next) ==
    \/ /\ cont' = [cont EXCEPT ![i] = NoContainer]
       /\ upCmd' = next
       /\ NoUpFault
    \/ /\ UpFault("runtime")
       /\ \E c \in {cont[i], [cont[i] EXCEPT !.is = "exited"]} : cont' = [cont EXCEPT ![i] = c]
       /\ upCmd' = Failed

\* drainAndStop: waitDrain ends one way or the other; then the replica stops
\* and the pool without it is published.
UpDrain ==
    /\ UpAt("drain")
    /\ LET i == First(upCmd.old) IN Stops(i, [upCmd EXCEPT !.pc = "record", !.old = @ \ {i}])
    /\ UNCHANGED <<exposed, code, secret, upStore, edgeTable, upCommands, upEvents>>

UpLegacy ==
    /\ UpAt("legacy")
    /\ Stops(Legacy, [upCmd EXCEPT !.pc = "put"])
    /\ UNCHANGED <<exposed, code, secret, upStore, edgeTable, upCommands, upEvents>>

\* upService records the row of a rolled out service whatever came of it, and
\* drops the error; waitServices has nothing to wait for.
UpPut ==
    /\ UpAt("put")
    /\ \/ /\ serviceRow' = [status |-> "up", vars |-> upCmd.vars]
          /\ NoUpFault
       \/ /\ UpFault("store")
          /\ UNCHANGED serviceRow
    /\ upCmd' = NoCommand
    /\ UNCHANGED <<exposed, code, secret, cont, pooled, edgeTable, upCommands, upEvents>>

-----------------------------------------------------------------------------
(* up of a service without a route *)

\* reconcileReplica: what runs the same definition is left alone.
UpReconcile ==
    /\ UpAt("reconcile")
    /\ LET i == First(upCmd.todo)
           rest == upCmd.todo \ {i}
           next == [upCmd EXCEPT !.todo = rest, !.pc = IF rest = {} THEN "extras" ELSE "reconcile"]
       IN \/ /\ upCmd.same /\ RunningReplica(i)
             /\ upCmd' = next
             /\ NoUpFault /\ UNCHANGED cont
          \/ /\ ~(upCmd.same /\ RunningReplica(i))
             /\ \E c \in Started(upCmd) : cont' = [cont EXCEPT ![i] = c]
             /\ upCmd' = next
             /\ NoUpFault
          \/ /\ ~(upCmd.same /\ RunningReplica(i))
             /\ UpFault("runtime")
             /\ \E c \in HalfStarted(i, upCmd) : cont' = [cont EXCEPT ![i] = c]
             /\ upCmd' = NoCommand
    /\ UNCHANGED <<exposed, code, secret, upStore, edgeTable, upCommands, upEvents>>

\* What recreateService removes once the replicas are there.
Extras == {i \in LiveReplicas : i = Legacy \/ i > UpWant}

UpExtras ==
    /\ UpAt("extras")
    /\ \/ /\ cont' = [i \in DOMAIN cont |-> IF i \in Extras THEN NoContainer ELSE cont[i]]
          /\ UpGoto("putrow")
          /\ NoUpFault
       \/ /\ UpFault("runtime")
          /\ \E S \in SUBSET Extras :
                cont' = [i \in DOMAIN cont |-> IF i \in S THEN NoContainer ELSE cont[i]]
          /\ upCmd' = NoCommand
    /\ UNCHANGED <<exposed, code, secret, upStore, edgeTable, upCommands, upEvents>>

\* putService, and waitServices, which writes the row again and fails when a
\* replica does not answer in time.
UpPutRow ==
    /\ UpAt("putrow")
    /\ \/ /\ serviceRow' = [status |-> "up", vars |-> upCmd.vars]
          /\ NoUpFault
       \/ /\ UpFault("store")
          /\ UNCHANGED serviceRow
    /\ upCmd' = NoCommand
    /\ UNCHANGED <<exposed, code, secret, cont, pooled, edgeTable, upCommands, upEvents>>

Up ==
    \/ UpBegin \/ UpRoll \/ UpStart \/ UpHealth \/ UpRecord \/ UpPush \/ UpDrain
    \/ UpLegacy \/ UpPut \/ UpReconcile \/ UpExtras \/ UpPutRow

-----------------------------------------------------------------------------
(* down *)

\* Down removes every container of the service.
DownBegin ==
    /\ UpAt("idle") /\ upCommands > 0 /\ upCommands' = upCommands - 1
    /\ upCmd' = [NoCommand EXCEPT !.pc = "remove"]
    /\ UNCHANGED <<exposed, code, secret, upStore, cont, edgeTable, upFaults, upEvents>>

DownRemove ==
    /\ UpAt("remove")
    /\ \/ /\ cont' = [i \in DOMAIN cont |-> NoContainer]
          /\ UpGoto("stopped")
          /\ NoUpFault
       \/ /\ UpFault("runtime")
          /\ \E S \in SUBSET LiveReplicas :
                cont' = [i \in DOMAIN cont |-> IF i \in S THEN NoContainer ELSE cont[i]]
          /\ upCmd' = NoCommand
    /\ UNCHANGED <<exposed, code, secret, upStore, edgeTable, upCommands, upEvents>>

\* The row of a service that was never up has no variables (serviceRows).
DownRow ==
    /\ UpAt("stopped")
    /\ \/ /\ serviceRow' = [serviceRow EXCEPT !.status = "stopped"]
          /\ UpGoto(IF exposed THEN "clear" ELSE "idle")
          /\ NoUpFault
       \/ /\ UpFault("store")
          /\ upCmd' = NoCommand
          /\ UNCHANGED serviceRow
    /\ UNCHANGED <<exposed, code, secret, cont, pooled, edgeTable, upCommands, upEvents>>

\* Faulty variant: the pool keeps its rows.
MutDownClear ==
    /\ UpAt("clear")
    /\ UpGoto("unpush")
    /\ NoUpFault
    /\ UNCHANGED <<exposed, code, secret, upStore, cont, edgeTable, upCommands, upEvents>>

\* clearTargets and its push.
DownClear ==
    /\ UpAt("clear")
    /\ \/ /\ pooled' = NoTargets
          /\ UpGoto("unpush")
          /\ NoUpFault
       \/ /\ UpFault("store")
          /\ upCmd' = NoCommand
          /\ UNCHANGED pooled
    /\ UNCHANGED <<exposed, code, secret, serviceRow, cont, edgeTable, upCommands, upEvents>>

DownPush ==
    /\ UpAt("unpush")
    /\ \/ edgeTable' = pooled /\ NoUpFault
       \/ UpFault("push") /\ UNCHANGED edgeTable
    /\ upCmd' = NoCommand
    /\ UNCHANGED <<exposed, code, secret, upStore, cont, upCommands, upEvents>>

Down == DownBegin \/ DownRemove \/ DownRow \/ DownClear \/ DownPush

-----------------------------------------------------------------------------
(* The rest of the machine. *)

\* keepEdgeTable: the recorded table is pushed from time to time.
Keep ==
    /\ edgeTable # pooled
    /\ edgeTable' = pooled
    /\ UNCHANGED <<exposed, code, secret, upStore, cont, upCmd, upBounds>>

Event == upEvents > 0 /\ upEvents' = upEvents - 1

\* Somebody changes the code or a secret.
Edit ==
    /\ Event
    /\ \/ code' \in Versions \ {code} /\ UNCHANGED secret
       \/ secret' \in Versions \ {secret} /\ UNCHANGED code
    /\ UNCHANGED <<exposed, upStore, cont, edgeTable, upCmd, upFaults, upCommands>>

\* A container stops answering, exits, or comes back: the runtime restarts it.
Changes(i) ==
    /\ Event
    /\ There(i)
    /\ \E is \in {"ok", "sick", "exited"} \ {cont[i].is} : cont' = [cont EXCEPT ![i].is = is]
    /\ UNCHANGED <<exposed, code, secret, upStore, edgeTable, upCmd, upFaults, upCommands>>

\* caramelod stops; the command is gone and nothing resumes it.
UpCrash ==
    /\ UpFault("crash")
    /\ upCmd' = NoCommand
    /\ UNCHANGED <<exposed, code, secret, upStore, cont, edgeTable, upCommands, upEvents>>

World == Keep \/ Edit \/ \E i \in DOMAIN cont : Changes(i)
=============================================================================
