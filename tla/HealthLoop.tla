----------------------------- MODULE HealthLoop -----------------------------
(***************************************************************************)
(* The health loop beside the commands of a work environment               *)
(* (internal/env/health_loop.go). A pass skips an environment a command    *)
(* holds, but takes no lock: what it does after that check interleaves     *)
(* with a command that begins later. How often a replica failed and which  *)
(* ones are out of the pool (`down`) is only in memory.                    *)
(***************************************************************************)
EXTENDS Rollout

CONSTANT Failures  \* failed probes in a row before a replica is taken out

\* It is a count.
ASSUME LoopAssumption == Failures \in Nat

VARIABLES
    loop,   \* the pass under way
    fails,  \* failed probes in a row, by index
    down,   \* the indexes the loop took out of the pool
    loopRaced  \* a command ran during a pass (history)

loopMemory == <<fails, down>>
loopVars == <<loop, fails, down, loopRaced>>
healthVars == <<upVars, loopVars>>

Resting == [pc |-> "rest", todo |-> {}, want |-> "none", saw |-> "none", pushed |-> FALSE]
NoFails == [i \in UpSlot |-> 0]

LoopBegin == loop = Resting /\ fails = NoFails /\ down = {} /\ loopRaced = FALSE
LoopInit == RolloutInit /\ LoopBegin

Pass(step) == loop.pc = step
One == First(loop.todo)

\* The replica is dealt with: on to the next, and at the end to the push.
Advance(pushed) ==
    LET rest == loop.todo \ {One}
        p == loop.pushed \/ pushed
    IN loop' = [Resting EXCEPT !.todo = rest, !.pushed = p,
                   !.pc = IF rest # {} THEN "probe" ELSE IF p THEN "push" ELSE "rest"]

LoopAlone == UNCHANGED <<exposed, code, secret, serviceRow, upCmd, upCommands, upEvents, loopRaced>>

\* envBusy: no command holds the environment.
NotBusy == UpAt("idle")

\* Once and env: the environment is not busy; a service that was stopped is
\* left alone. Its numbered replicas are listed, running or not.
Look ==
    /\ Pass("rest")
    /\ NotBusy
    /\ serviceRow.status \notin {"none", "stopped"}
    /\ LiveReplicas \ {Legacy} # {}
    /\ loop' = [Resting EXCEPT !.pc = "probe", !.todo = LiveReplicas \ {Legacy}]
    /\ LoopAlone /\ UNCHANGED <<cont, pooled, edgeTable, upFaults, loopMemory>>

\* Faulty variant: a replica that answers again stays forgotten.
MutHealthyOne ==
    /\ fails' = [fails EXCEPT ![One] = 0]
    /\ down' = down \ {One}
    /\ Advance(FALSE)

\* healthy: a replica the loop took out goes back.
HealthyOne ==
    /\ fails' = [fails EXCEPT ![One] = 0]
    /\ down' = down \ {One}
    /\ IF One \in down THEN loop' = [loop EXCEPT !.pc = "read", !.want = "active"]
                       ELSE Advance(FALSE)

\* unhealthy: the first time, the target goes; every time, a restart. What
\* is counted beyond Failures makes no difference.
Unhealthy ==
    /\ fails' = [fails EXCEPT ![One] = IF @ < Failures THEN @ + 1 ELSE @]
    /\ IF fails[One] + 1 < Failures
       THEN Advance(FALSE) /\ UNCHANGED down
       ELSE /\ down' = down \cup {One}
            /\ loop' = [loop EXCEPT !.pc = IF One \in down THEN "restart" ELSE "read",
                                    !.want = "unhealthy"]

\* checkService of one replica.
Probe ==
    /\ Pass("probe")
    /\ \/ cont[One].is = "ok" /\ HealthyOne
       \/ cont[One].is # "ok" /\ Unhealthy
    /\ LoopAlone /\ UNCHANGED <<cont, pooled, edgeTable, upFaults>>

\* setTargetState reads the target ...
ReadTarget ==
    /\ Pass("read")
    /\ loop' = [loop EXCEPT !.pc = "write", !.saw = pooled[One]]
    /\ LoopAlone /\ UNCHANGED <<cont, pooled, edgeTable, upFaults, loopMemory>>

\* Next after setTargetState: unhealthy goes on to restart the container.
Wrote(changed) ==
    IF loop.want = "unhealthy"
    THEN loop' = [loop EXCEPT !.pc = "restart", !.pushed = @ \/ changed]
    ELSE Advance(changed)

\* ... and writes the row it read with the new state, whatever became of it
\* in between (PutTarget inserts or updates). An error ends the pass of this
\* environment, its push included.
WriteTarget ==
    /\ Pass("write")
    /\ \/ /\ loop.saw \in {"none", loop.want}
          /\ Wrote(FALSE)
          /\ NoUpFault /\ UNCHANGED pooled
       \/ /\ loop.saw \notin {"none", loop.want}
          /\ pooled' = [pooled EXCEPT ![One] = loop.want]
          /\ Wrote(TRUE)
          /\ NoUpFault
       \/ /\ UpFault("store")
          /\ loop' = Resting
          /\ UNCHANGED pooled
    /\ LoopAlone /\ UNCHANGED <<cont, edgeTable, loopMemory>>

\* Driver.Restart of the container, if it is there; the count starts again.
RestartReplica ==
    /\ Pass("restart")
    /\ \/ /\ There(One)
          /\ \E is \in {"ok", "sick"} : cont' = [cont EXCEPT ![One].is = is]
          /\ fails' = [fails EXCEPT ![One] = 0]
          /\ NoUpFault
       \/ /\ ~There(One)
          /\ NoUpFault /\ UNCHANGED <<cont, fails>>
       \/ /\ There(One)
          /\ UpFault("runtime")
          /\ UNCHANGED <<cont, fails>>
    /\ Advance(FALSE)
    /\ LoopAlone /\ UNCHANGED <<pooled, edgeTable, down>>

PushPass ==
    /\ Pass("push")
    /\ \/ edgeTable' = pooled /\ NoUpFault
       \/ UpFault("push") /\ UNCHANGED edgeTable
    /\ loop' = Resting
    /\ LoopAlone /\ UNCHANGED <<cont, pooled, loopMemory>>

Loop == Look \/ Probe \/ ReadTarget \/ WriteTarget \/ RestartReplica \/ PushPass

\* A step of a command; the pass under way, if there is one, goes on.
UpCommand ==
    /\ Up \/ Down
    /\ loopRaced' = (loopRaced \/ ~Pass("rest"))
    /\ UNCHANGED <<loop, fails, down>>

\* A daemon that stops forgets what it knew of the replicas.
LoopCrash ==
    /\ UpCrash
    /\ loop' = Resting /\ fails' = NoFails /\ down' = {}
    /\ UNCHANGED loopRaced

LoopNext == Loop \/ UpCommand \/ (World /\ UNCHANGED loopVars) \/ LoopCrash

\* The ticker runs the loop, and a command goes on.
LoopSpec ==
    /\ LoopInit /\ [][LoopNext]_healthVars
    /\ WF_healthVars(Loop)
    /\ WF_healthVars(UpCommand /\ ~UpAt("idle"))

-----------------------------------------------------------------------------
(* Properties. *)

Containers == [is : {"none", "ok", "sick", "exited"}, tree : Versions \cup {0},
               vars : Versions \cup {0}]

HealthTypeOK ==
    /\ exposed \in BOOLEAN
    /\ code \in Versions /\ secret \in Versions
    /\ serviceRow \in [status : {"none", "up", "stopped"}, vars : Versions \cup {0}]
    /\ cont \in [UpSlot \cup {Legacy} -> Containers]
    /\ pooled \in [UpSlot -> PoolStates] /\ edgeTable \in [UpSlot -> PoolStates]
    /\ upCmd.old \subseteq UpSlot /\ upCmd.fresh \subseteq UpSlot
    /\ loop.todo \subseteq UpSlot
    /\ fails \in [UpSlot -> 0..Failures] /\ down \subseteq UpSlot
    /\ loopRaced \in BOOLEAN

\* Where an up ends well, the edge has exactly the replicas asked for, all of
\* the code the up was given, none left draining; one without a route leaves
\* no other container. (rollService, recreateService; unless a pass of the
\* loop and a command overlapped.)
UpDelivered ==
    /\ (UpAt("put") /\ upCmd.ok /\ ~loopRaced) =>
          /\ pooled = TargetsOf(upCmd.fresh, {})
          /\ edgeTable = pooled
          /\ Cardinality(upCmd.fresh) = UpWant
          /\ \A i \in upCmd.fresh : cont[i].tree = upCmd.tree
          /\ ~Upgrading
    /\ UpAt("putrow") => LiveReplicas = 1..UpWant

\* Where a down ends well, nothing of the service exists and nothing is
\* recorded. (Down, clearTargets.)
DownDelivered == (UpAt("unpush") /\ ~loopRaced) => LiveReplicas = {} /\ pooled = NoTargets

\* No replica that ran when an up began stops while the edge sends requests
\* to it. (rollService: flipPool before drainAndStop.)
StopsOnlyDrained ==
    [][(~loopRaced /\ ~UpAt("idle")) =>
         \A i \in upCmd.old : RunningReplica(i) /\ ~There(i)' => edgeTable[i] # "active"]_healthVars

\* An up that ends well leaves the pool it was asked for, a down leaves
\* nothing, and no replica stops while the edge sends to it.
UpDelivers ==
    /\ [](HealthTypeOK /\ UpDelivered /\ DownDelivered)
    /\ StopsOnlyDrained

\* While no failure happens, a replica the edge leaves out for its health and
\* that answers again does not stay out. (healthy, setTargetState, pushRoutes.)
TargetReturns ==
    [](upFaults = 0) =>
        \A i \in UpSlot : (edgeTable[i] = "unhealthy" /\ cont[i].is = "ok") ~>
                        (edgeTable[i] # "unhealthy" \/ cont[i].is # "ok")
=============================================================================
