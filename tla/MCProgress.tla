----------------------------- MODULE MCProgress -----------------------------
(***************************************************************************)
(* What must happen in the end: the components with a promise of progress, *)
(* in small instances. A behaviour is one of one part, chosen at the       *)
(* start; the variables of the others keep their initial value.            *)
(*   deploys    deploys of a release environment                           *)
(*   rollouts   up, down and the health loop of a work environment         *)
(*   control    caramelod and the edge on the control socket               *)
(*   images     builds of two environments on one machine                  *)
(*   names      a member that announces its names to the hub               *)
(*   members    a fleet of two members that hold, announce, leave and go   *)
(*   tasks      runs of a task file                                        *)
(*   feed       the feed of a hub that follows a member                    *)
(*   daemon     starts and stops of caramelod                              *)
(***************************************************************************)
EXTENDS Naturals, FiniteSets, TLC

CONSTANTS r1, r2, Unreleased, m1, m2, e1, t1

VARIABLES part,
    rows, envDeploy, envRelease, envConfig, webRow, workerRow, targets, edge,
    replicas, worker, up, todo, lock, watches, promoteSig, rollbackSig, pc, fresh,
    held, pushed, replaced, verdict, faults,
    exposed, code, secret, serviceRow, cont, pooled, edgeTable, upCmd, upFaults,
    upCommands, upEvents, loop, fails, down, loopRaced,
    db, edgeState, busy, history, subs, handler, keeper, command, wait, ctlEvents,
    reported, overlapped,
    rel, idx, img, dep, serves, relRuns, buildLock, op, mixed, hubRel, hubIdx,
    hubImg, relFaults,
    fileOf, recCfg, routes, viaRow, alive, xcmd, tableLock, served, directory,
    xcommands, cutShort,
    row, token, old, dir, peer, door, names, boot, tickets, retired, cfg, left,
    envs, join, ann, rem, events,
    facts, trun, item, printed, taskReport, undone, taskRuns, upsets,
    recorded, unpublished, bus, reader, follows, fleetRows, setting, missed,
    fleetChanges, losses,
    dpc, storeOpen, deviceUp, listening, socket, session, deadline, importAt,
    rowsOf, imported, starts, sessionsMade, daemonFaults, importCut


Conf == INSTANCE AppConfig

\* caramelod may die at every step of a deploy.
Stages ==
    {"idle", "lockWait", "register", "build", "plan", "migrate", "before", "start", "bringUp",
     "checking", "check", "replace", "workerRow", "watching", "record", "push", "webRow",
     "drain", "holdPush", "watch", "await", "unrecord", "unpush", "stopHeld", "promoteRecord",
     "promotePush", "setRelease", "commit", "rbRecord", "rbPush", "rbRecord2", "rbPush2",
     "rbClear", "restoreConfig", "restoreWeb", "restoreWorker", "removeFresh", "finish", "clear"}

\* Two environments of a member whose files ask for a name through the hub.
ViaHub(domain, env) ==
    [domain |-> domain, deps |-> << >>, deploy |-> [keep |-> 0], placement |-> "", vars |-> {},
     services |-> <<[name |-> "web", image |-> FALSE, build |-> "", install |-> FALSE,
                     port |-> 0, udp |-> FALSE, health |-> "", expose |-> "",
                     replicas |-> 0, memory |-> 0, refs |-> {}]>>,
     envs |-> env :> [Conf!NoOverride EXCEPT !.via = "hub"]]
OnMember == [api |-> "mem", web |-> "mem"]
MemberFiles == [api |-> <<ViaHub(<<"shop">>, "api")>>, web |-> <<ViaHub(<<"dev", "shop">>, "web")>>]

\* A task file of two items in a parallel block and one after them.
TaskItem(check, cmds) ==
    [here |-> TRUE, when |-> << >>, kind |-> "cmd", check |-> check, cmds |-> cmds, refs |-> {"Home"}]
TaskBody ==
    [pkg |-> TaskItem({<<"pkg", "made">>}, <<{<<"pkg", "made">>}>>),
     key |-> TaskItem({<<"key", "made">>}, <<{}, {<<"key", "made">>}>>),
     svc |-> [here |-> TRUE, when |-> <<"pkg", "made">>, kind |-> "dir",
              check |-> {<<"svc", "made">>, <<"svc", "mode">>}, cmds |-> << >>, refs |-> {"Dir"}]]
TaskFacts == {<<"pkg", "made">>, <<"key", "made">>, <<"svc", "made">>, <<"svc", "mode">>}

Ends == INSTANCE Deploy WITH
    Releases <- {r1, r2}, None <- Unreleased, MaxDeploys <- 2, Want <- 1, Slots <- 2,
    Manual <- FALSE, Faults <- {"crash", "dies"}, MaxFaults <- 1, CrashAt <- Stages
Loop == INSTANCE HealthLoop WITH
    UpWant <- 1, UpSlots <- 2, Versions <- {1}, UpFaultKinds <- {}, MaxUpFaults <- 0,
    MaxUpCommands <- 2, MaxUpEvents <- 2, Failures <- 1
Control == INSTANCE EdgeControl WITH
    HistoryLimit <- 1, SubscriberBuffer <- 1, MaxTable <- 1, MaxEvents <- 1
Images == INSTANCE Releases WITH
    Envs <- {1, 2}, Trees <- {11, 12}, BuiltServices <- {"web"}, Member <- FALSE, SameArch
    <- TRUE, KeepReleases <- 1, MaxDeploys <- 2, MaxBuildFaults <- 0
Expose == INSTANCE Exposure WITH
    EnvOrder <- <<"api", "web">>, MachineOf <- OnMember, FilesOf <- MemberFiles,
    Block <- 10, KnowsIP <- TRUE, OtherHosts <- {}, Beats <- TRUE, MaxExposeCommands
    <- 1
Memb == INSTANCE Fleet WITH
    Members <- {m1, m2}, Joined <- {m1, m2}, Envs <- {e1}, Tokens <- {t1}, MaxSubnet
    <- 2, MaxCommands <- 1, MaxEvents <- 1
Tasks == INSTANCE Tasks WITH
    Items <- {"pkg", "key", "svc"}, Entries <- <<{"pkg", "key"}, {"svc"}>>, Body <-
    TaskBody, Facts <- TaskFacts, EngineVars <- {"Home"}, CallerVars <- {}, FileVars
    <- [Dir |-> {"Home"}], MaxTaskRuns <- 1, MaxUpsets <- 1
Feed == INSTANCE Feed WITH
    Here <- "hub", Members <- {m1}, EventBuffer <- 1, MaxRecorded <- 1, MaxFleetChanges <-
    2, MaxLosses <- 1
Daemon == INSTANCE Daemon WITH
    ApiListen <- "both", Sessions <- {"s1", "s2"}, Reports <- 1, BadReports <- {},
    ReportRows <- 1, MaxStarts <- 2, MaxSessions <- 2, MaxDaemonFaults <- 1

deployVars == <<rows, envDeploy, envRelease, envConfig, webRow, workerRow, targets,
                edge, replicas, worker, up, todo, lock, watches, promoteSig,
                rollbackSig, pc, fresh, held, pushed, replaced, verdict, faults>>
loopVars == <<exposed, code, secret, serviceRow, cont, pooled, edgeTable, upCmd,
              upFaults, upCommands, upEvents, loop, fails, down, loopRaced>>
controlVars == <<db, edgeState, busy, history, subs, handler, keeper, command, wait,
                 ctlEvents, reported, overlapped>>
releaseVars == <<rel, idx, img, dep, serves, relRuns, buildLock, op, mixed, hubRel,
                 hubIdx, hubImg, relFaults>>
exposeVars == <<fileOf, recCfg, routes, viaRow, alive, xcmd, tableLock, served,
                directory, xcommands, cutShort>>
fleetVars == <<row, token, old, dir, peer, door, names, boot, tickets, retired, cfg,
               left, envs, join, ann, rem, events>>
taskVars == <<facts, trun, item, printed, taskReport, undone, taskRuns, upsets>>
feedVars == <<recorded, unpublished, bus, reader, follows, fleetRows, setting,
              missed, fleetChanges, losses>>
daemonVars == <<dpc, storeOpen, deviceUp, listening, socket, session, deadline,
                importAt, rowsOf, imported, starts, sessionsMade, daemonFaults,
                importCut>>
vars == <<part, deployVars, loopVars, controlVars, releaseVars, exposeVars, fleetVars, taskVars, feedVars, daemonVars>>

Init ==
    /\ part \in {"deploys", "rollouts", "control", "images", "names", "members",
                 "tasks", "feed", "daemon"}
    /\ Ends!Init
    /\ IF part = "rollouts" THEN Loop!LoopInit ELSE Loop!RolloutWith(TRUE, FALSE) /\ Loop!LoopBegin
    /\ Control!ControlInit
    /\ Images!ReleasesInit
    /\ Expose!ExposeInit
    /\ Memb!FleetInit
    /\ Tasks!TasksInit
    /\ Feed!FeedInit
    /\ Daemon!DaemonInit

\* A step of one component leaves the others alone.
DeployOnly == UNCHANGED <<part, loopVars, controlVars, releaseVars, exposeVars,
                          fleetVars, taskVars, feedVars, daemonVars>>
LoopOnly == UNCHANGED <<part, deployVars, controlVars, releaseVars, exposeVars,
                        fleetVars, taskVars, feedVars, daemonVars>>
ControlOnly == UNCHANGED <<part, deployVars, loopVars, releaseVars, exposeVars,
                           fleetVars, taskVars, feedVars, daemonVars>>
ReleaseOnly == UNCHANGED <<part, deployVars, loopVars, controlVars, exposeVars,
                           fleetVars, taskVars, feedVars, daemonVars>>
ExposeOnly == UNCHANGED <<part, deployVars, loopVars, controlVars, releaseVars,
                          fleetVars, taskVars, feedVars, daemonVars>>
FleetOnly == UNCHANGED <<part, deployVars, loopVars, controlVars, releaseVars,
                         exposeVars, taskVars, feedVars, daemonVars>>
TaskOnly == UNCHANGED <<part, deployVars, loopVars, controlVars, releaseVars,
                        exposeVars, fleetVars, feedVars, daemonVars>>
FeedOnly == UNCHANGED <<part, deployVars, loopVars, controlVars, releaseVars,
                        exposeVars, fleetVars, taskVars, daemonVars>>
DaemonOnly == UNCHANGED <<part, deployVars, loopVars, controlVars, releaseVars,
                          exposeVars, fleetVars, taskVars, feedVars>>

Next ==
    \/ part = "deploys" /\ Ends!Next /\ DeployOnly
    \/ part = "rollouts" /\ Loop!LoopNext /\ LoopOnly
    \/ part = "control" /\ Control!ControlNext /\ ControlOnly
    \/ part = "images" /\ Images!ReleasesNext /\ ReleaseOnly
    \/ part = "names" /\ Expose!ExposeNext /\ ExposeOnly
    \/ part = "members" /\ Memb!FleetNext /\ FleetOnly
    \/ part = "tasks" /\ Tasks!TasksNext /\ TaskOnly
    \/ part = "feed" /\ Feed!FeedNext /\ FeedOnly
    \/ part = "daemon" /\ Daemon!DaemonNext /\ DaemonOnly

Spec == Init /\ [][Next]_vars

\* Every run of a deploy goes on, is resumed, and caramelod is started again.
DeployFairness ==
    /\ \A d \in Ends!Deploys :
        WF_deployVars(part = "deploys" /\ Ends!RunStep(d)) /\ WF_deployVars(part = "deploys" /\ Ends!Resume(d))
    /\ WF_deployVars(part = "deploys" /\ Ends!Restart)
\* Deploy's DeploysEnd: every deploy that got a row ends.
DeploysEnd == part = "deploys" /\ DeployFairness => Ends!DeploysEnd

\* The ticker runs the loop, and a command goes on.
LoopFairness ==
    /\ WF_loopVars(part = "rollouts" /\ Loop!Loop)
    /\ WF_loopVars(part = "rollouts" /\ Loop!UpCommand /\ ~Loop!UpAt("idle"))
\* HealthLoop's TargetReturns: a replica that answers again comes back.
TargetReturns == part = "rollouts" /\ LoopFairness => Loop!TargetReturns

\* Each goroutine goes on, the deadline of a wait comes, the edge is started.
ControlFairness ==
    /\ \A h \in Control!Clients \cup {Control!Orphan} : WF_controlVars(part = "control" /\ Control!ServePush(h))
    /\ \A c \in Control!Clients : WF_controlVars(part = "control" /\ Control!ClientStep(c))
    /\ WF_controlVars(part = "control" /\ Control!Deadline) /\ WF_controlVars(part = "control" /\ Control!EdgeStarts)
\* EdgeControl's WaitsEnd: a rollout never waits for a drain for ever.
WaitsEnd == part = "control" /\ ControlFairness => Control!WaitsEnd

\* Every deploy's goroutine goes on.
ImageFairness == \A e \in {1, 2} : WF_releaseVars(part = "images" /\ Images!DeployStep(e))
\* Releases' DeploysEnd: a deploy gets its images or fails.
ImagesEnd == part = "images" /\ ImageFairness => Images!DeploysEnd

\* Commands and announcements go on, and the member's beat comes.
ExposeFairness ==
    /\ \A e \in Expose!Envs : WF_exposeVars(part = "names" /\ Expose!EnvStep(e))
    /\ \A p \in Expose!Procs : WF_exposeVars(part = "names" /\ Expose!SayStep(p))
    /\ WF_exposeVars(part = "names" /\ Expose!BeatBegin)
\* Exposure's HubServes: the hub comes to serve the names the member announced.
HubServes == part = "names" /\ ExposeFairness => Expose!HubServes

\* Joins, removals and announcements go on, heartbeats and expiries come.
FleetFairness ==
    /\ \A m \in {m1, m2} :
        /\ WF_fleetVars(part = "members" /\ Memb!JoinStep(m)) /\ WF_fleetVars(part = "members" /\ Memb!RemoveStep(m))
        /\ WF_fleetVars(part = "members" /\ Memb!Heartbeat(m)) /\ WF_fleetVars(part = "members" /\ Memb!AnnounceStep(m))
    /\ WF_fleetVars(part = "members" /\ Memb!Expire(t1)) /\ WF_fleetVars(part = "members" /\ Memb!ExpireJoinPeers)
\* Fleet's BootstrapEnds: a bootstrap peer does not outlive its token.
BootstrapEnds == part = "members" /\ FleetFairness => Memb!BootstrapEnds
\* Fleet's DirectoryCatchesUp: the directory comes to name the one holder.
DirectoryCatchesUp == part = "members" /\ FleetFairness => Memb!DirectoryCatchesUp

\* Tasks' TaskEnds: a run of a task file ends, if its engine goes on.
TaskEnds == part = "tasks" /\ WF_taskVars(part = "tasks" /\ Tasks!EngineStep) => Tasks!TaskEnds

\* The goroutines of the feed go on.
FeedFairness == WF_feedVars(part = "feed" /\ Feed!SetStep) /\ WF_feedVars(part = "feed" /\ Feed!FollowStep(m1))
\* Feed's SetEnds: telling a change of the fleet never hangs.
SetEnds == part = "feed" /\ FeedFairness => Feed!SetEnds
\* Feed's FollowedAgain: a member whose feed was lost is followed again.
FollowedAgain == part = "feed" /\ FeedFairness => Feed!FollowedAgain

\* Daemon's StopEnds: a daemon told to stop ends, if it goes on.
StopEnds == part = "daemon" /\ WF_daemonVars(part = "daemon" /\ Daemon!DaemonStep) => Daemon!StopEnds

\* Every work that began comes to its end: deploys, waits for a drain, builds,
\* bootstrap peers, task runs, changes of what the feed follows, a stop.
WorkEnds ==
    /\ DeploysEnd
    /\ WaitsEnd
    /\ ImagesEnd
    /\ BootstrapEnds
    /\ TaskEnds
    /\ SetEnds
    /\ StopEnds

\* What one part keeps of another catches up with it: the pool with a replica
\* that answers again, the hub's edge and directory with its members, the feed
\* with a member that was lost.
StateCatchesUp ==
    /\ TargetReturns
    /\ HubServes
    /\ DirectoryCatchesUp
    /\ FollowedAgain
=============================================================================
