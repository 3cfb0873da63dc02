----------------------------- MODULE MCServing ------------------------------
(***************************************************************************)
(* What serves the traffic of environments, in small instances. A          *)
(* behaviour is one of one part, chosen at the start; the variables of the *)
(* others keep their initial value.                                        *)
(*   deploys    deploys of two replicas, promoted or taken back by hand,   *)
(*              and two deaths of caramelod                                *)
(*   rollouts   up, down and the health loop of a work environment         *)
(*   control    caramelod and the edge on the control socket               *)
(*   counts     the request counters of one route                          *)
(*   names      routes of environments that want the same names            *)
(*   feed       the feed of a hub that follows a member                    *)
(***************************************************************************)
EXTENDS MCDeploy, HealthLoop, EdgeCounts, EdgeControl, Feed, TLC

CONSTANTS r1, r2, q1, q2

VARIABLES part,
    fileOf, recCfg, routes, viaRow, alive, xcmd, tableLock, served, directory,
    xcommands, cutShort

Conf == INSTANCE AppConfig

\* Three environments, whose files want names that collide: dev of the hub asks
\* for another order of its services in its second file, prod gives its names,
\* web runs on a member and is served by the hub.
Service(name, expose) ==
    [name |-> name, image |-> FALSE, build |-> "", install |-> FALSE, port |-> 0, udp |-> FALSE,
     health |-> "", expose |-> expose, replicas |-> 0, memory |-> 0, refs |-> {}]
File(domain, services, envs) ==
    [domain |-> domain, deps |-> << >>, services |-> services, deploy |-> [keep |-> 0],
     envs |-> envs, placement |-> "", vars |-> {}]
MachineOf == [dev |-> "hub", prod |-> "hub", web |-> "mem"]
Files ==
    [dev |-> <<File(<<"shop">>, <<Service("web", ""), Service("api", "")>>, << >>),
               File(<<"shop">>, <<Service("api", "https"), Service("web", "https")>>, << >>)>>,
     prod |-> <<File(<<"shop">>, <<Service("web", "")>>,
                     "prod" :> [Conf!NoOverride EXCEPT
                                !.hosts = << <<"store">>, <<"web", "dev", "shop">> >>])>>,
     web |-> <<File(<<"dev", "shop">>, <<Service("web", "")>>,
                    "web" :> [Conf!NoOverride EXCEPT !.via = "hub"])>>]

\* A pool, and a container of replica 1 replaced by another.
Pool(p1, a1, p2, a2) ==
    <<[port |-> p1, active |-> a1], [port |-> p2, active |-> a2]>>
FlipTables == {Pool(1, FALSE, 2, TRUE), Pool(3, TRUE, 0, FALSE)}

ASSUME CountedInstance == Sizes
Expose == INSTANCE Exposure WITH
    EnvOrder <- <<"dev", "prod", "web">>, MachineOf <- MachineOf, FilesOf <- Files,
    Block <- 10, KnowsIP <- TRUE, OtherHosts <- {<<"store">>}, Beats <- FALSE,
    MaxExposeCommands <- 2
exposeVars == <<fileOf, recCfg, routes, viaRow, alive, xcmd, tableLock, served,
                directory, xcommands, cutShort>>
servingVars == <<part, vars, healthVars, controlVars, countVars, exposeVars, feedVars>>

ServingInit ==
    /\ part \in {"deploys", "rollouts", "control", "counts", "names", "feed"}
    /\ Init
    /\ IF part = "rollouts" THEN LoopInit ELSE RolloutWith(TRUE, FALSE) /\ LoopBegin
    /\ ControlInit
    /\ IF part = "counts" THEN CountsInit ELSE StartWith(Pool(3, TRUE, 0, FALSE))
    /\ Expose!ExposeInit
    /\ FeedInit

\* A step of one component leaves the others alone.
DeployOnly == UNCHANGED <<part, healthVars, controlVars, countVars, exposeVars,
                          feedVars>>
LoopOnly == UNCHANGED <<part, vars, controlVars, countVars, exposeVars,
                        feedVars>>
ControlOnly == UNCHANGED <<part, vars, healthVars, countVars, exposeVars,
                           feedVars>>
CountOnly == UNCHANGED <<part, vars, healthVars, controlVars, exposeVars,
                         feedVars>>
ExposeOnly == UNCHANGED <<part, vars, healthVars, controlVars, countVars,
                          feedVars>>
FeedOnly == UNCHANGED <<part, vars, healthVars, controlVars, countVars,
                        exposeVars>>

ServingNext ==
    \/ part = "deploys" /\ Next /\ DeployOnly
    \/ part = "rollouts" /\ LoopNext /\ LoopOnly
    \/ part = "control" /\ ControlNext /\ ControlOnly
    \/ part = "counts" /\ CountsNext /\ CountOnly
    \/ part = "names" /\ Expose!ExposeNext /\ ExposeOnly
    \/ part = "feed" /\ FeedNext /\ FeedOnly

ServingSpec == ServingInit /\ [][ServingNext]_servingVars

\* Exposure: the edge accepts every table the rows make, between commands it
\* serves the rows, an up that ends well leaves the names of its file, and a
\* name never moves to another environment by itself.
NamesServed ==
    /\ [](part = "names" => /\ Expose!ExposeTypeOK /\ Expose!TablesAccepted
                          /\ Expose!QuietServed /\ Expose!UpNames)
    /\ Expose!HostKept
=============================================================================
