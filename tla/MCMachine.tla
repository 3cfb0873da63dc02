----------------------------- MODULE MCMachine ------------------------------
(***************************************************************************)
(* A machine and its place in the fleet: its network, its setup, its       *)
(* daemon and its keys, in small instances. A behaviour is one of one      *)
(* part, chosen at the start; the variables of the others keep their       *)
(* initial value.                                                          *)
(*   joining    a hub that two machines join with one token                *)
(*   members    a fleet of two members that hold, announce, leave and go   *)
(*   peers      the peers of one machine                                   *)
(*   relays     its addresses and relays                                   *)
(*   client     the tunnel of a commander                                  *)
(*   setup      two runs of setup                                          *)
(*   tasks      two runs of a task file                                    *)
(*   firewall   rules an operator wrote, and what is read of them          *)
(*   bring      two commands that bring caramelo to a machine              *)
(*   keys       commands on the authorized keys                            *)
(*   daemon     starts and stops of caramelod                              *)
(*   certs      the certificates of the edge                               *)
(***************************************************************************)
EXTENDS Integers, FiniteSets, Sequences, TLC, Peers, Relay, VpnClient, Keys, Daemon,
        Certs, Firewall, Fleet

CONSTANTS m1, m2, e1, t1, n1, n2, k1, k2

VARIABLES part,
    box, run, report, granted, upset, breaks, runsStarted,
    facts, trun, item, printed, taskReport, undone, taskRuns, upsets,
    bring, cached, parts, published, shippedDirs, targetSetUp, fleetRecorded,
    bootsBegun, bootFaults, leftBehind

\* What the runs of setup are asked for: the first configuration, another one
\* with another key, and another binary.
FirstRun == [conf |-> 1, bin |-> 1, low |-> FALSE, dry |-> FALSE, open |-> TRUE,
             key |-> 1, peer |-> 1, fleet |-> 0]
NewConfig == [FirstRun EXCEPT !.conf = 2, !.low = TRUE, !.key = 2, !.fleet = 1]
NewBinary == [NewConfig EXCEPT !.bin = 2, !.peer = 2, !.open = FALSE]
SetupWants == {FirstRun, NewConfig, NewBinary, [NewConfig EXCEPT !.dry = TRUE],
               [FirstRun EXCEPT !.fleet = 2, !.conf = 3]}

\* A task file of two items in a parallel block and one after them.
TaskItem(check, cmds) ==
    [here |-> TRUE, when |-> << >>, kind |-> "cmd", check |-> check, cmds |-> cmds,
     refs |-> {"Home"}]
TaskBody ==
    [pkg |-> TaskItem({<<"pkg", "made">>}, <<{<<"pkg", "made">>}>>),
     key |-> TaskItem({<<"key", "made">>}, <<{}, {<<"key", "made">>}>>),
     svc |-> [here |-> TRUE, when |-> <<"pkg", "made">>, kind |-> "file",
              check |-> {<<"svc", "made">>, <<"svc", "owner">>}, cmds |-> << >>,
              refs |-> {"Dir"}]]
TaskFacts == {<<"pkg", "made">>, <<"key", "made">>, <<"svc", "made">>, <<"svc", "owner">>}

Memb == INSTANCE Fleet WITH Joined <- {m1, m2}, MaxCommands <- 1
Setup == INSTANCE Setup WITH
    Wants <- SetupWants, Edge <- <<0, 5, 6>>, Swap <- <<3, 0, 4>>, Refused <- {4},
    Keys <- {1, 2, 3}, Denied <- TRUE, CanOpen <- TRUE, NftBuiltIn <- TRUE, MaxRuns
    <- 2, MaxBreaks <- 1
Tasks == INSTANCE Tasks WITH
    Items <- {"pkg", "key", "svc"}, Entries <- <<{"pkg", "key"}, {"svc"}>>, Body <-
    TaskBody, Facts <- TaskFacts, EngineVars <- {"Home"}, CallerVars <- {}, FileVars
    <- [Dir |-> {"Home"}], MaxTaskRuns <- 2, MaxUpsets <- 1
Boot == INSTANCE Bootstrap WITH
    BootRuns <- {"b1", "b2"}, SamePlatform <- FALSE, HasSibling <- FALSE, IsRelease
    <- TRUE, Sources <- {"given", "default", "release"}, MaxPublished <- 2,
    MaxBootRuns <- 2, MaxBootFaults <- 1
\* The tunnel and the web, of the ports of a machine.
TunnelAndWeb == {[proto |-> "udp", port |-> 2], [proto |-> "tcp", port |-> 1]}
\* The key setup wrote.
FirstKey == [name |-> "n1", print |-> "f1"]
ASSUME KeysInstance == Seeded

setupVars == <<box, run, report, granted, upset, breaks, runsStarted>>
taskVars == <<facts, trun, item, printed, taskReport, undone, taskRuns, upsets>>
bootVars == <<bring, cached, parts, published, shippedDirs, targetSetUp,
              fleetRecorded, bootsBegun, bootFaults, leftBehind>>
vars == <<part, fleetVars, peersVars, relayVars, clientVars, setupVars, taskVars, fwVars, bootVars, keyVars, daemonVars, certsVars>>

Init ==
    /\ part \in {"joining", "members", "peers", "relays", "client", "setup",
                 "tasks", "firewall", "bring", "keys", "daemon", "certs"}
    /\ IF part = "members" THEN Memb!FleetInit ELSE FleetInit
    /\ PeersInit
    /\ RelayInit
    /\ ClientInit
    /\ Setup!Init
    /\ Tasks!TasksInit
    /\ FirewallInit
    /\ Boot!BootInit
    /\ KeysInit
    /\ DaemonInit
    /\ CertsInit

\* A step of one component leaves the others alone.
FleetOnly == UNCHANGED <<part, peersVars, relayVars, clientVars, setupVars,
                         taskVars, fwVars, bootVars, keyVars, daemonVars, certsVars>>
PeersOnly == UNCHANGED <<part, fleetVars, relayVars, clientVars, setupVars,
                         taskVars, fwVars, bootVars, keyVars, daemonVars, certsVars>>
RelayOnly == UNCHANGED <<part, fleetVars, peersVars, clientVars, setupVars,
                         taskVars, fwVars, bootVars, keyVars, daemonVars, certsVars>>
ClientOnly == UNCHANGED <<part, fleetVars, peersVars, relayVars, setupVars,
                          taskVars, fwVars, bootVars, keyVars, daemonVars, certsVars>>
SetupOnly == UNCHANGED <<part, fleetVars, peersVars, relayVars, clientVars,
                         taskVars, fwVars, bootVars, keyVars, daemonVars, certsVars>>
TaskOnly == UNCHANGED <<part, fleetVars, peersVars, relayVars, clientVars,
                        setupVars, fwVars, bootVars, keyVars, daemonVars, certsVars>>
FwOnly == UNCHANGED <<part, fleetVars, peersVars, relayVars, clientVars, setupVars,
                      taskVars, bootVars, keyVars, daemonVars, certsVars>>
BootOnly == UNCHANGED <<part, fleetVars, peersVars, relayVars, clientVars,
                        setupVars, taskVars, fwVars, keyVars, daemonVars, certsVars>>
KeyOnly == UNCHANGED <<part, fleetVars, peersVars, relayVars, clientVars, setupVars,
                       taskVars, fwVars, bootVars, daemonVars, certsVars>>
DaemonOnly == UNCHANGED <<part, fleetVars, peersVars, relayVars, clientVars,
                          setupVars, taskVars, fwVars, bootVars, keyVars, certsVars>>
CertsOnly == UNCHANGED <<part, fleetVars, peersVars, relayVars, clientVars,
                         setupVars, taskVars, fwVars, bootVars, keyVars, daemonVars>>

Next ==
    \/ part = "joining" /\ FleetNext /\ FleetOnly
    \/ part = "members" /\ Memb!FleetNext /\ FleetOnly
    \/ part = "peers" /\ PeersNext /\ PeersOnly
    \/ part = "relays" /\ RelayNext /\ RelayOnly
    \/ part = "client" /\ ClientNext /\ ClientOnly
    \/ part = "setup" /\ Setup!Next /\ SetupOnly
    \/ part = "tasks" /\ Tasks!TasksNext /\ TaskOnly
    \/ part = "firewall" /\ FirewallNext /\ FwOnly
    \/ part = "bring" /\ Boot!BootNext /\ BootOnly
    \/ part = "keys" /\ KeysNext /\ KeyOnly
    \/ part = "daemon" /\ DaemonNext /\ DaemonOnly
    \/ part = "certs" /\ CertsNext /\ CertsOnly

Spec == Init /\ [][Next]_vars

\* Setup and Bootstrap: a run without a failure leaves the machine as asked,
\* a second run changes nothing, no run takes a key away and one failed
\* command never replaces the key of the vault; what runs on the target came
\* whole, a command that is over leaves no file, and a fleet is recorded only
\* after its hub is set up.
MachineSetUp ==
    /\ [](part = "setup" => /\ Setup!TypeOK
                           /\ Setup!OkMeansSetUp
                           /\ Setup!SecondRunChangesNothing
                           /\ Setup!KeysKept)
    /\ [](part = "bring" => /\ Boot!BootTypeOK
                            /\ Boot!RunsVerified
                            /\ Boot!NothingLeftOver
                            /\ Boot!RecordedIsSetUp)
    /\ [][Setup!SealKept]_setupVars

\* Tasks: what a report calls done holds on the machine, an item is left out
\* only after a failure, every item is printed once, a second run changes
\* nothing, and neither does a dry run.
TasksTrue ==
    /\ [](part = "tasks" => /\ Tasks!TasksTypeOK
                           /\ Tasks!DoneHolds
                           /\ Tasks!LeftOutIsAfterFailure
                           /\ Tasks!PrintedOnce
                           /\ Tasks!SecondRunQuiet)
    /\ [][Tasks!DryRunStep]_taskVars
=============================================================================
