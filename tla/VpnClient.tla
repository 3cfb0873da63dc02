----------------------------- MODULE VpnClient -----------------------------
(***************************************************************************)
(* The commander's side of one fleet's network: the key file, the record   *)
(* of the tunnel and the fleet's entry in the commander config are files   *)
(* that every caramelo process of the commander reads and writes; a        *)
(* process has a pool with at most one userspace device for the fleet; the *)
(* transparent-mode service is a process of its own. A hub is a pair of a  *)
(* WireGuard key and an endpoint, and the key it has admitted for this     *)
(* commander's peer name.                                                  *)
(***************************************************************************)
EXTENDS Integers, FiniteSets

CONSTANTS
    CommanderProcs, \* processes of the commander
    MaxHubEvents,   \* bound: hub moved, hub rebuilt, peer revoked, process killed
    MaxRan          \* bound: commands run

VARIABLES
    hub,        \* [key, at, admitted]
    keyFile,    \* 0 no file, -1 the file is there and empty, n the n-th key
    recFile,    \* the record of the tunnel, NoRec when there is none
    entry,      \* [known, pin] of the fleet in the commander config
    unit,       \* the transparent-mode unit is installed
    svc,        \* the record the running service carries, NoRec when it is down
    proc,       \* the processes
    keysMade,   \* keys generated so far
    hubEvents, ran,
    disturbed   \* a hub event, fleet add or fleet remove has overlapped a command

clientFiles == <<keyFile, recFile, entry>>
clientVars == <<hub, keyFile, recFile, entry, unit, svc, proc, keysMade, hubEvents,
                ran, disturbed>>

NoFile == 0
EmptyFile == -1
NoRec == [machine |-> 0, at |-> 0, pub |-> 0]
NoDev == [machine |-> 0, at |-> 0, pub |-> 0]
NoCfg == [known |-> FALSE, pin |-> 0]
Idle == [cmd |-> "none", pc |-> "idle", kp |-> 0, prev |-> NoRec, rec |-> NoRec,
         cfg |-> NoCfg, dev |-> NoDev, twice |-> FALSE, said |-> "nothing"]

CommanderCommands == {"up", "transparent", "down", "dial", "probe", "remove", "add"}

----------------------------------------------------------------------------
\* One process: to the next step, and to its end with an answer. The pooled
\* device goes with the process.
ToStep(p, pc) == [proc EXCEPT ![p].pc = pc]
Ends(p, said) == [proc EXCEPT ![p] =
                     [Idle EXCEPT !.cmd = proc[p].cmd, !.said = said]]
Running(p) == proc[p].pc # "idle"

\* What the commands so far have answered no longer holds.
Overtaken == [p \in CommanderProcs |-> [proc[p] EXCEPT !.said = "nothing"]]

\* pinnedRecords.Load: the record, unless the config has pinned another key.
LoadPinned ==
    IF entry.known /\ entry.pin # 0 /\ recFile # NoRec /\ entry.pin # recFile.machine
    THEN [rec |-> NoRec, failed |-> TRUE]
    ELSE [rec |-> recFile, failed |-> FALSE]

\* CommanderConfig.Pin on the config a process has read.
PinFails(cfg, key) == cfg.known /\ cfg.pin \notin {0, key}
Pins(cfg, key) == cfg.known /\ cfg.pin = 0

\* The hub answers a device: it is at the endpoint, has the key, and has
\* admitted the commander's key.
Answers(d) == d.machine = hub.key /\ d.at = hub.at /\ d.pub = hub.admitted

\* ServiceOptions.Records and Keys are read when the service starts.
ServiceStarts == unit /\ recFile # NoRec /\ keyFile > 0
ServiceRecord == [recFile EXCEPT !.pub = keyFile]

\* devicePool.get: the pooled device whatever its record, else a new one
\* with the key of the file.
CanOpenDevice(p) == proc[p].dev # NoDev \/ keyFile > 0
Pooled(p, rec) == IF proc[p].dev # NoDev THEN proc[p].dev
                  ELSE [rec EXCEPT !.pub = keyFile]

\* How a command reaches the hub: through the service's interface, through
\* the process's own device, or over ssh when there is no record.
Way(p) ==
    IF ~entry.known \/ LoadPinned.failed THEN "refused"
    ELSE IF LoadPinned.rec = NoRec THEN "ssh"
    ELSE IF unit /\ svc # NoRec THEN "host"
    ELSE IF CanOpenDevice(p) THEN "device" ELSE "refused"
Reaches(p) ==
    \/ Way(p) = "ssh"
    \/ Way(p) = "host" /\ Answers(svc)
    \/ Way(p) = "device" /\ Answers(Pooled(p, LoadPinned.rec))
DevAfter(p) == IF Way(p) = "device" THEN Pooled(p, LoadPinned.rec) ELSE proc[p].dev

----------------------------------------------------------------------------
ClientInit ==
    /\ hub = [key |-> 1, at |-> 1, admitted |-> 0]
    /\ keyFile = NoFile
    /\ recFile = NoRec
    /\ entry = [known |-> TRUE, pin |-> 0]
    /\ unit = TRUE
    /\ svc = NoRec
    /\ proc = [p \in CommanderProcs |-> Idle]
    /\ keysMade = 0
    /\ hubEvents = 0
    /\ ran = 0
    /\ disturbed = FALSE

FirstStep(c) ==
    CASE c \in {"up", "transparent", "probe"} -> "key"
      [] c = "down" -> "down"
      [] c = "dial" -> "dial"
      [] c = "remove" -> "read"
      [] c = "add" -> "read"

StartCommand(p, c) ==
    /\ ~Running(p)
    /\ ran < MaxRan
    /\ ran' = ran + 1
    /\ proc' = [(IF c = "remove" THEN Overtaken ELSE proc)
                   EXCEPT ![p] = [Idle EXCEPT !.cmd = c, !.pc = FirstStep(c)]]
    /\ disturbed' = (disturbed \/ \E q \in CommanderProcs :
                                     Running(q) /\ {c, proc[q].cmd} \cap {"remove", "add"} # {})
    /\ UNCHANGED <<hub, clientFiles, unit, svc, keysMade, hubEvents>>

\* ensureKeyFile. The file is made with O_EXCL and written afterwards.
AfterKey(p) == IF proc[p].cmd = "probe" THEN "probe" ELSE "prev"

LoadKeyFile(p) ==
    \/ /\ keyFile > 0
       /\ proc' = [proc EXCEPT ![p].kp = keyFile, ![p].pc = AfterKey(p)]
    \/ /\ keyFile = EmptyFile
       /\ proc' = Ends(p, "failed")

EnsureKey(p) ==
    /\ proc[p].pc = "key"
    /\ \/ LoadKeyFile(p)
       \/ keyFile = NoFile /\ proc' = ToStep(p, "create")
    /\ UNCHANGED <<hub, clientFiles, unit, svc, keysMade, hubEvents, ran, disturbed>>

\* Bug: the key file is opened without O_EXCL.
MutCreateKeyFile(p) ==
    /\ proc[p].pc = "create"
    /\ keyFile' = EmptyFile
    /\ keysMade' = keysMade + 1
    /\ proc' = [proc EXCEPT ![p].kp = keysMade + 1, ![p].pc = "write"]
    /\ UNCHANGED <<hub, recFile, entry, unit, svc, hubEvents, ran, disturbed>>

CreateKeyFile(p) ==
    /\ proc[p].pc = "create"
    /\ IF keyFile = NoFile
       THEN /\ keyFile' = EmptyFile
            /\ keysMade' = keysMade + 1
            /\ proc' = [proc EXCEPT ![p].kp = keysMade + 1, ![p].pc = "write"]
       ELSE LoadKeyFile(p) /\ UNCHANGED <<keyFile, keysMade>>
    /\ UNCHANGED <<hub, recFile, entry, unit, svc, hubEvents, ran, disturbed>>

\* A file that was unlinked in between takes the write with it.
WriteKey(p) ==
    /\ proc[p].pc = "write"
    /\ keyFile' = IF keyFile = NoFile THEN NoFile ELSE proc[p].kp
    /\ proc' = ToStep(p, AfterKey(p))
    /\ UNCHANGED <<hub, recFile, entry, unit, svc, keysMade, hubEvents, ran, disturbed>>

\* Up reads the record it has; a record that cannot be read counts as none.
LoadPrev(p) ==
    /\ proc[p].pc = "prev"
    /\ proc' = IF proc[p].cmd = "transparent" /\ ~unit THEN Ends(p, "failed")
               ELSE [proc EXCEPT ![p].prev = LoadPinned.rec,
                        ![p].pc = IF proc[p].cmd = "transparent" /\ LoadPinned.rec # NoRec
                                  THEN "service" ELSE "status"]
    /\ UNCHANGED <<hub, clientFiles, unit, svc, keysMade, hubEvents, ran, disturbed>>

\* transparentUp: the service that runs is up already, whatever it carries;
\* else its unit is started, and it comes up or its deadline passes.
TransparentUp(p) ==
    /\ proc[p].pc \in {"service", "serviceLast"}
    /\ svc' = IF svc = NoRec /\ ServiceStarts THEN ServiceRecord ELSE svc
    /\ proc' = IF svc' = NoRec THEN Ends(p, "failed")
               ELSE IF proc[p].pc = "serviceLast" THEN Ends(p, "ok")
               ELSE ToStep(p, "status")
    /\ UNCHANGED <<hub, clientFiles, unit, keysMade, hubEvents, ran, disturbed>>

MachineStatus(p) ==
    /\ proc[p].pc = "status"
    /\ proc' = IF Reaches(p)
               THEN [proc EXCEPT ![p].pc = "peer", ![p].dev = DevAfter(p),
                        ![p].rec = [machine |-> hub.key, at |-> hub.at, pub |-> proc[p].kp]]
               ELSE Ends(p, "failed")
    /\ UNCHANGED <<hub, clientFiles, unit, svc, keysMade, hubEvents, ran, disturbed>>

AddOwnPeer(p) ==
    /\ proc[p].pc = "peer"
    /\ IF Reaches(p)
       THEN /\ hub' = [hub EXCEPT !.admitted = proc[p].kp]
            /\ proc' = [proc EXCEPT ![p].pc = "pin", ![p].dev = DevAfter(p)]
       ELSE hub' = hub /\ proc' = Ends(p, "failed")
    /\ UNCHANGED <<clientFiles, unit, svc, keysMade, hubEvents, ran, disturbed>>

\* pinnedRecords.Save: read the config, pin the hub's key in it, write it,
\* and then the record.
ReadConfig(p) ==
    /\ proc[p].pc = "pin"
    /\ proc' = IF PinFails(entry, proc[p].rec.machine) THEN Ends(p, "failed")
               ELSE IF Pins(entry, proc[p].rec.machine)
               THEN [proc EXCEPT ![p].cfg = [entry EXCEPT !.pin = proc[p].rec.machine],
                                 ![p].pc = "config"]
               ELSE ToStep(p, "record")
    /\ UNCHANGED <<hub, clientFiles, unit, svc, keysMade, hubEvents, ran, disturbed>>

WriteConfig(p) ==
    /\ proc[p].pc = "config"
    /\ entry' = proc[p].cfg
    /\ proc' = ToStep(p, "record")
    /\ UNCHANGED <<hub, keyFile, recFile, unit, svc, keysMade, hubEvents, ran, disturbed>>

\* Bug: up answers without having saved the record.
MutSaveRecord(p) ==
    /\ proc[p].pc = "record"
    /\ proc' = IF proc[p].twice THEN Ends(p, "ok")
               ELSE ToStep(p, IF proc[p].cmd = "transparent" THEN "serviceLast" ELSE "verify")
    /\ UNCHANGED <<hub, clientFiles, unit, svc, keysMade, hubEvents, ran, disturbed>>

SaveRecord(p) ==
    /\ proc[p].pc = "record"
    /\ recFile' = proc[p].rec
    /\ proc' = IF proc[p].twice THEN Ends(p, "ok")
               ELSE ToStep(p, IF proc[p].cmd = "transparent" THEN "serviceLast" ELSE "verify")
    /\ UNCHANGED <<hub, keyFile, entry, unit, svc, keysMade, hubEvents, ran, disturbed>>

\* verify on the device of the pool, and a second Save with the handshake.
Verify(p) ==
    /\ proc[p].pc = "verify"
    /\ proc' = IF CanOpenDevice(p) /\ Answers(Pooled(p, proc[p].rec))
               THEN [proc EXCEPT ![p].dev = Pooled(p, proc[p].rec),
                                 ![p].pc = "pin", ![p].twice = TRUE]
               ELSE Ends(p, "failed")
    /\ UNCHANGED <<hub, clientFiles, unit, svc, keysMade, hubEvents, ran, disturbed>>

\* probeHandshake through the pool: what the record says, or the hub the
\* command line names.
ProbeHub(p) ==
    /\ proc[p].pc = "probe"
    /\ LET known == recFile # NoRec /\ ~LoadPinned.failed
           dev == Pooled(p, IF known THEN recFile ELSE [NoRec EXCEPT !.machine = hub.key,
                                                                     !.at = hub.at])
       IN proc' = IF keyFile <= 0 THEN Ends(p, "failed")
                  ELSE Ends(p, IF Answers(dev) THEN "reached"
                               ELSE IF known THEN "noanswer" ELSE "unproven")
    /\ UNCHANGED <<hub, clientFiles, unit, svc, keysMade, hubEvents, ran, disturbed>>

\* A command that only needs the tunnel (TunnelDialer and what runs over it).
Dial(p) ==
    /\ proc[p].pc = "dial"
    /\ proc' = Ends(p, IF Reaches(p) THEN "reached" ELSE "failed")
    /\ UNCHANGED <<hub, clientFiles, unit, svc, keysMade, hubEvents, ran, disturbed>>

Down(p) ==
    /\ proc[p].pc = "down"
    /\ IF recFile = NoRec \/ LoadPinned.failed
       THEN svc' = svc /\ proc' = Ends(p, "failed")
       ELSE /\ svc' = IF unit THEN NoRec ELSE svc
            /\ proc' = Ends(p, "ok")
    /\ UNCHANGED <<hub, clientFiles, unit, keysMade, hubEvents, ran, disturbed>>

----------------------------------------------------------------------------
\* fleet remove: read the config, forget the record, then the key, then write
\* the config without the fleet. fleet add writes an entry with no pin.
FleetRead(p) ==
    /\ proc[p].pc = "read"
    /\ LET removing == proc[p].cmd = "remove" IN
       proc' = IF entry.known # removing THEN Ends(p, "failed")
               ELSE [proc EXCEPT ![p].cfg = [known |-> ~removing, pin |-> 0],
                                 ![p].pc = IF removing THEN "forgetRecord" ELSE "config2"]
    /\ UNCHANGED <<hub, clientFiles, unit, svc, keysMade, hubEvents, ran, disturbed>>

\* Bug: the key is forgotten before the record.
MutForgetRecord(p) ==
    /\ proc[p].pc = "forgetRecord"
    /\ keyFile' = NoFile
    /\ proc' = ToStep(p, "forgetKey")
    /\ UNCHANGED <<hub, recFile, entry, unit, svc, keysMade, hubEvents, ran, disturbed>>

ForgetRecord(p) ==
    /\ proc[p].pc = "forgetRecord"
    /\ recFile' = NoRec
    /\ proc' = ToStep(p, "forgetKey")
    /\ UNCHANGED <<hub, keyFile, entry, unit, svc, keysMade, hubEvents, ran, disturbed>>

ForgetKey(p) ==
    /\ proc[p].pc = "forgetKey"
    /\ keyFile' = NoFile
    /\ proc' = ToStep(p, "config2")
    /\ UNCHANGED <<hub, recFile, entry, unit, svc, keysMade, hubEvents, ran, disturbed>>

FleetWrite(p) ==
    /\ proc[p].pc = "config2"
    /\ entry' = proc[p].cfg
    /\ proc' = Ends(p, "ok")
    /\ UNCHANGED <<hub, keyFile, recFile, unit, svc, keysMade, hubEvents, ran, disturbed>>

----------------------------------------------------------------------------
\* The hub moves, is built again with another key, or drops the peer.
HubChanges ==
    /\ hubEvents < MaxHubEvents
    /\ hubEvents' = hubEvents + 1
    /\ \/ hub' = [hub EXCEPT !.at = 3 - @]
       \/ hub' = [hub EXCEPT !.key = 3 - @, !.admitted = 0]
       \/ hub.admitted # 0 /\ hub' = [hub EXCEPT !.admitted = 0]
    /\ disturbed' = (disturbed \/ \E p \in CommanderProcs : Running(p))
    /\ proc' = Overtaken
    /\ UNCHANGED <<clientFiles, unit, svc, keysMade, ran>>

KillCommand(p) ==
    /\ Running(p)
    /\ hubEvents < MaxHubEvents
    /\ hubEvents' = hubEvents + 1
    /\ proc' = Ends(p, "killed")
    /\ UNCHANGED <<hub, clientFiles, unit, svc, keysMade, ran, disturbed>>

\* The installer: vpn install writes the unit and starts it; uninstall stops
\* the service and removes the unit.
InstallUnit ==
    /\ ~unit /\ ran < MaxRan /\ ran' = ran + 1
    /\ unit' = TRUE
    /\ svc' = IF recFile # NoRec /\ keyFile > 0 THEN ServiceRecord ELSE NoRec
    /\ UNCHANGED <<hub, clientFiles, proc, keysMade, hubEvents, disturbed>>

UninstallUnit ==
    /\ unit /\ ran < MaxRan /\ ran' = ran + 1
    /\ unit' = FALSE
    /\ svc' = NoRec
    /\ UNCHANGED <<hub, clientFiles, proc, keysMade, hubEvents, disturbed>>

CommandStep(p) ==
    \/ EnsureKey(p) \/ CreateKeyFile(p) \/ WriteKey(p) \/ LoadPrev(p)
    \/ TransparentUp(p) \/ MachineStatus(p) \/ AddOwnPeer(p)
    \/ ReadConfig(p) \/ WriteConfig(p) \/ SaveRecord(p) \/ Verify(p)
    \/ ProbeHub(p) \/ Dial(p) \/ Down(p)
    \/ FleetRead(p) \/ ForgetRecord(p) \/ ForgetKey(p) \/ FleetWrite(p)

ClientNext ==
    \/ \E p \in CommanderProcs, c \in CommanderCommands : StartCommand(p, c)
    \/ \E p \in CommanderProcs : CommandStep(p) \/ KillCommand(p)
    \/ HubChanges \/ InstallUnit \/ UninstallUnit

ClientSpec == ClientInit /\ [][ClientNext]_clientVars

----------------------------------------------------------------------------
ClientTypeOK ==
    /\ hub \in [key : 1..2, at : 1..2, admitted : 0..keysMade]
    /\ keyFile \in -1..keysMade
    /\ recFile \in [machine : 0..2, at : 0..2, pub : 0..keysMade]
    /\ entry \in [known : BOOLEAN, pin : 0..2]
    /\ svc \in [machine : 0..2, at : 0..2, pub : 0..keysMade]
    /\ \A p \in CommanderProcs : proc[p].kp \in 0..keysMade

\* While nothing else changed the hub or removed the fleet, an up that
\* answered ok left the record of the hub it talked to, with the key of the
\* key file, and the hub lets that key in: two ups at once agree on one key,
\* and neither answers before its record is there. (ensureKeyFile,
\* client.Up, pinnedRecords.Save)
UpMeansJoined ==
    \A p \in CommanderProcs :
        (proc[p].said = "ok" /\ proc[p].cmd = "up" /\ ~disturbed) =>
            /\ recFile.machine = hub.key
            /\ recFile.pub = keyFile
            /\ keyFile = hub.admitted
            /\ entry.pin = hub.key

\* Between commands the record is of the pinned hub and of the key in the key
\* file, whatever was killed on the way; a record without its key would send
\* every later command into a tunnel that cannot open, vpn up included.
\* (forgetFleetTunnel, client.Up)
QuietRecordUsable ==
    (~disturbed /\ \A p \in CommanderProcs : ~Running(p)) =>
        \/ recFile = NoRec
        \/ recFile.pub = keyFile /\ (entry.known => entry.pin = recFile.machine)

\* An up that answered ok left a record the hub honours, and between commands
\* the record fits the key file.
TunnelUsable == ClientTypeOK /\ UpMeansJoined /\ QuietRecordUsable
=============================================================================
