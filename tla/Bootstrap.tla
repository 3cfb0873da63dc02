------------------------------ MODULE Bootstrap ------------------------------
(***************************************************************************)
(* `caramelo fleet setup --target` from a commander: probe the target over *)
(* ssh, find a binary for its platform (given, this one, one beside it, or *)
(* a release downloaded into a cache shared by every run of the user),     *)
(* ship it to a new directory, run setup with it, take the directory away, *)
(* record the fleet and ask its API (internal/bootstrap,                   *)
(* cli/fleet_setup_target.go).  Setup itself is module Setup, the join is  *)
(* module VpnClient.  A file is the platform it is for and the release it  *)
(* is; a checksum is the release it belongs to.                            *)
(***************************************************************************)
EXTENDS Integers, FiniteSets

CONSTANTS
    BootRuns,       \* the commands a user runs, at most one at a time each
    SamePlatform,   \* the target is of the commander's platform
    HasSibling,     \* a binary for the target lies beside this one
    IsRelease,      \* this binary's version is a release tag
    Sources,        \* what the flags ask for: "given", "release", "default"
    MaxPublished,   \* bound: times the release is published
    MaxBootRuns, MaxBootFaults

VARIABLES
    bring,           \* the commands in flight
    cached,         \* the release file in the cache
    parts,          \* the unfinished downloads beside it, by command
    published,      \* what the release is now: sums and binary of one version
    shippedDirs,    \* directories on the target, with what lies in them
    targetSetUp,    \* setup finished on the target
    fleetRecorded,  \* the fleet is in the commander's configuration
    bootsBegun, bootFaults,
    leftBehind      \* history: the target could not be told to clean up

bootVars == << bring, cached, parts, published, shippedDirs, targetSetUp, fleetRecorded,
               bootsBegun, bootFaults, leftBehind >>

None == [is |-> "none", version |-> 0]
Whole(v) == [is |-> "whole", version |-> v]
Broken == [is |-> "broken", version |-> 0]
Given == [is |-> "given", version |-> 0]
Local == [is |-> "local", version |-> 0]
Files == {None, Broken, Given, Local} \cup { Whole(v) : v \in 1..MaxPublished }

Idle == [pc |-> "idle", asks |-> "default", keys |-> FALSE, want |-> 0, binary |-> "none",
         ok |-> FALSE]

BootInit ==
    /\ bring = [b \in BootRuns |-> Idle]
    /\ cached = None
    /\ parts = [b \in BootRuns |-> None]
    /\ published = 1
    /\ shippedDirs = [b \in BootRuns |-> None]
    /\ targetSetUp = FALSE /\ fleetRecorded = FALSE
    /\ bootsBegun = 0 /\ bootFaults = 0
    /\ leftBehind = FALSE

BAt(b, pc) == bring[b].pc = pc
BGoes(b, pc) == bring' = [bring EXCEPT ![b].pc = pc]
BEnds(b) == bring' = [bring EXCEPT ![b] = Idle]
BootFault == bootFaults < MaxBootFaults /\ bootFaults' = bootFaults + 1
remoteVars == << shippedDirs, targetSetUp, leftBehind >>
cacheVars == << cached, parts, published >>

\* runBootstrap begins, and probeTarget and checkProbe let it on: an answer that
\* is not understood, or a user without privilege, ends the command here.
BeginBoot(b, asks, keys) ==
    /\ BAt(b, "idle") /\ bootsBegun < MaxBootRuns
    /\ bring' = [bring EXCEPT ![b] = [Idle EXCEPT !.pc = "resolve", !.asks = asks, !.keys = keys]]
    /\ bootsBegun' = bootsBegun + 1
    /\ UNCHANGED << fleetRecorded, bootFaults >> /\ UNCHANGED remoteVars /\ UNCHANGED cacheVars

\* ResolveBinary: the flag, then this binary on its own platform, then the one
\* beside it, then a release; otherwise there is nothing to ship.
ResolveBinary(b) ==
    /\ BAt(b, "resolve")
    /\ CASE bring[b].asks = "given" ->
              bring' = [bring EXCEPT ![b].pc = "ship", ![b].binary = "given"]
         [] bring[b].asks = "release" -> BGoes(b, "sums")
         [] bring[b].asks = "default" /\ (SamePlatform \/ HasSibling) ->
              bring' = [bring EXCEPT ![b].pc = "ship", ![b].binary = "local"]
         [] OTHER -> IF IsRelease THEN BGoes(b, "sums") ELSE BEnds(b)
    /\ UNCHANGED << fleetRecorded, bootsBegun, bootFaults >>
    /\ UNCHANGED remoteVars /\ UNCHANGED cacheVars

------------------------------------------------------------------------------
(* Download: the sums are fetched on every run, the file is then looked for. *)

WantedSum(b) ==
    /\ BAt(b, "sums")
    /\ \/ bring' = [bring EXCEPT ![b].pc = "cache", ![b].want = published] /\ UNCHANGED bootFaults
       \/ BootFault /\ BEnds(b)
    /\ UNCHANGED << fleetRecorded, bootsBegun >> /\ UNCHANGED remoteVars /\ UNCHANGED cacheVars

MutMatches(file, want) == file.is # "none"

\* The SHA-256 of a file is the one the sums list.
Matches(file, want) == file = Whole(want)

\* A file that matches is used, another is removed first.
LookInCache(b) ==
    /\ BAt(b, "cache")
    /\ IF Matches(cached, bring[b].want)
       THEN /\ bring' = [bring EXCEPT ![b].pc = "ship", ![b].binary = "release"]
            /\ UNCHANGED cached
       ELSE BGoes(b, "get") /\ cached' = None
    /\ UNCHANGED << parts, published, fleetRecorded, bootsBegun, bootFaults >> /\ UNCHANGED remoteVars

\* releaseDownload: into a file of its own; a body cut short, stalled for a minute
\* or replaced since the sums were read fails its checksum.
GetPart(b) ==
    /\ BAt(b, "get")
    /\ \/ parts' = [parts EXCEPT ![b] = Whole(published)] /\ UNCHANGED bootFaults
       \/ BootFault /\ parts' = [parts EXCEPT ![b] = Broken]
    /\ BGoes(b, "check")
    /\ UNCHANGED << cached, published, fleetRecorded, bootsBegun >> /\ UNCHANGED remoteVars

MutDropPart(b) == parts

\* The deferred os.Remove of the part.
DropPart(b) == [parts EXCEPT ![b] = None]

CheckPart(b) ==
    /\ BAt(b, "check")
    /\ IF Matches(parts[b], bring[b].want)
       THEN /\ cached' = parts[b]
            /\ parts' = [parts EXCEPT ![b] = None]
            /\ bring' = [bring EXCEPT ![b].pc = "ship", ![b].binary = "release"]
       ELSE parts' = DropPart(b) /\ BEnds(b) /\ UNCHANGED cached
    /\ UNCHANGED << published, fleetRecorded, bootsBegun, bootFaults >> /\ UNCHANGED remoteVars

------------------------------------------------------------------------------
(* On the target.                                                            *)

\* What os.Open finds when the binary is shipped: the path of a release is the
\* cache's, which another run may have emptied or filled again since.
Opened(b) == CASE bring[b].binary = "given" -> Given
               [] bring[b].binary = "local" -> Local
               [] bring[b].binary = "release" -> cached

\* ship: a new directory with the binary.  A connection that fails in the copy
\* leaves what it made.
Ship(b) ==
    /\ BAt(b, "ship")
    /\ \/ Opened(b) = None /\ BEnds(b) /\ UNCHANGED << shippedDirs, leftBehind, bootFaults >>
       \/ /\ Opened(b) # None
          /\ shippedDirs' = [shippedDirs EXCEPT ![b] = Opened(b)]
          /\ bring' = [bring EXCEPT ![b].pc = IF bring[b].keys THEN "keys" ELSE "setup"]
          /\ UNCHANGED << leftBehind, bootFaults >>
       \/ /\ Opened(b) # None /\ BootFault
          /\ shippedDirs' = [shippedDirs EXCEPT ![b] = Broken]
          /\ leftBehind' = TRUE
          /\ BEnds(b)
    /\ UNCHANGED << targetSetUp, fleetRecorded, bootsBegun >> /\ UNCHANGED cacheVars

\* The authorized keys are copied before Run has registered the clean-up: a copy
\* that fails leaves the directory.
ShipKeys(b) ==
    /\ BAt(b, "keys")
    /\ \/ BGoes(b, "setup") /\ UNCHANGED << leftBehind, bootFaults >>
       \/ BootFault /\ leftBehind' = TRUE /\ BEnds(b)
    /\ UNCHANGED << shippedDirs, targetSetUp, fleetRecorded, bootsBegun >> /\ UNCHANGED cacheVars

MutSucceeded(failed, code) == ~failed

\* runBootstrap goes on only after a report with no failed step and exit status 0.
Succeeded(failed, code) == ~failed /\ code = 0

\* runSetup: the report comes back with its failures and the exit status; setup
\* can exit otherwise than 0 with no failed step; no report is an error.
RunSetup(b) ==
    /\ BAt(b, "setup")
    /\ \/ \E failed \in BOOLEAN, code \in {0, 1} :
            /\ failed => code # 0
            /\ targetSetUp' = (targetSetUp \/ (~failed /\ code = 0))
            /\ bring' = [bring EXCEPT ![b].pc = "clean", ![b].ok = Succeeded(failed, code)]
            /\ UNCHANGED bootFaults
       \/ BootFault /\ BGoes(b, "clean") /\ UNCHANGED targetSetUp
    /\ UNCHANGED << shippedDirs, leftBehind, fleetRecorded, bootsBegun >> /\ UNCHANGED cacheVars

\* The deferred rm -rf on the target.
CleanUp(b) ==
    /\ BAt(b, "clean")
    /\ \/ shippedDirs' = [shippedDirs EXCEPT ![b] = None] /\ UNCHANGED << leftBehind, bootFaults >>
       \/ BootFault /\ leftBehind' = TRUE /\ UNCHANGED shippedDirs
    /\ IF bring[b].ok THEN BGoes(b, "record") ELSE BEnds(b)
    /\ UNCHANGED << targetSetUp, fleetRecorded, bootsBegun >> /\ UNCHANGED cacheVars

\* recordFleet, then the join and the question to the API, which change nothing
\* here whatever their answer.
Record(b) ==
    /\ BAt(b, "record")
    /\ fleetRecorded' = TRUE
    /\ BEnds(b)
    /\ UNCHANGED << bootsBegun, bootFaults >> /\ UNCHANGED remoteVars /\ UNCHANGED cacheVars

\* The release is published again under its tag (external).
Publish ==
    /\ published < MaxPublished
    /\ published' = published + 1
    /\ UNCHANGED << bring, cached, parts, fleetRecorded, bootsBegun, bootFaults >>
    /\ UNCHANGED remoteVars

\* The cached file rots, or something else wrote it (external): not in the
\* moment between its checksum and the copy, which is not checked again.
Spoil ==
    /\ cached # None /\ BootFault
    /\ \A b \in BootRuns : bring[b].pc # "ship"
    /\ cached' = Broken
    /\ UNCHANGED << bring, parts, published, fleetRecorded, bootsBegun >> /\ UNCHANGED remoteVars

BootStep(b) ==
    \/ ResolveBinary(b) \/ WantedSum(b) \/ LookInCache(b) \/ GetPart(b) \/ CheckPart(b)
    \/ Ship(b) \/ ShipKeys(b) \/ RunSetup(b) \/ CleanUp(b) \/ Record(b)

BootNext ==
    \/ \E b \in BootRuns, asks \in Sources, keys \in BOOLEAN : BeginBoot(b, asks, keys)
    \/ \E b \in BootRuns : BootStep(b)
    \/ Publish \/ Spoil

BootSpec == BootInit /\ [][BootNext]_bootVars

------------------------------------------------------------------------------

BootTypeOK ==
    /\ cached \in Files
    /\ parts \in [BootRuns -> Files] /\ shippedDirs \in [BootRuns -> Files]
    /\ published \in 1..MaxPublished
    /\ {targetSetUp, fleetRecorded, leftBehind} \subseteq BOOLEAN

\* What setup is run with on the target as root is whole: a release came through
\* its checksum, also when two commands share the cache and the release is
\* published again between them (Download, releaseDownload, ship).
RunsVerified ==
    \A b \in BootRuns : bring[b].pc \in {"keys", "setup"} => shippedDirs[b] # Broken

\* A command that is over leaves nothing: no directory on a target it could
\* still talk to, and no part of a download in the cache (Run's deferred rm,
\* releaseDownload).
NothingLeftOver ==
    \A b \in BootRuns : bring[b] = Idle =>
        parts[b] = None /\ (leftBehind \/ shippedDirs[b] = None)

\* A fleet is recorded on the commander only after setup finished on its hub
\* (runBootstrap).
RecordedIsSetUp == fleetRecorded => targetSetUp
=============================================================================
