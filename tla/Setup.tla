------------------------------- MODULE Setup -------------------------------
(***************************************************************************)
(* caramelo fleet setup: a list of steps, each of which checks the machine *)
(* and changes it when it is not as wanted (src/internal/setup). The       *)
(* machine is a record of what is on disk and of what each running part    *)
(* has loaded; the commands of a step are the fields they set. A command   *)
(* can fail, setup can be cut between two commands, and the machine can be *)
(* rebooted; the operator runs setup again.                                *)
(*                                                                         *)
(* The steps that only read (preflight, gauge, summary) are left out; join *)
(* is one command here, and module Fleet is about what that command does.  *)
(***************************************************************************)
EXTENDS Integers, Sequences, TLC

CONSTANTS
    Wants,      \* what a run may be asked for: a configuration, a binary, low
                \* ports, a dry run, open ports, a key, a peer, a fleet to join
    Edge,       \* the socket unit a configuration wants; 0: no edge
    Swap,       \* the size of the swapfile a configuration wants; 0: off
    Refused,    \* sizes of swap the filesystem or the free space refuse
    Keys,       \* SSH keys
    Denied,     \* the firewall denies the tunnel's port at the start
    CanOpen,    \* the firewall is one setup can write to
    NftBuiltIn, \* the kernel has nf_tables built in
    MaxRuns,    \* bound: runs of setup
    MaxBreaks   \* bound: failed commands, cuts, reboots

VARIABLES
    box,        \* the machine
    run,        \* the run of setup in progress
    report,     \* how the last run ended
    granted,    \* the keys that were authorized on purpose
    upset,      \* a run failed or was cut since everything was last loaded
    breaks, runsStarted

setupVars == <<box, run, report, granted, upset, breaks, runsStarted>>

Torn == -1      \* a file that was truncated and not yet written
None == 0       \* no file; a part that does not run

Steps == <<"firewall", "swap", "user", "dirs", "host-config", "packages",
           "rootless", "vpn", "vault", "caramelod", "edge", "peer", "join">>

NoDaemon == [conf |-> None, bin |-> None]
NoDocker == [json |-> None, unit |-> None]

Bare ==
    [denied |-> Denied, swapfile |-> None, swapunit |-> None, swapon |-> FALSE,
     user |-> FALSE, subid |-> FALSE, linger |-> FALSE,
     conf |-> None, deleg |-> None, delegated |-> FALSE, low |-> None,
     lowports |-> FALSE, rundir |-> FALSE, packages |-> FALSE, rootful |-> FALSE,
     djson |-> None, dunit |-> None, denabled |-> FALSE, docker |-> NoDocker,
     vpnkey |-> None, vault |-> None, bin |-> None, unit |-> None, keys |-> {},
     daemon |-> NoDaemon, sock |-> None, svc |-> None, sockOn |-> None, svcOn |-> None,
     peer |-> None, member |-> None]

Idle == [st |-> "idle"]
NoReport == [ok |-> FALSE, changed |-> 0, again |-> FALSE, want |-> None]

Init ==
    /\ box = Bare /\ run = Idle /\ report = NoReport
    /\ granted = {} /\ upset = FALSE /\ breaks = 0 /\ runsStarted = 0

-----------------------------------------------------------------------------
(* A command sets fields of the machine. Writing a file truncates it first. *)

Write(f, v) == << f :> Torn, f :> v >>

\* The file as it should be needs no command.
File(m, f, v) == IF m[f] = v THEN <<>> ELSE Write(f, v)

\* A command that is run only if it is needed.
When(p, c) == IF p THEN <<c>> ELSE <<>>

\* What the daemon, Docker and the edge load when they start.
Loaded(m) == [conf |-> m.conf, bin |-> m.bin]
Dockerd(m) == [json |-> m.djson, unit |-> m.dunit]

-----------------------------------------------------------------------------
(* What each step checks, and the commands with which it mends.            *)

FirewallOK(m, w) == ~m.denied
FirewallFails(m, w) == m.denied /\ ~(w.open /\ CanOpen)
FirewallApply(m, w) == << "denied" :> FALSE >>

\* A configuration without swap takes away what an earlier one made.
SwapRemains(m) == m.swapon \/ m.swapfile # None \/ m.swapunit # None
SwapRefusal(m, w) == m.swapfile # Swap[w.conf] /\ Swap[w.conf] \in Refused
SwapOK(m, w) ==
    IF Swap[w.conf] = None
        THEN ~SwapRemains(m)
        ELSE \/ SwapRefusal(m, w)
             \/ m.swapfile = Swap[w.conf] /\ m.swapunit = 1 /\ m.swapon
SwapOff(m) ==
    When(m.swapunit # None \/ m.swapon, "swapon" :> FALSE)
    \o << "swapunit" :> None, "swapfile" :> None >>
AllocateSwapFile(m, w) ==
    IF m.swapfile = Swap[w.conf] THEN <<>>
    ELSE When(m.swapon, "swapon" :> FALSE) \o Write("swapfile", Swap[w.conf])
SwapApply(m, w) ==
    IF Swap[w.conf] = None THEN SwapOff(m)
    ELSE AllocateSwapFile(m, w) \o File(m, "swapunit", 1) \o << "swapon" :> TRUE >>

Inspect(m) == m.user /\ m.subid /\ m.linger
UserOK(m, w) == Inspect(m)
\* The user manager starts with linger: it has the delegation on disk.
EnsureSubID(m) == When(~m.subid, "subid" :> TRUE)
UserApply(m, w) ==
    When(~m.user, "user" :> TRUE) \o EnsureSubID(m)
    \o When(~m.linger, [linger |-> TRUE, delegated |-> m.deleg = 1])

ConfigMatches(m, w) == m.conf = w.conf
DirsOK(m, w) == ConfigMatches(m, w)
DirsApply(m, w) == << "conf" :> w.conf >>

HostConfigOK(m, w) == m.deleg = 1 /\ (w.low => m.low = 1) /\ m.rundir
\* A new delegation restarts the user manager, and with it what it runs.
RestartUserSession(m) ==
    [delegated |-> TRUE,
     daemon |-> IF m.daemon = NoDaemon THEN NoDaemon ELSE Loaded(m),
     docker |-> IF m.docker = NoDocker THEN NoDocker ELSE Dockerd(m)]
HostConfigApply(m, w) ==
    File(m, "deleg", 1)
    \o (IF w.low /\ m.low # 1
            THEN Write("low", 1) \o << "lowports" :> TRUE >> ELSE <<>>)
    \o << "rundir" :> TRUE >>
    \o When(m.deleg # 1, RestartUserSession(m))

RootfulUnitsUp(m) == m.rootful
PackagesOK(m, w) == m.packages /\ ~RootfulUnitsUp(m)
\* Installing the packages starts the rootful daemon of the distribution.
AptInstall(m) == When(~m.packages, [packages |-> TRUE, rootful |-> TRUE])
PackagesApply(m, w) == AptInstall(m) \o << "rootful" :> FALSE >>

\* docker info shows the data root the daemon runs with, not its unit's flags.
VerifyInfo(m) == m.docker # NoDocker /\ m.docker.json = 1
RootlessOK(m, w) == m.denabled /\ m.djson = 1 /\ VerifyInfo(m)
\* The installer turns iptables off when it cannot see nf_tables (unit 2).
InstallArgs == IF NftBuiltIn THEN 2 ELSE 1
KeepIptables ==
    << "dunit" :> 1, "docker" :> [json |-> 1, unit |-> 1] >>
RootlessApply(m, w) ==
    Write("djson", 1)
    \o (IF m.dunit = None
            THEN << [dunit |-> InstallArgs, denabled |-> TRUE,
                     docker |-> [json |-> 1, unit |-> InstallArgs]] >>
                 \o (IF InstallArgs = 2 THEN KeepIptables ELSE <<>>)
            ELSE << "docker" :> [json |-> 1, unit |-> m.dunit] >>)
    \o << "denabled" :> TRUE >>

\* A key that can be read is never replaced: Apply reads it again.
ReadKey(m, f) == m[f] \notin {None, Torn}
VPNOK(m, w) == ReadKey(m, "vpnkey")
VPNApply(m, w) == IF ReadKey(m, "vpnkey") THEN <<>> ELSE Write("vpnkey", runsStarted)
VaultOK(m, w) == ReadKey(m, "vault")
GenerateVaultKey == Write("vault", runsStarted)
MutVaultApply(m, w) == GenerateVaultKey
VaultApply(m, w) == IF ReadKey(m, "vault") THEN <<>> ELSE GenerateVaultKey

BinaryUpToDate(m, w) == m.bin = w.bin
InstallBinary(m, w) == File(m, "bin", w.bin)
MutKeysSeeded(m, w) == {w.key} = m.keys
KeysSeeded(m, w) == w.key \in m.keys
MutSeedKeys(m, w) == IF KeysSeeded(m, w) THEN <<>> ELSE << "keys" :> {w.key} >>
SeedKeys(m, w) ==
    IF KeysSeeded(m, w) THEN <<>>
    ELSE << "keys" :> {}, "keys" :> m.keys \cup {w.key} >>
CaramelodOK(m, w, confChanged) ==
    /\ BinaryUpToDate(m, w) /\ m.unit = 1 /\ KeysSeeded(m, w)
    /\ m.daemon # NoDaemon /\ ~confChanged
\* enable --now starts it if it does not run; what ran is restarted only for
\* a change that this run made. The smoke test changes nothing and can fail.
MutRestarted(m, w, confChanged) ==
    m.daemon = NoDaemon \/ ~BinaryUpToDate(m, w) \/ m.unit # 1
Restarted(m, w, confChanged) ==
    m.daemon = NoDaemon \/ ~BinaryUpToDate(m, w) \/ m.unit # 1 \/ confChanged
SmokeTest == <<>>
CaramelodApply(m, w, confChanged) ==
    InstallBinary(m, w) \o SeedKeys(m, w) \o File(m, "unit", 1)
    \o When(Restarted(m, w, confChanged), "daemon" :> [conf |-> m.conf, bin |-> w.bin])
    \o << SmokeTest >>

EdgeInstalled(m) == m.sock # None \/ m.svc # None
EdgeOK(m, w) ==
    IF Edge[w.conf] = None
        THEN ~EdgeInstalled(m)
        ELSE m.sock = Edge[w.conf] /\ m.svc = 1 /\ m.sockOn # None /\ m.svcOn # None
EdgeRemove(m) ==
    When(m.svc # None, "svcOn" :> None) \o When(m.sock # None, "sockOn" :> None)
    \o << "svc" :> None, "sock" :> None >>
EdgeApply(m, w) ==
    IF Edge[w.conf] = None THEN EdgeRemove(m)
    ELSE LET sock == Edge[w.conf] IN
        File(m, "sock", sock) \o File(m, "svc", 1)
        \o When(m.sockOn = None \/ m.sock # sock, "sockOn" :> sock)
        \o When(m.svcOn = None \/ m.svc # 1 \/ m.sock # sock, "svcOn" :> sock)

\* The peer of --peer. A peer of that name with another key is not replaced:
\* peer add refuses it.
PeerOK(m, w) == w.peer \in {None, m.peer}
PeerApply(m, w) == << "peer" :> IF m.peer = None THEN w.peer ELSE m.peer >>
PeerRefused(m, w) == ~PeerOK(m, w) /\ m.peer # None

\* A member of another fleet has to leave it first.
JoinOK(m, w) == w.fleet \in {None, m.member}
JoinFails(m, w) == ~JoinOK(m, w) /\ m.member # None
JoinApply(m, w) == << "member" :> w.fleet >>

-----------------------------------------------------------------------------
(* The engine: runStep checks, applies, and goes on to the next step.      *)

Check(step, m, w) ==
    CASE step = "firewall"    -> FirewallOK(m, w)
      [] step = "swap"        -> SwapOK(m, w)
      [] step = "user"        -> UserOK(m, w)
      [] step = "dirs"        -> DirsOK(m, w)
      [] step = "host-config" -> HostConfigOK(m, w)
      [] step = "packages"    -> PackagesOK(m, w)
      [] step = "rootless"    -> RootlessOK(m, w)
      [] step = "vpn"         -> VPNOK(m, w)
      [] step = "vault"       -> VaultOK(m, w)
      [] step = "caramelod"   -> CaramelodOK(m, w, run.confChanged)
      [] step = "edge"        -> EdgeOK(m, w)
      [] step = "peer"        -> PeerOK(m, w)
      [] step = "join"        -> JoinOK(m, w)

Apply(step, m, w) ==
    CASE step = "firewall"    -> FirewallApply(m, w)
      [] step = "swap"        -> SwapApply(m, w)
      [] step = "user"        -> UserApply(m, w)
      [] step = "dirs"        -> DirsApply(m, w)
      [] step = "host-config" -> HostConfigApply(m, w)
      [] step = "packages"    -> PackagesApply(m, w)
      [] step = "rootless"    -> RootlessApply(m, w)
      [] step = "vpn"         -> VPNApply(m, w)
      [] step = "vault"       -> VaultApply(m, w)
      [] step = "caramelod"   -> CaramelodApply(m, w, run.confChanged)
      [] step = "edge"        -> EdgeApply(m, w)
      [] step = "peer"        -> PeerApply(m, w)
      [] step = "join"        -> JoinApply(m, w)

Step == Steps[run.at]

\* A check that is an error: the step fails without being applied.
CheckFails(step, m, w) ==
    \/ step = "firewall" /\ FirewallFails(m, w)
    \/ step = "join" /\ JoinFails(m, w)

Execute(w) ==
    /\ run.st = "idle" /\ runsStarted < MaxRuns
    /\ run' = [st |-> "check", at |-> 1, want |-> w, todo |-> <<>>, changed |-> 0,
               confChanged |-> FALSE, same |-> TRUE,
               again |-> report.ok /\ report.want = w]
    /\ runsStarted' = runsStarted + 1
    /\ UNCHANGED <<box, report, granted, upset, breaks>>

\* The report of a run that ended; a dry run writes none.
WriteReport(r, ok) ==
    /\ run' = Idle
    /\ report' = IF r.want.dry THEN report
                 ELSE [ok |-> ok, changed |-> r.changed, again |-> r.again, want |-> r.want]
    /\ upset' = (upset \/ ~ok)

\* On to the next step, or to the end of the list.
NextStep(r) ==
    IF r.at = Len(Steps)
        THEN WriteReport(r, TRUE)
        ELSE /\ run' = [r EXCEPT !.at = @ + 1, !.st = "check"]
             /\ UNCHANGED <<report, upset>>

\* A step whose check holds, and in a dry run any other, is left as it is.
RunStepCheck ==
    /\ run.st = "check"
    /\ IF CheckFails(Step, box, run.want)
           THEN WriteReport(run, FALSE)
           ELSE IF Check(Step, box, run.want) \/ run.want.dry
           THEN NextStep(run)
           ELSE run' = [run EXCEPT !.st = "begin"] /\ UNCHANGED <<report, upset>>
    /\ UNCHANGED <<box, granted, breaks, runsStarted>>

RunStepApply ==
    /\ run.st = "begin"
    /\ run' = [run EXCEPT !.st = "apply",
                          !.same = ConfigMatches(box, run.want),
                          !.todo = Apply(Step, box, run.want)]
    /\ UNCHANGED <<box, report, granted, upset, breaks, runsStarted>>

MustRun ==
    /\ run.st = "apply" /\ run.todo # <<>>
    /\ ~(Step = "peer" /\ PeerRefused(box, run.want))
    /\ box' = Head(run.todo) @@ box
    /\ run' = [run EXCEPT !.todo = Tail(@)]
    /\ UNCHANGED <<report, granted, upset, breaks, runsStarted>>

\* The step has changed the machine. Whether the configuration is another one
\* is only known to this process, and caramelod's restart settles it.
StepChanged ==
    /\ run.st = "apply" /\ run.todo = <<>>
    /\ NextStep([run EXCEPT
           !.changed = @ + 1,
           !.confChanged = (@ \/ (Step = "dirs" /\ ~run.same)) /\ Step # "caramelod"])
    /\ granted' = IF Step = "caramelod" THEN granted \cup {run.want.key} ELSE granted
    /\ UNCHANGED <<box, breaks, runsStarted>>

-----------------------------------------------------------------------------
(* What goes wrong, and what others do between the runs.                   *)

Break == breaks < MaxBreaks /\ breaks' = breaks + 1

\* A command fails: so does its step, and the run ends there.
CommandFails ==
    /\ run.st = "apply" /\ run.todo # <<>> /\ Break
    /\ WriteReport(run, FALSE)
    /\ UNCHANGED <<box, granted, runsStarted>>

\* The daemon refuses the peer: no fault is needed for that.
PeerAddFails ==
    /\ run.st = "apply" /\ run.todo # <<>>
    /\ Step = "peer" /\ PeerRefused(box, run.want)
    /\ WriteReport(run, FALSE)
    /\ UNCHANGED <<box, granted, breaks, runsStarted>>

\* cat fails on a key that is there: to readFile it is a key that is missing.
ReadFails ==
    /\ Break
    /\ Step \in {"vpn", "vault"}
    /\ \/ run.st = "check" /\ ~run.want.dry /\ run' = [run EXCEPT !.st = "begin", !.again = FALSE]
       \/ /\ run.st = "begin"
          /\ run' = [run EXCEPT !.st = "apply", !.again = FALSE,
                !.todo = IF Step = "vault" THEN GenerateVaultKey ELSE Write("vpnkey", runsStarted)]
    /\ UNCHANGED <<box, report, granted, upset, runsStarted>>

\* The connection of the operator goes away, and setup with it.
Cut ==
    /\ run.st # "idle" /\ Break
    /\ run' = Idle /\ upset' = TRUE
    /\ report' = NoReport
    /\ UNCHANGED <<box, granted, runsStarted>>

\* Everything starts from what is on disk.
Reboot ==
    /\ Break
    /\ box' = [box EXCEPT
        !.daemon = IF box.unit = 1 /\ box.daemon # NoDaemon THEN Loaded(box) ELSE NoDaemon,
        !.docker = IF box.denabled THEN Dockerd(box) ELSE NoDocker,
        !.delegated = box.linger /\ box.deleg = 1,
        !.lowports = box.low = 1,
        !.swapon = box.swapunit = 1 /\ box.swapon,
        !.sockOn = IF box.sockOn # None THEN box.sock ELSE None,
        !.svcOn = IF box.svcOn # None THEN box.sock ELSE None]
    /\ run' = Idle /\ report' = NoReport
    /\ upset' = (upset \/ run.st # "idle")
    /\ UNCHANGED <<granted, runsStarted>>

\* caramelo key add, between two runs of setup.
AddKey(k) ==
    /\ run.st = "idle" /\ box.daemon # NoDaemon /\ k \notin box.keys
    /\ box' = [box EXCEPT !.keys = @ \cup {k}]
    /\ granted' = granted \cup {k}
    /\ UNCHANGED <<run, report, upset, breaks, runsStarted>>

RunStep == RunStepCheck \/ RunStepApply \/ MustRun \/ PeerAddFails \/ StepChanged

Next ==
    \/ \E w \in Wants : Execute(w)
    \/ RunStep
    \/ CommandFails \/ (run.st # "idle" /\ ReadFails) \/ Cut \/ Reboot
    \/ \E k \in Keys : AddKey(k)

Spec == Init /\ [][Next]_setupVars

-----------------------------------------------------------------------------
Files == {"swapfile", "swapunit", "conf", "deleg", "low", "djson", "dunit",
          "vpnkey", "vault", "bin", "unit", "sock", "svc", "peer", "member"}

TypeOK ==
    /\ DOMAIN box = DOMAIN Bare
    /\ \A f \in Files : box[f] \in -1 .. 9
    /\ box.keys \subseteq Keys
    /\ run.st \in {"idle", "check", "begin", "apply"}
    /\ report.changed \in 0 .. Len(Steps)

\* What a machine set up as w says looks like, on disk and in what runs.
SetUp(m, w) ==
    /\ \A i \in 1 .. Len(Steps) : Steps[i] # "caramelod" => Check(Steps[i], m, w)
    /\ m.daemon = [conf |-> w.conf, bin |-> w.bin]
    /\ m.docker = [json |-> 1, unit |-> 1]
    /\ m.delegated
    /\ w.low => m.lowports
    /\ m.sockOn = Edge[w.conf] /\ m.svcOn = Edge[w.conf]

\* A run that reports no failure leaves the machine as it was asked for, and
\* every part running what is on disk, if no earlier run failed or was cut.
OkMeansSetUp == run.st = "idle" /\ report.ok /\ ~upset => SetUp(box, report.want)

\* Running setup again on a finished machine reports no changes.
SecondRunChangesNothing ==
    run.st = "idle" /\ report.ok /\ report.again /\ ~upset => report.changed = 0

\* Setup adds the keys it finds and takes none away.
KeysKept == run.st = "idle" /\ ~upset => granted \subseteq box.keys

\* The key the secrets are sealed with is never replaced because one command
\* failed: it would take two failed reads in a row.
SealKept ==
    box.vault \notin {None, Torn} /\ breaks' <= 1 => box'.vault = box.vault
=============================================================================
