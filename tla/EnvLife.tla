------------------------------ MODULE EnvLife ------------------------------
(***************************************************************************)
(* The environments of one machine, from `env create` to `env destroy`     *)
(* (internal/env create.go, destroy.go, expose.go, vpn.go): the row of     *)
(* each with its port block and its address, the resources recorded for    *)
(* it, what exists on the machine for it, the hostnames it serves, the     *)
(* addresses on the network device, and the route table pushed to the      *)
(* edge.                                                                   *)
(*                                                                         *)
(* A command holds its environment's mutex from its first step to its      *)
(* last, so an environment has at most one; commands of different          *)
(* environments and the keeper of the edge's table interleave.             *)
(***************************************************************************)
EXTENDS Integers, FiniteSets

CONSTANTS
    Env,         \* the environment names
    None,        \* no environment
    Keeper,      \* keepEdgeTable, as the holder of the table's lock
    Host,        \* the hostnames
    Blocks,      \* how many port blocks there are room for
    Addrs,       \* how many addresses the environments' range has
    Bound,       \* the block bases some other program has a port of
    Legacy,      \* the base of the half block of an environment of an old version
    Services,    \* the app's file declares services
    MaxTries,    \* allocAttempts
    Faults,      \* the kinds of failure that may happen
    MaxFaults,   \* bound: how many of them
    MaxCommands  \* bound: commands given

\* Ports are counted in halves of a block: LegacyBlockSize is half BlockSize.
BlockSize == 2
Bases == {BlockSize * k : k \in 0..(Blocks - 1)}
Addr == 1..Addrs

FaultKinds == {"store", "record", "runtime", "git", "vpn", "push", "crash"}

ASSUME EnvLifeAssumption ==
    /\ None \notin Env /\ Keeper \notin Env \cup {None}
    /\ Blocks \in Nat /\ Addrs \in Nat
    /\ Bound \subseteq Bases
    /\ DOMAIN Legacy \subseteq Env
    /\ \A e \in DOMAIN Legacy : Legacy[e] \in Nat
    /\ \A e, f \in DOMAIN Legacy : Legacy[e] = Legacy[f] => e = f
    /\ Services \in BOOLEAN
    /\ MaxTries \in Nat \ {0}
    /\ Faults \subseteq FaultKinds
    /\ MaxFaults \in Nat
    /\ MaxCommands \in Nat

\* What an environment has on the machine.
Containers == {"dep", "service"}
Volumes == {"volume", "cache"}
Things == {"branch", "worktree", "network"} \cup Containers \cup Volumes

Statuses == {"none", "creating", "ready", "failed", "destroying"}

VARIABLES
    \* the store
    rows,      \* the envs table
    recorded,  \* the env_resources of each environment
    config,    \* the environments whose config_json was saved
    routes,    \* the routes table: who serves a hostname
    \* the machine
    world,     \* what exists for each environment
    device,    \* the addresses on the network device, with their owner
    edge,      \* the route table the edge was last pushed
    \* caramelod
    up,        \* it is running
    cmd,       \* the command of each environment
    keeper,    \* keepEdgeTable's push of the recorded table
    tableLock, \* edgeTableLock: an environment's command, Keeper or None
    \* bounds
    faults,    \* failures left
    commands   \* commands left

vars == <<rows, recorded, config, routes, world, device, edge, up, cmd, keeper,
          tableLock, faults, commands>>
store == <<rows, recorded, config, routes>>

NoRow == [status |-> "none", base |-> 0, count |-> 0, ip |-> 0]
NoTable == [h \in Host |-> None]
Exists(e) == rows[e].status # "none"

\* `then` is what a destroy that a create began with goes on to.
Idle == [pc |-> "idle", then |-> "idle", base |-> 0, ip |-> 0, tries |-> 0, make |-> "keep",
         known |-> {}, left |-> {}, failed |-> FALSE, branch |-> FALSE, table |-> NoTable]

At(e, step) == up /\ cmd[e].pc = step
Set(e, c) == cmd' = [cmd EXCEPT ![e] = c]
Goto(e, step) == Set(e, [cmd[e] EXCEPT !.pc = step])
Return(e) == Set(e, Idle)

Fault(kind) == kind \in Faults /\ faults > 0 /\ faults' = faults - 1
NoFault == UNCHANGED faults

-----------------------------------------------------------------------------
(* Port blocks and addresses (internal/ports, vpn.RangeAllocator). *)

\* Span.Overlaps.
Overlaps(b1, c1, b2, c2) == b1 < b2 + c2 /\ b2 < b1 + c1

\* BlockAllocator.Allocate: the first block that overlaps no row's and whose
\* ports can all be bound.
FreeBases == {b \in Bases \ Bound :
                \A f \in Env : Exists(f) => ~Overlaps(rows[f].base, rows[f].count, b, BlockSize)}
FirstBase == {b \in FreeBases : \A c \in FreeBases : b <= c}

FreeAddrs == {a \in Addr : \A f \in Env : Exists(f) => rows[f].ip # a}
FirstAddr == {a \in FreeAddrs : \A b \in FreeAddrs : a <= b}

\* Faulty variant: the table has no unique index to lose a race on.
MutTaken(e) == FALSE

\* The unique indexes of the envs table on the port base and on the address.
Taken(e) ==
    \E f \in Env : Exists(f) /\ (rows[f].base = cmd[e].base \/ rows[f].ip = cmd[e].ip)

-----------------------------------------------------------------------------
(* Commands begin by taking their environment's mutex. *)

Begin(e) == up /\ cmd[e].pc = "idle" /\ commands > 0 /\ commands' = commands - 1

\* Create: a name that is taken is refused, unless what has it has failed;
\* clearFailed then destroys that first.
BeginCreate(e) ==
    /\ Begin(e)
    /\ rows[e].status \in {"none", "failed"}
    /\ Set(e, [Idle EXCEPT !.pc = IF Exists(e) THEN "mark" ELSE "plan",
                           !.then = IF Exists(e) THEN "plan" ELSE "idle"])
    /\ NoFault
    /\ UNCHANGED <<store, world, device, edge, up, keeper, tableLock>>

\* Destroy of an environment that is not protected, or with --force.
BeginDestroy(e, branch) ==
    /\ Begin(e)
    /\ Set(e, [Idle EXCEPT !.pc = IF Exists(e) THEN "mark" ELSE "list", !.branch = branch])
    /\ NoFault
    /\ UNCHANGED <<store, world, device, edge, up, keeper, tableLock>>

\* The table is pushed, or an error in between leaves that to the next push.
ThenPush(e) ==
    \/ Set(e, [Idle EXCEPT !.pc = "pushRead", !.then = "expose"]) /\ NoFault
    \/ Return(e) /\ Fault("store")

\* Expose: the hostname is recorded, or was already this environment's; one
\* that is another's is refused.
BeginExpose(e, h) ==
    /\ Begin(e)
    /\ e \in config /\ Services
    /\ routes[h] \in {None, e}
    /\ routes' = [routes EXCEPT ![h] = e]
    /\ ThenPush(e)
    /\ UNCHANGED <<rows, recorded, config, world, device, edge, up, keeper, tableLock>>

\* Unexpose: the ones asked for go, and the table is pushed in any case.
BeginUnexpose(e, H) ==
    /\ Begin(e)
    /\ Exists(e)
    /\ routes' = [h \in Host |-> IF h \in H /\ routes[h] = e THEN None ELSE routes[h]]
    /\ ThenPush(e)
    /\ UNCHANGED <<rows, recorded, config, world, device, edge, up, keeper, tableLock>>

-----------------------------------------------------------------------------
(* Create, up to the row. *)

\* planBranch: from and reset are the flags of the command; a retry moves the
\* branch its first attempt made.
Plan(e, from, reset) ==
    /\ At(e, "plan")
    /\ LET exists == "branch" \in world[e]
           retry == cmd[e].then = "plan"
       IN  \/ /\ exists => (reset => from) /\ (from => reset \/ retry)
              /\ Set(e, [Idle EXCEPT !.pc = "ports",
                                     !.make = IF ~exists THEN "new"
                                              ELSE IF from THEN "reset" ELSE "keep"])
           \/ exists /\ ((reset /\ ~from) \/ (from /\ ~reset /\ ~retry)) /\ Return(e)
    /\ NoFault
    /\ UNCHANGED <<store, world, device, edge, up, keeper, tableLock, commands>>

\* createRow reads the rows for a block, then again for an address, then
\* inserts; nothing is held in between.
AllocatePorts(e) ==
    /\ At(e, "ports")
    /\ \/ \E b \in FirstBase : Set(e, [cmd[e] EXCEPT !.pc = "address", !.base = b])
       \/ FreeBases = {} /\ Return(e)
    /\ NoFault
    /\ UNCHANGED <<store, world, device, edge, up, keeper, tableLock, commands>>

AllocateAddress(e) ==
    /\ At(e, "address")
    /\ \/ \E a \in FirstAddr : Set(e, [cmd[e] EXCEPT !.pc = "insert", !.ip = a])
       \/ FreeAddrs = {} /\ Return(e)
    /\ NoFault
    /\ UNCHANGED <<store, world, device, edge, up, keeper, tableLock, commands>>

\* Where buildTree begins.
FirstOf == [keep |-> "worktree", new |-> "branch", reset |-> "reset"]

CreateRow(e) ==
    /\ At(e, "insert")
    /\ \/ /\ ~Taken(e)
          /\ rows' = [rows EXCEPT ![e] = [status |-> "creating", base |-> cmd[e].base,
                                          count |-> BlockSize, ip |-> cmd[e].ip]]
          /\ Goto(e, FirstOf[cmd[e].make])
          /\ NoFault
       \/ /\ Taken(e)                          \* lost the race: the next block
          /\ Set(e, IF cmd[e].tries + 1 < MaxTries
                    THEN [cmd[e] EXCEPT !.pc = "ports", !.tries = @ + 1] ELSE Idle)
          /\ NoFault
          /\ UNCHANGED rows
       \/ Fault("store") /\ Return(e) /\ UNCHANGED rows
    /\ UNCHANGED <<recorded, config, routes, world, device, edge, up, keeper, tableLock, commands>>

-----------------------------------------------------------------------------
(* Create, what the environment gets. *)

\* An error of any of these steps ends in Manager.fail; the thing may be there
\* all the same.  addResource drops its error.
Make(e, step, thing, kind, next) ==
    /\ At(e, step)
    /\ \/ /\ world' = [world EXCEPT ![e] = @ \cup {thing}]
          /\ \/ recorded' = [recorded EXCEPT ![e] = @ \cup {thing}] /\ NoFault
             \/ Fault("record") /\ UNCHANGED recorded
          /\ Goto(e, next)
       \/ /\ Fault(kind)
          /\ Goto(e, "fail")
          /\ \E made \in SUBSET {thing} : world' = [world EXCEPT ![e] = @ \cup made]
          /\ UNCHANGED recorded
    /\ UNCHANGED <<rows, config, routes, device, edge, up, keeper, tableLock, commands>>

ResetBranch(e) ==
    /\ At(e, "reset")
    /\ \/ world' = [world EXCEPT ![e] = @ \ {"branch"}] /\ Goto(e, "branch") /\ NoFault
       \/ Fault("git") /\ Goto(e, "fail") /\ UNCHANGED world
    /\ UNCHANGED <<store, device, edge, up, keeper, tableLock, commands>>

MakeBranch(e) == Make(e, "branch", "branch", "git", "worktree")
MakeWorktree(e) == Make(e, "worktree", "worktree", "git", "config")
MakeNetwork(e) == Make(e, "network", "network", "runtime", "cache")
MakeCache(e) == Make(e, "cache", "cache", "runtime", "deps")
MakeVolume(e) == Make(e, "volume", "volume", "runtime", "container")
MakeDep(e) == Make(e, "container", "dep", "runtime", "waitReady")

\* readConfig, the passwords and the variables, and the row with its config.
SaveConfig(e) ==
    /\ At(e, "config")
    /\ \/ config' = config \cup {e} /\ Goto(e, "network") /\ NoFault
       \/ Fault("store") /\ Goto(e, "fail") /\ UNCHANGED config
    /\ UNCHANGED <<rows, recorded, routes, world, device, edge, up, keeper, tableLock, commands>>

\* --no-deps skips the dependency.
Deps(e) ==
    /\ At(e, "deps")
    /\ \E next \in {"volume", "publish"} : Goto(e, next)
    /\ NoFault
    /\ UNCHANGED <<store, world, device, edge, up, keeper, tableLock, commands>>

\* waitReady and attachDeps.
WaitReady(e) ==
    /\ At(e, "waitReady")
    /\ \/ Goto(e, "publish") /\ NoFault
       \/ Goto(e, "fail") /\ Fault("runtime")
    /\ UNCHANGED <<store, world, device, edge, up, keeper, tableLock, commands>>

\* Old rows have no address.
HasAddr(e) == {rows[e].ip} \ {0}

\* publish only warns.
Publish(e) ==
    /\ At(e, "publish")
    /\ \/ device' = device \cup {<<a, e>> : a \in HasAddr(e)} /\ NoFault
       \/ HasAddr(e) # {} /\ UNCHANGED device /\ Fault("vpn")
    /\ Goto(e, "ready")
    /\ UNCHANGED <<store, world, edge, up, keeper, tableLock, commands>>

Ready(e) ==
    /\ At(e, "ready")
    /\ \/ rows' = [rows EXCEPT ![e].status = "ready"] /\ Return(e) /\ NoFault
       \/ Fault("store") /\ Goto(e, "fail") /\ UNCHANGED rows
    /\ UNCHANGED <<recorded, config, routes, world, device, edge, up, keeper, tableLock, commands>>

Fail(e) ==
    /\ At(e, "fail")
    /\ \/ rows' = [rows EXCEPT ![e].status = "failed"] /\ NoFault
       \/ Fault("store") /\ UNCHANGED rows
    /\ Return(e)
    /\ UNCHANGED <<recorded, config, routes, world, device, edge, up, keeper, tableLock, commands>>

-----------------------------------------------------------------------------
(* The push of the route table, under edgeTableLock. *)

\* Faulty variant: the table is built without the lock.
MutTableFree == TRUE

TableFree == tableLock = None

PushRead(e) ==
    /\ At(e, "pushRead")
    /\ TableFree
    /\ tableLock' = e
    /\ Set(e, [cmd[e] EXCEPT !.pc = "pushSend", !.table = routes])
    /\ NoFault
    /\ UNCHANGED <<store, world, device, edge, up, keeper, commands>>

\* Faulty variant: the lock is not given back when the push fails.
MutUnlock(sent) == IF sent THEN None ELSE tableLock

Unlock(sent) == None

\* The table arrived, and the answer may have been lost.
Sent(sent, table) ==
    \/ sent /\ edge' = table /\ NoFault
    \/ ~sent /\ edge' \in {edge, table} /\ Fault("push")

\* Expose and unexpose return what the push returned; a destroy goes on.
PushSend(e) ==
    /\ At(e, "pushSend")
    /\ \E sent \in BOOLEAN :
        /\ Sent(sent, cmd[e].table)
        /\ tableLock' = Unlock(sent)
        /\ Set(e, IF cmd[e].then = "expose" THEN Idle
                  ELSE [cmd[e] EXCEPT !.pc = "list", !.failed = @ \/ ~sent, !.table = NoTable])
    /\ UNCHANGED <<store, world, device, up, keeper, commands>>

KeeperRead ==
    /\ up /\ keeper.pc = "idle" /\ commands > 0
    /\ commands' = commands - 1
    /\ TableFree
    /\ tableLock' = Keeper
    /\ keeper' = [pc |-> "send", table |-> routes]
    /\ NoFault
    /\ UNCHANGED <<store, world, device, edge, up, cmd>>

KeeperSend ==
    /\ up /\ keeper.pc = "send"
    /\ \E sent \in BOOLEAN :
        /\ Sent(sent, keeper.table)
        /\ tableLock' = Unlock(sent)
    /\ keeper' = [pc |-> "idle", table |-> NoTable]
    /\ UNCHANGED <<store, world, device, up, cmd, commands>>

-----------------------------------------------------------------------------
(* destroyLocked. *)

\* A destroy goes on after an error and remembers it.
Step(e, next, failed) == Set(e, [cmd[e] EXCEPT !.pc = next, !.failed = @ \/ failed])

\* Faulty variant: the row is not marked before things go.
MutMarked(e) == rows

Marked(e) == [rows EXCEPT ![e].status = "destroying"]

\* The status, then the resources; an error of either ends it here.
Mark(e) ==
    /\ At(e, "mark")
    /\ \/ /\ rows' = Marked(e)
          /\ Set(e, [cmd[e] EXCEPT !.pc = "unpublish", !.known = recorded[e]])
          /\ NoFault
       \/ rows' \in {rows, Marked(e)} /\ Return(e) /\ Fault("store")
    /\ UNCHANGED <<recorded, config, routes, world, device, edge, up, keeper, tableLock, commands>>

Unpublish(e) ==
    /\ At(e, "unpublish")
    /\ \/ device' = {d \in device : d[1] \notin HasAddr(e)} /\ Step(e, "routes", FALSE) /\ NoFault
       \/ HasAddr(e) # {} /\ Fault("vpn") /\ Step(e, "routes", TRUE) /\ UNCHANGED device
    /\ UNCHANGED <<store, world, edge, up, keeper, tableLock, commands>>

\* dropRoutes deletes row after row and pushes when all are gone.
DropRoutes(e) ==
    /\ At(e, "routes")
    /\ \E H \in SUBSET {h \in Host : routes[h] = e} :
        /\ routes' = [h \in Host |-> IF h \in H THEN None ELSE routes[h]]
        /\ \/ (\A h \in Host \ H : routes[h] # e) /\ Step(e, "pushRead", FALSE) /\ NoFault
           \/ Step(e, "list", TRUE) /\ Fault("store")
    /\ UNCHANGED <<rows, recorded, config, world, device, edge, up, keeper, tableLock, commands>>

\* Faulty variant: the config is not asked, the records are relied on.
MutImplied(e) == IF Exists(e) THEN {"cache"} ELSE {}

\* leftovers: what the row's resources name, what its config implies and what
\* the runtime lists under the environment's labels.  Networks are not listed.
Implied(e) ==
    (IF Exists(e) THEN {"cache"} ELSE {})
    \cup (IF e \in config THEN {"dep", "volume"} \cup (IF Services THEN {"service", "network"} ELSE {}) ELSE {})
Labelled(e) == world[e] \cap (Containers \cup Volumes)

\* Faulty variant: the resources of every kind are taken for what the runtime
\* has.
MutLeftovers(e, listed) == cmd[e].known \cup Implied(e) \cup listed

Leftovers(e, listed) ==
    (cmd[e].known \ {"branch", "worktree"}) \cup Implied(e) \cup listed
    \cup (IF "service" \in listed THEN {"network"} ELSE {})

List(e) ==
    /\ At(e, "list")
    /\ \/ /\ Set(e, [cmd[e] EXCEPT !.pc = "containers", !.left = Leftovers(e, Labelled(e))])
          /\ NoFault
       \/ /\ Set(e, [cmd[e] EXCEPT !.pc = "containers", !.left = Leftovers(e, {}), !.failed = TRUE])
          /\ Fault("runtime")
    /\ UNCHANGED <<store, world, device, edge, up, keeper, tableLock, commands>>

\* Removing what is not there is no error; what is in use or fails stays.
RemoveAll(e, step, kind, next) ==
    /\ At(e, step)
    /\ \/ /\ world' = [world EXCEPT ![e] = @ \ (cmd[e].left \cap kind)]
          /\ Step(e, next, FALSE)
          /\ NoFault
       \/ /\ \E bad \in SUBSET (world[e] \cap cmd[e].left \cap kind) :
              /\ bad # {}
              /\ world' = [world EXCEPT ![e] = (@ \ (cmd[e].left \cap kind)) \cup bad]
          /\ Step(e, next, TRUE)
          /\ \/ Fault("runtime")
             \/ step # "containers" /\ world[e] \cap Containers # {} /\ NoFault
    /\ UNCHANGED <<store, device, edge, up, keeper, tableLock, commands>>

RemoveContainers(e) == RemoveAll(e, "containers", Containers, "volumes")
RemoveVolumes(e) == RemoveAll(e, "volumes", Volumes, "networks")
RemoveNetworks(e) == RemoveAll(e, "networks", {"network"}, "removeTree")

\* removeWorktree, then the branch when it was asked for.
RemoveTree(e) ==
    /\ At(e, "removeTree")
    /\ LET gone == {"worktree"} \cup (IF cmd[e].branch THEN {"branch"} ELSE {}) IN
       \/ world' = [world EXCEPT ![e] = @ \ gone] /\ Step(e, "forget", FALSE) /\ NoFault
       \/ /\ \E bad \in SUBSET gone :
              bad # {} /\ world' = [world EXCEPT ![e] = (@ \ gone) \cup (@ \cap bad)]
          /\ Step(e, "forget", TRUE)
          /\ Fault("git")
    /\ UNCHANGED <<store, device, edge, up, keeper, tableLock, commands>>

\* A problem keeps the row, for another destroy.
GivesUp(e) == cmd[e].failed

\* forget: the resource rows one by one, then the environment's row, with
\* which the store deletes what refers to it.
Forget(e) ==
    /\ At(e, "forget")
    /\ \/ /\ GivesUp(e)
          /\ Return(e) /\ NoFault
          /\ UNCHANGED <<rows, recorded, config, routes>>
       \/ /\ ~GivesUp(e)
          /\ rows' = [rows EXCEPT ![e] = NoRow]
          /\ recorded' = [recorded EXCEPT ![e] = {}]
          /\ config' = config \ {e}
          /\ routes' = [h \in Host |-> IF routes[h] = e THEN None ELSE routes[h]]
          /\ Set(e, IF cmd[e].then = "plan" THEN [Idle EXCEPT !.pc = "plan", !.then = "plan"] ELSE Idle)
          /\ NoFault
       \/ /\ ~GivesUp(e) /\ Exists(e)
          /\ \E some \in SUBSET cmd[e].known :
                recorded' = [recorded EXCEPT ![e] = @ \ some]
          /\ Return(e)
          /\ Fault("store")
          /\ UNCHANGED <<rows, config, routes>>
    /\ UNCHANGED <<world, device, edge, up, keeper, tableLock, commands>>

-----------------------------------------------------------------------------
(* caramelod dies, and its network device with it; another one starts. *)

\* A push under way may arrive.
Underway == {cmd[e].table : e \in {f \in Env : cmd[f].pc = "pushSend"}}
            \cup (IF keeper.pc = "send" THEN {keeper.table} ELSE {})

Crash ==
    /\ up
    /\ Fault("crash")
    /\ edge' \in {edge} \cup Underway
    /\ up' = FALSE
    /\ cmd' = [e \in Env |-> Idle]
    /\ keeper' = [pc |-> "idle", table |-> NoTable]
    /\ tableLock' = None
    /\ device' = {}
    /\ UNCHANGED <<store, world, commands>>

\* PushRoutes, then Republish of every row that has an address.
Restart ==
    /\ ~up
    /\ up' = TRUE
    /\ LET all == {d \in Addr \X Env : Exists(d[2]) /\ d[1] \in HasAddr(d[2])} IN
       \/ device' = all /\ (\E sent \in BOOLEAN : Sent(sent, routes))
       \/ device' \in SUBSET all /\ edge' = routes /\ Fault("vpn")
    /\ UNCHANGED <<store, world, cmd, keeper, tableLock, commands>>

-----------------------------------------------------------------------------
\* Environments of an old version have half a block and no address, run, and
\* may serve hostnames.
Init ==
    /\ \E old \in SUBSET DOMAIN Legacy :
        /\ rows = [e \in Env |-> IF e \in old
                                 THEN [status |-> "ready", base |-> Legacy[e], count |-> 1, ip |-> 0]
                                 ELSE NoRow]
        /\ recorded = [e \in Env |-> IF e \in old THEN Things \ {"service"} ELSE {}]
        /\ world = [e \in Env |-> IF e \in old THEN Things ELSE {}]
        /\ config = old
        /\ routes \in [Host -> {None} \cup (IF Services THEN old ELSE {})]
    /\ edge = routes
    /\ device = {}
    /\ up = TRUE
    /\ cmd = [e \in Env |-> Idle]
    /\ keeper = [pc |-> "idle", table |-> NoTable]
    /\ tableLock = None
    /\ faults = MaxFaults
    /\ commands = MaxCommands

Command(e) ==
    \/ BeginCreate(e)
    \/ \E branch \in BOOLEAN : BeginDestroy(e, branch)
    \/ \E h \in Host : BeginExpose(e, h)
    \/ \E H \in SUBSET Host : BeginUnexpose(e, H)

Create(e) ==
    \/ \E from, reset \in BOOLEAN : Plan(e, from, reset)
    \/ AllocatePorts(e) \/ AllocateAddress(e) \/ CreateRow(e)
    \/ ResetBranch(e) \/ MakeBranch(e) \/ MakeWorktree(e) \/ SaveConfig(e)
    \/ MakeNetwork(e) \/ MakeCache(e) \/ Deps(e) \/ MakeVolume(e) \/ MakeDep(e) \/ WaitReady(e)
    \/ Publish(e) \/ Ready(e) \/ Fail(e)

Destroy(e) ==
    \/ Mark(e) \/ Unpublish(e) \/ DropRoutes(e) \/ List(e)
    \/ RemoveContainers(e) \/ RemoveVolumes(e) \/ RemoveNetworks(e) \/ RemoveTree(e) \/ Forget(e)

Run(e) == Create(e) \/ Destroy(e) \/ PushRead(e) \/ PushSend(e)

Next ==
    \/ \E e \in Env : Command(e) \/ Run(e)
    \/ KeeperRead \/ KeeperSend
    \/ Crash \/ Restart

Spec == Init /\ [][Next]_vars

\* A goroutine that can take a step takes it, and one that waits for the
\* table's mutex gets it in turn.
Fairness == (\A e \in Env : SF_vars(Run(e))) /\ WF_vars(KeeperSend) /\ WF_vars(Restart)
FairSpec == Spec /\ Fairness

-----------------------------------------------------------------------------
(* Properties. *)

Pcs ==
    {"idle", "mark", "plan", "ports", "address", "insert", "reset", "branch", "worktree", "config",
     "network", "cache", "deps", "volume", "container", "waitReady", "publish", "ready", "fail",
     "pushRead", "pushSend", "unpublish", "routes", "list", "containers", "volumes", "networks",
     "removeTree", "forget"}
Table == [Host -> Env \cup {None}]

RowRec == [status : Statuses, base : Nat, count : {0, 1, BlockSize}, ip : Addr \cup {0}]
CmdRec == [pc : Pcs, then : {"idle", "plan", "expose"}, base : Bases \cup {0},
           ip : Addr \cup {0}, tries : 0..MaxTries, make : {"keep", "new", "reset"},
           known : SUBSET Things, left : SUBSET (Things \ {"branch", "worktree"}),
           failed : BOOLEAN, branch : BOOLEAN, table : Table]

\* The type of every variable.
TypeOK ==
    /\ rows \in [Env -> RowRec]
    /\ recorded \in [Env -> SUBSET Things]
    /\ config \subseteq Env
    /\ routes \in Table /\ edge \in Table
    /\ world \in [Env -> SUBSET Things]
    /\ device \subseteq Addr \X Env
    /\ up \in BOOLEAN
    /\ cmd \in [Env -> CmdRec]
    /\ keeper \in [pc : {"idle", "send"}, table : Table]
    /\ tableLock \in Env \cup {None, Keeper}
    /\ faults \in 0..MaxFaults
    /\ commands \in 0..MaxCommands

\* No two environments share a port or an address, whatever creates run at
\* the same time and whatever half blocks older versions left: a block is
\* chosen from rows that may be out of date when it is recorded.
BlocksDisjoint ==
    \A e, f \in Env :
        e # f /\ Exists(e) /\ Exists(f) =>
            /\ ~Overlaps(rows[e].base, rows[e].count, rows[f].base, rows[f].count)
            /\ rows[e].ip # 0 => rows[e].ip # rows[f].ip

\* An environment that has no row and no command has nothing on the machine
\* but perhaps its branch: a create that failed anywhere, a destroy that
\* failed half way and a daemon that died leave a row to find it by.
NothingLeft ==
    \A e \in Env :
        up /\ cmd[e].pc = "idle" /\ ~Exists(e) => world[e] \subseteq {"branch"}

\* The edge serves no name, and the device answers no address, of an
\* environment that is gone: the table of one environment's push never brings
\* back what another's destroy took out.
NoOrphans ==
    /\ \A h \in Host : edge[h] # None => Exists(edge[h])
    /\ \A d \in device : Exists(d[2]) /\ rows[d[2]].ip = d[1]

\* An environment that says it is ready has its tree, its network and its
\* cache, and what a destroy took half away never says so again.
ReadyComplete ==
    \A e \in Env : rows[e].status = "ready" => {"branch", "worktree", "network", "cache"} \subseteq world[e]

\* Every command ends, also the ones that wait for the table's mutex.
CommandsEnd == \A e \in Env : cmd[e].pc # "idle" ~> cmd[e].pc = "idle"
=============================================================================
