----------------------------- MODULE Exposure ------------------------------
(***************************************************************************)
(* The public names of a fleet's environments (internal/env: expose.go,     *)
(* via.go, fleet.go and the routes of up.go; the routes of internal/state): *)
(* `up` records the names its file asks for, `env expose` and `unexpose`    *)
(* add and remove them, `destroy` drops them, and each command pushes the   *)
(* whole table of its machine to its edge.  A member announces what it      *)
(* serves, and the hub's table carries the names that are served through it.*)
(*                                                                          *)
(* Commands on one environment exclude each other (lockEnv); commands on    *)
(* different environments interleave, also inside a push, which reads the   *)
(* rows and hands the table over under one lock per machine.  A command's   *)
(* call to the hub is played by the command's own process: the member waits *)
(* for the answer.                                                          *)
(***************************************************************************)
EXTENDS AppConfig

CONSTANTS EnvOrder,      \* the environments, as the store sorts them
          MachineOf,     \* the machine each one runs on
          FilesOf,       \* the files its tree may hold
          Block,         \* the ports of a block
          KnowsIP,       \* the machines know their public address
          OtherHosts,    \* the names --host may give
          Beats,         \* the member announces itself periodically
          MaxExposeCommands

Hub      == "hub"
Envs     == ToSet(EnvOrder)
Before(d, e) == SelectInSeq(EnvOrder, LAMBDA x : x = d)
                    < SelectInSeq(EnvOrder, LAMBDA x : x = e)
Machines == {MachineOf[e] : e \in Envs} \cup {Hub}
Beat     == "beat"       \* the member's periodic announcement
Procs    == Envs \cup {Beat}
MemberOf == CHOOSE m \in Machines : m # Hub \/ Machines = {Hub}

VARIABLES fileOf,        \* what the environment's tree holds
          recCfg,        \* the configuration its record keeps
          routes,        \* the rows of routes, on every machine
          viaRow,        \* the environment's fleet row: who serves its names
          alive,         \* the environment exists
          xcmd,          \* the command on each environment
          tableLock,     \* who is pushing a machine's table
          served,        \* the table each edge has
          directory,     \* the hub's rows about the member's environments
          xcommands, cutShort

exposeVars == <<fileOf, recCfg, routes, viaRow, alive, xcmd, tableLock,
                served, directory, xcommands, cutShort>>

Idle == [op |-> "none", step |-> "idle", todo |-> << >>, gone |-> << >>, read |-> {},
         said |-> << >>, then |-> "ok", managed |-> TRUE]

ExposeInit ==
    /\ fileOf = [e \in Envs |-> FilesOf[e][1]]
    /\ recCfg = [e \in Envs |-> FilesOf[e][1]]
    /\ routes = {}
    /\ viaRow = [e \in Envs |->
                    IF Override(FilesOf[e][1], e).via = "hub" THEN "hub" ELSE "member"]
    /\ alive = [e \in Envs |-> TRUE]
    /\ xcmd = [p \in Procs |-> Idle]
    /\ tableLock = [m \in Machines |-> "free"]
    /\ served = [m \in Machines |-> {}]
    /\ directory = << >>
    /\ xcommands = 0
    /\ cutShort = FALSE

----------------------------------------------------------------------------
\* The names of a service, as the machine derives them (Manager.hostsFor).

FirstExposed(cfg) ==
    IF ExposedServices(cfg) # << >> THEN ExposedServices(cfg)[1].name
    ELSE IF cfg.services # << >> THEN cfg.services[1].name ELSE ""

\* domainOf fails for `auto` on a machine that does not know its address.
HasDomain(cfg) == cfg.domain # NoDomain /\ (cfg.domain = AutoDomain => KnowsIP)

HostsAt(cfg, e, service) ==
    LET first == FirstExposed(cfg) = service
    IN IF first /\ Override(cfg, e).hosts # << >> THEN Override(cfg, e).hosts
       ELSE IF HasDomain(cfg) THEN <<DerivedHost(cfg.domain, e, service, first)>>
       ELSE << >>

\* exposableService: the one asked for, or the first that publishes a port.
Exposable(cfg, service) ==
    IF service # "" THEN (IF HasService(cfg, service) /\ HasPort(ServiceOf(cfg, service))
                          THEN service ELSE "")
    ELSE IF Published(cfg) # << >> THEN Published(cfg)[1].name ELSE ""

Rows(e)   == {r \in routes : r.env = e}
Asked(cfg, e) ==
    LET exposed == ExposedServices(cfg)
        Pairs(s) == [i \in DOMAIN HostsAt(cfg, e, s) |-> <<s, HostsAt(cfg, e, s)[i]>>]
    IN FlattenSeq([i \in DOMAIN exposed |-> Pairs(exposed[i].name)])

----------------------------------------------------------------------------
\* The table of a machine: its own rows, and on the hub the names its members
\* announced, where no other machine serves them already.

OwnRoutes(m) ==
    {[host |-> r.host, env |-> r.env, service |-> r.service, kind |-> "https"] :
        r \in {x \in routes : MachineOf[x.env] = m /\ alive[x.env]}}

MutTaken(own, host) == FALSE
Taken(own, host) == \E r \in own : r.host = host

\* Entries come sorted by environment; of two that announce one name the
\* first has it.
ViaRoutes(own) ==
    LET said == UNION {{[host |-> h[2], env |-> e, service |-> h[1], kind |-> "via"] :
                           h \in directory[e]} : e \in DOMAIN directory}
    IN {r \in said :
          /\ ~Taken(own, r.host)
          /\ \A q \in said : q.host = r.host => ~Before(q.env, r.env)}

TableAt(m) ==
    OwnRoutes(m) \cup (IF m = Hub THEN ViaRoutes(OwnRoutes(m)) ELSE {})

\* Table.Validate, which the edge calls: one route for a host.
TableValid(table) == \A r, q \in table : r.host = q.host => r = q

\* directoryEntry: what the member says of an environment.
EntryOf(e) ==
    IF viaRow[e] = "hub" THEN {<<r.service, r.host>> : r \in Rows(e)} ELSE {}
Local(m) == {e \in Envs : MachineOf[e] = m /\ alive[e]}

----------------------------------------------------------------------------
\* Commands.  Free: the environment exists and no command holds its lock.

Free(e)  == alive[e] /\ xcmd[e].step \in {"idle", "ok", "failed"}
Start(e) == Free(e) /\ xcommands < MaxExposeCommands /\ xcommands' = xcommands + 1
Go(p, step) == xcmd' = [xcmd EXCEPT ![p].step = step]

\* A failed command that has written rows leaves them unpushed.
Fail(p, wrote) ==
    /\ Go(p, "failed")
    /\ cutShort' = (cutShort \/ wrote)

\* The user edits the file in the environment's tree.
EditFile(e) ==
    /\ Free(e) /\ xcommands < MaxExposeCommands
    /\ \E i \in DOMAIN FilesOf[e] :
          FilesOf[e][i] # fileOf[e] /\ fileOf' = [fileOf EXCEPT ![e] = FilesOf[e][i]]
    /\ UNCHANGED <<recCfg, routes, viaRow, alive, xcmd, tableLock, served,
                   directory, xcommands, cutShort>>

\* Up: buildPlan and saveEnv, then planRoutes.  A plan that cannot be made
\* changes nothing.
UpBegin(e) ==
    /\ Start(e)
    /\ PlanMade(fileOf[e], e, Block, "stack")
    /\ LET plan == PlanOf(fileOf[e], e, 20000, "stack")
       IN /\ recCfg' = [recCfg EXCEPT ![e] = plan]
          /\ xcmd' = [xcmd EXCEPT ![e] =
                [Idle EXCEPT !.op = "up", !.step = "add", !.todo = Asked(plan, e)]]
    /\ UNCHANGED <<fileOf, routes, viaRow, alive, tableLock, served, directory, cutShort>>

\* Expose: setViaLocked writes and announces first, whatever follows.
CanServeVia(e, via) == via = "hub" => Machines # {Hub}
ExposeBegin(e) ==
    \E service \in NamesOf(recCfg[e].services) \cup {""},
       host \in OtherHosts \cup {<< >>}, via \in {"", "member", "hub"} :
        /\ Start(e)
        /\ CanServeVia(e, via)
        /\ LET name  == Exposable(recCfg[e], service)
               hosts == IF host # << >> THEN <<host>> ELSE HostsAt(recCfg[e], e, name)
               moves == via # "" /\ via # viaRow[e]
               next  == IF name = "" \/ hosts = << >> THEN "failed" ELSE "add"
           IN /\ viaRow' = [viaRow EXCEPT ![e] = IF moves THEN via ELSE @]
              /\ xcmd' = [xcmd EXCEPT ![e] =
                    [Idle EXCEPT !.op = "expose", !.then = next, !.managed = host = << >>,
                       !.step = IF moves /\ MachineOf[e] # Hub THEN "say" ELSE next,
                       !.todo = [i \in DOMAIN hosts |-> <<name, hosts[i]>>]]]
    /\ UNCHANGED <<fileOf, recCfg, routes, alive, tableLock, served, directory, cutShort>>

UnexposeBegin(e) ==
    \E service \in NamesOf(recCfg[e].services) \cup {""},
       host \in {r.host : r \in Rows(e)} \cup {<< >>} :
        /\ Start(e)
        /\ LET gone == {r \in Rows(e) : /\ service # "" => r.service = service
                                        /\ host # << >> => r.host = host}
           IN xcmd' = [xcmd EXCEPT ![e] = [Idle EXCEPT !.op = "unexpose", !.step = "drop",
                                              !.gone = SetToSeq(gone)]]
    /\ UNCHANGED <<fileOf, recCfg, routes, viaRow, alive, tableLock, served,
                   directory, cutShort>>

DestroyBegin(e) ==
    /\ Start(e)
    /\ xcmd' = [xcmd EXCEPT ![e] = [Idle EXCEPT !.op = "destroy", !.step = "drop",
                                       !.gone = SetToSeq(Rows(e))]]
    /\ UNCHANGED <<fileOf, recCfg, routes, viaRow, alive, tableLock, served,
                   directory, cutShort>>

\* The announcer's turn: AnnounceAll of the member's environments.
BeatBegin ==
    /\ Beats /\ MemberOf # Hub
    /\ xcmd[Beat].step \in {"idle", "ok", "failed"}
    /\ xcmd' = [xcmd EXCEPT ![Beat] = [Idle EXCEPT !.op = "beat", !.step = "announce"]]
    /\ UNCHANGED <<fileOf, recCfg, routes, viaRow, alive, tableLock, served,
                   directory, xcommands, cutShort>>

----------------------------------------------------------------------------
\* addRoute: the host column is unique.  Up passes over a name this
\* environment already has, whatever service it routes to.

MutHeldByOther(e, host) == FALSE
HeldByOther(e, host) == \E r \in routes : r.host = host /\ r.env # e
                                         /\ MachineOf[r.env] = MachineOf[e]
MutHave(e, host) == \E r \in routes : r.host = host
Have(e, host) == \E r \in Rows(e) : r.host = host

AddRoute(e, service, host) ==
    routes' = {r \in routes : r.host # host \/ MachineOf[r.env] # MachineOf[e]}
              \cup {[host |-> host, env |-> e, service |-> service,
                     managed |-> xcmd[e].managed]}

AddStep(e) ==
    /\ xcmd[e].step = "add"
    /\ xcmd[e].todo # << >>
    /\ LET c == xcmd[e]
           service == c.todo[1][1]
           host == c.todo[1][2]
           rest == [xcmd EXCEPT ![e].todo = Tail(@)]
       IN \/ /\ HeldByOther(e, host)
             /\ Fail(e, TRUE)
             /\ UNCHANGED routes
          \/ /\ ~HeldByOther(e, host) /\ ~Have(e, host)
             /\ AddRoute(e, service, host)
             /\ xcmd' = rest
             /\ UNCHANGED cutShort
          \/ /\ Have(e, host)
             /\ c.op = "expose" /\ [host |-> host, service |-> service] \notin
                    {[host |-> r.host, service |-> r.service] : r \in Rows(e)}
             /\ Fail(e, TRUE)
             /\ UNCHANGED routes
          \/ /\ Have(e, host)
             /\ c.op = "expose" => \E r \in Rows(e) : r.host = host /\ r.service = service
             /\ xcmd' = rest
             /\ UNCHANGED <<routes, cutShort>>
    /\ UNCHANGED <<fileOf, recCfg, viaRow, alive, tableLock, served, directory, xcommands>>

\* The routes are planned.  Up rolls the services that have one, and a rollout
\* that fails before its flip pushes nothing; without routes nothing is pushed.
AddDone(e) ==
    /\ xcmd[e].step = "add"
    /\ xcmd[e].todo = << >>
    /\ \/ /\ xcmd[e].op = "expose" \/ Rows(e) # {}
          /\ Go(e, "push") /\ UNCHANGED cutShort
       \/ /\ xcmd[e].op = "up" /\ Rows(e) = {}
          /\ Go(e, "ok") /\ UNCHANGED cutShort
       \/ /\ xcmd[e].op = "up"
          /\ Fail(e, TRUE)
    /\ UNCHANGED <<fileOf, recCfg, routes, viaRow, alive, tableLock, served,
                   directory, xcommands>>

\* DeleteRoute, one row at a time.
DropStep(e) ==
    /\ xcmd[e].step = "drop"
    /\ IF xcmd[e].gone = << >>
       THEN Go(e, "push") /\ UNCHANGED routes
       ELSE /\ routes' = routes \ {xcmd[e].gone[1]}
            /\ xcmd' = [xcmd EXCEPT ![e].gone = Tail(@)]
    /\ UNCHANGED <<fileOf, recCfg, viaRow, alive, tableLock, served, directory,
                   xcommands, cutShort>>

----------------------------------------------------------------------------
\* pushTable: under the machine's lock the rows are read and the table handed
\* to the edge, which refuses one with a host twice.

MutLockFree(m) == TRUE
LockFree(m) == tableLock[m] = "free"

PushRead(p, m) ==
    /\ LockFree(m)
    /\ tableLock' = [tableLock EXCEPT ![m] = p]
    /\ xcmd' = [xcmd EXCEPT ![p].step = IF m = Hub /\ @ = "hubpush" THEN "hubhand" ELSE "hand",
                            ![p].read = TableAt(m)]

PushTable(m, table) == served' = [served EXCEPT ![m] = IF TableValid(table) THEN table ELSE @]

PushBegin(e) ==
    /\ xcmd[e].step = "push"
    /\ PushRead(e, MachineOf[e])
    /\ UNCHANGED <<fileOf, recCfg, routes, viaRow, alive, served, directory,
                   xcommands, cutShort>>

\* The push ends; a member goes on to announce.  An edge that cannot be
\* reached fails the command.
PushEnd(e) ==
    /\ xcmd[e].step = "hand"
    /\ tableLock' = [tableLock EXCEPT ![MachineOf[e]] = "free"]
    /\ LET after == IF xcmd[e].op = "destroy" THEN "gone"
                    ELSE IF MachineOf[e] = Hub THEN "ok" ELSE "announce"
       IN \/ /\ PushTable(MachineOf[e], xcmd[e].read)
             /\ Go(e, IF TableValid(xcmd[e].read) THEN after ELSE "failed")
             /\ UNCHANGED cutShort
          \/ /\ Fail(e, TRUE)
             /\ UNCHANGED served
    /\ UNCHANGED <<fileOf, recCfg, routes, viaRow, alive, directory, xcommands>>

\* Destroy deletes the environment's row and announces what is left.
Gone(e) ==
    /\ xcmd[e].step = "gone"
    /\ alive' = [alive EXCEPT ![e] = FALSE]
    /\ Go(e, IF MachineOf[e] = Hub THEN "ok" ELSE "announce")
    /\ UNCHANGED <<fileOf, recCfg, routes, viaRow, tableLock, served, directory,
                   xcommands, cutShort>>

----------------------------------------------------------------------------
\* Announcements: AnnounceAll reads every environment of the member and is
\* the whole truth about it; announce carries one entry.

Announce(p) ==
    /\ xcmd[p].step \in {"announce", "say"}
    /\ LET about == IF xcmd[p].step = "say" THEN {p} ELSE Local(MemberOf)
       IN xcmd' = [xcmd EXCEPT
             ![p].said = [e \in about |-> EntryOf(e)],
             ![p].then = IF xcmd[p].step = "say" THEN @ ELSE "ok",
             ![p].step = IF @ = "say" THEN "tellone" ELSE "tellall"]
    /\ UNCHANGED <<fileOf, recCfg, routes, viaRow, alive, tableLock, served,
                   directory, xcommands, cutShort>>

MutApplied(said, full) == said @@ directory
Applied(said, full) == IF full THEN said ELSE said @@ directory

\* MachineAnnounce on the hub: ApplyAnnouncement, then the hub's own push.  A
\* hub that is not reached is only logged.
Tell(p) ==
    /\ xcmd[p].step \in {"tellone", "tellall"}
    /\ \/ /\ directory' = Applied(xcmd[p].said, xcmd[p].step = "tellall")
          /\ Go(p, "hubpush")
          /\ UNCHANGED cutShort
       \/ /\ p # Beat
          /\ Go(p, xcmd[p].then)
          /\ cutShort' = TRUE
          /\ UNCHANGED directory
    /\ UNCHANGED <<fileOf, recCfg, routes, viaRow, alive, tableLock, served, xcommands>>

HubPushBegin(p) ==
    /\ xcmd[p].step = "hubpush"
    /\ PushRead(p, Hub)
    /\ UNCHANGED <<fileOf, recCfg, routes, viaRow, alive, served, directory,
                   xcommands, cutShort>>

HubPushEnd(p) ==
    /\ xcmd[p].step = "hubhand"
    /\ tableLock' = [tableLock EXCEPT ![Hub] = "free"]
    /\ PushTable(Hub, xcmd[p].read)
    /\ Go(p, xcmd[p].then)
    /\ UNCHANGED <<fileOf, recCfg, routes, viaRow, alive, directory, xcommands, cutShort>>

----------------------------------------------------------------------------
EnvStep(e) ==
    \/ AddStep(e) \/ AddDone(e) \/ DropStep(e)
    \/ PushBegin(e) \/ PushEnd(e) \/ Gone(e)
SayStep(p) == Announce(p) \/ Tell(p) \/ HubPushBegin(p) \/ HubPushEnd(p)

ExposeNext ==
    \/ \E e \in Envs : \/ EditFile(e) \/ UpBegin(e) \/ ExposeBegin(e)
                       \/ UnexposeBegin(e) \/ DestroyBegin(e) \/ EnvStep(e)
    \/ BeatBegin
    \/ \E p \in Procs : SayStep(p)

ExposeSpec == ExposeInit /\ [][ExposeNext]_exposeVars

\* A command is a running goroutine and its calls end; the announcer's timer
\* fires again and again.
ExposeFairness ==
    /\ \A e \in Envs : WF_exposeVars(EnvStep(e))
    /\ \A p \in Procs : WF_exposeVars(SayStep(p))
    /\ WF_exposeVars(BeatBegin)
ExposeLiveSpec == ExposeSpec /\ ExposeFairness

----------------------------------------------------------------------------
Quiet == \A e \in Envs : xcmd[e].step \in {"idle", "ok", "failed"}

ExposeTypeOK ==
    /\ \A r \in routes : r.env \in Envs /\ r.managed \in BOOLEAN
    /\ \A e \in Envs : viaRow[e] \in {"member", "hub"}
    /\ DOMAIN directory \subseteq Envs
    /\ \A m \in Machines : tableLock[m] \in Procs \cup {"free"}
    /\ \A m \in Machines : TableValid(served[m])

\* Each table that is read for a push has one route per host, so the edge
\* takes it: a member's announcement never makes the hub's own names refused.
TablesAccepted ==
    \A p \in Procs : xcmd[p].step \in {"hand", "hubhand"} => TableValid(xcmd[p].read)

\* When no command is under way, an edge serves exactly the names recorded on
\* its machine: none that was taken down, none missing.  (Unless a command
\* failed after it wrote its rows: then the next push makes up for it.)
QuietServed ==
    Quiet /\ ~cutShort =>
        \A m \in Machines :
            {r \in served[m] : r.kind = "https"} = OwnRoutes(m)

\* An `up` that succeeds leaves every name its file asks for recorded.
UpNames ==
    \A e \in Envs :
        xcmd[e].op = "up" /\ xcmd[e].step = "ok" =>
            \A i \in DOMAIN Asked(recCfg[e], e) :
                \E r \in Rows(e) : r.host = Asked(recCfg[e], e)[i][2]

\* A name moves from one environment of a machine to another only after it
\* was taken down.
HostKept ==
    [][\A r \in routes : \A q \in routes' :
          r.host = q.host /\ MachineOf[r.env] = MachineOf[q.env] => r.env = q.env]_exposeVars

\* Once commands stop, the hub comes to serve exactly the names the member's
\* environments want served through it, whatever was lost or overtook on the way.
HubServes ==
    \A e \in Envs :
        MachineOf[e] # Hub =>
            <>[](/\ e \in DOMAIN directory <=> alive[e]
                 /\ alive[e] => directory[e] = EntryOf(e)
                 /\ \A h \in EntryOf(e) :
                       alive[e] => \E r \in served[Hub] : r.host = h[2])
=============================================================================
