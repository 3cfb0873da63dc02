----------------------------- MODULE AppConfig -----------------------------
(***************************************************************************)
(* caramelo.yaml (internal/config) and the plan an `up` makes of it         *)
(* (internal/env, views.go and up.go): which files are accepted, what one   *)
(* environment's overrides change, which services are exposed and under     *)
(* which names, and which ports an environment's block gives them.          *)
(*                                                                          *)
(* The module has no state: it is the operators the exposure of names, the  *)
(* placement of environments and the layout of ports are built from.        *)
(*                                                                          *)
(* An app is a record                                                       *)
(*   [domain, deps, services, deploy, envs, placement, vars]                *)
(* A name is a sequence of labels, so that <service>.<env>.<domain> and     *)
(* <env>.<domain> are told apart by what they are made of; "auto" is the    *)
(* domain the machine's address gives.  A path, an image or a command is    *)
(* reduced to what validation tells apart.                                  *)
(***************************************************************************)
EXTENDS Integers, Sequences, FiniteSets, SequencesExt

PortNone    == -1
MaxReplicas == 8
MaxKeep     == 100
MinMemory   == 6        \* MiB
NoDomain    == << >>
AutoDomain  == <<"auto">>

----------------------------------------------------------------------------
\* What the parser can return.  A key that is left out is the zero value of
\* its field, and a value the parser refuses never becomes an app.

\* What is written about a service.  `image: x` next to a build, a path
\* check of a portless service, ... are refused by Validate, not here.
ServiceFields(names, ports, refs) ==
    [name: names, image: BOOLEAN, build: {"", "inside", "outside"},
     install: BOOLEAN, port: ports, udp: BOOLEAN,
     health: {"", "path", "command"}, expose: {"", "none", "https"},
     replicas: 0..MaxReplicas, memory: Nat, refs: SUBSET refs]

\* parseDep: a known image fills in the port the file leaves out; an image
\* nobody knows needs one.
ParseDep(dep) ==
    [dep EXCEPT !.port = IF @ = 0 /\ dep.known THEN dep.knownPort ELSE @]

\* shorthand.apply: `run:`, `install:` and `build:` at the top of the file
\* are the one service "web", and `services:` next to them is refused.
Shorthand(short, services) ==
    CASE short = {} -> [ok |-> TRUE, services |-> services]
      [] short # {} /\ services # << >> -> [ok |-> FALSE, services |-> << >>]
      [] OTHER -> [ok |-> TRUE, services |->
            <<[name |-> "web", image |-> FALSE,
               build |-> IF "build" \in short THEN "inside" ELSE "",
               install |-> "install" \in short, port |-> 0, udp |-> FALSE,
               health |-> "", expose |-> "", replicas |-> 0, memory |-> 0,
               refs |-> {}]>>]

----------------------------------------------------------------------------
\* Reading an app.

NamesOf(list)         == {list[i].name : i \in DOMAIN list}
HasService(app, name) == name \in NamesOf(app.services)
ServiceOf(app, name)  == app.services[SelectInSeq(app.services, LAMBDA s : s.name = name)]
HasPort(s)            == s.port # PortNone
Replicas(s)           == IF s.replicas <= 0 THEN 1 ELSE s.replicas

NoOverride == [hosts |-> << >>, replicas |-> << >>, memory |-> << >>,
               deploy |-> [keep |-> 0], machine |-> "", via |-> ""]
Override(app, env) ==
    IF env \in DOMAIN app.envs THEN app.envs[env] ELSE NoOverride

\* The first service an edge could serve: the one a domain exposes when the
\* file says nothing about it.
FirstExposable(app) ==
    SelectInSeq(app.services,
                LAMBDA s : HasPort(s) /\ s.expose # "none" /\ ~s.udp)

ExposeOf(app, name) ==
    LET s == ServiceOf(app, name)
        first == FirstExposable(app)
    IN IF ~HasService(app, name) THEN "none"
       ELSE IF s.expose # "" THEN s.expose
       ELSE IF /\ app.domain # NoDomain /\ HasPort(s)
               /\ first # 0 /\ app.services[first].name = name
       THEN "https"
       ELSE "none"

ExposedServices(app) ==
    SelectSeq(app.services, LAMBDA s : ExposeOf(app, s.name) = "https")

\* config.App.HostsFor and HostFor: the names the file gives a service.
DerivedHost(domain, env, service, first) ==
    IF first \/ service = "" THEN <<env>> \o domain
                             ELSE <<service, env>> \o domain

HostsFor(app, env, service) ==
    LET exposed == ExposedServices(app)
        first   == exposed # << >> /\ exposed[1].name = service
    IN IF ExposeOf(app, service) # "https" THEN << >>
       ELSE IF first /\ Override(app, env).hosts # << >> THEN Override(app, env).hosts
       ELSE IF app.domain = NoDomain THEN << >>
       ELSE <<DerivedHost(app.domain, env, service, first)>>

----------------------------------------------------------------------------
\* Validate: each part is one function of the package, in the order Validate
\* calls them.

\* validateVars expands every value against a context in which each declared
\* dependency and each declared service has an address.
RefKnown(app, ref) ==
    \/ ref[1] \in {"port", "secrets"}
    \/ ref[1] = "deps" /\ ref[2] \in NamesOf(app.deps)
    \/ ref[1] = "services" /\ HasService(app, ref[2])
VarsValid(app, refs) == \A ref \in refs : RefKnown(app, ref)

DepsValid(app) ==
    /\ \A i, j \in DOMAIN app.deps :
          i # j => app.deps[i].name # app.deps[j].name
    /\ \A i \in DOMAIN app.deps : app.deps[i].port \in 1..65535

HealthValid(s) == s.health = "path" => HasPort(s) /\ ~s.udp
BuildValid(s)  == s.build # "outside"

ServicesValid(app) ==
    /\ \A i, j \in DOMAIN app.services :
          i # j => app.services[i].name # app.services[j].name
    /\ \A i \in DOMAIN app.services :
          LET s == app.services[i]
          IN /\ s.name \notin NamesOf(app.deps)
             /\ ~(s.image /\ s.build # "")
             /\ ~(s.build # "" /\ s.install)
             /\ BuildValid(s)
             /\ s.port = PortNone \/ s.port \in 0..65535
             /\ HealthValid(s)
             /\ VarsValid(app, s.refs)

EdgeValid(app) ==
    \A i \in DOMAIN app.services :
        LET s == app.services[i]
        IN /\ s.replicas = 0 \/ s.replicas \in 1..MaxReplicas
           /\ s.expose = "https" =>
                 HasPort(s) /\ ~s.udp /\ app.domain # NoDomain

MemoryValid(memory)  == memory = 0 \/ memory >= MinMemory
DeployBlockValid(d)  == d.keep = 0 \/ d.keep \in 1..MaxKeep

DeployValid(app) ==
    /\ DeployBlockValid(app.deploy)
    /\ \A i \in DOMAIN app.services : MemoryValid(app.services[i].memory)
    /\ \A env \in DOMAIN app.envs :
          LET o == app.envs[env]
          IN /\ DeployBlockValid(o.deploy)
             /\ IsInjective(o.hosts)
             /\ \A name \in DOMAIN o.replicas \cup DOMAIN o.memory :
                   HasService(app, name)
             /\ \A name \in DOMAIN o.replicas :
                   o.replicas[name] \in 0..MaxReplicas
             /\ \A name \in DOMAIN o.memory : MemoryValid(o.memory[name])

FleetValid(app) ==
    /\ app.placement \in {"", "auto", "hub"}
    /\ \A env \in DOMAIN app.envs : app.envs[env].via \in {"", "member", "hub"}

Valid(app) ==
    /\ DepsValid(app)
    /\ ServicesValid(app)
    /\ EdgeValid(app)
    /\ DeployValid(app)
    /\ FleetValid(app)
    /\ VarsValid(app, app.vars)

----------------------------------------------------------------------------
\* ForEnv: the file as one environment reads it.

MergeDeploy(d, over) ==
    IF over.keep > 0 THEN over ELSE d

MutForService(s, o) ==
    [s EXCEPT !.replicas = IF s.name \in DOMAIN o.replicas
                           THEN @ + o.replicas[s.name] ELSE @]
ForService(s, o) ==
    [s EXCEPT !.replicas = IF s.name \in DOMAIN o.replicas /\ o.replicas[s.name] > 0
                           THEN o.replicas[s.name] ELSE @,
              !.memory = IF s.name \in DOMAIN o.memory /\ o.memory[s.name] # 0
                         THEN o.memory[s.name] ELSE @]

ForEnv(app, env) ==
    LET o == Override(app, env)
    IN [app EXCEPT
          !.deploy = MergeDeploy(@, o.deploy),
          !.services = [i \in DOMAIN @ |-> ForService(@[i], o)]]

----------------------------------------------------------------------------
\* The ports of an environment's block (env/views.go).  The first published
\* service has the base, dependencies follow, then the other services, then
\* the replicas, one row of all published services after another.

Published(app) == SelectSeq(app.services, HasPort)
OrderOf(app, name) ==
    SelectInSeq(Published(app), LAMBDA s : s.name = name) - 1

DepPort(base, i) == base + i

MutServicePort(app, base, name) ==
    IF OrderOf(app, name) = 0 THEN base
    ELSE base + Len(app.deps) + OrderOf(app, name) - 1
ServicePort(app, base, name) ==
    IF OrderOf(app, name) = 0 THEN base
    ELSE base + 1 + Len(app.deps) + OrderOf(app, name) - 1

LayoutFits(app, count) ==
    /\ \A i \in DOMAIN Published(app) :
          ServicePort(app, 0, Published(app)[i].name) < count
    /\ Len(app.deps) <= count - 1

Spare(app, base) ==
    base + 1 + Len(app.deps)
         + (IF Published(app) = << >> THEN 0 ELSE Len(Published(app)) - 1)

ReplicaPort(app, base, name, replica) ==
    IF replica <= 1 THEN ServicePort(app, base, name)
    ELSE Spare(app, base) + (replica - 2) * Len(Published(app)) + OrderOf(app, name)

ReplicaFits(app, count, name, replica) ==
    ReplicaPort(app, 0, name, replica) < count

\* portLayout.views: what a reference resolves to when an environment runs.
\* Only a service with a port has an address.
RefResolves(app, ref) ==
    \/ ref[1] \in {"port", "secrets"}
    \/ ref[1] = "deps" /\ ref[2] \in NamesOf(app.deps)
    \/ ref[1] = "services" /\ ref[2] \in NamesOf(Published(app))

Resolves(app) ==
    /\ \A ref \in app.vars : RefResolves(app, ref)
    /\ \A i \in DOMAIN app.services :
          \A ref \in app.services[i].refs : RefResolves(app, ref)

----------------------------------------------------------------------------
\* buildPlan: mergeServices fills in what the stack detected, withServices
\* writes the plan back as the configuration the record keeps.

\* guess: what was detected in the tree, "none", "dockerfile" or "stack".
MergeService(s, guess) ==
    [s EXCEPT !.build = IF @ = "" /\ ~s.image /\ guess = "dockerfile"
                        THEN "inside" ELSE @,
              !.image = IF ~@ /\ s.build = "" /\ guess = "stack" THEN TRUE ELSE @,
              !.install = IF s.build = "" /\ guess = "stack" THEN TRUE ELSE @]

\* mergeServices: an app without services runs the one the detection found.
Declared(app) ==
    IF app.services = << >> THEN Shorthand({"run"}, << >>).services
                            ELSE app.services

\* A service the plan cannot run: it has neither an image nor a build.
Runnable(app, guess) ==
    /\ app.services = << >> => guess # "none"
    /\ \A i \in DOMAIN Declared(app) :
          LET s == MergeService(Declared(app)[i], guess)
          IN s.image \/ s.build # ""

\* withServices: the record's ports are the ones inside the containers.
MutRecordedPort(s, app, base) ==
    IF s.port > 0 THEN s.port ELSE ServicePort(app, base, s.name)
RecordedPort(s, app, base) ==
    CASE s.port = PortNone -> PortNone
      [] s.port > 0 -> s.port
      [] OTHER -> ServicePort(app, base, s.name)

WithServices(app, base, guess) ==
    LET declared == [app EXCEPT !.services = Declared(app)]
        Recorded(s) ==
            [MergeService(s, guess) EXCEPT !.port = RecordedPort(s, declared, base)]
    IN [declared EXCEPT
          !.services = [i \in DOMAIN @ |-> Recorded(@[i])]]

\* Up's plan: the file is accepted, read for this environment, fits its
\* block and every variable resolves.
PlanMade(app, env, count, guess) ==
    LET read == ForEnv(app, env)
        eff  == [read EXCEPT !.services = Declared(read)]
    IN /\ Valid(app)
       /\ Runnable(read, guess)
       /\ LayoutFits(eff, count)
       /\ Resolves(eff)

PlanOf(app, env, base, guess) == WithServices(ForEnv(app, env), base, guess)

----------------------------------------------------------------------------
\* The facts a reader of a file relies on, for an app and an environment.

\* An environment's overrides never turn an accepted file into one that would
\* be refused, and reading them twice changes nothing: the recorded
\* configuration is read for the environment again (DemandOf, decodeConfig).
ReadTwice(app, env) ==
    Valid(app) => LET read == ForEnv(app, env)
                  IN Valid(read) /\ ForEnv(read, env) = read

\* The configuration a record keeps exposes what the file exposed, under the
\* same names: expose, unexpose and the warnings read the record.
RecordExposesFile(app, env, base, count, guess) ==
    PlanMade(app, env, count, guess) =>
        LET read == ForEnv(app, env)
            plan == PlanOf(app, env, base, guess)
        IN \A i \in DOMAIN read.services :
              LET name == read.services[i].name
              IN /\ ExposeOf(plan, name) = ExposeOf(read, name)
                 /\ HostsFor(plan, env, name) = HostsFor(app, env, name)

\* No two containers of an environment are given one port, and no port is
\* outside the environment's block.
PortsApart(app, count) ==
    LayoutFits(app, count) =>
        LET name(i) == Published(app)[i].name
            slots == {<<"dep", i, 1>> : i \in DOMAIN app.deps}
                     \cup {<<"svc", i, r>> : i \in DOMAIN Published(app), r \in 1..MaxReplicas}
            used == {x \in slots : x[1] = "svc" => ReplicaFits(app, count, name(x[2]), x[3])}
            port(x) == IF x[1] = "dep" THEN DepPort(0, x[2])
                       ELSE ReplicaPort(app, 0, name(x[2]), x[3])
        IN /\ \A x, y \in used : x # y => port(x) # port(y)
           /\ \A x \in used : port(x) \in 0..(count - 1)
=============================================================================
