------------------------------ MODULE AppFile ------------------------------
(***************************************************************************)
(* A caramelo.yaml edited one key at a time, every intermediate file        *)
(* included: the files LoadDir and Parse are given.  What the package makes *)
(* of each of them (AppConfig) is checked in every state.                   *)
(***************************************************************************)
EXTENDS AppConfig

CONSTANTS Block,        \* how many ports an environment's block has
          MaxFileEdits  \* bound: how many keys are written

VARIABLES file, fileEdits
fileVars == <<file, fileEdits>>

\* The file names two services, `api` and `web`, and one environment, `prod`,
\* with overrides.  Ports, memory and the other numbers are at the edges of
\* what validation tells apart.
Names    == {"api", "web"}
Refs     == {<<"port">>, <<"deps", "db">>, <<"services", "api">>}
Ports    == {PortNone, 0, 8080}
Domains  == {NoDomain, AutoDomain, <<"shop">>}
Guesses  == {"none", "dockerfile", "stack"}

Service(name) ==
    [name |-> name, image |-> FALSE, build |-> "", install |-> FALSE,
     port |-> 0, udp |-> FALSE, health |-> "", expose |-> "",
     replicas |-> 0, memory |-> 0, refs |-> {}]

\* LoadDir of a directory without a file is the default app.
Default ==
    [domain |-> NoDomain, deps |-> << >>, short |-> {}, services |-> << >>,
     deploy |-> [keep |-> 0], envs |-> << >>, placement |-> "", vars |-> {}]

FileInit == file = Default /\ fileEdits = 0

----------------------------------------------------------------------------
\* parse's keys, one action per key of the top level.

EditDomain == \E d \in Domains : file' = [file EXCEPT !.domain = d]

EditDeps ==
    \E port \in {0, 70000}, known \in BOOLEAN :
        LET dep == [name |-> "db", port |-> port, known |-> known, knownPort |-> 5432]
        IN file' = [file EXCEPT !.deps = <<ParseDep(dep)>>]

EditShorthand ==
    \E short \in {{"run"}, {"run", "install"}, {"build"}} :
        file' = [file EXCEPT !.short = short]

AddService ==
    \E name \in Names \cup {"db"} :
        /\ Len(file.services) < 2
        /\ file' = [file EXCEPT !.services = Append(@, Service(name))]

EditService ==
    \E i \in DOMAIN file.services :
        LET s == file.services[i]
            Write(t) == file' = [file EXCEPT !.services[i] = t]
        IN \/ \E p \in Ports, u \in BOOLEAN : Write([s EXCEPT !.port = p, !.udp = u])
           \/ \E e \in {"", "none", "https"} : Write([s EXCEPT !.expose = e])
           \/ \E n \in {2, MaxReplicas} : Write([s EXCEPT !.replicas = n])
           \/ i = 1 /\ \E h \in {"path", "command"} : Write([s EXCEPT !.health = h])
           \/ i = 1 /\ \E m \in {1, 64} : Write([s EXCEPT !.memory = m])
           \/ i = 2 /\ \E r \in Refs : Write([s EXCEPT !.refs = {r}])
           \/ i = 1 /\ \E b \in {"inside", "outside"} : Write([s EXCEPT !.build = b])
           \/ i = 1 /\ Write([s EXCEPT !.image = TRUE, !.install = TRUE])

EditEnvs ==
    \E hosts \in {<<>>, <<<<"store">>>>, <<<<"store">>, <<"store">>>>},
       n \in {0, 3}, keep \in {0, 7} :
        file' = [file EXCEPT !.envs = "prod" :> [NoOverride EXCEPT
                    !.hosts = hosts, !.replicas = "web" :> n,
                    !.memory = "web" :> 32, !.deploy = [keep |-> keep]]]

EditRest ==
    \/ \E k \in {3, MaxKeep + 1} : file' = [file EXCEPT !.deploy = [keep |-> k]]
    \/ file' = [file EXCEPT !.placement = "hub"]
    \/ \E r \in Refs : file' = [file EXCEPT !.vars = {r}]

FileNext ==
    /\ fileEdits < MaxFileEdits
    /\ fileEdits' = fileEdits + 1
    /\ \/ EditDomain
       \/ EditDeps
       \/ EditShorthand
       \/ AddService
       \/ EditService
       \/ EditEnvs
       \/ EditRest

----------------------------------------------------------------------------
\* The file's fields hold what the parser can put there.
FileTypeOK ==
    /\ fileEdits \in 0..MaxFileEdits
    /\ file.domain \in Domains
    /\ \A i \in DOMAIN file.services :
          file.services[i] \in ServiceFields(Names \cup {"db"}, Ports, Refs)

\* parse: the app the file is, when it is one.
App      == [file EXCEPT !.services = Shorthand(file.short, file.services).services]
Accepted == Shorthand(file.short, file.services).ok /\ Valid(App)

\* An environment's overrides never turn an accepted file into one that would
\* be refused, and reading them a second time changes nothing.
OverridesSettle == Accepted => ReadTwice(App, "prod")

\* The configuration `up` records exposes what the file exposes, under the
\* same names.
RecordedExposed ==
    Accepted => \A guess \in Guesses :
                    RecordExposesFile(App, "prod", 20000, Block, guess)

\* Dependencies, services and replicas never share a port, inside the block.
PortsInBlock == Accepted => PortsApart(ForEnv(App, "prod"), Block)

FileSpec == FileInit /\ [][FileNext]_fileVars
=============================================================================
