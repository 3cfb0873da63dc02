------------------------------ MODULE Secrets ------------------------------
(***************************************************************************)
(* The vault of a machine and how one release environment takes its        *)
(* secrets from it: rows at three scopes with the narrowest winning, the   *)
(* fingerprint of the rows that win, the create that generates the         *)
(* password of a dependency, and the up that starts a service again when   *)
(* the fingerprint in its recorded definition is not the one it wants. A   *)
(* secret's value is a number; the row of a service records the names with *)
(* their values redacted, so the fingerprint is all it has of them.        *)
(***************************************************************************)
EXTENDS Naturals, FiniteSets

CONSTANTS
    OnMember,       \* the environment is on a member: the vault is the hub's
    OperatorValues, \* what operators set
    MaxChanges,     \* bound: secrets set and removed
    MaxRuns,        \* bound: creates and ups
    MaxCuts         \* bound: the daemon is killed

ASSUME SecretsAssumption == 0 \notin OperatorValues

VARIABLES
    vault,      \* scope and name to [value, version]; version 0 is no row
    act,        \* the command that holds the environment's lock
    envStatus,  \* "none", "creating", "failed", "ready"
    depData,    \* the password the dependency's data was initialised with
    svcRow,     \* the definition recorded of the service
    ctr,        \* what the service's container was started with
    envFile,    \* an env-file with the values is on the disk
    generated,  \* the passwords generated so far
    changes, secretRuns, cuts,
    resets,     \* a name was removed and set again
    secretRaced,      \* a secret changed between a command's two reads of the vault
    touched     \* an operator changed the dependency's password

secretVars == <<vault, act, envStatus, depData, svcRow, ctr, envFile, generated,
                changes, secretRuns, cuts, resets, secretRaced, touched>>

Scopes == <<"machine", "app", "env">>
ScopeSet == {"machine", "app", "env"}
SecretNames == {"KEY", "DB"}
NoSecret == [value |-> 0, version |-> 0]
NoDefinition == [there |-> FALSE, digest |-> {}]
NoBox == [there |-> FALSE, vals |-> [n \in SecretNames |-> 0]]
NoAct == [cmd |-> "none", pc |-> "idle", vals |-> [n \in SecretNames |-> 0], digest |-> {}]

----------------------------------------------------------------------------
\* Scope.Rank; the row of a name that wins is the narrowest.
Rank(s) == CHOOSE i \in 1..3 : Scopes[i] = s
Rows(n) == {s \in ScopeSet : vault[<<s, n>>].version > 0}
Winner(n) == CHOOSE s \in Rows(n) : \A t \in Rows(n) : Rank(t) <= Rank(s)

\* DB.Resolve: the value of every name; 0 when nobody set it.
Resolve == [n \in SecretNames |-> IF Rows(n) = {} THEN 0 ELSE vault[<<Winner(n), n>>].value]

\* DB.Sources: and the scope each comes from.
Sources == [n \in {m \in SecretNames : Rows(m) # {}} |-> Winner(n)]

\* DB.Fingerprint: scope, name and version of every winner, and no value.
Fingerprint == {<<Winner(n), n, vault[<<Winner(n), n>>].version>> :
                    n \in {m \in SecretNames : Rows(m) # {}}}

\* PutSecret: a new row has version 1, one that is there the next version.
MutPutSecret(s, n, v) == [vault EXCEPT ![<<s, n>>] = [value |-> v, version |-> 1]]
PutSecret(s, n, v) ==
    [vault EXCEPT ![<<s, n>>] = [value |-> v, version |-> vault[<<s, n>>].version + 1]]

RemoveSecret(s, n) == [vault EXCEPT ![<<s, n>>] = NoSecret]

\* SecretWarnings: the names whose dependency has its data already.
SecretWarnings(n) == n = "DB" /\ envStatus = "ready"

----------------------------------------------------------------------------
SecretsInit ==
    /\ vault = [k \in ScopeSet \X SecretNames |-> NoSecret]
    /\ act = NoAct
    /\ envStatus = "none"
    /\ depData = 0
    /\ svcRow = NoDefinition
    /\ ctr = NoBox
    /\ envFile = FALSE
    /\ generated = {}
    /\ changes = 0 /\ secretRuns = 0 /\ cuts = 0
    /\ resets = FALSE /\ secretRaced = FALSE /\ touched = FALSE

Reading == act.pc \in {"set", "digest"}
Change(n) ==
    /\ changes < MaxChanges
    /\ changes' = changes + 1
    /\ secretRaced' = (secretRaced \/ Reading)
    /\ touched' = (touched \/ (n = "DB" /\ envStatus # "none"))
    /\ UNCHANGED <<act, envStatus, depData, svcRow, ctr, envFile, generated, secretRuns, cuts>>

\* Daemon.VaultSet and Daemon.VaultRemove, one name at a time: they take no
\* lock of the environment.
VaultSet(s, n, v) ==
    /\ vault' = PutSecret(s, n, v)
    /\ Change(n)
    /\ UNCHANGED resets

VaultRemove(s, n) ==
    /\ vault[<<s, n>>].version > 0
    /\ vault' = RemoveSecret(s, n)
    /\ resets' = TRUE
    /\ Change(n)

----------------------------------------------------------------------------
\* Create, with a retry of a failed one that destroys what it left; and Up.
StartCreate ==
    /\ act.pc = "idle" /\ secretRuns < MaxRuns /\ envStatus \in {"none", "failed"}
    /\ secretRuns' = secretRuns + 1
    /\ act' = [NoAct EXCEPT !.cmd = "create", !.pc = "values"]
    /\ envStatus' = "creating"
    /\ depData' = 0
    /\ UNCHANGED <<vault, svcRow, ctr, envFile, generated, changes, cuts, resets, secretRaced,
                   touched>>

StartUp ==
    /\ act.pc = "idle" /\ secretRuns < MaxRuns /\ envStatus = "ready"
    /\ secretRuns' = secretRuns + 1
    /\ act' = [NoAct EXCEPT !.cmd = "up", !.pc = "values"]
    /\ UNCHANGED <<vault, envStatus, depData, svcRow, ctr, envFile, generated, changes,
                   cuts, resets, secretRaced, touched>>

Rest == <<svcRow, ctr, envFile, changes, secretRuns, cuts, resets, secretRaced, touched>>

\* secretsOf reads the values and, with another query (another bundle of the
\* hub, on a member), the fingerprint.
SecretsFor ==
    /\ act.pc = "values"
    /\ act' = [act EXCEPT !.vals = Resolve,
                          !.pc = IF act.cmd = "create" THEN "set" ELSE "digest"]
    /\ UNCHANGED <<Rest, vault, envStatus, depData, generated>>

\* ensureDepPasswords: a password that nobody set is generated and stored at
\* the environment's scope; a member cannot write the hub's vault. A
\* generated value is one nobody has used.
MutEnsureDepPassword ==
    /\ act.pc = "set"
    /\ \E v \in 10..12 :
        /\ v \notin generated
        /\ generated' = generated \cup {v}
        /\ vault' = PutSecret("env", "DB", v)
        /\ act' = [act EXCEPT !.pc = "digest"]
        /\ UNCHANGED envStatus
    /\ UNCHANGED <<Rest, depData>>
EnsureDepPassword ==
    /\ act.pc = "set"
    /\ CASE act.vals["DB"] # 0 ->
              /\ act' = [act EXCEPT !.pc = "digest"]
              /\ UNCHANGED <<vault, envStatus, generated>>
         [] act.vals["DB"] = 0 /\ OnMember ->
              /\ act' = NoAct
              /\ envStatus' = "failed"
              /\ UNCHANGED <<vault, generated>>
         [] OTHER -> \E v \in 10..12 :
              /\ v \notin generated
              /\ generated' = generated \cup {v}
              /\ vault' = PutSecret("env", "DB", v)
              /\ act' = [act EXCEPT !.vals["DB"] = v, !.pc = "digest"]
              /\ UNCHANGED envStatus
    /\ UNCHANGED <<Rest, depData>>

ReadFingerprint ==
    /\ act.pc = "digest"
    /\ act' = [act EXCEPT !.digest = Fingerprint,
                          !.pc = IF act.cmd = "create" THEN "dep" ELSE "compare"]
    /\ UNCHANGED <<Rest, vault, envStatus, depData, generated>>

\* depEnv and the start of the dependency: it reads its password when it
\* initialises its data, and the environment is ready.
StartDep ==
    /\ act.pc = "dep"
    /\ depData' = act.vals["DB"]
    /\ envStatus' = "ready"
    /\ act' = NoAct
    /\ UNCHANGED <<Rest, vault, generated>>

\* unchanged: the definition recorded is the one wanted, digest and all. The
\* service keeps its container.
Unchanged == svcRow.there /\ svcRow.digest = act.digest /\ ctr.there
Keep ==
    /\ act.pc = "compare" /\ Unchanged
    /\ act' = NoAct
    /\ UNCHANGED <<Rest, vault, envStatus, depData, generated>>

\* Otherwise the values go into an env-file, a container is run with it, the
\* file is removed, and the definition is recorded.
WriteEnvFile ==
    /\ act.pc = "compare" /\ ~Unchanged
    /\ envFile' = TRUE
    /\ ctr' = NoBox
    /\ act' = [act EXCEPT !.pc = "run"]
    /\ UNCHANGED <<vault, envStatus, depData, svcRow, generated, changes, secretRuns, cuts,
                   resets, secretRaced, touched>>

RunContainer ==
    /\ act.pc = "run"
    /\ ctr' = [there |-> TRUE, vals |-> act.vals]
    /\ envFile' = FALSE
    /\ act' = [act EXCEPT !.pc = "record"]
    /\ UNCHANGED <<vault, envStatus, depData, svcRow, generated, changes, secretRuns, cuts,
                   resets, secretRaced, touched>>

PutService ==
    /\ act.pc = "record"
    /\ svcRow' = [there |-> TRUE, digest |-> act.digest]
    /\ act' = NoAct
    /\ UNCHANGED <<vault, envStatus, depData, ctr, envFile, generated, changes, secretRuns,
                   cuts, resets, secretRaced, touched>>

\* The daemon is killed: the command is gone, an environment that was being
\* created counts as failed when it starts again.
Cut ==
    /\ act.pc # "idle" /\ cuts < MaxCuts
    /\ cuts' = cuts + 1
    /\ act' = NoAct
    /\ envStatus' = IF act.cmd = "create" THEN "failed" ELSE envStatus
    /\ UNCHANGED <<vault, depData, svcRow, ctr, envFile, generated, changes, secretRuns,
                   resets, secretRaced, touched>>

SecretsNext ==
    \/ \E s \in ScopeSet, n \in SecretNames :
        \/ \E v \in OperatorValues : VaultSet(s, n, v)
        \/ VaultRemove(s, n)
    \/ StartCreate \/ StartUp
    \/ SecretsFor \/ EnsureDepPassword \/ ReadFingerprint \/ StartDep
    \/ Keep \/ WriteEnvFile \/ RunContainer \/ PutService
    \/ Cut

SecretsSpec == SecretsInit /\ [][SecretsNext]_secretVars

----------------------------------------------------------------------------
SecretsTypeOK ==
    /\ vault \in [ScopeSet \X SecretNames ->
                    [value : {0} \cup OperatorValues \cup generated, version : Nat]]
    /\ envStatus \in {"none", "creating", "failed", "ready"}
    /\ generated \subseteq 10..12
    /\ DOMAIN Sources \subseteq SecretNames

\* What an up carried: between commands a service whose recorded fingerprint
\* is the vault's runs with the vault's values.
Carried ==
    (act.pc = "idle" /\ svcRow.there /\ ctr.there /\ svcRow.digest = Fingerprint)
        => ctr.vals = Resolve

\* As long as no name was removed and no secret changed between the two reads
\* of a command, the fingerprint in a service's definition tells every change
\* of the values its container was started with, across scopes, overrides and
\* cut commands. (DB.Fingerprint, PutSecret, unchanged)
DigestTells == (~resets /\ ~secretRaced) => Carried

\* While no operator has changed it, the password the vault resolves for the
\* dependency is the one its data was initialised with, whatever was cut and
\* retried. (ensureDepPasswords)
PasswordOpens ==
    (envStatus = "ready" /\ ~touched) => depData = Resolve["DB"] /\ depData # 0

\* The fingerprint an up compares tells every change of the values a container
\* runs with, and the password of the vault opens the data of the dependency.
SecretsKept == SecretsTypeOK /\ DigestTells /\ PasswordOpens
=============================================================================
