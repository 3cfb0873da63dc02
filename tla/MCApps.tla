----------------------------- MODULE MCApps ---------------------------------
(***************************************************************************)
(* What makes an environment: its images, its file, its place, its secrets *)
(* and its code, in small instances. A behaviour is one of one part,       *)
(* chosen at the start; the variables of the others keep their initial     *)
(* value.                                                                  *)
(*   builds     deploys of two environments that build, keep and prune     *)
(*   supplied   deploys of a member that the hub supplies                  *)
(*   files      the files an app can have                                  *)
(*   placing    environments created and destroyed on three machines       *)
(*   secrets    secrets and ups of an environment of the hub               *)
(*   membersecrets  the same on a member, whose vault is the hub's         *)
(*   hubpush    pushes to an environment of the hub                        *)
(*   memberpush pushes to an environment of a member                       *)
(* What is proved of Releases, Placement, Secrets and GitPush is proved of *)
(* the modules this one extends: on the hub by their constants in the      *)
(* configuration, on a member by the instances below.                      *)
(***************************************************************************)
EXTENDS Placement, Secrets, GitPush, Releases, TLC

VARIABLES part, file, fileEdits

\* The hub is full; the file of y asks for a machine.
ByName == [hub |-> 1, m1 |-> 2, m2 |-> 3]
Memory == [hub |-> 1, m1 |-> 4, m2 |-> 3]
Pinned == [x |-> "", y |-> "m2"]

Supply == INSTANCE Releases WITH Member <- TRUE, MaxBuildFaults <- 2
AppFile == INSTANCE AppFile WITH
    Block <- 10, MaxFileEdits <- 4
Remote == INSTANCE Secrets WITH OnMember <- TRUE, MaxRuns <- 2
Mirror == INSTANCE GitPush WITH EnvOnMember <- TRUE

fileVars == <<file, fileEdits>>
vars == <<part, releaseVars, fileVars, placeVars, secretVars, gitVars>>

Init ==
    /\ part \in {"builds", "supplied", "files", "placing", "secrets",
                 "membersecrets", "hubpush", "memberpush"}
    /\ ReleasesInit
    /\ AppFile!FileInit
    /\ PlaceInit
    /\ SecretsInit
    /\ GitInit

\* A step of one component leaves the others alone.
ReleaseOnly == UNCHANGED <<part, fileVars, placeVars, secretVars, gitVars>>
FileOnly == UNCHANGED <<part, releaseVars, placeVars, secretVars, gitVars>>
PlaceOnly == UNCHANGED <<part, releaseVars, fileVars, secretVars, gitVars>>
SecretOnly == UNCHANGED <<part, releaseVars, fileVars, placeVars, gitVars>>
GitOnly == UNCHANGED <<part, releaseVars, fileVars, placeVars, secretVars>>

Next ==
    \/ part = "builds" /\ ReleasesNext /\ ReleaseOnly
    \/ part = "supplied" /\ Supply!ReleasesNext /\ ReleaseOnly
    \/ part = "files" /\ AppFile!FileNext /\ FileOnly
    \/ part = "placing" /\ PlaceNext /\ PlaceOnly
    \/ part = "secrets" /\ SecretsNext /\ SecretOnly
    \/ part = "membersecrets" /\ Remote!SecretsNext /\ SecretOnly
    \/ part = "hubpush" /\ GitNext /\ GitOnly
    \/ part = "memberpush" /\ Mirror!GitNext /\ GitOnly

Spec == Init /\ [][Next]_vars

\* AppFile: overrides keep an accepted file valid and applying them twice is
\* applying them once, what an up records exposes what the file exposes, and
\* no two of an environment share a port of its block.
FilesPlanned ==
    part = "files" =>
        /\ AppFile!FileTypeOK
        /\ AppFile!OverridesSettle
        /\ AppFile!RecordedExposed
        /\ AppFile!PortsInBlock
=============================================================================
