------------------------------ MODULE Releases ------------------------------
(***************************************************************************)
(* Where the images of a deploy come from, and which ones are kept: the    *)
(* release builder, the supply that copies images between the machines of  *)
(* a fleet, the index of who holds what, and the prune that ends a deploy. *)
(*                                                                         *)
(* One app on one machine ("here"), whose environments deploy at the same  *)
(* time, and the hub of its fleet. A release is a tree; its number is its  *)
(* place in the store of the machine that recorded it, so the two machines *)
(* number the same tree apart. What happens between the images and the     *)
(* promotion is Deploy's.                                                  *)
(***************************************************************************)
EXTENDS Naturals, Sequences, FiniteSets

CONSTANTS
    Envs, Trees, BuiltServices,
    Member,      \* here is a member: it asks the hub and tells it
    SameArch,    \* the hub has the architecture of this machine
    KeepReleases,  \* deploy.keep
    MaxDeploys,  \* bound: deploys in a behaviour
    MaxBuildFaults  \* bound: failed builds, broken copies, lost calls, hub prunes

\* deploy.keep is a count.
ASSUME ReleasesAssumption == KeepReleases \in Nat

NoRelease == 0
Image(t) == {t} \X BuiltServices
Images == Trees \X BuiltServices

VARIABLES
    rel,      \* store here: releases, numbered by their place
    idx,      \* store here: release_images, <<number, service, machine>>
    img,      \* images in the container runtime here
    dep,      \* store here: deploy rows, oldest first
    serves,   \* store here: env |-> number of the release it serves
    relRuns,     \* containers: env |-> trees whose images they use
    buildLock,     \* builder: tree |-> the environment that builds it
    op,       \* the deploy each environment runs
    mixed,    \* a prune, or the undo of a broken copy, ran beside another deploy
    hubRel, hubIdx, hubImg,   \* the hub's releases, index by tree, and images
    relFaults

here == <<rel, idx, img, dep, serves, relRuns, buildLock>>
hub  == <<hubRel, hubIdx, hubImg>>
releaseVars == <<here, op, mixed, hub, relFaults>>

NotDeploying == [pc |-> "idle"]
TreesOf(r) == {r[i] : i \in 1..Len(r)}
BuildFault == relFaults < MaxBuildFaults /\ relFaults' = relFaults + 1

ReleasesTypeOK ==
    /\ TreesOf(rel) \subseteq Trees /\ \A i, j \in 1..Len(rel) : rel[i] = rel[j] => i = j
    /\ idx \subseteq (1..Len(rel)) \X BuiltServices \X {"here"}
    /\ img \subseteq Images /\ hubImg \subseteq Images
    /\ \A k \in 1..Len(dep) : dep[k].rid <= Len(rel) /\ dep[k].from <= Len(rel)
    /\ serves \in [Envs -> 0..Len(rel)]
    /\ relRuns \in [Envs -> SUBSET Trees]
    /\ buildLock \in [Trees -> Envs \cup {NoRelease}]
    /\ hubIdx \subseteq Images \X {"here", "hub"}

ReleasesInit ==
    /\ rel = <<>> /\ idx = {} /\ img = {} /\ dep = <<>>
    /\ serves = [e \in Envs |-> NoRelease]
    /\ relRuns = [e \in Envs |-> {}]
    /\ buildLock = [t \in Trees |-> NoRelease]
    /\ op = [e \in Envs |-> NotDeploying] /\ mixed = FALSE
    /\ hubRel = <<>> /\ hubIdx = {} /\ hubImg = {}
    /\ relFaults = 0

Number(r, t) == IF t \in TreesOf(r) THEN CHOOSE i \in 1..Len(r) : r[i] = t ELSE NoRelease
Recorded(r, t) == IF t \in TreesOf(r) THEN r ELSE Append(r, t)
Others(e) == \E o \in Envs \ {e} : op[o] # NotDeploying
Goes(e, pc) == op' = [op EXCEPT ![e].pc = pc]

\* The row is closed, promoted or failed, with what it has recorded.
Ends(e) == dep' = [dep EXCEPT ![op[e].row].open = FALSE] /\ op' = [op EXCEPT ![e] = NotDeploying]

-----------------------------------------------------------------------------
(* Supply.Ensure.                                                           *)

\* The deploy's row, and where its images are looked for first.
Deploy(e, t, force) ==
    /\ op[e] = NotDeploying /\ Len(dep) < MaxDeploys
    /\ dep' = Append(dep, [env |-> e, rid |-> NoRelease, from |-> serves[e], open |-> TRUE])
    /\ op' = [op EXCEPT ![e] =
         [pc |-> IF Member /\ ~force THEN "lookup" ELSE "build", tree |-> t, force |-> force,
          row |-> Len(dep) + 1, rid |-> NoRelease, plan |-> "build", known |-> {}, gone |-> {}]]
    /\ mixed' = (mixed \/ \E o \in Envs : op[o].pc = "remove")
    /\ UNCHANGED <<rel, idx, img, serves, relRuns, buildLock, hub, relFaults>>

\* releaseOfTree asks the hub: what it answers has the hub's number. A hub
\* that has no such release, or does not answer, leaves a build.
Lookup(e) ==
    /\ op[e].pc = "lookup"
    /\ \/ /\ op[e].tree \in TreesOf(hubRel)
          /\ op' = [op EXCEPT ![e].pc = "plan", ![e].rid = Number(hubRel, op[e].tree),
                              ![e].known = {k \in hubIdx : k[1][1] = op[e].tree}]
          /\ UNCHANGED relFaults
       \/ op[e].tree \notin TreesOf(hubRel) /\ Goes(e, "build") /\ UNCHANGED relFaults
       \/ BuildFault /\ Goes(e, "build")
    /\ UNCHANGED <<here, mixed, hub>>

\* Decide: have them all, copy what is missing from one reachable machine of
\* this architecture that holds all of it, or build. A member reaches the hub.
Missing(t) == Image(t) \ img
SupplySources == {"hub"}
HoldsAll(m, known, missing) == SameArch /\ \A i \in missing : <<i, m>> \in known
Holders(known, missing) == {m \in SupplySources : HoldsAll(m, known, missing)}

\* Mutant: what the hub says it holds is taken for what is here.
MutDecide(e) == IF Holders(op[e].known, Image(op[e].tree)) # {} THEN "have" ELSE "build"

Decide(e) == IF Missing(op[e].tree) = {} THEN "have"
             ELSE IF Holders(op[e].known, Missing(op[e].tree)) # {} THEN "copy" ELSE "build"

\* Images that are all here need nothing more: the release is the hub's answer.
PlanSupply(e) ==
    /\ op[e].pc = "plan"
    /\ op' = [op EXCEPT ![e].plan = Decide(e), ![e].gone = Missing(op[e].tree),
                        ![e].pc = IF Decide(e) = "have" THEN "record" ELSE Decide(e)]
    /\ UNCHANGED <<here, mixed, hub, relFaults>>

\* adoptRelease: the copied release is recorded here, under this machine's number.
Adopt(e) == Number(Recorded(rel, op[e].tree), op[e].tree)

Undone(arrived) == img' = img \ arrived

\* Transfer.Receive and Transfer.undo: what arrives is loaded, an archive that
\* lacks an image is taken back, and the rows are put under the number the
\* request had, the hub's, which the store refuses when it has no such release.
Receive(e, arrived) ==
    IF arrived # op[e].gone
    THEN /\ Undone(arrived)
         /\ mixed' = (mixed \/ Others(e))
         /\ Goes(e, "build")
         /\ UNCHANGED <<rel, idx>>
    ELSE /\ img' = img \cup arrived
         /\ UNCHANGED mixed
         /\ IF op[e].rid > Len(rel)
            THEN UNCHANGED <<rel, idx>> /\ Goes(e, "build")
            ELSE /\ idx' = idx \cup {<<op[e].rid, i[2], "here">> : i \in arrived}
                 /\ rel' = Recorded(rel, op[e].tree)
                 /\ op' = [op EXCEPT ![e].pc = "report", ![e].rid = Adopt(e)]

\* Transfer.Send: the sender refuses what it does not hold.
Sends(refs) == refs \subseteq hubImg

\* PullImages: the stream may also break. Either way the release is built.
Copy(e) ==
    /\ op[e].pc = "copy"
    /\ \/ /\ Sends(op[e].gone)
          /\ Receive(e, op[e].gone) /\ UNCHANGED relFaults
       \/ /\ ~Sends(op[e].gone)
          /\ Goes(e, "build") /\ UNCHANGED <<rel, idx, img, mixed, relFaults>>
       \/ \E part \in SUBSET op[e].gone :
            BuildFault /\ part # op[e].gone /\ Receive(e, part)
    /\ UNCHANGED <<dep, serves, relRuns, buildLock, hub>>

-----------------------------------------------------------------------------
(* Docker.Build.                                                            *)

\* recordImages: index rows for the images that are here.
RecordImages(e, r) ==
    idx' = idx \cup {<<Number(r, op[e].tree), i[2], "here">> : i \in img \cap Image(op[e].tree)}

\* cached: a recorded release with all its images is the answer.
Cached(e) == ~op[e].force /\ op[e].tree \in TreesOf(rel) /\ Missing(op[e].tree) = {}

\* The tree's lock, then the cache. The export of the commit may fail.
BuildStart(e) ==
    /\ op[e].pc = "build" /\ buildLock[op[e].tree] = NoRelease
    /\ \/ /\ Cached(e)
          /\ RecordImages(e, rel)
          /\ op' = [op EXCEPT ![e].pc = "report", ![e].rid = Number(rel, op[e].tree)]
          /\ UNCHANGED <<dep, buildLock, relFaults>>
       \/ /\ ~Cached(e)
          /\ buildLock' = [buildLock EXCEPT ![op[e].tree] = e]
          /\ op' = [op EXCEPT ![e].pc = "images", ![e].gone = Image(op[e].tree)]
          /\ UNCHANGED <<idx, dep, relFaults>>
       \/ ~Cached(e) /\ BuildFault /\ Ends(e) /\ UNCHANGED <<idx, buildLock>>
    /\ UNCHANGED <<rel, img, serves, relRuns, mixed, hub>>

\* One service after another: an image that exists is kept, unless forced.
BuildImage(e, i) ==
    /\ op[e].pc = "images" /\ i \in op[e].gone
    /\ \/ /\ img' = img \cup {i}
          /\ op' = [op EXCEPT ![e].gone = @ \ {i}]
          /\ UNCHANGED <<dep, buildLock, relFaults>>
       \/ /\ op[e].force \/ i \notin img
          /\ BuildFault /\ Ends(e)
          /\ buildLock' = [buildLock EXCEPT ![op[e].tree] = NoRelease]
          /\ UNCHANGED img
    /\ UNCHANGED <<rel, idx, serves, relRuns, mixed, hub>>

\* record: AddRelease, or the row another build of the tree has added.
BuildRecord(e) ==
    /\ op[e].pc = "images" /\ op[e].gone = {}
    /\ rel' = Recorded(rel, op[e].tree)
    /\ RecordImages(e, Recorded(rel, op[e].tree))
    /\ buildLock' = [buildLock EXCEPT ![op[e].tree] = NoRelease]
    /\ op' = [op EXCEPT ![e].pc = "report", ![e].plan = "build",
                        ![e].rid = Number(Recorded(rel, op[e].tree), op[e].tree)]
    /\ UNCHANGED <<img, dep, serves, relRuns, mixed, hub, relFaults>>

\* ReleaseRecord on the hub: the release, and its images as this machine's.
ReleaseRecord(t) ==
    /\ hubRel' = Recorded(hubRel, t)
    /\ hubIdx' = hubIdx \cup {<<i, "here">> : i \in Image(t)}

\* Supply.report; a failure is a warning.
Report(e) ==
    /\ op[e].pc = "report"
    /\ Goes(e, "record")
    /\ \/ Member /\ ReleaseRecord(op[e].tree) /\ UNCHANGED relFaults
       \/ ~Member /\ UNCHANGED <<hubRel, hubIdx, relFaults>>
       \/ Member /\ BuildFault /\ UNCHANGED <<hubRel, hubIdx>>
    /\ UNCHANGED <<here, mixed, hubImg>>

-----------------------------------------------------------------------------
(* The rest of the deploy, as far as images go.                             *)

\* setRelease: the row takes the number. The column is a foreign key.
SetRelease(e) ==
    /\ op[e].pc = "record"
    /\ IF op[e].rid > Len(rel)
       THEN Ends(e)
       ELSE /\ dep' = [dep EXCEPT ![op[e].row].rid = op[e].rid]
            /\ Goes(e, "start")
    /\ UNCHANGED <<rel, idx, img, serves, relRuns, buildLock, mixed, hub, relFaults>>

\* The new containers start from the images, or a gate fails and they go.
Start(e) ==
    /\ op[e].pc = "start"
    /\ \/ /\ Missing(op[e].tree) = {}
          /\ relRuns' = [relRuns EXCEPT ![e] = @ \cup {op[e].tree}]
          /\ Goes(e, "promote") /\ UNCHANGED <<dep, relFaults>>
       \/ Missing(op[e].tree) # {} /\ Ends(e) /\ UNCHANGED <<relRuns, relFaults>>
       \/ BuildFault /\ Ends(e) /\ UNCHANGED relRuns
    /\ UNCHANGED <<rel, idx, img, serves, buildLock, mixed, hub>>

\* promote: the previous pool is gone, and the environment's release is set.
Promote(e) ==
    /\ op[e].pc = "promote"
    /\ relRuns' = [relRuns EXCEPT ![e] = {op[e].tree}]
    /\ serves' = [serves EXCEPT ![e] = op[e].rid]
    /\ Goes(e, "prune")
    /\ UNCHANGED <<rel, idx, img, dep, buildLock, mixed, hub, relFaults>>

-----------------------------------------------------------------------------
(* Docker.Prune.                                                            *)

\* The releases of an environment's deploys, newest first and each counted once,
\* up to deploy.keep of them.
Numbered(e) == {k \in 1..Len(dep) : dep[k].env = e /\ dep[k].rid # NoRelease}
Newest(e) == {k \in Numbered(e) : \A j \in Numbered(e) : j > k => dep[j].rid # dep[k].rid}
Recent(e) == {dep[k].rid : k \in {k \in Newest(e) : Cardinality({j \in Newest(e) : j > k}) < KeepReleases}}

Unfinished == UNION {{dep[k].rid, dep[k].from} : k \in {k \in 1..Len(dep) : dep[k].open}}

\* keepers: what every environment serves, its KeepReleases latest releases, and both
\* ends of a deploy in progress.
Keepers(e) == {serves[o] : o \in Envs} \cup UNION {Recent(o) : o \in Envs} \cup Unfinished

\* The releases and the keepers are read; what is not kept will be removed.
Removable(e) == UNION {Image(rel[i]) : i \in (1..Len(rel)) \ Keepers(e)}
PruneRead(e) ==
    /\ op[e].pc = "prune"
    /\ op' = [op EXCEPT ![e].pc = "remove", ![e].gone = Removable(e)]
    /\ mixed' = (mixed \/ Others(e))
    /\ UNCHANGED <<here, hub, relFaults>>

\* An image a container uses is not removed, and the refusal ends the prune.
PruneRemove(e, i) ==
    /\ op[e].pc = "remove" /\ i \in op[e].gone
    /\ IF \E o \in Envs : i[1] \in relRuns[o]
       THEN op' = [op EXCEPT ![e].gone = {}] /\ UNCHANGED img
       ELSE op' = [op EXCEPT ![e].gone = @ \ {i}] /\ img' = img \ {i}
    /\ UNCHANGED <<rel, idx, dep, serves, relRuns, buildLock, mixed, hub, relFaults>>

Finish(e) ==
    /\ op[e].pc = "remove" /\ op[e].gone = {}
    /\ Ends(e)
    /\ UNCHANGED <<rel, idx, img, serves, relRuns, buildLock, mixed, hub, relFaults>>

-----------------------------------------------------------------------------
(* The hub's own deploys.                                                   *)

HubBuilds(t) ==
    /\ Member /\ ~(Image(t) \subseteq hubImg)
    /\ BuildFault
    /\ hubRel' = Recorded(hubRel, t)
    /\ hubImg' = hubImg \cup Image(t)
    /\ hubIdx' = hubIdx \cup {<<i, "hub">> : i \in Image(t)}
    /\ UNCHANGED <<here, op, mixed>>

\* Its prune leaves the index as it is.
HubPrunes(t) ==
    /\ Image(t) \subseteq hubImg /\ BuildFault
    /\ hubImg' = hubImg \ Image(t)
    /\ UNCHANGED <<here, op, mixed, hubRel, hubIdx>>

DeployStep(e) ==
    \/ Lookup(e) \/ PlanSupply(e) \/ Copy(e) \/ BuildStart(e) \/ BuildRecord(e)
    \/ Report(e) \/ SetRelease(e) \/ Start(e) \/ Promote(e) \/ PruneRead(e) \/ Finish(e)
    \/ \E i \in Images : BuildImage(e, i) \/ PruneRemove(e, i)

ReleasesNext ==
    \/ \E e \in Envs : DeployStep(e) \/ \E t \in Trees, f \in BOOLEAN : Deploy(e, t, f)
    \/ \E t \in Trees : HubBuilds(t) \/ HubPrunes(t)

\* A deploy goes on once it runs.
ReleasesFairness == \A e \in Envs : WF_releaseVars(DeployStep(e))
ReleasesSpec == ReleasesInit /\ [][ReleasesNext]_releaseVars /\ ReleasesFairness

-----------------------------------------------------------------------------
(* Properties.                                                              *)

\* A deploy that comes to its start has every image of its tree on the
\* machine, wherever they came from: a stale index, a sender that pruned, a
\* broken archive and a store that refuses the copy all end in a build. A
\* prune beside it may take them (mixed).
EnsureDelivers ==
    \A e \in Envs : ~mixed /\ op[e].pc \in {"record", "start"} => Missing(op[e].tree) = {}

\* The prune of one environment leaves the images every environment needs to
\* come back from its latest releases (keepers).
KeptForRollback ==
    ~mixed /\ (\A e \in Envs : op[e] = NotDeploying) =>
        \A e \in Envs : \A i \in Recent(e) \cup ({serves[e]} \ {NoRelease}) : Image(rel[i]) \subseteq img

\* A deploy whose release was built or copied here records the number this
\* machine gave to its tree (adoptRelease, record).
RowIsTree ==
    \A e \in Envs : op[e].pc \in {"start", "promote", "prune", "remove"} /\ op[e].plan # "have"
        => rel[op[e].rid] = op[e].tree

\* The images of an app: a deploy that starts has all the images of its tree
\* (Supply.Ensure), records the number its machine gave that tree, and a prune
\* leaves what rollbacks need (keepers). The last is said of a machine that has
\* recorded every release it numbers: one that takes a number from its hub may
\* have given it to another tree.
ReleasesDelivered ==
    /\ ReleasesTypeOK /\ EnsureDelivers /\ RowIsTree
    /\ hubRel = <<>> => KeptForRollback

\* Every deploy gets its images or fails: no two wait for each other's builds.
DeploysEnd == \A e \in Envs : op[e] # NotDeploying ~> op[e] = NotDeploying
=============================================================================
