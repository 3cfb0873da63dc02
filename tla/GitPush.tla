------------------------------ MODULE GitPush ------------------------------
(***************************************************************************)
(* A push to the hub, from the SSH channel to the checkouts it reaches     *)
(* (internal/sshapi git.go, pushrecord.go; internal/git; internal/env      *)
(* push.go). One app, one environment, on the hub or on a member: on the   *)
(* hub its checkout is a worktree of the repository that is pushed to, on  *)
(* a member it follows a mirror of it.                                     *)
(*                                                                         *)
(* A commit is the set of pieces of work it has: one commit is ahead of    *)
(* another when it has more. git itself is external: what receive-pack,    *)
(* fetch and checkout do is modelled from how the code uses them.          *)
(***************************************************************************)
EXTENDS Naturals, FiniteSets

CONSTANTS
    EnvOnMember, \* where the environment is
    Pushes,      \* pushes, one process each
    Branches,    \* among them "main", and EnvBranch
    EnvBranch,   \* the branch the environment is on
    MaxEdits,    \* edits and commits in the checkout
    MaxGitFaults \* lost connections and machines out of reach

ASSUME GitAssumption ==
    /\ {"main", EnvBranch} \subseteq Branches
    /\ Branches \cap {"", "none"} = {}
    /\ Pushes \cap {"nothing", "local", "edit", "nobody"} = {}

VARIABLES
    refs,        \* branches of the hub's repository; NoCommit: not there
    headRef,     \* HEAD of the hub's repository, a branch that may not exist
    appRow,      \* the app's row: its default branch
    hooks,       \* the pre-receive hook is installed
    checkout,    \* the environment's checkout: its commit and whether it is dirty
    mirrorRef,   \* the member's copy of the branch (refs/remotes/origin)
    envRow,      \* the commit the environment's row says was pushed
    push,        \* where each push is
    sync,        \* the sync that holds the environment on the member
    edits, gitFaults,
    lost,        \* pieces of work that a sync took out of the checkout's branch
    apart        \* why the two ends may differ: see the properties

gitVars == <<refs, headRef, appRow, hooks, checkout, mirrorRef, envRow, push, sync,
             edits, gitFaults, lost, apart>>

NoCommit == {"nothing"}
Local == "local"   \* work committed in the checkout
Works == Pushes \cup {Local}
NoSync == [by |-> "nobody", pc |-> "free", saw |-> FALSE]
NoPush == [pc |-> "idle", branch |-> "main", base |-> {}, new |-> {}]
Seed == {}   \* the commit the environment's branch began with

GitInit ==
    /\ refs = [b \in Branches |-> IF b = EnvBranch THEN Seed ELSE NoCommit]
    /\ headRef = "main"
    /\ appRow = "none"
    /\ hooks = FALSE
    /\ checkout = [commit |-> Seed, dirty |-> FALSE]
    /\ mirrorRef = Seed
    /\ envRow = Seed
    /\ push = [p \in Pushes |-> NoPush]
    /\ sync = NoSync
    /\ edits = 0 /\ gitFaults = 0
    /\ lost = {}
    /\ apart = {}

PushAt(p, pc) == push[p].pc = pc
GoTo(p, pc) == push' = [push EXCEPT ![p].pc = pc]
Busy == {p \in Pushes : push[p].pc \notin {"idle", "done"}}

-----------------------------------------------------------------------------
\* parseGit, appFromGitPath: the channel asked for receive-pack of an app. The
\* client commits on top of the branch as it is.
ServeGit(p, b) ==
    /\ PushAt(p, "idle")
    /\ LET base == IF refs[b] = NoCommit THEN {} ELSE refs[b] IN
       push' = [push EXCEPT ![p] = [pc |-> "ensure", branch |-> b, base |-> refs[b],
                                    new |-> base \cup {p}]]
    /\ apart' = IF Busy # {} /\ ~EnvOnMember THEN apart \cup {"overlap"} ELSE apart
    /\ UNCHANGED <<refs, headRef, appRow, hooks, checkout, mirrorRef, envRow, sync,
                   edits, gitFaults, lost>>

\* ensureApp: the app's row, the repository and its configuration; a hook that
\* cannot be written is only logged. Every push does it again.
EnsureApp(p) ==
    /\ PushAt(p, "ensure")
    /\ appRow' = IF appRow = "none" THEN "" ELSE appRow
    /\ GoTo(p, "check")
    /\ \/ hooks' = TRUE /\ UNCHANGED gitFaults
       \/ /\ gitFaults < MaxGitFaults
          /\ gitFaults' = gitFaults + 1
          /\ UNCHANGED hooks
    /\ UNCHANGED <<refs, headRef, checkout, mirrorRef, envRow, sync, edits, lost, apart>>

\* CheckPush, from the pre-receive hook: a branch whose environment is on
\* another machine waits until its checkout is clean. A machine that cannot be
\* asked does not hold the push up.
Refused(p) == push[p].branch = EnvBranch /\ EnvOnMember /\ hooks /\ checkout.dirty
CheckPush(p) ==
    /\ PushAt(p, "check")
    /\ \/ ~Refused(p) /\ GoTo(p, "land") /\ UNCHANGED gitFaults
       \/ Refused(p) /\ GoTo(p, "done") /\ UNCHANGED gitFaults
       \/ /\ Refused(p) /\ gitFaults < MaxGitFaults
          /\ gitFaults' = gitFaults + 1
          /\ GoTo(p, "land")
    /\ UNCHANGED <<refs, headRef, appRow, hooks, checkout, mirrorRef, envRow, sync,
                   edits, lost, apart>>

\* receive-pack: the branch moves if it is still what the client saw. A branch
\* checked out on this machine takes its checkout along, and is refused while
\* that has changes (updateInstead, push-to-checkout).
HoldsCheckout(p) == ~EnvOnMember /\ push[p].branch = EnvBranch
MutPushToCheckout(p) == TRUE
PushToCheckout(p) == ~(HoldsCheckout(p) /\ checkout.dirty)
Land(p) ==
    /\ PushAt(p, "land")
    /\ IF refs[push[p].branch] = push[p].base /\ PushToCheckout(p)
       THEN /\ refs' = [refs EXCEPT ![push[p].branch] = push[p].new]
            /\ checkout' = IF HoldsCheckout(p)
                           THEN [commit |-> push[p].new, dirty |-> FALSE] ELSE checkout
            /\ lost' = IF HoldsCheckout(p) /\ checkout.dirty THEN lost \cup {"edit"} ELSE lost
            /\ GoTo(p, "settle")
       ELSE /\ GoTo(p, "done")
            /\ UNCHANGED <<refs, checkout, lost>>
    /\ UNCHANGED <<headRef, appRow, hooks, mirrorRef, envRow, sync, edits, gitFaults, apart>>

\* settleHEAD: a HEAD that names no branch is pointed at main, or at the first
\* one there is; the app's row follows it.
BranchExists(b) == refs[b] # NoCommit
MutHeadBranch == headRef
HeadBranch == IF BranchExists(headRef) THEN headRef
              ELSE IF BranchExists("main") THEN "main"
              ELSE CHOOSE b \in Branches : BranchExists(b)
SettleHEAD(p) ==
    /\ PushAt(p, "settle")
    /\ headRef' = HeadBranch
    /\ appRow' = HeadBranch
    /\ GoTo(p, "record")
    /\ UNCHANGED <<refs, hooks, checkout, mirrorRef, envRow, sync, edits, gitFaults, lost, apart>>

\* recordPush: what the post-receive hook wrote down, for the environment of
\* that branch on this machine.
MutRecordPush(p) ==
    /\ PushAt(p, "record")
    /\ GoTo(p, "sync")
    /\ UNCHANGED <<refs, headRef, appRow, hooks, checkout, mirrorRef, envRow, sync,
                   edits, gitFaults, lost, apart>>
RecordPush(p) ==
    /\ PushAt(p, "record")
    /\ envRow' = IF HoldsCheckout(p) THEN push[p].new ELSE envRow
    /\ GoTo(p, "sync")
    /\ UNCHANGED <<refs, headRef, appRow, hooks, checkout, mirrorRef, sync, edits,
                   gitFaults, lost, apart>>

\* syncMembers: every machine that holds an environment of the app is told,
\* whatever branch was pushed. SyncBranch holds the environment's lock there. A
\* machine that is out of reach is a warning; the push is over.
SyncMembers(p) ==
    /\ PushAt(p, "sync")
    /\ \/ ~EnvOnMember /\ GoTo(p, "done") /\ UNCHANGED <<sync, gitFaults, apart>>
       \/ /\ EnvOnMember /\ sync.pc = "free"
          /\ sync' = [by |-> p, pc |-> "fetch", saw |-> FALSE]
          /\ GoTo(p, "synced")
          /\ UNCHANGED <<gitFaults, apart>>
       \/ /\ EnvOnMember /\ gitFaults < MaxGitFaults
          /\ gitFaults' = gitFaults + 1
          /\ apart' = apart \cup {"fault"}
          /\ GoTo(p, "done")
          /\ UNCHANGED sync
    /\ UNCHANGED <<refs, headRef, appRow, hooks, checkout, mirrorRef, envRow, edits, lost>>

\* SyncBranch: fetch the branch from the hub ...
MutFetchBranch == push[sync.by].new
FetchBranch == refs[EnvBranch]
SyncFetch ==
    /\ sync.pc = "fetch"
    /\ mirrorRef' = FetchBranch
    /\ sync' = [sync EXCEPT !.pc = "look"]
    /\ UNCHANGED <<refs, headRef, appRow, hooks, checkout, envRow, push, edits, gitFaults,
                   lost, apart>>

\* ... look at the checkout (Dirty) ...
SyncLook ==
    /\ sync.pc = "look"
    /\ IF checkout.dirty
       THEN /\ sync' = NoSync
            /\ GoTo(sync.by, "done")
            /\ apart' = apart \cup {"dirty"}
       ELSE /\ sync' = [sync EXCEPT !.pc = "checkout"]
            /\ UNCHANGED <<push, apart>>
    /\ UNCHANGED <<refs, headRef, appRow, hooks, checkout, mirrorRef, envRow, edits,
                   gitFaults, lost>>

\* ... and force the branch to what was fetched (checkout --force -B): what was
\* changed in between is gone, and so are commits made here.
UpdateWorktree ==
    /\ sync.pc = "checkout"
    /\ checkout' = [commit |-> mirrorRef, dirty |-> FALSE]
    /\ lost' = lost \cup (checkout.commit \ mirrorRef)
                    \cup (IF checkout.dirty THEN {"edit"} ELSE {})
    /\ sync' = [sync EXCEPT !.pc = "record"]
    /\ UNCHANGED <<refs, headRef, appRow, hooks, mirrorRef, envRow, push, edits, gitFaults, apart>>

\* RecordEnvPush: the commit the checkout is at.
SyncRecord ==
    /\ sync.pc = "record"
    /\ envRow' = checkout.commit
    /\ sync' = NoSync
    /\ GoTo(sync.by, "done")
    /\ UNCHANGED <<refs, headRef, appRow, hooks, checkout, mirrorRef, edits, gitFaults,
                   lost, apart>>

-----------------------------------------------------------------------------
\* Somebody works in the environment: a file is changed, the changes are thrown
\* away, or committed there.
Edit ==
    /\ edits < MaxEdits
    /\ ~checkout.dirty
    /\ checkout' = [checkout EXCEPT !.dirty = TRUE]
    /\ edits' = edits + 1
    /\ apart' = IF sync.pc = "checkout" THEN apart \cup {"race"} ELSE apart
    /\ UNCHANGED <<refs, headRef, appRow, hooks, mirrorRef, envRow, push, sync, gitFaults, lost>>
Discard ==
    /\ checkout.dirty
    /\ checkout' = [checkout EXCEPT !.dirty = FALSE]
    /\ UNCHANGED <<refs, headRef, appRow, hooks, mirrorRef, envRow, push, sync, edits,
                   gitFaults, lost, apart>>
Commit ==
    /\ checkout.dirty
    /\ checkout' = [commit |-> checkout.commit \cup {Local}, dirty |-> FALSE]
    /\ refs' = IF EnvOnMember THEN refs
               ELSE [refs EXCEPT ![EnvBranch] = checkout.commit \cup {Local}]
    /\ apart' = apart \cup {"commit"}
    /\ UNCHANGED <<headRef, appRow, hooks, mirrorRef, envRow, push, sync, edits, gitFaults, lost>>

\* The client goes away: what ServeGit has not done yet is not done. A sync the
\* member began goes on there.
HangUp(p) ==
    /\ p \in Busy /\ sync.by # p
    /\ gitFaults < MaxGitFaults
    /\ gitFaults' = gitFaults + 1
    /\ GoTo(p, "done")
    /\ apart' = apart \cup {"fault"}
    /\ UNCHANGED <<refs, headRef, appRow, hooks, checkout, mirrorRef, envRow, sync, edits, lost>>

SyncStep == SyncFetch \/ SyncLook \/ UpdateWorktree \/ SyncRecord
PushStep(p) ==
    \/ EnsureApp(p) \/ CheckPush(p) \/ Land(p) \/ SettleHEAD(p) \/ RecordPush(p)
    \/ SyncMembers(p)

GitNext ==
    \/ \E p \in Pushes : (\E b \in Branches : ServeGit(p, b)) \/ PushStep(p) \/ HangUp(p)
    \/ SyncStep
    \/ Edit \/ Discard \/ Commit

GitSpec == GitInit /\ [][GitNext]_gitVars

-----------------------------------------------------------------------------
Commits == (SUBSET Works) \cup {NoCommit}
GitTypeOK ==
    /\ refs \in [Branches -> Commits]
    /\ headRef \in Branches
    /\ appRow \in Branches \cup {"none", ""}
    /\ checkout \in [commit: SUBSET Works, dirty: BOOLEAN]
    /\ mirrorRef \in Commits /\ envRow \in Commits
    /\ sync.by \in Pushes \cup {"nobody"}

\* When no push is under way and none was cut short, the checkout has what the
\* hub's branch has, however the pushes overlapped (mirror.go UpdateWorktree,
\* push-to-checkout). Commits made in the environment and a checkout that was
\* dirty are the exceptions.
QuietCheckoutCurrent ==
    (Busy = {} /\ apart \cap {"fault", "dirty", "commit"} = {}) =>
        checkout.commit = refs[EnvBranch]

\* And its row says so; on the hub only while pushes do not overlap, since each
\* records its own commit after the branch moved (push.go RecordPush).
QuietRowIsCheckout ==
    (Busy = {} /\ apart \cap {"fault", "dirty", "commit", "overlap"} = {}) =>
        envRow = checkout.commit

\* What somebody changed and did not commit survives every push, unless it was
\* changed between the look and the checkout of a sync (mirror.go Dirty,
\* UpdateWorktree; push-to-checkout hook).
EditsKept == "edit" \in lost => "race" \in apart

\* Once a push was served to its end, HEAD names a branch, and it is the app's
\* default branch (git.go settleHEAD).
HeadSettled == (\E p \in Pushes : PushAt(p, "record")) =>
    /\ BranchExists(headRef)
    /\ appRow \in Branches => BranchExists(appRow)

\* Between pushes the checkout is the branch and the row names its commit, a
\* push loses no uncommitted change, and a served push leaves HEAD on a branch
\* that exists.
PushesArrive ==
    GitTypeOK /\ QuietCheckoutCurrent /\ QuietRowIsCheckout /\ EditsKept /\ HeadSettled
=============================================================================
