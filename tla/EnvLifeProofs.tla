--------------------------- MODULE EnvLifeProofs ---------------------------
(***************************************************************************)
(* What an environment keeps: proofs about EnvLife, for any number of      *)
(* environments, hostnames, blocks and addresses, any old environments and *)
(* any sequence of failures; and about Secrets, GitPush, Placement and     *)
(* Releases.                                                               *)
(*                                                                         *)
(* First the blocks of ports, which environments share. Then what one      *)
(* environment leaves behind: a ready one is complete, one without a row   *)
(* has nothing on the machine, and neither the edge nor the network device *)
(* knows it. Each of these three has an inductive invariant of its own,    *)
(* about one environment at a time: a command holds its environment's      *)
(* mutex, so what it has built or taken away since it began is still so.   *)
(*                                                                         *)
(* Secrets.  Versions only grow while nothing is removed, so a fingerprint *)
(* recorded earlier is the one of now or can never be it again (Passed);   *)
(* with that, a container carries the values its service's fingerprint     *)
(* tells across any number of half-done ups (Known).                       *)
(*                                                                         *)
(* GitPush.  On the hub the checkout moves with the branch (OnTheHub); on  *)
(* a member what a push brought is there, or some push or sync will still  *)
(* fetch it (OnTheMember), whatever the pushes do to each other.           *)
(*                                                                         *)
(* Placement.  The order of rank has a first machine among those that fit  *)
(* (BestFits), so a decision is a machine or nobody.  While no call to the *)
(* hub was lost, what is listed is a home (ListedIsHome); where the hub    *)
(* has no room of its own the directory's "here" means nobody has it, and  *)
(* the only create of an environment that is not listed yet is the one     *)
(* that made it (OneMachine).                                              *)
(*                                                                         *)
(* Releases.  What a deploy lacks it is about to copy or build (Supplied), *)
(* its number is this machine's (NumberedHere), and the images of what the *)
(* environments want stay (WantedKept): a prune beside which nothing runs  *)
(* takes none of them (AloneAtPrune), and a number put on a row adds one   *)
(* release to the recent ones and pushes at most the oldest out.           *)
(***************************************************************************)
EXTENDS EnvLife, Secrets, GitPush, Placement, Releases, FiniteSetTheorems,
        WellFoundedInduction, TLAPS

-----------------------------------------------------------------------------
(* The inductive invariant behind BlocksDisjoint. *)

\* A row of this version has a whole block of the allocator's; one of an old
\* version has half a block, anywhere.
RowsWhole ==
    \A f \in Env : Exists(f) =>
        /\ rows[f].count \in {1, BlockSize}
        /\ rows[f].count = BlockSize => rows[f].base \in Bases

\* A block that was chosen and is not recorded yet keeps clear of the half
\* blocks: there is no index that would catch a create that overlaps one, so
\* the choice must hold until the row is written.
ChoiceClear ==
    \A e \in Env : cmd[e].pc \in {"address", "insert"} =>
        /\ cmd[e].base \in Bases
        /\ cmd[e].pc = "insert" => cmd[e].ip \in Addr
        /\ \A f \in Env : Exists(f) /\ rows[f].count = 1
                            => ~Overlaps(rows[f].base, 1, cmd[e].base, BlockSize)

\* A command that works on a row has one: it wrote it or found it, and the
\* mutex keeps every other command of the environment away.
RowPcs == {"mark", "reset", "branch", "worktree", "config", "network", "cache", "deps", "volume",
           "container", "waitReady", "publish", "ready", "fail"}
HasRow == \A e \in Env : cmd[e].pc \in RowPcs => Exists(e)

BlocksInv == TypeOK /\ RowsWhole /\ ChoiceClear /\ HasRow /\ BlocksDisjoint

-----------------------------------------------------------------------------
(* Facts about the records. *)

\* The record of a command at rest is a record of a command.
LEMMA IdleType == Idle \in CmdRec
<1>1. NoTable \in Table
  BY DEF NoTable, Table
<1>2. 0 \in 0..MaxTries
  BY EnvLifeAssumption
<1> QED
  BY <1>1, <1>2 DEF Idle, CmdRec, Pcs

\* A command that is given a record of a command keeps the type.
LEMMA SetType ==
  ASSUME TypeOK, NEW e \in Env, NEW c \in CmdRec, Set(e, c)
  PROVE  cmd' \in [Env -> CmdRec]
BY DEF TypeOK, Set

LEMMA GotoType ==
  ASSUME TypeOK, NEW e \in Env, NEW step \in Pcs, Goto(e, step)
  PROVE  cmd' \in [Env -> CmdRec]
<1>1. cmd[e] \in CmdRec
  BY DEF TypeOK
<1>2. [cmd[e] EXCEPT !.pc = step] \in CmdRec
  BY <1>1 DEF CmdRec
<1> QED
  BY <1>2, SetType DEF Goto

LEMMA StepType ==
  ASSUME TypeOK, NEW e \in Env, NEW step \in Pcs, NEW failed \in BOOLEAN, Step(e, step, failed)
  PROVE  cmd' \in [Env -> CmdRec]
<1>1. cmd[e] \in CmdRec
  BY DEF TypeOK
<1>2. [cmd[e] EXCEPT !.pc = step, !.failed = @ \/ failed] \in CmdRec
  <2>1. (cmd[e].failed \/ failed) \in BOOLEAN
    OBVIOUS
  <2> QED
    BY <1>1, <2>1 DEF CmdRec
<1> QED
  BY <1>2, SetType DEF Step

LEMMA BranchType ==
  ASSUME NEW c \in CmdRec, NEW step \in Pcs, NEW branch \in BOOLEAN
  PROVE  [c EXCEPT !.pc = step, !.branch = branch] \in CmdRec
BY DEF CmdRec

LEMMA ThenType ==
  ASSUME NEW c \in CmdRec, NEW step \in Pcs, NEW then \in {"idle", "plan", "expose"}
  PROVE  [c EXCEPT !.pc = step, !.then = then] \in CmdRec
BY DEF CmdRec

LEMMA LeftType ==
  ASSUME NEW c \in CmdRec, NEW step \in Pcs, NEW L \in SUBSET (Things \ {"branch", "worktree"})
  PROVE  /\ [c EXCEPT !.pc = step, !.left = L] \in CmdRec
         /\ [c EXCEPT !.pc = step, !.left = L, !.failed = TRUE] \in CmdRec
BY DEF CmdRec

LEMMA SentType ==
  ASSUME NEW c \in CmdRec, NEW step \in Pcs, NEW failed \in BOOLEAN, NEW table \in Table
  PROVE  [c EXCEPT !.pc = step, !.failed = failed, !.table = table] \in CmdRec
BY DEF CmdRec

LEMMA ReturnType ==
  ASSUME TypeOK, NEW e \in Env, Return(e)
  PROVE  cmd' \in [Env -> CmdRec]
BY IdleType, SetType DEF Return

\* What is counted down stays a count.
LEMMA FaultType ==
  ASSUME TypeOK, (\E kind \in FaultKinds : Fault(kind)) \/ NoFault
  PROVE  faults' \in 0..MaxFaults
BY EnvLifeAssumption DEF TypeOK, Fault, NoFault

LEMMA BeginType ==
  ASSUME TypeOK, NEW e \in Env, Begin(e)
  PROVE  commands' \in 0..MaxCommands
BY EnvLifeAssumption DEF TypeOK, Begin

-----------------------------------------------------------------------------
(* Type correctness: one lemma for each part of a command. *)

LEMMA CommandType ==
  ASSUME TypeOK, NEW e \in Env, Command(e)
  PROVE  TypeOK'
<1>1. commands' \in 0..MaxCommands
  BY BeginType DEF Command, BeginCreate, BeginDestroy, BeginExpose, BeginUnexpose
<1>2. faults' \in 0..MaxFaults
  BY FaultType DEF Command, BeginCreate, BeginDestroy, BeginExpose, BeginUnexpose, ThenPush, FaultKinds
<1>3. CASE BeginCreate(e)
  <2>1. [Idle EXCEPT !.pc = IF Exists(e) THEN "mark" ELSE "plan",
                     !.then = IF Exists(e) THEN "plan" ELSE "idle"] \in CmdRec
    <3>1. /\ (IF Exists(e) THEN "mark" ELSE "plan") \in Pcs
          /\ (IF Exists(e) THEN "plan" ELSE "idle") \in {"idle", "plan", "expose"}
      BY DEF Pcs
    <3> QED
      BY <3>1, IdleType, ThenType
  <2>2. cmd' \in [Env -> CmdRec]
    BY <1>3, <2>1, SetType DEF BeginCreate
  <2> QED
    BY <1>1, <1>2, <1>3, <2>2 DEF BeginCreate, TypeOK, store
<1>4. ASSUME NEW branch \in BOOLEAN, BeginDestroy(e, branch)
      PROVE  TypeOK'
  <2> DEFINE first == IF Exists(e) THEN "mark" ELSE "list"
  <2>0. first \in Pcs
    BY DEF Pcs
  <2>1. [Idle EXCEPT !.pc = first, !.branch = branch] \in CmdRec
    BY <2>0, IdleType, BranchType
  <2>2. cmd' \in [Env -> CmdRec]
    BY <1>4, <2>1, SetType DEF BeginDestroy
  <2> QED
    BY <1>1, <1>2, <1>4, <2>2 DEF BeginDestroy, TypeOK, store
<1>5. ASSUME ThenPush(e)
      PROVE  cmd' \in [Env -> CmdRec]
  <2>1. [Idle EXCEPT !.pc = "pushRead", !.then = "expose"] \in CmdRec
    BY IdleType DEF CmdRec, Pcs
  <2> QED
    BY <1>5, <2>1, SetType, ReturnType DEF ThenPush
<1>6. ASSUME NEW h \in Host, BeginExpose(e, h)
      PROVE  TypeOK'
  <2>1. routes' \in Table
    BY <1>6 DEF BeginExpose, TypeOK, Table
  <2> QED
    BY <1>1, <1>2, <1>5, <1>6, <2>1 DEF BeginExpose, TypeOK
<1>7. ASSUME NEW H \in SUBSET Host, BeginUnexpose(e, H)
      PROVE  TypeOK'
  <2>1. routes' \in Table
    BY <1>7 DEF BeginUnexpose, TypeOK, Table
  <2> QED
    BY <1>1, <1>2, <1>5, <1>7, <2>1 DEF BeginUnexpose, TypeOK
<1> QED
  BY <1>3, <1>4, <1>6, <1>7 DEF Command

LEMMA RowStepsType ==
  ASSUME TypeOK, NEW e \in Env,
         \/ \E from, reset \in BOOLEAN : Plan(e, from, reset)
         \/ AllocatePorts(e) \/ AllocateAddress(e) \/ CreateRow(e)
  PROVE  TypeOK'
<1> USE EnvLifeAssumption
<1>c. cmd[e] \in CmdRec
  BY DEF TypeOK
<1>f. faults' \in 0..MaxFaults
  BY FaultType DEF Plan, AllocatePorts, AllocateAddress, CreateRow, FaultKinds
<1>1. ASSUME NEW from \in BOOLEAN, NEW reset \in BOOLEAN, Plan(e, from, reset)
      PROVE  TypeOK'
  <2>1. \A make \in {"keep", "new", "reset"} : [Idle EXCEPT !.pc = "ports", !.make = make] \in CmdRec
    BY IdleType DEF CmdRec, Pcs
  <2>2. cmd' \in [Env -> CmdRec]
    BY <1>1, <2>1, SetType, ReturnType DEF Plan
  <2> QED
    BY <1>1, <1>f, <2>2 DEF Plan, TypeOK, store
<1>2. CASE AllocatePorts(e)
  <2>1. \A b \in Bases : [cmd[e] EXCEPT !.pc = "address", !.base = b] \in CmdRec
    BY <1>c DEF CmdRec, Pcs
  <2>2. cmd' \in [Env -> CmdRec]
    BY <1>2, <2>1, SetType, ReturnType DEF AllocatePorts, FirstBase, FreeBases
  <2> QED
    BY <1>2, <1>f, <2>2 DEF AllocatePorts, TypeOK, store
<1>3. CASE AllocateAddress(e)
  <2>1. \A a \in Addr : [cmd[e] EXCEPT !.pc = "insert", !.ip = a] \in CmdRec
    BY <1>c DEF CmdRec, Pcs
  <2>2. cmd' \in [Env -> CmdRec]
    BY <1>3, <2>1, SetType, ReturnType DEF AllocateAddress, FirstAddr, FreeAddrs
  <2> QED
    BY <1>3, <1>f, <2>2 DEF AllocateAddress, TypeOK, store
<1>4. CASE CreateRow(e)
  <2>1. [status |-> "creating", base |-> cmd[e].base, count |-> BlockSize, ip |-> cmd[e].ip] \in RowRec
    BY <1>c DEF CmdRec, RowRec, Statuses, Bases, BlockSize
  <2>2. rows' \in [Env -> RowRec]
    BY <1>4, <2>1 DEF CreateRow, TypeOK
  <2>3. FirstOf[cmd[e].make] \in Pcs
    BY <1>c DEF CmdRec, FirstOf, Pcs
  <2>4. ASSUME cmd[e].tries + 1 < MaxTries
        PROVE  [cmd[e] EXCEPT !.pc = "ports", !.tries = @ + 1] \in CmdRec
    <3>1. cmd[e].tries + 1 \in 0..MaxTries
      BY <1>c, <2>4 DEF CmdRec
    <3> QED
      BY <1>c, <3>1 DEF CmdRec, Pcs
  <2>5. cmd' \in [Env -> CmdRec]
    BY <1>4, <2>3, <2>4, GotoType, SetType, ReturnType, IdleType DEF CreateRow
  <2> QED
    BY <1>4, <1>f, <2>2, <2>5 DEF CreateRow, TypeOK
<1> QED
  BY <1>1, <1>2, <1>3, <1>4

LEMMA MakeType ==
  ASSUME TypeOK, NEW e \in Env, NEW step, NEW thing \in Things, NEW kind \in FaultKinds,
         NEW next \in Pcs, Make(e, step, thing, kind, next)
  PROVE  TypeOK'
<1>1. cmd' \in [Env -> CmdRec]
  BY GotoType DEF Make, Pcs
<1>2. faults' \in 0..MaxFaults
  BY FaultType DEF Make, FaultKinds
<1>3. world' \in [Env -> SUBSET Things] /\ recorded' \in [Env -> SUBSET Things]
  BY DEF Make, TypeOK
<1> QED
  BY <1>1, <1>2, <1>3 DEF Make, TypeOK

LEMMA MakeStepsType ==
  ASSUME TypeOK, NEW e \in Env,
         \/ ResetBranch(e) \/ MakeBranch(e) \/ MakeWorktree(e) \/ SaveConfig(e)
         \/ MakeNetwork(e) \/ MakeCache(e) \/ Deps(e) \/ MakeVolume(e) \/ MakeDep(e)
         \/ WaitReady(e) \/ Publish(e) \/ Ready(e) \/ Fail(e)
  PROVE  TypeOK'
<1>1. CASE MakeBranch(e) \/ MakeWorktree(e) \/ MakeNetwork(e) \/ MakeCache(e) \/ MakeVolume(e)
           \/ MakeDep(e)
  BY <1>1, MakeType DEF MakeBranch, MakeWorktree, MakeNetwork, MakeCache, MakeVolume, MakeDep,
                        FaultKinds, Things, Containers, Volumes, Pcs
<1>2. CASE ResetBranch(e)
  <2>1. cmd' \in [Env -> CmdRec]
    BY <1>2, GotoType DEF ResetBranch, Pcs
  <2>2. faults' \in 0..MaxFaults
    BY <1>2, FaultType DEF ResetBranch, FaultKinds
  <2> QED
    BY <1>2, <2>1, <2>2 DEF ResetBranch, TypeOK, store
<1>3. CASE SaveConfig(e)
  <2>1. cmd' \in [Env -> CmdRec]
    BY <1>3, GotoType DEF SaveConfig, Pcs
  <2>2. faults' \in 0..MaxFaults
    BY <1>3, FaultType DEF SaveConfig, FaultKinds
  <2> QED
    BY <1>3, <2>1, <2>2 DEF SaveConfig, TypeOK
<1>4. CASE Deps(e) \/ WaitReady(e)
  <2>1. cmd' \in [Env -> CmdRec]
    BY <1>4, GotoType DEF Deps, WaitReady, Pcs
  <2>2. faults' \in 0..MaxFaults
    BY <1>4, FaultType DEF Deps, WaitReady, FaultKinds
  <2> QED
    BY <1>4, <2>1, <2>2 DEF Deps, WaitReady, TypeOK, store
<1>5. CASE Publish(e)
  <2>1. cmd' \in [Env -> CmdRec]
    BY <1>5, GotoType DEF Publish, Pcs
  <2>2. faults' \in 0..MaxFaults
    BY <1>5, FaultType DEF Publish, FaultKinds
  <2>3. HasAddr(e) \subseteq Addr
    BY DEF HasAddr, TypeOK, RowRec
  <2>4. device' \subseteq Addr \X Env
    BY <1>5, <2>3 DEF Publish, TypeOK
  <2> QED
    BY <1>5, <2>1, <2>2, <2>4 DEF Publish, TypeOK, store
<1>6. CASE Ready(e) \/ Fail(e)
  <2>1. cmd' \in [Env -> CmdRec]
    BY <1>6, GotoType, ReturnType DEF Ready, Fail, Pcs
  <2>2. faults' \in 0..MaxFaults
    BY <1>6, FaultType DEF Ready, Fail, FaultKinds
  <2>3. \A s \in {"ready", "failed"} : [rows EXCEPT ![e].status = s] \in [Env -> RowRec]
    BY DEF TypeOK, RowRec, Statuses
  <2> QED
    BY <1>6, <2>1, <2>2, <2>3 DEF Ready, Fail, TypeOK
<1> QED
  BY <1>1, <1>2, <1>3, <1>4, <1>5, <1>6

LEMMA PushType ==
  ASSUME TypeOK, NEW e \in Env, PushRead(e) \/ PushSend(e)
  PROVE  TypeOK'
<1>c. cmd[e] \in CmdRec /\ cmd[e].table \in Table
  BY DEF TypeOK, CmdRec
<1>n. NoTable \in Table
  BY DEF NoTable, Table
<1>1. CASE PushRead(e)
  <2>1. [cmd[e] EXCEPT !.pc = "pushSend", !.table = routes] \in CmdRec
    BY <1>c DEF CmdRec, Pcs, TypeOK
  <2>2. cmd' \in [Env -> CmdRec]
    BY <1>1, <2>1, SetType DEF PushRead
  <2> QED
    BY <1>1, <2>2 DEF PushRead, TypeOK, store, NoFault
<1>2. CASE PushSend(e)
  <2>1. PICK sent \in BOOLEAN :
          /\ Sent(sent, cmd[e].table)
          /\ tableLock' = Unlock(sent)
          /\ Set(e, IF cmd[e].then = "expose" THEN Idle
                    ELSE [cmd[e] EXCEPT !.pc = "list", !.failed = @ \/ ~sent, !.table = NoTable])
    BY <1>2 DEF PushSend
  <2>2. [cmd[e] EXCEPT !.pc = "list", !.failed = @ \/ ~sent, !.table = NoTable] \in CmdRec
    <3>1. (cmd[e].failed \/ ~sent) \in BOOLEAN
      OBVIOUS
    <3>2. "list" \in Pcs
      BY DEF Pcs
    <3> QED
      BY <1>c, <1>n, <3>1, <3>2, SentType
  <2>3. cmd' \in [Env -> CmdRec]
    BY <2>1, <2>2, IdleType, SetType
  <2>4. edge' \in Table /\ faults' \in 0..MaxFaults
    BY <2>1, <1>c, FaultType DEF Sent, TypeOK, FaultKinds
  <2> QED
    BY <1>2, <2>1, <2>3, <2>4 DEF PushSend, TypeOK, store, Unlock
<1> QED
  BY <1>1, <1>2

LEMMA KeeperType ==
  ASSUME TypeOK, KeeperRead \/ KeeperSend
  PROVE  TypeOK'
<1>n. NoTable \in Table
  BY DEF NoTable, Table
<1>1. CASE KeeperRead
  <2>1. commands' \in 0..MaxCommands
    BY <1>1, EnvLifeAssumption DEF KeeperRead, TypeOK
  <2> QED
    BY <1>1, <2>1 DEF KeeperRead, TypeOK, store, NoFault
<1>2. CASE KeeperSend
  <2>1. keeper.table \in Table
    BY DEF TypeOK
  <2>2. edge' \in Table /\ faults' \in 0..MaxFaults
    BY <1>2, <2>1, FaultType DEF KeeperSend, Sent, TypeOK, FaultKinds
  <2> QED
    BY <1>2, <1>n, <2>2 DEF KeeperSend, TypeOK, store, Unlock
<1> QED
  BY <1>1, <1>2

LEMMA RemoveType ==
  ASSUME TypeOK, NEW e \in Env, NEW step, NEW kind, NEW next \in Pcs, RemoveAll(e, step, kind, next)
  PROVE  TypeOK'
<1>1. cmd' \in [Env -> CmdRec]
  BY StepType DEF RemoveAll
<1>2. faults' \in 0..MaxFaults
  BY FaultType DEF RemoveAll, FaultKinds
<1>3. world' \in [Env -> SUBSET Things]
  BY DEF RemoveAll, TypeOK
<1> QED
  BY <1>1, <1>2, <1>3 DEF RemoveAll, TypeOK, store

LEMMA DestroyType ==
  ASSUME TypeOK, NEW e \in Env, Destroy(e)
  PROVE  TypeOK'
<1>c. cmd[e] \in CmdRec
  BY DEF TypeOK
<1>1. CASE Mark(e)
  <2>1. Marked(e) \in [Env -> RowRec]
    BY DEF Marked, TypeOK, RowRec, Statuses
  <2>2. [cmd[e] EXCEPT !.pc = "unpublish", !.known = recorded[e]] \in CmdRec
    BY <1>c DEF TypeOK, CmdRec, Pcs
  <2>3. cmd' \in [Env -> CmdRec]
    BY <1>1, <2>2, SetType, ReturnType DEF Mark
  <2>4. faults' \in 0..MaxFaults
    BY <1>1, FaultType DEF Mark, FaultKinds
  <2> QED
    BY <1>1, <2>1, <2>3, <2>4 DEF Mark, TypeOK
<1>2. CASE Unpublish(e)
  <2>1. cmd' \in [Env -> CmdRec]
    BY <1>2, StepType DEF Unpublish, Pcs
  <2>2. faults' \in 0..MaxFaults
    BY <1>2, FaultType DEF Unpublish, FaultKinds
  <2> QED
    BY <1>2, <2>1, <2>2 DEF Unpublish, TypeOK, store
<1>3. CASE DropRoutes(e)
  <2>1. cmd' \in [Env -> CmdRec]
    BY <1>3, StepType DEF DropRoutes, Pcs
  <2>2. faults' \in 0..MaxFaults
    BY <1>3, FaultType DEF DropRoutes, FaultKinds
  <2>3. routes' \in Table
    BY <1>3 DEF DropRoutes, TypeOK, Table
  <2> QED
    BY <1>3, <2>1, <2>2, <2>3 DEF DropRoutes, TypeOK
<1>4. CASE List(e)
  <2>1. ASSUME NEW L \in SUBSET (Things \ {"branch", "worktree"})
        PROVE  /\ [cmd[e] EXCEPT !.pc = "containers", !.left = L] \in CmdRec
               /\ [cmd[e] EXCEPT !.pc = "containers", !.left = L, !.failed = TRUE] \in CmdRec
    <3>1. "containers" \in Pcs
      BY DEF Pcs
    <3> QED
      BY <1>c, <2>1, <3>1, LeftType
  <2>2. cmd[e].known \subseteq Things
    BY <1>c DEF CmdRec
  <2>3. Implied(e) \subseteq Things \ {"branch", "worktree"}
    BY DEF Implied, Things, Containers, Volumes
  <2>4. Labelled(e) \subseteq Things \ {"branch", "worktree"}
    BY DEF Labelled, Things, Containers, Volumes
  <2>5. "network" \in Things \ {"branch", "worktree"}
    BY DEF Things
  <2>6. /\ Leftovers(e, Labelled(e)) \subseteq Things \ {"branch", "worktree"}
        /\ Leftovers(e, {}) \subseteq Things \ {"branch", "worktree"}
    BY <2>2, <2>3, <2>4, <2>5 DEF Leftovers
  <2>7. cmd' \in [Env -> CmdRec]
    BY <1>4, <2>1, <2>6, SetType DEF List
  <2>8. faults' \in 0..MaxFaults
    BY <1>4, FaultType DEF List, FaultKinds
  <2> QED
    BY <1>4, <2>7, <2>8 DEF List, TypeOK, store
<1>5. CASE RemoveContainers(e) \/ RemoveVolumes(e) \/ RemoveNetworks(e)
  BY <1>5, RemoveType DEF RemoveContainers, RemoveVolumes, RemoveNetworks, Pcs
<1>6. CASE RemoveTree(e)
  <2>1. cmd' \in [Env -> CmdRec]
    BY <1>6, StepType DEF RemoveTree, Pcs
  <2>2. faults' \in 0..MaxFaults
    BY <1>6, FaultType DEF RemoveTree, FaultKinds
  <2>3. world' \in [Env -> SUBSET Things]
    <3>1. \E S \in SUBSET world[e] : world' = [world EXCEPT ![e] = S]
      BY <1>6 DEF RemoveTree
    <3> QED
      BY <3>1 DEF TypeOK
  <2> QED
    BY <1>6, <2>1, <2>2, <2>3 DEF RemoveTree, TypeOK, store
<1>7. CASE Forget(e)
  <2>1. [Idle EXCEPT !.pc = "plan", !.then = "plan"] \in CmdRec
    BY IdleType DEF CmdRec, Pcs
  <2>2. cmd' \in [Env -> CmdRec]
    BY <1>7, <2>1, IdleType, SetType, ReturnType DEF Forget
  <2>3. faults' \in 0..MaxFaults
    BY <1>7, FaultType DEF Forget, FaultKinds
  <2>4. NoRow \in RowRec
    BY DEF NoRow, RowRec, Statuses
  <2>5. rows' \in [Env -> RowRec] /\ recorded' \in [Env -> SUBSET Things]
    BY <1>7, <2>4 DEF Forget, TypeOK
  <2>6. routes' \in Table
    BY <1>7 DEF Forget, TypeOK, Table
  <2> QED
    BY <1>7, <2>2, <2>3, <2>5, <2>6 DEF Forget, TypeOK
<1> QED
  BY <1>1, <1>2, <1>3, <1>4, <1>5, <1>6, <1>7 DEF Destroy

LEMMA DaemonType ==
  ASSUME TypeOK, Crash \/ Restart
  PROVE  TypeOK'
<1>1. CASE Crash
  <2>1. NoTable \in Table
    BY DEF NoTable, Table
  <2>2. cmd' \in [Env -> CmdRec]
    BY <1>1, IdleType DEF Crash
  <2>3. Underway \subseteq Table
    BY DEF Underway, TypeOK, CmdRec
  <2>4. faults' \in 0..MaxFaults
    BY <1>1, FaultType DEF Crash, FaultKinds
  <2> QED
    BY <1>1, <2>1, <2>2, <2>3, <2>4 DEF Crash, TypeOK, store
<1>2. CASE Restart
  <2>1. edge' \in Table /\ faults' \in 0..MaxFaults
    BY <1>2, FaultType DEF Restart, Sent, TypeOK, FaultKinds
  <2>2. device' \subseteq Addr \X Env
    BY <1>2 DEF Restart
  <2> QED
    BY <1>2, <2>1, <2>2 DEF Restart, TypeOK, store
<1> QED
  BY <1>1, <1>2

LEMMA InitType == Init => TypeOK
<1> SUFFICES ASSUME Init PROVE TypeOK
  OBVIOUS
<1> USE EnvLifeAssumption
<1>1. NoTable \in Table
  BY DEF NoTable, Table
<1>2. NoRow \in RowRec
  BY DEF NoRow, RowRec, Statuses
<1>3. PICK old \in SUBSET DOMAIN Legacy :
        /\ rows = [e \in Env |-> IF e \in old
                                 THEN [status |-> "ready", base |-> Legacy[e], count |-> 1, ip |-> 0]
                                 ELSE NoRow]
        /\ recorded = [e \in Env |-> IF e \in old THEN Things \ {"service"} ELSE {}]
        /\ world = [e \in Env |-> IF e \in old THEN Things ELSE {}]
        /\ config = old
        /\ routes \in [Host -> {None} \cup (IF Services THEN old ELSE {})]
  BY DEF Init
<1>4. rows \in [Env -> RowRec]
  <2>1. \A e \in old : [status |-> "ready", base |-> Legacy[e], count |-> 1, ip |-> 0] \in RowRec
    BY DEF RowRec, Statuses
  <2> QED
    BY <1>2, <1>3, <2>1
<1>5. recorded \in [Env -> SUBSET Things] /\ world \in [Env -> SUBSET Things] /\ config \subseteq Env
  BY <1>3
<1>6. routes \in Table /\ edge \in Table
  <2>1. routes \in Table
    BY <1>3 DEF Table
  <2> QED
    BY <2>1 DEF Init
<1>7. cmd \in [Env -> CmdRec]
  BY IdleType DEF Init
<1> QED
  BY <1>1, <1>4, <1>5, <1>6, <1>7 DEF Init, TypeOK

LEMMA NextType == TypeOK /\ [Next]_vars => TypeOK'
<1> SUFFICES ASSUME TypeOK, [Next]_vars PROVE TypeOK'
  OBVIOUS
<1>1. ASSUME NEW e \in Env, Run(e)
      PROVE  TypeOK'
  BY <1>1, RowStepsType, MakeStepsType, DestroyType, PushType DEF Run, Create
<1>2. CASE UNCHANGED vars
  BY <1>2 DEF vars, TypeOK
<1> QED
  BY <1>1, <1>2, CommandType, KeeperType, DaemonType DEF Next

\* Every variable keeps its type, whatever the constants are.
THEOREM TypeCorrect == Spec => []TypeOK
<1>1. Init => TypeOK
  BY InitType
<1>2. TypeOK /\ [Next]_vars => TypeOK'
  BY NextType
<1> QED
  BY <1>1, <1>2, PTL DEF Spec

-----------------------------------------------------------------------------
(* The blocks. *)

\* Whole blocks with different bases do not meet.
LEMMA WholeBlocks ==
  ASSUME NEW b \in Bases, NEW c \in Bases, b # c
  PROVE  ~Overlaps(b, BlockSize, c, BlockSize)
BY EnvLifeAssumption DEF Bases, BlockSize, Overlaps

LEMMA OverlapsSymmetric ==
  ASSUME NEW b, NEW m, NEW c, NEW n
  PROVE  Overlaps(b, m, c, n) <=> Overlaps(c, n, b, m)
BY DEF Overlaps

\* No row appears and none changes what it holds.
RowsKeep ==
    \A f \in Env : Exists(f)' =>
        /\ Exists(f)
        /\ rows'[f].base = rows[f].base
        /\ rows'[f].count = rows[f].count
        /\ rows'[f].ip = rows[f].ip

\* No command has a new choice.
ChoicesKeep == \A f \in Env : cmd'[f].pc \in {"address", "insert"} => cmd'[f] = cmd[f]

LEMMA KeepBlocks ==
  ASSUME BlocksInv, TypeOK', HasRow', RowsKeep, ChoicesKeep
  PROVE  BlocksInv'
<1>1. RowsWhole'
  BY DEF BlocksInv, RowsKeep, RowsWhole
<1>2. ChoiceClear'
  BY DEF BlocksInv, RowsKeep, ChoicesKeep, ChoiceClear
<1>3. BlocksDisjoint'
  BY DEF BlocksInv, RowsKeep, BlocksDisjoint
<1> QED
  BY <1>1, <1>2, <1>3 DEF BlocksInv

\* The command of e goes to one of the steps S, the others stay where they are.
Moves(e, S) == cmd'[e].pc \in S /\ \A f \in Env \ {e} : cmd'[f] = cmd[f]

LEMMA SetMoves ==
  ASSUME TypeOK, NEW e \in Env, NEW c, Set(e, c), NEW S, c.pc \in S
  PROVE  Moves(e, S)
BY DEF TypeOK, Set, Moves

LEMMA GotoMoves ==
  ASSUME TypeOK, NEW e \in Env, NEW S, NEW step \in S, Goto(e, step)
  PROVE  Moves(e, S)
<1>1. [cmd[e] EXCEPT !.pc = step].pc = step
  BY DEF TypeOK, CmdRec
<1> QED
  BY <1>1, SetMoves DEF Goto

LEMMA StepMoves ==
  ASSUME TypeOK, NEW e \in Env, NEW S, NEW step \in S, NEW failed, Step(e, step, failed)
  PROVE  Moves(e, S)
<1>1. [cmd[e] EXCEPT !.pc = step, !.failed = @ \/ failed].pc = step
  BY DEF TypeOK, CmdRec
<1> QED
  BY <1>1, SetMoves DEF Step

LEMMA ReturnMoves ==
  ASSUME TypeOK, NEW e \in Env, NEW S, "idle" \in S, Return(e)
  PROVE  Moves(e, S)
<1>1. Idle.pc = "idle"
  BY DEF Idle
<1> QED
  BY <1>1, SetMoves DEF Return

\* Where a step leads that writes no row and makes no choice.
Elsewhere == {"idle", "plan", "ports", "unpublish", "routes", "pushRead", "pushSend", "list",
              "containers", "volumes", "networks", "removeTree", "forget"}

LEMMA CommandMoves ==
  ASSUME TypeOK, NEW e \in Env, Command(e)
  PROVE  /\ UNCHANGED rows
         /\ Moves(e, Elsewhere) \/ (Exists(e) /\ Moves(e, {"mark"}))
<1>1. UNCHANGED rows
  BY DEF Command, BeginCreate, BeginDestroy, BeginExpose, BeginUnexpose, store
<1>2. CASE BeginCreate(e)
  <2> DEFINE c == [Idle EXCEPT !.pc = IF Exists(e) THEN "mark" ELSE "plan",
                               !.then = IF Exists(e) THEN "plan" ELSE "idle"]
  <2>1. c.pc = IF Exists(e) THEN "mark" ELSE "plan"
    BY DEF Idle
  <2>2. Set(e, c)
    BY <1>2 DEF BeginCreate
  <2> HIDE DEF c
  <2> QED
    BY <1>1, <2>1, <2>2, SetMoves DEF Elsewhere
<1>3. ASSUME NEW branch \in BOOLEAN, BeginDestroy(e, branch)
      PROVE  Moves(e, Elsewhere) \/ (Exists(e) /\ Moves(e, {"mark"}))
  <2> DEFINE c == [Idle EXCEPT !.pc = IF Exists(e) THEN "mark" ELSE "list", !.branch = branch]
  <2>1. c.pc = IF Exists(e) THEN "mark" ELSE "list"
    BY DEF Idle
  <2>2. Set(e, c)
    BY <1>3 DEF BeginDestroy
  <2> HIDE DEF c
  <2> QED
    BY <2>1, <2>2, SetMoves DEF Elsewhere
<1>4. ASSUME ThenPush(e)
      PROVE  Moves(e, Elsewhere)
  <2> DEFINE c == [Idle EXCEPT !.pc = "pushRead", !.then = "expose"]
  <2>1. c.pc = "pushRead"
    BY DEF Idle
  <2>2. Set(e, c) \/ Return(e)
    BY <1>4 DEF ThenPush
  <2> HIDE DEF c
  <2> QED
    BY <2>1, <2>2, SetMoves, ReturnMoves DEF Elsewhere
<1> QED
  BY <1>1, <1>2, <1>3, <1>4 DEF Command, BeginExpose, BeginUnexpose

LEMMA MakeMoves ==
  ASSUME TypeOK, NEW e \in Env,
         \/ ResetBranch(e) \/ MakeBranch(e) \/ MakeWorktree(e) \/ SaveConfig(e)
         \/ MakeNetwork(e) \/ MakeCache(e) \/ Deps(e) \/ MakeVolume(e) \/ MakeDep(e)
         \/ WaitReady(e) \/ Publish(e)
  PROVE  UNCHANGED rows /\ cmd[e].pc \in RowPcs /\ Moves(e, RowPcs)
<1>1. ASSUME NEW step \in RowPcs, NEW next \in RowPcs, NEW thing, NEW kind, Make(e, step, thing, kind, next)
      PROVE  UNCHANGED rows /\ cmd[e].pc \in RowPcs /\ Moves(e, RowPcs)
  BY <1>1, GotoMoves DEF Make, At, RowPcs
<1>2. CASE MakeBranch(e) \/ MakeWorktree(e) \/ MakeNetwork(e) \/ MakeCache(e) \/ MakeVolume(e)
           \/ MakeDep(e)
  BY <1>1, <1>2 DEF MakeBranch, MakeWorktree, MakeNetwork, MakeCache, MakeVolume, MakeDep, RowPcs
<1> QED
  BY <1>2, GotoMoves DEF ResetBranch, SaveConfig, Deps, WaitReady, Publish, At, RowPcs, store

\* Ready, Fail and Mark change a status and nothing else of the row.
LEMMA StatusMoves ==
  ASSUME TypeOK, NEW e \in Env, Ready(e) \/ Fail(e) \/ Mark(e)
  PROVE  /\ cmd[e].pc \in RowPcs
         /\ \/ UNCHANGED rows
            \/ \E st \in Statuses \ {"none"} : rows' = [rows EXCEPT ![e].status = st]
         /\ Moves(e, Elsewhere \cup {"fail"})
<1>1. cmd[e].pc \in RowPcs
  BY DEF Ready, Fail, Mark, At, RowPcs
<1>2. \/ UNCHANGED rows
      \/ \E st \in Statuses \ {"none"} : rows' = [rows EXCEPT ![e].status = st]
  BY DEF Ready, Fail, Mark, Marked, Statuses
<1> DEFINE c == [cmd[e] EXCEPT !.pc = "unpublish", !.known = recorded[e]]
<1>3. c.pc = "unpublish"
  BY DEF TypeOK, CmdRec
<1>4. Moves(e, Elsewhere \cup {"fail"})
  <2>1. Set(e, c) \/ Goto(e, "fail") \/ Return(e)
    BY DEF Ready, Fail, Mark
  <2> HIDE DEF c
  <2> QED
    BY <1>3, <2>1, SetMoves, GotoMoves, ReturnMoves DEF Elsewhere
<1> QED
  BY <1>1, <1>2, <1>4

LEMMA DestroyMoves ==
  ASSUME TypeOK, NEW e \in Env,
         \/ Unpublish(e) \/ DropRoutes(e) \/ List(e) \/ RemoveContainers(e) \/ RemoveVolumes(e)
         \/ RemoveNetworks(e) \/ RemoveTree(e) \/ PushRead(e) \/ PushSend(e)
  PROVE  UNCHANGED rows /\ Moves(e, Elsewhere)
<1>1. CASE Unpublish(e) \/ DropRoutes(e) \/ RemoveTree(e)
  BY <1>1, StepMoves DEF Unpublish, DropRoutes, RemoveTree, Elsewhere, store
<1>2. CASE RemoveContainers(e) \/ RemoveVolumes(e) \/ RemoveNetworks(e)
  BY <1>2, StepMoves DEF RemoveContainers, RemoveVolumes, RemoveNetworks, RemoveAll, Elsewhere, store
<1>3. CASE List(e)
  <2> DEFINE c == [cmd[e] EXCEPT !.pc = "containers", !.left = Leftovers(e, Labelled(e))]
             d == [cmd[e] EXCEPT !.pc = "containers", !.left = Leftovers(e, {}), !.failed = TRUE]
  <2>1. c.pc = "containers" /\ d.pc = "containers"
    BY DEF TypeOK, CmdRec
  <2>2. UNCHANGED rows /\ (Set(e, c) \/ Set(e, d))
    BY <1>3 DEF List, store
  <2> HIDE DEF c, d
  <2> QED
    BY <2>1, <2>2, SetMoves DEF Elsewhere
<1>4. CASE PushRead(e)
  <2> DEFINE c == [cmd[e] EXCEPT !.pc = "pushSend", !.table = routes]
  <2>1. c.pc = "pushSend"
    BY DEF TypeOK, CmdRec
  <2>2. UNCHANGED rows /\ Set(e, c)
    BY <1>4 DEF PushRead, store
  <2> HIDE DEF c
  <2> QED
    BY <2>1, <2>2, SetMoves DEF Elsewhere
<1>5. CASE PushSend(e)
  <2> DEFINE c(sent) == [cmd[e] EXCEPT !.pc = "list", !.failed = @ \/ ~sent, !.table = NoTable]
  <2>1. Idle.pc = "idle" /\ \A sent \in BOOLEAN : c(sent).pc = "list"
    BY DEF TypeOK, CmdRec, Idle
  <2>2. UNCHANGED rows /\ \E sent \in BOOLEAN : Set(e, Idle) \/ Set(e, c(sent))
    BY <1>5 DEF PushSend, store
  <2> HIDE DEF c
  <2> QED
    BY <2>1, <2>2, SetMoves DEF Elsewhere
<1> QED
  BY <1>1, <1>2, <1>3, <1>4, <1>5

LEMMA ForgetMoves ==
  ASSUME TypeOK, NEW e \in Env, Forget(e)
  PROVE  /\ UNCHANGED rows \/ rows' = [rows EXCEPT ![e] = NoRow]
         /\ Moves(e, Elsewhere)
<1> DEFINE c == [Idle EXCEPT !.pc = "plan", !.then = "plan"]
<1>1. Idle.pc = "idle" /\ c.pc = "plan"
  BY DEF Idle
<1>2. /\ UNCHANGED rows \/ rows' = [rows EXCEPT ![e] = NoRow]
      /\ Set(e, Idle) \/ Set(e, c) \/ Return(e)
  BY DEF Forget
<1> HIDE DEF c
<1> QED
  BY <1>1, <1>2, SetMoves, ReturnMoves DEF Elsewhere

\* A step of e that leaves the rows alone and chooses nothing.
LEMMA QuietBlocks ==
  ASSUME BlocksInv, TypeOK', NEW e \in Env, UNCHANGED rows,
         \/ Moves(e, Elsewhere)
         \/ Exists(e) /\ Moves(e, RowPcs)
  PROVE  BlocksInv'
<1>1. RowsKeep
  BY DEF RowsKeep, Exists
<1>2. ChoicesKeep
  BY DEF Moves, ChoicesKeep, Elsewhere, RowPcs
<1>3. HasRow'
  BY DEF Moves, HasRow, Exists, BlocksInv, Elsewhere, RowPcs
<1> QED
  BY <1>1, <1>2, <1>3, KeepBlocks

\* A row that changes its status only, or goes, disturbs no block.
LEMMA WrittenBlocks ==
  ASSUME BlocksInv, TypeOK', NEW e \in Env,
         \/ /\ Exists(e)
            /\ \E st \in Statuses \ {"none"} : rows' = [rows EXCEPT ![e].status = st]
            /\ Moves(e, Elsewhere \cup {"fail"})
         \/ rows' = [rows EXCEPT ![e] = NoRow] /\ Moves(e, Elsewhere)
  PROVE  BlocksInv'
<1>t. rows \in [Env -> RowRec]
  BY DEF BlocksInv, TypeOK
<1>1. \A f \in Env \ {e} : rows'[f] = rows[f]
  BY <1>t
<1>2. CASE /\ Exists(e)
           /\ \E st \in Statuses \ {"none"} : rows' = [rows EXCEPT ![e].status = st]
           /\ Moves(e, Elsewhere \cup {"fail"})
  <2>1. /\ rows'[e].status # "none"
        /\ rows'[e].base = rows[e].base /\ rows'[e].count = rows[e].count /\ rows'[e].ip = rows[e].ip
    BY <1>2, <1>t DEF RowRec
  <2>2. RowsKeep
    BY <1>1, <1>2, <2>1 DEF RowsKeep, Exists
  <2>3. ChoicesKeep
    BY <1>2 DEF Moves, ChoicesKeep, Elsewhere
  <2>4. HasRow'
    BY <1>1, <1>2, <2>1 DEF Moves, HasRow, Exists, BlocksInv
  <2> QED
    BY <2>2, <2>3, <2>4, KeepBlocks
<1>3. CASE rows' = [rows EXCEPT ![e] = NoRow] /\ Moves(e, Elsewhere)
  <2>1. rows'[e].status = "none"
    BY <1>3, <1>t DEF NoRow
  <2>2. RowsKeep
    BY <1>1, <2>1 DEF RowsKeep, Exists
  <2>3. ChoicesKeep
    BY <1>3 DEF Moves, ChoicesKeep, Elsewhere
  <2>4. HasRow'
    BY <1>1, <1>3 DEF Moves, HasRow, Exists, BlocksInv, Elsewhere, RowPcs
  <2> QED
    BY <2>2, <2>3, <2>4, KeepBlocks
<1> QED
  BY <1>2, <1>3

\* AllocatePorts looks at every row, half blocks too.
LEMMA PortsBlocks ==
  ASSUME BlocksInv, TypeOK', NEW e \in Env, AllocatePorts(e)
  PROVE  BlocksInv'
<1>0. UNCHANGED rows
  BY DEF AllocatePorts, store
<1>1. CASE Return(e)
  <2>1. Moves(e, Elsewhere)
    BY <1>1, ReturnMoves DEF BlocksInv, Elsewhere
  <2> QED
    BY <1>0, <2>1, QuietBlocks
<1>2. ASSUME NEW b \in FirstBase, Set(e, [cmd[e] EXCEPT !.pc = "address", !.base = b])
      PROVE  BlocksInv'
  <2>1. /\ cmd'[e].pc = "address" /\ cmd'[e].base = b
        /\ \A f \in Env \ {e} : cmd'[f] = cmd[f]
    BY <1>2 DEF Set, BlocksInv, TypeOK, CmdRec
  <2>2. /\ b \in Bases
        /\ \A f \in Env : Exists(f) => ~Overlaps(rows[f].base, rows[f].count, b, BlockSize)
    BY <1>2 DEF FirstBase, FreeBases
  <2>3. ChoiceClear'
    BY <1>0, <2>1, <2>2 DEF ChoiceClear, BlocksInv, Exists
  <2>4. HasRow'
    BY <1>0, <2>1 DEF HasRow, BlocksInv, Exists, RowPcs
  <2> QED
    BY <1>0, <2>3, <2>4 DEF BlocksInv, RowsWhole, BlocksDisjoint, Exists
<1> QED
  BY <1>1, <1>2 DEF AllocatePorts

LEMMA AddressBlocks ==
  ASSUME BlocksInv, TypeOK', NEW e \in Env, AllocateAddress(e)
  PROVE  BlocksInv'
<1>0. UNCHANGED rows /\ cmd[e].pc = "address"
  BY DEF AllocateAddress, store, At
<1>1. CASE Return(e)
  <2>1. Moves(e, Elsewhere)
    BY <1>1, ReturnMoves DEF BlocksInv, Elsewhere
  <2> QED
    BY <1>0, <2>1, QuietBlocks
<1>2. ASSUME NEW a \in FirstAddr, Set(e, [cmd[e] EXCEPT !.pc = "insert", !.ip = a])
      PROVE  BlocksInv'
  <2>1. /\ cmd'[e].pc = "insert" /\ cmd'[e].base = cmd[e].base /\ cmd'[e].ip = a
        /\ \A f \in Env \ {e} : cmd'[f] = cmd[f]
    BY <1>2 DEF Set, BlocksInv, TypeOK, CmdRec
  <2>2. a \in Addr
    BY DEF FirstAddr, FreeAddrs
  <2>3. ChoiceClear'
    BY <1>0, <2>1, <2>2 DEF ChoiceClear, BlocksInv, Exists
  <2>4. HasRow'
    BY <1>0, <2>1 DEF HasRow, BlocksInv, Exists, RowPcs
  <2> QED
    BY <1>0, <2>3, <2>4 DEF BlocksInv, RowsWhole, BlocksDisjoint, Exists
<1> QED
  BY <1>1, <1>2 DEF AllocateAddress

\* The row is written with a choice made from rows that have changed since.
\* Against a half block the choice itself still holds; against a whole block
\* the indexes decide.
LEMMA InsertBlocks ==
  ASSUME BlocksInv, TypeOK', NEW e \in Env, At(e, "insert"), ~Taken(e),
         rows' = [rows EXCEPT ![e] = [status |-> "creating", base |-> cmd[e].base,
                                      count |-> BlockSize, ip |-> cmd[e].ip]],
         Moves(e, RowPcs)
  PROVE  BlocksInv'
<1>t. rows \in [Env -> RowRec]
  BY DEF BlocksInv, TypeOK
<1>1. /\ rows'[e].status = "creating" /\ rows'[e].base = cmd[e].base
      /\ rows'[e].count = BlockSize /\ rows'[e].ip = cmd[e].ip
      /\ \A f \in Env \ {e} : rows'[f] = rows[f]
  BY <1>t
<1>2. /\ cmd[e].base \in Bases /\ cmd[e].ip \in Addr
      /\ \A f \in Env : Exists(f) /\ rows[f].count = 1
                          => ~Overlaps(rows[f].base, 1, cmd[e].base, BlockSize)
  BY DEF BlocksInv, ChoiceClear, At
<1>3. ASSUME NEW f \in Env \ {e}, Exists(f)
      PROVE  /\ ~Overlaps(rows[f].base, rows[f].count, cmd[e].base, BlockSize)
             /\ rows[f].ip # cmd[e].ip
  <2>1. rows[f].ip # cmd[e].ip /\ rows[f].base # cmd[e].base
    BY <1>3 DEF Taken
  <2>2. CASE rows[f].count = 1
    BY <1>2, <1>3, <2>1, <2>2
  <2>3. CASE rows[f].count = BlockSize
    <3>1. rows[f].base \in Bases
      BY <1>3, <2>3 DEF BlocksInv, RowsWhole
    <3> QED
      BY <1>2, <2>1, <2>3, <3>1, WholeBlocks
  <2> QED
    BY <1>3, <2>2, <2>3 DEF BlocksInv, RowsWhole
<1>4. RowsWhole'
  BY <1>1, <1>2 DEF RowsWhole, Exists, BlocksInv
<1>5. HasRow'
  BY <1>1 DEF HasRow, Exists, BlocksInv, Moves
<1>6. ChoiceClear'
  <2>1. BlockSize # 1
    BY DEF BlockSize
  <2> QED
    BY <1>1, <2>1 DEF ChoiceClear, Exists, BlocksInv, Moves, RowPcs
<1>7. BlocksDisjoint'
  <2> SUFFICES ASSUME NEW f \in Env, NEW g \in Env, f # g, Exists(f)', Exists(g)'
               PROVE  /\ ~Overlaps(rows'[f].base, rows'[f].count, rows'[g].base, rows'[g].count)
                      /\ rows'[f].ip # 0 => rows'[f].ip # rows'[g].ip
    BY DEF BlocksDisjoint
  <2>1. CASE f # e /\ g # e
    BY <1>1, <2>1 DEF BlocksInv, BlocksDisjoint, Exists
  <2>2. CASE f = e
    <3>1. Exists(g) /\ g \in Env \ {e}
      BY <1>1, <2>2 DEF Exists
    <3> QED
      BY <1>1, <1>3, <2>2, <3>1, OverlapsSymmetric
  <2>3. CASE g = e
    <3>1. Exists(f) /\ f \in Env \ {e}
      BY <1>1, <2>3 DEF Exists
    <3> QED
      BY <1>1, <1>3, <2>3, <3>1
  <2> QED
    BY <2>1, <2>2, <2>3
<1> QED
  BY <1>4, <1>5, <1>6, <1>7 DEF BlocksInv

LEMMA CreateRowBlocks ==
  ASSUME BlocksInv, TypeOK', NEW e \in Env, CreateRow(e)
  PROVE  BlocksInv'
<1>t. TypeOK /\ cmd[e] \in CmdRec
  BY DEF BlocksInv, TypeOK
<1> DEFINE c == [cmd[e] EXCEPT !.pc = "ports", !.tries = @ + 1]
<1>1. c.pc = "ports" /\ Idle.pc = "idle"
  BY <1>t DEF CmdRec, Idle
<1>2. CASE /\ ~Taken(e)
           /\ rows' = [rows EXCEPT ![e] = [status |-> "creating", base |-> cmd[e].base,
                                           count |-> BlockSize, ip |-> cmd[e].ip]]
           /\ Goto(e, FirstOf[cmd[e].make])
  <2>1. FirstOf[cmd[e].make] \in RowPcs
    BY <1>t DEF CmdRec, FirstOf, RowPcs
  <2>2. Moves(e, RowPcs)
    BY <1>2, <1>t, <2>1, GotoMoves
  <2>3. At(e, "insert")
    BY DEF CreateRow
  <2> QED
    BY <1>2, <2>2, <2>3, InsertBlocks
<1>3. CASE UNCHANGED rows /\ (Set(e, c) \/ Set(e, Idle))
  <2> HIDE DEF c
  <2>1. Moves(e, Elsewhere)
    BY <1>1, <1>3, <1>t, SetMoves DEF Elsewhere
  <2> QED
    BY <1>3, <2>1, QuietBlocks
<1> QED
  BY <1>2, <1>3 DEF CreateRow, Return

LEMMA InitBlocks == Init => BlocksInv
<1> SUFFICES ASSUME Init PROVE BlocksInv
  OBVIOUS
<1>1. TypeOK
  BY InitType
<1>2. \A e \in Env : Exists(e) =>
          /\ e \in DOMAIN Legacy
          /\ rows[e].base = Legacy[e] /\ rows[e].count = 1 /\ rows[e].ip = 0
  BY DEF Init, Exists, NoRow
<1>3. \A e \in Env : cmd[e].pc = "idle"
  BY DEF Init, Idle
<1>4. RowsWhole
  BY <1>2 DEF RowsWhole, BlockSize
<1>5. ChoiceClear /\ HasRow
  BY <1>3 DEF ChoiceClear, HasRow, RowPcs
<1>6. BlocksDisjoint
  <2> SUFFICES ASSUME NEW e \in Env, NEW f \in Env, e # f, Exists(e), Exists(f)
               PROVE  ~Overlaps(rows[e].base, rows[e].count, rows[f].base, rows[f].count)
    BY <1>2 DEF BlocksDisjoint
  <2>1. Legacy[e] \in Nat /\ Legacy[f] \in Nat /\ Legacy[e] # Legacy[f]
    BY <1>2, EnvLifeAssumption
  <2> QED
    BY <1>2, <2>1 DEF Overlaps
<1> QED
  BY <1>1, <1>4, <1>5, <1>6 DEF BlocksInv

LEMMA NextBlocks == BlocksInv /\ [Next]_vars => BlocksInv'
<1> SUFFICES ASSUME BlocksInv, [Next]_vars PROVE BlocksInv'
  OBVIOUS
<1>t. TypeOK /\ TypeOK'
  BY NextType DEF BlocksInv
<1>h. \A e \in Env : cmd[e].pc \in RowPcs => Exists(e)
  BY DEF BlocksInv, HasRow
<1>1. ASSUME NEW e \in Env, Command(e)
      PROVE  BlocksInv'
  <2>1. "mark" \in RowPcs
    BY DEF RowPcs
  <2>2. Moves(e, {"mark"}) => Moves(e, RowPcs)
    BY <2>1 DEF Moves
  <2> QED
    BY <1>1, <1>t, <2>2, CommandMoves, QuietBlocks
<1>2. ASSUME NEW e \in Env, NEW from \in BOOLEAN, NEW reset \in BOOLEAN, Plan(e, from, reset)
      PROVE  BlocksInv'
  <2> DEFINE c(make) == [Idle EXCEPT !.pc = "ports", !.make = make]
  <2>1. \A make : c(make).pc = "ports"
    BY DEF Idle
  <2>2. UNCHANGED rows /\ (Return(e) \/ \E make : Set(e, c(make)))
    BY <1>2 DEF Plan, store
  <2> HIDE DEF c
  <2>3. Moves(e, Elsewhere)
    BY <1>t, <2>1, <2>2, SetMoves, ReturnMoves DEF Elsewhere
  <2> QED
    BY <1>t, <2>2, <2>3, QuietBlocks
<1>3. ASSUME NEW e \in Env, Create(e)
      PROVE  BlocksInv'
  <2>1. CASE Ready(e) \/ Fail(e)
    <3>1. /\ Exists(e)
          /\ \/ UNCHANGED rows
             \/ \E st \in Statuses \ {"none"} : rows' = [rows EXCEPT ![e].status = st]
          /\ Moves(e, Elsewhere \cup {"fail"})
      BY <1>t, <1>h, <2>1, StatusMoves
    <3>2. Moves(e, Elsewhere) \/ Moves(e, RowPcs)
      BY <3>1 DEF Moves, RowPcs
    <3> QED
      BY <1>t, <3>1, <3>2, QuietBlocks, WrittenBlocks
  <2>2. CASE ResetBranch(e) \/ MakeBranch(e) \/ MakeWorktree(e) \/ SaveConfig(e)
             \/ MakeNetwork(e) \/ MakeCache(e) \/ Deps(e) \/ MakeVolume(e) \/ MakeDep(e)
             \/ WaitReady(e) \/ Publish(e)
    BY <1>t, <1>h, <2>2, MakeMoves, QuietBlocks
  <2> QED
    BY <1>2, <1>3, <1>t, <2>1, <2>2, PortsBlocks, AddressBlocks, CreateRowBlocks DEF Create
<1>4. ASSUME NEW e \in Env, Destroy(e) \/ PushRead(e) \/ PushSend(e)
      PROVE  BlocksInv'
  <2>1. CASE Mark(e)
    <3>1. /\ Exists(e)
          /\ \/ UNCHANGED rows
             \/ \E st \in Statuses \ {"none"} : rows' = [rows EXCEPT ![e].status = st]
          /\ Moves(e, Elsewhere \cup {"fail"})
      BY <1>t, <1>h, <2>1, StatusMoves
    <3>2. Moves(e, Elsewhere) \/ Moves(e, RowPcs)
      BY <3>1 DEF Moves, RowPcs
    <3> QED
      BY <1>t, <3>1, <3>2, QuietBlocks, WrittenBlocks
  <2>2. CASE Forget(e)
    BY <1>t, <2>2, ForgetMoves, QuietBlocks, WrittenBlocks
  <2> QED
    BY <1>4, <1>t, <2>1, <2>2, DestroyMoves, QuietBlocks DEF Destroy
<1>5. ASSUME UNCHANGED rows, ChoicesKeep, HasRow'
      PROVE  BlocksInv'
  <2>1. RowsKeep
    BY <1>5 DEF RowsKeep, Exists
  <2> QED
    BY <1>5, <1>t, <2>1, KeepBlocks
<1>6. CASE KeeperRead \/ KeeperSend \/ Restart \/ UNCHANGED vars
  <2>1. UNCHANGED <<rows, cmd>>
    BY <1>6 DEF KeeperRead, KeeperSend, Restart, store, vars
  <2> QED
    BY <1>5, <2>1 DEF ChoicesKeep, HasRow, Exists, BlocksInv
<1>7. CASE Crash
  <2>1. UNCHANGED rows /\ \A e \in Env : cmd'[e].pc = "idle"
    BY <1>7 DEF Crash, store, Idle
  <2> QED
    BY <1>5, <2>1 DEF ChoicesKeep, HasRow, RowPcs
<1> QED
  BY <1>1, <1>3, <1>4, <1>6, <1>7 DEF Next, Run

\* No two environments share a port or an address: however many creates run
\* at once, whichever half blocks older versions left, whatever fails and
\* whenever the daemon dies.
THEOREM BlocksNeverShared == Spec => []BlocksDisjoint
<1>1. Init => BlocksInv
  BY InitBlocks
<1>2. BlocksInv /\ [Next]_vars => BlocksInv'
  BY NextBlocks
<1>3. BlocksInv => BlocksDisjoint
  BY DEF BlocksInv
<1> QED
  BY <1>1, <1>2, <1>3, PTL DEF Spec

-----------------------------------------------------------------------------
(* How far a command has come. *)

ChoosePcs == {"plan", "ports", "address", "insert"}
ReadyPcs == {"deps", "volume", "container", "waitReady", "publish", "ready"}
CachePcs == {"cache"} \cup ReadyPcs
ConfigPcs == {"network"} \cup CachePcs
TreePcs == {"config"} \cup ConfigPcs
BranchPcs == {"worktree"} \cup TreePcs
BuildPcs == {"reset", "branch", "fail"} \cup BranchPcs

RemovePcs == {"containers", "volumes", "networks", "removeTree", "forget"}
LatePcs == {"list"} \cup RemovePcs
PushPcs == {"pushRead", "pushSend"}

\* A push that is part of a destroy, not of expose or unexpose.
OwnPush(e) == cmd[e].pc \in PushPcs /\ cmd[e].then # "expose"

-----------------------------------------------------------------------------
(* A ready environment is complete. *)

\* The status tells what the command is doing, and what a create has made by
\* now is there.
Built(e) ==
    /\ cmd[e].pc \in ChoosePcs => rows[e].status = "none"
    /\ cmd[e].pc \in BuildPcs => rows[e].status = "creating"
    /\ cmd[e].pc \in {"unpublish", "routes"} \cup LatePcs => rows[e].status \in {"destroying", "none"}
    /\ OwnPush(e) => rows[e].status \in {"destroying", "none"}
    /\ cmd[e].pc = "mark" => rows[e].status # "none"
    /\ cmd[e].pc \in ChoosePcs \ {"plan"} /\ cmd[e].make = "keep" => "branch" \in world[e]
    /\ cmd[e].pc \in BranchPcs => "branch" \in world[e]
    /\ cmd[e].pc \in TreePcs => "worktree" \in world[e]
    /\ cmd[e].pc \in CachePcs => "network" \in world[e]
    /\ cmd[e].pc \in ReadyPcs => "cache" \in world[e]
    /\ rows[e].status = "ready" => {"branch", "worktree", "network", "cache"} \subseteq world[e]

BuiltInv == \A e \in Env : Built(e)

-----------------------------------------------------------------------------
(* An environment without a row has nothing on the machine. *)

\* A destroy that has met no error has removed, step by step, all there was:
\* the listing and the config between them name every container, volume and
\* network, because a network is only made once the config is saved.
Cleaned(e) ==
    /\ e \in config => Exists(e)
    /\ cmd[e].pc \in ConfigPcs => e \in config
    /\ "network" \in world[e] => e \in config
    /\ ~Exists(e) => world[e] \subseteq {"branch"}
    /\ cmd[e].pc \in RemovePcs /\ ~cmd[e].failed =>
        world[e] \subseteq cmd[e].left \cup {"branch", "worktree"}
    /\ cmd[e].pc \in RemovePcs \ {"containers"} /\ ~cmd[e].failed => world[e] \cap Containers = {}
    /\ cmd[e].pc \in {"networks", "removeTree", "forget"} /\ ~cmd[e].failed => world[e] \cap Volumes = {}
    /\ cmd[e].pc \in {"removeTree", "forget"} /\ ~cmd[e].failed => "network" \notin world[e]
    /\ cmd[e].pc = "forget" /\ ~cmd[e].failed => "worktree" \notin world[e]

CleanedInv == \A e \in Env : Cleaned(e)

-----------------------------------------------------------------------------
(* Nobody serves an environment that is gone. *)

\* A table names only environments that have a row, or none of e.
Alive(table) == \A h \in Host : table[h] # None => Exists(table[h])
Without(table, e) == \A h \in Host : table[h] # e

\* Who sends a table has the lock, so there is one table on its way at most.
LockHeld ==
    /\ \A e \in Env : cmd[e].pc = "pushSend" => tableLock = e
    /\ keeper.pc = "send" => tableLock = Keeper

TablesAlive ==
    /\ Alive(routes)
    /\ Alive(edge)
    /\ \A e \in Env : cmd[e].pc = "pushSend" => Alive(cmd[e].table)
    /\ keeper.pc = "send" => Alive(keeper.table)

\* From the deletion of its routes on, no new push carries e; and from its
\* own push on, if that arrived, no table anywhere does.
Unserved(e) ==
    /\ OwnPush(e) => Without(routes, e)
    /\ cmd[e].pc = "pushSend" /\ cmd[e].then # "expose" => Without(cmd[e].table, e)
    /\ cmd[e].pc \in LatePcs /\ ~cmd[e].failed =>
        /\ Without(routes, e) /\ Without(edge, e)
        /\ \A f \in Env : cmd[f].pc = "pushSend" => Without(cmd[f].table, e)
        /\ keeper.pc = "send" => Without(keeper.table, e)

\* From its unpublishing on, if there was no error, no address of e is on the
\* device.
Unpublished(e) ==
    (cmd[e].pc \in {"routes"} \cup LatePcs \/ OwnPush(e)) /\ ~cmd[e].failed =>
        \A d \in device : d[2] # e

DeviceHasRows == \A d \in device : Exists(d[2]) /\ rows[d[2]].ip = d[1]

\* Only what has a row has a config, so only that can be exposed.
ConfigHasRows == \A e \in config : Exists(e)

DownIdle == ~up => keeper.pc # "send" /\ \A e \in Env : cmd[e].pc = "idle"

ServedInv ==
    /\ LockHeld /\ TablesAlive /\ DeviceHasRows /\ ConfigHasRows /\ DownIdle
    /\ \A e \in Env : Unserved(e) /\ Unpublished(e)

-----------------------------------------------------------------------------
(* What a step does to its command's record, and that it leaves the other  *)
(* environments alone.                                                     *)

LEMMA SetIs ==
  ASSUME TypeOK, NEW e \in Env, NEW c, Set(e, c)
  PROVE  cmd'[e] = c /\ \A f \in Env \ {e} : cmd'[f] = cmd[f]
BY DEF TypeOK, Set

LEMMA GotoIs ==
  ASSUME TypeOK, NEW e \in Env, NEW step, Goto(e, step)
  PROVE  /\ cmd'[e].pc = step /\ cmd'[e].then = cmd[e].then /\ cmd'[e].make = cmd[e].make
         /\ cmd'[e].failed = cmd[e].failed
         /\ \A f \in Env \ {e} : cmd'[f] = cmd[f]
BY DEF TypeOK, Goto, Set, CmdRec

LEMMA StepIs ==
  ASSUME TypeOK, NEW e \in Env, NEW step, NEW failed \in BOOLEAN, Step(e, step, failed)
  PROVE  /\ cmd'[e].pc = step /\ cmd'[e].then = cmd[e].then /\ cmd'[e].left = cmd[e].left
         /\ cmd'[e].table = cmd[e].table /\ cmd'[e].known = cmd[e].known
         /\ cmd'[e].failed <=> (cmd[e].failed \/ failed)
         /\ \A f \in Env \ {e} : cmd'[f] = cmd[f]
<1> DEFINE c == [cmd[e] EXCEPT !.pc = step, !.failed = @ \/ failed]
<1>1. cmd[e] \in CmdRec
  BY DEF TypeOK
<1>2. /\ c.pc = step /\ c.then = cmd[e].then /\ c.left = cmd[e].left /\ c.table = cmd[e].table
      /\ c.known = cmd[e].known
      /\ c.failed <=> (cmd[e].failed \/ failed)
  BY <1>1 DEF CmdRec
<1>3. Set(e, c)
  BY DEF Step
<1> HIDE DEF c
<1> QED
  BY <1>2, <1>3, SetIs

LEMMA ReturnIs ==
  ASSUME TypeOK, NEW e \in Env, Return(e)
  PROVE  /\ cmd'[e] = Idle /\ cmd'[e].pc = "idle" /\ cmd'[e].then = "idle" /\ ~cmd'[e].failed
         /\ \A f \in Env \ {e} : cmd'[f] = cmd[f]
<1>1. Idle.pc = "idle" /\ Idle.then = "idle" /\ ~Idle.failed
  BY DEF Idle
<1> QED
  BY <1>1, SetIs DEF Return

\* The mutex of an environment: a step of e touches e's row, command and
\* things, and nobody else's.
LEMMA CommandOthers ==
  ASSUME TypeOK, NEW e \in Env, Command(e)
  PROVE  /\ UNCHANGED <<rows, world, config>>
         /\ \A f \in Env \ {e} : cmd'[f] = cmd[f]
<1>1. UNCHANGED <<rows, world, config>>
  BY DEF Command, BeginCreate, BeginDestroy, BeginExpose, BeginUnexpose, store
<1>2. \E c : Set(e, c)
  BY DEF Command, BeginCreate, BeginDestroy, BeginExpose, BeginUnexpose, ThenPush, Return
<1> QED
  BY <1>1, <1>2, SetIs

LEMMA RunOthers ==
  ASSUME TypeOK, NEW e \in Env, Run(e), NEW f \in Env \ {e}
  PROVE  cmd'[f] = cmd[f] /\ rows'[f] = rows[f] /\ world'[f] = world[f] /\ (f \in config' <=> f \in config)
<1> USE DEF TypeOK
<1>1. CASE Create(e)
  <2>1. \E c : Set(e, c)
    BY <1>1 DEF Create, Plan, AllocatePorts, AllocateAddress, CreateRow, ResetBranch, MakeBranch,
         MakeWorktree, SaveConfig, MakeNetwork, MakeCache, Deps, MakeVolume, MakeDep, WaitReady,
         Publish, Ready, Fail, Make, Goto, Return
  <2>2. rows'[f] = rows[f]
    BY <1>1 DEF Create, Plan, AllocatePorts, AllocateAddress, CreateRow, ResetBranch, MakeBranch,
         MakeWorktree, SaveConfig, MakeNetwork, MakeCache, Deps, MakeVolume, MakeDep, WaitReady,
         Publish, Ready, Fail, Make, store
  <2>3. world'[f] = world[f]
    BY <1>1 DEF Create, Plan, AllocatePorts, AllocateAddress, CreateRow, ResetBranch, MakeBranch,
         MakeWorktree, SaveConfig, MakeNetwork, MakeCache, Deps, MakeVolume, MakeDep, WaitReady,
         Publish, Ready, Fail, Make
  <2>4. f \in config' <=> f \in config
    BY <1>1 DEF Create, Plan, AllocatePorts, AllocateAddress, CreateRow, ResetBranch, MakeBranch,
         MakeWorktree, SaveConfig, MakeNetwork, MakeCache, Deps, MakeVolume, MakeDep, WaitReady,
         Publish, Ready, Fail, Make, store
  <2> QED
    BY <2>1, <2>2, <2>3, <2>4, SetIs
<1>2. CASE Destroy(e) \/ PushRead(e) \/ PushSend(e)
  <2>1. \E c : Set(e, c)
    BY <1>2 DEF Destroy, PushRead, PushSend, Mark, Unpublish, DropRoutes, List, RemoveContainers,
         RemoveVolumes, RemoveNetworks, RemoveAll, RemoveTree, Forget, Step, Return
  <2>2. rows'[f] = rows[f]
    BY <1>2 DEF Destroy, PushRead, PushSend, Mark, Unpublish, DropRoutes, List, RemoveContainers,
         RemoveVolumes, RemoveNetworks, RemoveAll, RemoveTree, Forget, Marked, store
  <2>3. world'[f] = world[f]
    BY <1>2 DEF Destroy, PushRead, PushSend, Mark, Unpublish, DropRoutes, List, RemoveContainers,
         RemoveVolumes, RemoveNetworks, RemoveAll, RemoveTree, Forget
  <2>4. f \in config' <=> f \in config
    BY <1>2 DEF Destroy, PushRead, PushSend, Mark, Unpublish, DropRoutes, List, RemoveContainers,
         RemoveVolumes, RemoveNetworks, RemoveAll, RemoveTree, Forget, store
  <2> QED
    BY <2>1, <2>2, <2>3, <2>4, SetIs
<1> QED
  BY <1>1, <1>2 DEF Run

-----------------------------------------------------------------------------
(* A ready environment is complete: every step keeps BuiltInv. *)

LEMMA CommandBuilt ==
  ASSUME TypeOK, NEW e \in Env, Built(e), Command(e)
  PROVE  Built(e)'
<1>0. UNCHANGED <<rows, world>>
  BY CommandOthers
<1>1. CASE BeginCreate(e)
  <2> DEFINE c == [Idle EXCEPT !.pc = IF Exists(e) THEN "mark" ELSE "plan",
                               !.then = IF Exists(e) THEN "plan" ELSE "idle"]
  <2>1. c.pc = IF Exists(e) THEN "mark" ELSE "plan"
    BY DEF Idle
  <2>2. Set(e, c)
    BY <1>1 DEF BeginCreate
  <2> HIDE DEF c
  <2>3. cmd'[e].pc = IF rows[e].status # "none" THEN "mark" ELSE "plan"
    BY <2>1, <2>2, SetIs DEF Exists
  <2> QED
    BY <1>0, <2>3 DEF Built, OwnPush, ChoosePcs, BuildPcs, BranchPcs, TreePcs, ConfigPcs, CachePcs,
      ReadyPcs, LatePcs, RemovePcs, PushPcs
<1>2. ASSUME NEW branch \in BOOLEAN, BeginDestroy(e, branch)
      PROVE  Built(e)'
  <2> DEFINE c == [Idle EXCEPT !.pc = IF Exists(e) THEN "mark" ELSE "list", !.branch = branch]
  <2>1. c.pc = IF Exists(e) THEN "mark" ELSE "list"
    BY DEF Idle
  <2>2. Set(e, c)
    BY <1>2 DEF BeginDestroy
  <2> HIDE DEF c
  <2>3. cmd'[e].pc = IF rows[e].status # "none" THEN "mark" ELSE "list"
    BY <2>1, <2>2, SetIs DEF Exists
  <2> QED
    BY <1>0, <2>3 DEF Built, OwnPush, ChoosePcs, BuildPcs, BranchPcs, TreePcs, ConfigPcs, CachePcs,
      ReadyPcs, LatePcs, RemovePcs, PushPcs
<1>3. ASSUME ThenPush(e)
      PROVE  Built(e)'
  <2> DEFINE c == [Idle EXCEPT !.pc = "pushRead", !.then = "expose"]
  <2>1. c.pc = "pushRead" /\ c.then = "expose"
    BY DEF Idle
  <2>2. Set(e, c) \/ Return(e)
    BY <1>3 DEF ThenPush
  <2> HIDE DEF c
  <2>3. \/ cmd'[e].pc = "pushRead" /\ cmd'[e].then = "expose"
        \/ cmd'[e].pc = "idle"
    BY <2>1, <2>2, SetIs, ReturnIs
  <2> QED
    BY <1>0, <2>3 DEF Built, OwnPush, ChoosePcs, BuildPcs, BranchPcs, TreePcs, ConfigPcs, CachePcs,
      ReadyPcs, LatePcs, RemovePcs, PushPcs
<1> QED
  BY <1>1, <1>2, <1>3 DEF Command, BeginExpose, BeginUnexpose

\* A choice is put in the record of the create and changes nothing else of it.
LEMMA ChosenIs ==
  ASSUME TypeOK, NEW e \in Env, NEW pc, NEW x,
         \/ Set(e, [cmd[e] EXCEPT !.pc = pc, !.base = x])
         \/ Set(e, [cmd[e] EXCEPT !.pc = pc, !.ip = x])
         \/ Set(e, [cmd[e] EXCEPT !.pc = pc, !.tries = @ + 1])
  PROVE  cmd'[e].pc = pc /\ cmd'[e].make = cmd[e].make
<1> DEFINE b == [cmd[e] EXCEPT !.pc = pc, !.base = x]
           i == [cmd[e] EXCEPT !.pc = pc, !.ip = x]
           t == [cmd[e] EXCEPT !.pc = pc, !.tries = @ + 1]
<1>1. /\ b.pc = pc /\ b.make = cmd[e].make
      /\ i.pc = pc /\ i.make = cmd[e].make
      /\ t.pc = pc /\ t.make = cmd[e].make
  BY DEF TypeOK, CmdRec
<1>2. Set(e, b) \/ Set(e, i) \/ Set(e, t)
  OBVIOUS
<1> HIDE DEF b, i, t
<1> QED
  BY <1>1, <1>2, SetIs

\* Where a create goes until it has its row.
LEMMA ChoosePc ==
  ASSUME TypeOK, NEW e \in Env,
         \/ \E from, reset \in BOOLEAN : Plan(e, from, reset)
         \/ AllocatePorts(e) \/ AllocateAddress(e) \/ CreateRow(e)
  PROVE  cmd'[e].pc \in {"idle", "ports", "address", "insert", "worktree", "branch", "reset"}
<1>t. cmd[e] \in CmdRec
  BY DEF TypeOK
<1>1. ASSUME NEW from \in BOOLEAN, NEW reset \in BOOLEAN, Plan(e, from, reset)
      PROVE  cmd'[e].pc \in {"idle", "ports"}
  <2> DEFINE c(make) == [Idle EXCEPT !.pc = "ports", !.make = make]
  <2>1. \A make : c(make).pc = "ports"
    BY DEF Idle
  <2>2. Return(e) \/ \E make : Set(e, c(make))
    BY <1>1 DEF Plan
  <2> HIDE DEF c
  <2> QED
    BY <2>1, <2>2, SetIs, ReturnIs
<1>2. CASE AllocatePorts(e)
  BY <1>2, ChosenIs, ReturnIs DEF AllocatePorts
<1>3. CASE AllocateAddress(e)
  BY <1>3, ChosenIs, ReturnIs DEF AllocateAddress
<1>4. CASE CreateRow(e)
  <2>1. FirstOf[cmd[e].make] \in {"worktree", "branch", "reset"}
    BY <1>t DEF CmdRec, FirstOf
  <2>2. \/ Goto(e, FirstOf[cmd[e].make]) \/ Return(e)
        \/ Set(e, [cmd[e] EXCEPT !.pc = "ports", !.tries = @ + 1])
    BY <1>4 DEF CreateRow, Return
  <2> QED
    BY <2>1, <2>2, ChosenIs, ReturnIs, GotoIs
<1> QED
  BY <1>1, <1>2, <1>3, <1>4

\* Up to the row: the branch a create goes on with is there.
LEMMA ChooseBuilt ==
  ASSUME TypeOK, NEW e \in Env, Built(e),
         \/ \E from, reset \in BOOLEAN : Plan(e, from, reset)
         \/ AllocatePorts(e) \/ AllocateAddress(e) \/ CreateRow(e)
  PROVE  Built(e)'
<1> USE DEF ChoosePcs, BuildPcs, BranchPcs, TreePcs, ConfigPcs, CachePcs, ReadyPcs, LatePcs,
      RemovePcs, PushPcs
<1>t. cmd[e] \in CmdRec /\ rows \in [Env -> RowRec]
  BY DEF TypeOK
<1>0. UNCHANGED world
  BY DEF Plan, AllocatePorts, AllocateAddress, CreateRow
<1>a. ASSUME Return(e), UNCHANGED rows
      PROVE  Built(e)'
  BY <1>0, <1>a, ReturnIs DEF Built, OwnPush
<1>1. ASSUME NEW from \in BOOLEAN, NEW reset \in BOOLEAN, Plan(e, from, reset)
      PROVE  Built(e)'
  <2> DEFINE make == IF "branch" \notin world[e] THEN "new" ELSE IF from THEN "reset" ELSE "keep"
             c == [Idle EXCEPT !.pc = "ports", !.make = make]
  <2>1. c.pc = "ports" /\ c.make = make
    BY DEF Idle
  <2>2. UNCHANGED rows /\ cmd[e].pc = "plan" /\ (Set(e, c) \/ Return(e))
    BY <1>1 DEF Plan, store, At
  <2>3. make = "keep" => "branch" \in world[e]
    OBVIOUS
  <2> HIDE DEF c, make
  <2>4. CASE Set(e, c)
    <3>1. cmd'[e].pc = "ports" /\ cmd'[e].make = make
      BY <2>1, <2>4, SetIs
    <3> QED
      BY <1>0, <2>2, <2>3, <3>1 DEF Built, OwnPush
  <2> QED
    BY <1>a, <2>2, <2>4
<1>2. CASE AllocatePorts(e) \/ AllocateAddress(e)
  <2>1. UNCHANGED rows /\ cmd[e].pc \in {"ports", "address"}
    BY <1>2 DEF AllocatePorts, AllocateAddress, At, store
  <2>2. Return(e) \/ (cmd'[e].pc \in {"address", "insert"} /\ cmd'[e].make = cmd[e].make)
    <3>1. ASSUME NEW b, NEW pc, Set(e, [cmd[e] EXCEPT !.pc = pc, !.base = b])
          PROVE  cmd'[e].pc = pc /\ cmd'[e].make = cmd[e].make
      BY <1>t, <3>1, ChosenIs
    <3>2. ASSUME NEW a, NEW pc, Set(e, [cmd[e] EXCEPT !.pc = pc, !.ip = a])
          PROVE  cmd'[e].pc = pc /\ cmd'[e].make = cmd[e].make
      BY <1>t, <3>2, ChosenIs
    <3> QED
      BY <1>2, <3>1, <3>2 DEF AllocatePorts, AllocateAddress
  <2> QED
    BY <1>0, <1>a, <2>1, <2>2 DEF Built, OwnPush
<1>3. CASE CreateRow(e)
  <2>0. cmd[e].pc = "insert"
    BY <1>3 DEF CreateRow, At
  <2>1. CASE /\ rows' = [rows EXCEPT ![e] = [status |-> "creating", base |-> cmd[e].base,
                                             count |-> BlockSize, ip |-> cmd[e].ip]]
             /\ Goto(e, FirstOf[cmd[e].make])
    <3>1. rows'[e].status = "creating"
      BY <1>t, <2>1
    <3>2. cmd'[e].pc = FirstOf[cmd[e].make]
      BY <2>1, GotoIs
    <3>3. \/ cmd[e].make = "keep" /\ cmd'[e].pc = "worktree"
          \/ cmd'[e].pc \in {"branch", "reset"}
      BY <1>t, <3>2 DEF CmdRec, FirstOf
    <3> QED
      BY <1>0, <2>0, <3>1, <3>3 DEF Built, OwnPush
  <2>2. CASE UNCHANGED rows /\ Set(e, [cmd[e] EXCEPT !.pc = "ports", !.tries = @ + 1])
    <3>1. cmd'[e].pc = "ports" /\ cmd'[e].make = cmd[e].make
      BY <1>t, <2>2, ChosenIs
    <3> QED
      BY <1>0, <2>0, <2>2, <3>1 DEF Built, OwnPush
  <2> QED
    BY <1>3, <1>a, <2>1, <2>2 DEF CreateRow, Return
<1> QED
  BY <1>1, <1>2, <1>3

\* A step of buildTree and of what follows: it adds one thing, or fails.
LEMMA MakeAdds ==
  ASSUME TypeOK, NEW e \in Env, NEW step, NEW thing, NEW kind, NEW next,
         Make(e, step, thing, kind, next)
  PROVE  /\ cmd[e].pc = step /\ UNCHANGED <<rows, config>>
         /\ world[e] \subseteq world'[e] /\ world'[e] \subseteq world[e] \cup {thing}
         /\ \/ cmd'[e].pc = next /\ thing \in world'[e]
            \/ cmd'[e].pc = "fail"
<1>t. world \in [Env -> SUBSET Things]
  BY DEF TypeOK
<1>1. cmd[e].pc = step /\ UNCHANGED <<rows, config>>
  BY DEF Make, At
<1>2. CASE world' = [world EXCEPT ![e] = @ \cup {thing}] /\ Goto(e, next)
  <2>1. world'[e] = world[e] \cup {thing}
    BY <1>t, <1>2
  <2>2. cmd'[e].pc = next
    BY <1>2, GotoIs
  <2> QED
    BY <1>1, <2>1, <2>2
<1>3. ASSUME NEW made \in SUBSET {thing}, world' = [world EXCEPT ![e] = @ \cup made], Goto(e, "fail")
      PROVE  /\ world[e] \subseteq world'[e] /\ world'[e] \subseteq world[e] \cup {thing}
             /\ cmd'[e].pc = "fail"
  <2>1. world'[e] = world[e] \cup made
    BY <1>t, <1>3
  <2>2. cmd'[e].pc = "fail"
    BY <1>3, GotoIs
  <2> QED
    BY <2>1, <2>2
<1> QED
  BY <1>1, <1>2, <1>3 DEF Make

LEMMA MakeBuilt ==
  ASSUME TypeOK, NEW e \in Env, Built(e),
         \/ ResetBranch(e) \/ MakeBranch(e) \/ MakeWorktree(e) \/ SaveConfig(e)
         \/ MakeNetwork(e) \/ MakeCache(e) \/ Deps(e) \/ MakeVolume(e) \/ MakeDep(e)
         \/ WaitReady(e) \/ Publish(e)
  PROVE  Built(e)'
<1> USE DEF ChoosePcs, BuildPcs, BranchPcs, TreePcs, ConfigPcs, CachePcs, ReadyPcs, LatePcs,
      RemovePcs, PushPcs, Built, OwnPush
<1>1. CASE ResetBranch(e)
  <2>1. cmd[e].pc = "reset" /\ UNCHANGED rows /\ cmd'[e].pc \in {"branch", "fail"}
    BY <1>1, GotoIs DEF ResetBranch, At, store
  <2> QED
    BY <2>1
<1>2. CASE MakeBranch(e)
  BY <1>2, MakeAdds DEF MakeBranch
<1>3. CASE MakeWorktree(e)
  BY <1>3, MakeAdds DEF MakeWorktree
<1>4. CASE MakeNetwork(e)
  BY <1>4, MakeAdds DEF MakeNetwork
<1>5. CASE MakeCache(e)
  BY <1>5, MakeAdds DEF MakeCache
<1>6. CASE MakeVolume(e)
  BY <1>6, MakeAdds DEF MakeVolume
<1>7. CASE MakeDep(e)
  BY <1>7, MakeAdds DEF MakeDep
<1>8. CASE SaveConfig(e)
  <2>1. cmd[e].pc = "config" /\ UNCHANGED <<rows, world>> /\ cmd'[e].pc \in {"network", "fail"}
    BY <1>8, GotoIs DEF SaveConfig, At
  <2> QED
    BY <2>1
<1>9. CASE Deps(e) \/ WaitReady(e) \/ Publish(e)
  <2>1. /\ cmd[e].pc \in {"deps", "waitReady", "publish"} /\ UNCHANGED <<rows, world>>
        /\ cmd'[e].pc \in {"volume", "publish", "ready", "fail"}
    BY <1>9, GotoIs DEF Deps, WaitReady, Publish, At, store
  <2> QED
    BY <2>1
<1> QED
  BY <1>1, <1>2, <1>3, <1>4, <1>5, <1>6, <1>7, <1>8, <1>9

\* The end of a create: the status says ready when all is there.
LEMMA EndBuilt ==
  ASSUME TypeOK, NEW e \in Env, Built(e), Ready(e) \/ Fail(e)
  PROVE  Built(e)'
<1> USE DEF ChoosePcs, BuildPcs, BranchPcs, TreePcs, ConfigPcs, CachePcs, ReadyPcs, LatePcs,
      RemovePcs, PushPcs, Built, OwnPush
<1>t. rows \in [Env -> RowRec]
  BY DEF TypeOK
<1>0. UNCHANGED world
  BY DEF Ready, Fail
<1>1. CASE Ready(e)
  <2>1. cmd[e].pc = "ready"
    BY <1>1 DEF Ready, At
  <2>2. CASE rows' = [rows EXCEPT ![e].status = "ready"] /\ Return(e)
    <3>1. rows'[e].status = "ready"
      BY <1>t, <2>2 DEF RowRec
    <3> QED
      BY <1>0, <2>1, <2>2, <3>1, ReturnIs
  <2>3. CASE Goto(e, "fail") /\ UNCHANGED rows
    BY <1>0, <2>1, <2>3, GotoIs
  <2> QED
    BY <1>1, <2>2, <2>3 DEF Ready
<1>2. CASE Fail(e)
  <2>1. rows'[e].status \in {"failed", rows[e].status}
    BY <1>t, <1>2 DEF Fail, RowRec
  <2>2. cmd[e].pc = "fail" /\ cmd'[e].pc = "idle"
    BY <1>2, ReturnIs DEF Fail, At
  <2> QED
    BY <1>0, <2>1, <2>2
<1> QED
  BY <1>1, <1>2

\* A destroy marks the row before it takes anything away, and from then on
\* the row says destroying until it is gone.
LEMMA DestroyBuilt ==
  ASSUME TypeOK, NEW e \in Env, Built(e), Destroy(e) \/ PushRead(e) \/ PushSend(e)
  PROVE  Built(e)'
<1> USE DEF ChoosePcs, BuildPcs, BranchPcs, TreePcs, ConfigPcs, CachePcs, ReadyPcs, LatePcs,
      RemovePcs, PushPcs, Built, OwnPush
<1>t. rows \in [Env -> RowRec] /\ cmd[e] \in CmdRec
  BY DEF TypeOK
<1>1. CASE Mark(e)
  <2>0. cmd[e].pc = "mark" /\ UNCHANGED world
    BY <1>1 DEF Mark, At
  <2>1. rows'[e].status \in {"destroying", rows[e].status}
    BY <1>t, <1>1 DEF Mark, Marked, RowRec
  <2>2. CASE Return(e)
    BY <2>0, <2>1, <2>2, ReturnIs
  <2>3. CASE rows' = Marked(e) /\ Set(e, [cmd[e] EXCEPT !.pc = "unpublish", !.known = recorded[e]])
    <3> DEFINE c == [cmd[e] EXCEPT !.pc = "unpublish", !.known = recorded[e]]
    <3>1. c.pc = "unpublish"
      BY <1>t DEF CmdRec
    <3>2. rows'[e].status = "destroying"
      BY <1>t, <2>3 DEF Marked, RowRec
    <3>3. Set(e, c)
      BY <2>3
    <3> HIDE DEF c
    <3>4. cmd'[e].pc = "unpublish"
      BY <3>1, <3>3, SetIs
    <3> QED
      BY <2>0, <3>2, <3>4
  <2> QED
    BY <1>1, <2>2, <2>3 DEF Mark
<1>2. CASE Unpublish(e) \/ DropRoutes(e)
  <2>1. cmd[e].pc \in {"unpublish", "routes"} /\ UNCHANGED <<rows, world>>
    BY <1>2 DEF Unpublish, DropRoutes, At, store
  <2>2. \E next \in {"routes", "pushRead", "list"}, failed \in BOOLEAN : Step(e, next, failed)
    BY <1>2 DEF Unpublish, DropRoutes
  <2>3. cmd'[e].pc \in {"routes", "pushRead", "list"}
    BY <2>2, StepIs
  <2> QED
    BY <2>1, <2>2, <2>3
<1>3. CASE List(e)
  <2> DEFINE c == [cmd[e] EXCEPT !.pc = "containers", !.left = Leftovers(e, Labelled(e))]
             d == [cmd[e] EXCEPT !.pc = "containers", !.left = Leftovers(e, {}), !.failed = TRUE]
  <2>1. c.pc = "containers" /\ d.pc = "containers"
    BY <1>t DEF CmdRec
  <2>2. cmd[e].pc = "list" /\ UNCHANGED <<rows, world>> /\ (Set(e, c) \/ Set(e, d))
    BY <1>3 DEF List, At, store
  <2> HIDE DEF c, d
  <2>3. cmd'[e].pc = "containers"
    BY <2>1, <2>2, SetIs
  <2> QED
    BY <2>2, <2>3
<1>4. CASE RemoveContainers(e) \/ RemoveVolumes(e) \/ RemoveNetworks(e) \/ RemoveTree(e)
  <2>1. cmd[e].pc \in RemovePcs /\ UNCHANGED rows
    BY <1>4 DEF RemoveContainers, RemoveVolumes, RemoveNetworks, RemoveAll, RemoveTree, At, store
  <2>2. cmd'[e].pc \in RemovePcs
    BY <1>4, StepIs DEF RemoveContainers, RemoveVolumes, RemoveNetworks, RemoveAll, RemoveTree
  <2> QED
    BY <2>1, <2>2
<1>5. CASE Forget(e)
  <2> DEFINE c == [Idle EXCEPT !.pc = "plan", !.then = "plan"]
  <2>1. c.pc = "plan"
    BY DEF Idle
  <2>2. cmd[e].pc = "forget" /\ UNCHANGED world
    BY <1>5 DEF Forget, At
  <2>3. CASE UNCHANGED rows /\ Return(e)
    BY <2>2, <2>3, ReturnIs
  <2>4. CASE rows' = [rows EXCEPT ![e] = NoRow] /\ (Set(e, c) \/ Return(e))
    <3>1. rows'[e].status = "none"
      BY <1>t, <2>4 DEF NoRow
    <3> HIDE DEF c
    <3>2. cmd'[e].pc \in {"plan", "idle"}
      BY <2>1, <2>4, SetIs, ReturnIs
    <3> QED
      BY <2>2, <3>1, <3>2
  <2> QED
    BY <1>5, <2>3, <2>4 DEF Forget, Return
<1>6. CASE PushRead(e)
  <2> DEFINE c == [cmd[e] EXCEPT !.pc = "pushSend", !.table = routes]
  <2>1. c.pc = "pushSend" /\ c.then = cmd[e].then
    BY <1>t DEF CmdRec
  <2>2. cmd[e].pc = "pushRead" /\ UNCHANGED <<rows, world>> /\ Set(e, c)
    BY <1>6 DEF PushRead, At, store
  <2> HIDE DEF c
  <2>3. cmd'[e].pc = "pushSend" /\ cmd'[e].then = cmd[e].then
    BY <2>1, <2>2, SetIs
  <2> QED
    BY <2>2, <2>3
<1>7. CASE PushSend(e)
  <2> DEFINE c(sent) == [cmd[e] EXCEPT !.pc = "list", !.failed = @ \/ ~sent, !.table = NoTable]
  <2>1. \A sent \in BOOLEAN : c(sent).pc = "list"
    BY <1>t DEF CmdRec
  <2>2. /\ cmd[e].pc = "pushSend" /\ UNCHANGED <<rows, world>>
        /\ \/ Return(e)
           \/ cmd[e].then # "expose" /\ \E sent \in BOOLEAN : Set(e, c(sent))
    BY <1>7 DEF PushSend, At, store, Return
  <2> HIDE DEF c
  <2>3. cmd'[e].pc = "idle" \/ (cmd[e].then # "expose" /\ cmd'[e].pc = "list")
    BY <2>1, <2>2, SetIs, ReturnIs
  <2> QED
    BY <2>2, <2>3
<1> QED
  BY <1>1, <1>2, <1>3, <1>4, <1>5, <1>6, <1>7 DEF Destroy

\* caramelod dies with its commands; the keeper and a restart touch none.
LEMMA DaemonBuilt ==
  ASSUME TypeOK, BuiltInv, KeeperRead \/ KeeperSend \/ Crash \/ Restart \/ UNCHANGED vars
  PROVE  BuiltInv'
<1>1. UNCHANGED <<rows, world>>
  BY DEF KeeperRead, KeeperSend, Crash, Restart, vars, store
<1>2. (\A e \in Env : cmd'[e].pc = "idle") \/ UNCHANGED cmd
  BY DEF KeeperRead, KeeperSend, Crash, Restart, vars, Idle
<1> QED
  BY <1>1, <1>2 DEF BuiltInv, Built, OwnPush, ChoosePcs, BuildPcs, BranchPcs, TreePcs, ConfigPcs,
    CachePcs, ReadyPcs, LatePcs, RemovePcs, PushPcs

LEMMA BuiltInit == Init => BuiltInv
<1> SUFFICES ASSUME Init, NEW e \in Env PROVE Built(e)
  BY DEF BuiltInv
<1>1. cmd[e].pc = "idle"
  BY DEF Init, Idle
<1>2. rows[e].status = "ready" => world[e] = Things
  BY DEF Init, NoRow
<1>3. {"branch", "worktree", "network", "cache"} \subseteq Things
  BY DEF Things, Volumes
<1> QED
  BY <1>1, <1>2, <1>3 DEF Built, OwnPush, ChoosePcs, BuildPcs, BranchPcs, TreePcs, ConfigPcs,
    CachePcs, ReadyPcs, LatePcs, RemovePcs, PushPcs

LEMMA BuiltStep == TypeOK /\ BuiltInv /\ [Next]_vars => BuiltInv'
<1> SUFFICES ASSUME TypeOK, BuiltInv, [Next]_vars PROVE BuiltInv'
  OBVIOUS
<1>1. ASSUME NEW e \in Env, Command(e) \/ Run(e)
      PROVE  BuiltInv'
  <2>1. Built(e)'
    <3>1. Built(e)
      BY DEF BuiltInv
    <3>2. CASE Command(e)
      BY <3>1, <3>2, CommandBuilt
    <3>3. CASE Create(e)
      BY <3>1, <3>3, ChooseBuilt, MakeBuilt, EndBuilt DEF Create
    <3>4. CASE Destroy(e) \/ PushRead(e) \/ PushSend(e)
      BY <3>1, <3>4, DestroyBuilt
    <3> QED
      BY <1>1, <3>2, <3>3, <3>4 DEF Run
  <2>2. \A f \in Env \ {e} : cmd'[f] = cmd[f] /\ rows'[f] = rows[f] /\ world'[f] = world[f]
    BY <1>1, CommandOthers, RunOthers
  <2> QED
    BY <2>1, <2>2 DEF BuiltInv, Built, OwnPush
<1> QED
  BY <1>1, DaemonBuilt DEF Next

\* An environment that says it is ready has its tree, its network and its
\* cache: a create says so only when it has made them, and a destroy takes
\* the word back before it takes anything away.
THEOREM ReadyIsComplete == Spec => []ReadyComplete
<1>1. BuiltInv => ReadyComplete
  BY DEF BuiltInv, Built, ReadyComplete
<1> QED
  BY <1>1, BuiltInit, BuiltStep, TypeCorrect, PTL DEF Spec

-----------------------------------------------------------------------------
(* An environment without a row has nothing on the machine: every step of  *)
(* an app with services keeps CleanedInv.                                  *)

LEMMA CommandCleaned ==
  ASSUME TypeOK, NEW e \in Env, Cleaned(e), Command(e)
  PROVE  Cleaned(e)'
<1>0. UNCHANGED <<rows, world, config>>
  BY CommandOthers
<1>1. cmd'[e].pc \in {"mark", "plan", "list", "pushRead", "idle"}
  <2>1. CASE BeginCreate(e)
    <3> DEFINE c == [Idle EXCEPT !.pc = IF Exists(e) THEN "mark" ELSE "plan",
                                 !.then = IF Exists(e) THEN "plan" ELSE "idle"]
    <3>1. c.pc \in {"mark", "plan"}
      BY DEF Idle
    <3>2. Set(e, c)
      BY <2>1 DEF BeginCreate
    <3> HIDE DEF c
    <3> QED
      BY <3>1, <3>2, SetIs
  <2>2. ASSUME NEW branch \in BOOLEAN, BeginDestroy(e, branch)
        PROVE  cmd'[e].pc \in {"mark", "list"}
    <3> DEFINE c == [Idle EXCEPT !.pc = IF Exists(e) THEN "mark" ELSE "list", !.branch = branch]
    <3>1. c.pc \in {"mark", "list"}
      BY DEF Idle
    <3>2. Set(e, c)
      BY <2>2 DEF BeginDestroy
    <3> HIDE DEF c
    <3> QED
      BY <3>1, <3>2, SetIs
  <2>3. ASSUME ThenPush(e)
        PROVE  cmd'[e].pc \in {"pushRead", "idle"}
    <3> DEFINE c == [Idle EXCEPT !.pc = "pushRead", !.then = "expose"]
    <3>1. c.pc = "pushRead"
      BY DEF Idle
    <3>2. Set(e, c) \/ Return(e)
      BY <2>3 DEF ThenPush
    <3> HIDE DEF c
    <3> QED
      BY <3>1, <3>2, SetIs, ReturnIs
  <2> QED
    BY <2>1, <2>2, <2>3 DEF Command, BeginExpose, BeginUnexpose
<1> QED
  BY <1>0, <1>1 DEF Cleaned, Exists, ConfigPcs, CachePcs, ReadyPcs, RemovePcs

LEMMA CreateCleaned ==
  ASSUME TypeOK, NEW e \in Env, Built(e), Cleaned(e), Create(e)
  PROVE  Cleaned(e)'
<1> USE DEF ConfigPcs, CachePcs, ReadyPcs, RemovePcs
<1>t. cmd[e] \in CmdRec /\ rows \in [Env -> RowRec] /\ world \in [Env -> SUBSET Things]
  BY DEF TypeOK
<1>b. cmd[e].pc \in {"reset", "branch", "worktree", "config", "fail"} \cup ConfigPcs => Exists(e)
  BY DEF Built, BuildPcs, BranchPcs, TreePcs, Exists
\* Up to the row nothing is made.
<1>1. CASE \/ \E from, reset \in BOOLEAN : Plan(e, from, reset)
           \/ AllocatePorts(e) \/ AllocateAddress(e) \/ CreateRow(e)
  <2>1. UNCHANGED <<world, config>> /\ (Exists(e) => Exists(e)')
    <3>1. CASE CreateRow(e)
      BY <1>t, <3>1 DEF CreateRow, Exists
    <3> QED
      BY <1>1, <3>1 DEF Plan, AllocatePorts, AllocateAddress, store, Exists
  <2>2. cmd'[e].pc \in {"idle", "ports", "address", "insert", "worktree", "branch", "reset"}
    BY <1>1, ChoosePc
  <2> QED
    BY <2>1, <2>2 DEF Cleaned
\* What is made is made of an environment that has a row, and the network of
\* one that has its config.
<1>2. ASSUME NEW step, NEW thing, NEW kind, NEW next, Make(e, step, thing, kind, next),
             step \in {"branch", "worktree"} \cup ConfigPcs, next \notin RemovePcs,
             next \in ConfigPcs => step \in ConfigPcs,
             thing = "network" => step \in ConfigPcs
      PROVE  Cleaned(e)'
  <2>1. Exists(e) /\ Exists(e)'
    BY <1>2, <1>b, MakeAdds DEF Exists
  <2>2. "network" \in world'[e] => e \in config'
    BY <1>2, MakeAdds DEF Cleaned
  <2>3. cmd'[e].pc \in ConfigPcs => e \in config'
    BY <1>2, MakeAdds DEF Cleaned
  <2>4. cmd'[e].pc \notin RemovePcs
    BY <1>2, MakeAdds
  <2> QED
    BY <2>1, <2>2, <2>3, <2>4 DEF Cleaned
<1>3. CASE MakeBranch(e) \/ MakeWorktree(e) \/ MakeNetwork(e) \/ MakeCache(e) \/ MakeVolume(e)
           \/ MakeDep(e)
  BY <1>2, <1>3 DEF MakeBranch, MakeWorktree, MakeNetwork, MakeCache, MakeVolume, MakeDep
<1>4. CASE ResetBranch(e)
  <2>1. cmd[e].pc = "reset" /\ UNCHANGED <<rows, config>> /\ cmd'[e].pc \in {"branch", "fail"}
    BY <1>4, GotoIs DEF ResetBranch, At, store
  <2>2. world'[e] \subseteq world[e]
    BY <1>4, <1>t DEF ResetBranch
  <2> QED
    BY <1>b, <2>1, <2>2 DEF Cleaned, Exists
<1>5. CASE SaveConfig(e)
  <2>1. /\ cmd[e].pc = "config" /\ UNCHANGED <<rows, world>>
        /\ \/ cmd'[e].pc = "network" /\ e \in config'
           \/ cmd'[e].pc = "fail" /\ config' = config
    BY <1>5, GotoIs DEF SaveConfig, At
  <2> QED
    BY <1>b, <2>1 DEF Cleaned, Exists
<1>6. CASE Deps(e) \/ WaitReady(e) \/ Publish(e)
  <2>1. /\ cmd[e].pc \in {"deps", "waitReady", "publish"} /\ UNCHANGED <<rows, world, config>>
        /\ cmd'[e].pc \in {"volume", "publish", "ready", "fail"}
    BY <1>6, GotoIs DEF Deps, WaitReady, Publish, At, store
  <2> QED
    BY <1>b, <2>1 DEF Cleaned, Exists
<1>7. CASE Ready(e) \/ Fail(e)
  <2>1. UNCHANGED <<world, config>> /\ Exists(e) /\ cmd[e].pc \in {"ready", "fail"}
    BY <1>b, <1>7 DEF Ready, Fail, At
  <2>2. Exists(e)'
    BY <1>7, <1>t, <2>1 DEF Ready, Fail, Exists, RowRec
  <2>3. cmd'[e].pc \in {"idle", "fail"}
    BY <1>7, GotoIs, ReturnIs DEF Ready, Fail
  <2> QED
    BY <2>1, <2>2, <2>3 DEF Cleaned
<1> QED
  BY <1>1, <1>3, <1>4, <1>5, <1>6, <1>7 DEF Create

\* The listing of what is left names all there is but the tree: the runtime
\* lists containers and volumes, the config stands for the network.
LEMMA ListCleaned ==
  ASSUME Services, TypeOK, NEW e \in Env, Cleaned(e), List(e)
  PROVE  Cleaned(e)'
<1>t. cmd[e] \in CmdRec /\ world[e] \subseteq Things
  BY DEF TypeOK
<1> DEFINE c == [cmd[e] EXCEPT !.pc = "containers", !.left = Leftovers(e, Labelled(e))]
           d == [cmd[e] EXCEPT !.pc = "containers", !.left = Leftovers(e, {}), !.failed = TRUE]
<1>1. c.pc = "containers" /\ d.pc = "containers" /\ d.failed /\ c.left = Leftovers(e, Labelled(e))
  BY <1>t DEF CmdRec
<1>2. UNCHANGED <<rows, world, config>> /\ (Set(e, c) \/ Set(e, d))
  BY DEF List, store
<1>3. world[e] \subseteq Leftovers(e, Labelled(e)) \cup {"branch", "worktree"}
  <2>1. "network" \in world[e] => "network" \in Implied(e)
    BY DEF Cleaned, Implied
  <2>2. world[e] \subseteq Labelled(e) \cup {"branch", "worktree", "network"}
    BY <1>t DEF Things, Labelled
  <2> QED
    BY <2>1, <2>2 DEF Leftovers
<1> HIDE DEF c, d
<1>4. \/ cmd'[e].pc = "containers" /\ cmd'[e].left = Leftovers(e, Labelled(e))
      \/ cmd'[e].pc = "containers" /\ cmd'[e].failed
  BY <1>1, <1>2, SetIs
<1>5. CASE cmd'[e].pc = "containers" /\ cmd'[e].left = Leftovers(e, Labelled(e))
  BY <1>2, <1>3, <1>5 DEF Cleaned, Exists, ConfigPcs, CachePcs, ReadyPcs, RemovePcs
<1>6. CASE cmd'[e].pc = "containers" /\ cmd'[e].failed
  BY <1>2, <1>6 DEF Cleaned, Exists, ConfigPcs, CachePcs, ReadyPcs, RemovePcs
<1> QED
  BY <1>4, <1>5, <1>6

\* A removal that meets no error removes everything of its kind that is left.
LEMMA RemoveIs ==
  ASSUME TypeOK, NEW e \in Env, NEW step, NEW kind, NEW next, RemoveAll(e, step, kind, next)
  PROVE  /\ cmd[e].pc = step /\ cmd'[e].pc = next /\ UNCHANGED <<rows, config>>
         /\ world'[e] \subseteq world[e]
         /\ ~cmd'[e].failed => /\ ~cmd[e].failed /\ cmd'[e].left = cmd[e].left
                               /\ world'[e] = world[e] \ (cmd[e].left \cap kind)
<1>t. world \in [Env -> SUBSET Things]
  BY DEF TypeOK
<1>1. cmd[e].pc = step /\ UNCHANGED <<rows, config>>
  BY DEF RemoveAll, At, store
<1>2. CASE /\ world' = [world EXCEPT ![e] = @ \ (cmd[e].left \cap kind)]
           /\ Step(e, next, FALSE)
  <2>1. world'[e] = world[e] \ (cmd[e].left \cap kind)
    BY <1>t, <1>2
  <2>2. cmd'[e].pc = next /\ cmd'[e].left = cmd[e].left /\ (cmd'[e].failed <=> cmd[e].failed)
    BY <1>2, StepIs
  <2> QED
    BY <1>1, <2>1, <2>2
<1>3. ASSUME NEW bad \in SUBSET (world[e] \cap cmd[e].left \cap kind),
             world' = [world EXCEPT ![e] = (@ \ (cmd[e].left \cap kind)) \cup bad],
             Step(e, next, TRUE)
      PROVE  cmd'[e].pc = next /\ cmd'[e].failed /\ world'[e] \subseteq world[e]
  <2>1. world'[e] \subseteq world[e]
    BY <1>t, <1>3
  <2>2. cmd'[e].pc = next /\ cmd'[e].failed
    BY <1>3, StepIs
  <2> QED
    BY <2>1, <2>2
<1> QED
  BY <1>1, <1>2, <1>3 DEF RemoveAll

LEMMA RemoveCleaned ==
  ASSUME TypeOK, NEW e \in Env, Cleaned(e),
         RemoveContainers(e) \/ RemoveVolumes(e) \/ RemoveNetworks(e)
  PROVE  Cleaned(e)'
<1> USE DEF Cleaned, Exists, ConfigPcs, CachePcs, ReadyPcs, RemovePcs
<1>0. Containers \cap {"branch", "worktree"} = {} /\ Volumes \cap {"branch", "worktree"} = {}
  BY DEF Containers, Volumes
<1>1. CASE RemoveContainers(e)
  <2>1. /\ cmd[e].pc = "containers" /\ cmd'[e].pc = "volumes" /\ UNCHANGED <<rows, config>>
        /\ world'[e] \subseteq world[e]
        /\ ~cmd'[e].failed => /\ ~cmd[e].failed /\ cmd'[e].left = cmd[e].left
                              /\ world'[e] = world[e] \ (cmd[e].left \cap Containers)
    BY <1>1, RemoveIs DEF RemoveContainers
  <2>2. ~cmd'[e].failed => world'[e] \cap Containers = {}
    BY <1>0, <2>1
  <2> QED
    BY <2>1, <2>2
<1>2. CASE RemoveVolumes(e)
  <2>1. /\ cmd[e].pc = "volumes" /\ cmd'[e].pc = "networks" /\ UNCHANGED <<rows, config>>
        /\ world'[e] \subseteq world[e]
        /\ ~cmd'[e].failed => /\ ~cmd[e].failed /\ cmd'[e].left = cmd[e].left
                              /\ world'[e] = world[e] \ (cmd[e].left \cap Volumes)
    BY <1>2, RemoveIs DEF RemoveVolumes
  <2>2. ~cmd'[e].failed => world'[e] \cap Volumes = {} /\ world'[e] \cap Containers = {}
    BY <1>0, <2>1
  <2> QED
    BY <2>1, <2>2
<1>3. CASE RemoveNetworks(e)
  <2>1. /\ cmd[e].pc = "networks" /\ cmd'[e].pc = "removeTree" /\ UNCHANGED <<rows, config>>
        /\ world'[e] \subseteq world[e]
        /\ ~cmd'[e].failed => /\ ~cmd[e].failed /\ cmd'[e].left = cmd[e].left
                              /\ world'[e] = world[e] \ (cmd[e].left \cap {"network"})
    BY <1>3, RemoveIs DEF RemoveNetworks
  <2>2. ~cmd'[e].failed => /\ world'[e] \cap Volumes = {} /\ world'[e] \cap Containers = {}
                           /\ "network" \notin world'[e]
    BY <2>1
  <2> QED
    BY <2>1, <2>2
<1> QED
  BY <1>1, <1>2, <1>3

LEMMA TreeCleaned ==
  ASSUME TypeOK, NEW e \in Env, Cleaned(e), RemoveTree(e)
  PROVE  Cleaned(e)'
<1>t. world \in [Env -> SUBSET Things]
  BY DEF TypeOK
<1> DEFINE gone == {"worktree"} \cup (IF cmd[e].branch THEN {"branch"} ELSE {})
<1>0. "worktree" \in gone
  OBVIOUS
<1>1. cmd[e].pc = "removeTree" /\ UNCHANGED <<rows, config>>
  BY DEF RemoveTree, At, store
<1>2. \/ world' = [world EXCEPT ![e] = @ \ gone] /\ Step(e, "forget", FALSE)
      \/ /\ \E bad \in SUBSET gone : world' = [world EXCEPT ![e] = (@ \ gone) \cup (@ \cap bad)]
         /\ Step(e, "forget", TRUE)
  BY DEF RemoveTree
<1> HIDE DEF gone
<1>3. /\ cmd'[e].pc = "forget" /\ world'[e] \subseteq world[e]
      /\ ~cmd'[e].failed => /\ ~cmd[e].failed /\ cmd'[e].left = cmd[e].left
                            /\ "worktree" \notin world'[e]
  BY <1>t, <1>0, <1>2, StepIs
<1> QED
  BY <1>1, <1>3 DEF Cleaned, Exists, ConfigPcs, CachePcs, ReadyPcs, RemovePcs

\* The row goes last, and only if nothing else is left.
LEMMA ForgetCleaned ==
  ASSUME TypeOK, NEW e \in Env, Cleaned(e), Forget(e)
  PROVE  Cleaned(e)'
<1> USE DEF Cleaned, Exists, ConfigPcs, CachePcs, ReadyPcs, RemovePcs
<1>t. rows \in [Env -> RowRec] /\ world[e] \subseteq Things
  BY DEF TypeOK
<1> DEFINE c == [Idle EXCEPT !.pc = "plan", !.then = "plan"]
<1>1. c.pc = "plan"
  BY DEF Idle
<1>2. cmd[e].pc = "forget" /\ UNCHANGED world
  BY DEF Forget, At
<1>3. CASE UNCHANGED <<rows, config>> /\ Return(e)
  BY <1>2, <1>3, ReturnIs
<1>4. CASE /\ ~GivesUp(e) /\ rows' = [rows EXCEPT ![e] = NoRow] /\ config' = config \ {e}
           /\ Set(e, c) \/ Return(e)
  <2>1. world[e] \subseteq {"branch"}
    BY <1>t, <1>2, <1>4 DEF GivesUp, Things
  <2>2. rows'[e].status = "none"
    BY <1>t, <1>4 DEF NoRow
  <2> HIDE DEF c
  <2>3. cmd'[e].pc \in {"plan", "idle"}
    BY <1>1, <1>4, SetIs, ReturnIs
  <2> QED
    BY <1>2, <1>4, <2>1, <2>2, <2>3
<1> QED
  BY <1>3, <1>4 DEF Forget, Return

LEMMA DestroyCleaned ==
  ASSUME Services, TypeOK, NEW e \in Env, Built(e), Cleaned(e),
         Destroy(e) \/ PushRead(e) \/ PushSend(e)
  PROVE  Cleaned(e)'
<1> USE DEF ConfigPcs, CachePcs, ReadyPcs, RemovePcs
<1>t. rows \in [Env -> RowRec] /\ cmd[e] \in CmdRec
  BY DEF TypeOK
<1>1. ASSUME UNCHANGED <<world, config>>, Exists(e) <=> Exists(e)', cmd'[e].pc \notin ConfigPcs \cup RemovePcs
      PROVE  Cleaned(e)'
  BY <1>1 DEF Cleaned
<1>2. CASE Mark(e)
  <2>1. UNCHANGED <<world, config>> /\ Exists(e)
    BY <1>2 DEF Mark, At, Built, Exists
  <2>2. Exists(e)'
    BY <1>t, <1>2, <2>1 DEF Mark, Marked, Exists, RowRec
  <2> DEFINE c == [cmd[e] EXCEPT !.pc = "unpublish", !.known = recorded[e]]
  <2>3. c.pc = "unpublish"
    BY <1>t DEF CmdRec
  <2>4. Set(e, c) \/ Return(e)
    BY <1>2 DEF Mark
  <2> HIDE DEF c
  <2>5. cmd'[e].pc \in {"unpublish", "idle"}
    BY <2>3, <2>4, SetIs, ReturnIs
  <2> QED
    BY <1>1, <2>1, <2>2, <2>5
<1>3. CASE Unpublish(e) \/ DropRoutes(e)
  <2>1. UNCHANGED <<rows, world, config>>
    BY <1>3 DEF Unpublish, DropRoutes, store
  <2>2. \E next \in {"routes", "pushRead", "list"}, failed \in BOOLEAN : Step(e, next, failed)
    BY <1>3 DEF Unpublish, DropRoutes
  <2>3. cmd'[e].pc \in {"routes", "pushRead", "list"}
    BY <2>2, StepIs
  <2> QED
    BY <1>1, <2>1, <2>3 DEF Exists
<1>4. CASE PushRead(e)
  <2> DEFINE c == [cmd[e] EXCEPT !.pc = "pushSend", !.table = routes]
  <2>1. c.pc = "pushSend"
    BY <1>t DEF CmdRec
  <2>2. UNCHANGED <<rows, world, config>> /\ Set(e, c)
    BY <1>4 DEF PushRead, store
  <2> HIDE DEF c
  <2>3. cmd'[e].pc = "pushSend"
    BY <2>1, <2>2, SetIs
  <2> QED
    BY <1>1, <2>2, <2>3 DEF Exists
<1>5. CASE PushSend(e)
  <2> DEFINE c(sent) == [cmd[e] EXCEPT !.pc = "list", !.failed = @ \/ ~sent, !.table = NoTable]
  <2>1. \A sent \in BOOLEAN : c(sent).pc = "list"
    BY <1>t DEF CmdRec
  <2>2. UNCHANGED <<rows, world, config>> /\ (Return(e) \/ \E sent \in BOOLEAN : Set(e, c(sent)))
    BY <1>5 DEF PushSend, store, Return
  <2> HIDE DEF c
  <2>3. cmd'[e].pc \in {"idle", "list"}
    BY <2>1, <2>2, SetIs, ReturnIs
  <2> QED
    BY <1>1, <2>2, <2>3 DEF Exists
<1> QED
  BY <1>2, <1>3, <1>4, <1>5, ListCleaned, RemoveCleaned, TreeCleaned, ForgetCleaned DEF Destroy

LEMMA CleanedInit == Init => CleanedInv
<1> SUFFICES ASSUME Init, NEW e \in Env PROVE Cleaned(e)
  BY DEF CleanedInv
<1>1. cmd[e].pc = "idle"
  BY DEF Init, Idle
<1>2. \/ rows[e].status = "ready" /\ e \in config
      \/ rows[e].status = "none" /\ e \notin config /\ world[e] = {}
  BY DEF Init, NoRow
<1> QED
  BY <1>1, <1>2 DEF Cleaned, Exists, ConfigPcs, CachePcs, ReadyPcs, RemovePcs

LEMMA CleanedStep ==
  ASSUME Services, TypeOK, BuiltInv, CleanedInv, [Next]_vars
  PROVE  CleanedInv'
<1>1. ASSUME NEW e \in Env, Command(e) \/ Run(e)
      PROVE  CleanedInv'
  <2>1. Cleaned(e)'
    <3>1. Built(e) /\ Cleaned(e)
      BY DEF BuiltInv, CleanedInv
    <3>2. CASE Command(e)
      BY <3>1, <3>2, CommandCleaned
    <3>3. CASE Create(e)
      BY <3>1, <3>3, CreateCleaned
    <3>4. CASE Destroy(e) \/ PushRead(e) \/ PushSend(e)
      BY <3>1, <3>4, DestroyCleaned
    <3> QED
      BY <1>1, <3>2, <3>3, <3>4 DEF Run
  <2>2. \A f \in Env \ {e} : /\ cmd'[f] = cmd[f] /\ rows'[f] = rows[f] /\ world'[f] = world[f]
                             /\ f \in config' <=> f \in config
    BY <1>1, CommandOthers, RunOthers
  <2> QED
    BY <2>1, <2>2 DEF CleanedInv, Cleaned, Exists
<1>2. CASE KeeperRead \/ KeeperSend \/ Crash \/ Restart \/ UNCHANGED vars
  <2>1. UNCHANGED <<rows, world, config>>
    BY <1>2 DEF KeeperRead, KeeperSend, Crash, Restart, vars, store
  <2>2. (\A e \in Env : cmd'[e].pc = "idle") \/ UNCHANGED cmd
    BY <1>2 DEF KeeperRead, KeeperSend, Crash, Restart, vars, Idle
  <2> QED
    BY <2>1, <2>2 DEF CleanedInv, Cleaned, Exists, ConfigPcs, CachePcs, ReadyPcs, RemovePcs
<1> QED
  BY <1>1, <1>2 DEF Next

\* An environment without a row and without a command has nothing on the
\* machine but perhaps its branch, whatever failed and whenever the daemon
\* died. Without services nothing but its record stands for a network, and
\* a network whose record was lost is left.
THEOREM NothingIsLeft == ASSUME Services PROVE Spec => []NothingLeft
<1>1. TypeOK /\ BuiltInv /\ CleanedInv /\ [Next]_vars => CleanedInv'
  BY CleanedStep
<1>2. CleanedInv => NothingLeft
  BY DEF CleanedInv, Cleaned, NothingLeft
<1> QED
  BY <1>1, <1>2, CleanedInit, BuiltInit, BuiltStep, TypeCorrect, PTL DEF Spec

-----------------------------------------------------------------------------
(* Nobody serves an environment that is gone: every step keeps ServedInv.  *)

\* A step of e that leaves the tables and the device alone, keeps what rows
\* there are, and begins neither a push nor the last part of a destroy.
LEMMA QuietServed ==
  ASSUME ServedInv, NEW e \in Env, up, UNCHANGED <<routes, edge, keeper, tableLock, device, up>>,
         \A f \in Env : Exists(f) => Exists(f)' /\ rows'[f].ip = rows[f].ip,
         \A f \in Env \ {e} : cmd'[f] = cmd[f],
         \A f \in config' : Exists(f)',
         cmd'[e].pc \notin {"routes"} \cup PushPcs,
         cmd'[e].pc \in LatePcs /\ ~cmd'[e].failed => cmd[e].pc \in LatePcs /\ ~cmd[e].failed,
         TypeOK
  PROVE  ServedInv'
<1>0. ~OwnPush(e)' /\ cmd'[e].pc # "pushSend" /\ cmd'[e].pc # "routes"
  BY DEF OwnPush, PushPcs
<1>1. LockHeld'
  BY <1>0 DEF ServedInv, LockHeld
<1>2. TablesAlive'
  <2>1. ASSUME NEW table \in Table, Alive(table)
        PROVE  Alive(table)'
    BY <2>1 DEF Alive, Table
  <2>2. routes \in Table /\ edge \in Table /\ keeper.table \in Table
        /\ \A f \in Env : cmd[f].table \in Table
    BY DEF TypeOK, CmdRec
  <2>3. Alive(routes)' /\ Alive(edge)'
    BY <2>1, <2>2 DEF ServedInv, TablesAlive, Alive
  <2>4. keeper'.pc = "send" => Alive(keeper.table)'
    BY <2>1, <2>2 DEF ServedInv, TablesAlive, Alive
  <2>5. \A f \in Env : cmd'[f].pc = "pushSend" => cmd'[f] = cmd[f] /\ Alive(cmd[f].table)
    BY <1>0 DEF ServedInv, TablesAlive
  <2> QED
    BY <2>1, <2>2, <2>3, <2>4, <2>5 DEF TablesAlive, Alive
<1>3. DeviceHasRows' /\ ConfigHasRows' /\ DownIdle'
  BY DEF ServedInv, DeviceHasRows, ConfigHasRows, DownIdle, TypeOK
<1>4. ASSUME NEW f \in Env
      PROVE  Unserved(f)' /\ Unpublished(f)'
  <2>1. Unserved(f) /\ Unpublished(f)
    BY DEF ServedInv
  <2>2. \A g \in Env : cmd'[g].pc = "pushSend" => cmd'[g] = cmd[g]
    BY <1>0
  <2>3. CASE f = e
    BY <1>0, <2>1, <2>2, <2>3 DEF Unserved, Unpublished, Without
  <2>4. CASE f # e
    BY <1>0, <2>1, <2>2, <2>4 DEF Unserved, Unpublished, Without, OwnPush
  <2> QED
    BY <2>3, <2>4
<1> QED
  BY <1>1, <1>2, <1>3, <1>4 DEF ServedInv

\* A create puts nothing on the edge, and on the device its own address.
LEMMA CreateServed ==
  ASSUME TypeOK, ServedInv, NEW e \in Env, Built(e), Create(e)
  PROVE  ServedInv'
<1> USE DEF PushPcs, LatePcs, RemovePcs
<1>t. cmd[e] \in CmdRec /\ rows \in [Env -> RowRec]
  BY DEF TypeOK
<1>u. up /\ UNCHANGED <<routes, edge, keeper, tableLock, up>>
  BY DEF Create, Plan, AllocatePorts, AllocateAddress, CreateRow, ResetBranch, MakeBranch,
         MakeWorktree, SaveConfig, MakeNetwork, MakeCache, Deps, MakeVolume, MakeDep, WaitReady,
         Publish, Ready, Fail, Make, At, store
<1>o. \A f \in Env \ {e} : cmd'[f] = cmd[f] /\ rows'[f] = rows[f] /\ (f \in config' <=> f \in config)
  BY RunOthers DEF Run
<1>c. \A f \in config : Exists(f)
  BY DEF ServedInv, ConfigHasRows
\* Up to the row: an environment without one has no address on the device.
<1>1. CASE \/ \E from, reset \in BOOLEAN : Plan(e, from, reset)
           \/ AllocatePorts(e) \/ AllocateAddress(e) \/ CreateRow(e)
  <2>1. UNCHANGED <<device, config>>
    BY <1>1 DEF Plan, AllocatePorts, AllocateAddress, CreateRow, store
  <2>2. cmd'[e].pc \in {"idle", "ports", "address", "insert", "worktree", "branch", "reset"}
    BY <1>1, ChoosePc
  <2>3. ~Exists(e)
    BY <1>1 DEF Plan, AllocatePorts, AllocateAddress, CreateRow, At, Built, ChoosePcs, Exists
  <2>4. \A f \in Env : Exists(f) => Exists(f)' /\ rows'[f].ip = rows[f].ip
    BY <1>o, <2>3 DEF Exists
  <2>5. \A f \in config' : Exists(f)'
    BY <1>c, <2>1, <2>4 DEF TypeOK
  <2> QED
    BY <1>u, <1>o, <2>1, <2>2, <2>4, <2>5, QuietServed
<1>2. CASE \/ ResetBranch(e) \/ MakeBranch(e) \/ MakeWorktree(e) \/ SaveConfig(e)
           \/ MakeNetwork(e) \/ MakeCache(e) \/ Deps(e) \/ MakeVolume(e) \/ MakeDep(e)
           \/ WaitReady(e)
  <2>1. UNCHANGED <<rows, device>> /\ cmd[e].pc \in BuildPcs /\ config' \subseteq config \cup {e}
    BY <1>2 DEF ResetBranch, MakeBranch, MakeWorktree, SaveConfig, MakeNetwork, MakeCache, Deps,
         MakeVolume, MakeDep, WaitReady, Make, At, store,
         BuildPcs, BranchPcs, TreePcs, ConfigPcs, CachePcs, ReadyPcs
  <2>2. cmd'[e].pc \in RowPcs
    BY <1>2, MakeMoves DEF Moves
  <2>3. Exists(e)
    BY <2>1 DEF Built, Exists
  <2>4. \A f \in config' : Exists(f)'
    BY <1>c, <2>1, <2>3 DEF Exists
  <2>5. \A f \in Env : Exists(f) => Exists(f)' /\ rows'[f].ip = rows[f].ip
    BY <2>1 DEF Exists
  <2> QED
    BY <1>u, <1>o, <2>1, <2>2, <2>4, <2>5, QuietServed DEF RowPcs
<1>3. CASE Ready(e) \/ Fail(e)
  <2>1. UNCHANGED <<device, config>>
    BY <1>3 DEF Ready, Fail
  <2>2. cmd'[e].pc \in {"idle", "fail"}
    BY <1>3, GotoIs, ReturnIs DEF Ready, Fail
  <2>3. Exists(e) => Exists(e)' /\ rows'[e].ip = rows[e].ip
    BY <1>3, <1>t DEF Ready, Fail, Exists, RowRec
  <2>4. \A f \in Env : Exists(f) => Exists(f)' /\ rows'[f].ip = rows[f].ip
    BY <1>o, <2>3 DEF Exists
  <2>5. \A f \in config' : Exists(f)'
    BY <1>c, <2>1, <2>4 DEF TypeOK
  <2> QED
    BY <1>u, <1>o, <2>1, <2>2, <2>4, <2>5, QuietServed
<1>4. CASE Publish(e)
  <2>1. /\ UNCHANGED <<rows, config>> /\ cmd[e].pc = "publish" /\ cmd'[e].pc = "ready"
        /\ device' \subseteq device \cup {<<a, e>> : a \in HasAddr(e)}
    BY <1>4, GotoIs DEF Publish, At, store
  <2>2. Exists(e)
    BY <2>1 DEF Built, Exists, BuildPcs, BranchPcs, TreePcs, ConfigPcs, CachePcs, ReadyPcs
  <2>3. \A d \in device' : d \in device \/ (d[1] = rows[e].ip /\ d[2] = e)
    BY <2>1 DEF HasAddr
  <2>4. DeviceHasRows'
    BY <2>1, <2>2, <2>3 DEF ServedInv, DeviceHasRows, Exists
  <2>5. LockHeld' /\ DownIdle' /\ ConfigHasRows'
    BY <1>u, <1>o, <2>1 DEF ServedInv, LockHeld, DownIdle, ConfigHasRows, Exists
  <2>6. TablesAlive'
    BY <1>u, <1>o, <2>1 DEF ServedInv, TablesAlive, Alive, Exists
  <2>7. ASSUME NEW f \in Env
        PROVE  Unserved(f)' /\ Unpublished(f)'
    <3>1. Unserved(f) /\ Unpublished(f)
      BY DEF ServedInv
    <3>2. \A g \in Env : cmd'[g].pc = "pushSend" => cmd'[g] = cmd[g]
      BY <1>o, <2>1
    <3>3. CASE f = e
      BY <2>1, <3>3 DEF Unserved, Unpublished, OwnPush
    <3>4. CASE f # e
      BY <1>u, <1>o, <2>3, <3>1, <3>2, <3>4 DEF Unserved, Unpublished, Without, OwnPush
    <3> QED
      BY <3>3, <3>4
  <2> QED
    BY <2>4, <2>5, <2>6, <2>7 DEF ServedInv
<1> QED
  BY <1>1, <1>2, <1>3, <1>4 DEF Create

\* A step of e that sends no table and brings no other environment into the
\* routes: what is to be shown is about e alone.
LEMMA OwnServed ==
  ASSUME TypeOK, ServedInv, NEW e \in Env, up, UNCHANGED <<rows, config, edge, keeper, tableLock, up>>,
         device' \subseteq device,
         \A f \in Env \ {e} : cmd'[f] = cmd[f],
         cmd'[e].pc # "pushSend",
         Alive(routes'),
         \A f \in Env \ {e} : Without(routes, f) => Without(routes', f),
         Unserved(e)', Unpublished(e)'
  PROVE  ServedInv'
<1>1. LockHeld' /\ DeviceHasRows' /\ ConfigHasRows' /\ DownIdle'
  BY DEF ServedInv, LockHeld, DeviceHasRows, ConfigHasRows, DownIdle, Exists
<1>2. TablesAlive'
  BY DEF ServedInv, TablesAlive, Alive, Exists
<1>3. ASSUME NEW f \in Env \ {e}
      PROVE  Unserved(f)' /\ Unpublished(f)'
  <2>1. Unserved(f) /\ Unpublished(f)
    BY DEF ServedInv
  <2>2. \A g \in Env : cmd'[g].pc = "pushSend" => cmd'[g] = cmd[g]
    OBVIOUS
  <2> QED
    BY <2>1, <2>2 DEF Unserved, Unpublished, Without, OwnPush
<1> QED
  BY <1>1, <1>2, <1>3 DEF ServedInv

\* No table and no address is of an environment that has no row.
LEMMA GoneUnserved ==
  ASSUME TypeOK, ServedInv, NEW e \in Env, ~Exists(e)
  PROVE  /\ Without(routes, e) /\ Without(edge, e)
         /\ \A f \in Env : cmd[f].pc = "pushSend" => Without(cmd[f].table, e)
         /\ keeper.pc = "send" => Without(keeper.table, e)
         /\ \A d \in device : d[2] # e
<1>1. ASSUME NEW table, Alive(table)
      PROVE  Without(table, e)
  BY <1>1, EnvLifeAssumption DEF Alive, Without
<1> QED
  BY <1>1 DEF ServedInv, TablesAlive, DeviceHasRows

LEMMA CommandServed ==
  ASSUME TypeOK, ServedInv, NEW e \in Env, Command(e)
  PROVE  ServedInv'
<1> USE DEF PushPcs, LatePcs, RemovePcs
<1>o. UNCHANGED <<rows, config>> /\ \A f \in Env \ {e} : cmd'[f] = cmd[f]
  BY CommandOthers
<1>u. up /\ UNCHANGED <<edge, keeper, tableLock, device, up>>
  BY DEF Command, BeginCreate, BeginDestroy, BeginExpose, BeginUnexpose, Begin
<1>a. Alive(routes) /\ \A f \in config : Exists(f)
  BY DEF ServedInv, TablesAlive, ConfigHasRows
<1>1. CASE BeginCreate(e)
  <2> DEFINE c == [Idle EXCEPT !.pc = IF Exists(e) THEN "mark" ELSE "plan",
                               !.then = IF Exists(e) THEN "plan" ELSE "idle"]
  <2>1. c.pc \in {"mark", "plan"}
    BY DEF Idle
  <2>2. Set(e, c) /\ UNCHANGED routes
    BY <1>1 DEF BeginCreate, store
  <2> HIDE DEF c
  <2>3. cmd'[e].pc \in {"mark", "plan"}
    BY <2>1, <2>2, SetIs
  <2>4. Unserved(e)' /\ Unpublished(e)'
    BY <2>3 DEF Unserved, Unpublished, OwnPush
  <2> QED
    BY <1>o, <1>u, <1>a, <2>2, <2>3, <2>4, OwnServed DEF Alive, Exists
<1>2. ASSUME NEW branch \in BOOLEAN, BeginDestroy(e, branch)
      PROVE  ServedInv'
  <2> DEFINE c == [Idle EXCEPT !.pc = IF Exists(e) THEN "mark" ELSE "list", !.branch = branch]
  <2>1. c.pc = IF Exists(e) THEN "mark" ELSE "list"
    BY DEF Idle
  <2>2. Set(e, c) /\ UNCHANGED routes
    BY <1>2 DEF BeginDestroy, store
  <2> HIDE DEF c
  <2>3. cmd'[e].pc = IF Exists(e) THEN "mark" ELSE "list"
    BY <2>1, <2>2, SetIs
  <2>4. Unserved(e)' /\ Unpublished(e)'
    <3>1. CASE Exists(e)
      BY <2>3, <3>1 DEF Unserved, Unpublished, OwnPush
    <3>2. CASE ~Exists(e)
      <4>1. \A f \in Env : cmd'[f].pc = "pushSend" => cmd'[f] = cmd[f]
        BY <1>o, <2>3
      <4> QED
        BY <1>o, <1>u, <2>2, <2>3, <3>2, <4>1, GoneUnserved DEF Unserved, Unpublished, OwnPush, Without
    <3> QED
      BY <3>1, <3>2
  <2> QED
    BY <1>o, <1>u, <1>a, <2>2, <2>3, <2>4, OwnServed DEF Alive, Exists
<1>3. ASSUME ThenPush(e)
      PROVE  cmd'[e].pc # "pushSend" /\ Unserved(e)' /\ Unpublished(e)'
  <2> DEFINE c == [Idle EXCEPT !.pc = "pushRead", !.then = "expose"]
  <2>1. c.pc = "pushRead" /\ c.then = "expose"
    BY DEF Idle
  <2>2. Set(e, c) \/ Return(e)
    BY <1>3 DEF ThenPush
  <2> HIDE DEF c
  <2>3. \/ cmd'[e].pc = "pushRead" /\ cmd'[e].then = "expose"
        \/ cmd'[e].pc = "idle"
    BY <2>1, <2>2, SetIs, ReturnIs
  <2> QED
    BY <2>3 DEF Unserved, Unpublished, OwnPush
<1>4. ASSUME NEW h \in Host, BeginExpose(e, h)
      PROVE  ServedInv'
  <2>1. \A g \in Host : routes'[g] \in {routes[g], e}
    BY <1>4 DEF BeginExpose, TypeOK, Table
  <2>2. Exists(e) /\ ThenPush(e)
    BY <1>4, <1>a DEF BeginExpose
  <2>3. Alive(routes')
    BY <1>a, <2>1, <2>2 DEF Alive
  <2>4. \A f \in Env \ {e} : Without(routes, f) => Without(routes', f)
    BY <2>1 DEF Without
  <2> QED
    BY <1>o, <1>u, <1>3, <2>2, <2>3, <2>4, OwnServed
<1>5. ASSUME NEW H \in SUBSET Host, BeginUnexpose(e, H)
      PROVE  ServedInv'
  <2>1. \A g \in Host : routes'[g] \in {routes[g], None}
    BY <1>5 DEF BeginUnexpose
  <2>2. ThenPush(e)
    BY <1>5 DEF BeginUnexpose
  <2>3. Alive(routes')
    BY <1>a, <2>1 DEF Alive
  <2>4. \A f \in Env \ {e} : Without(routes, f) => Without(routes', f)
    BY <2>1, EnvLifeAssumption DEF Without
  <2> QED
    BY <1>o, <1>u, <1>3, <2>2, <2>3, <2>4, OwnServed
<1> QED
  BY <1>1, <1>2, <1>4, <1>5 DEF Command

\* What Unpublish takes off the device is every address e has there.
LEMMA UnpublishServed ==
  ASSUME TypeOK, ServedInv, NEW e \in Env, Unpublish(e)
  PROVE  ServedInv'
<1> USE DEF PushPcs, LatePcs, RemovePcs
<1>o. \A f \in Env \ {e} : cmd'[f] = cmd[f]
  BY RunOthers DEF Run, Destroy
<1>u. up /\ UNCHANGED <<rows, config, routes, edge, keeper, tableLock, up>> /\ device' \subseteq device
  BY DEF Unpublish, At, store
<1>1. \/ device' = {d \in device : d[1] \notin HasAddr(e)} /\ Step(e, "routes", FALSE)
      \/ Step(e, "routes", TRUE)
  BY DEF Unpublish
<1>2. cmd'[e].pc = "routes" /\ (cmd'[e].failed \/ device' = {d \in device : d[1] \notin HasAddr(e)})
  BY <1>1, StepIs
<1>3. ASSUME NEW d \in device, d[2] = e
      PROVE  d[1] \in HasAddr(e)
  <2>1. d[1] \in Addr /\ 0 \notin Addr
    BY EnvLifeAssumption DEF TypeOK, Addr
  <2>2. rows[e].ip = d[1]
    BY <1>3 DEF ServedInv, DeviceHasRows
  <2> QED
    BY <2>1, <2>2 DEF HasAddr
<1>4. Unserved(e)' /\ Unpublished(e)'
  BY <1>2, <1>3 DEF Unserved, Unpublished, OwnPush
<1>5. Alive(routes')
  BY <1>u DEF ServedInv, TablesAlive, Alive
<1> QED
  BY <1>o, <1>u, <1>2, <1>4, <1>5, OwnServed

\* dropRoutes: e is out of the routes before its push reads them.
LEMMA DropServed ==
  ASSUME TypeOK, ServedInv, NEW e \in Env, DropRoutes(e)
  PROVE  ServedInv'
<1> USE DEF PushPcs, LatePcs, RemovePcs
<1>o. \A f \in Env \ {e} : cmd'[f] = cmd[f]
  BY RunOthers DEF Run, Destroy
<1>u. up /\ UNCHANGED <<rows, config, device, edge, keeper, tableLock, up>> /\ cmd[e].pc = "routes"
  BY DEF DropRoutes, At
<1>1. PICK H \in SUBSET {h \in Host : routes[h] = e} :
        /\ routes' = [h \in Host |-> IF h \in H THEN None ELSE routes[h]]
        /\ \/ (\A h \in Host \ H : routes[h] # e) /\ Step(e, "pushRead", FALSE)
           \/ Step(e, "list", TRUE)
  BY DEF DropRoutes
<1>2. \A h \in Host : routes'[h] \in {routes[h], None}
  BY <1>1
<1>3. Alive(routes') /\ \A f \in Env \ {e} : Without(routes, f) => Without(routes', f)
  BY <1>2, EnvLifeAssumption DEF Alive, Without, ServedInv, TablesAlive
<1>4. CASE (\A h \in Host \ H : routes[h] # e) /\ Step(e, "pushRead", FALSE)
  <2>1. cmd'[e].pc = "pushRead" /\ (cmd'[e].failed <=> cmd[e].failed)
    BY <1>4, StepIs
  <2>2. Without(routes', e)
    BY <1>1, <1>4, EnvLifeAssumption DEF Without
  <2>3. Unserved(e)'
    BY <2>1, <2>2 DEF Unserved, OwnPush, Without
  <2>4. Unpublished(e)'
    BY <1>u, <2>1 DEF ServedInv, Unpublished
  <2> QED
    BY <1>o, <1>u, <1>3, <2>1, <2>3, <2>4, OwnServed
<1>5. CASE Step(e, "list", TRUE)
  <2>1. cmd'[e].pc = "list" /\ cmd'[e].failed
    BY <1>5, StepIs
  <2>2. Unserved(e)' /\ Unpublished(e)'
    BY <2>1 DEF Unserved, Unpublished, OwnPush
  <2> QED
    BY <1>o, <1>u, <1>3, <2>1, <2>2, OwnServed
<1> QED
  BY <1>1, <1>4, <1>5

\* Mark, the listing and the removals touch no table and no address.
LEMMA RemoveServed ==
  ASSUME TypeOK, ServedInv, NEW e \in Env,
         \/ Mark(e) \/ List(e) \/ RemoveTree(e)
         \/ RemoveContainers(e) \/ RemoveVolumes(e) \/ RemoveNetworks(e)
  PROVE  ServedInv'
<1> USE DEF PushPcs, LatePcs, RemovePcs
<1>t. cmd[e] \in CmdRec /\ rows \in [Env -> RowRec]
  BY DEF TypeOK
<1>o. \A f \in Env \ {e} : cmd'[f] = cmd[f] /\ rows'[f] = rows[f]
  BY RunOthers DEF Run, Destroy
<1>u. up /\ UNCHANGED <<config, routes, device, edge, keeper, tableLock, up>>
  BY DEF Mark, List, RemoveTree, RemoveContainers, RemoveVolumes, RemoveNetworks, RemoveAll, At, store
<1>1. Exists(e) => Exists(e)' /\ rows'[e].ip = rows[e].ip
  <2>1. CASE Mark(e)
    BY <1>t, <2>1 DEF Mark, Marked, Exists, RowRec
  <2> QED
    BY <2>1 DEF List, RemoveTree, RemoveContainers, RemoveVolumes, RemoveNetworks, RemoveAll, store, Exists
<1>2. \A f \in Env : Exists(f) => Exists(f)' /\ rows'[f].ip = rows[f].ip
  BY <1>o, <1>1 DEF Exists
<1>3. \A f \in config' : Exists(f)'
  BY <1>u, <1>2 DEF ServedInv, ConfigHasRows, TypeOK
<1>4. CASE Mark(e)
  <2> DEFINE c == [cmd[e] EXCEPT !.pc = "unpublish", !.known = recorded[e]]
  <2>1. c.pc = "unpublish"
    BY <1>t DEF CmdRec
  <2>2. Set(e, c) \/ Return(e)
    BY <1>4 DEF Mark
  <2> HIDE DEF c
  <2>3. cmd'[e].pc \in {"unpublish", "idle"}
    BY <2>1, <2>2, SetIs, ReturnIs
  <2> QED
    BY <1>o, <1>u, <1>2, <1>3, <2>3, QuietServed
<1>5. CASE List(e)
  <2> DEFINE c == [cmd[e] EXCEPT !.pc = "containers", !.left = Leftovers(e, Labelled(e))]
             d == [cmd[e] EXCEPT !.pc = "containers", !.left = Leftovers(e, {}), !.failed = TRUE]
  <2>1. c.pc = "containers" /\ d.pc = "containers" /\ d.failed /\ c.failed = cmd[e].failed
    BY <1>t DEF CmdRec
  <2>2. cmd[e].pc = "list" /\ (Set(e, c) \/ Set(e, d))
    BY <1>5 DEF List, At
  <2> HIDE DEF c, d
  <2>3. cmd'[e].pc = "containers" /\ (cmd'[e].failed \/ cmd'[e].failed = cmd[e].failed)
    BY <2>1, <2>2, SetIs
  <2> QED
    BY <1>o, <1>u, <1>2, <1>3, <2>2, <2>3, QuietServed
<1>6. CASE RemoveTree(e) \/ RemoveContainers(e) \/ RemoveVolumes(e) \/ RemoveNetworks(e)
  <2>1. /\ cmd[e].pc \in RemovePcs
        /\ \E next \in RemovePcs, failed \in BOOLEAN : Step(e, next, failed)
    BY <1>6 DEF RemoveTree, RemoveContainers, RemoveVolumes, RemoveNetworks, RemoveAll, At
  <2>2. cmd'[e].pc \in RemovePcs /\ (~cmd'[e].failed => ~cmd[e].failed)
    BY <2>1, StepIs
  <2> QED
    BY <1>o, <1>u, <1>2, <1>3, <2>1, <2>2, QuietServed
<1> QED
  BY <1>4, <1>5, <1>6

\* The row goes when no table and no address is e's any more.
LEMMA ForgetServed ==
  ASSUME TypeOK, ServedInv, NEW e \in Env, Forget(e)
  PROVE  ServedInv'
<1> USE DEF PushPcs, LatePcs, RemovePcs
<1>t. rows \in [Env -> RowRec]
  BY DEF TypeOK
<1>o. \A f \in Env \ {e} : cmd'[f] = cmd[f] /\ rows'[f] = rows[f]
  BY RunOthers DEF Run, Destroy
<1>u. up /\ UNCHANGED <<device, edge, keeper, tableLock, up>> /\ cmd[e].pc = "forget"
  BY DEF Forget, At
<1> DEFINE c == [Idle EXCEPT !.pc = "plan", !.then = "plan"]
<1>1. c.pc = "plan"
  BY DEF Idle
<1>2. CASE UNCHANGED <<rows, config, routes>> /\ Return(e)
  BY <1>o, <1>u, <1>2, ReturnIs, QuietServed DEF ServedInv, ConfigHasRows, Exists
<1>3. CASE /\ ~GivesUp(e) /\ rows' = [rows EXCEPT ![e] = NoRow] /\ config' = config \ {e}
           /\ routes' = [h \in Host |-> IF routes[h] = e THEN None ELSE routes[h]]
           /\ Set(e, c) \/ Return(e)
  <2> HIDE DEF c
  <2>1. cmd'[e].pc \in {"plan", "idle"}
    BY <1>1, <1>3, SetIs, ReturnIs
  <2>2. /\ Without(edge, e) /\ \A d \in device : d[2] # e
        /\ \A f \in Env : cmd[f].pc = "pushSend" => Without(cmd[f].table, e)
        /\ keeper.pc = "send" => Without(keeper.table, e)
    BY <1>3, <1>u DEF ServedInv, Unserved, Unpublished, GivesUp
  <2>3. \A f \in Env : cmd'[f].pc = "pushSend" => f # e /\ cmd'[f] = cmd[f]
    BY <1>o, <2>1
  <2>4. \A h \in Host : routes'[h] # e /\ routes'[h] \in {routes[h], None}
    BY <1>3, EnvLifeAssumption
  <2>5. ASSUME NEW table \in Table, Alive(table), Without(table, e)
        PROVE  \A h \in Host : table[h] # None => rows'[table[h]].status # "none"
    BY <1>o, <2>5 DEF Alive, Without, Exists, Table
  <2>6. /\ routes \in Table /\ edge \in Table /\ keeper.table \in Table
        /\ \A f \in Env : cmd[f].table \in Table
    BY DEF TypeOK, CmdRec
  <2>7. TablesAlive'
    <3>1. \A h \in Host : routes'[h] # None => rows'[routes'[h]].status # "none"
      BY <1>o, <2>4, <2>6 DEF ServedInv, TablesAlive, Alive, Exists, Table
    <3>2. \A h \in Host : edge[h] # None => rows'[edge[h]].status # "none"
      BY <2>2, <2>5, <2>6 DEF ServedInv, TablesAlive
    <3>3. \A f \in Env : cmd'[f].pc = "pushSend" =>
            \A h \in Host : cmd'[f].table[h] # None => rows'[cmd'[f].table[h]].status # "none"
      BY <2>2, <2>3, <2>5, <2>6 DEF ServedInv, TablesAlive
    <3>4. keeper.pc = "send" =>
            \A h \in Host : keeper.table[h] # None => rows'[keeper.table[h]].status # "none"
      BY <2>2, <2>5, <2>6 DEF ServedInv, TablesAlive
    <3> QED
      BY <1>u, <3>1, <3>2, <3>3, <3>4 DEF TablesAlive, Alive, Exists
  <2>8. LockHeld' /\ DownIdle'
    BY <1>u, <2>3 DEF ServedInv, LockHeld, DownIdle
  <2>9. DeviceHasRows' /\ ConfigHasRows'
    BY <1>o, <1>u, <1>3, <2>2 DEF ServedInv, DeviceHasRows, ConfigHasRows, Exists, TypeOK
  <2>10. ASSUME NEW f \in Env
         PROVE  Unserved(f)' /\ Unpublished(f)'
    <3>1. Unserved(f) /\ Unpublished(f)
      BY DEF ServedInv
    <3>2. Without(routes, f) => Without(routes', f)
      BY <2>4, EnvLifeAssumption DEF Without
    <3>3. CASE f = e
      BY <2>1, <3>3 DEF Unserved, Unpublished, OwnPush
    <3>4. CASE f # e
      BY <1>o, <1>u, <2>3, <3>1, <3>2, <3>4 DEF Unserved, Unpublished, Without, OwnPush
    <3> QED
      BY <3>3, <3>4
  <2> QED
    BY <2>7, <2>8, <2>9, <2>10 DEF ServedInv
<1> QED
  BY <1>2, <1>3 DEF Forget, Return

\* A push reads the routes as they are, and the lock was free, so nobody else
\* has a table under way.
LEMMA ReadServed ==
  ASSUME TypeOK, ServedInv, (\E e \in Env : PushRead(e)) \/ KeeperRead
  PROVE  ServedInv'
<1> USE DEF PushPcs, LatePcs, RemovePcs
<1>0. /\ up /\ UNCHANGED <<rows, config, routes, device, edge, up>>
      /\ keeper.pc # "send" /\ \A f \in Env : cmd[f].pc # "pushSend"
  BY EnvLifeAssumption DEF PushRead, KeeperRead, TableFree, At, store, ServedInv, LockHeld
<1>1. DeviceHasRows' /\ ConfigHasRows'
  BY <1>0 DEF ServedInv, DeviceHasRows, ConfigHasRows, Exists
<1>a. Alive(routes)' /\ Alive(edge)' /\ \A f \in Env : Unserved(f) /\ Unpublished(f)
  BY <1>0 DEF ServedInv, TablesAlive, Alive, Exists
<1>2. ASSUME NEW e \in Env, PushRead(e)
      PROVE  ServedInv'
  <2> DEFINE c == [cmd[e] EXCEPT !.pc = "pushSend", !.table = routes]
  <2>1. /\ c.pc = "pushSend" /\ c.table = routes /\ c.then = cmd[e].then
        /\ c.failed = cmd[e].failed
    BY DEF TypeOK, CmdRec
  <2>2. Set(e, c) /\ tableLock' = e /\ keeper' = keeper /\ cmd[e].pc = "pushRead"
    BY <1>2 DEF PushRead, At
  <2> HIDE DEF c
  <2>3. /\ cmd'[e].pc = "pushSend" /\ cmd'[e].table = routes /\ cmd'[e].then = cmd[e].then
        /\ cmd'[e].failed = cmd[e].failed
        /\ \A f \in Env \ {e} : cmd'[f] = cmd[f]
    BY <2>1, <2>2, SetIs
  <2>4. LockHeld' /\ DownIdle'
    BY <1>0, <2>2, <2>3 DEF LockHeld, DownIdle
  <2>5. TablesAlive'
    BY <1>0, <1>a, <2>2, <2>3 DEF TablesAlive, Alive
  <2>6. ASSUME NEW f \in Env
        PROVE  Unserved(f)' /\ Unpublished(f)'
    <3>1. \A g \in Env : cmd'[g].pc = "pushSend" => cmd'[g].table = routes
      BY <1>0, <2>3
    <3>2. CASE f = e
      BY <1>0, <1>a, <2>2, <2>3, <3>2 DEF Unserved, Unpublished, OwnPush, Without
    <3>3. CASE f # e
      BY <1>0, <1>a, <2>2, <2>3, <3>1, <3>3 DEF Unserved, Unpublished, OwnPush, Without
    <3> QED
      BY <3>2, <3>3
  <2> QED
    BY <1>1, <2>4, <2>5, <2>6 DEF ServedInv
<1>3. CASE KeeperRead
  <2>1. keeper'.pc = "send" /\ keeper'.table = routes /\ cmd' = cmd /\ tableLock' = Keeper
    BY <1>3 DEF KeeperRead
  <2>2. LockHeld' /\ DownIdle'
    BY <1>0, <2>1 DEF LockHeld, DownIdle
  <2>3. TablesAlive'
    BY <1>0, <1>a, <2>1 DEF TablesAlive, Alive
  <2>4. ASSUME NEW f \in Env
        PROVE  Unserved(f)' /\ Unpublished(f)'
    BY <1>0, <1>a, <2>1 DEF Unserved, Unpublished, OwnPush, Without
  <2> QED
    BY <1>1, <2>2, <2>3, <2>4 DEF ServedInv
<1> QED
  BY <1>2, <1>3

\* The table that arrives is the only one under way, and it carries nobody
\* whose destroy is past its own push.
LEMMA SendServed ==
  ASSUME TypeOK, ServedInv, (\E e \in Env : PushSend(e)) \/ KeeperSend
  PROVE  ServedInv'
<1> USE DEF PushPcs, LatePcs, RemovePcs
<1>0. up /\ UNCHANGED <<rows, config, routes, device, up>> /\ tableLock' = None
  BY DEF PushSend, KeeperSend, At, store, Unlock
<1>1. DeviceHasRows' /\ ConfigHasRows'
  BY <1>0 DEF ServedInv, DeviceHasRows, ConfigHasRows, Exists
<1>a. Alive(routes) /\ Alive(edge) /\ \A f \in Env : Unserved(f) /\ Unpublished(f)
  BY DEF ServedInv, TablesAlive
<1>2. ASSUME NEW e \in Env, PushSend(e)
      PROVE  ServedInv'
  <2>0. cmd[e].pc = "pushSend" /\ Alive(cmd[e].table)
    BY <1>2 DEF PushSend, At, ServedInv, TablesAlive
  <2>1. PICK sent \in BOOLEAN :
          /\ Sent(sent, cmd[e].table)
          /\ Set(e, IF cmd[e].then = "expose" THEN Idle
                    ELSE [cmd[e] EXCEPT !.pc = "list", !.failed = @ \/ ~sent, !.table = NoTable])
    BY <1>2 DEF PushSend
  <2>2. edge' \in {edge, cmd[e].table} /\ (sent => edge' = cmd[e].table)
    BY <2>1 DEF Sent
  <2> DEFINE c == [cmd[e] EXCEPT !.pc = "list", !.failed = @ \/ ~sent, !.table = NoTable]
  <2>3. c.pc = "list" /\ (c.failed <=> (cmd[e].failed \/ ~sent)) /\ Idle.pc = "idle"
    BY DEF TypeOK, CmdRec, Idle
  <2>4. Set(e, IF cmd[e].then = "expose" THEN Idle ELSE c)
    BY <2>1
  <2> HIDE DEF c
  <2>5. /\ \/ cmd'[e].pc = "idle"
           \/ /\ cmd[e].then # "expose" /\ cmd'[e].pc = "list"
              /\ cmd'[e].failed <=> (cmd[e].failed \/ ~sent)
        /\ \A f \in Env \ {e} : cmd'[f] = cmd[f]
    BY <2>3, <2>4, SetIs
  <2>6. /\ keeper' = keeper /\ keeper.pc # "send"
        /\ \A f \in Env : cmd'[f].pc # "pushSend"
    <3>1. tableLock = e
      BY <2>0 DEF ServedInv, LockHeld
    <3>2. keeper' = keeper
      BY <1>2 DEF PushSend
    <3> QED
      BY <2>5, <3>1, <3>2, EnvLifeAssumption DEF ServedInv, LockHeld
  <2>7. LockHeld' /\ DownIdle'
    BY <1>0, <2>6 DEF LockHeld, DownIdle
  <2>8. TablesAlive'
    BY <1>0, <1>a, <2>0, <2>2, <2>6 DEF TablesAlive, Alive, Exists
  <2>9. ASSUME NEW f \in Env
        PROVE  Unserved(f)' /\ Unpublished(f)'
    <3>1. CASE f = e
      BY <1>0, <1>a, <2>0, <2>2, <2>5, <2>6, <3>1 DEF Unserved, Unpublished, OwnPush, Without
    <3>2. CASE f # e
      <4>1. cmd'[f] = cmd[f]
        BY <2>5, <3>2
      <4>2. cmd[f].pc \in LatePcs /\ ~cmd[f].failed => Without(edge', f)
        BY <1>a, <2>0, <2>2 DEF Unserved
      <4> QED
        BY <1>0, <1>a, <2>6, <4>1, <4>2 DEF Unserved, Unpublished, OwnPush, Without
    <3> QED
      BY <3>1, <3>2
  <2> QED
    BY <1>1, <2>7, <2>8, <2>9 DEF ServedInv
<1>3. CASE KeeperSend
  <2>1. /\ keeper.pc = "send" /\ keeper'.pc = "idle" /\ cmd' = cmd
        /\ edge' \in {edge, keeper.table}
    BY <1>3 DEF KeeperSend, Sent
  <2>2. Alive(edge')
    BY <1>a, <2>1 DEF ServedInv, TablesAlive
  <2>3. \A f \in Env : cmd[f].pc # "pushSend"
    BY <2>1, EnvLifeAssumption DEF ServedInv, LockHeld
  <2>4. LockHeld' /\ DownIdle'
    BY <1>0, <2>1, <2>3 DEF LockHeld, DownIdle
  <2>5. TablesAlive'
    BY <1>0, <1>a, <2>1, <2>2, <2>3 DEF TablesAlive, Alive, Exists
  <2>6. ASSUME NEW f \in Env
        PROVE  Unserved(f)' /\ Unpublished(f)'
    <3>1. cmd[f].pc \in LatePcs /\ ~cmd[f].failed => Without(edge', f)
      BY <1>a, <2>1 DEF Unserved
    <3> QED
      BY <1>0, <1>a, <2>1, <2>3, <3>1 DEF Unserved, Unpublished, OwnPush, Without
  <2> QED
    BY <1>1, <2>4, <2>5, <2>6 DEF ServedInv
<1> QED
  BY <1>2, <1>3

\* The daemon's death and the next start: whichever table arrived names only
\* rows, and Republish adds the addresses of rows.
LEMMA DaemonServed ==
  ASSUME TypeOK, ServedInv, Crash \/ Restart
  PROVE  ServedInv'
<1> USE DEF PushPcs, LatePcs, RemovePcs
<1>0. UNCHANGED <<rows, config, routes>>
  BY DEF Crash, Restart, store
<1>1. /\ keeper'.pc # "send" /\ \A e \in Env : cmd'[e].pc = "idle"
  <2>1. CASE Crash
    BY <2>1 DEF Crash, Idle
  <2>2. CASE Restart
    <3>1. \A e \in Env : cmd[e].pc = "idle"
      BY <2>2 DEF Restart, ServedInv, DownIdle
    <3>2. keeper.pc # "send"
      BY <2>2 DEF Restart, ServedInv, DownIdle
    <3> QED
      BY <2>2, <3>1, <3>2 DEF Restart
  <2> QED
    BY <2>1, <2>2
<1>2. LockHeld' /\ DownIdle' /\ ConfigHasRows'
  BY <1>0, <1>1 DEF ServedInv, LockHeld, DownIdle, ConfigHasRows, Exists
<1>3. DeviceHasRows'
  <2>1. CASE Crash
    BY <2>1 DEF Crash, DeviceHasRows
  <2>2. CASE Restart
    BY <1>0, <2>2 DEF Restart, DeviceHasRows, HasAddr, Exists
  <2> QED
    BY <2>1, <2>2
<1>4. Alive(edge')
  <2>1. \A table \in Underway : Alive(table)
    BY DEF Underway, ServedInv, TablesAlive
  <2>2. edge' \in {edge, routes} \cup Underway
    BY DEF Crash, Restart, Sent
  <2> QED
    BY <2>1, <2>2 DEF ServedInv, TablesAlive
<1>5. TablesAlive'
  BY <1>0, <1>1, <1>4 DEF ServedInv, TablesAlive, Alive, Exists
<1>6. \A e \in Env : Unserved(e)' /\ Unpublished(e)'
  BY <1>1 DEF Unserved, Unpublished, OwnPush
<1> QED
  BY <1>2, <1>3, <1>5, <1>6 DEF ServedInv

LEMMA ServedInit == Init => ServedInv
<1> SUFFICES ASSUME Init PROVE ServedInv
  OBVIOUS
<1>1. /\ keeper.pc = "idle" /\ \A e \in Env : cmd[e].pc = "idle"
      /\ device = {} /\ up /\ edge = routes
  BY DEF Init, Idle
<1>2. \A e \in config : Exists(e)
  BY EnvLifeAssumption DEF Init, Exists
<1>3. \A h \in Host : routes[h] \in config \cup {None}
  BY DEF Init
<1>4. LockHeld /\ DownIdle /\ DeviceHasRows /\ ConfigHasRows
  BY <1>1, <1>2 DEF LockHeld, DownIdle, DeviceHasRows, ConfigHasRows
<1>5. TablesAlive
  BY <1>1, <1>2, <1>3 DEF TablesAlive, Alive
<1>6. \A e \in Env : Unserved(e) /\ Unpublished(e)
  BY <1>1 DEF Unserved, Unpublished, OwnPush, PushPcs, LatePcs, RemovePcs
<1> QED
  BY <1>4, <1>5, <1>6 DEF ServedInv

LEMMA ServedStep ==
  ASSUME TypeOK, BuiltInv, ServedInv, [Next]_vars
  PROVE  ServedInv'
<1>1. CASE UNCHANGED vars
  BY <1>1 DEF vars, ServedInv, LockHeld, TablesAlive, DeviceHasRows, ConfigHasRows, DownIdle,
              Unserved, Unpublished, OwnPush, Alive, Without, Exists
<1>2. ASSUME NEW e \in Env, Destroy(e)
      PROVE  ServedInv'
  BY <1>2, UnpublishServed, DropServed, RemoveServed, ForgetServed DEF Destroy
<1>3. ASSUME NEW e \in Env, Create(e)
      PROVE  ServedInv'
  BY <1>3, CreateServed DEF BuiltInv
<1> QED
  BY <1>1, <1>2, <1>3, CommandServed, ReadServed, SendServed, DaemonServed DEF Next, Run

\* The edge serves no name and the device answers no address of an
\* environment that is gone. A destroy takes its routes out and pushes under
\* the lock before its row goes, so no table read earlier can arrive later
\* and bring it back; a row written anew has no address on the device yet.
THEOREM NoOrphansLeft == Spec => []NoOrphans
<1>1. ServedInv => NoOrphans
  BY DEF ServedInv, TablesAlive, Alive, DeviceHasRows, NoOrphans
<1>2. TypeOK /\ BuiltInv /\ ServedInv /\ [Next]_vars => ServedInv'
  BY ServedStep
<1> QED
  BY <1>1, <1>2, ServedInit, BuiltInit, BuiltStep, TypeCorrect, PTL DEF Spec

-----------------------------------------------------------------------------
(* The secrets. *)

Versions == Nat \ {0}
VaultKeys == ScopeSet \X SecretNames
Values == {0} \cup OperatorValues \cup (10..12)
Prints == SUBSET (ScopeSet \X SecretNames \X Versions)
ActSet == [cmd : {"none", "create", "up"},
           pc : {"idle", "values", "set", "digest", "dep", "compare", "run", "record"},
           vals : [SecretNames -> Values], digest : Prints]

SecretTypes ==
    /\ vault \in [VaultKeys -> [value : {0} \cup OperatorValues \cup generated, version : Nat]]
    /\ \A k \in VaultKeys : vault[k].version > 0 => vault[k].value # 0
    /\ act \in ActSet
    /\ act.pc = "idle" => act.cmd = "none"
    /\ act.pc \in {"set", "dep"} => act.cmd = "create"
    /\ act.pc \in {"compare", "run", "record"} => act.cmd = "up"
    /\ act.pc # "idle" => act.cmd # "none"
    /\ act.cmd = "create" <=> envStatus = "creating"
    /\ act.cmd = "up" => envStatus = "ready"
    /\ envStatus \in {"none", "creating", "failed", "ready"}
    /\ generated \subseteq 10..12
    /\ svcRow \in [there : BOOLEAN, digest : Prints]
    /\ ctr \in [there : BOOLEAN, vals : [SecretNames -> Values]]

\* D was a fingerprint of the vault w: one winner of each name, at a version
\* it has reached.
Printed(w, D) ==
    /\ \A e, f \in D : e[2] = f[2] => e = f
    /\ \A e \in D : e[3] <= w[<<e[1], e[2]>>].version

\* V are its values, as far as the vault still has them.
Tells(w, D, V) ==
    \A n \in SecretNames :
        /\ (\A e \in D : e[2] # n) => V[n] = 0
        /\ \A e \in D : e[2] = n /\ e[3] = w[<<e[1], n>>].version => V[n] = w[<<e[1], n>>].value

\* It will not be the fingerprint again: a winner has a later version, or a
\* narrower row.
Passed(w, D) ==
    \/ \E e \in D : e[3] < w[<<e[1], e[2]>>].version
    \/ \E n \in SecretNames : \E s \in ScopeSet :
           w[<<s, n>>].version > 0 /\ \A e \in D : e[2] = n => Rank(e[1]) < Rank(s)

\* What a command has read, and what is recorded of the service.
Known ==
    /\ act.pc \in {"set", "digest"} => act.vals = Resolve
    /\ act.pc \in {"compare", "run", "record"} =>
           /\ Printed(vault, act.digest) /\ Tells(vault, act.digest, act.vals)
           /\ svcRow.there => svcRow.digest = act.digest \/ Passed(vault, svcRow.digest)
    /\ act.pc = "record" => ctr.vals = act.vals
    /\ svcRow.there => Printed(vault, svcRow.digest)
    /\ svcRow.there /\ ctr.there => Tells(vault, svcRow.digest, ctr.vals) \/ Passed(vault, svcRow.digest)

Opens ==
    /\ act.pc = "set" => act.vals["DB"] = Resolve["DB"]
    /\ act.cmd = "create" /\ act.pc \in {"digest", "dep"} =>
           act.vals["DB"] = Resolve["DB"] /\ act.vals["DB"] # 0
    /\ envStatus = "ready" => depData = Resolve["DB"] /\ depData # 0

SecretsInv ==
    SecretTypes /\ (~resets /\ ~secretRaced => Known) /\ (~touched => Opens)

-----------------------------------------------------------------------------
(* Scopes and winners. *)

LEMMA RankIs == Rank("machine") = 1 /\ Rank("app") = 2 /\ Rank("env") = 3
  <1>1. Scopes[1] = "machine" /\ Scopes[2] = "app" /\ Scopes[3] = "env"
    BY DEF Scopes
  <1>2. \A i \in 1..3 : i = 1 \/ i = 2 \/ i = 3
    OBVIOUS
  <1>3. Rank("machine") = 1
    BY <1>1, <1>2 DEF Rank
  <1>4. Rank("app") = 2
    BY <1>1, <1>2 DEF Rank
  <1>5. Rank("env") = 3
    BY <1>1, <1>2 DEF Rank
  <1> QED
    BY <1>3, <1>4, <1>5

LEMMA Ranked ==
    /\ \A s \in ScopeSet : Rank(s) \in 1..3
    /\ \A s, t \in ScopeSet : Rank(s) = Rank(t) => s = t
  BY RankIs DEF ScopeSet

\* The narrowest row of a name.
LEMMA WinnerIs ==
    ASSUME NEW n, Rows(n) # {}
    PROVE  /\ Winner(n) \in Rows(n) /\ \A t \in Rows(n) : Rank(t) <= Rank(Winner(n))
           /\ \A s \in Rows(n) : (\A t \in Rows(n) : Rank(t) <= Rank(s)) => s = Winner(n)
  <1>1. Rows(n) \subseteq ScopeSet
    BY DEF Rows
  <1>2. \E s \in Rows(n) : \A t \in Rows(n) : Rank(t) <= Rank(s)
    <2>1. CASE "env" \in Rows(n)
      BY <1>1, <2>1, RankIs DEF ScopeSet
    <2>2. CASE "env" \notin Rows(n) /\ "app" \in Rows(n)
      BY <1>1, <2>2, RankIs DEF ScopeSet
    <2>3. CASE "env" \notin Rows(n) /\ "app" \notin Rows(n)
      BY <1>1, <2>3, RankIs DEF ScopeSet
    <2> QED
      BY <2>1, <2>2, <2>3
  <1>3. Winner(n) \in Rows(n) /\ \A t \in Rows(n) : Rank(t) <= Rank(Winner(n))
    BY <1>2 DEF Winner
  <1>4. ASSUME NEW s \in Rows(n), \A t \in Rows(n) : Rank(t) <= Rank(s) PROVE s = Winner(n)
    BY <1>1, <1>3, <1>4, Ranked
  <1> QED
    BY <1>3, <1>4

\* What the fingerprint and the values of now are.
LEMMA PrintIs ==
    ASSUME SecretTypes
    PROVE  /\ Fingerprint \in Prints
           /\ \A e \in Fingerprint : /\ e[2] \in SecretNames /\ Rows(e[2]) # {} /\ e[1] = Winner(e[2])
                                     /\ e[3] = vault[<<e[1], e[2]>>].version
           /\ \A n \in SecretNames : Rows(n) # {} =>
                  <<Winner(n), n, vault[<<Winner(n), n>>].version>> \in Fingerprint
  <1> DEFINE entry(n) == <<Winner(n), n, vault[<<Winner(n), n>>].version>>
  <1>1. Fingerprint = {entry(n) : n \in {m \in SecretNames : Rows(m) # {}}}
    BY DEF Fingerprint
  <1>2. ASSUME NEW n \in SecretNames, Rows(n) # {}
        PROVE  /\ entry(n) \in ScopeSet \X SecretNames \X Versions
               /\ entry(n)[1] = Winner(n) /\ entry(n)[2] = n
               /\ entry(n)[3] = vault[<<Winner(n), n>>].version
    <2>1. Winner(n) \in ScopeSet /\ vault[<<Winner(n), n>>].version > 0
      BY <1>2, WinnerIs DEF Rows
    <2>2. vault[<<Winner(n), n>>].version \in Nat
      BY <2>1 DEF SecretTypes, VaultKeys
    <2> QED
      BY <2>1, <2>2 DEF Versions
  <1> HIDE DEF entry
  <1>3. Fingerprint \in Prints
    BY <1>1, <1>2 DEF Prints
  <1>4. ASSUME NEW e \in Fingerprint
        PROVE  /\ e[2] \in SecretNames /\ Rows(e[2]) # {} /\ e[1] = Winner(e[2])
               /\ e[3] = vault[<<e[1], e[2]>>].version
    <2>1. PICK n \in SecretNames : Rows(n) # {} /\ e = entry(n)
      BY <1>1
    <2>2. e[1] = Winner(n) /\ e[2] = n /\ e[3] = vault[<<Winner(n), n>>].version
      BY <1>2, <2>1
    <2>3. <<e[1], e[2]>> = <<Winner(n), n>>
      BY <2>2, Zenon
    <2> QED
      BY <2>1, <2>2, <2>3, Zenon
  <1>5. \A n \in SecretNames : Rows(n) # {} => entry(n) \in Fingerprint
    BY <1>1
  <1> QED
    BY <1>3, <1>4, <1>5 DEF entry

LEMMA ResolveIs ==
    ASSUME SecretTypes
    PROVE  /\ Resolve \in [SecretNames -> Values]
           /\ \A n \in SecretNames : Resolve[n] = IF Rows(n) = {} THEN 0 ELSE vault[<<Winner(n), n>>].value
           /\ \A n \in SecretNames : Resolve[n] = 0 <=> Rows(n) = {}
  <1>1. \A n \in SecretNames : Resolve[n] = IF Rows(n) = {} THEN 0 ELSE vault[<<Winner(n), n>>].value
    BY DEF Resolve
  <1>2. ASSUME NEW n \in SecretNames, Rows(n) # {}
        PROVE  vault[<<Winner(n), n>>].value \in Values /\ vault[<<Winner(n), n>>].value # 0
    <2>1. Winner(n) \in ScopeSet /\ vault[<<Winner(n), n>>].version > 0
      BY <1>2, WinnerIs DEF Rows
    <2>2. <<Winner(n), n>> \in VaultKeys
      BY <2>1 DEF VaultKeys
    <2> QED
      BY <2>1, <2>2 DEF SecretTypes, Values
  <1>3. Resolve = [n \in SecretNames |-> Resolve[n]]
    BY DEF Resolve
  <1>4. \A n \in SecretNames : Resolve[n] \in Values
    BY <1>1, <1>2 DEF Values
  <1> QED
    BY <1>1, <1>2, <1>3, <1>4

-----------------------------------------------------------------------------
(* Fingerprints of before. *)

\* From one vault to a later one, when nothing is removed.
Grown(w, x) ==
    \A s \in ScopeSet, n \in SecretNames :
        /\ w[<<s, n>>].version \in Nat /\ x[<<s, n>>].version \in Nat
        /\ x[<<s, n>>] = w[<<s, n>>] \/ x[<<s, n>>].version > w[<<s, n>>].version

LEMMA GrownKeeps ==
    ASSUME NEW w, NEW x, Grown(w, x), NEW D \in Prints, NEW V
    PROVE  /\ Printed(w, D) => Printed(x, D)
           /\ Printed(w, D) /\ Tells(w, D, V) => Tells(x, D, V)
           /\ Passed(w, D) => Passed(x, D)
  <1>1. \A e \in D : e[1] \in ScopeSet /\ e[2] \in SecretNames /\ e[3] \in Nat
    BY DEF Prints, Versions
  <1>2. \A e \in D : /\ w[<<e[1], e[2]>>].version \in Nat /\ x[<<e[1], e[2]>>].version \in Nat
                     /\ x[<<e[1], e[2]>>] = w[<<e[1], e[2]>>] \/ x[<<e[1], e[2]>>].version > w[<<e[1], e[2]>>].version
    BY <1>1 DEF Grown
  <1>3. Printed(w, D) => Printed(x, D)
    BY <1>1, <1>2 DEF Printed
  <1>4. ASSUME Printed(w, D), Tells(w, D, V) PROVE Tells(x, D, V)
    <2>1. ASSUME NEW n \in SecretNames, NEW e \in D, e[2] = n, e[3] = x[<<e[1], n>>].version
          PROVE  V[n] = x[<<e[1], n>>].value
      <3>1. e[3] <= w[<<e[1], e[2]>>].version
        BY <1>4 DEF Printed
      <3>2. x[<<e[1], e[2]>>] = w[<<e[1], e[2]>>]
        BY <1>1, <1>2, <2>1, <3>1
      <3> QED
        BY <1>4, <2>1, <3>2 DEF Tells
    <2> QED
      BY <1>4, <2>1 DEF Tells
  <1>5. Passed(w, D) => Passed(x, D)
    <2>1. (\E e \in D : e[3] < w[<<e[1], e[2]>>].version) => \E e \in D : e[3] < x[<<e[1], e[2]>>].version
      <3> SUFFICES ASSUME NEW e \in D, e[3] < w[<<e[1], e[2]>>].version
                   PROVE  e[3] < x[<<e[1], e[2]>>].version
        BY Zenon
      <3> DEFINE old == w[<<e[1], e[2]>>]  new == x[<<e[1], e[2]>>]
      <3>1. /\ old.version \in Nat /\ new.version \in Nat /\ e[3] \in Nat
            /\ new = old \/ new.version > old.version
        BY <1>1, <1>2, Zenon
      <3>2. e[3] < old.version
        BY Zenon
      <3> HIDE DEF old, new
      <3>3. e[3] < new.version
        BY <3>1, <3>2
      <3> QED
        BY <3>3 DEF new
    <2>2. \A n \in SecretNames, s \in ScopeSet : w[<<s, n>>].version > 0 => x[<<s, n>>].version > 0
      BY DEF Grown
    <2> QED
      BY <2>1, <2>2 DEF Passed
  <1> QED
    BY <1>3, <1>4, <1>5

\* The fingerprint of now.
LEMMA PrintOfNow ==
    ASSUME SecretTypes
    PROVE  /\ Printed(vault, Fingerprint) /\ Tells(vault, Fingerprint, Resolve)
           /\ ~Passed(vault, Fingerprint)
  <1>1. /\ \A e \in Fingerprint : /\ e[2] \in SecretNames /\ Rows(e[2]) # {} /\ e[1] = Winner(e[2])
                                  /\ e[3] = vault[<<e[1], e[2]>>].version
        /\ \A n \in SecretNames : Rows(n) # {} =>
               <<Winner(n), n, vault[<<Winner(n), n>>].version>> \in Fingerprint
        /\ Fingerprint \in Prints
    BY PrintIs
  <1>2. \A e \in Fingerprint : e = <<e[1], e[2], e[3]>> /\ e[3] \in Nat
    BY <1>1 DEF Prints, Versions
  <1>3. Printed(vault, Fingerprint)
    <2>1. \A e, f \in Fingerprint : e[2] = f[2] => e = f
      <3> SUFFICES ASSUME NEW e \in Fingerprint, NEW f \in Fingerprint, e[2] = f[2]
                   PROVE  e = f
        BY Zenon
      <3>1. e[1] = f[1]
        <4>1. e[1] = Winner(e[2]) /\ f[1] = Winner(f[2])
          BY <1>1, Zenon
        <4> QED
          BY <4>1
      <3>2. <<e[1], e[2]>> = <<f[1], f[2]>>
        BY <3>1, Zenon
      <3>3. e[3] = f[3]
        <4>1. e[3] = vault[<<e[1], e[2]>>].version /\ f[3] = vault[<<f[1], f[2]>>].version
          BY <1>1, Zenon
        <4> QED
          BY <3>1, <4>1
      <3>4. e = <<e[1], e[2], e[3]>> /\ f = <<f[1], f[2], f[3]>>
        BY <1>2, Zenon
      <3> QED
        BY <3>1, <3>3, <3>4, Zenon
    <2>2. \A e \in Fingerprint : e[3] <= vault[<<e[1], e[2]>>].version
      <3> SUFFICES ASSUME NEW e \in Fingerprint PROVE e[3] <= vault[<<e[1], e[2]>>].version
        BY Zenon
      <3> DEFINE new == vault[<<e[1], e[2]>>].version
      <3>1. e[3] = new /\ e[3] \in Nat
        BY <1>1, <1>2, Zenon
      <3> HIDE DEF new
      <3>2. e[3] <= new
        BY <3>1
      <3> QED
        BY <3>2 DEF new
    <2> QED
      BY <2>1, <2>2 DEF Printed
  <1>4. Tells(vault, Fingerprint, Resolve)
    <2> SUFFICES ASSUME NEW n \in SecretNames
                 PROVE  /\ (\A e \in Fingerprint : e[2] # n) => Resolve[n] = 0
                        /\ \A e \in Fingerprint : e[2] = n => Resolve[n] = vault[<<e[1], n>>].value
      BY DEF Tells
    <2>1. Resolve[n] = IF Rows(n) = {} THEN 0 ELSE vault[<<Winner(n), n>>].value
      BY ResolveIs
    <2>2. Rows(n) # {} => \E e \in Fingerprint : e[2] = n
      <3>1. <<Winner(n), n, vault[<<Winner(n), n>>].version>>[2] = n
        OBVIOUS
      <3> QED
        BY <1>1, <3>1
    <2> QED
      BY <1>1, <2>1, <2>2
  <1>5. ~Passed(vault, Fingerprint)
    <2>1. ~\E e \in Fingerprint : e[3] < vault[<<e[1], e[2]>>].version
      <3> SUFFICES ASSUME NEW e \in Fingerprint PROVE ~(e[3] < vault[<<e[1], e[2]>>].version)
        BY Zenon
      <3> DEFINE new == vault[<<e[1], e[2]>>].version
      <3>1. e[3] = new /\ e[3] \in Nat
        BY <1>1, <1>2, Zenon
      <3> HIDE DEF new
      <3>2. ~(e[3] < new)
        BY <3>1
      <3> QED
        BY <3>2 DEF new
    <2>2. ASSUME NEW n \in SecretNames, NEW s \in ScopeSet, vault[<<s, n>>].version > 0
          PROVE  \E e \in Fingerprint : e[2] = n /\ ~(Rank(e[1]) < Rank(s))
      <3>1. s \in Rows(n)
        BY <2>2 DEF Rows
      <3>2. Winner(n) \in Rows(n) /\ Rank(s) <= Rank(Winner(n))
        BY <3>1, WinnerIs
      <3>3. Rank(s) \in 1..3 /\ Rank(Winner(n)) \in 1..3
        BY <3>2, Ranked DEF Rows
      <3> DEFINE e == <<Winner(n), n, vault[<<Winner(n), n>>].version>>
      <3>4. e \in Fingerprint /\ e[1] = Winner(n) /\ e[2] = n
        BY <1>1, <3>1
      <3> HIDE DEF e
      <3> QED
        BY <3>2, <3>3, <3>4
    <2> QED
      BY <2>1, <2>2 DEF Passed
  <1> QED
    BY <1>3, <1>4, <1>5

\* Values that go with the fingerprint of now are those of now.
LEMMA TellsIsResolve ==
    ASSUME SecretTypes, NEW V \in [SecretNames -> Values], Tells(vault, Fingerprint, V)
    PROVE  V = Resolve
  <1>1. ASSUME NEW n \in SecretNames PROVE V[n] = Resolve[n]
    <2>1. CASE Rows(n) = {}
      <3>1. \A e \in Fingerprint : e[2] # n
        BY <2>1, PrintIs
      <3> QED
        BY <2>1, <3>1, ResolveIs DEF Tells
    <2>2. CASE Rows(n) # {}
      <3> DEFINE e == <<Winner(n), n, vault[<<Winner(n), n>>].version>>
      <3>1. e \in Fingerprint /\ e[1] = Winner(n) /\ e[2] = n /\ e[3] = vault[<<Winner(n), n>>].version
        BY <2>2, PrintIs
      <3> HIDE DEF e
      <3>2. V[n] = vault[<<Winner(n), n>>].value
        BY <3>1 DEF Tells
      <3> QED
        BY <2>2, <3>2, ResolveIs
    <2> QED
      BY <2>1, <2>2
  <1>2. Resolve \in [SecretNames -> Values]
    BY ResolveIs
  <1> QED
    BY <1>1, <1>2

\* A fingerprint of before is the one of now or it will not be again.
LEMMA PrintedOrPassed ==
    ASSUME SecretTypes, NEW D \in Prints, Printed(vault, D), ~Passed(vault, D)
    PROVE  D = Fingerprint
  <1>1. /\ \A e \in Fingerprint : /\ e[2] \in SecretNames /\ Rows(e[2]) # {} /\ e[1] = Winner(e[2])
                                  /\ e[3] = vault[<<e[1], e[2]>>].version
        /\ Fingerprint \in Prints
    BY PrintIs
  <1>2. \A e \in D : /\ e[1] \in ScopeSet /\ e[2] \in SecretNames /\ e[3] \in Nat /\ e[3] > 0
                     /\ e = <<e[1], e[2], e[3]>>
    BY DEF Prints, Versions
  <1>3. \A s \in ScopeSet, n \in SecretNames : vault[<<s, n>>].version \in Nat
    BY DEF SecretTypes, VaultKeys
  <1>4. \A e \in D : e[3] = vault[<<e[1], e[2]>>].version /\ e[1] \in Rows(e[2])
    <2>1. \A e \in D : e[3] <= vault[<<e[1], e[2]>>].version /\ ~(e[3] < vault[<<e[1], e[2]>>].version)
      BY DEF Printed, Passed
    <2> SUFFICES ASSUME NEW e \in D
                 PROVE  e[3] = vault[<<e[1], e[2]>>].version /\ e[1] \in Rows(e[2])
      BY Zenon
    <2> DEFINE new == vault[<<e[1], e[2]>>].version
    <2>2. e[3] <= new /\ ~(e[3] < new) /\ new \in Nat /\ e[3] \in Nat /\ e[3] > 0
      BY <1>2, <1>3, <2>1, Zenon
    <2>3. e[3] = new /\ new > 0
      <3> HIDE DEF new
      <3> QED
        BY <2>2
    <2>4. e[1] \in Rows(e[2])
      BY <1>2, <2>3 DEF Rows
    <2> QED
      BY <2>3, <2>4
  <1>5. \A n \in SecretNames : \A s \in Rows(n) : \E e \in D : e[2] = n /\ Rank(s) <= Rank(e[1])
    <2> SUFFICES ASSUME NEW n \in SecretNames, NEW s \in Rows(n)
                 PROVE  \E e \in D : e[2] = n /\ Rank(s) <= Rank(e[1])
      OBVIOUS
    <2>1. s \in ScopeSet /\ vault[<<s, n>>].version > 0
      BY DEF Rows
    <2>2. PICK e \in D : e[2] = n /\ ~(Rank(e[1]) < Rank(s))
      BY <2>1 DEF Passed
    <2>3. Rank(s) \in 1..3 /\ Rank(e[1]) \in 1..3
      BY <1>2, <2>1, Ranked
    <2> QED
      BY <2>2, <2>3
  <1>6. \A e \in D : e[1] = Winner(e[2])
    <2> SUFFICES ASSUME NEW e \in D PROVE e[1] = Winner(e[2])
      OBVIOUS
    <2>1. \A s \in Rows(e[2]) : Rank(s) <= Rank(e[1])
      BY <1>2, <1>5 DEF Printed
    <2> QED
      BY <1>4, <2>1, WinnerIs
  <1>7. D \subseteq Fingerprint
    <2> SUFFICES ASSUME NEW e \in D PROVE e \in Fingerprint
      OBVIOUS
    <2>1. Rows(e[2]) # {} /\ e[2] \in SecretNames
      BY <1>2, <1>4
    <2>2. <<Winner(e[2]), e[2], vault[<<Winner(e[2]), e[2]>>].version>> \in Fingerprint
      BY <2>1, PrintIs
    <2> QED
      BY <1>2, <1>4, <1>6, <2>2
  <1>8. Fingerprint \subseteq D
    <2> SUFFICES ASSUME NEW e \in Fingerprint PROVE e \in D
      OBVIOUS
    <2>1. PICK f \in D : f[2] = e[2]
      BY <1>1, <1>5
    <2>2. f[1] = e[1]
      <3>1. e[1] = Winner(e[2]) /\ f[1] = Winner(f[2])
        BY <1>1, <1>6, Zenon
      <3> QED
        BY <2>1, <3>1
    <2>4. <<e[1], e[2]>> = <<f[1], f[2]>>
      BY <2>1, <2>2, Zenon
    <2>5. f[3] = e[3]
      <3>1. e[3] = vault[<<e[1], e[2]>>].version /\ f[3] = vault[<<f[1], f[2]>>].version
        BY <1>1, <1>4, Zenon
      <3> QED
        BY <2>1, <2>2, <3>1
    <2>3. e = <<e[1], e[2], e[3]>> /\ f = <<f[1], f[2], f[3]>>
      BY <1>1, <1>2 DEF Prints
    <2> QED
      BY <2>1, <2>2, <2>3, <2>5, Zenon
  <1> QED
    BY <1>7, <1>8

-----------------------------------------------------------------------------
(* The vault of after. *)

WinnerAt(R) == CHOOSE s \in R : \A t \in R : Rank(t) <= Rank(s)

LEMMA OnlyEnvScope == WinnerAt({"env"}) = "env"
  <1>1. \E s \in {"env"} : \A t \in {"env"} : Rank(t) <= Rank(s)
    BY RankIs
  <1>2. WinnerAt({"env"}) \in {"env"}
    BY <1>1 DEF WinnerAt
  <1> QED
    BY <1>2

\* A name whose rows are as before has its value as before.
LEMMA SameName ==
    ASSUME NEW n \in SecretNames, \A s \in ScopeSet : vault'[<<s, n>>] = vault[<<s, n>>]
    PROVE  Resolve'[n] = Resolve[n]
  <1>1. Rows(n)' = Rows(n)
    BY DEF Rows
  <1>2. Winner(n) = WinnerAt(Rows(n)) /\ Winner(n)' = WinnerAt(Rows(n)')
    BY DEF Winner, WinnerAt
  <1>3. Winner(n)' = Winner(n)
    BY <1>1, <1>2
  <1>4. Resolve[n] = IF Rows(n) = {} THEN 0 ELSE vault[<<Winner(n), n>>].value
    BY DEF Resolve
  <1>5. Resolve'[n] = IF Rows(n)' = {} THEN 0 ELSE vault'[<<Winner(n)', n>>].value
    BY DEF Resolve
  <1>6. Rows(n) # {} => Winner(n) \in ScopeSet
    BY WinnerIs DEF Rows
  <1> QED
    BY <1>1, <1>3, <1>4, <1>5, <1>6

LEMMA SameVault ==
    ASSUME vault' = vault
    PROVE  Resolve' = Resolve /\ Fingerprint' = Fingerprint
  <1>1. \A n : Rows(n)' = Rows(n)
    BY DEF Rows
  <1>2. \A n : Winner(n) = WinnerAt(Rows(n)) /\ Winner(n)' = WinnerAt(Rows(n)')
    BY DEF Winner, WinnerAt
  <1>3. \A n : Winner(n)' = Winner(n)
    BY <1>1, <1>2
  <1>4. Resolve' = [n \in SecretNames |-> IF Rows(n)' = {} THEN 0 ELSE vault'[<<Winner(n)', n>>].value]
    BY DEF Resolve
  <1>5. Fingerprint' = {<<Winner(n)', n, vault'[<<Winner(n)', n>>].version>> :
                            n \in {m \in SecretNames : Rows(m)' # {}}}
    BY DEF Fingerprint
  <1>6. Resolve' = Resolve
    BY <1>1, <1>3, <1>4 DEF Resolve
  <1>7. Fingerprint' = Fingerprint
    BY <1>1, <1>3, <1>5 DEF Fingerprint
  <1> QED
    BY <1>6, <1>7

\* A row is written.
LEMMA PutIs ==
    ASSUME SecretTypes, NEW s \in ScopeSet, NEW n \in SecretNames, NEW v,
           vault' = PutSecret(s, n, v)
    PROVE  /\ vault' = [vault EXCEPT ![<<s, n>>] =
                            [value |-> v, version |-> vault[<<s, n>>].version + 1]]
           /\ vault'[<<s, n>>] = [value |-> v, version |-> vault[<<s, n>>].version + 1]
           /\ \A k \in VaultKeys : k # <<s, n>> => vault'[k] = vault[k]
           /\ Grown(vault, vault')
  <1> DEFINE row == [value |-> v, version |-> vault[<<s, n>>].version + 1]
  <1>1. vault' = [vault EXCEPT ![<<s, n>>] = row]
    BY DEF PutSecret
  <1>2. <<s, n>> \in VaultKeys /\ vault[<<s, n>>].version \in Nat
    BY DEF SecretTypes, VaultKeys
  <1>3. row.version = vault[<<s, n>>].version + 1
    OBVIOUS
  <1> HIDE DEF row
  <1>4. DOMAIN vault = VaultKeys
    BY DEF SecretTypes
  <1>5. vault'[<<s, n>>] = row /\ \A k \in VaultKeys : k # <<s, n>> => vault'[k] = vault[k]
    BY <1>1, <1>2, <1>4
  <1>6. Grown(vault, vault')
    <2> SUFFICES ASSUME NEW t \in ScopeSet, NEW m \in SecretNames
                 PROVE  /\ vault[<<t, m>>].version \in Nat /\ vault'[<<t, m>>].version \in Nat
                        /\ \/ vault'[<<t, m>>] = vault[<<t, m>>]
                           \/ vault'[<<t, m>>].version > vault[<<t, m>>].version
      BY DEF Grown
    <2>1. <<t, m>> \in VaultKeys
      BY DEF VaultKeys
    <2>2. vault[<<t, m>>].version \in Nat
      BY <2>1 DEF SecretTypes
    <2>3. CASE <<t, m>> = <<s, n>>
      BY <1>2, <1>3, <1>5, <2>3
    <2>4. CASE <<t, m>> # <<s, n>>
      BY <1>5, <2>1, <2>2, <2>4
    <2> QED
      BY <2>3, <2>4
  <1> QED
    BY <1>1, <1>5, <1>6 DEF row

-----------------------------------------------------------------------------
(* Init and the actions. *)

LEMMA SecretsInitInv == ASSUME SecretsInit PROVE SecretsInv
  <1>1. SecretTypes
    <2>1. \A k \in VaultKeys : vault[k] = NoSecret
      BY DEF SecretsInit, VaultKeys
    <2>2. vault \in [VaultKeys -> [value : {0} \cup OperatorValues \cup generated, version : Nat]]
      <3>1. NoSecret \in [value : {0} \cup OperatorValues \cup generated, version : Nat]
        BY DEF NoSecret
      <3> QED
        BY <2>1, <3>1 DEF SecretsInit, VaultKeys
    <2>3. act \in ActSet /\ act.pc = "idle" /\ act.cmd = "none"
      BY DEF SecretsInit, NoAct, ActSet, Prints, Values
    <2>4. svcRow \in [there : BOOLEAN, digest : Prints]
      BY DEF SecretsInit, NoDefinition, Prints
    <2>5. ctr \in [there : BOOLEAN, vals : [SecretNames -> Values]]
      BY DEF SecretsInit, NoBox, Values
    <2> QED
      BY <2>1, <2>2, <2>3, <2>4, <2>5 DEF SecretTypes, SecretsInit, NoSecret
  <1>2. Known
    BY DEF Known, SecretsInit, NoAct, NoDefinition
  <1>3. Opens
    BY DEF Opens, SecretsInit, NoAct
  <1> QED
    BY <1>1, <1>2, <1>3 DEF SecretsInv

\* What a change of one name leaves of what was known.
LEMMA ChangeKeeps ==
    ASSUME SecretsInv, NEW n \in SecretNames, Change(n), SecretTypes',
           ~resets' => ~resets /\ Grown(vault, vault'),
           \A s \in ScopeSet, m \in SecretNames : m # n => vault'[<<s, m>>] = vault[<<s, m>>]
    PROVE  SecretsInv'
  <1>1. UNCHANGED <<act, envStatus, depData, svcRow, ctr, generated>>
    BY DEF Change
  <1>2. ASSUME ~resets', ~secretRaced' PROVE Known'
    <2>1. Known /\ Grown(vault, vault') /\ act.pc \notin {"set", "digest"}
      BY <1>2 DEF SecretsInv, Change, Reading
    <2>2. act.digest \in Prints /\ svcRow.digest \in Prints
      BY DEF SecretsInv, SecretTypes, ActSet
    <2>3. act.pc \in {"compare", "run", "record"} =>
             Printed(vault', act.digest) /\ Tells(vault', act.digest, act.vals)
      BY <2>1, <2>2, GrownKeeps DEF Known
    <2>4. svcRow.there => Printed(vault', svcRow.digest)
      BY <2>1, <2>2, GrownKeeps DEF Known
    <2>5. Passed(vault, svcRow.digest) => Passed(vault', svcRow.digest)
      BY <2>1, <2>2, GrownKeeps
    <2>6. svcRow.there /\ ctr.there =>
             Tells(vault', svcRow.digest, ctr.vals) \/ Passed(vault', svcRow.digest)
      BY <2>1, <2>2, GrownKeeps DEF Known
    <2> QED
      BY <1>1, <2>1, <2>3, <2>4, <2>5, <2>6 DEF Known
  <1>3. ASSUME ~touched' PROVE Opens'
    <2>1. ~touched /\ (n # "DB" \/ envStatus = "none") /\ Opens
      BY <1>3 DEF SecretsInv, Change
    <2>2. CASE envStatus = "none"
      <3>1. act.cmd # "create" /\ act.pc # "set"
        BY <2>2 DEF SecretsInv, SecretTypes
      <3> QED
        BY <1>1, <2>2, <3>1 DEF Opens
    <2>3. CASE n # "DB"
      <3>1. "DB" \in SecretNames
        BY DEF SecretNames
      <3>2. \A s \in ScopeSet : vault'[<<s, "DB">>] = vault[<<s, "DB">>]
        BY <2>3, <3>1
      <3>3. Resolve'["DB"] = Resolve["DB"]
        BY <3>1, <3>2, SameName
      <3> QED
        BY <1>1, <2>1, <3>3 DEF Opens
    <2> QED
      BY <2>1, <2>2, <2>3
  <1> QED
    BY <1>2, <1>3 DEF SecretsInv

\* Whatever the rows become, what does not move keeps its type.
LEMMA TypesKeep ==
    ASSUME SecretTypes, UNCHANGED <<act, envStatus, svcRow, ctr, generated>>,
           vault' \in [VaultKeys -> [value : {0} \cup OperatorValues \cup generated, version : Nat]],
           \A k \in VaultKeys : vault'[k].version > 0 => vault'[k].value # 0
    PROVE  SecretTypes'
  BY DEF SecretTypes

LEMMA VaultSetKeeps ==
    ASSUME SecretsInv, NEW s \in ScopeSet, NEW n \in SecretNames, NEW v \in OperatorValues,
           VaultSet(s, n, v)
    PROVE  SecretsInv'
  <1> DEFINE row == [value |-> v, version |-> vault[<<s, n>>].version + 1]
             RowSet == [value : {0} \cup OperatorValues \cup generated, version : Nat]
  <1>1. SecretTypes /\ vault' = PutSecret(s, n, v) /\ Change(n) /\ resets' = resets
    BY DEF SecretsInv, VaultSet
  <1>2. /\ vault' = [vault EXCEPT ![<<s, n>>] = row] /\ vault'[<<s, n>>] = row
        /\ \A k \in VaultKeys : k # <<s, n>> => vault'[k] = vault[k]
        /\ Grown(vault, vault')
    BY <1>1, PutIs
  <1>3. row \in RowSet /\ row.value # 0
    <2>1. vault[<<s, n>>].version \in Nat
      BY <1>1 DEF SecretTypes, VaultKeys
    <2> QED
      BY <2>1, SecretsAssumption
  <1>4. vault \in [VaultKeys -> RowSet] /\ \A k \in VaultKeys : vault[k].version > 0 => vault[k].value # 0
    BY <1>1 DEF SecretTypes
  <1> HIDE DEF row
  <1>5. vault' \in [VaultKeys -> RowSet]
    <2> HIDE DEF RowSet
    <2> QED
      BY <1>2, <1>3, <1>4
  <1>6. \A k \in VaultKeys : vault'[k].version > 0 => vault'[k].value # 0
    BY <1>2, <1>3, <1>4
  <1>7. SecretTypes'
    BY <1>1, <1>5, <1>6, TypesKeep DEF Change
  <1>8. \A t \in ScopeSet, m \in SecretNames : m # n => vault'[<<t, m>>] = vault[<<t, m>>]
    <2> SUFFICES ASSUME NEW t \in ScopeSet, NEW m \in SecretNames, m # n
                 PROVE  vault'[<<t, m>>] = vault[<<t, m>>]
      OBVIOUS
    <2>1. <<t, m>> \in VaultKeys /\ <<t, m>> # <<s, n>>
      BY DEF VaultKeys
    <2> QED
      BY <1>2, <2>1
  <1> QED
    BY <1>1, <1>2, <1>7, <1>8, ChangeKeeps

LEMMA VaultRemoveKeeps ==
    ASSUME SecretsInv, NEW s \in ScopeSet, NEW n \in SecretNames, VaultRemove(s, n)
    PROVE  SecretsInv'
  <1> DEFINE RowSet == [value : {0} \cup OperatorValues \cup generated, version : Nat]
  <1>1. SecretTypes /\ vault' = [vault EXCEPT ![<<s, n>>] = NoSecret] /\ Change(n) /\ resets'
    BY DEF SecretsInv, VaultRemove, RemoveSecret
  <1>2. NoSecret \in RowSet /\ NoSecret.version = 0
    BY DEF NoSecret
  <1>3. vault \in [VaultKeys -> RowSet] /\ \A k \in VaultKeys : vault[k].version > 0 => vault[k].value # 0
    BY <1>1 DEF SecretTypes
  <1> HIDE DEF RowSet
  <1>4. vault' \in [VaultKeys -> RowSet]
    BY <1>1, <1>2, <1>3
  <1>5. \A k \in VaultKeys : vault'[k] = vault[k] \/ vault'[k] = NoSecret
    BY <1>1, <1>3
  <1>6. \A k \in VaultKeys : vault'[k].version > 0 => vault'[k].value # 0
    BY <1>2, <1>3, <1>5
  <1>7. SecretTypes'
    BY <1>1, <1>4, <1>6, TypesKeep DEF Change, RowSet
  <1>8. \A t \in ScopeSet, m \in SecretNames : m # n => vault'[<<t, m>>] = vault[<<t, m>>]
    <2> SUFFICES ASSUME NEW t \in ScopeSet, NEW m \in SecretNames, m # n
                 PROVE  vault'[<<t, m>>] = vault[<<t, m>>]
      OBVIOUS
    <2>1. <<t, m>> \in VaultKeys /\ <<t, m>> # <<s, n>>
      BY DEF VaultKeys
    <2> QED
      BY <1>1, <1>3, <2>1
  <1> QED
    BY <1>1, <1>7, <1>8, ChangeKeeps

\* A command has stopped or not begun.
LEMMA NoActIs ==
    NoAct \in ActSet /\ NoAct.pc = "idle" /\ NoAct.cmd = "none"
  BY DEF NoAct, ActSet, Prints, Values

LEMMA SecretsStartKeeps ==
    ASSUME SecretsInv, NEW c \in {"create", "up"},
           act' = [NoAct EXCEPT !.cmd = c, !.pc = "values"],
           act.pc = "idle", UNCHANGED <<vault, svcRow, ctr, generated, resets, secretRaced, touched>>,
           c = "create" => envStatus' = "creating",
           c = "up" => envStatus' = "ready" /\ envStatus = "ready" /\ depData' = depData
    PROVE  SecretsInv'
  <1>1. act' \in ActSet /\ act'.cmd = c /\ act'.pc = "values"
    BY DEF NoAct, ActSet, Prints, Values
  <1>2. SecretTypes'
    BY <1>1 DEF SecretsInv, SecretTypes
  <1>3. Known => Known'
    BY <1>1, SameVault DEF Known
  <1>4. Opens => Opens'
    BY <1>1, SameVault DEF Opens
  <1> QED
    BY <1>2, <1>3, <1>4 DEF SecretsInv

LEMMA SecretsForKeeps == ASSUME SecretsInv, SecretsFor PROVE SecretsInv'
  <1>1. /\ vault' = vault /\ UNCHANGED <<envStatus, depData, svcRow, ctr, generated, resets, secretRaced, touched>>
        /\ act.pc = "values"
        /\ act' = [act EXCEPT !.vals = Resolve,
                              !.pc = IF act.cmd = "create" THEN "set" ELSE "digest"]
    BY DEF SecretsFor, Rest
  <1>2. act \in ActSet /\ Resolve \in [SecretNames -> Values] /\ SecretTypes
    BY ResolveIs DEF SecretsInv, SecretTypes
  <1>3. /\ act' \in ActSet /\ act'.cmd = act.cmd /\ act'.vals = Resolve
        /\ act'.pc = IF act.cmd = "create" THEN "set" ELSE "digest"
    BY <1>1, <1>2 DEF ActSet
  <1>4. SecretTypes'
    BY <1>1, <1>2, <1>3 DEF SecretTypes
  <1>5. Known => Known'
    BY <1>1, <1>3, SameVault DEF Known
  <1>6. Opens => Opens'
    BY <1>1, <1>3, SameVault DEF Opens
  <1> QED
    BY <1>1, <1>4, <1>5, <1>6 DEF SecretsInv

\* The password that was set is used.
LEMMA PasswordSet ==
    ASSUME SecretsInv, EnsureDepPassword, act.vals["DB"] # 0 PROVE SecretsInv'
  <1>1. /\ UNCHANGED <<vault, envStatus, depData, svcRow, ctr, generated, resets, secretRaced, touched>>
        /\ act.pc = "set" /\ act' = [act EXCEPT !.pc = "digest"]
    BY DEF EnsureDepPassword, Rest
  <1>2. act \in ActSet /\ SecretTypes
    BY DEF SecretsInv, SecretTypes
  <1>3. /\ act' \in ActSet /\ act'.cmd = act.cmd /\ act'.vals = act.vals /\ act'.pc = "digest"
    BY <1>1, <1>2 DEF ActSet
  <1>4. SecretTypes'
    BY <1>1, <1>2, <1>3 DEF SecretTypes
  <1>5. Known => Known'
    BY <1>1, <1>3, SameVault DEF Known
  <1>6. Opens => Opens'
    BY <1>1, <1>3, SameVault DEF Opens
  <1> QED
    BY <1>1, <1>4, <1>5, <1>6 DEF SecretsInv

\* The command ends; what it knew is not needed.
LEMMA EndKeeps ==
    ASSUME SecretsInv, act' = NoAct,
           UNCHANGED <<vault, svcRow, ctr, generated, resets, secretRaced, touched>>,
           \/ envStatus' = "failed"
           \/ act.cmd # "create" /\ UNCHANGED <<envStatus, depData>>
    PROVE  SecretsInv'
  <1>1. act' \in ActSet /\ act'.pc = "idle" /\ act'.cmd = "none"
    BY NoActIs
  <1>2. SecretTypes'
    BY <1>1 DEF SecretsInv, SecretTypes
  <1>3. Known => Known'
    BY <1>1, SameVault DEF Known
  <1>4. Opens => Opens'
    BY <1>1, SameVault DEF Opens
  <1> QED
    BY <1>2, <1>3, <1>4 DEF SecretsInv

\* A password is generated and stored at the environment's scope.
LEMMA PasswordMade ==
    ASSUME SecretsInv, act.pc = "set", act.vals["DB"] = 0, NEW v \in 10..12,
           generated' = generated \cup {v}, vault' = PutSecret("env", "DB", v),
           act' = [act EXCEPT !.vals["DB"] = v, !.pc = "digest"],
           UNCHANGED <<envStatus, depData, svcRow, ctr, resets, secretRaced, touched>>
    PROVE  SecretsInv'
  <1> DEFINE row == [value |-> v, version |-> vault[<<"env", "DB">>].version + 1]
             OldRows == [value : {0} \cup OperatorValues \cup generated, version : Nat]
             RowSet == [value : {0} \cup OperatorValues \cup generated', version : Nat]
  <1>a. "env" \in ScopeSet /\ "DB" \in SecretNames /\ "KEY" \in SecretNames /\ SecretTypes
    BY DEF ScopeSet, SecretNames, SecretsInv
  <1>1. /\ vault' = [vault EXCEPT ![<<"env", "DB">>] = row] /\ vault'[<<"env", "DB">>] = row
        /\ \A k \in VaultKeys : k # <<"env", "DB">> => vault'[k] = vault[k]
        /\ Grown(vault, vault')
    BY <1>a, PutIs
  <1>2. row \in RowSet /\ row.value = v /\ v # 0 /\ row.version > 0
    <2>1. vault[<<"env", "DB">>].version \in Nat
      BY <1>a DEF SecretTypes, VaultKeys
    <2> QED
      BY <2>1
  <1> HIDE DEF row
  <1>3. /\ vault \in [VaultKeys -> RowSet]
        /\ \A k \in VaultKeys : vault[k].version > 0 => vault[k].value # 0
    <2>1. vault \in [VaultKeys -> OldRows] /\ \A k \in VaultKeys : vault[k].version > 0 => vault[k].value # 0
      BY <1>a DEF SecretTypes
    <2>2. OldRows \subseteq RowSet
      OBVIOUS
    <2> HIDE DEF OldRows, RowSet
    <2> QED
      BY <2>1, <2>2
  <1>4. vault' \in [VaultKeys -> RowSet]
    <2> HIDE DEF RowSet
    <2> QED
      BY <1>1, <1>2, <1>3
  <1>5. \A k \in VaultKeys : vault'[k].version > 0 => vault'[k].value # 0
    BY <1>1, <1>2, <1>3
  <1>6. act \in ActSet /\ act.vals \in [SecretNames -> Values] /\ act.cmd = "create"
    BY <1>a DEF SecretTypes, ActSet
  <1>7. /\ act' \in ActSet /\ act'.cmd = act.cmd /\ act'.pc = "digest"
        /\ act'.vals = [act.vals EXCEPT !["DB"] = v]
    <2>1. v \in Values
      BY DEF Values
    <2> DEFINE V == [act.vals EXCEPT !["DB"] = v]
    <2>2. V \in [SecretNames -> Values]
      BY <1>6, <2>1
    <2>3. act' = [[act EXCEPT !.vals = V] EXCEPT !.pc = "digest"]
      BY <1>6 DEF ActSet
    <2> HIDE DEF V
    <2>4. /\ act' \in ActSet /\ act'.cmd = act.cmd /\ act'.pc = "digest" /\ act'.vals = V
      BY <1>6, <2>2, <2>3 DEF ActSet
    <2> QED
      BY <2>4 DEF V
  <1>8. generated' \subseteq 10..12
    BY <1>a DEF SecretTypes
  <1>9. SecretTypes'
    BY <1>a, <1>4, <1>5, <1>6, <1>7, <1>8 DEF SecretTypes
  <1>10. Resolve'["KEY"] = Resolve["KEY"]
    <2>1. \A s \in ScopeSet : <<s, "KEY">> \in VaultKeys /\ <<s, "KEY">> # <<"env", "DB">>
      BY <1>a DEF VaultKeys
    <2>2. \A s \in ScopeSet : vault'[<<s, "KEY">>] = vault[<<s, "KEY">>]
      BY <1>1, <2>1
    <2> QED
      BY <1>a, <2>2, SameName
  <1>11. ASSUME Resolve["DB"] = 0 PROVE Resolve'["DB"] = v
    <2>1. Rows("DB") = {}
      BY <1>a, <1>11, ResolveIs
    <2>2. \A s \in ScopeSet : s # "env" => ~(vault'[<<s, "DB">>].version > 0)
      <3>1. \A s \in ScopeSet : s # "env" => <<s, "DB">> \in VaultKeys /\ <<s, "DB">> # <<"env", "DB">>
        BY <1>a DEF VaultKeys
      <3> QED
        BY <1>1, <2>1, <3>1 DEF Rows
    <2>3. Rows("DB")' = {"env"}
      BY <1>a, <1>1, <1>2, <2>2 DEF Rows
    <2>4. Winner("DB")' = WinnerAt(Rows("DB")')
      BY DEF Winner, WinnerAt
    <2>5. Winner("DB")' = "env"
      BY <2>3, <2>4, OnlyEnvScope
    <2>6. Resolve'["DB"] = IF Rows("DB")' = {} THEN 0 ELSE vault'[<<Winner("DB")', "DB">>].value
      BY <1>a DEF Resolve
    <2> QED
      BY <1>1, <1>2, <2>3, <2>5, <2>6
  <1>12. ASSUME Known PROVE Known'
    <2>1. act.vals = Resolve
      BY <1>12 DEF Known
    <2>2. Resolve' = act'.vals
      <3>1. act'.vals["DB"] = v /\ act'.vals["KEY"] = act.vals["KEY"]
        BY <1>6, <1>7 DEF SecretNames
      <3>2. Resolve'["DB"] = v /\ Resolve'["KEY"] = act.vals["KEY"]
        BY <1>10, <1>11, <2>1
      <3>3. Resolve' = [n \in SecretNames |-> Resolve'[n]]
        BY DEF Resolve
      <3>4. act'.vals = [n \in SecretNames |-> act'.vals[n]]
        BY <1>7 DEF ActSet
      <3>5. \A n \in SecretNames : Resolve'[n] = act'.vals[n]
        BY <3>1, <3>2 DEF SecretNames
      <3> QED
        BY <3>3, <3>4, <3>5
    <2>3. svcRow.digest \in Prints
      BY <1>a DEF SecretTypes
    <2>4. /\ svcRow.there => Printed(vault', svcRow.digest)
          /\ svcRow.there /\ ctr.there =>
                 Tells(vault', svcRow.digest, ctr.vals) \/ Passed(vault', svcRow.digest)
      BY <1>1, <1>12, <2>3, GrownKeeps DEF Known
    <2> QED
      BY <1>7, <2>2, <2>4 DEF Known
  <1>13. ASSUME Opens PROVE Opens'
    <2>1. Resolve["DB"] = 0
      BY <1>13 DEF Opens
    <2>2. act'.vals["DB"] = v
      BY <1>6, <1>7, <1>a
    <2>3. envStatus # "ready"
      BY <1>6, <1>a DEF SecretTypes
    <2> QED
      BY <1>2, <1>7, <1>11, <2>1, <2>2, <2>3 DEF Opens
  <1> QED
    BY <1>9, <1>12, <1>13 DEF SecretsInv

LEMMA EnsureKeeps == ASSUME SecretsInv, EnsureDepPassword PROVE SecretsInv'
  <1>1. CASE act.vals["DB"] # 0
    BY <1>1, PasswordSet
  <1>2. CASE act.vals["DB"] = 0 /\ OnMember
    <2>1. /\ act' = NoAct /\ envStatus' = "failed"
          /\ UNCHANGED <<vault, svcRow, ctr, generated, resets, secretRaced, touched>>
      BY <1>2 DEF EnsureDepPassword, Rest
    <2> QED
      BY <2>1, EndKeeps
  <1>3. CASE act.vals["DB"] = 0 /\ ~OnMember
    <2>1. PICK v \in 10..12 :
             /\ generated' = generated \cup {v} /\ vault' = PutSecret("env", "DB", v)
             /\ act' = [act EXCEPT !.vals["DB"] = v, !.pc = "digest"]
             /\ UNCHANGED envStatus
      BY <1>3 DEF EnsureDepPassword
    <2>2. act.pc = "set" /\ UNCHANGED <<depData, svcRow, ctr, resets, secretRaced, touched>>
      BY DEF EnsureDepPassword, Rest
    <2> QED
      BY <1>3, <2>1, <2>2, PasswordMade
  <1> QED
    BY <1>1, <1>2, <1>3

LEMMA ReadFingerprintKeeps == ASSUME SecretsInv, ReadFingerprint PROVE SecretsInv'
  <1>1. /\ UNCHANGED <<vault, envStatus, depData, svcRow, ctr, generated, resets, secretRaced, touched>>
        /\ act.pc = "digest"
        /\ act' = [act EXCEPT !.digest = Fingerprint,
                              !.pc = IF act.cmd = "create" THEN "dep" ELSE "compare"]
    BY DEF ReadFingerprint, Rest
  <1>2. act \in ActSet /\ Fingerprint \in Prints /\ SecretTypes
    BY PrintIs DEF SecretsInv, SecretTypes
  <1>3. /\ act' \in ActSet /\ act'.cmd = act.cmd /\ act'.vals = act.vals /\ act'.digest = Fingerprint
        /\ act'.pc = IF act.cmd = "create" THEN "dep" ELSE "compare"
    BY <1>1, <1>2 DEF ActSet
  <1>4. SecretTypes'
    BY <1>1, <1>2, <1>3 DEF SecretTypes, ActSet
  <1>5. ASSUME Known PROVE Known'
    <2>1. act.vals = Resolve
      BY <1>1, <1>5 DEF Known
    <2>2. Printed(vault, Fingerprint) /\ Tells(vault, Fingerprint, act.vals)
      BY <1>2, <2>1, PrintOfNow
    <2>3. svcRow.there => svcRow.digest = Fingerprint \/ Passed(vault, svcRow.digest)
      BY <1>2, <1>5, PrintedOrPassed DEF Known, SecretTypes
    <2> QED
      BY <1>1, <1>3, <1>5, <2>2, <2>3 DEF Known
  <1>6. Opens => Opens'
    BY <1>1, <1>3, SameVault DEF Opens
  <1> QED
    BY <1>1, <1>4, <1>5, <1>6 DEF SecretsInv

LEMMA StartDepKeeps == ASSUME SecretsInv, StartDep PROVE SecretsInv'
  <1>1. /\ UNCHANGED <<vault, svcRow, ctr, generated, resets, secretRaced, touched>>
        /\ act.pc = "dep" /\ act' = NoAct /\ envStatus' = "ready" /\ depData' = act.vals["DB"]
    BY DEF StartDep, Rest
  <1>2. act' \in ActSet /\ act'.pc = "idle" /\ act'.cmd = "none"
    BY <1>1, NoActIs
  <1>3. SecretTypes' /\ act.cmd = "create"
    BY <1>1, <1>2 DEF SecretsInv, SecretTypes
  <1>4. Known => Known'
    BY <1>1, <1>2, SameVault DEF Known
  <1>5. Opens => Opens'
    BY <1>1, <1>2, <1>3, SameVault DEF Opens
  <1> QED
    BY <1>1, <1>3, <1>4, <1>5 DEF SecretsInv

LEMMA WriteEnvFileKeeps == ASSUME SecretsInv, WriteEnvFile PROVE SecretsInv'
  <1>1. /\ UNCHANGED <<vault, envStatus, depData, svcRow, generated, resets, secretRaced, touched>>
        /\ act.pc = "compare" /\ act' = [act EXCEPT !.pc = "run"] /\ ctr' = NoBox
    BY DEF WriteEnvFile
  <1>2. act \in ActSet /\ SecretTypes
    BY DEF SecretsInv, SecretTypes
  <1>3. /\ act' \in ActSet /\ act'.cmd = act.cmd /\ act'.vals = act.vals /\ act'.digest = act.digest
        /\ act'.pc = "run"
    BY <1>1, <1>2 DEF ActSet
  <1>4. ctr' \in [there : BOOLEAN, vals : [SecretNames -> Values]] /\ ~ctr'.there
    BY <1>1 DEF NoBox, Values
  <1>5. SecretTypes'
    BY <1>1, <1>2, <1>3, <1>4 DEF SecretTypes
  <1>6. Known => Known'
    BY <1>1, <1>3, <1>4, SameVault DEF Known
  <1>7. Opens => Opens'
    BY <1>1, <1>3, SameVault DEF Opens
  <1> QED
    BY <1>1, <1>5, <1>6, <1>7 DEF SecretsInv

LEMMA RunContainerKeeps == ASSUME SecretsInv, RunContainer PROVE SecretsInv'
  <1>1. /\ UNCHANGED <<vault, envStatus, depData, svcRow, generated, resets, secretRaced, touched>>
        /\ act.pc = "run" /\ act' = [act EXCEPT !.pc = "record"]
        /\ ctr' = [there |-> TRUE, vals |-> act.vals]
    BY DEF RunContainer
  <1>2. act \in ActSet /\ SecretTypes
    BY DEF SecretsInv, SecretTypes
  <1>3. /\ act' \in ActSet /\ act'.cmd = act.cmd /\ act'.vals = act.vals /\ act'.digest = act.digest
        /\ act'.pc = "record"
    BY <1>1, <1>2 DEF ActSet
  <1>4. ctr' \in [there : BOOLEAN, vals : [SecretNames -> Values]] /\ ctr'.vals = act.vals
    BY <1>1, <1>2 DEF ActSet
  <1>5. SecretTypes'
    BY <1>1, <1>2, <1>3, <1>4 DEF SecretTypes
  <1>6. Known => Known'
    BY <1>1, <1>3, <1>4, SameVault DEF Known
  <1>7. Opens => Opens'
    BY <1>1, <1>3, SameVault DEF Opens
  <1> QED
    BY <1>1, <1>5, <1>6, <1>7 DEF SecretsInv

LEMMA PutServiceKeeps == ASSUME SecretsInv, PutService PROVE SecretsInv'
  <1>1. /\ UNCHANGED <<vault, envStatus, depData, ctr, generated, resets, secretRaced, touched>>
        /\ act.pc = "record" /\ act' = NoAct
        /\ svcRow' = [there |-> TRUE, digest |-> act.digest]
    BY DEF PutService
  <1>2. act \in ActSet /\ SecretTypes
    BY DEF SecretsInv, SecretTypes
  <1>3. act' \in ActSet /\ act'.pc = "idle" /\ act'.cmd = "none"
    BY <1>1, NoActIs
  <1>4. svcRow' \in [there : BOOLEAN, digest : Prints] /\ svcRow'.digest = act.digest
    BY <1>1, <1>2 DEF ActSet
  <1>5. SecretTypes'
    BY <1>1, <1>2, <1>3, <1>4 DEF SecretTypes
  <1>6. Known => Known'
    BY <1>1, <1>3, <1>4, SameVault DEF Known
  <1>7. Opens => Opens'
    BY <1>1, <1>3, SameVault DEF Opens
  <1> QED
    BY <1>1, <1>5, <1>6, <1>7 DEF SecretsInv

LEMMA SecretsStep == ASSUME SecretsInv, [SecretsNext]_secretVars PROVE SecretsInv'
  <1>1. ASSUME NEW s \in ScopeSet, NEW n \in SecretNames, NEW v \in OperatorValues, VaultSet(s, n, v)
        PROVE  SecretsInv'
    BY <1>1, VaultSetKeeps
  <1>2. ASSUME NEW s \in ScopeSet, NEW n \in SecretNames, VaultRemove(s, n)
        PROVE  SecretsInv'
    BY <1>2, VaultRemoveKeeps
  <1>3. CASE StartCreate
    <2>1. /\ act' = [NoAct EXCEPT !.cmd = "create", !.pc = "values"] /\ act.pc = "idle"
          /\ UNCHANGED <<vault, svcRow, ctr, generated, resets, secretRaced, touched>>
          /\ envStatus' = "creating"
      BY <1>3 DEF StartCreate
    <2> QED
      BY <2>1, SecretsStartKeeps
  <1>4. CASE StartUp
    <2>1. /\ act' = [NoAct EXCEPT !.cmd = "up", !.pc = "values"] /\ act.pc = "idle"
          /\ UNCHANGED <<vault, svcRow, ctr, generated, resets, secretRaced, touched>>
          /\ envStatus = "ready" /\ envStatus' = "ready" /\ depData' = depData
      BY <1>4 DEF StartUp
    <2> QED
      BY <2>1, SecretsStartKeeps
  <1>5. CASE Keep
    <2>1. /\ act' = NoAct /\ UNCHANGED <<envStatus, depData>>
          /\ UNCHANGED <<vault, svcRow, ctr, generated, resets, secretRaced, touched>>
      BY <1>5 DEF Keep, Rest
    <2>2. act.cmd # "create"
      BY <1>5 DEF Keep, SecretsInv, SecretTypes
    <2> QED
      BY <2>1, <2>2, EndKeeps
  <1>6. CASE Cut
    <2>1. /\ act' = NoAct /\ depData' = depData
          /\ envStatus' = IF act.cmd = "create" THEN "failed" ELSE envStatus
          /\ UNCHANGED <<vault, svcRow, ctr, generated, resets, secretRaced, touched>>
      BY <1>6 DEF Cut
    <2> QED
      BY <2>1, EndKeeps
  <1>7. CASE UNCHANGED secretVars
    <2>1. /\ UNCHANGED <<vault, act, envStatus, depData, svcRow, ctr, generated,
                         resets, secretRaced, touched>>
      BY <1>7 DEF secretVars
    <2>2. SecretTypes'
      BY <2>1 DEF SecretsInv, SecretTypes
    <2>3. (Known => Known') /\ (Opens => Opens')
      BY <2>1, SameVault DEF Known, Opens
    <2> QED
      BY <2>1, <2>2, <2>3 DEF SecretsInv
  <1> QED
    BY <1>1, <1>2, <1>3, <1>4, <1>5, <1>6, <1>7, SecretsForKeeps, EnsureKeeps, ReadFingerprintKeeps,
       StartDepKeeps, WriteEnvFileKeeps, RunContainerKeeps, PutServiceKeeps DEF SecretsNext

LEMMA InvIsKept == ASSUME SecretsInv PROVE SecretsKept
  <1>1. SecretsTypeOK
    <2>1. DOMAIN Sources \subseteq SecretNames
      BY DEF Sources
    <2> QED
      BY <2>1 DEF SecretsInv, SecretTypes, SecretsTypeOK, VaultKeys
  <1>2. DigestTells
    <2> SUFFICES ASSUME ~resets, ~secretRaced, svcRow.there, ctr.there, svcRow.digest = Fingerprint
                 PROVE  ctr.vals = Resolve
      BY DEF DigestTells, Carried
    <2>1. Known /\ SecretTypes /\ ctr.vals \in [SecretNames -> Values]
      BY DEF SecretsInv, SecretTypes
    <2>2. Tells(vault, Fingerprint, ctr.vals)
      BY <2>1, PrintOfNow DEF Known
    <2> QED
      BY <2>1, <2>2, TellsIsResolve
  <1>3. PasswordOpens
    BY DEF SecretsInv, Opens, PasswordOpens
  <1> QED
    BY <1>1, <1>2, <1>3 DEF SecretsKept

\* A service whose recorded fingerprint is the vault's runs with the vault's
\* values, and the password the vault resolves opens the data of the
\* dependency, for any values operators set, any number of creates, ups and
\* kills of the daemon, on the hub and on a member. (DB.Fingerprint,
\* PutSecret, unchanged, ensureDepPasswords)
THEOREM SecretsStayKept == SecretsSpec => []SecretsKept
  <1>1. SecretsInit => SecretsInv
    BY SecretsInitInv
  <1>2. SecretsInv /\ [SecretsNext]_secretVars => SecretsInv'
    BY SecretsStep
  <1>3. SecretsInv => SecretsKept
    BY InvIsKept
  <1> QED
    BY <1>1, <1>2, <1>3, PTL DEF SecretsSpec

-----------------------------------------------------------------------------
(* The pushes. *)

PushSteps == {"idle", "ensure", "check", "land", "settle", "record", "sync", "synced", "done"}
Calm == {"fault", "dirty", "commit"}

GitTypes ==
    /\ refs \in [Branches -> Commits] /\ refs[EnvBranch] # NoCommit
    /\ headRef \in Branches
    /\ appRow \in Branches \cup {"none", ""}
    /\ checkout \in [commit : SUBSET Works, dirty : BOOLEAN]
    /\ mirrorRef \in SUBSET Works /\ envRow \in SUBSET Works
    /\ push \in [Pushes -> [pc : PushSteps, branch : Branches, base : Commits, new : SUBSET Works]]
    /\ sync \in [by : Pushes \cup {"nobody"}, pc : {"free", "fetch", "look", "checkout", "record"},
                 saw : BOOLEAN]

\* The sync on the member is of the push that waits for it.
Waiting ==
    /\ sync.pc = "free" <=> sync.by = "nobody"
    /\ \A p \in Pushes : push[p].pc = "synced" <=> sync.by = p
    /\ ~EnvOnMember => sync.pc = "free"

\* HEAD is settled once and for all.
Settled ==
    /\ appRow \notin {"none", ""} => BranchExists(headRef) /\ BranchExists(appRow)
    /\ \A p \in Pushes : push[p].pc = "record" => appRow \notin {"none", ""}

\* What is changed and not committed.
Kept ==
    /\ sync.pc = "checkout" /\ checkout.dirty => "race" \in apart
    /\ "edit" \in lost => "race" \in apart

\* The branch on the hub, and its row.
OfBranch(p) == push[p].pc \in {"settle", "record"} /\ push[p].branch = EnvBranch
OnTheHub ==
    ~EnvOnMember =>
        /\ checkout.commit = refs[EnvBranch]
        /\ "dirty" \notin apart
        /\ apart \cap {"fault", "commit", "overlap"} = {} =>
               /\ \A p, q \in Busy : p = q
               /\ \A p \in Pushes : OfBranch(p) => push[p].new = checkout.commit
               /\ envRow = checkout.commit \/ \E p \in Pushes : OfBranch(p)

\* What a push brought is with the member, or on its way there.
OnTheMember ==
    (EnvOnMember /\ apart \cap Calm = {}) =>
        /\ \/ \E p \in Pushes : push[p].pc \in {"settle", "record", "sync"}
           \/ sync.pc = "fetch"
           \/ sync.pc \in {"look", "checkout"} /\ mirrorRef = refs[EnvBranch]
           \/ sync.pc \in {"record", "free"} /\ checkout.commit = refs[EnvBranch]
        /\ sync.pc = "record" \/ envRow = checkout.commit

GitInv == GitTypes /\ Waiting /\ Settled /\ Kept /\ OnTheHub /\ OnTheMember

PushSet == [pc : PushSteps, branch : Branches, base : Commits, new : SUBSET Works]

\* What can be a commit.
LEMMA WorkIs ==
    /\ NoCommit \notin SUBSET Works
    /\ \A c \in Commits : c # NoCommit => c \in SUBSET Works
    /\ SUBSET Works \subseteq Commits /\ NoCommit \in Commits
    /\ "edit" \notin Works /\ Pushes \subseteq Works /\ "local" \in Works
  <1>1. "edit" \notin Works /\ "nothing" \notin Works /\ Pushes \subseteq Works /\ "local" \in Works
    BY GitAssumption DEF Works, Local
  <1>2. NoCommit \notin SUBSET Works
    BY <1>1 DEF NoCommit
  <1>3. Commits = (SUBSET Works) \cup {NoCommit}
    BY DEF Commits
  <1> QED
    BY <1>1, <1>2, <1>3

LEMMA GitInitInv == ASSUME GitInit PROVE GitInv
  <1>1. GitTypes
    <2>1. Seed \in SUBSET Works /\ Seed \in Commits /\ NoCommit \in Commits /\ Seed # NoCommit
      BY WorkIs DEF Seed
    <2>2. NoPush \in PushSet
      BY WorkIs, GitAssumption DEF NoPush, PushSet, PushSteps
    <2>3. push \in [Pushes -> PushSet]
      BY <2>2 DEF GitInit
    <2>4. refs \in [Branches -> Commits] /\ refs[EnvBranch] # NoCommit
      BY <2>1, GitAssumption DEF GitInit
    <2>5. checkout \in [commit : SUBSET Works, dirty : BOOLEAN]
      BY <2>1 DEF GitInit
    <2>6. sync \in [by : Pushes \cup {"nobody"}, pc : {"free", "fetch", "look", "checkout", "record"},
                    saw : BOOLEAN]
      BY DEF GitInit, NoSync
    <2> QED
      BY <2>1, <2>3, <2>4, <2>5, <2>6, GitAssumption DEF GitTypes, GitInit, PushSet
  <1>2. \A p \in Pushes : push[p].pc = "idle"
    BY DEF GitInit, NoPush
  <1>3. sync.pc = "free" /\ sync.by = "nobody"
    BY DEF GitInit, NoSync
  <1>4. Waiting
    BY <1>2, <1>3, GitAssumption DEF Waiting
  <1>5. Settled /\ Kept
    BY <1>2, <1>3 DEF Settled, Kept, GitInit
  <1>6. checkout.commit = refs[EnvBranch] /\ envRow = checkout.commit /\ apart = {}
    BY GitAssumption DEF GitInit, Seed
  <1>7. OnTheHub
    BY <1>2, <1>6 DEF OnTheHub, Busy, OfBranch
  <1>8. OnTheMember
    BY <1>3, <1>6 DEF OnTheMember
  <1> QED
    BY <1>1, <1>4, <1>5, <1>7, <1>8 DEF GitInv

\* One push goes to another step.
Went(p, pc) ==
    /\ push' \in [Pushes -> PushSet]
    /\ push'[p].pc = pc /\ push'[p].branch = push[p].branch /\ push'[p].new = push[p].new
    /\ \A q \in Pushes : q # p => push'[q] = push[q]

LEMMA GoToIs ==
    ASSUME GitTypes, NEW p \in Pushes, NEW pc \in PushSteps, GoTo(p, pc)
    PROVE  Went(p, pc)
  <1>1. push \in [Pushes -> PushSet] /\ push' = [push EXCEPT ![p] = [push[p] EXCEPT !.pc = pc]]
    BY DEF GitTypes, PushSet, GoTo
  <1> DEFINE entry == [push[p] EXCEPT !.pc = pc]
  <1>2. entry \in PushSet /\ entry.pc = pc /\ entry.branch = push[p].branch /\ entry.new = push[p].new
    BY <1>1 DEF PushSet
  <1>3. push' = [push EXCEPT ![p] = entry]
    BY <1>1
  <1> HIDE DEF entry
  <1> QED
    BY <1>1, <1>2, <1>3 DEF Went

LEMMA ServeGitKeeps ==
    ASSUME GitInv, NEW p \in Pushes, NEW b \in Branches, ServeGit(p, b)
    PROVE  GitInv'
  <1> DEFINE base == IF refs[b] = NoCommit THEN {} ELSE refs[b]
             entry == [pc |-> "ensure", branch |-> b, base |-> refs[b], new |-> base \cup {p}]
  <1>1. /\ push[p].pc = "idle" /\ push' = [push EXCEPT ![p] = entry]
        /\ apart' = IF Busy # {} /\ ~EnvOnMember THEN apart \cup {"overlap"} ELSE apart
        /\ UNCHANGED <<refs, headRef, appRow, hooks, checkout, mirrorRef, envRow, sync, lost>>
    BY DEF ServeGit, PushAt
  <1>2. push \in [Pushes -> PushSet] /\ refs[b] \in Commits
    BY DEF GitInv, GitTypes, PushSet
  <1>3. base \in SUBSET Works
    BY <1>2, WorkIs
  <1>4. entry \in PushSet /\ entry.pc = "ensure"
    BY <1>2, <1>3, WorkIs DEF PushSet, PushSteps
  <1> HIDE DEF entry, base
  <1>5. /\ push' \in [Pushes -> PushSet] /\ push'[p].pc = "ensure"
        /\ \A q \in Pushes : q # p => push'[q] = push[q]
    BY <1>1, <1>2, <1>4
  <1>6. GitTypes'
    BY <1>1, <1>5 DEF GitInv, GitTypes, PushSet
  <1>7. Waiting'
    BY <1>1, <1>5 DEF GitInv, Waiting
  <1>8. Settled'
    BY <1>1, <1>5 DEF GitInv, Settled, BranchExists
  <1>9. Kept'
    BY <1>1 DEF GitInv, Kept
  <1>10. OnTheHub'
    <2>1. ASSUME ~EnvOnMember, apart' \cap {"fault", "commit", "overlap"} = {}
          PROVE  /\ \A q, r \in Busy' : q = r
                 /\ \A q \in Pushes : OfBranch(q)' => push'[q].new = checkout'.commit
                 /\ envRow' = checkout'.commit \/ \E q \in Pushes : OfBranch(q)'
      <3>1. Busy = {} /\ apart' = apart
        BY <1>1, <2>1
      <3>2. \A q \in Pushes : push[q].pc \in {"idle", "done"}
        BY <3>1 DEF Busy
      <3>3. envRow = checkout.commit
        BY <2>1, <3>1, <3>2 DEF GitInv, OnTheHub, OfBranch
      <3>4. Busy' \subseteq {p}
        BY <1>5, <3>2 DEF Busy
      <3>5. \A q \in Pushes : ~OfBranch(q)'
        BY <1>5, <3>2 DEF OfBranch
      <3> QED
        BY <1>1, <3>3, <3>4, <3>5
    <2>2. ~EnvOnMember => checkout'.commit = refs'[EnvBranch] /\ "dirty" \notin apart'
      BY <1>1 DEF GitInv, OnTheHub
    <2> QED
      BY <2>1, <2>2 DEF OnTheHub
  <1>11. OnTheMember'
    BY <1>1, <1>5 DEF GitInv, OnTheMember
  <1> QED
    BY <1>6, <1>7, <1>8, <1>9, <1>10, <1>11 DEF GitInv

\* A step of a push that changes nothing but where it is, from before the
\* branch moved.
LEMMA EarlyStep ==
    ASSUME GitInv, NEW p \in Pushes, NEW pc \in {"check", "land", "done"},
           push[p].pc \in {"ensure", "check", "land"}, GoTo(p, pc),
           UNCHANGED <<refs, headRef, checkout, mirrorRef, envRow, sync, lost, apart>>,
           appRow' \in Branches \cup {"none", ""},
           appRow' = appRow \/ (appRow = "none" /\ appRow' = "")
    PROVE  GitInv'
  <1>1. Went(p, pc)
    BY GoToIs DEF GitInv, PushSteps
  <1>2. GitTypes'
    BY <1>1 DEF GitInv, GitTypes, PushSet, Went
  <1>3. Waiting'
    BY <1>1 DEF GitInv, Waiting, Went
  <1>4. Settled'
    BY <1>1 DEF GitInv, Settled, BranchExists, Went
  <1>5. Kept'
    BY DEF GitInv, Kept
  <1>6. \A q \in Pushes : OfBranch(q)' <=> OfBranch(q)
    BY <1>1 DEF OfBranch, Went
  <1>7. Busy' \subseteq Busy
    BY <1>1 DEF Busy, Went
  <1>8. \A q \in Pushes : OfBranch(q) => push'[q].new = push[q].new
    BY <1>1 DEF Went
  <1>9. OnTheHub'
    BY <1>6, <1>7, <1>8 DEF GitInv, OnTheHub
  <1>10. OnTheMember'
    BY <1>1 DEF GitInv, OnTheMember, Went
  <1> QED
    BY <1>2, <1>3, <1>4, <1>5, <1>9, <1>10 DEF GitInv

LEMMA EnsureAppKeeps == ASSUME GitInv, NEW p \in Pushes, EnsureApp(p) PROVE GitInv'
  <1>1. /\ push[p].pc = "ensure" /\ GoTo(p, "check")
        /\ appRow' = IF appRow = "none" THEN "" ELSE appRow
        /\ UNCHANGED <<refs, headRef, checkout, mirrorRef, envRow, sync, lost, apart>>
    BY DEF EnsureApp, PushAt
  <1>2. appRow' \in Branches \cup {"none", ""}
    BY <1>1 DEF GitInv, GitTypes
  <1> QED
    BY <1>1, <1>2, EarlyStep

LEMMA CheckPushKeeps == ASSUME GitInv, NEW p \in Pushes, CheckPush(p) PROVE GitInv'
  <1>1. /\ push[p].pc = "check" /\ (GoTo(p, "land") \/ GoTo(p, "done"))
        /\ UNCHANGED <<refs, headRef, appRow, checkout, mirrorRef, envRow, sync, lost, apart>>
    BY DEF CheckPush, PushAt
  <1>2. appRow' \in Branches \cup {"none", ""}
    BY <1>1 DEF GitInv, GitTypes
  <1> QED
    BY <1>1, <1>2, EarlyStep

\* The branch moves.
LEMMA LandMoves ==
    ASSUME GitInv, NEW p \in Pushes, Land(p), refs[push[p].branch] = push[p].base, PushToCheckout(p)
    PROVE  GitInv'
  <1> DEFINE b == push[p].branch  new == push[p].new
  <1>1. /\ push[p].pc = "land" /\ GoTo(p, "settle")
        /\ refs' = [refs EXCEPT ![b] = new]
        /\ checkout' = IF HoldsCheckout(p) THEN [commit |-> new, dirty |-> FALSE] ELSE checkout
        /\ lost' = IF HoldsCheckout(p) /\ checkout.dirty THEN lost \cup {"edit"} ELSE lost
        /\ UNCHANGED <<headRef, appRow, mirrorRef, envRow, sync, apart>>
    BY DEF Land, PushAt
  <1>2. Went(p, "settle")
    BY <1>1, GoToIs DEF GitInv, PushSteps
  <1>3. b \in Branches /\ new \in SUBSET Works /\ new \in Commits /\ new # NoCommit
    <2>1. push[p] \in PushSet
      BY DEF GitInv, GitTypes, PushSet
    <2>2. b \in Branches /\ new \in SUBSET Works
      BY <2>1 DEF PushSet
    <2> HIDE DEF b, new
    <2> QED
      BY <2>2, WorkIs
  <1>4. refs \in [Branches -> Commits] /\ EnvBranch \in Branches
    BY GitAssumption DEF GitInv, GitTypes
  <1>5. lost' = lost
    BY <1>1 DEF PushToCheckout
  <1>b. HoldsCheckout(p) <=> ~EnvOnMember /\ b = EnvBranch
    BY DEF HoldsCheckout
  <1> HIDE DEF b, new
  <1>6. /\ refs' \in [Branches -> Commits]
        /\ \A c \in Branches : refs'[c] = IF c = b THEN new ELSE refs[c]
    BY <1>1, <1>3, <1>4
  <1>7. checkout' \in [commit : SUBSET Works, dirty : BOOLEAN] /\ (checkout'.dirty => checkout.dirty)
    BY <1>1, <1>3 DEF GitInv, GitTypes
  <1>8. GitTypes'
    BY <1>1, <1>2, <1>3, <1>4, <1>6, <1>7 DEF GitInv, GitTypes, PushSet, Went
  <1>9. Waiting'
    BY <1>1, <1>2 DEF GitInv, Waiting, Went
  <1>10. Settled'
    <2>1. \A c \in Branches : BranchExists(c) => BranchExists(c)'
      BY <1>3, <1>6 DEF BranchExists
    <2>2. appRow \notin {"none", ""} => appRow \in Branches /\ headRef \in Branches
      BY DEF GitInv, GitTypes
    <2>3. appRow' \notin {"none", ""} => BranchExists(headRef)' /\ BranchExists(appRow)'
      BY <1>1, <2>1, <2>2 DEF GitInv, Settled, BranchExists
    <2> QED
      BY <1>1, <1>2, <2>3 DEF GitInv, Settled, Went
  <1>11. Kept'
    BY <1>1, <1>5, <1>7 DEF GitInv, Kept
  <1>12. OnTheHub'
    <2> SUFFICES ASSUME ~EnvOnMember PROVE OnTheHub'
      BY DEF OnTheHub
    <2>1. checkout'.commit = refs'[EnvBranch] /\ "dirty" \notin apart'
      <3>1. CASE b = EnvBranch
        BY <1>1, <1>4, <1>6, <1>b, <3>1 DEF GitInv, OnTheHub
      <3>2. CASE b # EnvBranch
        BY <1>1, <1>4, <1>6, <1>b, <3>2 DEF GitInv, OnTheHub
      <3> QED
        BY <3>1, <3>2
    <2>2. ASSUME apart' \cap {"fault", "commit", "overlap"} = {}
          PROVE  /\ \A q, r \in Busy' : q = r
                 /\ \A q \in Pushes : OfBranch(q)' => push'[q].new = checkout'.commit
                 /\ envRow' = checkout'.commit \/ \E q \in Pushes : OfBranch(q)'
      <3>1. p \in Busy /\ \A q \in Busy : q = p
        BY <1>1, <2>2 DEF GitInv, OnTheHub, Busy
      <3>2. \A q \in Pushes : q # p => push[q].pc \in {"idle", "done"}
        BY <3>1 DEF Busy
      <3>3. Busy' \subseteq {p}
        BY <1>2, <3>2 DEF Busy, Went
      <3>4. \A q \in Pushes : q # p => ~OfBranch(q)'
        BY <1>2, <3>2 DEF OfBranch, Went
      <3>5. OfBranch(p)' <=> b = EnvBranch
        BY <1>2 DEF OfBranch, Went, b
      <3>6. ~OfBranch(p)
        BY <1>1 DEF OfBranch
      <3>7. \A q \in Pushes : ~OfBranch(q)
        BY <3>2, <3>6 DEF OfBranch
      <3>8. envRow = checkout.commit
        BY <1>1, <2>2, <3>7 DEF GitInv, OnTheHub
      <3>9. push'[p].new = new
        BY <1>2 DEF Went, new
      <3>10. CASE b = EnvBranch
        <4>1. checkout'.commit = new
          BY <1>1, <1>b, <3>10
        <4> QED
          BY <3>3, <3>4, <3>5, <3>9, <3>10, <4>1
      <3>11. CASE b # EnvBranch
        <4>1. checkout' = checkout /\ envRow' = envRow
          BY <1>1, <1>b, <3>11
        <4> QED
          BY <3>3, <3>4, <3>5, <3>8, <3>11, <4>1
      <3> QED
        BY <3>10, <3>11
    <2> QED
      BY <2>1, <2>2 DEF OnTheHub
  <1>13. OnTheMember'
    <2>1. EnvOnMember => checkout' = checkout
      BY <1>1, <1>b
    <2> QED
      BY <1>1, <1>2, <2>1 DEF GitInv, OnTheMember, Went
  <1> QED
    BY <1>8, <1>9, <1>10, <1>11, <1>12, <1>13 DEF GitInv

LEMMA LandKeeps == ASSUME GitInv, NEW p \in Pushes, Land(p) PROVE GitInv'
  <1>1. CASE refs[push[p].branch] = push[p].base /\ PushToCheckout(p)
    BY <1>1, LandMoves
  <1>2. CASE ~(refs[push[p].branch] = push[p].base /\ PushToCheckout(p))
    <2>1. /\ push[p].pc = "land" /\ GoTo(p, "done")
          /\ UNCHANGED <<refs, headRef, appRow, checkout, mirrorRef, envRow, sync, lost, apart>>
      BY <1>2 DEF Land, PushAt
    <2>2. appRow' \in Branches \cup {"none", ""}
      BY <2>1 DEF GitInv, GitTypes
    <2> QED
      BY <2>1, <2>2, EarlyStep
  <1> QED
    BY <1>1, <1>2

\* HEAD names a branch, and so does the app's row.
LEMMA SettleHEADKeeps == ASSUME GitInv, NEW p \in Pushes, SettleHEAD(p) PROVE GitInv'
  <1>1. /\ push[p].pc = "settle" /\ headRef' = HeadBranch /\ appRow' = HeadBranch /\ GoTo(p, "record")
        /\ UNCHANGED <<refs, checkout, mirrorRef, envRow, sync, lost, apart>>
    BY DEF SettleHEAD, PushAt
  <1>2. Went(p, "record")
    BY <1>1, GoToIs DEF GitInv, PushSteps
  <1>3. HeadBranch \in Branches /\ refs[HeadBranch] # NoCommit
    <2>1. \E c \in Branches : BranchExists(c)
      BY GitAssumption DEF GitInv, GitTypes, BranchExists
    <2>2. headRef \in Branches /\ "main" \in Branches
      BY GitAssumption DEF GitInv, GitTypes
    <2>3. (CHOOSE c \in Branches : BranchExists(c)) \in Branches /\ BranchExists(CHOOSE c \in Branches : BranchExists(c))
      BY <2>1
    <2> QED
      BY <2>2, <2>3 DEF HeadBranch, BranchExists
  <1>4. GitTypes'
    BY <1>1, <1>2, <1>3 DEF GitInv, GitTypes, PushSet, Went
  <1>5. Waiting'
    BY <1>1, <1>2 DEF GitInv, Waiting, Went
  <1>6. Settled'
    <2>1. BranchExists(headRef)' /\ BranchExists(appRow)'
      BY <1>1, <1>3 DEF BranchExists
    <2>2. appRow' \notin {"none", ""}
      BY <1>1, <1>3, GitAssumption
    <2> QED
      BY <2>1, <2>2 DEF Settled
  <1>7. Kept'
    BY <1>1 DEF GitInv, Kept
  <1>8. \A q \in Pushes : OfBranch(q)' <=> OfBranch(q)
    BY <1>1, <1>2 DEF OfBranch, Went
  <1>9. Busy' = Busy
    BY <1>1, <1>2 DEF Busy, Went
  <1>10. \A q \in Pushes : push'[q].new = push[q].new
    BY <1>2 DEF Went
  <1>11. OnTheHub'
    BY <1>1, <1>8, <1>9, <1>10 DEF GitInv, OnTheHub
  <1>12. OnTheMember'
    BY <1>1, <1>2 DEF GitInv, OnTheMember, Went
  <1> QED
    BY <1>4, <1>5, <1>6, <1>7, <1>11, <1>12 DEF GitInv

LEMMA RecordPushKeeps == ASSUME GitInv, NEW p \in Pushes, RecordPush(p) PROVE GitInv'
  <1>1. /\ push[p].pc = "record" /\ envRow' = (IF HoldsCheckout(p) THEN push[p].new ELSE envRow)
        /\ GoTo(p, "sync")
        /\ UNCHANGED <<refs, headRef, appRow, checkout, mirrorRef, sync, lost, apart>>
    BY DEF RecordPush, PushAt
  <1>2. Went(p, "sync")
    BY <1>1, GoToIs DEF GitInv, PushSteps
  <1>3. push[p].new \in SUBSET Works
    BY DEF GitInv, GitTypes
  <1>4. GitTypes'
    BY <1>1, <1>2, <1>3 DEF GitInv, GitTypes, PushSet, Went
  <1>5. Waiting'
    BY <1>1, <1>2 DEF GitInv, Waiting, Went
  <1>6. Settled'
    BY <1>1, <1>2 DEF GitInv, Settled, BranchExists, Went
  <1>7. Kept'
    BY <1>1 DEF GitInv, Kept
  <1>8. OnTheHub'
    <2> SUFFICES ASSUME ~EnvOnMember, apart \cap {"fault", "commit", "overlap"} = {}
                 PROVE  /\ \A q, r \in Busy' : q = r
                        /\ \A q \in Pushes : OfBranch(q)' => push'[q].new = checkout'.commit
                        /\ envRow' = checkout'.commit \/ \E q \in Pushes : OfBranch(q)'
      BY <1>1 DEF GitInv, OnTheHub
    <2>1. p \in Busy /\ \A q \in Busy : q = p
      BY <1>1 DEF GitInv, OnTheHub, Busy
    <2>2. \A q \in Pushes : q # p => push[q].pc \in {"idle", "done"}
      BY <2>1 DEF Busy
    <2>3. Busy' \subseteq {p}
      BY <1>2, <2>2 DEF Busy, Went
    <2>4. \A q \in Pushes : ~OfBranch(q)'
      BY <1>2, <2>2 DEF OfBranch, Went
    <2>5. \A q \in Pushes : q # p => ~OfBranch(q)
      BY <2>2 DEF OfBranch
    <2>6. envRow' = checkout.commit
      <3>1. CASE push[p].branch = EnvBranch
        BY <1>1, <3>1 DEF GitInv, OnTheHub, OfBranch, HoldsCheckout
      <3>2. CASE push[p].branch # EnvBranch
        <4>1. ~OfBranch(p)
          BY <3>2 DEF OfBranch
        <4> QED
          BY <1>1, <2>5, <3>2, <4>1 DEF GitInv, OnTheHub, HoldsCheckout
      <3> QED
        BY <3>1, <3>2
    <2> QED
      BY <1>1, <2>3, <2>4, <2>6
  <1>9. OnTheMember'
    <2>1. EnvOnMember => envRow' = envRow
      BY <1>1 DEF HoldsCheckout
    <2> QED
      BY <1>1, <1>2, <2>1 DEF GitInv, OnTheMember, Went
  <1> QED
    BY <1>4, <1>5, <1>6, <1>7, <1>8, <1>9 DEF GitInv

\* A push is over: on the hub with its row written, else with a fault.
LEMMA OverKeeps ==
    ASSUME GitInv, NEW p \in Pushes, push[p].pc \notin {"idle", "done", "synced"}, GoTo(p, "done"),
           UNCHANGED <<refs, headRef, appRow, checkout, mirrorRef, envRow, sync, lost>>,
           \/ apart' = apart \cup {"fault"}
           \/ apart' = apart /\ ~EnvOnMember /\ push[p].pc = "sync"
    PROVE  GitInv'
  <1>1. Went(p, "done")
    BY GoToIs DEF GitInv, PushSteps
  <1>2. GitTypes'
    BY <1>1 DEF GitInv, GitTypes, PushSet, Went
  <1>3. Waiting'
    BY <1>1 DEF GitInv, Waiting, Went
  <1>4. Settled'
    BY <1>1 DEF GitInv, Settled, BranchExists, Went
  <1>5. Kept'
    BY DEF GitInv, Kept
  <1>6. OnTheHub'
    <2>1. CASE apart' = apart \cup {"fault"}
      BY <2>1 DEF GitInv, OnTheHub
    <2>2. CASE apart' = apart /\ push[p].pc = "sync"
      <3>1. \A q \in Pushes : OfBranch(q)' <=> OfBranch(q)
        BY <1>1, <2>2 DEF OfBranch, Went
      <3>2. Busy' \subseteq Busy
        BY <1>1 DEF Busy, Went
      <3>3. \A q \in Pushes : push'[q].new = push[q].new
        BY <1>1 DEF Went
      <3> QED
        BY <2>2, <3>1, <3>2, <3>3 DEF GitInv, OnTheHub
    <2> QED
      BY <2>1, <2>2
  <1>7. OnTheMember'
    BY DEF OnTheMember, Calm
  <1> QED
    BY <1>2, <1>3, <1>4, <1>5, <1>6, <1>7 DEF GitInv

LEMMA SyncMembersKeeps == ASSUME GitInv, NEW p \in Pushes, SyncMembers(p) PROVE GitInv'
  <1>1. /\ push[p].pc = "sync"
        /\ UNCHANGED <<refs, headRef, appRow, checkout, mirrorRef, envRow, lost>>
    BY DEF SyncMembers, PushAt
  <1>2. CASE ~EnvOnMember /\ GoTo(p, "done") /\ UNCHANGED <<sync, apart>>
    BY <1>1, <1>2, OverKeeps
  <1>3. CASE EnvOnMember /\ apart' = apart \cup {"fault"} /\ GoTo(p, "done") /\ UNCHANGED sync
    BY <1>1, <1>3, OverKeeps
  <1>4. CASE /\ EnvOnMember /\ sync.pc = "free" /\ GoTo(p, "synced") /\ apart' = apart
             /\ sync' = [by |-> p, pc |-> "fetch", saw |-> FALSE]
    <2>1. Went(p, "synced")
      BY <1>4, GoToIs DEF GitInv, PushSteps
    <2>2. /\ sync' \in [by : Pushes \cup {"nobody"}, pc : {"free", "fetch", "look", "checkout", "record"},
                        saw : BOOLEAN]
          /\ sync'.by = p /\ sync'.pc = "fetch"
      BY <1>4
    <2>3. GitTypes'
      BY <1>1, <2>1, <2>2 DEF GitInv, GitTypes, PushSet, Went
    <2>4. Waiting'
      <3>1. sync.by = "nobody" /\ p # "nobody"
        BY <1>4, GitAssumption DEF GitInv, Waiting
      <3>2. \A q \in Pushes : push[q].pc # "synced"
        BY <3>1, GitAssumption DEF GitInv, Waiting
      <3> QED
        BY <1>4, <2>1, <2>2, <3>1, <3>2 DEF Waiting, Went
    <2>5. Settled'
      BY <1>1, <2>1 DEF GitInv, Settled, BranchExists, Went
    <2>6. Kept'
      BY <1>1, <1>4, <2>2 DEF GitInv, Kept
    <2>7. OnTheHub'
      BY <1>4 DEF OnTheHub
    <2>8. OnTheMember'
      BY <1>1, <1>4, <2>2 DEF GitInv, OnTheMember
    <2> QED
      BY <2>3, <2>4, <2>5, <2>6, <2>7, <2>8 DEF GitInv
  <1> QED
    BY <1>2, <1>3, <1>4 DEF SyncMembers

LEMMA HangUpKeeps == ASSUME GitInv, NEW p \in Pushes, HangUp(p) PROVE GitInv'
  <1>1. push[p].pc \notin {"idle", "done"} /\ push[p].pc # "synced"
    BY DEF HangUp, Busy, GitInv, Waiting
  <1> QED
    BY <1>1, OverKeeps DEF HangUp

-----------------------------------------------------------------------------
(* The sync on the member. *)

SyncSet == [by : Pushes \cup {"nobody"}, pc : {"free", "fetch", "look", "checkout", "record"},
            saw : BOOLEAN]

LEMMA SyncIs ==
    ASSUME GitInv, NEW pc \in {"look", "checkout", "record"}, sync' = [sync EXCEPT !.pc = pc]
    PROVE  sync' \in SyncSet /\ sync'.pc = pc /\ sync'.by = sync.by
  BY DEF GitInv, GitTypes, SyncSet

\* The push whose sync it is, while there is one.
LEMMA SyncedBy ==
    ASSUME GitInv, sync.pc # "free"
    PROVE  sync.by \in Pushes /\ push[sync.by].pc = "synced" /\ EnvOnMember
  BY DEF GitInv, GitTypes, Waiting

\* A sync goes on: its push waits.
LEMMA SyncGoes ==
    ASSUME GitInv, NEW pc \in {"look", "checkout", "record"}, sync.pc # "free",
           sync' = [sync EXCEPT !.pc = pc],
           UNCHANGED <<refs, headRef, appRow, envRow, push>>
    PROVE  /\ Waiting' /\ Settled' /\ OnTheHub'
           /\ mirrorRef' \in SUBSET Works /\ checkout' \in [commit : SUBSET Works, dirty : BOOLEAN]
              => GitTypes'
  <1>1. sync' \in SyncSet /\ sync'.pc = pc /\ sync'.by = sync.by
    BY SyncIs
  <1>2. EnvOnMember
    BY SyncedBy
  <1>3. Waiting'
    BY <1>1 DEF GitInv, Waiting
  <1>4. Settled'
    BY DEF GitInv, Settled, BranchExists
  <1>5. OnTheHub'
    BY <1>2 DEF OnTheHub
  <1>6. ASSUME mirrorRef' \in SUBSET Works, checkout' \in [commit : SUBSET Works, dirty : BOOLEAN]
        PROVE GitTypes'
    BY <1>1, <1>6 DEF GitInv, GitTypes, SyncSet
  <1> QED
    BY <1>3, <1>4, <1>5, <1>6

LEMMA SyncFetchKeeps == ASSUME GitInv, SyncFetch PROVE GitInv'
  <1>1. /\ sync.pc = "fetch" /\ mirrorRef' = refs[EnvBranch] /\ sync' = [sync EXCEPT !.pc = "look"]
        /\ UNCHANGED <<refs, headRef, appRow, checkout, envRow, push, lost, apart>>
    BY DEF SyncFetch, FetchBranch
  <1>2. refs[EnvBranch] \in SUBSET Works
    BY GitAssumption, WorkIs DEF GitInv, GitTypes
  <1>3. checkout' \in [commit : SUBSET Works, dirty : BOOLEAN]
    BY <1>1 DEF GitInv, GitTypes
  <1>4. GitTypes' /\ Waiting' /\ Settled' /\ OnTheHub'
    BY <1>1, <1>2, <1>3, SyncGoes
  <1>5. sync'.pc = "look"
    BY <1>1, SyncIs
  <1>6. Kept'
    BY <1>1, <1>5 DEF GitInv, Kept
  <1>7. OnTheMember'
    BY <1>1, <1>5 DEF GitInv, OnTheMember
  <1> QED
    BY <1>4, <1>6, <1>7 DEF GitInv

LEMMA SyncEnds ==
    ASSUME GitInv, sync.pc # "free", sync' = NoSync, GoTo(sync.by, "done")
    PROVE  /\ Went(sync.by, "done") /\ sync' \in SyncSet /\ sync'.pc = "free"
           /\ Waiting'
           /\ UNCHANGED <<refs, headRef, appRow>> => Settled'
  <1>1. sync.by \in Pushes /\ push[sync.by].pc = "synced"
    BY SyncedBy
  <1>2. Went(sync.by, "done")
    BY <1>1, GoToIs DEF GitInv, PushSteps
  <1>3. sync' \in SyncSet /\ sync'.pc = "free" /\ sync'.by = "nobody"
    BY DEF NoSync, SyncSet
  <1>4. \A q \in Pushes : push'[q].pc # "synced"
    BY <1>1, <1>2 DEF GitInv, Waiting, Went
  <1>5. Waiting'
    BY <1>3, <1>4, GitAssumption DEF Waiting
  <1>6. UNCHANGED <<refs, headRef, appRow>> => Settled'
    BY <1>1, <1>2 DEF GitInv, Settled, BranchExists, Went
  <1> QED
    BY <1>2, <1>3, <1>5, <1>6

LEMMA SyncLookKeeps == ASSUME GitInv, SyncLook PROVE GitInv'
  <1>1. sync.pc = "look" /\ UNCHANGED <<refs, headRef, appRow, checkout, mirrorRef, envRow, lost>>
    BY DEF SyncLook
  <1>2. CASE checkout.dirty
    <2>1. sync' = NoSync /\ GoTo(sync.by, "done") /\ apart' = apart \cup {"dirty"}
      BY <1>2 DEF SyncLook
    <2>2. /\ Went(sync.by, "done") /\ sync' \in SyncSet /\ sync'.pc = "free" /\ Waiting' /\ Settled'
      BY <1>1, <2>1, SyncEnds
    <2>3. GitTypes'
      BY <1>1, <2>2 DEF GitInv, GitTypes, PushSet, SyncSet, Went
    <2>4. Kept'
      BY <1>1, <2>1, <2>2 DEF GitInv, Kept
    <2>5. OnTheHub'
      BY <1>1, SyncedBy DEF OnTheHub
    <2>6. OnTheMember'
      BY <2>1 DEF OnTheMember, Calm
    <2> QED
      BY <2>2, <2>3, <2>4, <2>5, <2>6 DEF GitInv
  <1>3. CASE ~checkout.dirty
    <2>1. sync' = [sync EXCEPT !.pc = "checkout"] /\ UNCHANGED <<push, apart>>
      BY <1>3 DEF SyncLook
    <2>2. mirrorRef' \in SUBSET Works /\ checkout' \in [commit : SUBSET Works, dirty : BOOLEAN]
      BY <1>1 DEF GitInv, GitTypes
    <2>3. GitTypes' /\ Waiting' /\ Settled' /\ OnTheHub'
      BY <1>1, <2>1, <2>2, SyncGoes
    <2>4. sync'.pc = "checkout"
      BY <2>1, SyncIs
    <2>5. Kept'
      BY <1>1, <1>3, <2>1 DEF GitInv, Kept
    <2>6. OnTheMember'
      BY <1>1, <2>1, <2>4 DEF GitInv, OnTheMember
    <2> QED
      BY <2>3, <2>5, <2>6 DEF GitInv
  <1> QED
    BY <1>2, <1>3

LEMMA UpdateWorktreeKeeps == ASSUME GitInv, UpdateWorktree PROVE GitInv'
  <1>1. /\ sync.pc = "checkout" /\ checkout' = [commit |-> mirrorRef, dirty |-> FALSE]
        /\ lost' = lost \cup (checkout.commit \ mirrorRef)
                        \cup (IF checkout.dirty THEN {"edit"} ELSE {})
        /\ sync' = [sync EXCEPT !.pc = "record"]
        /\ UNCHANGED <<refs, headRef, appRow, mirrorRef, envRow, push, apart>>
    BY DEF UpdateWorktree
  <1>2. mirrorRef \in SUBSET Works /\ checkout.commit \in SUBSET Works
    BY DEF GitInv, GitTypes
  <1>3. /\ checkout' \in [commit : SUBSET Works, dirty : BOOLEAN]
        /\ checkout'.commit = mirrorRef /\ ~checkout'.dirty
    BY <1>1, <1>2
  <1>4. GitTypes' /\ Waiting' /\ Settled' /\ OnTheHub'
    BY <1>1, <1>2, <1>3, SyncGoes
  <1>5. sync'.pc = "record"
    BY <1>1, SyncIs
  <1>6. Kept'
    <2>1. "edit" \notin checkout.commit
      BY <1>2, WorkIs
    <2>2. "edit" \in lost' => "edit" \in lost \/ checkout.dirty
      BY <1>1, <2>1
    <2> QED
      BY <1>1, <1>5, <2>2 DEF GitInv, Kept
  <1>7. OnTheMember'
    BY <1>1, <1>3, <1>5 DEF GitInv, OnTheMember
  <1> QED
    BY <1>4, <1>6, <1>7 DEF GitInv

LEMMA SyncRecordKeeps == ASSUME GitInv, SyncRecord PROVE GitInv'
  <1>1. /\ sync.pc = "record" /\ envRow' = checkout.commit /\ sync' = NoSync /\ GoTo(sync.by, "done")
        /\ UNCHANGED <<refs, headRef, appRow, checkout, mirrorRef, lost, apart>>
    BY DEF SyncRecord
  <1>2. /\ Went(sync.by, "done") /\ sync' \in SyncSet /\ sync'.pc = "free" /\ Waiting' /\ Settled'
    BY <1>1, SyncEnds
  <1>3. push[sync.by].pc = "synced" /\ sync.by \in Pushes /\ EnvOnMember
    BY <1>1, SyncedBy
  <1>4. GitTypes'
    BY <1>1, <1>2 DEF GitInv, GitTypes, PushSet, SyncSet, Went
  <1>5. Kept'
    BY <1>1, <1>2 DEF GitInv, Kept
  <1>6. OnTheHub'
    BY <1>3 DEF OnTheHub
  <1>7. OnTheMember'
    BY <1>1, <1>2, <1>3 DEF GitInv, OnTheMember, Went
  <1> QED
    BY <1>2, <1>4, <1>5, <1>6, <1>7 DEF GitInv

-----------------------------------------------------------------------------
(* Work in the checkout. *)

LEMMA EditKeeps == ASSUME GitInv, Edit \/ Discard PROVE GitInv'
  <1>1. /\ UNCHANGED <<refs, headRef, appRow, mirrorRef, envRow, push, sync, lost>>
        /\ \E d \in BOOLEAN : /\ checkout' = [checkout EXCEPT !.dirty = d]
                              /\ d /\ sync.pc = "checkout" => "race" \in apart'
        /\ apart' = apart \/ apart' = apart \cup {"race"}
    BY DEF Edit, Discard
  <1>2. /\ checkout' \in [commit : SUBSET Works, dirty : BOOLEAN] /\ checkout'.commit = checkout.commit
        /\ checkout'.dirty /\ sync.pc = "checkout" => "race" \in apart'
    BY <1>1 DEF GitInv, GitTypes
  <1>3. GitTypes' /\ Waiting' /\ Settled'
    BY <1>1, <1>2 DEF GitInv, GitTypes, Waiting, Settled, BranchExists
  <1>4. Kept'
    BY <1>1, <1>2 DEF GitInv, Kept
  <1>5. /\ apart' \cap Calm = {} => apart \cap Calm = {}
        /\ apart' \cap {"fault", "commit", "overlap"} = {} => apart \cap {"fault", "commit", "overlap"} = {}
        /\ "dirty" \in apart' => "dirty" \in apart
    BY <1>1 DEF Calm
  <1>6. OnTheHub'
    <2>1. Busy' = Busy /\ \A q \in Pushes : OfBranch(q)' <=> OfBranch(q)
      BY <1>1 DEF Busy, OfBranch
    <2> QED
      BY <1>1, <1>2, <1>5, <2>1 DEF GitInv, OnTheHub
  <1>7. OnTheMember'
    BY <1>1, <1>2, <1>5 DEF GitInv, OnTheMember
  <1> QED
    BY <1>3, <1>4, <1>6, <1>7 DEF GitInv

LEMMA CommitKeeps == ASSUME GitInv, Commit PROVE GitInv'
  <1> DEFINE new == checkout.commit \cup {Local}
  <1>1. /\ checkout' = [commit |-> new, dirty |-> FALSE]
        /\ refs' = IF EnvOnMember THEN refs ELSE [refs EXCEPT ![EnvBranch] = new]
        /\ apart' = apart \cup {"commit"}
        /\ UNCHANGED <<headRef, appRow, mirrorRef, envRow, push, sync, lost>>
    BY DEF Commit
  <1>2. new \in SUBSET Works /\ new \in Commits /\ new # NoCommit
    BY WorkIs DEF GitInv, GitTypes, Local
  <1> HIDE DEF new
  <1>3. /\ checkout' \in [commit : SUBSET Works, dirty : BOOLEAN]
        /\ checkout'.commit = new /\ ~checkout'.dirty
    BY <1>1, <1>2
  <1>4. refs \in [Branches -> Commits] /\ EnvBranch \in Branches /\ refs[EnvBranch] # NoCommit
    BY GitAssumption DEF GitInv, GitTypes
  <1>5. /\ refs' \in [Branches -> Commits] /\ refs'[EnvBranch] # NoCommit
        /\ ~EnvOnMember => refs'[EnvBranch] = new
        /\ \A c \in Branches : refs[c] # NoCommit => refs'[c] # NoCommit
    BY <1>1, <1>2, <1>4
  <1>6. GitTypes'
    BY <1>1, <1>3, <1>5 DEF GitInv, GitTypes
  <1>7. Waiting'
    BY <1>1 DEF GitInv, Waiting
  <1>8. Settled'
    <2>1. appRow \notin {"none", ""} => appRow \in Branches /\ headRef \in Branches
      BY DEF GitInv, GitTypes
    <2> QED
      BY <1>1, <1>5, <2>1 DEF GitInv, Settled, BranchExists
  <1>9. Kept'
    BY <1>1, <1>3 DEF GitInv, Kept
  <1>10. OnTheHub'
    BY <1>1, <1>3, <1>5 DEF GitInv, OnTheHub
  <1>11. OnTheMember'
    BY <1>1 DEF OnTheMember, Calm
  <1> QED
    BY <1>6, <1>7, <1>8, <1>9, <1>10, <1>11 DEF GitInv

LEMMA GitStep == ASSUME GitInv, [GitNext]_gitVars PROVE GitInv'
  <1>1. ASSUME NEW p \in Pushes, (\E b \in Branches : ServeGit(p, b)) \/ PushStep(p) \/ HangUp(p)
        PROVE  GitInv'
    BY <1>1, ServeGitKeeps, EnsureAppKeeps, CheckPushKeeps, LandKeeps, SettleHEADKeeps,
       RecordPushKeeps, SyncMembersKeeps, HangUpKeeps DEF PushStep
  <1>2. CASE SyncStep
    BY <1>2, SyncFetchKeeps, SyncLookKeeps, UpdateWorktreeKeeps, SyncRecordKeeps DEF SyncStep
  <1>3. CASE Edit \/ Discard \/ Commit
    BY <1>3, EditKeeps, CommitKeeps
  <1>4. CASE UNCHANGED gitVars
    <2>1. UNCHANGED <<refs, headRef, appRow, checkout, mirrorRef, envRow, push, sync, lost, apart>>
      BY <1>4 DEF gitVars
    <2>2. Busy' = Busy /\ \A q \in Pushes : OfBranch(q)' <=> OfBranch(q)
      BY <2>1 DEF Busy, OfBranch
    <2>3. GitTypes' /\ Waiting' /\ Settled' /\ Kept'
      BY <2>1 DEF GitInv, GitTypes, Waiting, Settled, Kept, BranchExists
    <2>4. OnTheHub' /\ OnTheMember'
      BY <2>1, <2>2 DEF GitInv, OnTheHub, OnTheMember
    <2> QED
      BY <2>3, <2>4 DEF GitInv
  <1> QED
    BY <1>1, <1>2, <1>3, <1>4 DEF GitNext

\* Between pushes the checkout of an environment has the commit of its branch
\* and its row names it, no push takes changes that were not committed, and
\* HEAD names a branch that exists, for any number of pushes and branches that
\* overlap in any order, on the hub and on a member. (ServeGit, settleHEAD,
\* SyncBranch, RecordPush, push-to-checkout)
THEOREM PushesAlwaysArrive == GitSpec => []PushesArrive
  <1>1. GitInit => GitInv
    BY GitInitInv
  <1>2. GitInv /\ [GitNext]_gitVars => GitInv'
    BY GitStep
  <1>3. ASSUME GitInv PROVE PushesArrive
    <2>1. GitTypeOK
      BY <1>3, WorkIs DEF GitInv, GitTypes, GitTypeOK
    <2>2. Busy = {} => \A p \in Pushes : push[p].pc \in {"idle", "done"}
      BY DEF Busy
    <2>3. Busy = {} => sync.pc = "free" /\ \A p \in Pushes : ~OfBranch(p)
      BY <1>3, <2>2, SyncedBy DEF OfBranch
    <2>4. QuietCheckoutCurrent
      BY <1>3, <2>2, <2>3 DEF GitInv, OnTheHub, OnTheMember, QuietCheckoutCurrent, Calm
    <2>5. QuietRowIsCheckout
      BY <1>3, <2>2, <2>3 DEF GitInv, OnTheHub, OnTheMember, QuietRowIsCheckout, Calm
    <2>6. EditsKept
      BY <1>3 DEF GitInv, Kept, EditsKept
    <2>7. HeadSettled
      <3>1. appRow \in Branches => appRow \notin {"none", ""}
        BY GitAssumption
      <3> QED
        BY <1>3, <3>1 DEF GitInv, Settled, HeadSettled, PushAt
    <2> QED
      BY <2>1, <2>4, <2>5, <2>6, <2>7 DEF PushesArrive
  <1> QED
    BY <1>1, <1>2, <1>3, PTL DEF GitSpec

-----------------------------------------------------------------------------
(* Placement: the inductive invariant behind EnvPlaced. *)

\* The types of the state, of every create in particular.
PlaceSteps == {"idle", "resolve", "place", "forward", "create", "announce", "ok", "failed"}
CreateSet == [step : PlaceSteps, env : PlacedEnvs \cup {""}, on : PMachines \cup {""},
              target : PMachines \cup {Nobody}]
PlaceTypes ==
    /\ homes \in [PlacedEnvs -> SUBSET PMachines]
    /\ listed \in [PlacedEnvs -> PMachines \cup {Nobody}]
    /\ gauged \in [PMachines -> Nat] /\ \A m \in PMachines : gauged[m] <= Room[m]
    /\ heardFrom \in [PMachines -> BOOLEAN]
    /\ creating \in [Creators -> CreateSet]
    /\ unlisted \in BOOLEAN /\ overlapping \in BOOLEAN

UnderWay(x) == x.step \notin {"idle", "ok", "failed"}
Targeted == {"forward", "create", "announce"}

\* A create knows its environment, and its target is the machine it asks for.
AsAsked(x) ==
    /\ UnderWay(x) => x.env \in PlacedEnvs
    /\ x.step \in Targeted =>
           /\ x.target \in PMachines
           /\ x.on # "" => x.target = x.on
           /\ Pins[x.env] # "" => x.target = Pins[x.env]

\* An environment a file pins is nowhere else, and not listed elsewhere.
Pinned == \A e \in PlacedEnvs : Pins[e] # "" =>
              homes[e] \subseteq {Pins[e]} /\ listed[e] \in {Nobody, Pins[e]}

\* The directory as long as every announcement arrived.
ListedIsHome == ~unlisted => \A e \in PlacedEnvs : listed[e] # Nobody => listed[e] \in homes[e]

\* On a hub without room of its own nothing is placed.
NotOnHub ==
    /\ \A e \in PlacedEnvs : HubMachine \notin homes[e]
    /\ \A c \in Creators : creating[c].step \in Targeted => creating[c].target # HubMachine

\* At most one create of an environment, which the environment follows.
OneCreate ==
    ~overlapping =>
        \A c, d \in Creators :
            UnderWay(creating[c]) /\ UnderWay(creating[d]) /\ creating[c].env = creating[d].env => c = d
Follows(x, h) ==
    /\ x.step = "place" => h = {}
    /\ x.step \in Targeted => h \subseteq {x.target}
    /\ x.step = "announce" => x.target \in h
OneMachine ==
    ~overlapping /\ ~unlisted =>
        /\ \A e \in PlacedEnvs : \A m, n \in homes[e] : m = n
        /\ \A c \in Creators : UnderWay(creating[c]) => Follows(creating[c], homes[creating[c].env])
        /\ \A e \in PlacedEnvs : homes[e] # {} /\ listed[e] = Nobody =>
               \E c \in Creators : creating[c].step = "announce" /\ creating[c].env = e

SmallHub == Room[HubMachine] < Demand
PlaceInv ==
    /\ PlaceTypes
    /\ \A c \in Creators : AsAsked(creating[c])
    /\ Pinned /\ ListedIsHome /\ OneCreate
    /\ SmallHub => NotOnHub /\ OneMachine

-----------------------------------------------------------------------------
LEMMA LeastOf ==
    ASSUME NEW S \in SUBSET Nat, S # {}
    PROVE  \E n \in S : \A k \in S : n <= k
  <1>1. PICK x \in S : \A y \in S : ~(<<y, x>> \in OpToRel(<, Nat))
    BY WFMin, NatLessThanWellFounded, Zenon
  <1>2. \A y \in S : ~(y < x)
    BY <1>1 DEF OpToRel
  <1> QED
    BY <1>2

LEMMA EnvsOnNat == PlaceTypes => \A m \in PMachines : EnvsOn(m) \in Nat
  <1> SUFFICES ASSUME NEW m \in PMachines PROVE EnvsOn(m) \in Nat
    OBVIOUS
  <1>1. IsFiniteSet({e \in PlacedEnvs : listed[e] = m})
    BY PlacementAssumption, FS_Subset
  <1> QED
    BY <1>1, FS_CardinalityType DEF EnvsOn

\* The machine fleet.Choose takes is one of those that fit: the order of rank
\* has a first one.
LEMMA BestFits ==
    ASSUME PlaceTypes, \E m \in PMachines : Fits(m)
    PROVE  Best \in PMachines /\ Fits(Best)
  <1>1. gauged \in [PMachines -> Nat] /\ (\A m \in PMachines : gauged[m] <= Room[m])
        /\ NameOrder \in [PMachines -> Nat] /\ Room \in [PMachines -> Nat]
    BY PlacementAssumption DEF PlaceTypes
  <1>2. PICK most \in PMachines : \A m \in PMachines : Room[m] <= Room[most]
    BY PlacementAssumption
  <1>3. \A m \in PMachines : Room[most] - gauged[m] \in Nat
    BY <1>1, <1>2
  <1> DEFINE T == {m \in PMachines : Fits(m)}
             A == {Room[most] - gauged[m] : m \in T}
  <1>4. PICK a \in T : \A m \in T : gauged[a] >= gauged[m]
    <2>1. A \in SUBSET Nat /\ A # {}
      BY <1>3
    <2>2. PICK n \in A : \A k \in A : n <= k
      BY <2>1, LeastOf
    <2>3. PICK a \in T : n = Room[most] - gauged[a]
      BY <2>2
    <2>4. \A m \in T : Room[most] - gauged[a] <= Room[most] - gauged[m]
      BY <2>2, <2>3
    <2>5. \A m \in T : gauged[a] >= gauged[m]
      BY <1>1, <2>3, <2>4
    <2> QED
      BY <2>3, <2>5
  <1> DEFINE T1 == {m \in T : gauged[m] = gauged[a]}
             B == {EnvsOn(m) : m \in T1}
  <1>5. PICK b \in T1 : \A m \in T1 : EnvsOn(b) <= EnvsOn(m)
    <2>1. B \in SUBSET Nat /\ B # {}
      BY <1>4, EnvsOnNat
    <2>2. PICK n \in B : \A k \in B : n <= k
      BY <2>1, LeastOf
    <2> QED
      BY <2>2
  <1> DEFINE T2 == {m \in T1 : EnvsOn(m) = EnvsOn(b)}
             C == {NameOrder[m] : m \in T2}
  <1>6. PICK c \in T2 : \A m \in T2 : NameOrder[c] <= NameOrder[m]
    <2>1. C \in SUBSET Nat /\ C # {}
      BY <1>1, <1>5
    <2>2. PICK n \in C : \A k \in C : n <= k
      BY <2>1, LeastOf
    <2> QED
      BY <2>2
  <1>7. c \in PMachines /\ Fits(c) /\ gauged[c] = gauged[a] /\ EnvsOn(c) = EnvsOn(b)
    BY <1>6
  <1>8. ASSUME NEW n \in PMachines, n # c, Fits(n) PROVE Ranks(c, n)
    <2>1. gauged[c] \in Nat /\ gauged[n] \in Nat /\ EnvsOn(c) \in Nat /\ EnvsOn(n) \in Nat
          /\ NameOrder[c] \in Nat /\ NameOrder[n] \in Nat /\ NameOrder[c] # NameOrder[n]
      BY <1>1, <1>7, <1>8, EnvsOnNat, PlacementAssumption
    <2>2. gauged[c] # gauged[n] => gauged[c] > gauged[n]
      BY <1>4, <1>7, <1>8, <2>1
    <2>3. gauged[c] = gauged[n] /\ EnvsOn(c) # EnvsOn(n) => EnvsOn(c) < EnvsOn(n)
      BY <1>5, <1>7, <1>8, <2>1
    <2>4. gauged[c] = gauged[n] /\ EnvsOn(c) = EnvsOn(n) => NameOrder[c] < NameOrder[n]
      BY <1>6, <1>7, <1>8, <2>1
    <2> QED
      BY <2>2, <2>3, <2>4 DEF Ranks
  <1> HIDE DEF T, A, T1, B, T2, C
  <1>9. \E m \in PMachines : Fits(m) /\ \A n \in PMachines : n # m /\ Fits(n) => Ranks(m, n)
    BY <1>7, <1>8
  <1> QED
    BY <1>9 DEF Best

\* What Manager.PlaceEnv decides.
LEMMA DecisionIs ==
    ASSUME PlaceTypes, NEW env \in PlacedEnvs, NEW on \in PMachines \cup {""},
           Decision(env, on) # Nobody
    PROVE  /\ Decision(env, on) \in PMachines /\ Fits(Decision(env, on))
           /\ on # "" => Decision(env, on) = on
           /\ Pins[env] # "" => Decision(env, on) = Pins[env]
  <1>1. PinsAgree(env, on)
    BY DEF Decision
  <1>2. CASE PinOf(env, on) # ""
    <2>1. Decision(env, on) = PinOf(env, on) /\ PinOf(env, on) \in PMachines /\ Fits(PinOf(env, on))
      BY <1>1, <1>2 DEF Decision
    <2> QED
      BY <1>1, <2>1 DEF PinOf, PinsAgree
  <1>3. CASE PinOf(env, on) = ""
    <2>1. Decision(env, on) = Best /\ \E m \in PMachines : Fits(m)
      BY <1>1, <1>3 DEF Decision
    <2>2. on = "" /\ Pins[env] = ""
      BY <1>3 DEF PinOf
    <2> QED
      BY <2>1, <2>2, BestFits
  <1> QED
    BY <1>2, <1>3

LEMMA HubNeverFits == ASSUME PlaceTypes, SmallHub PROVE ~Fits(HubMachine)
  <1>1. HubMachine \in PMachines /\ Room[HubMachine] \in Nat /\ Demand \in Nat
    BY PlacementAssumption
  <1>2. gauged[HubMachine] \in Nat /\ gauged[HubMachine] <= Room[HubMachine]
    BY <1>1 DEF PlaceTypes
  <1> QED
    BY <1>1, <1>2 DEF SmallHub, Fits

\* A create goes on to x, and nothing else changes.
LEMMA CreateGoesOn ==
    ASSUME PlaceInv, NEW c \in Creators, NEW x \in CreateSet, creating' = [creating EXCEPT ![c] = x],
           UNCHANGED <<homes, listed, gauged, heardFrom, unlisted>>, overlapping' \in BOOLEAN,
           creating[c].step # "announce", AsAsked(x),
           ~overlapping' =>
               /\ ~overlapping
               /\ UnderWay(x) => \A d \in Creators \ {c} :
                                     UnderWay(creating[d]) => creating[d].env # x.env,
           SmallHub => /\ x.step \in Targeted => x.target # HubMachine
                       /\ ~overlapping' /\ ~unlisted /\ UnderWay(x) => Follows(x, homes[x.env])
    PROVE  PlaceInv'
  <1>1. PlaceTypes /\ creating \in [Creators -> CreateSet]
    BY DEF PlaceInv, PlaceTypes
  <1>2. creating' \in [Creators -> CreateSet] /\ creating'[c] = x
        /\ \A d \in Creators \ {c} : creating'[d] = creating[d]
    BY <1>1
  <1>3. PlaceTypes'
    BY <1>1, <1>2 DEF PlaceTypes
  <1>4. \A d \in Creators : AsAsked(creating'[d])
    BY <1>2 DEF PlaceInv
  <1>5. Pinned' /\ ListedIsHome'
    BY DEF PlaceInv, Pinned, ListedIsHome
  <1>6. OneCreate'
    BY <1>2 DEF PlaceInv, OneCreate
  <1>7. ASSUME SmallHub PROVE NotOnHub' /\ OneMachine'
    <2>1. NotOnHub /\ OneMachine
      BY <1>7 DEF PlaceInv
    <2>2. NotOnHub'
      BY <1>2, <1>7, <2>1 DEF NotOnHub
    <2>3. ASSUME ~overlapping', ~unlisted
          PROVE  /\ \A d \in Creators : UnderWay(creating'[d]) => Follows(creating'[d], homes[creating'[d].env])
                 /\ \A e \in PlacedEnvs : homes[e] # {} /\ listed[e] = Nobody =>
                        \E d \in Creators : creating'[d].step = "announce" /\ creating'[d].env = e
      <3>1. \A d \in Creators : UnderWay(creating'[d]) => Follows(creating'[d], homes[creating'[d].env])
        BY <1>2, <1>7, <2>1, <2>3 DEF OneMachine
      <3>2. ASSUME NEW e \in PlacedEnvs, homes[e] # {}, listed[e] = Nobody
            PROVE  \E d \in Creators : creating'[d].step = "announce" /\ creating'[d].env = e
        <4>1. PICK d \in Creators : creating[d].step = "announce" /\ creating[d].env = e
          BY <2>1, <2>3, <3>2 DEF OneMachine
        <4> QED
          BY <1>2, <4>1
      <3> QED
        BY <3>1, <3>2
    <2>4. OneMachine'
      BY <2>1, <2>3 DEF OneMachine
    <2> QED
      BY <2>2, <2>4
  <1> QED
    BY <1>3, <1>4, <1>5, <1>6, <1>7 DEF PlaceInv, SmallHub

\* The facts of one create.
LEMMA CreateIs ==
    ASSUME PlaceInv, NEW c \in Creators
    PROVE  /\ PlaceTypes /\ creating[c] \in CreateSet /\ AsAsked(creating[c])
           /\ creating \in [Creators -> CreateSet] /\ overlapping \in BOOLEAN
           /\ \A s \in PlaceSteps : LET x == [creating[c] EXCEPT !.step = s] IN
                  /\ x \in CreateSet /\ x.step = s /\ x.env = creating[c].env
                  /\ x.on = creating[c].on /\ x.target = creating[c].target
                  /\ PlaceStep(c, s) => creating' = [creating EXCEPT ![c] = x]
           /\ ~overlapping /\ UnderWay(creating[c]) =>
                  \A d \in Creators \ {c} : UnderWay(creating[d]) => creating[d].env # creating[c].env
  <1>1. /\ PlaceTypes /\ creating[c] \in CreateSet /\ AsAsked(creating[c])
        /\ creating \in [Creators -> CreateSet] /\ overlapping \in BOOLEAN
    BY DEF PlaceInv, PlaceTypes
  <1>2. ASSUME NEW s \in PlaceSteps
        PROVE  LET x == [creating[c] EXCEPT !.step = s] IN
                  /\ x \in CreateSet /\ x.step = s /\ x.env = creating[c].env
                  /\ x.on = creating[c].on /\ x.target = creating[c].target
    BY <1>1 DEF CreateSet
  <1>3. ASSUME NEW s \in PlaceSteps, PlaceStep(c, s)
        PROVE  creating' = [creating EXCEPT ![c] = [creating[c] EXCEPT !.step = s]]
    BY <1>1, <1>3 DEF PlaceStep
  <1>4. ~overlapping /\ UnderWay(creating[c]) =>
            \A d \in Creators \ {c} : UnderWay(creating[d]) => creating[d].env # creating[c].env
    BY DEF PlaceInv, OneCreate
  <1> QED
    BY <1>1, <1>2, <1>3, <1>4

\* A create that fails.
LEMMA CreateFails ==
    ASSUME PlaceInv, NEW c \in Creators, PlaceStep(c, "failed"), creating[c].step # "announce",
           UNCHANGED <<homes, listed, gauged, heardFrom, unlisted, overlapping>>
    PROVE  PlaceInv'
  <1> DEFINE x == [creating[c] EXCEPT !.step = "failed"]
  <1>1. "failed" \in PlaceSteps
    BY DEF PlaceSteps
  <1>2. /\ x \in CreateSet /\ x.step = "failed" /\ creating' = [creating EXCEPT ![c] = x]
        /\ overlapping \in BOOLEAN
    BY <1>1, CreateIs
  <1> HIDE DEF x
  <1>3. AsAsked(x) /\ ~UnderWay(x) /\ x.step \notin Targeted
    BY <1>2 DEF AsAsked, UnderWay, Targeted
  <1> QED
    BY <1>2, <1>3, CreateGoesOn

LEMMA BeginPlacingKeeps == ASSUME PlaceInv, NEW c \in Creators, BeginPlacing(c) PROVE PlaceInv'
  <1>1. PICK env \in PlacedEnvs, on \in PMachines \cup {""} :
           /\ creating[c].step \in {"idle", "ok", "failed"}
           /\ creating' = [creating EXCEPT ![c] =
                [step |-> "resolve", env |-> env, on |-> on, target |-> Nobody]]
           /\ overlapping' = (overlapping \/ \E d \in Creators :
                              /\ creating[d].step \notin {"idle", "ok", "failed"}
                              /\ creating[d].env = env)
           /\ UNCHANGED <<homes, listed, gauged, heardFrom, unlisted>>
    BY DEF BeginPlacing
  <1> DEFINE x == [step |-> "resolve", env |-> env, on |-> on, target |-> Nobody]
  <1>2. x \in CreateSet /\ x.step = "resolve" /\ x.env = env
    BY DEF CreateSet, PlaceSteps
  <1>3. creating' = [creating EXCEPT ![c] = x]
    BY <1>1
  <1> HIDE DEF x
  <1>4. overlapping' \in BOOLEAN
    BY <1>1, CreateIs
  <1>5. AsAsked(x) /\ x.step \notin Targeted /\ Follows(x, homes[x.env])
    BY <1>2 DEF AsAsked, UnderWay, Targeted, Follows
  <1>6. ~overlapping' => ~overlapping /\ \A d \in Creators \ {c} : UnderWay(creating[d]) => creating[d].env # env
    BY <1>1 DEF UnderWay
  <1>7. creating[c].step # "announce"
    BY <1>1
  <1> QED
    BY <1>1, <1>2, <1>3, <1>4, <1>5, <1>6, <1>7, CreateGoesOn

LEMMA ResolveEnvKeeps == ASSUME PlaceInv, NEW c \in Creators, ResolveEnv(c) PROVE PlaceInv'
  <1>1. /\ creating[c].step = "resolve"
        /\ UNCHANGED <<homes, listed, gauged, heardFrom, unlisted, overlapping>>
    BY DEF ResolveEnv
  <1> DEFINE e == creating[c].env
             on == creating[c].on
             held == HeldElsewhere(e)
  <1>2. /\ PlaceTypes /\ creating[c] \in CreateSet /\ AsAsked(creating[c])
        /\ creating \in [Creators -> CreateSet] /\ overlapping \in BOOLEAN
        /\ ~overlapping => \A d \in Creators \ {c} : UnderWay(creating[d]) => creating[d].env # e
        /\ UnderWay(creating[c]) /\ e \in PlacedEnvs
    BY <1>1, CreateIs DEF UnderWay, AsAsked
  \* While the hub has no room, an environment that is not listed is nowhere.
  <1>3. ASSUME SmallHub, ~overlapping, ~unlisted
        PROVE  /\ \A m, n \in homes[e] : m = n
               /\ listed[e] # Nobody => listed[e] \in homes[e]
               /\ listed[e] # HubMachine
               /\ listed[e] = Nobody => homes[e] = {}
    <2>1. NotOnHub /\ OneMachine /\ ListedIsHome
      BY <1>3 DEF PlaceInv
    <2>2. ~\E d \in Creators : creating[d].step = "announce" /\ creating[d].env = e
      BY <1>1, <1>2, <1>3 DEF UnderWay
    <2> HIDE DEF e
    <2>3. \A m, n \in homes[e] : m = n
      BY <1>2, <1>3, <2>1 DEF OneMachine
    <2>4. listed[e] # Nobody => listed[e] \in homes[e]
      BY <1>2, <1>3, <2>1 DEF ListedIsHome
    <2>5. listed[e] # HubMachine
      BY <1>2, <2>1, <2>4 DEF NotOnHub, HubMachine, Nobody
    <2>6. listed[e] = Nobody => homes[e] = {}
      BY <1>2, <1>3, <2>1, <2>2 DEF OneMachine
    <2> QED
      BY <2>3, <2>4, <2>5, <2>6
  <1>4. CASE held = Nobody
    <2> DEFINE x == [creating[c] EXCEPT !.step = "place"]
    <2>1. PlaceStep(c, "place") /\ "place" \in PlaceSteps
      BY <1>4 DEF ResolveEnv, PlaceSteps
    <2>2. x \in CreateSet /\ x.step = "place" /\ x.env = e /\ creating' = [creating EXCEPT ![c] = x]
      BY <2>1, CreateIs
    <2> HIDE DEF x
    <2>3. AsAsked(x) /\ x.step \notin Targeted
      BY <1>2, <2>2 DEF AsAsked, Targeted
    <2>4. listed[e] \in {Nobody, HubMachine}
      BY <1>4 DEF HeldElsewhere
    <2>5. SmallHub /\ ~overlapping /\ ~unlisted => Follows(x, homes[e])
      BY <1>3, <2>2, <2>4 DEF Follows, Targeted
    <2> QED
      BY <1>1, <1>2, <2>2, <2>3, <2>5, CreateGoesOn
  <1>5. CASE held # Nobody /\ on # "" /\ on # held
    <2>1. PlaceStep(c, "failed")
      BY <1>5 DEF ResolveEnv
    <2> QED
      BY <1>1, <2>1, CreateFails
  <1>6. CASE held # Nobody /\ ~(on # "" /\ on # held)
    <2> DEFINE x == [creating[c] EXCEPT !.step = "forward", !.target = held]
    <2>1. creating' = [creating EXCEPT ![c].step = "forward", ![c].target = held]
      BY <1>6 DEF ResolveEnv
    <2>2. held = listed[e] /\ held # HubMachine
      BY <1>6 DEF HeldElsewhere
    <2>3. held \in PMachines
      BY <1>2, <1>6, <2>2 DEF PlaceTypes
    <2> HIDE DEF held
    <2>4. creating' = [creating EXCEPT ![c] = x]
      BY <1>2, <2>1
    <2>5. x \in CreateSet /\ x.step = "forward" /\ x.env = e /\ x.on = on /\ x.target = held
      BY <1>2, <2>3 DEF CreateSet, PlaceSteps
    <2> HIDE DEF x
    <2>6. Pins[e] # "" => held = Pins[e]
      BY <1>2, <1>6, <2>2 DEF PlaceInv, Pinned
    <2>7. AsAsked(x)
      BY <1>2, <1>6, <2>3, <2>5, <2>6 DEF AsAsked
    <2>8. SmallHub /\ ~overlapping /\ ~unlisted => Follows(x, homes[e])
      BY <1>3, <1>6, <2>2, <2>5 DEF Follows
    <2> QED
      BY <1>1, <1>2, <2>2, <2>4, <2>5, <2>7, <2>8, CreateGoesOn
  <1> QED
    BY <1>4, <1>5, <1>6

LEMMA PlaceEnvKeeps == ASSUME PlaceInv, NEW c \in Creators, PlaceEnv(c) PROVE PlaceInv'
  <1>1. /\ creating[c].step = "place"
        /\ UNCHANGED <<homes, listed, gauged, heardFrom, unlisted, overlapping>>
    BY DEF PlaceEnv
  <1> DEFINE e == creating[c].env
             to == Decision(e, creating[c].on)
             s == IF to = Nobody THEN "failed" ELSE IF to = HubMachine THEN "create" ELSE "forward"
             x == [creating[c] EXCEPT !.target = to, !.step = s]
  <1>2. /\ PlaceTypes /\ creating[c] \in CreateSet /\ AsAsked(creating[c])
        /\ creating \in [Creators -> CreateSet] /\ overlapping \in BOOLEAN
        /\ ~overlapping => \A d \in Creators \ {c} : UnderWay(creating[d]) => creating[d].env # e
        /\ UnderWay(creating[c]) /\ e \in PlacedEnvs /\ creating[c].on \in PMachines \cup {""}
    BY <1>1, CreateIs DEF UnderWay, AsAsked, CreateSet
  <1>3. creating' = [creating EXCEPT ![c].target = to, ![c].step = s]
    BY DEF PlaceEnv
  <1>4. to # Nobody => /\ to \in PMachines /\ Fits(to)
                       /\ creating[c].on # "" => to = creating[c].on
                       /\ Pins[e] # "" => to = Pins[e]
    BY <1>2, DecisionIs
  <1>5. s \in PlaceSteps /\ s \in {"failed", "create", "forward"} /\ (s = "failed" <=> to = Nobody)
    BY DEF PlaceSteps
  <1> HIDE DEF s, to
  <1>6. creating' = [creating EXCEPT ![c] = x]
    BY <1>2, <1>3
  <1>7. x \in CreateSet /\ x.step = s /\ x.env = e /\ x.on = creating[c].on /\ x.target = to
    <2>1. to \in PMachines \cup {Nobody}
      BY <1>4
    <2> QED
      BY <1>2, <1>5, <2>1 DEF CreateSet
  <1> HIDE DEF x
  <1>8. AsAsked(x)
    BY <1>2, <1>4, <1>5, <1>7 DEF AsAsked, Targeted
  <1>9. SmallHub => (x.step \in Targeted => x.target # HubMachine)
    BY <1>2, <1>4, <1>5, <1>7, HubNeverFits DEF Targeted
  <1>10. SmallHub /\ ~overlapping /\ ~unlisted => Follows(x, homes[e])
    <2>1. SmallHub /\ ~overlapping /\ ~unlisted => homes[e] = {}
      BY <1>1, <1>2 DEF PlaceInv, OneMachine, Follows
    <2> QED
      BY <1>5, <1>7, <2>1 DEF Follows
  <1> QED
    BY <1>1, <1>2, <1>6, <1>7, <1>8, <1>9, <1>10, CreateGoesOn

LEMMA ForwardKeeps == ASSUME PlaceInv, NEW c \in Creators, Forward(c) PROVE PlaceInv'
  <1>1. /\ creating[c].step = "forward" /\ (PlaceStep(c, "create") \/ PlaceStep(c, "failed"))
        /\ UNCHANGED <<homes, listed, gauged, heardFrom, unlisted, overlapping>>
    BY DEF Forward
  <1>2. CASE PlaceStep(c, "failed")
    BY <1>1, <1>2, CreateFails
  <1>3. CASE PlaceStep(c, "create")
    <2> DEFINE x == [creating[c] EXCEPT !.step = "create"]
    <2>1. "create" \in PlaceSteps
      BY DEF PlaceSteps
    <2>2. /\ x \in CreateSet /\ x.step = "create" /\ x.env = creating[c].env /\ x.on = creating[c].on
          /\ x.target = creating[c].target /\ creating' = [creating EXCEPT ![c] = x]
          /\ AsAsked(creating[c]) /\ UnderWay(creating[c]) /\ overlapping \in BOOLEAN
          /\ ~overlapping => \A d \in Creators \ {c} :
                                UnderWay(creating[d]) => creating[d].env # creating[c].env
      BY <1>1, <1>3, <2>1, CreateIs DEF UnderWay
    <2> HIDE DEF x
    <2>3. AsAsked(x)
      BY <1>1, <2>2 DEF AsAsked, Targeted, UnderWay
    <2>4. SmallHub => /\ x.target # HubMachine
                      /\ ~overlapping /\ ~unlisted => Follows(x, homes[x.env])
      BY <1>1, <2>2 DEF PlaceInv, NotOnHub, OneMachine, Follows, Targeted
    <2> QED
      BY <1>1, <2>2, <2>3, <2>4, CreateGoesOn
  <1> QED
    BY <1>1, <1>2, <1>3

\* The machine a create has made the environment on.
LEMMA CreateThereKeeps == ASSUME PlaceInv, NEW c \in Creators, CreateThere(c) PROVE PlaceInv'
  <1> DEFINE m == creating[c].target
             e == creating[c].env
  <1>1. creating[c].step = "create" /\ UNCHANGED <<listed, gauged, heardFrom, unlisted, overlapping>>
    BY DEF CreateThere
  <1>2. CASE PlaceStep(c, "failed") /\ UNCHANGED homes
    BY <1>1, <1>2, CreateFails
  <1>3. CASE homes' = [homes EXCEPT ![e] = @ \cup {m}] /\ PlaceStep(c, "announce")
    <2> DEFINE x == [creating[c] EXCEPT !.step = "announce"]
    <2>1. "announce" \in PlaceSteps
      BY DEF PlaceSteps
    <2>2. /\ x \in CreateSet /\ x.step = "announce" /\ x.env = e /\ x.on = creating[c].on
          /\ x.target = m /\ creating' = [creating EXCEPT ![c] = x]
          /\ AsAsked(creating[c]) /\ UnderWay(creating[c])
          /\ ~overlapping => \A d \in Creators \ {c} : UnderWay(creating[d]) => creating[d].env # e
          /\ PlaceTypes /\ creating \in [Creators -> CreateSet]
      BY <1>1, <1>3, <2>1, CreateIs DEF UnderWay
    <2> HIDE DEF x
    <2>3. /\ e \in PlacedEnvs /\ m \in PMachines /\ (Pins[e] # "" => m = Pins[e])
          /\ homes \in [PlacedEnvs -> SUBSET PMachines]
      BY <1>1, <2>2 DEF AsAsked, Targeted, PlaceTypes
    <2>a. creating[c].env = e /\ creating[c].target = m
      OBVIOUS
    <2> HIDE DEF e, m
    <2>4. /\ homes' \in [PlacedEnvs -> SUBSET PMachines] /\ homes'[e] = homes[e] \cup {m}
          /\ \A f \in PlacedEnvs \ {e} : homes'[f] = homes[f]
          /\ \A f \in PlacedEnvs : homes[f] \subseteq homes'[f]
      BY <1>3, <2>3, <2>a
    <2>5. /\ creating' \in [Creators -> CreateSet] /\ creating'[c] = x
          /\ \A d \in Creators \ {c} : creating'[d] = creating[d]
      BY <2>2
    <2>6. PlaceTypes'
      BY <1>1, <2>2, <2>4, <2>5 DEF PlaceTypes
    <2>7. AsAsked(x)
      BY <1>1, <2>2, <2>a DEF AsAsked, Targeted, UnderWay
    <2>8. \A d \in Creators : AsAsked(creating'[d])
      BY <2>5, <2>7 DEF PlaceInv
    <2>9. Pinned'
      BY <1>1, <2>3, <2>4 DEF PlaceInv, Pinned
    <2>10. ListedIsHome'
      BY <1>1, <2>4 DEF PlaceInv, ListedIsHome
    <2>11. OneCreate'
      BY <1>1, <2>2, <2>5 DEF PlaceInv, OneCreate
    <2>12. ASSUME SmallHub PROVE NotOnHub' /\ OneMachine'
      <3>1. NotOnHub /\ OneMachine
        BY <2>12 DEF PlaceInv
      <3>2. m # HubMachine
        BY <1>1, <2>a, <3>1 DEF NotOnHub, Targeted
      <3>3. NotOnHub'
        BY <2>2, <2>4, <2>5, <3>1, <3>2 DEF NotOnHub
      <3>4. ASSUME ~overlapping, ~unlisted
            PROVE  /\ \A f \in PlacedEnvs : \A a, b \in homes'[f] : a = b
                   /\ \A d \in Creators : UnderWay(creating'[d]) => Follows(creating'[d], homes'[creating'[d].env])
                   /\ \A f \in PlacedEnvs : homes'[f] # {} /\ listed[f] = Nobody =>
                        \E d \in Creators : creating'[d].step = "announce" /\ creating'[d].env = f
        <4>1. /\ \A f \in PlacedEnvs : \A a, b \in homes[f] : a = b
              /\ \A d \in Creators : UnderWay(creating[d]) => Follows(creating[d], homes[creating[d].env])
              /\ \A f \in PlacedEnvs : homes[f] # {} /\ listed[f] = Nobody =>
                     \E d \in Creators : creating[d].step = "announce" /\ creating[d].env = f
          BY <3>1, <3>4 DEF OneMachine
        <4>2. homes'[e] = {m}
          BY <1>1, <2>2, <2>4, <2>a, <4>1 DEF Follows, Targeted
        <4>3. \A f \in PlacedEnvs : \A a, b \in homes'[f] : a = b
          BY <2>4, <4>1, <4>2
        <4>4. Follows(x, homes'[e])
          BY <2>2, <4>2 DEF Follows
        <4>5. ASSUME NEW d \in Creators \ {c}, UnderWay(creating[d])
              PROVE  Follows(creating[d], homes'[creating[d].env])
          <5>1. creating[d].env # e /\ creating[d].env \in PlacedEnvs
            BY <2>2, <3>4, <4>5 DEF PlaceInv, AsAsked
          <5> QED
            BY <2>4, <4>1, <4>5, <5>1
        <4>6. \A d \in Creators : UnderWay(creating'[d]) => Follows(creating'[d], homes'[creating'[d].env])
          BY <2>2, <2>5, <4>4, <4>5
        <4>7. ASSUME NEW f \in PlacedEnvs, homes'[f] # {}, listed[f] = Nobody
              PROVE  \E d \in Creators : creating'[d].step = "announce" /\ creating'[d].env = f
          <5>1. CASE f = e
            BY <2>2, <2>5, <5>1
          <5>2. CASE f # e
            <6>1. PICK d \in Creators : creating[d].step = "announce" /\ creating[d].env = f
              BY <2>4, <4>1, <4>7, <5>2
            <6> QED
              BY <1>1, <2>5, <6>1
          <5> QED
            BY <5>1, <5>2
        <4> QED
          BY <4>3, <4>6, <4>7
      <3>5. OneMachine'
        BY <1>1, <3>4 DEF OneMachine
      <3> QED
        BY <3>3, <3>5
    <2> QED
      BY <2>6, <2>8, <2>9, <2>10, <2>11, <2>12 DEF PlaceInv, SmallHub
  <1> QED
    BY <1>2, <1>3 DEF CreateThere

\* What the directory is after an announcement of machine m that holds held.
LEMMA ToldIs ==
    ASSUME PlaceTypes, NEW m \in PMachines, NEW held \in SUBSET PlacedEnvs, Told(m, held)
    PROVE  /\ listed' \in [PlacedEnvs -> PMachines \cup {Nobody}]
           /\ gauged' \in [PMachines -> Nat] /\ \A n \in PMachines : gauged'[n] <= Room[n]
           /\ \A e \in held : listed'[e] = m
           /\ \A e \in PlacedEnvs \ held : listed'[e] = IF listed[e] = m THEN Nobody ELSE listed[e]
  <1>1. listed \in [PlacedEnvs -> PMachines \cup {Nobody}] /\ gauged \in [PMachines -> Nat]
        /\ \A n \in PMachines : gauged[n] <= Room[n]
    BY DEF PlaceTypes
  <1>2. /\ \A e \in held : listed'[e] = m
        /\ \A e \in PlacedEnvs \ held : listed'[e] = IF listed[e] = m THEN Nobody ELSE listed[e]
        /\ DOMAIN listed' = PlacedEnvs
    BY DEF Told, Forgotten
  <1>3. listed' \in [PlacedEnvs -> PMachines \cup {Nobody}]
    <2>1. listed' = [e \in PlacedEnvs |-> listed'[e]]
      BY DEF Told
    <2>2. \A e \in PlacedEnvs : listed'[e] \in PMachines \cup {Nobody}
      BY <1>1, <1>2
    <2> QED
      BY <2>1, <2>2
  <1>4. FreeOf(m, held) \in Nat /\ FreeOf(m, held) <= Room[m]
    <2>1. Cardinality(held) \in Nat
      BY PlacementAssumption, FS_Subset, FS_CardinalityType
    <2>2. Demand \in Nat /\ Room[m] \in Nat
      BY PlacementAssumption
    <2>3. Demand * Cardinality(held) \in Nat
      BY <2>1, <2>2
    <2> QED
      BY <2>2, <2>3 DEF FreeOf
  <1>5. gauged' = [gauged EXCEPT ![m] = FreeOf(m, held)]
    BY DEF Told
  <1>6. gauged' \in [PMachines -> Nat] /\ \A n \in PMachines : gauged'[n] <= Room[n]
    BY <1>1, <1>4, <1>5
  <1> QED
    BY <1>2, <1>3, <1>6

\* A machine m tells the hub what it holds, or its word is lost: d is the
\* create that has ended with it, if any, and gone the environment that was
\* destroyed.
LEMMA TellKeeps ==
    ASSUME PlaceInv, NEW m \in PMachines, NEW held \in SUBSET PlacedEnvs, TellsHub(m, held),
           homes' \in [PlacedEnvs -> SUBSET PMachines],
           \A e \in PlacedEnvs : homes'[e] \subseteq homes[e] /\ homes[e] \subseteq homes'[e] \cup {m},
           held = {e \in PlacedEnvs : m \in homes'[e]},
           overlapping' = overlapping, heardFrom' \in [PMachines -> BOOLEAN],
           creating' \in [Creators -> CreateSet],
           \A c \in Creators :
               \/ creating'[c] = creating[c]
               \/ /\ creating'[c].step = "ok" /\ creating[c].step = "announce"
                  /\ creating[c].target = m /\ homes' = homes,
           \A c \in Creators : creating[c].step \in {"create", "announce"} =>
                homes'[creating[c].env] = homes[creating[c].env]
    PROVE  PlaceInv'
  <1>1. PlaceTypes /\ \A c \in Creators : AsAsked(creating[c])
    BY DEF PlaceInv
  <1>2. CASE Told(m, held) /\ UNCHANGED unlisted
    <2>1. /\ listed' \in [PlacedEnvs -> PMachines \cup {Nobody}]
          /\ gauged' \in [PMachines -> Nat] /\ \A n \in PMachines : gauged'[n] <= Room[n]
          /\ \A e \in held : listed'[e] = m
          /\ \A e \in PlacedEnvs \ held : listed'[e] = IF listed[e] = m THEN Nobody ELSE listed[e]
      BY <1>1, <1>2, ToldIs
    <2>2. PlaceTypes'
      BY <1>1, <1>2, <2>1 DEF PlaceTypes
    <2>3. \A c \in Creators : AsAsked(creating'[c])
      BY <1>1 DEF AsAsked, UnderWay, Targeted
    <2>4. Pinned'
      <3> SUFFICES ASSUME NEW e \in PlacedEnvs, Pins[e] # ""
                   PROVE  homes'[e] \subseteq {Pins[e]} /\ listed'[e] \in {Nobody, Pins[e]}
        BY DEF Pinned
      <3>1. homes[e] \subseteq {Pins[e]} /\ listed[e] \in {Nobody, Pins[e]}
        BY DEF PlaceInv, Pinned
      <3> QED
        BY <2>1, <3>1
    <2>5. ListedIsHome'
      <3> SUFFICES ASSUME ~unlisted, NEW e \in PlacedEnvs, listed'[e] # Nobody
                   PROVE  listed'[e] \in homes'[e]
        BY <1>2 DEF ListedIsHome
      <3>1. listed[e] # Nobody => listed[e] \in homes[e]
        BY DEF PlaceInv, ListedIsHome
      <3>2. CASE e \in held
        BY <2>1, <3>2
      <3>3. CASE e \notin held
        BY <2>1, <3>1, <3>3
      <3> QED
        BY <3>2, <3>3
    <2>6. OneCreate'
      BY DEF PlaceInv, OneCreate, UnderWay
    <2>7. ASSUME SmallHub PROVE NotOnHub' /\ OneMachine'
      <3>1. NotOnHub /\ OneMachine
        BY <2>7 DEF PlaceInv
      <3>2. NotOnHub'
        BY <3>1 DEF NotOnHub, Targeted
      <3>3. ASSUME ~overlapping, ~unlisted
            PROVE  /\ \A f \in PlacedEnvs : \A a, b \in homes'[f] : a = b
                   /\ \A d \in Creators : UnderWay(creating'[d]) => Follows(creating'[d], homes'[creating'[d].env])
                   /\ \A f \in PlacedEnvs : homes'[f] # {} /\ listed'[f] = Nobody =>
                        \E d \in Creators : creating'[d].step = "announce" /\ creating'[d].env = f
        <4>1. /\ \A f \in PlacedEnvs : \A a, b \in homes[f] : a = b
              /\ \A d \in Creators : UnderWay(creating[d]) => Follows(creating[d], homes[creating[d].env])
              /\ \A f \in PlacedEnvs : homes[f] # {} /\ listed[f] = Nobody =>
                     \E d \in Creators : creating[d].step = "announce" /\ creating[d].env = f
          BY <3>1, <3>3 DEF OneMachine
        <4>2. \A f \in PlacedEnvs : \A a, b \in homes'[f] : a = b
          BY <4>1
        <4>3. ASSUME NEW d \in Creators, UnderWay(creating'[d])
              PROVE  Follows(creating'[d], homes'[creating'[d].env])
          <5>1. creating'[d] = creating[d] /\ UnderWay(creating[d])
            BY <4>3 DEF UnderWay
          <5>2. creating[d].env \in PlacedEnvs
            BY <1>1, <5>1 DEF AsAsked
          <5>3. homes'[creating[d].env] \subseteq homes[creating[d].env]
            BY <5>2
          <5>4. Follows(creating[d], homes[creating[d].env])
            BY <4>1, <5>1
          <5> QED
            BY <5>1, <5>3, <5>4 DEF Follows, Targeted
        <4>4. ASSUME NEW f \in PlacedEnvs, homes'[f] # {}, listed'[f] = Nobody
              PROVE  \E d \in Creators : creating'[d].step = "announce" /\ creating'[d].env = f
          <5>1. f \notin held /\ m \notin homes'[f]
            BY <2>1, <4>4, PlacementAssumption DEF Nobody
          <5>2. listed[f] # m
            <6>1. CASE listed[f] = m
              <7>1. m \in homes[f]
                BY <3>3, <6>1, PlacementAssumption DEF PlaceInv, ListedIsHome, Nobody
              <7>2. homes[f] = {m}
                BY <4>1, <7>1
              <7> QED
                BY <4>4, <5>1, <7>2
            <6> QED
              BY <6>1
          <5>3. listed[f] = Nobody
            BY <2>1, <4>4, <5>1, <5>2
          <5>4. PICK d \in Creators : creating[d].step = "announce" /\ creating[d].env = f
            BY <4>1, <4>4, <5>3
          <5>5. creating[d].target \in homes[f] /\ homes'[f] = homes[f]
            BY <4>1, <5>4 DEF UnderWay, Follows
          <5>6. creating'[d] = creating[d]
            BY <5>1, <5>5
          <5> QED
            BY <5>4, <5>6
        <4> QED
          BY <4>2, <4>3, <4>4
      <3>4. OneMachine'
        BY <1>2, <3>3 DEF OneMachine
      <3> QED
        BY <3>2, <3>4
    <2> QED
      BY <2>2, <2>3, <2>4, <2>5, <2>6, <2>7 DEF PlaceInv, SmallHub
  <1>3. CASE unlisted' = TRUE /\ UNCHANGED <<listed, gauged>>
    <2>1. PlaceTypes'
      BY <1>1, <1>3 DEF PlaceTypes
    <2>2. \A c \in Creators : AsAsked(creating'[c])
      BY <1>1 DEF AsAsked, UnderWay, Targeted
    <2>3. Pinned'
      BY <1>3 DEF PlaceInv, Pinned
    <2>4. ListedIsHome' /\ OneMachine'
      BY <1>3 DEF ListedIsHome, OneMachine
    <2>5. OneCreate'
      BY DEF PlaceInv, OneCreate, UnderWay
    <2>6. SmallHub => NotOnHub'
      BY DEF PlaceInv, NotOnHub, Targeted
    <2> QED
      BY <2>1, <2>2, <2>3, <2>4, <2>5, <2>6 DEF PlaceInv, SmallHub
  <1> QED
    BY <1>2, <1>3 DEF TellsHub

LEMMA AnnounceKeeps == ASSUME PlaceInv, NEW c \in Creators, Announce(c) PROVE PlaceInv'
  <1> DEFINE m == creating[c].target
             x == [creating[c] EXCEPT !.step = "ok"]
  <1>1. /\ creating[c].step = "announce" /\ TellsHub(m, Held(m)) /\ PlaceStep(c, "ok")
        /\ homes' = homes /\ heardFrom' = heardFrom /\ overlapping' = overlapping
    BY DEF Announce
  <1>2. "ok" \in PlaceSteps
    BY DEF PlaceSteps
  <1>3. /\ PlaceTypes /\ x \in CreateSet /\ x.step = "ok" /\ AsAsked(creating[c])
        /\ creating \in [Creators -> CreateSet] /\ creating' = [creating EXCEPT ![c] = x]
    BY <1>1, <1>2, CreateIs
  <1> HIDE DEF x
  <1>4. m \in PMachines
    BY <1>1, <1>3 DEF AsAsked, Targeted
  <1>5. /\ creating' \in [Creators -> CreateSet] /\ creating'[c].step = "ok"
        /\ \A d \in Creators \ {c} : creating'[d] = creating[d]
    BY <1>3
  <1>6. homes \in [PlacedEnvs -> SUBSET PMachines] /\ heardFrom \in [PMachines -> BOOLEAN]
    BY <1>3 DEF PlaceTypes
  <1>7. Held(m) \in SUBSET PlacedEnvs /\ Held(m) = {e \in PlacedEnvs : m \in homes'[e]}
    BY <1>1 DEF Held
  <1>8. \A d \in Creators : \/ creating'[d] = creating[d]
                            \/ /\ creating'[d].step = "ok" /\ creating[d].step = "announce"
                               /\ creating[d].target = m /\ homes' = homes
    BY <1>1, <1>5
  <1> HIDE DEF m
  <1> QED
    BY <1>1, <1>4, <1>5, <1>6, <1>7, <1>8, TellKeeps

\* A machine's own announcement, while creates go on.
LEMMA BeatKeeps ==
    ASSUME PlaceInv, NEW m \in PMachines, Told(m, Held(m)), UNCHANGED <<homes, creating, unlisted, overlapping>>,
           heardFrom' \in [PMachines -> BOOLEAN]
    PROVE  PlaceInv'
  <1>1. TellsHub(m, Held(m))
    BY DEF TellsHub
  <1>2. homes \in [PlacedEnvs -> SUBSET PMachines] /\ creating \in [Creators -> CreateSet]
    BY DEF PlaceInv, PlaceTypes
  <1>3. Held(m) \in SUBSET PlacedEnvs /\ Held(m) = {e \in PlacedEnvs : m \in homes'[e]}
    BY DEF Held
  <1> QED
    BY <1>1, <1>2, <1>3, TellKeeps

LEMMA DestroyEnvKeeps == ASSUME PlaceInv, NEW e \in PlacedEnvs, DestroyEnv(e) PROVE PlaceInv'
  <1> DEFINE m == IF listed[e] = Nobody THEN HubMachine ELSE listed[e]
  <1>1. /\ ~\E c \in Creators : creating[c].env = e /\ creating[c].step \in {"create", "announce"}
        /\ homes' = [homes EXCEPT ![e] = @ \ {m}] /\ TellsHub(m, Held(m) \ {e})
        /\ heardFrom' = heardFrom /\ creating' = creating /\ overlapping' = overlapping
    BY DEF DestroyEnv
  <1>2. /\ homes \in [PlacedEnvs -> SUBSET PMachines] /\ creating \in [Creators -> CreateSet]
        /\ listed \in [PlacedEnvs -> PMachines \cup {Nobody}] /\ heardFrom \in [PMachines -> BOOLEAN]
        /\ \A c \in Creators : AsAsked(creating[c])
    BY DEF PlaceInv, PlaceTypes
  <1>3. m \in PMachines
    BY <1>2, PlacementAssumption
  <1> HIDE DEF m
  <1>4. /\ homes' \in [PlacedEnvs -> SUBSET PMachines] /\ homes'[e] = homes[e] \ {m}
        /\ \A f \in PlacedEnvs \ {e} : homes'[f] = homes[f]
    BY <1>1, <1>2
  <1>5. \A f \in PlacedEnvs : homes'[f] \subseteq homes[f] /\ homes[f] \subseteq homes'[f] \cup {m}
    BY <1>4
  <1>6. Held(m) \ {e} \in SUBSET PlacedEnvs /\ Held(m) \ {e} = {f \in PlacedEnvs : m \in homes'[f]}
    BY <1>4 DEF Held
  <1>7. \A c \in Creators : creating[c].step \in {"create", "announce"} =>
            homes'[creating[c].env] = homes[creating[c].env]
    <2> SUFFICES ASSUME NEW c \in Creators, creating[c].step \in {"create", "announce"}
                 PROVE  homes'[creating[c].env] = homes[creating[c].env]
      OBVIOUS
    <2>1. creating[c].env \in PlacedEnvs /\ creating[c].env # e
      BY <1>1, <1>2 DEF AsAsked, UnderWay
    <2> QED
      BY <1>4, <2>1
  <1>8. /\ creating' \in [Creators -> CreateSet] /\ heardFrom' \in [PMachines -> BOOLEAN]
        /\ \A c \in Creators : creating'[c] = creating[c]
    BY <1>1, <1>2
  <1> QED
    BY <1>1, <1>3, <1>4, <1>5, <1>6, <1>7, <1>8, TellKeeps

LEMMA PlaceQuiet ==
    ASSUME PlaceInv, UNCHANGED <<homes, listed, gauged, creating, unlisted, overlapping>>,
           heardFrom' \in [PMachines -> BOOLEAN]
    PROVE  PlaceInv'
  <1>1. PlaceTypes'
    BY DEF PlaceInv, PlaceTypes
  <1>2. (\A c \in Creators : AsAsked(creating[c]))' /\ Pinned' /\ ListedIsHome' /\ OneCreate'
    BY DEF PlaceInv, AsAsked, UnderWay, Targeted, Pinned, ListedIsHome, OneCreate
  <1>3. SmallHub => NotOnHub' /\ OneMachine'
    BY DEF PlaceInv, NotOnHub, OneMachine, Targeted, UnderWay, Follows
  <1> QED
    BY <1>1, <1>2, <1>3 DEF PlaceInv, SmallHub

LEMMA PlaceStarts == PlaceInit => PlaceInv
  <1> SUFFICES ASSUME PlaceInit PROVE PlaceInv
    OBVIOUS
  <1>1. Nothing \in CreateSet /\ Nothing.step = "idle"
    BY DEF Nothing, CreateSet, PlaceSteps
  <1>2. creating \in [Creators -> CreateSet] /\ \A c \in Creators : creating[c] = Nothing
    BY <1>1 DEF PlaceInit
  <1>3. PlaceTypes
    <2>1. gauged \in [PMachines -> Nat] /\ \A m \in PMachines : gauged[m] <= Room[m]
      <3>1. gauged = Room /\ Room \in [PMachines -> Nat]
        BY PlacementAssumption DEF PlaceInit
      <3> QED
        BY <3>1
    <2>2. homes \in [PlacedEnvs -> SUBSET PMachines] /\ listed \in [PlacedEnvs -> PMachines \cup {Nobody}]
      BY DEF PlaceInit
    <2>3. heardFrom \in [PMachines -> BOOLEAN] /\ unlisted \in BOOLEAN /\ overlapping \in BOOLEAN
      BY DEF PlaceInit
    <2> QED
      BY <1>2, <2>1, <2>2, <2>3 DEF PlaceTypes
  <1>4. \A c \in Creators : AsAsked(creating[c]) /\ ~UnderWay(creating[c]) /\ creating[c].step \notin Targeted
    BY <1>1, <1>2 DEF AsAsked, UnderWay, Targeted
  <1>5. Pinned /\ ListedIsHome /\ OneCreate /\ NotOnHub /\ OneMachine
    BY <1>4 DEF PlaceInit, Pinned, ListedIsHome, OneCreate, NotOnHub, OneMachine
  <1> QED
    BY <1>3, <1>4, <1>5 DEF PlaceInv

LEMMA PlaceSteady == PlaceInv /\ [PlaceNext]_placeVars => PlaceInv'
  <1> SUFFICES ASSUME PlaceInv, [PlaceNext]_placeVars PROVE PlaceInv'
    OBVIOUS
  <1>1. heardFrom \in [PMachines -> BOOLEAN]
    BY DEF PlaceInv, PlaceTypes
  <1>2. ASSUME NEW c \in Creators, BeginPlacing(c) PROVE PlaceInv'
    BY <1>2, BeginPlacingKeeps
  <1>3. ASSUME NEW c \in Creators, ResolveEnv(c) PROVE PlaceInv'
    BY <1>3, ResolveEnvKeeps
  <1>4. ASSUME NEW c \in Creators, PlaceEnv(c) PROVE PlaceInv'
    BY <1>4, PlaceEnvKeeps
  <1>5. ASSUME NEW c \in Creators, Forward(c) PROVE PlaceInv'
    BY <1>5, ForwardKeeps
  <1>6. ASSUME NEW c \in Creators, CreateThere(c) PROVE PlaceInv'
    BY <1>6, CreateThereKeeps
  <1>7. ASSUME NEW c \in Creators, Announce(c) PROVE PlaceInv'
    BY <1>7, AnnounceKeeps
  <1>8. ASSUME NEW m \in PMachines, Beat(m) PROVE PlaceInv'
    BY <1>1, <1>8, BeatKeeps DEF Beat
  <1>9. ASSUME NEW m \in PMachines, Heard(m) PROVE PlaceInv'
    <2>1. heardFrom' \in [PMachines -> BOOLEAN]
      BY <1>1, <1>9 DEF Heard
    <2> QED
      BY <1>9, <2>1, BeatKeeps DEF Heard
  <1>10. ASSUME NEW m \in PMachines, Silent(m) PROVE PlaceInv'
    <2>1. heardFrom' \in [PMachines -> BOOLEAN]
      BY <1>1, <1>10 DEF Silent
    <2> QED
      BY <1>10, <2>1, PlaceQuiet DEF Silent
  <1>11. ASSUME NEW e \in PlacedEnvs, DestroyEnv(e) PROVE PlaceInv'
    BY <1>11, DestroyEnvKeeps
  <1>12. CASE UNCHANGED placeVars
    BY <1>1, <1>12, PlaceQuiet DEF placeVars
  <1> QED
    BY <1>2, <1>3, <1>4, <1>5, <1>6, <1>7, <1>8, <1>9, <1>10, <1>11, <1>12 DEF PlaceNext

\* A set of machines that are all the same one has at most one member.
LEMMA AtMostOne ==
    ASSUME NEW S, \A a, b \in S : a = b
    PROVE  Cardinality(S) <= 1
  <1>1. CASE S = {}
    BY <1>1, FS_EmptySet
  <1>2. CASE S # {}
    <2>1. PICK a : S = {a}
      BY <1>2
    <2> QED
      BY <2>1, FS_Singleton
  <1> QED
    BY <1>1, <1>2

LEMMA PlaceInvGives == PlaceInv => EnvPlaced
  <1> SUFFICES ASSUME PlaceInv PROVE EnvPlaced
    OBVIOUS
  <1>1. PlaceTypes /\ \A c \in Creators : creating[c] \in CreateSet /\ AsAsked(creating[c])
    BY DEF PlaceInv, PlaceTypes
  <1>2. PlaceTypeOK
    <2>1. \A m \in PMachines : gauged[m] \in 0..Room[m]
      <3>1. gauged \in [PMachines -> Nat] /\ Room \in [PMachines -> Nat]
            /\ \A m \in PMachines : gauged[m] <= Room[m]
        BY <1>1, PlacementAssumption DEF PlaceTypes
      <3> QED
        BY <3>1
    <2>2. \A c \in Creators : creating[c].target \in PMachines \cup {Nobody}
      BY <1>1 DEF CreateSet
    <2> QED
      BY <1>1, <2>1, <2>2 DEF PlaceTypes, PlaceTypeOK
  <1>3. PinHonoured
    BY <1>1 DEF PinHonoured, AsAsked, Targeted
  <1>4. DirectoryTrue
    BY DEF PlaceInv, ListedIsHome, DirectoryTrue
  <1>5. SmallHub => OneHome
    BY AtMostOne DEF PlaceInv, OneMachine, OneHome
  <1> QED
    BY <1>2, <1>3, <1>4, <1>5 DEF EnvPlaced, SmallHub

\* A create puts an environment on the machine --on or the file names
\* (placeAndForward, PlaceEnv, fleet.Choose); once it is
\* announced the hub's directory names a machine that has it, so commands are
\* forwarded there; and where the hub has no room of its own, creates of one
\* name that do not overlap leave it on one machine.
THEOREM EnvsStayPlaced == PlaceSpec => []EnvPlaced
  <1>1. PlaceSpec => []PlaceInv
    BY PlaceStarts, PlaceSteady, PTL DEF PlaceSpec
  <1> QED
    BY <1>1, PlaceInvGives, PTL

-----------------------------------------------------------------------------
(* Releases: the inductive invariant behind ReleasesDelivered.              *)

OpPcs == {"lookup", "plan", "copy", "build", "images", "report", "record", "start",
          "promote", "prune", "remove"}
OpSet == [pc : OpPcs, tree : Trees, force : BOOLEAN, row : Nat, rid : Nat,
          plan : {"have", "copy", "build"}, known : SUBSET (Images \X {"here", "hub"}),
          gone : SUBSET Images]
DepSet == [env : Envs, rid : Nat, from : Nat, open : BOOLEAN]

StoreTypes ==
    /\ ReleasesTypeOK
    /\ rel \in Seq(Trees) /\ hubRel \in Seq(Trees)
    /\ dep \in Seq(DepSet)
    /\ mixed \in BOOLEAN
ReleaseTypes == StoreTypes /\ op \in [Envs -> OpSet \cup {NotDeploying}]

Started == {"start", "promote", "prune", "remove"}

\* A deploy's row is the last one of its environment, and is without a number
\* until the release is recorded.
OwnRow ==
    \A e \in Envs : op[e].pc # "idle" =>
        /\ op[e].row \in 1..Len(dep) /\ dep[op[e].row].env = e
        /\ \A k \in 1..Len(dep) : k > op[e].row => dep[k].env # e
        /\ op[e].pc \notin Started => dep[op[e].row].rid = NoRelease

\* What a deploy does not have yet it is about to copy or to build.
Supplied ==
    ~mixed => \A e \in Envs :
        /\ op[e].pc \in {"copy", "images"} => Missing(op[e].tree) \subseteq op[e].gone
        /\ op[e].pc \in {"report", "record", "start", "promote", "prune"} => Missing(op[e].tree) = {}

\* The number of a deploy that has its images is one of this machine's.
NumberedHere ==
    \A e \in Envs :
        /\ op[e].pc \in {"report", "record", "start", "promote", "prune", "remove"} /\ op[e].plan # "have"
               => op[e].rid \in 1..Len(rel) /\ rel[op[e].rid] = op[e].tree
        /\ op[e].pc \in Started => op[e].rid <= Len(rel)
        /\ op[e].pc \in {"plan", "copy"} => op[e].rid # NoRelease

\* Images that are all here are neither copied nor built.
PlanCopies ==
    \A e \in Envs : op[e].pc \in {"lookup", "plan", "copy", "build", "images", "report"} => op[e].plan # "have"

\* A hub without releases has told nothing.
HubSilent ==
    hubRel = <<>> => \A e \in Envs :
        op[e].pc # "idle" => op[e].pc \notin {"plan", "copy"} /\ op[e].plan # "have"

\* What the environments need: the releases of their latest deploys and the
\* ones they serve.
Wanted(e) == Recent(e) \cup ({serves[e]} \ {NoRelease})
WantedKept ==
    hubRel = <<>> /\ ~mixed => \A e \in Envs : \A i \in Wanted(e) : Image(rel[i]) \subseteq img

\* A prune beside which nothing runs takes nothing anyone needs.
AloneAtPrune ==
    ~mixed => \A e \in Envs : op[e].pc = "remove" =>
        /\ \A o \in Envs \ {e} : op[o] = NotDeploying
        /\ \A o \in Envs : \A i \in Wanted(o) : op[e].gone \cap Image(rel[i]) = {}

ReleaseInv ==
    /\ ReleaseTypes /\ OwnRow /\ Supplied /\ NumberedHere /\ PlanCopies /\ HubSilent
    /\ WantedKept /\ AloneAtPrune

-----------------------------------------------------------------------------
(* Releases: trees and their numbers, and the deploys that run.             *)

LEMMA NumberIs ==
    ASSUME NEW r \in Seq(Trees), NEW t \in TreesOf(r)
    PROVE  Number(r, t) \in 1..Len(r) /\ r[Number(r, t)] = t
  <1>1. \E i \in 1..Len(r) : r[i] = t
    BY DEF TreesOf
  <1> QED
    BY <1>1 DEF Number

LEMMA NumberType == ASSUME NEW r \in Seq(Trees), NEW t PROVE Number(r, t) \in Nat
  <1>1. CASE t \in TreesOf(r)
    BY <1>1, NumberIs
  <1>2. CASE t \notin TreesOf(r)
    BY <1>2 DEF Number, NoRelease
  <1> QED
    BY <1>1, <1>2

Distinct(r) == \A i, j \in 1..Len(r) : r[i] = r[j] => i = j
Grows(r, s) == Len(r) <= Len(s) /\ \A i \in 1..Len(r) : s[i] = r[i]

\* A tree that is recorded has a number, and the others keep theirs.
LEMMA RecordedIs ==
    ASSUME NEW r \in Seq(Trees), NEW t \in Trees, Distinct(r)
    PROVE  /\ Recorded(r, t) \in Seq(Trees) /\ t \in TreesOf(Recorded(r, t))
           /\ Distinct(Recorded(r, t)) /\ Grows(r, Recorded(r, t))
           /\ Recorded(r, t) # <<>>
  <1>1. CASE t \in TreesOf(r)
    BY <1>1 DEF Recorded, Grows, TreesOf
  <1>2. CASE t \notin TreesOf(r)
    <2> DEFINE s == Append(r, t)
    <2>1. /\ s \in Seq(Trees) /\ Len(s) = Len(r) + 1 /\ s[Len(r) + 1] = t
          /\ \A i \in 1..Len(r) : s[i] = r[i]
      OBVIOUS
    <2>2. \A i \in 1..Len(r) : r[i] # t
      BY <1>2 DEF TreesOf
    <2>3. Recorded(r, t) = s
      BY <1>2 DEF Recorded
    <2>4. s # <<>>
      BY <2>1
    <2> HIDE DEF s
    <2>5. Grows(r, s) /\ t \in TreesOf(s)
      BY <2>1 DEF Grows, TreesOf
    <2>6. Distinct(s)
      <3> SUFFICES ASSUME NEW i \in 1..Len(s), NEW j \in 1..Len(s), s[i] = s[j] PROVE i = j
        BY DEF Distinct
      <3>1. CASE i \in 1..Len(r) /\ j \in 1..Len(r)
        BY <2>1, <3>1 DEF Distinct
      <3>2. CASE i \notin 1..Len(r) /\ j \in 1..Len(r)
        BY <2>1, <2>2, <3>2
      <3>3. CASE i \in 1..Len(r) /\ j \notin 1..Len(r)
        BY <2>1, <2>2, <3>3
      <3>4. CASE i \notin 1..Len(r) /\ j \notin 1..Len(r)
        BY <2>1, <3>4
      <3> QED
        BY <3>1, <3>2, <3>3, <3>4
    <2> QED
      BY <2>1, <2>3, <2>4, <2>5, <2>6
  <1> QED
    BY <1>1, <1>2

LEMMA RecordedGrows ==
    ASSUME NEW r \in Seq(Trees), NEW t \in Trees
    PROVE  Recorded(r, t) \in Seq(Trees) /\ (Recorded(r, t) = <<>> => r = <<>>)
  BY DEF Recorded

LEMMA OpIs ==
    ASSUME ReleaseTypes, NEW e \in Envs, op[e].pc # "idle"
    PROVE  op[e] \in OpSet
  BY DEF ReleaseTypes, NotDeploying

\* One deploy goes on: the others are where they were.
OpMoves(e) == /\ op' \in [Envs -> OpSet \cup {NotDeploying}]
              /\ \A o \in Envs \ {e} : op'[o] = op[o]

LEMMA OpBecomes ==
    ASSUME ReleaseTypes, NEW e \in Envs, NEW x \in OpSet \cup {NotDeploying}, op' = [op EXCEPT ![e] = x]
    PROVE  OpMoves(e) /\ op'[e] = x
  BY DEF ReleaseTypes, OpMoves

LEMMA OpGoes ==
    ASSUME ReleaseTypes, NEW e \in Envs, op[e].pc # "idle", NEW pc \in OpPcs, Goes(e, pc)
    PROVE  /\ OpMoves(e) /\ op'[e] \in OpSet /\ op'[e].pc = pc
           /\ op'[e].tree = op[e].tree /\ op'[e].row = op[e].row /\ op'[e].rid = op[e].rid
           /\ op'[e].plan = op[e].plan /\ op'[e].gone = op[e].gone
  <1> DEFINE x == [op[e] EXCEPT !.pc = pc]
  <1>1. op[e] \in OpSet
    BY OpIs
  <1>2. /\ x \in OpSet /\ x.pc = pc /\ x.tree = op[e].tree /\ x.row = op[e].row /\ x.rid = op[e].rid
        /\ x.plan = op[e].plan /\ x.gone = op[e].gone
    BY <1>1 DEF OpSet
  <1>3. op' = [op EXCEPT ![e] = x]
    BY DEF Goes, ReleaseTypes
  <1> HIDE DEF x
  <1> QED
    BY <1>2, <1>3, OpBecomes

\* The numbers that are wanted are numbers of releases.
LEMMA WantedNumbers ==
    ASSUME StoreTypes, NEW e \in Envs
    PROVE  Wanted(e) \subseteq 1..Len(rel)
  <1>1. \A k \in 1..Len(dep) : dep[k] \in DepSet /\ dep[k].rid <= Len(rel)
    BY DEF StoreTypes, ReleasesTypeOK
  <1>2. Recent(e) \subseteq {dep[k].rid : k \in Numbered(e)}
    BY DEF Recent, Newest
  <1>3. \A k \in Numbered(e) : dep[k].rid \in 1..Len(rel)
    BY <1>1 DEF Numbered, DepSet, NoRelease, StoreTypes
  <1>4. serves[e] \in 0..Len(rel)
    BY DEF StoreTypes, ReleasesTypeOK
  <1> QED
    BY <1>2, <1>3, <1>4 DEF Wanted, NoRelease, StoreTypes

\* Rows that keep their environment and number, and rows without a number, leave
\* the recent releases alone.
RowsKept ==
    /\ Len(dep) <= Len(dep')
    /\ \A k \in 1..Len(dep) : dep'[k].env = dep[k].env /\ dep'[k].rid = dep[k].rid
    /\ \A k \in 1..Len(dep') : k > Len(dep) => dep'[k].rid = NoRelease

LEMMA RecentKept ==
    ASSUME StoreTypes, StoreTypes', RowsKept, NEW e \in Envs
    PROVE  Recent(e)' = Recent(e)
  <1>1. Numbered(e)' = Numbered(e)
    BY DEF Numbered, RowsKept, StoreTypes
  <1>2. Numbered(e) \subseteq 1..Len(dep)
    BY DEF Numbered
  <1>3. Newest(e)' = Newest(e) /\ Newest(e) \subseteq 1..Len(dep)
    BY <1>1, <1>2 DEF Newest, RowsKept
  <1> QED
    BY <1>3 DEF Recent, RowsKept

-----------------------------------------------------------------------------
(* Releases: a step of a deploy that takes no image away and numbers no row. *)

\* What a deploy that goes on owes: the images it is to bring or has, and a
\* number of this machine's.
Owes(e) ==
    /\ ~mixed => /\ op[e].pc \in {"copy", "images"} => Missing(op[e].tree) \subseteq op[e].gone
                 /\ op[e].pc \in {"report", "record", "start", "promote", "prune"} => Missing(op[e].tree) = {}
    /\ op[e].pc \in {"report", "record", "start", "promote", "prune", "remove"} /\ op[e].plan # "have"
           => op[e].rid \in 1..Len(rel) /\ rel[op[e].rid] = op[e].tree
    /\ op[e].pc \in Started => op[e].rid <= Len(rel)
    /\ op[e].pc \in {"plan", "copy"} => op[e].rid # NoRelease
    /\ op[e].pc \in {"lookup", "plan", "copy", "build", "images", "report"} => op[e].plan # "have"
    /\ hubRel = <<>> /\ op[e].pc # "idle" => op[e].pc \notin {"plan", "copy"} /\ op[e].plan # "have"

LEMMA OwesIs == Supplied /\ NumberedHere /\ PlanCopies /\ HubSilent <=> \A e \in Envs : Owes(e)
  BY DEF Supplied, NumberedHere, PlanCopies, HubSilent, Owes

\* The others owe what they owed.
LEMMA OthersOwe ==
    ASSUME ReleaseInv, NEW e \in Envs, OpMoves(e), mixed => mixed', img \subseteq img' \/ mixed',
           Grows(rel, rel'), rel \in Seq(Trees), rel' \in Seq(Trees), hubRel' = <<>> => hubRel = <<>>
    PROVE  \A o \in Envs \ {e} : Owes(o)'
  <1> SUFFICES ASSUME NEW o \in Envs \ {e} PROVE Owes(o)'
    OBVIOUS
  <1>1. Owes(o) /\ op'[o] = op[o]
    BY OwesIs DEF ReleaseInv, OpMoves
  <1>2. ~mixed' => Image(op[o].tree) \ img' \subseteq Missing(op[o].tree)
    BY <1>1 DEF Missing
  <1>3. op[o].rid \in 1..Len(rel) => op[o].rid \in 1..Len(rel') /\ rel'[op[o].rid] = rel[op[o].rid]
    BY DEF Grows
  <1>4. op[o].pc \in Started => op[o].rid \in Nat
    <2>1. op[o].pc \in Started => op[o].pc # "idle"
      BY DEF Started
    <2> QED
      BY <2>1, OpIs DEF ReleaseInv, OpSet
  <1>5. op[o].pc \in Started => op[o].rid <= Len(rel')
    BY <1>1, <1>4 DEF Owes, Grows
  <1>6. Missing(op[o].tree)' = Image(op[o].tree) \ img'
    BY <1>1 DEF Missing, Image
  <1> QED
    BY <1>1, <1>2, <1>3, <1>5, <1>6 DEF Owes

\* No prune begins or goes on beside a step of another deploy.
LEMMA NoPrune ==
    ASSUME ReleaseInv, NEW e \in Envs, OpMoves(e), op[e].pc # "idle", op'[e].pc # "remove", mixed => mixed'
    PROVE  AloneAtPrune'
  <1> SUFFICES ASSUME ~mixed', NEW o \in Envs, op'[o].pc = "remove" PROVE FALSE
    BY DEF AloneAtPrune
  <1>1. o # e /\ op[o].pc = "remove"
    BY DEF OpMoves
  <1>2. op[e] = NotDeploying
    BY <1>1 DEF ReleaseInv, AloneAtPrune
  <1> QED
    BY <1>2 DEF NotDeploying

\* What is wanted stays here while no image goes.
LEMMA WantedStays ==
    ASSUME ReleaseInv, StoreTypes', RowsKept, serves' = serves, img \subseteq img', Grows(rel, rel'),
           mixed => mixed', hubRel' = <<>> => hubRel = <<>>
    PROVE  WantedKept'
  <1> SUFFICES ASSUME hubRel' = <<>>, ~mixed', NEW e \in Envs, NEW i \in Wanted(e)' PROVE Image(rel'[i]) \subseteq img'
    BY DEF WantedKept, Image
  <1>1. StoreTypes
    BY DEF ReleaseInv, ReleaseTypes
  <1>2. i \in Wanted(e)
    BY <1>1, RecentKept DEF Wanted
  <1>3. i \in 1..Len(rel) /\ rel'[i] = rel[i]
    BY <1>1, <1>2, WantedNumbers DEF Grows
  <1>4. Image(rel[i]) \subseteq img
    BY <1>2 DEF ReleaseInv, WantedKept
  <1> QED
    BY <1>3, <1>4

\* The row of every deploy stays its own.
LEMMA RowsStay ==
    ASSUME ReleaseInv, StoreTypes', NEW e \in Envs, OpMoves(e), RowsKept, Len(dep') = Len(dep), op[e].pc # "idle",
           op'[e].pc # "idle" => op'[e].row = op[e].row /\ (op'[e].pc \notin Started => op[e].pc \notin Started)
    PROVE  OwnRow'
  <1> SUFFICES ASSUME NEW o \in Envs, op'[o].pc # "idle"
               PROVE  /\ op'[o].row \in 1..Len(dep') /\ dep'[op'[o].row].env = o
                      /\ \A k \in 1..Len(dep') : k > op'[o].row => dep'[k].env # o
                      /\ op'[o].pc \notin Started => dep'[op'[o].row].rid = NoRelease
    BY DEF OwnRow
  <1>1. op[o].pc # "idle" /\ op'[o].row = op[o].row /\ (op'[o].pc \notin Started => op[o].pc \notin Started)
    BY DEF OpMoves
  <1>2. /\ op[o].row \in 1..Len(dep) /\ dep[op[o].row].env = o
        /\ \A k \in 1..Len(dep) : k > op[o].row => dep[k].env # o
        /\ op[o].pc \notin Started => dep[op[o].row].rid = NoRelease
    BY <1>1 DEF ReleaseInv, OwnRow
  <1> QED
    BY <1>1, <1>2 DEF RowsKept

LEMMA PlainStep ==
    ASSUME ReleaseInv, StoreTypes', NEW e \in Envs, OpMoves(e), op[e].pc # "idle", op'[e].pc # "remove",
           op'[e].pc # "idle" => op'[e].row = op[e].row /\ (op'[e].pc \notin Started => op[e].pc \notin Started),
           RowsKept, Len(dep') = Len(dep), serves' = serves, img \subseteq img', Grows(rel, rel'),
           mixed' = mixed, hubRel' = <<>> => hubRel = <<>>, Owes(e)'
    PROVE  ReleaseInv'
  <1>1. ReleaseTypes'
    BY DEF ReleaseTypes, OpMoves
  <1>2. rel \in Seq(Trees) /\ rel' \in Seq(Trees)
    BY DEF ReleaseInv, ReleaseTypes, StoreTypes
  <1>3. \A o \in Envs \ {e} : Owes(o)'
    BY <1>2, OthersOwe
  <1>4. Supplied' /\ NumberedHere' /\ PlanCopies' /\ HubSilent'
    BY <1>3 DEF Supplied, NumberedHere, PlanCopies, HubSilent, Owes
  <1> QED
    BY <1>1, <1>4, RowsStay, WantedStays, NoPrune DEF ReleaseInv

LEMMA StoreKept ==
    ASSUME StoreTypes, mixed' \in BOOLEAN, UNCHANGED <<here, hub>>
    PROVE  StoreTypes'
  BY DEF StoreTypes, ReleasesTypeOK, here, hub, TreesOf, Images

LEMMA SameRows ==
    ASSUME StoreTypes, dep' = dep
    PROVE  RowsKept /\ Len(dep') = Len(dep)
  BY DEF RowsKept, StoreTypes

LEMMA SameReleases ==
    ASSUME StoreTypes, rel' = rel
    PROVE  Grows(rel, rel')
  BY DEF Grows, StoreTypes

\* A deploy that is over owes nothing.
LEMMA IdleOwes == ASSUME NEW e \in Envs, op'[e] = NotDeploying PROVE Owes(e)'
  BY DEF Owes, NotDeploying, Started

\* The row of a deploy that ends is closed, and the others are left.
LEMMA EndsIs ==
    ASSUME ReleaseInv, NEW e \in Envs, op[e].pc # "idle", Ends(e)
    PROVE  /\ OpMoves(e) /\ op'[e] = NotDeploying /\ op'[e].pc = "idle"
           /\ dep' \in Seq(DepSet) /\ Len(dep') = Len(dep) /\ RowsKept
           /\ \A k \in 1..Len(dep) : dep'[k].rid = dep[k].rid /\ dep'[k].from = dep[k].from
  <1> DEFINE r == op[e].row
             x == [dep[r] EXCEPT !.open = FALSE]
  <1>1. r \in 1..Len(dep) /\ dep \in Seq(DepSet) /\ ReleaseTypes
    BY DEF ReleaseInv, ReleaseTypes, StoreTypes, OwnRow
  <1>2. OpMoves(e) /\ op'[e] = NotDeploying /\ op'[e].pc = "idle"
    <2>1. op' = [op EXCEPT ![e] = NotDeploying]
      BY DEF Ends
    <2>2. OpMoves(e) /\ op'[e] = NotDeploying
      BY <1>1, <2>1, OpBecomes
    <2> QED
      BY <2>2 DEF NotDeploying
  <1>a. dep[r] \in DepSet
    BY <1>1
  <1>3. x \in DepSet /\ x.env = dep[r].env /\ x.rid = dep[r].rid /\ x.from = dep[r].from
    BY <1>a DEF DepSet
  <1>4. dep' = [dep EXCEPT ![r] = x]
    BY <1>1 DEF Ends
  <1> HIDE DEF r, x
  <1>5. dep' \in Seq(DepSet) /\ Len(dep') = Len(dep) /\ dep'[r] = x /\ \A k \in 1..Len(dep) : k # r => dep'[k] = dep[k]
    BY <1>1, <1>3, <1>4
  <1>6. \A k \in 1..Len(dep) : dep'[k].env = dep[k].env /\ dep'[k].rid = dep[k].rid /\ dep'[k].from = dep[k].from
    BY <1>3, <1>5
  <1> QED
    BY <1>1, <1>2, <1>5, <1>6 DEF RowsKept

\* A deploy ends, and what it has run stays.
LEMMA EndsKeeps ==
    ASSUME ReleaseInv, NEW e \in Envs, op[e].pc # "idle", Ends(e), buildLock' \in [Trees -> Envs \cup {NoRelease}],
           UNCHANGED <<rel, idx, img, serves, relRuns, mixed, hub>>
    PROVE  ReleaseInv'
  <1>1. StoreTypes
    BY DEF ReleaseInv, ReleaseTypes
  <1>2. /\ OpMoves(e) /\ op'[e] = NotDeploying /\ op'[e].pc = "idle"
        /\ dep' \in Seq(DepSet) /\ Len(dep') = Len(dep) /\ RowsKept
        /\ \A k \in 1..Len(dep) : dep'[k].rid = dep[k].rid /\ dep'[k].from = dep[k].from
    BY EndsIs
  <1>3. \A k \in 1..Len(dep') : dep'[k].rid <= Len(rel') /\ dep'[k].from <= Len(rel')
    BY <1>1, <1>2 DEF StoreTypes, ReleasesTypeOK
  <1>4. StoreTypes'
    BY <1>1, <1>2, <1>3 DEF StoreTypes, ReleasesTypeOK, hub, TreesOf, Images
  <1>5. hubRel' = hubRel /\ Grows(rel, rel') /\ Owes(e)' /\ op'[e].pc # "remove"
    BY <1>1, <1>2, SameReleases, IdleOwes DEF hub
  <1> QED
    BY <1>2, <1>4, <1>5, PlainStep

\* A deploy only goes on to pc.
LEMMA GoesKeeps ==
    ASSUME ReleaseInv, NEW e \in Envs, op[e].pc # "idle", NEW pc \in OpPcs, Goes(e, pc), pc # "remove",
           UNCHANGED <<here, mixed, hub>>, pc \notin Started => op[e].pc \notin Started, Owes(e)'
    PROVE  ReleaseInv'
  <1>1. StoreTypes /\ ReleaseTypes
    BY DEF ReleaseInv, ReleaseTypes
  <1>2. OpMoves(e) /\ op'[e].pc = pc /\ op'[e].row = op[e].row
    BY <1>1, OpGoes
  <1>3. mixed' = mixed /\ mixed \in BOOLEAN
    BY <1>1 DEF StoreTypes
  <1>4. StoreTypes'
    BY <1>1, <1>3, StoreKept
  <1>5. Grows(rel, rel') /\ RowsKept /\ Len(dep') = Len(dep) /\ serves' = serves /\ img' = img /\ hubRel' = hubRel
    BY <1>1, SameReleases, SameRows DEF here, hub
  <1> QED
    BY <1>2, <1>3, <1>4, <1>5, PlainStep

\* A build owes nothing yet.
LEMMA BuildOwes ==
    ASSUME ReleaseInv, NEW e \in Envs, op[e].pc \in {"lookup", "copy"}, op'[e].pc = "build",
           op'[e].plan = op[e].plan, hubRel' = <<>> => hubRel = <<>>
    PROVE  Owes(e)'
  <1>1. Owes(e)
    BY OwesIs DEF ReleaseInv
  <1> QED
    BY <1>1 DEF Owes, Started

LEMMA LookupKeeps == ASSUME ReleaseInv, NEW e \in Envs, Lookup(e) PROVE ReleaseInv'
  <1>1. /\ op[e].pc = "lookup" /\ UNCHANGED <<here, mixed, hub>> /\ ReleaseTypes /\ StoreTypes
        /\ hubRel' = hubRel
    BY DEF Lookup, ReleaseInv, ReleaseTypes, hub
  <1>2. CASE Goes(e, "build")
    <2>1. "build" \in OpPcs /\ op[e].pc # "idle" /\ op[e].pc \notin Started
      BY <1>1 DEF OpPcs, Started
    <2>2. op'[e].pc = "build" /\ op'[e].plan = op[e].plan
      BY <1>1, <1>2, <2>1, OpGoes
    <2>3. Owes(e)'
      BY <1>1, <2>2, BuildOwes
    <2> QED
      BY <1>1, <1>2, <2>1, <2>3, GoesKeeps
  <1>3. CASE /\ op[e].tree \in TreesOf(hubRel)
             /\ op' = [op EXCEPT ![e].pc = "plan", ![e].rid = Number(hubRel, op[e].tree),
                                 ![e].known = {k \in hubIdx : k[1][1] = op[e].tree}]
    <2> DEFINE n == Number(hubRel, op[e].tree)
               ks == {k \in hubIdx : k[1][1] = op[e].tree}
               x == [op[e] EXCEPT !.pc = "plan", !.rid = n, !.known = ks]
    <2>a. Owes(e)
      BY OwesIs DEF ReleaseInv
    <2>1. op[e] \in OpSet
      BY <1>1, OpIs
    <2>2. n \in Nat /\ n # NoRelease /\ ks \in SUBSET (Images \X {"here", "hub"})
      BY <1>1, <1>3, NumberIs DEF StoreTypes, ReleasesTypeOK, NoRelease
    <2>3. op' = [op EXCEPT ![e] = x]
      BY <1>1, <1>3 DEF ReleaseTypes
    <2> HIDE DEF n, ks
    <2>4. x \in OpSet /\ x.pc = "plan" /\ x.row = op[e].row /\ x.rid = n /\ x.plan = op[e].plan
      BY <2>1, <2>2 DEF OpSet, OpPcs
    <2> HIDE DEF x
    <2>5. OpMoves(e) /\ op'[e] = x
      BY <1>1, <2>3, <2>4, OpBecomes
    <2>6. hubRel # <<>>
      BY <1>3 DEF TreesOf
    <2>7. Owes(e)'
      <3>1. x.plan # "have"
        BY <1>1, <2>a, <2>4 DEF Owes
      <3> QED
        BY <1>1, <2>2, <2>4, <2>5, <2>6, <3>1 DEF Owes, Started
    <2>8. StoreTypes' /\ mixed' = mixed
      BY <1>1, StoreKept DEF StoreTypes
    <2>9. Grows(rel, rel') /\ RowsKept /\ Len(dep') = Len(dep) /\ serves' = serves /\ img' = img
      BY <1>1, SameReleases, SameRows DEF here
    <2>10. op[e].pc # "idle" /\ op[e].pc \notin Started /\ op'[e].pc # "remove"
      BY <1>1, <2>4, <2>5 DEF Started
    <2> QED
      BY <1>1, <2>4, <2>5, <2>7, <2>8, <2>9, <2>10, PlainStep
  <1> QED
    BY <1>2, <1>3 DEF Lookup

LEMMA PlanKeeps == ASSUME ReleaseInv, NEW e \in Envs, PlanSupply(e) PROVE ReleaseInv'
  <1> DEFINE m == Missing(op[e].tree)
             d == Decide(e)
             pc == IF d = "have" THEN "record" ELSE d
             x == [op[e] EXCEPT !.plan = d, !.gone = m, !.pc = pc]
  <1>1. /\ op[e].pc = "plan" /\ UNCHANGED <<here, mixed, hub>> /\ ReleaseTypes /\ StoreTypes
        /\ hubRel' = hubRel /\ img' = img /\ rel' = rel /\ Owes(e)
    BY OwesIs DEF PlanSupply, ReleaseInv, ReleaseTypes, hub, here
  <1>2. op[e] \in OpSet
    BY <1>1, OpIs
  <1>3. d \in {"have", "copy", "build"} /\ (d = "have" => m = {})
    BY DEF Decide
  <1>4. m \in SUBSET Images
    BY <1>2 DEF Missing, Image, Images, OpSet
  <1>5. op' = [op EXCEPT ![e] = x]
    BY <1>1 DEF PlanSupply, ReleaseTypes
  <1>6. pc \in {"record", "copy", "build"} /\ (pc = "record" <=> d = "have")
    BY <1>3
  <1>7. hubRel # <<>> /\ op[e].rid # NoRelease
    BY <1>1 DEF Owes
  <1>a. m = Image(op[e].tree) \ img
    BY DEF Missing
  <1> HIDE DEF m, d, pc
  <1>8. x \in OpSet /\ x.pc = pc /\ x.row = op[e].row /\ x.rid = op[e].rid /\ x.tree = op[e].tree /\ x.gone = m /\ x.plan = d
    BY <1>2, <1>3, <1>4, <1>6 DEF OpSet, OpPcs
  <1> HIDE DEF x
  <1>9. OpMoves(e) /\ op'[e] = x
    BY <1>1, <1>5, <1>8, OpBecomes
  <1>10. Missing(op[e].tree)' = m
    BY <1>1, <1>8, <1>9, <1>a DEF Missing, Image
  <1>11. Owes(e)'
    BY <1>1, <1>3, <1>6, <1>7, <1>8, <1>9, <1>10 DEF Owes, Started
  <1>12. StoreTypes' /\ mixed' = mixed
    BY <1>1, StoreKept DEF StoreTypes
  <1>13. Grows(rel, rel') /\ RowsKept /\ Len(dep') = Len(dep) /\ serves' = serves
    BY <1>1, SameReleases, SameRows DEF here
  <1>14. op[e].pc # "idle" /\ op[e].pc \notin Started /\ op'[e].pc # "remove"
    BY <1>1, <1>6, <1>8, <1>9 DEF Started
  <1> QED
    BY <1>1, <1>8, <1>9, <1>11, <1>12, <1>13, <1>14, PlainStep

\* A broken copy is taken back: whoever else deploys may miss what goes.
LEMMA UndoneKeeps ==
    ASSUME ReleaseInv, NEW e \in Envs, op[e].pc = "copy", NEW part \in SUBSET op[e].gone, Undone(part),
           mixed' = (mixed \/ Others(e)), Goes(e, "build"),
           UNCHANGED <<rel, idx, dep, serves, relRuns, buildLock, hub>>
    PROVE  ReleaseInv'
  <1>1. ReleaseTypes /\ StoreTypes /\ Owes(e) /\ mixed' \in BOOLEAN /\ hubRel' = hubRel /\ "build" \in OpPcs
    BY OwesIs DEF ReleaseInv, ReleaseTypes, StoreTypes, hub, OpPcs
  <1>2. OpMoves(e) /\ op'[e].pc = "build" /\ op'[e].plan = op[e].plan /\ op'[e].row = op[e].row
    BY <1>1, OpGoes
  <1>3. StoreTypes'
    BY <1>1 DEF StoreTypes, ReleasesTypeOK, TreesOf, Images, hub, Undone
  <1>4. hubRel # <<>> /\ rel \in Seq(Trees)
    BY <1>1 DEF Owes, StoreTypes
  <1>5. Owes(e)'
    BY <1>1, <1>2, BuildOwes
  <1>6. Grows(rel, rel') /\ RowsKept /\ Len(dep') = Len(dep)
    BY <1>1, SameReleases, SameRows
  <1>7. \A o \in Envs \ {e} : Owes(o)'
    <2>1. CASE mixed'
      BY <1>1, <1>2, <1>4, <1>6, <2>1, OthersOwe
    <2>2. CASE ~mixed'
      <3>1. \A o \in Envs \ {e} : op'[o] = NotDeploying
        BY <1>2, <2>2 DEF Others, OpMoves
      <3> QED
        BY <3>1, IdleOwes
    <2> QED
      BY <2>1, <2>2
  <1>8. Supplied' /\ NumberedHere' /\ PlanCopies' /\ HubSilent'
    BY <1>5, <1>7 DEF Supplied, NumberedHere, PlanCopies, HubSilent, Owes
  <1>9. WantedKept'
    BY <1>1, <1>4 DEF WantedKept
  <1>10. op[e].pc \notin Started /\ op'[e].pc # "remove"
    BY <1>2 DEF Started
  <1>11. OwnRow' /\ AloneAtPrune'
    BY <1>2, <1>3, <1>6, <1>10, RowsStay, NoPrune
  <1>12. ReleaseTypes'
    BY <1>2, <1>3 DEF ReleaseTypes, OpMoves
  <1> QED
    BY <1>8, <1>9, <1>11, <1>12 DEF ReleaseInv

\* What is recorded keeps the store's types.
LEMMA RecordTypes ==
    ASSUME StoreTypes, NEW t \in Trees, rel' = Recorded(rel, t),
           idx' \subseteq (1..Len(rel')) \X BuiltServices \X {"here"}, img' \subseteq Images,
           buildLock' \in [Trees -> Envs \cup {NoRelease}],
           UNCHANGED <<dep, serves, relRuns, mixed, hub>>
    PROVE  /\ StoreTypes' /\ Grows(rel, rel') /\ RowsKept /\ Len(dep') = Len(dep)
           /\ Number(rel', t) \in 1..Len(rel') /\ rel'[Number(rel', t)] = t /\ rel' \in Seq(Trees)
  <1>1. rel \in Seq(Trees) /\ Distinct(rel)
    BY DEF StoreTypes, ReleasesTypeOK, Distinct
  <1>2. rel' \in Seq(Trees) /\ t \in TreesOf(rel') /\ Distinct(rel') /\ Grows(rel, rel')
    BY <1>1, RecordedIs
  <1>3. Number(rel', t) \in 1..Len(rel') /\ rel'[Number(rel', t)] = t
    BY <1>2, NumberIs
  <1>4. TreesOf(rel') \subseteq Trees
    BY <1>2 DEF TreesOf
  <1>5. serves' \in [Envs -> 0..Len(rel')]
    BY <1>1, <1>2 DEF StoreTypes, ReleasesTypeOK, Grows
  <1>6. \A k \in 1..Len(dep') : dep'[k].rid <= Len(rel') /\ dep'[k].from <= Len(rel')
    <2> SUFFICES ASSUME NEW k \in 1..Len(dep) PROVE dep[k].rid <= Len(rel') /\ dep[k].from <= Len(rel')
      OBVIOUS
    <2>1. dep[k] \in DepSet /\ dep[k].rid <= Len(rel) /\ dep[k].from <= Len(rel)
      BY DEF StoreTypes, ReleasesTypeOK
    <2> QED
      BY <1>1, <1>2, <2>1 DEF DepSet, Grows
  <1>7. ReleasesTypeOK'
    BY <1>2, <1>4, <1>5, <1>6 DEF StoreTypes, ReleasesTypeOK, TreesOf, Distinct, Images, hub
  <1> QED
    BY <1>2, <1>3, <1>7, SameRows DEF StoreTypes, hub

\* A deploy that goes on to report has its images, under a number of this machine's.
LEMMA ReportStep ==
    ASSUME ReleaseInv, StoreTypes', NEW e \in Envs, OpMoves(e), op[e].pc \in {"copy", "build", "images"},
           op'[e].pc = "report", op'[e].row = op[e].row, op'[e].tree = op[e].tree,
           ~mixed => Image(op[e].tree) \subseteq img', op'[e].plan # "have",
           op'[e].rid \in 1..Len(rel'), rel'[op'[e].rid] = op[e].tree,
           RowsKept, Len(dep') = Len(dep), serves' = serves, img \subseteq img', Grows(rel, rel'),
           mixed' = mixed, hubRel' = hubRel
    PROVE  ReleaseInv'
  <1>1. op[e].pc # "idle" /\ op[e].pc \notin Started /\ op'[e].pc # "remove"
    BY DEF Started
  <1>2. ~mixed' => Missing(op[e].tree)' = {}
    BY DEF Missing, Image
  <1>3. Owes(e)'
    BY <1>2 DEF Owes, Started
  <1> QED
    BY <1>1, <1>3, PlainStep

LEMMA CopyKeeps == ASSUME ReleaseInv, NEW e \in Envs, Copy(e) PROVE ReleaseInv'
  <1>1. /\ op[e].pc = "copy" /\ UNCHANGED <<dep, serves, relRuns, buildLock, hub>> /\ hubRel' = hubRel
        /\ ReleaseTypes /\ StoreTypes /\ Owes(e)
    BY OwesIs DEF Copy, ReleaseInv, ReleaseTypes, hub
  <1>2. /\ op[e] \in OpSet /\ op[e].tree \in Trees /\ op[e].gone \subseteq Images /\ op[e].rid \in Nat
        /\ op[e].rid # NoRelease /\ rel \in Seq(Trees) /\ "build" \in OpPcs
        /\ op[e].pc # "idle" /\ op[e].pc \notin Started
    BY <1>1, OpIs DEF OpSet, OpPcs, StoreTypes, Owes, Started
  <1>3. CASE Goes(e, "build") /\ UNCHANGED <<rel, idx, mixed>> /\ img \subseteq img' /\ img' \subseteq Images
    <2>1. /\ OpMoves(e) /\ op'[e].pc = "build" /\ op'[e].plan = op[e].plan /\ op'[e].row = op[e].row
      BY <1>1, <1>2, <1>3, OpGoes
    <2>2. Owes(e)'
      BY <1>1, <1>2, <2>1, BuildOwes
    <2>3. StoreTypes'
      BY <1>1, <1>3 DEF StoreTypes, ReleasesTypeOK, TreesOf, Images, hub
    <2>4. Grows(rel, rel') /\ RowsKept /\ Len(dep') = Len(dep) /\ op'[e].pc # "remove"
      BY <1>1, <1>3, <2>1, SameReleases, SameRows
    <2> QED
      BY <1>1, <1>2, <1>3, <2>1, <2>2, <2>3, <2>4, PlainStep
  <1>4. CASE /\ img' = img \cup op[e].gone /\ mixed' = mixed /\ op[e].rid <= Len(rel)
             /\ idx' = idx \cup {<<op[e].rid, i[2], "here">> : i \in op[e].gone}
             /\ rel' = Recorded(rel, op[e].tree)
             /\ op' = [op EXCEPT ![e].pc = "report", ![e].rid = Adopt(e)]
    <2> DEFINE n == Number(rel', op[e].tree)
               x == [op[e] EXCEPT !.pc = "report", !.rid = n]
    <2>a. Grows(rel, rel') /\ rel' \in Seq(Trees)
      BY <1>1, <1>2, <1>4, RecordedIs DEF StoreTypes, ReleasesTypeOK, Distinct
    <2>b. {<<op[e].rid, i[2], "here">> : i \in op[e].gone} \subseteq (1..Len(rel')) \X BuiltServices \X {"here"}
      BY <1>2, <1>4, <2>a DEF Images, Grows, NoRelease
    <2>c. idx \subseteq (1..Len(rel')) \X BuiltServices \X {"here"}
      <3>1. idx \subseteq (1..Len(rel)) \X BuiltServices \X {"here"} /\ 1..Len(rel) \subseteq 1..Len(rel')
        BY <1>1, <1>2, <2>a DEF StoreTypes, ReleasesTypeOK, Grows
      <3> QED
        BY <3>1
    <2>d. idx' \subseteq (1..Len(rel')) \X BuiltServices \X {"here"} /\ img' \subseteq Images
          /\ buildLock' \in [Trees -> Envs \cup {NoRelease}]
      BY <1>1, <1>2, <1>4, <2>b, <2>c DEF StoreTypes, ReleasesTypeOK
    <2>1. /\ StoreTypes' /\ RowsKept /\ Len(dep') = Len(dep)
          /\ n \in 1..Len(rel') /\ rel'[n] = op[e].tree
      BY <1>1, <1>2, <1>4, <2>d, RecordTypes
    <2>2. op' = [op EXCEPT ![e] = x]
      BY <1>1, <1>4 DEF Adopt, ReleaseTypes
    <2>3. n \in Nat
      BY <2>1, <2>a
    <2> HIDE DEF n
    <2>4. x \in OpSet /\ x.pc = "report" /\ x.row = op[e].row /\ x.tree = op[e].tree /\ x.rid = n /\ x.plan = op[e].plan
      BY <1>2, <2>3 DEF OpSet, OpPcs
    <2> HIDE DEF x
    <2>5. OpMoves(e) /\ op'[e] = x
      BY <1>1, <2>2, <2>4, OpBecomes
    <2>6. ~mixed => Image(op[e].tree) \subseteq img'
      BY <1>1, <1>4 DEF Owes, Missing
    <2>7. op[e].plan # "have"
      BY <1>1 DEF ReleaseInv, PlanCopies
    <2> QED
      BY <1>1, <1>4, <2>a, <2>1, <2>4, <2>5, <2>6, <2>7, ReportStep
  <1>5. ASSUME NEW part \in SUBSET op[e].gone, part # op[e].gone, Receive(e, part) PROVE ReleaseInv'
    <2>1. Undone(part) /\ mixed' = (mixed \/ Others(e)) /\ Goes(e, "build") /\ UNCHANGED <<rel, idx>>
      BY <1>5 DEF Receive
    <2> QED
      BY <1>1, <2>1, UndoneKeeps
  <1>6. ASSUME Receive(e, op[e].gone) PROVE ReleaseInv'
    <2>1. img' = img \cup op[e].gone /\ mixed' = mixed
      BY <1>6 DEF Receive
    <2>2. img \subseteq img' /\ img' \subseteq Images
      BY <1>1, <1>2, <2>1 DEF StoreTypes, ReleasesTypeOK
    <2>3. CASE op[e].rid > Len(rel)
      BY <1>3, <1>6, <2>1, <2>2, <2>3 DEF Receive
    <2>4. CASE ~(op[e].rid > Len(rel))
      BY <1>2, <1>4, <1>6, <2>1, <2>4 DEF Receive
    <2> QED
      BY <2>3, <2>4
  <1>7. CASE Goes(e, "build") /\ UNCHANGED <<rel, idx, img, mixed>>
    BY <1>1, <1>3, <1>7 DEF StoreTypes, ReleasesTypeOK
  <1> QED
    BY <1>5, <1>6, <1>7 DEF Copy

\* The index rows of the images of a tree have the tree's number.
LEMMA RecordedImages ==
    ASSUME StoreTypes, NEW e \in Envs, op[e].tree \in Trees, NEW r \in Seq(Trees), Grows(rel, r),
           op[e].tree \in TreesOf(r), RecordImages(e, r)
    PROVE  idx' \subseteq (1..Len(r)) \X BuiltServices \X {"here"}
  <1>1. Number(r, op[e].tree) \in 1..Len(r)
    BY NumberIs
  <1>2. idx \subseteq (1..Len(rel)) \X BuiltServices \X {"here"} /\ 1..Len(rel) \subseteq 1..Len(r)
    BY DEF StoreTypes, ReleasesTypeOK, Grows
  <1>3. \A i \in img \cap Image(op[e].tree) : i[2] \in BuiltServices
    BY DEF Image
  <1> DEFINE n == Number(r, op[e].tree)
  <1>4. idx' = idx \cup {<<n, i[2], "here">> : i \in img \cap Image(op[e].tree)}
    BY DEF RecordImages
  <1> HIDE DEF n
  <1> QED
    BY <1>1, <1>2, <1>3, <1>4 DEF n

LEMMA BuildStartKeeps == ASSUME ReleaseInv, NEW e \in Envs, BuildStart(e) PROVE ReleaseInv'
  <1>1. /\ op[e].pc = "build" /\ UNCHANGED <<rel, img, serves, relRuns, mixed, hub>> /\ hubRel' = hubRel
        /\ ReleaseTypes /\ StoreTypes /\ Owes(e)
    BY OwesIs DEF BuildStart, ReleaseInv, ReleaseTypes, hub
  <1>2. /\ op[e] \in OpSet /\ op[e].tree \in Trees /\ rel \in Seq(Trees) /\ Grows(rel, rel')
        /\ op[e].pc # "idle" /\ op[e].pc \notin Started /\ op[e].plan # "have"
    BY <1>1, OpIs, SameReleases DEF OpSet, StoreTypes, Owes, Started
  <1>3. CASE /\ Cached(e) /\ RecordImages(e, rel) /\ UNCHANGED <<dep, buildLock>>
             /\ op' = [op EXCEPT ![e].pc = "report", ![e].rid = Number(rel, op[e].tree)]
    <2> DEFINE n == Number(rel, op[e].tree)
               x == [op[e] EXCEPT !.pc = "report", !.rid = n]
    <2>1. op[e].tree \in TreesOf(rel) /\ Missing(op[e].tree) = {}
      BY <1>3 DEF Cached
    <2>2. n \in 1..Len(rel) /\ rel[n] = op[e].tree /\ n \in Nat
      BY <1>2, <2>1, NumberIs
    <2>3. idx' \subseteq (1..Len(rel)) \X BuiltServices \X {"here"}
      BY <1>1, <1>2, <1>3, <2>1, RecordedImages
    <2>4. StoreTypes'
      BY <1>1, <1>3, <2>3 DEF StoreTypes, ReleasesTypeOK, TreesOf, Images, hub
    <2>5. op' = [op EXCEPT ![e] = x]
      BY <1>1, <1>3 DEF ReleaseTypes
    <2> HIDE DEF n
    <2>6. x \in OpSet /\ x.pc = "report" /\ x.row = op[e].row /\ x.tree = op[e].tree /\ x.rid = n /\ x.plan = op[e].plan
      BY <1>2, <2>2 DEF OpSet, OpPcs
    <2> HIDE DEF x
    <2>7. OpMoves(e) /\ op'[e] = x
      BY <1>1, <2>5, <2>6, OpBecomes
    <2>8. RowsKept /\ Len(dep') = Len(dep) /\ Image(op[e].tree) \subseteq img'
      BY <1>1, <1>3, <2>1, SameRows DEF Missing
    <2> QED
      BY <1>1, <1>2, <2>2, <2>4, <2>6, <2>7, <2>8, ReportStep
  <1>4. CASE /\ buildLock' = [buildLock EXCEPT ![op[e].tree] = e] /\ UNCHANGED <<idx, dep>>
             /\ op' = [op EXCEPT ![e].pc = "images", ![e].gone = Image(op[e].tree)]
    <2> DEFINE g == Image(op[e].tree)
               x == [op[e] EXCEPT !.pc = "images", !.gone = g]
    <2>1. StoreTypes'
      BY <1>1, <1>4 DEF StoreTypes, ReleasesTypeOK, TreesOf, Images, hub
    <2>2. op' = [op EXCEPT ![e] = x]
      BY <1>1, <1>4 DEF ReleaseTypes
    <2>3. g \in SUBSET Images
      BY <1>2 DEF Image, Images
    <2>a. Missing(op[e].tree) \subseteq g
      BY DEF Missing
    <2> HIDE DEF g
    <2>4. /\ x \in OpSet /\ x.pc = "images" /\ x.row = op[e].row /\ x.tree = op[e].tree /\ x.gone = g
          /\ x.plan = op[e].plan
      BY <1>2, <2>3 DEF OpSet, OpPcs
    <2> HIDE DEF x
    <2>5. OpMoves(e) /\ op'[e] = x
      BY <1>1, <2>2, <2>4, OpBecomes
    <2>6. Missing(op[e].tree)' = Missing(op[e].tree)
      BY <1>1, <2>4, <2>5 DEF Missing, Image
    <2>7. Owes(e)'
      BY <1>2, <2>a, <2>4, <2>5, <2>6 DEF Owes, Started
    <2>8. RowsKept /\ Len(dep') = Len(dep) /\ op'[e].pc # "remove"
      BY <1>1, <1>4, <2>4, <2>5, SameRows
    <2> QED
      BY <1>1, <1>2, <2>1, <2>4, <2>5, <2>7, <2>8, PlainStep
  <1>5. CASE Ends(e) /\ UNCHANGED <<idx, buildLock>>
    <2>1. buildLock' \in [Trees -> Envs \cup {NoRelease}]
      BY <1>1, <1>5 DEF StoreTypes, ReleasesTypeOK
    <2> QED
      BY <1>1, <1>2, <1>5, <2>1, EndsKeeps
  <1> QED
    BY <1>3, <1>4, <1>5 DEF BuildStart

LEMMA BuildImageKeeps == ASSUME ReleaseInv, NEW e \in Envs, NEW i \in Images, BuildImage(e, i) PROVE ReleaseInv'
  <1>1. /\ op[e].pc = "images" /\ UNCHANGED <<rel, idx, serves, relRuns, mixed, hub>> /\ hubRel' = hubRel
        /\ ReleaseTypes /\ StoreTypes /\ Owes(e)
    BY OwesIs DEF BuildImage, ReleaseInv, ReleaseTypes, hub
  <1>2. /\ op[e] \in OpSet /\ op[e].tree \in Trees /\ op[e].gone \in SUBSET Images /\ Grows(rel, rel')
        /\ op[e].pc # "idle" /\ op[e].pc \notin Started /\ op[e].plan # "have"
    BY <1>1, OpIs, SameReleases DEF OpSet, Owes, Started
  <1>3. CASE img' = img \cup {i} /\ op' = [op EXCEPT ![e].gone = @ \ {i}] /\ UNCHANGED <<dep, buildLock>>
    <2> DEFINE g == op[e].gone \ {i}
               x == [op[e] EXCEPT !.gone = g]
    <2>1. StoreTypes'
      BY <1>1, <1>3 DEF StoreTypes, ReleasesTypeOK, TreesOf, Images, hub
    <2>2. op' = [op EXCEPT ![e] = x]
      BY <1>1, <1>3 DEF ReleaseTypes
    <2>3. g \in SUBSET Images
      BY <1>2
    <2>a. ~mixed => Missing(op[e].tree) \subseteq g \cup {i}
      BY <1>1 DEF Owes
    <2> HIDE DEF g
    <2>4. /\ x \in OpSet /\ x.pc = "images" /\ x.row = op[e].row /\ x.tree = op[e].tree /\ x.gone = g
          /\ x.plan = op[e].plan
      BY <1>1, <1>2, <2>3 DEF OpSet, OpPcs
    <2> HIDE DEF x
    <2>5. OpMoves(e) /\ op'[e] = x
      BY <1>1, <2>2, <2>4, OpBecomes
    <2>6. Missing(op[e].tree)' = Missing(op[e].tree) \ {i}
      BY <1>1, <1>3, <2>4, <2>5 DEF Missing, Image
    <2>b. ~mixed => Missing(op[e].tree)' \subseteq g
      BY <2>a, <2>6
    <2>7. Owes(e)'
      BY <1>1, <1>2, <2>b, <2>4, <2>5 DEF Owes, Started
    <2>8. RowsKept /\ Len(dep') = Len(dep) /\ op'[e].pc # "remove" /\ img \subseteq img'
      BY <1>1, <1>3, <2>4, <2>5, SameRows
    <2> QED
      BY <1>1, <1>2, <2>1, <2>4, <2>5, <2>7, <2>8, PlainStep
  <1>4. CASE Ends(e) /\ buildLock' = [buildLock EXCEPT ![op[e].tree] = NoRelease] /\ UNCHANGED img
    <2>1. buildLock' \in [Trees -> Envs \cup {NoRelease}]
      BY <1>1, <1>4 DEF StoreTypes, ReleasesTypeOK
    <2> QED
      BY <1>1, <1>2, <1>4, <2>1, EndsKeeps
  <1> QED
    BY <1>3, <1>4 DEF BuildImage

LEMMA BuildRecordKeeps == ASSUME ReleaseInv, NEW e \in Envs, BuildRecord(e) PROVE ReleaseInv'
  <1> DEFINE n == Number(rel', op[e].tree)
             x == [op[e] EXCEPT !.pc = "report", !.plan = "build", !.rid = n]
  <1>1. /\ op[e].pc = "images" /\ op[e].gone = {} /\ UNCHANGED <<img, dep, serves, relRuns, mixed, hub>>
        /\ hubRel' = hubRel /\ rel' = Recorded(rel, op[e].tree) /\ RecordImages(e, rel')
        /\ buildLock' = [buildLock EXCEPT ![op[e].tree] = NoRelease]
        /\ ReleaseTypes /\ StoreTypes /\ Owes(e)
    BY OwesIs DEF BuildRecord, ReleaseInv, ReleaseTypes, hub
  <1>2. /\ op[e] \in OpSet /\ op[e].tree \in Trees
    BY <1>1, OpIs DEF OpSet
  <1>3. Grows(rel, rel') /\ rel' \in Seq(Trees) /\ op[e].tree \in TreesOf(rel')
    BY <1>1, <1>2, RecordedIs DEF StoreTypes, ReleasesTypeOK, Distinct
  <1>4. /\ idx' \subseteq (1..Len(rel')) \X BuiltServices \X {"here"} /\ img' \subseteq Images
        /\ buildLock' \in [Trees -> Envs \cup {NoRelease}]
    <2>1. idx' \subseteq (1..Len(rel')) \X BuiltServices \X {"here"}
      BY <1>1, <1>2, <1>3, RecordedImages
    <2> QED
      BY <1>1, <1>2, <2>1 DEF StoreTypes, ReleasesTypeOK
  <1>5. StoreTypes' /\ RowsKept /\ Len(dep') = Len(dep) /\ n \in 1..Len(rel') /\ rel'[n] = op[e].tree
    BY <1>1, <1>2, <1>4, RecordTypes
  <1>6. op' = [op EXCEPT ![e] = x]
    BY <1>1 DEF BuildRecord, ReleaseTypes
  <1>7. n \in Nat
    BY <1>3, <1>5
  <1> HIDE DEF n
  <1>8. x \in OpSet /\ x.pc = "report" /\ x.row = op[e].row /\ x.tree = op[e].tree /\ x.rid = n /\ x.plan = "build"
    BY <1>2, <1>7 DEF OpSet, OpPcs
  <1> HIDE DEF x
  <1>9. OpMoves(e) /\ op'[e] = x
    BY <1>1, <1>6, <1>8, OpBecomes
  <1>10. ~mixed => Image(op[e].tree) \subseteq img'
    BY <1>1 DEF Owes, Missing
  <1> QED
    BY <1>1, <1>3, <1>5, <1>8, <1>9, <1>10, ReportStep

LEMMA ReportKeeps == ASSUME ReleaseInv, NEW e \in Envs, Report(e) PROVE ReleaseInv'
  <1>1. /\ op[e].pc = "report" /\ UNCHANGED <<here, mixed, hubImg>> /\ Goes(e, "record")
        /\ \/ hubRel' = Recorded(hubRel, op[e].tree) /\ hubIdx' = hubIdx \cup {<<i, "here">> : i \in Image(op[e].tree)}
           \/ hubRel' = hubRel /\ hubIdx' = hubIdx
        /\ ReleaseTypes /\ StoreTypes /\ Owes(e) /\ "record" \in OpPcs
    BY OwesIs DEF Report, ReleaseRecord, ReleaseInv, ReleaseTypes, OpPcs
  <1>2. op[e] \in OpSet /\ op[e].tree \in Trees /\ op[e].pc # "idle" /\ op[e].pc \notin Started
    BY <1>1, OpIs DEF OpSet, Started
  <1>3. /\ OpMoves(e) /\ op'[e].pc = "record" /\ op'[e].tree = op[e].tree /\ op'[e].row = op[e].row
        /\ op'[e].rid = op[e].rid /\ op'[e].plan = op[e].plan
    BY <1>1, <1>2, OpGoes
  <1>4. hubRel' \in Seq(Trees) /\ (hubRel' = <<>> => hubRel = <<>>)
    <2>1. CASE hubRel' = hubRel
      BY <1>1, <2>1 DEF StoreTypes
    <2>2. CASE hubRel' = Recorded(hubRel, op[e].tree)
      BY <1>1, <1>2, <2>2, RecordedGrows DEF StoreTypes
    <2> QED
      BY <1>1, <2>1, <2>2
  <1>5. hubIdx' \subseteq Images \X {"here", "hub"}
    BY <1>1, <1>2 DEF StoreTypes, ReleasesTypeOK, Image, Images
  <1>6. StoreTypes'
    BY <1>1, <1>4, <1>5 DEF StoreTypes, ReleasesTypeOK, TreesOf, Images, here
  <1>7. /\ Grows(rel, rel') /\ RowsKept /\ Len(dep') = Len(dep) /\ serves' = serves /\ img' = img /\ rel' = rel
        /\ mixed' = mixed /\ op'[e].pc # "remove"
    BY <1>1, <1>3, SameReleases, SameRows DEF here
  <1>8. Missing(op[e].tree)' = Missing(op[e].tree)
    BY <1>3, <1>7 DEF Missing, Image
  <1>9. Owes(e)'
    BY <1>1, <1>3, <1>4, <1>7, <1>8 DEF Owes, Started
  <1> QED
    BY <1>2, <1>3, <1>4, <1>6, <1>7, <1>9, PlainStep

-----------------------------------------------------------------------------
(* Releases: recording, promoting and pruning.                              *)

\* A number is put on the last row of an environment: its recent releases are
\* that one and some of the ones before.
NumbersRow(e, r, n) ==
    /\ r \in 1..Len(dep) /\ dep[r].env = e /\ dep[r].rid = NoRelease
    /\ \A k \in 1..Len(dep) : k > r => dep[k].env # e
    /\ Len(dep') = Len(dep) /\ dep'[r].rid = n
    /\ \A k \in 1..Len(dep) : dep'[k].env = dep[k].env /\ (k # r => dep'[k].rid = dep[k].rid)

LEMMA RecentOthers ==
    ASSUME StoreTypes, NEW e, NEW r, NEW n, NumbersRow(e, r, n), NEW o \in Envs, o # e
    PROVE  Recent(o)' = Recent(o)
  <1>1. Numbered(o)' = Numbered(o) /\ Numbered(o) \subseteq 1..Len(dep) /\ r \notin Numbered(o)
    BY DEF Numbered, NumbersRow
  <1>2. \A k \in Numbered(o) : dep'[k].rid = dep[k].rid
    BY <1>1 DEF NumbersRow
  <1>3. Newest(o)' = Newest(o) /\ Newest(o) \subseteq Numbered(o)
    BY <1>1, <1>2 DEF Newest
  <1> QED
    BY <1>2, <1>3 DEF Recent

LEMMA RecentAdds ==
    ASSUME StoreTypes, NEW e, NEW r, NEW n, NumbersRow(e, r, n), n # NoRelease
    PROVE  Recent(e)' \subseteq Recent(e) \cup {n}
  <1>0. Len(dep) \in Nat /\ r \in Nat /\ KeepReleases \in Nat
    BY ReleasesAssumption DEF StoreTypes, NumbersRow
  <1>1. /\ Numbered(e)' = Numbered(e) \cup {r} /\ Numbered(e) \subseteq 1..Len(dep)
        /\ \A k \in Numbered(e) : k < r /\ dep'[k].rid = dep[k].rid
    <2>1. Numbered(e)' = Numbered(e) \cup {r}
      BY DEF Numbered, NumbersRow
    <2>2. ASSUME NEW k \in Numbered(e) PROVE k < r /\ dep'[k].rid = dep[k].rid
      <3>1. k \in 1..Len(dep) /\ ~(k > r) /\ k # r
        BY DEF Numbered, NumbersRow
      <3> QED
        BY <1>0, <3>1 DEF NumbersRow
    <2> QED
      BY <2>1, <2>2 DEF Numbered
  <1>2. /\ Newest(e)' = {r} \cup {k \in Newest(e) : dep[k].rid # n}
        /\ Newest(e) \subseteq Numbered(e)
    <2>1. dep'[r].rid = n
      BY DEF NumbersRow
    <2>2. r \in Newest(e)'
      BY <1>0, <1>1 DEF Newest
    <2>3. ASSUME NEW k \in Numbered(e) PROVE k \in Newest(e)' <=> k \in Newest(e) /\ dep[k].rid # n
      BY <1>0, <1>1, <2>1 DEF Newest
    <2>4. Newest(e)' \subseteq Numbered(e) \cup {r} /\ Newest(e) \subseteq Numbered(e)
      BY <1>1 DEF Newest
    <2> QED
      BY <2>2, <2>3, <2>4
  <1>3. \A j, k \in Newest(e) : dep[j].rid = dep[k].rid => j = k
    <2> SUFFICES ASSUME NEW j \in Newest(e), NEW k \in Newest(e), dep[j].rid = dep[k].rid PROVE j = k
      OBVIOUS
    <2>1. j \in Nat /\ k \in Nat /\ ~(j > k) /\ ~(k > j)
      BY <1>0, <1>1, <1>2 DEF Newest
    <2> QED
      BY <2>1
  <1> SUFFICES ASSUME NEW x \in Recent(e)', x # n PROVE x \in Recent(e)
    OBVIOUS
  <1>4. PICK k \in Newest(e)' : x = dep'[k].rid /\ Cardinality({j \in Newest(e)' : j > k}) < KeepReleases
    BY DEF Recent
  <1> DEFINE A == {j \in Newest(e) : j > k}
             B == {j \in Newest(e)' : j > k}
  <1>5. k \in Newest(e) /\ k < r /\ x = dep[k].rid /\ k \in Nat
    BY <1>0, <1>1, <1>2, <1>4 DEF NumbersRow
  <1>6. r \in B /\ r \notin A /\ \A j \in A : dep[j].rid # n => j \in B
    BY <1>0, <1>1, <1>2, <1>5
  <1>7. IsFiniteSet(A) /\ IsFiniteSet(B)
    <2>1. A \subseteq 1..Len(dep) /\ B \subseteq 1..Len(dep)
      BY <1>1, <1>2 DEF NumbersRow
    <2>2. IsFiniteSet(1..Len(dep))
      BY <1>0, FS_Interval
    <2> QED
      BY <2>1, <2>2, FS_Subset
  <1>8. Cardinality(A) <= Cardinality(B)
    <2> HIDE DEF A, B
    <2>1. PICK b \in B \cup A : /\ A \subseteq (B \ {r}) \cup {b}
      <3>1. CASE \E j \in A : dep[j].rid = n
        <4>1. PICK b \in A : dep[b].rid = n
          BY <3>1
        <4>2. \A j \in A : j # b => dep[j].rid # n
          BY <1>3, <4>1 DEF A
        <4> QED
          BY <1>6, <4>1, <4>2
      <3>2. CASE ~\E j \in A : dep[j].rid = n
        BY <1>6, <3>2
      <3> QED
        BY <3>1, <3>2
    <2> DEFINE C == B \ {r}
    <2>2. IsFiniteSet(C) /\ Cardinality(C) = Cardinality(B) - 1 /\ Cardinality(B) \in Nat
      BY <1>6, <1>7, FS_RemoveElement, FS_CardinalityType
    <2> HIDE DEF C
    <2>3. IsFiniteSet(C \cup {b}) /\ (Cardinality(C \cup {b}) = Cardinality(C) \/ Cardinality(C \cup {b}) = Cardinality(C) + 1)
      BY <2>2, FS_AddElement
    <2>4. A \subseteq C \cup {b}
      BY <2>1 DEF C
    <2>5. Cardinality(A) <= Cardinality(C \cup {b}) /\ Cardinality(A) \in Nat
      BY <1>7, <2>3, <2>4, FS_Subset, FS_CardinalityType
    <2> QED
      BY <2>2, <2>3, <2>5
  <1>9. Cardinality(A) < KeepReleases
    <2>1. Cardinality(A) \in Nat /\ Cardinality(B) \in Nat
      BY <1>7, FS_CardinalityType
    <2>2. Cardinality(B) < KeepReleases
      BY <1>4
    <2> HIDE DEF A, B
    <2> QED
      BY <1>0, <1>8, <2>1, <2>2
  <1> QED
    BY <1>5, <1>9 DEF Recent

\* The release a deploy has its images of is safe to want.
LEMMA OwnImages ==
    ASSUME ReleaseInv, NEW e \in Envs, op[e].pc \in {"record", "start", "promote", "prune"}, hubRel = <<>>, ~mixed
    PROVE  op[e].rid \in 1..Len(rel) /\ Image(rel[op[e].rid]) \subseteq img
  <1>1. Owes(e)
    BY OwesIs DEF ReleaseInv
  <1>2. op[e].plan # "have" /\ Missing(op[e].tree) = {}
    BY <1>1 DEF Owes
  <1>3. op[e].rid \in 1..Len(rel) /\ rel[op[e].rid] = op[e].tree
    BY <1>1, <1>2 DEF Owes
  <1> QED
    BY <1>2, <1>3 DEF Missing

LEMMA SetReleaseKeeps == ASSUME ReleaseInv, NEW e \in Envs, SetRelease(e) PROVE ReleaseInv'
  <1> DEFINE r == op[e].row
             n == op[e].rid
             y == [dep[r] EXCEPT !.rid = n]
  <1>1. /\ op[e].pc = "record" /\ UNCHANGED <<rel, idx, img, serves, relRuns, buildLock, mixed, hub>>
        /\ hubRel' = hubRel /\ ReleaseTypes /\ StoreTypes /\ Owes(e)
    BY OwesIs DEF SetRelease, ReleaseInv, ReleaseTypes, hub
  <1>2. op[e] \in OpSet /\ op[e].pc # "idle" /\ n \in Nat /\ rel \in Seq(Trees) /\ dep \in Seq(DepSet) /\ op[e].pc \notin Started
    BY <1>1, OpIs DEF OpSet, StoreTypes, Started
  <1>3. CASE n > Len(rel)
    <2>1. Ends(e) /\ buildLock' \in [Trees -> Envs \cup {NoRelease}]
      BY <1>1, <1>3 DEF SetRelease, StoreTypes, ReleasesTypeOK
    <2> QED
      BY <1>1, <1>2, <2>1, EndsKeeps
  <1>4. CASE ~(n > Len(rel))
    <2>1. dep' = [dep EXCEPT ![r].rid = n] /\ Goes(e, "start") /\ "start" \in OpPcs /\ "start" \in Started
      BY <1>4 DEF SetRelease, OpPcs, Started
    <2>2. /\ OpMoves(e) /\ op'[e].pc = "start" /\ op'[e].tree = op[e].tree /\ op'[e].row = r
          /\ op'[e].rid = n /\ op'[e].plan = op[e].plan
      BY <1>1, <1>2, <2>1, OpGoes
    <2>3. /\ r \in 1..Len(dep) /\ dep[r].env = e /\ dep[r].rid = NoRelease
          /\ \A k \in 1..Len(dep) : k > r => dep[k].env # e
      BY <1>2 DEF ReleaseInv, OwnRow
    <2>4. dep[r] \in DepSet
      BY <1>2, <2>3
    <2>5. y \in DepSet /\ y.env = dep[r].env /\ y.rid = n /\ y.from = dep[r].from
      BY <1>2, <2>4 DEF DepSet
    <2>6. dep' = [dep EXCEPT ![r] = y]
      BY <1>2, <2>1, <2>3
    <2> HIDE DEF r, n, y
    <2>7. dep' \in Seq(DepSet) /\ Len(dep') = Len(dep) /\ dep'[r] = y /\ \A k \in 1..Len(dep) : k # r => dep'[k] = dep[k]
      BY <1>2, <2>3, <2>5, <2>6
    <2>8. NumbersRow(e, r, n)
      BY <2>3, <2>5, <2>7 DEF NumbersRow
    <2>9. \A k \in 1..Len(dep') : dep'[k].rid <= Len(rel') /\ dep'[k].from <= Len(rel')
      <3> SUFFICES ASSUME NEW k \in 1..Len(dep) PROVE dep'[k].rid <= Len(rel) /\ dep'[k].from <= Len(rel)
        BY <1>1, <2>7
      <3>1. dep[k].rid <= Len(rel) /\ dep[k].from <= Len(rel)
        BY <1>1 DEF StoreTypes, ReleasesTypeOK
      <3>2. n <= Len(rel)
        BY <1>2, <1>4
      <3> QED
        BY <2>5, <2>7, <3>1, <3>2
    <2>10. StoreTypes'
      BY <1>1, <2>7, <2>9 DEF StoreTypes, ReleasesTypeOK, TreesOf, Images, hub
    <2>11. ReleaseTypes' /\ AloneAtPrune'
      <3>1. op'[e].pc # "remove" /\ (mixed => mixed')
        BY <1>1, <2>2
      <3> QED
        BY <1>2, <2>2, <2>10, <3>1, NoPrune DEF ReleaseTypes, OpMoves
    <2>12. OwnRow'
      <3> SUFFICES ASSUME NEW o \in Envs, op'[o].pc # "idle"
                   PROVE  /\ op'[o].row \in 1..Len(dep') /\ dep'[op'[o].row].env = o
                          /\ \A k \in 1..Len(dep') : k > op'[o].row => dep'[k].env # o
                          /\ op'[o].pc \notin Started => dep'[op'[o].row].rid = NoRelease
        BY DEF OwnRow
      <3>1. CASE o = e
        BY <2>1, <2>2, <2>3, <2>8, <3>1 DEF NumbersRow
      <3>2. CASE o # e
        <4>1. op'[o] = op[o]
          BY <2>2, <3>2 DEF OpMoves
        <4>2. /\ op[o].row \in 1..Len(dep) /\ dep[op[o].row].env = o
              /\ \A k \in 1..Len(dep) : k > op[o].row => dep[k].env # o
              /\ op[o].pc \notin Started => dep[op[o].row].rid = NoRelease
          BY <4>1 DEF ReleaseInv, OwnRow
        <4>3. op[o].row # r
          BY <2>3, <3>2, <4>2
        <4> QED
          BY <2>8, <4>1, <4>2, <4>3 DEF NumbersRow
      <3> QED
        BY <3>1, <3>2
    <2>13. \A o \in Envs \ {e} : Owes(o)'
      <3>1. img \subseteq img' /\ Grows(rel, rel') /\ rel' \in Seq(Trees) /\ (mixed => mixed')
        BY <1>1, <1>2, SameReleases
      <3> QED
        BY <1>1, <1>2, <2>2, <3>1, OthersOwe
    <2>14. Owes(e)'
      <3>1. Missing(op[e].tree)' = Missing(op[e].tree)
        BY <1>1, <2>2 DEF Missing, Image
      <3>2. n <= Len(rel) /\ n = op[e].rid
        BY <1>2, <1>4 DEF n
      <3> QED
        BY <1>1, <2>1, <2>2, <3>1, <3>2 DEF Owes
    <2>15. Supplied' /\ NumberedHere' /\ PlanCopies' /\ HubSilent'
      BY <2>13, <2>14 DEF Supplied, NumberedHere, PlanCopies, HubSilent, Owes
    <2>16. WantedKept'
      <3> SUFFICES ASSUME hubRel' = <<>>, ~mixed', NEW o \in Envs, NEW i \in Wanted(o)' PROVE Image(rel'[i]) \subseteq img'
        BY DEF WantedKept, Image
      <3>1. hubRel = <<>> /\ ~mixed
        BY <1>1
      <3>2. op[e].rid \in 1..Len(rel) /\ Image(rel[op[e].rid]) \subseteq img
        BY <1>1, <3>1, OwnImages
      <3>3. CASE i \in Wanted(o)
        BY <1>1, <3>1, <3>3 DEF ReleaseInv, WantedKept
      <3>4. CASE i \notin Wanted(o)
        <4>1. i \in Recent(o)' /\ i \notin Recent(o)
          BY <1>1, <3>4 DEF Wanted
        <4>2. o = e
          BY <1>1, <2>8, <4>1, RecentOthers
        <4>3. n = op[e].rid
          BY DEF n
        <4>4. i = n
          <5>1. n # NoRelease
            BY <1>2, <3>2, <4>3 DEF NoRelease
          <5> QED
            BY <1>1, <2>8, <4>1, <4>2, <5>1, RecentAdds
        <4> QED
          BY <1>1, <3>2, <4>3, <4>4
      <3> QED
        BY <3>3, <3>4
    <2> QED
      BY <2>11, <2>12, <2>15, <2>16 DEF ReleaseInv
  <1> QED
    BY <1>3, <1>4

LEMMA StartKeeps == ASSUME ReleaseInv, NEW e \in Envs, Start(e) PROVE ReleaseInv'
  <1>1. /\ op[e].pc = "start" /\ UNCHANGED <<rel, idx, img, serves, buildLock, mixed, hub>> /\ hubRel' = hubRel
        /\ ReleaseTypes /\ StoreTypes /\ Owes(e)
    BY OwesIs DEF Start, ReleaseInv, ReleaseTypes, hub
  <1>2. op[e] \in OpSet /\ op[e].tree \in Trees /\ op[e].pc # "idle" /\ "promote" \in OpPcs /\ "promote" \in Started
    BY <1>1, OpIs DEF OpSet, OpPcs, Started
  <1>3. CASE relRuns' = [relRuns EXCEPT ![e] = @ \cup {op[e].tree}] /\ Goes(e, "promote") /\ dep' = dep
    <2>1. /\ OpMoves(e) /\ op'[e].pc = "promote" /\ op'[e].tree = op[e].tree /\ op'[e].row = op[e].row
          /\ op'[e].rid = op[e].rid /\ op'[e].plan = op[e].plan
      BY <1>1, <1>2, <1>3, OpGoes
    <2>2. relRuns' \in [Envs -> SUBSET Trees]
      BY <1>1, <1>2, <1>3 DEF StoreTypes, ReleasesTypeOK
    <2>3. StoreTypes'
      BY <1>1, <1>3, <2>2 DEF StoreTypes, ReleasesTypeOK, TreesOf, Images, hub
    <2>4. Grows(rel, rel') /\ RowsKept /\ Len(dep') = Len(dep) /\ op'[e].pc # "remove" /\ img \subseteq img'
      BY <1>1, <1>3, <2>1, SameReleases, SameRows
    <2>5. Missing(op[e].tree)' = Missing(op[e].tree)
      BY <1>1, <2>1 DEF Missing, Image
    <2>6. Owes(e)'
      BY <1>1, <2>1, <2>5 DEF Owes, Started
    <2> QED
      BY <1>1, <1>2, <2>1, <2>3, <2>4, <2>6, PlainStep
  <1>4. CASE Ends(e) /\ UNCHANGED relRuns
    <2>1. buildLock' \in [Trees -> Envs \cup {NoRelease}]
      BY <1>1 DEF StoreTypes, ReleasesTypeOK
    <2> QED
      BY <1>1, <1>2, <1>4, <2>1, EndsKeeps
  <1> QED
    BY <1>3, <1>4 DEF Start

LEMMA PromoteKeeps == ASSUME ReleaseInv, NEW e \in Envs, Promote(e) PROVE ReleaseInv'
  <1>1. /\ op[e].pc = "promote" /\ UNCHANGED <<rel, idx, img, dep, buildLock, mixed, hub>> /\ hubRel' = hubRel
        /\ relRuns' = [relRuns EXCEPT ![e] = {op[e].tree}] /\ serves' = [serves EXCEPT ![e] = op[e].rid]
        /\ Goes(e, "prune") /\ ReleaseTypes /\ StoreTypes /\ Owes(e)
    BY OwesIs DEF Promote, ReleaseInv, ReleaseTypes, hub
  <1>2. /\ op[e] \in OpSet /\ op[e].tree \in Trees /\ op[e].rid \in 0..Len(rel) /\ op[e].pc # "idle" /\ rel \in Seq(Trees)
        /\ "prune" \in OpPcs /\ "prune" \in Started
    <2>1. op[e] \in OpSet /\ op[e].rid <= Len(rel) /\ rel \in Seq(Trees)
      BY <1>1, OpIs DEF Owes, Started, StoreTypes
    <2> QED
      BY <1>1, <2>1 DEF OpSet, OpPcs, Started
  <1>3. /\ OpMoves(e) /\ op'[e].pc = "prune" /\ op'[e].tree = op[e].tree /\ op'[e].row = op[e].row
        /\ op'[e].rid = op[e].rid /\ op'[e].plan = op[e].plan
    BY <1>1, <1>2, OpGoes
  <1>4. serves' \in [Envs -> 0..Len(rel')] /\ relRuns' \in [Envs -> SUBSET Trees]
    BY <1>1, <1>2 DEF StoreTypes, ReleasesTypeOK
  <1>5. StoreTypes'
    BY <1>1, <1>4 DEF StoreTypes, ReleasesTypeOK, TreesOf, Images, hub
  <1>6. /\ Grows(rel, rel') /\ RowsKept /\ Len(dep') = Len(dep) /\ op'[e].pc # "remove" /\ img \subseteq img'
        /\ (mixed => mixed') /\ rel' \in Seq(Trees)
    BY <1>1, <1>2, <1>3, SameReleases, SameRows
  <1>7. Missing(op[e].tree)' = Missing(op[e].tree)
    BY <1>1, <1>3 DEF Missing, Image
  <1>8. Owes(e)'
    BY <1>1, <1>3, <1>7 DEF Owes, Started
  <1>9. \A o \in Envs \ {e} : Owes(o)'
    BY <1>1, <1>2, <1>3, <1>6, OthersOwe
  <1>10. Supplied' /\ NumberedHere' /\ PlanCopies' /\ HubSilent'
    BY <1>8, <1>9 DEF Supplied, NumberedHere, PlanCopies, HubSilent, Owes
  <1>11. WantedKept'
    <2> SUFFICES ASSUME hubRel' = <<>>, ~mixed', NEW o \in Envs, NEW i \in Wanted(o)' PROVE Image(rel'[i]) \subseteq img'
      BY DEF WantedKept, Image
    <2>1. hubRel = <<>> /\ ~mixed
      BY <1>1
    <2>2. Image(rel[op[e].rid]) \subseteq img
      BY <1>1, <2>1, OwnImages
    <2>3. Recent(o)' = Recent(o)
      BY <1>1, <1>5, <1>6, RecentKept
    <2>4. i \in Wanted(o) \/ i = op[e].rid
      BY <1>1, <2>3 DEF Wanted, StoreTypes, ReleasesTypeOK
    <2> QED
      BY <1>1, <2>1, <2>2, <2>4 DEF ReleaseInv, WantedKept
  <1>12. ReleaseTypes' /\ OwnRow' /\ AloneAtPrune'
    BY <1>2, <1>3, <1>5, <1>6, RowsStay, NoPrune DEF ReleaseTypes, OpMoves
  <1> QED
    BY <1>10, <1>11, <1>12 DEF ReleaseInv

\* Trees have images of their own.
LEMMA ImagesApart ==
    ASSUME StoreTypes, NEW i \in 1..Len(rel), NEW j \in 1..Len(rel), Image(rel[i]) \cap Image(rel[j]) # {}
    PROVE  i = j
  <1>1. rel[i] = rel[j]
    BY DEF Image
  <1> QED
    BY <1>1 DEF StoreTypes, ReleasesTypeOK

LEMMA PruneReadKeeps == ASSUME ReleaseInv, NEW e \in Envs, PruneRead(e) PROVE ReleaseInv'
  <1> DEFINE g == Removable(e)
             x == [op[e] EXCEPT !.pc = "remove", !.gone = g]
  <1>1. /\ op[e].pc = "prune" /\ UNCHANGED <<here, hub>> /\ hubRel' = hubRel /\ img' = img /\ rel' = rel
        /\ dep' = dep /\ serves' = serves /\ mixed' = (mixed \/ Others(e))
        /\ ReleaseTypes /\ StoreTypes /\ Owes(e) /\ mixed' \in BOOLEAN
    BY OwesIs DEF PruneRead, ReleaseInv, ReleaseTypes, StoreTypes, hub, here
  <1>2. op[e] \in OpSet /\ op[e].pc # "idle" /\ rel \in Seq(Trees)
    BY <1>1, OpIs DEF StoreTypes
  <1>3. g \in SUBSET Images
    BY <1>2 DEF Removable, Image, Images
  <1>4. op' = [op EXCEPT ![e] = x]
    BY <1>1 DEF PruneRead, ReleaseTypes
  <1>a. \A o \in Envs : \A i \in Wanted(o) : g \cap Image(rel[i]) = {}
    <2> SUFFICES ASSUME NEW o \in Envs, NEW i \in Wanted(o), g \cap Image(rel[i]) # {} PROVE FALSE
      OBVIOUS
    <2>1. i \in 1..Len(rel) /\ i \in Keepers(e)
      BY <1>1, WantedNumbers DEF Wanted, Keepers
    <2>2. PICK j \in (1..Len(rel)) \ Keepers(e) : Image(rel[j]) \cap Image(rel[i]) # {}
      BY DEF Removable
    <2>3. i = j
      BY <1>1, <2>1, <2>2, ImagesApart
    <2> QED
      BY <2>1, <2>2, <2>3
  <1> HIDE DEF g
  <1>5. /\ x \in OpSet /\ x.pc = "remove" /\ x.row = op[e].row /\ x.tree = op[e].tree /\ x.rid = op[e].rid
        /\ x.plan = op[e].plan /\ x.gone = g
    BY <1>2, <1>3 DEF OpSet, OpPcs
  <1> HIDE DEF x
  <1>6. OpMoves(e) /\ op'[e] = x
    BY <1>1, <1>4, <1>5, OpBecomes
  <1>7. StoreTypes' /\ Grows(rel, rel') /\ RowsKept /\ Len(dep') = Len(dep)
    BY <1>1, StoreKept, SameReleases, SameRows
  <1>8. Owes(e)'
    BY <1>1, <1>5, <1>6 DEF Owes, Started
  <1>9. \A o \in Envs \ {e} : Owes(o)'
    BY <1>1, <1>2, <1>6, <1>7, OthersOwe
  <1>10. Supplied' /\ NumberedHere' /\ PlanCopies' /\ HubSilent'
    BY <1>8, <1>9 DEF Supplied, NumberedHere, PlanCopies, HubSilent, Owes
  <1>11. WantedKept'
    BY <1>1, <1>7, WantedStays
  <1>12. OwnRow' /\ ReleaseTypes'
    <2>1. op'[e].pc \in Started
      BY <1>5, <1>6 DEF Started
    <2> QED
      BY <1>2, <1>5, <1>6, <1>7, <2>1, RowsStay DEF ReleaseTypes, OpMoves
  <1>13. AloneAtPrune'
    <2> SUFFICES ASSUME ~mixed', NEW o \in Envs, op'[o].pc = "remove"
                 PROVE  /\ \A p \in Envs \ {o} : op'[p] = NotDeploying
                        /\ \A p \in Envs : \A i \in Wanted(p)' : op'[o].gone \cap Image(rel'[i]) = {}
      BY DEF AloneAtPrune, Image
    <2>1. \A p \in Envs \ {e} : op'[p] = NotDeploying
      BY <1>1, <1>6 DEF Others, OpMoves
    <2>2. o = e
      BY <2>1 DEF NotDeploying
    <2>3. \A p \in Envs : Wanted(p)' = Wanted(p)
      BY <1>1, <1>7, RecentKept DEF Wanted
    <2> QED
      BY <1>1, <1>a, <1>5, <1>6, <2>1, <2>2, <2>3
  <1> QED
    BY <1>10, <1>11, <1>12, <1>13 DEF ReleaseInv

LEMMA PruneRemoveKeeps == ASSUME ReleaseInv, NEW e \in Envs, NEW i \in Images, PruneRemove(e, i) PROVE ReleaseInv'
  <1>1. PICK g \in SUBSET op[e].gone :
          /\ op' = [op EXCEPT ![e].gone = g]
          /\ img' = img \/ img' = img \ {i}
    BY DEF PruneRemove
  <1>2. /\ op[e].pc = "remove" /\ i \in op[e].gone /\ UNCHANGED <<rel, idx, dep, serves, relRuns, buildLock, mixed, hub>>
        /\ hubRel' = hubRel /\ ReleaseTypes /\ StoreTypes /\ Owes(e)
    BY OwesIs DEF PruneRemove, ReleaseInv, ReleaseTypes, hub
  <1> DEFINE x == [op[e] EXCEPT !.gone = g]
  <1>3. op[e] \in OpSet /\ op[e].pc # "idle" /\ rel \in Seq(Trees) /\ op[e].pc \in Started
    BY <1>2, OpIs DEF StoreTypes, Started
  <1>4. g \in SUBSET Images
    BY <1>3 DEF OpSet
  <1>5. op' = [op EXCEPT ![e] = x]
    BY <1>1, <1>2 DEF ReleaseTypes
  <1>6. /\ x \in OpSet /\ x.pc = "remove" /\ x.row = op[e].row /\ x.tree = op[e].tree /\ x.rid = op[e].rid
        /\ x.plan = op[e].plan /\ x.gone = g
    BY <1>2, <1>3, <1>4 DEF OpSet, OpPcs
  <1> HIDE DEF x
  <1>7. OpMoves(e) /\ op'[e] = x
    BY <1>2, <1>5, <1>6, OpBecomes
  <1>8. StoreTypes'
    BY <1>1, <1>2 DEF StoreTypes, ReleasesTypeOK, TreesOf, Images, hub
  <1>9. Grows(rel, rel') /\ RowsKept /\ Len(dep') = Len(dep)
    BY <1>2, SameReleases, SameRows
  <1>10. Owes(e)'
    BY <1>2, <1>6, <1>7 DEF Owes, Started
  <1>11. ~mixed => /\ \A o \in Envs \ {e} : op[o] = NotDeploying
                  /\ \A o \in Envs : \A j \in Wanted(o) : op[e].gone \cap Image(rel[j]) = {}
    BY <1>2 DEF ReleaseInv, AloneAtPrune
  <1>12. \A o \in Envs \ {e} : Owes(o)'
    <2>1. CASE mixed'
      BY <1>2, <1>3, <1>7, <1>9, <2>1, OthersOwe
    <2>2. CASE ~mixed'
      <3>1. \A o \in Envs \ {e} : op'[o] = NotDeploying
        BY <1>2, <1>7, <1>11, <2>2 DEF OpMoves
      <3> QED
        BY <3>1, IdleOwes
    <2> QED
      BY <2>1, <2>2
  <1>13. Supplied' /\ NumberedHere' /\ PlanCopies' /\ HubSilent'
    BY <1>10, <1>12 DEF Supplied, NumberedHere, PlanCopies, HubSilent, Owes
  <1>14. \A o \in Envs : Wanted(o)' = Wanted(o)
    BY <1>2, <1>8, <1>9, RecentKept DEF Wanted
  <1>15. WantedKept'
    <2> SUFFICES ASSUME hubRel' = <<>>, ~mixed', NEW o \in Envs, NEW j \in Wanted(o)' PROVE Image(rel'[j]) \subseteq img'
      BY DEF WantedKept, Image
    <2>1. Image(rel[j]) \subseteq img /\ i \notin Image(rel[j])
      BY <1>2, <1>11, <1>14 DEF ReleaseInv, WantedKept
    <2> QED
      BY <1>1, <1>2, <2>1
  <1>16. AloneAtPrune'
    <2> SUFFICES ASSUME ~mixed', NEW o \in Envs, op'[o].pc = "remove"
                 PROVE  /\ \A p \in Envs \ {o} : op'[p] = NotDeploying
                        /\ \A p \in Envs : \A j \in Wanted(p)' : op'[o].gone \cap Image(rel'[j]) = {}
      BY DEF AloneAtPrune, Image
    <2>1. \A p \in Envs \ {e} : op'[p] = NotDeploying
      BY <1>2, <1>7, <1>11 DEF OpMoves
    <2>2. o = e
      BY <2>1 DEF NotDeploying
    <2> QED
      BY <1>1, <1>2, <1>6, <1>7, <1>11, <1>14, <2>1, <2>2
  <1>17. OwnRow' /\ ReleaseTypes'
    BY <1>2, <1>3, <1>6, <1>7, <1>8, <1>9, RowsStay DEF ReleaseTypes, OpMoves
  <1> QED
    BY <1>13, <1>15, <1>16, <1>17 DEF ReleaseInv

LEMMA FinishKeeps == ASSUME ReleaseInv, NEW e \in Envs, Finish(e) PROVE ReleaseInv'
  <1>1. /\ op[e].pc # "idle" /\ Ends(e) /\ UNCHANGED <<rel, idx, img, serves, relRuns, mixed, hub>>
        /\ buildLock' \in [Trees -> Envs \cup {NoRelease}]
    BY DEF Finish, ReleaseInv, ReleaseTypes, StoreTypes, ReleasesTypeOK
  <1> QED
    BY <1>1, EndsKeeps

LEMMA DeployKeeps ==
    ASSUME ReleaseInv, NEW e \in Envs, NEW t \in Trees, NEW force \in BOOLEAN, Deploy(e, t, force)
    PROVE  ReleaseInv'
  <1> DEFINE pc == IF Member /\ ~force THEN "lookup" ELSE "build"
             d == [env |-> e, rid |-> NoRelease, from |-> serves[e], open |-> TRUE]
             x == [pc |-> pc, tree |-> t, force |-> force, row |-> Len(dep) + 1, rid |-> NoRelease,
                   plan |-> "build", known |-> {}, gone |-> {}]
  <1>1. /\ op[e] = NotDeploying /\ UNCHANGED <<rel, idx, img, serves, relRuns, buildLock, hub>> /\ hubRel' = hubRel
        /\ dep' = Append(dep, d) /\ op' = [op EXCEPT ![e] = x] /\ mixed' = (mixed \/ \E o \in Envs : op[o].pc = "remove")
        /\ ReleaseTypes /\ StoreTypes /\ mixed' \in BOOLEAN /\ dep \in Seq(DepSet) /\ rel \in Seq(Trees)
        /\ serves[e] \in 0..Len(rel)
    BY DEF Deploy, ReleaseInv, ReleaseTypes, StoreTypes, ReleasesTypeOK, hub
  <1>2. pc \in {"lookup", "build"}
    OBVIOUS
  <1> HIDE DEF pc
  <1>3. /\ x \in OpSet /\ x.pc = pc /\ x.row = Len(dep) + 1 /\ x.plan = "build"
    BY <1>1, <1>2 DEF OpSet, OpPcs, NoRelease
  <1>4. d \in DepSet /\ d.env = e /\ d.rid = NoRelease /\ d.from <= Len(rel) /\ d.rid <= Len(rel)
    BY <1>1 DEF DepSet, NoRelease
  <1> HIDE DEF x, d
  <1>5. OpMoves(e) /\ op'[e] = x
    BY <1>1, <1>3, OpBecomes
  <1>6. dep' \in Seq(DepSet) /\ Len(dep') = Len(dep) + 1 /\ dep'[Len(dep) + 1] = d /\ \A k \in 1..Len(dep) : dep'[k] = dep[k]
    BY <1>1, <1>4
  <1>7. Len(dep) \in Nat /\ \A k \in 1..Len(dep') : k \in 1..Len(dep) \/ k = Len(dep) + 1
    BY <1>1, <1>6
  <1>8. \A k \in 1..Len(dep') : dep'[k].rid <= Len(rel') /\ dep'[k].from <= Len(rel')
    BY <1>1, <1>4, <1>6, <1>7 DEF StoreTypes, ReleasesTypeOK
  <1>9. StoreTypes'
    BY <1>1, <1>6, <1>8 DEF StoreTypes, ReleasesTypeOK, TreesOf, Images, hub
  <1>10. RowsKept /\ Grows(rel, rel')
    BY <1>1, <1>4, <1>6, <1>7, SameReleases DEF RowsKept
  <1>11. Owes(e)'
    BY <1>2, <1>3, <1>5 DEF Owes, Started
  <1>12. \A o \in Envs \ {e} : Owes(o)'
    BY <1>1, <1>5, <1>10, OthersOwe
  <1>13. Supplied' /\ NumberedHere' /\ PlanCopies' /\ HubSilent'
    BY <1>11, <1>12 DEF Supplied, NumberedHere, PlanCopies, HubSilent, Owes
  <1>14. WantedKept'
    BY <1>1, <1>9, <1>10, WantedStays
  <1>15. AloneAtPrune'
    <2> SUFFICES ASSUME ~mixed', NEW o \in Envs, op'[o].pc = "remove" PROVE FALSE
      BY DEF AloneAtPrune
    <2> QED
      BY <1>1, <1>2, <1>3, <1>5 DEF OpMoves
  <1>16. OwnRow'
    <2> SUFFICES ASSUME NEW o \in Envs, op'[o].pc # "idle"
                 PROVE  /\ op'[o].row \in 1..Len(dep') /\ dep'[op'[o].row].env = o
                        /\ \A k \in 1..Len(dep') : k > op'[o].row => dep'[k].env # o
                        /\ op'[o].pc \notin Started => dep'[op'[o].row].rid = NoRelease
      BY DEF OwnRow
    <2>1. CASE o = e
      BY <1>3, <1>4, <1>5, <1>6, <1>7, <2>1
    <2>2. CASE o # e
      <3>1. op'[o] = op[o]
        BY <1>5, <2>2 DEF OpMoves
      <3>2. /\ op[o].row \in 1..Len(dep) /\ dep[op[o].row].env = o
            /\ \A k \in 1..Len(dep) : k > op[o].row => dep[k].env # o
            /\ op[o].pc \notin Started => dep[op[o].row].rid = NoRelease
        BY <3>1 DEF ReleaseInv, OwnRow
      <3> QED
        BY <1>4, <1>6, <1>7, <2>2, <3>1, <3>2
    <2> QED
      BY <2>1, <2>2
  <1>17. ReleaseTypes'
    BY <1>5, <1>9 DEF ReleaseTypes, OpMoves
  <1> QED
    BY <1>13, <1>14, <1>15, <1>16, <1>17 DEF ReleaseInv

\* What the hub does, nothing here depends on.
LEMMA HubKeeps ==
    ASSUME ReleaseInv, UNCHANGED <<here, op, mixed>>, hubRel' \in Seq(Trees), hubRel' = <<>> => hubRel = <<>>,
           hubIdx' \subseteq Images \X {"here", "hub"}, hubImg' \subseteq Images
    PROVE  ReleaseInv'
  <1>1. StoreTypes /\ ReleaseTypes
    BY DEF ReleaseInv, ReleaseTypes
  <1>2. StoreTypes'
    BY <1>1 DEF StoreTypes, ReleasesTypeOK, TreesOf, Images, here
  <1>3. ReleaseTypes'
    BY <1>1, <1>2 DEF ReleaseTypes
  <1>4. img' = img /\ rel' = rel /\ dep' = dep /\ serves' = serves /\ op' = op /\ mixed' = mixed
    BY DEF here
  <1>5. \A o \in Envs : Wanted(o)' = Wanted(o)
    BY <1>4 DEF Wanted, Recent, Newest, Numbered
  <1>6. Supplied' /\ NumberedHere' /\ PlanCopies' /\ HubSilent'
    BY <1>4 DEF ReleaseInv, Supplied, NumberedHere, PlanCopies, HubSilent, Missing, Image
  <1>7. OwnRow'
    BY <1>4 DEF ReleaseInv, OwnRow
  <1>8. WantedKept' /\ AloneAtPrune'
    BY <1>4, <1>5 DEF ReleaseInv, WantedKept, AloneAtPrune, Image
  <1> QED
    BY <1>3, <1>6, <1>7, <1>8 DEF ReleaseInv

LEMMA HubStepKeeps == ASSUME ReleaseInv, NEW t \in Trees, HubBuilds(t) \/ HubPrunes(t) PROVE ReleaseInv'
  <1>1. hubRel \in Seq(Trees) /\ hubIdx \subseteq Images \X {"here", "hub"} /\ hubImg \subseteq Images
        /\ Image(t) \subseteq Images
    BY DEF ReleaseInv, ReleaseTypes, StoreTypes, ReleasesTypeOK, Image, Images
  <1>2. CASE HubBuilds(t)
    <2>1. hubRel' \in Seq(Trees) /\ (hubRel' = <<>> => hubRel = <<>>)
      BY <1>1, <1>2, RecordedGrows DEF HubBuilds
    <2>2. UNCHANGED <<here, op, mixed>> /\ hubIdx' \subseteq Images \X {"here", "hub"} /\ hubImg' \subseteq Images
      BY <1>1, <1>2 DEF HubBuilds
    <2> QED
      BY <2>1, <2>2, HubKeeps
  <1>3. CASE HubPrunes(t)
    BY <1>1, <1>3, HubKeeps DEF HubPrunes
  <1> QED
    BY <1>2, <1>3

-----------------------------------------------------------------------------
LEMMA ReleasesStart == ReleasesInit => ReleaseInv
  <1> SUFFICES ASSUME ReleasesInit PROVE ReleaseInv
    OBVIOUS
  <1>1. /\ rel = <<>> /\ dep = <<>> /\ hubRel = <<>> /\ img = {} /\ idx = {} /\ hubIdx = {} /\ hubImg = {}
        /\ mixed = FALSE /\ \A e \in Envs : op[e].pc = "idle" /\ serves[e] = NoRelease
        /\ op \in [Envs -> {NotDeploying}]
    BY DEF ReleasesInit, NotDeploying
  <1>2. StoreTypes
    <2>1. Len(rel) = 0 /\ Len(dep) = 0 /\ rel \in Seq(Trees) /\ hubRel \in Seq(Trees) /\ dep \in Seq(DepSet)
      BY <1>1
    <2>2. TreesOf(rel) = {} /\ 1..Len(rel) = {} /\ 1..Len(dep) = {}
      BY <2>1 DEF TreesOf
    <2>3. serves \in [Envs -> 0..Len(rel)]
      BY <2>1 DEF ReleasesInit, NoRelease
    <2>4. relRuns \in [Envs -> SUBSET Trees] /\ buildLock \in [Trees -> Envs \cup {NoRelease}]
      BY DEF ReleasesInit
    <2>5. ReleasesTypeOK
      BY <1>1, <2>2, <2>3, <2>4 DEF ReleasesTypeOK
    <2> QED
      BY <1>1, <2>1, <2>5 DEF StoreTypes
  <1>3. ReleaseTypes
    BY <1>1, <1>2 DEF ReleaseTypes
  <1>4. OwnRow /\ Supplied /\ NumberedHere /\ PlanCopies /\ HubSilent /\ AloneAtPrune
    BY <1>1 DEF OwnRow, Supplied, NumberedHere, PlanCopies, HubSilent, AloneAtPrune, Started
  <1>5. WantedKept
    <2>1. \A e \in Envs : Wanted(e) = {}
      BY <1>1 DEF Wanted, Recent, Newest, Numbered
    <2> QED
      BY <2>1 DEF WantedKept
  <1> QED
    BY <1>3, <1>4, <1>5 DEF ReleaseInv

LEMMA ReleasesSteady == ReleaseInv /\ [ReleasesNext]_releaseVars => ReleaseInv'
  <1> SUFFICES ASSUME ReleaseInv, [ReleasesNext]_releaseVars PROVE ReleaseInv'
    OBVIOUS
  <1>1. CASE UNCHANGED releaseVars
    <2>1. UNCHANGED <<here, op, mixed>> /\ hubRel' = hubRel /\ hubIdx' = hubIdx /\ hubImg' = hubImg
      BY <1>1 DEF releaseVars, hub
    <2> QED
      BY <2>1, HubKeeps DEF ReleaseInv, ReleaseTypes, StoreTypes, ReleasesTypeOK
  <1>2. ASSUME NEW e \in Envs, DeployStep(e) PROVE ReleaseInv'
    BY <1>2, LookupKeeps, PlanKeeps, CopyKeeps, BuildStartKeeps, BuildRecordKeeps, ReportKeeps, SetReleaseKeeps,
       StartKeeps, PromoteKeeps, PruneReadKeeps, FinishKeeps, BuildImageKeeps, PruneRemoveKeeps DEF DeployStep
  <1>3. ASSUME NEW e \in Envs, NEW t \in Trees, NEW f \in BOOLEAN, Deploy(e, t, f) PROVE ReleaseInv'
    BY <1>3, DeployKeeps
  <1>4. ASSUME NEW t \in Trees, HubBuilds(t) \/ HubPrunes(t) PROVE ReleaseInv'
    BY <1>4, HubStepKeeps
  <1> QED
    BY <1>1, <1>2, <1>3, <1>4 DEF ReleasesNext

LEMMA ReleaseInvGives == ReleaseInv => ReleasesDelivered
  <1> SUFFICES ASSUME ReleaseInv PROVE ReleasesDelivered
    OBVIOUS
  <1>1. ReleasesTypeOK
    BY DEF ReleaseInv, ReleaseTypes, StoreTypes
  <1>2. EnsureDelivers
    BY DEF ReleaseInv, Supplied, EnsureDelivers
  <1>3. RowIsTree
    BY DEF ReleaseInv, NumberedHere, RowIsTree
  <1>4. hubRel = <<>> => KeptForRollback
    BY DEF ReleaseInv, WantedKept, Wanted, KeptForRollback
  <1> QED
    BY <1>1, <1>2, <1>3, <1>4 DEF ReleasesDelivered

\* For any environments, trees and services, any deploy.keep, and any builds,
\* copies and prunes at once: a deploy that comes to its start has every image of
\* its tree unless a prune or an undo ran beside it (Supply.Ensure), its row has
\* the number this machine gave the tree when it was built or copied here
\* (adoptRelease, record), and while the hub has told no number, the prunes leave
\* the images of what every environment serves and of its latest releases
\* (Docker.Prune, keepers).
THEOREM ReleasesAlwaysDelivered == ReleasesSpec => []ReleasesDelivered
  <1>1. ReleasesInit /\ [][ReleasesNext]_releaseVars => []ReleaseInv
    BY ReleasesStart, ReleasesSteady, PTL
  <1> QED
    BY <1>1, ReleaseInvGives, PTL DEF ReleasesSpec
=============================================================================
