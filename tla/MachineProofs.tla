---------------------------- MODULE MachineProofs ---------------------------
(***************************************************************************)
(* What a machine keeps across commands, stops and deaths: proofs about    *)
(* Keys, Daemon and Certs, for any number of sessions, names, reports and  *)
(* prunes, any failures and any crashes; and what is read of its Firewall, *)
(* for any ports and rules.                                                *)
(*                                                                         *)
(* Keys.  That no name and no key is in the file twice holds whatever      *)
(* overlaps: every list a session goes to write was checked against the    *)
(* file it read (Distinct).  What the answers promise is kept only by a    *)
(* session that is alone from its read to its answer, so the invariant     *)
(* follows that one session through its steps (Stage).                     *)
(*                                                                         *)
(* Daemon.  A command that runs on without its connection was left by its  *)
(* client, or cut by the deadline (SessionsEnd); the import is counted by  *)
(* its place: the rows behind it are recorded, and without a cut no other  *)
(* row of a report that is not marked is (Imports, Once).                  *)
(*                                                                         *)
(* Certs.  The locks held are counted one by one (Locks), so a stop that   *)
(* waited finds no write in progress and a write is never refused half-way *)
(* (Writing); a root once stored is never made again (OneRoot); and what a *)
(* prune removed is older than what is stored, or nothing is (Removed).    *)
(*                                                                         *)
(* Firewall.  Each reader is compared with the filter, rule by rule: for   *)
(* ufw the rule that decides is the first that applies; the other three    *)
(* call a port open only if no rule and no policy can stop it.  The rules  *)
(* beyond the operator's are counted by the ports they open (FwInv).       *)
(***************************************************************************)
EXTENDS Keys, Daemon, Certs, Firewall, FiniteSetTheorems,
        WellFoundedInduction, TLAPS

-----------------------------------------------------------------------------
(* The keys. *)

KeyPcs == {"idle", "write", "rename", "row", "undo", "undowrite", "undorename"}
KeyCommand == [pc : KeyPcs, op : {"add", "remove"}, entry : Entry, list : SUBSET Entry]

Types ==
    /\ SeededKey \in Entry
    /\ authFile \subseteq Entry /\ keyRows \subseteq Entry /\ keyExpected \subseteq Entry
    /\ keyTmp = NoTmp \/ \E entries \in SUBSET Entry : keyTmp = Tmp(entries)
    /\ kc \in [KeyCommands -> KeyCommand]
    /\ keyRaced \in BOOLEAN /\ rowKept \in BOOLEAN

\* No name and no fingerprint twice.
OneEach(entries) == \A x, y \in entries : (x.name = y.name \/ x.print = y.print) => x = y

Distinct ==
    /\ OneEach(authFile)
    /\ ~keyTmp.missing => OneEach(keyTmp.holds)
    /\ \A c \in KeyCommands : OneEach(kc[c].list)

\* What the file holds once the command is done.
Promised(k) == IF k.op = "add" THEN keyExpected \cup {k.entry} ELSE keyExpected \ {k.entry}

\* How far the one session has come.
Stage(k) ==
    /\ IF k.op = "add" THEN ~Clashes(keyExpected, k.entry) ELSE k.entry \in keyExpected
    /\ k.pc \in {"write", "rename"} => authFile = keyExpected /\ k.list = Promised(k)
    /\ k.pc \in {"row", "undo"} => authFile = Promised(k)
    /\ k.pc \in {"undowrite", "undorename"} => k.list = keyExpected
    /\ k.pc \in {"undo", "undowrite", "undorename"} => k.op = "add"
    /\ k.pc \in {"rename", "undorename"} => keyTmp = Tmp(k.list)

Alone ==
    ~keyRaced =>
        /\ \A c, d \in KeyCommands : Busy(c) /\ Busy(d) => c = d
        /\ KeysQuiet => authFile = keyExpected
        /\ \A c \in KeyCommands : Busy(c) => Stage(kc[c])
        /\ OneEach(keyExpected)
        /\ ~rowKept => keyRows \subseteq keyExpected

KeysInv == Types /\ Distinct /\ Alone

USE DEF Entry, KeyPcs

LEMMA KeysInitially ==
    ASSUME Seeded, KeysInit
    PROVE  KeysInv
  <1>1. NoCommand \in KeyCommand
    BY DEF Seeded, NoCommand, KeyCommand
  <1>2. Types
    BY <1>1 DEF Seeded, KeysInit, Types
  <1>3. Distinct
    BY DEF KeysInit, Distinct, OneEach, NoTmp, NoCommand
  <1>4. Alone
    BY DEF KeysInit, Alone, OneEach, Busy, NoCommand
  <1> QED
    BY <1>2, <1>3, <1>4 DEF KeysInv

\* A list that a session makes of the file it read holds nothing twice.
LEMMA ListsAreDistinct ==
    ASSUME NEW S \in SUBSET Entry, OneEach(S), NEW e \in Entry
    PROVE  /\ ~Clashes(S, e) => OneEach(S \cup {e})
           /\ \A T : OneEach(S \ T)
  BY DEF OneEach, Clashes

LEMMA BeginKeeps ==
    ASSUME KeysInv, NEW c \in KeyCommands, NEW k \in KeyCommand, k.pc = "write",
           ~Busy(c), kc' = [kc EXCEPT ![c] = k], OneEach(k.list),
           IF k.op = "add" THEN ~Clashes(authFile, k.entry) /\ k.list = authFile \cup {k.entry}
           ELSE k.entry \in authFile /\ k.list = authFile \ {k.entry},
           keyRaced' = (keyRaced \/ \E o \in KeyCommands : Busy(o)),
           UNCHANGED << authFile, keyTmp, keyRows, keyExpected, rowKept >>
    PROVE  KeysInv'
  <1>1. Types'
    BY DEF KeysInv, Types
  <1>2. /\ kc'[c] = k /\ \A d \in KeyCommands \ {c} : kc'[d] = kc[d]
        /\ kc' \in [KeyCommands -> KeyCommand]
    BY DEF KeysInv, Types
  <1>3. Distinct'
    BY <1>2 DEF KeysInv, Distinct
  <1>4. Alone'
    <2> SUFFICES ASSUME ~keyRaced' PROVE Alone'
      BY DEF Alone
    <2>1. ~keyRaced /\ \A o \in KeyCommands : ~Busy(o)
      BY DEF KeysInv, Types
    <2>2. authFile = keyExpected /\ OneEach(keyExpected) /\ (~rowKept => keyRows \subseteq keyExpected)
      BY <2>1 DEF KeysInv, Alone, KeysQuiet
    <2>3. Stage(kc[c])'
      BY <1>2, <2>2 DEF Stage, Promised
    <2>4. Busy(c)' /\ \A o \in KeyCommands \ {c} : ~Busy(o)'
      BY <1>2, <2>1 DEF Busy
    <2> QED
      BY <2>2, <2>3, <2>4 DEF Alone, KeysQuiet
  <1> QED
    BY <1>1, <1>3, <1>4 DEF KeysInv
\* A step of a session that is alone.
LEMMA StepOfOne ==
    ASSUME KeysInv, NEW c \in KeyCommands, Busy(c), NEW k \in KeyCommand, kc' = [kc EXCEPT ![c] = k],
           keyRaced' = keyRaced,
           ~keyRaced => /\ IF k.pc = "idle" THEN authFile' = keyExpected' ELSE Stage(k)'
                        /\ OneEach(keyExpected')
                        /\ ~rowKept' => keyRows' \subseteq keyExpected'
    PROVE  /\ Alone' /\ kc' \in [KeyCommands -> KeyCommand]
           /\ kc'[c] = k /\ \A d \in KeyCommands \ {c} : kc'[d] = kc[d]
  <1>1. /\ kc'[c] = k /\ \A d \in KeyCommands \ {c} : kc'[d] = kc[d]
        /\ kc' \in [KeyCommands -> KeyCommand]
    BY DEF KeysInv, Types
  <1>2. Alone'
    <2> SUFFICES ASSUME ~keyRaced, ~keyRaced' PROVE Alone'
      BY DEF Alone
    <2>1. \A d \in KeyCommands \ {c} : ~Busy(d) /\ ~Busy(d)'
      BY <1>1 DEF KeysInv, Alone, Busy
    <2>2. Busy(c)' <=> k.pc # "idle"
      BY <1>1 DEF Busy
    <2>3. Busy(c)' => Stage(kc[c])'
      BY <1>1, <2>2 DEF Stage, Promised
    <2> QED
      BY <2>1, <2>2, <2>3 DEF Alone, KeysQuiet, OneEach
  <1> QED
    BY <1>1, <1>2

LEMMA WriteKeeps ==
    ASSUME KeysInv, NEW c \in KeyCommands, WriteTmp(c)
    PROVE  KeysInv'
  <1>1. PICK k : k = [kc[c] EXCEPT !.pc = IF At(c, "write") THEN "rename" ELSE "undorename"]
    OBVIOUS
  <1>2. /\ kc[c] \in KeyCommand /\ k \in KeyCommand /\ k.list = kc[c].list /\ k.op = kc[c].op /\ k.entry = kc[c].entry
        /\ kc' = [kc EXCEPT ![c] = k] /\ Busy(c)
        /\ k.pc = IF kc[c].pc = "write" THEN "rename" ELSE "undorename"
    BY <1>1 DEF WriteTmp, To, At, Busy, KeysInv, Types, KeyCommand
  <1>3. keyTmp' = Tmp(k.list) /\ UNCHANGED << authFile, keyRows, keyExpected, keyRaced, rowKept >>
    BY <1>2 DEF WriteTmp
  <1>4. ~keyRaced => Stage(kc[c]) /\ OneEach(keyExpected) /\ (~rowKept => keyRows \subseteq keyExpected)
    BY <1>2 DEF KeysInv, Alone
  <1>5. ~keyRaced => Stage(k)'
    BY <1>2, <1>3, <1>4 DEF Stage, Promised, WriteTmp
  <1>6. Alone' /\ kc' \in [KeyCommands -> KeyCommand] /\ kc'[c] = k
        /\ \A d \in KeyCommands \ {c} : kc'[d] = kc[d]
    BY <1>2, <1>3, <1>4, <1>5, StepOfOne DEF OneEach
  <1>7. Types'
    BY <1>2, <1>3, <1>6 DEF KeysInv, Types, KeyCommand
  <1>8. Distinct'
    BY <1>2, <1>3, <1>6 DEF KeysInv, Distinct, Tmp
  <1> QED
    BY <1>6, <1>7, <1>8 DEF KeysInv

LEMMA RenameKeeps ==
    ASSUME KeysInv, NEW c \in KeyCommands, Rename(c)
    PROVE  KeysInv'
  <1>1. PICK k : k = IF keyTmp.missing \/ ~At(c, "rename") THEN NoCommand ELSE [kc[c] EXCEPT !.pc = "row"]
    OBVIOUS
  <1>2. NoCommand \in KeyCommand /\ NoCommand.pc = "idle" /\ NoCommand.list = {} /\ kc[c] \in KeyCommand
    BY DEF KeysInv, Types, NoCommand, KeyCommand
  <1>3. k \in KeyCommand /\ kc' = [kc EXCEPT ![c] = k] /\ Busy(c) /\ kc[c].pc \in {"rename", "undorename"}
        /\ UNCHANGED << keyRows, keyExpected, keyRaced, rowKept >>
    BY <1>1, <1>2 DEF Rename, Answer, To, At, Busy, KeyCommand
  <1>4. ~keyRaced => Stage(kc[c]) /\ OneEach(keyExpected) /\ (~rowKept => keyRows \subseteq keyExpected)
    BY <1>3 DEF KeysInv, Alone
  <1>5. /\ keyTmp.missing => authFile' = authFile /\ keyTmp' = keyTmp
        /\ ~keyTmp.missing => authFile' = keyTmp.holds /\ keyTmp' = NoTmp
    BY DEF Rename
  <1>6. ~keyRaced => IF k.pc = "idle" THEN authFile' = keyExpected' ELSE Stage(k)'
    <2> SUFFICES ASSUME ~keyRaced PROVE <1>6!2
      OBVIOUS
    <2>1. keyTmp = Tmp(kc[c].list) /\ ~keyTmp.missing /\ authFile' = kc[c].list
      BY <1>3, <1>4, <1>5 DEF Stage, Tmp
    <2>2. CASE kc[c].pc = "rename"
      <3>1. k.pc = "row" /\ k.op = kc[c].op /\ k.entry = kc[c].entry /\ k.list = kc[c].list
        BY <1>1, <1>2, <2>1, <2>2 DEF At, KeyCommand
      <3>2. Stage(k)'
        BY <1>3, <1>4, <2>1, <2>2, <3>1 DEF Stage, Promised
      <3> QED
        BY <3>1, <3>2
    <2>3. CASE kc[c].pc = "undorename"
      BY <1>1, <1>2, <1>3, <1>4, <2>1, <2>3 DEF At, Stage
    <2> QED
      BY <1>3, <2>2, <2>3
  <1>7. Alone' /\ kc' \in [KeyCommands -> KeyCommand] /\ kc'[c] = k
        /\ \A d \in KeyCommands \ {c} : kc'[d] = kc[d]
    BY <1>3, <1>4, <1>6, StepOfOne DEF OneEach
  <1>8. Types'
    <2>1. authFile' \subseteq Entry /\ (keyTmp' = NoTmp \/ \E entries \in SUBSET Entry : keyTmp' = Tmp(entries))
      BY <1>5 DEF KeysInv, Types, Tmp, NoTmp
    <2> QED
      BY <1>3, <1>7, <2>1 DEF KeysInv, Types
  <1>9. Distinct'
    <2>1. OneEach(authFile') /\ (~keyTmp'.missing => OneEach(keyTmp'.holds))
      BY <1>5 DEF KeysInv, Distinct, NoTmp
    <2>2. OneEach(k.list)
      BY <1>1, <1>2 DEF KeysInv, Distinct, OneEach, KeyCommand
    <2> QED
      BY <1>7, <2>1, <2>2 DEF KeysInv, Distinct, OneEach
  <1> QED
    BY <1>7, <1>8, <1>9 DEF KeysInv

\* The row of an addition or of a removal, written or refused.
LEMMA RowKeeps ==
    ASSUME KeysInv, NEW c \in KeyCommands,
           InsertRow(c) \/ InsertFails(c) \/ DeleteRow(c) \/ DeleteFails(c)
    PROVE  KeysInv'
  <1>1. NoCommand \in KeyCommand /\ NoCommand.pc = "idle" /\ NoCommand.list = {} /\ kc[c] \in KeyCommand
    BY DEF KeysInv, Types, NoCommand, KeyCommand
  <1>2. Busy(c) /\ kc[c].pc = "row" /\ UNCHANGED << authFile, keyTmp, keyRaced >>
    BY DEF InsertRow, InsertFails, DeleteRow, DeleteFails, At, Busy
  <1>3. ~keyRaced => /\ Stage(kc[c]) /\ OneEach(keyExpected) /\ authFile = Promised(kc[c])
                     /\ (~rowKept => keyRows \subseteq keyExpected)
    BY <1>2 DEF KeysInv, Alone, Stage
  <1>4. OneEach(authFile) /\ OneEach(kc[c].list)
    BY DEF KeysInv, Distinct
  <1>5. PICK k : k = kc'[c]
    OBVIOUS
  <1>6. /\ k \in KeyCommand /\ kc' = [kc EXCEPT ![c] = k] /\ OneEach(k.list)
        /\ ~keyRaced => /\ IF k.pc = "idle" THEN authFile' = keyExpected' ELSE Stage(k)'
                        /\ OneEach(keyExpected')
                        /\ ~rowKept' => keyRows' \subseteq keyExpected'
        /\ keyRows' \subseteq Entry /\ keyExpected' \subseteq Entry /\ rowKept' \in BOOLEAN
    <2>1. CASE InsertRow(c)
      <3>1. k = NoCommand /\ kc' = [kc EXCEPT ![c] = NoCommand]
        BY <1>5, <2>1 DEF InsertRow, Answer, KeysInv, Types
      <3>2. /\ keyRows' = keyRows \cup {kc[c].entry} /\ keyExpected' = keyExpected \cup {kc[c].entry}
            /\ rowKept' = rowKept /\ kc[c].op = "add" /\ kc[c].entry \in Entry
        BY <1>1, <2>1 DEF InsertRow, KeyCommand
      <3>3. ~keyRaced => authFile' = keyExpected'
        BY <1>2, <1>3, <3>2 DEF Promised
      <3> QED
        BY <1>1, <1>2, <1>3, <1>4, <3>1, <3>2, <3>3 DEF OneEach, KeysInv, Types
    <2>2. CASE InsertFails(c)
      <3>1. k = [kc[c] EXCEPT !.pc = "undo"] /\ kc' = [kc EXCEPT ![c] = k]
        BY <1>5, <2>2 DEF InsertFails, Undo, To, KeysInv, Types
      <3>2. /\ k \in KeyCommand /\ k.pc = "undo" /\ k.op = kc[c].op /\ k.entry = kc[c].entry /\ k.list = kc[c].list
            /\ UNCHANGED << keyRows, keyExpected, rowKept >> /\ k.op = "add"
        BY <1>1, <2>2, <3>1 DEF InsertFails, KeyCommand
      <3>3. ~keyRaced => Stage(k)'
        BY <1>2, <1>3, <3>2 DEF Stage, Promised
      <3> QED
        BY <1>3, <1>4, <3>1, <3>2, <3>3 DEF KeysInv, Types, OneEach
    <2>3. CASE DeleteRow(c) \/ DeleteFails(c)
      <3>1. k = NoCommand /\ kc' = [kc EXCEPT ![c] = NoCommand]
        BY <1>5, <2>3 DEF DeleteRow, DeleteFails, Answer, KeysInv, Types
      <3>2. /\ keyRows' \subseteq keyRows /\ keyExpected' = keyExpected \ {kc[c].entry}
            /\ rowKept' \in BOOLEAN /\ kc[c].op = "remove"
            /\ ~rowKept' => /\ ~rowKept
                            /\ keyRows' = {x \in keyRows : x.name # kc[c].entry.name}
        BY <2>3 DEF DeleteRow, DeleteFails, RowsWithout, Named, KeysInv, Types
      <3>3. ~keyRaced => authFile' = keyExpected'
        BY <1>2, <1>3, <3>2 DEF Promised
      <3> QED
        BY <1>1, <1>2, <1>3, <1>4, <3>1, <3>2, <3>3 DEF OneEach, KeysInv, Types
    <2> QED
      BY <2>1, <2>2, <2>3
  <1>7. Alone' /\ kc' \in [KeyCommands -> KeyCommand] /\ kc'[c] = k
        /\ \A d \in KeyCommands \ {c} : kc'[d] = kc[d]
    BY <1>2, <1>6, StepOfOne
  <1>8. Types'
    BY <1>2, <1>6, <1>7 DEF KeysInv, Types
  <1>9. Distinct'
    BY <1>2, <1>6, <1>7 DEF KeysInv, Distinct
  <1> QED
    BY <1>7, <1>8, <1>9 DEF KeysInv

\* The roll-back of an addition reads the file again: what it takes out is the
\* entry it put there, since no other has its name.
LEMMA UndoKeeps ==
    ASSUME KeysInv, NEW c \in KeyCommands, UndoRead(c)
    PROVE  KeysInv'
  <1>1. NoCommand \in KeyCommand /\ NoCommand.pc = "idle" /\ NoCommand.list = {} /\ kc[c] \in KeyCommand
    BY DEF KeysInv, Types, NoCommand, KeyCommand
  <1>2. Busy(c) /\ kc[c].pc = "undo" /\ UNCHANGED << authFile, keyTmp, keyRows, keyExpected, keyRaced, rowKept >>
    BY DEF UndoRead, At, Busy
  <1>3. ~keyRaced => /\ Stage(kc[c]) /\ OneEach(keyExpected) /\ kc[c].op = "add"
                     /\ authFile = keyExpected \cup {kc[c].entry}
                     /\ (~rowKept => keyRows \subseteq keyExpected)
    BY <1>2 DEF KeysInv, Alone, Stage, Promised
  <1> DEFINE named == Named(authFile, kc[c].entry.name)
  <1>4. PICK k : k = IF named = {} THEN NoCommand
                     ELSE [kc[c] EXCEPT !.pc = "undowrite", !.list = authFile \ named]
    OBVIOUS
  <1>5. kc' = [kc EXCEPT ![c] = k] /\ k \in KeyCommand
    BY <1>1, <1>4 DEF UndoRead, Answer, KeysInv, Types, KeyCommand
  <1>6. OneEach(k.list)
    BY <1>1, <1>4 DEF KeysInv, Distinct, OneEach, KeyCommand
  <1>7. ~keyRaced => IF k.pc = "idle" THEN authFile' = keyExpected' ELSE Stage(k)'
    <2> SUFFICES ASSUME ~keyRaced PROVE <1>7!2
      OBVIOUS
    <2>1. kc[c].entry \in named /\ ~Clashes(keyExpected, kc[c].entry)
      BY <1>3 DEF Named, Stage
    <2>2. authFile \ named = keyExpected
      BY <1>3, <2>1 DEF Named, Clashes
    <2>3. k.pc = "undowrite" /\ k.list = keyExpected /\ k.op = "add" /\ k.entry = kc[c].entry
      BY <1>1, <1>3, <1>4, <2>1, <2>2 DEF KeyCommand
    <2> QED
      BY <1>2, <2>1, <2>3 DEF Stage, Promised
  <1>8. Alone' /\ kc' \in [KeyCommands -> KeyCommand] /\ kc'[c] = k
        /\ \A d \in KeyCommands \ {c} : kc'[d] = kc[d]
    BY <1>2, <1>3, <1>5, <1>7, StepOfOne DEF OneEach
  <1>9. Types'
    BY <1>2, <1>8 DEF KeysInv, Types
  <1>10. Distinct'
    BY <1>2, <1>6, <1>8 DEF KeysInv, Distinct
  <1> QED
    BY <1>8, <1>9, <1>10 DEF KeysInv

LEMMA CrashKeeps ==
    ASSUME KeysInv, KeysCrash
    PROVE  KeysInv'
  <1>1. NoCommand \in KeyCommand /\ NoCommand.list = {}
    BY DEF KeysInv, Types, NoCommand, KeyCommand
  <1>2. Types'
    BY <1>1 DEF KeysInv, KeysCrash, Types
  <1>3. Distinct'
    BY <1>1 DEF KeysInv, KeysCrash, Distinct, OneEach
  <1>4. Alone'
    BY DEF KeysCrash, Alone
  <1> QED
    BY <1>2, <1>3, <1>4 DEF KeysInv

LEMMA KeysStepKeeps ==
    ASSUME KeysInv, [KeysNext]_keyVars
    PROVE  KeysInv'
  <1>1. ASSUME NEW c \in KeyCommands, NEW e \in Entry, BeginAdd(c, e) PROVE KeysInv'
    <2>1. PICK k : k = [pc |-> "write", op |-> "add", entry |-> e, list |-> authFile \cup {e}]
      OBVIOUS
    <2>2. OneEach(k.list) /\ ~Clashes(authFile, e)
      BY <1>1, <2>1, ListsAreDistinct DEF BeginAdd, KeysInv, Types, Distinct
    <2>3. k \in KeyCommand /\ k.pc = "write" /\ k.op = "add" /\ k.entry = e /\ k.list = authFile \cup {k.entry}
      BY <2>1 DEF KeysInv, Types, KeyCommand
    <2> QED
      BY <1>1, <2>1, <2>2, <2>3, BeginKeeps DEF BeginAdd
  <1>2. ASSUME NEW c \in KeyCommands, NEW n \in KeyNames, BeginRemove(c, n) PROVE KeysInv'
    <2>1. PICK e \in Named(authFile, n) :
            kc' = [kc EXCEPT ![c] = [pc |-> "write", op |-> "remove", entry |-> e, list |-> authFile \ {e}]]
      BY <1>2 DEF BeginRemove
    <2>2. PICK k : k = [pc |-> "write", op |-> "remove", entry |-> e, list |-> authFile \ {e}]
      OBVIOUS
    <2>3. e \in authFile /\ e \in Entry
      BY <2>1 DEF Named, KeysInv, Types
    <2>4. OneEach(k.list)
      BY <2>2, <2>3, ListsAreDistinct DEF KeysInv, Types, Distinct
    <2>5. k \in KeyCommand /\ k.pc = "write" /\ k.op = "remove" /\ k.entry \in authFile /\ k.list = authFile \ {k.entry}
      BY <2>2, <2>3 DEF KeysInv, Types, KeyCommand
    <2> QED
      BY <1>2, <2>1, <2>2, <2>4, <2>5, BeginKeeps DEF BeginRemove
  <1>3. ASSUME NEW c \in KeyCommands, KeysStep(c) PROVE KeysInv'
    BY <1>3, WriteKeeps, RenameKeeps, RowKeeps, UndoKeeps DEF KeysStep
  <1>4. CASE KeysCrash
    BY <1>4, CrashKeeps
  <1>5. CASE UNCHANGED keyVars
    <2>1. Types' /\ Distinct'
      BY <1>5 DEF keyVars, KeysInv, Types, Distinct
    <2>2. Alone'
      BY <1>5 DEF keyVars, KeysInv, Alone, Busy, KeysQuiet, Stage, Promised
    <2> QED
      BY <2>1, <2>2 DEF KeysInv
  <1> QED
    BY <1>1, <1>2, <1>3, <1>4, <1>5 DEF KeysNext

\* The invariant holds of every behaviour.
THEOREM KeysStayInOrder ==
    ASSUME Seeded
    PROVE  KeysSpec => []KeysInv
  <1>1. KeysInit => KeysInv
    BY KeysInitially
  <1>2. KeysInv /\ [KeysNext]_keyVars => KeysInv'
    BY KeysStepKeeps
  <1> QED
    BY <1>1, <1>2, PTL DEF KeysSpec

-----------------------------------------------------------------------------
(* What it gives. *)

\* Whatever sessions overlap, however they write over each other's file, and
\* wherever caramelod dies, authorized_keys never holds a name or a key twice
\* (AppendKeyWithOptions, RemoveKey, writeFileAtomic).
THEOREM NoKeyTwice ==
    ASSUME Seeded
    PROVE  KeysSpec => []OneEntryEach
  <1>1. KeysInv => OneEntryEach
    BY DEF KeysInv, Distinct, OneEach, OneEntryEach
  <1> QED
    BY <1>1, KeysStayInOrder, PTL

\* Between sessions that did not overlap the file holds exactly the keys that
\* were promised, also when the store refused the row (AddKey, RemoveKey).
THEOREM AnswersAreKept ==
    ASSUME Seeded
    PROVE  KeysSpec => []AnswersKept
  <1>1. KeysInv => AnswersKept
    BY DEF KeysInv, Alone, AnswersKept
  <1> QED
    BY <1>1, KeysStayInOrder, PTL

\* Between sessions that did not overlap every row of the store stands for a
\* key of the file, unless a removal failed after the file was written.
THEOREM RowsStandForKeys ==
    ASSUME Seeded
    PROVE  KeysSpec => []RowsCanLogIn
  <1>1. KeysInv => RowsCanLogIn
    BY DEF KeysInv, Types, Alone, RowsCanLogIn
  <1> QED
    BY <1>1, KeysStayInOrder, PTL

\* Altogether: whatever overlaps or dies, the keys that may log in are those the
\* commands answered for, each once, and the rows stand for them.
THEOREM LoginsAreKept ==
    ASSUME Seeded
    PROVE  KeysSpec => []LoginsKept
  <1>1. KeysInv => KeysTypeOK
    BY DEF KeysInv, Types, KeysTypeOK, KeyCommand, Tmp
  <1>2. KeysInv => OneEntryEach
    BY DEF KeysInv, Distinct, OneEach, OneEntryEach
  <1>3. KeysInv => AnswersKept /\ RowsCanLogIn
    BY DEF KeysInv, Types, Alone, AnswersKept, RowsCanLogIn
  <1>4. KeysInv => LoginsKept
    BY <1>1, <1>2, <1>3 DEF LoginsKept
  <1> QED
    BY <1>4, KeysStayInOrder, PTL

HIDE DEF Entry, KeyPcs

-----------------------------------------------------------------------------
(* The daemon. *)

SessionRec == [transport : {"none", "socket", "ssh", "tunnel"}, open : BOOLEAN,
               identity : {"none", "key", "peer"}, runs : BOOLEAN, left : BOOLEAN]

\* Sessions only while it serves or goes down; a command whose connection is
\* gone was left, and after a shutdown in time every command that runs was.
SessionsEnd ==
    /\ session \in [Sessions -> SessionRec]
    /\ dpc \notin {"serving", "drain", "unwind"} => \A s \in Sessions : session[s] = NoSession
    /\ dpc \in {"serving", "drain"} =>
           \A s \in Sessions : session[s].runs /\ ~session[s].open => session[s].left
    /\ dpc = "unwind" /\ ~deadline => \A s \in Sessions : session[s].runs => session[s].left

\* The import: the rows behind its place are recorded, a marked report has all
\* of its rows, and without a cut every row was recorded as often as the place
\* says.
Imports ==
    /\ rowsOf \in [1..Reports -> [1..ReportRows -> Nat]]
    /\ importAt[1] > Reports => importAt[2] = 1
    /\ importAt[2] > 1 => importAt[1] \notin imported
    /\ importAt[1] <= Reports =>
           \A i \in 1..ReportRows : i < importAt[2] => rowsOf[importAt[1]][i] >= 1
    /\ MarkedIsWhole

Once ==
    ~importCut =>
        /\ dpc # "import" => importAt[2] = 1
        /\ \A r \in 1..Reports, i \in 1..ReportRows :
               /\ rowsOf[r][i] <= 1
               /\ r \notin imported /\ ~(r = importAt[1] /\ i < importAt[2]) => rowsOf[r][i] = 0

DaemonInv == DaemonTypeOK /\ SessionsEnd /\ Imports /\ Once

USE DaemonAssumption

LEMMA DaemonInitially ==
    ASSUME DaemonInit
    PROVE  DaemonInv
  <1>1. NoSession \in SessionRec /\ ~NoSession.runs
    BY DEF NoSession, SessionRec
  <1>2. DaemonTypeOK
    <2>1. importAt \in (1..(Reports + 1)) \X (1..(ReportRows + 1))
      BY DEF DaemonInit
    <2> QED
      BY <2>1 DEF DaemonInit, DaemonTypeOK
  <1>3. SessionsEnd
    BY <1>1 DEF DaemonInit, SessionsEnd
  <1>4. Imports /\ Once
    BY DEF DaemonInit, Imports, Once, MarkedIsWhole
  <1> QED
    BY <1>2, <1>3, <1>4 DEF DaemonInv

\* A step that leaves the reports alone.
LEMMA ReportsKept ==
    ASSUME DaemonInv, UNCHANGED reportVars,
           dpc' # "import" => dpc # "import" \/ importAt[2] = 1
    PROVE  Imports' /\ Once'
  BY DEF DaemonInv, reportVars, Imports, Once, MarkedIsWhole

\* A step that leaves the sessions alone.
LEMMA SessionsKept ==
    ASSUME DaemonInv, UNCHANGED session, \/ dpc' = dpc /\ (deadline' = deadline \/ dpc # "unwind")
                                         \/ dpc \notin {"serving", "drain", "unwind"}
                                         \/ dpc = "serving" /\ dpc' = "drain"
    PROVE  SessionsEnd'
  <1>1. ~NoSession.runs
    BY DEF NoSession
  <1> QED
    BY <1>1 DEF DaemonInv, SessionsEnd

LEMMA WayUp ==
    ASSUME DaemonInv, OpenStore \/ Attach \/ Resume \/ StartTunnel \/ Listen
    PROVE  DaemonInv'
  <1>1. /\ UNCHANGED <<session, deadline>> /\ UNCHANGED reportVars
        /\ dpc \in {"store", "attach", "import", "tunnel", "listen"}
        /\ dpc = "import" => importAt[1] > Reports
    BY DEF OpenStore, Attach, Resume, StartTunnel, Listen, reportVars
  <1>2. Imports' /\ Once'
    BY <1>1, ReportsKept DEF DaemonInv, Imports
  <1>3. SessionsEnd'
    BY <1>1, SessionsKept
  <1>4. DaemonTypeOK'
    BY <1>1 DEF DaemonInv, DaemonTypeOK, OpenStore, Attach, Resume, StartTunnel, Listen, reportVars
  <1> QED
    BY <1>2, <1>3, <1>4 DEF DaemonInv

LEMMA StartKeeps ==
    ASSUME DaemonInv, Start
    PROVE  DaemonInv'
  <1>1. UNCHANGED session /\ dpc = "down" /\ dpc' = "store"
        /\ UNCHANGED <<storeOpen, deviceUp, listening, socket, deadline, rowsOf, imported, importCut>>
        /\ importAt' = <<1, 1>>
    BY DEF Start
  <1>2. SessionsEnd'
    BY <1>1, SessionsKept
  <1>3. DaemonTypeOK'
    BY <1>1 DEF DaemonInv, DaemonTypeOK
  <1>4. importAt'[1] = 1 /\ importAt'[2] = 1
    BY <1>1
  <1>5. Imports'
    BY <1>1, <1>4 DEF DaemonInv, Imports, MarkedIsWhole
  <1>6. Once'
    <2> SUFFICES ASSUME ~importCut PROVE Once'
      BY <1>1 DEF Once
    <2>1. importAt[2] = 1
      BY <1>1 DEF DaemonInv, Once
    <2> QED
      BY <1>1, <1>4, <2>1 DEF DaemonInv, Once
  <1> QED
    BY <1>2, <1>3, <1>5, <1>6 DEF DaemonInv

\* ImportSetupReports, one step.
LEMMA ImportKeeps ==
    ASSUME DaemonInv, ImportStep
    PROVE  DaemonInv'
  <1> DEFINE r == importAt[1]
             i == importAt[2]
  <1>1. /\ dpc = "import" /\ r \in 1..Reports /\ i \in 1..(ReportRows + 1)
        /\ UNCHANGED <<dpc, storeOpen, deviceUp, listening, socket, session, deadline>>
        /\ importAt = <<r, i>>
    BY DEF ImportStep, DaemonInv, DaemonTypeOK
  <1>2. SessionsEnd'
    BY <1>1, SessionsKept
  <1>3. rowsOf \in [1..Reports -> [1..ReportRows -> Nat]] /\ importCut \in BOOLEAN /\ imported \subseteq 1..Reports
    BY DEF DaemonInv, Imports, DaemonTypeOK
  <1>4. CASE i = 1 /\ importAt' = <<r + 1, 1>> /\ UNCHANGED <<rowsOf, imported, importCut>>
    <2>1. importAt'[1] = r + 1 /\ importAt'[2] = 1
      BY <1>4
    <2>2. DaemonTypeOK'
      BY <1>1, <1>4 DEF DaemonInv, DaemonTypeOK
    <2>3. Imports'
      BY <1>1, <1>3, <1>4, <2>1 DEF DaemonInv, Imports, MarkedIsWhole
    <2>4. Once'
      BY <1>1, <1>3, <1>4, <2>1 DEF DaemonInv, Once
    <2> QED
      BY <1>2, <2>2, <2>3, <2>4 DEF DaemonInv
  <1>5. CASE /\ i > 1 \/ r \notin imported
             /\ i <= ReportRows /\ rowsOf' = [rowsOf EXCEPT ![r][i] = @ + 1]
             /\ importAt' = <<r, i + 1>> /\ UNCHANGED <<imported, importCut>>
    <2>1. importAt'[1] = r /\ importAt'[2] = i + 1
      BY <1>5
    <2>2. DaemonTypeOK'
      BY <1>1, <1>5 DEF DaemonInv, DaemonTypeOK
    <2>3. /\ rowsOf' \in [1..Reports -> [1..ReportRows -> Nat]]
          /\ rowsOf'[r][i] = rowsOf[r][i] + 1 /\ rowsOf[r][i] \in Nat
          /\ \A q \in 1..Reports, j \in 1..ReportRows : q # r \/ j # i => rowsOf'[q][j] = rowsOf[q][j]
      BY <1>1, <1>3, <1>5
    <2>4. r \notin imported
      BY <1>1, <1>5 DEF DaemonInv, Imports
    <2>5. Imports'
      BY <1>1, <1>3, <1>5, <2>1, <2>3, <2>4 DEF DaemonInv, Imports, MarkedIsWhole
    <2>6. Once'
      <3> SUFFICES ASSUME ~importCut PROVE Once'
        BY <1>5 DEF Once
      <3>1. rowsOf[r][i] = 0
        BY <1>1, <1>5, <2>4 DEF DaemonInv, Once
      <3>2. \A q \in 1..Reports, j \in 1..ReportRows :
                 /\ rowsOf[q][j] <= 1
                 /\ q \notin imported /\ ~(q = r /\ j < i) => rowsOf[q][j] = 0
        BY DEF DaemonInv, Once
      <3> QED
        BY <1>1, <1>5, <2>1, <2>3, <3>1, <3>2 DEF Once
    <2> QED
      BY <1>2, <2>2, <2>5, <2>6 DEF DaemonInv
  <1>6. CASE /\ importCut' = TRUE /\ UNCHANGED <<rowsOf, imported>>
             /\ importAt' = <<r + 1, 1>> \/ importAt' = <<Reports + 1, 1>>
    <2>1. importAt'[1] \in 1..(Reports + 1) /\ importAt'[2] = 1
      BY <1>1, <1>6
    <2>2. DaemonTypeOK'
      BY <1>1, <1>6 DEF DaemonInv, DaemonTypeOK
    <2>3. Imports'
      BY <1>1, <1>3, <1>6, <2>1 DEF DaemonInv, Imports, MarkedIsWhole
    <2>4. Once'
      BY <1>6 DEF Once
    <2> QED
      BY <1>2, <2>2, <2>3, <2>4 DEF DaemonInv
  <1>7. CASE /\ i > ReportRows /\ imported' = imported \cup {r}
             /\ importAt' = <<r + 1, 1>> /\ UNCHANGED <<rowsOf, importCut>>
    <2>1. importAt'[1] = r + 1 /\ importAt'[2] = 1
      BY <1>7
    <2>2. DaemonTypeOK'
      <3>1. importAt' \in (1..(Reports + 1)) \X (1..(ReportRows + 1))
        BY <1>1, <1>7
      <3> QED
        BY <1>1, <1>3, <1>7, <3>1 DEF DaemonInv, DaemonTypeOK
    <2>3. Imports'
      BY <1>1, <1>3, <1>7, <2>1 DEF DaemonInv, Imports, MarkedIsWhole
    <2>4. Once'
      BY <1>1, <1>3, <1>7, <2>1 DEF DaemonInv, Once
    <2> QED
      BY <1>2, <2>2, <2>3, <2>4 DEF DaemonInv
  <1> QED
    BY <1>1, <1>4, <1>5, <1>6, <1>7 DEF ImportStep, AlreadyImported, AfterFailure

LEMMA SessionStep ==
    ASSUME DaemonInv, NEW s \in Sessions,
           \/ Command(s) \/ CommandEnds(s) \/ HangUp(s)
           \/ \E t \in {"socket", "ssh", "tunnel"} : Connect(s, t)
    PROVE  DaemonInv'
  <1>1. UNCHANGED <<dpc, storeOpen, deviceUp, listening, socket, deadline>> /\ UNCHANGED reportVars
    BY DEF Command, CommandEnds, HangUp, Connect
  <1>2. DaemonTypeOK'
    BY <1>1 DEF DaemonInv, DaemonTypeOK, reportVars
  <1>3. Imports' /\ Once'
    BY <1>1, ReportsKept
  <1>4. session[s] \in SessionRec /\ NoSession \in SessionRec /\ ~NoSession.runs /\ ~NoSession.open
    BY DEF DaemonInv, SessionsEnd, NoSession, SessionRec
  <1>5. PICK x : x = session'[s]
    OBVIOUS
  <1> DEFINE Fits ==
        /\ session' = [session EXCEPT ![s] = x] /\ x \in SessionRec
        /\ dpc \in {"serving", "drain", "unwind"}
        /\ dpc \in {"serving", "drain"} => (x.runs /\ ~x.open => x.left)
        /\ dpc = "unwind" /\ ~deadline => (x.runs => x.left)
  <1>6. Fits
    <2>1. CASE Command(s)
      <3>1. x = [session[s] EXCEPT !.runs = TRUE] /\ session' = [session EXCEPT ![s] = x]
        BY <1>5, <2>1 DEF Command, DaemonInv, SessionsEnd
      <3> QED
        BY <1>4, <2>1, <3>1 DEF Command, SessionRec
    <2>2. CASE CommandEnds(s)
      <3>1. /\ x = IF session[s].open THEN [session[s] EXCEPT !.runs = FALSE] ELSE NoSession
            /\ session' = [session EXCEPT ![s] = x]
        BY <1>5, <2>2 DEF CommandEnds, DaemonInv, SessionsEnd
      <3>2. dpc \in {"serving", "drain", "unwind"}
        BY <1>4, <2>2 DEF CommandEnds, DaemonInv, SessionsEnd
      <3> QED
        BY <1>4, <3>1, <3>2 DEF SessionRec
    <2>3. CASE HangUp(s)
      <3>1. /\ x = IF session[s].runs THEN [session[s] EXCEPT !.open = FALSE, !.left = TRUE] ELSE NoSession
            /\ session' = [session EXCEPT ![s] = x]
        BY <1>5, <2>3 DEF HangUp, DaemonInv, SessionsEnd
      <3>2. dpc \in {"serving", "drain", "unwind"}
        BY <1>4, <2>3 DEF HangUp, DaemonInv, SessionsEnd
      <3> QED
        BY <1>4, <3>1, <3>2 DEF SessionRec
    <2>4. ASSUME NEW t \in {"socket", "ssh", "tunnel"}, Connect(s, t) PROVE Fits
      <3>1. /\ x = [transport |-> t, open |-> TRUE, identity |-> IdentityOn(t), runs |-> FALSE, left |-> FALSE]
            /\ session' = [session EXCEPT ![s] = x] /\ dpc = "serving"
        BY <1>5, <2>4 DEF Connect, DaemonInv, SessionsEnd
      <3> QED
        BY <3>1 DEF SessionRec, IdentityOn
    <2> QED
      BY <2>1, <2>2, <2>3, <2>4
  <1>7. SessionsEnd'
    BY <1>1, <1>6 DEF DaemonInv, SessionsEnd
  <1> QED
    BY <1>2, <1>3, <1>7 DEF DaemonInv

LEMMA WayDown ==
    ASSUME DaemonInv, Stop \/ DeadlinePasses \/ ShutDown \/ StopDevice \/ CloseStore \/ Exit
    PROVE  DaemonInv'
  <1>1. UNCHANGED reportVars /\ dpc \in {"serving", "drain", "unwind"} /\ dpc' # "import"
    BY DEF Stop, DeadlinePasses, ShutDown, StopDevice, CloseStore, Exit
  <1>2. Imports' /\ Once'
    BY <1>1, ReportsKept
  <1>3. DaemonTypeOK'
    BY <1>1 DEF DaemonInv, DaemonTypeOK, Stop, DeadlinePasses, ShutDown, StopDevice, CloseStore, Exit, reportVars
  <1>4. NoSession \in SessionRec /\ ~NoSession.runs
    BY DEF NoSession, SessionRec
  <1>5. SessionsEnd'
    <2>1. CASE Stop \/ DeadlinePasses \/ StopDevice \/ CloseStore
      BY <2>1, SessionsKept DEF Stop, DeadlinePasses, StopDevice, CloseStore
    <2>2. CASE Exit
      BY <1>4, <2>2 DEF Exit, SessionsEnd
    <2>3. CASE ShutDown
      <3>1. ASSUME NEW s \in Sessions
            PROVE  /\ session'[s] \in SessionRec
                   /\ ~deadline /\ session'[s].runs => session'[s].left
        <4>1. /\ session[s] \in SessionRec
              /\ session[s].runs /\ ~session[s].open => session[s].left
          BY <2>3 DEF ShutDown, DaemonInv, SessionsEnd
        <4>2. ~deadline => ~session[s].open
          BY <2>3 DEF ShutDown, Drained, TimeLeft
        <4>3. session'[s] = IF session[s].runs THEN [session[s] EXCEPT !.open = FALSE] ELSE NoSession
          BY <2>3 DEF ShutDown
        <4> QED
          BY <1>4, <4>1, <4>2, <4>3 DEF SessionRec
      <3>2. session' \in [Sessions -> SessionRec]
        BY <2>3, <3>1 DEF ShutDown
      <3> QED
        BY <2>3, <3>1, <3>2 DEF ShutDown, SessionsEnd
    <2> QED
      BY <2>1, <2>2, <2>3
  <1> QED
    BY <1>2, <1>3, <1>5 DEF DaemonInv

LEMMA KillKeeps ==
    ASSUME DaemonInv, Kill
    PROVE  DaemonInv'
  <1>1. NoSession \in SessionRec
    BY DEF NoSession, SessionRec
  <1>2. DaemonTypeOK'
    BY DEF DaemonInv, DaemonTypeOK, Kill
  <1>3. SessionsEnd'
    BY <1>1 DEF Kill, SessionsEnd
  <1>4. Imports'
    BY DEF DaemonInv, Imports, MarkedIsWhole, Kill
  <1>5. Once'
    BY DEF DaemonInv, DaemonTypeOK, Once, Kill
  <1> QED
    BY <1>2, <1>3, <1>4, <1>5 DEF DaemonInv

\* The invariant holds of every behaviour.
THEOREM DaemonStaysInOrder == DaemonSpec => []DaemonInv
  <1>1. DaemonInit => DaemonInv
    BY DaemonInitially
  <1>2. DaemonInv /\ [DaemonNext]_daemonVars => DaemonInv'
    <2> SUFFICES ASSUME DaemonInv, [DaemonNext]_daemonVars PROVE DaemonInv'
      OBVIOUS
    <2>1. CASE DaemonNext
      BY <2>1, StartKeeps, WayUp, ImportKeeps, WayDown, KillKeeps, SessionStep DEF DaemonNext, DaemonStep
    <2>2. CASE UNCHANGED daemonVars
      <3>1. Imports' /\ Once'
        BY <2>2, ReportsKept DEF daemonVars, reportVars
      <3>2. SessionsEnd'
        BY <2>2, SessionsKept DEF daemonVars
      <3>3. DaemonTypeOK'
        BY <2>2 DEF DaemonInv, DaemonTypeOK, daemonVars
      <3> QED
        BY <3>1, <3>2, <3>3 DEF DaemonInv
    <2> QED
      BY <2>1, <2>2
  <1> QED
    BY <1>1, <1>2, PTL DEF DaemonSpec

\* However often caramelod starts, whatever fails on the way up and wherever it
\* is killed: a command whose client stayed ends before the store is closed,
\* unless the ten seconds ran out; a report marked as imported has every row;
\* and a row is recorded once unless an import was cut.
THEOREM DaemonGoesInOrder == DaemonSpec => []DaemonOrderly
  <1>1. ASSUME DaemonInv PROVE DaemonOrderly
    <2>1. CommandsEndFirst
      BY <1>1 DEF DaemonInv, SessionsEnd, CommandsEndFirst
    <2>2. MarkedIsWhole /\ RecordedOnce
      BY <1>1 DEF DaemonInv, Imports, Once, RecordedOnce
    <2> QED
      BY <1>1, <2>1, <2>2 DEF DaemonInv, DaemonOrderly
  <1> QED
    BY <1>1, DaemonStaysInOrder, PTL

-----------------------------------------------------------------------------
(* The certificates. *)

SiteRec == [parts : SUBSET Whole, file : BOOLEAN, expired : BOOLEAN, aged : BOOLEAN, gen : 0..MaxGen]
ProcRec == [pc : {"off", "load", "load2", "key", "cert", "run", "closing"},
            mode : Modes, ca : 0..MaxGen, held : Nat, closed : BOOLEAN]
PruneRec == [pc : {"idle", "lock", "locked", "done"}, all : BOOLEAN,
             removed : SUBSET (Modes \X (0..MaxGen))]

\* One root: once it is stored it is the one every process is given, and a key
\* is only made while none is.
OneRoot ==
    /\ root.cert # 0 => root.key = root.cert
    /\ edgeProc.pc \in {"key", "cert"} => root.cert = 0
    /\ edgeProc.pc = "cert" => root.key # 0
    /\ handed \subseteq {root.cert}

\* The locks held are those of the issuance and of one prune.
Serves == edgeProc.pc \in {"run", "closing"}
Locked == {p \in Prunes : pruning[p].pc = "locked"}
Locks ==
    /\ edgeProc.closed <=> edgeProc.pc = "closing"
    /\ ~Serves => obtaining = "no" /\ \A p \in Prunes : pruning[p].pc = "idle"
    /\ \A p, q \in Locked : p = q
    /\ Serves => edgeProc.held = (IF obtaining \in Whole THEN 1 ELSE 0) + (IF Locked = {} THEN 0 ELSE 1)

\* What is written in part is what is being written, or was when a process was
\* killed.
Writing ==
    /\ obtaining \in {"ask", "key", "crt"} => site[Tree].gen < MaxGen
    /\ obtaining = "crt" => site[Tree].parts = {"key"}
    /\ obtaining = "meta" => site[Tree].parts = {"key", "crt"}
    /\ Partial \subseteq torn \cup (IF obtaining \in {"crt", "meta"} THEN {Tree} ELSE {})

\* A certificate a prune removed is an older one, or there is none now.
Removed ==
    /\ \A p \in Prunes : \A x \in pruning[p].removed :
           /\ x[2] <= site[x[1]].gen
           /\ site[x[1]].file => x[2] # site[x[1]].gen
    /\ \A p, q \in Prunes : p # q => pruning[p].removed \cap pruning[q].removed = {}

CertsInv == CertsTypeOK /\ OneRoot /\ Locks /\ Writing /\ Removed

USE CertsAssumption DEF Modes, Whole

\* The types of the records, so that they can be read off the type invariant.
LEMMA CertsTypes ==
    CertsTypeOK <=>
        /\ root \in [key : 0..MaxGen, cert : 0..MaxGen]
        /\ site \in [Modes -> SiteRec]
        /\ edgeProc \in ProcRec
        /\ obtaining \in {"no", "ask"} \cup Whole
        /\ pruning \in [Prunes -> PruneRec]
        /\ handed \subseteq 1..MaxGen /\ torn \subseteq Modes
        /\ certEvents \in 0..MaxCertEvents
  BY DEF CertsTypeOK, SiteRec, ProcRec, PruneRec

LEMMA CertsTypesNext ==
    ASSUME root' \in [key : 0..MaxGen, cert : 0..MaxGen],
           site' \in [Modes -> SiteRec],
           edgeProc' \in ProcRec,
           obtaining' \in {"no", "ask"} \cup Whole,
           pruning' \in [Prunes -> PruneRec],
           handed' \subseteq 1..MaxGen, torn' \subseteq Modes,
           certEvents' \in 0..MaxCertEvents
    PROVE  CertsTypeOK'
  BY DEF CertsTypeOK, SiteRec, ProcRec, PruneRec

LEMMA TwoTrees ==
    ASSUME edgeProc \in ProcRec
    PROVE  Tree \in Modes /\ StaleTree \in Modes /\ StaleTree # Tree
  <1>1. Tree \in Modes
    BY DEF Tree, ProcRec
  <1>2. \E t \in Modes : t # Tree
    BY <1>1
  <1> QED
    BY <1>1, <1>2 DEF StaleTree

LEMMA CertsInitially ==
    ASSUME CertsInit
    PROVE  CertsInv
  <1>1. NoSite \in SiteRec /\ Off \in ProcRec /\ NoPrune \in PruneRec
    BY DEF NoSite, SiteRec, Off, ProcRec, NoPrune, PruneRec
  <1>2. CertsTypeOK
    BY <1>1, CertsTypes DEF CertsInit
  <1>3. OneRoot /\ Locks
    BY DEF CertsInit, OneRoot, Locks, Off, NoPrune, Serves, Locked
  <1>4. Writing /\ Removed
    BY DEF CertsInit, Writing, Removed, Partial, NoSite, NoPrune
  <1> QED
    BY <1>2, <1>3, <1>4 DEF CertsInv

\* The process before it serves, or the step to serving: nothing is obtained or
\* pruned.
LEMMA Before ==
    ASSUME CertsInv, UNCHANGED <<site, obtaining, pruning, torn>>, ~Serves,
           edgeProc' \in ProcRec, ~edgeProc'.closed, edgeProc'.pc # "closing",
           edgeProc'.pc = "run" => edgeProc'.held = 0
    PROVE  Locks' /\ Writing' /\ Removed'
  <1>1. obtaining = "no" /\ \A p \in Prunes : pruning[p].pc = "idle"
    BY DEF CertsInv, Locks
  <1>2. Locks'
    BY <1>1 DEF Locks, Serves, Locked
  <1>3. Writing'
    BY <1>1 DEF CertsInv, Writing, Partial
  <1>4. Removed'
    BY DEF CertsInv, Removed
  <1> QED
    BY <1>2, <1>3, <1>4

LEMMA LoadKeeps ==
    ASSUME CertsInv, (\E mode \in Modes : NewManager(mode)) \/ (\E b \in BOOLEAN : LoadCA(b)) \/ Generate
    PROVE  CertsInv'
  <1>1. CertsTypeOK /\ edgeProc \in ProcRec /\ root \in [key : 0..MaxGen, cert : 0..MaxGen]
        /\ OneRoot /\ Locks
    BY CertsTypes DEF CertsInv
  <1>2. Off \in ProcRec /\ ~Off.closed /\ Off.pc = "off"
    BY DEF Off, ProcRec
  <1>3. UNCHANGED <<site, obtaining, pruning, torn>> /\ ~Serves
    BY DEF NewManager, LoadCA, Generate, CertRest, Serves
  <1>4. ~edgeProc.closed
    BY <1>1, <1>3 DEF Locks, Serves
  <1> DEFINE Fits ==
        /\ edgeProc' \in ProcRec /\ ~edgeProc'.closed /\ edgeProc'.pc # "closing"
        /\ edgeProc'.pc = "run" => edgeProc'.held = 0
        /\ OneRoot'
        /\ root' \in [key : 0..MaxGen, cert : 0..MaxGen] /\ handed' \subseteq 1..MaxGen
        /\ certEvents' \in 0..MaxCertEvents
  <1>5. handed \subseteq 1..MaxGen /\ certEvents \in 0..MaxCertEvents
    BY <1>1, CertsTypes
  <1>6. Fits
    <2>1. ASSUME NEW mode \in Modes, NewManager(mode) PROVE Fits
      BY <1>1, <1>2, <1>5, <2>1 DEF NewManager, Off, ProcRec, OneRoot
    <2>2. ASSUME NEW b \in BOOLEAN, LoadCA(b) PROVE Fits
      <3>1. certEvents' \in 0..MaxCertEvents /\ root' = root
        BY <1>5, <2>2 DEF LoadCA, Event
      <3>2. CASE Stored /\ edgeProc' = [edgeProc EXCEPT !.pc = "run", !.ca = root.cert, !.held = 0]
                 /\ handed' = handed \cup {root.cert}
        <4>1. root.cert \in 1..MaxGen
          BY <1>1, <3>2 DEF Stored
        <4>2. /\ edgeProc' \in ProcRec /\ ~edgeProc'.closed /\ edgeProc'.pc = "run"
              /\ edgeProc'.held = 0
          BY <1>1, <1>4, <3>2, <4>1 DEF ProcRec
        <4>3. handed' \subseteq 1..MaxGen /\ handed' \subseteq {root.cert}
          BY <1>1, <1>5, <3>2, <4>1 DEF OneRoot
        <4> QED
          BY <1>1, <3>1, <4>2, <4>3 DEF OneRoot
      <3>3. CASE ~Stored /\ handed' = handed /\ edgeProc' = [edgeProc EXCEPT !.held = 1,
                              !.pc = IF edgeProc.pc = "load" THEN "load2" ELSE "key"]
        BY <1>1, <1>4, <1>5, <3>1, <3>3 DEF Stored, ProcRec, OneRoot
      <3>4. CASE edgeProc' = Off /\ handed' = handed
        BY <1>1, <1>2, <1>5, <3>1, <3>4 DEF OneRoot
      <3> QED
        BY <2>2, <3>2, <3>3, <3>4 DEF LoadCA, Missing
    <2>3. CASE Generate
      <3>1. CASE edgeProc.pc = "key"
        BY <1>1, <1>4, <1>5, <2>3, <3>1 DEF Generate, Proc, ProcRec, OneRoot
      <3>2. CASE edgeProc.pc = "cert"
        <4>1. root.key \in 1..MaxGen /\ root.cert = 0 /\ handed = {}
          BY <1>1, <1>5, <3>2 DEF OneRoot
        <4>2. root' = [root EXCEPT !.cert = root.key] /\ handed' = {root.key} /\ UNCHANGED certEvents
              /\ edgeProc' = [edgeProc EXCEPT !.pc = "run", !.ca = root.key, !.held = 0]
          BY <2>3, <3>2, <4>1 DEF Generate
        <4>3. /\ edgeProc' \in ProcRec /\ ~edgeProc'.closed /\ edgeProc'.pc = "run"
              /\ edgeProc'.held = 0
          BY <1>1, <1>4, <4>1, <4>2 DEF ProcRec
        <4>4. root'.cert = root.key /\ root'.key = root.key /\ root' \in [key : 0..MaxGen, cert : 0..MaxGen]
          BY <1>1, <4>1, <4>2
        <4> QED
          BY <1>5, <4>1, <4>2, <4>3, <4>4 DEF OneRoot
      <3> QED
        BY <2>3, <3>1, <3>2 DEF Generate
    <2> QED
      BY <2>1, <2>2, <2>3
  <1>7. Locks' /\ Writing' /\ Removed'
    BY <1>3, <1>6, Before
  <1>8. CertsTypeOK'
    BY <1>1, <1>3, <1>6, CertsTypes, CertsTypesNext
  <1> QED
    BY <1>6, <1>7, <1>8 DEF CertsInv

LEMMA HandshakeKeeps ==
    ASSUME CertsInv, Handshake
    PROVE  CertsInv'
  <1>1. obtaining = "no" /\ obtaining' = "ask" /\ Serves /\ site[Tree].gen < MaxGen
        /\ UNCHANGED <<root, site, edgeProc, pruning, handed, torn, certEvents>>
    BY DEF Handshake, Serves
  <1>2. CertsTypeOK'
    BY <1>1 DEF CertsInv, CertsTypeOK
  <1>3. OneRoot' /\ Removed'
    BY <1>1 DEF CertsInv, OneRoot, Removed
  <1>4. Locks'
    BY <1>1 DEF CertsInv, Locks, Serves, Locked
  <1>5. Writing'
    BY <1>1 DEF CertsInv, Writing, Tree, Partial
  <1> QED
    BY <1>2, <1>3, <1>4, <1>5 DEF CertsInv

\* A process that serves and takes or gives back a lock.
LEMMA HeldIs ==
    ASSUME CertsInv, NEW n \in Nat, edgeProc' = [edgeProc EXCEPT !.held = n]
    PROVE  /\ edgeProc' \in ProcRec /\ edgeProc'.held = n
           /\ edgeProc'.pc = edgeProc.pc /\ edgeProc'.mode = edgeProc.mode
           /\ edgeProc'.closed = edgeProc.closed /\ edgeProc'.ca = edgeProc.ca
  <1>1. edgeProc \in ProcRec
    BY CertsTypes DEF CertsInv
  <1> QED
    BY <1>1 DEF ProcRec

LEMMA StorageLockKeeps ==
    ASSUME CertsInv, StorageLock
    PROVE  CertsInv'
  <1>1. obtaining = "ask" /\ UNCHANGED <<root, site, pruning, handed, torn, certEvents>> /\ Serves
    BY DEF StorageLock, CertsInv, Locks
  <1>2. edgeProc \in ProcRec /\ edgeProc.held \in Nat
    BY CertsTypes DEF CertsInv, ProcRec
  <1>3. CASE obtaining' = "no" /\ UNCHANGED edgeProc
    <2>1. CertsTypeOK'
      BY <1>1, <1>3 DEF CertsInv, CertsTypeOK
    <2>2. OneRoot' /\ Removed'
      BY <1>1, <1>3 DEF CertsInv, OneRoot, Removed
    <2>3. Locks'
      BY <1>1, <1>3 DEF CertsInv, Locks, Serves, Locked
    <2>4. Writing'
      BY <1>1, <1>3 DEF CertsInv, Writing, Tree, Partial
    <2> QED
      BY <2>1, <2>2, <2>3, <2>4 DEF CertsInv
  <1>4. CASE ~edgeProc.closed /\ obtaining' = "key" /\ edgeProc' = [edgeProc EXCEPT !.held = edgeProc.held + 1]
    <2>1. /\ edgeProc' \in ProcRec /\ edgeProc'.held = edgeProc.held + 1
          /\ edgeProc'.pc = edgeProc.pc /\ edgeProc'.mode = edgeProc.mode
          /\ edgeProc'.closed = edgeProc.closed
      BY <1>2, <1>4, HeldIs
    <2>2. CertsTypeOK'
      BY <1>1, <1>4, <2>1, CertsTypes, CertsTypesNext DEF CertsInv
    <2>3. OneRoot' /\ Removed'
      BY <1>1, <2>1 DEF CertsInv, OneRoot, Removed
    <2>4. Locks'
      BY <1>1, <1>2, <1>4, <2>1 DEF CertsInv, Locks, Serves, Locked
    <2>5. Writing'
      BY <1>1, <1>4, <2>1 DEF CertsInv, Writing, Tree, Partial
    <2> QED
      BY <2>2, <2>3, <2>4, <2>5 DEF CertsInv
  <1> QED
    BY <1>3, <1>4 DEF StorageLock, Proc

\* A handshake that holds the lock of the store is never refused a write.
LEMMA NotRefused ==
    ASSUME CertsInv, obtaining \in Whole
    PROVE  ~Refused /\ Serves /\ edgeProc.held >= 1 /\ edgeProc.held \in Nat
  <1>1. edgeProc.held \in Nat /\ Serves
    BY CertsTypes DEF CertsInv, ProcRec, Locks
  <1> QED
    BY <1>1 DEF CertsInv, Locks, Refused

LEMMA StoreKeeps ==
    ASSUME CertsInv, NEW issued \in BOOLEAN, StorageStore(issued)
    PROVE  CertsInv'
  <1>1. /\ obtaining \in Whole /\ UNCHANGED <<root, pruning, handed, certEvents>>
        /\ ~Refused /\ Serves /\ edgeProc.held >= 1 /\ edgeProc.held \in Nat
    BY NotRefused DEF StorageStore
  <1>2. edgeProc \in ProcRec /\ site \in [Modes -> SiteRec] /\ torn \in SUBSET Modes
    BY CertsTypes DEF CertsInv
  <1>3. Tree \in Modes
    BY <1>2, TwoTrees
  <1>4. /\ obtaining = "crt" => site[Tree].parts = {"key"}
        /\ obtaining = "meta" => site[Tree].parts = {"key", "crt"}
        /\ obtaining \in {"key", "crt"} => site[Tree].gen < MaxGen
        /\ Partial \subseteq torn \cup (IF obtaining \in {"crt", "meta"} THEN {Tree} ELSE {})
    BY DEF CertsInv, Writing
  <1>5. CASE ~issued
    <2>1. obtaining = "key" /\ obtaining' = "no" /\ edgeProc' = [edgeProc EXCEPT !.held = edgeProc.held - 1]
          /\ UNCHANGED <<site, torn>>
      BY <1>1, <1>5 DEF StorageStore, Release, Proc
    <2>2. /\ edgeProc' \in ProcRec /\ edgeProc'.held = edgeProc.held - 1
          /\ edgeProc'.pc = edgeProc.pc /\ edgeProc'.mode = edgeProc.mode
          /\ edgeProc'.closed = edgeProc.closed
      <3>1. edgeProc.held - 1 \in Nat
        BY <1>1
      <3> QED
        BY <2>1, <3>1, HeldIs
    <2>3. CertsTypeOK'
      BY <1>1, <2>1, <2>2, CertsTypes, CertsTypesNext DEF CertsInv
    <2>4. OneRoot' /\ Removed'
      BY <1>1, <2>1, <2>2 DEF CertsInv, OneRoot, Removed
    <2>5. Locks'
      BY <1>1, <2>1, <2>2 DEF CertsInv, Locks, Serves, Locked
    <2>6. Writing'
      BY <1>4, <2>1, <2>2 DEF Writing, Partial
    <2> QED
      BY <2>3, <2>4, <2>5, <2>6 DEF CertsInv
  <1>6. CASE issued
    <2>1. PICK x : x = [parts |-> IF obtaining = "key" THEN {"key"} ELSE site[Tree].parts \cup {obtaining},
                        file |-> site[Tree].file \/ obtaining = "crt",
                        expired |-> site[Tree].expired /\ obtaining # "crt",
                        aged |-> site[Tree].aged /\ obtaining # "crt",
                        gen |-> IF obtaining = "crt" THEN site[Tree].gen + 1 ELSE site[Tree].gen]
      OBVIOUS
    <2>2. site[Tree] \in SiteRec
      BY <1>2, <1>3
    <2>3. x \in SiteRec
      BY <1>1, <1>4, <2>1, <2>2 DEF SiteRec
    <2>4. site' = [site EXCEPT ![Tree] = x]
      BY <1>1, <1>2, <1>3, <1>6, <2>1, <2>2 DEF StorageStore, SiteRec
    <2>5. /\ site' \in [Modes -> SiteRec] /\ site'[Tree] = x
          /\ \A t \in Modes \ {Tree} : site'[t] = site[t]
      BY <1>2, <1>3, <2>3, <2>4
    <2>6. /\ torn' = IF obtaining = "meta" THEN torn \ {Tree} ELSE torn
          /\ obtaining' = CASE obtaining = "key" -> "crt" [] obtaining = "crt" -> "meta" [] OTHER -> "no"
          /\ IF obtaining = "meta" THEN edgeProc' = [edgeProc EXCEPT !.held = edgeProc.held - 1]
             ELSE UNCHANGED edgeProc
      BY <1>1, <1>6 DEF StorageStore, Release, Proc
    <2>7. /\ edgeProc' \in ProcRec
          /\ edgeProc'.held = IF obtaining = "meta" THEN edgeProc.held - 1 ELSE edgeProc.held
          /\ edgeProc'.pc = edgeProc.pc /\ edgeProc'.mode = edgeProc.mode
          /\ edgeProc'.closed = edgeProc.closed
      <3>1. edgeProc.held - 1 \in Nat
        BY <1>1
      <3> QED
        BY <1>2, <2>6, <3>1, HeldIs
    <2>8. Tree' = Tree
      BY <2>7 DEF Tree
    <2>9. obtaining' \in {"crt", "meta", "no"} /\ torn' \subseteq Modes
          /\ (obtaining = "key" <=> obtaining' = "crt") /\ (obtaining = "crt" <=> obtaining' = "meta")
          /\ (obtaining = "meta" <=> obtaining' = "no")
      BY <1>1, <1>2, <2>6
    <2>10. CertsTypeOK'
      BY <1>1, <2>5, <2>7, <2>9, CertsTypes, CertsTypesNext DEF CertsInv
    <2>11. OneRoot'
      BY <1>1, <2>7 DEF CertsInv, OneRoot
    <2>12. Locks'
      BY <1>1, <2>7, <2>9 DEF CertsInv, Locks, Serves, Locked
    <2>13. Removed'
      <3>1. /\ x.gen >= site[Tree].gen
            /\ x.file => (site[Tree].file /\ x.gen = site[Tree].gen) \/ x.gen > site[Tree].gen
        BY <2>1, <2>2 DEF SiteRec
      <3>2. \A p \in Prunes : \A z \in pruning[p].removed : z[1] \in Modes /\ z[2] \in Nat
        BY CertsTypes DEF CertsInv, PruneRec
      <3>3. site[Tree].gen \in Nat /\ x.gen \in Nat
        BY <2>2, <2>3 DEF SiteRec
      <3>4. ASSUME NEW p \in Prunes, NEW z \in pruning[p].removed
            PROVE  z[2] <= site'[z[1]].gen /\ (site'[z[1]].file => z[2] # site'[z[1]].gen)
        <4>1. z[2] <= site[z[1]].gen /\ (site[z[1]].file => z[2] # site[z[1]].gen)
          BY DEF CertsInv, Removed
        <4>2. CASE z[1] = Tree
          BY <2>5, <3>1, <3>2, <3>3, <4>1, <4>2
        <4>3. CASE z[1] # Tree
          BY <2>5, <3>2, <4>1, <4>3
        <4> QED
          BY <4>2, <4>3
      <3> QED
        BY <1>1, <3>4 DEF CertsInv, Removed
    <2>14. Writing'
      <3>1. obtaining' = "crt" => x.parts = {"key"}
        BY <2>1, <2>9
      <3>2. obtaining' = "meta" => x.parts = {"key", "crt"}
        BY <1>4, <2>1, <2>9
      <3>3. obtaining' = "no" => x.parts = Whole
        BY <1>4, <2>1, <2>9
      <3>4. obtaining' = "crt" => x.gen < MaxGen
        BY <1>4, <2>1, <2>9
      <3>5. Partial' \subseteq torn' \cup (IF obtaining' \in {"crt", "meta"} THEN {Tree} ELSE {})
        BY <1>4, <2>5, <2>6, <2>9, <3>3 DEF Partial
      <3> QED
        BY <2>5, <2>8, <2>9, <3>1, <3>2, <3>4, <3>5 DEF Writing
    <2> QED
      BY <2>10, <2>11, <2>12, <2>13, <2>14 DEF CertsInv
  <1> QED
    BY <1>5, <1>6

\* A prune moves on and nothing else does.
LEMMA PruneMoves ==
    ASSUME CertsInv, NEW p \in Prunes, NEW x \in PruneRec, pruning' = [pruning EXCEPT ![p] = x],
           x.pc # "locked" \/ \A q \in Prunes : pruning[q].pc # "locked", Serves
    PROVE  /\ pruning' \in [Prunes -> PruneRec] /\ pruning'[p] = x
           /\ \A q \in Prunes \ {p} : pruning'[q] = pruning[q]
           /\ \A q, r \in Locked' : q = r
           /\ (Locked' = {}) <=> (x.pc # "locked" /\ Locked \subseteq {p})
           /\ x.pc # "locked" => Locked' = Locked \ {p}
  <1>1. pruning \in [Prunes -> PruneRec] /\ \A q, r \in Locked : q = r
    BY CertsTypes DEF CertsInv, Locks
  <1>2. pruning' \in [Prunes -> PruneRec] /\ pruning'[p] = x /\ \A q \in Prunes \ {p} : pruning'[q] = pruning[q]
    BY <1>1
  <1> QED
    BY <1>1, <1>2 DEF Locked

LEMMA PruneListKeeps ==
    ASSUME CertsInv, NEW p \in Prunes, NEW all \in BOOLEAN, PruneList(p, all)
    PROVE  CertsInv'
  <1>1. PICK x : x = [NoPrune EXCEPT !.all = all, !.pc = IF Removable(all) THEN "lock" ELSE "done"]
    OBVIOUS
  <1>2. /\ pruning' = [pruning EXCEPT ![p] = x] /\ Serves /\ pruning[p].pc = "idle"
        /\ UNCHANGED <<root, site, edgeProc, obtaining, handed, torn, certEvents>>
    BY <1>1 DEF PruneList, Serves
  <1>3. x \in PruneRec /\ x.pc \in {"lock", "done"} /\ x.removed = {}
    BY <1>1 DEF NoPrune, PruneRec
  <1>4. /\ pruning' \in [Prunes -> PruneRec] /\ pruning'[p] = x
        /\ \A q \in Prunes \ {p} : pruning'[q] = pruning[q]
        /\ \A q, r \in Locked' : q = r
        /\ Locked' = Locked
    BY <1>2, <1>3, PruneMoves DEF Locked
  <1>5. CertsTypeOK'
    BY <1>2, <1>4, CertsTypes, CertsTypesNext DEF CertsInv
  <1>6. OneRoot'
    BY <1>2 DEF CertsInv, OneRoot
  <1>7. Locks'
    BY <1>2, <1>4 DEF CertsInv, Locks, Serves
  <1>8. Writing'
    BY <1>2 DEF CertsInv, Writing, Partial, Tree
  <1>9. Removed'
    BY <1>2, <1>3, <1>4 DEF CertsInv, Removed
  <1> QED
    BY <1>5, <1>6, <1>7, <1>8, <1>9 DEF CertsInv

LEMMA PruneLockKeeps ==
    ASSUME CertsInv, NEW p \in Prunes, PruneLock(p)
    PROVE  CertsInv'
  <1>1. /\ pruning[p].pc = "lock" /\ Serves
        /\ UNCHANGED <<root, site, obtaining, handed, torn, certEvents>>
    BY DEF PruneLock, CertsInv, Locks
  <1>2. edgeProc \in ProcRec /\ edgeProc.held \in Nat /\ pruning[p] \in PruneRec /\ pruning \in [Prunes -> PruneRec]
    BY CertsTypes DEF CertsInv, ProcRec
  <1>3. PICK x : x = [pruning[p] EXCEPT !.pc = IF edgeProc.closed THEN "done" ELSE "locked"]
    OBVIOUS
  <1>4. /\ x \in PruneRec /\ x.removed = pruning[p].removed
        /\ x.pc = IF edgeProc.closed THEN "done" ELSE "locked"
    BY <1>2, <1>3 DEF PruneRec
  <1>5. /\ pruning' = [pruning EXCEPT ![p] = x]
        /\ x.pc # "locked" \/ \A q \in Prunes : pruning[q].pc # "locked"
        /\ edgeProc' = IF edgeProc.closed THEN edgeProc ELSE [edgeProc EXCEPT !.held = edgeProc.held + 1]
    BY <1>2, <1>3, <1>4 DEF PruneLock, Proc
  <1>6. /\ pruning' \in [Prunes -> PruneRec] /\ pruning'[p] = x
        /\ \A q \in Prunes \ {p} : pruning'[q] = pruning[q]
        /\ \A q, r \in Locked' : q = r
        /\ (Locked' = {}) <=> (x.pc # "locked" /\ Locked \subseteq {p})
    BY <1>1, <1>4, <1>5, PruneMoves
  <1>7. /\ edgeProc' \in ProcRec
        /\ edgeProc'.held = IF edgeProc.closed THEN edgeProc.held ELSE edgeProc.held + 1
        /\ edgeProc'.pc = edgeProc.pc /\ edgeProc'.mode = edgeProc.mode
        /\ edgeProc'.closed = edgeProc.closed
    BY <1>2, <1>5, HeldIs
  <1>8. p \notin Locked /\ (~edgeProc.closed => Locked = {})
    BY <1>1, <1>4, <1>5 DEF Locked
  <1>9. CertsTypeOK'
    BY <1>1, <1>6, <1>7, CertsTypes, CertsTypesNext DEF CertsInv
  <1>10. OneRoot'
    BY <1>1, <1>7 DEF CertsInv, OneRoot
  <1>11. Locks'
    BY <1>1, <1>2, <1>4, <1>6, <1>7, <1>8 DEF CertsInv, Locks, Serves
  <1>12. Writing'
    BY <1>1, <1>7 DEF CertsInv, Writing, Partial, Tree
  <1>13. Removed'
    BY <1>1, <1>4, <1>6 DEF CertsInv, Removed
  <1> QED
    BY <1>9, <1>10, <1>11, <1>12, <1>13 DEF CertsInv

\* The certificate it removes is there, so no prune removed that one before.
LEMMA PruneDeleteKeeps ==
    ASSUME CertsInv, NEW p \in Prunes, PruneDelete(p)
    PROVE  CertsInv'
  <1>1. /\ pruning[p].pc = "locked" /\ Serves
        /\ UNCHANGED <<root, obtaining, handed, certEvents>>
    BY DEF PruneDelete, CertsInv, Locks
  <1>2. /\ edgeProc \in ProcRec /\ edgeProc.held \in Nat /\ pruning[p] \in PruneRec
        /\ pruning \in [Prunes -> PruneRec] /\ site \in [Modes -> SiteRec] /\ torn \subseteq Modes
    BY CertsTypes DEF CertsInv, ProcRec
  <1>3. Tree \in Modes /\ StaleTree \in Modes /\ StaleTree # Tree
    BY <1>2, TwoTrees
  <1>4. Locked = {p} /\ edgeProc.held >= 1
    BY <1>1, <1>2 DEF CertsInv, Locks, Locked
  <1>5. PICK x : x = IF StillRemovable(p)
                     THEN [pruning[p] EXCEPT !.pc = "done", !.removed = {<<StaleTree, site[StaleTree].gen>>}]
                     ELSE [pruning[p] EXCEPT !.pc = "done"]
    OBVIOUS
  <1>6. site[StaleTree] \in SiteRec /\ site[StaleTree].gen \in 0..MaxGen
    BY <1>2, <1>3 DEF SiteRec
  <1>7. /\ x \in PruneRec /\ x.pc = "done"
        /\ x.removed = IF StillRemovable(p) THEN {<<StaleTree, site[StaleTree].gen>>} ELSE pruning[p].removed
    <2>1. <<StaleTree, site[StaleTree].gen>> \in Modes \X (0..MaxGen)
      BY <1>3, <1>6
    <2>2. PICK m : m = {<<StaleTree, site[StaleTree].gen>>}
      OBVIOUS
    <2>3. m \in SUBSET (Modes \X (0..MaxGen))
      BY <2>1, <2>2
    <2>4. x = IF StillRemovable(p) THEN [pruning[p] EXCEPT !.pc = "done", !.removed = m]
              ELSE [pruning[p] EXCEPT !.pc = "done"]
      BY <1>5, <2>2
    <2>5. /\ x \in PruneRec /\ x.pc = "done"
          /\ x.removed = IF StillRemovable(p) THEN m ELSE pruning[p].removed
      BY <1>2, <2>3, <2>4 DEF PruneRec
    <2> QED
      BY <2>2, <2>5
  <1>8. /\ pruning' = [pruning EXCEPT ![p] = x]
        /\ edgeProc' = [edgeProc EXCEPT !.held = edgeProc.held - 1]
    BY <1>2, <1>5 DEF PruneDelete, Release, Proc
  <1>9. /\ pruning' \in [Prunes -> PruneRec] /\ pruning'[p] = x
        /\ \A q \in Prunes \ {p} : pruning'[q] = pruning[q]
        /\ \A q, r \in Locked' : q = r
        /\ Locked' = {}
    BY <1>1, <1>4, <1>7, <1>8, PruneMoves
  <1>10. /\ edgeProc' \in ProcRec /\ edgeProc'.held = edgeProc.held - 1
         /\ edgeProc'.pc = edgeProc.pc /\ edgeProc'.mode = edgeProc.mode
         /\ edgeProc'.closed = edgeProc.closed
    <2>1. edgeProc.held - 1 \in Nat
      BY <1>2, <1>4
    <2> QED
      BY <1>8, <2>1, HeldIs
  <1>11. PICK y : y = [NoSite EXCEPT !.gen = site[StaleTree].gen]
    OBVIOUS
  <1>12. y \in SiteRec /\ y.gen = site[StaleTree].gen /\ ~y.file /\ y.parts = {}
    BY <1>6, <1>11 DEF NoSite, SiteRec
  <1>13. /\ StillRemovable(p) => site' = [site EXCEPT ![StaleTree] = y] /\ torn' = torn \ {StaleTree}
         /\ ~StillRemovable(p) => site' = site /\ torn' = torn
    BY <1>11 DEF PruneDelete
  <1>14. /\ site' \in [Modes -> SiteRec] /\ \A t \in Modes \ {StaleTree} : site'[t] = site[t]
         /\ site'[StaleTree] = IF StillRemovable(p) THEN y ELSE site[StaleTree]
         /\ torn' \subseteq Modes
    BY <1>2, <1>3, <1>12, <1>13
  <1>15. CertsTypeOK'
    BY <1>1, <1>9, <1>10, <1>14, CertsTypes, CertsTypesNext DEF CertsInv
  <1>16. OneRoot'
    BY <1>1, <1>10 DEF CertsInv, OneRoot
  <1>17. Locks'
    BY <1>1, <1>2, <1>4, <1>9, <1>10 DEF CertsInv, Locks, Serves
  <1>18. Writing'
    <2>1. Tree' = Tree /\ site'[Tree] = site[Tree]
      BY <1>3, <1>10, <1>14 DEF Tree
    <2>2. Partial' \subseteq torn' \cup (IF obtaining' \in {"crt", "meta"} THEN {Tree} ELSE {})
      BY <1>1, <1>3, <1>12, <1>13, <1>14 DEF CertsInv, Writing, Partial
    <2> QED
      BY <1>1, <2>1, <2>2 DEF CertsInv, Writing
  <1>19. Removed'
    <2>1. \A q \in Prunes : \A z \in pruning[q].removed : z[1] \in Modes
      BY CertsTypes DEF CertsInv, PruneRec
    <2>2. StillRemovable(p) => site[StaleTree].file
      BY DEF StillRemovable, Removable
    <2>3. \A t \in Modes : site'[t].gen = site[t].gen /\ (site'[t].file => site[t].file)
      BY <1>12, <1>14
    <2>4. \A q \in Prunes : \A z \in pruning[q].removed :
            z[2] <= site[z[1]].gen /\ (site[z[1]].file => z[2] # site[z[1]].gen)
      BY DEF CertsInv, Removed
    <2>5. StillRemovable(p) => \A q \in Prunes : <<StaleTree, site[StaleTree].gen>> \notin pruning[q].removed
      BY <2>2, <2>4
    <2>6. \A q \in Prunes : \A z \in pruning'[q].removed :
            z[2] <= site'[z[1]].gen /\ (site'[z[1]].file => z[2] # site'[z[1]].gen)
      <3> SUFFICES ASSUME NEW q \in Prunes, NEW z \in pruning'[q].removed
                   PROVE  z[2] <= site'[z[1]].gen /\ (site'[z[1]].file => z[2] # site'[z[1]].gen)
        OBVIOUS
      <3>1. CASE z \in pruning[q].removed
        BY <2>1, <2>3, <2>4, <3>1
      <3>2. CASE StillRemovable(p) /\ z = <<StaleTree, site[StaleTree].gen>>
        <4>1. z[1] = StaleTree /\ z[2] = site[StaleTree].gen
          BY <3>2
        <4> QED
          BY <1>3, <1>6, <1>12, <1>14, <3>2, <4>1
      <3> QED
        BY <1>7, <1>9, <3>1, <3>2
    <2>7. \A q, r \in Prunes : q # r => pruning'[q].removed \cap pruning'[r].removed = {}
      <3>1. \A q, r \in Prunes : q # r => pruning[q].removed \cap pruning[r].removed = {}
        BY DEF CertsInv, Removed
      <3>2. CASE StillRemovable(p)
        BY <1>7, <1>9, <2>5, <3>1, <3>2
      <3>3. CASE ~StillRemovable(p)
        BY <1>7, <1>9, <3>1, <3>3
      <3> QED
        BY <3>2, <3>3
    <2> QED
      BY <2>6, <2>7 DEF Removed
  <1> QED
    BY <1>15, <1>16, <1>17, <1>18, <1>19 DEF CertsInv

LEMMA CloseKeeps ==
    ASSUME CertsInv, CloseEdge
    PROVE  CertsInv'
  <1>1. edgeProc \in ProcRec
    BY CertsTypes DEF CertsInv
  <1>2. /\ edgeProc.pc = "run" /\ UNCHANGED <<root, handed, certEvents, site, obtaining, pruning, torn>>
        /\ edgeProc' \in ProcRec /\ edgeProc'.pc = "closing" /\ edgeProc'.closed
        /\ edgeProc'.held = edgeProc.held /\ edgeProc'.mode = edgeProc.mode
    BY <1>1 DEF CloseEdge, CertRest, ProcRec
  <1>3. CertsTypeOK'
    BY <1>2, CertsTypes, CertsTypesNext DEF CertsInv
  <1>4. OneRoot' /\ Removed'
    BY <1>2 DEF CertsInv, OneRoot, Removed
  <1>5. Locks'
    BY <1>2 DEF CertsInv, Locks, Serves, Locked
  <1>6. Writing'
    BY <1>2 DEF CertsInv, Writing, Partial, Tree
  <1> QED
    BY <1>3, <1>4, <1>5, <1>6 DEF CertsInv

\* The process is gone: stopped once it held no lock, or killed anywhere.
LEMMA GoneKeeps ==
    ASSUME CertsInv, EdgeClosed \/ Killed
    PROVE  CertsInv'
  <1>1. Off \in ProcRec /\ ~Off.closed /\ Off.pc = "off"
    BY DEF Off, ProcRec
  <1>2. /\ edgeProc' = Off /\ obtaining' = "no" /\ UNCHANGED <<root, site, handed>>
        /\ pruning' = [p \in Prunes |-> [NoPrune EXCEPT !.removed = pruning[p].removed]]
        /\ certEvents' \in 0..MaxCertEvents
    BY CertsTypes DEF EdgeClosed, Killed, Gone, Event, CertsInv
  <1>3. pruning \in [Prunes -> PruneRec] /\ torn \subseteq Modes /\ edgeProc.held \in Nat
    BY CertsTypes DEF CertsInv, ProcRec
  <1>4. \A p \in Prunes : /\ pruning'[p] \in PruneRec /\ pruning'[p].pc = "idle"
                          /\ pruning'[p].removed = pruning[p].removed
    BY <1>2, <1>3 DEF NoPrune, PruneRec
  <1>5. torn' \subseteq Modes /\ Partial \subseteq torn'
    <2>1. CASE EdgeClosed
      <3>1. obtaining \notin Whole
        BY <1>3, <2>1 DEF EdgeClosed, AllReleased, CertsInv, Locks, Serves
      <3> QED
        BY <1>3, <2>1, <3>1 DEF EdgeClosed, Gone, CertsInv, Writing
    <2>2. CASE Killed
      BY <1>3, <2>2 DEF Killed, Gone, Partial
    <2> QED
      BY <2>1, <2>2
  <1>6. CertsTypeOK'
    <2>1. pruning' \in [Prunes -> PruneRec]
      BY <1>2, <1>4
    <2> QED
      BY <1>1, <1>2, <1>5, <2>1, CertsTypes, CertsTypesNext DEF CertsInv
  <1>7. OneRoot'
    BY <1>1, <1>2 DEF CertsInv, OneRoot
  <1>8. Locks'
    BY <1>1, <1>2, <1>4 DEF Locks, Serves, Locked
  <1>9. Writing'
    BY <1>2, <1>5 DEF Writing, Partial
  <1>10. Removed'
    BY <1>2, <1>4 DEF CertsInv, Removed
  <1> QED
    BY <1>6, <1>7, <1>8, <1>9, <1>10 DEF CertsInv

LEMMA AgeKeeps ==
    ASSUME CertsInv, NEW t \in Modes, Age(t)
    PROVE  CertsInv'
  <1>1. UNCHANGED <<root, edgeProc, obtaining, pruning, handed, torn>> /\ certEvents' \in 0..MaxCertEvents
    BY CertsTypes DEF Age, Event, CertsInv
  <1>2. site \in [Modes -> SiteRec] /\ site[t] \in SiteRec
    BY CertsTypes DEF CertsInv
  <1>3. PICK x : x = [site[t] EXCEPT !.aged = site[t].expired, !.expired = TRUE]
    OBVIOUS
  <1>4. x \in SiteRec /\ x.gen = site[t].gen /\ x.file = site[t].file /\ x.parts = site[t].parts
    BY <1>2, <1>3 DEF SiteRec
  <1>5. site' = [site EXCEPT ![t] = x]
    BY <1>2, <1>3 DEF Age
  <1>6. /\ site' \in [Modes -> SiteRec]
        /\ \A u \in Modes : site'[u].gen = site[u].gen /\ site'[u].file = site[u].file
                            /\ site'[u].parts = site[u].parts
    BY <1>2, <1>4, <1>5
  <1>7. CertsTypeOK'
    BY <1>1, <1>6, CertsTypes, CertsTypesNext DEF CertsInv
  <1>8. OneRoot'
    BY <1>1 DEF CertsInv, OneRoot
  <1>9. Locks'
    BY <1>1 DEF CertsInv, Locks, Serves, Locked
  <1>10. Tree \in Modes
    BY TwoTrees, CertsTypes DEF CertsInv
  <1>11. Writing'
    BY <1>1, <1>6, <1>10 DEF CertsInv, Writing, Partial, Tree
  <1>12. Removed'
    <2>1. \A p \in Prunes : \A z \in pruning[p].removed : z[1] \in Modes
      BY CertsTypes DEF CertsInv, PruneRec
    <2> QED
      BY <1>1, <1>6, <2>1 DEF CertsInv, Removed
  <1> QED
    BY <1>7, <1>8, <1>9, <1>11, <1>12 DEF CertsInv

\* The invariant holds of every behaviour.
THEOREM CertsStayInOrder == CertsSpec => []CertsInv
  <1>1. CertsInit => CertsInv
    BY CertsInitially
  <1>2. CertsInv /\ [CertsNext]_certsVars => CertsInv'
    <2> SUFFICES ASSUME CertsInv, [CertsNext]_certsVars PROVE CertsInv'
      OBVIOUS
    <2>1. CASE CertsNext
      BY <2>1, LoadKeeps, HandshakeKeeps, StorageLockKeeps, StoreKeeps, PruneListKeeps,
         PruneLockKeeps, PruneDeleteKeeps, CloseKeeps, GoneKeeps, AgeKeeps DEF CertsNext
    <2>2. CASE UNCHANGED certsVars
      <3>1. CertsTypeOK' /\ OneRoot' /\ Removed'
        BY <2>2 DEF certsVars, CertsInv, CertsTypeOK, OneRoot, Removed
      <3>2. Locks' /\ Writing'
        BY <2>2 DEF certsVars, CertsInv, Locks, Serves, Locked, Writing, Partial, Tree
      <3> QED
        BY <3>1, <3>2 DEF CertsInv
    <2> QED
      BY <2>1, <2>2
  <1> QED
    BY <1>1, <1>2, PTL DEF CertsSpec

\* For any number of prunes, restarts, kills and unreadable files: the machine
\* hands out one root, a stop that waited leaves no certificate half written,
\* and no certificate is removed by two prunes.
THEOREM CertsAreKept == CertsSpec => []CertsKept
  <1>1. ASSUME CertsInv PROVE CertsKept
    <2>1. RootKept
      <3>1. handed \in SUBSET {root.cert}
        BY <1>1 DEF CertsInv, OneRoot
      <3>2. IsFiniteSet({root.cert}) /\ Cardinality({root.cert}) = 1
        BY FS_Singleton
      <3>3. Cardinality(handed) <= Cardinality({root.cert})
        BY <3>1, <3>2, FS_Subset
      <3> QED
        BY <3>2, <3>3 DEF RootKept
    <2>2. StoppedWhole
      BY <1>1 DEF CertsInv, Locks, Serves, Writing, StoppedWhole
    <2>3. PrunedOnce
      BY <1>1 DEF CertsInv, Removed, PrunedOnce
    <2> QED
      BY <1>1, <2>1, <2>2, <2>3 DEF CertsInv, CertsKept
  <1> QED
    BY <1>1, CertsStayInOrder, PTL

-----------------------------------------------------------------------------
(* The firewall. *)

\* The needed ports that have a rule of their own.
Opened(rules) == {p \in Wanted : \E i \in DOMAIN rules : rules[i] = AllowRule(p)}

FwTypes ==
    /\ fw \in [manager : Managers \cup {"none"}, policy : [1..2 -> Acts],
               rules : Seq(RuleSet(fw.manager))]
    /\ unread \subseteq Managers

\* Every rule beyond the operator's is one needed port's.
FwInv == FwTypes /\ Len(fw.rules) <= MaxRules + Cardinality(Opened(fw.rules))

\* The first of the rules that hit.
LEMMA FirstIs ==
    ASSUME NEW hits \in SUBSET (Nat \ {0}), hits # {}
    PROVE  First(hits) \in hits /\ First(hits) # 0 /\ \A j \in hits : First(hits) <= j
  <1>1. PICK x \in hits : \A y \in hits : ~(<<y, x>> \in OpToRel(<, Nat))
    BY WFMin, NatLessThanWellFounded, Zenon
  <1>2. \A y \in hits : ~(y < x)
    BY <1>1 DEF OpToRel
  <1>3. \A y \in hits : x <= y
    BY <1>2
  <1> QED
    BY <1>3 DEF First

LEMMA FirstNone == First({}) = 0
  BY DEF First

\* A rule of a listing.
LEMMA RuleIs ==
    ASSUME NEW m, NEW r \in RuleSet(m)
    PROVE  /\ r.kind \in KindsOf(m) /\ r.act \in Acts /\ r.chain \in {1, 2}
           /\ m # "nftables" => r.chain = 1
  BY DEF RuleSet

\* The filter in force, rule by rule.
LEMMA FwIs ==
    ASSUME FwTypes
    PROVE  /\ fw.manager \in Managers \cup {"none"} /\ fw.policy \in [1..2 -> Acts]
           /\ DOMAIN fw.rules \subseteq Nat \ {0}
           /\ \A i \in DOMAIN fw.rules :
                  /\ fw.rules[i].kind \in KindsOf(fw.manager) /\ fw.rules[i].act \in Acts
                  /\ fw.rules[i].chain \in {1, 2}
                  /\ fw.manager # "nftables" => fw.rules[i].chain = 1
           /\ Chains(fw) \subseteq {1, 2}
           /\ fw.manager # "nftables" => Chains(fw) = {1}
  <1>1. fw.manager \in Managers \cup {"none"} /\ fw.policy \in [1..2 -> Acts]
        /\ fw.rules \in Seq(RuleSet(fw.manager))
    BY DEF FwTypes
  <1>2. DOMAIN fw.rules \subseteq Nat \ {0} /\ \A i \in DOMAIN fw.rules : fw.rules[i] \in RuleSet(fw.manager)
    BY <1>1
  <1>3. \A i \in DOMAIN fw.rules :
                  /\ fw.rules[i].kind \in KindsOf(fw.manager) /\ fw.rules[i].act \in Acts
                  /\ fw.rules[i].chain \in {1, 2}
                  /\ fw.manager # "nftables" => fw.rules[i].chain = 1
    BY <1>2, RuleIs
  <1> QED
    BY <1>1, <1>2, <1>3 DEF Chains

\* What one chain does with a packet, by the rules of it that apply.
LEMMA ChainIs ==
    ASSUME FwTypes, NEW c \in {1, 2}, NEW p
    PROVE  LET hits == {i \in DOMAIN fw.rules : fw.rules[i].chain = c /\ Applies(fw.rules[i], p)}
           IN /\ hits = {} => (ChainPasses(fw, c, p) <=> fw.policy[c] = "accept")
              /\ hits # {} => /\ First(hits) \in hits
                              /\ ChainPasses(fw, c, p) <=> fw.rules[First(hits)].act = "accept"
  <1> DEFINE hits == {i \in DOMAIN fw.rules : fw.rules[i].chain = c /\ Applies(fw.rules[i], p)}
  <1>1. hits \in SUBSET (Nat \ {0})
    BY FwIs
  <1>2. ChainPasses(fw, c, p) <=> (IF First(hits) = 0 THEN fw.policy[c] ELSE fw.rules[First(hits)].act) = "accept"
    BY DEF ChainPasses
  <1> HIDE DEF hits
  <1>3. hits = {} => (ChainPasses(fw, c, p) <=> fw.policy[c] = "accept")
    BY <1>2, FirstNone
  <1>4. hits # {} => /\ First(hits) \in hits
                     /\ ChainPasses(fw, c, p) <=> fw.rules[First(hits)].act = "accept"
    BY <1>1, <1>2, FirstIs
  <1> QED
    BY <1>3, <1>4 DEF hits

\* ufw: the rule that decides is the rule the filter applies.
LEMMA UfwReads ==
    ASSUME FwTypes, fw.manager = "ufw", ~Hidden(fw), NEW p
    PROVE  /\ UfwDecide(fw, p) = "open" => ChainPasses(fw, 1, p)
           /\ UfwDecide(fw, p) = "blocked" => ~ChainPasses(fw, 1, p)
  <1> DEFINE hits == {i \in DOMAIN fw.rules : fw.rules[i].chain = 1 /\ Applies(fw.rules[i], p)}
             decides == {i \in DOMAIN fw.rules : Decides(fw.rules[i], p)}
  <1>1. \A i \in DOMAIN fw.rules : fw.rules[i].chain = 1 /\ fw.rules[i].kind # "all" /\ fw.rules[i].act \in Acts
    BY FwIs DEF KindsOf, UfwKinds
  <1>2. hits = decides
    BY <1>1 DEF Applies, Decides
  <1>3. /\ hits = {} => (ChainPasses(fw, 1, p) <=> fw.policy[1] = "accept")
        /\ hits # {} => /\ First(hits) \in hits
                        /\ ChainPasses(fw, 1, p) <=> fw.rules[First(hits)].act = "accept"
    BY ChainIs
  <1>4. hits \in SUBSET (Nat \ {0})
    BY FwIs
  <1>5. fw.policy[1] \in Acts
    BY FwIs
  <1>6. CASE hits = {}
    <2>1. First(decides) = 0
      BY <1>2, <1>6, FirstNone
    <2>2. UfwDecide(fw, p) = "open" => fw.policy[1] = "accept"
      BY <2>1 DEF UfwDecide
    <2>3. UfwDecide(fw, p) = "blocked" => fw.policy[1] # "accept"
      BY <2>1 DEF UfwDecide
    <2> QED
      BY <1>3, <1>6, <2>2, <2>3
  <1>7. CASE hits # {}
    <2>1. First(decides) # 0 /\ First(decides) = First(hits)
      BY <1>2, <1>4, <1>7, FirstIs
    <2>2. UfwDecide(fw, p) = IF fw.rules[First(decides)].act = "accept" THEN "open" ELSE "blocked"
      BY <2>1 DEF UfwDecide
    <2> QED
      BY <1>3, <1>7, <2>1, <2>2
  <1> QED
    BY <1>6, <1>7

\* firewalld: what the zone lists is what it lets in.
LEMMA ZoneReads ==
    ASSUME FwTypes, fw.manager = "firewalld", ~Hidden(fw), NEW p
    PROVE  /\ ZoneDecide(fw, p) = "open" => Passes(fw, p)
           /\ ZoneDecide(fw, p) = "blocked" => ~Passes(fw, p)
  <1> DEFINE hits == {i \in DOMAIN fw.rules :
                        \/ fw.rules[i].kind = "unknownservice"
                        \/ fw.rules[i].kind = "service" /\ Matches(fw.rules[i], p)}
             listed == \E i \in DOMAIN fw.rules :
                        fw.rules[i].kind \in {"ports", "sourceport"} /\ Matches(fw.rules[i], p)
             rich == \E i \in DOMAIN fw.rules : fw.rules[i].kind = "rich"
  <1>1. \A i \in DOMAIN fw.rules : fw.rules[i].kind \notin {"unknownservice", "sourceport", "rich"}
    BY DEF Hidden
  <1>2. Passes(fw, p) <=>
           \/ fw.policy[1] = "accept"
           \/ \E i \in DOMAIN fw.rules : fw.rules[i].kind \in {"ports", "service"} /\ Matches(fw.rules[i], p)
    BY DEF Passes
  <1>3. hits \in SUBSET (Nat \ {0})
    BY FwIs
  <1>4. ZoneDecide(fw, p) = IF listed THEN "open"
                            ELSE IF First(hits) # 0 THEN IF fw.rules[First(hits)].kind = "service" THEN "open" ELSE "unknown"
                            ELSE IF rich THEN "unknown"
                            ELSE IF fw.policy[1] = "accept" THEN "open" ELSE "blocked"
    BY DEF ZoneDecide
  <1>5. CASE listed
    BY <1>1, <1>2, <1>4, <1>5
  <1>6. CASE ~listed /\ hits # {}
    <2>1. First(hits) \in hits /\ First(hits) # 0
      BY <1>3, <1>6, FirstIs
    <2> QED
      BY <1>1, <1>2, <1>4, <1>6, <2>1
  <1>7. CASE ~listed /\ hits = {}
    <2>1. First(hits) = 0
      BY <1>7, FirstNone
    <2>2. ~\E i \in DOMAIN fw.rules : fw.rules[i].kind \in {"ports", "service"} /\ Matches(fw.rules[i], p)
      BY <1>7
    <2> HIDE DEF hits, listed, rich
    <2> QED
      BY <1>2, <1>4, <1>7, <2>1, <2>2
  <1> QED
    BY <1>5, <1>6, <1>7

\* nftables: no rule drops the port in any chain, and no chain drops by policy.
LEMMA NftReads ==
    ASSUME FwTypes, fw.manager = "nftables", ~Hidden(fw), NEW p, NftDecide(fw, p) = "open"
    PROVE  \A c \in Chains(fw) : ChainPasses(fw, c, p)
  <1> DEFINE stops == {i \in DOMAIN fw.rules :
                        \/ Unreadable(fw.rules[i])
                        \/ /\ fw.rules[i].kind \in {"ports", "scoped"}
                           /\ Matches(fw.rules[i], p) /\ fw.rules[i].act = "drop"}
  <1>1. stops \in SUBSET (Nat \ {0})
    BY FwIs
  <1>2. First(stops) = 0 /\ ~DropsByPolicy(fw)
    <2>1. First(stops) = 0
      BY DEF NftDecide
    <2> QED
      BY <2>1 DEF NftDecide
  <1>3. stops = {}
    BY <1>1, <1>2, FirstIs
  <1> SUFFICES ASSUME NEW c \in Chains(fw) PROVE ChainPasses(fw, c, p)
    OBVIOUS
  <1> DEFINE hits == {i \in DOMAIN fw.rules : fw.rules[i].chain = c /\ Applies(fw.rules[i], p)}
  <1>4. c \in {1, 2} /\ fw.policy[c] \in Acts
    BY FwIs
  <1>5. fw.policy[c] = "accept"
    BY <1>2, <1>4 DEF DropsByPolicy, Acts
  <1>6. \A i \in hits : fw.rules[i].act = "accept"
    <2>1. \A i \in DOMAIN fw.rules : fw.rules[i].kind # "all" /\ fw.rules[i].act \in Acts
      BY FwIs DEF KindsOf, NftKinds
    <2> QED
      BY <1>3, <2>1 DEF Applies, Acts
  <1>7. /\ hits = {} => (ChainPasses(fw, c, p) <=> fw.policy[c] = "accept")
        /\ hits # {} => /\ First(hits) \in hits
                        /\ ChainPasses(fw, c, p) <=> fw.rules[First(hits)].act = "accept"
    BY <1>4, ChainIs
  <1> QED
    BY <1>5, <1>6, <1>7

\* iptables: no rule of the chain drops the port, nor does its policy.
LEMMA IptReads ==
    ASSUME FwTypes, fw.manager = "iptables", ~Hidden(fw), NEW p, IptDecide(fw, p) = "open"
    PROVE  ChainPasses(fw, 1, p)
  <1> DEFINE hits == {i \in DOMAIN fw.rules : fw.rules[i].chain = 1 /\ Applies(fw.rules[i], p)}
             hit(r) == r.kind = "all" \/ (r.kind \in {"ports", "scoped"} /\ Matches(r, p))
  <1>1. ~\E i \in DOMAIN fw.rules : hit(fw.rules[i]) /\ fw.rules[i].act = "drop"
    BY DEF IptDecide
  <1>2. fw.policy[1] = "accept"
    BY <1>1 DEF IptDecide
  <1>3. \A i \in hits : fw.rules[i].act = "accept"
    <2>1. \A i \in DOMAIN fw.rules : fw.rules[i].act \in Acts
      BY FwIs
    <2> QED
      BY <1>1, <2>1 DEF Applies, Acts
  <1>4. /\ hits = {} => (ChainPasses(fw, 1, p) <=> fw.policy[1] = "accept")
        /\ hits # {} => /\ First(hits) \in hits
                        /\ ChainPasses(fw, 1, p) <=> fw.rules[First(hits)].act = "accept"
    BY ChainIs
  <1> QED
    BY <1>2, <1>3, <1>4

\* The four together.
LEMMA ReadersRead == FwTypes => OpenMeansPasses /\ WritableBlockedDrops
  <1> SUFFICES ASSUME FwTypes PROVE OpenMeansPasses /\ WritableBlockedDrops
    OBVIOUS
  <1>1. /\ fw.manager \in Managers \cup {"none"}
        /\ fw.manager # "nftables" => Chains(fw) = {1}
    BY FwIs
  <1>2. ASSUME NEW p \in PortSpecs, ~Hidden(fw)
        PROVE  /\ Says(fw, p) = "open" => Passes(fw, p)
               /\ Openable(fw.manager) /\ Says(fw, p) = "blocked" => ~Passes(fw, p)
    <2>1. CASE fw.manager = "none"
      BY <2>1 DEF Passes, Openable
    <2>2. CASE fw.manager # "none" /\ fw.manager \in unread
      BY <2>2 DEF Says
    <2>3. CASE fw.manager = "ufw" /\ fw.manager \notin unread
      <3>1. Says(fw, p) = UfwDecide(fw, p) /\ (Passes(fw, p) <=> ChainPasses(fw, 1, p))
        BY <1>1, <2>3 DEF Says, Passes
      <3> QED
        BY <1>2, <2>3, <3>1, UfwReads
    <2>4. CASE fw.manager = "firewalld" /\ fw.manager \notin unread
      <3>1. Says(fw, p) = ZoneDecide(fw, p)
        BY <2>4 DEF Says
      <3> QED
        BY <1>2, <2>4, <3>1, ZoneReads
    <2>5. CASE fw.manager = "nftables" /\ fw.manager \notin unread
      <3>1. Says(fw, p) = NftDecide(fw, p) /\ (Passes(fw, p) <=> \A c \in Chains(fw) : ChainPasses(fw, c, p))
        BY <2>5 DEF Says, Passes
      <3> QED
        BY <1>2, <2>5, <3>1, NftReads DEF Openable
    <2>6. CASE fw.manager = "iptables" /\ fw.manager \notin unread
      <3>1. Says(fw, p) = IptDecide(fw, p) /\ (Passes(fw, p) <=> ChainPasses(fw, 1, p))
        BY <1>1, <2>6 DEF Says, Passes
      <3> QED
        BY <1>2, <2>6, <3>1, IptReads DEF Openable
    <2> QED
      BY <1>1, <2>1, <2>2, <2>3, <2>4, <2>5, <2>6 DEF Managers
  <1> QED
    BY <1>2 DEF OpenMeansPasses, WritableBlockedDrops

-----------------------------------------------------------------------------
LEMMA OpenedCount == \A rules : IsFiniteSet(Opened(rules)) /\ Cardinality(Opened(rules)) \in Nat
                                /\ Cardinality(Opened(rules)) <= Cardinality(Wanted)
  <1> SUFFICES ASSUME NEW rules
               PROVE  IsFiniteSet(Opened(rules)) /\ Cardinality(Opened(rules)) \in Nat
                      /\ Cardinality(Opened(rules)) <= Cardinality(Wanted)
    OBVIOUS
  <1>1. Opened(rules) \in SUBSET Wanted /\ IsFiniteSet(Wanted)
    BY FirewallAssumption DEF Opened
  <1> QED
    BY <1>1, FS_Subset, FS_CardinalityType

LEMMA FwStarts == FirewallInit => FwInv
  <1> SUFFICES ASSUME FirewallInit PROVE FwInv
    OBVIOUS
  <1>1. fw.manager = "none" /\ fw.rules = << >> /\ unread = {}
    BY DEF FirewallInit
  <1>2. fw.policy \in [1..2 -> Acts] /\ fw.policy = << "accept", "accept" >>
    BY DEF FirewallInit, Acts
  <1>3. FwTypes
    BY <1>1, <1>2 DEF FwTypes, FirewallInit
  <1>4. Len(fw.rules) = 0 /\ MaxRules \in Nat
    BY <1>1, FirewallAssumption
  <1> QED
    BY <1>3, <1>4, OpenedCount DEF FwInv

LEMMA PutInForceKeeps ==
    ASSUME FwInv, NEW m \in Managers, NEW policy \in [1..2 -> Acts], PutInForce(m, policy)
    PROVE  FwInv'
  <1>1. /\ fw.manager = "none" /\ fw' = [fw EXCEPT !.manager = m, !.policy = policy] /\ unread' = unread
    BY DEF PutInForce
  <1>2. fw \in [manager : Managers \cup {"none"}, policy : [1..2 -> Acts], rules : Seq(RuleSet(fw.manager))]
        /\ unread \subseteq Managers
    BY DEF FwInv, FwTypes
  <1>3. RuleSet("none") = {}
    BY DEF RuleSet, KindsOf
  <1>4. fw.rules \in Seq({})
    BY <1>1, <1>2, <1>3
  <1>5. fw.rules \in Seq(RuleSet(m))
    BY <1>4
  <1>6. fw'.manager = m /\ fw'.policy = policy /\ fw'.rules = fw.rules
        /\ fw' = [manager |-> m, policy |-> policy, rules |-> fw.rules]
    BY <1>1, <1>2
  <1>7. FwTypes'
    BY <1>1, <1>2, <1>5, <1>6 DEF FwTypes
  <1> QED
    BY <1>6, <1>7 DEF FwInv

\* The rules of the filter change, and nothing else.
LEMMA RulesChange ==
    ASSUME FwInv, NEW rules \in Seq(RuleSet(fw.manager)), fw' = [fw EXCEPT !.rules = rules],
           UNCHANGED unread, Len(rules) <= MaxRules + Cardinality(Opened(rules))
    PROVE  FwInv'
  <1>1. fw \in [manager : Managers \cup {"none"}, policy : [1..2 -> Acts], rules : Seq(RuleSet(fw.manager))]
        /\ unread \subseteq Managers
    BY DEF FwInv, FwTypes
  <1>2. fw' = [manager |-> fw.manager, policy |-> fw.policy, rules |-> rules]
    BY <1>1
  <1>3. fw'.manager = fw.manager /\ fw'.policy = fw.policy /\ fw'.rules = rules
    BY <1>2
  <1>4. FwTypes'
    BY <1>1, <1>2, <1>3 DEF FwTypes
  <1> QED
    BY <1>3, <1>4 DEF FwInv

LEMMA WriteRuleKeeps ==
    ASSUME FwInv, NEW r \in RuleSet(fw.manager), WriteRule(r)
    PROVE  FwInv'
  <1> DEFINE rules == Append(fw.rules, r)
  <1>1. fw.rules \in Seq(RuleSet(fw.manager)) /\ MaxRules \in Nat
    BY FirewallAssumption DEF FwInv, FwTypes
  <1>2. Len(fw.rules) < MaxRules /\ fw' = [fw EXCEPT !.rules = rules] /\ unread' = unread
    BY DEF WriteRule
  <1>3. rules \in Seq(RuleSet(fw.manager)) /\ Len(rules) = Len(fw.rules) + 1 /\ Len(fw.rules) \in Nat
    BY <1>1
  <1> HIDE DEF rules
  <1>4. Len(rules) <= MaxRules + Cardinality(Opened(rules))
    BY <1>1, <1>2, <1>3, OpenedCount
  <1> QED
    BY <1>2, <1>3, <1>4, RulesChange

\* A port that setup opens has its own rule afterwards, and only that one more.
LEMMA OpenPortKeeps ==
    ASSUME FwInv, NEW p \in Wanted, OpenPort(p)
    PROVE  FwInv'
  <1> DEFINE old == fw.rules
             same == {i \in DOMAIN old : [old[i] EXCEPT !.act = "accept"] = AllowRule(p)}
  <1>1. old \in Seq(RuleSet(fw.manager)) /\ MaxRules \in Nat /\ p \in PortSpecs
        /\ Len(old) <= MaxRules + Cardinality(Opened(old))
    BY FirewallAssumption DEF FwInv, FwTypes
  <1>2. Openable(fw.manager) /\ unread' = unread
        /\ fw' = IF same = {} THEN [fw EXCEPT !.rules = Append(old, AllowRule(p))]
                 ELSE [fw EXCEPT !.rules = [i \in DOMAIN old |-> IF i \in same THEN AllowRule(p) ELSE old[i]]]
    BY DEF OpenPort, AfterAllow
  <1>3. AllowRule(p) \in RuleSet(fw.manager)
    <2>1. p.proto \in Protos /\ p.port \in 1..TopPort /\ TopPort \in Nat
      BY <1>1, FirewallAssumption DEF PortSpecs
    <2>2. "ports" \in KindsOf(fw.manager) /\ fw.manager # "nftables"
      BY <1>2 DEF Openable, KindsOf, UfwKinds, ZoneKinds
    <2> QED
      BY <2>1, <2>2 DEF AllowRule, RuleSet, Acts
  <1>4. AllowRule(p).act = "accept" /\ [AllowRule(p) EXCEPT !.act = "accept"] = AllowRule(p)
    BY DEF AllowRule
  <1>5. CASE same = {}
    <2> DEFINE rules == Append(old, AllowRule(p))
    <2>1. /\ rules \in Seq(RuleSet(fw.manager)) /\ Len(rules) = Len(old) + 1 /\ Len(old) \in Nat
          /\ \A i \in DOMAIN old : i \in DOMAIN rules /\ rules[i] = old[i]
          /\ Len(rules) \in DOMAIN rules /\ rules[Len(rules)] = AllowRule(p)
          /\ DOMAIN rules = DOMAIN old \cup {Len(old) + 1}
      BY <1>1, <1>3
    <2>2. p \notin Opened(old)
      BY <1>4, <1>5 DEF Opened
    <2> HIDE DEF rules, old
    <2>3. Opened(old) \cup {p} \subseteq Opened(rules)
      BY <2>1 DEF Opened
    <2>4. Cardinality(Opened(old) \cup {p}) = Cardinality(Opened(old)) + 1
      BY <2>2, OpenedCount, FS_AddElement
    <2>5. Cardinality(Opened(old) \cup {p}) <= Cardinality(Opened(rules))
      BY <2>3, OpenedCount, FS_Subset
    <2>6. Len(rules) <= MaxRules + Cardinality(Opened(rules))
      BY <1>1, <2>1, <2>4, <2>5, OpenedCount
    <2>7. fw' = [fw EXCEPT !.rules = rules]
      BY <1>2, <1>5 DEF rules
    <2> QED
      BY <1>2, <2>1, <2>6, <2>7, RulesChange
  <1>6. CASE same # {}
    <2> DEFINE rules == [i \in DOMAIN old |-> IF i \in same THEN AllowRule(p) ELSE old[i]]
    <2>1. /\ DOMAIN old = 1..Len(old) /\ Len(old) \in Nat
          /\ \A i \in DOMAIN old : old[i] \in RuleSet(fw.manager)
      BY <1>1
    <2>2. /\ rules \in Seq(RuleSet(fw.manager)) /\ Len(rules) = Len(old)
          /\ DOMAIN rules = DOMAIN old
      BY <1>3, <2>1
    <2>3. Opened(old) \subseteq Opened(rules)
      <3> SUFFICES ASSUME NEW q \in Wanted, NEW i \in DOMAIN old, old[i] = AllowRule(q)
                   PROVE  rules[i] = AllowRule(q)
        BY <2>2 DEF Opened
      <3>1. [AllowRule(q) EXCEPT !.act = "accept"] = AllowRule(q)
        BY DEF AllowRule
      <3> QED
        BY <3>1
    <2>4. Cardinality(Opened(old)) <= Cardinality(Opened(rules))
      BY <2>3, OpenedCount, FS_Subset
    <2>5. fw' = [fw EXCEPT !.rules = rules]
      BY <1>2, <1>6
    <2> HIDE DEF rules, old
    <2>6. Len(rules) <= MaxRules + Cardinality(Opened(rules))
      BY <1>1, <2>1, <2>2, <2>4, OpenedCount
    <2> QED
      BY <1>2, <2>2, <2>5, <2>6, RulesChange
  <1> QED
    BY <1>5, <1>6

LEMMA FwSteady == FwInv /\ [FirewallNext]_fwVars => FwInv'
  <1> SUFFICES ASSUME FwInv, [FirewallNext]_fwVars PROVE FwInv'
    OBVIOUS
  <1>1. ASSUME NEW m \in Managers, NEW policy \in [1..2 -> Acts], PutInForce(m, policy) PROVE FwInv'
    BY <1>1, PutInForceKeeps
  <1>2. ASSUME NEW r \in RuleSet(fw.manager), WriteRule(r) PROVE FwInv'
    BY <1>2, WriteRuleKeeps
  <1>3. ASSUME fw' = fw, unread' \subseteq Managers PROVE FwInv'
    BY <1>3 DEF FwInv, FwTypes
  <1>4. ASSUME NEW m \in Managers, ToolFails(m) PROVE FwInv'
    BY <1>3, <1>4 DEF ToolFails, FwInv, FwTypes
  <1>5. ASSUME NEW m \in unread, ToolAnswers(m) PROVE FwInv'
    BY <1>3, <1>5 DEF ToolAnswers, FwInv, FwTypes
  <1>6. ASSUME NEW p \in Wanted, OpenPort(p) PROVE FwInv'
    BY <1>6, OpenPortKeeps
  <1>7. CASE UNCHANGED fwVars
    BY <1>3, <1>7 DEF fwVars, FwInv, FwTypes
  <1> QED
    BY <1>1, <1>2, <1>4, <1>5, <1>6, <1>7 DEF FirewallNext

\* Whatever rules an operator wrote and whichever tools answer, a port the report
\* calls open is let in by this machine, and one it calls blocked, where setup may
\* write a rule, is dropped, unless a rule's effect is not in the listing (Check,
\* readUFW, firewalldZone.decide, nftRuleset.decide, readIptables); --open-ports
\* writes at most one rule for each port the machine needs (FirewallStep.Apply).
THEOREM FirewallAlwaysRead == FirewallSpec => []FirewallRead
  <1>1. FirewallSpec => []FwInv
    BY FwStarts, FwSteady, PTL DEF FirewallSpec
  <1>2. FwInv => FirewallTypeOK
    <2> SUFFICES ASSUME FwInv PROVE FirewallTypeOK
      OBVIOUS
    <2>1. Len(fw.rules) \in Nat /\ Cardinality(Wanted) \in Nat /\ MaxRules \in Nat
      BY FirewallAssumption, FS_CardinalityType DEF FwInv, FwTypes
    <2>2. Len(fw.rules) <= MaxRules + Cardinality(Wanted)
      BY <2>1, OpenedCount DEF FwInv
    <2> QED
      BY <2>2 DEF FwInv, FwTypes, FirewallTypeOK
  <1>3. FwInv => FirewallRead
    BY <1>2, ReadersRead DEF FwInv, FirewallRead
  <1> QED
    BY <1>1, <1>3, PTL
=============================================================================
