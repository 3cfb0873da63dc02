-------------------------------- MODULE Keys --------------------------------
(***************************************************************************)
(* The keys that may log in: `caramelo key add` and `key remove`           *)
(* (internal/sshapi/service.go AddKey, RemoveKey; authorized.go).  A       *)
(* command reads the whole authorized_keys file, writes a new one beside   *)
(* it under one fixed name, renames it over the old one and then changes a *)
(* row of the store.  No lock is held between these steps, each session is *)
(* a goroutine of its own, and the store follows the session's context: a  *)
(* client that hangs up makes the row's step fail.                         *)
(***************************************************************************)
EXTENDS Integers, FiniteSets

CONSTANTS
    KeyCommands,      \* sessions that change keys
    KeyNames, Prints, \* names and fingerprints
    SeededKey,        \* the entry fleet setup wrote: in the file, with no row
    MaxKeyCommands,   \* bound: commands begun
    MaxKeyFaults      \* bound: store failures and crashes of the daemon

VARIABLES
    authFile,      \* the entries of authorized_keys
    keyTmp,       \* authorized_keys.tmp: the entries in it, or NoTmp
    keyRows,      \* the rows of the keys table
    kc,           \* the commands in flight
    keyExpected,  \* history: the entries the answers so far promise
    keyBegun, keyFaults,
    keyRaced,     \* history: two commands overlapped, or one was killed
    rowKept       \* history: a removal failed after the file was written

keyVars == << authFile, keyTmp, keyRows, kc, keyExpected, keyBegun, keyFaults, keyRaced, rowKept >>

Entry == [name : KeyNames, print : Prints]

\* The entry that setup wrote is one.
Seeded == SeededKey \in Entry
NoTmp == [missing |-> TRUE]
Tmp(entries) == [missing |-> FALSE, holds |-> entries]
NoCommand == [pc |-> "idle", op |-> "add", entry |-> SeededKey, list |-> {}]

KeysInit ==
    /\ authFile = {SeededKey}
    /\ keyTmp = NoTmp
    /\ keyRows = {}
    /\ kc = [c \in KeyCommands |-> NoCommand]
    /\ keyExpected = {SeededKey}
    /\ keyBegun = 0 /\ keyFaults = 0
    /\ keyRaced = FALSE /\ rowKept = FALSE

Busy(c) == kc[c].pc # "idle"
At(c, pc) == kc[c].pc = pc
To(c, pc) == kc' = [kc EXCEPT ![c].pc = pc]
Answer(c) == kc' = [kc EXCEPT ![c] = NoCommand]

Named(entries, name) == { x \in entries : x.name = name }

MutClashes(entries, e) == Named(entries, e.name) # {}

\* AppendKeyWithOptions refuses a name or a fingerprint the file already holds.
Clashes(entries, e) == \E x \in entries : x.name = e.name \/ x.print = e.print

\* The session begins and reads the file.  A command that has nothing to do, or
\* that the file refuses, answers at once and is not begun here.
BeginAdd(c, e) ==
    /\ ~Busy(c) /\ keyBegun < MaxKeyCommands
    /\ ~Clashes(authFile, e)
    /\ kc' = [kc EXCEPT ![c] = [pc |-> "write", op |-> "add", entry |-> e, list |-> authFile \cup {e}]]
    /\ keyBegun' = keyBegun + 1
    /\ keyRaced' = (keyRaced \/ \E o \in KeyCommands : Busy(o))
    /\ UNCHANGED << authFile, keyTmp, keyRows, keyExpected, keyFaults, rowKept >>

BeginRemove(c, name) ==
    /\ ~Busy(c) /\ keyBegun < MaxKeyCommands
    /\ \E e \in Named(authFile, name) :
         kc' = [kc EXCEPT ![c] = [pc |-> "write", op |-> "remove", entry |-> e, list |-> authFile \ {e}]]
    /\ keyBegun' = keyBegun + 1
    /\ keyRaced' = (keyRaced \/ \E o \in KeyCommands : Busy(o))
    /\ UNCHANGED << authFile, keyTmp, keyRows, keyExpected, keyFaults, rowKept >>

\* writeKeys, writeFileAtomic: the temporary file, then the rename.  The name of
\* the temporary file is the same for every command.
WriteTmp(c) ==
    /\ kc[c].pc \in {"write", "undowrite"}
    /\ keyTmp' = Tmp(kc[c].list)
    /\ To(c, IF At(c, "write") THEN "rename" ELSE "undorename")
    /\ UNCHANGED << authFile, keyRows, keyExpected, keyBegun, keyFaults, keyRaced, rowKept >>

Rename(c) ==
    /\ kc[c].pc \in {"rename", "undorename"}
    /\ IF keyTmp.missing
       THEN Answer(c) /\ UNCHANGED << authFile, keyTmp >>
       ELSE /\ authFile' = keyTmp.holds
            /\ keyTmp' = NoTmp
            /\ IF At(c, "rename") THEN To(c, "row") ELSE Answer(c)
    /\ UNCHANGED << keyRows, keyExpected, keyBegun, keyFaults, keyRaced, rowKept >>

\* Store.AddKey: the name is the primary key and the fingerprint is unique.
InsertRow(c) ==
    /\ At(c, "row") /\ kc[c].op = "add"
    /\ ~Clashes(keyRows, kc[c].entry)
    /\ keyRows' = keyRows \cup {kc[c].entry}
    /\ keyExpected' = keyExpected \cup {kc[c].entry}
    /\ Answer(c)
    /\ UNCHANGED << authFile, keyTmp, keyBegun, keyFaults, keyRaced, rowKept >>

MutUndo(c) == Answer(c)

\* The row was refused: AddKey takes its entry out of the file again.
Undo(c) == To(c, "undo")

InsertFails(c) ==
    /\ At(c, "row") /\ kc[c].op = "add"
    /\ \/ Clashes(keyRows, kc[c].entry) /\ UNCHANGED keyFaults
       \/ keyFaults < MaxKeyFaults /\ keyFaults' = keyFaults + 1
    /\ Undo(c)
    /\ UNCHANGED << authFile, keyTmp, keyRows, keyExpected, keyBegun, keyRaced, rowKept >>

\* RemoveKey of the roll-back: read again, and give up when the entry is gone.
UndoRead(c) ==
    /\ At(c, "undo")
    /\ LET named == Named(authFile, kc[c].entry.name)
       IN IF named = {} THEN Answer(c)
          ELSE kc' = [kc EXCEPT ![c].pc = "undowrite", ![c].list = authFile \ named]
    /\ UNCHANGED << authFile, keyTmp, keyRows, keyExpected, keyBegun, keyFaults, keyRaced, rowKept >>

MutRowsWithout(name) == keyRows

\* What DELETE FROM keys WHERE name = ? leaves.
RowsWithout(name) == keyRows \ Named(keyRows, name)

\* Store.RemoveKey: no row is no error.
DeleteRow(c) ==
    /\ At(c, "row") /\ kc[c].op = "remove"
    /\ keyRows' = RowsWithout(kc[c].entry.name)
    /\ keyExpected' = keyExpected \ {kc[c].entry}
    /\ Answer(c)
    /\ UNCHANGED << authFile, keyTmp, keyBegun, keyFaults, keyRaced, rowKept >>

\* The store fails or the client has hung up: the file is already written.
DeleteFails(c) ==
    /\ At(c, "row") /\ kc[c].op = "remove"
    /\ keyFaults < MaxKeyFaults
    /\ keyFaults' = keyFaults + 1
    /\ rowKept' = TRUE
    /\ keyExpected' = keyExpected \ {kc[c].entry}
    /\ Answer(c)
    /\ UNCHANGED << authFile, keyTmp, keyRows, keyBegun, keyRaced >>

\* caramelod dies: the commands in flight stop where they are.
KeysCrash ==
    /\ keyFaults < MaxKeyFaults
    /\ \E c \in KeyCommands : Busy(c)
    /\ kc' = [c \in KeyCommands |-> NoCommand]
    /\ keyFaults' = keyFaults + 1
    /\ keyRaced' = TRUE
    /\ UNCHANGED << authFile, keyTmp, keyRows, keyExpected, keyBegun, rowKept >>

KeysStep(c) ==
    \/ WriteTmp(c) \/ Rename(c) \/ InsertRow(c) \/ InsertFails(c) \/ UndoRead(c)
    \/ DeleteRow(c) \/ DeleteFails(c)

KeysNext ==
    \/ \E c \in KeyCommands, e \in Entry : BeginAdd(c, e)
    \/ \E c \in KeyCommands, n \in KeyNames : BeginRemove(c, n)
    \/ \E c \in KeyCommands : KeysStep(c)
    \/ KeysCrash

KeysSpec == KeysInit /\ [][KeysNext]_keyVars

------------------------------------------------------------------------------

KeysTypeOK ==
    /\ authFile \subseteq Entry /\ keyRows \subseteq Entry /\ keyExpected \subseteq Entry
    /\ keyTmp = NoTmp \/ keyTmp.holds \subseteq Entry
    /\ \A c \in KeyCommands : kc[c].pc \in
         {"idle", "write", "rename", "row", "undo", "undowrite", "undorename"}

KeysQuiet == \A c \in KeyCommands : ~Busy(c)

\* Commands that do not overlap keep their answers: between commands the file
\* holds exactly the keys whose addition was answered and whose removal was not,
\* also when the store refused a row and the entry was taken out again (AddKey,
\* RemoveKey).
AnswersKept == (KeysQuiet /\ ~keyRaced) => authFile = keyExpected

\* Whatever overlaps, the file never holds a name or a key twice: `key remove`
\* takes the first entry of a name, and would leave the other able to log in
\* (AppendKeyWithOptions, RemoveKey).
OneEntryEach ==
    \A x, y \in authFile : (x.name = y.name \/ x.print = y.print) => x = y

\* Every row stands for a key that can log in: a row left behind refuses its name
\* and its key for ever, since `key remove` looks in the file first (RemoveKey,
\* Store.AddKey).
RowsCanLogIn == (KeysQuiet /\ ~keyRaced /\ ~rowKept) => keyRows \subseteq authFile

\* The keys that may log in are those the commands answered for: the file
\* holds them, no name and no key twice, and every row stands for one of them
\* (AddKey, RemoveKey).
LoginsKept == KeysTypeOK /\ AnswersKept /\ OneEntryEach /\ RowsCanLogIn
=============================================================================
