------------------------------- MODULE Tasks -------------------------------
(***************************************************************************)
(* The task engine (internal/task): one run of a task file at a time. The  *)
(* file is a sequence of entries, each a set of items: an item of its own  *)
(* is a set of one, and the items of a parallel block, nested blocks       *)
(* included, run together. What scripts and built-ins look at and change   *)
(* is a set of facts about the machine.                                    *)
(***************************************************************************)
EXTENDS Naturals, FiniteSets, Sequences

CONSTANTS
    Items,       \* names of the items
    Entries,     \* the file: a sequence of sets of items
    Body,        \* what an item says: see ItemBody
    Facts,       \* what can be true of the machine
    EngineVars, CallerVars, FileVars,   \* names of variables by origin
    MaxTaskRuns, \* runs of the file
    MaxUpsets    \* interruptions and changes made by others

VARIABLES
    facts,       \* what is true of the machine
    trun,        \* the run in progress
    item,        \* how far each item of the run is
    printed,     \* how often the renderer printed each item
    taskReport,  \* the report of the last run
    undone,      \* facts taken away since the run's items saw them
    taskRuns, upsets

taskVars == <<facts, trun, item, printed, taskReport, undone, taskRuns, upsets>>

NoFact == <<>>
Statuses == {"pending", "ok", "changed", "would-change", "skipped", "failed",
             "not run"}
Stages == {"idle", "when", "check", "apply", "again", "done"}

\* What an item says. A built-in has a path; "link" stands for the paths that
\* are not what the built-in makes.
ItemBody == [here: BOOLEAN, when: Facts \cup {NoFact}, kind: {"cmd", "file", "dir"},
             check: SUBSET Facts, cmds: Seq(SUBSET Facts), refs: SUBSET STRING]

Builtin(i) == Body[i].kind # "cmd"
EntryOf(i) == CHOOSE n \in 1 .. Len(Entries) : i \in Entries[n]
AfterEntry(n) == UNION {Entries[k] : k \in n + 1 .. Len(Entries)}

-----------------------------------------------------------------------------
\* render: a file's variables are rendered over the engine's and the caller's,
\* never over each other; the caller's win. Every reference must resolve.
Declared == DOMAIN FileVars
VarsRender == \A v \in Declared :
    /\ FileVars[v] \cap Declared = {}
    /\ FileVars[v] \subseteq EngineVars \cup CallerVars
ItemsRender == \A i \in Items :
    Body[i].refs \subseteq EngineVars \cup CallerVars \cup Declared

\* uniqueNames: a name is an item of one entry only.
UniqueNames == \A n, k \in 1 .. Len(Entries) :
    n # k => Entries[n] \cap Entries[k] = {}

\* What changes a built-in makes, in order: a directory is created, given its
\* mode and its owner; a file is written beside its path and renamed over it,
\* which leaves it with the owner of the process, and then given its owner.
\* The facts of a built-in are sorted by "made", "mode" and "owner".
Part(i, what) == {f \in Body[i].check : f = <<i, what>>}
SetOwnership(i) == [adds |-> Part(i, "owner"), dels |-> {}]
DirSteps(i) ==
    <<[adds |-> Part(i, "made"), dels |-> {}],
      [adds |-> Part(i, "mode"), dels |-> {}],
      SetOwnership(i)>>
FileSteps(i) ==
    <<[adds |-> Part(i, "made") \cup Part(i, "mode"), dels |-> Part(i, "owner")],
      SetOwnership(i)>>
Scripts(i) == [k \in 1 .. Len(Body[i].cmds) |-> [adds |-> Body[i].cmds[k], dels |-> {}]]
Steps(i) ==
    IF Body[i].kind = "dir" THEN DirSteps(i)
    ELSE IF Body[i].kind = "file" THEN FileSteps(i) ELSE Scripts(i)

\* check of a built-in refuses a path that is a link, or a directory where a
\* file should be.
PathRefused(i) == Builtin(i) /\ <<i, "link">> \in facts
\* A check passes when all of it holds: a built-in's path, mode and owner.
Holds(i) == Body[i].check \subseteq facts

Idle == [stage |-> "idle", step |-> 1, status |-> "pending"]
NoTaskRun == [on |-> FALSE, dry |-> FALSE, entry |-> 1, stopped |-> FALSE,
              cancelled |-> FALSE, converged |-> FALSE]
NoTaskReport == [statuses |-> [i \in Items |-> "pending"], exit |-> 0,
                 written |-> FALSE, converged |-> FALSE, clean |-> FALSE]

TasksInit ==
    /\ facts = {}
    /\ trun = NoTaskRun
    /\ item = [i \in Items |-> Idle]
    /\ printed = [i \in Items |-> 0]
    /\ taskReport = NoTaskReport
    /\ undone = {}
    /\ taskRuns = 0
    /\ upsets = 0

-----------------------------------------------------------------------------
\* Execute: render the file, then run its entries. A file that does not render
\* runs nothing.
Execute(dry) ==
    /\ ~trun.on
    /\ taskRuns < MaxTaskRuns
    /\ UniqueNames /\ VarsRender /\ ItemsRender
    /\ trun' = [NoTaskRun EXCEPT !.on = TRUE, !.dry = dry,
                                 !.converged = taskReport.clean]
    /\ item' = [i \in Items |-> Idle]
    /\ printed' = [i \in Items |-> 0]
    /\ undone' = {}
    /\ taskRuns' = taskRuns + 1
    /\ UNCHANGED <<facts, taskReport, upsets>>

Running(i) == trun.on /\ trun.entry <= Len(Entries) /\ i \in Entries[trun.entry]

\* runEntries: the items after a failure are not run, but every goroutine of a
\* block that was entered starts its item, whatever happened to the others.
MutBegins(i) == Running(i) /\ ~trun.stopped
Begins(i) ==
    /\ Running(i)
    /\ trun.stopped => \E j \in Entries[trun.entry] : item[j].stage # "idle"

\* The renderer prints the line of an item as soon as its result is known.
Show(i) == printed' = [printed EXCEPT ![i] = @ + 1]

\* runItem: the item is decided, a failure stops the run, and its line is
\* printed.
MutEnd(i, status) ==
    /\ item' = [item EXCEPT ![i].stage = "done", ![i].status = status]
    /\ Show(i)
    /\ UNCHANGED trun
End(i, status) ==
    /\ item' = [item EXCEPT ![i].stage = "done", ![i].status = status]
    /\ trun' = IF status = "failed" THEN [trun EXCEPT !.stopped = TRUE] ELSE trun
    /\ Show(i)

GoOn(i, stage) ==
    /\ item' = [item EXCEPT ![i].stage = stage]
    /\ UNCHANGED <<trun, printed>>

\* decide: an item for another platform is skipped.
RunItem(i) ==
    /\ Begins(i)
    /\ item[i].stage = "idle"
    /\ IF ~Body[i].here THEN End(i, "skipped") ELSE GoOn(i, "when")
    /\ UNCHANGED <<facts, taskReport, undone, taskRuns, upsets>>

\* run: a script fails with an error when its time is up, or the run was
\* interrupted; otherwise its exit code says whether the fact holds. Built-ins
\* ask nobody: they go on after an interruption.
Errs == IF trun.cancelled THEN {TRUE} ELSE BOOLEAN

When(i) ==
    /\ item[i].stage = "when"
    /\ IF Body[i].when = NoFact THEN GoOn(i, "check")
       ELSE \E err \in Errs :
            IF err THEN End(i, "failed")
            ELSE IF Body[i].when \notin facts THEN End(i, "skipped")
            ELSE GoOn(i, "check")
    /\ UNCHANGED <<facts, taskReport, undone, taskRuns, upsets>>

\* The first check: done already, or what a dry run stops at. An item without a
\* check always runs its commands.
MutNotDone(i) == IF trun.dry /\ ~Builtin(i) THEN End(i, "would-change") ELSE GoOn(i, "apply")
NotDone(i) == IF trun.dry THEN End(i, "would-change") ELSE GoOn(i, "apply")

MutFirstCheck(i) ==
    /\ item[i].stage = "check"
    /\ IF PathRefused(i) THEN End(i, "failed") ELSE NotDone(i)
    /\ UNCHANGED <<facts, taskReport, undone, taskRuns, upsets>>
FirstCheck(i) ==
    /\ item[i].stage = "check"
    /\ IF Body[i].check = {} THEN NotDone(i)
       ELSE IF PathRefused(i) THEN End(i, "failed")
       ELSE \E err \in IF Builtin(i) THEN {FALSE} ELSE Errs :
            IF err THEN End(i, "failed")
            ELSE IF Holds(i) THEN End(i, "ok")
            ELSE NotDone(i)
    /\ UNCHANGED <<facts, taskReport, undone, taskRuns, upsets>>

\* One command, or one change of a built-in: it works, or it fails with or
\* without having changed the machine. A command can also exit 0 and have done
\* nothing. The last one leads to the second check.
AfterSteps(i) ==
    IF Body[i].check = {} THEN End(i, "changed") ELSE GoOn(i, "again")
Changes(i) ==
    LET s == Steps(i)[item[i].step] IN
    /\ facts' = (facts \ s.dels) \cup s.adds
    /\ undone' = undone \ s.adds
Apply(i) ==
    /\ item[i].stage = "apply"
    /\ \/ /\ item[i].step > Len(Steps(i))
          /\ AfterSteps(i)
          /\ UNCHANGED <<facts, undone>>
       \/ /\ item[i].step <= Len(Steps(i))
          /\ Builtin(i) \/ ~trun.cancelled
          /\ item' = [item EXCEPT ![i].step = @ + 1]
          /\ Changes(i) \/ (~Builtin(i) /\ UNCHANGED <<facts, undone>>)
          /\ UNCHANGED <<trun, printed>>
       \/ /\ item[i].step <= Len(Steps(i))
          /\ End(i, "failed")
          /\ Changes(i) \/ UNCHANGED <<facts, undone>>
    /\ UNCHANGED <<taskReport, taskRuns, upsets>>

\* The check runs again: a command that leaves it failing has failed.
MutSecondCheck(i) ==
    /\ item[i].stage = "again"
    /\ End(i, "changed")
    /\ UNCHANGED <<facts, taskReport, undone, taskRuns, upsets>>
SecondCheck(i) ==
    /\ item[i].stage = "again"
    /\ \E err \in IF Builtin(i) THEN {PathRefused(i)} ELSE Errs :
        End(i, IF ~err /\ Holds(i) THEN "changed" ELSE "failed")
    /\ UNCHANGED <<facts, taskReport, undone, taskRuns, upsets>>

\* The next entry, once every item of this one is done.
NextEntry ==
    /\ trun.on
    /\ trun.entry <= Len(Entries)
    /\ \/ \A i \in Entries[trun.entry] : item[i].stage = "done"
       \/ trun.stopped /\ \A i \in Entries[trun.entry] : item[i].stage = "idle"
    /\ trun' = [trun EXCEPT !.entry = @ + 1]
    /\ UNCHANGED <<facts, item, printed, taskReport, undone, taskRuns, upsets>>

\* count, over the items of the report.
Count(statuses, status) == Cardinality({i \in Items : statuses[i] = status})

\* rest: what was not printed while the run went on is printed at its end.
MutRest(i) == printed[i] + 1
Rest(i) == IF printed[i] = 0 THEN 1 ELSE printed[i]

\* write: a dry run keeps no report; writing one fails for a disk that is full,
\* and always after an interruption where a command writes it.
ReportWritten == IF trun.dry THEN {FALSE} ELSE BOOLEAN

Report ==
    /\ trun.on
    /\ trun.entry > Len(Entries)
    /\ LET statuses == [i \in Items |->
                IF item[i].stage = "idle" THEN "not run" ELSE item[i].status] IN
       \E written \in ReportWritten :
        taskReport' = [statuses |-> statuses,
                       written |-> written,
                       exit |-> IF Count(statuses, "failed") > 0 \/ (~trun.dry /\ ~written)
                                THEN 1 ELSE 0,
                       converged |-> trun.converged,
                       clean |-> ~trun.dry /\ Count(statuses, "failed") = 0
                                 /\ undone = {}]
    /\ printed' = [i \in Items |-> Rest(i)]
    /\ trun' = NoTaskRun
    /\ UNCHANGED <<facts, item, undone, taskRuns, upsets>>

-----------------------------------------------------------------------------
\* Somebody else takes a fact away, or puts a link in a built-in's way.
Upset(f) ==
    /\ upsets < MaxUpsets
    /\ f \in facts \/ f \in {<<i, "link">> : i \in Items}
    /\ facts' = IF f \in facts THEN facts \ {f} ELSE facts \cup {f}
    /\ undone' = undone \cup {f}
    /\ trun' = [trun EXCEPT !.converged = FALSE]
    /\ taskReport' = [taskReport EXCEPT !.clean = FALSE]
    /\ upsets' = upsets + 1
    /\ UNCHANGED <<item, printed, taskRuns>>

\* The person at the keyboard interrupts the run.
Interrupt ==
    /\ upsets < MaxUpsets
    /\ trun.on /\ ~trun.cancelled
    /\ trun' = [trun EXCEPT !.cancelled = TRUE]
    /\ upsets' = upsets + 1
    /\ UNCHANGED <<facts, item, printed, taskReport, undone, taskRuns>>

EngineStep ==
    \/ \E i \in Items : RunItem(i) \/ When(i) \/ FirstCheck(i) \/ Apply(i) \/ SecondCheck(i)
    \/ NextEntry
    \/ Report

TasksNext ==
    \/ \E dry \in BOOLEAN : Execute(dry)
    \/ EngineStep
    \/ \E f \in Facts : Upset(f)
    \/ Interrupt

TasksSpec == TasksInit /\ [][TasksNext]_taskVars /\ WF_taskVars(EngineStep)

-----------------------------------------------------------------------------
TasksTypeOK ==
    /\ facts \subseteq Facts
    /\ undone \subseteq Facts
    /\ item \in [Items -> [stage: Stages, step: 1 .. 4, status: Statuses]]
    /\ printed \in [Items -> 0 .. 2]
    /\ trun.entry \in 1 .. Len(Entries) + 1
    /\ taskReport.statuses \in [Items -> Statuses]

\* What a report calls ok or changed was seen on the machine, and still is
\* unless somebody took it away (engine.go decide, decideBuiltin).
DoneHolds == \A i \in Items :
    item[i].status \in {"ok", "changed"} => Body[i].check \subseteq facts \cup undone

\* After a failure exactly the items of later entries are left out: the block
\* the failure happened in is finished, nothing after it is started
\* (engine.go runEntries, runBlock).
LeftOutIsAfterFailure ==
    ~trun.on /\ taskRuns > 0 =>
        LET st == taskReport.statuses
            failed == {i \in Items : st[i] = "failed"}
        IN {i \in Items : st[i] = "not run"} =
             UNION {AfterEntry(EntryOf(i)) : i \in failed}

\* The report and the screen have every item once, whether its line came while
\* the run went on or at its end (render.go item, rest).
PrintedOnce == ~trun.on /\ taskRuns > 0 => \A i \in Items : printed[i] = 1

\* A task run again on the machine it left reports no change but those of the
\* items that have no check (engine.go decide).
SecondRunQuiet ==
    ~trun.on /\ taskReport.converged =>
        \A i \in Items : taskReport.statuses[i] \in {"changed", "would-change"} =>
            Body[i].check = {}

\* A dry run changes nothing on the machine (engine.go decide).
DryRunStep == trun.on /\ trun.dry /\ facts' # facts => upsets' # upsets

\* A run ends, however its items end.
TaskEnds == trun.on ~> ~trun.on
=============================================================================
