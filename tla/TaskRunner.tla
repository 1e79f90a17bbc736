------------------------------ MODULE TaskRunner ------------------------------
(***************************************************************************)
(* The task runner `tya task` (cmd/tya/task.go): the graph of tasks is     *)
(* checked, then each task runs after the tasks it depends on; with        *)
(* --watch the graph runs again whenever a watched file changes.           *)
(***************************************************************************)
EXTENDS Integers, Sequences, SequencesExt

CONSTANTS Task,       \* the tasks of tya.toml
          Undefined,  \* names that a task may mention and tya.toml does not define
          Selected,   \* the name on the command line
          Graphs,     \* task -> what its depends_on may be: sequences of names
          Commands,   \* task -> how many commands it has
          Parallel,   \* the tasks whose commands run at the same time
          MaxEdits,   \* of the watched files
          Unknown     \* the snapshot after a walk that failed

ASSUME TaskRunnerAssumption ==
  /\ Task \cap Undefined = {}
  /\ Selected \in Task
  /\ \A t \in Task : Graphs[t] \subseteq Seq(Task \cup Undefined)
  /\ Commands \in [Task -> Nat]
  /\ MaxEdits \in Nat

VARIABLES
  dependsOn,   \* task -> the names it depends on
  watch,       \* whether --watch was given
  stage,       \* what taskCommand is doing
  stack,       \* the calls of visit, or of runTaskWithDeps, and how far each is
  visited,     \* tasks that visit has left
  ran,         \* tasks that have succeeded in this run of the graph
  started,     \* tasks whose commands have been started in this run, in order
  command,     \* the commands of the task on top: "waiting", "running" or a result
  files,       \* how often the watched files have been edited
  snap,        \* the snapshot, named by the edits it has seen
  seen,        \* the edits before the last run of the graph
  verdict      \* what the process ended with

taskVars == <<dependsOn, watch, stage, stack, visited, ran, started, command,
              files, snap, seen, verdict>>
inputVars == <<dependsOn, watch>>
watchVars == <<files, snap, seen>>

Result == {"ok", "failed", "error"}

TaskInit ==
  /\ dependsOn \in {g \in [Task -> UNION {Graphs[t] : t \in Task}] : \A t \in Task : g[t] \in Graphs[t]}
  /\ watch \in BOOLEAN
  /\ stage = "validate"
  /\ stack = <<[task |-> Selected, next |-> 1]>>
  /\ visited = {} /\ ran = {} /\ started = <<>>
  /\ command = <<>>
  /\ files = 0 /\ snap = 0 /\ seen = 0
  /\ verdict = "none"

Top == stack[Len(stack)]
Advanced == [stack EXCEPT ![Len(stack)].next = @ + 1]
HasNext == stack # <<>> /\ Top.next <= Len(dependsOn[Top.task])
Dependency == dependsOn[Top.task][Top.next]
OnStack == {stack[i].task : i \in 1..Len(stack)}

Exit(v) == /\ stage' = "exited"
           /\ verdict' = v

---------------------------------------------------------------------------
(* validateTaskGraph: a depth-first walk from the selected task.           *)

VisitUnknown ==
  /\ stage = "validate" /\ HasNext /\ Dependency \notin Task
  /\ Exit("unknown task")
  /\ UNCHANGED <<inputVars, stack, visited, ran, started, command, watchVars>>

\* Mutant of VisitCycle: a task that was visited before is taken for a cycle.
VisitCycleOrAgain ==
  /\ stage = "validate" /\ HasNext /\ Dependency \in OnStack \cup visited
  /\ Exit("cycle")
  /\ UNCHANGED <<inputVars, stack, visited, ran, started, command, watchVars>>

VisitCycle ==
  /\ stage = "validate" /\ HasNext /\ Dependency \in OnStack
  /\ Exit("cycle")
  /\ UNCHANGED <<inputVars, stack, visited, ran, started, command, watchVars>>

VisitAgain ==
  /\ stage = "validate" /\ HasNext /\ Dependency \in visited \ OnStack
  /\ stack' = Advanced
  /\ UNCHANGED <<inputVars, stage, visited, ran, started, command, watchVars, verdict>>

VisitTask ==
  /\ stage = "validate" /\ HasNext /\ Dependency \in Task \ (visited \cup OnStack)
  /\ stack' = Append(Advanced, [task |-> Dependency, next |-> 1])
  /\ UNCHANGED <<inputVars, stage, visited, ran, started, command, watchVars, verdict>>

\* The walk leaves a task.
VisitEnds ==
  /\ stage = "validate" /\ stack # <<>> /\ ~HasNext
  /\ visited' = visited \cup {Top.task}
  /\ stack' = Front(stack)
  /\ stage' = IF Len(stack) > 1 THEN "validate" ELSE "patterns"
  /\ UNCHANGED <<inputVars, ran, started, command, watchVars, verdict>>

\* The task's watch patterns are looked at even without --watch; then a first
\* snapshot is taken if --watch asks for it.
RefusePatterns ==
  /\ stage = "patterns"
  /\ Exit("bad pattern")
  /\ UNCHANGED <<inputVars, stack, visited, ran, started, command, watchVars>>

AcceptPatterns ==
  /\ stage = "patterns"
  /\ stage' = IF watch THEN "snapshot" ELSE "start"
  /\ UNCHANGED <<inputVars, stack, visited, ran, started, command, watchVars, verdict>>

---------------------------------------------------------------------------
(* runTaskWithDeps.                                                        *)

RunSkips ==
  /\ stage = "run" /\ HasNext /\ Dependency \in ran
  /\ stack' = Advanced
  /\ UNCHANGED <<inputVars, stage, visited, ran, started, command, watchVars, verdict>>

\* Mutant of RunDependency: a dependency runs for every task that names it.
RunDependencyAgain ==
  /\ stage = "run" /\ HasNext
  /\ stack' = Append(Advanced, [task |-> Dependency, next |-> 1])
  /\ UNCHANGED <<inputVars, stage, visited, ran, started, command, watchVars, verdict>>

RunDependency ==
  /\ stage = "run" /\ HasNext /\ Dependency \notin ran
  /\ stack' = Append(Advanced, [task |-> Dependency, next |-> 1])
  /\ UNCHANGED <<inputVars, stage, visited, ran, started, command, watchVars, verdict>>

\* All commands of a parallel task start at once, else the first one does.
RunTask ==
  /\ stage = "run" /\ stack # <<>> /\ ~HasNext
  /\ stage' = "commands"
  /\ started' = Append(started, Top.task)
  /\ command' = [i \in 1..Commands[Top.task] |->
                   IF Top.task \in Parallel \/ i = 1 THEN "running" ELSE "waiting"]
  /\ UNCHANGED <<inputVars, stack, visited, ran, watchVars, verdict>>

---------------------------------------------------------------------------
(* runTask, runParallel and runShell.                                      *)

\* A command ends; the next one of a task that is not parallel starts if it
\* has succeeded.
CommandEnds(i) ==
  /\ stage = "commands" /\ i \in DOMAIN command /\ command[i] = "running"
  /\ \E r \in Result :
       command' = [j \in DOMAIN command |->
                     IF j = i THEN r
                     ELSE IF j = i + 1 /\ r = "ok" /\ Top.task \notin Parallel THEN "running"
                     ELSE command[j]]
  /\ UNCHANGED <<inputVars, stage, stack, visited, ran, started, watchVars, verdict>>

Ended == \A i \in DOMAIN command : command[i] # "running"
Failures == {i \in DOMAIN command : command[i] \in {"failed", "error"}}

\* Mutant of TaskSucceeds: the snapshot is taken after the run.
TaskSucceedsAndSnaps ==
  /\ stage = "commands" /\ Ended /\ Failures = {}
  /\ ran' = ran \cup {Top.task}
  /\ stack' = Front(stack)
  /\ stage' = IF Len(stack) > 1 THEN "run" ELSE IF watch THEN "poll" ELSE "exited"
  /\ verdict' = IF Len(stack) > 1 \/ watch THEN verdict ELSE "ok"
  /\ command' = <<>>
  /\ snap' = files
  /\ UNCHANGED <<inputVars, visited, started, files, seen>>

TaskSucceeds ==
  /\ stage = "commands" /\ Ended /\ Failures = {}
  /\ ran' = ran \cup {Top.task}
  /\ stack' = Front(stack)
  /\ stage' = IF Len(stack) > 1 THEN "run" ELSE IF watch THEN "poll" ELSE "exited"
  /\ verdict' = IF Len(stack) > 1 \/ watch THEN verdict ELSE "ok"
  /\ command' = <<>>
  /\ UNCHANGED <<inputVars, visited, started, watchVars>>

\* Mutant of TaskFails: the first failure is reported at once.
TaskFailsAtOnce ==
  /\ stage = "commands" /\ Failures # {}
  /\ Exit("failed")
  /\ stack' = <<>>
  /\ UNCHANGED <<inputVars, visited, ran, started, command, watchVars>>

\* A failure is that of every task that waits for this one, and ends --watch.
TaskFails ==
  /\ stage = "commands" /\ Ended /\ Failures # {}
  /\ Exit("failed")
  /\ stack' = <<>>
  /\ UNCHANGED <<inputVars, visited, ran, started, command, watchVars>>

---------------------------------------------------------------------------
(* watchTask.                                                              *)

\* The walk over the files fails, for one when a file vanishes under it.
SnapshotFails ==
  /\ stage \in {"snapshot", "poll"}
  /\ Exit("watch failed")
  /\ UNCHANGED <<inputVars, stack, visited, ran, started, command, watchVars>>

FirstSnapshot ==
  /\ stage = "snapshot"
  /\ snap' = files
  /\ stage' = "start"
  /\ UNCHANGED <<inputVars, stack, visited, ran, started, command, files, seen, verdict>>

RunStarts ==
  /\ stage = "start"
  /\ stage' = "run"
  /\ stack' = <<[task |-> Selected, next |-> 1]>>
  /\ ran' = {} /\ started' = <<>> /\ command' = <<>>
  /\ seen' = files
  /\ UNCHANGED <<inputVars, visited, files, snap, verdict>>

PollSeesChange ==
  /\ stage = "poll" /\ snap # files
  /\ stage' = "settle"
  /\ UNCHANGED <<inputVars, stack, visited, ran, started, command, watchVars, verdict>>

\* A moment later the snapshot for the next poll is taken, before the run; if
\* that fails, nothing is remembered and the next poll sees a change.
Settle ==
  /\ stage = "settle"
  /\ snap' \in {files, Unknown}
  /\ stage' = "start"
  /\ UNCHANGED <<inputVars, stack, visited, ran, started, command, files, seen, verdict>>

Edit ==
  /\ stage # "exited" /\ files < MaxEdits
  /\ files' = files + 1
  /\ UNCHANGED <<inputVars, stage, stack, visited, ran, started, command, snap, seen, verdict>>

---------------------------------------------------------------------------
Validate == \/ VisitUnknown \/ VisitCycle \/ VisitAgain \/ VisitTask \/ VisitEnds
            \/ RefusePatterns \/ AcceptPatterns
RunGraph == \/ RunSkips \/ RunDependency \/ RunTask
            \/ \E i \in DOMAIN command : CommandEnds(i)
            \/ TaskSucceeds \/ TaskFails
Watch == FirstSnapshot \/ RunStarts \/ PollSeesChange \/ Settle

TaskNext == Validate \/ RunGraph \/ Watch \/ SnapshotFails \/ Edit

\* The process goes on as long as it can; commands end.
TaskSpec == TaskInit /\ [][TaskNext]_taskVars /\ WF_taskVars(Validate \/ RunGraph \/ Watch)

---------------------------------------------------------------------------
\* What is reachable from the names S: all that is in every set which holds S and what
\* its tasks depend on.
Closed(X) == \A t \in X \cap Task : ToSet(dependsOn[t]) \subseteq X
From(S) == {n \in Task \cup Undefined :
              \A X \in SUBSET (Task \cup Undefined) : S \subseteq X /\ Closed(X) => n \in X}

Reachable == From({Selected})
Circular == \E t \in Reachable \cap Task : t \in From(ToSet(dependsOn[t]))

\* No command is started unless the graph is sound, and the diagnostic says
\* what is wrong with it (validateTaskGraph).
GraphVerdict ==
  /\ verdict = "unknown task" => ~(Reachable \subseteq Task)
  /\ verdict = "cycle" => Circular
  /\ verdict \notin {"unknown task", "cycle"} /\ stage # "validate"
       => Reachable \subseteq Task /\ ~Circular

\* In a run of the graph every task starts once, and after all the tasks it
\* depends on have succeeded (runTaskWithDeps).
DepsFirst ==
  /\ IsInjective(started)
  /\ \A i \in DOMAIN started :
       ToSet(dependsOn[started[i]]) \subseteq ran \cap ToSet(SubSeq(started, 1, i - 1))

\* The command succeeds only when all tasks it needed have; when it fails it
\* leaves no command of a parallel task behind (runTask, runParallel).
ExitTellsAll ==
  /\ verdict = "ok" => ran = Reachable
  /\ stage = "exited" => "running" \notin ToSet(command)
  /\ stage \in {"run", "poll", "exited"} /\ verdict # "failed" => Failures = {}

\* Every edit is followed by a run of the graph that starts after it, unless
\* the command ends (watchTask).
EditsRun == \A k \in 1..MaxEdits : files >= k ~> seen >= k \/ stage = "exited"
=============================================================================
