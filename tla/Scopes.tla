-------------------------------- MODULE Scopes --------------------------------
(***************************************************************************)
(* Structured concurrency: the scope statement of Tya, its code in         *)
(* internal/codegen/stmt.go and its runtime functions in                   *)
(* runtime/tya_runtime_task_sync.c.                                        *)
(*                                                                         *)
(* The chain of scopes starts at tya_current_scope, a variable of the      *)
(* operating-system thread: all fibers share it.                           *)
(***************************************************************************)
EXTENDS Scheduler

CONSTANTS
  Scope,   \* the TyaScope structures, on the stack of whoever enters them
  Scoped,  \* whose code has scope statements
  Returns  \* whose code may return out of a scope statement

ASSUME ScopesAssumption ==
  /\ None \notin Scope
  /\ Scoped \subseteq Owner
  /\ Returns \subseteq Owner

VARIABLES
  curScope,  \* tya_current_scope
  outer,     \* the field prev of a scope
  members,   \* the fields tasks and len of a scope
  own,       \* the scopes an owner is inside, outermost first
  stage,     \* "body", or the runtime function that leaves an owner's scope
  pos,       \* the local i of that function
  first,     \* tya_scope_exit: the task whose raise is first_raise, None without had_raise
  inside,    \* history: the tasks the owner of a scope spawned inside it
  escaped    \* history: a scope has been left by a return

chainVars == <<curScope, outer, own>>
joinVars == <<stage, pos, first>>
scopeVars == <<chainVars, joinVars, members, inside, escaped>>
allVars == <<vars, scopeVars>>

Live == UNION {Range(own[o]) : o \in Owner}
Inner(o) == own[o][Len(own[o])]

ScopesInit ==
  /\ Init
  /\ curScope = None
  /\ outer = [s \in Scope |-> None]
  /\ members = [s \in Scope |-> <<>>]
  /\ own = [o \in Owner |-> <<>>]
  /\ stage = [o \in Owner |-> "body"]
  /\ pos = [o \in Owner |-> 0]
  /\ first = [o \in Owner |-> None]
  /\ inside = [s \in Scope |-> {}]
  /\ escaped = FALSE
-----------------------------------------------------------------------------
\* tya_scope_enter.
Enter(o) ==
  /\ o \in Scoped /\ Runs(o) /\ stage[o] = "body"
  /\ \E s \in Scope \ Live :
       /\ members' = [members EXCEPT ![s] = <<>>]
       /\ outer' = [outer EXCEPT ![s] = curScope]
       /\ curScope' = s
       /\ own' = [own EXCEPT ![o] = Append(@, s)]
       /\ inside' = [inside EXCEPT ![s] = {}]
  /\ UNCHANGED <<vars, joinVars, escaped>>

\* tya_task_new with tya_scope_register_task: the new task goes to the innermost
\* scope of the thread, whoever entered that one.
SpawnInto(o) ==
  /\ stage[o] = "body"
  /\ \E t \in Task :
       /\ SpawnTask(o, t)
       /\ members' = [s \in Scope |-> IF s = curScope THEN Append(members[s], t) ELSE members[s]]
       /\ inside' = [s \in Scope |-> IF s \in Range(own[o]) THEN inside[s] \cup {t} ELSE inside[s]]
  /\ UNCHANGED <<chainVars, joinVars, escaped>>

\* The loop over the tasks of a scope gets to task i.  tya_scope_exit cancels it
\* if an earlier one, f, has raised.
Reach(o, i, f) ==
  LET list == members[Inner(o)] IN
    /\ pos' = [pos EXCEPT ![o] = i]
    /\ first' = [first EXCEPT ![o] = f]
    /\ cancelled' = IF f # None /\ i <= Len(list) THEN cancelled \cup {list[i]} ELSE cancelled

\* The end of the body: tya_scope_exit.
Exit(o) ==
  /\ Runs(o) /\ stage[o] = "body" /\ own[o] # <<>>
  /\ stage' = [stage EXCEPT ![o] = "exit"]
  /\ Reach(o, 1, None)
  /\ UNCHANGED <<switchVars, pc, target, created, done, raised, queueVars, sleepVars, waiterVars,
                 chainVars, members, inside, escaped>>

\* Mutant of Raise: only waits.
RaiseWaits(o) ==
  /\ Runs(o) /\ stage[o] = "body" /\ own[o] # <<>>
  /\ stage' = [stage EXCEPT ![o] = "raise"]
  /\ pos' = [pos EXCEPT ![o] = 1]
  /\ UNCHANGED <<vars, chainVars, members, inside, escaped, first>>

\* The body raises: tya_scope_raise cancels every task before it waits.
Raise(o) ==
  /\ Runs(o) /\ stage[o] = "body" /\ own[o] # <<>>
  /\ stage' = [stage EXCEPT ![o] = "raise"]
  /\ pos' = [pos EXCEPT ![o] = 1]
  /\ cancelled' = cancelled \cup Range(members[Inner(o)])
  /\ UNCHANGED <<switchVars, pc, target, created, done, raised, queueVars, sleepVars, waiterVars,
                 chainVars, members, inside, escaped, first>>

\* A return inside the body: the generated code pops the raise frame and leaves,
\* without a call of the runtime.  Later the same function may enter a scope at
\* the same address.  (Bound: one such return.)
ReturnOut(o) ==
  /\ o \in Returns /\ ~escaped /\ Runs(o) /\ stage[o] = "body" /\ own[o] # <<>>
  /\ own' = [own EXCEPT ![o] = SubSeq(@, 1, Len(@) - 1)]
  /\ escaped' = TRUE
  /\ UNCHANGED <<vars, curScope, outer, joinVars, members, inside>>

\* The owner is in tya_scheduler_run_until_task_done for a task of its scope.
Joins(o) == Runs(o) /\ stage[o] # "body" /\ pos[o] <= Len(members[Inner(o)])
Joined(o) == members[Inner(o)][pos[o]]

\* That loop, which a task runs on top of its own fiber.
JoinRuns(o) ==
  /\ Joins(o) /\ Joined(o) \notin done
  /\ WakeSleeper \/ (Dispatch(o) /\ UNCHANGED <<pc, target, fateVars, sleepVars, waiterVars>>)
  /\ UNCHANGED scopeVars

\* Mutants of JoinNext: forget the tasks behind one that raised; keep the raise of
\* the last task in place of the first.
JoinStops(o) ==
  /\ Joins(o)
  /\ Joined(o) \in done \/ (ready = <<>> /\ sleepers = <<>>)
  /\ IF Joined(o) \in raised
       THEN Reach(o, Len(members[Inner(o)]) + 1, Joined(o))
       ELSE Reach(o, pos[o] + 1, first[o])
  /\ UNCHANGED <<switchVars, pc, target, created, done, raised, queueVars, sleepVars, waiterVars,
                 chainVars, members, inside, escaped, stage>>

JoinKeepsLast(o) ==
  /\ Joins(o)
  /\ Joined(o) \in done \/ (ready = <<>> /\ sleepers = <<>>)
  /\ Reach(o, pos[o] + 1, IF stage[o] = "exit" /\ Joined(o) \in raised
                           THEN Joined(o) ELSE first[o])
  /\ UNCHANGED <<switchVars, pc, target, created, done, raised, queueVars, sleepVars, waiterVars,
                 chainVars, members, inside, escaped, stage>>

\* What tya_scope_exit keeps behind the task it has waited for.
Kept(o) == IF stage[o] = "exit" /\ first[o] = None /\ Joined(o) \in raised
           THEN Joined(o) ELSE first[o]

\* It ends when the task is done, or when no task is ready and none sleeps.
JoinNext(o) ==
  /\ Joins(o)
  /\ Joined(o) \in done \/ (ready = <<>> /\ sleepers = <<>>)
  /\ Reach(o, pos[o] + 1, Kept(o))
  /\ UNCHANGED <<switchVars, pc, target, created, done, raised, queueVars, sleepVars, waiterVars,
                 chainVars, members, inside, escaped, stage>>

\* Mutant of ScopeEnds: the scope stays the current one.
ScopeStays(o) ==
  /\ Runs(o) /\ stage[o] # "body" /\ pos[o] > Len(members[Inner(o)])
  /\ own' = [own EXCEPT ![o] = SubSeq(@, 1, Len(@) - 1)]
  /\ stage' = [stage EXCEPT ![o] = "body"]
  /\ pos' = [pos EXCEPT ![o] = 0]
  /\ first' = [first EXCEPT ![o] = None]
  /\ members' = [members EXCEPT ![Inner(o)] = <<>>]
  /\ UNCHANGED <<vars, curScope, outer, inside, escaped>>

\* Behind the last task the scope is taken off the chain.  A value that was raised
\* is raised again: it ends the scope around, the task, or nothing if it is caught.
ScopeEnds(o) ==
  /\ Runs(o) /\ stage[o] # "body" /\ pos[o] > Len(members[Inner(o)])
  /\ curScope' = outer[Inner(o)]
  /\ own' = [own EXCEPT ![o] = SubSeq(@, 1, Len(@) - 1)]
  /\ stage' = [stage EXCEPT ![o] = "body"]
  /\ pos' = [pos EXCEPT ![o] = 0]
  /\ first' = [first EXCEPT ![o] = None]
  /\ members' = [members EXCEPT ![Inner(o)] = <<>>]
  /\ UNCHANGED <<vars, outer, inside, escaped>>

ScopeStep(o) == Enter(o) \/ SpawnInto(o) \/ Exit(o) \/ Raise(o) \/ ReturnOut(o)
                \/ JoinRuns(o) \/ JoinNext(o) \/ ScopeEnds(o)

\* The steps of Scheduler other than Spawn, in a scope or not; a body does not
\* return before its scopes have ended.
TaskOther(t) ==
  /\ stage[t] = "body"
  /\ \/ Cancel(t) \/ Await(t) \/ AwaitReturn(t) \/ Sleep(t) \/ Yield(t)
     \/ (own[t] = <<>> /\ Finish(t))
     \/ WakeWaiter(t) \/ Leave(t)
  /\ UNCHANGED scopeVars

MainOther ==
  /\ stage[Main] = "body"
  /\ \/ Cancel(Main) \/ MainAwait \/ MainSleep \/ MainWakeSleeper \/ MainDispatch
     \/ MainAwaitReturn \/ MainSleepReturn
     \/ (own[Main] = <<>> /\ MainExit)
  /\ UNCHANGED scopeVars

TaskRuns == \E t \in Task : TaskOther(t) \/ ScopeStep(t)
MainRuns == MainOther \/ ScopeStep(Main)

ScopesNext == TaskRuns \/ MainRuns \/ ((Tick \/ Stopped) /\ UNCHANGED scopeVars)

ScopesSpec == ScopesInit /\ [][ScopesNext]_allVars
-----------------------------------------------------------------------------
(* Properties.                                                             *)

\* Unless a scope has been left by a return, the chain of scopes never leads to a
\* TyaScope whose block has been left
\* (tya_scope_enter, tya_scope_exit).
ChainLive == ~escaped =>
  /\ curScope \in Live \cup {None}
  /\ \A s \in Live : outer[s] \in Live \cup {None}

\* When a scope ends and none has been left by a return, every task that was
\* spawned inside it by its owner is done
\* (tya_scope_register_task, tya_scope_exit, tya_scope_raise).
ScopeJoins ==
  [][\A o \in Owner : ~escaped' /\ own[o] # <<>> /\ Len(own'[o]) < Len(own[o]) => inside[Inner(o)] \subseteq done]_allVars

\* f is the first of the first n tasks of a list that has raised, or None if none has.
FirstRaise(f, list, n) ==
  \/ f = None /\ \A i \in 1..n : list[i] \notin raised
  \/ \E i \in 1..n : /\ f = list[i] /\ f \in raised
                     /\ \A j \in 1..(i - 1) : list[j] \notin raised

\* tya_scope_exit raises when, and only when, a task of the scope has raised, and
\* what it raises is the raise of the task that was spawned first among those, in
\* whatever order they ended.
ScopeReraises ==
  [][\A o \in Owner :
       stage[o] = "exit" /\ stage'[o] = "body"
       => FirstRaise(first[o], members[Inner(o)], Len(members[Inner(o)]))]_allVars

\* While a body that raised waits for its tasks, all of them are asked to stop,
\* unless a scope has been left by a return (tya_scope_raise).
BodyRaiseCancels == ~escaped =>
  \A o \in Owner : stage[o] = "raise" => inside[Inner(o)] \ done \subseteq cancelled

=============================================================================
