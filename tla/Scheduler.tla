------------------------------ MODULE Scheduler ------------------------------
(***************************************************************************)
(* The fiber scheduler of the Tya runtime (runtime/tya_runtime_net.c and   *)
(* runtime/tya_runtime_task_sync.c).                                       *)
(*                                                                         *)
(* Everything runs on one operating-system thread.  A task is a ucontext   *)
(* fiber; code between two context switches is atomic.  The main program   *)
(* is not a task: when it has to wait it runs the scheduler loop itself.   *)
(* A fiber that has to wait jumps back into the activation of              *)
(* tya_scheduler_run_one that is recorded in the global tya_scheduler_ctx. *)
(***************************************************************************)
EXTENDS Integers, Sequences, FiniteSets, Functions

CONSTANTS
  Task,      \* the tasks a program may spawn
  Main,      \* the main program, tya_current_task_ptr = NULL
  None,      \* the null pointer
  Awaits,    \* <<a, t>> : the program lets task a execute "await t"
  Cancels,   \* whose code may cancel tasks
  Raises,    \* the tasks whose code may end with a raise
  MaxTime    \* bound on the clock, in the unit of time.sleep

ASSUME SchedulerAssumption ==
  /\ Main \notin Task
  /\ None \notin Task \cup {Main}
  /\ Awaits \subseteq Task \X Task
  /\ Cancels \subseteq Task \cup {Main}
  /\ Raises \subseteq Task
  /\ MaxTime \in Nat

Owner == Task \cup {Main}

VARIABLES
  cur,        \* tya_current_task_ptr: whose code is executing
  ctx,        \* tya_scheduler_ctx: whose run_one activation was saved last
  prev,       \* the local prev of the run_one activation that resumed a task
  pc,         \* where each owner stands in the runtime call it is making
  target,     \* the task an owner is awaiting
  created,    \* tasks that tya_task_new has returned
  done,       \* the flag done
  raised,     \* the flag raised
  cancelled,  \* the flag cancelled
  queued,     \* the flag queued
  ready,      \* the list from tya_ready_head to tya_ready_tail
  sleepers,   \* the list from tya_sleep_head
  wake,       \* wake_time of a task, and the deadline of a sleeping main program
  now,        \* the clock
  nextWaiter, \* the pointer next_waiter
  waking      \* the local w of tya_task_wake_waiters

queueVars == <<queued, ready>>
sleepVars == <<sleepers, wake, now>>
waiterVars == <<nextWaiter, waking>>
fateVars == <<created, done, raised, cancelled>>
switchVars == <<cur, ctx, prev>>
vars == <<switchVars, pc, target, fateVars, queueVars, sleepVars, waiterVars>>

(* One type invariant.  cur = None is the state after a jump through a     *)
(* context whose stack frame is gone; TypeOK says that it never happens.   *)
Typed ==
  /\ cur \in Owner \cup {None}
  /\ ctx \in Owner \cup {None}
  /\ prev \in [Task -> Owner \cup {None}]
  /\ pc \in [Owner -> {"run", "await", "sleep", "wake", "exit"}]
  /\ target \in [Owner -> Task \cup {None}]
  /\ created \subseteq Task
  /\ done \subseteq created
  /\ raised \subseteq done
  /\ cancelled \subseteq created
  /\ queued \subseteq created
  /\ ready \in Seq(Task)
  /\ sleepers \in Seq(Task)
  /\ wake \in [Owner -> 0..MaxTime]
  /\ now \in 0..MaxTime
  /\ nextWaiter \in [Task -> Task \cup {None}]
  /\ waking \in Task \cup {None}

TypeOK == Typed /\ cur # None

Init ==
  /\ cur = Main
  /\ ctx = None
  /\ prev = [t \in Task |-> None]
  /\ pc = [o \in Owner |-> "run"]
  /\ target = [o \in Owner |-> None]
  /\ created = {}
  /\ done = {}
  /\ raised = {}
  /\ cancelled = {}
  /\ queued = {}
  /\ ready = <<>>
  /\ sleepers = <<>>
  /\ wake = [o \in Owner |-> 0]
  /\ now = 0
  /\ nextWaiter = [t \in Task |-> None]
  /\ waking = None
-----------------------------------------------------------------------------
(* Steps the runtime functions are built from.                             *)

\* Mutant of Enqueue: push at the head of the list.
EnqueueFirst(t) ==
  IF t \in done \cup queued
    THEN UNCHANGED queueVars
    ELSE /\ ready' = <<t>> \o ready
         /\ queued' = queued \cup {t}

\* tya_task_enqueue: a task that is done or already queued stays as it is.
Enqueue(t) ==
  IF t \in done \cup queued
    THEN UNCHANGED queueVars
    ELSE /\ ready' = Append(ready, t)
         /\ queued' = queued \cup {t}

\* swapcontext(&t->ctx, &tya_scheduler_ctx) and the lines of run_one after its
\* own swapcontext.  They are the right lines only if the saved context is that
\* of the activation that resumed t; otherwise the frame is dead.
SwitchOut(t) ==
  /\ cur' = IF ctx = prev[t] THEN ctx ELSE None
  /\ prev' = [prev EXCEPT ![t] = None]
  /\ UNCHANGED ctx

\* Mutant of SleeperDue: look at the sleepers only when nothing is ready.
SleeperDueWhenIdle == ready = <<>> /\ sleepers # <<>> /\ wake[Head(sleepers)] <= now

\* The condition of the loop in tya_task_wake_sleepers.
SleeperDue == sleepers # <<>> /\ wake[Head(sleepers)] <= now

\* One turn of the loop in tya_task_wake_sleepers.
WakeSleeper ==
  /\ SleeperDue
  /\ sleepers' = Tail(sleepers)
  /\ Enqueue(Head(sleepers))
  /\ UNCHANGED <<switchVars, pc, target, fateVars, wake, now, waiterVars>>

\* tya_scheduler_run_one called by o, up to the switch: dequeue has woken every
\* sleeper that is due, and the head of the ready list runs.
Dispatch(o) ==
  /\ ~SleeperDue
  /\ ready # <<>>
  /\ ready' = Tail(ready)
  /\ queued' = queued \ {Head(ready)}
  /\ cur' = Head(ready)
  /\ ctx' = o
  /\ prev' = [prev EXCEPT ![Head(ready)] = o]

Runs(o) == cur = o /\ pc[o] = "run"
-----------------------------------------------------------------------------
(* What the code of a task, or of the main program, may do.                *)

\* tya_task_new.
SpawnTask(o, t) ==
  /\ Runs(o)
  /\ t \notin created
  /\ created' = created \cup {t}
  /\ Enqueue(t)
  /\ UNCHANGED <<switchVars, pc, target, done, raised, cancelled, sleepVars, waiterVars>>

Spawn(o) == \E t \in Task : SpawnTask(o, t)

\* Mutant of Cancel: wake the cancelled task as well.
CancelWakes(o) ==
  /\ o \in Cancels /\ Runs(o)
  /\ \E t \in created : cancelled' = cancelled \cup {t} /\ Enqueue(t)
  /\ UNCHANGED <<switchVars, pc, target, created, done, raised, sleepVars, waiterVars>>

\* tya_task_cancel: only a flag, which the task may read.
Cancel(o) ==
  /\ o \in Cancels /\ Runs(o)
  /\ \E t \in created : cancelled' = cancelled \cup {t}
  /\ UNCHANGED <<switchVars, pc, target, created, done, raised, queueVars, sleepVars, waiterVars>>

\* Mutant of Await: the waiters that were there before are not linked behind the
\* new one.
AwaitAlone(a) ==
  /\ Runs(a)
  /\ \E t \in created \ done :
       /\ <<a, t>> \in Awaits
       /\ target' = [target EXCEPT ![a] = t]
       /\ nextWaiter' = [nextWaiter EXCEPT ![t] = a]
  /\ pc' = [pc EXCEPT ![a] = "await"]
  /\ SwitchOut(a)
  /\ UNCHANGED <<fateVars, queueVars, sleepVars, waking>>

\* tya_task_await by a task, for a task that is not done: push on the list that
\* starts at the awaited task and is linked through the same field, and yield.
Await(a) ==
  /\ Runs(a)
  /\ \E t \in created \ done :
       /\ <<a, t>> \in Awaits
       /\ target' = [target EXCEPT ![a] = t]
       /\ nextWaiter' = [nextWaiter EXCEPT ![a] = nextWaiter[t], ![t] = a]
  /\ pc' = [pc EXCEPT ![a] = "await"]
  /\ SwitchOut(a)
  /\ UNCHANGED <<fateVars, queueVars, sleepVars, waking>>

\* The rest of tya_task_await, once the task is resumed: whatever the awaited
\* task holds by now is returned or raised.
AwaitReturn(a) ==
  /\ cur = a
  /\ pc[a] = "await"
  /\ pc' = [pc EXCEPT ![a] = "run"]
  /\ target' = [target EXCEPT ![a] = None]
  /\ UNCHANGED <<switchVars, fateVars, queueVars, sleepVars, waiterVars>>

\* tya_task_sleep_until: the list is ordered by wake time, first come first
\* served among equals.
SleepUntil(t, w) ==
  /\ wake' = [wake EXCEPT ![t] = w]
  /\ \E k \in 0..Len(sleepers) :
       /\ \A i \in 1..k : wake[sleepers[i]] <= w
       /\ k < Len(sleepers) => w < wake[sleepers[k+1]]
       /\ sleepers' = SubSeq(sleepers, 1, k) \o <<t>> \o SubSeq(sleepers, k+1, Len(sleepers))

\* tya_time_sleep in a task.
Sleep(t) ==
  /\ Runs(t)
  /\ \E w \in now..MaxTime : SleepUntil(t, w)
  /\ SwitchOut(t)
  /\ UNCHANGED <<pc, target, fateVars, queueVars, now, waiterVars>>

\* tya_task_yield(false): the task is left to whoever holds a pointer to it.  It
\* is the last step of the calls in other modules that park their caller, and as
\* a step of its own the mutant of Yield.
Park(t) ==
  /\ Runs(t)
  /\ SwitchOut(t)
  /\ UNCHANGED <<pc, target, fateVars, queueVars, sleepVars, waiterVars>>

\* tya_task_yield(true), the polling step of receive_timeout and select.
Yield(t) ==
  /\ Runs(t)
  /\ Enqueue(t)
  /\ SwitchOut(t)
  /\ UNCHANGED <<pc, target, fateVars, sleepVars, waiterVars>>

\* The body returns or raises: tya_task_finish up to the loop over the waiters.
Finish(t) ==
  /\ Runs(t)
  /\ done' = done \cup {t}
  /\ raised' \in {raised, raised \cup ({t} \cap Raises)}
  /\ waking' = nextWaiter[t]
  /\ nextWaiter' = [nextWaiter EXCEPT ![t] = None]
  /\ pc' = [pc EXCEPT ![t] = "wake"]
  /\ UNCHANGED <<switchVars, target, created, cancelled, queueVars, sleepVars>>

\* Mutant of WakeWaiter: wake one waiter and forget the rest.
WakeOnlyWaiter(t) ==
  /\ cur = t
  /\ pc[t] = "wake"
  /\ waking # None
  /\ waking' = None
  /\ nextWaiter' = [nextWaiter EXCEPT ![waking] = None]
  /\ Enqueue(waking)
  /\ UNCHANGED <<switchVars, pc, target, fateVars, sleepVars>>

\* One turn of the loop in tya_task_wake_waiters.
WakeWaiter(t) ==
  /\ cur = t
  /\ pc[t] = "wake"
  /\ waking # None
  /\ waking' = nextWaiter[waking]
  /\ nextWaiter' = [nextWaiter EXCEPT ![waking] = None]
  /\ Enqueue(waking)
  /\ UNCHANGED <<switchVars, pc, target, fateVars, sleepVars>>

\* The end of tya_task_fiber_main: setcontext(&tya_scheduler_ctx).
Leave(t) ==
  /\ cur = t
  /\ pc[t] = "wake"
  /\ waking = None
  /\ pc' = [pc EXCEPT ![t] = "exit"]
  /\ SwitchOut(t)
  /\ UNCHANGED <<target, fateVars, queueVars, sleepVars, waiterVars>>

TaskStep(t) ==
  \/ Spawn(t)
  \/ Cancel(t)
  \/ Await(t)
  \/ AwaitReturn(t)
  \/ Sleep(t)
  \/ Yield(t)
  \/ Finish(t)
  \/ WakeWaiter(t)
  \/ Leave(t)
-----------------------------------------------------------------------------
(* The main program: it waits by driving the scheduler.                    *)

\* tya_task_await without a current task: tya_scheduler_run_until_task_done.
MainAwait ==
  /\ Runs(Main)
  /\ \E t \in created \ done : target' = [target EXCEPT ![Main] = t]
  /\ pc' = [pc EXCEPT ![Main] = "await"]
  /\ UNCHANGED <<switchVars, fateVars, queueVars, sleepVars, waiterVars>>

\* tya_time_sleep without a current task.
MainSleep ==
  /\ Runs(Main)
  /\ \E w \in now..MaxTime : wake' = [wake EXCEPT ![Main] = w]
  /\ pc' = [pc EXCEPT ![Main] = "sleep"]
  /\ UNCHANGED <<switchVars, target, fateVars, queueVars, sleepers, now, waiterVars>>

\* The condition of the loop the main program is in.
MainDrives ==
  /\ cur = Main
  /\ \/ pc[Main] = "await" /\ target[Main] \notin done
     \/ pc[Main] = "sleep" /\ now < wake[Main]

MainWakeSleeper == MainDrives /\ WakeSleeper

MainDispatch ==
  /\ MainDrives
  /\ Dispatch(Main)
  /\ UNCHANGED <<pc, target, fateVars, sleepVars, waiterVars>>

\* Mutant of MainAwaitReturn: give up as soon as no task is ready.
MainAwaitImpatient ==
  /\ cur = Main
  /\ pc[Main] = "await"
  /\ target[Main] \in done \/ ready = <<>>
  /\ pc' = [pc EXCEPT ![Main] = "run"]
  /\ target' = [target EXCEPT ![Main] = None]
  /\ UNCHANGED <<switchVars, fateVars, queueVars, sleepVars, waiterVars>>

\* Leaving the loop of run_until_task_done: the task is done, or no task is
\* ready and none sleeps, and the loop gives up.
MainAwaitReturn ==
  /\ cur = Main
  /\ pc[Main] = "await"
  /\ target[Main] \in done \/ (ready = <<>> /\ sleepers = <<>>)
  /\ pc' = [pc EXCEPT ![Main] = "run"]
  /\ target' = [target EXCEPT ![Main] = None]
  /\ UNCHANGED <<switchVars, fateVars, queueVars, sleepVars, waiterVars>>

MainSleepReturn ==
  /\ cur = Main
  /\ pc[Main] = "sleep"
  /\ now >= wake[Main]
  /\ pc' = [pc EXCEPT ![Main] = "run"]
  /\ UNCHANGED <<switchVars, target, fateVars, queueVars, sleepVars, waiterVars>>

\* main returns and the process ends, with whatever tasks are left.
MainExit ==
  /\ Runs(Main)
  /\ pc' = [pc EXCEPT ![Main] = "exit"]
  /\ UNCHANGED <<switchVars, target, fateVars, queueVars, sleepVars, waiterVars>>

MainStep ==
  \/ Spawn(Main)
  \/ Cancel(Main)
  \/ MainAwait
  \/ MainSleep
  \/ MainWakeSleeper
  \/ MainDispatch
  \/ MainAwaitReturn
  \/ MainSleepReturn
  \/ MainExit

\* The wall clock goes on at any time.
Tick ==
  /\ now < MaxTime
  /\ now' = now + 1
  /\ UNCHANGED <<switchVars, pc, target, fateVars, queueVars, sleepers, wake, waiterVars>>

\* The process has ended, or undefined behaviour has set in.
Stopped ==
  /\ pc[Main] = "exit" \/ cur = None
  /\ UNCHANGED vars

Next ==
  \/ \E t \in Task : TaskStep(t)
  \/ MainStep
  \/ Tick
  \/ Stopped

\* One thread: whoever is running goes on running, and time passes.  A task
\* whose code never suspends and never ends is not modelled.
Fairness ==
  /\ WF_vars(\E t \in Task : TaskStep(t))
  /\ WF_vars(MainStep)
  /\ WF_vars(Tick)

Spec == Init /\ [][Next]_vars
FairSpec == Spec /\ Fairness
-----------------------------------------------------------------------------
(* Properties.                                                             *)

\* Where a task is: on the processor (running, or waiting inside a scheduler
\* loop of its own), or parked in tya_task_await.
On == {t \in Task : prev[t] # None}
Parked == {t \in Task : pc[t] = "await" /\ t \notin On \cup queued}

\* The flag queued and the ready list agree, no list holds a task twice, and a
\* task that is alive is in exactly one of: on the processor, ready, sleeping,
\* parked.  Hence no task is dropped by the scheduler and none is resumed twice
\* (tya_task_enqueue, tya_task_dequeue, tya_task_sleep_until).
OnePlace ==
  /\ IsInjective(ready)
  /\ IsInjective(sleepers)
  /\ Range(ready) = queued
  /\ created \ done \subseteq On \cup queued \cup Range(sleepers) \cup Parked
  /\ On \cap (queued \cup Range(sleepers)) = {}
  /\ queued \cap Range(sleepers) = {}
  /\ Parked \cap Range(sleepers) = {}
  /\ done \cap (queued \cup Range(sleepers) \cup Parked) = {}

\* The list of tya_task_sleep_until is in the order of the wake times, which
\* tya_task_wake_sleepers relies on when it stops at the first that is not due.
SleepersSorted ==
  \A i, j \in DOMAIN sleepers : i <= j => wake[sleepers[i]] <= wake[sleepers[j]]

\* await in a task returns only when the awaited task is done, so that what it
\* returns is that task's result (tya_task_await).
AwaitReturnsDone ==
  [][\A a \in Task : pc[a] = "await" /\ pc'[a] = "run" => target[a] \in done]_vars

\* The same for the main program, whose await ends when the scheduler has
\* nothing left to run: that must not happen while the awaited task is alive
\* (tya_scheduler_run_until_task_done).
MainAwaitReturnsDone ==
  [][pc[Main] = "await" /\ pc'[Main] = "run" => target[Main] \in done]_vars

\* Sets that the field next_waiter does not lead out of, and the tasks it leads to
\* from t, t included: those that tya_task_wake_waiters finds.
Closed(S) == \A x \in S : nextWaiter[x] \in S \cup {None}
From(t) == {a \in Task : \A S \in SUBSET Task : t \in S /\ Closed(S) => a \in S}

\* No wakeup is lost: a parked task is found from the task it awaits while that
\* one is alive, and by the walk in progress once it is done
\* (tya_task_await, tya_task_wake_waiters).
AwaitersLinked ==
  \A a \in Parked : IF target[a] \notin done THEN a \in From(target[a])
                    ELSE waking # None /\ a \in From(waking)

MainWaits == pc[Main] \in {"await", "sleep"}

\* While the main program waits, every ready task gets its turn (tasks that poll
\* or spawn cannot starve it), a sleeping task is resumed in the end, and a task
\* that awaits a finished one goes on (tya_scheduler_run_one,
\* tya_task_wake_sleepers, tya_task_wake_waiters).
TasksGoOn ==
  \A t \in Task :
    /\ t \in queued /\ MainWaits ~> t \notin queued \/ ~MainWaits
    /\ t \in Range(sleepers) /\ MainWaits ~> cur = t \/ ~MainWaits
    /\ pc[t] = "await" /\ target[t] \in done /\ MainWaits
         ~> pc[t] = "run" \/ ~MainWaits
=============================================================================
