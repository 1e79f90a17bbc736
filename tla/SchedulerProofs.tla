--------------------------- MODULE SchedulerProofs ---------------------------
(***************************************************************************)
(* What holds of the scheduler for every set of tasks, every await relation *)
(* and every clock bound.                                                   *)
(*                                                                          *)
(* PlaceInv is about the lists and the tasks on them, whoever drives the    *)
(* scheduler: the proofs about channels and scopes use it too, whose tasks  *)
(* may run the scheduler on top of their own frames and may be parked in    *)
(* calls the scheduler does not know of.                                    *)
(***************************************************************************)
EXTENDS Scheduler, ListFacts

\* The ready list and the sleep list, and that no task is on two of them.
ListInv ==
  /\ IsInjective(ready)
  /\ Range(ready) = queued
  /\ IsInjective(sleepers)
  /\ queued \cap Range(sleepers) = {}

\* The activations of run_one are nested: each was entered by somebody who is
\* still there, and the saved context is that of no task but the running one.
StackInv ==
  /\ cur \in Task => cur \in On
  /\ \A t \in On : /\ prev[t] \in On \cup {Main}
                   /\ prev[t] # cur
                   /\ prev[t] = ctx => t = cur

\* What a task's place says about its program counter.
PcInv ==
  /\ \A t \in Task : /\ pc[t] \in {"run", "await", "wake", "exit"}
                     /\ t \in done <=> pc[t] \in {"wake", "exit"}
                     /\ pc[t] = "wake" => cur = t
                     /\ pc[t] = "exit" => t \notin On
                     /\ pc[t] # "run" => t \in created
  /\ On \subseteq created
  /\ (queued \cup Range(sleepers)) \cap (On \cup done) = {}
  /\ \A t \in Range(sleepers) : pc[t] = "run" /\ t \in created

\* The waiter lists: only parked tasks are linked, each from one place.
LinkInv ==
  /\ \A t \in Task : nextWaiter[t] # None => nextWaiter[t] \in Parked
  /\ \A t, u \in Task : nextWaiter[t] = nextWaiter[u] /\ nextWaiter[t] # None => t = u
  /\ waking # None => /\ waking \in Parked
                      /\ cur \in Task /\ pc[cur] = "wake"
                      /\ \A t \in Task : nextWaiter[t] # waking

PlaceInv == Typed /\ ListInv /\ StackInv /\ PcInv /\ LinkInv

\* The tasks that are alive and in no place the scheduler knows of.  Its steps
\* neither find such a task nor leave one behind.
Elsewhere ==
  {t \in created : pc[t] = "run" /\ t \notin On \cup queued \cup Range(sleepers)}
-----------------------------------------------------------------------------
\* tya_task_enqueue keeps the list and the flag in agreement.
LEMMA EnqueueFacts ==
  ASSUME Typed, ListInv, NEW t \in created, Enqueue(t), t \notin Range(sleepers),
         sleepers' = sleepers
  PROVE  /\ ready' \in Seq(Task)
         /\ ListInv'
         /\ queued' = IF t \in done THEN queued ELSE queued \cup {t}
<1>1. CASE t \in done \cup queued
  BY <1>1 DEF Enqueue, queueVars, Typed, ListInv
<1>2. CASE t \notin done \cup queued
  <2>1. /\ ready \in Seq(Task) /\ t \in Task
        /\ ready' = Append(ready, t) /\ queued' = queued \cup {t}
        /\ IsInjective(ready) /\ t \notin Range(ready)
    BY <1>2 DEF Enqueue, Typed, ListInv
  <2>2. /\ ready' \in Seq(Task)
        /\ IsInjective(ready')
        /\ Range(ready') = Range(ready) \cup {t}
    BY <2>1, AppendFacts
  <2> QED BY <1>2, <2>1, <2>2 DEF ListInv
<1> QED BY <1>1, <1>2

\* A switch back to the scheduler takes the running task off the processor and
\* gives it to whoever entered the activation that had resumed the task, or to
\* nobody.
LEMMA SwitchFacts ==
  ASSUME Typed, StackInv, NEW t \in Task, cur = t, SwitchOut(t)
  PROVE  /\ cur' \in Owner \cup {None} /\ cur' # t
         /\ ctx' = ctx
         /\ prev' \in [Task -> Owner \cup {None}]
         /\ prev' = [prev EXCEPT ![t] = None]
         /\ On' = On \ {t}
         /\ t \in On
         /\ StackInv'
<1> USE SchedulerAssumption
<1>1. /\ cur' = IF ctx = prev[t] THEN ctx ELSE None
      /\ prev' = [prev EXCEPT ![t] = None]
      /\ ctx' = ctx
  BY DEF SwitchOut
<1>2. /\ prev'[t] = None
      /\ \A u \in Task : u # t => prev'[u] = prev[u]
      /\ prev' \in [Task -> Owner \cup {None}]
  BY <1>1 DEF Typed
<1>3. On' = On \ {t} /\ t \in On
  BY <1>2 DEF On, StackInv
<1>4. cur' \in Owner \cup {None} /\ cur' # t
  BY <1>1, <1>3 DEF Typed, StackInv, Owner
<1>5. cur' \in Task => cur' \in On'
  BY <1>1, <1>3, <1>4 DEF StackInv
<1>6. ASSUME NEW u \in On' PROVE prev'[u] \in On' \cup {Main} /\ prev'[u] # cur' /\ prev'[u] # ctx'
  <2>1. u \in On /\ u # t /\ u \in Task /\ prev'[u] = prev[u] /\ prev[u] # None
    BY <1>2, <1>3 DEF On
  <2>2. prev[u] # t /\ prev[u] \in On \cup {Main} /\ prev[u] # ctx
    BY <2>1 DEF StackInv
  <2> QED BY <1>1, <1>3, <2>1, <2>2
<1> QED BY <1>1, <1>2, <1>3, <1>4, <1>5, <1>6 DEF StackInv

\* tya_task_new puts a new task on the ready list and on no other.
LEMMA SpawnPlace ==
  ASSUME PlaceInv, NEW o \in Owner, Spawn(o)
  PROVE  PlaceInv' /\ Elsewhere' = Elsewhere
<1> USE SchedulerAssumption DEF queueVars, sleepVars, waiterVars, fateVars, switchVars
<1>1. PICK t \in Task \ created : SpawnTask(o, t)
  BY DEF Spawn, SpawnTask
<1>2. /\ UNCHANGED <<switchVars, pc, target, done, raised, cancelled, sleepVars, waiterVars>>
      /\ created' = created \cup {t} /\ Enqueue(t)
      /\ cur = o /\ pc[o] = "run"
  BY <1>1 DEF SpawnTask, Runs
<1>3. /\ t \notin done /\ t \notin queued /\ t \notin Range(sleepers) /\ t \notin On
      /\ pc[t] = "run"
  <2>1. t \in Task /\ t \notin created
    BY <1>1
  <2>2. t \notin done /\ t \notin queued
    BY <2>1 DEF PlaceInv, Typed
  <2>3. t \notin Range(sleepers) /\ t \notin On /\ pc[t] = "run"
    BY <2>1 DEF PlaceInv, PcInv
  <2> QED BY <2>2, <2>3
<1>4. /\ ready' = Append(ready, t) /\ queued' = queued \cup {t}
      /\ ready' \in Seq(Task)
      /\ IsInjective(ready')
      /\ Range(ready') = queued'
  <2>1. ready' = Append(ready, t) /\ queued' = queued \cup {t}
    BY <1>2, <1>3 DEF Enqueue
  <2>2. t \in Task /\ ready \in Seq(Task) /\ IsInjective(ready) /\ Range(ready) = queued
    BY <1>1 DEF PlaceInv, Typed, ListInv
  <2>3. t \notin Range(ready)
    BY <1>3, <2>2
  <2> QED BY <2>1, <2>2, <2>3, AppendFacts
<1>5. Typed'
  BY <1>1, <1>2, <1>4 DEF PlaceInv, Typed, Owner
<1>6. ListInv'
  BY <1>2, <1>3, <1>4 DEF PlaceInv, ListInv
<1>7. StackInv'
  BY <1>2 DEF PlaceInv, StackInv, On
<1>8. PcInv'
  BY <1>1, <1>2, <1>3, <1>4 DEF PlaceInv, PcInv, On, Typed
<1>9. LinkInv'
  BY <1>2, <1>3, <1>4 DEF PlaceInv, LinkInv, Parked, On
<1>10. Elsewhere' = Elsewhere
  BY <1>1, <1>2, <1>4 DEF Elsewhere, On
<1> QED BY <1>5, <1>6, <1>7, <1>8, <1>9, <1>10 DEF PlaceInv

\* A task that awaits is linked in front of the other waiters of the awaited task,
\* and is on no list of the scheduler.
LEMMA AwaitPlace ==
  ASSUME PlaceInv, NEW a \in Task, Await(a)
  PROVE  PlaceInv' /\ Elsewhere' = Elsewhere
<1> USE SchedulerAssumption DEF queueVars, sleepVars, waiterVars, fateVars, switchVars
<1>1. PICK t \in created \ done :
        /\ <<a, t>> \in Awaits
        /\ target' = [target EXCEPT ![a] = t]
        /\ nextWaiter' = [nextWaiter EXCEPT ![a] = nextWaiter[t], ![t] = a]
  BY DEF Await
<1>2. /\ cur = a /\ pc[a] = "run" /\ pc' = [pc EXCEPT ![a] = "await"]
      /\ UNCHANGED <<fateVars, queueVars, sleepVars, waking>>
      /\ t \in Task
  BY <1>1 DEF Await, Runs, PlaceInv, Typed
<1>3. /\ cur' \in Owner \cup {None} /\ cur' # a
      /\ ctx' = ctx /\ On' = On \ {a} /\ a \in On
      /\ prev' \in [Task -> Owner \cup {None}]
      /\ StackInv'
  BY <1>2, SwitchFacts DEF Await, PlaceInv
<1>4. Typed'
  BY <1>1, <1>2, <1>3 DEF PlaceInv, Typed, Owner
<1>5. ListInv'
  BY <1>2 DEF PlaceInv, ListInv
<1>6. pc'[a] = "await" /\ \A u \in Task : u # a => pc'[u] = pc[u] /\ pc[u] # "wake"
  BY <1>2 DEF PlaceInv, Typed, Owner, PcInv
<1>7. PcInv'
  BY <1>2, <1>3, <1>6 DEF PlaceInv, PcInv
<1>8. a \notin queued /\ Parked' = Parked \cup {a} /\ a \notin Parked
  BY <1>2, <1>3, <1>6 DEF PlaceInv, PcInv, Parked
<1>9. LinkInv'
  <2>1. waking = None
    BY <1>2 DEF PlaceInv, LinkInv
  <2>2. \A u \in Task : nextWaiter'[u] = IF u = t THEN a
                                         ELSE IF u = a THEN nextWaiter[t] ELSE nextWaiter[u]
    BY <1>1, <1>2 DEF PlaceInv, Typed
  <2>3. \A u \in Task : nextWaiter[u] # a
    BY <1>8 DEF PlaceInv, LinkInv
  <2>4. \A u \in Task : nextWaiter'[u] # None => nextWaiter'[u] \in Parked'
    BY <1>2, <1>8, <2>2 DEF PlaceInv, LinkInv
  <2>5. \A u, v \in Task : nextWaiter'[u] = nextWaiter'[v] /\ nextWaiter'[u] # None => u = v
    BY <1>2, <2>2, <2>3 DEF PlaceInv, LinkInv
  <2> QED BY <1>2, <2>1, <2>4, <2>5 DEF LinkInv
<1>10. Elsewhere' = Elsewhere
  BY <1>2, <1>3, <1>6 DEF Elsewhere, PlaceInv, Typed
<1> QED BY <1>3, <1>4, <1>5, <1>7, <1>9, <1>10 DEF PlaceInv

\* A task that returns from await has already left every list.
LEMMA AwaitReturnPlace ==
  ASSUME PlaceInv, NEW a \in Task, AwaitReturn(a)
  PROVE  PlaceInv' /\ Elsewhere' = Elsewhere
<1> USE SchedulerAssumption DEF queueVars, sleepVars, waiterVars, fateVars, switchVars
<1>1. /\ cur = a /\ pc[a] = "await" /\ pc' = [pc EXCEPT ![a] = "run"]
      /\ target' = [target EXCEPT ![a] = None]
      /\ UNCHANGED <<switchVars, fateVars, queueVars, sleepVars, waiterVars>>
      /\ a \in On
  BY DEF AwaitReturn, PlaceInv, StackInv
<1>2. Typed'
  BY <1>1 DEF PlaceInv, Typed, Owner
<1>3. ListInv' /\ StackInv'
  BY <1>1 DEF PlaceInv, ListInv, StackInv, On
<1>4. pc'[a] = "run" /\ (\A u \in Task : u # a => pc'[u] = pc[u]) /\ On' = On
  BY <1>1 DEF PlaceInv, Typed, Owner, On
<1>5. PcInv'
  BY <1>1, <1>4 DEF PlaceInv, PcInv
<1>6. Parked' = Parked
  BY <1>1, <1>4 DEF Parked
<1>7. LinkInv'
  BY <1>1, <1>4, <1>6 DEF PlaceInv, LinkInv
<1>8. Elsewhere' = Elsewhere
  BY <1>1, <1>4 DEF Elsewhere, PlaceInv, Typed
<1> QED BY <1>2, <1>3, <1>5, <1>7, <1>8 DEF PlaceInv

\* tya_task_cancel sets a flag that the scheduler does not look at.
LEMMA CancelPlace ==
  ASSUME PlaceInv, NEW o \in Owner, Cancel(o)
  PROVE  PlaceInv' /\ Elsewhere' = Elsewhere
<1> USE SchedulerAssumption DEF queueVars, sleepVars, waiterVars, fateVars, switchVars
<1>1. /\ \E t \in created : cancelled' = cancelled \cup {t}
      /\ UNCHANGED <<switchVars, pc, target, created, done, raised, queueVars, sleepVars, waiterVars>>
  BY DEF Cancel
<1>2. Typed'
  BY <1>1 DEF PlaceInv, Typed, Owner
<1>3. ListInv' /\ StackInv' /\ PcInv' /\ LinkInv' /\ Elsewhere' = Elsewhere
  BY <1>1 DEF PlaceInv, ListInv, StackInv, PcInv, LinkInv, On, Parked, Elsewhere
<1> QED BY <1>2, <1>3 DEF PlaceInv

\* tya_task_sleep_until puts the running task on the sleep list and on no other.
LEMMA SleepPlace ==
  ASSUME PlaceInv, NEW t \in Task, Sleep(t)
  PROVE  PlaceInv' /\ Elsewhere' = Elsewhere
<1> USE SchedulerAssumption DEF queueVars, sleepVars, waiterVars, fateVars, switchVars
<1>1. /\ cur = t /\ pc[t] = "run"
      /\ UNCHANGED <<pc, target, fateVars, queueVars, now, waiterVars>>
  BY DEF Sleep, Runs
<1>2. /\ cur' \in Owner \cup {None} /\ cur' # t
      /\ ctx' = ctx /\ On' = On \ {t} /\ t \in On
      /\ prev' \in [Task -> Owner \cup {None}]
      /\ StackInv'
  BY <1>1, SwitchFacts DEF Sleep, PlaceInv
<1>3. PICK w \in now..MaxTime : SleepUntil(t, w)
  BY DEF Sleep
<1>4. t \notin Range(sleepers) /\ t \notin queued /\ t \in created
  BY <1>1, <1>2 DEF PlaceInv, PcInv
<1>5. /\ sleepers' \in Seq(Task)
      /\ IsInjective(sleepers')
      /\ Range(sleepers') = Range(sleepers) \cup {t}
  <2>1. PICK k \in 0..Len(sleepers) :
          sleepers' = SubSeq(sleepers, 1, k) \o <<t>> \o SubSeq(sleepers, k+1, Len(sleepers))
    BY <1>3 DEF SleepUntil
  <2>2. sleepers \in Seq(Task) /\ IsInjective(sleepers)
    BY DEF PlaceInv, Typed, ListInv
  <2> QED BY <1>4, <2>1, <2>2, InsertFacts DEF Inserted
<1>6. wake' \in [Owner -> 0..MaxTime]
  <2>1. w \in 0..MaxTime /\ wake' = [wake EXCEPT ![t] = w]
    BY <1>3 DEF SleepUntil, PlaceInv, Typed
  <2> QED BY <2>1 DEF PlaceInv, Typed
<1>7. Typed'
  BY <1>1, <1>2, <1>5, <1>6 DEF PlaceInv, Typed, Owner
<1>8. ListInv'
  BY <1>1, <1>4, <1>5 DEF PlaceInv, ListInv
<1>9. \A u \in Task : pc[u] # "wake"
  BY <1>1 DEF PlaceInv, PcInv
<1>10. PcInv'
  BY <1>1, <1>2, <1>4, <1>5, <1>9 DEF PlaceInv, PcInv
<1>11. Parked' = Parked
  BY <1>1, <1>2 DEF Parked
<1>12. LinkInv'
  BY <1>1, <1>11 DEF PlaceInv, LinkInv
<1>13. Elsewhere' = Elsewhere
  BY <1>1, <1>2, <1>5 DEF Elsewhere
<1> QED BY <1>2, <1>7, <1>8, <1>10, <1>12, <1>13 DEF PlaceInv

\* tya_task_yield(true) puts the running task on the ready list and on no other.
LEMMA YieldPlace ==
  ASSUME PlaceInv, NEW t \in Task, Yield(t)
  PROVE  PlaceInv' /\ Elsewhere' = Elsewhere
<1> USE SchedulerAssumption DEF queueVars, sleepVars, waiterVars, fateVars, switchVars
<1>1. /\ cur = t /\ pc[t] = "run"
      /\ UNCHANGED <<pc, target, fateVars, sleepVars, waiterVars>>
  BY DEF Yield, Runs
<1>2. /\ cur' \in Owner \cup {None} /\ cur' # t
      /\ ctx' = ctx /\ On' = On \ {t} /\ t \in On
      /\ prev' \in [Task -> Owner \cup {None}]
      /\ StackInv'
  BY <1>1, SwitchFacts DEF Yield, PlaceInv
<1>3. t \in created /\ t \notin done /\ t \notin Range(sleepers)
  BY <1>1, <1>2 DEF PlaceInv, PcInv
<1>4. ready' \in Seq(Task) /\ ListInv' /\ queued' = queued \cup {t}
  BY <1>1, <1>3, EnqueueFacts DEF Yield, PlaceInv
<1>5. Typed'
  BY <1>1, <1>2, <1>3, <1>4 DEF PlaceInv, Typed, Owner
<1>6. \A u \in Task : pc[u] # "wake"
  BY <1>1 DEF PlaceInv, PcInv
<1>7. PcInv'
  BY <1>1, <1>2, <1>3, <1>4, <1>6 DEF PlaceInv, PcInv
<1>8. Parked' = Parked
  BY <1>1, <1>2, <1>4 DEF Parked
<1>9. LinkInv'
  BY <1>1, <1>8 DEF PlaceInv, LinkInv
<1>10. Elsewhere' = Elsewhere
  BY <1>1, <1>2, <1>4 DEF Elsewhere
<1> QED BY <1>2, <1>4, <1>5, <1>7, <1>9, <1>10 DEF PlaceInv

\* tya_task_yield(false) leaves the running task to whoever holds a pointer to it.
LEMMA ParkPlace ==
  ASSUME PlaceInv, NEW t \in Task, Park(t)
  PROVE  PlaceInv' /\ Elsewhere' = Elsewhere \cup {t}
<1> USE SchedulerAssumption DEF queueVars, sleepVars, waiterVars, fateVars, switchVars
<1>1. /\ cur = t /\ pc[t] = "run"
      /\ UNCHANGED <<pc, target, fateVars, queueVars, sleepVars, waiterVars>>
  BY DEF Park, Runs
<1>2. /\ cur' \in Owner \cup {None} /\ cur' # t
      /\ ctx' = ctx /\ On' = On \ {t} /\ t \in On
      /\ prev' \in [Task -> Owner \cup {None}]
      /\ StackInv'
  BY <1>1, SwitchFacts DEF Park, PlaceInv
<1>3. t \in created /\ t \notin done /\ t \notin queued /\ t \notin Range(sleepers)
  BY <1>1, <1>2 DEF PlaceInv, PcInv
<1>4. Typed' /\ ListInv'
  BY <1>1, <1>2 DEF PlaceInv, Typed, ListInv, Owner
<1>5. \A u \in Task : pc[u] # "wake"
  BY <1>1 DEF PlaceInv, PcInv
<1>6. PcInv'
  BY <1>1, <1>2, <1>3, <1>5 DEF PlaceInv, PcInv
<1>7. Parked' = Parked
  BY <1>1, <1>2 DEF Parked
<1>8. LinkInv'
  BY <1>1, <1>7 DEF PlaceInv, LinkInv
<1>9. Elsewhere' = Elsewhere \cup {t}
  BY <1>1, <1>2, <1>3 DEF Elsewhere
<1> QED BY <1>2, <1>4, <1>6, <1>8, <1>9 DEF PlaceInv

\* tya_task_finish takes over the whole list of waiters, all of them parked.
LEMMA FinishPlace ==
  ASSUME PlaceInv, NEW t \in Task, Finish(t)
  PROVE  PlaceInv' /\ Elsewhere' = Elsewhere
<1> USE SchedulerAssumption DEF queueVars, sleepVars, waiterVars, fateVars, switchVars
<1>1. /\ cur = t /\ pc[t] = "run" /\ t \in On /\ t \in created
      /\ done' = done \cup {t}
      /\ raised' \in {raised, raised \cup ({t} \cap Raises)}
      /\ waking' = nextWaiter[t]
      /\ nextWaiter' = [nextWaiter EXCEPT ![t] = None]
      /\ pc' = [pc EXCEPT ![t] = "wake"]
      /\ UNCHANGED <<switchVars, target, created, cancelled, queueVars, sleepVars>>
  BY DEF Finish, Runs, PlaceInv, StackInv, PcInv
<1>2. Typed'
  BY <1>1 DEF PlaceInv, Typed, Owner
<1>3. ListInv' /\ StackInv' /\ On' = On
  BY <1>1 DEF PlaceInv, ListInv, StackInv, On
<1>4. pc'[t] = "wake" /\ \A u \in Task : u # t => pc'[u] = pc[u]
  BY <1>1 DEF PlaceInv, Typed, Owner
<1>5. PcInv'
  BY <1>1, <1>3, <1>4 DEF PlaceInv, PcInv
<1>6. Parked' = Parked
  BY <1>1, <1>3, <1>4 DEF Parked
<1>7. LinkInv'
  BY <1>1, <1>4, <1>6 DEF PlaceInv, LinkInv, Typed
<1>8. Elsewhere' = Elsewhere
  BY <1>1, <1>3, <1>4 DEF Elsewhere, PlaceInv, Typed
<1> QED BY <1>2, <1>3, <1>5, <1>7, <1>8 DEF PlaceInv

\* A turn of tya_task_wake_waiters moves one parked task to the ready list.
LEMMA WakeWaiterPlace ==
  ASSUME PlaceInv, NEW t \in Task, WakeWaiter(t)
  PROVE  PlaceInv' /\ Elsewhere' = Elsewhere
<1> USE SchedulerAssumption DEF queueVars, sleepVars, waiterVars, fateVars, switchVars
<1>1. /\ cur = t /\ pc[t] = "wake" /\ waking # None
      /\ waking' = nextWaiter[waking]
      /\ nextWaiter' = [nextWaiter EXCEPT ![waking] = None]
      /\ UNCHANGED <<switchVars, pc, target, fateVars, sleepVars>>
      /\ Enqueue(waking)
  BY DEF WakeWaiter
<1>2. /\ waking \in Parked /\ waking \in Task /\ waking \in created /\ pc[waking] = "await"
      /\ waking \notin done /\ waking \notin Range(sleepers) /\ waking \notin On
  BY <1>1 DEF PlaceInv, LinkInv, PcInv, Parked
<1>3. ready' \in Seq(Task) /\ ListInv' /\ queued' = queued \cup {waking}
  BY <1>1, <1>2, EnqueueFacts DEF PlaceInv
<1>4. Typed'
  BY <1>1, <1>2, <1>3 DEF PlaceInv, Typed, Owner
<1>5. StackInv'
  BY <1>1 DEF PlaceInv, StackInv, On
<1>6. PcInv'
  BY <1>1, <1>2, <1>3 DEF PlaceInv, PcInv, On
<1>7. Parked' = Parked \ {waking}
  BY <1>1, <1>2, <1>3 DEF Parked, On
<1>8. LinkInv'
  <2>1. \A u \in Task : nextWaiter'[u] = IF u = waking THEN None ELSE nextWaiter[u]
    BY <1>1 DEF PlaceInv, Typed
  <2>2. \A u \in Task : nextWaiter[u] # waking
    BY <1>1 DEF PlaceInv, LinkInv
  <2>3. \A u \in Task : nextWaiter'[u] # None => nextWaiter'[u] \in Parked'
    BY <1>7, <2>1, <2>2 DEF PlaceInv, LinkInv
  <2>4. \A u, v \in Task : nextWaiter'[u] = nextWaiter'[v] /\ nextWaiter'[u] # None => u = v
    BY <2>1 DEF PlaceInv, LinkInv
  <2>5. waking' # None => /\ waking' \in Parked'
                          /\ \A u \in Task : nextWaiter'[u] # waking'
    BY <1>1, <1>2, <1>7, <2>1, <2>2 DEF PlaceInv, LinkInv
  <2> QED BY <1>1, <2>3, <2>4, <2>5 DEF LinkInv
<1>9. Elsewhere' = Elsewhere
  BY <1>1, <1>2, <1>3 DEF Elsewhere, On
<1> QED BY <1>3, <1>4, <1>5, <1>6, <1>8, <1>9 DEF PlaceInv

\* A task that ends is on no list and nobody is linked to it.
LEMMA LeavePlace ==
  ASSUME PlaceInv, NEW t \in Task, Leave(t)
  PROVE  PlaceInv' /\ Elsewhere' = Elsewhere
<1> USE SchedulerAssumption DEF queueVars, sleepVars, waiterVars, fateVars, switchVars
<1>1. /\ cur = t /\ pc[t] = "wake" /\ waking = None
      /\ pc' = [pc EXCEPT ![t] = "exit"]
      /\ UNCHANGED <<target, fateVars, queueVars, sleepVars, waiterVars>>
  BY DEF Leave
<1>2. /\ cur' \in Owner \cup {None} /\ cur' # t
      /\ ctx' = ctx /\ On' = On \ {t} /\ t \in On
      /\ prev' \in [Task -> Owner \cup {None}]
      /\ StackInv'
  BY <1>1, SwitchFacts DEF Leave, PlaceInv
<1>3. Typed' /\ ListInv'
  BY <1>1, <1>2 DEF PlaceInv, Typed, ListInv, Owner
<1>4. pc'[t] = "exit" /\ \A u \in Task : u # t => pc'[u] = pc[u] /\ pc[u] # "wake"
  BY <1>1 DEF PlaceInv, Typed, Owner, PcInv
<1>5. PcInv'
  BY <1>1, <1>2, <1>4 DEF PlaceInv, PcInv
<1>6. Parked' = Parked
  BY <1>1, <1>2, <1>4 DEF Parked
<1>7. LinkInv'
  BY <1>1, <1>6 DEF PlaceInv, LinkInv
<1>8. Elsewhere' = Elsewhere
  BY <1>1, <1>2, <1>4 DEF Elsewhere, PlaceInv, Typed
<1> QED BY <1>2, <1>3, <1>5, <1>7, <1>8 DEF PlaceInv

\* A turn of tya_task_wake_sleepers moves one task from the sleep list to the
\* ready list.
LEMMA WakeSleeperPlace ==
  ASSUME PlaceInv, WakeSleeper
  PROVE  PlaceInv' /\ Elsewhere' = Elsewhere
<1> USE SchedulerAssumption DEF queueVars, sleepVars, waiterVars, fateVars, switchVars
<1> DEFINE t == Head(sleepers)
<1>1. /\ sleepers # <<>>
      /\ sleepers' = Tail(sleepers)
      /\ Enqueue(t)
      /\ UNCHANGED <<switchVars, pc, target, fateVars, wake, now, waiterVars>>
  BY DEF WakeSleeper, SleeperDue
<1>2. /\ t \in Task /\ t \in Range(sleepers)
      /\ sleepers' \in Seq(Task)
      /\ IsInjective(sleepers')
      /\ Range(sleepers') = Range(sleepers) \ {t}
  BY <1>1, TailFacts DEF PlaceInv, Typed, ListInv
<1> HIDE DEF t
<1>3. t \in created /\ pc[t] = "run" /\ t \notin done /\ t \notin queued /\ t \notin On
  BY <1>2 DEF PlaceInv, PcInv, ListInv
<1>4. /\ ready' = Append(ready, t) /\ queued' = queued \cup {t}
      /\ ready' \in Seq(Task)
      /\ IsInjective(ready')
      /\ Range(ready') = queued'
  <2>1. ready' = Append(ready, t) /\ queued' = queued \cup {t}
    BY <1>1, <1>3 DEF Enqueue
  <2>2. ready \in Seq(Task) /\ IsInjective(ready) /\ Range(ready) = queued
    BY DEF PlaceInv, Typed, ListInv
  <2>3. t \notin Range(ready)
    BY <1>3, <2>2
  <2> QED BY <1>2, <2>1, <2>2, <2>3, AppendFacts
<1>5. Typed'
  BY <1>1, <1>2, <1>3, <1>4, SMTT(30) DEF PlaceInv, Typed, Owner
<1>6. ListInv'
  BY <1>2, <1>3, <1>4 DEF PlaceInv, ListInv
<1>7. StackInv'
  BY <1>1 DEF PlaceInv, StackInv, On
<1>8. PcInv'
  BY <1>1, <1>2, <1>3, <1>4 DEF PlaceInv, PcInv, On
<1>9. Parked' = Parked
  BY <1>1, <1>3, <1>4 DEF Parked, On
<1>10. LinkInv'
  BY <1>1, <1>9 DEF PlaceInv, LinkInv
<1>11. Elsewhere' = Elsewhere
  BY <1>1, <1>2, <1>4 DEF Elsewhere, On
<1> QED BY <1>5, <1>6, <1>7, <1>8, <1>10, <1>11 DEF PlaceInv

\* tya_scheduler_run_one takes a task off the ready list and makes the activation
\* of its caller, who is not ending, the one that is saved.
LEMMA DispatchPlace ==
  ASSUME PlaceInv, NEW o \in Owner, cur = o, o \in Task => pc[o] = "run", Dispatch(o),
         UNCHANGED <<pc, target, fateVars, sleepVars, waiterVars>>
  PROVE  PlaceInv' /\ Elsewhere' = Elsewhere
<1> USE SchedulerAssumption DEF queueVars, sleepVars, waiterVars, fateVars, switchVars
<1> DEFINE t == Head(ready)
<1>1. /\ ready # <<>>
      /\ ready' = Tail(ready) /\ queued' = queued \ {t}
      /\ cur' = t /\ ctx' = o /\ prev' = [prev EXCEPT ![t] = o]
  BY DEF Dispatch
<1>2. /\ t \in Task /\ t \in queued
      /\ ready' \in Seq(Task)
      /\ IsInjective(ready')
      /\ Range(ready') = queued'
  BY <1>1, TailFacts DEF PlaceInv, Typed, ListInv
<1> HIDE DEF t
<1>3. t \in created /\ t \notin On /\ t \notin done /\ t \notin Range(sleepers)
  BY <1>2 DEF PlaceInv, Typed, PcInv, ListInv
<1>4. /\ prev'[t] = o /\ o # None
      /\ \A u \in Task : u # t => prev'[u] = prev[u]
  BY <1>1, <1>2 DEF PlaceInv, Typed, Owner
<1>5. On' = On \cup {t}
  BY <1>2, <1>4 DEF On
<1>6. Typed'
  BY <1>1, <1>2 DEF PlaceInv, Typed, Owner
<1>7. ListInv'
  BY <1>1, <1>2 DEF PlaceInv, ListInv
<1>8. StackInv'
  <2>1. o \in On \cup {Main} /\ o # t
    BY <1>2, <1>3 DEF PlaceInv, StackInv, Owner
  <2>2. ASSUME NEW u \in On
        PROVE  u # t /\ prev'[u] = prev[u] /\ prev[u] \in On \cup {Main} /\ prev[u] # o
    BY <1>3, <1>4 DEF PlaceInv, StackInv, On
  <2>3. t # Main
    BY <1>2
  <2> QED BY <1>1, <1>3, <1>4, <1>5, <2>1, <2>2, <2>3 DEF StackInv
<1>9. \A u \in Task : pc[u] # "wake"
  BY DEF PlaceInv, PcInv
<1>10. PcInv'
  BY <1>1, <1>2, <1>3, <1>5, <1>9 DEF PlaceInv, PcInv
<1>11. Parked' = Parked
  BY <1>1, <1>2, <1>5 DEF Parked
<1>12. LinkInv'
  BY <1>1, <1>9, <1>11 DEF PlaceInv, LinkInv
<1>13. Elsewhere' = Elsewhere
  BY <1>1, <1>2, <1>5 DEF Elsewhere
<1> QED BY <1>6, <1>7, <1>8, <1>10, <1>12, <1>13 DEF PlaceInv

\* The steps of the main program that only move its own program counter.
LEMMA MainOwnPlace ==
  ASSUME PlaceInv, MainAwait \/ MainSleep \/ MainAwaitReturn \/ MainSleepReturn \/ MainExit
  PROVE  PlaceInv' /\ Elsewhere' = Elsewhere
<1> USE SchedulerAssumption DEF queueVars, sleepVars, waiterVars, fateVars, switchVars
<1>1. /\ cur = Main
      /\ UNCHANGED <<switchVars, fateVars, queueVars, sleepers, now, waiterVars>>
      /\ \E p \in {"await", "sleep", "run", "exit"} : pc' = [pc EXCEPT ![Main] = p]
      /\ \E u \in Task \cup {None} : target' = [target EXCEPT ![Main] = u] \/ target' = target
      /\ \E w \in now..MaxTime : wake' = [wake EXCEPT ![Main] = w] \/ wake' = wake
  BY DEF MainAwait, MainSleep, MainAwaitReturn, MainSleepReturn, MainExit, Runs, PlaceInv, Typed
<1>2. Typed'
  BY <1>1 DEF PlaceInv, Typed, Owner
<1>3. \A t \in Task : pc'[t] = pc[t]
  BY <1>1 DEF PlaceInv, Typed, Owner
<1>4. ListInv' /\ StackInv' /\ On' = On
  BY <1>1 DEF PlaceInv, ListInv, StackInv, On
<1>5. \A t \in Range(sleepers) : t \in Task
  BY DEF PlaceInv, PcInv, Typed
<1>6. PcInv'
  BY <1>1, <1>3, <1>4, <1>5 DEF PlaceInv, PcInv
<1>7. Parked' = Parked
  BY <1>1, <1>3, <1>4 DEF Parked
<1>8. LinkInv'
  BY <1>1, <1>7 DEF PlaceInv, LinkInv
<1>9. Elsewhere' = Elsewhere
  BY <1>1, <1>3, <1>4 DEF Elsewhere, PlaceInv, Typed
<1> QED BY <1>2, <1>4, <1>6, <1>8, <1>9 DEF PlaceInv

\* Time, and the end of the process, change no list.
LEMMA IdlePlace ==
  ASSUME PlaceInv, Tick \/ UNCHANGED vars
  PROVE  PlaceInv' /\ Elsewhere' = Elsewhere
<1> USE SchedulerAssumption
    DEF vars, queueVars, sleepVars, waiterVars, fateVars, switchVars
<1>1. Typed'
  BY DEF Tick, PlaceInv, Typed
<1>2. ListInv' /\ StackInv' /\ PcInv' /\ LinkInv' /\ Elsewhere' = Elsewhere
  BY DEF Tick, PlaceInv, ListInv, StackInv, PcInv, LinkInv, On, Parked, Elsewhere
<1> QED BY <1>1, <1>2 DEF PlaceInv

\* The steps of a task, of the main program and of the clock.
LEMMA TaskPlace ==
  ASSUME PlaceInv, NEW t \in Task, TaskStep(t)
  PROVE  PlaceInv' /\ Elsewhere' = Elsewhere
BY SpawnPlace, CancelPlace, AwaitPlace, AwaitReturnPlace, SleepPlace, YieldPlace, FinishPlace,
   WakeWaiterPlace, LeavePlace DEF TaskStep, Owner

LEMMA MainPlace ==
  ASSUME PlaceInv, MainStep
  PROVE  PlaceInv' /\ Elsewhere' = Elsewhere
<1> USE SchedulerAssumption
<1>1. CASE MainDispatch
  BY <1>1, DispatchPlace DEF MainDispatch, MainDrives, Owner
<1>2. CASE ~MainDispatch
  BY <1>2, SpawnPlace, CancelPlace, WakeSleeperPlace, MainOwnPlace
     DEF MainStep, MainWakeSleeper, Owner
<1> QED BY <1>1, <1>2

LEMMA NextPlace ==
  ASSUME PlaceInv, [Next]_vars
  PROVE  PlaceInv' /\ Elsewhere' = Elsewhere
BY TaskPlace, MainPlace, IdlePlace DEF Next, Stopped

\* The program starts with nothing but the main program, and that runs.
LEMMA InitPlace == Init => PlaceInv /\ Elsewhere = {}
  BY SchedulerAssumption
  DEF Init, PlaceInv, Typed, ListInv, StackInv, PcInv, LinkInv, On, Parked, Owner,
      Range, IsInjective, Elsewhere
-----------------------------------------------------------------------------
(* A program that uses nothing but tasks, await and sleep.                   *)

\* Only the main program drives the scheduler, so one activation of run_one is
\* live while a task runs, and none otherwise.
ControlInv ==
  /\ cur \in Owner
  /\ cur = Main => On = {}
  /\ cur \in Task => On = {cur} /\ prev[cur] = Main /\ ctx = Main

\* The inductive invariant.
IInv == PlaceInv /\ ControlInv /\ Elsewhere = {}

\* The main program's own call of tya_scheduler_run_one is the live activation.
LEMMA DispatchControl ==
  ASSUME PlaceInv, ControlInv, cur = Main, Dispatch(Main)
  PROVE  ControlInv'
<1>1. /\ Head(ready) \in Task
      /\ cur' = Head(ready) /\ ctx' = Main /\ prev' = [prev EXCEPT ![Head(ready)] = Main]
  BY TailFacts DEF Dispatch, PlaceInv, Typed, ListInv
<1> QED BY <1>1, SchedulerAssumption DEF PlaceInv, Typed, ControlInv, On, Owner

\* Every jump to the scheduler lands in the main program's activation.
LEMMA NextControl ==
  ASSUME PlaceInv, ControlInv, [Next]_vars
  PROVE  ControlInv'
<1> USE SchedulerAssumption
    DEF vars, queueVars, sleepVars, waiterVars, fateVars, switchVars
<1>1. ASSUME NEW t \in Task, cur = t, SwitchOut(t) PROVE ControlInv'
  BY <1>1 DEF PlaceInv, Typed, ControlInv, SwitchOut, On, Owner
<1>2. ASSUME UNCHANGED switchVars PROVE ControlInv'
  BY <1>2 DEF ControlInv, On
<1>3. ASSUME NEW t \in Task, TaskStep(t) PROVE ControlInv'
  BY <1>1, <1>2, <1>3 DEF TaskStep, Spawn, SpawnTask, Cancel, Await, AwaitReturn, Sleep, Yield,
     Finish, WakeWaiter, Leave, Runs
<1>4. ASSUME MainDispatch PROVE ControlInv'
  BY <1>4, DispatchControl DEF MainDispatch, MainDrives
<1>5. ASSUME MainStep PROVE ControlInv'
  BY <1>2, <1>4, <1>5 DEF MainStep, Spawn, SpawnTask, Cancel, MainAwait, MainSleep,
     MainWakeSleeper, WakeSleeper, MainAwaitReturn, MainSleepReturn, MainExit
<1> QED BY <1>2, <1>3, <1>5 DEF Next, Tick, Stopped

\* The inductive invariant holds of every reachable state.
THEOREM Invariance == Spec => []IInv
<1>1. Init => IInv
  BY InitPlace, SchedulerAssumption DEF Init, IInv, ControlInv, On, Owner
<1>2. IInv /\ [Next]_vars => IInv'
  BY NextPlace, NextControl DEF IInv
<1> QED BY <1>1, <1>2, PTL DEF Spec

\* Every variable keeps its type; in particular no jump to the scheduler lands
\* in a dead stack frame (cur is never None).
THEOREM TypeCorrect == Spec => []TypeOK
<1>1. IInv => TypeOK
  BY SchedulerAssumption DEF IInv, PlaceInv, ControlInv, TypeOK, Owner
<1> QED BY <1>1, Invariance, PTL

\* No task is lost and none can be resumed twice: tya_task_enqueue,
\* tya_task_dequeue, tya_task_sleep_until and the waiter lists keep every live
\* task in exactly one place.
THEOREM OnePlaceCorrect == Spec => []OnePlace
<1>1. IInv => OnePlace
  <2> SUFFICES ASSUME IInv PROVE OnePlace
    OBVIOUS
  <2>1. /\ IsInjective(ready) /\ IsInjective(sleepers) /\ Range(ready) = queued
        /\ queued \cap Range(sleepers) = {}
    BY DEF IInv, PlaceInv, ListInv
  <2>2. created \ done \subseteq On \cup queued \cup Range(sleepers) \cup Parked
    BY DEF IInv, PlaceInv, PcInv, Typed, Parked, Elsewhere
  <2>3. /\ On \cap (queued \cup Range(sleepers)) = {}
        /\ done \cap (queued \cup Range(sleepers)) = {}
    BY DEF IInv, PlaceInv, PcInv
  <2>4. Parked \cap Range(sleepers) = {} /\ done \cap Parked = {}
    BY DEF IInv, PlaceInv, PcInv, Parked
  <2> QED BY <2>1, <2>2, <2>3, <2>4 DEF OnePlace
<1> QED BY <1>1, Invariance, PTL

\* The sleep list stays in the order of the wake times: tya_task_sleep_until inserts
\* at the right place, tya_task_wake_sleepers only takes the head off, and no sleeper's
\* wake time changes.
THEOREM SleepersSortedCorrect == Spec => []SleepersSorted
<1> USE SchedulerAssumption DEF queueVars, sleepVars, waiterVars, fateVars, switchVars
<1>1. Init => SleepersSorted
  BY DEF Init, SleepersSorted
<1>2. IInv /\ SleepersSorted /\ [Next]_vars => SleepersSorted'
  <2> SUFFICES ASSUME IInv, SleepersSorted, [Next]_vars PROVE SleepersSorted'
    OBVIOUS
  <2>1. /\ sleepers \in Seq(Task)
        /\ wake \in [Owner -> 0..MaxTime]
        /\ \A i \in DOMAIN sleepers : sleepers[i] \in Task /\ sleepers[i] \in Range(sleepers)
        /\ Task \subseteq Owner /\ Main \in Owner
    BY DEF IInv, PlaceInv, Typed, Owner, Range
  <2>2. ASSUME UNCHANGED <<sleepers, wake>> PROVE SleepersSorted'
    BY <2>2 DEF SleepersSorted
  <2>3. ASSUME NEW t \in Task, Sleep(t) PROVE SleepersSorted'
    <3>1. PICK w \in now..MaxTime : SleepUntil(t, w)
      BY <2>3 DEF Sleep
    <3>2. PICK k \in 0..Len(sleepers) :
            /\ \A i \in 1..k : wake[sleepers[i]] <= w
            /\ k < Len(sleepers) => w < wake[sleepers[k+1]]
            /\ sleepers' = SubSeq(sleepers, 1, k) \o <<t>> \o SubSeq(sleepers, k+1, Len(sleepers))
      BY <3>1 DEF SleepUntil
    <3>3. t \notin Range(sleepers)
      BY <2>3 DEF Sleep, Runs, IInv, PlaceInv, ControlInv, PcInv
    <3>4. /\ wake'[t] = w
          /\ \A i \in DOMAIN sleepers : wake'[sleepers[i]] = wake[sleepers[i]]
      BY <2>1, <3>1, <3>3 DEF SleepUntil
    <3>5. /\ Len(sleepers) \in Nat /\ DOMAIN sleepers = 1..Len(sleepers) /\ w \in Int
          /\ \A i \in 1..Len(sleepers) : wake[sleepers[i]] \in Int
      BY <2>1, <3>1 DEF IInv, PlaceInv, Typed
    <3>6. /\ DOMAIN sleepers' = 1..(Len(sleepers) + 1)
          /\ \A i \in 1..(Len(sleepers) + 1) :
               sleepers'[i] = IF i <= k THEN sleepers[i]
                              ELSE IF i = k + 1 THEN t ELSE sleepers[i - 1]
      <4>1. sleepers' = Inserted(sleepers, k, t)
        BY <3>2 DEF Inserted
      <4>2. sleepers' \in Seq(Task) /\ IsInserted(sleepers', sleepers, k, t)
        BY <2>1, <4>1, InsertPositions, Zenon
      <4> QED BY <4>2 DEF IsInserted
    <3>7. ASSUME NEW i \in 1..Len(sleepers), i > k PROVE w <= wake[sleepers[i]]
      <4>1. k + 1 \in 1..Len(sleepers) /\ k + 1 <= i /\ w < wake[sleepers[k + 1]]
        BY <3>2, <3>5, <3>7
      <4>2. wake[sleepers[k + 1]] <= wake[sleepers[i]]
        BY <4>1, <3>5 DEF SleepersSorted
      <4> QED BY <4>1, <4>2, <3>5
    <3>8. ASSUME NEW i \in 1..(Len(sleepers) + 1)
          PROVE  wake'[sleepers'[i]] = IF i <= k THEN wake[sleepers[i]]
                                       ELSE IF i = k + 1 THEN w ELSE wake[sleepers[i - 1]]
      <4>1. /\ i <= k => i \in DOMAIN sleepers
            /\ i > k + 1 => i - 1 \in DOMAIN sleepers
            /\ i <= k \/ i = k + 1 \/ i > k + 1
        BY <3>2, <3>5
      <4> QED BY <4>1, <3>2, <3>4, <3>5, <3>6
    <3>9. ASSUME NEW i \in 1..(Len(sleepers) + 1), NEW j \in 1..(Len(sleepers) + 1), i <= j
          PROVE  wake'[sleepers'[i]] <= wake'[sleepers'[j]]
      <4>1. \A x, y \in 1..Len(sleepers) : x <= y => wake[sleepers[x]] <= wake[sleepers[y]]
        BY <3>5 DEF SleepersSorted
      <4>2. CASE j <= k
        BY <4>1, <4>2, <3>5, <3>8, <3>9
      <4>3. CASE j = k + 1
        <5>1. wake'[sleepers'[j]] = w
          BY <4>3, <3>5, <3>8
        <5>2. i <= k \/ i = k + 1
          BY <4>3, <3>5, <3>9
        <5>3. CASE i <= k
          <6>1. i \in 1..k /\ wake'[sleepers'[i]] = wake[sleepers[i]]
            BY <5>3, <3>5, <3>8
          <6> QED BY <5>1, <6>1, <3>2
        <5>4. CASE i = k + 1
          BY <5>1, <5>4, <4>3, <3>5
        <5> QED BY <5>2, <5>3, <5>4
      <4>4. CASE j > k + 1 /\ i = k + 1
        BY <4>4, <3>5, <3>7, <3>8, <3>9
      <4>5. CASE j > k + 1 /\ i <= k
        BY <4>1, <4>5, <3>5, <3>8, <3>9
      <4>6. CASE j > k + 1 /\ i > k + 1
        BY <4>1, <4>6, <3>5, <3>8, <3>9
      <4> QED BY <4>2, <4>3, <4>4, <4>5, <4>6, <3>5, <3>9
    <3> QED BY <3>6, <3>9 DEF SleepersSorted
  <2>4. ASSUME MainWakeSleeper PROVE SleepersSorted'
    <3>1. sleepers # <<>> /\ sleepers' = Tail(sleepers) /\ UNCHANGED wake
      BY <2>4 DEF MainWakeSleeper, WakeSleeper, SleeperDue
    <3>2. /\ DOMAIN sleepers = 1..Len(sleepers) /\ Len(sleepers) \in Nat \ {0}
          /\ DOMAIN sleepers' = 1..(Len(sleepers) - 1)
          /\ \A i \in 1..(Len(sleepers) - 1) : sleepers'[i] = sleepers[i + 1]
      BY <2>1, <3>1
    <3> QED BY <3>1, <3>2 DEF SleepersSorted
  <2>5. ASSUME MainSleep PROVE SleepersSorted'
    <3>1. /\ UNCHANGED sleepers
          /\ \A t \in Task : wake'[t] = wake[t]
      BY <2>1, <2>5 DEF MainSleep
    <3> QED BY <2>1, <3>1 DEF SleepersSorted
  <2>6. ASSUME NEW t \in Task, TaskStep(t), ~Sleep(t) PROVE UNCHANGED <<sleepers, wake>>
    BY <2>6 DEF TaskStep, Spawn, SpawnTask, Cancel, Await, AwaitReturn, Yield, Finish, WakeWaiter,
       Leave
  <2>7. ASSUME MainStep, ~MainWakeSleeper, ~MainSleep PROVE UNCHANGED <<sleepers, wake>>
    BY <2>7 DEF MainStep, Spawn, SpawnTask, Cancel, MainAwait, MainDispatch, MainAwaitReturn,
       MainSleepReturn, MainExit
  <2>8. CASE Tick \/ UNCHANGED vars
    BY <2>2, <2>8 DEF Tick, vars
  <2> QED BY <2>2, <2>3, <2>4, <2>5, <2>6, <2>7, <2>8 DEF Next, Stopped
<1> QED BY <1>1, <1>2, Invariance, PTL DEF Spec
-----------------------------------------------------------------------------
(***************************************************************************)
(* await is right as long as nobody awaits a task that itself awaits: for   *)
(* every set of tasks and every such await relation.                        *)
(***************************************************************************)

\* No task both awaits and is awaited.
Flat == \A p, q \in Awaits : p[2] # q[1]

\* A task awaits only what the program lets it await, and is resumed only when that
\* is done.
ResumeInv ==
  \A a \in Task : pc[a] = "await" => (/\ <<a, target[a]>> \in Awaits
                                      /\ a \notin Parked => target[a] \in done)

\* Everything on the list of a task awaits that task, and so does everything on the
\* list that is being walked.
TargetInv ==
  /\ \A x \in Task : nextWaiter[x] # None =>
       target[nextWaiter[x]] = IF x \in Parked THEN target[x] ELSE x
  /\ \A t \in Task : waking # None /\ pc[t] = "wake" => target[waking] = t

AwaitInv == ResumeInv /\ TargetInv /\ AwaitersLinked
-----------------------------------------------------------------------------
\* A step that leaves the waiters and those they wait for alone preserves the
\* invariant.
LEMMA Frame ==
  ASSUME AwaitInv, Parked' = Parked,
         UNCHANGED <<nextWaiter, waking, done>>,
         \A t \in Task : (pc'[t] = "await" <=> pc[t] = "await") /\ target'[t] = target[t],
         \A t \in Task : pc'[t] = "wake" => pc[t] = "wake",
         \A t \in Task : nextWaiter[t] \in Task \cup {None},
         waking \in Task \cup {None}
  PROVE  AwaitInv'
<1>1. ResumeInv'
  BY DEF AwaitInv, ResumeInv
<1>2. TargetInv'
  BY DEF AwaitInv, TargetInv
<1>3. \A t : From(t)' = From(t)
  BY DEF From, Closed
<1>4. Parked \subseteq Task
  BY DEF Parked
<1>5. AwaitersLinked'
  BY <1>3, <1>4 DEF AwaitInv, AwaitersLinked
<1> QED BY <1>1, <1>2, <1>5 DEF AwaitInv

\* The program starts with nobody waiting.
LEMMA AwaitInit == Init => AwaitInv
<1> SUFFICES ASSUME Init PROVE AwaitInv
  OBVIOUS
<1>1. \A t \in Task : pc[t] = "run" /\ nextWaiter[t] = None
  BY DEF Init, Owner
<1>2. waking = None /\ Parked = {}
  BY <1>1 DEF Init, Parked
<1> QED BY <1>1, <1>2 DEF AwaitInv, ResumeInv, TargetInv, AwaitersLinked

\* What the frame needs of the pointers.
LEMMA Pointers ==
  ASSUME IInv
  PROVE  /\ \A t \in Task : nextWaiter[t] \in Task \cup {None}
         /\ waking \in Task \cup {None}
  BY DEF IInv, PlaceInv, Typed

\* A new task is not a waiter, and tya_task_new tells no waiter anything.
LEMMA SpawnAwait ==
  ASSUME IInv, AwaitInv, NEW o \in Owner, Spawn(o)
  PROVE  AwaitInv'
<1> USE SchedulerAssumption DEF queueVars, sleepVars, waiterVars, fateVars, switchVars
<1>1. PICK u \in Task : SpawnTask(o, u)
  BY DEF Spawn
<1>2. /\ u \notin created
      /\ UNCHANGED <<pc, target, done, nextWaiter, waking, prev>>
      /\ queued' = queued \/ queued' = queued \cup {u}
  BY <1>1 DEF SpawnTask, Enqueue
<1>3. pc[u] # "await"
  BY <1>2 DEF IInv, PlaceInv, PcInv
<1>4. Parked' = Parked
  BY <1>2, <1>3 DEF Parked, On
<1> QED BY <1>2, <1>4, Frame, Pointers

\* A task that sleeps or yields is not a waiter.
LEMMA YieldAwait ==
  ASSUME IInv, AwaitInv, NEW t \in Task, Sleep(t) \/ Yield(t)
  PROVE  AwaitInv'
<1> USE SchedulerAssumption DEF queueVars, sleepVars, waiterVars, fateVars, switchVars
<1>1. /\ pc[t] = "run"
      /\ UNCHANGED <<pc, target, done, nextWaiter, waking>>
      /\ queued' = queued \/ queued' = queued \cup {t}
      /\ prev' = [prev EXCEPT ![t] = None]
  BY DEF Sleep, Yield, Runs, Enqueue, SwitchOut
<1>2. \A u \in Task : u # t => prev'[u] = prev[u]
  BY <1>1 DEF IInv, PlaceInv, Typed
<1>3. Parked' = Parked
  BY <1>1, <1>2 DEF Parked, On
<1> QED BY <1>1, <1>3, Frame, Pointers

\* A sleeping task is not a waiter.
LEMMA WakeSleeperAwait ==
  ASSUME IInv, AwaitInv, WakeSleeper
  PROVE  AwaitInv'
<1> USE SchedulerAssumption DEF queueVars, sleepVars, waiterVars, fateVars, switchVars
<1> DEFINE t == Head(sleepers)
<1>1. t \in Range(sleepers)
  BY TailFacts DEF WakeSleeper, SleeperDue, IInv, PlaceInv, Typed, ListInv
<1>2. /\ UNCHANGED <<pc, target, done, nextWaiter, waking, prev>>
      /\ queued' = queued \/ queued' = queued \cup {t}
  BY DEF WakeSleeper, Enqueue
<1>3. pc[t] = "run"
  BY <1>1 DEF IInv, PlaceInv, PcInv
<1> HIDE DEF t
<1>4. Parked' = Parked
  BY <1>2, <1>3 DEF Parked, On
<1> QED BY <1>2, <1>4, Frame, Pointers

\* A ready task that is dispatched stays off the waiter lists.
LEMMA DispatchAwait ==
  ASSUME IInv, AwaitInv, Dispatch(Main),
         UNCHANGED <<pc, target, fateVars, sleepVars, waiterVars>>
  PROVE  AwaitInv'
<1> USE SchedulerAssumption DEF queueVars, sleepVars, waiterVars, fateVars, switchVars
<1> DEFINE t == Head(ready)
<1>1. t \in Task /\ t \in queued
  BY TailFacts DEF Dispatch, IInv, PlaceInv, Typed, ListInv
<1>2. /\ UNCHANGED <<pc, target, done, nextWaiter, waking>>
      /\ queued' = queued \ {t}
      /\ prev' = [prev EXCEPT ![t] = Main]
  BY DEF Dispatch
<1> HIDE DEF t
<1>3. prev'[t] = Main /\ \A u \in Task : u # t => prev'[u] = prev[u]
  BY <1>1, <1>2 DEF IInv, PlaceInv, Typed
<1>4. Parked' = Parked
  BY <1>1, <1>2, <1>3 DEF Parked, On
<1> QED BY <1>2, <1>4, Frame, Pointers

\* What the main program does with its own program counter, a cancelled flag and
\* the clock touch no waiter.
LEMMA QuietAwait ==
  ASSUME IInv, AwaitInv,
         \/ \E o \in Owner : Cancel(o)
         \/ MainAwait \/ MainSleep \/ MainAwaitReturn \/ MainSleepReturn \/ MainExit
         \/ Tick \/ UNCHANGED vars
  PROVE  AwaitInv'
<1> USE SchedulerAssumption DEF queueVars, sleepVars, waiterVars, fateVars, switchVars
<1>1. UNCHANGED <<done, nextWaiter, waking, queued, prev>>
  BY DEF Cancel, MainAwait, MainSleep, MainAwaitReturn, MainSleepReturn, MainExit, Tick, vars
<1>2. \A t \in Task : pc'[t] = pc[t] /\ target'[t] = target[t]
  BY DEF Cancel, MainAwait, MainSleep, MainAwaitReturn, MainSleepReturn, MainExit, Tick, vars,
         IInv, PlaceInv, Typed, Owner
<1>3. Parked' = Parked
  BY <1>1, <1>2 DEF Parked, On
<1> QED BY <1>1, <1>2, <1>3, Frame, Pointers

\* A task that returns from await is on no list of waiters any more.
LEMMA AwaitReturnAwait ==
  ASSUME IInv, AwaitInv, NEW a \in Task, AwaitReturn(a)
  PROVE  AwaitInv'
<1> USE SchedulerAssumption DEF queueVars, sleepVars, waiterVars, fateVars, switchVars
<1>1. /\ cur = a /\ pc[a] = "await"
      /\ pc' = [pc EXCEPT ![a] = "run"]
      /\ target' = [target EXCEPT ![a] = None]
      /\ UNCHANGED <<done, nextWaiter, waking, queued, prev>>
  BY DEF AwaitReturn
<1>2. a \notin Parked
  BY <1>1 DEF Parked, IInv, PlaceInv, ControlInv
<1>3. \A t \in Task : t # a => pc'[t] = pc[t] /\ target'[t] = target[t]
  BY <1>1 DEF IInv, PlaceInv, Typed, Owner
<1>4. pc'[a] = "run"
  BY <1>1 DEF IInv, PlaceInv, Typed, Owner
<1>5. Parked' = Parked
  BY <1>1, <1>2, <1>3, <1>4 DEF Parked, On
<1>6. /\ \A t \in Task : nextWaiter[t] # None => nextWaiter[t] \in Parked
      /\ waking # None => waking \in Parked
      /\ Parked \subseteq Task
  BY DEF IInv, PlaceInv, LinkInv, Parked
<1>7. ResumeInv'
  BY <1>1, <1>3, <1>4, <1>5 DEF AwaitInv, ResumeInv
<1>8. TargetInv'
  BY <1>1, <1>2, <1>3, <1>4, <1>5, <1>6 DEF AwaitInv, TargetInv
<1>9. \A t : From(t)' = From(t)
  BY <1>1 DEF From, Closed
<1>10. AwaitersLinked'
  BY <1>1, <1>2, <1>3, <1>5, <1>6, <1>9 DEF AwaitInv, AwaitersLinked
<1> QED BY <1>7, <1>8, <1>10 DEF AwaitInv

\* A task that leaves has woken all its waiters.
LEMMA LeaveAwait ==
  ASSUME IInv, AwaitInv, NEW t \in Task, Leave(t)
  PROVE  AwaitInv'
<1> USE SchedulerAssumption DEF queueVars, sleepVars, waiterVars, fateVars, switchVars
<1>1. /\ pc[t] = "wake"
      /\ pc' = [pc EXCEPT ![t] = "exit"]
      /\ prev' = [prev EXCEPT ![t] = None]
      /\ UNCHANGED <<target, done, nextWaiter, waking, queued>>
  BY DEF Leave, SwitchOut
<1>2. /\ pc'[t] = "exit"
      /\ \A u \in Task : u # t => pc'[u] = pc[u] /\ prev'[u] = prev[u]
  BY <1>1 DEF IInv, PlaceInv, Typed, Owner
<1>3. Parked' = Parked
  BY <1>1, <1>2 DEF Parked, On
<1> QED BY <1>1, <1>2, <1>3, Frame, Pointers

\* await pushes the task in front of those that await the same one.
LEMMA AwaitAwait ==
  ASSUME Flat, IInv, AwaitInv, NEW a \in Task, Await(a)
  PROVE  AwaitInv'
<1> USE SchedulerAssumption DEF queueVars, sleepVars, waiterVars, fateVars, switchVars
<1>1. PICK t \in created \ done :
        /\ <<a, t>> \in Awaits
        /\ target' = [target EXCEPT ![a] = t]
        /\ nextWaiter' = [nextWaiter EXCEPT ![a] = nextWaiter[t], ![t] = a]
  BY DEF Await
<1>2. /\ cur = a /\ pc[a] = "run" /\ On = {a}
      /\ pc' = [pc EXCEPT ![a] = "await"]
      /\ UNCHANGED <<done, waking, queued>>
      /\ On' = {}
  BY SwitchFacts DEF Await, Runs, IInv, PlaceInv, ControlInv
<1>3. a # t /\ t \in Task
  BY <1>1 DEF Flat, IInv, PlaceInv, Typed
<1>4. /\ pc'[a] = "await" /\ target'[a] = t
      /\ nextWaiter'[a] = nextWaiter[t] /\ nextWaiter'[t] = a
      /\ \A u \in Task : u # a => pc'[u] = pc[u] /\ target'[u] = target[u]
      /\ \A u \in Task \ {a, t} : nextWaiter'[u] = nextWaiter[u]
  BY <1>1, <1>2, <1>3 DEF IInv, PlaceInv, Typed, Owner
<1>5. a \notin queued
  BY <1>2 DEF IInv, PlaceInv, PcInv
<1>6. Parked' = Parked \cup {a} /\ a \notin Parked
  BY <1>2, <1>4, <1>5 DEF Parked
<1>7. pc[t] # "await"
  BY <1>1, <1>3 DEF AwaitInv, ResumeInv, Flat
<1>8. t \notin Parked
  BY <1>7 DEF Parked
<1>9. /\ \A x \in Task : nextWaiter[x] # None => nextWaiter[x] \in Parked
      /\ waking = None
      /\ Parked \subseteq Task
  BY <1>2 DEF IInv, PlaceInv, LinkInv, Parked
<1>10. nextWaiter[a] = None
  <2> SUFFICES ASSUME nextWaiter[a] # None PROVE FALSE
    OBVIOUS
  <2> DEFINE w == nextWaiter[a]
  <2>1. w \in Parked /\ target[w] = a
    BY <1>6, <1>9 DEF AwaitInv, TargetInv
  <2>2. w \in Task /\ pc[w] = "await"
    BY <2>1 DEF Parked
  <2>3. <<w, a>> \in Awaits
    BY <2>1, <2>2 DEF AwaitInv, ResumeInv
  <2> QED BY <2>3, <1>1 DEF Flat
<1>11. ResumeInv'
  BY <1>1, <1>2, <1>4, <1>6 DEF AwaitInv, ResumeInv
<1>12. TargetInv'
  <2>1. ASSUME NEW x \in Task, nextWaiter'[x] # None
        PROVE  target'[nextWaiter'[x]] = IF x \in Parked' THEN target'[x] ELSE x
    <3>1. CASE x = a
      BY <3>1, <2>1, <1>3, <1>4, <1>6, <1>8, <1>9 DEF AwaitInv, TargetInv
    <3>2. CASE x = t
      BY <3>2, <1>3, <1>4, <1>6, <1>8
    <3>3. CASE x \notin {a, t}
      BY <3>3, <2>1, <1>4, <1>6, <1>9 DEF AwaitInv, TargetInv
    <3> QED BY <3>1, <3>2, <3>3
  <2> QED BY <2>1, <1>2, <1>9 DEF TargetInv
<1>13. AwaitersLinked'
  <2>1. ASSUME NEW b \in Parked PROVE target[b] \notin done /\ b \in From(target[b])
    BY <1>9 DEF AwaitInv, AwaitersLinked
  <2>2. ASSUME NEW S \in SUBSET Task, Closed(S)' PROVE Closed(S)
    <3> SUFFICES ASSUME NEW x \in S PROVE nextWaiter[x] \in S \cup {None}
      BY DEF Closed
    <3>1. nextWaiter'[x] \in S \cup {None}
      BY <2>2 DEF Closed
    <3>2. CASE x = t
      <4>1. a \in S
        BY <3>1, <3>2, <1>4
      <4> QED BY <4>1, <3>2, <2>2, <1>4 DEF Closed
    <3> QED BY <3>1, <3>2, <1>4, <1>10
  <2>3. ASSUME NEW b \in Parked PROVE b \in From(target[b])'
    BY <2>1, <2>2, <1>4, <1>6, <1>9 DEF From
  <2>4. a \in From(t)'
    BY <1>4 DEF From, Closed
  <2> QED BY <2>1, <2>3, <2>4, <1>1, <1>2, <1>4, <1>6, <1>9 DEF AwaitersLinked
<1> QED BY <1>11, <1>12, <1>13 DEF AwaitInv

\* A task that ends hands its whole list over to the walk.
LEMMA FinishAwait ==
  ASSUME IInv, AwaitInv, NEW t \in Task, Finish(t)
  PROVE  AwaitInv'
<1> USE SchedulerAssumption DEF queueVars, sleepVars, waiterVars, fateVars, switchVars
<1>1. /\ cur = t /\ pc[t] = "run" /\ t \in On
      /\ done' = done \cup {t}
      /\ waking' = nextWaiter[t]
      /\ nextWaiter' = [nextWaiter EXCEPT ![t] = None]
      /\ pc' = [pc EXCEPT ![t] = "wake"]
      /\ UNCHANGED <<target, queued, prev>>
  BY DEF Finish, Runs, IInv, PlaceInv, ControlInv
<1>2. /\ pc'[t] = "wake" /\ nextWaiter'[t] = None
      /\ \A u \in Task : u # t => pc'[u] = pc[u] /\ nextWaiter'[u] = nextWaiter[u]
  BY <1>1 DEF IInv, PlaceInv, Typed, Owner
<1>3. Parked' = Parked /\ t \notin Parked
  BY <1>1, <1>2 DEF Parked, On
<1>4. /\ \A x \in Task : nextWaiter[x] # None => nextWaiter[x] \in Parked
      /\ waking = None
      /\ Parked \subseteq Task
      /\ \A x \in Task : nextWaiter[x] \in Task \cup {None}
      /\ \A u \in Task : u # t => pc[u] # "wake"
  BY <1>1 DEF IInv, PlaceInv, LinkInv, PcInv, Typed, Parked
<1>5. /\ \A b \in Parked : target[b] \notin done /\ b \in From(target[b])
      /\ \A b \in Parked : target[b] \in Task
  BY <1>4 DEF AwaitInv, AwaitersLinked, ResumeInv, Parked
<1>6. ResumeInv'
  BY <1>1, <1>2, <1>3 DEF AwaitInv, ResumeInv
<1>7. TargetInv'
  BY <1>1, <1>2, <1>3, <1>4 DEF AwaitInv, TargetInv
<1>8. ASSUME NEW b \in Parked, target[b] = t
      PROVE  waking' # None /\ b \in From(waking)'
  <2>1. ASSUME NEW S \in SUBSET Task, waking' \in S \cup {None}, Closed(S)' PROVE b \in S
    <3>1. Closed(S \cup {t})
      BY <2>1, <1>1, <1>2 DEF Closed
    <3>2. b \in S \cup {t}
      BY <3>1, <1>5, <1>8 DEF From
    <3> QED BY <3>2, <1>3
  <2>2. waking' # None
    <3>1. {} \in SUBSET Task /\ Closed({})'
      BY DEF Closed
    <3> QED BY <3>1, <2>1
  <2> QED BY <2>1, <2>2, <1>4 DEF From
<1>9. ASSUME NEW b \in Parked, target[b] # t
      PROVE  b \in From(target[b])'
  <2> SUFFICES ASSUME NEW S \in SUBSET Task, target[b] \in S, Closed(S)' PROVE b \in S
    BY <1>1, <1>4 DEF From
  <2> DEFINE T == S \cup {x \in Parked : target[x] = t}
  <2>1. ASSUME NEW x \in T PROVE nextWaiter[x] \in T \cup {None}
    <3>1. CASE x = t
      BY <3>1, <1>3, <1>4 DEF AwaitInv, TargetInv
    <3>2. CASE x \in S /\ x # t
      BY <3>2, <1>2 DEF Closed
    <3>3. CASE x \in Parked /\ target[x] = t
      BY <3>3, <1>4 DEF AwaitInv, TargetInv
    <3> QED BY <3>1, <3>2, <3>3
  <2>2. b \in T
    <3>1. T \in SUBSET Task /\ Closed(T) /\ target[b] \in T
      BY <2>1, <1>4 DEF Closed
    <3> HIDE DEF T
    <3> QED BY <3>1, <1>5 DEF From
  <2> QED BY <2>2, <1>9
<1>10. AwaitersLinked'
  BY <1>1, <1>3, <1>5, <1>8, <1>9 DEF AwaitersLinked
<1> QED BY <1>6, <1>7, <1>10 DEF AwaitInv

\* A turn of the walk wakes a task that awaits the finished one, and leaves the rest
\* of the list to the next turn.
LEMMA WakeWaiterAwait ==
  ASSUME IInv, AwaitInv, NEW t \in Task, WakeWaiter(t)
  PROVE  AwaitInv'
<1> USE SchedulerAssumption DEF queueVars, sleepVars, waiterVars, fateVars, switchVars
<1> DEFINE w == waking
<1>1. /\ cur = t /\ pc[t] = "wake" /\ t \in done
      /\ w # None
      /\ waking' = nextWaiter[w]
      /\ nextWaiter' = [nextWaiter EXCEPT ![w] = None]
      /\ Enqueue(w)
      /\ UNCHANGED <<switchVars, pc, target, done>>
  BY DEF WakeWaiter, IInv, PlaceInv, PcInv
<1>2. /\ \A x \in Task : nextWaiter[x] # None => nextWaiter[x] \in Parked
      /\ w \in Parked
      /\ Parked \subseteq Task
      /\ \A x \in Task : nextWaiter[x] \in Task \cup {None} /\ nextWaiter[x] # w
      /\ \A u \in Task : u # t => pc[u] # "wake"
  BY <1>1 DEF IInv, PlaceInv, LinkInv, PcInv, Typed, Parked
<1>3. /\ nextWaiter'[w] = None
      /\ \A u \in Task : u # w => nextWaiter'[u] = nextWaiter[u]
  BY <1>1, <1>2 DEF IInv, PlaceInv, Typed
<1>4. target[w] = t
  BY <1>1 DEF AwaitInv, TargetInv
<1>5. queued' = queued \cup {w}
  <2>1. w \in Task /\ pc[w] = "await" /\ w \notin queued
    BY <1>2 DEF Parked
  <2>2. w \notin done
    BY <2>1 DEF IInv, PlaceInv, PcInv
  <2> QED BY <2>1, <2>2, <1>1 DEF Enqueue
<1>6. Parked' = Parked \ {w}
  BY <1>1, <1>5 DEF Parked, On
<1>7. ResumeInv'
  BY <1>1, <1>4, <1>6 DEF AwaitInv, ResumeInv
<1>8. TargetInv'
  BY <1>1, <1>2, <1>3, <1>4, <1>6 DEF AwaitInv, TargetInv
<1>9. ASSUME NEW b \in Parked, b # w, target[b] \in done
      PROVE  waking' # None /\ b \in From(waking)'
  <2>1. b \in From(w)
    BY <1>9 DEF AwaitInv, AwaitersLinked
  <2>2. ASSUME NEW S \in SUBSET Task, waking' \in S \cup {None}, Closed(S)' PROVE b \in S
    <3>1. Closed(S \cup {w})
      BY <2>2, <1>1, <1>3 DEF Closed
    <3>2. b \in S \cup {w}
      BY <3>1, <2>1, <1>2 DEF From
    <3> QED BY <3>2, <1>9
  <2>3. waking' # None
    <3>1. {} \in SUBSET Task /\ Closed({})'
      BY DEF Closed
    <3> QED BY <3>1, <2>2
  <2> QED BY <2>2, <2>3, <1>2 DEF From
<1>10. ASSUME NEW b \in Parked, target[b] \notin done
       PROVE  b \in From(target[b])'
  <2>1. b \in From(target[b])
    BY <1>10 DEF AwaitInv, AwaitersLinked
  <2> SUFFICES ASSUME NEW S \in SUBSET Task, target[b] \in S, Closed(S)' PROVE b \in S
    BY <1>1, <1>2 DEF From
  <2> DEFINE T == S \cup {x \in Parked : target[x] = t}
  <2>2. ASSUME NEW x \in T PROVE nextWaiter[x] \in T \cup {None}
    <3>1. CASE x \in Parked /\ target[x] = t
      BY <3>1, <1>2 DEF AwaitInv, TargetInv
    <3>2. CASE x \in S /\ x # w
      BY <3>2, <1>3 DEF Closed
    <3>3. CASE x = w
      BY <3>3, <3>1, <1>2, <1>4
    <3> QED BY <3>1, <3>2, <3>3
  <2>3. b \in T
    BY <2>1, <2>2, <1>2 DEF From, Closed
  <2> QED BY <2>3, <1>1, <1>10
<1>11. AwaitersLinked'
  BY <1>1, <1>6, <1>9, <1>10 DEF AwaitersLinked
<1> QED BY <1>7, <1>8, <1>11 DEF AwaitInv
-----------------------------------------------------------------------------
\* Every step preserves the invariant.
LEMMA AwaitNext ==
  ASSUME Flat
  PROVE  IInv /\ AwaitInv /\ [Next]_vars => AwaitInv'
<1> SUFFICES ASSUME IInv, AwaitInv, [Next]_vars PROVE AwaitInv'
  OBVIOUS
<1>1. ASSUME NEW t \in Task, TaskStep(t) PROVE AwaitInv'
  BY <1>1, SpawnAwait, QuietAwait, AwaitAwait, AwaitReturnAwait, YieldAwait, FinishAwait,
     WakeWaiterAwait, LeaveAwait DEF TaskStep, Owner
<1>2. ASSUME MainStep PROVE AwaitInv'
  BY <1>2, SpawnAwait, QuietAwait, WakeSleeperAwait, DispatchAwait
     DEF MainStep, MainWakeSleeper, MainDispatch, Owner
<1> QED BY <1>1, <1>2, QuietAwait DEF Next, Stopped

\* The invariant holds of every reachable state.
LEMMA AwaitInvariance ==
  ASSUME Flat
  PROVE  Spec => []AwaitInv
BY AwaitInit, AwaitNext, Invariance, PTL DEF Spec

\* No wakeup is lost: whoever is parked in await is found from the task it awaits
\* (tya_task_await, tya_task_wake_waiters).
THEOREM AwaitersLinkedCorrect ==
  ASSUME Flat
  PROVE  Spec => []AwaitersLinked
<1>1. AwaitInv => AwaitersLinked
  BY DEF AwaitInv
<1> QED BY <1>1, AwaitInvariance, PTL

\* await in a task returns only for a task that is done.
THEOREM AwaitReturnsDoneCorrect ==
  ASSUME Flat
  PROVE  Spec => AwaitReturnsDone
<1>1. IInv /\ AwaitInv /\ [Next]_vars
        => [\A a \in Task : pc[a] = "await" /\ pc'[a] = "run" => target[a] \in done]_vars
  <2> SUFFICES ASSUME IInv, AwaitInv, Next, NEW a \in Task, pc[a] = "await", pc'[a] = "run"
               PROVE  target[a] \in done
    OBVIOUS
  <2>1. CASE AwaitReturn(a)
    <3>1. a \notin Parked
      BY <2>1 DEF AwaitReturn, Parked, IInv, PlaceInv, ControlInv
    <3> QED BY <3>1 DEF AwaitInv, ResumeInv
  <2>2. ASSUME ~AwaitReturn(a) PROVE pc'[a] # "run"
    <3> USE SchedulerAssumption DEF queueVars, sleepVars, waiterVars, fateVars, switchVars
    <3>1. pc \in [Owner -> {"run", "await", "sleep", "wake", "exit"}] /\ a \in Owner /\ a # Main
      BY DEF IInv, PlaceInv, Typed, Owner
    <3>2. ASSUME NEW t \in Task, TaskStep(t) PROVE pc'[a] # "run"
      BY <2>2, <3>1, <3>2 DEF TaskStep, Spawn, SpawnTask, Cancel, Await, AwaitReturn, Sleep, Yield,
         Finish, WakeWaiter, Leave, Owner
    <3>3. ASSUME MainStep PROVE pc'[a] # "run"
      BY <3>1, <3>3 DEF MainStep, Spawn, SpawnTask, Cancel, MainAwait, MainSleep, MainWakeSleeper,
         WakeSleeper, MainDispatch, MainAwaitReturn, MainSleepReturn, MainExit
    <3>4. CASE Tick \/ UNCHANGED vars
      BY <3>4 DEF Tick, vars
    <3> QED BY <3>2, <3>3, <3>4 DEF Next, Stopped
  <2> QED BY <2>1, <2>2
<1> QED BY <1>1, Invariance, AwaitInvariance, PTL DEF Spec, AwaitReturnsDone

\* Whoever awaits, awaits a task that exists.
TargetsCreated == \A o \in Owner : pc[o] = "await" => target[o] \in created

\* tya_task_await is given a task that tya_task_new has returned, and keeps it.
LEMMA TargetsNext ==
  ASSUME IInv, TargetsCreated, [Next]_vars
  PROVE  TargetsCreated'
<1> USE SchedulerAssumption DEF queueVars, sleepVars, waiterVars, fateVars, switchVars
<1>1. /\ pc \in [Owner -> {"run", "await", "sleep", "wake", "exit"}]
      /\ target \in [Owner -> Task \cup {None}]
      /\ Task \subseteq Owner /\ Main \in Owner
  BY DEF IInv, PlaceInv, Typed, Owner
<1>2. ASSUME NEW t \in Task, TaskStep(t) PROVE TargetsCreated'
  BY <1>1, <1>2 DEF TargetsCreated, TaskStep, Spawn, SpawnTask, Cancel, Await, AwaitReturn,
     Sleep, Yield, Finish, WakeWaiter, Leave
<1>3. ASSUME MainStep PROVE TargetsCreated'
  BY <1>1, <1>3 DEF TargetsCreated, MainStep, Spawn, SpawnTask, Cancel, MainAwait, MainSleep,
     MainWakeSleeper, WakeSleeper, MainDispatch, MainAwaitReturn, MainSleepReturn, MainExit
<1>4. CASE Tick \/ UNCHANGED vars
  BY <1>4 DEF TargetsCreated, Tick, vars
<1> QED BY <1>2, <1>3, <1>4 DEF Next, Stopped

LEMMA TargetsInvariance == Spec => []TargetsCreated
<1>1. Init => TargetsCreated
  BY DEF Init, TargetsCreated
<1>2. IInv /\ TargetsCreated /\ [Next]_vars => TargetsCreated'
  BY TargetsNext
<1> QED BY <1>1, <1>2, Invariance, PTL DEF Spec

\* When the main program finds nothing ready and nobody asleep, every task is done:
\* whoever is alive awaits somebody who is alive and awaits as well, and nobody awaits
\* a task that awaits.
LEMMA Quiescent ==
  ASSUME Flat, IInv, AwaitInv, TargetsCreated, cur = Main, ready = <<>>, sleepers = <<>>
  PROVE  created \subseteq done
<1> SUFFICES ASSUME NEW u \in created, u \notin done PROVE FALSE
  OBVIOUS
<1>1. queued = {} /\ Range(sleepers) = {} /\ On = {} /\ waking = None
  BY SchedulerAssumption DEF IInv, PlaceInv, ListInv, LinkInv, ControlInv, Range
<1>2. ASSUME NEW t \in created \ done PROVE t \in Task /\ t \in Parked /\ pc[t] = "await"
  BY <1>1 DEF IInv, PlaceInv, Typed, PcInv, Parked, Elsewhere
<1>3. ASSUME NEW t \in created \ done
      PROVE  /\ target[t] \in created \ done
             /\ <<t, target[t]>> \in Awaits
  BY <1>1, <1>2 DEF TargetsCreated, AwaitInv, AwaitersLinked, ResumeInv, Owner
<1>4. <<u, target[u]>> \in Awaits /\ target[u] \in created \ done
  BY <1>3
<1>5. <<target[u], target[target[u]]>> \in Awaits
  BY <1>3, <1>4
<1> QED BY <1>4, <1>5 DEF Flat

\* The main program's await returns only for a task that is done: its loop ends early
\* only when every task is.
THEOREM MainAwaitReturnsDoneCorrect ==
  ASSUME Flat
  PROVE  Spec => MainAwaitReturnsDone
<1>1. IInv /\ AwaitInv /\ TargetsCreated /\ [Next]_vars
        => [pc[Main] = "await" /\ pc'[Main] = "run" => target[Main] \in done]_vars
  <2> SUFFICES ASSUME IInv, AwaitInv, TargetsCreated, Next, pc[Main] = "await", pc'[Main] = "run"
               PROVE  target[Main] \in done
    OBVIOUS
  <2>1. CASE cur = Main /\ ready = <<>> /\ sleepers = <<>>
    <3>1. target[Main] \in created
      BY DEF TargetsCreated, Owner
    <3> QED BY <2>1, <3>1, Quiescent
  <2>2. CASE ~(cur = Main /\ ready = <<>> /\ sleepers = <<>>)
    <3> USE SchedulerAssumption DEF queueVars, sleepVars, waiterVars, fateVars, switchVars
    <3>1. pc \in [Owner -> {"run", "await", "sleep", "wake", "exit"}] /\ Main \in Owner
      BY DEF IInv, PlaceInv, Typed, Owner
    <3>2. ASSUME NEW t \in Task, TaskStep(t) PROVE pc'[Main] # "run"
      BY <3>1, <3>2 DEF TaskStep, Spawn, SpawnTask, Cancel, Await, AwaitReturn, Sleep, Yield,
         Finish, WakeWaiter, Leave
    <3>3. ASSUME MainStep PROVE target[Main] \in done
      BY <2>2, <3>1, <3>3 DEF MainStep, Spawn, SpawnTask, Cancel, MainAwait, MainSleep,
         MainWakeSleeper, WakeSleeper, MainDispatch, MainAwaitReturn, MainSleepReturn, MainExit, Runs
    <3>4. CASE Tick \/ UNCHANGED vars
      BY <3>4 DEF Tick, vars
    <3> QED BY <3>2, <3>3, <3>4 DEF Next, Stopped
  <2> QED BY <2>1, <2>2
<1> QED BY <1>1, Invariance, AwaitInvariance, TargetsInvariance, PTL DEF Spec, MainAwaitReturnsDone
=============================================================================
