---------------------------- MODULE ScopesProofs ----------------------------
(***************************************************************************)
(* What the scope statement promises, for every set of tasks and of scopes, *)
(* when the scope statements are in the main program's code.                *)
(***************************************************************************)
EXTENDS Scopes, SchedulerProofs

\* Only the main program enters scopes: a scope that a task enters while another
\* owner is inside one takes its place at the head of the thread's only chain.
MainScopes == Scoped \subseteq {Main}

held == own[Main]
USE DEF held
Count == Len(members[Inner(Main)])

ScopeTyped ==
  /\ curScope \in Scope \cup {None}
  /\ outer \in [Scope -> Scope \cup {None}]
  /\ members \in [Scope -> Seq(Task)]
  /\ own \in [Owner -> Seq(Scope)]
  /\ stage \in [Owner -> {"body", "exit", "raise"}]
  /\ pos \in [Owner -> Nat]
  /\ first \in [Owner -> Task \cup {None}]
  /\ inside \in [Scope -> SUBSET Task]
  /\ escaped \in BOOLEAN

\* Tasks enter no scope; the main program is in a scope it leaves, and in none twice.
OwnInv ==
  /\ \A t \in Task : own[t] = <<>> /\ stage[t] = "body"
  /\ IsInjective(held)
  /\ stage[Main] # "body" => held # <<>>

\* Only tasks that exist are registered.
MemberInv == \A s \in Scope : Range(members[s]) \subseteq created

\* The chain is the stack of the scopes the main program is in.
ChainInv ==
  /\ curScope = IF held = <<>> THEN None ELSE held[Len(held)]
  /\ \A i \in DOMAIN held : outer[held[i]] = IF i = 1 THEN None ELSE held[i - 1]

\* A task that was spawned inside a scope is done, or a member of that scope or of one
\* that is nested in it.
InsideInv ==
  \A i \in DOMAIN held : \A t \in inside[held[i]] :
    t \in done \/ \E j \in i..Len(held) : t \in Range(members[held[j]])

\* The loop over the members of a scope that ends: those it has passed are done, and
\* tya_scope_exit remembers the first of them that raised.
JoinInv ==
  stage[Main] # "body" =>
    /\ pos[Main] \in 1..(Count + 1)
    /\ \A i \in 1..(pos[Main] - 1) : members[Inner(Main)][i] \in done
    /\ stage[Main] = "exit" => FirstRaise(first[Main], members[Inner(Main)], pos[Main] - 1)

\* tya_scope_raise has cancelled all the main program spawned in the scope.
RaiseInv == stage[Main] = "raise" => inside[Inner(Main)] \subseteq done \cup cancelled

\* The inductive invariant, with that of the scheduler.
SInv ==
  /\ ScopeTyped /\ OwnInv /\ MemberInv /\ JoinInv
  /\ ~escaped => ChainInv /\ InsideInv /\ RaiseInv
BaseInv == IInv /\ AwaitInv /\ TargetsCreated

\* What the scheduler sees of a step: one of its own, a call of run_one by the main
\* program, or cancelled flags that are set.
Flags ==
  /\ cancelled \subseteq cancelled' /\ cancelled' \subseteq created
  /\ UNCHANGED <<switchVars, pc, target, created, done, raised, queueVars, sleepVars, waiterVars>>
Seen ==
  \/ [Next]_vars
  \/ WakeSleeper
  \/ /\ cur = Main /\ Dispatch(Main)
     /\ UNCHANGED <<pc, target, fateVars, sleepVars, waiterVars>>
  \/ Flags
-----------------------------------------------------------------------------
(* The scheduler.                                                            *)

\* The flags tell the scheduler nothing.
LEMMA FlagsBase ==
  ASSUME BaseInv, Flags
  PROVE  BaseInv'
<1> USE SchedulerAssumption DEF queueVars, sleepVars, waiterVars, fateVars, switchVars
<1>1. /\ cancelled' \subseteq created
      /\ UNCHANGED <<cur, ctx, prev, pc, target, created, done, raised, queued, ready,
                     sleepers, wake, now, nextWaiter, waking>>
  BY DEF Flags
<1>2. PlaceInv' /\ Elsewhere' = {}
  <2>1. Typed'
    BY <1>1 DEF BaseInv, IInv, PlaceInv, Typed
  <2>2. ListInv' /\ StackInv' /\ PcInv' /\ LinkInv' /\ Elsewhere' = Elsewhere
    BY <1>1 DEF BaseInv, IInv, PlaceInv, ListInv, StackInv, PcInv, LinkInv, On, Parked, Elsewhere
  <2> QED BY <2>1, <2>2 DEF PlaceInv, BaseInv, IInv
<1>3. ControlInv'
  BY <1>1 DEF BaseInv, IInv, ControlInv, On
<1>4. AwaitInv'
  BY <1>1, Frame, Pointers DEF BaseInv, Parked, On
<1>5. TargetsCreated'
  BY <1>1 DEF BaseInv, TargetsCreated
<1> QED BY <1>2, <1>3, <1>4, <1>5 DEF BaseInv, IInv

LEMMA SeenBase ==
  ASSUME Flat, BaseInv, Seen
  PROVE  BaseInv'
<1>1. CASE [Next]_vars
  BY <1>1, NextPlace, NextControl, AwaitNext, TargetsNext DEF BaseInv, IInv
<1>2. CASE WakeSleeper
  <2>1. PlaceInv' /\ Elsewhere' = {} /\ AwaitInv'
    BY <1>2, WakeSleeperPlace, WakeSleeperAwait DEF BaseInv, IInv
  <2>2. ControlInv' /\ TargetsCreated'
    BY <1>2 DEF WakeSleeper, BaseInv, IInv, ControlInv, TargetsCreated, On, switchVars, fateVars
  <2> QED BY <2>1, <2>2 DEF BaseInv, IInv
<1>3. CASE /\ cur = Main /\ Dispatch(Main)
           /\ UNCHANGED <<pc, target, fateVars, sleepVars, waiterVars>>
  <2>1. Main \in Owner /\ Main \notin Task
    BY SchedulerAssumption DEF Owner
  <2>2. PlaceInv' /\ Elsewhere' = {} /\ AwaitInv' /\ ControlInv'
    BY <1>3, <2>1, DispatchPlace, DispatchControl, DispatchAwait DEF BaseInv, IInv
  <2>3. TargetsCreated'
    BY <1>3 DEF BaseInv, TargetsCreated, fateVars
  <2> QED BY <2>2, <2>3 DEF BaseInv, IInv
<1>4. CASE Flags
  BY <1>4, FlagsBase
<1> QED BY <1>1, <1>2, <1>3, <1>4 DEF Seen

\* Tasks that exist, are done or are cancelled stay so, and whether a task that is done
\* has raised is settled.
Settles ==
  /\ created \subseteq created' /\ done \subseteq done' /\ cancelled \subseteq cancelled'
  /\ \A t \in done : t \in raised' <=> t \in raised

LEMMA SeenSettles ==
  ASSUME BaseInv, Seen
  PROVE  Settles
<1> USE DEF queueVars, sleepVars, waiterVars, fateVars, switchVars
<1>1. \A t \in Task : t \in done => pc[t] # "run"
  BY DEF BaseInv, IInv, PlaceInv, PcInv
<1>2. ASSUME NEW t \in Task, TaskStep(t) PROVE Settles
  BY <1>1, <1>2 DEF Settles, TaskStep, Spawn, SpawnTask, Cancel, Await, AwaitReturn, Sleep, Yield,
     Finish, WakeWaiter, Leave, Runs
<1>3. ASSUME MainStep PROVE Settles
  BY <1>3 DEF Settles, MainStep, Spawn, SpawnTask, Cancel, MainAwait, MainSleep,
     MainWakeSleeper, WakeSleeper, MainDispatch, MainAwaitReturn, MainSleepReturn, MainExit
<1>4. CASE Tick \/ UNCHANGED vars \/ WakeSleeper \/ Flags
  BY <1>4 DEF Settles, Tick, vars, WakeSleeper, Flags
<1> QED BY <1>2, <1>3, <1>4 DEF Seen, Next, Stopped, Settles

\* The scopes are those of the main program.
LEMMA MainOnly ==
  ASSUME SInv, NEW o \in Owner
  PROVE  /\ MainScopes /\ Enter(o) => o = Main
         /\ own[o] # <<>> => o = Main
         /\ stage[o] # "body" => o = Main
  BY DEF MainScopes, SInv, OwnInv, Enter, Owner

\* The innermost scope.
LEMMA InnerFacts ==
  ASSUME SInv, held # <<>>
  PROVE  /\ Len(held) \in Nat \ {0} /\ DOMAIN held = 1..Len(held)
         /\ Inner(Main) = held[Len(held)] /\ Inner(Main) \in Scope
         /\ members[Inner(Main)] \in Seq(Task)
         /\ Count \in Nat /\ DOMAIN members[Inner(Main)] = 1..Count
         /\ \A i \in 1..Count : members[Inner(Main)][i] \in Range(members[Inner(Main)])
<1>1. held \in Seq(Scope) /\ members \in [Scope -> Seq(Task)]
  BY DEF SInv, ScopeTyped, Owner
<1>2. Len(held) \in Nat \ {0} /\ DOMAIN held = 1..Len(held) /\ held[Len(held)] \in Scope
  BY <1>1
<1>3. Inner(Main) = held[Len(held)]
  BY DEF Inner
<1>4. members[Inner(Main)] \in Seq(Task)
  BY <1>1, <1>2, <1>3
<1>5. /\ Count \in Nat /\ DOMAIN members[Inner(Main)] = 1..Count
      /\ \A i \in 1..Count : members[Inner(Main)][i] \in Range(members[Inner(Main)])
  BY <1>4 DEF Count, Range
<1> QED BY <1>2, <1>3, <1>4, <1>5

\* The loop over the members sets no flag of a task that does not exist.
LEMMA ReachFlags ==
  ASSUME BaseInv, SInv, held # <<>>, NEW i \in Nat \ {0}, NEW f, Reach(Main, i, f)
  PROVE  cancelled \subseteq cancelled' /\ cancelled' \subseteq created
<1>1. cancelled \subseteq created
  BY DEF BaseInv, IInv, PlaceInv, Typed
<1>2. i <= Count => members[Inner(Main)][i] \in created
  BY InnerFacts DEF SInv, MemberInv
<1> QED BY <1>1, <1>2 DEF Reach, Count

\* Every step of a program with scopes is one the scheduler can see.
LEMMA StepSeen ==
  ASSUME MainScopes, BaseInv, SInv, [ScopesNext]_allVars
  PROVE  Seen
<1> USE DEF allVars
<1>1. ASSUME NEW o \in Owner, ScopeStep(o) PROVE Seen
  <2>1. CASE Enter(o) \/ ReturnOut(o) \/ ScopeEnds(o)
    BY <2>1 DEF Enter, ReturnOut, ScopeEnds, Seen
  <2>2. CASE SpawnInto(o)
    <3>1. Spawn(o)
      BY <2>2 DEF SpawnInto, Spawn
    <3> QED BY <3>1 DEF Owner, Seen, Next, TaskStep, MainStep
  <2>3. CASE Exit(o)
    <3>1. o = Main /\ held # <<>>
      <4>1. own[o] # <<>>
        BY <2>3 DEF Exit
      <4> QED BY <4>1, MainOnly
    <3>2. 1 \in Nat \ {0} /\ Reach(Main, 1, None)
      BY <2>3, <3>1 DEF Exit, Reach
    <3>3. cancelled \subseteq cancelled' /\ cancelled' \subseteq created
      BY <3>1, <3>2, ReachFlags
    <3> QED BY <2>3, <3>3 DEF Exit, Seen, Flags
  <2>4. CASE Raise(o)
    <3>1. o = Main /\ held # <<>>
      BY <2>4, MainOnly DEF Raise
    <3>2. cancelled \subseteq created /\ Range(members[Inner(Main)]) \subseteq created
      BY <3>1, InnerFacts DEF BaseInv, IInv, PlaceInv, Typed, SInv, MemberInv
    <3> QED BY <2>4, <3>1, <3>2 DEF Raise, Seen, Flags
  <2>5. CASE JoinRuns(o)
    BY <2>5, MainOnly DEF JoinRuns, Joins, Runs, Seen
  <2>6. CASE JoinNext(o)
    <3>1. o = Main /\ held # <<>>
      BY <2>6, MainOnly DEF JoinNext, Joins, SInv, OwnInv
    <3>2. pos[Main] + 1 \in Nat \ {0}
      BY DEF SInv, ScopeTyped, Owner
    <3>3. cancelled \subseteq cancelled' /\ cancelled' \subseteq created
      BY <2>6, <3>1, <3>2, ReachFlags DEF JoinNext
    <3> QED BY <2>6, <3>3 DEF JoinNext, Seen, Flags
  <2> QED BY <1>1, <2>1, <2>2, <2>3, <2>4, <2>5, <2>6 DEF ScopeStep
<1>2. CASE TaskRuns
  BY <1>1, <1>2 DEF TaskRuns, TaskOther, Owner, Seen, Next, TaskStep
<1>3. CASE MainRuns
  BY <1>1, <1>3 DEF MainRuns, MainOther, Owner, Seen, Next, MainStep
<1> QED BY <1>2, <1>3 DEF ScopesNext, Seen, Next
-----------------------------------------------------------------------------
(* The scopes.                                                               *)

\* What tya_scope_exit keeps stays the first raise while those it has passed do not
\* change.
LEMMA FirstStays ==
  ASSUME NEW f, NEW old, NEW new, NEW n \in Nat, FirstRaise(f, old, n),
         \A i \in 1..n : new[i] = old[i] /\ (old[i] \in raised' <=> old[i] \in raised)
  PROVE  \/ f = None /\ \A i \in 1..n : new[i] \notin raised'
         \/ \E i \in 1..n : /\ f = new[i] /\ f \in raised'
                            /\ \A j \in 1..(i - 1) : new[j] \notin raised'
<1>1. \A i \in 1..n : 1..(i - 1) \subseteq 1..n
  OBVIOUS
<1> QED BY <1>1 DEF FirstRaise

\* A step that changes no scope.
LEMMA StillSafe ==
  ASSUME SInv, Settles, UNCHANGED scopeVars
  PROVE  SInv'
<1>1. /\ UNCHANGED <<curScope, outer, own, stage, pos, first, members, inside, escaped>>
      /\ held' = held /\ Inner(Main)' = Inner(Main) /\ Count' = Count
  BY DEF scopeVars, chainVars, joinVars, Inner, Count
<1>2. ScopeTyped' /\ OwnInv' /\ (ChainInv => ChainInv')
  BY <1>1 DEF SInv, ScopeTyped, OwnInv, ChainInv
<1>3. MemberInv'
  BY <1>1 DEF SInv, MemberInv, Settles
<1>4. JoinInv'
  <2> SUFFICES ASSUME stage[Main] # "body" PROVE JoinInv'
    BY <1>1 DEF JoinInv
  <2>1. \A i \in 1..(pos[Main] - 1) :
           /\ members[Inner(Main)][i] \in done
           /\ members[Inner(Main)][i] \in raised' <=> members[Inner(Main)][i] \in raised
    BY DEF SInv, JoinInv, Settles
  <2>2. pos[Main] - 1 \in Nat
    <3>1. held # <<>>
      BY DEF SInv, OwnInv
    <3> QED BY <3>1, InnerFacts DEF SInv, JoinInv, Count
  <2>3. stage[Main] = "exit" => FirstRaise(first[Main], members[Inner(Main)], pos[Main] - 1)'
    <3> SUFFICES ASSUME stage[Main] = "exit"
                 PROVE  FirstRaise(first[Main], members[Inner(Main)], pos[Main] - 1)'
      OBVIOUS
    <3>1. FirstRaise(first[Main], members[Inner(Main)], pos[Main] - 1)
      BY DEF SInv, JoinInv
    <3> QED BY <3>1, <2>1, <2>2, <1>1, FirstStays DEF FirstRaise
  <2> QED BY <1>1, <2>1, <2>3 DEF SInv, JoinInv, Settles
<1>5. (InsideInv => InsideInv') /\ (RaiseInv => RaiseInv')
  BY <1>1 DEF InsideInv, RaiseInv, Settles
<1> QED BY <1>1, <1>2, <1>3, <1>4, <1>5 DEF SInv

\* tya_task_new registers the new task with the innermost scope, which is the main
\* program's if it is inside one.
LEMMA SpawnSafe ==
  ASSUME BaseInv, SInv, Settles, NEW o \in Owner, SpawnInto(o)
  PROVE  SInv'
<1>1. PICK t \in Task :
        /\ created' = created \cup {t}
        /\ members' = [s \in Scope |-> IF s = curScope THEN Append(members[s], t) ELSE members[s]]
        /\ inside' = [s \in Scope |-> IF s \in Range(own[o]) THEN inside[s] \cup {t} ELSE inside[s]]
  BY DEF SpawnInto, SpawnTask
<1>2. /\ UNCHANGED <<curScope, outer, own, stage, pos, first, escaped>>
      /\ stage[o] = "body"
      /\ Inner(Main)' = Inner(Main)
  BY DEF SpawnInto, chainVars, joinVars, Inner
<1>3. /\ own[Main] \in Seq(Scope) /\ DOMAIN held = 1..Len(held)
      /\ \A i \in DOMAIN held : held[i] \in Scope /\ held[i] \in Range(held)
      /\ \A s \in Scope : members[s] \in Seq(Task)
  BY DEF SInv, ScopeTyped, Owner, Range
<1>4. ASSUME NEW s \in Scope
      PROVE  /\ members'[s] \in Seq(Task)
             /\ Len(members[s]) \in Nat /\ Len(members'[s]) \in Nat
             /\ Len(members[s]) <= Len(members'[s])
             /\ \A i \in 1..Len(members[s]) : members'[s][i] = members[s][i]
             /\ Range(members[s]) \subseteq Range(members'[s])
             /\ Range(members'[s]) \subseteq Range(members[s]) \cup {t}
             /\ s = curScope => t \in Range(members'[s])
  BY <1>1, <1>3, AppendRange
<1>5. ScopeTyped'
  BY <1>1, <1>2, <1>4 DEF SInv, ScopeTyped
<1>6. OwnInv' /\ (ChainInv => ChainInv')
  BY <1>2 DEF SInv, OwnInv, ChainInv
<1>7. MemberInv'
  BY <1>1, <1>4 DEF SInv, MemberInv
<1>8. JoinInv'
  <2> SUFFICES ASSUME stage[Main] # "body" PROVE JoinInv'
    BY <1>2 DEF JoinInv
  <2>1. held # <<>>
    BY DEF SInv, OwnInv
  <2> DEFINE old == members[Inner(Main)]
             new == members'[Inner(Main)]
  <2>2. /\ Count = Len(old) /\ Count' = Len(new)
        /\ Count \in Nat /\ Count' \in Nat /\ Count <= Count'
        /\ \A i \in 1..Count : new[i] = old[i]
    BY <2>1, <1>2, <1>4, InnerFacts DEF Count
  <2>3. pos[Main] \in 1..(Count + 1)
    BY DEF SInv, JoinInv
  <2>4. \A i \in 1..(pos[Main] - 1) :
           new[i] = old[i] /\ old[i] \in done /\ (old[i] \in raised' <=> old[i] \in raised)
    BY <2>2, <2>3 DEF SInv, JoinInv, Settles
  <2>5. pos[Main] \in 1..(Count' + 1)
    BY <2>2, <2>3
  <2>6. \A i \in 1..(pos[Main] - 1) : new[i] \in done'
    BY <2>4 DEF Settles
  <2>7. ASSUME stage[Main] = "exit"
        PROVE  \/ first[Main] = None /\ \A i \in 1..(pos[Main] - 1) : new[i] \notin raised'
               \/ \E i \in 1..(pos[Main] - 1) :
                    /\ first[Main] = new[i] /\ first[Main] \in raised'
                    /\ \A j \in 1..(i - 1) : new[j] \notin raised'
    <3>1. FirstRaise(first[Main], old, pos[Main] - 1)
      BY <2>1, <2>7 DEF SInv, JoinInv
    <3>2. pos[Main] - 1 \in Nat
      BY <2>2, <2>3
    <3> HIDE DEF old, new
    <3> QED BY <3>1, <3>2, <2>4, FirstStays
  <2> HIDE DEF old, new
  <2>8. new = (members[Inner(Main)])'
    BY <1>2 DEF new
  <2> QED BY <2>5, <2>6, <2>7, <2>8, <1>2 DEF JoinInv, FirstRaise
<1>9. o # Main => \A s \in Scope : inside'[s] = inside[s]
  BY <1>1 DEF SInv, OwnInv, Owner, Range
<1>10. ~escaped => InsideInv'
  <2> SUFFICES ASSUME ~escaped, NEW i \in DOMAIN held, NEW x \in inside'[held[i]], x \notin done'
               PROVE  \E j \in i..Len(held) : x \in Range(members'[held[j]])
    BY <1>2 DEF InsideInv
  <2>1. CASE x \in inside[held[i]]
    <3>1. PICK j \in i..Len(held) : x \in Range(members[held[j]])
      <4>1. InsideInv
        BY DEF SInv
      <4> QED BY <4>1, <2>1, <1>3 DEF InsideInv, Settles
    <3>2. j \in DOMAIN held /\ held[j] \in Scope
      BY <3>1, <1>3
    <3>3. x \in Range(members'[held[j]])
      BY <3>1, <3>2, <1>4
    <3> QED BY <3>1, <3>3
  <2>2. CASE x \notin inside[held[i]]
    <3>1. o = Main /\ x = t
      BY <2>2, <1>1, <1>3, <1>9
    <3>2. Len(held) \in i..Len(held) /\ held[Len(held)] = curScope /\ curScope \in Scope
      BY <1>3 DEF SInv, ChainInv
    <3> QED BY <3>1, <3>2, <1>4
  <2> QED BY <2>1, <2>2
<1>11. ~escaped => RaiseInv'
  <2> SUFFICES ASSUME ~escaped, stage[Main] = "raise" PROVE RaiseInv'
    BY <1>2 DEF RaiseInv
  <2>1. o # Main /\ held # <<>>
    BY <1>2 DEF SInv, OwnInv
  <2> QED BY <2>1, <1>2, <1>9, InnerFacts DEF SInv, RaiseInv, Settles
<1> QED BY <1>2, <1>5, <1>6, <1>7, <1>8, <1>10, <1>11 DEF SInv

\* tya_scope_enter puts a scope that nobody is in at the head of the chain.
LEMMA EnterSafe ==
  ASSUME MainScopes, SInv, Settles, NEW o \in Owner, Enter(o)
  PROVE  SInv'
<1>1. o = Main /\ stage[Main] = "body"
  BY MainOnly DEF Enter
<1>2. PICK s \in Scope \ Live :
        /\ members' = [members EXCEPT ![s] = <<>>]
        /\ outer' = [outer EXCEPT ![s] = curScope]
        /\ curScope' = s
        /\ own' = [own EXCEPT ![Main] = Append(held, s)]
        /\ inside' = [inside EXCEPT ![s] = {}]
  BY <1>1 DEF Enter
<1>3. UNCHANGED <<vars, stage, pos, first, escaped>>
  BY DEF Enter, joinVars
<1>4. /\ held \in Seq(Scope) /\ IsInjective(held) /\ Len(held) \in Nat
      /\ DOMAIN held = 1..Len(held)
      /\ \A i \in DOMAIN held : held[i] \in Scope /\ held[i] \in Range(held)
      /\ s \notin Range(held)
      /\ Main \in Owner /\ Main \notin Task /\ own \in [Owner -> Seq(Scope)]
  BY SchedulerAssumption DEF SInv, ScopeTyped, OwnInv, Owner, Range, Live
<1>5. /\ held' = Append(held, s) /\ held' \in Seq(Scope) /\ IsInjective(held')
      /\ Len(held') = Len(held) + 1 /\ DOMAIN held' = 1..(Len(held) + 1)
      /\ \A i \in 1..Len(held) : held'[i] = held[i] /\ held[i] # s
      /\ held'[Len(held) + 1] = s
  <2> DEFINE n == Append(held, s)
  <2>1. /\ n \in Seq(Scope) /\ IsInjective(n) /\ Len(n) = Len(held) + 1
        /\ \A i \in 1..Len(held) : n[i] = held[i]
        /\ n[Len(held) + 1] = s
    BY <1>2, <1>4, AppendFacts, AppendRange
  <2>2. own' = [own EXCEPT ![Main] = n]
    BY <1>2
  <2>3. \A i \in 1..Len(held) : held[i] # s
    BY <1>4
  <2> HIDE DEF n
  <2>4. held' = n
    BY <2>2, <1>4
  <2> QED BY <2>1, <2>3, <2>4, <1>4
<1>6. /\ outer \in [Scope -> Scope \cup {None}] /\ members \in [Scope -> Seq(Task)]
      /\ inside \in [Scope -> SUBSET Task] /\ s \in Scope
  BY DEF SInv, ScopeTyped
<1>7. /\ outer'[s] = curScope /\ members'[s] = <<>> /\ inside'[s] = {}
      /\ \A r \in Scope \ {s} :
           outer'[r] = outer[r] /\ members'[r] = members[r] /\ inside'[r] = inside[r]
  BY <1>2, <1>6
<1>8. ScopeTyped'
  BY <1>2, <1>3, <1>4, <1>5, <1>6 DEF SInv, ScopeTyped
<1>9. OwnInv' /\ JoinInv' /\ RaiseInv'
  BY <1>1, <1>2, <1>3, <1>4, <1>5 DEF SInv, OwnInv, JoinInv, RaiseInv
<1>10. MemberInv'
  BY <1>7, <1>3 DEF SInv, MemberInv, vars, fateVars, Range
<1>11. ~escaped => ChainInv'
  <2> SUFFICES ASSUME ~escaped PROVE ChainInv'
    OBVIOUS
  <2>1. ChainInv
    BY DEF SInv
  <2>2. curScope' = IF held' = <<>> THEN None ELSE held'[Len(held')]
    BY <1>2, <1>4, <1>5
  <2>3. ASSUME NEW i \in 1..Len(held) PROVE outer'[held'[i]] = IF i = 1 THEN None ELSE held'[i - 1]
    <3>1. held'[i] = held[i] /\ outer'[held[i]] = outer[held[i]]
      BY <1>4, <1>5, <1>7
    <3>2. outer[held[i]] = IF i = 1 THEN None ELSE held[i - 1]
      BY <2>1, <1>4 DEF ChainInv
    <3>3. i # 1 => i - 1 \in 1..Len(held)
      BY <1>4
    <3> QED BY <3>1, <3>2, <3>3, <1>5
  <2>4. outer'[held'[Len(held) + 1]] = IF Len(held) + 1 = 1 THEN None ELSE held'[Len(held)]
    <3>1. outer'[held'[Len(held) + 1]] = curScope
      BY <1>5, <1>7
    <3>2. CASE held = <<>>
      BY <3>1, <3>2, <2>1, <1>4 DEF ChainInv
    <3>3. CASE held # <<>>
      <4>1. Len(held) \in 1..Len(held) /\ Len(held) + 1 # 1
        BY <3>3, <1>4
      <4>2. curScope = held[Len(held)]
        BY <3>3, <2>1 DEF ChainInv
      <4> QED BY <3>1, <4>1, <4>2, <1>5
    <3> QED BY <3>2, <3>3
  <2>5. \A i \in 1..(Len(held) + 1) : outer'[held'[i]] = IF i = 1 THEN None ELSE held'[i - 1]
    <3> TAKE i \in 1..(Len(held) + 1)
    <3>1. i \in 1..Len(held) \/ (i = Len(held) + 1 /\ i - 1 = Len(held))
      BY <1>4
    <3> QED BY <3>1, <2>3, <2>4
  <2> QED BY <2>2, <2>5, <1>5 DEF ChainInv
<1>12. ~escaped => InsideInv'
  <2> SUFFICES ASSUME ~escaped, NEW i \in DOMAIN held', NEW t \in inside'[held'[i]], t \notin done'
               PROVE  \E j \in i..Len(held') : t \in Range(members'[held'[j]])
    BY DEF InsideInv
  <2>1. i \in 1..Len(held) /\ t \in inside[held[i]] /\ t \notin done
    BY <1>3, <1>4, <1>5, <1>7 DEF vars, fateVars
  <2>2. InsideInv
    BY DEF SInv
  <2>3. PICK j \in i..Len(held) : t \in Range(members[held[j]])
    BY <2>1, <2>2, <1>4 DEF InsideInv
  <2>4. j \in 1..Len(held) /\ j \in i..Len(held')
    BY <2>1, <2>3, <1>4, <1>5
  <2>5. members'[held'[j]] = members[held[j]]
    BY <2>4, <1>4, <1>5, <1>7
  <2> QED BY <2>3, <2>4, <2>5
<1> QED BY <1>3, <1>8, <1>9, <1>10, <1>11, <1>12 DEF SInv

\* Taking the innermost scope of the main program off its stack.
LEMMA LeaveFacts ==
  ASSUME SInv, held # <<>>, own' = [own EXCEPT ![Main] = SubSeq(held, 1, Len(held) - 1)]
  PROVE  /\ held' \in Seq(Scope) /\ IsInjective(held')
         /\ Len(held) \in Nat \ {0} /\ Len(held') = Len(held) - 1
         /\ DOMAIN held' = 1..(Len(held) - 1) /\ DOMAIN held = 1..Len(held)
         /\ \A i \in 1..(Len(held) - 1) :
              held'[i] = held[i] /\ held[i] \in Scope /\ held[i] # Inner(Main)
         /\ own' \in [Owner -> Seq(Scope)]
         /\ \A t \in Task : own'[t] = own[t]
<1>1. /\ held \in Seq(Scope) /\ IsInjective(held)
      /\ Main \in Owner /\ Main \notin Task /\ own \in [Owner -> Seq(Scope)]
  BY SchedulerAssumption DEF SInv, ScopeTyped, OwnInv, Owner
<1>2. Len(held) \in Nat \ {0} /\ DOMAIN held = 1..Len(held) /\ \A i \in 1..Len(held) : held[i] \in Scope
  BY <1>1
<1> DEFINE f == SubSeq(held, 1, Len(held) - 1)
<1>3. /\ f \in Seq(Scope) /\ IsInjective(f) /\ Len(f) = Len(held) - 1
      /\ \A i \in 1..(Len(held) - 1) : f[i] = held[i] /\ held[i] # held[Len(held)]
  BY <1>1, FrontOnce
<1>4. own' = [own EXCEPT ![Main] = f]
  OBVIOUS
<1> HIDE DEF f
<1>5. held' = f
  BY <1>1, <1>4
<1>6. DOMAIN f = 1..(Len(held) - 1)
  BY <1>2, <1>3
<1>7. own' \in [Owner -> Seq(Scope)] /\ \A t \in Task : own'[t] = own[t]
  BY <1>1, <1>3, <1>4 DEF Owner
<1>8. Inner(Main) = held[Len(held)]
  BY DEF Inner
<1>9. \A i \in 1..(Len(held) - 1) :
         f[i] = held[i] /\ held[i] \in Scope /\ held[i] # Inner(Main)
  BY <1>2, <1>3, <1>8
<1> QED BY <1>2, <1>3, <1>5, <1>6, <1>7, <1>9

\* A return out of a scope.
LEMMA ReturnSafe ==
  ASSUME SInv, Settles, NEW o \in Owner, ReturnOut(o)
  PROVE  SInv'
<1>1. o = Main /\ held # <<>> /\ stage[Main] = "body"
  BY MainOnly DEF ReturnOut
<1>2. /\ own' = [own EXCEPT ![Main] = SubSeq(held, 1, Len(held) - 1)]
      /\ escaped' = TRUE
      /\ UNCHANGED <<vars, curScope, outer, stage, pos, first, members, inside>>
  BY <1>1 DEF ReturnOut, joinVars
<1>3. /\ IsInjective(held') /\ own' \in [Owner -> Seq(Scope)]
      /\ \A t \in Task : own'[t] = own[t]
  BY <1>1, <1>2, LeaveFacts
<1> QED BY <1>1, <1>2, <1>3 DEF SInv, ScopeTyped, OwnInv, MemberInv, JoinInv, vars, fateVars

\* The body ends: tya_scope_exit begins with the first member, and has seen no raise.
LEMMA ExitSafe ==
  ASSUME SInv, Settles, NEW o \in Owner, Exit(o)
  PROVE  SInv'
<1>1. o = Main /\ held # <<>>
  BY MainOnly DEF Exit
<1>2. /\ stage[Main] = "body"
      /\ stage' = [stage EXCEPT ![Main] = "exit"]
      /\ pos' = [pos EXCEPT ![Main] = 1]
      /\ first' = [first EXCEPT ![Main] = None]
      /\ UNCHANGED <<done, raised, created, curScope, outer, own, members, inside, escaped>>
  BY <1>1 DEF Exit, Reach, chainVars
<1>3. /\ stage \in [Owner -> {"body", "exit", "raise"}] /\ pos \in [Owner -> Nat]
      /\ first \in [Owner -> Task \cup {None}] /\ Main \in Owner /\ Main \notin Task
  BY SchedulerAssumption DEF SInv, ScopeTyped, Owner
<1>4. stage'[Main] = "exit" /\ pos'[Main] = 1 /\ first'[Main] = None
  BY <1>2, <1>3
<1>5. ScopeTyped' /\ OwnInv' /\ MemberInv'
  BY <1>1, <1>2, <1>3 DEF SInv, ScopeTyped, OwnInv, MemberInv
<1>6. (ChainInv => ChainInv') /\ (InsideInv => InsideInv')
  BY <1>2 DEF ChainInv, InsideInv
<1>7. Count' = Count /\ Count \in Nat
  BY <1>1, <1>2, InnerFacts DEF Count, Inner
<1>8. JoinInv'
  <2>1. 1..(1 - 1) = {}
    OBVIOUS
  <2> QED BY <2>1, <1>4, <1>7 DEF JoinInv, FirstRaise
<1>9. RaiseInv'
  BY <1>4 DEF RaiseInv
<1> QED BY <1>2, <1>5, <1>6, <1>8, <1>9 DEF SInv

\* The body raises: tya_scope_raise cancels every member before it waits for the first.
LEMMA RaiseSafe ==
  ASSUME SInv, Settles, NEW o \in Owner, Raise(o)
  PROVE  SInv'
<1>1. o = Main /\ held # <<>>
  BY MainOnly DEF Raise
<1>2. /\ stage[Main] = "body"
      /\ stage' = [stage EXCEPT ![Main] = "raise"]
      /\ pos' = [pos EXCEPT ![Main] = 1]
      /\ cancelled' = cancelled \cup Range(members[Inner(Main)])
      /\ UNCHANGED <<done, raised, created, curScope, outer, own, members, inside, escaped, first>>
  BY <1>1 DEF Raise, chainVars
<1>3. /\ stage \in [Owner -> {"body", "exit", "raise"}] /\ pos \in [Owner -> Nat]
      /\ Main \in Owner /\ Main \notin Task
  BY SchedulerAssumption DEF SInv, ScopeTyped, Owner
<1>4. stage'[Main] = "raise" /\ pos'[Main] = 1
  BY <1>2, <1>3
<1>5. ScopeTyped' /\ OwnInv' /\ MemberInv'
  BY <1>1, <1>2, <1>3 DEF SInv, ScopeTyped, OwnInv, MemberInv
<1>6. (ChainInv => ChainInv') /\ (InsideInv => InsideInv')
  BY <1>2 DEF ChainInv, InsideInv
<1>7. Count' = Count /\ Count \in Nat /\ Inner(Main)' = Inner(Main)
  BY <1>1, <1>2, InnerFacts DEF Count, Inner
<1>8. JoinInv'
  BY <1>4, <1>7 DEF JoinInv
<1>9. ~escaped => RaiseInv'
  <2> SUFFICES ASSUME ~escaped, NEW t \in inside[Inner(Main)], t \notin done PROVE t \in cancelled'
    BY <1>2, <1>7 DEF RaiseInv
  <2>1. InsideInv
    BY DEF SInv
  <2>2. Len(held) \in Nat \ {0} /\ Len(held) \in DOMAIN held /\ Inner(Main) = held[Len(held)]
    BY <1>1, InnerFacts
  <2>3. PICK j \in Len(held)..Len(held) : t \in Range(members[held[j]])
    BY <2>1, <2>2 DEF InsideInv
  <2>4. t \in Range(members[Inner(Main)])
    BY <2>2, <2>3
  <2> QED BY <2>4, <1>2
<1> QED BY <1>2, <1>5, <1>6, <1>8, <1>9 DEF SInv

\* The loop goes on to the next member when this one is done.  It gives up on a member
\* that is not only if no task is ready and none sleeps, and then every task is done.
LEMMA NextSafe ==
  ASSUME Flat, BaseInv, SInv, Settles, NEW o \in Owner, JoinNext(o)
  PROVE  SInv'
<1>1. o = Main /\ held # <<>> /\ stage[Main] # "body"
  BY MainOnly DEF JoinNext, Joins, SInv, OwnInv
<1> DEFINE list == members[Inner(Main)]
           p == pos[Main]
<1>2. /\ cur = Main /\ p <= Len(list)
      /\ list[p] \in done \/ (ready = <<>> /\ sleepers = <<>>)
      /\ pos' = [pos EXCEPT ![Main] = p + 1]
      /\ first' = [first EXCEPT ![Main] = Kept(Main)]
      /\ UNCHANGED <<done, raised, created, curScope, outer, own, members, inside, escaped, stage>>
  BY <1>1 DEF JoinNext, Joins, Joined, Runs, Reach, chainVars
<1>3. /\ pos \in [Owner -> Nat] /\ first \in [Owner -> Task \cup {None}] /\ Main \in Owner
  BY DEF SInv, ScopeTyped, Owner
<1>4. /\ pos'[Main] = p + 1
      /\ first'[Main] = Kept(Main)
  BY <1>2, <1>3
<1>6. (ChainInv => ChainInv') /\ (InsideInv => InsideInv') /\ (RaiseInv => RaiseInv')
  BY <1>2 DEF ChainInv, InsideInv, RaiseInv, Inner, Settles
<1>7. /\ Count' = Count /\ Count = Len(list) /\ Count \in Nat /\ p \in 1..Count
      /\ Inner(Main)' = Inner(Main)
      /\ list[p] \in created
  <2>1. /\ Count = Len(list) /\ Count \in Nat /\ Inner(Main) \in Scope
        /\ \A i \in 1..Count : list[i] \in Range(list)
    BY <1>1, InnerFacts DEF Count
  <2>2. Count' = Count /\ Inner(Main)' = Inner(Main)
    BY <1>2 DEF Count, Inner
  <2>3. p \in 1..Count
    <3>1. p \in 1..(Count + 1) /\ p <= Count
      BY <1>1, <1>2, <2>1 DEF SInv, JoinInv
    <3> QED BY <3>1, <2>1
  <2>4. list[p] \in created
    BY <2>1, <2>3 DEF SInv, MemberInv
  <2> QED BY <2>1, <2>2, <2>3, <2>4
<1>5. ScopeTyped' /\ OwnInv' /\ MemberInv'
  <2>1. Kept(Main) \in Task \cup {None}
    BY <1>3, <1>7 DEF Kept, Joined, BaseInv, IInv, PlaceInv, Typed
  <2> QED BY <1>1, <1>2, <1>3, <2>1 DEF SInv, ScopeTyped, OwnInv, MemberInv
<1>8. list[p] \in done
  BY <1>2, <1>7, Quiescent DEF BaseInv
<1>9. JoinInv'
  <2>1. /\ \A i \in 1..(p - 1) : list[i] \in done
        /\ stage[Main] = "exit" => FirstRaise(first[Main], list, p - 1)
    BY <1>1 DEF SInv, JoinInv
  <2>2. \A i \in 1..p : i \in 1..(p - 1) \/ i = p
    BY <1>7
  <2>3. 1..(p - 1) \subseteq 1..p /\ p \in 1..p /\ (p + 1) - 1 = p /\ p + 1 \in 1..(Count + 1)
    BY <1>7
  <2>4. \A i \in 1..p : list[i] \in done
    BY <2>1, <2>2, <1>8
  <2>5. ASSUME stage[Main] = "exit" PROVE FirstRaise(first'[Main], list, p)
    <3>1. FirstRaise(first[Main], list, p - 1)
      BY <2>1, <2>5
    <3>2. first'[Main] = IF first[Main] = None /\ list[p] \in raised THEN list[p] ELSE first[Main]
      BY <2>5, <1>4 DEF Kept, Joined
    <3>3. list[p] # None
      BY <1>7, SchedulerAssumption DEF BaseInv, IInv, PlaceInv, Typed
    <3>4. \A i \in 1..(p - 1) : list[i] \in raised => list[i] # None
      BY SchedulerAssumption DEF BaseInv, IInv, PlaceInv, Typed
    <3>5. \A j \in 1..(p - 1) : j \in 1..p
      BY <2>3
    <3> HIDE DEF list, p
    <3>6. CASE first[Main] = None
      <4>1. \A i \in 1..(p - 1) : list[i] \notin raised
        BY <3>1, <3>4, <3>6 DEF FirstRaise
      <4> QED BY <4>1, <3>2, <3>3, <3>6, <2>2, <2>3 DEF FirstRaise
    <3>7. CASE first[Main] # None
      BY <3>1, <3>2, <3>5, <3>7 DEF FirstRaise
    <3> QED BY <3>6, <3>7
  <2>6. list' = list
    BY <1>2, <1>7
  <2> HIDE DEF list, p
  <2>7. list' = (members[Inner(Main)])'
    BY DEF list
  <2>8. UNCHANGED <<raised, done, stage>>
    BY <1>2
  <2>9. stage[Main] = "exit" => FirstRaise(first[Main], members[Inner(Main)], pos[Main] - 1)'
    BY <2>3, <2>5, <2>6, <2>7, <2>8, <1>4 DEF FirstRaise
  <2> QED BY <2>3, <2>4, <2>6, <2>7, <2>8, <2>9, <1>4, <1>7 DEF JoinInv
<1> QED BY <1>2, <1>5, <1>6, <1>9 DEF SInv

\* The scope that ends is taken off the chain; all its members are done.
LEMMA EndsSafe ==
  ASSUME SInv, Settles, NEW o \in Owner, ScopeEnds(o)
  PROVE  SInv'
<1>1. o = Main /\ held # <<>> /\ stage[Main] # "body"
  BY MainOnly DEF ScopeEnds, SInv, OwnInv
<1> DEFINE s == Inner(Main)
<1>2. /\ pos[Main] > Len(members[s])
      /\ curScope' = outer[s]
      /\ own' = [own EXCEPT ![Main] = SubSeq(held, 1, Len(held) - 1)]
      /\ stage' = [stage EXCEPT ![Main] = "body"]
      /\ pos' = [pos EXCEPT ![Main] = 0]
      /\ first' = [first EXCEPT ![Main] = None]
      /\ members' = [members EXCEPT ![s] = <<>>]
      /\ UNCHANGED <<done, raised, created, outer, inside, escaped>>
  BY <1>1 DEF ScopeEnds, vars, fateVars
<1>3. /\ held' \in Seq(Scope) /\ IsInjective(held')
      /\ Len(held) \in Nat \ {0} /\ Len(held') = Len(held) - 1
      /\ DOMAIN held' = 1..(Len(held) - 1) /\ DOMAIN held = 1..Len(held)
      /\ \A i \in 1..(Len(held) - 1) : held'[i] = held[i] /\ held[i] \in Scope /\ held[i] # s
      /\ own' \in [Owner -> Seq(Scope)]
      /\ \A t \in Task : own'[t] = own[t]
  BY <1>1, <1>2, LeaveFacts
<1>4. s \in Scope /\ s = held[Len(held)]
  BY <1>1, InnerFacts
<1>5. /\ stage \in [Owner -> {"body", "exit", "raise"}] /\ pos \in [Owner -> Nat]
      /\ first \in [Owner -> Task \cup {None}] /\ Main \in Owner /\ Main \notin Task
      /\ outer \in [Scope -> Scope \cup {None}] /\ members \in [Scope -> Seq(Task)]
  BY SchedulerAssumption DEF SInv, ScopeTyped, Owner
<1>6. /\ stage'[Main] = "body" /\ members'[s] = <<>>
      /\ \A r \in Scope \ {s} : members'[r] = members[r]
  BY <1>2, <1>4, <1>5
<1>7. ScopeTyped'
  BY <1>2, <1>3, <1>4, <1>5 DEF SInv, ScopeTyped
<1>8. OwnInv' /\ JoinInv' /\ RaiseInv'
  BY <1>2, <1>3, <1>5, <1>6 DEF SInv, OwnInv, JoinInv, RaiseInv
<1>9. MemberInv'
  BY <1>2, <1>6 DEF SInv, MemberInv, Range
<1>10. ASSUME NEW t \in Range(members[s]) PROVE t \in done
  <2>1. /\ pos[Main] \in 1..(Count + 1) /\ Count \in Nat /\ Count = Len(members[s])
        /\ DOMAIN members[s] = 1..Count
    BY <1>1, InnerFacts DEF SInv, JoinInv, Count
  <2>2. pos[Main] - 1 = Count
    BY <2>1, <1>2
  <2>3. \A i \in 1..Count : members[s][i] \in done
    BY <2>2, <1>1 DEF SInv, JoinInv
  <2> QED BY <2>1, <2>3 DEF Range
<1> HIDE DEF s
<1>11. ~escaped => ChainInv'
  <2> SUFFICES ASSUME ~escaped PROVE ChainInv'
    OBVIOUS
  <2>1. ChainInv
    BY DEF SInv
  <2>2. Len(held) \in DOMAIN held /\ outer[s] = IF Len(held) = 1 THEN None ELSE held[Len(held) - 1]
    <3>1. Len(held) \in DOMAIN held
      BY <1>3
    <3>2. outer[held[Len(held)]] = IF Len(held) = 1 THEN None ELSE held[Len(held) - 1]
      BY <2>1, <3>1 DEF ChainInv
    <3> QED BY <3>1, <3>2, <1>4
  <2>3. curScope' = IF held' = <<>> THEN None ELSE held'[Len(held')]
    <3>1. CASE Len(held) = 1
      <4>1. held' = <<>>
        BY <3>1, <1>3
      <4> QED BY <4>1, <3>1, <2>2, <1>2
    <3>2. CASE Len(held) # 1
      <4>1. Len(held) - 1 \in 1..(Len(held) - 1) /\ Len(held') # 0
        <5>1. Len(held) \in Nat \ {0} /\ Len(held') = Len(held) - 1
          BY <1>3
        <5>2. ASSUME NEW n \in Nat \ {0}, n # 1 PROVE n - 1 \in 1..(n - 1) /\ n - 1 # 0
          BY <5>2
        <5> QED BY <5>1, <5>2, <3>2
      <4>2. held' # <<>>
        BY <4>1
      <4> QED BY <4>1, <4>2, <3>2, <2>2, <1>2, <1>3
    <3> QED BY <3>1, <3>2
  <2>4. \A i \in 1..(Len(held) - 1) : outer'[held'[i]] = IF i = 1 THEN None ELSE held'[i - 1]
    <3> TAKE i \in 1..(Len(held) - 1)
    <3>1. outer[held[i]] = IF i = 1 THEN None ELSE held[i - 1]
      BY <2>1, <1>3 DEF ChainInv
    <3>2. i # 1 => i - 1 \in 1..(Len(held) - 1)
      BY <1>3
    <3> QED BY <3>1, <3>2, <1>2, <1>3
  <2> QED BY <2>3, <2>4, <1>3 DEF ChainInv
<1>12. ~escaped => InsideInv'
  <2> SUFFICES ASSUME ~escaped, NEW i \in DOMAIN held', NEW t \in inside'[held'[i]], t \notin done'
               PROVE  \E j \in i..Len(held') : t \in Range(members'[held'[j]])
    BY DEF InsideInv
  <2>1. InsideInv
    BY DEF SInv
  <2>2. i \in 1..(Len(held) - 1) /\ i \in DOMAIN held /\ t \in inside[held[i]] /\ t \notin done
    BY <1>2, <1>3
  <2>6. PICK j \in i..Len(held) : t \in Range(members[held[j]])
    BY <2>1, <2>2 DEF InsideInv
  <2>3. j # Len(held)
    BY <2>2, <2>6, <1>4, <1>10
  <2>4. j \in 1..(Len(held) - 1) /\ j \in i..Len(held')
    BY <2>2, <2>3, <2>6, <1>3
  <2>5. members'[held'[j]] = members[held[j]]
    BY <2>4, <1>3, <1>6
  <2> QED BY <2>4, <2>5, <2>6
<1> QED BY <1>2, <1>7, <1>8, <1>9, <1>11, <1>12 DEF SInv

\* Every step of a program whose scopes are the main program's preserves the invariant.
LEMMA ScopesStep ==
  ASSUME MainScopes, Flat, BaseInv, SInv, [ScopesNext]_allVars
  PROVE  BaseInv' /\ SInv'
<1>1. Seen
  BY StepSeen
<1>2. BaseInv' /\ Settles
  BY <1>1, SeenBase, SeenSettles
<1>3. ASSUME NEW o \in Owner, ScopeStep(o) PROVE SInv'
  BY <1>2, <1>3, EnterSafe, SpawnSafe, ExitSafe, RaiseSafe, ReturnSafe, StillSafe, NextSafe,
     EndsSafe DEF ScopeStep, JoinRuns
<1>4. CASE UNCHANGED scopeVars
  BY <1>2, <1>4, StillSafe
<1>5. SInv'
  BY <1>3, <1>4 DEF ScopesNext, TaskRuns, TaskOther, MainRuns, MainOther, Owner, allVars
<1> QED BY <1>2, <1>5

\* The program starts inside no scope.
LEMMA ScopesStart == ScopesInit => BaseInv /\ SInv
<1> SUFFICES ASSUME ScopesInit PROVE BaseInv /\ SInv
  OBVIOUS
<1>1. BaseInv
  BY InitPlace, AwaitInit, SchedulerAssumption
  DEF ScopesInit, Init, BaseInv, IInv, ControlInv, TargetsCreated, On, Owner
<1>2. /\ curScope = None /\ escaped = FALSE
      /\ \A s \in Scope : members[s] = <<>>
      /\ \A o \in Owner : own[o] = <<>> /\ stage[o] = "body"
      /\ Main \in Owner /\ Task \subseteq Owner
  BY DEF ScopesInit, Owner
<1>3. ScopeTyped
  <2>1. <<>> \in Seq(Task) /\ <<>> \in Seq(Scope)
    OBVIOUS
  <2>2. /\ members \in [Scope -> Seq(Task)] /\ own \in [Owner -> Seq(Scope)]
        /\ inside \in [Scope -> SUBSET Task]
    BY <2>1 DEF ScopesInit
  <2>3. /\ outer \in [Scope -> Scope \cup {None}]
        /\ stage \in [Owner -> {"body", "exit", "raise"}]
        /\ pos \in [Owner -> Nat] /\ first \in [Owner -> Task \cup {None}]
    BY DEF ScopesInit
  <2> QED BY <1>2, <2>2, <2>3 DEF ScopeTyped
<1>4. OwnInv /\ MemberInv /\ JoinInv /\ RaiseInv
  BY <1>2 DEF OwnInv, MemberInv, JoinInv, RaiseInv, Range, IsInjective
<1>5. ChainInv /\ InsideInv
  BY <1>2 DEF ChainInv, InsideInv
<1> QED BY <1>1, <1>3, <1>4, <1>5 DEF SInv

\* The inductive invariant holds of every reachable state.
THEOREM ScopesInvariance ==
  ASSUME MainScopes, Flat
  PROVE  ScopesSpec => [](BaseInv /\ SInv)
<1>1. BaseInv /\ SInv /\ [ScopesNext]_allVars => (BaseInv /\ SInv)'
  BY ScopesStep
<1> QED BY <1>1, ScopesStart, PTL DEF ScopesSpec
-----------------------------------------------------------------------------
(* The properties.                                                           *)

\* The chain never leads to a scope whose block has been left: tya_scope_enter and
\* tya_scope_exit keep it equal to the stack of the blocks the program is in.
THEOREM ChainLiveCorrect ==
  ASSUME MainScopes, Flat
  PROVE  ScopesSpec => []ChainLive
<1>1. SInv => ChainLive
  <2> SUFFICES ASSUME SInv, ~escaped PROVE curScope \in Live \cup {None}
                                           /\ \A s \in Live : outer[s] \in Live \cup {None}
    BY DEF ChainLive
  <2>1. held \in Seq(Scope) /\ DOMAIN held = 1..Len(held) /\ Len(held) \in Nat
    BY DEF SInv, ScopeTyped, Owner
  <2>2. Live = Range(held)
    BY DEF SInv, OwnInv, Live, Owner, Range
  <2>3. \A i \in DOMAIN held : held[i] \in Range(held)
    BY DEF Range
  <2>4. curScope \in Range(held) \cup {None}
    <3>1. held # <<>> => Len(held) \in DOMAIN held
      BY <2>1
    <3> QED BY <3>1, <2>3 DEF SInv, ChainInv
  <2>5. ASSUME NEW s \in Range(held) PROVE outer[s] \in Range(held) \cup {None}
    <3>1. PICK i \in DOMAIN held : s = held[i]
      BY DEF Range
    <3>2. i # 1 => i - 1 \in DOMAIN held
      BY <2>1
    <3>3. outer[s] = IF i = 1 THEN None ELSE held[i - 1]
      BY <3>1 DEF SInv, ChainInv
    <3> QED BY <3>2, <3>3, <2>3
  <2> QED BY <2>2, <2>4, <2>5
<1> QED BY <1>1, ScopesInvariance, PTL

\* All that the main program spawned inside a scope whose body raised is done or asked
\* to stop (tya_scope_raise).
THEOREM BodyRaiseCancelsCorrect ==
  ASSUME MainScopes, Flat
  PROVE  ScopesSpec => []BodyRaiseCancels
<1>1. SInv => BodyRaiseCancels
  BY MainOnly DEF SInv, RaiseInv, BodyRaiseCancels
<1> QED BY <1>1, ScopesInvariance, PTL

\* A scope ends only when all that its owner spawned inside it is done
\* (tya_scope_exit, tya_scope_raise).
THEOREM ScopeJoinsCorrect ==
  ASSUME MainScopes, Flat
  PROVE  ScopesSpec => ScopeJoins
<1>1. BaseInv /\ SInv /\ [ScopesNext]_allVars
        => [\A o \in Owner : ~escaped' /\ own[o] # <<>> /\ Len(own'[o]) < Len(own[o])
                            => inside[Inner(o)] \subseteq done]_allVars
  <2> SUFFICES ASSUME SInv, ScopesNext, NEW o \in Owner,
                      ~escaped', own[o] # <<>>, Len(own'[o]) < Len(own[o])
               PROVE  inside[Inner(o)] \subseteq done
    OBVIOUS
  <2>1. o = Main /\ held # <<>>
    BY MainOnly
  <2>2. ScopeEnds(Main)
    <3>1. own' # own
      OBVIOUS
    <3>2. PICK p \in Owner : Enter(p) \/ ReturnOut(p) \/ ScopeEnds(p)
      BY <3>1 DEF ScopesNext, TaskRuns, TaskOther, MainRuns, MainOther, ScopeStep, SpawnInto, Exit,
         Raise, JoinRuns, JoinNext, scopeVars, chainVars, Owner
    <3>3. ~Enter(p)
      <4> SUFFICES ASSUME Enter(p) PROVE FALSE
        OBVIOUS
      <4>1. PICK s \in Scope : own' = [own EXCEPT ![p] = Append(own[p], s)]
        BY DEF Enter
      <4>2. own \in [Owner -> Seq(Scope)]
        BY DEF SInv, ScopeTyped
      <4>3. own[p] \in Seq(Scope) /\ Len(Append(own[p], s)) = Len(own[p]) + 1
        BY <4>2
      <4>4. own'[o] = own[o] \/ (o = p /\ Len(own'[o]) = Len(own[o]) + 1)
        BY <4>1, <4>2, <4>3
      <4>5. Len(own[o]) \in Nat
        BY <4>2
      <4> QED BY <4>4, <4>5
    <3>4. ~ReturnOut(p)
      BY DEF ReturnOut
    <3> QED BY <3>2, <3>3, <3>4, MainOnly DEF ScopeEnds
  <2>3. /\ stage[Main] # "body" /\ pos[Main] > Count /\ ~escaped
    BY <2>2 DEF ScopeEnds, Count
  <2>4. /\ InsideInv
        /\ pos[Main] \in 1..(Count + 1)
        /\ \A i \in 1..(pos[Main] - 1) : members[Inner(Main)][i] \in done
    BY <2>3 DEF SInv, JoinInv
  <2>5. ASSUME NEW t \in Range(members[Inner(Main)]) PROVE t \in done
    <3>1. Count \in Nat /\ DOMAIN members[Inner(Main)] = 1..Count
      BY <2>1, InnerFacts
    <3>2. pos[Main] - 1 = Count
      BY <3>1, <2>3, <2>4
    <3> QED BY <3>1, <3>2, <2>4 DEF Range
  <2>6. /\ Len(held) \in Nat \ {0} /\ Len(held) \in DOMAIN held
        /\ Inner(Main) = held[Len(held)]
    BY <2>1, InnerFacts
  <2>7. ASSUME NEW t \in inside[Inner(Main)], t \notin done PROVE FALSE
    <3>1. PICK j \in Len(held)..Len(held) : t \in Range(members[held[j]])
      BY <2>4, <2>6, <2>7 DEF InsideInv
    <3>2. t \in Range(members[Inner(Main)])
      BY <2>6, <3>1
    <3> QED BY <3>2, <2>5, <2>7
  <2> QED BY <2>1, <2>7
<1> QED BY <1>1, ScopesInvariance, PTL DEF ScopesSpec, ScopeJoins

\* tya_scope_exit raises when, and only when, a member of the scope has raised, and
\* it raises what the first of them in spawn order has raised.
THEOREM ScopeReraisesCorrect ==
  ASSUME MainScopes, Flat
  PROVE  ScopesSpec => ScopeReraises
<1>1. BaseInv /\ SInv /\ [ScopesNext]_allVars
        => [\A o \in Owner :
              stage[o] = "exit" /\ stage'[o] = "body"
              => FirstRaise(first[o], members[Inner(o)], Len(members[Inner(o)]))]_allVars
  <2> SUFFICES ASSUME SInv, ScopesNext, NEW o \in Owner, stage[o] = "exit", stage'[o] = "body"
               PROVE  FirstRaise(first[o], members[Inner(o)], Len(members[Inner(o)]))
    OBVIOUS
  <2>1. o = Main /\ held # <<>>
    BY MainOnly DEF SInv, OwnInv
  <2>2. ScopeEnds(Main)
    <3>1. stage' # stage
      OBVIOUS
    <3>2. PICK p \in Owner : Exit(p) \/ Raise(p) \/ ScopeEnds(p)
      BY <3>1 DEF ScopesNext, TaskRuns, TaskOther, MainRuns, MainOther, ScopeStep, Enter, SpawnInto,
         ReturnOut, JoinRuns, JoinNext, scopeVars, joinVars, Owner
    <3>3. ~Exit(p) /\ ~Raise(p)
      <4>1. stage \in [Owner -> {"body", "exit", "raise"}]
        BY DEF SInv, ScopeTyped
      <4> QED BY <4>1 DEF Exit, Raise
    <3> QED BY <3>2, <3>3, MainOnly DEF ScopeEnds
  <2>3. /\ pos[Main] \in 1..(Count + 1)
        /\ FirstRaise(first[Main], members[Inner(Main)], pos[Main] - 1)
    BY <2>1 DEF SInv, JoinInv
  <2>4. Count \in Nat /\ DOMAIN members[Inner(Main)] = 1..Count
    BY <2>1, InnerFacts
  <2>5. pos[Main] - 1 = Count
    <3>1. pos[Main] > Count
      BY <2>2 DEF ScopeEnds, Count
    <3> QED BY <3>1, <2>3, <2>4
  <2> QED BY <2>1, <2>3, <2>4, <2>5 DEF Count
<1> QED BY <1>1, ScopesInvariance, PTL DEF ScopesSpec, ScopeReraises
=============================================================================
