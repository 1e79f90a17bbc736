-------------------------- MODULE TaskRunnerProofs --------------------------
(***************************************************************************)
(* For any graph of tasks: in a run every task starts once, and after      *)
(* those it depends on (DepsFirst); what the process says of the graph is  *)
(* true (GraphVerdict); and it ends well only when all that was needed has *)
(* run (ExitTellsAll).                                                     *)
(*                                                                         *)
(* A task runs twice only if it waits for itself, or if it is taken to run *)
(* although it has run.  What rules the first out is the walk before the   *)
(* run: the tasks it has left are closed under dependence, and every set   *)
(* of them has one that depends on none of the set.  The same set makes    *)
(* the graph sound once the walk has left the selected task, and a run     *)
(* that ends has started a closed set of tasks with that task in it, which *)
(* is all that can be reached from it.                                     *)
(***************************************************************************)
EXTENDS TaskRunner, ListFacts

Deps(t) == ToSet(dependsOn[t])
Frame == [task : Task, next : Nat \ {0}]

Types ==
  /\ dependsOn \in [Task -> Seq(Task \cup Undefined)]
  /\ stack \in Seq(Frame)
  /\ started \in Seq(Task)
  /\ visited \subseteq Task
  /\ ran \subseteq Task

(* The tasks that validateTaskGraph has left.                              *)
ClosedTasks(S) == \A t \in S : Deps(t) \subseteq S
Founded(S) == \A X \in SUBSET S : X # {} => \E t \in X : Deps(t) \cap X = {}
VisitedSound == ClosedTasks(visited) /\ Founded(visited)

(* What the tasks on the stack have gone through is done, but for the one  *)
(* they wait for.                                                          *)
PastOn(calls, done) ==
  \A i \in 1..Len(calls) : \A j \in 1..(calls[i].next - 1) :
    j \in DOMAIN dependsOn[calls[i].task] =>
      \/ dependsOn[calls[i].task][j] \in done
      \/ i < Len(calls) /\ dependsOn[calls[i].task][j] = calls[i + 1].task
Past(done) == PastOn(stack, done)

Walking ==
  /\ stack # <<>> /\ stack[1].task = Selected
  /\ OnStack \cap visited = {}
  /\ \A i, j \in 1..Len(stack) : stack[i].task = stack[j].task => i = j
  /\ Past(visited)

Runs ==
  /\ stack # <<>>
  /\ OnStack \subseteq visited \ ran
  /\ \A i \in 1..(Len(stack) - 1) : stack[i + 1].task \in Deps(stack[i].task)
  /\ Past(ran)

StageSound ==
  /\ stage = "validate" => Walking
  /\ stage \in {"run", "commands"} => Runs
  /\ stage = "commands" => ~HasNext
  /\ stage \notin {"validate", "exited"} => Selected \in visited

StartedSound ==
  stage # "exited" =>
    ToSet(started) = ran \cup (IF stage = "commands" THEN {Top.task} ELSE {})

TaskInv == Types /\ VisitedSound /\ StageSound /\ StartedSound /\ DepsFirst

-----------------------------------------------------------------------------
\* All but the last element.
LEMMA FrontFacts ==
  ASSUME NEW S, NEW s \in Seq(S), s # <<>>
  PROVE  /\ Front(s) \in Seq(S) /\ Len(Front(s)) = Len(s) - 1
         /\ \A i \in 1..(Len(s) - 1) : Front(s)[i] = s[i]
<1> DEFINE n == Len(s) - 1
<1>1. n \in Int /\ n >= 0 /\ \A i \in 1..n : s[i] \in S
  OBVIOUS
<1> HIDE DEF n
<1>2. SubSeq(s, 1, n) \in Seq(S)
  BY <1>1, SubSeqProperties
<1>3. Len(SubSeq(s, 1, n)) = n
  BY <1>1, SubSeqProperties
<1>4. \A i \in 1..n : SubSeq(s, 1, n)[i] = s[i]
  BY <1>1, SubSeqProperties
<1> QED BY <1>2, <1>3, <1>4 DEF Front, n

\* What the first k elements are.
LEMMA PrefixFacts ==
  ASSUME NEW S, NEW s \in Seq(S), NEW k \in 0..Len(s)
  PROVE  ToSet(SubSeq(s, 1, k)) = {s[j] : j \in 1..k}
<1>1. k \in Int /\ k >= 0 /\ \A i \in 1..k : s[i] \in S
  OBVIOUS
<1>2. SubSeq(s, 1, k) \in Seq(S) /\ Len(SubSeq(s, 1, k)) = k
  BY <1>1, SubSeqProperties
<1>3. \A i \in 1..k : SubSeq(s, 1, k)[i] = s[i]
  BY <1>1, SubSeqProperties
<1>4. DOMAIN SubSeq(s, 1, k) = 1..k
  BY <1>2
<1> QED BY <1>3, <1>4 DEF ToSet

\* A call is entered or left at the top of the stack.
LEMMA StackFacts ==
  ASSUME Types, stack # <<>>
  PROVE  /\ Len(stack) \in Nat \ {0}
         /\ \A i \in 1..Len(stack) : stack[i] \in Frame
         /\ Front(stack) \in Seq(Frame) /\ Len(Front(stack)) = Len(stack) - 1
         /\ \A i \in 1..(Len(stack) - 1) : Front(stack)[i] = stack[i]
         /\ Advanced \in Seq(Frame) /\ Len(Advanced) = Len(stack)
         /\ \A i \in 1..(Len(stack) - 1) : Advanced[i] = stack[i]
         /\ Advanced[Len(stack)] = [task |-> Top.task, next |-> Top.next + 1]
<1>1. stack \in Seq(Frame) /\ Len(stack) \in Nat \ {0}
  BY DEF Types
<1>2. /\ Front(stack) \in Seq(Frame) /\ Len(Front(stack)) = Len(stack) - 1
      /\ \A i \in 1..(Len(stack) - 1) : Front(stack)[i] = stack[i]
  BY <1>1, FrontFacts
<1>3. stack[Len(stack)] \in Frame
  BY <1>1
<1>4. [stack[Len(stack)] EXCEPT !.next = @ + 1]
        = [task |-> Top.task, next |-> Top.next + 1]
  BY <1>3 DEF Frame, Top
<1>5. [task |-> Top.task, next |-> Top.next + 1] \in Frame
  BY <1>3 DEF Frame, Top
<1>6. /\ Advanced \in Seq(Frame) /\ Len(Advanced) = Len(stack)
      /\ \A i \in 1..(Len(stack) - 1) : Advanced[i] = stack[i]
      /\ Advanced[Len(stack)] = [stack[Len(stack)] EXCEPT !.next = @ + 1]
  BY <1>1, <1>4, <1>5 DEF Advanced
<1> QED BY <1>1, <1>2, <1>4, <1>6

\* What a task names is a sequence of names.
LEMMA DepsFacts ==
  ASSUME Types, NEW t \in Task
  PROVE  /\ dependsOn[t] \in Seq(Task \cup Undefined)
         /\ \A j \in 1..Len(dependsOn[t]) : dependsOn[t][j] \in Deps(t)
         /\ \A d \in Deps(t) : \E j \in 1..Len(dependsOn[t]) : d = dependsOn[t][j]
<1>1. dependsOn[t] \in Seq(Task \cup Undefined)
  BY DEF Types
<1> QED BY <1>1 DEF Deps, ToSet

\* A task that has gone through its names has all of them done.
LEMMA AllPast ==
  ASSUME Types, stack # <<>>, ~HasNext, NEW done, Past(done)
  PROVE  Deps(Top.task) \subseteq done
<1>1. /\ Len(stack) \in Nat \ {0} /\ Top \in Frame /\ Top = stack[Len(stack)]
  BY StackFacts DEF Top
<1>2. Top.task \in Task /\ Top.next \in Nat
  BY <1>1 DEF Frame
<1>3. dependsOn[Top.task] \in Seq(Task \cup Undefined)
  BY <1>2, DepsFacts
<1>4. \A j \in 1..Len(dependsOn[Top.task]) : dependsOn[Top.task][j] \in done
  <2>1. \A j \in 1..Len(dependsOn[Top.task]) :
          j \in 1..(Top.next - 1) /\ j \in DOMAIN dependsOn[Top.task]
    BY <1>2, <1>3 DEF HasNext
  <2> QED BY <1>1, <2>1 DEF Past, PastOn
<1> QED BY <1>2, <1>4, DepsFacts

\* The next name of a task is one it depends on.
LEMMA NextFacts ==
  ASSUME Types, HasNext
  PROVE  /\ stack # <<>> /\ Top \in Frame /\ Top.task \in Task
         /\ Top.next \in 1..Len(dependsOn[Top.task])
         /\ Dependency \in Deps(Top.task)
<1>1. stack # <<>>
  BY DEF HasNext
<1>2. Top \in Frame /\ Top.task \in Task /\ Top.next \in Nat \ {0}
  BY <1>1, StackFacts DEF Top, Frame
<1>3. dependsOn[Top.task] \in Seq(Task \cup Undefined)
  BY <1>2, DepsFacts
<1>4. Top.next \in 1..Len(dependsOn[Top.task])
  BY <1>2, <1>3 DEF HasNext
<1> QED BY <1>1, <1>2, <1>4, DepsFacts DEF Dependency

-----------------------------------------------------------------------------
\* Going on to the next name keeps what is past, if this name is done.
LEMMA AdvancePast ==
  ASSUME Types, HasNext, NEW done, PastOn(stack, done), Dependency \in done
  PROVE  PastOn(Advanced, done)
<1> SUFFICES ASSUME NEW i \in 1..Len(Advanced), NEW j \in 1..(Advanced[i].next - 1),
                    j \in DOMAIN dependsOn[Advanced[i].task]
             PROVE  \/ dependsOn[Advanced[i].task][j] \in done
                    \/ /\ i < Len(Advanced)
                       /\ dependsOn[Advanced[i].task][j] = Advanced[i + 1].task
  BY DEF PastOn
<1>1. /\ Len(stack) \in Nat \ {0} /\ Len(Advanced) = Len(stack)
      /\ \A k \in 1..Len(stack) : stack[k] \in Frame /\ Advanced[k].task = stack[k].task
      /\ \A k \in 1..(Len(stack) - 1) : Advanced[k] = stack[k]
      /\ Top = stack[Len(stack)]
      /\ Advanced[Len(stack)].next = Top.next + 1
  BY NextFacts, StackFacts, SMTT(30) DEF Top
<1>2. CASE i < Len(stack)
  BY <1>1, <1>2 DEF PastOn
<1>3. CASE i = Len(stack) /\ j < Top.next
  BY <1>1, <1>3 DEF PastOn, Frame
<1>4. CASE i = Len(stack) /\ j = Top.next
  BY <1>1, <1>4 DEF Dependency
<1> QED BY <1>1, <1>2, <1>3, <1>4 DEF Frame

\* So does going on and entering this name.
LEMMA EnterPast ==
  ASSUME Types, HasNext, Dependency \in Task, NEW done, PastOn(stack, done)
  PROVE  LET entered == Append(Advanced, [task |-> Dependency, next |-> 1])
         IN  /\ entered \in Seq(Frame) /\ Len(entered) = Len(stack) + 1
             /\ \A k \in 1..Len(stack) : entered[k].task = stack[k].task
             /\ entered[Len(stack) + 1].task = Dependency
             /\ PastOn(entered, done)
<1> DEFINE entered == Append(Advanced, [task |-> Dependency, next |-> 1])
<1>1. /\ Len(stack) \in Nat \ {0} /\ Len(Advanced) = Len(stack) /\ Advanced \in Seq(Frame)
      /\ \A k \in 1..Len(stack) : stack[k] \in Frame /\ Advanced[k].task = stack[k].task
      /\ \A k \in 1..(Len(stack) - 1) : Advanced[k] = stack[k]
      /\ Top = stack[Len(stack)]
      /\ Advanced[Len(stack)].next = Top.next + 1
  BY NextFacts, StackFacts DEF Top
<1>2. [task |-> Dependency, next |-> 1] \in Frame
  BY DEF Frame
<1>3. /\ entered \in Seq(Frame) /\ Len(entered) = Len(stack) + 1
      /\ \A k \in 1..Len(stack) : entered[k] = Advanced[k]
      /\ entered[Len(stack) + 1] = [task |-> Dependency, next |-> 1]
  BY <1>1, <1>2
<1> HIDE DEF entered
<1>4. PastOn(entered, done)
  <2> SUFFICES ASSUME NEW i \in 1..Len(entered), NEW j \in 1..(entered[i].next - 1),
                      j \in DOMAIN dependsOn[entered[i].task]
               PROVE  \/ dependsOn[entered[i].task][j] \in done
                      \/ /\ i < Len(entered)
                         /\ dependsOn[entered[i].task][j] = entered[i + 1].task
    BY DEF PastOn
  <2>1. CASE i < Len(stack)
    BY <1>1, <1>3, <2>1 DEF PastOn
  <2>2. CASE i = Len(stack) /\ j < Top.next
    BY <1>1, <1>3, <2>2 DEF PastOn, Frame
  <2>3. CASE i = Len(stack) /\ j = Top.next
    BY <1>1, <1>3, <2>3 DEF Dependency
  <2>4. i # Len(stack) + 1
    BY <1>1, <1>3
  <2> QED BY <1>1, <1>3, <2>1, <2>2, <2>3, <2>4 DEF Frame
<1> QED BY <1>1, <1>3, <1>4 DEF entered

\* A call that is left is done for the one below it.
LEMMA LeavePast ==
  ASSUME Types, stack # <<>>, NEW done, PastOn(stack, done)
  PROVE  PastOn(Front(stack), done \cup {Top.task})
<1>1. /\ Len(stack) \in Nat \ {0} /\ Len(Front(stack)) = Len(stack) - 1
      /\ \A k \in 1..Len(stack) : stack[k] \in Frame
      /\ \A k \in 1..(Len(stack) - 1) : Front(stack)[k] = stack[k]
      /\ Top = stack[Len(stack)]
  BY StackFacts DEF Top
<1> SUFFICES ASSUME NEW i \in 1..(Len(stack) - 1), NEW j \in 1..(stack[i].next - 1),
                    j \in DOMAIN dependsOn[stack[i].task],
                    dependsOn[stack[i].task][j] \notin done
             PROVE  \/ dependsOn[stack[i].task][j] = Top.task
                    \/ /\ i < Len(stack) - 1
                       /\ dependsOn[stack[i].task][j] = stack[i + 1].task
  BY <1>1, SMTT(30) DEF PastOn
<1>2. dependsOn[stack[i].task][j] = stack[i + 1].task
  BY <1>1 DEF PastOn
<1> QED BY <1>1, <1>2

-----------------------------------------------------------------------------
\* A task that waits does not wait for itself: the tasks from it to the top of
\* the stack would each depend on one of them.
LEMMA NoTaskTwice ==
  ASSUME Types, VisitedSound, Runs, NEW i \in 1..(Len(stack) - 1)
  PROVE  stack[i].task # Top.task
<1>1. /\ Len(stack) \in Nat \ {0} /\ Top = stack[Len(stack)]
      /\ \A k \in 1..(Len(stack) - 1) : stack[k + 1].task \in Deps(stack[k].task)
  BY StackFacts DEF Runs, Top
<1> SUFFICES ASSUME stack[i].task = Top.task
             PROVE  FALSE
  OBVIOUS
<1> DEFINE X == {stack[k].task : k \in i..Len(stack)}
<1>2. X \in SUBSET visited /\ X # {}
  BY <1>1 DEF Runs, OnStack
<1>3. PICK t \in X : Deps(t) \cap X = {}
  BY <1>2 DEF VisitedSound, Founded
<1>4. PICK k \in i..Len(stack) : t = stack[k].task
  BY <1>3
<1>5. \E n \in i..(Len(stack) - 1) : t = stack[n].task
  BY <1>1, <1>4
<1>6. PICK n \in i..(Len(stack) - 1) : t = stack[n].task
  BY <1>5
<1>7. stack[n + 1].task \in Deps(t) /\ stack[n + 1].task \in X
  BY <1>1, <1>6
<1> QED BY <1>3, <1>7

\* A task joins those that the walk has left when all it depends on have.
LEMMA FoundedStep ==
  ASSUME NEW S, NEW t, t \notin S, Deps(t) \subseteq S, ClosedTasks(S), Founded(S)
  PROVE  ClosedTasks(S \cup {t}) /\ Founded(S \cup {t})
<1>1. ClosedTasks(S \cup {t})
  BY DEF ClosedTasks
<1>2. ASSUME NEW X \in SUBSET (S \cup {t}), X # {}
      PROVE  \E u \in X : Deps(u) \cap X = {}
  <2>1. CASE X \ {t} = {}
    BY <1>2, <2>1
  <2>2. CASE X \ {t} # {}
    <3>1. PICK u \in X \ {t} : Deps(u) \cap (X \ {t}) = {}
      BY <2>2 DEF Founded
    <3>2. t \notin Deps(u)
      BY <3>1 DEF ClosedTasks
    <3> QED BY <3>1, <3>2
  <2> QED BY <2>1, <2>2
<1> QED BY <1>1, <1>2 DEF Founded

-----------------------------------------------------------------------------
LEMMA InitTaskInv == TaskInit => TaskInv
<1> SUFFICES ASSUME TaskInit PROVE TaskInv
  OBVIOUS
<1>1. Types
  <2>1. dependsOn \in [Task -> Seq(Task \cup Undefined)]
    BY TaskRunnerAssumption DEF TaskInit
  <2>2. [task |-> Selected, next |-> 1] \in Frame
    BY TaskRunnerAssumption DEF Frame
  <2> QED BY <2>1, <2>2 DEF TaskInit, Types
<1>2. VisitedSound
  BY DEF TaskInit, VisitedSound, ClosedTasks, Founded
<1>3. StageSound
  BY DEF TaskInit, StageSound, Walking, OnStack, Past, PastOn
<1>4. StartedSound
  BY DEF TaskInit, StartedSound, ToSet
<1>5. DepsFirst
  BY DEF TaskInit, DepsFirst, IsInjective
<1> QED BY <1>1, <1>2, <1>3, <1>4, <1>5 DEF TaskInv

\* Steps that leave the tasks alone, the process on its way or at its end.
LEMMA Unmoved ==
  ASSUME TaskInv, UNCHANGED <<dependsOn, stack, visited, ran, started>>,
         \/ stage' = "exited"
         \/ UNCHANGED stage
         \/ {stage, stage'} \cap {"validate", "run", "commands", "exited"} = {}
  PROVE  TaskInv'
<1>1. Types' /\ VisitedSound' /\ DepsFirst'
  BY DEF TaskInv, Types, VisitedSound, ClosedTasks, Founded, Deps, DepsFirst
<1>2. StageSound'
  <2>1. /\ Walking' <=> Walking
        /\ Runs' <=> Runs
        /\ HasNext' <=> HasNext
    BY DEF Walking, Runs, Past, PastOn, OnStack, Deps, HasNext, Top
  <2>2. CASE stage' = "exited"
    BY <2>2 DEF StageSound
  <2>3. CASE UNCHANGED stage
    BY <2>1, <2>3 DEF TaskInv, StageSound
  <2>4. CASE {stage, stage'} \cap {"validate", "run", "commands", "exited"} = {}
    BY <2>1, <2>4 DEF TaskInv, StageSound
  <2> QED BY <2>2, <2>3, <2>4
<1>3. StartedSound'
  BY DEF TaskInv, StartedSound, Top
<1> QED BY <1>1, <1>2, <1>3 DEF TaskInv

\* The walk before the run.
LEMMA ValidateStep == TaskInv /\ Validate => TaskInv'
<1> SUFFICES ASSUME TaskInv, Validate PROVE TaskInv'
  OBVIOUS
<1> USE DEF TaskInv
<1>1. CASE VisitUnknown \/ VisitCycle \/ RefusePatterns \/ AcceptPatterns
  BY <1>1, Unmoved DEF VisitUnknown, VisitCycle, RefusePatterns, AcceptPatterns,
                       Exit, inputVars
<1>2. CASE VisitAgain
  <2>1. /\ stage = "validate" /\ stage' = stage /\ HasNext /\ stack' = Advanced
        /\ Dependency \in visited
        /\ UNCHANGED <<dependsOn, visited, ran, started>>
    BY <1>2 DEF VisitAgain, inputVars
  <2>2. Walking
    BY <2>1 DEF StageSound
  <2>3. /\ Len(stack) \in Nat \ {0} /\ Advanced \in Seq(Frame) /\ Len(Advanced) = Len(stack)
        /\ \A k \in 1..Len(stack) : Advanced[k].task = stack[k].task
    BY <2>1, NextFacts, StackFacts DEF Top
  <2>4. PastOn(Advanced, visited)
    BY <2>1, <2>2, AdvancePast DEF Walking, Past
  <2>5. Walking'
    BY <2>1, <2>2, <2>3, <2>4 DEF Walking, OnStack, Past, PastOn
  <2> QED BY <2>1, <2>3, <2>5
          DEF Types, VisitedSound, ClosedTasks, Founded, Deps, DepsFirst, StageSound, StartedSound
<1>3. CASE VisitTask
  <2> DEFINE entered == Append(Advanced, [task |-> Dependency, next |-> 1])
  <2>1. /\ stage = "validate" /\ stage' = stage /\ HasNext /\ stack' = entered
        /\ Dependency \in Task /\ Dependency \notin visited /\ Dependency \notin OnStack
        /\ UNCHANGED <<dependsOn, visited, ran, started>>
    BY <1>3 DEF VisitTask, inputVars
  <2>2. Walking
    BY <2>1 DEF StageSound
  <2>3. /\ entered \in Seq(Frame) /\ Len(entered) = Len(stack) + 1
        /\ \A k \in 1..Len(stack) : entered[k].task = stack[k].task
        /\ entered[Len(stack) + 1].task = Dependency
        /\ PastOn(entered, visited)
    BY <2>1, <2>2, EnterPast DEF Walking, Past
  <2>4. Len(stack) \in Nat \ {0}
    BY <2>2, StackFacts DEF Walking
  <2> HIDE DEF entered
  <2>5. Walking'
    <3>1. stack' # <<>> /\ stack'[1].task = Selected
      BY <2>1, <2>2, <2>3, <2>4 DEF Walking
    <3>2. OnStack' \cap visited' = {}
      BY <2>1, <2>2, <2>3, <2>4 DEF Walking, OnStack
    <3>3. \A i, j \in 1..Len(stack') : stack'[i].task = stack'[j].task => i = j
      BY <2>1, <2>2, <2>3, <2>4 DEF Walking, OnStack
    <3>4. Past(visited)'
      BY <2>1, <2>3 DEF Past, PastOn
    <3> QED BY <3>1, <3>2, <3>3, <3>4 DEF Walking
  <2> QED BY <2>1, <2>3, <2>5
          DEF Types, VisitedSound, ClosedTasks, Founded, Deps, DepsFirst, StageSound, StartedSound
<1>4. CASE VisitEnds
  <2>1. /\ stage = "validate" /\ stack # <<>> /\ ~HasNext /\ stack' = Front(stack)
        /\ visited' = visited \cup {Top.task}
        /\ stage' = IF Len(stack) > 1 THEN "validate" ELSE "patterns"
        /\ UNCHANGED <<dependsOn, ran, started>>
    BY <1>4 DEF VisitEnds, inputVars
  <2>2. Walking
    BY <2>1 DEF StageSound
  <2>3. /\ Len(stack) \in Nat \ {0} /\ Top = stack[Len(stack)] /\ Top \in Frame
        /\ Front(stack) \in Seq(Frame) /\ Len(Front(stack)) = Len(stack) - 1
        /\ \A k \in 1..(Len(stack) - 1) : Front(stack)[k] = stack[k]
    BY <2>1, StackFacts DEF Top
  <2>4. Top.task \in Task /\ Top.task \notin visited
    BY <2>2, <2>3 DEF Walking, OnStack, Frame
  <2>5. VisitedSound'
    <3>1. Deps(Top.task) \subseteq visited
      BY <2>1, <2>2, AllPast DEF Walking
    <3>2. ClosedTasks(visited \cup {Top.task}) /\ Founded(visited \cup {Top.task})
      BY <2>4, <3>1, FoundedStep DEF VisitedSound
    <3> QED BY <2>1, <3>2 DEF VisitedSound, ClosedTasks, Founded, Deps
  <2>6. CASE Len(stack) > 1
    <3>1. PastOn(Front(stack), visited \cup {Top.task})
      BY <2>1, <2>2, LeavePast DEF Walking, Past
    <3>2. stack' # <<>> /\ stack'[1].task = Selected
      BY <2>1, <2>2, <2>3, <2>6 DEF Walking
    <3>3. OnStack' \cap visited' = {}
      BY <2>1, <2>2, <2>3 DEF Walking, OnStack
    <3>4. \A i, j \in 1..Len(stack') : stack'[i].task = stack'[j].task => i = j
      BY <2>1, <2>2, <2>3 DEF Walking
    <3>5. Past(visited)'
      BY <2>1, <3>1 DEF Past, PastOn
    <3>6. Walking'
      BY <3>2, <3>3, <3>4, <3>5 DEF Walking
    <3> QED BY <2>1, <2>3, <2>4, <2>5, <2>6, <3>6
            DEF Types, DepsFirst, StageSound, StartedSound
  <2>7. CASE Len(stack) = 1
    <3>1. Top.task = Selected
      BY <2>2, <2>3, <2>7 DEF Walking
    <3> QED BY <2>1, <2>3, <2>4, <2>5, <2>7, <3>1
            DEF Types, DepsFirst, StageSound, StartedSound
  <2> QED BY <2>3, <2>6, <2>7
<1> QED BY <1>1, <1>2, <1>3, <1>4 DEF Validate

\* The tasks run, each after those it depends on.
LEMMA RunStep == TaskInv /\ RunGraph => TaskInv'
<1> SUFFICES ASSUME TaskInv, RunGraph PROVE TaskInv'
  OBVIOUS
<1> USE DEF TaskInv
<1>1. CASE TaskFails \/ \E i \in DOMAIN command : CommandEnds(i)
  <2>1. CASE TaskFails
    <3>1. stage' = "exited" /\ stack' = <<>> /\ UNCHANGED <<dependsOn, visited, ran, started>>
      BY <2>1 DEF TaskFails, Exit, inputVars
    <3>2. Types'
      BY <3>1 DEF Types
    <3> QED BY <3>1, <3>2
            DEF VisitedSound, ClosedTasks, Founded, Deps, DepsFirst, StageSound, StartedSound
  <2>2. CASE \E i \in DOMAIN command : CommandEnds(i)
    <3>1. UNCHANGED <<dependsOn, stack, visited, ran, started>> /\ UNCHANGED stage
      BY <2>2 DEF CommandEnds, inputVars
    <3> QED BY <3>1, Unmoved
  <2> QED BY <1>1, <2>1, <2>2
<1>2. CASE RunSkips
  <2>1. /\ stage = "run" /\ stage' = stage /\ HasNext /\ stack' = Advanced
        /\ Dependency \in ran
        /\ UNCHANGED <<dependsOn, visited, ran, started>>
    BY <1>2 DEF RunSkips, inputVars
  <2>2. Runs
    BY <2>1 DEF StageSound
  <2>3. /\ Len(stack) \in Nat \ {0} /\ Advanced \in Seq(Frame) /\ Len(Advanced) = Len(stack)
        /\ \A k \in 1..Len(stack) : Advanced[k].task = stack[k].task
    BY <2>1, NextFacts, StackFacts DEF Top
  <2>4. PastOn(Advanced, ran)
    BY <2>1, <2>2, AdvancePast DEF Runs, Past
  <2>5. Runs'
    BY <2>1, <2>2, <2>3, <2>4 DEF Runs, OnStack, Past, PastOn, Deps
  <2> QED BY <2>1, <2>3, <2>5
          DEF Types, VisitedSound, ClosedTasks, Founded, Deps, DepsFirst, StageSound, StartedSound
<1>3. CASE RunDependency
  <2> DEFINE entered == Append(Advanced, [task |-> Dependency, next |-> 1])
  <2>1. /\ stage = "run" /\ stage' = stage /\ HasNext /\ stack' = entered
        /\ Dependency \notin ran
        /\ UNCHANGED <<dependsOn, visited, ran, started>>
    BY <1>3 DEF RunDependency, inputVars
  <2>2. Runs
    BY <2>1 DEF StageSound
  <2>3. /\ Len(stack) \in Nat \ {0} /\ Top = stack[Len(stack)]
        /\ Dependency \in Deps(Top.task)
    BY <2>1, NextFacts, StackFacts DEF Top
  <2>4. Dependency \in visited /\ Dependency \in Task
    BY <2>2, <2>3 DEF Runs, OnStack, VisitedSound, ClosedTasks, Types
  <2>5. /\ entered \in Seq(Frame) /\ Len(entered) = Len(stack) + 1
        /\ \A k \in 1..Len(stack) : entered[k].task = stack[k].task
        /\ entered[Len(stack) + 1].task = Dependency
        /\ PastOn(entered, ran)
    BY <2>1, <2>2, <2>4, EnterPast DEF Runs, Past
  <2> HIDE DEF entered
  <2>6. Runs'
    <3>1. stack' # <<>>
      BY <2>1, <2>3, <2>5
    <3>2. OnStack' \subseteq visited' \ ran'
      BY <2>1, <2>2, <2>3, <2>4, <2>5 DEF Runs, OnStack
    <3>3. ASSUME NEW i \in 1..(Len(stack') - 1)
          PROVE  stack'[i + 1].task \in Deps(stack'[i].task)
      <4>1. CASE i < Len(stack)
        BY <2>2, <2>1, <2>3, <2>5, <3>3, <4>1 DEF Runs
      <4>2. CASE i = Len(stack)
        BY <2>1, <2>3, <2>5, <4>2
      <4> QED BY <2>1, <2>3, <2>5, <3>3, <4>1, <4>2
    <3>4. Past(ran)'
      BY <2>1, <2>5 DEF Past, PastOn
    <3> QED BY <2>1, <3>1, <3>2, <3>3, <3>4 DEF Runs, Deps
  <2> QED BY <2>1, <2>5, <2>6
          DEF Types, VisitedSound, ClosedTasks, Founded, Deps, DepsFirst, StageSound, StartedSound
<1>4. CASE RunTask
  <2>1. /\ stage = "run" /\ stage' = "commands" /\ stack # <<>> /\ ~HasNext
        /\ started' = Append(started, Top.task)
        /\ UNCHANGED <<dependsOn, stack, visited, ran>>
    BY <1>4 DEF RunTask, inputVars
  <2>2. Runs
    BY <2>1 DEF StageSound
  <2>3. Top.task \in Task /\ Top.task \notin ran
    BY <2>1, <2>2, StackFacts DEF Runs, OnStack, Top, Frame
  <2>4. Deps(Top.task) \subseteq ran
    BY <2>1, <2>2, AllPast DEF Runs
  <2>5. ToSet(started) = ran
    BY <2>1 DEF StartedSound
  <2> DEFINE a == Append(started, Top.task)
  <2>6. /\ a \in Seq(Task) /\ IsInjective(a)
        /\ ToSet(a) = ran \cup {Top.task}
    <3>1. Range(started) = ran
      BY <2>5 DEF ToSet, Range
    <3>2. started \in Seq(Task) /\ IsInjective(started)
      BY DEF Types, DepsFirst
    <3>3. Range(a) = ToSet(a)
      BY DEF ToSet, Range
    <3> QED BY <2>3, <3>1, <3>2, <3>3, AppendFacts
  <2>7. DepsFirst'
    <3>1. /\ Len(started) \in Nat /\ Len(a) = Len(started) + 1
          /\ DOMAIN started = 1..Len(started) /\ DOMAIN a = 1..(Len(started) + 1)
          /\ \A j \in 1..Len(started) : a[j] = started[j]
          /\ a[Len(started) + 1] = Top.task
      BY <2>3 DEF Types
    <3> HIDE DEF a
    <3>2. ASSUME NEW i \in 1..(Len(started) + 1)
          PROVE  Deps(a[i]) \subseteq ran \cap ToSet(SubSeq(a, 1, i - 1))
      <4>0. i - 1 \in 0..Len(a)
        BY <3>1
      <4>1. ToSet(SubSeq(a, 1, i - 1)) = {a[j] : j \in 1..(i - 1)}
        BY <2>6, <4>0, PrefixFacts
      <4>2. CASE i \in 1..Len(started)
        <5>1. ToSet(SubSeq(started, 1, i - 1)) = {started[j] : j \in 1..(i - 1)}
          <6>1. i - 1 \in 0..Len(started) /\ started \in Seq(Task)
            BY <3>1, <4>2 DEF Types
          <6> QED BY <6>1, PrefixFacts
        <5>2. {started[j] : j \in 1..(i - 1)} = {a[j] : j \in 1..(i - 1)}
          BY <3>1, <4>2
        <5>3. Deps(started[i]) \subseteq ran \cap ToSet(SubSeq(started, 1, i - 1))
          BY <3>1, <4>2 DEF DepsFirst, Deps
        <5> QED BY <3>1, <4>1, <4>2, <5>1, <5>2, <5>3
      <4>3. CASE i = Len(started) + 1
        <5>1. ToSet(started) = {a[j] : j \in 1..(i - 1)}
          BY <3>1, <4>3 DEF ToSet
        <5> QED BY <2>4, <2>5, <3>1, <4>1, <4>3, <5>1
      <4> QED BY <3>1, <4>2, <4>3
    <3>3. started' = a
      BY <2>1 DEF a
    <3>4. \A i \in DOMAIN started' :
            ToSet(dependsOn'[started'[i]]) \subseteq ran' \cap ToSet(SubSeq(started', 1, i - 1))
      BY <2>1, <3>1, <3>2, <3>3 DEF Deps
    <3>5. IsInjective(started')
      BY <2>6, <3>3
    <3> QED BY <3>4, <3>5 DEF DepsFirst
  <2>8. started' = a
    BY <2>1
  <2> HIDE DEF a
  <2>9. Types' /\ VisitedSound' /\ StartedSound'
    BY <2>1, <2>6, <2>8 DEF Types, VisitedSound, ClosedTasks, Founded, Deps, StartedSound, Top
  <2>10. StageSound'
    <3>1. Runs' /\ ~HasNext'
      BY <2>1, <2>2 DEF Runs, OnStack, Past, PastOn, Deps, HasNext, Top
    <3> QED BY <2>1, <3>1 DEF StageSound
  <2> QED BY <2>7, <2>9, <2>10
<1>5. CASE TaskSucceeds
  <2>1. /\ stage = "commands" /\ stack' = Front(stack)
        /\ ran' = ran \cup {Top.task}
        /\ \/ Len(stack) > 1 /\ stage' = "run"
           \/ ~(Len(stack) > 1) /\ stage' \in {"poll", "exited"}
        /\ UNCHANGED <<dependsOn, visited, started>>
    BY <1>5 DEF TaskSucceeds, inputVars
  <2>2. Runs
    BY <2>1 DEF StageSound
  <2>3. /\ stack # <<>> /\ Len(stack) \in Nat \ {0} /\ Top = stack[Len(stack)] /\ Top \in Frame
        /\ Front(stack) \in Seq(Frame) /\ Len(Front(stack)) = Len(stack) - 1
        /\ \A k \in 1..(Len(stack) - 1) : Front(stack)[k] = stack[k]
    BY <2>2, StackFacts DEF Top, Runs
  <2>4. Types'
    BY <2>1, <2>3 DEF Types, Frame
  <2>5. DepsFirst' /\ StartedSound'
    BY <2>1 DEF DepsFirst, StartedSound
  <2>6. ASSUME Len(stack) > 1 PROVE Runs'
    <3>1. OnStack' \subseteq visited' \ ran'
      BY <2>1, <2>2, <2>3, NoTaskTwice DEF Runs, OnStack
    <3>2. PastOn(Front(stack), ran \cup {Top.task})
      BY <2>2, <2>3, LeavePast DEF Runs, Past
    <3>3. Past(ran)'
      BY <2>1, <3>2 DEF Past, PastOn
    <3>4. \A i \in 1..(Len(stack') - 1) : stack'[i + 1].task \in Deps(stack'[i].task)
      BY <2>1, <2>2, <2>3 DEF Runs
    <3>5. stack' # <<>>
      BY <2>1, <2>3, <2>6
    <3> QED BY <2>1, <3>1, <3>3, <3>4, <3>5 DEF Runs, Deps
  <2>7. StageSound'
    BY <2>1, <2>6 DEF StageSound
  <2> QED BY <2>1, <2>4, <2>5, <2>7 DEF VisitedSound, ClosedTasks, Founded, Deps
<1> QED BY <1>1, <1>2, <1>3, <1>4, <1>5 DEF RunGraph

\* Watching starts a new run from nothing.
LEMMA WatchStep == TaskInv /\ (Watch \/ SnapshotFails \/ Edit) => TaskInv'
<1> SUFFICES ASSUME TaskInv, Watch \/ SnapshotFails \/ Edit PROVE TaskInv'
  OBVIOUS
<1>1. CASE FirstSnapshot \/ PollSeesChange \/ Settle \/ SnapshotFails \/ Edit
  BY <1>1, Unmoved DEF FirstSnapshot, PollSeesChange, Settle, SnapshotFails, Edit,
                       Exit, inputVars
<1>2. CASE RunStarts
  <2>1. /\ stage = "start" /\ stage' = "run" /\ ran' = {} /\ started' = <<>>
        /\ stack' = <<[task |-> Selected, next |-> 1]>>
        /\ UNCHANGED <<dependsOn, visited>>
    BY <1>2 DEF RunStarts, inputVars
  <2>2. Selected \in visited /\ Selected \in Task
    BY <2>1, TaskRunnerAssumption DEF TaskInv, StageSound
  <2>3. Types'
    <3>1. [task |-> Selected, next |-> 1] \in Frame
      BY <2>2 DEF Frame
    <3> QED BY <2>1, <3>1 DEF TaskInv, Types
  <2>4. Runs'
    BY <2>1, <2>2 DEF Runs, OnStack, Past, PastOn
  <2>5. StageSound' /\ StartedSound' /\ DepsFirst'
    BY <2>1, <2>2, <2>4 DEF StageSound, StartedSound, DepsFirst, IsInjective, ToSet
  <2> QED BY <2>1, <2>3, <2>5 DEF TaskInv, VisitedSound, ClosedTasks, Founded, Deps
<1> QED BY <1>1, <1>2 DEF Watch

-----------------------------------------------------------------------------
\* Every step preserves the invariant.
LEMMA TaskStep == TaskInv /\ [TaskNext]_taskVars => TaskInv'
<1> SUFFICES ASSUME TaskInv, [TaskNext]_taskVars PROVE TaskInv'
  OBVIOUS
<1>1. CASE TaskNext
  BY <1>1, ValidateStep, RunStep, WatchStep DEF TaskNext
<1>2. CASE UNCHANGED taskVars
  BY <1>2, Unmoved DEF taskVars
<1> QED BY <1>1, <1>2

\* In a run of any graph, every task starts once, and after all the tasks it
\* depends on have succeeded (runTaskWithDeps).
THEOREM TasksInOrder == TaskSpec => []DepsFirst
<1>1. TaskInv => DepsFirst
  BY DEF TaskInv
<1> QED BY InitTaskInv, TaskStep, <1>1, PTL DEF TaskSpec
-----------------------------------------------------------------------------
(* What the process says: that the graph is sound, or what is wrong with it, and *)
(* that all that was needed has run.                                             *)

\* The walk, or the run, is in tasks that can be reached, each from the one before.
OnPath ==
  /\ OnStack \subseteq Reachable
  /\ \A i, j \in 1..Len(stack) : i < j => stack[j].task \in From(Deps(stack[i].task))
RunPath == stack[1].task = Selected /\ OnStack \subseteq Reachable

\* Commands are started when their task's turn comes and are forgotten when it has
\* succeeded; a process that ends leaves none behind.
CommandInv ==
  /\ stage # "commands" /\ verdict # "failed" => command = <<>>
  /\ stage = "exited" => "running" \notin ToSet(command)

SaidInv ==
  /\ stage = "validate" => OnPath
  /\ stage \in {"run", "commands"} => RunPath
  /\ ran \subseteq Reachable
  /\ stage # "exited" => verdict = "none"
  /\ verdict = "unknown task" => ~(Reachable \subseteq Task)
  /\ verdict = "cycle" => Circular
  /\ verdict = "ok" => ran = Reachable
  /\ verdict \notin {"unknown task", "cycle"} /\ stage # "validate" => Selected \in visited
  /\ CommandInv

\* What is reachable from S holds S, and with a task all that it depends on.
LEMMA FromFacts ==
  ASSUME Types, NEW S, S \subseteq Task \cup Undefined
  PROVE  /\ S \subseteq From(S)
         /\ From(S) \subseteq Task \cup Undefined
         /\ \A t \in From(S) \cap Task : Deps(t) \subseteq From(S)
<1>1. \A t \in Task : Deps(t) \subseteq Task \cup Undefined
  BY DEF Types, Deps, ToSet
<1>2. S \subseteq From(S) /\ From(S) \subseteq Task \cup Undefined
  BY DEF From
<1>3. ASSUME NEW t \in From(S) \cap Task, NEW d \in Deps(t) PROVE d \in From(S)
  <2>1. ASSUME NEW X \in SUBSET (Task \cup Undefined), S \subseteq X, Closed(X) PROVE d \in X
    <3>1. t \in X
      BY <2>1 DEF From
    <3> QED BY <3>1, <2>1 DEF Closed, Deps
  <2> QED BY <2>1, <1>1 DEF From
<1> QED BY <1>2, <1>3

\* Nothing is reachable from S but what a closed set with S in it holds.
LEMMA FromWithin ==
  ASSUME NEW S, NEW X \in SUBSET (Task \cup Undefined), S \subseteq X, Closed(X)
  PROVE  From(S) \subseteq X
  BY DEF From

\* What a task depends on, from where it is reachable.
LEMMA DepsReach ==
  ASSUME Types, NEW t \in Task
  PROVE  /\ Deps(t) \subseteq Task \cup Undefined
         /\ Deps(t) \subseteq From(Deps(t))
         /\ t \in Reachable => Deps(t) \subseteq Reachable
         /\ \A u \in Task : t \in From(Deps(u)) => Deps(t) \subseteq From(Deps(u))
<1>1. \A u \in Task : Deps(u) \subseteq Task \cup Undefined
  BY DEF Types, Deps, ToSet
<1>2. {Selected} \subseteq Task \cup Undefined
  BY TaskRunnerAssumption
<1> QED BY <1>1, <1>2, FromFacts DEF Reachable

\* Once the walk has left the selected task, the graph is sound.
LEMMA WalkedSound ==
  ASSUME Types, VisitedSound, Selected \in visited
  PROVE  Reachable \subseteq visited /\ ~Circular
<1>1. /\ visited \subseteq Task
      /\ \A t \in visited : Deps(t) \subseteq visited
      /\ visited \in SUBSET (Task \cup Undefined)
      /\ Closed(visited)
  BY DEF Types, VisitedSound, ClosedTasks, Closed, Deps
<1>2. Reachable \subseteq visited
  BY <1>1, FromWithin DEF Reachable
<1>3. ASSUME NEW t \in Reachable \cap Task, t \in From(Deps(t)) PROVE FALSE
  <2> DEFINE X == {u \in visited : t \in From(Deps(u))}
  <2>1. t \in X /\ X \in SUBSET visited
    BY <1>2, <1>3
  <2>2. PICK u \in X : Deps(u) \cap X = {}
    <3> HIDE DEF X
    <3> QED BY <2>1 DEF VisitedSound, Founded
  <2>3. u \in visited /\ u \in Task /\ t \in From(Deps(u)) /\ Deps(u) \subseteq visited
    BY <2>2, <1>1
  <2> DEFINE Y == {v \in visited : v \in Deps(u) \/ \E d \in Deps(u) : v \in From(Deps(d))}
  <2>4. ASSUME NEW v \in Y, NEW e \in Deps(v) PROVE e \in Y
    <3>1. v \in visited /\ v \in Task /\ e \in visited
      BY <1>1
    <3>2. CASE v \in Deps(u)
      BY <3>1, <3>2, DepsReach
    <3>3. ASSUME NEW d \in Deps(u), v \in From(Deps(d)) PROVE e \in Y
      <4>1. d \in Task
        BY <1>1, <2>3
      <4>2. Deps(v) \subseteq From(Deps(d))
        BY <3>1, <3>3, <4>1, DepsReach
      <4> QED BY <3>1, <4>2
    <3> QED BY <3>2, <3>3
  <2>5. Y \in SUBSET (Task \cup Undefined) /\ Deps(u) \subseteq Y /\ Closed(Y)
    <3>1. Y \in SUBSET (Task \cup Undefined) /\ Deps(u) \subseteq Y
      BY <1>1, <2>3
    <3> HIDE DEF Y
    <3> QED BY <2>4, <3>1 DEF Closed, Deps
  <2>6. t \in Y
    <3> HIDE DEF Y
    <3> QED BY <2>3, <2>5, FromWithin
  <2>7. CASE t \in Deps(u)
    BY <2>1, <2>2, <2>7
  <2>8. ASSUME NEW d \in Deps(u), t \in From(Deps(d)) PROVE FALSE
    BY <2>2, <2>3, <2>8
  <2> QED BY <2>6, <2>7, <2>8
<1> QED BY <1>2, <1>3 DEF Circular, Deps

\* The graph does not change.
LEMMA SameGraph ==
  ASSUME UNCHANGED dependsOn
  PROVE  /\ Reachable' = Reachable /\ (Circular' <=> Circular)
         /\ \A S : From(S)' = From(S)
         /\ \A t : Deps(t)' = Deps(t)
<1>1. \A S : From(S)' = From(S)
  BY DEF From, Closed
<1>2. Reachable' = Reachable
  BY <1>1 DEF Reachable
<1> QED BY <1>1, <1>2 DEF Circular, Deps

\* The process starts at the selected task.
LEMMA SaidInit == TaskInit => SaidInv
<1> SUFFICES ASSUME TaskInit PROVE SaidInv
  OBVIOUS
<1>1. Selected \in Reachable
  BY InitTaskInv, FromFacts, TaskRunnerAssumption DEF Reachable, TaskInv
<1>2. /\ stack = <<[task |-> Selected, next |-> 1]>> /\ Len(stack) = 1
      /\ stage = "validate" /\ verdict = "none" /\ ran = {} /\ command = <<>>
  BY DEF TaskInit
<1>3. OnStack \subseteq Reachable
  BY <1>1, <1>2 DEF OnStack
<1>4. OnPath
  BY <1>2, <1>3 DEF OnPath
<1> QED BY <1>2, <1>4 DEF SaidInv, CommandInv

\* Steps that leave the tasks and their commands alone.
LEMMA SaidUnmoved ==
  ASSUME SaidInv, UNCHANGED <<dependsOn, stack, visited, ran, command, verdict>>,
         \/ UNCHANGED stage
         \/ {stage, stage'} \cap {"validate", "run", "commands", "exited"} = {}
  PROVE  SaidInv'
<1>1. (OnPath <=> OnPath') /\ (RunPath <=> RunPath')
  BY SameGraph DEF OnPath, RunPath, OnStack
<1>2. CASE UNCHANGED stage
  BY <1>1, <1>2, SameGraph DEF SaidInv, CommandInv
<1>3. CASE {stage, stage'} \cap {"validate", "run", "commands", "exited"} = {}
  BY <1>1, <1>3, SameGraph DEF SaidInv, CommandInv
<1> QED BY <1>2, <1>3

\* The process ends, and says why.
LEMMA SaidExit ==
  ASSUME SaidInv, NEW v, Exit(v), UNCHANGED <<dependsOn, visited, ran, command>>, v # "ok",
         v = "unknown task" => ~(Reachable \subseteq Task),
         v = "cycle" => Circular,
         v \notin {"unknown task", "cycle"} => Selected \in visited,
         v # "failed" => command = <<>>,
         "running" \notin ToSet(command)
  PROVE  SaidInv'
  BY SameGraph DEF Exit, SaidInv, CommandInv

\* The walk before the run.
LEMMA SaidValidate ==
  ASSUME TaskInv, TaskInv', SaidInv, Validate
  PROVE  SaidInv'
<1> USE DEF TaskInv
<1>1. "running" \notin ToSet(<<>>)
  BY DEF ToSet
<1>2. stage # "exited" /\ verdict = "none"
  BY DEF Validate, VisitUnknown, VisitCycle, VisitAgain, VisitTask, VisitEnds, RefusePatterns,
         AcceptPatterns, SaidInv
<1>3. stage # "commands"
  BY DEF Validate, VisitUnknown, VisitCycle, VisitAgain, VisitTask, VisitEnds, RefusePatterns,
         AcceptPatterns
<1>4. command = <<>>
  BY <1>2, <1>3 DEF SaidInv, CommandInv
<1>5. ASSUME HasNext, stage = "validate"
      PROVE  /\ stack # <<>> /\ Len(stack) \in Nat \ {0} /\ Top = stack[Len(stack)]
             /\ Top.task \in Task /\ Top.task \in OnStack
             /\ Dependency \in Deps(Top.task) /\ Dependency \in Reachable
             /\ OnPath
  <2>1. /\ stack # <<>> /\ Len(stack) \in Nat \ {0} /\ Top = stack[Len(stack)]
        /\ Top.task \in Task /\ Dependency \in Deps(Top.task)
    BY <1>5, NextFacts, StackFacts DEF Top
  <2>2. OnPath
    BY <1>5 DEF SaidInv
  <2>3. Len(stack) \in 1..Len(stack)
    BY <2>1
  <2>4. Top.task \in OnStack
    BY <2>1, <2>3 DEF OnStack
  <2>5. Dependency \in Reachable
    BY <2>1, <2>2, <2>4, DepsReach DEF OnPath
  <2> QED BY <2>1, <2>2, <2>4, <2>5
<1>6. CASE VisitUnknown
  <2>1. /\ Exit("unknown task") /\ UNCHANGED <<dependsOn, visited, ran, command>>
        /\ HasNext /\ stage = "validate" /\ Dependency \notin Task
    BY <1>6 DEF VisitUnknown, inputVars
  <2>2. ~(Reachable \subseteq Task)
    BY <2>1, <1>5
  <2> QED BY <2>1, <2>2, <1>1, <1>4, SaidExit
<1>7. CASE VisitCycle
  <2>1. /\ Exit("cycle") /\ UNCHANGED <<dependsOn, visited, ran, command>>
        /\ HasNext /\ stage = "validate" /\ Dependency \in OnStack
    BY <1>7 DEF VisitCycle, inputVars
  <2>2. PICK i \in 1..Len(stack) : stack[i].task = Dependency
    BY <2>1 DEF OnStack
  <2>3. stack[i] \in Frame /\ Dependency \in Task
    BY <2>1, <2>2, <1>5, StackFacts DEF Frame
  <2>4. Top.task \in From(Deps(Dependency)) \/ Top.task = Dependency
    BY <2>1, <2>2, <1>5 DEF OnPath
  <2>5. Dependency \in From(Deps(Dependency))
    BY <2>1, <2>3, <2>4, <1>5, DepsReach
  <2>6. Circular
    BY <2>1, <2>3, <2>5, <1>5 DEF Circular, Deps
  <2> QED BY <2>1, <2>6, <1>1, <1>4, SaidExit
<1>8. CASE VisitAgain
  <2>1. /\ stage = "validate" /\ stage' = stage /\ HasNext /\ stack' = Advanced
        /\ UNCHANGED <<dependsOn, visited, ran, command, verdict>>
    BY <1>8 DEF VisitAgain, inputVars
  <2>2. /\ Len(stack) \in Nat \ {0} /\ Len(stack') = Len(stack)
        /\ \A k \in 1..Len(stack) : stack'[k].task = stack[k].task
    BY <2>1, <1>5, StackFacts DEF Top
  <2>3. OnPath'
    BY <2>1, <2>2, <1>5, SameGraph DEF OnPath, OnStack
  <2> QED BY <2>1, <2>3, SameGraph DEF SaidInv, CommandInv
<1>9. CASE VisitTask
  <2> DEFINE entered == Append(Advanced, [task |-> Dependency, next |-> 1])
  <2>1. /\ stage = "validate" /\ stage' = stage /\ HasNext /\ stack' = entered
        /\ Dependency \in Task
        /\ UNCHANGED <<dependsOn, visited, ran, command, verdict>>
    BY <1>9 DEF VisitTask, inputVars
  <2>2. /\ Len(entered) = Len(stack) + 1
        /\ \A k \in 1..Len(stack) : entered[k].task = stack[k].task
        /\ entered[Len(stack) + 1].task = Dependency
    BY <2>1, EnterPast DEF StageSound, Walking, Past
  <2> HIDE DEF entered
  <2>3. OnStack' \subseteq Reachable'
    BY <2>1, <2>2, <1>5, SameGraph DEF OnPath, OnStack
  <2>4. ASSUME NEW i \in 1..Len(stack'), NEW j \in 1..Len(stack'), i < j
        PROVE  stack'[j].task \in From(Deps(stack'[i].task))
    <3>1. i \in 1..Len(stack) /\ stack'[i].task = stack[i].task /\ stack[i].task \in Task
      BY <2>1, <2>2, <2>4, <1>5, StackFacts DEF Frame
    <3>2. CASE j \in 1..Len(stack)
      BY <2>1, <2>2, <2>4, <3>1, <3>2, <1>5 DEF OnPath
    <3>3. CASE j = Len(stack) + 1
      <4>1. Top.task = stack[i].task \/ Top.task \in From(Deps(stack[i].task))
        BY <3>1, <1>5, <2>1 DEF OnPath
      <4>2. Dependency \in From(Deps(stack[i].task))
        BY <4>1, <3>1, <1>5, <2>1, DepsReach
      <4> QED BY <4>2, <3>1, <3>3, <2>1, <2>2
    <3> QED BY <3>2, <3>3, <2>1, <2>2, <1>5
  <2>5. OnPath'
    BY <2>1, <2>3, <2>4, SameGraph DEF OnPath
  <2> QED BY <2>1, <2>5, SameGraph DEF SaidInv, CommandInv
<1>10. CASE VisitEnds
  <2>1. /\ stage = "validate" /\ stack # <<>> /\ stack' = Front(stack)
        /\ stage' = IF Len(stack) > 1 THEN "validate" ELSE "patterns"
        /\ UNCHANGED <<dependsOn, ran, command, verdict>>
    BY <1>10 DEF VisitEnds, inputVars
  <2>2. /\ Len(stack) \in Nat \ {0} /\ Len(stack') = Len(stack) - 1
        /\ \A k \in 1..(Len(stack) - 1) : stack'[k] = stack[k]
    BY <2>1, StackFacts
  <2>3. OnPath
    BY <2>1 DEF SaidInv
  <2>4. OnPath'
    BY <2>1, <2>2, <2>3, SameGraph DEF OnPath, OnStack
  <2>5. stage' = "patterns" => Selected \in visited'
    BY DEF StageSound
  <2> QED BY <2>1, <2>4, <2>5, SameGraph DEF SaidInv, CommandInv
<1>11. CASE RefusePatterns
  <2>1. Exit("bad pattern") /\ stage = "patterns" /\ UNCHANGED <<dependsOn, visited, ran, command>>
    BY <1>11 DEF RefusePatterns, inputVars
  <2>2. Selected \in visited
    BY <2>1 DEF StageSound
  <2> QED BY <2>1, <2>2, <1>1, <1>4, SaidExit
<1>12. CASE AcceptPatterns
  BY <1>12, SaidUnmoved DEF AcceptPatterns, inputVars
<1> QED BY <1>6, <1>7, <1>8, <1>9, <1>10, <1>11, <1>12 DEF Validate

\* A run of the graph.
LEMMA SaidRun ==
  ASSUME TaskInv, SaidInv, RunGraph
  PROVE  SaidInv'
<1> USE DEF TaskInv
<1>1. stage \in {"run", "commands"}
  BY DEF RunGraph, RunSkips, RunDependency, RunTask, CommandEnds, TaskSucceeds, TaskFails
<1>2. /\ RunPath /\ Runs /\ verdict = "none" /\ Selected \in visited
      /\ stack # <<>> /\ Len(stack) \in Nat \ {0} /\ Top = stack[Len(stack)]
      /\ Top.task \in Task /\ Top.task \in OnStack /\ Top.task \in Reachable
  <2>1. RunPath /\ Runs /\ verdict = "none" /\ Selected \in visited
    BY <1>1 DEF SaidInv, StageSound
  <2>2. stack # <<>> /\ Len(stack) \in Nat \ {0} /\ Top = stack[Len(stack)] /\ Top \in Frame
    BY <2>1, StackFacts DEF Runs, Top
  <2>3. Top.task \in OnStack
    <3>1. Len(stack) \in 1..Len(stack)
      BY <2>2
    <3> QED BY <2>2, <3>1 DEF OnStack
  <2> QED BY <2>1, <2>2, <2>3 DEF RunPath, Frame
<1>3. CASE RunSkips
  <2>1. /\ stage = "run" /\ stage' = stage /\ HasNext /\ stack' = Advanced
        /\ UNCHANGED <<dependsOn, visited, ran, command, verdict>>
    BY <1>3 DEF RunSkips, inputVars
  <2>2. /\ Len(stack') = Len(stack)
        /\ \A k \in 1..Len(stack) : stack'[k].task = stack[k].task
    BY <2>1, <1>2, StackFacts DEF Top
  <2>3. RunPath'
    BY <2>1, <2>2, <1>2, SameGraph DEF RunPath, OnStack
  <2> QED BY <2>1, <2>3, SameGraph DEF SaidInv, CommandInv
<1>4. CASE RunDependency
  <2> DEFINE entered == Append(Advanced, [task |-> Dependency, next |-> 1])
  <2>1. /\ stage = "run" /\ stage' = stage /\ HasNext /\ stack' = entered
        /\ UNCHANGED <<dependsOn, visited, ran, command, verdict>>
    BY <1>4 DEF RunDependency, inputVars
  <2>2. Dependency \in Reachable /\ Dependency \in Task
    <3>1. Dependency \in Deps(Top.task)
      BY <2>1, NextFacts
    <3>2. Dependency \in visited
      BY <3>1, <1>2 DEF Runs, VisitedSound, ClosedTasks
    <3> QED BY <3>1, <3>2, <1>2, DepsReach DEF Types
  <2>3. /\ Len(entered) = Len(stack) + 1
        /\ \A k \in 1..Len(stack) : entered[k].task = stack[k].task
        /\ entered[Len(stack) + 1].task = Dependency
    BY <2>1, <2>2, <1>2, EnterPast DEF Runs, Past
  <2> HIDE DEF entered
  <2>4. RunPath'
    BY <2>1, <2>2, <2>3, <1>2, SameGraph DEF RunPath, OnStack
  <2> QED BY <2>1, <2>4, SameGraph DEF SaidInv, CommandInv
<1>5. CASE RunTask
  <2>1. /\ stage' = "commands" /\ UNCHANGED <<dependsOn, stack, visited, ran, verdict>>
    BY <1>5 DEF RunTask, inputVars
  <2>2. RunPath'
    BY <2>1, <1>2, SameGraph DEF RunPath, OnStack
  <2> QED BY <2>1, <2>2, <1>2, SameGraph DEF SaidInv, CommandInv
<1>6. CASE \E i \in DOMAIN command : CommandEnds(i)
  <2>1. /\ stage = "commands" /\ stage' = stage
        /\ UNCHANGED <<dependsOn, stack, visited, ran, verdict>>
    BY <1>6 DEF CommandEnds, inputVars
  <2>2. RunPath'
    BY <2>1, <1>2, SameGraph DEF RunPath, OnStack
  <2> QED BY <2>1, <2>2, <1>2, SameGraph DEF SaidInv, CommandInv
<1>7. CASE TaskSucceeds
  <2>1. /\ stage = "commands" /\ stack' = Front(stack) /\ command' = <<>>
        /\ ran' = ran \cup {Top.task}
        /\ stage' = IF Len(stack) > 1 THEN "run" ELSE IF watch THEN "poll" ELSE "exited"
        /\ verdict' = IF Len(stack) > 1 \/ watch THEN verdict ELSE "ok"
        /\ UNCHANGED <<dependsOn, visited>>
    BY <1>7 DEF TaskSucceeds, inputVars
  <2>2. ran' \subseteq Reachable'
    BY <2>1, <1>2, SameGraph DEF SaidInv
  <2>3. CommandInv'
    BY <2>1 DEF CommandInv, ToSet
  <2>4. ASSUME Len(stack) > 1 PROVE RunPath'
    <3>1. /\ Len(stack') = Len(stack) - 1
          /\ \A k \in 1..(Len(stack) - 1) : stack'[k] = stack[k]
      BY <2>1, <1>2, StackFacts
    <3>2. stack'[1].task = Selected
      BY <2>4, <3>1, <1>2 DEF RunPath
    <3>3. OnStack' \subseteq OnStack
      BY <3>1, <1>2 DEF OnStack
    <3> QED BY <2>1, <3>2, <3>3, <1>2, SameGraph DEF RunPath
  <2>5. ASSUME ~(Len(stack) > 1) PROVE ran' = Reachable'
    <3>1. Selected \in ran'
      BY <2>1, <2>5, <1>2 DEF RunPath
    <3>2. ran' = ToSet(started)
      BY <2>1 DEF StartedSound
    <3>3. \A t \in ran' : Deps(t) \subseteq ran'
      BY <2>1, <3>2 DEF DepsFirst, ToSet, Deps
    <3>4. ran' \subseteq Task
      BY <2>1, <1>2 DEF Types
    <3>5. ran' \in SUBSET (Task \cup Undefined) /\ Closed(ran')
      BY <3>3, <3>4 DEF Closed, Deps
    <3>6. Reachable \subseteq ran'
      BY <3>1, <3>5, FromWithin DEF Reachable
    <3> QED BY <2>1, <2>2, <3>6, SameGraph
  <2> QED BY <2>1, <2>2, <2>3, <2>4, <2>5, <1>2, SameGraph DEF SaidInv
<1>8. CASE TaskFails
  <2>1. /\ Ended /\ Exit("failed") /\ UNCHANGED <<dependsOn, visited, ran, command>>
    BY <1>8 DEF TaskFails, inputVars
  <2>2. "running" \notin ToSet(command)
    BY <2>1 DEF Ended, ToSet
  <2> QED BY <2>1, <2>2, <1>2, SaidExit
<1> QED BY <1>3, <1>4, <1>5, <1>6, <1>7, <1>8 DEF RunGraph

\* Watching, which forgets the last run when it starts the next.
LEMMA SaidWatch ==
  ASSUME TaskInv, SaidInv, Watch \/ SnapshotFails \/ Edit
  PROVE  SaidInv'
<1> USE DEF TaskInv
<1>1. CASE FirstSnapshot
  BY <1>1, SaidUnmoved DEF FirstSnapshot, inputVars
<1>2. CASE PollSeesChange \/ Settle
  BY <1>2, SaidUnmoved DEF PollSeesChange, Settle, inputVars, watchVars
<1>3. CASE Edit
  BY <1>3, SaidUnmoved DEF Edit, inputVars
<1>4. CASE SnapshotFails
  <2>1. /\ stage \in {"snapshot", "poll"} /\ Exit("watch failed")
        /\ UNCHANGED <<dependsOn, visited, ran, command>>
    BY <1>4 DEF SnapshotFails, inputVars
  <2>2. command = <<>> /\ Selected \in visited
    BY <2>1 DEF SaidInv, CommandInv
  <2>3. "running" \notin ToSet(command)
    BY <2>2 DEF ToSet
  <2> QED BY <2>1, <2>2, <2>3, SaidExit
<1>5. CASE RunStarts
  <2>1. /\ stage = "start" /\ stage' = "run" /\ ran' = {} /\ command' = <<>>
        /\ stack' = <<[task |-> Selected, next |-> 1]>>
        /\ UNCHANGED <<dependsOn, visited, verdict>>
    BY <1>5 DEF RunStarts, inputVars
  <2>2. Selected \in Reachable'
    BY <2>1, FromFacts, TaskRunnerAssumption, SameGraph DEF Reachable
  <2>3. Len(stack') = 1 /\ stack'[1].task = Selected
    BY <2>1
  <2>4. RunPath'
    BY <2>2, <2>3 DEF RunPath, OnStack
  <2> QED BY <2>1, <2>4, SameGraph DEF SaidInv, CommandInv
<1> QED BY <1>1, <1>2, <1>3, <1>4, <1>5 DEF Watch

\* Every step preserves both invariants.
LEMMA SaidStep == TaskInv /\ SaidInv /\ [TaskNext]_taskVars => (TaskInv /\ SaidInv)'
<1> SUFFICES ASSUME TaskInv, SaidInv, [TaskNext]_taskVars PROVE (TaskInv /\ SaidInv)'
  OBVIOUS
<1>1. TaskInv'
  BY TaskStep
<1>2. CASE TaskNext
  BY <1>1, <1>2, SaidValidate, SaidRun, SaidWatch DEF TaskNext
<1>3. CASE UNCHANGED taskVars
  BY <1>1, <1>3, SaidUnmoved DEF taskVars
<1> QED BY <1>1, <1>2, <1>3

\* For any graph: a task is called unknown only if one is, the graph is called circular
\* only if it is, and no command starts unless it is neither (validateTaskGraph).
THEOREM GraphVerdictCorrect == TaskSpec => []GraphVerdict
<1>1. TaskInv /\ SaidInv => GraphVerdict
  <2> SUFFICES ASSUME TaskInv, SaidInv PROVE GraphVerdict
    OBVIOUS
  <2>1. ASSUME verdict \notin {"unknown task", "cycle"}, stage # "validate"
        PROVE  Reachable \subseteq Task /\ ~Circular
    <3>1. Selected \in visited
      BY <2>1 DEF SaidInv
    <3> QED BY <3>1, WalkedSound DEF TaskInv, Types
  <2> QED BY <2>1 DEF SaidInv, GraphVerdict
<1> QED BY InitTaskInv, SaidInit, SaidStep, <1>1, PTL DEF TaskSpec

\* For any graph: the process ends well only when every task that was needed has run,
\* and it leaves no command of a parallel task running (runTask, runParallel).
THEOREM ExitTellsAllCorrect == TaskSpec => []ExitTellsAll
<1>1. TaskInv /\ SaidInv => ExitTellsAll
  <2> SUFFICES ASSUME TaskInv, SaidInv PROVE ExitTellsAll
    OBVIOUS
  <2>1. ASSUME stage \in {"run", "poll", "exited"}, verdict # "failed" PROVE Failures = {}
    <3>1. command = <<>>
      BY <2>1 DEF SaidInv, CommandInv
    <3> QED BY <3>1 DEF Failures
  <2> QED BY <2>1 DEF SaidInv, CommandInv, ExitTellsAll
<1> QED BY InitTaskInv, SaidInit, SaidStep, <1>1, PTL DEF TaskSpec
=============================================================================
