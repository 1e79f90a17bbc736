----------------------------- MODULE ChannelProofs -----------------------------
(***************************************************************************)
(* What holds of the channels for every set of tasks and of channels, every *)
(* capacity and every program, select inside tasks included.                *)
(***************************************************************************)
EXTENDS Channel, SchedulerProofs

Calling == {"none", "send", "receive", "poll", "select", "back"}
Values == Nat \ {0}

ChanTyped ==
  /\ op \in [Owner -> Calling]
  /\ alts \in [Owner -> SUBSET Alternative]
  /\ buffer \in [Chan -> Seq(Values)]
  /\ recvWaiters \in [Chan -> Seq(Task)]
  /\ sendWaiters \in [Chan -> Seq(Task)]
  /\ closed \subseteq Chan
  /\ pending \in [Task -> Nat]
  /\ waiting \in [Task -> Values \cup {0}]
  /\ sent \in [Chan -> Nat]
  /\ got \in [Chan -> Seq(Values)]
  /\ \A c \in Chan : Len(buffer[c]) <= Cap(c)

\* Who is in the middle of a call that parks or polls is not ending, and the program
\* lets it make the call.
CallInv ==
  \A o \in Owner : /\ o \in Task /\ op[o] # "none" => pc[o] = "run"
                   /\ op[o] = "send" => <<o, "send">> \in Uses
                   /\ op[o] = "poll" => <<o, "timed">> \in Uses

\* The tasks on the lists of the channels are those the scheduler does not know of,
\* and each is on the list of the call it is in.
WaiterInv ==
  /\ Elsewhere = Receivers \cup Senders
  /\ \A c \in Chan :
       /\ IsInjective(recvWaiters[c]) /\ IsInjective(sendWaiters[c])
       /\ \A t \in Range(recvWaiters[c]) : op[t] = "receive" /\ alts[t] = {<<c, "receive">>}
       /\ \A t \in Range(sendWaiters[c]) : op[t] = "send" /\ alts[t] = {<<c, "send">>}
                                          /\ waiting[t] # 0

\* A receiver that was taken off its list has a value, or its channel is closed.
AnswerInv ==
  \A t \in Task : op[t] = "receive" =>
    \E c \in Chan : /\ alts[t] = {<<c, "receive">>}
                    /\ t \in Range(recvWaiters[c]) \/ pending[t] # 0 \/ c \in closed

\* The numbers of the values a channel has handed out, holds and is blocked with.
All(c) == got[c] \o buffer[c] \o Blocked(c)
ValuesOn(c) ==
  /\ IsInjective(All(c))
  /\ Range(All(c)) \subseteq 1..sent[c]
  /\ c \notin closed => Range(All(c)) = 1..sent[c] /\ Len(All(c)) = sent[c]
ValueInv == \A c \in Chan : ValuesOn(c)

CInv ==
  PlaceInv /\ ChanTyped /\ CallInv /\ WaiterInv /\ AnswerInv /\ ValueInv
-----------------------------------------------------------------------------
(* Every step is one of these deeds.                                         *)

Quiet == UNCHANGED <<valueVars, listVars, slotVars, closed>>

Parking(t, c, call) ==
  /\ t \in Task
  /\ op' = [op EXCEPT ![t] = call]
  /\ alts' = [alts EXCEPT ![t] = {<<c, call>>}]
  /\ Park(t)

SenderParks(t, c) ==
  /\ c \notin closed /\ ~CanHandOver(c) /\ Full(c)
  /\ <<t, "send">> \in Uses
  /\ waiting' = [waiting EXCEPT ![t] = sent[c] + 1]
  /\ sent' = [sent EXCEPT ![c] = @ + 1]
  /\ sendWaiters' = [sendWaiters EXCEPT ![c] = Append(@, t)]
  /\ Parking(t, c, "send")
  /\ UNCHANGED <<buffer, got, recvWaiters, pending, closed>>

ReceiverParks(t, c) ==
  /\ c \notin closed /\ Empty(c)
  /\ recvWaiters' = [recvWaiters EXCEPT ![c] = Append(@, t)]
  /\ Parking(t, c, "receive")
  /\ UNCHANGED <<valueVars, sendWaiters, slotVars, closed>>

Closes(c) ==
  /\ closed' = closed \cup {c}
  /\ pending' = [t \in Task |-> IF t \in Range(recvWaiters[c]) THEN 0 ELSE pending[t]]
  /\ recvWaiters' = [recvWaiters EXCEPT ![c] = <<>>]
  /\ sendWaiters' = [sendWaiters EXCEPT ![c] = <<>>]
  /\ EnqueueAll(recvWaiters[c] \o sendWaiters[c])
  /\ UNCHANGED <<valueVars, waiting>>

\* What the deeds that leave the scheduler alone do not touch.
Stays == UNCHANGED <<switchVars, restVars>>

\* The calls of the owners that a step is not made by, and what the others may become.
CallsKept ==
  \A u \in Owner :
    /\ u \in Task /\ op'[u] # "none" => pc'[u] = "run"
    /\ \/ op'[u] = op[u] /\ alts'[u] = alts[u]
       \/ /\ u \notin Elsewhere
          /\ op'[u] = "send" => u = Main /\ <<u, "send">> \in Uses
          /\ op'[u] = "receive" => u = Main
          /\ op'[u] = "poll" => <<u, "timed">> \in Uses

CallsTyped == op \in [Owner -> Calling] /\ alts \in [Owner -> SUBSET Alternative]

Exchange(c) ==
  /\ Stays /\ CallsKept
  /\ \/ HandOver(c) /\ UNCHANGED closed
     \/ Put(c) /\ UNCHANGED closed /\ (~CanHandOver(c) \/ <<Main, "send">> \in Uses)
     \/ Take(c) /\ UNCHANGED closed
     \/ TakeOnly(c) /\ UNCHANGED closed /\ (\E o \in Owner : <<o, "timed">> \in Uses)
     \/ Closes(c)

Deed ==
  /\ CallsTyped'
  /\ \/ Quiet /\ PlaceInv' /\ Elsewhere' = Elsewhere /\ CallsKept
     \/ \E c \in Chan : Exchange(c)
     \/ \E c \in Chan, t \in Task : SenderParks(t, c) \/ ReceiverParks(t, c)

\* A task that is on the processor is on no list of a channel.
LEMMA RunnerHere ==
  ASSUME CInv, NEW t \in Task, cur = t
  PROVE  t \notin Elsewhere /\ t \in On
BY DEF CInv, PlaceInv, StackInv, Elsewhere

\* What a call that begins or returns does to the calls.
LEMMA BeginKeeps ==
  ASSUME CInv, NEW o \in Owner, cur = o, NEW call \in Calling, NEW A \in SUBSET Alternative,
         NEW u, Begin(o, call, A, u), pc[o] = "run" \/ call = "none", UNCHANGED pc,
         call = "send" => o = Main /\ <<o, "send">> \in Uses,
         call = "receive" => o = Main,
         call = "poll" => <<o, "timed">> \in Uses
  PROVE  CallsKept /\ CallsTyped'
<1> USE SchedulerAssumption
<1>1. /\ op' = [op EXCEPT ![o] = call] /\ alts' = [alts EXCEPT ![o] = A]
      /\ op \in [Owner -> Calling] /\ alts \in [Owner -> SUBSET Alternative]
  BY DEF Begin, CInv, ChanTyped
<1>2. /\ op'[o] = call /\ alts'[o] = A
      /\ \A v \in Owner : v # o => op'[v] = op[v] /\ alts'[v] = alts[v]
  BY <1>1
<1>3. CallsTyped'
  BY <1>1 DEF CallsTyped
<1>4. o \notin Elsewhere
  BY RunnerHere DEF Owner, Elsewhere, CInv, PlaceInv, Typed
<1>5. \A v \in Task : op[v] # "none" => pc[v] = "run"
  BY DEF CInv, CallInv, Owner
<1> QED BY <1>2, <1>3, <1>4, <1>5 DEF CallsKept

\* What a step that touches no call does to them.
LEMMA SameKeeps ==
  ASSUME CInv, UNCHANGED <<op, alts>>,
         \A u \in Task : op[u] # "none" => pc'[u] = pc[u]
  PROVE  CallsKept /\ CallsTyped'
<1>1. CallsTyped'
  BY DEF CInv, ChanTyped, CallsTyped
<1>2. \A v \in Task : op[v] # "none" => pc[v] = "run"
  BY DEF CInv, CallInv, Owner
<1> QED BY <1>1, <1>2 DEF CallsKept
-----------------------------------------------------------------------------
\* Only its own program counter is moved by a task.
LEMMA TaskPc ==
  ASSUME Typed, NEW t \in Task, TaskStep(t), NEW u \in Task, u # t
  PROVE  pc'[u] = pc[u]
BY DEF Typed, TaskStep, Spawn, SpawnTask, Cancel, Await, AwaitReturn, Sleep, Yield, Finish,
   WakeWaiter, Leave, Owner

LEMMA MainPc ==
  ASSUME Typed, MainStep, NEW u \in Task
  PROVE  pc'[u] = pc[u]
BY SchedulerAssumption DEF Typed, MainStep, Spawn, SpawnTask, Cancel, MainAwait, MainSleep,
   MainWakeSleeper, WakeSleeper, MainDispatch, MainAwaitReturn, MainSleepReturn, MainExit, Owner

\* What tasks and the main program do besides the calls, and the clock.
LEMMA PlainDeed ==
  ASSUME CInv, UNCHANGED chanVars,
         \/ \E t \in Task : op[t] = "none" /\ TaskStep(t)
         \/ MainStep \/ Tick \/ UNCHANGED vars
  PROVE  Deed
<1>1. PlaceInv' /\ Elsewhere' = Elsewhere
  BY TaskPlace, MainPlace, IdlePlace DEF CInv
<1>2. \A u \in Task : op[u] # "none" => pc'[u] = pc[u]
  BY TaskPc, MainPc DEF CInv, PlaceInv, Tick, vars
<1>3. UNCHANGED <<op, alts>> /\ Quiet
  BY DEF chanVars, callVars, listVars, slotVars, valueVars, Quiet
<1>4. CallsKept /\ CallsTyped'
  BY <1>2, <1>3, SameKeeps
<1> QED BY <1>1, <1>3, <1>4 DEF Deed

\* Whoever polls yields or runs somebody, and has not got anywhere.
LEMMA PollDeed ==
  ASSUME CInv, UNCHANGED <<valueVars, listVars, slotVars, closed, alts>>,
         NEW o \in Owner, cur = o, op[o] # "none",
         \/ o \in Task /\ Yield(o) /\ UNCHANGED op
         \/ /\ WakeSleeper \/ (Dispatch(o) /\ UNCHANGED <<pc, target, fateVars, sleepVars, waiterVars>>)
                \/ UNCHANGED vars
            /\ \/ UNCHANGED op
               \/ o = Main /\ op[Main] = "receive" /\ op' = [op EXCEPT ![Main] = "back"]
  PROVE  Deed
<1> USE SchedulerAssumption
<1>1. o \in Task => pc[o] = "run"
  BY DEF CInv, CallInv
<1>2. PlaceInv' /\ Elsewhere' = Elsewhere
  BY <1>1, YieldPlace, WakeSleeperPlace, DispatchPlace, IdlePlace DEF CInv
<1>3. UNCHANGED pc
  BY DEF Yield, WakeSleeper, vars
<1>4. Quiet
  BY DEF Quiet
<1>5. CallsKept /\ CallsTyped'
  <2>1. CASE UNCHANGED op
    BY <1>3, <2>1, SameKeeps
  <2>2. CASE op' = [op EXCEPT ![Main] = "back"]
    <3>1. /\ op \in [Owner -> Calling] /\ alts' = alts /\ alts \in [Owner -> SUBSET Alternative]
          /\ Main \in Owner /\ Main \notin Task
      BY DEF CInv, ChanTyped, Owner
    <3>2. op'[Main] = "back" /\ \A v \in Owner : v # Main => op'[v] = op[v]
      BY <2>2, <3>1
    <3>3. Main \notin Elsewhere
      BY DEF CInv, PlaceInv, Typed, Elsewhere
    <3>4. CallsTyped'
      BY <2>2, <3>1 DEF CallsTyped, Calling
    <3>5. \A v \in Task : op[v] # "none" => pc'[v] = "run"
      BY <1>3 DEF CInv, CallInv, Owner
    <3> QED BY <3>1, <3>2, <3>3, <3>4, <3>5 DEF CallsKept
  <2> QED BY <2>1, <2>2
<1> QED BY <1>2, <1>4, <1>5 DEF Deed

\* A call that begins or returns without having moved a value.
LEMMA IdleCallDeed ==
  ASSUME CInv, NEW o \in Owner, cur = o, NEW call \in Calling, NEW A \in SUBSET Alternative,
         NEW u, Begin(o, call, A, u), pc[o] = "run" \/ call = "none", UNCHANGED vars,
         UNCHANGED <<valueVars, listVars, slotVars, closed>>,
         call = "send" => o = Main /\ <<o, "send">> \in Uses,
         call = "receive" => o = Main,
         call = "poll" => <<o, "timed">> \in Uses
  PROVE  Deed
<1>1. CallsKept /\ CallsTyped'
  BY BeginKeeps DEF vars
<1>2. PlaceInv' /\ Elsewhere' = Elsewhere
  BY IdlePlace DEF CInv
<1> QED BY <1>1, <1>2 DEF Deed, Quiet

\* A call that returns with a value, or having passed one.
LEMMA ReturnDeed ==
  ASSUME CInv, NEW o \in Owner, cur = o, Return(o), Stays, NEW c \in Chan, UNCHANGED closed,
         \/ HandOver(c)
         \/ Put(c) /\ (~CanHandOver(c) \/ <<Main, "send">> \in Uses)
         \/ Take(c)
         \/ TakeOnly(c) /\ (\E v \in Owner : <<v, "timed">> \in Uses)
  PROVE  Deed
<1>1. CallsKept /\ CallsTyped'
  BY BeginKeeps DEF Return, Stays, restVars, Calling
<1> QED BY <1>1 DEF Deed, Exchange

\* The calls of channels that a task or the main program may make.
LEMMA CallDeed ==
  ASSUME CInv, NEW o \in Owner, ChannelStep(o)
  PROVE  Deed
<1> USE SchedulerAssumption
<1>1. /\ op \in [Owner -> Calling] /\ alts \in [Owner -> SUBSET Alternative]
      /\ op[o] = "poll" => <<o, "timed">> \in Uses
      /\ o \in Task /\ op[o] # "none" => pc[o] = "run"
  BY DEF CInv, ChanTyped, CallInv
<1>2. ASSUME NEW c \in Chan, Send(o, c) \/ Receive(o, c) \/ Close(o, c) PROVE Deed
  <2>1. Stays /\ UNCHANGED <<op, alts, pc>>
    BY <1>2 DEF Send, Receive, Close, Stays, restVars, callVars
  <2>2. CallsKept /\ CallsTyped'
    BY <2>1, SameKeeps
  <2>3. CASE Send(o, c)
    BY <2>1, <2>2, <2>3 DEF Send, Accept, Exchange, Deed
  <2>4. CASE Receive(o, c)
    BY <2>1, <2>2, <2>4 DEF Receive, Exchange, Deed
  <2>5. CASE Close(o, c)
    BY <2>1, <2>2, <2>5 DEF Close, Closes, Exchange, Deed
  <2> QED BY <1>2, <2>3, <2>4, <2>5
<1>3. ASSUME NEW c \in Chan, Timed(o, c) PROVE Deed
  <2>1. /\ cur = o /\ pc[o] = "run" /\ <<o, "timed">> \in Uses
        /\ \E d \in now..MaxTime : Begin(o, "poll", {<<c, "receive">>}, d)
        /\ UNCHANGED <<vars, valueVars, listVars, slotVars, closed>>
    BY <1>3 DEF Timed, Calls, Runs
  <2>2. {<<c, "receive">>} \in SUBSET Alternative
    BY DEF Alternative
  <2> QED BY <2>1, <2>2, IdleCallDeed DEF Calling
<1>4. ASSUME NEW c \in Chan, TimedTakes(o, c) PROVE Deed
  <2>1. /\ cur = o /\ <<o, "timed">> \in Uses /\ TakeOnly(c) /\ Return(o)
        /\ UNCHANGED closed /\ Stays
    BY <1>1, <1>4 DEF TimedTakes, In, Stays
  <2> QED BY <2>1, ReturnDeed
<1>5. ASSUME cur = o, Return(o), UNCHANGED <<vars, valueVars, listVars, slotVars, closed>>
      PROVE  Deed
  BY <1>5, IdleCallDeed DEF Return, Calling
<1>6. ASSUME NEW c \in Chan, TimedEnds(o, c) PROVE Deed
  BY <1>5, <1>6 DEF TimedEnds, In
<1>7. ASSUME cur = o, Return(o), UNCHANGED <<switchVars, restVars, closed>>,
             UNCHANGED <<valueVars, listVars, slotVars, queueVars>>
      PROVE  Deed
  BY <1>5, <1>7 DEF vars, restVars
<1>8. ASSUME NEW c \in Chan, SelectTakes(o, c) PROVE Deed
  <2>1. cur = o /\ Return(o) /\ UNCHANGED closed /\ Stays
    BY <1>8 DEF SelectTakes, In, Stays
  <2>2. CASE Take(c)
    BY <2>1, <2>2, ReturnDeed
  <2>3. CASE UNCHANGED <<valueVars, listVars, slotVars, queueVars>>
    BY <2>1, <2>3, <1>7 DEF Stays
  <2> QED BY <1>8, <2>2, <2>3 DEF SelectTakes
<1>9. ASSUME NEW c \in Chan, SelectSends(o, c) PROVE Deed
  <2>1. cur = o /\ Return(o) /\ UNCHANGED closed /\ Stays
    BY <1>9 DEF SelectSends, In, Stays
  <2>2. CASE Accept(c)
    BY <2>1, <2>2, ReturnDeed DEF Accept
  <2>3. CASE UNCHANGED <<valueVars, listVars, slotVars, queueVars>>
    BY <2>1, <2>3, <1>7 DEF Stays
  <2> QED BY <1>9, <2>2, <2>3 DEF SelectSends
<1>10. ASSUME Select(o) PROVE Deed
  <2>1. /\ cur = o /\ pc[o] = "run"
        /\ \E A \in SUBSET Alternative, u \in now..Never : Begin(o, "select", A, u)
        /\ UNCHANGED <<vars, valueVars, listVars, slotVars, closed>>
    BY <1>10 DEF Select, Calls, Runs
  <2> QED BY <2>1, IdleCallDeed DEF Calling
<1>11. ASSUME SelectTimesOut(o) PROVE Deed
  BY <1>5, <1>11 DEF SelectTimesOut, SelectWaits, In
<1>12. ASSUME SelectRuns(o) PROVE Deed
  <2>1. /\ cur = o /\ op[o] # "none" /\ UNCHANGED <<op, alts, valueVars, listVars, slotVars, closed>>
        /\ WakeSleeper \/ (Dispatch(o) /\ UNCHANGED <<pc, target, fateVars, sleepVars, waiterVars>>)
    BY <1>12 DEF SelectRuns, SelectWaits, In, chanVars, callVars
  <2> QED BY <2>1, PollDeed
<1> QED BY <1>2, <1>3, <1>4, <1>6, <1>8, <1>9, <1>10, <1>11, <1>12 DEF ChannelStep

\* The calls in which a task is parked, or polls.
LEMMA TaskCallDeed ==
  ASSUME CInv, NEW t \in Task, TaskChannelStep(t)
  PROVE  Deed
<1> USE SchedulerAssumption
<1>1. /\ op \in [Owner -> Calling] /\ alts \in [Owner -> SUBSET Alternative] /\ t \in Owner
  BY DEF CInv, ChanTyped, Owner
<1>2. ASSUME NEW c \in Chan, SendParks(t, c) PROVE Deed
  <2>1. SenderParks(t, c)
    BY <1>2 DEF SendParks, SenderParks, Parking, Calls, Begin
  <2>2. CallsTyped'
    BY <1>1, <1>2 DEF SendParks, Begin, CallsTyped, Calling, Alternative
  <2> QED BY <2>1, <2>2 DEF Deed
<1>3. ASSUME NEW c \in Chan, ReceiveParks(t, c) PROVE Deed
  <2>1. ReceiverParks(t, c)
    BY <1>3 DEF ReceiveParks, ReceiverParks, Parking, Begin
  <2>2. CallsTyped'
    BY <1>1, <1>3 DEF ReceiveParks, Begin, CallsTyped, Calling, Alternative
  <2> QED BY <2>1, <2>2 DEF Deed
<1>4. ASSUME cur = t, op[t] # "none", Yield(t), UNCHANGED chanVars PROVE Deed
  BY <1>1, <1>4, PollDeed DEF chanVars, callVars
<1>5. ASSUME Resume(t) PROVE Deed
  BY <1>1, <1>5, IdleCallDeed DEF Resume, In, Return, Calling
<1>6. ASSUME NEW c \in Chan, TimedYields(t, c) PROVE Deed
  BY <1>4, <1>6 DEF TimedYields, In
<1>7. ASSUME SelectYields(t) PROVE Deed
  BY <1>4, <1>7 DEF SelectYields, SelectWaits, In
<1> QED BY <1>2, <1>3, <1>5, <1>6, <1>7 DEF TaskChannelStep

\* The calls in which the main program drives the scheduler.
LEMMA MainCallDeed ==
  ASSUME CInv, MainChannelStep
  PROVE  Deed
<1> USE SchedulerAssumption
<1>1. /\ op \in [Owner -> Calling] /\ alts \in [Owner -> SUBSET Alternative] /\ Main \in Owner
      /\ op[Main] = "send" => <<Main, "send">> \in Uses
  BY DEF CInv, ChanTyped, CallInv, Owner
<1>2. ASSUME NEW c \in Chan, MainSendWaits(c) \/ MainReceiveWaits(c) PROVE Deed
  <2>1. /\ cur = Main /\ pc[Main] = "run"
        /\ UNCHANGED <<vars, valueVars, listVars, slotVars, closed>>
        /\ \/ <<Main, "send">> \in Uses /\ Begin(Main, "send", {<<c, "send">>}, 0)
           \/ Begin(Main, "receive", {<<c, "receive">>}, 0)
    BY <1>2 DEF MainSendWaits, MainReceiveWaits, Calls, Runs
  <2>2. {<<c, "receive">>} \in SUBSET Alternative /\ {<<c, "send">>} \in SUBSET Alternative
    BY DEF Alternative
  <2> QED BY <1>1, <2>1, <2>2, IdleCallDeed DEF Calling
<1>3. ASSUME cur = Main, Return(Main), UNCHANGED <<vars, valueVars, listVars, slotVars, closed>>
      PROVE  Deed
  BY <1>1, <1>3, IdleCallDeed DEF Return, Calling
<1>4. ASSUME cur = Main, Return(Main), UNCHANGED <<switchVars, restVars, closed>>,
             UNCHANGED <<valueVars, listVars, slotVars, queueVars>>
      PROVE  Deed
  BY <1>3, <1>4 DEF vars, restVars
<1>5. ASSUME NEW c \in Chan, MainSendEnds(c) PROVE Deed
  <2>1. /\ cur = Main /\ Return(Main) /\ UNCHANGED closed /\ Stays /\ <<Main, "send">> \in Uses
    BY <1>1, <1>5 DEF MainSendEnds, In, Stays
  <2>2. CASE Put(c)
    BY <1>1, <2>1, <2>2, ReturnDeed
  <2>3. CASE UNCHANGED <<valueVars, listVars, slotVars, queueVars>>
    BY <2>1, <2>3, <1>4 DEF Stays
  <2> QED BY <1>5, <2>2, <2>3 DEF MainSendEnds
<1>6. ASSUME NEW c \in Chan, MainReceiveEnds(c) PROVE Deed
  <2>1. /\ cur = Main /\ Return(Main) /\ UNCHANGED closed /\ Stays
    BY <1>6 DEF MainReceiveEnds, In, Stays
  <2>2. CASE Take(c)
    BY <1>1, <2>1, <2>2, ReturnDeed
  <2>3. CASE UNCHANGED <<valueVars, listVars, slotVars, queueVars>>
    BY <2>1, <2>3, <1>4 DEF Stays
  <2> QED BY <1>6, <2>2, <2>3 DEF MainReceiveEnds
<1>7. ASSUME NEW c \in Chan, MainReceiveGivesUp(c) PROVE Deed
  BY <1>3, <1>7 DEF MainReceiveGivesUp, In
<1>8. ASSUME NEW c \in Chan, MainTimedRuns(c) PROVE Deed
  <2>1. /\ cur = Main /\ op[Main] # "none"
        /\ UNCHANGED <<op, alts, valueVars, listVars, slotVars, closed>>
        /\ WakeSleeper \/ (Dispatch(Main) /\ UNCHANGED <<pc, target, fateVars, sleepVars, waiterVars>>)
    BY <1>8 DEF MainTimedRuns, In, chanVars, callVars
  <2> QED BY <1>1, <2>1, PollDeed
<1>9. ASSUME MainChannelRuns PROVE Deed
  <2>1. /\ cur = Main /\ op[Main] \in {"send", "receive", "back"}
        /\ UNCHANGED <<alts, valueVars, listVars, slotVars, closed>>
        /\ WakeSleeper \/ (Dispatch(Main) /\ UNCHANGED <<pc, target, fateVars, sleepVars, waiterVars>>)
             \/ UNCHANGED vars
        /\ UNCHANGED op \/ op' = [op EXCEPT ![Main] = AfterRunOne]
    BY <1>9 DEF MainChannelRuns, MainDrivesChannel, In
  <2>2. CASE op[Main] = "receive"
    BY <1>1, <2>1, <2>2, PollDeed DEF AfterRunOne
  <2>3. CASE op[Main] # "receive"
    <3>1. UNCHANGED op
      BY <1>1, <2>1, <2>3 DEF AfterRunOne
    <3> QED BY <1>1, <2>1, <3>1, PollDeed
  <2> QED BY <2>2, <2>3
<1>10. ASSUME SelectSleeps PROVE Deed
  BY <1>10, PlainDeed DEF SelectSleeps, allVars
<1> QED BY <1>2, <1>5, <1>6, <1>7, <1>8, <1>9, <1>10 DEF MainChannelStep

\* Every step of a program is one of the deeds.
LEMMA StepDeed ==
  ASSUME CInv, [ChanNext]_allVars
  PROVE  Deed
<1>1. CASE TaskRuns
  BY <1>1, PlainDeed, TaskCallDeed, CallDeed DEF TaskRuns, Owner
<1>2. CASE MainRuns
  BY <1>2, PlainDeed, MainCallDeed, CallDeed DEF MainRuns, Owner
<1>3. CASE (Tick \/ Stopped) /\ UNCHANGED chanVars
  BY <1>3, PlainDeed DEF Stopped
<1>4. CASE UNCHANGED allVars
  BY <1>4, PlainDeed DEF allVars
<1> QED BY <1>1, <1>2, <1>3, <1>4 DEF ChanNext
-----------------------------------------------------------------------------
(* What the deeds do to the places of the tasks.                             *)

\* tya_task_enqueue for the tasks that a channel had parked.
LEMMA EnqueueAllPlace ==
  ASSUME PlaceInv, Stays, NEW s \in Seq(Task), IsInjective(s), Range(s) \subseteq Elsewhere,
         EnqueueAll(s)
  PROVE  PlaceInv' /\ Elsewhere' = Elsewhere \ Range(s)
<1> USE SchedulerAssumption DEF Stays, restVars, sleepVars, waiterVars, fateVars, switchVars
<1>1. /\ Range(s) \subseteq created
      /\ \A t \in Range(s) : /\ pc[t] = "run" /\ t \notin done
                             /\ t \notin On /\ t \notin queued /\ t \notin Range(sleepers)
  BY DEF Elsewhere, PlaceInv, PcInv, Typed
<1>2. ready' = ready \o s /\ queued' = queued \cup Range(s)
  BY <1>1 DEF EnqueueAll
<1>3. /\ ready \in Seq(Task) /\ IsInjective(ready) /\ Range(ready) = queued
  BY DEF PlaceInv, Typed, ListInv
<1>4. /\ ready' \in Seq(Task) /\ IsInjective(ready') /\ Range(ready') = queued'
  <2>1. Range(ready) \cap Range(s) = {}
    BY <1>1, <1>3
  <2> QED BY <1>2, <1>3, <2>1, ConcatFacts
<1>5. Typed'
  BY <1>1, <1>2, <1>4 DEF PlaceInv, Typed, Owner
<1>6. ListInv'
  BY <1>1, <1>2, <1>4 DEF PlaceInv, ListInv
<1>7. StackInv' /\ On' = On
  BY DEF PlaceInv, StackInv, On
<1>8. PcInv'
  BY <1>1, <1>2, <1>7 DEF PlaceInv, PcInv
<1>9. Parked' = Parked
  BY <1>1, <1>2, <1>7 DEF Parked
<1>10. LinkInv'
  BY <1>9 DEF PlaceInv, LinkInv
<1>11. Elsewhere' = Elsewhere \ Range(s)
  BY <1>1, <1>2, <1>7 DEF Elsewhere
<1> QED BY <1>5, <1>6, <1>7, <1>8, <1>10, <1>11 DEF PlaceInv

\* A list of one task.
LEMMA OneFacts ==
  ASSUME NEW S, NEW e \in S
  PROVE  <<e>> \in Seq(S) /\ IsInjective(<<e>>) /\ Range(<<e>>) = {e}
<1>1. <<e>> \in Seq(S) /\ DOMAIN <<e>> = 1..1 /\ <<e>>[1] = e
  OBVIOUS
<1> DEFINE s == <<e>>
<1>2. s \in Seq(S) /\ DOMAIN s = 1..1 /\ s[1] = e
  BY <1>1
<1> HIDE DEF s
<1>3. IsInjective(s)
  BY <1>2 DEF IsInjective
<1>4. Range(s) = {e}
  BY <1>2 DEF Range
<1> QED BY <1>2, <1>3, <1>4 DEF s

\* tya_task_enqueue for one of them.
LEMMA EnqueuePlace ==
  ASSUME PlaceInv, Stays, NEW t \in Elsewhere, Enqueue(t)
  PROVE  PlaceInv' /\ Elsewhere' = Elsewhere \ {t}
<1>1. t \in Task /\ t \notin done \cup queued
  BY DEF Elsewhere, PlaceInv, PcInv, Typed
<1>2. <<t>> \in Seq(Task) /\ IsInjective(<<t>>) /\ Range(<<t>>) = {t}
  BY <1>1, OneFacts
<1>3. ready' = ready \o <<t>> /\ queued' = queued \cup {t}
  <2>1. ready \in Seq(Task)
    BY DEF PlaceInv, Typed
  <2> QED BY <1>1, <2>1 DEF Enqueue
<1>4. EnqueueAll(<<t>>)
  BY <1>1, <1>2, <1>3 DEF EnqueueAll
<1> QED BY <1>2, <1>4, EnqueueAllPlace

\* A list of a channel: its tasks, and that they are on no other list.
LEMMA ListsFacts ==
  ASSUME CInv, NEW c \in Chan
  PROVE  /\ recvWaiters[c] \in Seq(Task) /\ IsInjective(recvWaiters[c])
         /\ sendWaiters[c] \in Seq(Task) /\ IsInjective(sendWaiters[c])
         /\ Range(recvWaiters[c]) \subseteq Elsewhere /\ Range(sendWaiters[c]) \subseteq Elsewhere
         /\ Range(recvWaiters[c]) \subseteq Task /\ Range(sendWaiters[c]) \subseteq Task
         /\ \A t \in Range(recvWaiters[c]) : op[t] = "receive" /\ alts[t] = {<<c, "receive">>}
         /\ \A t \in Range(sendWaiters[c]) : op[t] = "send" /\ alts[t] = {<<c, "send">>}
                                            /\ waiting[t] # 0
         /\ \A d \in Chan : Range(recvWaiters[c]) \cap Range(sendWaiters[d]) = {}
         /\ \A d \in Chan \ {c} : /\ Range(recvWaiters[c]) \cap Range(recvWaiters[d]) = {}
                                  /\ Range(sendWaiters[c]) \cap Range(sendWaiters[d]) = {}
<1>1. /\ recvWaiters[c] \in Seq(Task) /\ IsInjective(recvWaiters[c])
      /\ sendWaiters[c] \in Seq(Task) /\ IsInjective(sendWaiters[c])
  BY DEF CInv, ChanTyped, WaiterInv
<1>2. Range(recvWaiters[c]) \subseteq Elsewhere /\ Range(sendWaiters[c]) \subseteq Elsewhere
  BY DEF CInv, WaiterInv, Receivers, Senders
<1>3. Elsewhere \subseteq Task
  BY DEF CInv, PlaceInv, Typed, Elsewhere
<1>4. \A d \in Chan : Range(recvWaiters[c]) \cap Range(sendWaiters[d]) = {}
  <2> SUFFICES ASSUME NEW d \in Chan, NEW t \in Range(recvWaiters[c]), t \in Range(sendWaiters[d])
               PROVE  FALSE
    OBVIOUS
  <2> QED BY DEF CInv, WaiterInv
<1>5. ASSUME NEW d \in Chan, d # c
      PROVE  /\ Range(recvWaiters[c]) \cap Range(recvWaiters[d]) = {}
             /\ Range(sendWaiters[c]) \cap Range(sendWaiters[d]) = {}
  <2>1. \A call : {<<c, call>>} # {<<d, call>>}
    <3> TAKE call
    <3>1. <<c, call>>[1] # <<d, call>>[1]
      BY <1>5
    <3>2. <<c, call>> # <<d, call>>
      BY <3>1
    <3> QED BY <3>2
  <2>2. \A t \in Range(recvWaiters[c]) : alts[t] = {<<c, "receive">>}
    BY DEF CInv, WaiterInv
  <2>3. \A t \in Range(recvWaiters[d]) : alts[t] = {<<d, "receive">>}
    BY DEF CInv, WaiterInv
  <2>4. \A t \in Range(sendWaiters[c]) : alts[t] = {<<c, "send">>}
    BY DEF CInv, WaiterInv
  <2>5. \A t \in Range(sendWaiters[d]) : alts[t] = {<<d, "send">>}
    BY DEF CInv, WaiterInv
  <2>6. Range(recvWaiters[c]) \cap Range(recvWaiters[d]) = {}
    BY <2>1, <2>2, <2>3
  <2>7. Range(sendWaiters[c]) \cap Range(sendWaiters[d]) = {}
    BY <2>1, <2>4, <2>5
  <2> QED BY <2>6, <2>7
<1>6. /\ \A t \in Range(recvWaiters[c]) : op[t] = "receive" /\ alts[t] = {<<c, "receive">>}
      /\ \A t \in Range(sendWaiters[c]) : op[t] = "send" /\ alts[t] = {<<c, "send">>}
                                         /\ waiting[t] # 0
  BY DEF CInv, WaiterInv
<1> QED BY <1>1, <1>2, <1>3, <1>4, <1>5, <1>6

\* Taking tasks off the lists of one channel and making them ready keeps them all
\* accounted for.
LEMMA WaitersLeave ==
  ASSUME CInv, NEW c \in Chan, CallsKept, NEW gone \in SUBSET Task,
         gone \subseteq Range(recvWaiters[c]) \cup Range(sendWaiters[c]),
         Elsewhere' = Elsewhere \ gone,
         recvWaiters' = [recvWaiters EXCEPT ![c] = recvWaiters'[c]],
         sendWaiters' = [sendWaiters EXCEPT ![c] = sendWaiters'[c]],
         IsInjective(recvWaiters'[c]), IsInjective(sendWaiters'[c]),
         Range(recvWaiters'[c]) = Range(recvWaiters[c]) \ gone,
         Range(sendWaiters'[c]) = Range(sendWaiters[c]) \ gone,
         UNCHANGED waiting
  PROVE  WaiterInv'
<1>1. /\ recvWaiters \in [Chan -> Seq(Task)] /\ sendWaiters \in [Chan -> Seq(Task)]
  BY DEF CInv, ChanTyped
<1>2. \A d \in Chan \ {c} : recvWaiters'[d] = recvWaiters[d] /\ sendWaiters'[d] = sendWaiters[d]
  BY <1>1
<1>3. \A d \in Chan \ {c} : Range(recvWaiters[d]) \cap gone = {} /\ Range(sendWaiters[d]) \cap gone = {}
  BY ListsFacts
<1>4. \A d \in Chan : /\ Range(recvWaiters'[d]) = Range(recvWaiters[d]) \ gone
                      /\ Range(sendWaiters'[d]) = Range(sendWaiters[d]) \ gone
                      /\ IsInjective(recvWaiters'[d]) /\ IsInjective(sendWaiters'[d])
  BY <1>2, <1>3, ListsFacts
<1>5. Elsewhere' = (Receivers \cup Senders)'
  <2>1. Receivers' = Receivers \ gone
    BY <1>4 DEF Receivers
  <2>2. Senders' = Senders \ gone
    BY <1>4 DEF Senders
  <2> QED BY <2>1, <2>2 DEF CInv, WaiterInv
<1>6. \A t \in Elsewhere : op'[t] = op[t] /\ alts'[t] = alts[t]
  BY DEF CallsKept, CInv, PlaceInv, Typed, Elsewhere, Owner
<1>7. ASSUME NEW d \in Chan
      PROVE  /\ \A t \in Range(recvWaiters'[d]) : op'[t] = "receive" /\ alts'[t] = {<<d, "receive">>}
             /\ \A t \in Range(sendWaiters'[d]) : /\ op'[t] = "send" /\ alts'[t] = {<<d, "send">>}
                                                 /\ waiting'[t] # 0
  <2>1. /\ \A t \in Range(recvWaiters'[d]) : t \in Range(recvWaiters[d]) /\ t \in Elsewhere
        /\ \A t \in Range(sendWaiters'[d]) : t \in Range(sendWaiters[d]) /\ t \in Elsewhere
    BY <1>4, ListsFacts, SMTT(30)
  <2> QED BY <1>6, <2>1, ListsFacts
<1> QED BY <1>4, <1>5, <1>7 DEF WaiterInv

\* A task that is parked at the end of a list is not on any other.
LEMMA WaiterComes ==
  ASSUME CInv, NEW c \in Chan, NEW t \in Task, SenderParks(t, c) \/ ReceiverParks(t, c)
  PROVE  PlaceInv' /\ WaiterInv'
<1>1. Park(t) /\ cur = t /\ t \notin Elsewhere /\ PlaceInv' /\ Elsewhere' = Elsewhere \cup {t}
  BY ParkPlace, RunnerHere DEF SenderParks, ReceiverParks, Parking, Park, Runs, CInv
<1>2. /\ recvWaiters \in [Chan -> Seq(Task)] /\ sendWaiters \in [Chan -> Seq(Task)]
      /\ op \in [Owner -> Calling] /\ alts \in [Owner -> SUBSET Alternative] /\ t \in Owner
      /\ waiting \in [Task -> Values \cup {0}]
      /\ sent[c] \in Nat
  BY DEF CInv, ChanTyped, Owner
<1>3. \A d \in Chan : t \notin Range(recvWaiters[d]) /\ t \notin Range(sendWaiters[d])
  BY <1>1, ListsFacts
<1>4. \A u \in Elsewhere : /\ op'[u] = op[u] /\ alts'[u] = alts[u] /\ waiting'[u] = waiting[u]
                           /\ u \in Task
  <2>1. \A u \in Elsewhere : u # t /\ u \in Task /\ u \in Owner
    BY <1>1 DEF CInv, PlaceInv, Typed, Elsewhere, Owner
  <2> QED BY <1>2, <2>1 DEF SenderParks, ReceiverParks, Parking, slotVars
<1>5. CASE SenderParks(t, c)
  <2>1. /\ recvWaiters' = recvWaiters
        /\ sendWaiters'[c] = Append(sendWaiters[c], t)
        /\ \A d \in Chan \ {c} : sendWaiters'[d] = sendWaiters[d]
        /\ op'[t] = "send" /\ alts'[t] = {<<c, "send">>} /\ waiting'[t] # 0
    BY <1>2, <1>5 DEF SenderParks, Parking
  <2>2. IsInjective(sendWaiters'[c]) /\ Range(sendWaiters'[c]) = Range(sendWaiters[c]) \cup {t}
    BY <1>3, <2>1, ListsFacts, AppendFacts
  <2>3. Receivers' = Receivers
    BY <2>1 DEF Receivers
  <2>4. Senders' = Senders \cup {t}
    <3>1. \A d \in Chan : Range(sendWaiters'[d]) = IF d = c THEN Range(sendWaiters[c]) \cup {t}
                                                      ELSE Range(sendWaiters[d])
      BY <2>1, <2>2
    <3> QED BY <3>1 DEF Senders
  <2>5. Elsewhere' = (Receivers \cup Senders)'
    BY <1>1, <2>3, <2>4 DEF CInv, WaiterInv
  <2>6. ASSUME NEW d \in Chan
        PROVE  /\ IsInjective(recvWaiters'[d]) /\ IsInjective(sendWaiters'[d])
               /\ \A u \in Range(recvWaiters'[d]) : op'[u] = "receive" /\ alts'[u] = {<<d, "receive">>}
               /\ \A u \in Range(sendWaiters'[d]) : /\ op'[u] = "send" /\ alts'[u] = {<<d, "send">>}
                                                   /\ waiting'[u] # 0
    <3>1. /\ \A u \in Range(recvWaiters'[d]) : u \in Range(recvWaiters[d])
          /\ \A u \in Range(sendWaiters'[d]) : u \in Range(sendWaiters[d]) \/ (u = t /\ d = c)
          /\ IsInjective(recvWaiters'[d]) /\ IsInjective(sendWaiters'[d])
      BY <2>1, <2>2, ListsFacts
    <3>2. Range(recvWaiters[d]) \subseteq Elsewhere /\ Range(sendWaiters[d]) \subseteq Elsewhere
      BY ListsFacts
    <3>3. /\ \A u \in Range(recvWaiters[d]) : op[u] = "receive" /\ alts[u] = {<<d, "receive">>}
          /\ \A u \in Range(sendWaiters[d]) : op[u] = "send" /\ alts[u] = {<<d, "send">>}
                                             /\ waiting[u] # 0
      BY ListsFacts
    <3> QED BY <1>4, <2>1, <3>1, <3>2, <3>3
  <2> QED BY <1>1, <2>5, <2>6 DEF WaiterInv
<1>6. CASE ReceiverParks(t, c)
  <2>1. /\ sendWaiters' = sendWaiters
        /\ recvWaiters'[c] = Append(recvWaiters[c], t)
        /\ \A d \in Chan \ {c} : recvWaiters'[d] = recvWaiters[d]
        /\ op'[t] = "receive" /\ alts'[t] = {<<c, "receive">>}
    BY <1>2, <1>6 DEF ReceiverParks, Parking
  <2>2. IsInjective(recvWaiters'[c]) /\ Range(recvWaiters'[c]) = Range(recvWaiters[c]) \cup {t}
    BY <1>3, <2>1, ListsFacts, AppendFacts
  <2>3. Senders' = Senders
    BY <2>1 DEF Senders
  <2>4. Receivers' = Receivers \cup {t}
    <3>1. \A d \in Chan : Range(recvWaiters'[d]) = IF d = c THEN Range(recvWaiters[c]) \cup {t}
                                                      ELSE Range(recvWaiters[d])
      BY <2>1, <2>2
    <3> QED BY <3>1 DEF Receivers
  <2>5. Elsewhere' = (Receivers \cup Senders)'
    BY <1>1, <2>3, <2>4 DEF CInv, WaiterInv
  <2>6. ASSUME NEW d \in Chan
        PROVE  /\ IsInjective(recvWaiters'[d]) /\ IsInjective(sendWaiters'[d])
               /\ \A u \in Range(recvWaiters'[d]) : op'[u] = "receive" /\ alts'[u] = {<<d, "receive">>}
               /\ \A u \in Range(sendWaiters'[d]) : /\ op'[u] = "send" /\ alts'[u] = {<<d, "send">>}
                                                   /\ waiting'[u] # 0
    <3>1. /\ \A u \in Range(sendWaiters'[d]) : u \in Range(sendWaiters[d])
          /\ \A u \in Range(recvWaiters'[d]) : u \in Range(recvWaiters[d]) \/ (u = t /\ d = c)
          /\ IsInjective(recvWaiters'[d]) /\ IsInjective(sendWaiters'[d])
      BY <2>1, <2>2, ListsFacts
    <3>2. Range(recvWaiters[d]) \subseteq Elsewhere /\ Range(sendWaiters[d]) \subseteq Elsewhere
      BY ListsFacts
    <3>3. /\ \A u \in Range(recvWaiters[d]) : op[u] = "receive" /\ alts[u] = {<<d, "receive">>}
          /\ \A u \in Range(sendWaiters[d]) : op[u] = "send" /\ alts[u] = {<<d, "send">>}
                                             /\ waiting[u] # 0
      BY ListsFacts
    <3> QED BY <1>4, <2>1, <3>1, <3>2, <3>3
  <2> QED BY <1>1, <2>5, <2>6 DEF WaiterInv
<1> QED BY <1>5, <1>6
-----------------------------------------------------------------------------
(* What the deeds do to the values.                                          *)

\* What the invariant says of the values that were handed out, of those in the
\* buffer and of those of blocked senders, when n were accepted.
Spread(g, b, w, n, open) ==
  /\ IsInjective(g) /\ IsInjective(b) /\ IsInjective(w)
  /\ Range(g) \cap Range(b) = {}
  /\ Range(g) \cap Range(w) = {}
  /\ Range(b) \cap Range(w) = {}
  /\ Range(g) \cup Range(b) \cup Range(w) \subseteq 1..n
  /\ open => /\ Range(g) \cup Range(b) \cup Range(w) = 1..n
             /\ Len(g) + Len(b) + Len(w) = n

LEMMA SpreadMeans ==
  ASSUME NEW g \in Seq(Values), NEW b \in Seq(Values), NEW w \in Seq(Values), NEW n \in Nat,
         NEW open \in BOOLEAN
  PROVE  Spread(g, b, w, n, open) <=>
           /\ IsInjective(g \o b \o w)
           /\ Range(g \o b \o w) \subseteq 1..n
           /\ open => Range(g \o b \o w) = 1..n /\ Len(g \o b \o w) = n
<1> HIDE DEF Values
<1> DEFINE f == g \o b
<1>1. /\ f \in Seq(Values)
      /\ Range(f) = Range(g) \cup Range(b)
      /\ IsInjective(f) <=> IsInjective(g) /\ IsInjective(b) /\ Range(g) \cap Range(b) = {}
  BY ConcatFacts
<1>2. Len(f \o w) = Len(g) + Len(b) + Len(w)
  BY ConcatThree
<1> HIDE DEF f
<1>3. /\ Range(f \o w) = Range(f) \cup Range(w)
      /\ IsInjective(f \o w) <=> IsInjective(f) /\ IsInjective(w) /\ Range(f) \cap Range(w) = {}
  BY <1>1, ConcatFacts
<1>4. Spread(g, b, w, n, open) <=>
        /\ IsInjective(f \o w)
        /\ Range(f \o w) \subseteq 1..n
        /\ open => Range(f \o w) = 1..n /\ Len(f \o w) = n
  BY <1>1, <1>2, <1>3 DEF Spread
<1> QED BY <1>4 DEF f

\* A new value goes to the end of one of the three.
LEMMA SpreadAppend ==
  ASSUME NEW g \in Seq(Values), NEW b \in Seq(Values), NEW w \in Seq(Values), NEW n \in Nat,
         NEW open \in BOOLEAN, Spread(g, b, w, n, open)
  PROVE  /\ Append(g, n + 1) \in Seq(Values) /\ Spread(Append(g, n + 1), b, w, n + 1, open)
         /\ Append(b, n + 1) \in Seq(Values) /\ Spread(g, Append(b, n + 1), w, n + 1, open)
         /\ Append(w, n + 1) \in Seq(Values) /\ Spread(g, b, Append(w, n + 1), n + 1, open)
<1>1. /\ n + 1 \in Values
      /\ n + 1 \notin 1..n
      /\ 1..(n + 1) = (1..n) \cup {n + 1}
  BY DEF Values
<1>2. n + 1 \notin Range(g) /\ n + 1 \notin Range(b) /\ n + 1 \notin Range(w)
  BY <1>1 DEF Spread
<1>3. ASSUME NEW s \in Seq(Values), n + 1 \notin Range(s), IsInjective(s)
      PROVE  /\ Append(s, n + 1) \in Seq(Values)
             /\ IsInjective(Append(s, n + 1))
             /\ Range(Append(s, n + 1)) = Range(s) \cup {n + 1}
             /\ Len(Append(s, n + 1)) = Len(s) + 1
             /\ Len(s) \in Nat
  BY <1>1, <1>3, AppendFacts
<1> HIDE DEF Values
<1>4. Append(g, n + 1) \in Seq(Values) /\ Spread(Append(g, n + 1), b, w, n + 1, open)
  <2> DEFINE a == Append(g, n + 1)
  <2>1. /\ a \in Seq(Values) /\ IsInjective(a) /\ Range(a) = Range(g) \cup {n + 1}
        /\ Len(a) = Len(g) + 1 /\ Len(g) \in Nat
    BY <1>2, <1>3 DEF Spread
  <2>2. Len(b) \in Nat /\ Len(w) \in Nat
    OBVIOUS
  <2> HIDE DEF a
  <2>3. /\ Range(b) \cap Range(a) = {} /\ Range(w) \cap Range(a) = {}
        /\ Range(g) \cup Range(b) \cup Range(w) \subseteq 1..n
    BY <1>2, <2>1 DEF Spread
  <2>4. Range(a) \cup Range(b) \cup Range(w) = Range(g) \cup Range(b) \cup Range(w) \cup {n + 1}
    BY <2>1
  <2>5. ASSUME open
        PROVE  /\ Range(a) \cup Range(b) \cup Range(w) = 1..(n + 1)
               /\ Len(a) + Len(b) + Len(w) = n + 1
    <3>1. Range(g) \cup Range(b) \cup Range(w) = 1..n /\ Len(g) + Len(b) + Len(w) = n
      BY <2>5 DEF Spread
    <3>2. Range(a) \cup Range(b) \cup Range(w) = 1..(n + 1)
      BY <1>1, <2>4, <3>1
    <3>3. Len(a) + Len(b) + Len(w) = n + 1
      BY <2>1, <2>2, <3>1
    <3> QED BY <3>2, <3>3
  <2>6. Range(a) \cup Range(b) \cup Range(w) \subseteq 1..(n + 1)
    BY <1>1, <2>3, <2>4
  <2>7. Spread(a, b, w, n + 1, open)
    BY <2>1, <2>2, <2>3, <2>5, <2>6 DEF Spread
  <2> QED BY <2>1, <2>7 DEF a
<1>5. Append(b, n + 1) \in Seq(Values) /\ Spread(g, Append(b, n + 1), w, n + 1, open)
  <2> DEFINE a == Append(b, n + 1)
  <2>1. /\ a \in Seq(Values) /\ IsInjective(a) /\ Range(a) = Range(b) \cup {n + 1}
        /\ Len(a) = Len(b) + 1 /\ Len(b) \in Nat
    BY <1>2, <1>3 DEF Spread
  <2>2. Len(g) \in Nat /\ Len(w) \in Nat
    OBVIOUS
  <2> HIDE DEF a
  <2>3. /\ Range(g) \cap Range(a) = {} /\ Range(w) \cap Range(a) = {}
        /\ Range(g) \cup Range(b) \cup Range(w) \subseteq 1..n
    BY <1>2, <2>1 DEF Spread
  <2>4. Range(a) \cup Range(g) \cup Range(w) = Range(g) \cup Range(b) \cup Range(w) \cup {n + 1}
    BY <2>1
  <2>5. ASSUME open
        PROVE  /\ Range(a) \cup Range(g) \cup Range(w) = 1..(n + 1)
               /\ Len(a) + Len(g) + Len(w) = n + 1
    <3>1. Range(g) \cup Range(b) \cup Range(w) = 1..n /\ Len(g) + Len(b) + Len(w) = n
      BY <2>5 DEF Spread
    <3>2. Range(a) \cup Range(g) \cup Range(w) = 1..(n + 1)
      BY <1>1, <2>4, <3>1
    <3>3. Len(a) + Len(g) + Len(w) = n + 1
      BY <2>1, <2>2, <3>1, SMTT(30)
    <3> QED BY <3>2, <3>3
  <2>6. Range(a) \cup Range(g) \cup Range(w) \subseteq 1..(n + 1)
    BY <1>1, <2>3, <2>4
  <2>7. Spread(g, a, w, n + 1, open)
    BY <2>1, <2>2, <2>3, <2>5, <2>6 DEF Spread
  <2> QED BY <2>1, <2>7 DEF a
<1>6. Append(w, n + 1) \in Seq(Values) /\ Spread(g, b, Append(w, n + 1), n + 1, open)
  <2> DEFINE a == Append(w, n + 1)
  <2>1. /\ a \in Seq(Values) /\ IsInjective(a) /\ Range(a) = Range(w) \cup {n + 1}
        /\ Len(a) = Len(w) + 1 /\ Len(w) \in Nat
    BY <1>2, <1>3 DEF Spread
  <2>2. Len(g) \in Nat /\ Len(b) \in Nat
    OBVIOUS
  <2> HIDE DEF a
  <2>3. /\ Range(g) \cap Range(a) = {} /\ Range(b) \cap Range(a) = {}
        /\ Range(g) \cup Range(b) \cup Range(w) \subseteq 1..n
    BY <1>2, <2>1 DEF Spread
  <2>4. Range(a) \cup Range(g) \cup Range(b) = Range(g) \cup Range(b) \cup Range(w) \cup {n + 1}
    BY <2>1
  <2>5. ASSUME open
        PROVE  /\ Range(a) \cup Range(g) \cup Range(b) = 1..(n + 1)
               /\ Len(a) + Len(g) + Len(b) = n + 1
    <3>1. Range(g) \cup Range(b) \cup Range(w) = 1..n /\ Len(g) + Len(b) + Len(w) = n
      BY <2>5 DEF Spread
    <3>2. Range(a) \cup Range(g) \cup Range(b) = 1..(n + 1)
      BY <1>1, <2>4, <3>1
    <3>3. Len(a) + Len(g) + Len(b) = n + 1
      <4>1. /\ Len(a) = Len(w) + 1 /\ Len(w) \in Nat /\ Len(g) \in Nat /\ Len(b) \in Nat
            /\ Len(g) + Len(b) + Len(w) = n
        BY <2>1, <2>2, <3>1
      <4> QED BY <4>1
    <3> QED BY <3>2, <3>3
  <2>6. Range(a) \cup Range(g) \cup Range(b) \subseteq 1..(n + 1)
    BY <1>1, <2>3, <2>4
  <2>7. Spread(g, b, a, n + 1, open)
    BY <2>1, <2>2, <2>3, <2>5, <2>6 DEF Spread
  <2> QED BY <2>1, <2>7 DEF a
<1> QED BY <1>4, <1>5, <1>6

\* The first value of the buffer is handed out and k of the blocked ones come in.
LEMMA SpreadShift ==
  ASSUME NEW g \in Seq(Values), NEW b \in Seq(Values), NEW w \in Seq(Values), NEW n \in Nat,
         NEW open \in BOOLEAN, Spread(g, b, w, n, open), b # <<>>, NEW k \in 0..Len(w)
  PROVE  /\ Append(g, Head(b)) \in Seq(Values)
         /\ Tail(b) \o SubSeq(w, 1, k) \in Seq(Values)
         /\ Len(Tail(b) \o SubSeq(w, 1, k)) = Len(b) - 1 + k
         /\ SubSeq(w, k + 1, Len(w)) \in Seq(Values)
         /\ Spread(Append(g, Head(b)), Tail(b) \o SubSeq(w, 1, k), SubSeq(w, k + 1, Len(w)), n, open)
<1> HIDE DEF Values
<1> DEFINE h == Head(b)
           t == Tail(b)
           x == SubSeq(w, 1, k)
           y == SubSeq(w, k + 1, Len(w))
           a == Append(g, h)
           u == t \o x
<1>1. /\ h \in Values /\ h \in Range(b) /\ t \in Seq(Values) /\ IsInjective(t)
      /\ Range(t) = Range(b) \ {h} /\ Len(t) = Len(b) - 1 /\ Len(b) \in Nat
  BY TailFacts, HeadTail DEF Spread
<1>2. /\ x \in Seq(Values) /\ y \in Seq(Values) /\ Len(x) = k /\ Len(y) = Len(w) - k
      /\ w = x \o y /\ Len(w) \in Nat
  <2>1. Len(w) \in Nat
    OBVIOUS
  <2>2. /\ SubSeq(w, 1, k) \in Seq(Values) /\ SubSeq(w, k + 1, Len(w)) \in Seq(Values)
        /\ Len(SubSeq(w, 1, k)) = k /\ Len(SubSeq(w, k + 1, Len(w))) = Len(w) - k
        /\ w = SubSeq(w, 1, k) \o SubSeq(w, k + 1, Len(w))
    BY SplitFacts, ZenonT(30)
  <2> HIDE DEF x, y
  <2>3. x = SubSeq(w, 1, k) /\ y = SubSeq(w, k + 1, Len(w))
    BY DEF x, y
  <2> QED BY <2>1, <2>2, <2>3
<1> HIDE DEF x, y, h, t
<1>3. /\ Range(w) = Range(x) \cup Range(y) /\ IsInjective(x) /\ IsInjective(y)
      /\ Range(x) \cap Range(y) = {}
  BY <1>2, ConcatFacts DEF Spread
<1>4. /\ a \in Seq(Values) /\ IsInjective(a) /\ Range(a) = Range(g) \cup {h}
      /\ Len(a) = Len(g) + 1 /\ Len(g) \in Nat
  <2>1. h \notin Range(g) /\ IsInjective(g)
    BY <1>1 DEF Spread
  <2> QED BY <1>1, <2>1, AppendFacts
<1>5. /\ u \in Seq(Values) /\ IsInjective(u) /\ Range(u) = Range(t) \cup Range(x)
      /\ Len(u) = Len(t) + Len(x)
  <2>1. Range(t) \cap Range(x) = {}
    BY <1>1, <1>3 DEF Spread
  <2>2. t \in Seq(Values) /\ x \in Seq(Values)
    BY <1>1, <1>2
  <2>3. Len(t \o x) = Len(t) + Len(x)
    BY <2>2
  <2>4. t \o x \in Seq(Values) /\ Range(t \o x) = Range(t) \cup Range(x) /\ IsInjective(t \o x)
    BY <1>1, <1>3, <2>1, <2>2, ConcatFacts
  <2> QED BY <2>3, <2>4
<1> HIDE DEF a, u
<1>6. Spread(a, u, y, n, open)
  <2>1. Range(a) \cup Range(u) \cup Range(y) = Range(g) \cup Range(b) \cup Range(w)
    BY <1>1, <1>3, <1>4, <1>5
  <2>2. Len(a) + Len(u) + Len(y) = Len(g) + Len(b) + Len(w)
    BY <1>1, <1>2, <1>4, <1>5
  <2>3. Range(a) \cap Range(u) = {} /\ Range(a) \cap Range(y) = {} /\ Range(u) \cap Range(y) = {}
    BY <1>1, <1>3, <1>4, <1>5, SMTT(30) DEF Spread
  <2> QED BY <1>3, <1>4, <1>5, <2>1, <2>2, <2>3 DEF Spread
<1> QED BY <1>1, <1>2, <1>4, <1>5, <1>6 DEF a, u, x, y, h, t

\* The values of blocked senders are dropped.
LEMMA SpreadDrop ==
  ASSUME NEW g, NEW b, NEW w, NEW n, NEW open, Spread(g, b, w, n, open)
  PROVE  Spread(g, b, <<>>, n, FALSE)
BY DEF Spread, IsInjective, Range
-----------------------------------------------------------------------------
\* The values that the senders parked on a channel are blocked with.
LEMMA BlockedFacts ==
  ASSUME CInv, NEW c \in Chan
  PROVE  /\ Blocked(c) \in Seq(Values)
         /\ Len(Blocked(c)) = Len(sendWaiters[c]) /\ Len(sendWaiters[c]) \in Nat
         /\ \A i \in 1..Len(sendWaiters[c]) : Blocked(c)[i] = waiting[sendWaiters[c][i]]
<1> DEFINE s == sendWaiters[c]
<1>1. /\ s \in Seq(Task) /\ \A t \in Range(s) : waiting[t] # 0
      /\ waiting \in [Task -> Values \cup {0}]
  BY ListsFacts DEF CInv, ChanTyped
<1> HIDE DEF s
<1>2. DOMAIN s = 1..Len(s) /\ Len(s) \in Nat
  BY <1>1
<1>3. \A i \in 1..Len(s) : waiting[s[i]] \in Values
  <2>1. \A i \in 1..Len(s) : s[i] \in Range(s) /\ s[i] \in Task
    BY <1>1, <1>2 DEF Range
  <2> QED BY <1>1, <2>1
<1>4. Blocked(c) = [i \in 1..Len(s) |-> waiting[s[i]]]
  BY <1>2 DEF Blocked, s
<1> DEFINE w == [i \in 1..Len(s) |-> waiting[s[i]]]
<1>5. w \in Seq(Values) /\ Len(w) = Len(s)
  BY <1>2, <1>3
<1>6. \A i \in 1..Len(s) : w[i] = waiting[s[i]]
  OBVIOUS
<1> QED BY <1>2, <1>4, <1>5, <1>6 DEF s

LEMMA SpreadHere ==
  ASSUME CInv, NEW c \in Chan
  PROVE  /\ got[c] \in Seq(Values) /\ buffer[c] \in Seq(Values) /\ Blocked(c) \in Seq(Values)
         /\ sent[c] \in Nat
         /\ Spread(got[c], buffer[c], Blocked(c), sent[c], c \notin closed)
<1>1. /\ got[c] \in Seq(Values) /\ buffer[c] \in Seq(Values) /\ sent[c] \in Nat
      /\ Blocked(c) \in Seq(Values)
  BY BlockedFacts DEF CInv, ChanTyped
<1>2. ValuesOn(c)
  BY DEF CInv, ValueInv
<1> HIDE DEF Values
<1> DEFINE g == got[c]
           b == buffer[c]
           w == Blocked(c)
           n == sent[c]
           o == c \notin closed
<1>3. /\ g \in Seq(Values) /\ b \in Seq(Values) /\ w \in Seq(Values) /\ n \in Nat
      /\ o \in BOOLEAN
  BY <1>1
<1>4. /\ IsInjective(g \o b \o w)
      /\ Range(g \o b \o w) \subseteq 1..n
      /\ o => Range(g \o b \o w) = 1..n /\ Len(g \o b \o w) = n
  BY <1>2 DEF ValuesOn, All
<1> HIDE DEF g, b, w, n, o
<1>5. Spread(g, b, w, n, o)
  BY <1>3, <1>4, SpreadMeans
<1> QED BY <1>1, <1>5 DEF g, b, w, n, o

\* A step that changes the values of one channel only.
LEMMA ValuesChange ==
  ASSUME CInv, NEW c \in Chan, NEW g \in Seq(Values), NEW b \in Seq(Values),
         NEW w \in Seq(Values), NEW n \in Nat, NEW open \in BOOLEAN,
         Spread(g, b, w, n, open), Len(b) <= Cap(c), Blocked(c)' = w,
         got' = [got EXCEPT ![c] = g], buffer' = [buffer EXCEPT ![c] = b],
         sent' = [sent EXCEPT ![c] = n],
         closed' \in {closed, closed \cup {c}}, c \notin closed' => open,
         \A d \in Chan \ {c} : Blocked(d)' = Blocked(d)
  PROVE  /\ ValueInv'
         /\ got' \in [Chan -> Seq(Values)] /\ buffer' \in [Chan -> Seq(Values)]
         /\ sent' \in [Chan -> Nat] /\ closed' \subseteq Chan
         /\ \A d \in Chan : Len(buffer'[d]) <= Cap(d)
<1> HIDE DEF Values
<1>1. /\ got \in [Chan -> Seq(Values)] /\ buffer \in [Chan -> Seq(Values)] /\ sent \in [Chan -> Nat]
      /\ closed \subseteq Chan /\ \A d \in Chan : Len(buffer[d]) <= Cap(d)
  BY DEF CInv, ChanTyped
<1>2. ValuesOn(c)'
  <2>1. /\ IsInjective(g \o b \o w)
        /\ Range(g \o b \o w) \subseteq 1..n
        /\ open => Range(g \o b \o w) = 1..n /\ Len(g \o b \o w) = n
    BY SpreadMeans
  <2>2. All(c)' = g \o b \o w /\ sent'[c] = n
    BY <1>1 DEF All
  <2> QED BY <2>1, <2>2 DEF ValuesOn
<1>3. ASSUME NEW d \in Chan, d # c PROVE ValuesOn(d)'
  <2>1. All(d)' = All(d) /\ sent'[d] = sent[d] /\ (d \in closed' <=> d \in closed)
    BY <1>1, <1>3 DEF All
  <2> QED BY <2>1 DEF CInv, ValueInv, ValuesOn
<1>4. ValueInv'
  BY <1>2, <1>3 DEF ValueInv
<1>5. \A d \in Chan : Len(buffer'[d]) <= Cap(d)
  <2> TAKE d \in Chan
  <2>1. buffer'[d] = IF d = c THEN b ELSE buffer[d]
    BY <1>1
  <2> QED BY <1>1, <2>1
<1> QED BY <1>1, <1>4, <1>5

\* Blocked senders that are neither moved nor given another value.
LEMMA SameBlocked ==
  ASSUME NEW d, sendWaiters'[d] = sendWaiters[d],
         \A t \in Range(sendWaiters[d]) : waiting'[t] = waiting[t]
  PROVE  Blocked(d)' = Blocked(d)
<1>1. \A i \in DOMAIN sendWaiters[d] : sendWaiters[d][i] \in Range(sendWaiters[d])
  BY DEF Range
<1> QED BY <1>1 DEF Blocked

\* The calls stay those that the program may make, and a task in one runs.
LEMMA CallsStay ==
  ASSUME CInv, CallsKept
  PROVE  CallInv'
<1>1. ASSUME NEW o \in Owner
      PROVE  /\ o \in Task /\ op'[o] # "none" => pc'[o] = "run"
             /\ op'[o] = "send" => <<o, "send">> \in Uses
             /\ op'[o] = "poll" => <<o, "timed">> \in Uses
  BY DEF CallsKept, CInv, CallInv
<1> QED BY <1>1 DEF CallInv

\* Who waits for an answer keeps waiting for the same one.
LEMMA AnswersStay ==
  ASSUME CInv, CallsKept,
         \A t \in Task, c \in Chan :
           /\ op[t] = "receive" /\ alts[t] = {<<c, "receive">>}
           /\ t \in Range(recvWaiters[c]) \/ pending[t] # 0 \/ c \in closed
           => t \in Range(recvWaiters'[c]) \/ pending'[t] # 0 \/ c \in closed'
  PROVE  AnswerInv'
<1> SUFFICES ASSUME NEW t \in Task, op'[t] = "receive"
             PROVE  \E c \in Chan : /\ alts'[t] = {<<c, "receive">>}
                                    /\ t \in Range(recvWaiters'[c]) \/ pending'[t] # 0 \/ c \in closed'
  BY DEF AnswerInv
<1>1. op[t] = "receive" /\ alts'[t] = alts[t]
  BY SchedulerAssumption DEF CallsKept, Owner
<1>2. PICK c \in Chan : /\ alts[t] = {<<c, "receive">>}
                        /\ t \in Range(recvWaiters[c]) \/ pending[t] # 0 \/ c \in closed
  BY <1>1 DEF CInv, AnswerInv
<1> QED BY <1>1, <1>2
-----------------------------------------------------------------------------
(* Each deed preserves the invariant.                                        *)

\* Lists that stay as they are.
LEMMA WaitersStay ==
  ASSUME CInv, CallsKept, Elsewhere' = Elsewhere, UNCHANGED <<listVars, waiting>>
  PROVE  WaiterInv'
<1>1. \A t \in Elsewhere : op'[t] = op[t] /\ alts'[t] = alts[t]
  BY DEF CallsKept, CInv, PlaceInv, Typed, Elsewhere, Owner
<1>2. recvWaiters' = recvWaiters /\ sendWaiters' = sendWaiters /\ waiting' = waiting
  BY DEF listVars
<1>3. Elsewhere' = (Receivers \cup Senders)'
  BY <1>2 DEF CInv, WaiterInv, Receivers, Senders
<1>4. ASSUME NEW c \in Chan
      PROVE  /\ IsInjective(recvWaiters'[c]) /\ IsInjective(sendWaiters'[c])
             /\ \A t \in Range(recvWaiters'[c]) : op'[t] = "receive" /\ alts'[t] = {<<c, "receive">>}
             /\ \A t \in Range(sendWaiters'[c]) : /\ op'[t] = "send" /\ alts'[t] = {<<c, "send">>}
                                                 /\ waiting'[t] # 0
  <2>1. Range(recvWaiters[c]) \subseteq Elsewhere /\ Range(sendWaiters[c]) \subseteq Elsewhere
    BY ListsFacts
  <2>2. /\ IsInjective(recvWaiters[c]) /\ IsInjective(sendWaiters[c])
        /\ \A t \in Range(recvWaiters[c]) : op[t] = "receive" /\ alts[t] = {<<c, "receive">>}
        /\ \A t \in Range(sendWaiters[c]) : op[t] = "send" /\ alts[t] = {<<c, "send">>}
                                           /\ waiting[t] # 0
    BY ListsFacts
  <2> QED BY <1>1, <1>2, <2>1, <2>2
<1> QED BY <1>3, <1>4 DEF WaiterInv

\* A step that moves no value.
LEMMA QuietSafe ==
  ASSUME CInv, Quiet, PlaceInv', Elsewhere' = Elsewhere, CallsKept, CallsTyped'
  PROVE  CInv'
<1>1. WaiterInv'
  BY WaitersStay DEF Quiet, slotVars
<1>2. CallInv'
  BY CallsStay
<1>3. AnswerInv'
  BY AnswersStay DEF Quiet, listVars, slotVars
<1>4. ChanTyped'
  BY DEF CInv, ChanTyped, CallsTyped, Quiet, listVars, slotVars, valueVars
<1>5. ValueInv'
  <2>1. ASSUME NEW c \in Chan PROVE ValuesOn(c)'
    <3>1. Blocked(c)' = Blocked(c)
      BY SameBlocked DEF Quiet, listVars, slotVars
    <3>2. All(c)' = All(c)
      BY <3>1 DEF All, Quiet, valueVars
    <3> QED BY <3>2 DEF CInv, ValueInv, ValuesOn, Quiet, valueVars
  <2> QED BY <2>1 DEF ValueInv
<1> QED BY <1>1, <1>2, <1>3, <1>4, <1>5 DEF CInv

\* A value that is handed to the first parked receiver.
LEMMA HandOverSafe ==
  ASSUME CInv, NEW c \in Chan, HandOver(c), Stays, CallsKept, CallsTyped', UNCHANGED closed
  PROVE  CInv'
<1> DEFINE s == recvWaiters[c]
           h == Head(s)
           r == Tail(s)
<1>1. s # <<>> /\ recvWaiters' = [recvWaiters EXCEPT ![c] = r] /\ UNCHANGED <<sendWaiters, waiting>>
      /\ pending' = [pending EXCEPT ![h] = sent[c] + 1] /\ Enqueue(h) /\ c \notin closed
  BY DEF HandOver, CanHandOver
<1>2. /\ recvWaiters \in [Chan -> Seq(Task)] /\ sendWaiters \in [Chan -> Seq(Task)]
      /\ waiting \in [Task -> Values \cup {0}] /\ pending \in [Task -> Nat] /\ sent[c] \in Nat
      /\ buffer \in [Chan -> Seq(Values)] /\ Len(buffer[c]) <= Cap(c)
  BY DEF CInv, ChanTyped
<1>3. s \in Seq(Task) /\ IsInjective(s) /\ Range(s) \subseteq Elsewhere
  BY ListsFacts
<1>4. h \in Task /\ h \in Range(s) /\ r \in Seq(Task) /\ IsInjective(r) /\ Range(r) = Range(s) \ {h}
  <2> HIDE DEF s
  <2> QED BY <1>1, <1>3, TailFacts
<1>5. PlaceInv' /\ Elsewhere' = Elsewhere \ {h}
  BY <1>1, <1>3, <1>4, EnqueuePlace DEF CInv
<1>6. WaiterInv'
  <2>1. recvWaiters'[c] = r /\ sendWaiters'[c] = sendWaiters[c]
    BY <1>1, <1>2
  <2>2. h \notin Range(sendWaiters[c]) /\ IsInjective(sendWaiters[c])
    BY <1>4, ListsFacts
  <2>3. /\ {h} \in SUBSET Task /\ {h} \subseteq Range(recvWaiters[c]) \cup Range(sendWaiters[c])
        /\ Elsewhere' = Elsewhere \ {h}
        /\ recvWaiters' = [recvWaiters EXCEPT ![c] = recvWaiters'[c]]
        /\ sendWaiters' = [sendWaiters EXCEPT ![c] = sendWaiters'[c]]
        /\ IsInjective(recvWaiters'[c]) /\ IsInjective(sendWaiters'[c])
        /\ Range(recvWaiters'[c]) = Range(recvWaiters[c]) \ {h}
        /\ Range(sendWaiters'[c]) = Range(sendWaiters[c]) \ {h}
        /\ UNCHANGED waiting
    BY <1>1, <1>2, <1>4, <1>5, <2>1, <2>2
  <2> QED BY <2>3, WaitersLeave
<1>7. CallInv'
  BY CallsStay
<1>8. AnswerInv'
  <2>1. ASSUME NEW t \in Task, NEW d \in Chan, t \in Range(recvWaiters[d]) \/ pending[t] # 0 \/ d \in closed
        PROVE  t \in Range(recvWaiters'[d]) \/ pending'[t] # 0 \/ d \in closed'
    <3>1. CASE t = h
      BY <1>1, <1>2, <1>4, <3>1
    <3>2. CASE t # h
      <4>1. Range(recvWaiters'[d]) = IF d = c THEN Range(s) \ {h} ELSE Range(recvWaiters[d])
        BY <1>1, <1>2, <1>4
      <4> QED BY <1>1, <1>2, <2>1, <3>2, <4>1
    <3> QED BY <3>1, <3>2
  <2> QED BY <2>1, AnswersStay
<1>9. /\ ValueInv'
      /\ got' \in [Chan -> Seq(Values)] /\ buffer' \in [Chan -> Seq(Values)]
      /\ sent' \in [Chan -> Nat] /\ closed' \subseteq Chan
      /\ \A d \in Chan : Len(buffer'[d]) <= Cap(d)
  <2>1. /\ got[c] \in Seq(Values) /\ buffer[c] \in Seq(Values) /\ Blocked(c) \in Seq(Values)
        /\ Spread(got[c], buffer[c], Blocked(c), sent[c], c \notin closed)
    BY SpreadHere
  <2>2. /\ Append(got[c], sent[c] + 1) \in Seq(Values)
        /\ Spread(Append(got[c], sent[c] + 1), buffer[c], Blocked(c), sent[c] + 1, c \notin closed)
    BY <1>2, <2>1, SpreadAppend
  <2>3. \A d \in Chan : Blocked(d)' = Blocked(d)
    BY <1>1, SameBlocked
  <2>4. /\ got' = [got EXCEPT ![c] = Append(got[c], sent[c] + 1)]
        /\ buffer' = [buffer EXCEPT ![c] = buffer[c]]
        /\ sent' = [sent EXCEPT ![c] = sent[c] + 1]
        /\ sent[c] + 1 \in Nat
    BY <1>2 DEF HandOver
  <2> HIDE DEF Values, s, h, r
  <2> QED BY <1>2, <2>1, <2>2, <2>3, <2>4, ValuesChange
<1>10. ChanTyped'
  <2>1. recvWaiters' \in [Chan -> Seq(Task)] /\ pending' \in [Task -> Nat]
    BY <1>1, <1>2, <1>4
  <2> QED BY <1>1, <1>2, <1>9, <2>1 DEF ChanTyped, CallsTyped
<1> QED BY <1>5, <1>6, <1>7, <1>8, <1>9, <1>10 DEF CInv

\* A value that is stored.
LEMMA PutSafe ==
  ASSUME CInv, NEW c \in Chan, Put(c), Stays, CallsKept, CallsTyped', UNCHANGED closed
  PROVE  CInv'
<1>1. UNCHANGED <<got, listVars, slotVars, vars>>
  BY DEF Put, Stays, restVars, vars
<1>2. PlaceInv' /\ Elsewhere' = Elsewhere
  BY <1>1, IdlePlace DEF CInv
<1>3. WaiterInv' /\ CallInv'
  BY <1>1, <1>2, WaitersStay, CallsStay DEF slotVars
<1>4. AnswerInv'
  BY <1>1, AnswersStay DEF listVars, slotVars
<1>5. /\ ValueInv'
      /\ got' \in [Chan -> Seq(Values)] /\ buffer' \in [Chan -> Seq(Values)]
      /\ sent' \in [Chan -> Nat] /\ closed' \subseteq Chan
      /\ \A d \in Chan : Len(buffer'[d]) <= Cap(d)
  <2>1. /\ got[c] \in Seq(Values) /\ buffer[c] \in Seq(Values) /\ Blocked(c) \in Seq(Values)
        /\ sent[c] \in Nat
        /\ Spread(got[c], buffer[c], Blocked(c), sent[c], c \notin closed)
    BY SpreadHere
  <2>2. /\ Append(buffer[c], sent[c] + 1) \in Seq(Values)
        /\ Spread(got[c], Append(buffer[c], sent[c] + 1), Blocked(c), sent[c] + 1, c \notin closed)
    BY <2>1, SpreadAppend
  <2>3. \A d \in Chan : Blocked(d)' = Blocked(d)
    BY <1>1, SameBlocked DEF listVars, slotVars
  <2>4. /\ got' = [got EXCEPT ![c] = got[c]]
        /\ buffer' = [buffer EXCEPT ![c] = Append(buffer[c], sent[c] + 1)]
        /\ sent' = [sent EXCEPT ![c] = sent[c] + 1]
        /\ sent[c] + 1 \in Nat
    BY <2>1 DEF Put, CInv, ChanTyped
  <2>5. Len(Append(buffer[c], sent[c] + 1)) <= Cap(c)
    <3>1. Len(buffer[c]) # Cap(c) /\ Len(buffer[c]) <= Cap(c) /\ Cap(c) \in Nat
      BY ChannelAssumption DEF Put, Full, CInv, ChanTyped, Cap
    <3> QED BY <2>1, <3>1
  <2> HIDE DEF Values
  <2> QED BY <2>1, <2>2, <2>3, <2>4, <2>5, ValuesChange
<1>6. ChanTyped'
  BY <1>1, <1>5 DEF CInv, ChanTyped, CallsTyped, listVars, slotVars
<1> QED BY <1>2, <1>3, <1>4, <1>5, <1>6 DEF CInv

\* The list of senders cut after the first k, and the values on either side.
LEMMA CutFacts ==
  ASSUME CInv, NEW c \in Chan, NEW k \in 0..Len(sendWaiters[c])
  PROVE  LET woken == SubSeq(sendWaiters[c], 1, k)
             rest == SubSeq(sendWaiters[c], k + 1, Len(sendWaiters[c]))
         IN /\ woken \in Seq(Task) /\ rest \in Seq(Task)
            /\ IsInjective(woken) /\ IsInjective(rest)
            /\ Range(woken) \subseteq Range(sendWaiters[c])
            /\ Range(rest) = Range(sendWaiters[c]) \ Range(woken)
            /\ k \in 0..Len(Blocked(c))
            /\ [i \in 1..k |-> waiting[woken[i]]] = SubSeq(Blocked(c), 1, k)
            /\ [i \in DOMAIN rest |-> waiting[rest[i]]] = SubSeq(Blocked(c), k + 1, Len(Blocked(c)))
<1> DEFINE s == sendWaiters[c]
           woken == SubSeq(s, 1, k)
           rest == SubSeq(s, k + 1, Len(s))
           b == Blocked(c)
           front == SubSeq(b, 1, k)
           back == SubSeq(b, k + 1, Len(b))
<1>1. /\ s \in Seq(Task) /\ IsInjective(s) /\ Len(s) \in Nat /\ k \in 0..Len(s) /\ k \in Nat /\ k <= Len(s)
      /\ b \in Seq(Values) /\ Len(b) = Len(s) /\ \A i \in 1..Len(s) : b[i] = waiting[s[i]]
  BY ListsFacts, BlockedFacts
<1> HIDE DEF s, b, Values
<1>2. /\ woken \in Seq(Task) /\ rest \in Seq(Task) /\ Len(woken) = k /\ Len(rest) = Len(s) - k
      /\ \A i \in 1..k : woken[i] = s[i]
      /\ \A i \in 1..(Len(s) - k) : rest[i] = s[k + i]
      /\ s = woken \o rest
  BY <1>1, SplitFacts, ZenonT(30)
<1>3. /\ front \in Seq(Values) /\ back \in Seq(Values) /\ Len(front) = k /\ Len(back) = Len(b) - k
      /\ \A i \in 1..k : front[i] = b[i]
      /\ \A i \in 1..(Len(b) - k) : back[i] = b[k + i]
  <2>1. k \in 0..Len(b)
    BY <1>1
  <2> QED BY <1>1, <2>1, SplitFacts, ZenonT(30)
<1> HIDE DEF woken, rest, front, back
<1>4. /\ IsInjective(woken) /\ IsInjective(rest)
      /\ Range(s) = Range(woken) \cup Range(rest) /\ Range(woken) \cap Range(rest) = {}
  BY <1>1, <1>2, ConcatFacts
<1>5. [i \in 1..k |-> waiting[woken[i]]] = front
  <2> DEFINE f == [i \in 1..k |-> waiting[woken[i]]]
  <2>1. DOMAIN front = 1..k /\ \A i \in 1..k : f[i] = front[i]
    BY <1>1, <1>2, <1>3
  <2>2. front = [i \in DOMAIN front |-> front[i]]
    BY <1>3
  <2> QED BY <2>1, <2>2
<1>6. [i \in DOMAIN rest |-> waiting[rest[i]]] = back
  <2> DEFINE f == [i \in DOMAIN rest |-> waiting[rest[i]]]
  <2>1. DOMAIN rest = 1..(Len(s) - k) /\ DOMAIN back = 1..(Len(s) - k)
    BY <1>1, <1>2, <1>3
  <2>2. \A i \in 1..(Len(s) - k) : f[i] = back[i]
    <3> TAKE i \in 1..(Len(s) - k)
    <3>1. k + i \in 1..Len(s)
      BY <1>1
    <3> QED BY <1>1, <1>2, <1>3, <2>1, <3>1
  <2>3. back = [i \in DOMAIN back |-> back[i]]
    BY <1>3
  <2> QED BY <2>1, <2>2, <2>3
<1>7. k \in 0..Len(b)
  BY <1>1
<1> QED BY <1>2, <1>4, <1>5, <1>6, <1>7 DEF s, woken, rest, b, front, back

\* A value that is received, and the first k parked senders who get theirs in.
LEMMA TakeSafe ==
  ASSUME CInv, NEW c \in Chan, NEW k \in 0..Len(sendWaiters[c]),
         Len(buffer[c]) - 1 + k <= Cap(c),
         TakeAndRefill(c, k), Stays, CallsKept, CallsTyped', UNCHANGED closed
  PROVE  CInv'
<1> DEFINE s == sendWaiters[c]
           woken == SubSeq(s, 1, k)
           rest == SubSeq(s, k + 1, Len(s))
           front == SubSeq(Blocked(c), 1, k)
           back == SubSeq(Blocked(c), k + 1, Len(Blocked(c)))
<1>1. /\ buffer[c] # <<>> /\ UNCHANGED <<sent, recvWaiters, pending, waiting>>
      /\ got' = [got EXCEPT ![c] = Append(got[c], Head(buffer[c]))]
      /\ buffer' = [buffer EXCEPT ![c] = Tail(buffer[c]) \o [i \in 1..k |-> waiting[woken[i]]]]
      /\ sendWaiters' = [sendWaiters EXCEPT ![c] = rest]
      /\ EnqueueAll(woken)
  BY DEF TakeAndRefill, Empty, CInv, ChanTyped
<1>2. /\ woken \in Seq(Task) /\ rest \in Seq(Task) /\ IsInjective(woken) /\ IsInjective(rest)
      /\ Range(woken) \subseteq Range(s) /\ Range(rest) = Range(s) \ Range(woken)
      /\ k \in 0..Len(Blocked(c))
      /\ [i \in 1..k |-> waiting[woken[i]]] = front
      /\ [i \in DOMAIN rest |-> waiting[rest[i]]] = back
  BY CutFacts, Zenon
<1> HIDE DEF woken, rest, front, back
<1>3. /\ Range(s) \subseteq Elsewhere /\ Range(s) \subseteq Task
      /\ Range(recvWaiters[c]) \cap Range(s) = {} /\ IsInjective(recvWaiters[c])
      /\ recvWaiters \in [Chan -> Seq(Task)] /\ sendWaiters \in [Chan -> Seq(Task)]
  BY ListsFacts DEF CInv, ChanTyped
<1>4. PlaceInv' /\ Elsewhere' = Elsewhere \ Range(woken)
  BY <1>1, <1>2, <1>3, EnqueueAllPlace DEF CInv
<1>5. WaiterInv'
  <2>1. recvWaiters'[c] = recvWaiters[c] /\ sendWaiters'[c] = rest
    BY <1>1, <1>3
  <2>2. /\ Range(woken) \in SUBSET Task
        /\ Range(woken) \subseteq Range(recvWaiters[c]) \cup Range(sendWaiters[c])
        /\ Elsewhere' = Elsewhere \ Range(woken)
        /\ recvWaiters' = [recvWaiters EXCEPT ![c] = recvWaiters'[c]]
        /\ sendWaiters' = [sendWaiters EXCEPT ![c] = sendWaiters'[c]]
        /\ IsInjective(recvWaiters'[c]) /\ IsInjective(sendWaiters'[c])
        /\ Range(recvWaiters'[c]) = Range(recvWaiters[c]) \ Range(woken)
        /\ Range(sendWaiters'[c]) = Range(sendWaiters[c]) \ Range(woken)
        /\ UNCHANGED waiting
    BY <1>1, <1>2, <1>3, <1>4, <2>1
  <2> QED BY <2>2, WaitersLeave
<1>6. CallInv'
  BY CallsStay
<1>7. AnswerInv'
  BY <1>1, AnswersStay
<1>8. /\ ValueInv'
      /\ got' \in [Chan -> Seq(Values)] /\ buffer' \in [Chan -> Seq(Values)]
      /\ sent' \in [Chan -> Nat] /\ closed' \subseteq Chan
      /\ \A d \in Chan : Len(buffer'[d]) <= Cap(d)
  <2> DEFINE g == got[c]
             b == buffer[c]
             w == Blocked(c)
             n == sent[c]
             o == c \notin closed
  <2>1. /\ g \in Seq(Values) /\ b \in Seq(Values) /\ w \in Seq(Values)
        /\ n \in Nat /\ o \in BOOLEAN /\ Spread(g, b, w, n, o) /\ b # <<>> /\ k \in 0..Len(w)
    BY <1>1, <1>2, SpreadHere
  <2>2. /\ got' = [got EXCEPT ![c] = Append(g, Head(b))]
        /\ buffer' = [buffer EXCEPT ![c] = Tail(b) \o front]
        /\ sent' = [sent EXCEPT ![c] = n]
        /\ Len(b) - 1 + k <= Cap(c)
        /\ c \notin closed' => o
    BY <1>1, <1>2 DEF CInv, ChanTyped
  <2>3. Blocked(c)' = back
    <3>1. sendWaiters'[c] = rest /\ waiting' = waiting
      BY <1>1, <1>3
    <3> QED BY <1>2, <3>1 DEF Blocked
  <2>4. \A d \in Chan \ {c} : Blocked(d)' = Blocked(d)
    BY <1>1, <1>3, SameBlocked
  <2>5. front = SubSeq(w, 1, k) /\ back = SubSeq(w, k + 1, Len(w))
    BY DEF front, back
  <2> HIDE DEF g, b, w, n, o, Values
  <2>6. /\ Append(g, Head(b)) \in Seq(Values) /\ Tail(b) \o front \in Seq(Values)
        /\ Len(Tail(b) \o front) = Len(b) - 1 + k
        /\ back \in Seq(Values)
        /\ Spread(Append(g, Head(b)), Tail(b) \o front, back, n, o)
    BY <2>1, <2>5, SpreadShift
  <2> DEFINE a == Append(g, Head(b))
             u == Tail(b) \o front
  <2>7. a \in Seq(Values) /\ u \in Seq(Values) /\ back \in Seq(Values) /\ n \in Nat /\ o \in BOOLEAN
    BY <2>1, <2>6
  <2>8. /\ Spread(a, u, back, n, o) /\ Len(u) <= Cap(c) /\ Blocked(c)' = back
        /\ got' = [got EXCEPT ![c] = a] /\ buffer' = [buffer EXCEPT ![c] = u]
        /\ sent' = [sent EXCEPT ![c] = n]
        /\ closed' \in {closed, closed \cup {c}} /\ (c \notin closed' => o)
    BY <2>2, <2>3, <2>6
  <2> HIDE DEF a, u
  <2> QED BY <2>4, <2>7, <2>8, ValuesChange
<1>9. ChanTyped'
  <2>1. sendWaiters' \in [Chan -> Seq(Task)]
    BY <1>1, <1>2, <1>3
  <2> QED BY <1>1, <1>8, <2>1 DEF CInv, ChanTyped, CallsTyped
<1> QED BY <1>4, <1>5, <1>6, <1>7, <1>8, <1>9 DEF CInv

\* A close: the parked tasks are ready again, the values of the senders are gone.
LEMMA CloseSafe ==
  ASSUME CInv, NEW c \in Chan, Closes(c), Stays, CallsKept, CallsTyped'
  PROVE  CInv'
<1> DEFINE r == recvWaiters[c]
           s == sendWaiters[c]
           all == r \o s
<1>1. /\ closed' = closed \cup {c} /\ UNCHANGED <<buffer, sent, got, waiting>>
      /\ pending' = [t \in Task |-> IF t \in Range(r) THEN 0 ELSE pending[t]]
      /\ recvWaiters' = [recvWaiters EXCEPT ![c] = <<>>]
      /\ sendWaiters' = [sendWaiters EXCEPT ![c] = <<>>]
      /\ EnqueueAll(all)
  BY DEF Closes, valueVars
<1>2. /\ r \in Seq(Task) /\ IsInjective(r) /\ Range(r) \subseteq Elsewhere
      /\ s \in Seq(Task) /\ IsInjective(s) /\ Range(s) \subseteq Elsewhere
      /\ Range(r) \cap Range(s) = {} /\ Range(r) \subseteq Task /\ Range(s) \subseteq Task
      /\ recvWaiters \in [Chan -> Seq(Task)] /\ sendWaiters \in [Chan -> Seq(Task)]
      /\ pending \in [Task -> Nat]
  BY ListsFacts DEF CInv, ChanTyped
<1>3. all \in Seq(Task) /\ IsInjective(all) /\ Range(all) = Range(r) \cup Range(s)
  <2> HIDE DEF r, s
  <2> QED BY <1>2, ConcatFacts
<1> HIDE DEF all
<1>4. PlaceInv' /\ Elsewhere' = Elsewhere \ Range(all)
  BY <1>1, <1>2, <1>3, EnqueueAllPlace DEF CInv
<1>5. IsInjective(<<>>) /\ Range(<<>>) = {} /\ <<>> \in Seq(Task) /\ <<>> \in Seq(Values)
  BY DEF IsInjective, Range
<1>6. WaiterInv'
  <2>1. recvWaiters'[c] = <<>> /\ sendWaiters'[c] = <<>>
    BY <1>1, <1>2
  <2>2. /\ Range(all) \in SUBSET Task
        /\ Range(all) \subseteq Range(recvWaiters[c]) \cup Range(sendWaiters[c])
        /\ Elsewhere' = Elsewhere \ Range(all)
        /\ recvWaiters' = [recvWaiters EXCEPT ![c] = recvWaiters'[c]]
        /\ sendWaiters' = [sendWaiters EXCEPT ![c] = sendWaiters'[c]]
        /\ IsInjective(recvWaiters'[c]) /\ IsInjective(sendWaiters'[c])
        /\ Range(recvWaiters'[c]) = Range(recvWaiters[c]) \ Range(all)
        /\ Range(sendWaiters'[c]) = Range(sendWaiters[c]) \ Range(all)
        /\ UNCHANGED waiting
    BY <1>1, <1>2, <1>3, <1>4, <1>5, <2>1
  <2> QED BY <2>2, WaitersLeave
<1>7. CallInv'
  BY CallsStay
<1>8. AnswerInv'
  <2>1. ASSUME NEW t \in Task, NEW d \in Chan, alts[t] = {<<d, "receive">>}, op[t] = "receive",
               t \in Range(recvWaiters[d]) \/ pending[t] # 0 \/ d \in closed
        PROVE  t \in Range(recvWaiters'[d]) \/ pending'[t] # 0 \/ d \in closed'
    <3>1. CASE d = c
      BY <1>1, <3>1
    <3>2. CASE d # c
      <4>1. recvWaiters'[d] = recvWaiters[d]
        BY <1>1, <1>2, <3>2
      <4>2. t \notin Range(r)
        <5> SUFFICES ASSUME t \in Range(r) PROVE FALSE
          OBVIOUS
        <5>1. alts[t] = {<<c, "receive">>}
          BY ListsFacts
        <5>2. <<c, "receive">>[1] = <<d, "receive">>[1]
          BY <2>1, <5>1
        <5> QED BY <3>2, <5>2
      <4> QED BY <1>1, <2>1, <4>1, <4>2
    <3> QED BY <3>1, <3>2
  <2> QED BY <2>1, AnswersStay
<1>9. /\ ValueInv'
      /\ got' \in [Chan -> Seq(Values)] /\ buffer' \in [Chan -> Seq(Values)]
      /\ sent' \in [Chan -> Nat] /\ closed' \subseteq Chan
      /\ \A d \in Chan : Len(buffer'[d]) <= Cap(d)
  <2>1. /\ got[c] \in Seq(Values) /\ buffer[c] \in Seq(Values) /\ sent[c] \in Nat
        /\ Spread(got[c], buffer[c], Blocked(c), sent[c], c \notin closed)
    BY SpreadHere
  <2>2. Spread(got[c], buffer[c], <<>>, sent[c], FALSE)
    BY <2>1, SpreadDrop
  <2>3. Blocked(c)' = <<>>
    <3>1. sendWaiters'[c] = <<>>
      BY <1>1, <1>2
    <3> QED BY <3>1 DEF Blocked
  <2>4. \A d \in Chan \ {c} : Blocked(d)' = Blocked(d)
    BY <1>1, <1>2, SameBlocked
  <2>5. /\ got' = [got EXCEPT ![c] = got[c]] /\ buffer' = [buffer EXCEPT ![c] = buffer[c]]
        /\ sent' = [sent EXCEPT ![c] = sent[c]] /\ Len(buffer[c]) <= Cap(c)
        /\ c \in closed'
    BY <1>1 DEF CInv, ChanTyped
  <2> HIDE DEF Values, r, s
  <2> QED BY <1>1, <1>5, <2>1, <2>2, <2>3, <2>4, <2>5, ValuesChange
<1>10. ChanTyped'
  <2>1. recvWaiters' \in [Chan -> Seq(Task)] /\ sendWaiters' \in [Chan -> Seq(Task)]
        /\ pending' \in [Task -> Nat]
    BY <1>1, <1>2, <1>5
  <2> QED BY <1>1, <1>9, <2>1 DEF CInv, ChanTyped, CallsTyped
<1> QED BY <1>4, <1>6, <1>7, <1>8, <1>9, <1>10 DEF CInv

\* A task that is parked.
LEMMA ParkingSafe ==
  ASSUME CInv, NEW c \in Chan, NEW t \in Task, NEW call \in {"send", "receive"},
         Parking(t, c, call), closed' = closed,
         call = "send" => <<t, "send">> \in Uses,
         call = "receive" => t \in Range(recvWaiters'[c]),
         \A u \in Task \ {t}, d \in Chan :
           u \in Range(recvWaiters[d]) => u \in Range(recvWaiters'[d]),
         pending' = pending
  PROVE  CallInv' /\ AnswerInv'
<1>1. /\ op \in [Owner -> Calling] /\ alts \in [Owner -> SUBSET Alternative] /\ t \in Owner
      /\ pc' = pc /\ pc[t] = "run"
  BY DEF CInv, ChanTyped, Owner, Parking, Park, Runs
<1>2. /\ op'[t] = call /\ alts'[t] = {<<c, call>>}
      /\ \A o \in Owner : o # t => op'[o] = op[o] /\ alts'[o] = alts[o]
  BY <1>1 DEF Parking
<1>3. CallInv'
  BY <1>1, <1>2 DEF CInv, CallInv
<1>4. AnswerInv'
  <2> SUFFICES ASSUME NEW u \in Task, op'[u] = "receive"
               PROVE  \E d \in Chan : /\ alts'[u] = {<<d, "receive">>}
                                      /\ \/ u \in Range(recvWaiters'[d])
                                         \/ pending'[u] # 0 \/ d \in closed'
    BY DEF AnswerInv
  <2>1. CASE u = t
    BY <1>2, <2>1
  <2>2. CASE u # t
    <3>1. op[u] = "receive" /\ alts'[u] = alts[u]
      BY <1>2, <2>2 DEF Owner
    <3>2. PICK d \in Chan : /\ alts[u] = {<<d, "receive">>}
                            /\ u \in Range(recvWaiters[d]) \/ pending[u] # 0 \/ d \in closed
      BY <3>1 DEF CInv, AnswerInv
    <3> QED BY <2>2, <3>1, <3>2
  <2> QED BY <2>1, <2>2
<1> QED BY <1>3, <1>4

\* The value that a sender is parked with comes behind the others.
LEMMA ParkedBlocked ==
  ASSUME CInv, NEW c \in Chan, NEW t \in Task, SenderParks(t, c)
  PROVE  Blocked(c)' = Append(Blocked(c), sent[c] + 1)
<1> DEFINE s == sendWaiters[c]
           n == sent[c]
<1>1. /\ waiting' = [waiting EXCEPT ![t] = n + 1]
      /\ sendWaiters' = [sendWaiters EXCEPT ![c] = Append(s, t)]
  BY DEF SenderParks, CInv, ChanTyped
<1>2. /\ sendWaiters \in [Chan -> Seq(Task)] /\ waiting \in [Task -> Values \cup {0}]
      /\ sent \in [Chan -> Nat] /\ s \in Seq(Task) /\ n \in Nat
  BY DEF CInv, ChanTyped
<1>3. t \notin Range(s)
  <2>1. t \notin Elsewhere
    BY RunnerHere DEF SenderParks, Parking, Park, Runs
  <2> QED BY <2>1, ListsFacts
<1> DEFINE b == Blocked(c)
           a == Append(b, n + 1)
           r == Append(s, t)
<1>4. /\ b \in Seq(Values) /\ Len(b) = Len(s) /\ Len(s) \in Nat
      /\ \A i \in 1..Len(s) : b[i] = waiting[s[i]]
  BY BlockedFacts
<1>5. sendWaiters'[c] = r /\ n + 1 \in Values
  BY <1>1, <1>2 DEF Values
<1>6. \A i \in 1..Len(s) : s[i] \in Task /\ s[i] # t
  BY <1>2, <1>3, <1>4, SMTT(30) DEF Range
<1> HIDE DEF s, n, b, Values
<1>7. /\ DOMAIN r = 1..(Len(s) + 1) /\ r[Len(s) + 1] = t
      /\ \A i \in 1..Len(s) : r[i] = s[i]
  BY <1>2, <1>4
<1>8. /\ a = [i \in DOMAIN a |-> a[i]] /\ DOMAIN a = 1..(Len(s) + 1) /\ a[Len(s) + 1] = n + 1
      /\ \A i \in 1..Len(s) : a[i] = b[i]
  BY <1>2, <1>4, <1>5
<1> HIDE DEF a, r
<1>9. Blocked(c)' = [i \in 1..(Len(s) + 1) |-> waiting'[r[i]]]
  BY <1>5, <1>7 DEF Blocked
<1>10. ASSUME NEW i \in 1..(Len(s) + 1) PROVE waiting'[r[i]] = a[i]
  <2>1. CASE i \in 1..Len(s)
    BY <1>1, <1>2, <1>4, <1>6, <1>7, <1>8, <2>1
  <2>2. CASE i = Len(s) + 1
    BY <1>1, <1>2, <1>7, <1>8, <2>2
  <2> QED BY <1>4, <2>1, <2>2
<1> QED BY <1>8, <1>9, <1>10 DEF a, b, n

LEMMA SenderParksSafe ==
  ASSUME CInv, NEW c \in Chan, NEW t \in Task, SenderParks(t, c), CallsTyped'
  PROVE  CInv'
<1> DEFINE s == sendWaiters[c]
           n == sent[c]
<1>1. /\ c \notin closed /\ <<t, "send">> \in Uses /\ Parking(t, c, "send")
      /\ waiting' = [waiting EXCEPT ![t] = n + 1]
      /\ sent' = [sent EXCEPT ![c] = n + 1]
      /\ sendWaiters' = [sendWaiters EXCEPT ![c] = Append(s, t)]
      /\ UNCHANGED <<buffer, got, recvWaiters, pending, closed>>
  BY DEF SenderParks, CInv, ChanTyped
<1>2. PlaceInv' /\ WaiterInv'
  BY WaiterComes
<1>3. CallInv' /\ AnswerInv'
  BY <1>1, ParkingSafe
<1>4. /\ sendWaiters \in [Chan -> Seq(Task)] /\ waiting \in [Task -> Values \cup {0}]
      /\ sent \in [Chan -> Nat] /\ s \in Seq(Task) /\ n \in Nat
  BY DEF CInv, ChanTyped
<1>5. \A d \in Chan : t \notin Range(sendWaiters[d])
  <2>1. t \notin Elsewhere
    BY <1>1, RunnerHere DEF Parking, Park, Runs
  <2> QED BY <2>1, ListsFacts
<1>6. Blocked(c)' = Append(Blocked(c), n + 1)
  BY ParkedBlocked
<1>7. \A d \in Chan \ {c} : Blocked(d)' = Blocked(d)
  <2> SUFFICES ASSUME NEW d \in Chan \ {c} PROVE Blocked(d)' = Blocked(d)
    OBVIOUS
  <2>1. sendWaiters'[d] = sendWaiters[d] /\ sendWaiters[d] \in Seq(Task)
    BY <1>1, <1>4
  <2>2. \A u \in Range(sendWaiters[d]) : u \in Task /\ u # t
    BY <1>5, <2>1 DEF Range
  <2>3. \A u \in Range(sendWaiters[d]) : waiting'[u] = waiting[u]
    BY <1>1, <1>4, <2>2
  <2> QED BY <2>1, <2>3, SameBlocked
<1>8. /\ ValueInv'
      /\ got' \in [Chan -> Seq(Values)] /\ buffer' \in [Chan -> Seq(Values)]
      /\ sent' \in [Chan -> Nat] /\ closed' \subseteq Chan
      /\ \A d \in Chan : Len(buffer'[d]) <= Cap(d)
  <2> DEFINE g == got[c]
             b == buffer[c]
             w == Blocked(c)
             o == c \notin closed
             a == Append(w, n + 1)
  <2>1. /\ g \in Seq(Values) /\ b \in Seq(Values) /\ w \in Seq(Values) /\ n \in Nat
        /\ o \in BOOLEAN /\ Spread(g, b, w, n, o) /\ n + 1 \in Nat
    BY SpreadHere
  <2>2. /\ got' = [got EXCEPT ![c] = g] /\ buffer' = [buffer EXCEPT ![c] = b]
        /\ sent' = [sent EXCEPT ![c] = n + 1] /\ Len(b) <= Cap(c)
        /\ closed' \in {closed, closed \cup {c}} /\ (c \notin closed' => o)
        /\ Blocked(c)' = a
    BY <1>1, <1>6 DEF CInv, ChanTyped
  <2> HIDE DEF g, b, w, n, o, Values
  <2>3. a \in Seq(Values) /\ Spread(g, b, a, n + 1, o)
    BY <2>1, SpreadAppend
  <2> HIDE DEF a
  <2> QED BY <1>7, <2>1, <2>2, <2>3, ValuesChange
<1>9. ChanTyped'
  <2>1. sendWaiters' \in [Chan -> Seq(Task)] /\ waiting' \in [Task -> Values \cup {0}]
    BY <1>1, <1>4 DEF Values
  <2> QED BY <1>1, <1>8, <2>1 DEF CInv, ChanTyped, CallsTyped
<1> QED BY <1>2, <1>3, <1>8, <1>9 DEF CInv

LEMMA ReceiverParksSafe ==
  ASSUME CInv, NEW c \in Chan, NEW t \in Task, ReceiverParks(t, c), CallsTyped'
  PROVE  CInv'
<1> DEFINE s == recvWaiters[c]
<1>1. /\ Parking(t, c, "receive") /\ recvWaiters' = [recvWaiters EXCEPT ![c] = Append(s, t)]
      /\ UNCHANGED <<valueVars, sendWaiters, slotVars, closed>>
  BY DEF ReceiverParks, CInv, ChanTyped
<1>2. PlaceInv' /\ WaiterInv'
  BY WaiterComes
<1>3. recvWaiters \in [Chan -> Seq(Task)] /\ s \in Seq(Task) /\ IsInjective(s) /\ t \notin Range(s)
  <2>1. t \notin Elsewhere
    BY <1>1, RunnerHere DEF Parking, Park, Runs
  <2> QED BY <2>1, ListsFacts DEF CInv, ChanTyped
<1>4. Append(s, t) \in Seq(Task) /\ Range(Append(s, t)) = Range(s) \cup {t}
  <2> HIDE DEF s
  <2> QED BY <1>3, AppendFacts
<1>5. CallInv' /\ AnswerInv'
  <2>1. \A d \in Chan : Range(recvWaiters'[d]) = IF d = c THEN Range(s) \cup {t}
                                                  ELSE Range(recvWaiters[d])
    BY <1>1, <1>3, <1>4
  <2>2. \A u \in Task \ {t}, d \in Chan :
          u \in Range(recvWaiters[d]) => u \in Range(recvWaiters'[d])
    BY <2>1
  <2>3. t \in Range(recvWaiters'[c])
    BY <2>1
  <2> QED BY <1>1, <2>2, <2>3, ParkingSafe DEF slotVars
<1>6. ValueInv'
  <2>1. ASSUME NEW d \in Chan PROVE ValuesOn(d)'
    <3>1. Blocked(d)' = Blocked(d)
      BY <1>1, SameBlocked DEF slotVars
    <3>2. All(d)' = All(d)
      BY <1>1, <3>1 DEF All, valueVars
    <3> QED BY <1>1, <3>2 DEF CInv, ValueInv, ValuesOn, valueVars
  <2> QED BY <2>1 DEF ValueInv
<1>7. ChanTyped'
  <2>1. recvWaiters' \in [Chan -> Seq(Task)]
    BY <1>1, <1>3, <1>4
  <2> QED BY <1>1, <2>1 DEF CInv, ChanTyped, CallsTyped, valueVars, slotVars
<1> QED BY <1>2, <1>5, <1>6, <1>7 DEF CInv

\* What Refills lets in fits the buffer.
LEMMA RefillsFacts ==
  ASSUME CInv, NEW c \in Chan, buffer[c] # <<>>
  PROVE  /\ Refills(c) \in 0..Len(sendWaiters[c])
         /\ Len(buffer[c]) - 1 + Refills(c) <= Cap(c)
<1>1. /\ buffer[c] \in Seq(Values) /\ Len(buffer[c]) <= Cap(c) /\ Cap(c) \in Nat
      /\ Len(buffer[c]) \in Nat /\ Len(sendWaiters[c]) \in Nat
  BY ChannelAssumption, BlockedFacts DEF CInv, ChanTyped, Cap
<1> DEFINE m == Len(buffer[c])
           w == Len(sendWaiters[c])
           k == Cap(c)
           room == k - m + 1
<1>2. m \in Nat /\ w \in Nat /\ k \in Nat /\ m <= k /\ m # 0
  BY <1>1
<1>3. Refills(c) = IF c \in closed THEN 0 ELSE IF w < room THEN w ELSE room
  BY DEF Refills
<1> HIDE DEF m, w, k
<1>4. Refills(c) \in 0..w /\ m - 1 + Refills(c) <= k
  BY <1>2, <1>3
<1> QED BY <1>4 DEF m, w, k

LEMMA ExchangeSafe ==
  ASSUME CInv, NEW c \in Chan, Exchange(c), CallsTyped'
  PROVE  CInv'
<1>1. Stays /\ CallsKept
  BY DEF Exchange
<1>2. CASE HandOver(c) /\ UNCHANGED closed
  BY <1>1, <1>2, HandOverSafe
<1>3. CASE Put(c) /\ UNCHANGED closed
  BY <1>1, <1>3, PutSafe
<1>4. CASE Take(c) /\ UNCHANGED closed
  <2>1. buffer[c] # <<>> /\ TakeAndRefill(c, Refills(c))
    BY <1>4 DEF Take, TakeAndRefill, Empty
  <2> HIDE DEF Refills
  <2> QED BY <1>1, <1>4, <2>1, RefillsFacts, TakeSafe
<1>5. CASE TakeOnly(c) /\ UNCHANGED closed
  <2>1. TakeAndRefill(c, 0) /\ 0 \in 0..Len(sendWaiters[c]) /\ Len(buffer[c]) - 1 + 0 <= Cap(c)
    <3>1. /\ Len(buffer[c]) \in Nat /\ Len(buffer[c]) <= Cap(c) /\ Cap(c) \in Nat
          /\ Len(sendWaiters[c]) \in Nat
      BY ChannelAssumption, BlockedFacts DEF CInv, ChanTyped, Cap
    <3> QED BY <1>5, <3>1 DEF TakeOnly
  <2> QED BY <1>1, <1>5, <2>1, TakeSafe
<1>6. CASE Closes(c)
  BY <1>1, <1>6, CloseSafe
<1> QED BY <1>2, <1>3, <1>4, <1>5, <1>6 DEF Exchange

LEMMA ChanStep ==
  ASSUME CInv, [ChanNext]_allVars
  PROVE  CInv'
<1>1. Deed
  BY StepDeed
<1> QED BY <1>1, QuietSafe, ExchangeSafe, SenderParksSafe, ReceiverParksSafe DEF Deed

LEMMA ChanStart == ChanInit => CInv
<1> SUFFICES ASSUME ChanInit PROVE CInv
  OBVIOUS
<1>1. PlaceInv /\ Elsewhere = {}
  BY InitPlace DEF ChanInit
<1>2. /\ op = [o \in Owner |-> "none"] /\ alts = [o \in Owner |-> {}]
      /\ buffer = [c \in Chan |-> <<>>] /\ recvWaiters = [c \in Chan |-> <<>>]
      /\ sendWaiters = [c \in Chan |-> <<>>] /\ closed = {} /\ pending = [t \in Task |-> 0]
      /\ waiting = [t \in Task |-> 0] /\ sent = [c \in Chan |-> 0] /\ got = [c \in Chan |-> <<>>]
  BY DEF ChanInit
<1>3. IsInjective(<<>>) /\ Range(<<>>) = {}
  BY DEF IsInjective, Range
<1>4. ChanTyped
  BY <1>2, ChannelAssumption DEF ChanTyped, Calling, Cap
<1>5. CallInv /\ AnswerInv
  BY <1>2 DEF CallInv, AnswerInv, Owner
<1>6. WaiterInv
  BY <1>1, <1>2, <1>3 DEF WaiterInv, Receivers, Senders
<1>7. ValueInv
  <2>1. ASSUME NEW c \in Chan PROVE ValuesOn(c)
    <3>1. Blocked(c) = <<>>
      BY <1>2 DEF Blocked
    <3>2. All(c) = <<>>
      BY <1>2, <3>1 DEF All
    <3> QED BY <1>2, <1>3, <3>2 DEF ValuesOn
  <2> QED BY <2>1 DEF ValueInv
<1> QED BY <1>1, <1>4, <1>5, <1>6, <1>7 DEF CInv

\* The invariant of the channels, for every program.
THEOREM ChanInvariance == ChanSpec => []CInv
<1>1. ChanInit => CInv
  BY ChanStart
<1>2. CInv /\ [ChanNext]_allVars => CInv'
  BY ChanStep
<1> QED BY <1>1, <1>2, PTL DEF ChanSpec
-----------------------------------------------------------------------------
(* What the invariant says.                                                  *)

\* Every task that is alive is in one place, whatever calls the program makes and
\* whoever runs the scheduler.
THEOREM ChanOnePlaceCorrect == ChanSpec => []ChanOnePlace
<1>1. ASSUME CInv PROVE ChanOnePlace
  <2>1. IsInjective(ready) /\ Range(ready) = queued
    BY <1>1 DEF CInv, PlaceInv, ListInv
  <2>2. Elsewhere = Receivers \cup Senders
    BY <1>1 DEF CInv, WaiterInv
  <2>3. /\ created \ done \subseteq On \cup queued \cup Range(sleepers) \cup Parked \cup Elsewhere
        /\ Elsewhere \cap (On \cup queued \cup Range(sleepers) \cup Parked \cup done) = {}
    BY <1>1 DEF CInv, PlaceInv, PcInv, Typed, Elsewhere, Parked
  <2>4. Receivers \cap Senders = {}
    <3> SUFFICES ASSUME NEW c \in Chan, NEW d \in Chan,
                        NEW t \in Range(recvWaiters[c]), t \in Range(sendWaiters[d])
                 PROVE  FALSE
      BY DEF Receivers, Senders
    <3> QED BY <1>1, ListsFacts
  <2>5. /\ \A c, d \in Chan : c # d => /\ Range(recvWaiters[c]) \cap Range(recvWaiters[d]) = {}
                                       /\ Range(sendWaiters[c]) \cap Range(sendWaiters[d]) = {}
        /\ \A c \in Chan : IsInjective(recvWaiters[c]) /\ IsInjective(sendWaiters[c])
    BY <1>1, ListsFacts
  <2>6. /\ created \ done \subseteq On \cup queued \cup Range(sleepers) \cup Parked \cup Receivers \cup Senders
        /\ (Receivers \cup Senders) \cap (On \cup queued \cup Range(sleepers) \cup Parked \cup done) = {}
    BY <2>2, <2>3
  <2> QED BY <2>1, <2>4, <2>5, <2>6 DEF ChanOnePlace
<1> QED BY <1>1, ChanInvariance, PTL

\* No value is lost, handed out twice or invented.
THEOREM AccountedCorrect == ChanSpec => []Accounted
<1>1. CInv => Accounted
  BY DEF CInv, ValueInv, ValuesOn, All, Accounted
<1> QED BY <1>1, ChanInvariance, PTL

\* A task's receive returns nil from a closed channel only.
THEOREM ReceiveNilCorrect == ChanSpec => ReceiveNilMeansClosed
<1>1. ASSUME CInv, [ChanNext]_allVars, NEW t \in Task, NEW c \in Chan,
             op[t] = "receive", op'[t] = "none", <<c, "receive">> \in alts[t], pending[t] = 0
      PROVE  c \in closed
  <2>1. PICK d \in Chan : /\ alts[t] = {<<d, "receive">>}
                          /\ t \in Range(recvWaiters[d]) \/ pending[t] # 0 \/ d \in closed
    BY <1>1 DEF CInv, AnswerInv
  <2>2. d = c
    <3>1. <<c, "receive">>[1] = <<d, "receive">>[1]
      BY <1>1, <2>1
    <3> QED BY <3>1
  <2>3. t \notin Range(recvWaiters[d])
    <3> SUFFICES ASSUME t \in Range(recvWaiters[d]) PROVE FALSE
      OBVIOUS
    <3>1. t \in Elsewhere /\ t \in Owner
      BY <1>1, ListsFacts DEF Owner
    <3>2. op \in [Owner -> Calling]
      BY <1>1 DEF CInv, ChanTyped
    <3>3. ASSUME CallsKept PROVE FALSE
      BY <1>1, <3>1, <3>3 DEF CallsKept
    <3>4. ASSUME NEW u \in Task, NEW e \in Chan, NEW call \in {"send", "receive"}, Parking(u, e, call)
          PROVE  FALSE
      <4>1. op'[t] \in {op[t], call}
        BY <3>1, <3>2, <3>4 DEF Parking
      <4> QED BY <1>1, <4>1
    <3> QED BY <1>1, <3>3, <3>4, StepDeed DEF Deed, Exchange, SenderParks, ReceiverParks
  <2> QED BY <1>1, <2>1, <2>2, <2>3
<1>2. CInv /\ [ChanNext]_allVars =>
        \A t \in Task, c \in Chan :
          /\ op[t] = "receive" /\ op'[t] = "none"
          /\ <<c, "receive">> \in alts[t] /\ pending[t] = 0
          => c \in closed
  BY <1>1
<1> QED BY <1>2, ChanInvariance, PTL DEF ReceiveNilMeansClosed, ChanSpec
-----------------------------------------------------------------------------
(* Programs in which every parked task is passed by nobody.  A receive with a *)
(* timeout does not wake senders, and the main program's send does not look   *)
(* for a parked receiver; with either one a channel strands a task and a      *)
(* later sender overtakes an earlier one.                                     *)

Orderly == \A u \in Uses : u[2] # "timed" /\ u # <<Main, "send">>

\* What the deeds of such a program are.
LEMMA OrderlyDeed ==
  ASSUME Orderly, NEW c \in Chan, Exchange(c)
  PROVE  \/ HandOver(c) /\ UNCHANGED closed
         \/ Put(c) /\ ~CanHandOver(c) /\ UNCHANGED closed
         \/ Take(c) /\ UNCHANGED closed
         \/ Closes(c)
<1>1. \A o \in Owner : <<o, "timed">> \notin Uses
  <2> SUFFICES ASSUME NEW o \in Owner, <<o, "timed">> \in Uses PROVE FALSE
    OBVIOUS
  <2>1. <<o, "timed">>[2] # "timed"
    BY DEF Orderly
  <2> QED BY <2>1
<1>2. <<Main, "send">> \notin Uses
  BY DEF Orderly
<1> QED BY <1>1, <1>2 DEF Exchange

Waited(c) == /\ recvWaiters[c] # <<>> => Empty(c)
             /\ sendWaiters[c] # <<>> => Full(c)
             /\ c \in closed => recvWaiters[c] = <<>> /\ sendWaiters[c] = <<>>

\* What a buffer that is full or empty says.
LEMMA BufferFacts ==
  ASSUME CInv, NEW c \in Chan
  PROVE  /\ buffer[c] \in Seq(Values) /\ Len(buffer[c]) \in Nat /\ Cap(c) \in Nat \ {0}
         /\ Len(buffer[c]) <= Cap(c)
         /\ Len(buffer[c]) = 0 <=> buffer[c] = <<>>
         /\ recvWaiters \in [Chan -> Seq(Task)] /\ sendWaiters \in [Chan -> Seq(Task)]
         /\ buffer \in [Chan -> Seq(Values)] /\ sent[c] \in Nat
<1>1. buffer[c] \in Seq(Values) /\ Len(buffer[c]) <= Cap(c)
  BY DEF CInv, ChanTyped
<1>2. Len(buffer[c]) \in Nat /\ (Len(buffer[c]) = 0 <=> buffer[c] = <<>>)
  BY <1>1
<1>3. Cap(c) \in Nat \ {0}
  BY ChannelAssumption DEF Cap
<1> QED BY <1>1, <1>2, <1>3 DEF CInv, ChanTyped

\* A channel that a step has nothing to do with.
LEMMA WaitedStays ==
  ASSUME NEW c, Waited(c), buffer'[c] = buffer[c], recvWaiters'[c] = recvWaiters[c],
         sendWaiters'[c] = sendWaiters[c], c \in closed' <=> c \in closed
  PROVE  Waited(c)'
BY DEF Waited, Empty, Full, Cap

LEMMA TakeWaited ==
  ASSUME CInv, Orderly, NEW c \in Chan, Waited(c), Take(c), UNCHANGED closed
  PROVE  Waited(c)'
<1> DEFINE k == Refills(c)
           s == sendWaiters[c]
<1>1. /\ buffer[c] # <<>> /\ recvWaiters' = recvWaiters
      /\ buffer' = [buffer EXCEPT ![c] = Tail(buffer[c]) \o [i \in 1..k |-> waiting[SubSeq(s, 1, k)[i]]]]
      /\ sendWaiters' = [sendWaiters EXCEPT ![c] = SubSeq(s, k + 1, Len(s))]
  BY DEF Take, TakeAndRefill, Empty
<1>2. k \in 0..Len(s) /\ k \in Nat
  <2>1. k \in 0..Len(s)
    BY <1>1, RefillsFacts
  <2> QED BY <2>1
<1>3. [i \in 1..k |-> waiting[SubSeq(s, 1, k)[i]]] = SubSeq(Blocked(c), 1, k) /\ k \in 0..Len(Blocked(c))
  <2> HIDE DEF k
  <2> QED BY <1>2, CutFacts, Zenon
<1> DEFINE front == SubSeq(Blocked(c), 1, k)
           rest == SubSeq(s, k + 1, Len(s))
<1>4. /\ front \in Seq(Values) /\ Len(front) = k
      /\ rest \in Seq(Task) /\ Len(rest) = Len(s) - k /\ Len(s) \in Nat
  <2>1. Blocked(c) \in Seq(Values) /\ s \in Seq(Task) /\ Len(s) \in Nat
    BY BlockedFacts, ListsFacts
  <2> HIDE DEF k, s, Values
  <2> QED BY <1>2, <1>3, <2>1, SplitFacts, ZenonT(30)
<1> DEFINE t == Tail(buffer[c])
           b == t \o front
<1>5. t \in Seq(Values) /\ Len(t) = Len(buffer[c]) - 1
  BY <1>1, BufferFacts, HeadTail
<1>6. b \in Seq(Values) /\ Len(b) = Len(buffer[c]) - 1 + k
  <2> HIDE DEF t, front, k, Values
  <2>1. t \in Seq(Values) /\ front \in Seq(Values)
    BY <1>4, <1>5
  <2>2. b \in Seq(Values) /\ Len(b) = Len(t) + Len(front)
    BY <2>1
  <2> QED BY <1>4, <1>5, <2>2
<1> HIDE DEF k, s, front, rest, t, b
<1>7. buffer'[c] = b /\ sendWaiters'[c] = rest /\ recvWaiters'[c] = <<>>
  <2>1. recvWaiters[c] = <<>>
    BY <1>1 DEF Waited, Empty
  <2> QED BY <1>1, <1>3, <2>1, BufferFacts DEF front, rest, b, t, s
<1>8. CASE c \in closed
  <2>1. Len(s) = 0
    <3>1. s = <<>>
      BY <1>8 DEF Waited, s
    <3> QED BY <3>1
  <2>2. rest = <<>>
    <3>1. k = 0
      BY <1>2, <2>1
    <3>2. Len(rest) = Len(s) - k /\ rest \in Seq(Task)
      BY <1>4
    <3>3. Len(rest) = 0
      BY <2>1, <3>1, <3>2
    <3> QED BY <3>2, <3>3
  <2> QED BY <1>7, <2>2 DEF Waited
<1>9. CASE c \notin closed
  <2>1. rest # <<>> => Len(b) = Cap(c)
    <3> SUFFICES ASSUME rest # <<>> PROVE Len(b) = Cap(c)
      OBVIOUS
    <3>1. Len(rest) # 0
      BY <1>4
    <3>2. Len(s) # k
      BY <1>2, <1>4, <3>1
    <3>3. k = Cap(c) - Len(buffer[c]) + 1
      BY <1>9, <3>2 DEF k, s, Refills
    <3> QED BY <1>6, <3>3, BufferFacts
  <2> QED BY <1>7, <1>9, <2>1 DEF Waited, Full, Cap
<1> QED BY <1>8, <1>9

LEMMA ExchangeWaited ==
  ASSUME CInv, Orderly, NEW c \in Chan, Waited(c), Exchange(c)
  PROVE  Waited(c)'
<1>1. CASE HandOver(c) /\ UNCHANGED closed
  BY <1>1, BufferFacts DEF Waited, HandOver, CanHandOver, Full, Empty, Cap
<1>2. CASE Put(c) /\ ~CanHandOver(c) /\ UNCHANGED closed
  <2>1. recvWaiters[c] = <<>> /\ sendWaiters[c] = <<>>
    BY <1>2 DEF Waited, Put, CanHandOver
  <2> QED BY <1>2, <2>1 DEF Waited, Put, listVars
<1>3. CASE Take(c) /\ UNCHANGED closed
  BY <1>3, TakeWaited
<1>4. CASE Closes(c)
  BY <1>4, BufferFacts DEF Waited, Closes
<1> QED BY <1>1, <1>2, <1>3, <1>4, OrderlyDeed

\* Nobody is parked at a channel that could serve it.
LEMMA StrandedStep ==
  ASSUME CInv, Orderly, NobodyStranded, [ChanNext]_allVars
  PROVE  NobodyStranded'
<1> USE DEF NobodyStranded
<1>1. \A c \in Chan : Waited(c)
  BY DEF Waited
<1>2. ASSUME NEW d \in Chan PROVE Waited(d)'
  <2>1. CASE Quiet
    BY <1>1, <2>1, WaitedStays DEF Quiet, valueVars, listVars
  <2>2. ASSUME NEW c \in Chan, Exchange(c) PROVE Waited(d)'
    <3>1. CASE d = c
      BY <1>1, <2>2, <3>1, ExchangeWaited
    <3>2. CASE d # c
      <4>1. /\ buffer'[d] = buffer[d] /\ recvWaiters'[d] = recvWaiters[d]
            /\ sendWaiters'[d] = sendWaiters[d] /\ (d \in closed' <=> d \in closed)
        BY <2>2, <3>2, BufferFacts
        DEF Exchange, HandOver, Put, Take, TakeOnly, TakeAndRefill, Closes, listVars, valueVars
      <4> QED BY <1>1, <4>1, WaitedStays
    <3> QED BY <3>1, <3>2
  <2>3. ASSUME NEW c \in Chan, NEW t \in Task, SenderParks(t, c) PROVE Waited(d)'
    BY <1>1, <2>3, BufferFacts DEF SenderParks, Waited, Full, Empty, Cap
  <2>4. ASSUME NEW c \in Chan, NEW t \in Task, ReceiverParks(t, c) PROVE Waited(d)'
    BY <1>1, <2>4, BufferFacts DEF ReceiverParks, Waited, Full, Empty, Cap, valueVars
  <2> QED BY <2>1, <2>2, <2>3, <2>4, StepDeed DEF Deed
<1> QED BY <1>2 DEF Waited

\* Nobody is parked for what is already there: while the sends are orderly,
\* whoever waits for room waits at a full buffer, whoever waits for a value at
\* an empty one, and nobody at a closed channel (tya_channel_send,
\* tya_channel_receive, tya_channel_close).
THEOREM NobodyStrandedCorrect ==
  ASSUME Orderly
  PROVE  ChanSpec => []NobodyStranded
<1>1. ChanInit => NobodyStranded
  BY DEF ChanInit, NobodyStranded
<1>2. CInv /\ NobodyStranded /\ [ChanNext]_allVars => NobodyStranded'
  BY StrandedStep
<1> QED BY <1>1, <1>2, ChanInvariance, PTL DEF ChanSpec
-----------------------------------------------------------------------------
(* A channel is a first-in first-out queue.                                  *)

\* The number that the queue gives to its next value is the channel's.
LEMMA NumberIs ==
  ASSUME CInv, NEW c \in Chan, c \notin closed
  PROVE  Queue(c)!Number = sent[c] + 1
<1>1. /\ got[c] \in Seq(Values) /\ buffer[c] \in Seq(Values) /\ Blocked(c) \in Seq(Values)
      /\ Spread(got[c], buffer[c], Blocked(c), sent[c], c \notin closed) /\ sent[c] \in Nat
  BY SpreadHere
<1> DEFINE g == Len(got[c])
           b == Len(buffer[c])
           w == Len(Blocked(c))
<1>2. g + b + w = sent[c] /\ g \in Nat /\ b \in Nat /\ w \in Nat
  <2>1. Len(got[c]) + Len(buffer[c]) + Len(Blocked(c)) = sent[c]
    BY <1>1 DEF Spread
  <2>2. Len(got[c]) \in Nat /\ Len(buffer[c]) \in Nat /\ Len(Blocked(c)) \in Nat
    BY <1>1
  <2> QED BY <2>1, <2>2
<1>3. Queue(c)!Number = b + w + g + 1
  BY DEF Queue!Number
<1> HIDE DEF g, b, w
<1> QED BY <1>1, <1>2, <1>3

\* What a channel shows of its state to the queue it implements.
Shown(c) == <<buffer[c], Blocked(c), got[c], c \in closed>>

LEMMA ShownStays ==
  ASSUME NEW c, UNCHANGED Shown(c)
  PROVE  UNCHANGED Queue(c)!fifoVars
BY DEF Shown, Queue!fifoVars

\* A channel nobody is parked on has no blocked values.
LEMMA NoneBlocked ==
  ASSUME CInv, NEW c \in Chan, sendWaiters[c] = <<>>
  PROVE  Blocked(c) = <<>>
BY DEF Blocked

LEMMA ExchangeQueue ==
  ASSUME CInv, Orderly, NobodyStranded, NEW c \in Chan, Exchange(c)
  PROVE  Queue(c)!Next
<1>1. CASE HandOver(c) /\ UNCHANGED closed
  <2>1. /\ c \notin closed /\ buffer[c] = <<>> /\ UNCHANGED <<buffer, sendWaiters, waiting, closed>>
        /\ got' = [got EXCEPT ![c] = Append(got[c], sent[c] + 1)]
    BY <1>1 DEF HandOver, CanHandOver, Empty
  <2>2. sendWaiters[c] = <<>>
    BY <2>1, BufferFacts DEF NobodyStranded, Full
  <2>3. Blocked(c) = <<>> /\ Blocked(c)' = Blocked(c)
    BY <2>1, <2>2, SameBlocked, NoneBlocked
  <2>4. got'[c] = Append(got[c], Queue(c)!Number)
    BY <2>1, NumberIs DEF CInv, ChanTyped
  <2>5. Queue(c)!Pass
    BY <2>1, <2>3, <2>4 DEF Queue!Pass
  <2> QED BY <2>5 DEF Queue!Next
<1>2. CASE Put(c) /\ ~CanHandOver(c) /\ UNCHANGED closed
  <2>1. /\ c \notin closed /\ ~Full(c) /\ UNCHANGED <<got, sendWaiters, waiting, closed>>
        /\ buffer' = [buffer EXCEPT ![c] = Append(buffer[c], sent[c] + 1)]
    BY <1>2 DEF Put, listVars, slotVars
  <2>2. Blocked(c) = <<>> /\ Blocked(c)' = Blocked(c)
    BY <2>1, SameBlocked, NoneBlocked DEF NobodyStranded
  <2>3. buffer'[c] = Append(buffer[c], Queue(c)!Number)
    BY <2>1, NumberIs DEF CInv, ChanTyped
  <2>4. Queue(c)!Store
    BY <2>1, <2>2, <2>3 DEF Queue!Store
  <2> QED BY <2>4 DEF Queue!Next
<1>3. CASE Take(c) /\ UNCHANGED closed
  <2> DEFINE k == Refills(c)
             s == sendWaiters[c]
             woken == SubSeq(s, 1, k)
             rest == SubSeq(s, k + 1, Len(s))
  <2>1. /\ buffer[c] # <<>>
        /\ got' = [got EXCEPT ![c] = Append(got[c], Head(buffer[c]))]
        /\ buffer' = [buffer EXCEPT ![c] = Tail(buffer[c]) \o [i \in 1..k |-> waiting[woken[i]]]]
        /\ sendWaiters' = [sendWaiters EXCEPT ![c] = rest]
        /\ UNCHANGED <<waiting, closed>>
    BY <1>3 DEF Take, TakeAndRefill, Empty
  <2>2. k \in 0..Len(s)
    BY <2>1, RefillsFacts
  <2>3. /\ k \in 0..Len(Blocked(c))
        /\ [i \in 1..k |-> waiting[woken[i]]] = SubSeq(Blocked(c), 1, k)
        /\ [i \in DOMAIN rest |-> waiting[rest[i]]] = SubSeq(Blocked(c), k + 1, Len(Blocked(c)))
    <3> HIDE DEF k
    <3> QED BY <2>2, CutFacts, Zenon
  <2> HIDE DEF k, woken, rest
  <2>4. Blocked(c)' = SubSeq(Blocked(c), k + 1, Len(Blocked(c)))
    <3>1. sendWaiters'[c] = rest
      BY <2>1 DEF CInv, ChanTyped
    <3> QED BY <2>1, <2>3, <3>1 DEF Blocked
  <2>5. /\ got'[c] = Append(got[c], Head(buffer[c]))
        /\ buffer'[c] = Tail(buffer[c]) \o SubSeq(Blocked(c), 1, k)
    BY <2>1, <2>3 DEF CInv, ChanTyped
  <2>6. Queue(c)!Give
    BY <2>1, <2>3, <2>4, <2>5 DEF Queue!Give
  <2> QED BY <2>6 DEF Queue!Next
<1>4. CASE Closes(c)
  <2>1. /\ c \in closed' /\ UNCHANGED <<buffer, got>>
        /\ sendWaiters' = [sendWaiters EXCEPT ![c] = <<>>]
    BY <1>4 DEF Closes, valueVars
  <2>2. Blocked(c)' = <<>>
    <3>1. sendWaiters'[c] = <<>>
      BY <2>1, BufferFacts
    <3> QED BY <3>1 DEF Blocked
  <2>3. Queue(c)!Close
    BY <2>1, <2>2 DEF Queue!Close
  <2> QED BY <2>3 DEF Queue!Next
<1> QED BY <1>1, <1>2, <1>3, <1>4, OrderlyDeed

\* What a deed on one channel leaves of another.
LEMMA OthersShown ==
  ASSUME CInv, NEW c \in Chan, NEW d \in Chan \ {c},
         Exchange(c) \/ \E t \in Task : SenderParks(t, c) \/ ReceiverParks(t, c)
  PROVE  UNCHANGED Shown(d)
<1>1. /\ buffer'[d] = buffer[d] /\ got'[d] = got[d] /\ (d \in closed' <=> d \in closed)
      /\ sendWaiters'[d] = sendWaiters[d]
  <2>1. /\ buffer \in [Chan -> Seq(Values)] /\ got \in [Chan -> Seq(Values)]
        /\ sendWaiters \in [Chan -> Seq(Task)]
    BY DEF CInv, ChanTyped
  <2> QED BY <2>1 DEF Exchange, HandOver, Put, Take, TakeOnly, TakeAndRefill, Closes,
                      SenderParks, ReceiverParks, listVars, slotVars, valueVars
<1>2. ASSUME NEW u \in Range(sendWaiters[d]) PROVE waiting'[u] = waiting[u]
  <2>1. u \in Elsewhere /\ u \in Task /\ waiting \in [Task -> Values \cup {0}]
    BY ListsFacts DEF CInv, ChanTyped
  <2>2. CASE Exchange(c)
    BY <2>2 DEF Exchange, HandOver, Put, Take, TakeOnly, TakeAndRefill, Closes, slotVars
  <2>3. ASSUME NEW t \in Task, SenderParks(t, c) PROVE waiting'[u] = waiting[u]
    <3>1. t # u
      BY <2>1, <2>3, RunnerHere DEF SenderParks, Parking, Park, Runs
    <3> QED BY <2>1, <2>3, <3>1 DEF SenderParks
  <2>4. ASSUME NEW t \in Task, ReceiverParks(t, c) PROVE waiting'[u] = waiting[u]
    BY <2>4 DEF ReceiverParks, slotVars
  <2> QED BY <2>2, <2>3, <2>4
<1>3. Blocked(d)' = Blocked(d)
  BY <1>1, <1>2, SameBlocked
<1> QED BY <1>1, <1>3 DEF Shown

LEMMA QueueStep ==
  ASSUME CInv, Orderly, NobodyStranded, [ChanNext]_allVars, NEW d \in Chan
  PROVE  [Queue(d)!Next]_(Queue(d)!fifoVars)
<1>1. CASE Quiet
  <2>1. Blocked(d)' = Blocked(d)
    BY <1>1, SameBlocked DEF Quiet, listVars, slotVars
  <2> QED BY <1>1, <2>1, ShownStays DEF Quiet, valueVars, Shown
<1>2. ASSUME NEW c \in Chan, Exchange(c) \/ \E t \in Task : SenderParks(t, c) \/ ReceiverParks(t, c),
             d # c
      PROVE  UNCHANGED Queue(d)!fifoVars
  BY <1>2, OthersShown, ShownStays
<1>3. CASE Exchange(d)
  BY <1>3, ExchangeQueue
<1>4. ASSUME NEW t \in Task, SenderParks(t, d), CallsTyped' PROVE Queue(d)!Next
  <2>1. /\ d \notin closed /\ UNCHANGED <<buffer, got, closed>>
        /\ CInv'
    BY <1>4, SenderParksSafe DEF SenderParks
  <2>2. Blocked(d)' = Append(Blocked(d), sent[d] + 1)
    BY <1>4, ParkedBlocked
  <2>3. Queue(d)!Block
    BY <2>1, <2>2, NumberIs DEF Queue!Block
  <2> QED BY <2>3 DEF Queue!Next
<1>5. ASSUME NEW t \in Task, ReceiverParks(t, d) PROVE UNCHANGED Queue(d)!fifoVars
  <2>1. Blocked(d)' = Blocked(d)
    BY <1>5, SameBlocked DEF ReceiverParks, slotVars
  <2> QED BY <1>5, <2>1, ShownStays DEF ReceiverParks, valueVars, Shown
<1> QED BY <1>1, <1>2, <1>3, <1>4, <1>5, StepDeed DEF Deed

\* A channel of such a program is a first-in first-out queue: the values come out in
\* the order in which their sends began, each once.
THEOREM QueueCorrect ==
  ASSUME Orderly
  PROVE  ChanSpec => QueueSpec
<1>1. ChanInit => \A c \in Chan : Queue(c)!Init
  BY DEF ChanInit, Queue!Init, Blocked
<1>2. CInv /\ NobodyStranded /\ [ChanNext]_allVars =>
        \A c \in Chan : [Queue(c)!Next]_(Queue(c)!fifoVars)
  BY QueueStep
<1> QED BY <1>1, <1>2, ChanInvariance, NobodyStrandedCorrect, PTL DEF ChanSpec, QueueSpec

=============================================================================
