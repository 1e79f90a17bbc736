------------------------------- MODULE Channel -------------------------------
(***************************************************************************)
(* Channels between the fibers of the Tya runtime                          *)
(* (runtime/tya_runtime_task_sync.c).                                      *)
(*                                                                         *)
(* A value is the number it has among the values its channel accepted.     *)
(* The pthread mutex of a channel is never held over a context switch and  *)
(* is left out.  A task that has to wait in send or receive is parked on a *)
(* list of the channel; the main program, and everybody who waits in       *)
(* receive_timeout or select, polls.                                       *)
(***************************************************************************)
EXTENDS Scheduler

CONSTANTS
  Chan,      \* the channels
  Capacity,  \* the argument of channel.new, for each channel
  Uses,      \* <<o, call>> : the program lets o make that call on a channel
  MaxSend    \* bound on the number of sends that may begin on a channel

Call == {"send", "receive", "timed", "select", "close"}

ASSUME ChannelAssumption ==
  /\ Capacity \in [Chan -> Nat]
  /\ Uses \subseteq Owner \X Call
  /\ MaxSend \in Nat

VARIABLES
  op,          \* the channel call an owner is in the middle of
  alts,        \* the channels, and directions, that call is about
  until,       \* the deadline of a call that polls
  buffer,      \* the ring buffer: head, len and the values between
  recvWaiters, \* the list recv_waiters
  sendWaiters, \* the list send_waiters
  closed,      \* the channels with the flag closed
  pending,     \* pending_value of a task, 0 for nil
  waiting,     \* waiting_value of a task
  sendFailed,  \* the tasks with channel_send_failed
  sent,        \* history: how many values a channel has accepted
  got          \* history: the values it has handed out

callVars == <<op, alts, until>>
listVars == <<recvWaiters, sendWaiters>>
slotVars == <<pending, waiting, sendFailed>>
valueVars == <<buffer, sent, got>>
chanVars == <<callVars, listVars, slotVars, valueVars, closed>>
allVars == <<vars, chanVars>>

\* tya_channel_new treats capacity 0 as 1.
Cap(c) == IF Capacity[c] = 0 THEN 1 ELSE Capacity[c]

Alternative == Chan \X {"send", "receive"}
Never == MaxTime + 1

ChanInit ==
  /\ Init
  /\ op = [o \in Owner |-> "none"]
  /\ alts = [o \in Owner |-> {}]
  /\ until = [o \in Owner |-> 0]
  /\ buffer = [c \in Chan |-> <<>>]
  /\ recvWaiters = [c \in Chan |-> <<>>]
  /\ sendWaiters = [c \in Chan |-> <<>>]
  /\ closed = {}
  /\ pending = [t \in Task |-> 0]
  /\ waiting = [t \in Task |-> 0]
  /\ sendFailed = {}
  /\ sent = [c \in Chan |-> 0]
  /\ got = [c \in Chan |-> <<>>]
-----------------------------------------------------------------------------
(* What a call does to the channel, once it can.                           *)

Full(c) == Len(buffer[c]) = Cap(c)
Empty(c) == buffer[c] = <<>>

\* tya_task_enqueue for every task of a list: one that is done or queued is skipped.
EnqueueAll(s) ==
  LET skipped == done \cup queued IN
    /\ ready' = ready \o (IF Range(s) \cap skipped = {} THEN s
                          ELSE SelectSeq(s, LAMBDA t : t \notin skipped))
    /\ queued' = queued \cup (Range(s) \ done)

CanHandOver(c) == recvWaiters[c] # <<>> /\ Empty(c) /\ c \notin closed

\* Mutants of HandOver: the receiver stays on the list; the value is not passed.
HandOverKeeps(c) ==
  /\ CanHandOver(c)
  /\ pending' = [pending EXCEPT ![Head(recvWaiters[c])] = sent[c] + 1]
  /\ Enqueue(Head(recvWaiters[c]))
  /\ sent' = [sent EXCEPT ![c] = @ + 1]
  /\ got' = [got EXCEPT ![c] = Append(@, sent[c] + 1)]
  /\ UNCHANGED <<buffer, listVars, waiting, sendFailed>>

HandOverNil(c) ==
  /\ CanHandOver(c)
  /\ recvWaiters' = [recvWaiters EXCEPT ![c] = Tail(@)]
  /\ Enqueue(Head(recvWaiters[c]))
  /\ sent' = [sent EXCEPT ![c] = @ + 1]
  /\ got' = [got EXCEPT ![c] = Append(@, sent[c] + 1)]
  /\ UNCHANGED <<buffer, sendWaiters, slotVars>>

\* A value goes straight to the receiver that has waited longest.
HandOver(c) ==
  /\ CanHandOver(c)
  /\ recvWaiters' = [recvWaiters EXCEPT ![c] = Tail(@)]
  /\ pending' = [pending EXCEPT ![Head(recvWaiters[c])] = sent[c] + 1]
  /\ Enqueue(Head(recvWaiters[c]))
  /\ sent' = [sent EXCEPT ![c] = @ + 1]
  /\ got' = [got EXCEPT ![c] = Append(@, sent[c] + 1)]
  /\ UNCHANGED <<buffer, sendWaiters, waiting, sendFailed>>

\* A value is stored at the tail of the ring buffer.
Put(c) ==
  /\ c \notin closed /\ ~Full(c)
  /\ buffer' = [buffer EXCEPT ![c] = Append(@, sent[c] + 1)]
  /\ sent' = [sent EXCEPT ![c] = @ + 1]
  /\ UNCHANGED <<got, listVars, slotVars, queueVars>>

Accept(c) == HandOver(c) \/ (~CanHandOver(c) /\ Put(c))

\* Mutants of TakeAndRefill: a woken sender's value is not stored; the head of the
\* buffer is not moved on.
TakeForgets(c, k) ==
  LET woken == SubSeq(sendWaiters[c], 1, k) IN
    /\ ~Empty(c)
    /\ got' = [got EXCEPT ![c] = Append(@, Head(buffer[c]))]
    /\ buffer' = [buffer EXCEPT ![c] = Tail(@)]
    /\ sendWaiters' = [sendWaiters EXCEPT ![c] = SubSeq(@, k + 1, Len(@))]
    /\ sendFailed' = sendFailed \ Range(woken)
    /\ EnqueueAll(woken)
    /\ UNCHANGED <<sent, recvWaiters, pending, waiting>>

TakeCopies(c, k) ==
  /\ ~Empty(c)
  /\ got' = [got EXCEPT ![c] = Append(@, Head(buffer[c]))]
  /\ UNCHANGED <<buffer, sent, queueVars, listVars, slotVars>>

\* The value at the head leaves the buffer, and the first k blocked senders put
\* theirs behind the rest.
TakeAndRefill(c, k) ==
  LET woken == SubSeq(sendWaiters[c], 1, k) IN
    /\ ~Empty(c)
    /\ got' = [got EXCEPT ![c] = Append(@, Head(buffer[c]))]
    /\ buffer' = [buffer EXCEPT ![c] = Tail(@) \o [i \in 1..k |-> waiting[woken[i]]]]
    /\ sendWaiters' = [sendWaiters EXCEPT ![c] = SubSeq(@, k + 1, Len(@))]
    /\ sendFailed' = sendFailed \ Range(woken)
    /\ EnqueueAll(woken)
    /\ UNCHANGED <<sent, recvWaiters, pending, waiting>>

\* Mutant of Refills: counts the room before the value has left.
RefillsEarly(c) ==
  IF c \in closed \/ Full(c) THEN 0 ELSE Len(sendWaiters[c])

\* tya_channel_wake_one_sender goes on while there is room.
Refills(c) ==
  IF c \in closed THEN 0
  ELSE LET room == Cap(c) - Len(buffer[c]) + 1 IN
         IF Len(sendWaiters[c]) < room THEN Len(sendWaiters[c]) ELSE room

Take(c) == TakeAndRefill(c, Refills(c))

\* tya_channel_receive_timeout does not call tya_channel_wake_one_sender.
TakeOnly(c) == TakeAndRefill(c, 0)

\* Whose code may begin a channel call, and is in the middle of one.
Calls(o, call) == Runs(o) /\ op[o] = "none" /\ <<o, call>> \in Uses
In(o, call) == cur = o /\ op[o] = call
Begin(o, call, A, u) ==
  /\ op' = [op EXCEPT ![o] = call]
  /\ alts' = [alts EXCEPT ![o] = A]
  /\ until' = [until EXCEPT ![o] = u]
Return(o) == Begin(o, "none", {}, 0)
-----------------------------------------------------------------------------
(* Calls that do not wait.                                                 *)

restVars == <<pc, target, fateVars, sleepVars, waiterVars>>

\* tya_channel_send when a receiver is parked or there is room.
Send(o, c) ==
  /\ Calls(o, "send")
  /\ sent[c] < MaxSend
  /\ Accept(c)
  /\ UNCHANGED <<switchVars, restVars, callVars, closed>>

\* tya_channel_receive when there is a value.  Without one, and on a closed
\* channel, it returns nil and changes nothing.
Receive(o, c) ==
  /\ Calls(o, "receive")
  /\ Take(c)
  /\ UNCHANGED <<switchVars, restVars, callVars, closed>>

\* Mutant of Close: the parked senders are not woken.
CloseForgets(o, c) ==
  /\ Calls(o, "close")
  /\ closed' = closed \cup {c}
  /\ pending' = [t \in Task |-> IF t \in Range(recvWaiters[c]) THEN 0 ELSE pending[t]]
  /\ recvWaiters' = [recvWaiters EXCEPT ![c] = <<>>]
  /\ EnqueueAll(recvWaiters[c])
  /\ UNCHANGED <<switchVars, restVars, callVars, valueVars, sendWaiters, waiting, sendFailed>>

\* tya_channel_close.
Close(o, c) ==
  /\ Calls(o, "close")
  /\ closed' = closed \cup {c}
  /\ pending' = [t \in Task |-> IF t \in Range(recvWaiters[c]) THEN 0 ELSE pending[t]]
  /\ sendFailed' = sendFailed \cup Range(sendWaiters[c])
  /\ recvWaiters' = [recvWaiters EXCEPT ![c] = <<>>]
  /\ sendWaiters' = [sendWaiters EXCEPT ![c] = <<>>]
  /\ EnqueueAll(recvWaiters[c] \o sendWaiters[c])
  /\ UNCHANGED <<switchVars, restVars, callVars, valueVars, waiting>>
-----------------------------------------------------------------------------
(* send and receive that wait.                                             *)

\* A task that finds the channel full is parked with its value.
SendParks(t, c) ==
  /\ Calls(t, "send")
  /\ sent[c] < MaxSend
  /\ c \notin closed /\ ~CanHandOver(c) /\ Full(c)
  /\ waiting' = [waiting EXCEPT ![t] = sent[c] + 1]
  /\ sent' = [sent EXCEPT ![c] = @ + 1]
  /\ sendFailed' = sendFailed \ {t}
  /\ sendWaiters' = [sendWaiters EXCEPT ![c] = Append(@, t)]
  /\ Begin(t, "send", {<<c, "send">>}, 0)
  /\ Park(t)
  /\ UNCHANGED <<buffer, got, recvWaiters, pending, closed>>

\* A task that finds the channel empty is parked.
ReceiveParks(t, c) ==
  /\ Calls(t, "receive")
  /\ c \notin closed /\ Empty(c)
  /\ recvWaiters' = [recvWaiters EXCEPT ![c] = Append(@, t)]
  /\ Begin(t, "receive", {<<c, "receive">>}, 0)
  /\ Park(t)
  /\ UNCHANGED <<valueVars, sendWaiters, slotVars, closed>>

\* The rest of either call once the task is resumed: send raises if
\* channel_send_failed is set, receive returns pending_value.
Resume(t) ==
  /\ In(t, "send") \/ In(t, "receive")
  /\ Return(t)
  /\ UNCHANGED <<vars, valueVars, listVars, slotVars, closed>>

\* The main program that finds the channel full drives the scheduler ...
MainSendWaits(c) ==
  /\ Calls(Main, "send")
  /\ sent[c] < MaxSend
  /\ c \notin closed /\ ~CanHandOver(c) /\ Full(c)
  /\ Begin(Main, "send", {<<c, "send">>}, 0)
  /\ UNCHANGED <<vars, valueVars, listVars, slotVars, closed>>

\* ... until it is not full any more, and stores its value in the buffer; or
\* raises because the channel is closed.
MainSendEnds(c) ==
  /\ In(Main, "send") /\ <<c, "send">> \in alts[Main]
  /\ \/ Put(c)
     \/ c \in closed /\ UNCHANGED <<valueVars, listVars, slotVars, queueVars>>
  /\ Return(Main)
  /\ UNCHANGED <<switchVars, restVars, closed>>

\* The main program that finds the channel empty drives the scheduler too ...
MainReceiveWaits(c) ==
  /\ Calls(Main, "receive")
  /\ c \notin closed /\ Empty(c)
  /\ Begin(Main, "receive", {<<c, "receive">>}, 0)
  /\ UNCHANGED <<vars, valueVars, listVars, slotVars, closed>>

\* ... until there is a value or the channel is closed.
MainReceiveEnds(c) ==
  /\ In(Main, "receive") \/ In(Main, "back")
  /\ <<c, "receive">> \in alts[Main]
  /\ \/ Take(c)
     \/ Empty(c) /\ c \in closed /\ UNCHANGED <<valueVars, listVars, slotVars, queueVars>>
  /\ Return(Main)
  /\ UNCHANGED <<switchVars, restVars, closed>>

\* Back from run_one with no task ready, it returns nil.
MainReceiveGivesUp(c) ==
  /\ In(Main, "back")
  /\ <<c, "receive">> \in alts[Main]
  /\ ready = <<>> /\ Empty(c) /\ c \notin closed
  /\ Return(Main)
  /\ UNCHANGED <<vars, valueVars, listVars, slotVars, closed>>

\* The loops around run_one in the main program's send and receive.
MainDrivesChannel ==
  \E c \in Chan :
    \/ In(Main, "send") /\ <<c, "send">> \in alts[Main] /\ Full(c) /\ c \notin closed
    \/ /\ In(Main, "receive") \/ (In(Main, "back") /\ ready # <<>>)
       /\ <<c, "receive">> \in alts[Main]
       /\ Empty(c) /\ c \notin closed

\* What the main program's call is in once run_one has returned.
AfterRunOne == IF op[Main] = "receive" THEN "back" ELSE op[Main]

MainChannelRuns ==
  /\ MainDrivesChannel
  /\ \/ WakeSleeper /\ UNCHANGED op
     \/ /\ Dispatch(Main)
        /\ op' = [op EXCEPT ![Main] = AfterRunOne]
        /\ UNCHANGED <<pc, target, fateVars, sleepVars, waiterVars>>
     \/ /\ ~SleeperDue /\ ready = <<>>
        /\ op' = [op EXCEPT ![Main] = AfterRunOne]
        /\ UNCHANGED vars
  /\ UNCHANGED <<alts, until, valueVars, listVars, slotVars, closed>>
-----------------------------------------------------------------------------
(* Calls that poll: receive_timeout and select.                            *)

Timed(o, c) ==
  /\ Calls(o, "timed")
  /\ \E d \in now..MaxTime : Begin(o, "poll", {<<c, "receive">>}, d)
  /\ UNCHANGED <<vars, valueVars, listVars, slotVars, closed>>

TimedTakes(o, c) ==
  /\ In(o, "poll") /\ <<c, "receive">> \in alts[o]
  /\ TakeOnly(c)
  /\ Return(o)
  /\ UNCHANGED <<switchVars, restVars, closed>>

\* nil: closed, or out of time.  The main program looks at the time only when no
\* task is ready, and waits for it in pthread_cond_timedwait.
TimedEnds(o, c) ==
  /\ In(o, "poll") /\ <<c, "receive">> \in alts[o]
  /\ Empty(c)
  /\ c \in closed \/ (until[o] <= now /\ (o = Main => ready = <<>>))
  /\ Return(o)
  /\ UNCHANGED <<vars, valueVars, listVars, slotVars, closed>>

TimedYields(t, c) ==
  /\ In(t, "poll") /\ <<c, "receive">> \in alts[t]
  /\ Empty(c) /\ c \notin closed /\ now < until[t]
  /\ Yield(t)
  /\ UNCHANGED chanVars

MainTimedRuns(c) ==
  /\ In(Main, "poll") /\ <<c, "receive">> \in alts[Main]
  /\ Empty(c) /\ c \notin closed /\ ready # <<>>
  /\ WakeSleeper \/ (Dispatch(Main) /\ UNCHANGED <<pc, target, fateVars, sleepVars, waiterVars>>)
  /\ UNCHANGED chanVars

\* A select with any alternatives, with or without a timeout.  One with a default
\* never waits, so that it is a send, a receive or nothing.
Select(o) ==
  /\ Calls(o, "select")
  /\ \E A \in SUBSET Alternative, u \in now..Never :
       /\ A # {} \/ u # Never
       /\ \A c \in Chan : <<c, "send">> \in A => sent[c] < MaxSend
       /\ Begin(o, "select", A, u)
  /\ UNCHANGED <<vars, valueVars, listVars, slotVars, closed>>

\* The first alternative, in the order the program wrote them, that can go ahead;
\* on a closed channel send raises and receive gives nil.
SelectTakes(o, c) ==
  /\ In(o, "select") /\ <<c, "receive">> \in alts[o]
  /\ \/ Take(c)
     \/ Empty(c) /\ c \in closed /\ UNCHANGED <<valueVars, listVars, slotVars, queueVars>>
  /\ Return(o)
  /\ UNCHANGED <<switchVars, restVars, closed>>

SelectSends(o, c) ==
  /\ In(o, "select") /\ <<c, "send">> \in alts[o]
  /\ \/ Accept(c)
     \/ c \in closed /\ UNCHANGED <<valueVars, listVars, slotVars, queueVars>>
  /\ Return(o)
  /\ UNCHANGED <<switchVars, restVars, closed>>

SelectWaits(o) ==
  /\ In(o, "select")
  /\ \A c \in Chan : /\ <<c, "receive">> \in alts[o] => Empty(c) /\ c \notin closed
                     /\ <<c, "send">> \in alts[o] =>
                          c \notin closed /\ ~CanHandOver(c) /\ Full(c)

SelectTimesOut(o) ==
  /\ SelectWaits(o)
  /\ until[o] <= now
  /\ Return(o)
  /\ UNCHANGED <<vars, valueVars, listVars, slotVars, closed>>

\* Whoever selects runs ready tasks itself, a task on top of its own fiber.
SelectRuns(o) ==
  /\ SelectWaits(o)
  /\ now < until[o]
  /\ ready # <<>>
  /\ WakeSleeper \/ (Dispatch(o) /\ UNCHANGED <<pc, target, fateVars, sleepVars, waiterVars>>)
  /\ UNCHANGED chanVars

\* With nothing ready a task yields; the main program sleeps a millisecond and
\* tries again.
SelectSleeps ==
  /\ SelectWaits(Main)
  /\ now < until[Main]
  /\ ready = <<>>
  /\ UNCHANGED allVars

SelectYields(t) ==
  /\ SelectWaits(t)
  /\ now < until[t]
  /\ ready = <<>>
  /\ Yield(t)
  /\ UNCHANGED chanVars
-----------------------------------------------------------------------------
TaskChannelStep(t) ==
  \/ \E c \in Chan : SendParks(t, c) \/ ReceiveParks(t, c) \/ TimedYields(t, c)
  \/ Resume(t)
  \/ SelectYields(t)

MainChannelStep ==
  \/ \E c \in Chan : \/ MainSendWaits(c) \/ MainSendEnds(c)
                     \/ MainReceiveWaits(c) \/ MainReceiveEnds(c) \/ MainReceiveGivesUp(c)
                     \/ MainTimedRuns(c)
  \/ MainChannelRuns
  \/ SelectSleeps

ChannelStep(o) ==
  \/ \E c \in Chan : \/ Send(o, c) \/ Receive(o, c) \/ Close(o, c)
                     \/ Timed(o, c) \/ TimedTakes(o, c) \/ TimedEnds(o, c)
                     \/ SelectTakes(o, c) \/ SelectSends(o, c)
  \/ Select(o) \/ SelectTimesOut(o) \/ SelectRuns(o)

TaskRuns == \E t \in Task : \/ op[t] = "none" /\ TaskStep(t) /\ UNCHANGED chanVars
                            \/ TaskChannelStep(t)
                            \/ ChannelStep(t)
MainRuns == \/ op[Main] = "none" /\ MainStep /\ UNCHANGED chanVars
            \/ MainChannelStep
            \/ ChannelStep(Main)

ChanNext ==
  \/ TaskRuns
  \/ MainRuns
  \/ (Tick \/ Stopped) /\ UNCHANGED chanVars

ChanFairness == WF_allVars(TaskRuns) /\ WF_allVars(MainRuns) /\ WF_allVars(Tick /\ UNCHANGED chanVars)
ChanSpec == ChanInit /\ [][ChanNext]_allVars
ChanFairSpec == ChanSpec /\ ChanFairness
-----------------------------------------------------------------------------
(* Properties.                                                             *)

\* The tasks parked on a channel, and the values they are blocked with.
Receivers == UNION {Range(recvWaiters[c]) : c \in Chan}
Senders == UNION {Range(sendWaiters[c]) : c \in Chan}
Blocked(c) == [i \in DOMAIN sendWaiters[c] |-> waiting[sendWaiters[c][i]]]

\* A task that is alive is in exactly one place: on the processor, ready, asleep,
\* parked in await, or on one list of one channel.  A task that is resumed has
\* left every list, so that no one hands it a second value (waiter_push and
\* waiter_pop against tya_task_enqueue).
ChanOnePlace ==
  /\ IsInjective(ready) /\ Range(ready) = queued
  /\ created \ done \subseteq On \cup queued \cup Range(sleepers) \cup Parked \cup Receivers \cup Senders
  /\ (Receivers \cup Senders) \cap (On \cup queued \cup Range(sleepers) \cup Parked \cup done) = {}
  /\ Receivers \cap Senders = {}
  /\ \A c, d \in Chan : c # d => /\ Range(recvWaiters[c]) \cap Range(recvWaiters[d]) = {}
                                 /\ Range(sendWaiters[c]) \cap Range(sendWaiters[d]) = {}
  /\ \A c \in Chan : IsInjective(recvWaiters[c]) /\ IsInjective(sendWaiters[c])

\* Nobody waits for a value while the channel holds one, nor for room while the
\* channel has some, nor at a closed channel (tya_channel_send, tya_channel_receive,
\* tya_channel_wake_one_sender, tya_channel_close).
NobodyStranded ==
  \A c \in Chan : /\ recvWaiters[c] # <<>> => Empty(c)
                  /\ sendWaiters[c] # <<>> => Full(c)
                  /\ c \in closed => recvWaiters[c] = <<>> /\ sendWaiters[c] = <<>>

\* Every value that was accepted has been handed out, is in the buffer or belongs
\* to a parked sender, and to only one of these; only a close loses values, those
\* of the senders whose calls it makes fail.
Accounted ==
  \A c \in Chan :
    LET all == got[c] \o buffer[c] \o Blocked(c) IN
      /\ IsInjective(all)
      /\ Range(all) \subseteq 1..sent[c]
      /\ c \notin closed => Range(all) = 1..sent[c]

\* receive in a task returns nil only when the channel is closed
\* (tya_channel_receive and the two who answer it, send and close).
ReceiveNilMeansClosed ==
  [][\A t \in Task, c \in Chan :
       /\ op[t] = "receive" /\ op'[t] = "none"
       /\ <<c, "receive">> \in alts[t] /\ pending[t] = 0
       => c \in closed]_allVars

\* Each channel hands out its values in the order in which it accepted them, whatever
\* happens on the others (FifoQueue).
Queue(c) == INSTANCE FifoQueue WITH
  stored <- buffer[c], blocked <- Blocked(c), given <- got[c], closed <- c \in closed
QueueSpec ==
  /\ \A c \in Chan : Queue(c)!Init
  /\ [][\A c \in Chan : [Queue(c)!Next]_(Queue(c)!fifoVars)]_allVars

ChannelWaits == MainWaits \/ op[Main] \in {"send", "receive", "back"}

\* While the main program waits, a task that is parked on a channel that somebody
\* closes goes on (tya_channel_close).
CloseWakes ==
  \A t \in Task, c \in Chan :
    op[t] \in {"send", "receive"} /\ c \in closed /\ alts[t] \subseteq {c} \X {"send", "receive"}
      /\ ChannelWaits
    ~> op[t] = "none" \/ ~ChannelWaits
=============================================================================
