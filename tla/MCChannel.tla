------------------------------ MODULE MCChannel ------------------------------
(* Instances of Channel for TLC.                                            *)
EXTENDS Channel

CONSTANTS a1, a2, b1, c1, c2

OneTask == {a1}
ThreeTasks == {a1, a2, b1}
OneChan == {c1}
TwoChans == {c1, c2}
CapOne == [c \in Chan |-> 0]

\* Channels do not look at the flags that cancel and raise set.
Nobody == {}
NoAwaits == {}

\* Tasks send and receive; the main program sets them going and closes.
TasksUse == Task \X {"send", "receive"} \cup {<<Main, "close">>}

\* All calls, by one task: a task that selects while another is ready runs the
\* scheduler on top of its own frame, and leaves it.
AllUse == Owner \X Call
=============================================================================
