------------------------------ MODULE FifoQueue ------------------------------
(* What a channel promises: values are handed out in the order in which they *)
(* were accepted, each of them once; and only a close drops some, those whose *)
(* senders are still blocked.                                                *)
EXTENDS Integers, Sequences

VARIABLES
  stored,   \* the values that are in the channel
  blocked,  \* the values of blocked senders
  given,    \* the values handed out
  closed

fifoVars == <<stored, blocked, given, closed>>

Init == stored = <<>> /\ blocked = <<>> /\ given = <<>> /\ closed = FALSE

Number == Len(stored) + Len(blocked) + Len(given) + 1

\* No sender overtakes a blocked one.
Store ==
  /\ ~closed
  /\ blocked = <<>>
  /\ stored' = Append(stored, Number)
  /\ UNCHANGED <<blocked, given, closed>>

Block ==
  /\ ~closed
  /\ blocked' = Append(blocked, Number)
  /\ UNCHANGED <<stored, given, closed>>

\* A value that finds a receiver waiting is not stored.
Pass ==
  /\ ~closed
  /\ stored = <<>> /\ blocked = <<>>
  /\ given' = Append(given, Number)
  /\ UNCHANGED <<stored, blocked, closed>>

\* The oldest value goes, and some of the blocked senders get theirs in.
Give ==
  /\ stored # <<>>
  /\ given' = Append(given, Head(stored))
  /\ \E n \in 0..Len(blocked) :
       /\ stored' = Tail(stored) \o SubSeq(blocked, 1, n)
       /\ blocked' = SubSeq(blocked, n + 1, Len(blocked))
  /\ UNCHANGED closed

Close ==
  /\ closed' = TRUE
  /\ blocked' = <<>>
  /\ UNCHANGED <<stored, given>>

Next == Store \/ Block \/ Pass \/ Give \/ Close
Spec == Init /\ [][Next]_fifoVars
=============================================================================
