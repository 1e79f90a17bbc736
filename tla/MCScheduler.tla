----------------------------- MODULE MCScheduler -----------------------------
(* Instances of Scheduler for TLC, with the inductive invariant of the proofs. *)
(* Tasks a1 and a2 may await, b1 may be awaited: nobody does both in the flat  *)
(* instances.                                                                  *)
EXTENDS SchedulerProofs

CONSTANTS a1, a2, b1

ThreeTasks == {a1, a2, b1}

FlatAwaits == {a1, a2} \X {b1}

\* a1 awaits a2 and a2 awaits b1.
ChainAwaits == {<<a1, a2>>, <<a2, b1>>}

\* Everybody cancels, every task may raise.
AllCancel == Owner
AllRaise == Task
=============================================================================
