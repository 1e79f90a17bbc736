------------------------------- MODULE MCScopes -------------------------------
(* Instances of Scopes for TLC.                                               *)
EXTENDS ScopesProofs

CONSTANTS a1, a2, b1, s1, s2

TwoTasks == {a1, b1}
ThreeTasks == {a1, a2, b1}
TwoScopes == {s1, s2}
NoAwaits == {}
FlatAwaits == {<<a1, b1>>, <<a2, b1>>} \cap Task \X Task
MainAlone == {Main}
Nobody == {}

\* Every task may raise; nobody but a scope cancels.
AllRaise == Task
=============================================================================
