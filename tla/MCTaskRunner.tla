----------------------------- MODULE MCTaskRunner -----------------------------
(* An instance of TaskRunner for TLC: every graph of three tasks in which a   *)
(* task may be needed twice, need itself through others, or name an unknown.  *)
EXTENDS TaskRunner, TLC

CONSTANTS a, b, c, x

ThreeTasks == {a, b, c}
OneUnknown == {x}

SomeGraphs == a :> {<<>>, <<b>>, <<b, c>>, <<c, b>>, <<b, x>>, <<b, b>>}
           @@ b :> {<<>>, <<c>>, <<a>>, <<x>>}
           @@ c :> {<<>>, <<b>>}

OneOrTwo == a :> 1 @@ b :> 2 @@ c :> 2
OnlyC == {c}
=============================================================================
