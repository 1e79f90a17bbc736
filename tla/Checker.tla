------------------------------- MODULE Checker -------------------------------
(***************************************************************************)
(* The checker (src/internal/checker): a structural pass that looks every  *)
(* name up in a chain of scopes and fixes the kind of a binding            *)
(* (checker.go), then a strict pass that forbids shadowing and assignment  *)
(* to a name outside the function (strict.go).                             *)
(*                                                                         *)
(* A scope chain is a sequence, the innermost scope last.  A pass returns  *)
(* the chain after the statements and whether they are accepted.           *)
(***************************************************************************)
EXTENDS Syntax, TLC
LOCAL INSTANCE SequencesExt

(* Structural scopes: names to kinds; "unknown" is a kind.                 *)
Passes(scopes) == [ok |-> TRUE, scopes |-> scopes]
Rejects(scopes) == [ok |-> FALSE, scopes |-> scopes]

Inner(scopes) == Append(scopes, <<>>)
Top(scopes) == scopes[Len(scopes)]

Defined(x, scopes) == \E i \in DOMAIN scopes : x \in DOMAIN scopes[i]

(* The kind of the innermost scope that has the name.                      *)
KindHere(x, scopes) ==
  LET at == {i \in DOMAIN scopes : x \in DOMAIN scopes[i]}
  IN  IF at = {} THEN "unknown"
      ELSE scopes[CHOOSE i \in at : \A j \in at : j <= i][x]

(* scope.define: nil does not replace a kind that is known.                *)
DefineIn(x, kind, scopes) ==
  LET now == Top(scopes)
      known == x \in DOMAIN now /\ now[x] # "unknown"
  IN  [scopes EXCEPT ![Len(scopes)] =
         IF kind = "nil" /\ known THEN now ELSE (x :> kind) @@ now]

(* exprKind, literalKind: only a literal has a kind.                       *)
ExprKind(x) ==
  CASE x.k = "const" /\ x.v.kind # "error" -> x.v.kind
    [] x.k = "func" -> "function"
    [] OTHER -> "unknown"

(* The functions a block gives names to can be used anywhere in it.        *)
\* Mutant of Predeclare: every name the block assigns.
PredeclareAll(stmts, scopes) ==
  LET fs == {n \in ToSet(stmts) : n.k = "assign"}
  IN  [scopes EXCEPT ![Len(scopes)] =
         [x \in {n.x : n \in fs} |-> "unknown"] @@ @]

Predeclare(stmts, scopes) ==
  LET fs == {n \in ToSet(stmts) : n.k = "assign" /\ n.e.k = "func"}
  IN  [scopes EXCEPT ![Len(scopes)] =
         [x \in {n.x : n \in fs} |-> "unknown"] @@ @]

RECURSIVE CheckExpr(_, _), CheckStmt(_, _), CheckStmts(_, _),
          CheckSeq(_, _)

CheckSeq(stmts, scopes) ==
  IF stmts = <<>> THEN Passes(scopes)
  ELSE LET r == CheckStmt(Head(stmts), scopes)
       IN  IF r.ok THEN CheckSeq(Tail(stmts), r.scopes) ELSE r
CheckStmts(stmts, scopes) == CheckSeq(stmts, Predeclare(stmts, scopes))

(* A block in a scope of its own, with a name defined in it.               *)
CheckBlock(stmts, scopes) == CheckStmts(stmts, Inner(scopes)).ok
CheckWith(x, stmts, scopes) ==
  CheckStmts(stmts, IF x = "_" THEN Inner(scopes)
                    ELSE DefineIn(x, "unknown", Inner(scopes))).ok

CheckExpr(x, scopes) ==
  CASE x.k = "const" -> TRUE
    [] x.k = "name" -> Defined(x.x, scopes)
    [] x.k \in {"and", "or", "??"} ->
         CheckExpr(x.l, scopes) /\ CheckExpr(x.r, scopes)
    [] x.k \in {"not", "call", "print"} -> CheckExpr(x.e, scopes)
    [] x.k = "func" -> CheckBlock(x.body, scopes)
    [] x.k \in Control -> CheckStmt(x, scopes).ok

(* An assignment keeps the kind of the name, nil aside.                    *)
CheckAssign(n, scopes) ==
  LET next == ExprKind(n.e)
      prev == KindHere(n.x, scopes)
  IN  IF \/ ~CheckExpr(n.e, scopes)
         \/ /\ prev \notin {"unknown", "nil"} /\ next \notin {"unknown", "nil"}
            /\ prev # next
      THEN Rejects(scopes)
      ELSE Passes(DefineIn(n.x, next, scopes))

CheckStmt(n, scopes) ==
  IF n.k \in {"assign", "nilassign"} THEN CheckAssign(n, scopes)
  ELSE LET good ==
             CASE n.k \in {"expr", "return", "raise"} -> CheckExpr(n.e, scopes)
               [] n.k = "if" ->
                    /\ CheckExpr(n.c, scopes)
                    /\ CheckBlock(n.a, scopes) /\ CheckBlock(n.b, scopes)
               [] n.k = "while" ->
                    CheckExpr(n.c, scopes) /\ CheckBlock(n.a, scopes)
               [] n.k = "for" -> CheckWith(n.x, n.a, scopes)
               [] n.k = "try" ->
                    /\ CheckBlock(n.a, scopes)
                    /\ CheckWith(n.name, n.b, scopes)
                    /\ CheckBlock(n.fin, scopes)
               [] n.k = "match" ->
                    /\ CheckExpr(n.e, scopes)
                    /\ \A c \in ToSet(n.cases) : CheckBlock(c.a, scopes)
               [] n.k = "scope" -> CheckBlock(n.a, scopes)
               [] OTHER -> TRUE
       IN  IF good THEN Passes(scopes) ELSE Rejects(scopes)

---------------------------------------------------------------------------
(* The strict pass: a scope is the set of its names and whether it is a    *)
(* function's body; the first is the file's.                               *)

StrictScope(names, fn) == [names |-> names, fn |-> fn]
StrictInner(ss) == Append(ss, StrictScope({}, FALSE))
Bound(x, ss) == {i \in DOMAIN ss : x \in ss[i].names}

(* define: an error if the name is bound around.                           *)
StrictDefine(x, ss) ==
  IF x = "_" THEN Passes(ss)
  ELSE IF Bound(x, ss) \ {Len(ss)} # {} THEN Rejects(ss)
  ELSE Passes([ss EXCEPT ![Len(ss)].names = @ \cup {x}])

(* Bound, and only outside the innermost function.                         *)
AboveFunction(x, ss) ==
  LET fns == {i \in DOMAIN ss : ss[i].fn}
      root == CHOOSE i \in fns : \A j \in fns : j <= i
  IN  fns # {} /\ Bound(x, ss) # {} /\ \A i \in Bound(x, ss) : i < root

TopLevelNames(stmts) ==
  {n.x : n \in {n \in ToSet(stmts) : n.k \in {"assign", "nilassign"}}}

RECURSIVE StrictExpr(_, _), StrictStmt(_, _), StrictStmts(_, _)

StrictStmts(stmts, ss) ==
  IF stmts = <<>> THEN Passes(ss)
  ELSE LET r == StrictStmt(Head(stmts), ss)
       IN  IF r.ok THEN StrictStmts(Tail(stmts), r.scopes) ELSE r
StrictBlock(stmts, ss) == StrictStmts(stmts, StrictInner(ss)).ok
StrictWith(x, stmts, ss) ==
  LET d == StrictDefine(x, StrictInner(ss))
  IN  d.ok /\ StrictStmts(stmts, d.scopes).ok

(* Function literals are entered, control-flow expressions are not.        *)
StrictExpr(x, ss) ==
  CASE x.k \in {"and", "or", "??"} -> StrictExpr(x.l, ss) /\ StrictExpr(x.r, ss)
    [] x.k \in {"not", "call", "print"} -> StrictExpr(x.e, ss)
    [] x.k = "func" ->
         StrictStmts(x.body, Append(ss, StrictScope({}, TRUE))).ok
    [] OTHER -> TRUE

(* Away from the top level a name is bound by its first assignment, and a  *)
(* function may not assign a name from outside it.                         *)
StrictAssign(n, ss) ==
  IF ~StrictExpr(n.e, ss) \/ (Len(ss) > 1 /\ AboveFunction(n.x, ss))
  THEN Rejects(ss)
  ELSE IF Len(ss) > 1 /\ Bound(n.x, ss) = {}
  THEN Passes([ss EXCEPT ![Len(ss)].names = @ \cup {n.x}])
  ELSE Passes(ss)

StrictStmt(n, ss) ==
  IF n.k \in {"assign", "nilassign"} THEN StrictAssign(n, ss)
  ELSE LET good ==
             CASE n.k \in {"expr", "return", "raise"} -> StrictExpr(n.e, ss)
               [] n.k = "if" ->
                    /\ StrictExpr(n.c, ss)
                    /\ StrictBlock(n.a, ss) /\ StrictBlock(n.b, ss)
               [] n.k = "while" -> StrictExpr(n.c, ss) /\ StrictBlock(n.a, ss)
               [] n.k = "for" -> StrictWith(n.x, n.a, ss)
               [] n.k = "try" ->
                    /\ StrictBlock(n.a, ss)
                    /\ n.catch => StrictWith(n.name, n.b, ss)
                    /\ StrictBlock(n.fin, ss)
               [] n.k = "match" ->
                    /\ StrictExpr(n.e, ss)
                    /\ \A c \in ToSet(n.cases) : StrictBlock(c.a, ss)
               [] OTHER -> TRUE
       IN  IF good THEN Passes(ss) ELSE Rejects(ss)

(* CheckWithModules: both passes.                                          *)
Accepted(stmts) ==
  /\ CheckStmts(stmts, <<(<<>>)>>).ok
  /\ StrictStmts(stmts, <<StrictScope(TopLevelNames(stmts), FALSE)>>).ok

=============================================================================
