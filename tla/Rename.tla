------------------------------- MODULE Rename -------------------------------
(***************************************************************************)
(* textDocument/rename on one file (lsp/rename.go): the name under the     *)
(* cursor is a function of the file, renamed everywhere in it, or a local  *)
(* of the function whose lines hold the cursor (lsp/finder_v2.go), renamed *)
(* in that function.                                                       *)
(***************************************************************************)
EXTENDS Parser
LOCAL INSTANCE SequencesExt
LOCAL INSTANCE FiniteSetsExt

(* walkStmt, walkExpr: the nodes that are visited; a target of an          *)
(* assignment is visited as a name.  Control flow that is a value, spawn,  *)
(* await and scope blocks are not entered.                                 *)
RECURSIVE WalkExpr(_), WalkStmt(_)
WalkAll(stmts) == UNION {WalkStmt(n) : n \in ToSet(stmts)}

WalkExpr(x) ==
  {x} \cup
  CASE x.k \in Ops -> WalkExpr(x.l) \cup WalkExpr(x.r)
    [] x.k \in {"not", "-", "call", "print"} -> WalkExpr(x.e)
    [] x.k = "func" -> WalkAll(x.body)
    [] OTHER -> {}

\* Mutant of WalkStmt: the part that catches is not entered.
WalkStmtNoCatch(n) ==
  CASE n.k \in {"assign", "nilassign"} ->
         {With(Name(n.x), n)} \cup WalkExpr(n.e)
    [] n.k \in {"expr", "return", "raise"} -> WalkExpr(n.e)
    [] n.k = "if" -> WalkExpr(n.c) \cup WalkAll(n.a) \cup WalkAll(n.b)
    [] n.k = "while" -> WalkExpr(n.c) \cup WalkAll(n.a)
    [] n.k = "for" -> WalkAll(n.a)
    [] n.k = "try" -> WalkAll(n.a) \cup WalkAll(n.fin)
    [] n.k = "match" ->
         WalkExpr(n.e) \cup UNION {WalkAll(c.a) : c \in ToSet(n.cases)}
    [] OTHER -> {}

WalkStmt(n) ==
  CASE n.k \in {"assign", "nilassign"} ->
         {With(Name(n.x), n)} \cup WalkExpr(n.e)
    [] n.k \in {"expr", "return", "raise"} -> WalkExpr(n.e)
    [] n.k = "if" -> WalkExpr(n.c) \cup WalkAll(n.a) \cup WalkAll(n.b)
    [] n.k = "while" -> WalkExpr(n.c) \cup WalkAll(n.a)
    [] n.k = "for" -> WalkAll(n.a)
    [] n.k = "try" -> WalkAll(n.a) \cup WalkAll(n.b) \cup WalkAll(n.fin)
    [] n.k = "match" ->
         WalkExpr(n.e) \cup UNION {WalkAll(c.a) : c \in ToSet(n.cases)}
    [] OTHER -> {}

FindAllIdentRefs(stmts, x) ==
  {n.at : n \in {n \in WalkAll(stmts) : n.k = "name" /\ n.x = x}}

---------------------------------------------------------------------------

(* The lines of a statement, as far as the tree knows them: a literal has  *)
(* no line, and a function starts with its first statement.                *)
RECURSIVE FirstLineOf(_)
FuncStart(f) == IF "inline" \in DOMAIN f THEN 0 ELSE FirstLineOf(f.body[1])
FirstLineOf(n) ==
  CASE n.k \in {"name", "print", "not", "-", "assign", "nilassign", "return",
                "raise"} -> n.at[1]
    [] n.k \in {"expr", "call"} -> FirstLineOf(n.e)
    [] n.k \in Ops -> FirstLineOf(n.l)
    [] n.k \in {"if", "while"} -> FirstLineOf(n.c)
    [] n.k = "func" -> FuncStart(n)
    [] OTHER -> 0

RECURSIVE StmtLastLine(_)
StmtLastLine(n) ==
  LET stmts == UNION {ToSet(n[f]) : f \in DOMAIN n \cap {"a", "b", "fin"}}
                 \cup (IF n.k = "match"
                       THEN UNION {ToSet(c.a) : c \in ToSet(n.cases)} ELSE {})
  IN  IF n.k \in Control \cup {"try"}
      THEN Max({FirstLineOf(n)} \cup {StmtLastLine(s) : s \in stmts})
      ELSE FirstLineOf(n)

NoFunc == [body |-> <<>>]
EnclosingFunc(tree, line) ==
  LET around == {f \in WalkAll(tree) :
                   /\ f.k = "func" /\ FuncStart(f) # 0
                   /\ StmtLastLine(Last(f.body)) # 0
                   /\ line \in FuncStart(f)..StmtLastLine(Last(f.body))}
  IN  IF around = {} THEN NoFunc
      ELSE CHOOSE f \in around : \A h \in around : FuncStart(h) <= FuncStart(f)

---------------------------------------------------------------------------

(* The functions of the file, and the names a function binds outright.     *)
TopLevelFunctions(tree) ==
  {n.x : n \in {n \in ToSet(tree) :
                  n.k \in {"assign", "nilassign"} /\ n.e.k = "func"}}
ScopeHasName(f, x) ==
  \E n \in ToSet(f.body) : n.k \in {"assign", "nilassign"} /\ n.x = x

(* Where the name x, under the cursor at a place, is renamed to y; the     *)
(* empty set when the server answers with an error.                        *)
RenamePlaces(tree, at, x, y) ==
  LET f == EnclosingFunc(tree, at[1])
  IN  CASE at \notin FindAllIdentRefs(tree, x) -> {}
        [] at \in FindAllIdentRefs(tree, x) /\ x \in TopLevelFunctions(tree) ->
             IF y \in TopLevelFunctions(tree) THEN {}
             ELSE FindAllIdentRefs(tree, x)
        [] OTHER ->
             IF ~ScopeHasName(f, x) \/ ScopeHasName(f, y) THEN {}
             ELSE FindAllIdentRefs(f.body, x)

TokensToEdits(lines, places, y) ==
  [l \in DOMAIN lines |->
     [lines[l] EXCEPT !.toks =
        [j \in DOMAIN @ |-> IF <<l, j>> \in places THEN NameTok(y) ELSE @[j]]]]
=============================================================================
