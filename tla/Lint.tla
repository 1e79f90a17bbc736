-------------------------------- MODULE Lint --------------------------------
(***************************************************************************)
(* `tya lint --fix` (cmd/tya/lint.go): the ifs of a literal are unwrapped  *)
(* (checker/autofix.go, cmd/tya/lint_autofix.go), then the lines that give *)
(* a name a value that is not used are deleted (checker/unused.go), line   *)
(* by line of the text.                                                    *)
(***************************************************************************)
EXTENDS Parser
LOCAL INSTANCE SequencesExt

(* What is known of the names while the tree is walked: the bindings, each *)
(* with the number of its scope, and the scopes there are.  A chain is the *)
(* numbers of the scopes around, the innermost last.                       *)
UseScope == [binds |-> <<>>, scopes |-> 1]

DefineUse(x, line, chain, u) ==
  LET bound == \E b \in ToSet(u.binds) : b.x = x /\ b.scope = Last(chain)
  IN  IF x = "_" \/ bound THEN u
      ELSE [u EXCEPT !.binds = Append(@,
              [x |-> x, line |-> line, scope |-> Last(chain), used |-> FALSE])]

UseName(x, chain, u) ==
  LET around == {j \in DOMAIN u.binds :
                   u.binds[j].x = x /\ u.binds[j].scope \in ToSet(chain)}
      nearest == CHOOSE j \in around :
                   \A i \in around : u.binds[i].scope <= u.binds[j].scope
  IN  IF around = {} THEN u ELSE [u EXCEPT !.binds[nearest].used = TRUE]

RECURSIVE UseExpr(_, _, _), UseStmt(_, _, _)

(* Statements in a scope of their own, with names bound at lines.          *)
UseBlock(stmts, names, chain, u) ==
  LET inner == Append(chain, u.scopes + 1)
      Bind(acc, n) == DefineUse(n[1], n[2], inner, acc)
      Walk(acc, n) == UseStmt(n, inner, acc)
  IN  FoldLeft(Walk, FoldLeft(Bind, [u EXCEPT !.scopes = @ + 1], names), stmts)

UseExpr(x, chain, u) ==
  CASE x.k = "name" -> UseName(x.x, chain, u)
    [] x.k \in Ops -> UseExpr(x.r, chain, UseExpr(x.l, chain, u))
    [] x.k \in {"not", "-", "call", "print"} -> UseExpr(x.e, chain, u)
    [] x.k = "func" -> UseBlock(x.body, <<>>, chain, u)
    [] OTHER -> u           \* no control flow, no spawn, no await

UseStmt(n, chain, u) ==
  LET In(stmts, v) == UseBlock(stmts, <<>>, chain, v)
  IN  CASE n.k \in {"assign", "nilassign"} ->
             DefineUse(n.x, n.at[1], chain, UseExpr(n.e, chain, u))
        [] n.k \in {"expr", "return", "raise"} -> UseExpr(n.e, chain, u)
        [] n.k = "if" -> In(n.b, In(n.a, UseExpr(n.c, chain, u)))
        [] n.k = "while" -> In(n.a, UseExpr(n.c, chain, u))
        [] n.k = "for" -> UseBlock(n.a, <<<<n.x, 0>>>>, chain, u)
        [] n.k = "try" ->
             In(n.fin,
                IF n.catch
                THEN UseBlock(n.b, <<<<n.name, n.named[1]>>>>, chain, In(n.a, u))
                ELSE In(n.a, u))
        [] n.k = "match" ->
             FoldLeft(LAMBDA acc, c : In(c.a, acc), UseExpr(n.e, chain, u),
                      n.cases)
        [] OTHER -> u       \* nor a scope block

CollectUnused(tree) ==
  LET Walk(u, n) == UseStmt(n, <<1>>, u)
  IN  {b \in ToSet(FoldLeft(Walk, UseScope, tree).binds) : ~b.used}

---------------------------------------------------------------------------

(* The text of the line begins with the letters of the name.               *)
BeginsWith(line, x) ==
  LET t == line.toks[1]
  IN  t.t \in {"name", "sym"} /\ (t.s = x \/ (x = "c" /\ t.s = "catch"))

(* The line of a binding and the lines under it that stand further in.     *)
DropLines(lines, b) ==
  IF b.line < 1 \/ ~BeginsWith(lines[b.line], b.x) THEN {}
  ELSE {j \in b.line..Len(lines) :
          \A i \in (b.line + 1)..j : lines[i].ind > lines[b.line].ind}

FixUnusedLines(lines, unused) ==
  LET dropped == UNION {DropLines(lines, b) : b \in unused}
      kept == SelectSeq([j \in DOMAIN lines |-> j],
                        LAMBDA j : j \notin dropped)
  IN  [j \in DOMAIN kept |-> lines[kept[j]]]

---------------------------------------------------------------------------

(* The line of the leftmost token that the tree still has, or 0.           *)
RECURSIVE ExprFirstPos(_), StmtFirstPos(_)
ExprFirstPos(x) ==
  CASE x.k \in {"name", "print"} -> x.at[1]
    [] x.k \in {"call", "not", "-"} -> ExprFirstPos(x.e)
    [] x.k \in Ops -> ExprFirstPos(x.l)
    [] OTHER -> 0
StmtFirstPos(n) ==
  CASE n.k \in {"assign", "nilassign", "return", "raise", "match", "try", "for"} ->
         n.at[1]
    [] n.k = "expr" -> ExprFirstPos(n.e)
    [] n.k \in {"if", "while"} -> StmtFirstPos(n.a[1])
    [] OTHER -> 0

(* An if of a literal: the line of the first statement of its body, and    *)
(* the line of the last statement of the branch that is taken.             *)
UnwrapHint(n) ==
  LET line == StmtFirstPos(n)
      branch == IF n.c.v = True THEN n.a ELSE n.b
      end == IF branch = <<>> THEN line ELSE StmtFirstPos(Last(branch))
  IN  [line |-> line, end |-> IF end < line THEN line ELSE end]

RECURSIVE UnwrapHints(_)
UnwrapHints(stmts) ==
  FlattenSeq([j \in DOMAIN stmts |->
    LET n == stmts[j]
    IN  CASE n.k = "if" ->
               (IF n.c.k = "const" /\ n.c.v \in {True, False}
                THEN <<UnwrapHint(n)>> ELSE <<>>)
                 \o UnwrapHints(n.a) \o UnwrapHints(n.b)
          [] n.k \in {"while", "for"} -> UnwrapHints(n.a)
          [] n.k = "try" ->
               UnwrapHints(n.a) \o UnwrapHints(n.b) \o UnwrapHints(n.fin)
          [] n.k = "match" ->
               FlattenSeq([i \in DOMAIN n.cases |-> UnwrapHints(n.cases[i].a)])
          [] OTHER -> <<>>])

(* The line above the first statement goes, the lines up to the end move   *)
(* one step out.                                                           *)
\* Mutant of UnwrapIf: the line of the first statement goes.
UnwrapIfLate(lines, h) ==
  IF h.line < 2 \/ h.line > Len(lines) THEN lines
  ELSE SubSeq(lines, 1, h.line - 1)
         \o [j \in 1..(h.end - h.line) |->
               [lines[h.line + j] EXCEPT !.ind = IF @ = 0 THEN 0 ELSE @ - 1]]
         \o SubSeq(lines, h.end + 1, Len(lines))

UnwrapIf(lines, h) ==
  LET end == IF h.end > Len(lines) THEN Len(lines) ELSE h.end
  IN  IF h.line < 2 \/ h.line > Len(lines) THEN lines
      ELSE SubSeq(lines, 1, h.line - 2)
             \o [j \in 1..(end - h.line + 1) |->
                   [lines[h.line + j - 1] EXCEPT
                      !.ind = IF @ = 0 THEN 0 ELSE @ - 1]]
             \o SubSeq(lines, end + 1, Len(lines))

ApplyUnwrapIf(lines, hints) == FoldLeft(UnwrapIf, lines, Reverse(hints))

(* lintOneFile writes the file after each round and reads it again in      *)
(* between; a file the first round has broken stays as it is.              *)
UnwrapRound(lines, tree) == ApplyUnwrapIf(lines, UnwrapHints(tree))
UnusedRound(lines, tree) ==
  IF tree = NoProgram THEN lines
  ELSE FixUnusedLines(lines, CollectUnused(tree))
=============================================================================
