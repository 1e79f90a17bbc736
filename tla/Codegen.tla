------------------------------- MODULE Codegen -------------------------------
(***************************************************************************)
(* The code generator (src/internal/codegen): a statement becomes lines of *)
(* C, an expression becomes C text, and what an expression needs done      *)
(* first - a print, a control-flow expression - is emitted as lines before *)
(* the line that uses it.                                                  *)
(*                                                                         *)
(* The generator's state g: the C variables known to be declared (vars),   *)
(* the next temporary (temp), the raise frames that are open in the        *)
(* function being emitted (depth), whether a function is being emitted     *)
(* (fn), the names it reads from its closure (caps), and the functions     *)
(* whose calls are emitted as direct calls (funcs).                        *)
(***************************************************************************)
EXTENDS Syntax, TLC
LOCAL INSTANCE SequencesExt

(* C expressions and lines.                                                *)
CConst(v) == [c |-> "const", v |-> v]
CName(x) == [c |-> "name", x |-> x]
CMember(x) == [c |-> "member", x |-> x]            \* tya_member(__this, x)
CStatic(f) == [c |-> "static", f |-> f]            \* sym(tya_nil(), ...)
CCall(e) == [c |-> "call", e |-> e]                \* tya_call0(e)
CLogic(op, l, r) == [c |-> op, l |-> l, r |-> r]   \* ({ ...; })
CNot(e) == [c |-> "not", e |-> e]
CFunction(f, caps) == [c |-> "function", f |-> f, caps |-> caps]
CCurrentRaise == [c |-> "current"]
CFunc(locals, body) == [locals |-> locals, body |-> body]

CDecl(x, e) == [c |-> "decl", x |-> x, e |-> e]    \* TyaValue x = e;
CSet(x, e) == [c |-> "set", x |-> x, e |-> e]      \* x = e;
CVoid(e) == [c |-> "void", e |-> e]                \* (void)e;
CPrint(e) == [c |-> "print", e |-> e]
CIf(e, a, b) == [c |-> "if", e |-> e, a |-> a, b |-> b]
CWhile(e, a) == [c |-> "while", e |-> e, a |-> a]
CFor(x, items, a) == [c |-> "for", x |-> x, items |-> items, a |-> a]
CBreak == [c |-> "break"]
CContinue == [c |-> "continue"]
CRaise(e, user) == [c |-> "raise", e |-> e, user |-> user]
CSetjmp(a, b) == [c |-> "setjmp", a |-> a, b |-> b] \* push, then if/else
CPop == [c |-> "pop"]
CReturn(e) == [c |-> "return", e |-> e]

G0 == [vars |-> {}, temp |-> 0, depth |-> 0, fn |-> FALSE, caps |-> {},
       funcs |-> <<>>]
Temp(base, g) == base \o ToString(g.temp)
Bump(g) == [g EXCEPT !.temp = @ + 1]

(* Emitting: lines, the C text of an expression, the state after.          *)
Emit(lines, e, g) == [lines |-> lines, e |-> e, g |-> g]
Lines(lines, g) == Emit(lines, CConst(Nil), g)

---------------------------------------------------------------------------
(* The names a body gives a value to (names.go), in the order they are     *)
(* met: if, while, for, try and match are entered, scope is not.           *)

RECURSIVE AssignedIn(_)
AssignedIn(stmts) ==
  IF stmts = <<>> THEN <<>>
  ELSE LET n == Head(stmts)
           here ==
             CASE n.k \in {"assign", "nilassign"} -> <<n.x>>
               [] n.k = "if" -> AssignedIn(n.a) \o AssignedIn(n.b)
               [] n.k = "while" -> AssignedIn(n.a)
               [] n.k = "for" -> <<n.x>> \o AssignedIn(n.a)
               [] n.k = "try" ->
                    AssignedIn(n.a) \o AssignedIn(n.b) \o AssignedIn(n.fin)
               [] n.k = "match" ->
                    FoldLeft(LAMBDA acc, c : acc \o AssignedIn(c.a), <<>>,
                             n.cases)
               [] OTHER -> <<>>
       IN  here \o AssignedIn(Tail(stmts))
AssignedNames(stmts) == ToSet(AssignedIn(stmts))

RECURSIVE ExprIdents(_), StmtIdents(_), BlockIdents(_)

(* The names an expression, a statement or a block reads; of a function    *)
(* literal, those it does not assign itself.                               *)
ExprIdents(x) ==
  CASE x.k = "name" -> {x.x}
    [] x.k \in {"and", "or", "??"} -> ExprIdents(x.l) \cup ExprIdents(x.r)
    [] x.k = "not" -> ExprIdents(x.e)
    [] x.k \in {"call", "print"} -> ExprIdents(x.e)
    [] x.k = "func" -> BlockIdents(x.body) \ AssignedNames(x.body)
    [] x.k \in Control -> StmtIdents(x)
    [] OTHER -> {}

StmtIdents(n) ==
  CASE n.k \in {"assign", "nilassign", "expr", "return", "raise"} ->
         ExprIdents(n.e)
    [] n.k = "if" -> ExprIdents(n.c) \cup BlockIdents(n.a) \cup BlockIdents(n.b)
    [] n.k = "while" -> ExprIdents(n.c) \cup BlockIdents(n.a)
    [] n.k \in {"for", "scope"} -> BlockIdents(n.a)
    [] n.k = "try" ->
         BlockIdents(n.a) \cup BlockIdents(n.b) \cup BlockIdents(n.fin)
    [] n.k = "match" ->
         ExprIdents(n.e) \cup UNION {BlockIdents(c.a) : c \in ToSet(n.cases)}
    [] OTHER -> {}
BlockIdents(stmts) == UNION {StmtIdents(n) : n \in ToSet(stmts)}

(* The names a function literal captures: read and not assigned in it, not *)
(* called directly, and local to the function around it or captured by it. *)
FreeVars(body, g) ==
  {x \in BlockIdents(body) \ AssignedNames(body) :
     /\ x \notin DOMAIN g.funcs
     /\ x \in g.caps \/ (g.fn /\ x \in g.vars)}

CaptureValue(x, g) == IF x \in g.caps THEN CMember(x) ELSE CName(x)

(* Gen is the generator itself, by what is generated: an expression, a     *)
(* statement, statements, or with the temporary its value goes into a      *)
(* body, an if, a for or a match.                                          *)
RECURSIVE Gen(_, _, _)
Into(n, result) == [n |-> n, result |-> result]

SideEffect(x) == x.k = "print"

---------------------------------------------------------------------------
(* Functions (func.go).                                                    *)

(* A return: the raise frames that are open are popped, then the value is  *)
(* computed.                                                               *)
ReturnLine(e, g) == [i \in 1..g.depth |-> CPop] \o <<CReturn(e)>>

(* A C function: its locals are declared first; a last expression is the   *)
(* result, unless it is a call made for its effect.                        *)
EmitFunc(body, caps, g) ==
  LET locals == AssignedNames(body)
      g1 == [Bump(g) EXCEPT !.vars = locals, !.fn = TRUE, !.depth = 0,
                            !.caps = caps]
      final == Last(body)
      value == IF body = <<>> THEN FALSE
               ELSE \/ final.k \in Control
                    \/ final.k = "expr" /\ ~SideEffect(final.e)
      before == Gen("stmts", IF value THEN Front(body) ELSE body, g1)
      v == Gen("expr", IF final.k = "expr" THEN final.e ELSE final, before.g)
      lines == IF value THEN before.lines \o v.lines \o ReturnLine(v.e, v.g)
               ELSE before.lines \o ReturnLine(CConst(Nil), before.g)
      after == IF value THEN v.g ELSE before.g
  IN  Emit(<<>>, CFunc(locals, lines),
           [g EXCEPT !.temp = after.temp, !.funcs = after.funcs])

---------------------------------------------------------------------------
(* Expressions (expr.go).                                                  *)

(* Both operands are turned into text before either is used, so the lines  *)
(* of the right operand come before the text of the left one.              *)
GenBinary(x, g) ==
  LET l == Gen("expr", x.l, g)
      r == Gen("expr", x.r, l.g)
  IN  Emit(l.lines \o r.lines, CLogic(x.k, l.e, r.e), Bump(r.g))

(* A function literal: its C function, and the values it captures, read    *)
(* where the literal is evaluated.                                         *)
GenFunc(x, g) ==
  LET caps == FreeVars(x.body, g)
      f == EmitFunc(x.body, caps, g)
  IN  Emit(<<>>,
           CFunction(f.e, [y \in caps |-> CaptureValue(y, g)]), f.g)

(* A call of a name that is known to be one C function is a direct call.   *)
GenCall(x, g) ==
  LET f == Gen("expr", x.e, g)
  IN  IF x.e.k = "name" /\ x.e.x \in DOMAIN g.funcs
      THEN Emit(<<>>, CStatic(g.funcs[x.e.x]), g)
      ELSE Emit(f.lines, CCall(f.e), f.g)

(* A control-flow expression: a temporary that the last expression of each *)
(* body assigns.                                                           *)
GenControl(n, g) ==
  LET result == Temp("__result", g)
      inner ==
        CASE n.k = "if" -> Gen("if", Into(n, result), Bump(g))
          [] n.k = "while" ->
               LET c == Gen("expr", n.c, Bump(g))
                   b == Gen("value", Into(n.a, result), c.g)
               IN  Lines(c.lines \o <<CWhile(c.e, b.lines)>>, b.g)
          [] n.k \in {"for", "match"} -> Gen(n.k, Into(n, result), Bump(g))
  IN  Emit(<<CDecl(result, CConst(Nil))>> \o inner.lines, CName(result),
           inner.g)

GenExpr(x, g) ==
  CASE x.k = "const" -> Emit(<<>>, CConst(x.v), g)
    [] x.k = "name" -> Emit(<<>>, CaptureValue(x.x, g), g)
    [] x.k \in {"and", "or", "??"} -> GenBinary(x, g)
    [] x.k = "not" ->
         LET r == Gen("expr", x.e, g) IN Emit(r.lines, CNot(r.e), r.g)
    [] x.k = "func" -> GenFunc(x, g)
    [] x.k = "call" -> GenCall(x, g)
    [] x.k = "print" ->
         LET r == Gen("expr", x.e, g)
         IN  Emit(Append(r.lines, CPrint(r.e)), CConst(Nil), r.g)
    [] x.k \in Control -> GenControl(x, g)

(* assignControlBodyValue: the statements of a body, the last expression   *)
(* into the temporary.                                                     *)
GenValue(stmts, result, g) ==
  LET before == Gen("stmts", Front(stmts), g)
      final == Last(stmts)
      v == Gen("expr", final.e, before.g)
      s == Gen("stmt", final, before.g)
  IN  IF stmts = <<>> THEN Lines(<<>>, g)
      ELSE IF final.k # "expr"
      THEN Lines(before.lines \o s.lines, s.g)
      ELSE IF SideEffect(final.e)
      THEN Lines(before.lines \o s.lines \o <<CSet(result, CConst(Nil))>>,
                 s.g)
      ELSE Lines(before.lines \o v.lines \o <<CSet(result, v.e)>>, v.g)

(* ifExpr, ifExprElse: the lines of an else-if's condition end up in the   *)
(* branch before it.                                                       *)
GenIf(n, result, g) ==
  LET c == Gen("expr", n.c, g)
      a == Gen("value", Into(n.a, result), c.g)
      b == Gen("value", Into(n.b, result), a.g)
      c2 == Gen("expr", n.b[1].c, a.g)
      rest == Gen("if", Into([n.b[1] EXCEPT !.c = Const(True)], result), c2.g)
      chained == Len(n.b) = 1 /\ n.b[1].k = "if"
  IN  IF chained
      THEN Lines(c.lines \o <<CIf(c.e, a.lines \o c2.lines,
                   <<[rest.lines[1] EXCEPT !.e = c2.e]>>)>>, rest.g)
      ELSE Lines(c.lines \o <<CIf(c.e, a.lines, b.lines)>>, b.g)

---------------------------------------------------------------------------
(* Statements (stmt.go).                                                   *)

GenStmts(stmts, g) ==
  IF stmts = <<>> THEN Lines(<<>>, g)
  ELSE LET s == Gen("stmt", Head(stmts), g)
           rest == Gen("stmts", Tail(stmts), s.g)
       IN  Lines(s.lines \o rest.lines, rest.g)

(* Storing into a variable declares it when it is not declared yet.        *)
Store(x, e, g) ==
  IF x \in g.vars THEN Lines(<<CSet(x, e)>>, g)
  ELSE Lines(<<CDecl(x, e)>>, [g EXCEPT !.vars = @ \cup {x}])

(* A function literal given to a name: when it captures nothing, calls of  *)
(* that name are direct from here on, wherever they are.                   *)
GenAssign(n, g) ==
  LET v == Gen("expr", n.e, g)
      s == Store(n.x, v.e, v.g)
      direct == [v.g EXCEPT !.funcs = (n.x :> v.e.f) @@ @]
  IN  IF n.e.k # "func" THEN Lines(v.lines \o s.lines, s.g)
      ELSE Lines(<<CSet(n.x, v.e)>>,
                 IF FreeVars(n.e.body, g) = {} THEN direct ELSE v.g)

(* ??= : the value's lines are inside the test.                            *)
GenNilAssign(n, g) ==
  LET declared == Store(n.x, CConst(Nil), g)
      v == Gen("expr", n.e, declared.g)
  IN  Lines((IF n.x \in g.vars THEN <<>> ELSE declared.lines)
              \o <<CIf(CLogic("??", CaptureValue(n.x, g), CConst(Nil)), <<>>,
                       v.lines \o <<CSet(n.x, v.e)>>)>>, v.g)

GenWhile(n, g) ==
  LET c == Gen("expr", n.c, g)
      b == Gen("stmts", n.a, c.g)
  IN  Lines(c.lines \o <<CWhile(c.e, b.lines)>>, b.g)

(* for: the variable is declared around the loop; the body's value goes    *)
(* into the temporary, if there is one.                                    *)
GenFor(n, result, g) ==
  LET inside == [Bump(g) EXCEPT !.vars = @ \cup {n.x}]
      b == IF result = "" THEN Gen("stmts", n.a, inside)
           ELSE Gen("value", Into(n.a, result), inside)
  IN  Lines((IF n.x \in g.vars THEN <<>> ELSE <<CDecl(n.x, CConst(Nil))>>)
              \o <<CFor(n.x, n.items, b.lines)>>, b.g)

(* try: finally is emitted at the end of the try part, still inside the    *)
(* frame, and at the end of the catch part; without a catch the value is   *)
(* raised again after it.                                                  *)
\* Mutant of GenTry: the frame stays when the body ends normally.
GenTryLeaks(n, g) ==
  LET a == Gen("stmts", n.a, [Bump(g) EXCEPT !.depth = @ + 1])
      f == Gen("stmts", n.fin, [a.g EXCEPT !.depth = g.depth])
      raised == Temp("__raised", f.g)
      named == n.catch /\ n.name # "_"
      g2 == [Bump(f.g) EXCEPT !.vars = IF named THEN @ \cup {n.name} ELSE @]
      b == Gen("stmts", n.b, g2)
      f2 == Gen("stmts", n.fin, IF n.catch THEN b.g ELSE g2)
      entry == <<CDecl(raised, CCurrentRaise)>>
                 \o (IF named THEN <<CDecl(n.name, CName(raised))>> ELSE <<>>)
                 \o <<CPop>>
      caught == IF n.catch THEN b.lines \o f2.lines
                ELSE Append(f2.lines, CRaise(CName(raised), FALSE))
  IN  Lines(<<CSetjmp(a.lines \o f.lines, entry \o caught)>>, f2.g)

GenTry(n, g) ==
  LET a == Gen("stmts", n.a, [Bump(g) EXCEPT !.depth = @ + 1])
      f == Gen("stmts", n.fin, [a.g EXCEPT !.depth = g.depth])
      raised == Temp("__raised", f.g)
      named == n.catch /\ n.name # "_"
      g2 == [Bump(f.g) EXCEPT !.vars = IF named THEN @ \cup {n.name} ELSE @]
      b == Gen("stmts", n.b, g2)
      f2 == Gen("stmts", n.fin, IF n.catch THEN b.g ELSE g2)
      entry == <<CDecl(raised, CCurrentRaise)>>
                 \o (IF named THEN <<CDecl(n.name, CName(raised))>> ELSE <<>>)
                 \o <<CPop>>
      caught == IF n.catch THEN b.lines \o f2.lines
                ELSE Append(f2.lines, CRaise(CName(raised), FALSE))
  IN  Lines(<<CSetjmp(a.lines \o f.lines \o <<CPop>>, entry \o caught)>>,
            f2.g)

(* A scope block: a frame of its own around the body; the scope's tasks    *)
(* are Scopes' business.                                                   *)
GenScope(n, g) ==
  LET a == Gen("stmts", n.a, [Bump(g) EXCEPT !.depth = @ + 1])
      raised == "__scope_raised"
  IN  Lines(<<CSetjmp(Append(a.lines, CPop),
                      <<CDecl(raised, CCurrentRaise), CPop,
                        CRaise(CName(raised), FALSE)>>)>>,
            [a.g EXCEPT !.depth = g.depth])

(* match: a flag, and one guarded block for each case.                     *)
GenMatch(n, result, g) ==
  LET v == Gen("expr", n.e, g)
      value == Temp("__match", v.g)
      flag == Temp("__matched", v.g)
      Arm(acc, c) ==
        LET b == IF result = "" THEN Gen("stmts", c.a, acc.g)
                 ELSE Gen("value", Into(c.a, result), acc.g)
            cond == [c |-> "matches", p |-> c.p, x |-> value, flag |-> flag]
        IN  Lines(Append(acc.lines,
                         CIf(cond, <<CSet(flag, CConst(True))>> \o b.lines,
                             <<>>)), b.g)
      arms == FoldLeft(Arm, Lines(<<>>, Bump(v.g)), n.cases)
  IN  Lines(v.lines \o <<CDecl(value, v.e), CDecl(flag, CConst(False))>>
              \o arms.lines, arms.g)

GenStmt(n, g) ==
  CASE n.k = "expr" ->
         LET v == Gen("expr", n.e, g)
         IN  Lines(IF n.e.k = "call" THEN Append(v.lines, CVoid(v.e))
                   ELSE v.lines, v.g)
    [] n.k = "assign" -> GenAssign(n, g)
    [] n.k = "nilassign" -> GenNilAssign(n, g)
    [] n.k = "if" ->
         LET c == Gen("expr", n.c, g)
             a == Gen("stmts", n.a, c.g)
             b == Gen("stmts", n.b, a.g)
         IN  Lines(c.lines \o <<CIf(c.e, a.lines, b.lines)>>, b.g)
    [] n.k = "while" -> GenWhile(n, g)
    [] n.k = "for" -> GenFor(n, "", g)
    [] n.k = "match" -> GenMatch(n, "", g)
    [] n.k = "break" -> Lines(<<CBreak>>, g)
    [] n.k = "continue" -> Lines(<<CContinue>>, g)
    [] n.k = "return" ->
         LET v == Gen("expr", n.e, g)
         IN  IF g.fn THEN Lines(v.lines \o ReturnLine(v.e, v.g), Bump(v.g))
             ELSE Lines(<<>>, g)
    [] n.k = "raise" ->
         LET v == Gen("expr", n.e, g)
         IN  Lines(Append(v.lines, CRaise(v.e, TRUE)), v.g)
    [] n.k = "try" -> GenTry(n, g)
    [] n.k = "scope" -> GenScope(n, g)

Gen(what, n, g) ==
  CASE what = "expr" -> GenExpr(n, g)
    [] what = "stmt" -> GenStmt(n, g)
    [] what = "stmts" -> GenStmts(n, g)
    [] what = "value" -> GenValue(n.n, n.result, g)
    [] what = "if" -> GenIf(n.n, n.result, g)
    [] what = "for" -> GenFor(n.n, n.result, g)
    [] what = "match" -> GenMatch(n.n, n.result, g)

(* EmitC: the names the program assigns are globals; main is the rest.     *)
EmitProgram(stmts) ==
  LET globals == AssignedNames(stmts)
      main == Gen("stmts", stmts, [G0 EXCEPT !.vars = globals])
  IN  [globals |-> globals, main |-> main.lines]

=============================================================================
