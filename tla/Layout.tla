------------------------------- MODULE Layout -------------------------------
(***************************************************************************)
(* The formatter (formatter/unparse.go): a program is written as lines, an *)
(* indentation and the tokens of the line.  `tya format` writes the text   *)
(* the tree gives, and where a construct has no text there the source as   *)
(* it was (cmd/tya/main.go, formatter.go).                                 *)
(***************************************************************************)
EXTENDS Syntax
LOCAL INSTANCE SequencesExt

CONSTANT LongNames    \* names of such a length that two do not fit on a line

Sym(s) == [t |-> "sym", s |-> s]
Syms(s) == <<Sym(s)>>
NameTok(x) == [t |-> "name", s |-> x]
Literal(v) == [t |-> v.kind, s |-> v.v]
Unsupported == [t |-> "unsupported", s |-> ""]

Line(ind, toks) == [ind |-> ind, toks |-> toks]
Supported(lines) ==
  \A j \in DOMAIN lines : Unsupported \notin ToSet(lines[j].toks)
FitsInline(toks) ==
  Len(SelectSeq(toks, LAMBDA t : t.t = "name" /\ t.s \in LongNames)) < 2
Joined(parts, sep) ==
  [j \in 1..(2 * Len(parts) - 1) |->
     IF j % 2 = 1 THEN parts[(j + 1) \div 2] ELSE sep]

---------------------------------------------------------------------------
(* Expressions.                                                            *)

OpPrecedence ==
  [op \in {"??", "or", "and", "==", "<", "|", "^", "&", "<<", "+", "*"} |->
     CASE op = "??" -> 1 [] op = "or" -> 2 [] op = "and" -> 3
       [] op = "==" -> 4 [] op = "<" -> 5 [] op = "|" -> 6
       [] op = "^" -> 7 [] op = "&" -> 8 [] op = "<<" -> 9
       [] op = "+" -> 10 [] op = "*" -> 11]
Ops == DOMAIN OpPrecedence
Prefixed == {"not", "-", "spawn", "await"}

Parens(toks) == Syms("(") \o toks \o Syms(")")

RECURSIVE ExprToks(_)

(* Mutant of BinaryOperand: the right operand of an operator of the same   *)
(* precedence loses its parentheses.                                       *)
BinaryOperandFlat(e, op, left) ==
  IF e.k \in Ops /\ OpPrecedence[e.k] < OpPrecedence[op]
  THEN Parens(ExprToks(e))
  ELSE ExprToks(e)

BinaryOperand(e, op, left) ==
  IF e.k \in Ops /\ \/ OpPrecedence[e.k] < OpPrecedence[op]
                    \/ OpPrecedence[e.k] = OpPrecedence[op] /\ ~left
  THEN Parens(ExprToks(e))
  ELSE ExprToks(e)

PostfixTarget(e) ==
  IF e.k \in Ops \cup Prefixed \cup {"func"} THEN Parens(ExprToks(e))
  ELSE ExprToks(e)

ExprToks(e) ==
  CASE e.k = "const" -> <<Literal(e.v)>>
    [] e.k = "name" -> <<NameTok(e.x)>>
    [] e.k = "print" -> <<NameTok("print")>> \o Parens(ExprToks(e.e))
    [] e.k = "call" -> PostfixTarget(e.e) \o Parens(<<>>)
    [] e.k \in Ops ->
         BinaryOperand(e.l, e.k, TRUE) \o Syms(e.k)
           \o BinaryOperand(e.r, e.k, FALSE)
    [] e.k \in {"not", "-"} ->
         Syms(e.k) \o (IF e.e.k \in Ops THEN Parens(ExprToks(e.e))
                       ELSE ExprToks(e.e))
    [] e.k \in {"spawn", "await"} -> Syms(e.k) \o ExprToks(e.e)
    [] e.k = "func" /\ Len(e.body) = 1 /\ e.body[1].k = "expr" ->
         Parens(<<>>) \o Syms("->") \o ExprToks(e.body[1].e)
    [] OTHER -> <<Unsupported>>    \* blocks are no expressions here

(* The operands of a chain of the operator op, to the left.                *)
RECURSIVE Operands(_, _)
Operands(e, op) ==
  IF e.k = op THEN Append(Operands(e.l, op), e.r) ELSE <<e>>
WrappedBinary(prefix, e, ind) ==
  LET operands == Operands(e, e.k)
  IN  [j \in DOMAIN operands |->
         IF j = 1 THEN Line(ind, prefix \o ExprToks(operands[1]))
         ELSE Line(ind + 1, Syms(e.k) \o ExprToks(operands[j]))]

RECURSIVE ArgLines(_, _)
WrappedCall(prefix, e, ind) ==
  <<Line(ind, prefix \o (IF e.k = "print" THEN <<NameTok("print")>>
                         ELSE ExprToks(e.e)) \o Syms("("))>>
    \o (IF e.k = "print" THEN ArgLines(e.e, ind + 1) ELSE <<>>)
    \o <<Line(ind, Syms(")"))>>
ArgLines(e, ind) ==
  IF e.k \in {"call", "print"} /\ ~FitsInline(ExprToks(e))
  THEN WrappedCall(<<>>, e, ind)
  ELSE <<Line(ind, ExprToks(e))>>

(* An expression after a prefix, wrapped when it is too long.              *)
ValueLines(prefix, e, ind) ==
  LET inline == prefix \o ExprToks(e)
  IN  CASE FitsInline(inline) -> <<Line(ind, inline)>>
        [] ~FitsInline(inline) /\ e.k \in {"call", "print"} ->
             WrappedCall(prefix, e, ind)
        [] ~FitsInline(inline) /\ e.k \in Ops -> WrappedBinary(prefix, e, ind)
        [] OTHER -> <<Line(ind, inline)>>

---------------------------------------------------------------------------
(* Statements.                                                             *)

RECURSIVE StmtLines(_, _), FuncTail(_, _), ElseLines(_, _, _)

Block(stmts, ind) ==
  FlattenSeq([j \in DOMAIN stmts |-> StmtLines(stmts[j], ind)])

(* The last statement of a function, whose value the function has.         *)
FuncBlock(stmts, ind) ==
  Block(Front(stmts), ind) \o FuncTail(Last(stmts), ind)
BodyLines(stmts, ind, tail) ==
  IF tail THEN FuncBlock(stmts, ind) ELSE Block(stmts, ind)

CondHeader(keyword, cond, ind) ==
  IF FitsInline(keyword \o cond) THEN <<Line(ind, keyword \o cond)>>
  ELSE <<Line(ind, keyword \o Syms("(")), Line(ind + 1, cond),
         Line(ind, Syms(")"))>>

IfLines(prefix, s, ind, tail) ==
  CondHeader(prefix \o Syms("if"), ExprToks(s.c), ind)
    \o BodyLines(s.a, ind + 1, tail) \o ElseLines(s.b, ind, tail)

(* Mutant of ElseLines: an else that begins with an if is taken for an     *)
(* elseif.                                                                 *)
ElseLinesFirst(b, ind, tail) ==
  CASE b = <<>> -> <<>>
    [] b # <<>> /\ b[1].k = "if" ->
         CondHeader(Syms("elseif"), ExprToks(b[1].c), ind)
           \o BodyLines(b[1].a, ind + 1, tail) \o ElseLines(b[1].b, ind, tail)
    [] OTHER ->
         <<Line(ind, Syms("else"))>> \o BodyLines(b, ind + 1, tail)

ElseLines(b, ind, tail) ==
  CASE b = <<>> -> <<>>
    [] Len(b) = 1 /\ b[1].k = "if" ->
         CondHeader(Syms("elseif"), ExprToks(b[1].c), ind)
           \o BodyLines(b[1].a, ind + 1, tail) \o ElseLines(b[1].b, ind, tail)
    [] OTHER ->
         <<Line(ind, Syms("else"))>> \o BodyLines(b, ind + 1, tail)

MatchLines(prefix, s, ind) ==
  <<Line(ind, prefix \o Syms("match") \o ExprToks(s.e))>>
    \o FlattenSeq([j \in DOMAIN s.cases |->
         <<Line(ind + 1, Syms("case") \o
             (IF s.cases[j].p = Wild THEN <<NameTok("_")>>
              ELSE ExprToks(s.cases[j].p)))>>
           \o Block(s.cases[j].a, ind + 2)])

ForHead(prefix, s) == prefix \o Syms("for") \o <<NameTok(s.x)>> \o Syms("in")
Items(s) ==
  Syms("[") \o Joined([j \in DOMAIN s.items |-> Literal(s.items[j])],
                      Sym(",")) \o Syms("]")

ControlLines(prefix, e, ind) ==
  CASE e.k = "if" -> IfLines(prefix, e, ind, FALSE)
    [] e.k = "while" ->
         CondHeader(prefix \o Syms("while"), ExprToks(e.c), ind)
           \o Block(e.a, ind + 1)
    [] e.k = "for" ->
         CondHeader(ForHead(prefix, e), Items(e), ind) \o Block(e.a, ind + 1)
    [] e.k = "match" -> MatchLines(prefix, e, ind)

(* A function literal that is assigned may have a block.                   *)
AssignLines(s, ind) ==
  LET op == Syms(IF s.k = "nilassign" THEN "??=" ELSE "=")
      target == <<NameTok(s.x)>>
      head == target \o op \o Syms("->")
      body == s.e.body
      inline == head \o ExprToks(body[1].e)
  IN  CASE s.e.k \in Control -> ControlLines(target \o Syms("="), s.e, ind)
        [] s.e.k = "func" ->
             IF Len(body) = 1 /\ body[1].k \in {"expr", "return"}
                  /\ FitsInline(inline)
             THEN <<Line(ind, inline)>>
             ELSE <<Line(ind, head)>> \o FuncBlock(body, ind + 1)
        [] OTHER -> ValueLines(target \o op, s.e, ind)

TryLines(s, ind) ==
  <<Line(ind, Syms("try"))>> \o Block(s.a, ind + 1)
    \o (IF s.catch
        THEN <<Line(ind, Syms("catch") \o <<NameTok(s.name)>>)>>
               \o Block(s.b, ind + 1)
        ELSE <<>>)
    \o (IF s.fin # <<>>
        THEN <<Line(ind, Syms("finally"))>> \o Block(s.fin, ind + 1)
        ELSE <<>>)

StmtLines(s, ind) ==
  CASE s.k = "expr" -> ValueLines(<<>>, s.e, ind)
    [] s.k \in {"assign", "nilassign"} -> AssignLines(s, ind)
    [] s.k = "return" ->
         IF s.e.k \in Control THEN ControlLines(Syms("return"), s.e, ind)
         ELSE ValueLines(Syms("return"), s.e, ind)
    [] s.k = "raise" -> <<Line(ind, Syms("raise") \o ExprToks(s.e))>>
    [] s.k \in {"break", "continue"} -> <<Line(ind, Syms(s.k))>>
    [] s.k = "for" ->
         <<Line(ind, ForHead(<<>>, s) \o Items(s))>> \o Block(s.a, ind + 1)
    [] s.k \in Control \ {"for"} -> ControlLines(<<>>, s, ind)
    [] s.k = "try" -> TryLines(s, ind)
    [] s.k = "scope" -> <<Line(ind, Syms("scope"))>> \o Block(s.a, ind + 1)

FuncTail(s, ind) ==
  CASE s.k = "return" -> <<Line(ind, ExprToks(s.e))>>
    [] s.k = "if" -> IfLines(<<>>, s, ind, TRUE)
    [] OTHER -> StmtLines(s, ind)

Unparse(stmts) == Block(stmts, 0)
=============================================================================
