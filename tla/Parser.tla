------------------------------- MODULE Parser -------------------------------
(***************************************************************************)
(* From lines of tokens to a program: the layout tokens the lexer adds     *)
(* (lexer.go) and the recursive descent of the parser (parser.go).  A      *)
(* parse is [n |-> the node, i |-> the place of the next token]; any error *)
(* is an error of the whole.                                               *)
(*                                                                         *)
(* A token knows its line and its place on it, and so do the nodes that    *)
(* the source keeps a token for.                                           *)
(***************************************************************************)
EXTENDS Layout, Integers
LOCAL INSTANCE SequencesExt

NewLine == [t |-> "newline", s |-> ""]
Indent == [t |-> "indent", s |-> ""]
Dedent == [t |-> "dedent", s |-> ""]
Eof == [t |-> "eof", s |-> ""]
LayoutToks == {NewLine, Indent, Dedent}
ContinuationOps == {"+", "-", "*", "==", "<", "&", "|", "^", "<<", "and", "or"}
IsSym(t, S) == t.t = "sym" /\ t.s \in S

Repeat(t, n) == [j \in 1..n |-> t]

Placed(line, l) == [j \in DOMAIN line.toks |-> line.toks[j] @@ [at |-> <<l, j>>]]

(* handleIndent: one step in at a time, any number of steps out.           *)
LexLines(lines) ==
  FlattenSeq([j \in 1..(Len(lines) + 1) |->
    LET was == IF j = 1 THEN 0 ELSE lines[j - 1].ind
        now == IF j > Len(lines) THEN 0 ELSE lines[j].ind
        steps == IF now > was THEN <<Indent>> ELSE Repeat(Dedent, was - now)
    IN  steps \o (IF j > Len(lines) THEN <<Eof>>
                  ELSE Append(Placed(lines[j], j), NewLine))])

(* No layout in brackets; a line that begins with an operator continues    *)
(* the line before.  The state: brackets open, dedents to drop, tokens.    *)
SuppressBracketNewlines(toks) ==
  LET Tok(j) == IF j <= Len(toks) THEN toks[j] ELSE Eof
      Keep(s, t) == [s EXCEPT !.out = Append(@, t)]
      Step(s, j) ==
        LET t == Tok(j)
            depth == IF IsSym(t, {"(", "["}) THEN s.depth + 1
                     ELSE IF IsSym(t, {")", "]"}) /\ s.depth > 0
                     THEN s.depth - 1 ELSE s.depth
            n == [s EXCEPT !.depth = depth]
        IN  CASE depth > 0 /\ t \in LayoutToks -> n
              [] depth = 0 /\ t = NewLine /\ Tok(j + 1) = Indent
                   /\ IsSym(Tok(j + 2), ContinuationOps) -> n
              [] depth = 0 /\ t = NewLine /\ IsSym(Tok(j + 1), ContinuationOps) -> n
              [] depth = 0 /\ t = Indent /\ IsSym(Tok(j + 1), ContinuationOps) ->
                   [n EXCEPT !.pending = @ + 1]
              [] depth = 0 /\ t = Dedent /\ s.pending > 0 ->
                   [n EXCEPT !.pending = @ - 1]
              [] OTHER -> Keep(n, t)
  IN  FoldLeft(Step, [depth |-> 0, pending |-> 0, out |-> <<>>],
               [j \in DOMAIN toks |-> j]).out

Lex(lines) == SuppressBracketNewlines(LexLines(lines))

---------------------------------------------------------------------------

Fail == [n |-> <<>>, i |-> 0]
Got(n, i) == [n |-> n, i |-> i]
AndThen(r, F(_)) == IF r.i = 0 THEN Fail ELSE F(r)

At(ts, i, s) == IsSym(ts[i], {s})
With(n, t) == n @@ [at |-> t.at]
RECURSIVE SkipNewlines(_, _)
SkipNewlines(ts, i) == IF ts[i] = NewLine THEN SkipNewlines(ts, i + 1) ELSE i

StartsExpr(t) ==
  t \notin LayoutToks \cup {Eof} /\
    (t.t = "sym" => t.s \in {"-", "(", "[", "->"} \cup
       {"not", "spawn", "await", "if", "while", "for", "match", "else",
        "elseif", "case", "catch", "finally", "try", "scope", "return",
        "raise", "break", "continue", "in"})

(* What encloses the tokens: a loop, a function.                           *)
AtTop == [loop |-> FALSE, func |-> FALSE]

Levels == <<{"??"}, {"or"}, {"and"}, {"=="}, {"<"}, {"|"}, {"^"}, {"&"}, {"+"},
            {"*", "<<"}>>

(* The rules of the grammar that come round again go through Parsed.       *)
RECURSIVE Parsed(_, _, _, _), ParseBinary(_, _, _, _), ParseUnary(_, _, _),
          StmtsFrom(_, _, _, _), CasesFrom(_, _, _, _)
ParseExpr(ts, i, c) == Parsed("expr", ts, i, c)
ParseLine(ts, i, c) == Parsed("line", ts, i, c)
ParseBlock(ts, i, c) == Parsed("block", ts, i, c)

ParseBinary(ts, i, c, level) ==
  LET RECURSIVE More(_)
      More(left) ==
        LET t == ts[left.i]
        IN  IF t.t = "sym" /\ t.s \in Levels[level]
            THEN AndThen(ParseBinary(ts, left.i + 1, c, level + 1), LAMBDA r :
                   More(Got(Binary(t.s, left.n, r.n), r.i)))
            ELSE left
  IN  IF level > Len(Levels) THEN ParseUnary(ts, i, c)
      ELSE AndThen(ParseBinary(ts, i, c, level + 1), More)

(* exprLine: nothing that could be an argument may follow.                 *)
ExprLine(ts, i, c) ==
  AndThen(ParseExpr(ts, i, c), LAMBDA r :
    IF r.n.k \notin Control \cup {"func"} /\ StartsExpr(ts[r.i]) THEN Fail
    ELSE r)

FinishFunc(ts, i, c) ==
  IF ts[i] = NewLine /\ ts[i + 1] = Indent
  THEN AndThen(ParseBlock(ts, i, [loop |-> FALSE, func |-> TRUE]), LAMBDA r :
         Got(Func(r.n), r.i))
  ELSE AndThen(ParseLine(ts, i, [c EXCEPT !.func = TRUE]), LAMBDA r :
         Got(Func(<<Expr(r.n)>>) @@ [inline |-> TRUE], r.i))

(* The items of a loop are an array of literals.                           *)
ItemsFrom(ts, i) ==
  LET RECURSIVE More(_, _)
      More(items, j) ==
        IF At(ts, j, "]") THEN Got(items, j + 1)
        ELSE IF At(ts, j, ",") THEN More(items, j + 1)
        ELSE More(Append(items, Value(ts[j].t, ts[j].s)), j + 1)
      open == At(ts, i, "(")
      list == More(<<>>, IF open THEN i + 2 ELSE i + 1)
  IN  IF open THEN Got(list.n, list.i + 1) ELSE list

IfAfterKeyword(ts, i, c) ==
  AndThen(ParseLine(ts, i, c), LAMBDA cond :
    AndThen(ParseBlock(ts, cond.i, c), LAMBDA a :
      LET j == SkipNewlines(ts, a.i)
          Else(r) == Got(If(cond.n, a.n, r.n), r.i)
      IN  CASE At(ts, j, "elseif") ->
                 AndThen(Parsed("if", ts, j + 1, c), LAMBDA r :
                   Else(Got(<<r.n>>, r.i)))
            [] At(ts, j, "else") -> AndThen(ParseBlock(ts, j + 1, c), Else)
            [] OTHER -> Else(Got(<<>>, j))))

WhileAfterKeyword(ts, i, c) ==
  AndThen(ParseLine(ts, i, c), LAMBDA cond :
    AndThen(ParseBlock(ts, cond.i, [c EXCEPT !.loop = TRUE]), LAMBDA a :
      Got(While(cond.n, a.n), a.i)))

ForAfterKeyword(ts, i, c) ==
  IF ts[i].t # "name" \/ ~At(ts, i + 1, "in") THEN Fail
  ELSE AndThen(ItemsFrom(ts, i + 2), LAMBDA items :
         AndThen(ParseBlock(ts, items.i, [c EXCEPT !.loop = TRUE]), LAMBDA a :
           Got(With(For(ts[i].s, items.n, a.n), ts[i]), a.i)))

CasesFrom(ts, i, c, cases) ==
  IF ts[i] = Dedent THEN Got(cases, i + 1)
  ELSE IF ~At(ts, i, "case") THEN Fail
  ELSE AndThen(ParseBlock(ts, i + 2, c), LAMBDA a :
         CasesFrom(ts, SkipNewlines(ts, a.i), c,
           Append(cases,
             Case(IF ts[i + 1].t = "name" THEN Wild
                  ELSE Const(Value(ts[i + 1].t, ts[i + 1].s)), a.n))))
MatchAfterKeyword(ts, i, c) ==
  AndThen(ParseLine(ts, i, c), LAMBDA e :
    IF ts[e.i] # NewLine \/ ts[e.i + 1] # Indent THEN Fail
    ELSE AndThen(CasesFrom(ts, e.i + 2, c, <<>>), LAMBDA r :
           Got(With(Match(e.n, r.n), ts[i - 1]), r.i)))

Primary(ts, i, c) ==
  LET t == ts[i]
  IN  CASE t.t \in {"string", "number", "bool", "nil", "error"} ->
             Got(Const(Value(t.t, t.s)), i + 1)
        [] t.t = "name" -> Got(With(Name(t.s), t), i + 1)
        [] IsSym(t, Control) -> Parsed(t.s, ts, i + 1, c)
        [] At(ts, i, "->") -> FinishFunc(ts, i + 1, c)
        [] At(ts, i, "(") ->
             IF At(ts, i + 1, ")")
             THEN IF At(ts, i + 2, "->") THEN FinishFunc(ts, i + 3, c)
                  ELSE Fail
             ELSE AndThen(ParseExpr(ts, i + 1, c), LAMBDA r :
                    IF At(ts, r.i, ")") THEN Got(r.n, r.i + 1) ELSE Fail)
        [] OTHER -> Fail

(* Calls have no argument, but for print.                                  *)
CallFrom(ts, i, c) ==
  LET RECURSIVE More(_)
      More(r) ==
        CASE ~At(ts, r.i, "(") -> r
          [] At(ts, r.i, "(") /\ At(ts, r.i + 1, ")") ->
               More(Got(Call(r.n), r.i + 2))
          [] OTHER ->
               AndThen(ParseExpr(ts, r.i + 1, c), LAMBDA e :
                 IF At(ts, e.i, ")") /\ r.n.k = "name"
                      /\ r.n.x = "print"
                 THEN More(Got(With(Say(e.n), r.n), e.i + 1)) ELSE Fail)
  IN  AndThen(Primary(ts, i, c), More)

ParseUnary(ts, i, c) ==
  IF ts[i].t = "sym" /\ ts[i].s \in Prefixed
  THEN AndThen(ParseUnary(ts, i + 1, c), LAMBDA r :
         Got(With([k |-> ts[i].s, e |-> r.n], ts[i]), r.i))
  ELSE CallFrom(ts, i, c)

---------------------------------------------------------------------------

TryFrom(ts, i, c) ==
  AndThen(ParseBlock(ts, i, c), LAMBDA a :
    LET j == SkipNewlines(ts, a.i)
        caught == At(ts, j, "catch")
        name == IF caught THEN ts[j + 1].s ELSE "_"
        Node(b, fin) ==
          Try(a.n, caught, name, b, fin)
            @@ [named |-> IF caught THEN ts[j + 1].at ELSE <<0, 0>>]
        Finally(b) ==
          LET k == SkipNewlines(ts, b.i)
          IN  IF At(ts, k, "finally")
              THEN AndThen(ParseBlock(ts, k + 1, c), LAMBDA fin :
                     Got(Node(b.n, fin.n), fin.i))
              ELSE IF caught THEN Got(Node(b.n, <<>>), k)
              ELSE Fail
    IN  IF caught
        THEN IF ts[j + 1].t = "name"
             THEN AndThen(ParseBlock(ts, j + 2, c), Finally) ELSE Fail
        ELSE Finally(Got(<<>>, j)))

ParseStmt(ts, i, c) ==
  LET Of(Node(_)) ==
        AndThen(ParseLine(ts, i + 1, c), LAMBDA e :
          Got(With(Node(e.n), ts[i]), e.i))
      Assigns(Node(_, _)) ==
        AndThen(ParseLine(ts, i + 2, c), LAMBDA e :
          Got(With(Node(ts[i].s, e.n), ts[i]), e.i))
  IN  CASE IsSym(ts[i], Control) -> Parsed(ts[i].s, ts, i + 1, c)
        [] At(ts, i, "scope") /\ ts[i + 1] = NewLine ->
             AndThen(ParseBlock(ts, i + 1, c), LAMBDA a : Got(Scope(a.n), a.i))
        [] At(ts, i, "try") /\ ts[i + 1] = NewLine ->
             AndThen(TryFrom(ts, i + 1, c), LAMBDA r :
               Got(With(r.n, ts[i]), r.i))
        [] At(ts, i, "raise") -> Of(Raise)
        [] At(ts, i, "return") -> IF c.func THEN Of(Return) ELSE Fail
        [] At(ts, i, "break") -> IF c.loop THEN Got(Break, i + 1) ELSE Fail
        [] At(ts, i, "continue") ->
             IF c.loop THEN Got(Continue, i + 1) ELSE Fail
        [] ts[i].t = "name" /\ At(ts, i + 1, "=") -> Assigns(Assign)
        [] ts[i].t = "name" /\ At(ts, i + 1, "??=") -> Assigns(NilAssign)
        [] OTHER ->
             AndThen(ParseLine(ts, i, c), LAMBDA e : Got(Expr(e.n), e.i))

StmtsFrom(ts, i, c, stmts) ==
  IF ts[i] \in {Dedent, Eof} THEN Got(stmts, i)
  ELSE AndThen(ParseStmt(ts, i, c), LAMBDA r :
         StmtsFrom(ts, SkipNewlines(ts, r.i), c, Append(stmts, r.n)))

(* An indented block, which is not empty.                                  *)
IndentedBlock(ts, i, c) ==
  IF ts[i] # NewLine \/ ts[i + 1] # Indent THEN Fail
  ELSE AndThen(StmtsFrom(ts, SkipNewlines(ts, i + 2), c, <<>>), LAMBDA r :
         IF ts[r.i] = Dedent /\ r.n # <<>> THEN Got(r.n, r.i + 1) ELSE Fail)

Parsed(rule, ts, i, c) ==
  CASE rule = "expr" -> ParseBinary(ts, i, c, 1)
    [] rule = "line" -> ExprLine(ts, i, c)
    [] rule = "block" -> IndentedBlock(ts, i, c)
    [] rule = "if" -> IfAfterKeyword(ts, i, c)
    [] rule = "while" -> WhileAfterKeyword(ts, i, c)
    [] rule = "for" -> ForAfterKeyword(ts, i, c)
    [] rule = "match" -> MatchAfterKeyword(ts, i, c)

(* A tree without the places.                                              *)
RECURSIVE Bare(_)
BareAll(nodes) == [j \in DOMAIN nodes |-> Bare(nodes[j])]
Bare(n) ==
  [f \in DOMAIN n \ {"at", "inline", "named"} |->
     CASE f \in {"a", "b", "fin", "body"} -> BareAll(n[f])
       [] f \in {"e", "c", "l", "r"} -> Bare(n[f])
       [] f = "cases" -> [j \in DOMAIN n.cases |->
             [n.cases[j] EXCEPT !.a = BareAll(@)]]
       [] OTHER -> n[f]]

NoProgram == <<[k |-> "error"]>>
Parse(ts) ==
  LET r == StmtsFrom(ts, SkipNewlines(ts, 1), AtTop, <<>>)
  IN  IF r.i # 0 /\ ts[r.i] = Eof THEN r.n ELSE NoProgram
=============================================================================
