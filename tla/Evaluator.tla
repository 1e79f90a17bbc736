------------------------------ MODULE Evaluator ------------------------------
(***************************************************************************)
(* The tree-walking evaluator (src/internal/eval): environments that chain *)
(* to their parents, closures that keep the environment they were written  *)
(* in, and control flow carried by the error result of every call.         *)
(***************************************************************************)
EXTENDS Syntax, TLC
LOCAL INSTANCE SequencesExt

(* The machine: what was printed, the environments ever made (an           *)
(* environment is its index), the closures.                                *)
Env(parent, inFunc) ==
  [parent |-> parent, vars |-> <<>>, kinds |-> <<>>, inFunc |-> inFunc]
Start == [out |-> <<>>, envs |-> <<Env(0, FALSE)>>, fns |-> <<>>]

(* A result: the signal the Go error stands for, the value (for "break"    *)
(* and "raise" and "error" too), the value of a return.                    *)
Done(v, st) == [sig |-> "ok", v |-> v, r |-> Nil, st |-> st]
Signal(sig, r, st) == [sig |-> sig, v |-> Nil, r |-> r, st |-> st]
Fails(why, st) == Signal("error", Value("error", why), st)

Has(f, x) == x \in DOMAIN f

Child(e, st) ==
  [st EXCEPT !.envs = Append(@, Env(e, st.envs[e].inFunc))]

RECURSIVE Ancestors(_, _)
Ancestors(e, st) ==
  IF e = 0 THEN <<>> ELSE <<e>> \o Ancestors(st.envs[e].parent, st)

(* The environments of e, the innermost first, in which x has a variable,  *)
(* and those of them that are not the root.                                *)
Holding(x, e, st) ==
  SelectSeq(Ancestors(e, st), LAMBDA d : Has(st.envs[d].vars, x))
NonRoot(es, st) == SelectSeq(es, LAMBDA d : st.envs[d].parent # 0)

Get(x, e, st) ==
  LET at == Holding(x, e, st)
  IN  IF at = <<>> THEN [found |-> FALSE, v |-> Nil]
      ELSE [found |-> TRUE, v |-> st.envs[at[1]].vars[x]]

Put(x, v, d, st) ==
  [st EXCEPT !.envs[d].vars = (x :> v) @@ @,
             !.envs[d].kinds = IF v.kind = "nil" THEN @
                               ELSE (x :> v.kind) @@ @]

(* Env.set: here if the name is here or this is the root; else in a        *)
(* non-root environment around; else, outside functions, in the root; else *)
(* here.                                                                   *)
EnvSet(x, v, e, st) ==
  LET env == st.envs[e]
      near == NonRoot(Holding(x, env.parent, st), st)
      far == Holding(x, env.parent, st)
  IN  IF Has(env.vars, x) \/ env.parent = 0 THEN Put(x, v, e, st)
      ELSE IF near # <<>> THEN Put(x, v, near[1], st)
      ELSE IF ~env.inFunc /\ far # <<>> THEN Put(x, v, far[1], st)
      ELSE Put(x, v, e, st)

(* The kind that is remembered of a name, "" for none.                     *)
KindIn(es, x, st) ==
  LET at == SelectSeq(es, LAMBDA d : Has(st.envs[d].kinds, x))
  IN  IF at = <<>> THEN "" ELSE st.envs[at[1]].kinds[x]
KindOf(x, e, st) == KindIn(Ancestors(e, st), x, st)
KindInNonRoot(x, e, st) == KindIn(NonRoot(Ancestors(e, st), st), x, st)

(* A name keeps the kind of its first value that is not nil.               *)
EvalAssign(x, v, e, st) ==
  LET env == st.envs[e]
      exists == IF env.inFunc THEN Has(env.vars, x) ELSE Get(x, e, st).found
      prev == IF env.inFunc THEN KindInNonRoot(x, e, st) ELSE KindOf(x, e, st)
  IN  IF x = "_" THEN Done(v, st)
      ELSE IF exists /\ prev \notin {"", v.kind} /\ v.kind # "nil"
      THEN Fails("cannot reassign", st)
      ELSE Done(v, EnvSet(x, v, e, st))

Define(x, v, e, st) == Put(x, v, e, st)

Matches(p, v) == p = Wild \/ p.v = v

---------------------------------------------------------------------------

(* A node, an expression or a statement, goes through Eval.                *)
RECURSIVE Eval(_, _, _), EvalStmts(_, _, _, _), EvalWhile(_, _, _, _, _),
          EvalFor(_, _, _, _, _)

(* The last value of a block, or the first error, with the last value      *)
(* before it.                                                              *)
EvalStmts(stmts, e, st, last) ==
  IF stmts = <<>> THEN Done(last, st)
  ELSE LET r == Eval(Head(stmts), e, st)
       IN  IF r.sig = "ok" THEN EvalStmts(Tail(stmts), e, r.st, r.v)
           ELSE [r EXCEPT !.v = last]

(* A block in an environment of its own.                                   *)
EvalBlock(stmts, e, st) ==
  LET inner == Child(e, st) IN EvalStmts(stmts, Len(inner.envs), inner, Nil)

(* evalBinary, for the operators that skip their right operand.            *)
EvalBinary(b, e, st) ==
  LET l == Eval(b.l, e, st)
      skip == \/ b.k = "and" /\ ~Truthy(l.v)
              \/ b.k = "or" /\ Truthy(l.v)
              \/ b.k = "??" /\ l.v # Nil
      r == IF skip THEN l ELSE Eval(b.r, e, l.st)
  IN  IF l.sig # "ok" THEN l
      ELSE IF r.sig # "ok" \/ b.k = "??" THEN r
      ELSE [r EXCEPT !.v = Bool(Truthy(@))]

(* A call: the closure's body in a child of the environment it was written *)
(* in; a return ends here, any other signal passes through.                *)
EvalCall(c, e, st) ==
  LET f == Eval(c.e, e, st)
      fn == f.st.fns[f.v.at]
      inner == [f.st EXCEPT !.envs = Append(@, Env(fn.env, TRUE))]
      r == EvalStmts(fn.body, Len(inner.envs), inner, Nil)
  IN  IF f.sig # "ok" THEN f
      ELSE IF f.v.kind # "function" THEN Fails("not callable", f.st)
      ELSE IF r.sig = "return" THEN Done(r.r, r.st)
      ELSE r

EvalExpr(x, e, st) ==
  CASE x.k = "const" -> Done(x.v, st)
    [] x.k = "name" ->
         LET g == Get(x.x, e, st)
         IN  IF g.found THEN Done(g.v, st) ELSE Fails("undefined", st)
    [] x.k = "func" ->
         Done(Function(Len(st.fns) + 1),
              [st EXCEPT !.fns = Append(@, [body |-> x.body, env |-> e])])
    [] x.k = "call" -> EvalCall(x, e, st)
    [] x.k = "print" ->
         LET r == Eval(x.e, e, st)
         IN  IF r.sig # "ok" THEN r
             ELSE Done(Nil, [r.st EXCEPT !.out = Append(@, r.v.v)])
    [] x.k = "not" ->
         LET r == Eval(x.e, e, st)
         IN  IF r.sig # "ok" THEN r ELSE Done(Bool(~Truthy(r.v)), r.st)
    [] x.k \in {"and", "or", "??"} -> EvalBinary(x, e, st)

---------------------------------------------------------------------------

(* A loop: a break gives the value of the body so far, a continue goes on  *)
(* with the last whole body's, any other error leaves.                     *)
EvalWhile(n, e, st, last, fuel) ==
  LET c == Eval(n.c, e, st)
      b == EvalBlock(n.a, e, c.st)
  IN  IF fuel = 0 THEN Signal("diverges", Nil, st)
      ELSE IF c.sig # "ok" THEN c
      ELSE IF ~Truthy(c.v) THEN Done(last, c.st)
      ELSE CASE b.sig = "break" -> Done(b.v, b.st)
             [] b.sig = "continue" -> EvalWhile(n, e, b.st, last, fuel - 1)
             [] b.sig = "ok" -> EvalWhile(n, e, b.st, b.v, fuel - 1)
             [] OTHER -> b

EvalFor(n, items, e, st, last) ==
  IF items = <<>> THEN Done(last, st)
  ELSE LET inner == Child(e, st)
           d == Len(inner.envs)
           b == EvalStmts(n.a, d, Define(n.x, Head(items), d, inner), Nil)
       IN  CASE b.sig = "break" -> Done(b.v, b.st)
             [] b.sig = "continue" -> EvalFor(n, Tail(items), e, b.st, last)
             [] b.sig = "ok" -> EvalFor(n, Tail(items), e, b.st, b.v)
             [] OTHER -> b

(* ??= : the value is evaluated only when the target is nil or missing.    *)
EvalNilAssign(n, e, st) ==
  LET now == Get(n.x, e, st)
      r == Eval(n.e, e, st)
  IN  IF now.found /\ now.v # Nil THEN Done(now.v, st)
      ELSE IF r.sig # "ok" THEN r
      ELSE EvalAssign(n.x, r.v, e, r.st)

(* try: only a raised value is caught; finally runs whatever happened and  *)
(* replaces it when it does not end normally.                              *)
\* Mutant of EvalTry: finally is skipped when control leaves by a signal.
EvalTrySkips(n, e, st) ==
  LET t == EvalBlock(n.a, e, st)
      entry == Child(e, t.st)
      d == Len(entry.envs)
      bound == IF n.name \in {"", "_"} THEN entry
               ELSE EnvSet(n.name, t.r, d, entry)
      c == IF t.sig = "raise" /\ n.catch THEN EvalStmts(n.b, d, bound, Nil)
           ELSE t
      f == EvalBlock(n.fin, e, c.st)
  IN  IF n.fin = <<>> \/ c.sig # "ok" THEN c
      ELSE IF f.sig # "ok" THEN f
      ELSE [c EXCEPT !.st = f.st]

EvalTry(n, e, st) ==
  LET t == EvalBlock(n.a, e, st)
      entry == Child(e, t.st)
      d == Len(entry.envs)
      bound == IF n.name \in {"", "_"} THEN entry
               ELSE EnvSet(n.name, t.r, d, entry)
      c == IF t.sig = "raise" /\ n.catch THEN EvalStmts(n.b, d, bound, Nil)
           ELSE t
      f == EvalBlock(n.fin, e, c.st)
  IN  IF n.fin = <<>> THEN c
      ELSE IF f.sig # "ok" THEN f
      ELSE [c EXCEPT !.st = f.st]

EvalMatch(n, e, st) ==
  LET r == Eval(n.e, e, st)
      hit == SelectSeq(n.cases, LAMBDA c : Matches(c.p, r.v))
  IN  IF r.sig # "ok" THEN r
      ELSE IF hit = <<>> THEN Done(Nil, r.st)
      ELSE EvalBlock(hit[1].a, e, r.st)

EvalStmt(n, e, st) ==
  CASE n.k = "expr" -> Eval(n.e, e, st)
    [] n.k = "assign" ->
         LET r == Eval(n.e, e, st)
         IN  IF r.sig # "ok" THEN r ELSE EvalAssign(n.x, r.v, e, r.st)
    [] n.k = "nilassign" -> EvalNilAssign(n, e, st)
    [] n.k = "if" ->
         LET c == Eval(n.c, e, st)
         IN  IF c.sig # "ok" THEN c
             ELSE EvalBlock(IF Truthy(c.v) THEN n.a ELSE n.b, e, c.st)
    [] n.k = "while" -> EvalWhile(n, e, st, Nil, MaxLoop)
    [] n.k = "for" -> EvalFor(n, n.items, e, st, Nil)
    [] n.k = "match" -> EvalMatch(n, e, st)
    [] n.k \in {"break", "continue"} -> Signal(n.k, Nil, st)
    [] n.k = "return" ->
         LET r == Eval(n.e, e, st)
         IN  IF r.sig # "ok" THEN r ELSE Signal("return", r.v, r.st)
    [] n.k = "raise" ->
         LET r == Eval(n.e, e, st)
         IN  IF r.sig # "ok" THEN r
             ELSE IF r.v.kind # "error" THEN Fails("not an error", r.st)
             ELSE Signal("raise", r.v, r.st)
    [] n.k = "try" -> EvalTry(n, e, st)
    [] n.k = "scope" -> Fails("not implemented", st)

Eval(n, e, st) ==
  IF n.k \in {"const", "name", "func", "call", "print", "not", "and", "or", "??"}
  THEN EvalExpr(n, e, st) ELSE EvalStmt(n, e, st)

(* RunWithIO: what a program prints and how it ends.                       *)
EvalProgram(stmts) ==
  LET r == EvalStmts(stmts, 1, Start, Nil)
  IN  [out |-> r.st.out,
       end |-> CASE r.sig = "ok" -> "done"
                 [] r.sig = "raise" -> "raised"
                 [] r.sig = "error" /\ r.r.v = "undefined" -> "undefined"
                 [] r.sig = "diverges" -> "diverges"
                 [] OTHER -> "error"]

=============================================================================
