------------------------------- MODULE Syntax -------------------------------
(***************************************************************************)
(* The abstract syntax of Tya (src/internal/ast) that the parser builds    *)
(* and that the checker, the evaluator, the code generator and the         *)
(* formatter share, cut down to control flow and names: literals are       *)
(* members of a small set of values, a function literal has no parameters, *)
(* `print` is the one builtin.  An if, while, for or match is a statement  *)
(* and an expression, as in the source.                                    *)
(***************************************************************************)
EXTENDS Naturals, Sequences

CONSTANT MaxLoop   \* turns after which a while is taken to diverge

(* A value: its kind, what is printed of it, and for a function the place  *)
(* of its closure in the machine that made it.                             *)
Value(kind, v) == [kind |-> kind, v |-> v, at |-> 0]
Nil == Value("nil", "nil")
True == Value("bool", "true")
False == Value("bool", "false")
Str(v) == Value("string", v)
Err(v) == Value("error", v)
Function(at) == [kind |-> "function", v |-> "<function>", at |-> at]
Bool(b) == IF b THEN True ELSE False

Truthy(v) == v \notin {Nil, False}

---------------------------------------------------------------------------

Const(v) == [k |-> "const", v |-> v]
Name(x) == [k |-> "name", x |-> x]
Call(e) == [k |-> "call", e |-> e]
Say(e) == [k |-> "print", e |-> e]
Binary(op, l, r) == [k |-> op, l |-> l, r |-> r]   \* "and", "or", "??"
Not(e) == [k |-> "not", e |-> e]
Func(body) == [k |-> "func", body |-> body]

Expr(e) == [k |-> "expr", e |-> e]
Assign(x, e) == [k |-> "assign", x |-> x, e |-> e]
NilAssign(x, e) == [k |-> "nilassign", x |-> x, e |-> e]
If(c, a, b) == [k |-> "if", c |-> c, a |-> a, b |-> b]
While(c, a) == [k |-> "while", c |-> c, a |-> a]
For(x, items, a) == [k |-> "for", x |-> x, items |-> items, a |-> a]
Match(e, cases) == [k |-> "match", e |-> e, cases |-> cases]
Case(p, a) == [p |-> p, a |-> a]                   \* p: Const, or Wild
Wild == [k |-> "wild"]
Break == [k |-> "break"]
Continue == [k |-> "continue"]
Return(e) == [k |-> "return", e |-> e]
Raise(e) == [k |-> "raise", e |-> e]
Try(a, catch, name, b, fin) ==                     \* catch: is there one
  [k |-> "try", a |-> a, catch |-> catch, name |-> name, b |-> b,
   fin |-> fin]
Scope(a) == [k |-> "scope", a |-> a]

Control == {"if", "while", "for", "match"}

=============================================================================
