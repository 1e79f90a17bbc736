------------------------------ MODULE CMachine ------------------------------
(***************************************************************************)
(* Running the emitted C on the runtime's exceptions                       *)
(* (src/runtime/tya_runtime_io.c): a chain of raise frames, each pushed by *)
(* the block that declares it; a raise jumps to the head of the chain.     *)
(*                                                                         *)
(* A frame is named by a fresh number each time its block is entered, for  *)
(* its storage is the block's: a jump to a frame whose block has been left *)
(* is undefined in C, and ends the run as "wild".                          *)
(***************************************************************************)
EXTENDS Codegen
LOCAL INSTANCE SequencesExt

(* stack: the blocks of the running C function, the innermost first, each  *)
(* a map of its variables; this: what the closure captured; chain: the     *)
(* raise frames; frames: how many there have ever been; raised: the value  *)
(* in the head frame.                                                      *)
CStart(globals) ==
  [out |-> <<>>, glob |-> [x \in globals |-> Nil], stack |-> <<>>,
   this |-> <<>>, chain |-> <<>>, frames |-> 0, raised |-> Nil,
   fns |-> <<>>]

Ok(v, s) == [sig |-> "next", v |-> v, to |-> 0, s |-> s]
Leave(sig, v, s) == [sig |-> sig, v |-> v, to |-> 0, s |-> s]

InBlock(x, s) ==
  SelectInSeq(s.stack, LAMBDA b : x \in DOMAIN b)

Read(x, s) ==
  IF InBlock(x, s) > 0 THEN s.stack[InBlock(x, s)][x] ELSE s.glob[x]
Write(x, v, s) ==
  IF InBlock(x, s) > 0
  THEN [s EXCEPT !.stack[InBlock(x, s)] = (x :> v) @@ @]
  ELSE [s EXCEPT !.glob[x] = v]
DeclareHere(x, v, s) == [s EXCEPT !.stack[1] = (x :> v) @@ @]

(* tya_raise: jump to the head of the chain, or end the program.           *)
DoRaise(v, s) ==
  IF s.chain = <<>> THEN Leave("exit", Str("raised"), s)
  ELSE [Leave("jump", v, [s EXCEPT !.raised = v]) EXCEPT !.to = Last(s.chain)]
(* tya_raise_user: only an error value may be raised.                      *)
DoRaiseUser(v, s) ==
  IF v.kind # "error" THEN Leave("exit", Str("error"), s) ELSE DoRaise(v, s)

PushFrame(s) ==
  [s EXCEPT !.chain = Append(@, s.frames + 1), !.frames = @ + 1]
PopFrame(s) == [s EXCEPT !.chain = IF @ = <<>> THEN @ ELSE Front(@)]

(* The machine goes round through Runs: an expression or lines.            *)
RECURSIVE Runs(_, _, _), CLoop(_, _, _), CItems(_, _, _)
CEval(e, s) == Runs("expr", e, s)
CRun(lines, s) == Runs("lines", lines, s)

(* Lines in a block of their own.                                          *)
CBlock(lines, s) ==
  LET r == CRun(lines, [s EXCEPT !.stack = <<(<<>>)>> \o @])
  IN  [r EXCEPT !.s.stack = Tail(@)]

(* A call: a new stack; what is left of the callee's is dropped however it *)
(* ends.                                                                   *)
CInvoke(f, this, s) ==
  LET r == CRun(f.body, [s EXCEPT !.stack = <<[x \in f.locals |-> Nil]>>,
                                  !.this = this])
  IN  [r EXCEPT !.s.stack = s.stack, !.s.this = s.this,
                !.sig = IF @ = "return" THEN "next" ELSE @]

Evaluates(e, s) ==
  CASE e.c = "const" -> Ok(e.v, s)
    [] e.c = "name" -> Ok(Read(e.x, s), s)
    [] e.c = "member" -> Ok(s.this[e.x], s)
    [] e.c = "current" -> Ok(s.raised, s)
    [] e.c = "not" ->
         LET r == CEval(e.e, s)
         IN  IF r.sig # "next" THEN r ELSE Ok(Bool(~Truthy(r.v)), r.s)
    [] e.c \in {"and", "or", "??"} ->
         LET l == CEval(e.l, s)
             skip == \/ e.c = "and" /\ ~Truthy(l.v)
                     \/ e.c = "or" /\ Truthy(l.v)
                     \/ e.c = "??" /\ l.v # Nil
             r == IF skip THEN l ELSE CEval(e.r, l.s)
         IN  IF l.sig # "next" THEN l
             ELSE IF r.sig # "next" \/ e.c = "??" THEN r
             ELSE Ok(Bool(Truthy(r.v)), r.s)
    [] e.c = "matches" ->
         Ok(Bool(/\ ~Truthy(Read(e.flag, s))
                 /\ \/ e.p = Wild
                    \/ e.p.v = Read(e.x, s)), s)
    [] e.c = "function" ->
         Ok(Function(Len(s.fns) + 1),
              [s EXCEPT !.fns = Append(@,
                 [f |-> e.f,
                  this |-> [x \in DOMAIN e.caps |-> CEval(e.caps[x], s).v]])])
    [] e.c = "static" -> CInvoke(e.f, <<>>, s)
    [] e.c = "call" ->
         LET f == CEval(e.e, s)
         IN  IF f.sig # "next" THEN f
             ELSE IF f.v.kind # "function" THEN Ok(Nil, f.s)
             ELSE CInvoke(f.s.fns[f.v.at].f, f.s.fns[f.v.at].this, f.s)

CLoop(n, s, turns) ==
  LET c == CEval(n.e, s)
      b == CBlock(n.a, c.s)
  IN  IF turns = 0 THEN Leave("exit", Str("diverges"), s)
      ELSE IF c.sig # "next" THEN c
      ELSE IF ~Truthy(c.v) THEN Ok(Nil, c.s)
      ELSE CASE b.sig = "break" -> Ok(Nil, b.s)
             [] b.sig \in {"next", "continue"} -> CLoop(n, b.s, turns - 1)
             [] OTHER -> b

CItems(n, items, s) ==
  LET b == CBlock(n.a, Write(n.x, Head(items), s))
  IN  IF items = <<>> THEN Ok(Nil, s)
      ELSE CASE b.sig = "break" -> Ok(Nil, b.s)
             [] b.sig \in {"next", "continue"} -> CItems(n, Tail(items), b.s)
             [] OTHER -> b

(* A frame pushed, setjmp: the first part runs; a jump to this frame while *)
(* it runs goes to the second part, the frame still on the chain.          *)
CSetjmpRun(n, s) ==
  LET id == s.frames + 1
      a == CBlock(n.a, PushFrame(s))
  IN  IF a.sig = "jump" /\ a.to = id THEN CBlock(n.b, a.s) ELSE a

CLine(n, s) ==
  CASE n.c = "pop" -> Ok(Nil, PopFrame(s))
    [] n.c \in {"break", "continue"} -> Leave(n.c, Nil, s)
    [] n.c = "while" -> CLoop(n, s, MaxLoop)
    [] n.c = "for" -> CItems(n, n.items, s)
    [] n.c = "setjmp" -> CSetjmpRun(n, s)
    [] OTHER ->
         LET r == CEval(n.e, s)
         IN  IF r.sig # "next" THEN r
             ELSE CASE n.c = "decl" -> Ok(Nil, DeclareHere(n.x, r.v, r.s))
                    [] n.c = "set" -> Ok(Nil, Write(n.x, r.v, r.s))
                    [] n.c = "void" -> Ok(Nil, r.s)
                    [] n.c = "print" ->
                         Ok(Nil, [r.s EXCEPT !.out = Append(@, r.v.v)])
                    [] n.c = "if" ->
                         CBlock(IF Truthy(r.v) THEN n.a ELSE n.b, r.s)
                    [] n.c = "raise" ->
                         IF n.user THEN DoRaiseUser(r.v, r.s)
                         ELSE DoRaise(r.v, r.s)
                    [] n.c = "return" -> Leave("return", r.v, r.s)

RunsLines(lines, s) ==
  IF lines = <<>> THEN Ok(Nil, s)
  ELSE LET r == CLine(Head(lines), s)
       IN  IF r.sig = "next" THEN CRun(Tail(lines), r.s) ELSE r

Runs(what, n, s) ==
  IF what = "expr" THEN Evaluates(n, s) ELSE RunsLines(n, s)

(* main: what is printed, how the process ends, and the frames left on the *)
(* chain.                                                                  *)
RunProgram(c) ==
  LET r == CBlock(c.main, CStart(c.globals))
  IN  [out |-> r.s.out, chain |-> Len(r.s.chain),
       end |-> CASE r.sig = "next" -> "done"
                 [] r.sig = "jump" -> "wild"
                 [] r.sig = "exit" -> r.v.v]

---------------------------------------------------------------------------
(* What the C compiler asks: every name declared in a block around its use *)
(* or global, every break inside a loop.                                   *)

RECURSIVE ExprDeclared(_, _), Declares(_, _, _)

FuncDeclared(f, globals) ==
  Declares(f.body, globals \cup f.locals, [globals |-> globals, loop |-> FALSE])

ExprDeclared(e, env) ==
  CASE e.c = "name" -> e.x \in env.names
    [] e.c \in {"and", "or", "??"} ->
         ExprDeclared(e.l, env) /\ ExprDeclared(e.r, env)
    [] e.c \in {"not", "call"} -> ExprDeclared(e.e, env)
    [] e.c = "matches" -> {e.x, e.flag} \subseteq env.names
    [] e.c = "function" ->
         /\ FuncDeclared(e.f, env.globals)
         /\ \A x \in DOMAIN e.caps : ExprDeclared(e.caps[x], env)
    [] OTHER -> TRUE

Declares(lines, names, env) ==
  IF lines = <<>> THEN TRUE
  ELSE LET n == Head(lines)
           here == [names |-> names, globals |-> env.globals]
       IN  /\ \/ n.c \in {"pop", "break", "continue", "for", "setjmp"}
              \/ ExprDeclared(n.e, here)
           /\ n.c \in {"set", "for"} => n.x \in names
           /\ n.c \in {"break", "continue"} => env.loop
           /\ n.c \in {"if", "setjmp"} =>
                Declares(n.a, names, env) /\ Declares(n.b, names, env)
           /\ n.c \in {"while", "for"} =>
                Declares(n.a, names, [env EXCEPT !.loop = TRUE])
           /\ Declares(Tail(lines),
                       IF n.c = "decl" THEN names \cup {n.x} ELSE names, env)

Compiles(c) ==
  Declares(c.main, c.globals, [globals |-> c.globals, loop |-> FALSE])

=============================================================================
