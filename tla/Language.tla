------------------------------ MODULE Language ------------------------------
(***************************************************************************)
(* From a program to what it does, by the two roads of the toolchain: the  *)
(* checker decides; the evaluator runs the tree (runner.go), the code      *)
(* generator emits C that a C compiler accepts or not and that runs on the *)
(* runtime's exceptions (cmd/tya).                                         *)
(***************************************************************************)
EXTENDS Evaluator, CMachine, Checker, Lint, Rename, ClassMeaning, ClassText
LOCAL INSTANCE SequencesExt

CONSTANTS Programs,    \* the programs that are tried
          Drafts,      \* programs that are only formatted
          Declarations, \* programs of classes and interfaces
          Outlines,    \* declarations that are only formatted
          Edited,      \* those of the programs whose text the tools edit
          NewNames     \* names to rename to

VARIABLES program, phase, evaluated, code, ran, text, reread, edited, classes

vars ==
  <<program, phase, evaluated, code, ran, text, reread, edited, classes>>

NoOutcome == [out |-> <<>>, end |-> "none"]
NoRun == [out |-> <<>>, chain |-> 0, end |-> "none"]
NoCode == [globals |-> {}, main |-> <<>>]
NoEdit == [by |-> "none", x |-> "", y |-> "", text |-> <<>>]
NoClasses == [env |-> NothingDeclared, at |-> 0, out |-> NothingEmitted]

Init ==
  /\ \/ program \in Programs /\ phase = "parsed"
     \/ program \in Drafts /\ phase = "draft"
     \/ program \in Declarations /\ phase = "declared"
     \/ program \in Outlines /\ phase = "outline"
  /\ evaluated = NoOutcome
  /\ code = NoCode
  /\ ran = NoRun
  /\ text = <<>>
  /\ reread = <<>>
  /\ edited = NoEdit
  /\ classes = NoClasses

Check ==
  /\ phase = "parsed"
  /\ phase' = IF Accepted(program) THEN "checked" ELSE "rejected"
  /\ UNCHANGED <<program, evaluated, code, ran, text, reread, edited, classes>>

Evaluate ==
  /\ phase \in {"checked", "emitted", "refused", "built", "finished"}
  /\ evaluated = NoOutcome
  /\ evaluated' = EvalProgram(program)
  /\ UNCHANGED <<program, phase, code, ran, text, reread, edited, classes>>

Generate ==
  /\ phase = "checked"
  /\ code' = EmitProgram(program)
  /\ phase' = "emitted"
  /\ UNCHANGED <<program, evaluated, ran, text, reread, edited, classes>>

CompileC ==
  /\ phase = "emitted"
  /\ phase' = IF Compiles(code) THEN "built" ELSE "refused"
  /\ UNCHANGED <<program, evaluated, code, ran, text, reread, edited, classes>>

RunBinary ==
  /\ phase = "built"
  /\ ran' = RunProgram(code)
  /\ phase' = "finished"
  /\ UNCHANGED <<program, evaluated, code, text, reread, edited, classes>>

(* tya format writes the program anew; the file is read again.             *)
Format ==
  /\ phase \in {"draft", "rejected", "refused", "finished"}
  /\ text = <<>>
  /\ text' = Unparse(program)
  /\ UNCHANGED <<program, phase, evaluated, code, ran, reread, edited, classes>>

Reread ==
  /\ text # <<>> /\ Supported(text) /\ phase # "outline"
  /\ reread = <<>>
  /\ reread' = Parse(Lex(text))
  /\ UNCHANGED <<program, phase, evaluated, code, ran, text, edited, classes>>

FormatDeclarations ==
  /\ phase = "outline"
  /\ text = <<>>
  /\ text' = UnparseDecls(program)
  /\ UNCHANGED <<program, phase, evaluated, code, ran, reread, edited, classes>>

RereadDeclarations ==
  /\ phase = "outline" /\ text # <<>>
  /\ reread = <<>>
  /\ reread' = ParseDecls(Lex(text))
  /\ UNCHANGED <<program, phase, evaluated, code, ran, text, edited, classes>>

(* tya lint --fix, and a rename the language server answers, on the text   *)
(* as it was read.                                                         *)
Editable ==
  program \in Edited /\ reread \notin {<<>>, NoProgram} /\ edited = NoEdit

LintUnwraps ==
  /\ Editable
  /\ edited' = [NoEdit EXCEPT !.by = "unwrap", !.text = UnwrapRound(text, reread)]
  /\ UNCHANGED <<program, phase, evaluated, code, ran, text, reread, classes>>

LintDeletes ==
  /\ edited.by = "unwrap"
  /\ edited' = [edited EXCEPT !.by = "lint",
                              !.text = UnusedRound(@, Parse(Lex(@)))]
  /\ UNCHANGED <<program, phase, evaluated, code, ran, text, reread, classes>>

RenameAt(l, j, y) ==
  LET x == text[l].toks[j].s
      places == RenamePlaces(reread, <<l, j>>, x, y)
  IN  /\ text[l].toks[j].t = "name" /\ x # y /\ places # {}
      /\ edited' = [by |-> "rename", x |-> x, y |-> y,
                    text |-> TokensToEdits(text, places, y)]

RenameName ==
  /\ Editable
  /\ \E l \in DOMAIN text : \E j \in DOMAIN text[l].toks :
       \E y \in NewNames : RenameAt(l, j, y)
  /\ UNCHANGED <<program, phase, evaluated, code, ran, text, reread, classes>>

(* Classes and interfaces are declared ahead, then checked and then        *)
(* emitted one after the other.                                            *)
declVars == <<program, evaluated, code, ran, text, reread, edited>>

DeclareAhead ==
  /\ phase = "declared"
  /\ phase' = "checking"
  /\ classes' = [classes EXCEPT !.env = Predeclared(program), !.at = 1]
  /\ UNCHANGED declVars

CheckDeclaration ==
  /\ phase = "checking"
  /\ LET r == CheckDecl(program[classes.at], classes.env)
         last == classes.at = Len(program)
     IN  /\ phase' = IF ~r.ok THEN "invalid" ELSE IF last THEN "emitting" ELSE phase
         /\ classes' = [classes EXCEPT !.env = r.env,
                                       !.at = IF last THEN 1 ELSE @ + 1]
  /\ UNCHANGED declVars

EmitDeclaration ==
  /\ phase = "emitting"
  /\ classes' = [classes EXCEPT !.out = EmitDecl(program, @, program[classes.at]),
                                !.at = @ + 1]
  /\ phase' = IF classes.at = Len(program) THEN "linked" ELSE phase
  /\ UNCHANGED declVars

Next ==
  \/ Check \/ Evaluate \/ Generate \/ CompileC \/ RunBinary
  \/ Format \/ Reread \/ LintUnwraps \/ LintDeletes \/ RenameName
  \/ FormatDeclarations \/ RereadDeclarations
  \/ DeclareAhead \/ CheckDeclaration \/ EmitDeclaration

Spec == Init /\ [][Next]_vars

---------------------------------------------------------------------------
(* The nodes of a program: statements and expressions, those inside        *)
(* function literals too, or not.                                          *)

Kids(n) ==
  UNION {ToSet(n[f]) : f \in DOMAIN n \cap {"a", "b", "fin", "body"}}
    \cup {n[f] : f \in DOMAIN n \cap {"e", "c", "l", "r"}}
    \cup (IF n.k = "match" THEN UNION {ToSet(c.a) : c \in ToSet(n.cases)}
          ELSE {})

RECURSIVE Nodes(_, _)
Nodes(ns, enter) ==
  IF ns = {} THEN {}
  ELSE ns \cup Nodes(UNION {Kids(n) :
                       n \in {n \in ns : enter \/ n.k # "func"}}, enter)
AllNodes(stmts) == Nodes(ToSet(stmts), TRUE)
NodesHere(stmts) == Nodes(ToSet(stmts), FALSE)
KindsHere(stmts) == {n.k : n \in NodesHere(stmts)}

(* The program and the bodies of its function literals.                    *)
Bodies(stmts) ==
  {stmts} \cup {n.body : n \in {n \in AllNodes(stmts) : n.k = "func"}}

(* What the two roads do differently, and the README lists.  A try part is *)
(* not left by break or continue, nor by returning a call; where there is  *)
(* a finally, no return leaves its try part, and its catch part and itself *)
(* end normally.                                                           *)
LeavesNoFrame(stmts) ==
  \A t \in {n \in AllNodes(stmts) : n.k = "try"} :
    LET leaving == {"return", "break", "continue", "raise", "call"}
    IN  /\ KindsHere(t.a) \cap {"break", "continue"} = {}
        /\ \A n \in NodesHere(t.a) :
             n.k = "return" => "call" \notin KindsHere(<<n>>)
        /\ t.fin # <<>> =>
             /\ "return" \notin KindsHere(t.a)
             /\ (KindsHere(t.b) \cup KindsHere(t.fin)) \cap leaving = {}

(* What must be evaluated in its place - the right operand of a logical    *)
(* operator, the condition of a loop - prints nothing and holds no control *)
(* flow; an expression that is a statement and not a call holds no call.   *)
NothingHoisted(stmts) ==
  LET Text(e) == KindsHere(<<e>>) \cap ({"print"} \cup Control) = {}
  IN  \A n \in AllNodes(stmts) :
        /\ n.k \in {"and", "or", "??"} => Text(n.r)
        /\ n.k = "while" => Text(n.c)
        /\ n.k = "if" /\ Len(n.b) = 1 /\ n.b[1].k = "if" => Text(n.b[1].c)
        /\ n.k = "expr" /\ n.e.k \in {"and", "or", "??", "not"} =>
             "call" \notin KindsHere(<<n>>)

(* A body whose value is used ends in an expression, and is not left by    *)
(* break.                                                                  *)
GivesValue(n) ==
  LET Ends(block) == block = <<>> \/ Last(block).k = "expr"
  IN  CASE n.k = "if" ->
             /\ Ends(n.a)
             /\ Ends(n.b) \/ (Len(n.b) = 1 /\ n.b[1].k = "if"
                                /\ Ends(n.b[1].a) /\ Ends(n.b[1].b))
        [] n.k \in {"while", "for"} ->
             Ends(n.a) /\ "break" \notin KindsHere(n.a)
        [] n.k = "match" -> \A c \in ToSet(n.cases) : Ends(c.a)
        [] OTHER -> TRUE
ValuesEnd(stmts) ==
  \A n \in AllNodes(stmts) :
    /\ n.k \in {"assign", "print", "return"} => GivesValue(n.e)
    /\ n.k = "func" =>
         /\ Last(n.body).k \in {"expr", "return", "raise"} \cup Control
         /\ GivesValue(Last(n.body))

(* A name that ??= or a function literal is given to is no loop variable,  *)
(* nor assigned in a block inside the body; a name a closure captures is   *)
(* assigned once.                                                          *)
NamesPlain(stmts) ==
  \A body \in Bodies(stmts) :
    LET here == NodesHere(body)
        Inside(x) == {n \in here :
                        /\ n.k \in {"assign", "nilassign", "for"} /\ n.x = x
                        /\ n.k = "for" \/ n \notin ToSet(body)}
    IN  /\ \A n \in here :
             n.k = "nilassign" \/ (n.k = "assign" /\ n.e.k = "func") =>
               Inside(n.x) = {}
        /\ body # stmts =>
             \A f \in {n \in here : n.k = "func"} :
               \A x \in BlockIdents(f.body) \ AssignedNames(f.body) :
                 Len(SelectSeq(AssignedIn(body), LAMBDA y : y = x)) <= 1

Portable(stmts) ==
  /\ LeavesNoFrame(stmts)
  /\ NothingHoisted(stmts)
  /\ ValuesEnd(stmts)
  /\ NamesPlain(stmts)

(* A name that is given a function is not read before: the checker lets it *)
(* be, for the sake of functions that call each other.                     *)
DefinedFirst(stmts) ==
  \A body \in Bodies(stmts) : \A j \in DOMAIN body :
    body[j].k = "assign" /\ body[j].e.k = "func" =>
      \A i \in 1..(j - 1) : body[j].x \notin StmtIdents(body[i])

(* No name is first given a value in a scope block.                        *)
NoneInScope(stmts) ==
  \A body \in Bodies(stmts) : \A n \in NodesHere(body) :
    n.k = "scope" =>
      {m.x : m \in {m \in NodesHere(n.a) : m.k \in {"assign", "nilassign"}}}
        \subseteq AssignedNames(body)

---------------------------------------------------------------------------

(* A program that avoids the constructs above and meets no dynamic error   *)
(* prints the same and ends the same whether it is evaluated (eval.go) or  *)
(* compiled (codegen) and run on the C runtime.                            *)
Agree ==
  /\ phase = "finished" /\ evaluated.end \in {"done", "raised"}
  /\ Portable(program) /\ DefinedFirst(program)
  => /\ ran.out = evaluated.out
     /\ ran.end = evaluated.end

(* The two passes of the checker (checker.go, strict.go) let no program    *)
(* through that reads a name without a value, and the C of one they let    *)
(* through declares what it uses: the C compiler does not refuse it.       *)
AcceptedSound ==
  /\ evaluated.end = "undefined" => ~DefinedFirst(program)
  /\ phase = "refused" => ~NoneInScope(program)

(* Every raise frame is popped on every way out of its block: no raise     *)
(* jumps to a frame that is gone, and none is left at the end.             *)
ChainWhole ==
  phase = "finished" /\ LeavesNoFrame(program) /\ ran.end # "diverges" =>
    /\ ran.end # "wild"
    /\ ran.end = "done" => ran.chain = 0

(* What the formatter makes of a tree: the last return of a function, and  *)
(* of the ifs that end it, is the expression alone.                        *)
RECURSIVE Settle(_, _), SettleBlock(_, _)
SettleBlock(stmts, tail) ==
  [j \in DOMAIN stmts |-> Settle(stmts[j], tail /\ j = Len(stmts))]
Settle(n, tail) ==
  IF tail /\ n.k = "return" THEN Expr(Settle(n.e, FALSE))
  ELSE [f \in DOMAIN n |->
     CASE f \in {"a", "b", "fin"} -> SettleBlock(n[f], tail /\ n.k = "if")
       [] f = "body" -> SettleBlock(n[f], TRUE)
       [] f \in {"e", "c", "l", "r"} -> Settle(n[f], FALSE)
       [] f = "cases" -> [j \in DOMAIN n.cases |->
             [n.cases[j] EXCEPT !.a = SettleBlock(@, FALSE)]]
       [] OTHER -> n[f]]

(* What the formatter does not write back, and the README lists: an        *)
(* expression that begins with a parenthesis or a minus and is a statement *)
(* (the lexer and the parser continue the line before), an operand that    *)
(* needs parentheses the formatter does not write, a line too long to hold *)
(* its operators.                                                          *)
WritesBack(stmts) ==
  LET Operand(n) == IF n.k \in Ops THEN {n.l, n.r}
                    ELSE IF n.k \in Prefixed THEN {n.e} ELSE {}
  IN  \A n \in AllNodes(stmts) :
        /\ n.k \in {"expr", "return"} =>
             Head(ExprToks(n.e)) \notin {Sym("("), Sym("-")}
        /\ n.k = "return" => FitsInline(ExprToks(n.e))
        /\ \A e \in Operand(n) : e.k # "func"
        /\ n.k \in {"spawn", "await"} => n.e.k \notin Ops
        /\ n.k = "nilassign" => n.e.k \notin Control
        /\ n.k = "<<" => n.l.k # "+" /\ n.r.k \notin {"+", "*"}
        /\ n.k \in Ops /\ ~FitsInline(ExprToks(n)) =>
             n.k # "??" /\ \A e \in ToSet(Operands(n, n.k)) : e.k \notin Ops

StatementsRead ==
  WritesBack(program) =>
    /\ BareAll(reread) = SettleBlock(program, FALSE)
    /\ Unparse(BareAll(reread)) = text

(* A class has the same members again, whatever their order, names and     *)
(* marks and parameters and all.                                           *)
Erased(d) ==
  [f \in DOMAIN d |->
     CASE f = "methods" ->
            {[x EXCEPT !.body = <<>>] : x \in ToSet(d.methods)}
       [] f \in {"consts", "statics"} \/ (f = "fields" /\ d.k = "class") ->
            {[x EXCEPT !.value = Lit] : x \in ToSet(d[f])}
       [] OTHER -> d[f]]
DeclarationsRead ==
  /\ [i \in DOMAIN reread |-> Erased(reread[i])]
       = [i \in DOMAIN program |-> Erased(program[i])]
  /\ UnparseDecls(reread) = text

(* A formatted file reads as the program it was written from, but for the  *)
(* returns that end a function and the order of the members of a class,    *)
(* and formatting it again changes nothing (docs/SPEC.md:339).             *)
FormatReads ==
  reread # <<>> => IF phase = "outline" THEN DeclarationsRead ELSE StatementsRead

(* An if that ends a function has no branch that ends in an if with a      *)
(* return, elseif apart: its value is not that of the branch.              *)
RECURSIVE EndsFlat(_)
EndsFlat(n) ==
  LET Flat(block) == block = <<>> \/ Last(block).k # "if"
                       \/ "return" \notin KindsHere(<<Last(block)>>)
  IN  n.k = "if" =>
        /\ Flat(n.a)
        /\ IF Len(n.b) = 1 THEN EndsFlat(n.b[1]) ELSE Flat(n.b)

(* A program that was read compiles, and runs as this one did.             *)
Behaviours(programs) ==
  {IF Compiles(c) THEN RunProgram(c) ELSE NoRun :
     c \in {EmitProgram(p) : p \in programs}}
Behaves(tree) ==
  /\ tree # NoProgram
  /\ \A again \in Behaviours({BareAll(tree)}) :
       again.out = ran.out /\ again.end = ran.end

(* A formatted program, compiled, prints the same and ends the same        *)
(* (docs/SPEC.md:339).                                                     *)
FormatKeeps ==
  /\ reread # <<>> /\ phase = "finished" /\ WritesBack(program)
  /\ \A body \in Bodies(program) : EndsFlat(Last(body))
  => Behaves(reread)

(* Where the formatter may leave self, Self and the name of the class out, *)
(* and does so elsewhere too, as the README lists: nothing else has the    *)
(* name, and the class itself has what is called or read.                  *)
BoundIn(x) ==
  ToSet(x.params) \cup {u.x : u \in {u \in InnerUses(x.body) : u.k = "let"}}
BoundUnseen(x) == BoundIn(x) \ ShadowNames(x)
NotBelow(f, c, context) ==
  \A d \in Named(context.decls, "class") :
    d.name # c.name /\ f \in StaticsOf(d) =>
      c.name \notin ToSet(Ancestry(d.name, context.env.classes))
MayBeBare(u, c, x, context) ==
  LET free == context.globals \cup BoundIn(x)
      static == EffectiveClassMethodArity(c.name, u.m, context.env.classes)
      own == EffectiveMethodArity(c.name, u.m, context.env)
  IN  CASE u.k = "call" /\ u.on = "self" -> u.m \notin free /\ own = {u.n}
        [] u.k = "call" /\ u.on \in {"Self", c.name} ->
             /\ u.m \notin free /\ static = {u.n}
             /\ "static" \notin x.marks => own = {}
             /\ u.on = c.name => NotBelow(u.m, c, context)
        [] u.k = "get" -> u.f \notin context.globals \cup BoundUnseen(x)
        [] u.k = "of" /\ u.on \in {"Self", c.name} ->
             /\ u.f \in Capitals => u.f \in context.consts
             /\ u.on = c.name => NotBelow(u.f, c, context)
        [] OTHER -> TRUE
SameMethod(c, x, y, context) ==
  (\A u \in InnerUses(x.body) : MayBeBare(u, c, x, context)) =>
    \A d \in DOMAIN context.env.classes :
      c.name \in ToSet(Ancestry(d, context.env.classes)) =>
        MethodMeaning(x, c.name, d, context) = MethodMeaning(y, c.name, d, context)

(* What the names in a method mean, in every class that has the method, is *)
(* what they meant before the file was formatted (docs/SPEC.md:579-590).   *)
FormatResolves ==
  phase = "outline" /\ reread # <<>> =>
    \A i \in DOMAIN program : program[i].k = "class" =>
      \A context \in {Context(program, program[i])} :
        \A x \in Concrete(program[i]) :
          \E y \in Concrete(reread[i]) :
            Key(y) = Key(x) /\ SameMethod(program[i], x, y, context)

---------------------------------------------------------------------------
(* Edits of the text.                                                      *)

NamesIn(n) ==
  {m.x : m \in {m \in Nodes({n}, TRUE) : "x" \in DOMAIN m}}
NamesOf(nodes) == UNION {NamesIn(n) : n \in nodes}

(* The names where neither tool looks: control flow that is a value, what  *)
(* is spawned or awaited, scope blocks.                                    *)
Unwalked(stmts) ==
  UNION {NamesOf({n[f] : f \in {f \in DOMAIN n \cap {"e", "c", "l", "r"} :
                    n[f].k \in Control \cup {"spawn", "await"}}}
                   \cup (IF n.k = "scope" THEN ToSet(n.a) ELSE {})) :
           n \in AllNodes(stmts)}

Binders(stmts) ==
  {n.x : n \in {n \in AllNodes(stmts) : n.k = "for"}}
    \cup {n.name : n \in {n \in AllNodes(stmts) : n.k = "try"}}

(* A rename to a name that is new keeps what a program does, unless the    *)
(* name is that of a loop or a catch or is read where it does not look.    *)
RenameKeeps ==
  /\ edited.by = "rename" /\ phase = "finished" /\ BareAll(reread) = program
  /\ edited.x \notin Unwalked(program) \cup Binders(program)
  /\ edited.y \notin NamesOf(AllNodes(program)) \cup Binders(program)
  => \A tree \in {Parse(Lex(edited.text))} : Behaves(tree)

(* What the fix takes for unused and is not, or cannot be taken out, and   *)
(* the README lists.  What a nested block assigns is named in it alone;    *)
(* what is never read is given no call; every block has another statement, *)
(* and no function ends in an assignment.                                  *)
BlocksOf(n) ==
  CASE n.k = "match" -> {c.a : c \in ToSet(n.cases)}
    [] OTHER -> {n[f] : f \in DOMAIN n \cap {"a", "b", "fin"}} \ {<<>>}
InnerBlocks(stmts) == UNION {BlocksOf(n) : n \in AllNodes(stmts)}
Assignments(nodes) == {n \in nodes : n.k \in {"assign", "nilassign"}}

KeepsToItself(stmts) ==
  \A L \in Bodies(stmts) \cup InnerBlocks(stmts) : \A j \in DOMAIN L :
    \A block \in BlocksOf(L[j]) :
      AssignedNames(block)
        \cap (NamesOf({L[i] : i \in DOMAIN L \ {j}})
               \cup NamesOf(Kids(L[j]) \ ToSet(block))) = {}

TakenOut(stmts) ==
  /\ \A n \in Assignments(AllNodes(stmts)) :
       {"call", "print"} \cap KindsHere(<<n.e>>) = {}
  /\ \A block \in InnerBlocks(stmts) :
       Assignments(ToSet(block)) # ToSet(block)
  /\ \A body \in Bodies(stmts) \ {stmts} :
       Last(body).k \notin {"assign", "nilassign"}

(* An if of a literal is `if true`, has no else, and has statements of one *)
(* line each, the first and the last of which the tree has a token of.     *)
Unwraps(stmts) ==
  \A n \in AllNodes(stmts) :
    n.k = "if" /\ n.c \in {Const(True), Const(False)} =>
      /\ n.c = Const(True) /\ n.b = <<>>
      /\ \A s \in ToSet(n.a) : Len(StmtLines(s, 0)) = 1
      /\ \A s \in {Head(n.a), Last(n.a)} :
           /\ s.k \in {"assign", "nilassign", "expr", "return", "raise"}
           /\ s.k = "expr" => s.e.k \in {"name", "print"}

(* tya lint --fix leaves a program that does what it did.                  *)
FixKeeps ==
  /\ edited.by = "lint" /\ phase = "finished" /\ BareAll(reread) = program
  /\ Unwalked(program) = {} /\ DefinedFirst(program)
  /\ KeepsToItself(program) /\ TakenOut(program) /\ Unwraps(program)
  => \A tree \in {Parse(Lex(edited.text))} : Behaves(tree)

---------------------------------------------------------------------------
(* Classes.                                                                *)

(* Every class that is accepted answers each method, constructs its        *)
(* objects and runs super as docs/SPEC.md says, although the tables are    *)
(* made from what has been emitted before (class.go).                      *)
MethodsResolve ==
  phase = "linked" /\ ParentsFirst(program) /\ PlainParents(program)
                   /\ HooksRun(program)
  => \A c \in Made(program) :
       LET made == classes.out.new[c]
           Table(m) == IF m \in DOMAIN made.methods THEN <<made.methods[m]>> ELSE <<>>
       IN  /\ made.runs = MeantRuns(program, c)
           /\ \A m \in MethodNames(program) :
                /\ Table(m) = MeantMethod(program, c, m)
                /\ ClassMember(c, m, classes.out.objects)
                     = MeantStatic(program, c, m)

(* What the checker lets a body call or read is there at run time, with    *)
(* as many parameters: a call of a method without a receiver, a field that *)
(* is declared, a method that a class above or an interface demands.       *)
CallsAnswered ==
  phase = "linked" /\ ParentsFirst(program) /\ PlainParents(program)
                   /\ NothingReplaced(program)
  => \A c \in Made(program) :
       LET made == classes.out.new[c]
           env == classes.env
           On(m) == IF m \in DOMAIN made.methods THEN {made.methods[m].arity} ELSE {}
           OnSelf(m) == {x.arity : x \in ToSet(ClassMember(c, m, classes.out.objects))}
       IN  /\ \A x \in OnObject(made) : \A u \in BareCalls(x) :
                u.n \in (IF EffectiveMethodArity(x.by, u.m, env) # {}
                        THEN On(u.m) ELSE OnSelf(u.m))
           /\ \A x \in OnClass(program, c, classes.out.objects) :
                \A u \in BareCalls(x) : u.n \in OnSelf(u.m)
           /\ \A f \in UNION {env.classes[d].fields : d \in ToSet(Ancestry(c, env.classes))} :
                f \in made.fields
           /\ \A d \in ToSet(Ancestry(c, env.classes)) :
                \A key \in DOMAIN env.classes[d].needs :
                  env.classes[d].needs[key]
                    \in (IF key[1] = "instance" THEN On(key[2]) ELSE OnSelf(key[2]))
           /\ \A i \in ToSet(Decl(program, c).ifaces) :
                LET reqs == Requirements(i, env.ifaces)
                IN  \A m \in DOMAIN reqs : reqs[m] \in On(m)

(* docs/SPEC.md:1203: finally always runs as control leaves the try or the *)
(* catch part.  A program prints "try" before each try, and "fin" in its   *)
(* finally.                                                                *)
FinallyAlwaysRuns ==
  phase = "finished" =>
    Len(SelectSeq(ran.out, LAMBDA v : v = "try"))
      = Len(SelectSeq(ran.out, LAMBDA v : v = "fin"))

=============================================================================
