----------------------------- MODULE MCLanguage -----------------------------
EXTENDS Language
LOCAL INSTANCE SequencesExt

a == Const(Str("a"))
b == Const(Str("b"))
one == Const(Value("number", "1"))
nil == Const(Nil)
no == Const(False)
err == Const(Err("e"))
SayX == Expr(Say(Name("x")))
Quiet == <<Expr(a)>>

(* try in a function, called where what it raises is caught; something is  *)
(* raised afterwards, when every frame must be gone.                       *)
Leaves == {Quiet, <<Expr(Say(a))>>, <<Return(a)>>, <<Raise(err)>>,
           <<Expr(Call(Name("h")))>>, <<Assign("x", a)>>}
Fin == <<Expr(Say(Const(Str("fin"))))>>
Fins == {Fin, <<Return(b)>>, <<Raise(err)>>}
Catch(A, B) == Try(A, TRUE, "e", B, <<>>)

Helper == Assign("h", Func(<<Expr(Say(Const(Str("h")))), Raise(err)>>))
Around(body) ==
  <<Helper, Assign("f", Func(body)),
    Catch(<<Expr(Say(Call(Name("f"))))>>, <<Expr(Say(Name("e")))>>),
    Raise(err)>>

Tries ==
  {Catch(A, B) : A \in Leaves, B \in Leaves}
    \cup {Try(A, TRUE, "e", B, F) : A \in Leaves, B \in Leaves, F \in Fins}
    \cup {Try(A, FALSE, "_", <<>>, F) : A \in Leaves, F \in Fins}

TryPrograms ==
  {Around(<<Assign("x", b), t, SayX, Expr(Name("x"))>>) : t \in Tries}
    \cup {Around(<<Assign("x", b), Catch(<<t>>, <<SayX>>), Expr(Name("x"))>>) :
            t \in Tries}
    \cup {Around(<<Assign("x", b), For("i", <<Str("1"), Str("2")>>, <<t>>),
                   Expr(Name("x"))>>) :
            t \in Tries \cup
                  {Catch(<<Break>>, Quiet), Catch(<<Raise(err)>>, <<Continue>>),
                   Try(<<Continue>>, FALSE, "_", <<>>, <<SayX>>)}}

(* Control flow as a value.                                                *)
Conds == {Const(True), nil, Name("x"), Not(Name("x")), Call(Name("p")),
          Binary("and", Name("x"), Call(Name("p"))),
          Binary("or", Name("x"), Say(a)),
          Binary("??", Name("x"), Call(Name("p")))}
Blocks == {<<Expr(a)>>, <<Assign("x", nil), Expr(b)>>, <<SayX>>,
           <<Assign("x", nil), Break>>, <<Assign("x", nil), Continue>>,
           <<If(Name("x"), <<Expr(a)>>, <<Expr(b)>>)>>}
Chain(c) == <<If(c, <<Expr(b)>>, <<Expr(Name("x"))>>)>>
NoJump == {B \in Blocks : B[Len(B)] \notin {Break, Continue}}
Controls ==
  {If(c, B, <<Expr(Name("x"))>>) : c \in Conds, B \in NoJump}
    \cup {If(Name("x"), <<Assign("x", nil), Expr(a)>>, Chain(c)) : c \in Conds}
    \cup {While(c, B) : c \in Conds, B \in Blocks}
    \cup {For("i", <<a.v, b.v>>, B) : B \in Blocks}
    \cup {Match(e, <<Case(a, B), Case(Wild, <<Expr(one)>>)>>) :
            e \in Conds, B \in NoJump}
P == Assign("p", Func(<<Expr(Say(Const(Str("p")))), Expr(no)>>))
ValuePrograms ==
  {<<P, Assign("x", v), Assign("r", n), Expr(Say(Name("r"))), SayX>> :
     v \in {a, nil}, n \in Controls}
    \cup {<<P, Assign("f", Func(<<Assign("x", a), n>>)),
            Expr(Say(Call(Name("f"))))>> : n \in Controls}

(* Closures.                                                               *)
ClosureUses == {Expr(Name("x")), Expr(Call(Name("g"))), Assign("x", b),
         NilAssign("x", b), Assign("y", Name("x")),
         Assign("g", Func(<<Expr(Name("x"))>>)),
         Assign("g", Func(<<Expr(Func(<<Expr(Name("x"))>>))>>)),
         Assign("g", Func(<<Assign("x", a), Expr(Name("x"))>>))}
ClosurePrograms ==
  {<<Assign("f", Func(<<Assign("x", v), s, t, u, Expr(Func(<<SayX>>))>>)),
     Assign("k", Call(Name("f"))),
     Expr(Say(Call(Name("k"))))>> :
      v \in {a, nil}, s \in ClosureUses, t \in ClosureUses, u \in ClosureUses}

(* Names.                                                                  *)
Names ==
  {Assign("x", a), Assign("x", nil), Assign("x", one), NilAssign("x", b), SayX,
   Assign("f", Func(<<Expr(Name("x"))>>)),
   Assign("f", Func(<<Assign("x", a), Expr(Name("x"))>>)),
   Expr(Say(Call(Name("f")))),
   If(Name("x"), <<Assign("x", b)>>, <<Expr(a)>>),
   If(Const(True), <<Assign("y", a), Expr(Say(Name("y")))>>,
      <<Assign("y", b)>>),
   Expr(Say(Name("y"))),
   For("x", <<a.v>>, <<SayX>>),
   For("i", <<a.v, b.v>>, <<Assign("y", Name("i")), NilAssign("z", Name("y"))>>),
   Catch(<<Assign("x", b), Raise(err)>>, <<Assign("x", Name("e"))>>),
   Scope(<<Assign("z", a), Expr(Say(Name("z")))>>)}
Lasts == {SayX, Expr(Say(Call(Name("f")))), Expr(Say(Name("y"))),
          NilAssign("x", b), Assign("x", one)}
NamePrograms ==
  {<<s, t, u>> : s \in Names, t \in Names, u \in Names}
    \cup {<<Assign("g", Func(<<s, t, u, Expr(a)>>)), Expr(Say(Call(Name("g"))))>> :
            s \in Names, t \in Names, u \in Lasts}

FinallyPrograms ==
  {<<Helper,
     Assign("f", Func(<<Expr(Say(Const(Str("try")))), Try(A, c, "e", B, Fin)>>)),
     Expr(Call(Name("f")))>> :
       A \in Leaves, B \in Leaves, c \in {TRUE}}

(* Functions that end in ifs, which end in returns.                        *)
Tails == {<<Return(a)>>, <<Expr(b)>>, <<SayX, Return(Name("x"))>>,
          <<Assign("x", b)>>, <<If(Name("x"), <<Return(a)>>, <<>>), Expr(b)>>}
Ifs(T) == {<<If(Name("x"), A, B)>> : A \in T, B \in T \cup {<<>>}}
TailPrograms ==
  {<<Assign("f", Func(<<Assign("x", v)>> \o t)), Expr(Say(Call(Name("f"))))>> :
     v \in {a, nil}, t \in Ifs(Tails) \cup Ifs(Tails \cup Ifs({<<Return(a)>>, <<Expr(b)>>}))}

(* Layout: operators, operands that need parentheses, lines too long.      *)
long1 == Name("long1")
Some(op) == Binary(op, Name("x"), b)
Operators == {"??", "or", "==", "+", "*", "<<"}
Simple == {Name("x"), long1, Func(<<Expr(a)>>)}
  \cup {Call(Name("x")), Call(Func(<<Expr(Some("+"))>>))}
  \cup {Some(op) : op \in Operators}
  \cup {[k |-> p, e |-> e] : p \in Prefixed, e \in {Name("x"), Some("+")}}
Trees == Simple \cup {Binary(op, l, r) : op \in Operators, l \in Simple,
                     r \in Simple \cup {Name("long2")}}
  \cup {Binary(op, Binary(op, long1, l), Name("long2")) :
          op \in Operators, l \in Simple}
  \cup {Say(Binary(op, long1, Name("long2"))) : op \in Operators}
SmallDrafts ==
  {<<Assign("x", e), If(e, <<Expr(a)>>, <<If(e, <<Expr(e)>>, <<Expr(b)>>)>>),
     Assign("f", Func(<<Assign("y", e), Return(e)>>)),
     While(Name("x"), <<Expr(Say(e)), Break>>)>> : e \in Trees}
  \cup {<<Assign("x", n), NilAssign("x", n), Expr(a)>> :
          n \in Trees \cup {If(Name("x"), <<Expr(a)>>, <<Expr(b)>>)}}

(* Text that is edited.                                                    *)
SayY == Expr(Say(Name("y")))
EditStmts ==
  {Assign("y", Name("x")), SayX, SayY, Assign("x", b),
   If(Const(True), <<Assign("z", a), SayX>>, <<>>),
   If(Name("x"), <<Assign("y", b), SayY>>, <<SayX>>),
   Catch(<<Raise(err)>>, <<Assign("z", Name("e")), SayX, Expr(Call(Name("f")))>>),
   For("i", <<a.v, b.v>>, <<Expr(Say(Name("i"))), Expr(Name("x"))>>),
   Assign("f", Func(<<Assign("y", a), Assign("g", Func(<<Expr(Name("y"))>>)),
                      Expr(Call(Name("g")))>>)),
   Expr(Say(Call(Name("f"))))}
EditLasts == {SayX, SayY, Assign("x", b), Expr(Say(Call(Name("f"))))}
EditPrograms ==
  {<<Assign("x", a), s, t, u>> :
     s \in EditStmts, t \in EditStmts, u \in EditLasts}

(* Classes: a method m in a parent, a child and a grandchild; constructors *)
(* and interfaces with an initialize; two interfaces with a method m; what *)
(* a body uses.                                                            *)
M(marks, body) == Method("m", 0, marks, body)
Up == <<Super(0)>>
Ms == {{}, {M({}, <<>>)}, {M({}, Up)}, {M({"private"}, <<>>)},
       {M({"protected"}, <<>>)}, {M({"abstract"}, <<>>)}, {M({"static"}, <<>>)},
       {M({"override"}, Up)}, {Method("m", 1, {}, <<>>)},
       {M({"static", "override"}, Up)}, {M({"override", "abstract"}, <<>>)},
       {M({"static", "abstract"}, <<>>)}}
Listed(S) == SetToSeq(S)
C(name, parent, ifaces, methods) ==
  Class(name, parent, ifaces, {}, <<>>, methods)
Base(methods) ==
  Class("P", NoParent, <<>>,
        {"abstract"} \cap UNION {x.marks : x \in ToSet(methods)}, <<>>, methods)
Calls == Method("t", 0, {}, <<CallBare("m", 0)>>)
CallsOfClass == Method("s", 0, {"static"}, <<CallBare("m", 0)>>)
Overrides ==
  {<<Base(Listed(p) \o <<Calls>>), C("C", "P", <<>>, Listed(c)),
     C("D", "C", <<>>, Listed(d) \o u)>> :
     p \in Ms, c \in Ms,
     d \in {{}, {M({}, Up)}, {M({"protected"}, <<>>)}, {M({"abstract"}, <<>>)},
            {M({"static"}, <<>>)}, {Method("m", 1, {}, <<>>)}},
     u \in {<<>>, <<CallsOfClass>>}}

Ctor(n, marks, body) == <<Method("initialize", n, marks, body)>>
Ctors == {<<>>, Ctor(0, {}, <<>>), Ctor(1, {}, <<PutField("f")>>),
          Ctor(0, {"private"}, <<>>)}
Supers == {<<>>, Ctor(0, {}, Up), Ctor(1, {}, <<Super(1)>>),
           Ctor(0, {}, <<GetField("f"), Super(0)>>), Ctor(0, {}, Up \o Up),
           Ctor(2, {}, <<Super(1), PutField("f"), New("P", 1)>>)}
Bad == {Ctor(0, {}, <<>>), Ctor(0, {}, <<Nested(Up)>>),
        Ctor(0, {}, <<Returns, Super(0)>>)}
Hook(name, above, body) ==
  Interface(name, above, <<"g">>, Ctor(0, {}, body))
Hooks == {<<>>, <<Hook("I", <<>>, <<PutField("g")>>)>>,
          <<Hook("I", <<>>, <<>>), Hook("J", <<"I">>, <<PutField("f")>>)>>}
Constructions ==
  {h \o <<Class("P", NoParent, <<>>, {}, <<Field("f", fm)>>, p),
          C("C", "P", IF h = <<>> THEN <<>> ELSE <<Last(h).name>>, c),
          C("D", "C", <<>>, d)>> :
     h \in Hooks, fm \in {{}, {"private"}}, p \in Ctors,
     c \in Supers \cup Bad, d \in Supers}

Ways == {<<>>, <<M({"abstract"}, <<>>)>>, <<M({}, <<>>)>>, <<M({}, Up)>>,
         <<Method("m", 1, {}, <<>>)>>}
Given(name, above, ms) == Interface(name, above, <<>>, ms)
Stacks ==
  {ps \o <<Given("I", <<>>, i), Given("J", above, j),
           C("C", IF ps = <<>> THEN NoParent ELSE "P", list, c)>> :
     ps \in {<<>>, <<Base(<<M({}, <<>>)>>)>>, <<Base(<<M({"abstract"}, <<>>)>>)>>},
     i \in Ways, j \in Ways, above \in {<<>>, <<"I">>},
     list \in {<<"J">>, <<"I", "J">>, <<"J", "I">>, <<"J", "J">>},
     c \in {<<>>, <<M({}, Up)>>, <<Calls>>}}

Shapes ==
  {<<Class("P", pp, <<>>, marks, <<Field("f", {})>>, <<M({}, <<>>)>>),
     Class("C", cp, <<>>, {}, <<Field("f", {})>>,
           <<Method("t", 0, side, <<u>>)>>),
     Interface("I", <<>>, <<>>, <<>>)>> :
     marks \in {{}, {"abstract"}, {"final"}, {"abstract", "final"}},
     pp \in {NoParent, "C"}, cp \in {NoParent, "P", "I", "X"},
     side \in {{}, {"static"}},
     u \in {New("P", 0), New("I", 0), CallBare("m", 0), CallBare("t", 0),
            PutField("f"), GetField("f")}}
  \cup
  {<<Class("P", NoParent, is, {}, <<>>, <<M({}, <<>>)>>),
     C("C", "P", <<>>, <<>>),
     Interface("I", <<ip>>, <<>>, <<M({"abstract"}, <<>>)>>),
     Interface("J", <<>>, <<"f">>, <<M({}, <<>>)>>)>> :
     ip \in {"I", "J", "X"}, is \in {<<>>, <<"J">>, <<"I">>}}

SmallDeclarations == Overrides \cup Constructions \cup Stacks \cup Shapes

(* Declarations as text: a method with names that a parameter, a variable  *)
(* of a block, a function, a parent or a subclass may have too.            *)
MemberAlphabet ==
  <<"MAX", "TOP", "d", "f", "g", "initialize", "long1", "long2", "m", "s", "t">>
MemberCapitals == {"MAX", "TOP"}
V(f, marks) == Valued(f, marks, Lit)
Outline(name, parent, consts, statics, fields, methods) ==
  Full(Class(name, parent, <<>>, {}, fields, methods), consts, statics)
Meant ==
  {GetField("f"), ReadName("f"), CallBare("m", 0), CallOn("self", "m", 0),
   CallOn("Self", "m", 0), CallOn("C", "m", 0), CallOn("P", "m", 0),
   MemberOf("Self", "MAX"), MemberOf("C", "MAX"), ReadName("MAX"),
   MemberOf("C", "s"), MemberOf("Self", "s")}
Before == {Lit, Bind("f"), Bind("m"), PutField("f"), ScopeBlock(<<Bind("f")>>),
           Nested(<<Bind("f")>>), Nested(<<GetField("f")>>), Super(0)}
TakesOf(params, bodies) == {Takes("t", params, {}, body) : body \in bodies}
Inside ==
  TakesOf(<<"f">>, {<<u>> : u \in Meant})
    \cup TakesOf(<<"g">>, {<<u, v>> : u \in Before, v \in Meant})
Parents ==
  {Outline("P", NoParent, <<V("MAX", {})>>, <<V("s", {})>>, <<>>, <<>>),
   Outline("P", NoParent, <<>>, <<V("s", {})>>, <<>>,
           <<Takes("m", <<>>, {"static"}, <<Lit>>)>>)}
Resolutions ==
  {top \o <<p,
           Outline("C", "P", IF p.consts = <<>> THEN <<V("MAX", {})>> ELSE <<>>,
                   <<V("s", {})>>, <<V("f", {})>>,
                   m \o <<[t EXCEPT !.marks = side]>>),
           Outline("D", "C", <<>>, <<V(below, {})>>, <<>>, <<>>)>> :
     top \in {<<>>, <<FunctionDecl("m")>>}, p \in Parents,
     m \in {<<>>, <<Takes("m", <<>>, {}, <<Lit>>)>>},
     below \in {"s", "d"}, side \in {{}, {"static"}}, t \in Inside}

(* Every head and order of members.                                        *)
Marks == {{}, {"private"}, {"protected"}, {"static"}, {"override"}, {"abstract"},
          {"private", "static", "override"}, {"protected", "static"},
          {"static", "abstract"}}
Parameters == {<<>>, <<"f">>, <<"long1", "long2">>}
Heads == {<<NoParent, <<>>, {}>>, <<"P", <<>>, {"final"}>>,
          <<"P", <<"I", "J">>, {"abstract"}>>}
OrderedClasses ==
  {<<Full(Class("C", h[1], h[2], h[3], <<V("g", {"private"}), V("f", {})>>,
                <<Takes("m", params, marks, <<Super(0), Lit>>),
                  Takes(n, <<>>, others, <<Lit>>)>>),
          <<V("TOP", {}), V("MAX", private)>>,
          <<V("s", private), V("MAX", {})>>)>> :
     h \in Heads, params \in Parameters, marks \in Marks,
     n \in {"initialize", "g"},
     others \in {{}, {"private"}, {"static"}}, private \in {{}, {"private"}}}
OtherForms ==
  {<<Interface("I", above, fields,
               <<Takes("m", params, {"abstract"}, <<>>),
                 Takes("g", params, {}, body)>>)>> :
     above \in {<<>>, <<"A">>, <<"A", "B">>}, fields \in {<<>>, <<"g", "f">>},
     params \in Parameters, body \in {<<Lit>>, <<Lit, Returns>>}}
    \cup {<<Interface("I", <<"A">>, <<>>, <<>>)>>}
    \cup {<<Struct("S", record, <<Slot("f", FALSE), Slot("g", two)>>),
             FunctionDecl("m")>> :
             record \in BOOLEAN, two \in BOOLEAN}

SmallOutlines == Resolutions \cup OrderedClasses \cup OtherForms

SmallPrograms ==
  TryPrograms \cup ValuePrograms \cup ClosurePrograms \cup NamePrograms
    \cup TailPrograms \cup EditPrograms
=============================================================================
