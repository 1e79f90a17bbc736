----------------------------- MODULE ClassText -----------------------------
(***************************************************************************)
(* The text of declarations: how the parser reads classes, interfaces,     *)
(* structs and functions (parser.go) and how the formatter writes them     *)
(* (unparse.go), with the members of a class in an order of its own and    *)
(* self, Self and the name of the class left out where it may; and what    *)
(* the names in a method mean to the checker and the code generator.       *)
(*                                                                         *)
(* A value is a literal or a member of a class; methods have the names of  *)
(* their parameters beside their number.                                   *)
(***************************************************************************)
EXTENDS Classes, Parser
LOCAL INSTANCE SequencesExt
LOCAL INSTANCE FiniteSetsExt

CONSTANTS Alphabet,    \* the names of members, in the order of strings
          Capitals     \* those that are constants' names

FunctionDecl(name) == [k |-> "function", name |-> name]
Struct(name, record, fields) ==
  [k |-> "struct", name |-> name, record |-> record, fields |-> fields]
Slot(f, default) == [f |-> f, default |-> default]
Full(class, consts, statics) == class @@ [consts |-> consts, statics |-> statics]
Valued(f, marks, value) == [f |-> f, marks |-> marks, value |-> value]
Takes(m, params, marks, body) ==
  Method(m, Len(params), marks, body) @@ [params |-> params]

Lit == [k |-> "lit"]
MemberOf(on, f) == [k |-> "of", on |-> on, f |-> f]             \* C.f, Self.f
CallOn(on, m, n) == [k |-> "call", on |-> on, m |-> m, n |-> n]
ReadName(f) == [k |-> "read", f |-> f]
Bind(x) == [k |-> "let", x |-> x]                         \* x = ...
ScopeBlock(body) == [k |-> "scope", body |-> body]        \* scope ... body
Bodied == {"nested", "scope"}

(* All that a body uses, the blocks in it and those in them.               *)
RECURSIVE InnerUses(_)
InnerUses(body) ==
  ToSet(body) \cup UNION {InnerUses(u.body) : u \in {u \in ToSet(body) : u.k \in Bodied}}

Word(s) == NameTok(s)
Words(ss) == [i \in DOMAIN ss |-> Word(ss[i])]
Commas(ss) == Joined(Words(ss), Sym(","))
LitTok == [t |-> "number", s |-> "1"]
Args(n) == Parens(Joined(Repeat(LitTok, n), Sym(",")))

---------------------------------------------------------------------------
(* The formatter.  c: the class a body is in, its own fields, whether the  *)
(* method is static, and the names that shadow fields in it.               *)

Outside == [class |-> "", fields |-> {}, static |-> FALSE, shadows |-> {}]

(* bareSameClassCallName, bareSameClassConstantName                        *)
BareCall(u, c) ==
  \/ u.on = "self" /\ c.class # "" /\ ~c.static
  \/ u.on \in {"Self", c.class} \ {""}
BareConstant(u, c) == u.f \in Capitals /\ u.on \in {"Self", c.class} \ {""}

\* Mutant of BareField: what shadows a field is not looked at.
BareFieldAlways(u, c) == ~c.static /\ u.f \in c.fields

(* bareSameClassFieldName                                                  *)
BareField(u, c) == ~c.static /\ u.f \in c.fields \ c.shadows

UseToks(u, c) ==
  CASE u.k = "lit" -> <<LitTok>>
    [] u.k = "super" -> <<Word("super")>> \o Args(u.n)
    [] u.k = "bare" -> <<Word(u.m)>> \o Args(u.n)
    [] u.k = "call" ->
         (IF BareCall(u, c) THEN <<>> ELSE <<Word(u.on), Sym(".")>>)
           \o <<Word(u.m)>> \o Args(u.n)
    [] u.k = "get" ->
         (IF BareField(u, c) THEN <<>> ELSE <<Word("self"), Sym(".")>>)
           \o <<Word(u.f)>>
    [] u.k = "of" ->
         (IF BareConstant(u, c) THEN <<>>
          ELSE <<Word(IF u.on = c.class THEN "Self" ELSE u.on), Sym(".")>>)
           \o <<Word(u.f)>>
    [] u.k = "read" -> <<Word(u.f)>>
    [] u.k = "put" -> <<Word("self"), Sym("."), Word(u.f), Sym("="), LitTok>>
    [] u.k = "let" -> <<Word(u.x), Sym("="), LitTok>>
    [] u.k = "leave" -> Syms("return")

RECURSIVE UseLines(_, _, _)
UseLines(body, ind, c) ==
  FlattenSeq([i \in DOMAIN body |->
    LET u == body[i]
    IN  IF u.k \in Bodied
        THEN <<Line(ind, IF u.k = "scope" THEN Syms("scope")
                         ELSE Syms("if") \o <<LitTok>>)>>
               \o UseLines(u.body, ind + 1, c)
        ELSE <<Line(ind, UseToks(u, c))>>])

(* fieldReadShadowNames: parameters and what is assigned, in blocks too    *)
(* but those of scope.                                                     *)
ShadowNames(x) ==
  ToSet(x.params) \cup {u.x : u \in {u \in Uses(x.body) : u.k = "let"}}

MarkOrder == <<"private", "protected", "static", "abstract", "override">>
MarkToks(marks) == Words(SelectSeq(MarkOrder, LAMBDA w : w \in marks))

(* funcDefHead, defArrow                                                   *)
HeadToks(params) == Commas(params) \o Syms("->")

IsExpression(u) == u.k \notin Bodied \cup {"put", "let", "leave"}
FunctionLines(head, body, ind, c) ==
  IF Len(body) = 1 /\ IsExpression(body[1])
       /\ FitsInline(head \o UseToks(body[1], c))
  THEN <<Line(ind, head \o UseToks(body[1], c))>>
  ELSE <<Line(ind, head)>> \o UseLines(body, ind + 1, c)

(* classMethod                                                             *)
MethodLines(x, ind, c) ==
  FunctionLines(MarkToks(x.marks) \o <<Word(x.m), Sym(":")>> \o HeadToks(x.params),
                IF Abstract(x) THEN <<>> ELSE x.body, ind,
                [c EXCEPT !.static = "static" \in x.marks,
                          !.shadows = ShadowNames(x)])
ValueLine(marks, x, ind, c) ==
  Line(ind, MarkToks(marks) \o <<Word(x.f), Sym(":")>> \o UseToks(x.value, c))

(* classMethodRank, and the ranks before it.                               *)
MethodRank(x) ==
  LET Shown == IF "private" \in x.marks THEN 2
               ELSE IF "protected" \in x.marks THEN 1 ELSE 0
  IN  IF "static" \in x.marks THEN 6 + Shown
      ELSE IF x.m = "initialize" THEN 9 ELSE 10 + Shown
ValueRank(x, first) == first + (IF "private" \in x.marks THEN 1 ELSE 0)

(* canonicalClassMembers: by rank, then name, then place.                  *)
PlaceOf(name) == SelectInSeq(Alphabet, LAMBDA x : x = name)
SortSeqBy(members, order) == [i \in DOMAIN members |-> members[order[i]]]
InOrder(members, Rank(_), NameOf(_)) ==
  LET Place(n) == <<Rank(members[n]), PlaceOf(NameOf(members[n])), n>>
      Before(i, j) ==
        \E p \in 1..3 : /\ Place(i)[p] < Place(j)[p]
                       /\ \A q \in 1..(p - 1) : Place(i)[q] = Place(j)[q]
  IN  SortSeqBy(members, SetToSortSeq(DOMAIN members, Before))
SortedValues(xs, first) ==
  InOrder(xs, LAMBDA x : ValueRank(x, first), LAMBDA x : x.f)
SortedMethods(xs) == InOrder(xs, MethodRank, LAMBDA x : x.m)
CanonicalClass(d) ==
  [d EXCEPT !.consts = SortedValues(@, 0), !.statics = SortedValues(@, 2),
            !.fields = SortedValues(@, 4), !.methods = SortedMethods(@)]

(* The members of a class are written in this order, and each list of the  *)
(* tree has the ranks of its own.                                          *)
ClassHead(d) ==
  Words(SelectSeq(<<"final", "abstract">>, LAMBDA w : w \in d.marks))
    \o Words(<<"class", d.name>>)
    \o (IF d.parent = NoParent THEN <<>> ELSE Words(<<"extends", d.parent>>))
    \o (IF d.ifaces = <<>> THEN <<>>
        ELSE <<Word("implements")>> \o Commas(d.ifaces))
ClassLines(d) ==
  LET c == [Outside EXCEPT !.class = d.name,
                           !.fields = {x.f : x \in ToSet(d.fields)}]
      Values(xs, marks) ==
        [i \in DOMAIN xs |-> ValueLine(xs[i].marks \cup marks, xs[i], 1, c)]
  IN  <<Line(0, ClassHead(d))>>
        \o Values(d.consts, {}) \o Values(d.statics, {"static"})
        \o Values(d.fields, {})
        \o FlattenSeq([i \in DOMAIN d.methods |-> MethodLines(d.methods[i], 1, c)])

InterfaceLines(d) ==
  <<Line(0, Words(<<"interface", d.name>>)
              \o (IF d.parents = <<>> THEN <<>>
                  ELSE <<Word("extends")>> \o Commas(d.parents)))>>
    \o [i \in DOMAIN d.fields |->
          Line(1, <<Word(d.fields[i]), Sym(":"), LitTok>>)]
    \o FlattenSeq([i \in DOMAIN d.methods |->
          FunctionLines(<<Word(d.methods[i].m), Sym(":")>>
                          \o HeadToks(d.methods[i].params),
                        IF Abstract(d.methods[i]) THEN <<>> ELSE d.methods[i].body,
                        1, Outside)])

StructLines(d) ==
  <<Line(0, Words(<<IF d.record THEN "record" ELSE "struct", d.name>>))>>
    \o [i \in DOMAIN d.fields |->
          Line(1, <<Word(d.fields[i].f)>>
                    \o (IF d.fields[i].default THEN <<Sym(":"), LitTok>>
                        ELSE <<>>))]

DeclLines(d) ==
  CASE d.k = "class" -> ClassLines(CanonicalClass(d))
    [] d.k = "interface" -> InterfaceLines(d)
    [] d.k = "struct" -> StructLines(d)
    [] d.k = "function" -> <<Line(0, <<Word(d.name), Sym("="), Sym("->"), LitTok>>)>>
UnparseDecls(decls) == FlattenSeq([i \in DOMAIN decls |-> DeclLines(decls[i])])

---------------------------------------------------------------------------
(* The parser.                                                             *)

IsWord(ts, i, S) == ts[i].t = "name" /\ ts[i].s \in S
NoName == {"class", "interface", "self", "Self"}    \* rejectReservedName
IsName(ts, i) == ts[i].t = "name" /\ ts[i].s \notin NoName
BlockAhead(ts, i) == ts[i] = NewLine /\ ts[i + 1] = Indent

(* The number of arguments between parentheses.                            *)
ArgsFrom(ts, i) ==
  LET close == CHOOSE j \in i..Len(ts) :
                 At(ts, j, ")") /\ \A k \in i..(j - 1) : ~At(ts, k, ")")
  IN  Got((close - i) \div 2, close + 1)

(* A name or a member of one, called or assigned to or neither.            *)
CallFromArgs(s, f, dotted, r) ==
  Got(IF dotted THEN CallOn(s, f, r.n)
      ELSE IF s = "super" THEN Super(r.n) ELSE CallBare(s, r.n), r.i)
PutOrBind(s, f, dotted) == IF dotted THEN PutField(f) ELSE Bind(s)
ReadOf(s, f, dotted) ==
  IF ~dotted THEN ReadName(s)
  ELSE IF s = "self" THEN GetField(f) ELSE MemberOf(s, f)
NameFrom(ts, i, j, dotted) ==
  CASE At(ts, j, "(") ->
         CallFromArgs(ts[i].s, ts[j - 1].s, dotted, ArgsFrom(ts, j + 1))
    [] At(ts, j, "=") -> Got(PutOrBind(ts[i].s, ts[j - 1].s, dotted), j + 2)
    [] OTHER -> Got(ReadOf(ts[i].s, ts[j - 1].s, dotted), j)
UseFrom(ts, i) ==
  CASE At(ts, i, "return") -> Got(Returns, i + 1)
    [] ts[i].t = "number" -> Got(Lit, i + 1)
    [] ts[i].t = "name" /\ At(ts, i + 1, ".") -> NameFrom(ts, i, i + 3, TRUE)
    [] ts[i].t = "name" /\ ~At(ts, i + 1, ".") -> NameFrom(ts, i, i + 1, FALSE)
    [] OTHER -> Fail

RECURSIVE UsesFrom(_, _, _)
UsesFrom(ts, i, body) ==
  LET InBlock(open, Node(_)) ==
        IF ~BlockAhead(ts, open) THEN Fail
        ELSE AndThen(UsesFrom(ts, open + 2, <<>>), LAMBDA r :
               Got(Node(r.n), r.i + 1))
      use == IF At(ts, i, "if") THEN InBlock(i + 2, Nested)
             ELSE IF At(ts, i, "scope") THEN InBlock(i + 1, ScopeBlock)
             ELSE UseFrom(ts, i)
  IN  IF ts[i] = Dedent THEN Got(body, i)
      ELSE AndThen(use, LAMBDA r :
             UsesFrom(ts, SkipNewlines(ts, r.i), Append(body, r.n)))

(* startsFunctionParams, startsInterfaceMethodValue; functionParams.       *)
RECURSIVE ParamsFrom(_, _, _)
ParamsFrom(ts, i, params) ==
  CASE At(ts, i, "->") -> Got(params, i + 1)
    [] IsName(ts, i) /\ At(ts, i + 1, ",") ->
         ParamsFrom(ts, i + 2, Append(params, ts[i].s))
    [] IsName(ts, i) /\ At(ts, i + 1, "->") ->
         Got(Append(params, ts[i].s), i + 2)
    [] OTHER -> Fail

(* finishFunc                                                              *)
BodyFrom(ts, i) ==
  IF BlockAhead(ts, i)
  THEN AndThen(UsesFrom(ts, i + 2, <<>>), LAMBDA r : Got(r.n, r.i + 1))
  ELSE AndThen(UseFrom(ts, i), LAMBDA r : Got(<<r.n>>, r.i))

(* The parts of a head: marks in their order; the names after a word.      *)
MarksFrom(ts, i, order) ==
  FoldLeft(LAMBDA r, S : IF IsWord(ts, r.i, S)
                         THEN Got(r.n \cup {ts[r.i].s}, r.i + 1) ELSE r,
           Got({}, i), order)
RECURSIVE NamesFrom(_, _, _)
NamesFrom(ts, i, names) ==
  CASE ~IsName(ts, i) -> Fail
    [] IsName(ts, i) /\ At(ts, i + 1, ",") ->
         NamesFrom(ts, i + 2, Append(names, ts[i].s))
    [] OTHER -> Got(Append(names, ts[i].s), i + 1)
NamesAfter(ts, i, S) ==
  IF IsWord(ts, i, S) THEN NamesFrom(ts, i + 1, <<>>) ELSE Got(<<>>, i)

MemberMarks == <<{"private", "protected"}, {"static"}, {"abstract"}, {"override"}>>
ClassMarks == <<{"abstract", "final"}, {"abstract", "final"}>>

Refused == [k |-> "refused"]
(* A member, by its marks and its value.                                   *)
WithValue(d, m, marks, value) ==
  LET x == Valued(m, marks \cap {"private"}, value)
  IN  CASE marks \cap {"override", "protected"} # {} -> Refused
        [] "static" \in marks -> [d EXCEPT !.statics = Append(@, x)]
        [] marks \subseteq {"private"} /\ m \in Capitals ->
             [d EXCEPT !.consts = Append(@, x)]
        [] OTHER -> [d EXCEPT !.fields = Append(@, x)]
WithMethod(d, m, params, marks, body) ==
  IF "protected" \in marks /\ (m = "initialize" \/ "abstract" \in marks)
  THEN Refused
  ELSE [d EXCEPT !.methods = Append(@, Takes(m, params, marks, body))]

(* What is added, and where the text goes on.                              *)
Added(d, i) == IF d = Refused THEN Fail ELSE Got(d, i)
AbstractFrom(d, m, marks, params, ts) ==
  IF params.i = 0 \/ StartsExpr(ts[params.i]) \/ BlockAhead(ts, params.i)
  THEN Fail
  ELSE Added(WithMethod(d, m, params.n, marks, <<>>), params.i)
MethodFrom(d, m, marks, params, ts) ==
  AndThen(BodyFrom(ts, params.i), LAMBDA r :
    Added(WithMethod(d, m, params.n, marks, r.n), r.i))
MemberAfter(d, m, marks, params, ts, i) ==
  CASE "abstract" \in marks -> AbstractFrom(d, m, marks, params, ts)
    [] "abstract" \notin marks /\ params.i # 0 ->
         MethodFrom(d, m, marks, params, ts)
    [] OTHER -> AndThen(UseFrom(ts, i), LAMBDA r :
                  Added(WithValue(d, m, marks, r.n), r.i))
MemberFrom(d, ts, head) ==
  IF \/ {"abstract", "override"} \subseteq head.n
     \/ ~IsName(ts, head.i) \/ ~At(ts, head.i + 1, ":")
  THEN Fail
  ELSE MemberAfter(d, ts[head.i].s, head.n, ParamsFrom(ts, head.i + 2, <<>>),
                   ts, head.i + 2)

(* interfaceDecl: a method without a body is one it demands.               *)
DemandFrom(d, m, params, ts) ==
  IF StartsExpr(ts[params.i]) \/ BlockAhead(ts, params.i)
  THEN MethodFrom(d, m, {}, params, ts)
  ELSE Added(WithMethod(d, m, params.n, {"abstract"}, <<>>), params.i)
InterfaceMember(d, m, params, ts, i) ==
  IF params.i # 0 THEN DemandFrom(d, m, params, ts)
  ELSE AndThen(UseFrom(ts, i), LAMBDA r :
         Got([d EXCEPT !.fields = Append(@, m)], r.i))

StructMember(d, ts, i) ==
  IF At(ts, i + 1, ":")
  THEN Got([d EXCEPT !.fields = Append(@, Slot(ts[i].s, TRUE))], i + 3)
  ELSE IF ts[i + 1] = NewLine /\ \A x \in ToSet(d.fields) : ~x.default
  THEN Got([d EXCEPT !.fields = Append(@, Slot(ts[i].s, FALSE))], i + 1)
  ELSE Fail

NextMember(d, ts, i) ==
  CASE d.k = "class" -> MemberFrom(d, ts, MarksFrom(ts, i, MemberMarks))
    [] d.k = "interface" /\ IsName(ts, i) /\ At(ts, i + 1, ":") ->
         InterfaceMember(d, ts[i].s, ParamsFrom(ts, i + 2, <<>>), ts, i + 2)
    [] d.k = "struct" /\ IsName(ts, i)
         /\ ~\E S \in ToSet(MemberMarks) : IsWord(ts, i, S) -> StructMember(d, ts, i)
    [] OTHER -> Fail
RECURSIVE MembersFrom(_, _, _)
MembersFrom(d, ts, i) ==
  IF ts[i] = Dedent THEN Got(d, i + 1)
  ELSE AndThen(NextMember(d, ts, i), LAMBDA r :
         MembersFrom(r.n, ts, SkipNewlines(ts, r.i)))

(* An interface may have nothing but those it extends.                     *)
BodyOf(d, ts, i) ==
  CASE BlockAhead(ts, i) -> MembersFrom(d, ts, i + 2)
    [] ~BlockAhead(ts, i) /\ d.k = "interface" /\ ts[i] = NewLine ->
         IF d.parents # <<>> THEN Got(d, i + 1) ELSE Fail
    [] OTHER -> Fail

Declared(name, marks, parent, ifaces) ==
  Full(Class(name, IF parent = <<>> THEN NoParent ELSE parent[1], ifaces, marks,
             <<>>, <<>>), <<>>, <<>>)
ClassAfterName(ts, name, marks, parent) ==
  AndThen(parent, LAMBDA p :
    IF Len(p.n) > 1 THEN Fail
    ELSE AndThen(NamesAfter(ts, p.i, {"implements"}), LAMBDA is :
      BodyOf(Declared(name, marks, p.n, is.n), ts, is.i)))
ClassFrom(ts, head) ==
  IF IsWord(ts, head.i, {"class"}) /\ IsName(ts, head.i + 1)
  THEN ClassAfterName(ts, ts[head.i + 1].s, head.n,
                      NamesAfter(ts, head.i + 2, {"extends"}))
  ELSE Fail
InterfaceFrom(ts, i) ==
  AndThen(NamesAfter(ts, i + 2, {"extends", "implements"}), LAMBDA ps :
    BodyOf(Interface(ts[i + 1].s, ps.n, <<>>, <<>>), ts, ps.i))

DeclFrom(ts, i) ==
  CASE IsWord(ts, i, {"interface"}) -> InterfaceFrom(ts, i)
    [] IsWord(ts, i, {"struct", "record"}) ->
         BodyOf(Struct(ts[i + 1].s, ts[i].s = "record", <<>>), ts, i + 2)
    [] IsName(ts, i) /\ At(ts, i + 1, "=") /\ At(ts, i + 2, "->") ->
         Got(FunctionDecl(ts[i].s), i + 4)
    [] OTHER -> ClassFrom(ts, MarksFrom(ts, i, ClassMarks))
RECURSIVE DeclsFrom(_, _, _)
DeclsFrom(ts, i, decls) ==
  IF ts[i] = Eof THEN Got(decls, i)
  ELSE AndThen(DeclFrom(ts, i), LAMBDA r :
         DeclsFrom(ts, SkipNewlines(ts, r.i), Append(decls, r.n)))
ParseDecls(ts) ==
  LET r == DeclsFrom(ts, SkipNewlines(ts, 1), <<>>)
  IN  IF r.i = 0 THEN NoProgram ELSE r.n

---------------------------------------------------------------------------
(* What a use means, when an object of the class d, or d itself, runs the  *)
(* body of a method of the class w.c (Where): a field or a method of self, *)
(* a member of a class by the class that has it, a name.                   *)

Globals(decls) ==
  {"print"} \cup {d.name : d \in ToSet(decls)}
StaticsOf(d) ==
  {x.f : x \in ToSet(d.statics) \cup ToSet(d.consts)}
    \cup {x.m : x \in {x \in ToSet(d.methods) : Key(x)[1] = "class"}}
HavingStatic(f, decls) ==
  {d.name : d \in {d \in Named(decls, "class") : f \in StaticsOf(d)}}

Missing == <<"missing">>
(* The members of a class are looked up from the class that is asked.      *)
StaticMeaning(f, from, at) ==
  <<"static", f,
    NearestOf(Ancestry(from, at.env.classes), HavingStatic(f, at.decls))>>

(* checkExpr and expr of an identifier; a constant of the class comes      *)
(* before what else has the name (codegen).                                *)
NameMeaning(x, bound, at) ==
  CASE x \in at.consts -> StaticMeaning(x, at.d, at)
    [] x \in (bound \cup at.globals) \ at.consts -> <<"name", x>>
    [] x \notin bound \cup at.globals \cup at.consts
         /\ at.w.side = "instance" /\ EffectiveField(x, at.w.c, at.env.classes)
         /\ ~HiddenAbove(x, at.w.c, at.env.classes) -> <<"self", x>>
    [] OTHER -> Missing

(* checkExpr of a call without a receiver.                                 *)
CallMeaning(m, n, bound, at) ==
  LET own == EffectiveMethodArity(at.w.c, m, at.env)
      static == EffectiveClassMethodArity(at.w.c, m, at.env.classes)
  IN  CASE m \in bound \cup at.globals -> <<"name", m>>
        [] m \notin bound \cup at.globals /\ at.w.side = "instance" /\ own # {} ->
             IF own = {n} THEN <<"self", m>> ELSE Missing
        [] m \notin bound \cup at.globals
             /\ (at.w.side = "instance" => own = {}) /\ static # {} ->
             IF static = {n} THEN StaticMeaning(m, at.d, at) ELSE Missing
        [] OTHER -> NameMeaning(m, bound, at)

Meaning(u, bound, at) ==
  LET Asked(on) == IF on = "Self" THEN at.d ELSE on
  IN  CASE u.k = "get" -> <<"self", u.f>>
        [] u.k = "read" -> NameMeaning(u.f, bound, at)
        [] u.k = "bare" -> CallMeaning(u.m, u.n, bound, at)
        [] u.k = "call" /\ u.on = "self" -> <<"self", u.m>>
        [] u.k = "call" /\ u.on # "self" -> StaticMeaning(u.m, Asked(u.on), at)
        [] u.k = "of" -> StaticMeaning(u.f, Asked(u.on), at)
        [] OTHER -> <<u.k>>

(* Of a body, statement by statement; what a block binds it binds for      *)
(* itself.                                                                 *)
RECURSIVE Meanings(_, _, _)
Meanings(body, bound, at) ==
  IF body = <<>> THEN <<>>
  ELSE LET u == Head(body)
       IN  (IF u.k \in Bodied THEN Meanings(u.body, bound, at)
            ELSE <<Meaning(u, bound, at)>>)
             \o Meanings(Tail(body),
                         IF u.k = "let" THEN bound \cup {u.x} ELSE bound, at)
Context(decls, c) ==
  [decls |-> decls, env |-> Predeclared(decls), globals |-> Globals(decls),
   consts |-> {x.f : x \in ToSet(c.consts)}]
MethodMeaning(x, c, d, context) ==
  Meanings(x.body, ToSet(x.params), context @@ [w |-> Where(c, x), d |-> d])
=============================================================================
