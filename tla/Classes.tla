------------------------------ MODULE Classes ------------------------------
(***************************************************************************)
(* The declarations of classes and interfaces, and the rules of the        *)
(* checker about them (src/internal/checker/checker.go).                   *)
(*                                                                         *)
(* A method is its name, the number of its parameters, its modifiers and   *)
(* the uses in its body that the rules speak of, one a statement; the      *)
(* statements of a nested block are one of them.  A key is a side          *)
(* ("instance" or "class") and a name.                                     *)
(***************************************************************************)
EXTENDS Naturals, Sequences, TLC
LOCAL INSTANCE SequencesExt

Class(name, parent, ifaces, marks, fields, methods) ==
  [k |-> "class", name |-> name, parent |-> parent, ifaces |-> ifaces,
   marks |-> marks, fields |-> fields, methods |-> methods]
Interface(name, parents, fields, methods) ==
  [k |-> "interface", name |-> name, parents |-> parents, fields |-> fields,
   methods |-> methods]
Method(m, arity, marks, body) ==
  [m |-> m, arity |-> arity, marks |-> marks, body |-> body]
Field(f, marks) == [f |-> f, marks |-> marks]
NoParent == ""

Super(n) == [k |-> "super", n |-> n]                      \* super(...)
GetField(f) == [k |-> "get", f |-> f]                     \* self.f
PutField(f) == [k |-> "put", f |-> f]                     \* self.f = ...
CallBare(m, n) == [k |-> "bare", m |-> m, n |-> n]        \* m(...)
New(c, n) == [k |-> "new", c |-> c, n |-> n]              \* C(...)
Returns == [k |-> "leave"]                                \* return
Nested(body) == [k |-> "nested", body |-> body]           \* if ... body

(* Statements of the body itself, and with those of the blocks in it.      *)
Uses(body) ==
  ToSet(body) \cup
    UNION {ToSet(u.body) : u \in {u \in ToSet(body) : u.k = "nested"}}

(* funcCallsSuper: blocks are not entered.                                 *)
CallsSuper(body) == \E u \in ToSet(body) : u.k = "super"

Key(x) == <<IF "static" \in x.marks THEN "class" ELSE "instance", x.m>>
InitKey == <<"instance", "initialize">>
Abstract(x) == "abstract" \in x.marks
Concrete(d) == {x \in ToSet(d.methods) : ~Abstract(x)}
HasOwn(d, m) == \E x \in ToSet(d.methods) : Key(x) = <<"instance", m>>

Arities(methods) ==
  [key \in {Key(x) : x \in methods} |->
     (CHOOSE x \in methods : Key(x) = key).arity]
Marked(methods, mark) == {Key(x) : x \in {x \in methods : mark \in x.marks}}

---------------------------------------------------------------------------
(* What is declared ahead: a class's methods and those it only demands,    *)
(* and what interfaces add once it has been checked.                       *)

ClassInfo(d) ==
  [parent |-> d.parent,
   abstract |-> "abstract" \in d.marks,
   final |-> "final" \in d.marks,
   methods |-> Arities(Concrete(d)),
   needs |-> Arities(ToSet(d.methods) \ Concrete(d)),
   private |-> Marked(Concrete(d), "private"),
   protected |-> Marked(Concrete(d), "protected"),
   fields |-> {x.f : x \in ToSet(d.fields)},
   hidden |-> {x.f : x \in {x \in ToSet(d.fields) : "private" \in x.marks}},
   owed |-> <<>>]

InterfaceInfo(d) ==
  LET Of(methods) == [m \in {x.m : x \in methods} |->
                        (CHOOSE x \in methods : x.m = m).arity]
      defaults == {x \in Concrete(d) : x.m # "initialize"}
  IN  [parents |-> d.parents,
       needs |-> Of(ToSet(d.methods) \ Concrete(d)),
       defaults |-> Of(defaults),
       supers |-> {x.m : x \in {x \in defaults : CallsSuper(x.body)}},
       fields |-> ToSet(d.fields),
       init |-> \E x \in Concrete(d) : x.m = "initialize"]

NothingDeclared == [classes |-> <<>>, ifaces |-> <<>>]
Named(decls, k) == {d \in ToSet(decls) : d.k = k}
Predeclared(decls) ==
  [classes |-> [c \in {d.name : d \in Named(decls, "class")} |->
     ClassInfo(CHOOSE d \in Named(decls, "class") : d.name = c)],
   ifaces |-> [c \in {d.name : d \in Named(decls, "interface")} |->
     InterfaceInfo(CHOOSE d \in Named(decls, "interface") : d.name = c)]]

---------------------------------------------------------------------------
(* Lookups.  A set is empty or holds what was found.                       *)

(* A class and those above it, up to one that is unknown or met before.    *)
RECURSIVE AncestryFrom(_, _, _)
AncestryFrom(c, below, cs) ==
  IF c \notin DOMAIN cs \ below THEN <<>>
  ELSE <<c>> \o AncestryFrom(cs[c].parent, below \cup {c}, cs)
Ancestry(c, cs) == AncestryFrom(c, {}, cs)

(* hasInheritanceCycle                                                     *)
InCycle(c, cs) ==
  \E line \in {Ancestry(c, cs)} : cs[Last(line)].parent \in ToSet(line)

(* The first of the class and those above it that is in S.                 *)
NearestOf(line, S) ==
  {line[i] : i \in {i \in DOMAIN line :
                      line[i] \in S /\ \A j \in 1..(i - 1) : line[j] \notin S}}
NearestIn(S, c, cs) == NearestOf(Ancestry(c, cs), S)
Declaring(key, cs) == {d \in DOMAIN cs : key \in DOMAIN cs[d].methods}

InheritedArity(c, key, cs) ==
  {cs[d].methods[key] :
     d \in NearestIn({d \in Declaring(key, cs) : key \notin cs[d].private}, c, cs)}

InheritedInit(c, cs) == InheritedArity(c, InitKey, cs)

(* Demanded above, and not given below where it is demanded.               *)
InheritedNeed(c, key, cs) ==
  LET given == Declaring(key, cs)
      needing == {d \in DOMAIN cs : key \in DOMAIN cs[d].needs}
  IN  {cs[d].needs[key] : d \in NearestIn(given \cup needing, c, cs) \ given}

(* inheritedMethodVisibility                                               *)
Visibility(c, key, cs) ==
  {CASE key \in cs[d].private -> "private"
     [] key \in cs[d].protected -> "protected"
     [] OTHER -> "public" : d \in NearestIn(Declaring(key, cs), c, cs)}

InterfaceMethodArity(i, m) ==
  IF m \in DOMAIN i.needs THEN {i.needs[m]}
  ELSE IF m \in DOMAIN i.defaults THEN {i.defaults[m]} ELSE {}
ObjectMethodArity(c, key, cs) ==
  {cs[d].methods[key] : d \in NearestIn(Declaring(key, cs), c, cs)}
EffectiveMethodArity(c, m, env) ==
  IF c \in DOMAIN env.ifaces THEN InterfaceMethodArity(env.ifaces[c], m)
  ELSE ObjectMethodArity(c, <<"instance", m>>, env.classes)

ClassMethodArity(c, key, cs) ==
  IF c \notin DOMAIN cs THEN {}
  ELSE IF key \in DOMAIN cs[c].methods THEN {cs[c].methods[key]}
  ELSE InheritedArity(cs[c].parent, key, cs)
EffectiveClassMethodArity(c, m, cs) == ClassMethodArity(c, <<"class", m>>, cs)

EffectiveInit(c, cs) == ClassMethodArity(c, InitKey, cs)

EffectiveField(f, c, cs) == \E d \in ToSet(Ancestry(c, cs)) : f \in cs[d].fields

(* effectiveAbstractRequirements                                           *)
Unmet(c, cs) ==
  LET keys == UNION {DOMAIN cs[d].needs : d \in ToSet(Ancestry(c, cs))}
  IN  {key \in keys : InheritedNeed(c, key, cs) # {}}

(* checkPrivateInstanceAccess: what the class has itself it may name.      *)
HiddenAbove(f, c, cs) ==
  LET Hides(d) == f \in cs[d].hidden \/ <<"instance", f>> \in cs[d].private
  IN  /\ c \in DOMAIN cs /\ ~Hides(c)
      /\ \E d \in ToSet(Ancestry(c, cs)) : Hides(d)

---------------------------------------------------------------------------
(* Interfaces.  Their order: those an interface extends come before it,    *)
(* and what comes later wins.                                              *)

RECURSIVE OrderFrom(_, _, _)
OrderFrom(key, stack, is) ==
  IF key \notin DOMAIN is \ stack THEN <<>>
  ELSE LET ps == is[key].parents
           above == [i \in DOMAIN ps |->
                       OrderFrom(ps[i], stack \cup {key}, is)]
       IN  Append(FlattenSeq(above), key)
Order(key, is) == OrderFrom(key, {}, is)
Orders(refs, is) == FlattenSeq([i \in DOMAIN refs |-> Order(refs[i], is)])

RECURSIVE NoCycle(_, _, _)
NoCycle(key, stack, is) ==
  /\ key \notin stack
  /\ \A p \in ToSet(is[key].parents) \cap DOMAIN is :
       NoCycle(p, stack \cup {key}, is)

HasInitializer(refs, is) == \E i \in ToSet(Orders(refs, is)) : is[i].init

LastOf(order, S) == order[SelectLastInSeq(order, LAMBDA i : i \in S)]
LastSources(order, given) ==
  [x \in UNION {given[i] : i \in ToSet(order)} |->
     LastOf(order, {i \in ToSet(order) : x \in given[i]})]
InterfaceDefaultSources(key, is) ==
  LastSources(Order(key, is), [i \in DOMAIN is |-> DOMAIN is[i].defaults])
InterfaceFields(key, is) ==
  LastSources(Order(key, is), [i \in DOMAIN is |-> is[i].fields])
AritiesFrom(from, is) == [m \in DOMAIN from |-> is[from[m]].defaults[m]]
InterfaceDefaults(key, is) == AritiesFrom(InterfaceDefaultSources(key, is), is)

(* effectiveInterfaceRequirements: what is demanded, if the interfaces     *)
(* above are interfaces, form no circle and agree.                         *)
RequirementsAgree(key, is) ==
  /\ key \in DOMAIN is /\ NoCycle(key, {}, is)
  /\ LET all == ToSet(Order(key, is))
     IN  \A i \in all :
           /\ ToSet(is[i].parents) \subseteq DOMAIN is
           /\ \A j \in all : \A m \in DOMAIN is[i].needs \cap DOMAIN is[j].needs :
                is[i].needs[m] = is[j].needs[m]
Requirements(key, is) ==
  FoldLeft(LAMBDA reqs, i : reqs @@ is[i].needs, <<>>, Order(key, is))

---------------------------------------------------------------------------
(* The uses in a body.  Where: the class or interface, the method, its     *)
(* side.                                                                   *)

Where(c, x) == [c |-> c, m |-> x.m, key |-> Key(x), side |-> Key(x)[1]]

(* super(...) goes to the parent's method, or to what interfaces give.     *)
SuperAllowed(n, w, d, env) ==
  LET cs == env.classes
      parent == cs[w.c].parent
  IN  CASE w.c \in DOMAIN env.ifaces -> TRUE
        [] w.c \in DOMAIN cs /\ parent = NoParent -> w.side = "instance"
        [] w.side = "class" -> InheritedArity(parent, w.key, cs) = {n}
        [] w.m = "initialize" ->
             /\ InitKey \notin cs[parent].private
             /\ \/ InheritedInit(parent, cs) = {n}
                \/ /\ n = 0 /\ HasInitializer(d.ifaces, env.ifaces)
                   /\ InheritedInit(parent, cs) = {}
        [] OTHER -> /\ InheritedNeed(parent, w.key, cs) = {}
                    /\ InheritedArity(parent, w.key, cs) = {n}

(* A call without a receiver, no function of the name being there: a       *)
(* method of self, or of the class.                                        *)
BareAllowed(m, n, w, env) ==
  IF w.side = "instance" /\ EffectiveMethodArity(w.c, m, env) # {}
  THEN EffectiveMethodArity(w.c, m, env) = {n}
  ELSE EffectiveClassMethodArity(w.c, m, env.classes) = {n}

(* checkClassCall                                                          *)
NewAllowed(c, n, from, env) ==
  LET cs == env.classes
  IN  /\ c \in DOMAIN cs /\ ~cs[c].abstract
      /\ InitKey \in cs[c].private => from = c
      /\ EffectiveInit(c, cs) \in {{n}} \cup (IF n = 0 THEN {{}} ELSE {})

PutAllowed(f, w, env) ==
  /\ w.side = "instance"
  /\ IF w.c \in DOMAIN env.ifaces THEN f \in env.ifaces[w.c].fields
     ELSE EffectiveField(f, w.c, env.classes)

GetAllowed(f, w, env) ==
  w.side = "instance" /\ ~HiddenAbove(f, w.c, env.classes)

BodyAllowed(x, d, env) ==
  LET w == Where(d.name, x)
  IN  \A u \in Uses(x.body) :
        CASE u.k = "super" -> SuperAllowed(u.n, w, d, env)
          [] u.k = "bare" -> BareAllowed(u.m, u.n, w, env)
          [] u.k = "new" -> NewAllowed(u.c, u.n, w.c, env)
          [] u.k = "put" -> PutAllowed(u.f, w, env)
          [] u.k = "get" -> GetAllowed(u.f, w, env)
          [] OTHER -> TRUE

---------------------------------------------------------------------------
(* Classes.                                                                *)

(* registerInterfaceContributions: the fields of the parent as it stands,  *)
(* and the defaults and fields of the interfaces.                          *)
Registered(d, env) ==
  LET is == env.ifaces
      refs == SelectSeq(d.ifaces, LAMBDA i : i \in DOMAIN is)
      OnInstances(ds) == [key \in {"instance"} \X DOMAIN ds |-> ds[key[2]]]
      above == IF d.parent \in DOMAIN env.classes
               THEN env.classes[d.parent].fields ELSE {}
  IN  [env EXCEPT
         !.classes[d.name].methods =
            FoldLeft(LAMBDA ms, i : ms @@ OnInstances(InterfaceDefaults(i, is)),
                     @, refs),
         !.classes[d.name].fields =
            @ \cup above
              \cup UNION {DOMAIN InterfaceFields(i, is) : i \in ToSet(refs)}]

ParentAllowed(d, env) ==
  LET cs == env.classes
  IN  d.parent # NoParent =>
        /\ d.parent \in DOMAIN cs
        /\ ~cs[d.parent].final
        /\ ~InCycle(d.name, cs)

(* checkConstructorSuper: by the statements of the body itself, in order.  *)
ConstructorSuper(x, d, env) ==
  LET At(kinds) == {i \in DOMAIN x.body : x.body[i].k \in kinds}
      parent == d.parent
  IN  \/ At({"super"}) = {}
      \/ \E s \in At({"super"}) :
           /\ At({"super"}) = {s}
           /\ \/ InheritedInit(parent, env.classes) # {}
              \/ HasInitializer(d.ifaces, env.ifaces)
           /\ \A i \in At({"get", "put", "leave"}) : s < i
           /\ InitKey \notin env.classes[parent].private

MustCallSuper(d, env) ==
  \/ d.parent # NoParent /\ InheritedInit(d.parent, env.classes) # {}
  \/ HasInitializer(d.ifaces, env.ifaces)

OverrideVisible(x, parent, cs) ==
  \A v \in Visibility(parent, Key(x), cs) :
    /\ v = "public" => {"private", "protected"} \cap x.marks = {}
    /\ v = "protected" => "private" \notin x.marks

\* Mutant of OverrideFits: the parameters of what is replaced are not looked at.
OverrideFitsAny(x, parent, cs) ==
  "override" \in x.marks =>
    InheritedArity(parent, Key(x), cs) \cup InheritedNeed(parent, Key(x), cs) # {}

(* checkOverrideMethod, and the parameters an inherited method has.        *)
OverrideFits(x, parent, cs) ==
  InheritedArity(parent, Key(x), cs) \cup InheritedNeed(parent, Key(x), cs)
    \in {{x.arity}} \cup (IF "override" \in x.marks THEN {} ELSE {{}})

MethodAllowed(x, d, env) ==
  LET cs == env.classes
      init == Key(x) = InitKey
  IN  IF Abstract(x)
      THEN "abstract" \in d.marks /\ "override" \notin x.marks
      ELSE /\ BodyAllowed(x, d, env)
           /\ init /\ MustCallSuper(d, env) => CallsSuper(x.body)
           /\ IF d.parent = NoParent THEN "override" \notin x.marks
              ELSE IF init THEN ConstructorSuper(x, d, env)
              ELSE OverrideVisible(x, d.parent, cs) /\ OverrideFits(x, d.parent, cs)

Distinct(s) == IsInjective(s)
MemberNames(d) ==
  [i \in DOMAIN d.methods |-> Key(d.methods[i])]

(* checkInterfaceImplementations: the interfaces agree, and what is taken  *)
(* from two of them the class declares itself.                             *)
SameSource(from1, from2, declared) ==
  \A x \in (DOMAIN from1 \cap DOMAIN from2) \ declared : from1[x] = from2[x]
InterfacesAgree(d, is) ==
  /\ Distinct(d.ifaces)
  /\ \A i \in ToSet(d.ifaces) : RequirementsAgree(i, is)
  /\ \A i, j \in ToSet(d.ifaces) :
       /\ SameSource(InterfaceDefaultSources(i, is), InterfaceDefaultSources(j, is),
                     {x.m : x \in {x \in ToSet(d.methods) : Key(x)[1] = "instance"}})
       /\ SameSource(InterfaceFields(i, is), InterfaceFields(j, is),
                     {x.f : x \in ToSet(d.fields)})

(* A default that calls super has a default before it, in the order.       *)
StackHasNext(d, is) ==
  LET order == Orders(d.ifaces, is)
  IN  \A i \in DOMAIN order : \A m \in is[order[i]].supers :
        HasOwn(d, m) \/ \E j \in 1..(i - 1) : m \in DOMAIN is[order[j]].defaults

(* What interfaces demand, of the class and above, less the defaults.      *)
Demanded(d, env) ==
  FoldLeft(LAMBDA r, i : r @@ Requirements(i, env.ifaces),
           IF d.parent \in DOMAIN env.classes
           THEN env.classes[d.parent].owed ELSE <<>>, d.ifaces)
Defaulted(d, env) ==
  FoldLeft(LAMBDA r, i : InterfaceDefaults(i, env.ifaces) @@ r, <<>>, d.ifaces)
SameArities(reqs, all) == \A m \in DOMAIN reqs : all[m] = reqs[m]
DemandsAgree(d, env) ==
  \A i \in ToSet(d.ifaces) :
    SameArities(Requirements(i, env.ifaces), Demanded(d, env))
Less(reqs, defaults) ==
  [m \in {m \in DOMAIN reqs :
            ~(m \in DOMAIN defaults /\ defaults[m] = reqs[m])} |-> reqs[m]]
Owed(d, env) == Less(Demanded(d, env), Defaulted(d, env))

OwedMet(d, owed, env) ==
  \A m \in DOMAIN owed :
    LET info == env.classes[d.name]
        key == <<"instance", m>>
    IN  IF info.abstract
        THEN /\ key \in DOMAIN info.methods => info.methods[key] = owed[m]
             /\ key \in DOMAIN info.needs => info.needs[key] = owed[m]
        ELSE EffectiveMethodArity(d.name, m, env) = {owed[m]}

(* known: with what its interfaces contribute.                             *)
ClassAllowed(d, env, known, owed) ==
  /\ ~({"abstract", "final"} \subseteq d.marks)
  /\ ParentAllowed(d, env)
  /\ Distinct([i \in DOMAIN d.fields |-> d.fields[i].f])
  /\ Distinct(MemberNames(d))
  /\ \A x \in ToSet(d.methods) : MethodAllowed(x, d, known)
  /\ "abstract" \in d.marks \/ Unmet(d.name, known.classes) = {}
  /\ InterfacesAgree(d, env.ifaces)
  /\ StackHasNext(d, env.ifaces)
  /\ DemandsAgree(d, known)
  /\ OwedMet(d, owed, known)
Checked(ok, known, env) == [ok |-> ok, env |-> IF ok THEN known ELSE env]
CheckClassAs(d, env, known, owed) ==
  Checked(ClassAllowed(d, env, known, owed),
          [known EXCEPT !.classes[d.name].owed = owed], env)
CheckClass(d, env) ==
  CheckClassAs(d, env, Registered(d, env), Owed(d, env))

CheckInterface(d, env) ==
  LET names == [i \in DOMAIN d.methods |-> d.methods[i].m] \o d.fields
  IN  [ok |-> /\ Distinct(names)
              /\ \A x \in Concrete(d) :
                   /\ x.m = "initialize" => x.arity = 0
                   /\ BodyAllowed(x, d, env)
              /\ RequirementsAgree(d.name, env.ifaces),
       env |-> env]

CheckDecl(d, env) ==
  IF d.k = "class" THEN CheckClass(d, env) ELSE CheckInterface(d, env)

=============================================================================
