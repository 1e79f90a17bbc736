---------------------------- MODULE ClassMeaning ----------------------------
(***************************************************************************)
(* What a call of a method means (docs/SPEC.md:596-600, 700-735 and 807):  *)
(* the method of the class wins, then the last default of the interfaces   *)
(* it implements, then what its parent means; super is the parent's, or    *)
(* the next in the stack of interfaces.  Nothing here depends on the order *)
(* of the declarations.                                                    *)
(***************************************************************************)
EXTENDS ClassTables
LOCAL INSTANCE SequencesExt

(* The interfaces of a class, those they extend first, each once.          *)
Stacked(decls, d) ==
  LET all == Orders(d.ifaces, Predeclared(decls).ifaces)
      first == {i \in DOMAIN all : \A j \in 1..(i - 1) : all[j] # all[i]}
  IN  [n \in 1..Cardinality(first) |->
         all[CHOOSE i \in first : Cardinality(first \cap 1..i) = n]]

RECURSIVE MeantDefault(_, _, _)
MeantDefault(decls, ifaces, m) ==
  IF ifaces = <<>> \/ m = "initialize" THEN <<>>
  ELSE LET own == Body(Decl(decls, Last(ifaces)), m)
           next == MeantDefault(decls, Front(ifaces), m)
       IN  IF own = {} THEN next
           ELSE <<Code(Last(ifaces), CHOOSE x \in own : TRUE, next)>>

RECURSIVE MeantMethod(_, _, _)
MeantMethod(decls, c, m) ==
  IF c = NoParent \/ m = "initialize" THEN <<>>
  ELSE LET d == Decl(decls, c)
           above == MeantMethod(decls, d.parent, m)
           stack == MeantDefault(decls, Stacked(decls, d), m)
       IN  IF Body(d, m) # {}
           THEN <<Code(c, CHOOSE x \in Body(d, m) : TRUE,
                       IF above # <<>> THEN above ELSE stack)>>
           ELSE IF stack # <<>> THEN stack ELSE above

(* Construction: the parent's comes before the newly implemented           *)
(* interfaces'; an initialize of the class runs it by super.               *)
RECURSIVE MeantRuns(_, _)
MeantRuns(decls, c) ==
  IF c = NoParent THEN <<>>
  ELSE LET d == Decl(decls, c)
           hooks == SelectSeq(Stacked(decls, d), LAMBDA i :
                      Body(Decl(decls, i), "initialize") # {})
           all == MeantRuns(decls, d.parent)
                    \o [j \in DOMAIN hooks |->
                          Code(hooks[j], CHOOSE x \in
                            Body(Decl(decls, hooks[j]), "initialize") : TRUE, <<>>)]
           own == Body(d, "initialize")
       IN  IF own = {} THEN all
           ELSE <<Code(c, CHOOSE x \in own : TRUE, all)>>

RECURSIVE MeantStatic(_, _, _)
MeantStatic(decls, c, m) ==
  IF c = NoParent THEN <<>>
  ELSE LET d == Decl(decls, c)
           own == {x \in Concrete(d) : Key(x) = <<"class", m>>}
           above == MeantStatic(decls, d.parent, m)
       IN  IF own = {} THEN above
           ELSE <<Code(c, CHOOSE x \in own : TRUE, above)>>

---------------------------------------------------------------------------

MethodNames(decls) == UNION {{x.m : x \in ToSet(d.methods)} : d \in ToSet(decls)}
Made(decls) ==
  {d.name : d \in {d \in Named(decls, "class") : "abstract" \notin d.marks}}

(* What the README lists.  A class is declared after its parent; no class  *)
(* that is a parent implements an interface, whose members its children    *)
(* do not get; one that has no initialize of its own, and gets one from    *)
(* above, implements no interface that has one.                            *)
ParentsFirst(decls) ==
  \A j \in DOMAIN decls :
    decls[j].k = "class" /\ decls[j].parent # NoParent =>
      \E i \in 1..(j - 1) : decls[i].name = decls[j].parent
PlainParents(decls) ==
  \A d \in Named(decls, "class") :
    d.parent # NoParent => Decl(decls, d.parent).ifaces = <<>>
(* No method has the name of a private method above, nor has a default an  *)
(* interface gives; and a default has as many parameters as what it        *)
(* replaces or implements above.                                           *)
NothingReplaced(decls) ==
  LET cs == Predeclared(decls).classes
  IN  \A d \in Named(decls, "class") : \A u \in ToSet(Above(decls, d.name)) :
        LET all == cs[u].methods @@ cs[u].needs
            Given(m) == {x \in ToSet(MeantDefault(decls, Stacked(decls, d), m)) :
                           ~HasOwn(d, m)}
        IN  /\ cs[u].private \cap {Key(x) : x \in ToSet(d.methods)} \subseteq {InitKey}
            /\ \A key \in DOMAIN all : key[1] = "instance" =>
                 \A x \in Given(key[2]) :
                   key \notin cs[u].private /\ x.arity = all[key]
HooksRun(decls) ==
  \A d \in Named(decls, "class") :
    /\ d.parent # NoParent /\ Body(d, "initialize") = {}
    /\ HasInitializer(d.ifaces, Predeclared(decls).ifaces)
    => MeantRuns(decls, d.parent) = <<>>

(* The C functions that calls of these reach by super.                     *)
RECURSIVE Reached(_)
Reached(codes) ==
  IF codes = {} THEN {}
  ELSE codes \cup Reached(UNION {ToSet(x.supers) : x \in codes})

(* The C functions that run on an object, those that run on a class.       *)
OnObject(made) ==
  Reached({made.methods[m] : m \in DOMAIN made.methods} \cup ToSet(made.runs))
OnClass(decls, c, objects) ==
  Reached(UNION {ToSet(ClassMember(c, m, objects)) : m \in MethodNames(decls)})

BareCalls(x) == {u \in Uses(x.body) : u.k = "bare"}

=============================================================================
