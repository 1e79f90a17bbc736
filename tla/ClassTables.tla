---------------------------- MODULE ClassTables ----------------------------
(***************************************************************************)
(* The methods the code generator gives to the objects of a class          *)
(* (src/internal/codegen/class.go): classes are emitted in the order of    *)
(* the program, and what super means in a method is settled when that      *)
(* method is emitted, by what has been emitted before.                     *)
(*                                                                         *)
(* A C function is the declaration and the name it comes from and the C    *)
(* functions that super runs in it, none where the body has no super.      *)
(***************************************************************************)
EXTENDS Classes
LOCAL INSTANCE SequencesExt

Code(by, x, supers) ==
  [by |-> by, m |-> x.m, arity |-> x.arity, body |-> x.body,
   supers |-> IF \E u \in Uses(x.body) : u.k = "super" THEN supers ELSE <<>>]

(* g.classDecls, g.interfaceDecls: every declaration of the program.       *)
Decl(decls, name) == CHOOSE d \in ToSet(decls) : d.name = name
Body(d, m) == {x \in Concrete(d) : Key(x) = <<"instance", m>>}
Above(decls, c) ==
  Ancestry(Decl(decls, c).parent, Predeclared(decls).classes)

---------------------------------------------------------------------------
(* Interfaces.                                                             *)

(* effectiveInterfaces: each once, where it comes first.                   *)
EffectiveInterfaces(decls, d) ==
  FoldLeft(LAMBDA done, i : IF i \in ToSet(done) THEN done ELSE Append(done, i),
           <<>>, Orders(d.ifaces, Predeclared(decls).ifaces))

(* interfaceDefaultSymInStack: the default that comes last, in which super *)
(* is the one before it; a sequence of one or none.                        *)
DefaultInStack(decls, ifaces, m) ==
  IF m = "initialize" THEN <<>>
  ELSE FoldLeft(LAMBDA next, i :
                  IF Body(Decl(decls, i), m) = {} THEN next
                  ELSE <<Code(i, CHOOSE x \in Body(Decl(decls, i), m) : TRUE,
                              next)>>,
                <<>>, ifaces)

(* emitInterfaceInitializers: the initialize of each interface.            *)
Initializers(decls, ifaces) ==
  LET having == SelectSeq(ifaces, LAMBDA i :
                  Body(Decl(decls, i), "initialize") # {})
  IN  [j \in DOMAIN having |->
         Code(having[j],
              CHOOSE x \in Body(Decl(decls, having[j]), "initialize") : TRUE,
              <<>>)]

---------------------------------------------------------------------------
(* emitted: the C functions there are, by class and key.                   *)

(* inheritedMethodSym, inheritedClassMethodSym: the first class that       *)
(* declares the method decides; its C function may not be there.           *)
InheritedSym(decls, emitted, c, key) ==
  LET declaring == {d.name : d \in {d \in Named(decls, "class") :
                       key \in {Key(x) : x \in ToSet(d.methods)}}}
  IN  SetToSeq({emitted[f] : f \in
        (NearestOf(Above(decls, c), declaring) \X {key}) \cap DOMAIN emitted})

(* The runner a constructor's super(...) calls: the parent's initialize,    *)
(* then those of the interfaces.                                           *)
ConstructorSuperRuns(decls, emitted, d) ==
  InheritedSym(decls, emitted, d.name, InitKey)
    \o Initializers(decls, EffectiveInterfaces(decls, d))

\* Mutant of SuperRuns: an interface's default comes before the parent.
SuperRunsStack(decls, emitted, d, key) ==
  LET stack == DefaultInStack(decls, EffectiveInterfaces(decls, d), key[2])
  IN  IF key = InitKey THEN ConstructorSuperRuns(decls, emitted, d)
      ELSE IF key[1] = "class" \/ stack = <<>>
           THEN InheritedSym(decls, emitted, d.name, key) ELSE stack

(* What super(...) runs in a method of a class.                            *)
SuperRuns(decls, emitted, d, key) ==
  LET parents == InheritedSym(decls, emitted, d.name, key)
  IN  IF key = InitKey THEN ConstructorSuperRuns(decls, emitted, d)
      ELSE IF key[1] = "class" \/ parents # <<>> THEN parents
      ELSE DefaultInStack(decls, EffectiveInterfaces(decls, d), key[2])

EmitMethods(decls, emitted, d) ==
  LET fresh == {<<d.name, Key(x)>> : x \in Concrete(d)}
      Of(key) == CHOOSE x \in Concrete(d) : Key(x) = key
  IN  [f \in fresh |-> Code(d.name, Of(f[2]),
                            SuperRuns(decls, emitted, d, f[2]))] @@ emitted

(* emitParentMethods: what the classes above have emitted, the nearest     *)
(* last, but for what the class itself declares.                           *)
ParentMethods(decls, emitted, d) ==
  LET above == {f \in DOMAIN emitted :
                  f[1] \in ToSet(Above(decls, d.name)) /\ f[2][1] = "instance"}
      From(key) == CHOOSE c \in
        NearestOf(Above(decls, d.name), {f[1] : f \in {f \in above : f[2] = key}}) : TRUE
  IN  [m \in {m \in {f[2][2] : f \in above} : m # "initialize" /\ ~HasOwn(d, m)} |->
         emitted[<<From(<<"instance", m>>), <<"instance", m>>>>]]

(* emitInterfaceMethods: the defaults the class does not declare.          *)
InterfaceMethods(decls, d) ==
  LET ifaces == EffectiveInterfaces(decls, d)
      ms == UNION {{x.m : x \in Concrete(Decl(decls, i))} : i \in ToSet(ifaces)}
  IN  [m \in {m \in ms : m # "initialize" /\ ~HasOwn(d, m)} |->
         Head(DefaultInStack(decls, ifaces, m))]

OwnMethods(emitted, d) ==
  [m \in {x.m : x \in {x \in Concrete(d) : Key(x)[1] = "instance"}}
           \ {"initialize"} |-> emitted[<<d.name, <<"instance", m>>>>]]

(* The fields: those of the classes above, of the interfaces, its own.     *)
ObjectFields(decls, d) ==
  LET Own(c) == {x.f : x \in ToSet(Decl(decls, c).fields)}
  IN  Own(d.name) \cup UNION {Own(c) : c \in ToSet(Above(decls, d.name))}
        \cup UNION {ToSet(Decl(decls, i).fields) :
                      i \in ToSet(EffectiveInterfaces(decls, d))}

(* emitClass: the constructor.  Later writes win, and it writes the        *)
(* methods of the parents, the interfaces and the class in this order,     *)
(* runs an initialize, and writes them again.                              *)
Constructor(decls, emitted, d) ==
  LET above == InheritedSym(decls, emitted, d.name, InitKey)
  IN  [methods |-> OwnMethods(emitted, d) @@ InterfaceMethods(decls, d)
                     @@ ParentMethods(decls, emitted, d),
       fields |-> ObjectFields(decls, d),
       runs |-> IF <<d.name, InitKey>> \in DOMAIN emitted
                THEN <<emitted[<<d.name, InitKey>>]>>
                ELSE IF above # <<>> THEN above
                ELSE Initializers(decls, EffectiveInterfaces(decls, d))]

(* emitClassMembers: the class object, its methods, and its parent: nil    *)
(* where the parent's has not been made.                                   *)
ClassObject(emitted, made, d) ==
  LET ms == {x.m : x \in {x \in Concrete(d) : Key(x)[1] = "class"}}
  IN  [methods |-> [m \in ms |-> emitted[<<d.name, <<"class", m>>>>]],
       parent |-> IF d.parent \in DOMAIN made THEN d.parent ELSE NoParent]

NothingEmitted == [methods |-> <<>>, new |-> <<>>, objects |-> <<>>]

EmitClass(decls, g, d) ==
  LET methods == EmitMethods(decls, g.methods, d)
  IN  [methods |-> methods,
       new |-> (d.name :> Constructor(decls, methods, d)) @@ g.new,
       objects |-> (d.name :> ClassObject(methods, g.objects, d)) @@ g.objects]

EmitDecl(decls, g, d) == IF d.k = "class" THEN EmitClass(decls, g, d) ELSE g

(* tya_member on a class: its own method, or its parent's.                 *)
RECURSIVE ClassMember(_, _, _)
ClassMember(c, m, objects) ==
  IF c = NoParent THEN <<>>
  ELSE IF m \in DOMAIN objects[c].methods THEN <<objects[c].methods[m]>>
  ELSE ClassMember(objects[c].parent, m, objects)

=============================================================================
