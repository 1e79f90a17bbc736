-------------------------------- MODULE Loader --------------------------------
(***************************************************************************)
(* The loader of programs (internal/runner): from the entry script it      *)
(* follows imports depth first and writes one merged source.  What is      *)
(* merged is a sequence of items: the definition of a class under a name,  *)
(* the entry of a class in a namespace, the top level of a script.         *)
(*                                                                         *)
(* A unit is a class file, a script or a package (a directory of class     *)
(* files).  A class imported through a namespace gets a name of its own,   *)
(* made of its name and of the namespace.                                  *)
(***************************************************************************)
EXTENDS Integers, Sequences, SequencesExt, FiniteSets

CONSTANTS ClassFile, Script, Package,  \* the units
          Entry,      \* the script that is run
          Class,      \* class file -> the name of its public class
          Files,      \* package -> its class files, in the order of their names
          Siblings,   \* the class files beside the entry, in the order of their names
          Path,       \* what an import names
          Beside,     \* unit -> path -> the unit in the directory of the importer, or Missing
          Elsewhere,  \* path -> units in packages, TYA_PATH and the library, in this order
          Parts,      \* path -> the namespace of an import without alias
          Base,       \* path -> the name of an import without alias
          Programs,   \* unit -> its import statements, for every program
          Taken,      \* names that the entry binds itself
          Plain,      \* the namespace of what is imported bare, and of a script
          Missing     \* no unit

Unit == ClassFile \cup Script \cup Package
Statement == UNION {ToSet(P[u]) : P \in Programs, u \in Unit}
Word == (UNION {ToSet(Parts[q]) : q \in Path}) \cup UNION {ToSet(imp.alias) : imp \in Statement}

\* The files of a directory have names, and so public classes, of their own.
ASSUME LoaderAssumption ==
  /\ Entry \in Script /\ Missing \notin Unit
  /\ ClassFile \cap Script = {} /\ (ClassFile \cup Script) \cap Package = {}
  /\ Siblings \in Seq(ClassFile) /\ IsInjective(Siblings)
  /\ Files \in [Package -> Seq(ClassFile) \ {<<>>}]
  /\ \A p \in Package : \A i, j \in DOMAIN Files[p] : i # j => Class[Files[p][i]] # Class[Files[p][j]]
  /\ Beside \in [Unit -> [Path -> Unit \cup {Missing}]]
  /\ Elsewhere \in [Path -> Seq(Unit)]
  /\ Parts \in [Path -> Seq(Word) \ {<<>>}]
  /\ \A P \in Programs : P \in [Unit -> Seq(Statement)]
  /\ \A imp \in Statement : imp.path \in Path /\ imp.bare \in BOOLEAN /\ imp.alias \in Seq(Word)
  /\ Plain \notin Seq(Word)

VARIABLES
  imports,     \* unit -> its import statements
  calls,       \* the calls of loadSource, the entry's first
  loaded,      \* modules whose source has been returned once
  namespaces,  \* namespaces that have been created
  merged,      \* what the calls have written, the outer ones first
  ending       \* "none", "ok" or the error

loadVars == <<imports, calls, loaded, namespaces, merged, ending>>

---------------------------------------------------------------------------
(* Import statements: a path, and bare or an alias.                        *)

\* The first candidate that is there and is not the importer.
Resolved(importer, path) ==
  LET all == <<Beside[importer][path]>> \o Elsewhere[path]
      there == {i \in DOMAIN all : all[i] \in Unit \ {importer}}
  IN IF there = {} THEN Missing ELSE all[CHOOSE i \in there : \A j \in there : i <= j]

IsClassLike(u) == u \in ClassFile \cup Package
FilesOf(u) == IF u \in Package THEN Files[u] ELSE <<u>>
PublicFiles(u) == ToSet(FilesOf(u))
PublicNames(u) == {Class[f] : f \in PublicFiles(u)}

\* importNamespace: an alias counts, else the path decides.
Namespace(imp) == IF imp.bare THEN Plain
                  ELSE IF imp.alias # <<>> THEN imp.alias ELSE Parts[imp.path]

Distinct(s) ==
  LET once[i \in 0..Len(s)] == IF i = 0 THEN <<>>
                               ELSE IF s[i] \in ToSet(once[i - 1]) THEN once[i - 1]
                               ELSE Append(once[i - 1], s[i])
  IN once[Len(s)]

\* A package imports what its files import, once.
ImportsOf(u) ==
  IF u \in Package THEN Distinct(FlattenSeq([i \in DOMAIN Files[u] |-> imports[Files[u][i]]]))
  ELSE imports[u]

---------------------------------------------------------------------------
(* The merged source.                                                      *)

Definition(f, ns) == [kind |-> "class", file |-> f, name |-> <<Class[f], ns>>]
Binding(f, ns) == [kind |-> "binding", file |-> f, name |-> <<Class[f], ns>>]
TopLevel(u) == [kind |-> "script", file |-> u, name |-> <<u, Plain>>]
NewSpace(ns) == [kind |-> "namespace", file |-> Missing, name |-> <<Missing, ns>>]

\* The source of a unit without its imports.
Body(u) == IF IsClassLike(u) THEN [i \in DOMAIN FilesOf(u) |-> Definition(FilesOf(u)[i], Plain)]
           ELSE <<TopLevel(u)>>

\* rewritePackageClassNames: every plain occurrence of the names is renamed.
Renamed(src, names, ns) ==
  [i \in DOMAIN src |->
     IF src[i].kind = "class" /\ src[i].name \in names \X {Plain}
     THEN Definition(src[i].file, ns) ELSE src[i]]

\* The namespace and the ones around it, the outermost first.
Spaces(ns) == [i \in DOMAIN ns |-> SubSeq(ns, 1, i)]
Prelude(ns) ==
  LET made[i \in 0..Len(ns)] == IF i = 0 THEN <<>>
                                ELSE IF Spaces(ns)[i] \in namespaces THEN made[i - 1]
                                ELSE Append(made[i - 1], NewSpace(Spaces(ns)[i]))
  IN made[Len(ns)]

\* synthesizeNamespacedPackageSource.
InNamespace(src, u, ns) ==
  Renamed(src, PublicNames(u), ns)
    \o Prelude(ns)
    \o [i \in DOMAIN FilesOf(u) |-> Binding(FilesOf(u)[i], ns)]

\* What an importer writes for an import whose call has returned src: the
\* classes of a file are renamed only in the file itself, those of a package
\* in all that its call has returned.
Wrapped(src, u, ns) ==
  IF ~IsClassLike(u) \/ ns = Plain THEN src
  ELSE IF u \in ClassFile /\ src # <<>> /\ Last(src) = Last(Body(u))
  THEN Front(src) \o InNamespace(Body(u), u, ns)
  ELSE InNamespace(src, u, ns)

---------------------------------------------------------------------------
(* loadSource.                                                             *)

\* What a call has to do: its imports, and for the entry, if no import of its
\* own stands on a line by itself, its siblings: each is read, its imports are
\* done, and it is added.
Import(from, imp) == [do |-> "import", from |-> from, imp |-> imp]
Read(f) == [do |-> "read", from |-> f]
Sibling(f) == [do |-> "sibling", from |-> f]
Check == [do |-> "check", from |-> Entry]

ImportsFrom(u) == [i \in DOMAIN ImportsOf(u) |-> Import(u, ImportsOf(u)[i])]

HasTopLevelImports == \E i \in DOMAIN imports[Entry] : ~imports[Entry][i].block
WithSiblings == IF HasTopLevelImports THEN <<>> ELSE [i \in DOMAIN Siblings |-> Read(Siblings[i])]

Agenda(u) == IF u = Entry THEN ImportsFrom(u) \o <<Check>> \o WithSiblings ELSE ImportsFrom(u)

\* What a call writes stands in merged after "start".
Call(u) == [unit |-> u, todo |-> Agenda(u), visible |-> {}, exposed |-> {}, start |-> Len(merged)]

LoadInit ==
  /\ imports \in Programs
  /\ merged = <<>>
  /\ calls = <<Call(Entry)>>
  /\ loaded = {} /\ namespaces = {}
  /\ ending = "none"

Top == Last(calls)
Loading == {calls[i].unit : i \in DOMAIN calls}
Doing(what) == ending = "none" /\ Top.todo # <<>> /\ Head(Top.todo).do = what
Target == Resolved(Head(Top.todo).from, Head(Top.todo).imp.path)
BindingName(imp) == IF imp.alias = <<>> THEN Base[imp.path] ELSE Head(imp.alias)

Fails(error) == /\ ending' = error
                /\ UNCHANGED <<imports, calls, loaded, namespaces, merged>>
Advanced == [calls EXCEPT ![Len(calls)].todo = Tail(@)]

\* An import of a sibling whose name the entry knows is passed over.
PassedOver == /\ Head(Top.todo).from # Top.unit
              /\ BindingName(Head(Top.todo).imp) \in Top.visible

\* The last of the calls cs receives src, the source of unit u, for its import,
\* and writes it after "before".
Receives(cs, before, src, u) ==
  LET top == Last(cs)
      imp == Head(top.todo).imp
      ns == IF IsClassLike(u) THEN Namespace(imp) ELSE Plain
      keys == IF ns = Plain THEN {} ELSE PublicNames(u) \X {ns}
      names == IF ~IsClassLike(u) THEN {BindingName(imp)}
               ELSE IF imp.bare THEN PublicNames(u) ELSE {Head(ns)}
      own == Head(top.todo).from = top.unit
  IN IF \/ keys \cap top.exposed # {}
        \/ own /\ ns = Plain /\ names \cap top.visible # {}
     THEN /\ ending' = "name conflict"
          /\ UNCHANGED <<calls, namespaces, merged>>
     ELSE /\ calls' = Append(Front(cs), [top EXCEPT !.todo = Tail(@), !.visible = @ \cup names,
                                                    !.exposed = @ \cup keys])
          /\ merged' = before \o Wrapped(src, u, ns)
          /\ namespaces' = IF ns = Plain THEN namespaces
                           ELSE namespaces \cup ToSet(Spaces(ns))
          /\ UNCHANGED ending

NotFound == Doing("import") /\ ~PassedOver /\ Target = Missing /\ Fails("not found")

BareScript ==
  /\ Doing("import") /\ ~PassedOver
  /\ Head(Top.todo).imp.bare /\ Target \in Script
  /\ Fails("bare script")

Importable == /\ Doing("import") /\ ~PassedOver /\ Target # Missing
              /\ Head(Top.todo).imp.bare => IsClassLike(Target)

ImportCycle == Importable /\ Target \in Loading /\ Fails("import cycle")

PassOver ==
  /\ Doing("import") /\ PassedOver
  /\ calls' = Advanced
  /\ UNCHANGED <<imports, loaded, namespaces, merged, ending>>

\* Mutant of ImportAgain: what has been loaded is returned a second time.
ImportEachTime ==
  /\ Importable /\ Target \in loaded \ Loading
  /\ Receives(calls, merged, Body(Target), Target)
  /\ UNCHANGED <<imports, loaded>>

\* Mutant of ImportAgain: what is still being loaded counts as loaded.
ImportAgainOrLoading ==
  /\ Importable /\ Target \in loaded \cup Loading
  /\ Receives(calls, merged, <<>>, Target)
  /\ UNCHANGED <<imports, loaded>>

ImportAgain ==
  /\ Importable /\ Target \in loaded \ Loading
  /\ Receives(calls, merged, <<>>, Target)
  /\ UNCHANGED <<imports, loaded>>

ImportFirst ==
  /\ Importable /\ Target \notin loaded \cup Loading
  /\ calls' = Append(calls, Call(Target))
  /\ UNCHANGED <<imports, loaded, namespaces, merged, ending>>

\* A module's source is that of its imports and its own; a script is also
\* bound to its name.
ModuleEnds ==
  /\ ending = "none" /\ Len(calls) > 1 /\ Top.todo = <<>>
  /\ loaded' = loaded \cup {Top.unit}
  /\ Receives(Front(calls), SubSeq(merged, 1, Top.start),
              SubSeq(merged, Top.start + 1, Len(merged)) \o Body(Top.unit), Top.unit)
  /\ UNCHANGED imports

\* validateEntry: the entry binds no name that it imports.
CheckEntry ==
  /\ Doing("check")
  /\ IF Taken \cap Top.visible # {} THEN Fails("name conflict")
     ELSE /\ calls' = Advanced
          /\ UNCHANGED <<imports, loaded, namespaces, merged, ending>>

\* A sibling is read only now that the siblings before it have been added.
ReadSibling ==
  /\ Doing("read")
  /\ LET f == Head(Top.todo).from
     IN calls' = [calls EXCEPT ![Len(calls)].todo = ImportsFrom(f) \o <<Sibling(f)>> \o Tail(@)]
  /\ UNCHANGED <<imports, loaded, namespaces, merged, ending>>

\* A sibling is part of the program and not loaded as a module.
AddSibling ==
  /\ Doing("sibling")
  /\ calls' = Advanced
  /\ merged' = merged \o Body(Head(Top.todo).from)
  /\ UNCHANGED <<imports, loaded, namespaces, ending>>

EntryEnds ==
  /\ ending = "none" /\ Len(calls) = 1 /\ Top.todo = <<>>
  /\ merged' = merged \o Body(Entry)
  /\ ending' = "ok"
  /\ UNCHANGED <<imports, calls, loaded, namespaces>>

LoadNext == \/ NotFound \/ BareScript \/ ImportCycle \/ PassOver \/ ImportAgain \/ ImportFirst
            \/ ModuleEnds \/ CheckEntry \/ ReadSibling \/ AddSibling \/ EntryEnds

LoadSpec == LoadInit /\ [][LoadNext]_loadVars

---------------------------------------------------------------------------
(* The graph of imports, among units whose imports are all followed.       *)

Followed == loaded \cup {Entry}
InProgram == IF HasTopLevelImports THEN {} ELSE ToSet(Siblings)
Targets(u) == {Resolved(u, imp.path) : imp \in ToSet(ImportsOf(u))}

\* What the imports written in a unit lead to; with the entry come the
\* imports of its siblings.
Needs(u) == IF u = Entry THEN UNION {Targets(v) : v \in {u} \cup InProgram} ELSE Targets(u)

\* Everything that the edges lead to from S.
From(S, Edges(_)) ==
  {u \in Unit : \A X \in SUBSET Unit :
     S \cap Unit \subseteq X /\ (\A v \in X : Edges(v) \cap Unit \subseteq X) => u \in X}

\* No cycle of imports is followed to its end, and only a program with a cycle
\* is rejected for one; a module that imports the entry, or a class file beside
\* it, is part of one (loadSource, loading).
CycleFound ==
  /\ ending = "ok" => \A u \in Followed : u \notin From(Targets(u), Targets)
  /\ ending = "import cycle" => \E u \in Loading : u \in From(Needs(u), Needs)

---------------------------------------------------------------------------
(* The merged program.                                                     *)

\* The class files that unit u imports, each with the namespace it comes in.
UsesIn(u) ==
  {x \in ClassFile \X {Namespace(imp) : imp \in ToSet(ImportsOf(u))} :
     \E imp \in ToSet(ImportsOf(u)) :
       /\ IsClassLike(Resolved(u, imp.path))
       /\ x[1] \in PublicFiles(Resolved(u, imp.path))
       /\ x[2] = Namespace(imp)}

Uses(us) == InProgram \X {Plain} \cup UNION {UsesIn(u) : u \in us \cup InProgram}
Imported(us) == (UNION {Targets(u) : u \in us \cup InProgram}) \cap (ClassFile \cup Package)

\* All importers among us of a class file use one namespace and one way to it,
\* and bare classes have names of their own.
Agreed(us) ==
  /\ \A x, y \in Uses(us) : x[1] = y[1] => x = y
  /\ \A x, y \in Uses(us) : x # y /\ Class[x[1]] = Class[y[1]] => x[2] # y[2] /\ Plain \notin {x[2], y[2]}
  /\ \A u, v \in Imported(us) : u # v => PublicFiles(u) \cap PublicFiles(v) = {}
  /\ \A u \in Imported(us) : PublicFiles(u) \cap InProgram = {}

Defines(i) == merged[i].kind \in {"class", "script"}

\* If all importers agree, the merged program defines every class once and
\* creates every namespace once, before anything is put into it; a class is
\* defined before its namespace refers to it; and what a unit imports stands
\* before the unit (loadSource, synthesizeNamespacedPackageSource).
WellFormed ==
  ending = "ok" /\ Agreed(Followed) =>
    /\ \A i, j \in DOMAIN merged :
         i # j /\ merged[i].kind = merged[j].kind /\ merged[i].kind # "binding"
           => merged[i].name # merged[j].name
    /\ \A i \in DOMAIN merged : merged[i].kind = "binding" =>
         /\ \E j \in 1..(i - 1) : merged[j].kind = "class" /\ merged[j].name = merged[i].name
         /\ \A ns \in ToSet(Spaces(merged[i].name[2])) : NewSpace(ns) \in ToSet(SubSeq(merged, 1, i - 1))
    /\ \A u \in Followed : \A x \in UsesIn(u) : Definition(x[1], x[2]) \in ToSet(merged)
    /\ \A u \in Followed : \A v \in Targets(u) : \A i, j \in DOMAIN merged :
         Defines(i) /\ Defines(j) /\ merged[i].file \in PublicFiles(v) /\ merged[j].file \in PublicFiles(u)
           => i < j
=============================================================================
