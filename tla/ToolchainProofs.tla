--------------------------- MODULE ToolchainProofs ---------------------------
(***************************************************************************)
(* Proofs about tya build: the loader finds the cycles of imports and      *)
(* merges well-formed programs, and the cache of runtime objects is sound  *)
(* for any builds, sources and edits.  Each is proved from inductive       *)
(* invariants: LoadInv speaks of the calls of the loader, TextInv of the   *)
(* text that it has merged, CacheInv of what each build has hashed and     *)
(* compiled.                                                               *)
(***************************************************************************)
EXTENDS Toolchain, ListFacts

-----------------------------------------------------------------------------
(* Lists made by recursion.                                                *)

\* All the elements of all the lists, in order.
LEMMA FlattenFacts ==
  ASSUME NEW S, NEW ss \in Seq(Seq(S))
  PROVE  FlattenSeq(ss) \in Seq(S)
<1> DEFINE n == Len(ss)
           G == [i \in 1..n |-> [s \in Seq(S) |-> s \o ss[i]]]
<1>1. n \in Nat /\ \A i \in 1..n : ss[i] \in Seq(S)
  OBVIOUS
<1>2. CASE n = 0
  <2>1. ss = <<>> /\ ss \in Seq(S)
    BY <1>2
  <2> QED BY <1>2, <2>1 DEF FlattenSeq
<1>3. CASE n # 0
  <2>1. <<>> \in Seq(S) /\ G \in [1..n -> [Seq(S) -> Seq(S)]]
    BY <1>1
  <2>2. \A i \in 1..n, s \in Seq(S) : G[i][s] = s \o ss[i]
    OBVIOUS
  <2> HIDE DEF G, n
  <2>3. PICK f \in [0..n -> Seq(S)] : f[0] = <<>> /\ \A i \in 1..n : f[i] = G[i][f[i - 1]]
    <3>1. G \in Steps(n, Seq(S)) /\ n \in Nat
      BY <1>1, <2>1 DEF Steps
    <3>2. MadeBy(G, n, Seq(S), <<>>) # {}
      BY <2>1, <3>1, Recursion
    <3> QED BY <3>2 DEF MadeBy
  <2>4. ASSUME NEW i \in 1..n
        PROVE  f[i] = IF i = 1 THEN ss[i] ELSE f[i - 1] \o ss[i]
    <3>1. i - 1 \in 0..n
      BY <1>1
    <3>2. f[i - 1] \in Seq(S) /\ ss[i] \in Seq(S)
      BY <1>1, <2>3, <3>1
    <3>3. f[i] = f[i - 1] \o ss[i]
      BY <2>2, <2>3, <3>2
    <3>4. CASE i = 1
      <4>1. f[i - 1] = <<>>
        BY <2>3, <3>4
      <4> QED BY <3>2, <3>3, <3>4, <4>1
    <3> QED BY <3>3, <3>4
  <2> DEFINE h == [i \in 1..n |-> f[i]]
             c == CHOOSE g : g = [i \in 1..n |-> IF i = 1 THEN ss[i] ELSE g[i - 1] \o ss[i]]
  <2>5. h = [i \in 1..n |-> IF i = 1 THEN ss[i] ELSE h[i - 1] \o ss[i]]
    <3>1. ASSUME NEW i \in 1..n, i # 1
          PROVE  h[i - 1] = f[i - 1]
      <4>1. i - 1 \in 1..n
        BY <1>1, <3>1
      <4> QED BY <4>1
    <3> QED BY <2>4, <3>1
  <2>6. c = [i \in 1..n |-> IF i = 1 THEN ss[i] ELSE c[i - 1] \o ss[i]]
    <3> HIDE DEF h
    <3> QED BY <2>5
  <2> HIDE DEF c, h
  <2>a. \A i \in 1..n : c[i] = IF i = 1 THEN ss[i] ELSE c[i - 1] \o ss[i]
    BY ONLY <2>6
  <2> DEFINE P == {k \in 0..n : k = 0 \/ c[k] \in Seq(S)}
  <2>7. ASSUME NEW k \in 0..(n - 1), k \in P PROVE k + 1 \in P
    <3>1. k + 1 \in 1..n /\ k + 1 \in 0..n
      BY <1>1
    <3>2. c[k + 1] = IF k + 1 = 1 THEN ss[k + 1] ELSE c[(k + 1) - 1] \o ss[k + 1]
      BY <2>a, <3>1
    <3>3. (k + 1) - 1 = k /\ ss[k + 1] \in Seq(S)
      BY <1>1, <3>1
    <3>4. c[k + 1] \in Seq(S)
      BY <2>7, <3>2, <3>3
    <3> QED BY <3>1, <3>4
  <2>8. 0 \in P /\ n \in 0..n
    BY <1>1
  <2>9. n \in P
    <3> HIDE DEF P
    <3> QED BY <1>1, <2>7, <2>8, Induction
  <2>10. c[n] \in Seq(S)
    BY <1>3, <2>9
  <2>11. FlattenSeq(ss) = c[n]
    BY <1>3 DEF FlattenSeq, n, c
  <2> QED BY <2>10, <2>11
<1> QED BY <1>2, <1>3

\* A list without its repetitions.
LEMMA DistinctFacts ==
  ASSUME NEW S, NEW s \in Seq(S)
  PROVE  Distinct(s) \in Seq(S)
<1> DEFINE n == Len(s)
           Next(i, r) == IF s[i] \in ToSet(r) THEN r ELSE Append(r, s[i])
           G == [i \in 1..n |-> [r \in Seq(S) |-> Next(i, r)]]
           Is(d) == d = [i \in 0..n |-> IF i = 0 THEN <<>>
                                        ELSE IF s[i] \in ToSet(d[i - 1]) THEN d[i - 1]
                                        ELSE Append(d[i - 1], s[i])]
           c == CHOOSE d : Is(d)
<1>1. n \in Nat /\ \A i \in 1..n : s[i] \in S
  OBVIOUS
<1>2. G \in Steps(n, Seq(S)) /\ <<>> \in Seq(S)
  <2>1. ASSUME NEW i \in 1..n, NEW r \in Seq(S) PROVE Next(i, r) \in Seq(S)
    BY <1>1
  <2> QED BY <2>1 DEF Steps
<1>3. \A i \in 1..n, r \in Seq(S) : G[i][r] = Next(i, r)
  OBVIOUS
<1>4. PICK f \in [0..n -> Seq(S)] : f[0] = <<>> /\ \A i \in 1..n : f[i] = G[i][f[i - 1]]
  <2> HIDE DEF G, n
  <2>1. MadeBy(G, n, Seq(S), <<>>) # {}
    BY <1>1, <1>2, Recursion
  <2> QED BY <2>1 DEF MadeBy
<1>5. Is(f)
  <2>1. ASSUME NEW i \in 1..n PROVE f[i] = Next(i, f[i - 1])
    <3>1. i - 1 \in 0..n
      BY <1>1
    <3>2. f[i - 1] \in Seq(S)
      BY <1>4, <3>1
    <3> HIDE DEF G
    <3> QED BY <1>3, <1>4, <3>2
  <2> HIDE DEF G
  <2>2. f = [i \in 0..n |-> f[i]]
    BY <1>4
  <2>3. ASSUME NEW i \in 0..n
        PROVE  f[i] = IF i = 0 THEN <<>>
                      ELSE IF s[i] \in ToSet(f[i - 1]) THEN f[i - 1]
                      ELSE Append(f[i - 1], s[i])
    <3>1. CASE i = 0
      BY <1>4, <3>1
    <3>2. CASE i # 0
      <4>1. i \in 1..n
        BY <1>1, <3>2
      <4> QED BY <2>1, <3>2, <4>1
    <3> QED BY <3>1, <3>2
  <2> QED BY <2>2, <2>3, Zenon
<1>6. Is(c)
  <2> HIDE DEF Is
  <2> QED BY <1>5
<1> HIDE DEF G, c
<1> DEFINE P == {k \in 0..n : c[k] \in Seq(S)}
<1>7. 0 \in P
  BY <1>1, <1>6
<1>8. ASSUME NEW k \in 0..(n - 1), k \in P PROVE k + 1 \in P
  <2>1. k + 1 \in 1..n /\ k + 1 \in 0..n /\ k + 1 # 0 /\ (k + 1) - 1 = k
    BY <1>1
  <2>2. c[k + 1] = Next(k + 1, c[k])
    BY <1>6, <2>1
  <2>3. c[k + 1] \in Seq(S)
    BY <1>1, <1>8, <2>1, <2>2
  <2> QED BY <2>1, <2>3
<1>9. n \in P
  <2> HIDE DEF P
  <2>1. n \in 0..n
    BY <1>1
  <2> QED BY <1>1, <1>7, <1>8, <2>1, Induction
<1>10. Distinct(s) = c[n]
  BY DEF Distinct, c, Is, n
<1> QED BY <1>9, <1>10

\* The namespaces around a namespace, and itself, differ from one another.
LEMMA SpacesFacts ==
  ASSUME NEW S, NEW ns \in Seq(S)
  PROVE  /\ Spaces(ns) \in Seq(Seq(S)) /\ Len(Spaces(ns)) = Len(ns)
         /\ IsInjective(Spaces(ns))
<1>1. Len(ns) \in Nat /\ DOMAIN ns = 1..Len(ns)
  OBVIOUS
<1>2. ASSUME NEW i \in 1..Len(ns)
      PROVE  SubSeq(ns, 1, i) \in Seq(S) /\ Len(SubSeq(ns, 1, i)) = i
  BY <1>1
<1>3. Spaces(ns) \in Seq(Seq(S)) /\ Len(Spaces(ns)) = Len(ns)
  BY <1>1, <1>2 DEF Spaces
<1>4. \A i \in DOMAIN Spaces(ns) : Len(Spaces(ns)[i]) = i
  BY <1>1, <1>2 DEF Spaces
<1> QED BY <1>3, <1>4 DEF IsInjective

\* The prelude of a namespace makes what is missing of it, once.
LEMMA PreludeFacts ==
  ASSUME NEW S, NEW ns \in Seq(S)
  PROVE  /\ Prelude(ns) \in Seq({NewSpace(p) : p \in Seq(S)})
         /\ IsInjective(Prelude(ns))
         /\ ToSet(Prelude(ns)) = {NewSpace(p) : p \in ToSet(Spaces(ns)) \ namespaces}
<1> DEFINE n == Len(ns)
           sp == Spaces(ns)
           Q == {NewSpace(p) : p \in Seq(S)}
           Next(i, r) == IF sp[i] \in namespaces THEN r ELSE Append(r, NewSpace(sp[i]))
           G == [i \in 1..n |-> [r \in Seq(Q) |-> Next(i, r)]]
           Is(d) == d = [i \in 0..n |-> IF i = 0 THEN <<>>
                                        ELSE IF sp[i] \in namespaces THEN d[i - 1]
                                        ELSE Append(d[i - 1], NewSpace(sp[i]))]
           c == CHOOSE d : Is(d)
<1>1. n \in Nat /\ (\A i \in 1..n : sp[i] \in Seq(S)) /\ DOMAIN sp = 1..n /\ IsInjective(sp)
  BY SpacesFacts
<1>a. \A i \in 1..n : NewSpace(sp[i]) \in Q
  BY <1>1
<1>10. Prelude(ns) = c[n]
  BY DEF Prelude
<1> HIDE DEF sp, n, Q
<1>2. G \in Steps(n, Seq(Q)) /\ <<>> \in Seq(Q)
  <2>1. ASSUME NEW i \in 1..n, NEW r \in Seq(Q) PROVE Next(i, r) \in Seq(Q)
    BY <1>a
  <2> QED BY <2>1 DEF Steps
<1>3. \A i \in 1..n, r \in Seq(Q) : G[i][r] = Next(i, r)
  OBVIOUS
<1>4. PICK f \in [0..n -> Seq(Q)] : f[0] = <<>> /\ \A i \in 1..n : f[i] = G[i][f[i - 1]]
  <2> HIDE DEF G
  <2>1. MadeBy(G, n, Seq(Q), <<>>) # {}
    BY <1>1, <1>2, Recursion
  <2> QED BY <2>1 DEF MadeBy
<1>5. Is(f)
  <2>1. ASSUME NEW i \in 1..n PROVE f[i] = Next(i, f[i - 1])
    <3>1. i - 1 \in 0..n
      BY <1>1
    <3>2. f[i - 1] \in Seq(Q)
      BY <1>4, <3>1
    <3> HIDE DEF G
    <3> QED BY <1>3, <1>4, <3>2
  <2> HIDE DEF G
  <2>2. f = [i \in 0..n |-> f[i]]
    BY <1>4
  <2>3. ASSUME NEW i \in 0..n
        PROVE  f[i] = IF i = 0 THEN <<>>
                      ELSE IF sp[i] \in namespaces THEN f[i - 1]
                      ELSE Append(f[i - 1], NewSpace(sp[i]))
    <3>1. CASE i = 0
      BY <1>4, <3>1
    <3>2. CASE i # 0
      <4>1. i \in 1..n
        BY <1>1, <3>2
      <4> QED BY <2>1, <3>2, <4>1
    <3> QED BY <3>1, <3>2
  <2> QED BY <2>2, <2>3, Zenon
<1>6. Is(c)
  <2> HIDE DEF Is
  <2> QED BY <1>5
<1> HIDE DEF G, c
<1> DEFINE Missed(k) == {j \in 1..k : sp[j] \notin namespaces}
           P == {k \in 0..n : /\ c[k] \in Seq(Q) /\ IsInjective(c[k])
                              /\ Range(c[k]) = {NewSpace(sp[j]) : j \in Missed(k)}}
<1>7. 0 \in P
  <2>1. c[0] = <<>> /\ 0 \in 0..n
    BY <1>1, <1>6
  <2>2. Missed(0) = {}
    OBVIOUS
  <2>3. IsInjective(<<>>) /\ Range(<<>>) = {}
    BY DEF IsInjective, Range
  <2>4. {NewSpace(sp[j]) : j \in Missed(0)} = {}
    BY <2>2
  <2> QED BY <1>2, <2>1, <2>3, <2>4
<1>8. ASSUME NEW k \in 0..(n - 1), k \in P PROVE k + 1 \in P
  <2>1. k + 1 \in 1..n /\ k + 1 \in 0..n /\ k + 1 # 0 /\ (k + 1) - 1 = k
    BY <1>1
  <2>2. c[k + 1] = Next(k + 1, c[k])
    BY <1>6, <2>1
  <2>3. 1..(k + 1) = 1..k \cup {k + 1} /\ k + 1 \notin 1..k
    BY <1>1
  <2>4. CASE sp[k + 1] \in namespaces
    <3>1. Missed(k + 1) = Missed(k)
      BY <2>3, <2>4
    <3> QED BY <1>8, <2>1, <2>2, <2>4, <3>1
  <2>5. CASE sp[k + 1] \notin namespaces
    <3>1. Missed(k + 1) = Missed(k) \cup {k + 1}
      BY <2>3, <2>5
    <3>2. c[k + 1] = Append(c[k], NewSpace(sp[k + 1]))
      BY <2>2, <2>5
    <3>3. ASSUME NEW j \in 1..k PROVE j \in 1..n /\ sp[j] # sp[k + 1]
      <4>1. j \in 1..n /\ j # k + 1
        BY <1>1
      <4> QED BY <1>1, <2>1, <4>1 DEF IsInjective
    <3>4. NewSpace(sp[k + 1]) \notin Range(c[k])
      BY <1>8, <3>3 DEF NewSpace
    <3>5. /\ c[k + 1] \in Seq(Q) /\ IsInjective(c[k + 1])
          /\ Range(c[k + 1]) = Range(c[k]) \cup {NewSpace(sp[k + 1])}
      BY <1>8, <1>a, <2>1, <3>2, <3>4, AppendFacts
    <3>6. Range(c[k + 1]) = {NewSpace(sp[j]) : j \in Missed(k + 1)}
      BY <1>8, <3>1, <3>5
    <3> QED BY <2>1, <3>5, <3>6
  <2> QED BY <2>4, <2>5
<1>9. n \in P
  <2> HIDE DEF P
  <2>1. n \in 0..n
    BY <1>1
  <2> QED BY <1>1, <1>7, <1>8, <2>1, Induction
<1>11. {NewSpace(sp[j]) : j \in Missed(n)} = {NewSpace(p) : p \in ToSet(sp) \ namespaces}
  BY <1>1 DEF ToSet
<1>12. Range(c[n]) = ToSet(c[n])
  BY DEF Range, ToSet
<1> QED BY <1>9, <1>10, <1>11, <1>12 DEF sp, Q

-----------------------------------------------------------------------------
(* Types.                                                                  *)

Item == [do : {"import"}, from : Unit, imp : Statement]
          \cup [do : {"read", "sibling"}, from : ClassFile] \cup [do : {"check"}, from : {Entry}]
Shown == Word \cup {Base[q] : q \in Path} \cup {Class[f] : f \in ClassFile}
CallOf == [unit : Unit, todo : Seq(Item), visible : SUBSET Shown,
           exposed : SUBSET (Shown \X Seq(Word)), start : Nat]
Line == {Definition(f, ns) : f \in ClassFile, ns \in Seq(Word) \cup {Plain}}
          \cup {Binding(f, ns) : f \in ClassFile, ns \in Seq(Word) \cup {Plain}}
          \cup {TopLevel(u) : u \in Script} \cup {NewSpace(ns) : ns \in Seq(Word)}

LoadTypes ==
  /\ imports \in Programs
  /\ calls \in Seq(CallOf) /\ calls # <<>>
  /\ loaded \subseteq Unit
  /\ namespaces \subseteq Seq(Word)
  /\ merged \in Seq(Line)
  /\ \A i, j \in DOMAIN calls : i <= j => calls[i].start <= calls[j].start
  /\ \A i \in DOMAIN calls : calls[i].start <= Len(merged)

\* What is known of units.
LEMMA UnitFacts ==
  /\ Entry \in Unit /\ Entry \in Script /\ ~IsClassLike(Entry) /\ Entry \notin Package
  /\ \A u \in Unit : FilesOf(u) \in Seq(Unit) /\ FilesOf(u) # <<>> /\ PublicFiles(u) \subseteq Unit
  /\ \A u \in Unit : IsClassLike(u) => FilesOf(u) \in Seq(ClassFile) /\ PublicFiles(u) \subseteq ClassFile
  /\ \A u \in Unit : ~IsClassLike(u) => u \in Script /\ PublicFiles(u) = {u}
  /\ Siblings \in Seq(ClassFile) /\ InProgram \subseteq ClassFile
<1>1. Entry \in Unit /\ Entry \in Script /\ ~IsClassLike(Entry) /\ Entry \notin Package
  BY LoaderAssumption DEF Unit, IsClassLike
<1>2. ASSUME NEW u \in Unit
      PROVE  /\ FilesOf(u) \in Seq(Unit) /\ FilesOf(u) # <<>> /\ PublicFiles(u) \subseteq Unit
             /\ IsClassLike(u) => FilesOf(u) \in Seq(ClassFile) /\ PublicFiles(u) \subseteq ClassFile
             /\ ~IsClassLike(u) => u \in Script /\ PublicFiles(u) = {u}
  <2>1. CASE u \in Package
    <3>1. Files[u] \in Seq(ClassFile) \ {<<>>}
      BY <2>1, LoaderAssumption
    <3>2. Files[u] \in Seq(Unit)
      BY <3>1 DEF Unit
    <3> QED BY <2>1, <3>1, <3>2 DEF FilesOf, PublicFiles, IsClassLike, ToSet, Unit
  <2>2. CASE u \notin Package
    <3>1. FilesOf(u) = <<u>> /\ ToSet(<<u>>) = {u}
      BY <2>2 DEF FilesOf, ToSet
    <3>2. IsClassLike(u) => u \in ClassFile
      BY <2>2 DEF IsClassLike
    <3> QED BY <2>2, <3>1, <3>2 DEF PublicFiles, IsClassLike, Unit
  <2> QED BY <2>1, <2>2
<1>3. Siblings \in Seq(ClassFile) /\ InProgram \subseteq ClassFile
  BY LoaderAssumption DEF InProgram, ToSet
<1> QED BY <1>1, <1>2, <1>3

\* An import leads to another unit or nowhere.
LEMMA ResolvedFacts ==
  ASSUME NEW u \in Unit, NEW q \in Path
  PROVE  Resolved(u, q) \in (Unit \ {u}) \cup {Missing}
<1> DEFINE all == <<Beside[u][q]>> \o Elsewhere[q]
           there == {i \in DOMAIN all : all[i] \in Unit \ {u}}
<1>1. all \in Seq(Unit \cup {Missing})
  <2>1. Beside[u][q] \in Unit \cup {Missing} /\ Elsewhere[q] \in Seq(Unit \cup {Missing})
    <3>1. Elsewhere[q] \in Seq(Unit)
      BY LoaderAssumption
    <3>2. Beside[u][q] \in Unit \cup {Missing}
      BY LoaderAssumption
    <3> QED BY <3>1, <3>2
  <2> QED BY <2>1
<1>2. CASE there # {}
  <2>1. there \subseteq Nat
    BY <1>1
  <2> HIDE DEF all
  <2>2. \E i \in there : \A j \in there : i <= j
    <3> HIDE DEF there
    <3> QED BY <1>2, <2>1, LeastNat
  <2>3. (CHOOSE i \in there : \A j \in there : i <= j) \in there
    BY <2>2
  <2> QED BY <1>2, <2>3 DEF Resolved, all
<1>3. CASE there = {}
  BY <1>3 DEF Resolved
<1> QED BY <1>2, <1>3

\* The import statements of a unit.
LEMMA ImportsFacts ==
  ASSUME imports \in Programs, NEW u \in Unit
  PROVE  /\ ImportsOf(u) \in Seq(Statement)
         /\ \A imp \in ToSet(ImportsOf(u)) : imp \in Statement
<1>1. imports \in [Unit -> Seq(Statement)]
  BY LoaderAssumption
<1>2. ImportsOf(u) \in Seq(Statement)
  <2>1. CASE u \in Package
    <3> DEFINE ss == [i \in DOMAIN Files[u] |-> imports[Files[u][i]]]
    <3>1. Files[u] \in Seq(Unit)
      BY <2>1, LoaderAssumption DEF Unit
    <3>2. ss \in Seq(Seq(Statement))
      <4>1. \A i \in DOMAIN Files[u] : imports[Files[u][i]] \in Seq(Statement)
        BY <1>1, <3>1
      <4> QED BY <3>1, <4>1
    <3>3. Distinct(FlattenSeq(ss)) \in Seq(Statement)
      BY <3>2, FlattenFacts, DistinctFacts
    <3> QED BY <2>1, <3>3 DEF ImportsOf
  <2>2. CASE u \notin Package
    BY <1>1, <2>2 DEF ImportsOf
  <2> QED BY <2>1, <2>2
<1> QED BY <1>2 DEF ToSet

\* What a call has to do at first.
LEMMA AgendaFacts ==
  ASSUME imports \in Programs, NEW u \in Unit
  PROVE  /\ ImportsFrom(u) \in Seq(Item) /\ Len(ImportsFrom(u)) = Len(ImportsOf(u))
         /\ \A i \in DOMAIN ImportsFrom(u) : ImportsFrom(u)[i] = Import(u, ImportsOf(u)[i])
         /\ WithSiblings \in Seq(Item)
         /\ Agenda(u) \in Seq(Item)
<1>1. ImportsOf(u) \in Seq(Statement)
  BY ImportsFacts
<1>2. ImportsFrom(u) \in Seq(Item) /\ Len(ImportsFrom(u)) = Len(ImportsOf(u))
      /\ \A i \in DOMAIN ImportsFrom(u) : ImportsFrom(u)[i] = Import(u, ImportsOf(u)[i])
  <2>1. \A i \in DOMAIN ImportsOf(u) : Import(u, ImportsOf(u)[i]) \in Item
    BY <1>1 DEF Import, Item
  <2> QED BY <1>1, <2>1 DEF ImportsFrom
<1>3. WithSiblings \in Seq(Item)
  <2>1. \A i \in DOMAIN Siblings : Read(Siblings[i]) \in Item
    BY UnitFacts DEF Read, Item
  <2>2. [i \in DOMAIN Siblings |-> Read(Siblings[i])] \in Seq(Item) /\ <<>> \in Seq(Item)
    <3>1. Siblings \in Seq(ClassFile)
      BY UnitFacts
    <3> QED BY ONLY <2>1, <3>1
  <2> QED BY <2>2 DEF WithSiblings
<1>4. <<Check>> \in Seq(Item)
  BY DEF Check, Item
<1>5. ImportsFrom(u) \o <<Check>> \o WithSiblings \in Seq(Item)
  BY <1>2, <1>3, <1>4
<1> QED BY <1>2, <1>3, <1>5 DEF Agenda

\* The last of the calls cs is done with the head of its agenda.
Dropped(cs) ==
  LET n == Len(cs) IN
  /\ calls' \in Seq(CallOf) /\ Len(calls') = n
  /\ \A i \in 1..(n - 1) : calls'[i] = cs[i]
  /\ calls'[n].unit = cs[n].unit
  /\ calls'[n].start = cs[n].start
  /\ calls'[n].todo = Tail(cs[n].todo)

\* The last call and its unit.
LEMMA TopFacts ==
  ASSUME LoadTypes
  PROVE  /\ Len(calls) \in Nat \ {0} /\ DOMAIN calls = 1..Len(calls)
         /\ Top = calls[Len(calls)] /\ Top \in CallOf
         /\ \A i \in DOMAIN calls : calls[i] \in CallOf /\ calls[i].unit \in Unit
                                    /\ calls[i].todo \in Seq(Item) /\ calls[i].start \in Nat
         /\ Top.todo # <<>> => Head(Top.todo) \in Item /\ Tail(Top.todo) \in Seq(Item)
         /\ Loading \subseteq Unit
<1>1. calls \in Seq(CallOf) /\ calls # <<>>
  BY DEF LoadTypes
<1>2. Len(calls) \in Nat \ {0} /\ DOMAIN calls = 1..Len(calls) /\ Top = calls[Len(calls)]
  BY <1>1 DEF Top, Last
<1>3. \A i \in DOMAIN calls : calls[i] \in CallOf
  BY <1>1
<1>4. \A c \in CallOf : c.unit \in Unit /\ c.todo \in Seq(Item) /\ c.start \in Nat
  BY DEF CallOf
<1>5. Top.todo # <<>> => Head(Top.todo) \in Item /\ Tail(Top.todo) \in Seq(Item)
  BY <1>2, <1>3, <1>4
<1> QED BY <1>2, <1>3, <1>4, <1>5 DEF Loading

\* What an item has.
LEMMA ItemFacts ==
  ASSUME NEW item \in Item
  PROVE  /\ item.from \in Unit
         /\ item.do = "import" => item.imp \in Statement /\ item.imp.path \in Path
                                  /\ item = Import(item.from, item.imp)
         /\ item.do \in {"read", "sibling"} => item.from \in ClassFile
<1>1. Entry \in Unit /\ ClassFile \subseteq Unit
  BY UnitFacts DEF Unit
<1>2. \A imp \in Statement : imp.path \in Path
  BY LoaderAssumption
<1> QED BY <1>1, <1>2 DEF Item, Import

\* The last call is done with the head of its agenda.
LEMMA AdvancedFacts ==
  ASSUME LoadTypes, Top.todo # <<>>, calls' = Advanced
  PROVE  Dropped(calls)
<1> DEFINE n == Len(calls)
           t == [Top EXCEPT !.todo = Tail(@)]
<1>1. n \in DOMAIN calls /\ Top = calls[n] /\ Top \in CallOf /\ Tail(Top.todo) \in Seq(Item)
      /\ DOMAIN calls = 1..n /\ n \in Nat
  BY TopFacts
<1>2. t \in CallOf /\ t.unit = Top.unit /\ t.start = Top.start /\ t.todo = Tail(Top.todo)
  BY <1>1 DEF CallOf
<1>3. calls' = [calls EXCEPT ![n] = t]
  BY <1>1 DEF Advanced
<1>4. calls \in Seq(CallOf)
  BY DEF LoadTypes
<1> HIDE DEF t
<1>5. calls' \in Seq(CallOf) /\ Len(calls') = n /\ calls'[n] = t
      /\ \A i \in 1..(n - 1) : calls'[i] = calls[i]
  BY <1>1, <1>2, <1>3, <1>4
<1> QED BY <1>1, <1>2, <1>5 DEF Dropped

-----------------------------------------------------------------------------
(* The text of units.                                                      *)

\* The namespace an import statement gives to unit u, and what is written for
\* its definitions and its bindings.
Space(imp, u) == IF IsClassLike(u) THEN Namespace(imp) ELSE Plain
Definitions(u, ns) == [i \in DOMAIN FilesOf(u) |-> Definition(FilesOf(u)[i], ns)]
Bindings(u, ns) == [i \in DOMAIN FilesOf(u) |-> Binding(FilesOf(u)[i], ns)]

\* Classes are put into a namespace, or stay plain.
LEMMA SpaceFacts ==
  ASSUME NEW imp \in Statement, NEW u \in Unit
  PROVE  /\ Space(imp, u) \in Seq(Word) \cup {Plain}
         /\ Space(imp, u) # Plain => Space(imp, u) \in Seq(Word) \ {<<>>} /\ IsClassLike(u) /\ ~imp.bare
         /\ ~IsClassLike(u) => Space(imp, u) = Plain
         /\ imp.bare => Space(imp, u) = Plain
         /\ IsClassLike(u) /\ ~imp.bare => Space(imp, u) # Plain
<1>1. imp.path \in Path /\ imp.alias \in Seq(Word) /\ imp.bare \in BOOLEAN
  BY LoaderAssumption
<1>2. Parts[imp.path] \in Seq(Word) \ {<<>>}
  BY <1>1, LoaderAssumption
<1>3. Plain \notin Seq(Word)
  BY LoaderAssumption
<1> QED BY <1>1, <1>2, <1>3 DEF Space, Namespace

\* A line by its kind.
LEMMA LineFacts ==
  ASSUME NEW x \in Line
  PROVE  /\ x.kind = "class" => x.file \in ClassFile /\ x = Definition(x.file, x.name[2])
                               /\ x.name[2] \in Seq(Word) \cup {Plain}
         /\ x.kind = "binding" => x.file \in ClassFile /\ x = Binding(x.file, x.name[2])
                                 /\ x.name[2] \in Seq(Word) \cup {Plain}
         /\ x.kind = "script" => x.file \in Script /\ x = TopLevel(x.file)
         /\ x.kind = "namespace" => x.name[2] \in Seq(Word) /\ x = NewSpace(x.name[2])
         /\ x.kind \in {"class", "binding", "script", "namespace"}
  BY DEF Line, Definition, Binding, TopLevel, NewSpace

\* What is written for a unit.
LEMMA TextTypes ==
  ASSUME NEW u \in Unit, NEW ns \in Seq(Word) \cup {Plain}
  PROVE  /\ IsClassLike(u) => Definitions(u, ns) \in Seq(Line) /\ Bindings(u, ns) \in Seq(Line)
         /\ Body(u) \in Seq(Line)
         /\ ns \in Seq(Word) => Prelude(ns) \in Seq(Line)
<1>1. ASSUME NEW f \in ClassFile, NEW m \in Seq(Word) \cup {Plain}
      PROVE  Definition(f, m) \in Line /\ Binding(f, m) \in Line
  BY <1>1 DEF Line
<1>2. ASSUME IsClassLike(u)
      PROVE  /\ Definitions(u, ns) \in Seq(Line) /\ Bindings(u, ns) \in Seq(Line)
             /\ Body(u) = Definitions(u, Plain) /\ Definitions(u, Plain) \in Seq(Line)
  <2>1. FilesOf(u) \in Seq(ClassFile)
    BY <1>2, UnitFacts
  <2>2. \A i \in DOMAIN FilesOf(u) : FilesOf(u)[i] \in ClassFile
    BY <2>1
  <2>3. \A i \in DOMAIN FilesOf(u) : /\ Definition(FilesOf(u)[i], ns) \in Line
                                     /\ Definition(FilesOf(u)[i], Plain) \in Line
                                     /\ Binding(FilesOf(u)[i], ns) \in Line
    BY <1>1, <2>2
  <2> QED BY ONLY <1>2, <2>1, <2>3 DEF Definitions, Bindings, Body
<1>3. ~IsClassLike(u) => Body(u) \in Seq(Line)
  <2>1. ~IsClassLike(u) => TopLevel(u) \in Line
    BY UnitFacts DEF Line
  <2> QED BY <2>1 DEF Body
<1>4. ASSUME ns \in Seq(Word)
      PROVE  Prelude(ns) \in Seq(Line)
  <2>1. \A p \in Seq(Word) : NewSpace(p) \in Line
    BY DEF Line
  <2>2. Prelude(ns) \in Seq({NewSpace(p) : p \in Seq(Word)})
    BY <1>4, PreludeFacts
  <2> QED BY <2>1, <2>2
<1> QED BY <1>2, <1>3, <1>4

\* Renaming keeps the lines.
LEMMA RenamedTypes ==
  ASSUME NEW src \in Seq(Line), NEW u \in Unit, NEW ns \in Seq(Word)
  PROVE  /\ Renamed(src, PublicNames(u), ns) \in Seq(Line)
         /\ Len(Renamed(src, PublicNames(u), ns)) = Len(src)
<1>1. ASSUME NEW i \in DOMAIN src
      PROVE  (IF src[i].kind = "class" /\ src[i].name \in PublicNames(u) \X {Plain}
              THEN Definition(src[i].file, ns) ELSE src[i]) \in Line
  <2>1. src[i] \in Line
    OBVIOUS
  <2>2. ASSUME src[i].name \in PublicNames(u) \X {Plain}, src[i].kind = "class"
        PROVE  Definition(src[i].file, ns) \in Line
    <3>1. src[i].file \in ClassFile
      BY <2>1, <2>2, LineFacts
    <3> QED BY <3>1 DEF Line
  <2> QED BY <2>1, <2>2
<1> QED BY <1>1 DEF Renamed

\* What an importer writes.
LEMMA WrappedTypes ==
  ASSUME NEW src \in Seq(Line), NEW u \in Unit, NEW ns \in Seq(Word) \cup {Plain},
         ns # Plain => IsClassLike(u)
  PROVE  Wrapped(src, u, ns) \in Seq(Line)
<1>1. ASSUME ns # Plain, NEW s \in Seq(Line)
      PROVE  InNamespace(s, u, ns) \in Seq(Line)
  <2>1. ns \in Seq(Word) /\ IsClassLike(u)
    BY <1>1
  <2>2. Renamed(s, PublicNames(u), ns) \in Seq(Line)
    BY <1>1, <2>1, RenamedTypes
  <2>3. Prelude(ns) \in Seq(Line) /\ Bindings(u, ns) \in Seq(Line)
    BY <2>1, TextTypes
  <2> QED BY <2>2, <2>3 DEF InNamespace, Bindings
<1>2. ASSUME src # <<>> PROVE Front(src) \in Seq(Line)
  BY <1>2 DEF Front
<1>3. Body(u) \in Seq(Line)
  BY TextTypes
<1>4. CASE ~IsClassLike(u) \/ ns = Plain
  BY <1>4 DEF Wrapped
<1>5. CASE ~(~IsClassLike(u) \/ ns = Plain)
  <2>1. InNamespace(src, u, ns) \in Seq(Line) /\ InNamespace(Body(u), u, ns) \in Seq(Line)
    BY <1>1, <1>3, <1>5
  <2>2. src # <<>> => Front(src) \o InNamespace(Body(u), u, ns) \in Seq(Line)
    BY <1>2, <2>1
  <2> QED BY <1>5, <2>1, <2>2 DEF Wrapped
<1> QED BY <1>4, <1>5

\* What a receiver takes over.
Takes(cs, before, src, u) ==
  LET ns == Space(Head(cs[Len(cs)].todo).imp, u) IN
  /\ Dropped(cs)
  /\ UNCHANGED ending
  /\ merged' = before \o Wrapped(src, u, ns) /\ merged' \in Seq(Line)
  /\ namespaces' = IF ns = Plain THEN namespaces ELSE namespaces \cup ToSet(Spaces(ns))
  /\ namespaces' \subseteq Seq(Word)

\* An import ends with a conflict of names, or its text is taken over.
LEMMA ReceivesFacts ==
  ASSUME LoadTypes, ending = "none", NEW cs \in Seq(CallOf), cs # <<>>,
         NEW before \in Seq(Line), NEW src \in Seq(Line), NEW u \in Unit,
         Last(cs).todo # <<>>, Head(Last(cs).todo).do = "import",
         Receives(cs, before, src, u)
  PROVE  \/ ending' = "name conflict" /\ UNCHANGED <<calls, namespaces, merged>>
         \/ Takes(cs, before, src, u)
<1> DEFINE n == Len(cs)
           top == cs[n]
           imp == Head(top.todo).imp
           ns == Space(imp, u)
           keys == IF ns = Plain THEN {} ELSE PublicNames(u) \X {ns}
           names == IF ~IsClassLike(u) THEN {BindingName(imp)}
                    ELSE IF imp.bare THEN PublicNames(u) ELSE {Head(ns)}
           t == [top EXCEPT !.todo = Tail(@), !.visible = @ \cup names, !.exposed = @ \cup keys]
<1>1. n \in Nat \ {0} /\ top \in CallOf /\ Last(cs) = top
  BY DEF Last
<1>2. top.todo \in Seq(Item) /\ top.visible \subseteq Shown /\ top.exposed \subseteq Shown \X Seq(Word)
  BY <1>1 DEF CallOf
<1>3. Head(top.todo) \in Item /\ imp \in Statement /\ Tail(top.todo) \in Seq(Item)
  <2>1. Head(top.todo) \in Item /\ Tail(top.todo) \in Seq(Item)
    BY <1>1, <1>2
  <2> QED BY <1>1, <2>1, ItemFacts
<1>4. /\ ns \in Seq(Word) \cup {Plain} /\ Plain \notin Seq(Word)
      /\ ns # Plain => ns \in Seq(Word) \ {<<>>} /\ IsClassLike(u)
      /\ IsClassLike(u) /\ ~imp.bare => ns # Plain
  BY <1>3, SpaceFacts, LoaderAssumption
<1>5. IsClassLike(u) => PublicNames(u) \subseteq Shown
  BY UnitFacts DEF PublicNames, Shown
<1>6. names \subseteq Shown /\ keys \subseteq Shown \X Seq(Word)
  <2>1. BindingName(imp) \in Shown
    <3>1. imp.path \in Path /\ imp.alias \in Seq(Word)
      BY <1>3, LoaderAssumption
    <3>2. imp.alias # <<>> => Head(imp.alias) \in Word
      BY <3>1
    <3> QED BY <3>1, <3>2 DEF BindingName, Shown
  <2>2. IsClassLike(u) /\ ~imp.bare => Head(ns) \in Word
    BY <1>4
  <2>3. names \subseteq Shown
    BY <1>5, <2>1, <2>2 DEF Shown
  <2>4. keys \subseteq Shown \X Seq(Word)
    BY <1>4, <1>5
  <2> QED BY <2>3, <2>4
<1>7. t \in CallOf /\ t.unit = top.unit /\ t.start = top.start /\ t.todo = Tail(top.todo)
  <2> HIDE DEF names, keys
  <2> QED BY <1>1, <1>2, <1>3, <1>6 DEF CallOf
<1>8. Front(cs) \in Seq(CallOf) /\ Len(Front(cs)) = n - 1 /\ \A i \in 1..(n - 1) : Front(cs)[i] = cs[i]
  <2>1. n - 1 \in 0..n /\ cs \in Seq(CallOf)
    BY <1>1
  <2>2. Front(cs) = SubSeq(cs, 1, n - 1)
    BY DEF Front
  <2>3. \A k \in 0..n : /\ SubSeq(cs, 1, k) \in Seq(CallOf) /\ Len(SubSeq(cs, 1, k)) = k
                        /\ \A i \in 1..k : SubSeq(cs, 1, k)[i] = cs[i]
    OBVIOUS
  <2> HIDE DEF n
  <2> QED BY ONLY <2>1, <2>2, <2>3
<1>9. CASE ending' # "name conflict"
  <2> HIDE DEF keys, names, ns
  <2>1. /\ calls' = Append(Front(cs), t) /\ UNCHANGED ending
        /\ merged' = before \o Wrapped(src, u, ns)
        /\ namespaces' = IF ns = Plain THEN namespaces ELSE namespaces \cup ToSet(Spaces(ns))
    BY <1>1, <1>9 DEF Receives, Space, ns, names, keys
  <2>2. Dropped(cs)
    <3> HIDE DEF t
    <3>1. calls' \in Seq(CallOf) /\ Len(calls') = n /\ calls'[n] = t
          /\ \A i \in 1..(n - 1) : calls'[i] = cs[i]
      BY <1>1, <1>7, <1>8, <2>1
    <3> QED BY <1>1, <1>7, <3>1 DEF Dropped
  <2>3. Wrapped(src, u, ns) \in Seq(Line)
    BY <1>4, WrappedTypes
  <2>4. merged' \in Seq(Line)
    BY <2>1, <2>3
  <2>5. namespaces' \subseteq Seq(Word)
    <3>1. ns # Plain => ToSet(Spaces(ns)) \subseteq Seq(Word)
      BY <1>4, SpacesFacts DEF ToSet
    <3> QED BY <2>1, <3>1 DEF LoadTypes
  <2> QED BY <2>1, <2>2, <2>4, <2>5 DEF Takes, ns
<1>10. CASE ending' = "name conflict"
  <2> HIDE DEF t, keys, names, ns
  <2>1. UNCHANGED <<calls, namespaces, merged>>
    BY <1>1, <1>10 DEF Receives
  <2> QED BY <1>10, <2>1
<1> QED BY <1>9, <1>10

-----------------------------------------------------------------------------
(* The calls.                                                              *)

\* Where an import leads, and what a call of unit u may have to do.
Goal(item) == Resolved(item.from, item.imp.path)
Fits(item, u) ==
  /\ item.from = u \/ (u = Entry /\ item.from \in InProgram)
  /\ item.do = "import" => item.imp \in ToSet(ImportsOf(item.from))
  /\ item.do \in {"read", "sibling"} => u = Entry /\ item.from \in InProgram

\* Each call loads a unit of its own, which the call before it imports.
CallsInv ==
  /\ calls[1].unit = Entry
  /\ \A i, j \in DOMAIN calls : calls[i].unit = calls[j].unit => i = j
  /\ \A i \in DOMAIN calls : calls[i].unit \notin loaded
  /\ \A i \in DOMAIN calls : i + 1 \in DOMAIN calls =>
       /\ calls[i].todo # <<>>
       /\ Head(calls[i].todo).do = "import"
       /\ Goal(Head(calls[i].todo)) = calls[i + 1].unit
  /\ \A i \in DOMAIN calls : \A k \in DOMAIN calls[i].todo : Fits(calls[i].todo[k], calls[i].unit)

\* An import on the agenda, and the unit it leads to.
LEMMA TargetFacts ==
  ASSUME LoadTypes, Doing("import")
  PROVE  /\ ending = "none" /\ Top.todo # <<>> /\ Head(Top.todo).do = "import"
         /\ Head(Top.todo) \in Item /\ Head(Top.todo).from \in Unit
         /\ Head(Top.todo).imp \in Statement
         /\ Target = Goal(Head(Top.todo)) /\ Target \in Unit \cup {Missing}
<1>1. ending = "none" /\ Top.todo # <<>> /\ Head(Top.todo).do = "import"
  BY DEF Doing
<1>2. Head(Top.todo) \in Item
  BY <1>1, TopFacts
<1>3. Head(Top.todo).from \in Unit /\ Head(Top.todo).imp \in Statement
      /\ Head(Top.todo).imp.path \in Path
  BY <1>1, <1>2, ItemFacts
<1>4. Target = Goal(Head(Top.todo)) /\ Target \in Unit \cup {Missing}
  BY <1>3, ResolvedFacts DEF Target, Goal
<1> QED BY <1>1, <1>2, <1>3, <1>4

\* What is imported again is taken over without a text.
LEMMA AgainFacts ==
  ASSUME LoadTypes, ImportAgain
  PROVE  /\ UNCHANGED <<imports, loaded>> /\ ending = "none"
         /\ Top.todo # <<>> /\ Head(Top.todo).do = "import" /\ Head(Top.todo) \in Item
         /\ Target \in loaded /\ Target \in Unit /\ Target = Goal(Head(Top.todo))
         /\ \/ ending' = "name conflict" /\ UNCHANGED <<calls, namespaces, merged>>
            \/ Takes(calls, merged, <<>>, Target)
<1>1. Doing("import") /\ Target \in loaded /\ Receives(calls, merged, <<>>, Target)
      /\ UNCHANGED <<imports, loaded>>
  BY DEF ImportAgain, Importable
<1>2. /\ ending = "none" /\ Top.todo # <<>> /\ Head(Top.todo).do = "import" /\ Head(Top.todo) \in Item
      /\ Target = Goal(Head(Top.todo))
  BY <1>1, TargetFacts
<1>3. calls \in Seq(CallOf) /\ calls # <<>> /\ merged \in Seq(Line) /\ <<>> \in Seq(Line)
      /\ Target \in Unit
  BY <1>1 DEF LoadTypes
<1>4. \/ ending' = "name conflict" /\ UNCHANGED <<calls, namespaces, merged>>
      \/ Takes(calls, merged, <<>>, Target)
  BY <1>1, <1>2, <1>3, ReceivesFacts DEF Top
<1> QED BY <1>1, <1>2, <1>3, <1>4

\* The text of a module that has ended.
Written == SubSeq(merged, Top.start + 1, Len(merged)) \o Body(Top.unit)

\* All calls but the last.
LEMMA FrontFacts ==
  ASSUME LoadTypes, Len(calls) > 1
  PROVE  /\ Front(calls) \in Seq(CallOf) /\ Len(Front(calls)) = Len(calls) - 1
         /\ Front(calls) # <<>>
         /\ \A i \in 1..(Len(calls) - 1) : Front(calls)[i] = calls[i]
         /\ Last(Front(calls)) = calls[Len(calls) - 1]
         /\ Len(calls) - 1 \in DOMAIN calls /\ Len(calls) \in DOMAIN calls
         /\ Len(calls) - 1 \in Nat \ {0}
<1> DEFINE n == Len(calls)
<1>1. n \in Nat /\ n > 1 /\ calls \in Seq(CallOf) /\ DOMAIN calls = 1..n /\ n = Len(calls)
  BY TopFacts DEF LoadTypes
<1> HIDE DEF n
<1>2. \A k \in 0..n : /\ SubSeq(calls, 1, k) \in Seq(CallOf) /\ Len(SubSeq(calls, 1, k)) = k
                      /\ \A i \in 1..k : SubSeq(calls, 1, k)[i] = calls[i]
  BY <1>1
<1>3. n - 1 \in 0..n /\ n - 1 \in 1..n /\ n \in 1..n /\ n - 1 \in Nat \ {0} /\ n - 1 \in 1..(n - 1)
  <2>1. n \in Nat /\ n > 1
    BY <1>1
  <2> QED BY ONLY <2>1
<1>4. Front(calls) = SubSeq(calls, 1, n - 1)
  BY <1>1 DEF Front
<1>5. /\ Front(calls) \in Seq(CallOf) /\ Len(Front(calls)) = n - 1
      /\ \A i \in 1..(n - 1) : Front(calls)[i] = calls[i]
  BY <1>2, <1>3, <1>4
<1>6. Front(calls) # <<>> /\ Last(Front(calls)) = calls[n - 1]
  BY <1>3, <1>5 DEF Last
<1> QED BY <1>1, <1>3, <1>5, <1>6 DEF n

\* A module that has ended is taken over by its importer.
LEMMA EndsFacts ==
  ASSUME LoadTypes, CallsInv, ModuleEnds
  PROVE  /\ UNCHANGED imports /\ loaded' = loaded \cup {Top.unit} /\ ending = "none"
         /\ Len(calls) > 1 /\ Top.unit \in Unit /\ Top.todo = <<>>
         /\ Last(Front(calls)).todo # <<>> /\ Head(Last(Front(calls)).todo).do = "import"
         /\ Head(Last(Front(calls)).todo) \in Item
         /\ Goal(Head(Last(Front(calls)).todo)) = Top.unit
         /\ Written \in Seq(Line) /\ SubSeq(merged, 1, Top.start) \in Seq(Line)
         /\ \/ ending' = "name conflict" /\ UNCHANGED <<calls, namespaces, merged>>
            \/ Takes(Front(calls), SubSeq(merged, 1, Top.start), Written, Top.unit)
<1> DEFINE n == Len(calls)
<1>1. /\ ending = "none" /\ n > 1 /\ Top.todo = <<>> /\ loaded' = loaded \cup {Top.unit}
      /\ Receives(Front(calls), SubSeq(merged, 1, Top.start), Written, Top.unit)
      /\ UNCHANGED imports
  BY DEF ModuleEnds, Written
<1>2. /\ Front(calls) \in Seq(CallOf) /\ Front(calls) # <<>> /\ Last(Front(calls)) = calls[n - 1]
      /\ n - 1 \in DOMAIN calls /\ n \in DOMAIN calls /\ (n - 1) + 1 = n
  BY <1>1, FrontFacts
<1>3. Top = calls[n] /\ Top.unit \in Unit /\ Top.start \in Nat /\ Top.start <= Len(merged)
  BY <1>2, TopFacts DEF LoadTypes
<1>4. /\ calls[n - 1].todo # <<>> /\ Head(calls[n - 1].todo).do = "import"
      /\ Goal(Head(calls[n - 1].todo)) = calls[n].unit
  BY <1>2 DEF CallsInv
<1>5. Head(calls[n - 1].todo) \in Item
  BY <1>2, <1>4, TopFacts
<1>6. Written \in Seq(Line) /\ SubSeq(merged, 1, Top.start) \in Seq(Line)
  <2>1. merged \in Seq(Line) /\ Body(Top.unit) \in Seq(Line)
    BY <1>3, TextTypes DEF LoadTypes
  <2>2. SubSeq(merged, Top.start + 1, Len(merged)) \in Seq(Line) /\ SubSeq(merged, 1, Top.start) \in Seq(Line)
    BY <1>3, <2>1
  <2> QED BY <2>1, <2>2 DEF Written
<1>7. \/ ending' = "name conflict" /\ UNCHANGED <<calls, namespaces, merged>>
      \/ Takes(Front(calls), SubSeq(merged, 1, Top.start), Written, Top.unit)
  <2> HIDE DEF n
  <2> QED BY <1>1, <1>2, <1>3, <1>4, <1>6, ReceivesFacts
<1> QED BY <1>1, <1>2, <1>3, <1>4, <1>5, <1>6, <1>7

\* What stays with the import statements.
LEMMA SameImports ==
  ASSUME UNCHANGED imports
  PROVE  /\ InProgram' = InProgram
         /\ \A u : /\ ImportsOf(u)' = ImportsOf(u) /\ Targets(u)' = Targets(u)
                   /\ ImportsFrom(u)' = ImportsFrom(u) /\ UsesIn(u)' = UsesIn(u)
         /\ \A item, u : Fits(item, u)' <=> Fits(item, u)
<1>1. InProgram' = InProgram
  BY DEF InProgram, HasTopLevelImports
<1>2. ASSUME NEW u PROVE ImportsOf(u)' = ImportsOf(u)
  BY DEF ImportsOf
<1>3. ASSUME NEW u PROVE Targets(u)' = Targets(u)
  BY <1>2 DEF Targets
<1>4. ASSUME NEW u PROVE ImportsFrom(u)' = ImportsFrom(u)
  BY <1>2 DEF ImportsFrom
<1>5. ASSUME NEW u PROVE UsesIn(u)' = UsesIn(u)
  BY <1>2 DEF UsesIn
<1>6. ASSUME NEW item, NEW u PROVE Fits(item, u)' <=> Fits(item, u)
  BY <1>1, <1>2 DEF Fits
<1> QED BY <1>1, <1>2, <1>3, <1>4, <1>5, <1>6

\* Calls after the k-th have ended, and the k-th is done with its head.
Drop(k) ==
  /\ calls' \in Seq(CallOf) /\ DOMAIN calls' = 1..k /\ Len(calls') = k /\ k \in DOMAIN calls
  /\ \A i \in 1..k : /\ i \in DOMAIN calls
                     /\ calls'[i].unit = calls[i].unit /\ calls'[i].start = calls[i].start
                     /\ i # k => calls'[i] = calls[i]
  /\ calls'[k].todo = Tail(calls[k].todo)

LEMMA DropFacts ==
  ASSUME LoadTypes
  PROVE  /\ Dropped(calls) => Drop(Len(calls))
         /\ Len(calls) > 1 /\ Dropped(Front(calls)) => Drop(Len(calls) - 1)
<1>1. Len(calls) \in Nat \ {0} /\ DOMAIN calls = 1..Len(calls)
  BY TopFacts
<1>2. ASSUME NEW k \in DOMAIN calls, NEW cs, Len(cs) = k, \A i \in 1..k : cs[i] = calls[i], Dropped(cs)
      PROVE  Drop(k)
  <2>1. k \in Nat /\ k \in 1..k /\ \A i \in 1..k : i \in DOMAIN calls /\ (i # k => i \in 1..(k - 1))
    BY <1>1
  <2>2. calls' \in Seq(CallOf) /\ Len(calls') = k
    BY <1>2 DEF Dropped
  <2>3. DOMAIN calls' = 1..k
    BY <2>2
  <2>4. /\ \A i \in 1..(k - 1) : calls'[i] = cs[i]
        /\ calls'[k].unit = cs[k].unit /\ calls'[k].start = cs[k].start
        /\ calls'[k].todo = Tail(cs[k].todo)
    BY <1>2 DEF Dropped
  <2>5. \A i \in 1..k : /\ calls'[i].unit = calls[i].unit /\ calls'[i].start = calls[i].start
                        /\ i # k => calls'[i] = calls[i]
    BY <1>2, <2>1, <2>4
  <2> QED BY <1>2, <2>1, <2>2, <2>3, <2>4, <2>5 DEF Drop
<1>3. Dropped(calls) => Drop(Len(calls))
  BY <1>1, <1>2
<1>4. ASSUME Len(calls) > 1, Dropped(Front(calls))
      PROVE  Drop(Len(calls) - 1)
  BY <1>2, <1>4, FrontFacts
<1> QED BY <1>3, <1>4

\* The calls keep their invariant when the later ones have ended.
LEMMA DropCalls ==
  ASSUME LoadTypes, CallsInv, UNCHANGED imports, NEW k \in DOMAIN calls, Drop(k), calls[k].todo # <<>>,
         \A u \in loaded' : u \in loaded \/ \E i \in DOMAIN calls : i \notin 1..k /\ u = calls[i].unit
  PROVE  CallsInv'
<1>1. Len(calls) \in Nat \ {0} /\ DOMAIN calls = 1..Len(calls) /\ k \in Nat \ {0}
  BY TopFacts
<1>2. DOMAIN calls' = 1..k /\ \A i \in 1..k : i \in DOMAIN calls /\ calls'[i].unit = calls[i].unit
  BY DEF Drop
<1>3. calls'[1].unit = Entry
  BY <1>1, <1>2 DEF CallsInv
<1>4. \A i, j \in DOMAIN calls' : calls'[i].unit = calls'[j].unit => i = j
  BY <1>2 DEF CallsInv
<1>5. \A i \in DOMAIN calls' : calls'[i].unit \notin loaded'
  BY <1>2 DEF CallsInv
<1>6. ASSUME NEW i \in DOMAIN calls', i + 1 \in DOMAIN calls'
      PROVE  /\ calls'[i].todo # <<>> /\ Head(calls'[i].todo).do = "import"
             /\ Goal(Head(calls'[i].todo)) = calls'[i + 1].unit
  <2>1. i # k /\ i \in 1..k /\ i + 1 \in 1..k
    BY <1>1, <1>2, <1>6
  <2>2. calls'[i] = calls[i] /\ calls'[i + 1].unit = calls[i + 1].unit /\ i \in DOMAIN calls /\ i + 1 \in DOMAIN calls
    BY <1>2, <2>1 DEF Drop
  <2> QED BY <2>2 DEF CallsInv
<1>7. ASSUME NEW i \in DOMAIN calls', NEW m \in DOMAIN calls'[i].todo
      PROVE  Fits(calls'[i].todo[m], calls'[i].unit)
  <2>1. Fits(calls'[i].todo[m], calls[i].unit)
    <3>1. CASE i = k
      <4>1. calls'[k].todo = Tail(calls[k].todo)
        BY DEF Drop
      <4>2. calls[k].todo \in Seq(Item)
        BY TopFacts
      <4>3. m + 1 \in DOMAIN calls[k].todo /\ Tail(calls[k].todo)[m] = calls[k].todo[m + 1]
        BY <1>7, <3>1, <4>1, <4>2
      <4> QED BY <3>1, <4>1, <4>3 DEF CallsInv
    <3>2. CASE i # k
      BY <1>2, <3>2 DEF CallsInv, Drop
    <3> QED BY <3>1, <3>2
  <2> QED BY <1>2, <2>1
<1> QED BY <1>3, <1>4, <1>5, <1>6, <1>7, SameImports DEF CallsInv, Goal

\* What the calls after the k-th have written is kept, or taken back.
LEMMA DropTypes ==
  ASSUME LoadTypes, UNCHANGED imports, NEW k \in DOMAIN calls, Drop(k),
         merged' \in Seq(Line), namespaces' \subseteq Seq(Word), loaded' \subseteq Unit,
         calls[k].start <= Len(merged')
  PROVE  LoadTypes'
<1>1. Len(calls) \in Nat \ {0} /\ DOMAIN calls = 1..Len(calls) /\ k \in Nat \ {0} /\ Len(merged') \in Nat
      /\ \A i \in DOMAIN calls : calls[i].start \in Nat
  BY TopFacts
<1>2. calls' \in Seq(CallOf) /\ DOMAIN calls' = 1..k /\ Len(calls') = k
      /\ \A i \in 1..k : i \in DOMAIN calls /\ calls'[i].start = calls[i].start
  BY DEF Drop
<1>3. calls' # <<>>
  BY <1>1, <1>2
<1>4. \A i, j \in DOMAIN calls : i <= j => calls[i].start <= calls[j].start
  BY DEF LoadTypes
<1>5. \A i, j \in DOMAIN calls' : i <= j => calls'[i].start <= calls'[j].start
  BY <1>2, <1>4
<1>6. ASSUME NEW i \in DOMAIN calls' PROVE calls'[i].start <= Len(merged')
  <2>1. i \in DOMAIN calls /\ i <= k /\ calls'[i].start = calls[i].start
    BY <1>1, <1>2
  <2>2. calls[i].start <= calls[k].start
    BY <1>4, <2>1
  <2>3. \A a, b, c \in Nat : a <= b /\ b <= c => a <= c
    OBVIOUS
  <2> QED BY <1>1, <2>1, <2>2, <2>3
<1>7. imports' \in Programs
  BY DEF LoadTypes
<1> QED BY <1>2, <1>3, <1>5, <1>6, <1>7 DEF LoadTypes

\* A concatenation is as long as its first part.
LEMMA LongerFacts ==
  ASSUME NEW s \in Seq(Line), NEW t \in Seq(Line)
  PROVE  s \o t \in Seq(Line) /\ Len(s) <= Len(s \o t) /\ Len(s) \in Nat
<1>1. s \o t \in Seq(Line) /\ Len(s \o t) = Len(s) + Len(t) /\ Len(s) \in Nat /\ Len(t) \in Nat
  OBVIOUS
<1> QED BY <1>1

\* A step that only drops the head of the last agenda and may add to the text.
LEMMA AdvanceStep ==
  ASSUME LoadTypes, CallsInv, UNCHANGED <<imports, loaded, namespaces>>,
         Top.todo # <<>>, calls' = Advanced,
         \/ UNCHANGED merged
         \/ \E u \in Unit : merged' = merged \o Body(u)
  PROVE  LoadTypes' /\ CallsInv' /\ Drop(Len(calls))
<1>1. Drop(Len(calls))
  BY AdvancedFacts, DropFacts
<1>2. Len(calls) \in DOMAIN calls /\ Top = calls[Len(calls)] /\ merged \in Seq(Line)
      /\ calls[Len(calls)].start \in Nat /\ calls[Len(calls)].start <= Len(merged) /\ Len(merged) \in Nat
  BY TopFacts DEF LoadTypes
<1>3. merged' \in Seq(Line) /\ Len(merged) <= Len(merged') /\ Len(merged') \in Nat
  <2>1. CASE UNCHANGED merged
    BY <1>2, <2>1
  <2>2. ASSUME NEW u \in Unit, merged' = merged \o Body(u)
        PROVE  merged' \in Seq(Line) /\ Len(merged) <= Len(merged')
    <3>1. Body(u) \in Seq(Line)
      BY TextTypes
    <3> QED BY <1>2, <2>2, <3>1, LongerFacts
  <2>3. merged' \in Seq(Line) /\ Len(merged) <= Len(merged')
    BY <2>1, <2>2
  <2> QED BY <2>3
<1>4. calls[Len(calls)].start <= Len(merged')
  BY <1>2, <1>3
<1>5. LoadTypes'
  <2>1. namespaces' \subseteq Seq(Word) /\ loaded' \subseteq Unit
    BY DEF LoadTypes
  <2> QED BY <1>1, <1>2, <1>3, <1>4, <2>1, DropTypes
<1>6. CallsInv'
  BY <1>1, <1>2, DropCalls
<1> QED BY <1>1, <1>5, <1>6

\* A step that leaves the calls as they are.
LEMMA StayStep ==
  ASSUME LoadTypes, UNCHANGED <<imports, calls, namespaces>>, loaded' \subseteq Unit,
         UNCHANGED merged \/ merged' = merged \o Body(Entry)
  PROVE  LoadTypes' /\ (UNCHANGED loaded /\ CallsInv => CallsInv')
<1>1. merged' \in Seq(Line) /\ Len(merged) <= Len(merged') /\ Len(merged') \in Nat /\ Len(merged) \in Nat
  <2>1. merged \in Seq(Line) /\ Body(Entry) \in Seq(Line)
    BY UnitFacts, TextTypes DEF LoadTypes
  <2>2. CASE UNCHANGED merged
    BY <2>1, <2>2
  <2>3. CASE merged' = merged \o Body(Entry)
    BY <2>1, <2>3, LongerFacts
  <2> QED BY <2>2, <2>3
<1>2. ASSUME NEW i \in DOMAIN calls PROVE calls[i].start <= Len(merged')
  <2>1. calls[i].start \in Nat /\ calls[i].start <= Len(merged)
    BY TopFacts DEF LoadTypes
  <2> QED BY <1>1, <2>1
<1>3. LoadTypes'
  BY <1>1, <1>2 DEF LoadTypes
<1>4. ASSUME UNCHANGED loaded, CallsInv PROVE CallsInv'
  BY <1>4, SameImports DEF CallsInv, Goal
<1> QED BY <1>3, <1>4

NoConflict == ending' # "name conflict"

\* What is imported again.
LEMMA AgainStep ==
  ASSUME LoadTypes, CallsInv, ImportAgain, NoConflict
  PROVE  LoadTypes' /\ CallsInv' /\ Drop(Len(calls)) /\ Takes(calls, merged, <<>>, Target)
<1>1. /\ UNCHANGED <<imports, loaded>> /\ Top.todo # <<>> /\ Target \in Unit
      /\ Takes(calls, merged, <<>>, Target)
  BY AgainFacts DEF NoConflict
<1>2. Len(calls) \in DOMAIN calls /\ Top = calls[Len(calls)] /\ merged \in Seq(Line)
      /\ calls[Len(calls)].start \in Nat /\ calls[Len(calls)].start <= Len(merged) /\ Len(merged) \in Nat
  BY TopFacts DEF LoadTypes
<1>a. <<>> \in Seq(Line)
  OBVIOUS
<1>3. Drop(Len(calls))
  BY <1>1, DropFacts DEF Takes
<1>4. merged' \in Seq(Line) /\ Len(merged) <= Len(merged') /\ namespaces' \subseteq Seq(Word)
  <2> DEFINE ns == Space(Head(calls[Len(calls)].todo).imp, Target)
             w == Wrapped(<<>>, Target, ns)
  <2>1. merged' = merged \o w /\ merged' \in Seq(Line) /\ namespaces' \subseteq Seq(Word)
    BY <1>1 DEF Takes
  <2>2. Head(calls[Len(calls)].todo).imp \in Statement
    BY <1>2, AgainFacts, ItemFacts
  <2>3. ns \in Seq(Word) \cup {Plain} /\ (ns # Plain => IsClassLike(Target))
    BY <1>1, <2>2, SpaceFacts
  <2>4. w \in Seq(Line)
    <3> HIDE DEF ns
    <3> QED BY <1>1, <1>a, <2>3, WrappedTypes
  <2> HIDE DEF w
  <2> QED BY <1>2, <2>1, <2>4, LongerFacts
<1>5. calls[Len(calls)].start <= Len(merged')
  <2>1. ASSUME NEW s \in Seq(Line), NEW m \in Nat, NEW a \in Nat, a <= m, m <= Len(s)
        PROVE  a <= Len(s)
    <3>1. Len(s) \in Nat
      OBVIOUS
    <3> QED BY <2>1, <3>1
  <2> QED BY <1>2, <1>4, <2>1
<1>6. LoadTypes'
  <2>1. loaded' \subseteq Unit
    BY <1>1 DEF LoadTypes
  <2> QED BY <1>1, <1>2, <1>3, <1>4, <1>5, <2>1, DropTypes
<1>7. CallsInv'
  BY <1>1, <1>2, <1>3, DropCalls
<1> QED BY <1>1, <1>3, <1>6, <1>7

\* What its importer takes over from a module.
LEMMA EndsStep ==
  ASSUME LoadTypes, CallsInv, ModuleEnds, NoConflict
  PROVE  /\ LoadTypes' /\ CallsInv' /\ Drop(Len(calls) - 1)
         /\ Takes(Front(calls), SubSeq(merged, 1, Top.start), Written, Top.unit)
<1> DEFINE n == Len(calls)
<1>1. /\ UNCHANGED imports /\ loaded' = loaded \cup {Top.unit} /\ n > 1 /\ Top.unit \in Unit
      /\ Takes(Front(calls), SubSeq(merged, 1, Top.start), Written, Top.unit)
      /\ Written \in Seq(Line) /\ SubSeq(merged, 1, Top.start) \in Seq(Line)
      /\ Last(Front(calls)).todo # <<>> /\ Head(Last(Front(calls)).todo) \in Item
      /\ Head(Last(Front(calls)).todo).do = "import"
  BY EndsFacts DEF NoConflict
<1>2. /\ Len(Front(calls)) = n - 1 /\ Last(Front(calls)) = calls[n - 1]
      /\ Front(calls)[Len(Front(calls))] = calls[n - 1]
      /\ n - 1 \in DOMAIN calls /\ n \in DOMAIN calls
      /\ n - 1 \in Nat \ {0} /\ DOMAIN calls = 1..n
  <2>1. /\ Len(Front(calls)) = n - 1 /\ Last(Front(calls)) = calls[n - 1]
        /\ n - 1 \in DOMAIN calls /\ n \in DOMAIN calls /\ n - 1 \in Nat \ {0}
    BY <1>1, FrontFacts
  <2>2. DOMAIN calls = 1..n
    BY TopFacts
  <2> QED BY <2>1, <2>2 DEF Last
<1>3. Drop(n - 1)
  BY <1>1, DropFacts DEF Takes
<1>4. calls[n - 1].start <= Top.start /\ calls[n - 1].start \in Nat /\ Top.start \in Nat /\ Top = calls[n]
      /\ Top.start <= Len(merged) /\ merged \in Seq(Line)
  <2>1. Top = calls[n] /\ calls[n - 1].start \in Nat /\ calls[n].start \in Nat
    BY <1>2, TopFacts
  <2>2. n - 1 <= n
    BY <1>2
  <2> QED BY <1>2, <2>1, <2>2 DEF LoadTypes
<1>5. merged' \in Seq(Line) /\ Top.start <= Len(merged') /\ namespaces' \subseteq Seq(Word)
  <2> DEFINE imp == Head(calls[n - 1].todo).imp
             ns == Space(imp, Top.unit)
             w == Wrapped(Written, Top.unit, ns)
             b == SubSeq(merged, 1, Top.start)
  <2>1. merged' = b \o w /\ merged' \in Seq(Line) /\ namespaces' \subseteq Seq(Word)
    BY <1>1, <1>2 DEF Takes
  <2>2. imp \in Statement
    BY <1>1, <1>2, ItemFacts
  <2>3. ns \in Seq(Word) \cup {Plain} /\ (ns # Plain => IsClassLike(Top.unit))
    BY <1>1, <2>2, SpaceFacts
  <2>4. w \in Seq(Line)
    <3> HIDE DEF ns
    <3> QED BY <1>1, <2>3, WrappedTypes
  <2>5. b \in Seq(Line) /\ Len(b) = Top.start
    <3>1. ASSUME NEW s \in Seq(Line), NEW k \in Nat, k <= Len(s)
          PROVE  SubSeq(s, 1, k) \in Seq(Line) /\ Len(SubSeq(s, 1, k)) = k
      BY <3>1
    <3> QED BY <1>4, <3>1
  <2> HIDE DEF w, b
  <2>6. Len(b) <= Len(b \o w)
    BY <2>4, <2>5, LongerFacts
  <2> QED BY <2>1, <2>5, <2>6
<1>6. calls[n - 1].start <= Len(merged')
  <2>1. ASSUME NEW s \in Seq(Line), NEW m \in Nat, NEW a \in Nat, a <= m, m <= Len(s)
        PROVE  a <= Len(s)
    <3>1. Len(s) \in Nat
      OBVIOUS
    <3> QED BY <2>1, <3>1
  <2> QED BY <1>4, <1>5, <2>1
<1>7. LoadTypes'
  <2>1. loaded' \subseteq Unit
    BY <1>1 DEF LoadTypes
  <2> HIDE DEF n
  <2> QED BY <1>1, <1>2, <1>3, <1>5, <1>6, <2>1, DropTypes
<1>8. CallsInv'
  <2>1. n \notin 1..(n - 1) /\ Top = calls[n]
    BY <1>2, <1>4
  <2>2. \A u \in loaded' : u \in loaded \/ \E i \in DOMAIN calls : i \notin 1..(n - 1) /\ u = calls[i].unit
    BY <1>1, <1>2, <2>1
  <2>3. calls[n - 1].todo # <<>>
    BY <1>1, <1>2
  <2> HIDE DEF n
  <2> QED BY <1>1, <1>2, <1>3, <2>2, <2>3, DropCalls
<1> QED BY <1>1, <1>3, <1>7, <1>8

\* A list, an element and a list, by position.
LEMMA ThreeParts ==
  ASSUME NEW S, NEW a \in Seq(S), NEW x \in S, NEW b \in Seq(S), NEW c, c = a \o <<x>> \o b
  PROVE  /\ c \in Seq(S)
         /\ \A k \in DOMAIN a : k \in DOMAIN c /\ c[k] = a[k]
         /\ \A j \in DOMAIN b : Len(a) + 1 + j \in DOMAIN c /\ c[Len(a) + 1 + j] = b[j]
         /\ \A k \in DOMAIN c : \/ k \in DOMAIN a /\ c[k] = a[k]
                                \/ k = Len(a) + 1 /\ c[k] = x
                                \/ \E j \in DOMAIN b : k = Len(a) + 1 + j /\ c[k] = b[j]
<1> DEFINE y == <<x>>
           m == Len(a) + 1
<1>1. y \in Seq(S) /\ Len(y) = 1 /\ y[1] = x
  OBVIOUS
<1> HIDE DEF y
<1>2. /\ c \in Seq(S) /\ Len(c) = Len(a) + Len(y) + Len(b)
      /\ \A i \in 1..(Len(a) + Len(y) + Len(b)) :
           c[i] = IF i <= Len(a) THEN a[i]
                  ELSE IF i <= Len(a) + Len(y) THEN y[i - Len(a)] ELSE b[i - Len(a) - Len(y)]
  <2>1. ASSUME NEW t \in Seq(S)
        PROVE  /\ a \o t \o b \in Seq(S) /\ Len(a \o t \o b) = Len(a) + Len(t) + Len(b)
               /\ \A i \in 1..(Len(a) + Len(t) + Len(b)) :
                    (a \o t \o b)[i] = IF i <= Len(a) THEN a[i]
                                     ELSE IF i <= Len(a) + Len(t) THEN t[i - Len(a)]
                                     ELSE b[i - Len(a) - Len(t)]
    BY ConcatThree
  <2>2. c = a \o y \o b
    BY DEF y
  <2> QED BY <1>1, <2>1, <2>2
<1>3. /\ Len(a) \in Nat /\ Len(b) \in Nat /\ Len(c) \in Nat
      /\ DOMAIN a = 1..Len(a) /\ DOMAIN b = 1..Len(b) /\ DOMAIN c = 1..Len(c)
  BY <1>2
<1>4. /\ Len(c) = m + Len(b) /\ m \in Nat
      /\ \A i \in 1..(m + Len(b)) :
           c[i] = IF i <= Len(a) THEN a[i] ELSE IF i <= m THEN y[i - Len(a)] ELSE b[i - Len(a) - 1]
  BY <1>1, <1>2, <1>3
<1>5. \A k \in DOMAIN a : k \in DOMAIN c /\ c[k] = a[k] /\ k < m
  BY <1>3, <1>4
<1>6. m \in DOMAIN c /\ c[m] = x
  <2>1. m \in 1..(m + Len(b)) /\ ~(m <= Len(a)) /\ m - Len(a) = 1
    BY <1>3
  <2> QED BY <1>1, <1>3, <1>4, <2>1
<1>7. ASSUME NEW j \in DOMAIN b PROVE m + j \in DOMAIN c /\ c[m + j] = b[j] /\ m < m + j
  <2>1. m + j \in 1..(m + Len(b)) /\ ~(m + j <= Len(a)) /\ ~(m + j <= m) /\ (m + j) - Len(a) - 1 = j /\ m < m + j
    BY <1>3
  <2> HIDE DEF m
  <2> QED BY <1>3, <1>4, <2>1
<1>8. ASSUME NEW k \in DOMAIN c, k \notin DOMAIN a, k # m
      PROVE  \E j \in DOMAIN b : k = m + j /\ c[k] = b[j]
  <2>1. k - m \in DOMAIN b /\ k = m + (k - m)
    BY <1>3, <1>4, <1>8
  <2> HIDE DEF m
  <2> QED BY <1>7, <2>1
<1> QED BY <1>2, <1>5, <1>6, <1>7, <1>8

\* What follows the head of a list.
LEMMA TailPositions ==
  ASSUME NEW S, NEW s \in Seq(S), s # <<>>, NEW j \in DOMAIN s
  PROVE  \/ j = 1 /\ s[j] = Head(s)
         \/ j # 1 /\ j - 1 \in DOMAIN Tail(s) /\ Tail(s)[j - 1] = s[j]
<1>1. Len(s) \in Nat /\ DOMAIN s = 1..Len(s) /\ DOMAIN Tail(s) = 1..(Len(s) - 1)
      /\ (\A l \in 1..(Len(s) - 1) : Tail(s)[l] = s[l + 1]) /\ Head(s) = s[1]
  OBVIOUS
<1>2. j # 1 => j - 1 \in 1..(Len(s) - 1) /\ (j - 1) + 1 = j
  BY <1>1
<1> QED BY <1>1, <1>2

\* A first call for a unit.
LEMMA CallFacts ==
  ASSUME imports \in Programs, merged \in Seq(Line), NEW u \in Unit
  PROVE  /\ Call(u) \in CallOf /\ Call(u).unit = u /\ Call(u).start = Len(merged)
         /\ Call(u).todo = Agenda(u)
         /\ \A k \in DOMAIN Agenda(u) : Fits(Agenda(u)[k], u)
<1>1. Agenda(u) \in Seq(Item)
  BY AgendaFacts
<1>2. Call(u) \in CallOf
  BY <1>1 DEF Call, CallOf
<1>3. ASSUME NEW k \in DOMAIN ImportsFrom(u) PROVE Fits(ImportsFrom(u)[k], u)
  <2>1. ImportsFrom(u)[k] = Import(u, ImportsOf(u)[k]) /\ k \in DOMAIN ImportsOf(u)
    BY <1>3 DEF ImportsFrom
  <2> QED BY <2>1 DEF Fits, Import, ToSet
<1>4. ASSUME u # Entry
      PROVE  \A k \in DOMAIN Agenda(u) : Fits(Agenda(u)[k], u)
  BY <1>3, <1>4 DEF Agenda
<1>5. ASSUME u = Entry
      PROVE  \A k \in DOMAIN Agenda(u) : Fits(Agenda(u)[k], u)
  <2> DEFINE a == ImportsFrom(u)
  <2>1. a \in Seq(Item) /\ WithSiblings \in Seq(Item)
    BY AgendaFacts
  <2>2. ASSUME NEW k \in DOMAIN WithSiblings PROVE Fits(WithSiblings[k], u)
    <3>1. ~HasTopLevelImports /\ WithSiblings[k] = Read(Siblings[k]) /\ k \in DOMAIN Siblings
      <4>1. CASE HasTopLevelImports
        <5>1. WithSiblings = <<>>
          BY <4>1 DEF WithSiblings
        <5> QED BY <2>2, <5>1
      <4>2. CASE ~HasTopLevelImports
        BY <2>2, <4>2 DEF WithSiblings
      <4> QED BY <4>1, <4>2
    <3>2. Siblings[k] \in InProgram
      BY <3>1 DEF InProgram, ToSet
    <3> QED BY <1>5, <3>1, <3>2 DEF Fits, Read
  <2>3. Fits(Check, u)
    BY <1>5 DEF Fits, Check
  <2>4. Agenda(u) = a \o <<Check>> \o WithSiblings /\ Check \in Item
    BY <1>5 DEF Agenda, Item, Check
  <2> HIDE DEF a
  <2>5. ASSUME NEW k \in DOMAIN Agenda(u)
        PROVE  \/ k \in DOMAIN a /\ Agenda(u)[k] = a[k]
               \/ Agenda(u)[k] = Check
               \/ \E j \in DOMAIN WithSiblings : Agenda(u)[k] = WithSiblings[j]
    BY <2>1, <2>4, <2>5, ThreeParts
  <2> QED BY <1>3, <2>2, <2>3, <2>5 DEF a
<1> QED BY <1>2, <1>4, <1>5 DEF Call

\* A step that changes the agenda of the last call only.
LEMMA TodoStep ==
  ASSUME LoadTypes, CallsInv, UNCHANGED <<imports, loaded, namespaces, merged>>,
         NEW todo \in Seq(Item), calls' = [calls EXCEPT ![Len(calls)].todo = todo],
         \A k \in DOMAIN todo : Fits(todo[k], Top.unit)
  PROVE  LoadTypes' /\ CallsInv'
<1> DEFINE n == Len(calls)
           t == [Top EXCEPT !.todo = todo]
<1>1. n \in DOMAIN calls /\ Top = calls[n] /\ Top \in CallOf /\ DOMAIN calls = 1..n /\ n \in Nat
      /\ calls \in Seq(CallOf)
  BY TopFacts DEF LoadTypes
<1>2. t \in CallOf /\ t.unit = Top.unit /\ t.start = Top.start /\ t.todo = todo
  BY <1>1 DEF CallOf
<1>3. calls' = [calls EXCEPT ![n] = t]
  BY <1>1
<1> HIDE DEF t
<1>4. /\ calls' \in Seq(CallOf) /\ DOMAIN calls' = 1..n /\ Len(calls') = n /\ calls' # <<>>
      /\ calls'[n] = t /\ \A i \in 1..n : i # n => calls'[i] = calls[i]
  BY <1>1, <1>3, <1>2
<1>5. \A i \in 1..n : calls'[i].unit = calls[i].unit /\ calls'[i].start = calls[i].start
  BY <1>1, <1>2, <1>4
<1> HIDE DEF n
<1>6. LoadTypes'
  BY <1>1, <1>4, <1>5 DEF LoadTypes
<1>7. /\ calls'[1].unit = Entry
      /\ \A i, j \in DOMAIN calls' : calls'[i].unit = calls'[j].unit => i = j
      /\ \A i \in DOMAIN calls' : calls'[i].unit \notin loaded'
  <2>1. 1 \in 1..n
    BY <1>1
  <2> QED BY <1>1, <1>4, <1>5, <2>1 DEF CallsInv
<1>8. ASSUME NEW i \in DOMAIN calls', i + 1 \in DOMAIN calls'
      PROVE  /\ calls'[i].todo # <<>> /\ Head(calls'[i].todo).do = "import"
             /\ Goal(Head(calls'[i].todo)) = calls'[i + 1].unit
  <2>1. i # n /\ i \in 1..n /\ i + 1 \in 1..n
    BY <1>1, <1>4, <1>8
  <2> QED BY <1>1, <1>4, <1>5, <2>1 DEF CallsInv
<1>9. ASSUME NEW i \in DOMAIN calls', NEW m \in DOMAIN calls'[i].todo
      PROVE  Fits(calls'[i].todo[m], calls'[i].unit)
  <2>1. CASE i = n
    BY <1>1, <1>2, <1>4, <1>9, <2>1
  <2>2. CASE i # n
    BY <1>1, <1>4, <1>5, <1>9, <2>2 DEF CallsInv
  <2> QED BY <2>1, <2>2
<1> QED BY <1>6, <1>7, <1>8, <1>9, SameImports DEF CallsInv, Goal

\* A sibling is read: its imports come first.
LEMMA ReadStep ==
  ASSUME LoadTypes, CallsInv, ReadSibling
  PROVE  /\ LoadTypes' /\ CallsInv' /\ UNCHANGED <<imports, loaded, namespaces, merged, ending>>
         /\ Top.todo # <<>> /\ Head(Top.todo).do = "read" /\ Head(Top.todo).from \in InProgram
         /\ Top.unit = Entry
         /\ LET f == Head(Top.todo).from
            IN  calls' = [calls EXCEPT ![Len(calls)].todo =
                            ImportsFrom(f) \o <<Sibling(f)>> \o Tail(Top.todo)]
<1> DEFINE n == Len(calls)
           f == Head(Top.todo).from
           todo == ImportsFrom(f) \o <<Sibling(f)>> \o Tail(Top.todo)
<1>1. /\ ending = "none" /\ Top.todo # <<>> /\ Head(Top.todo).do = "read"
      /\ UNCHANGED <<imports, loaded, namespaces, merged, ending>>
      /\ calls' = [calls EXCEPT ![n].todo = ImportsFrom(f) \o <<Sibling(f)>> \o Tail(@)]
  BY DEF ReadSibling, Doing
<1>2. n \in DOMAIN calls /\ Top = calls[n] /\ Top.todo \in Seq(Item)
      /\ Head(Top.todo) \in Item /\ Tail(Top.todo) \in Seq(Item)
  BY <1>1, TopFacts
<1>3. 1 \in DOMAIN Top.todo /\ Head(Top.todo) = Top.todo[1]
  BY <1>1, <1>2
<1>4. Fits(Head(Top.todo), Top.unit)
  BY <1>2, <1>3 DEF CallsInv
<1>5. f \in InProgram /\ Top.unit = Entry /\ f \in ClassFile /\ f \in Unit
  BY <1>1, <1>2, <1>4, ItemFacts DEF Fits
<1>6. ImportsFrom(f) \in Seq(Item) /\ Sibling(f) \in Item
  BY <1>5, AgendaFacts DEF LoadTypes, Sibling, Item
<1>7. todo \in Seq(Item)
  BY <1>2, <1>6
<1>8. ASSUME NEW k \in DOMAIN todo PROVE Fits(todo[k], Top.unit)
  <2>1. \/ k \in DOMAIN ImportsFrom(f) /\ todo[k] = ImportsFrom(f)[k]
        \/ todo[k] = Sibling(f)
        \/ \E j \in DOMAIN Tail(Top.todo) : todo[k] = Tail(Top.todo)[j]
    <3> DEFINE a == ImportsFrom(f)
               x == Sibling(f)
               b == Tail(Top.todo)
    <3>1. a \in Seq(Item) /\ x \in Item /\ b \in Seq(Item) /\ todo = a \o <<x>> \o b
      BY <1>2, <1>6
    <3> HIDE DEF a, x, b
    <3>2. \/ k \in DOMAIN a /\ todo[k] = a[k]
          \/ todo[k] = x
          \/ \E j \in DOMAIN b : todo[k] = b[j]
      <4>1. todo = a \o <<x>> \o b
        BY <3>1
      <4> HIDE DEF todo
      <4>2. \A l \in DOMAIN todo : \/ l \in DOMAIN a /\ todo[l] = a[l]
                                   \/ todo[l] = x
                                   \/ \E j \in DOMAIN b : todo[l] = b[j]
        BY <3>1, <4>1, ThreeParts
      <4> QED BY <1>8, <4>2
    <3> QED BY <3>2 DEF a, x, b
  <2>2. ASSUME k \in DOMAIN ImportsFrom(f)
        PROVE  Fits(ImportsFrom(f)[k], Top.unit)
    <3>1. ImportsFrom(f)[k] = Import(f, ImportsOf(f)[k]) /\ k \in DOMAIN ImportsOf(f)
      BY <2>2 DEF ImportsFrom
    <3> QED BY <1>5, <3>1 DEF Fits, Import, ToSet
  <2>3. Fits(Sibling(f), Top.unit)
    BY <1>5 DEF Fits, Sibling
  <2>4. ASSUME NEW j \in DOMAIN Tail(Top.todo)
        PROVE  Fits(Tail(Top.todo)[j], Top.unit)
    <3>1. j + 1 \in DOMAIN Top.todo /\ Tail(Top.todo)[j] = Top.todo[j + 1]
      BY <1>1, <1>2, <2>4
    <3> QED BY <1>2, <3>1 DEF CallsInv
  <2> HIDE DEF f, todo
  <2> QED BY <2>1, <2>2, <2>3, <2>4
<1>9. calls' = [calls EXCEPT ![n].todo = todo]
  BY <1>1, <1>2
<1>10. LoadTypes' /\ CallsInv'
  <2> HIDE DEF todo
  <2> QED BY <1>1, <1>7, <1>8, <1>9, TodoStep
<1> QED BY <1>1, <1>5, <1>9, <1>10

\* A unit is imported the first time.
LEMMA PushStep ==
  ASSUME LoadTypes, CallsInv, ImportFirst
  PROVE  /\ LoadTypes' /\ CallsInv' /\ UNCHANGED <<imports, loaded, namespaces, merged, ending>>
         /\ Target \in Unit /\ calls' = Append(calls, Call(Target))
         /\ Call(Target) \in CallOf /\ Call(Target).unit = Target /\ Call(Target).todo = Agenda(Target)
<1> DEFINE n == Len(calls)
           t == Call(Target)
<1>1. /\ Doing("import") /\ Target # Missing /\ Target \notin loaded \cup Loading
      /\ UNCHANGED <<imports, loaded, namespaces, merged, ending>>
      /\ calls' = Append(calls, t)
  BY DEF ImportFirst, Importable
<1>2. Target \in Unit /\ Top.todo # <<>> /\ Head(Top.todo).do = "import" /\ Target = Goal(Head(Top.todo))
  BY <1>1, TargetFacts
<1>3. n \in DOMAIN calls /\ Top = calls[n] /\ DOMAIN calls = 1..n /\ n \in Nat /\ calls \in Seq(CallOf)
      /\ \A i \in DOMAIN calls : calls[i].start \in Nat
  BY TopFacts DEF LoadTypes
<1>4. /\ t \in CallOf /\ t.unit = Target /\ t.start = Len(merged) /\ t.todo = Agenda(Target)
      /\ \A k \in DOMAIN t.todo : Fits(t.todo[k], Target)
  BY <1>2, CallFacts DEF LoadTypes
<1>5. Len(merged) \in Nat
  BY DEF LoadTypes
<1> HIDE DEF t
<1>6. /\ calls' \in Seq(CallOf) /\ DOMAIN calls' = 1..(n + 1) /\ Len(calls') = n + 1 /\ calls' # <<>>
      /\ calls'[n + 1] = t /\ \A i \in 1..n : calls'[i] = calls[i]
  BY <1>1, <1>3, <1>4
<1> HIDE DEF n
<1>7. \A i \in 1..(n + 1) : i = n + 1 \/ i \in 1..n
  BY <1>3
<1>8. LoadTypes'
  <2>1. ASSUME NEW i \in DOMAIN calls'
        PROVE  calls'[i].start <= Len(merged')
    BY <1>1, <1>3, <1>4, <1>5, <1>6, <1>7 DEF LoadTypes
  <2>2. ASSUME NEW i \in DOMAIN calls', NEW j \in DOMAIN calls', i <= j
        PROVE  calls'[i].start <= calls'[j].start
    <3>1. CASE j = n + 1
      BY <1>1, <1>4, <1>6, <2>1, <3>1
    <3>2. CASE j \in 1..n
      <4>1. i \in 1..n
        BY <1>3, <1>6, <2>2, <3>2
      <4> QED BY <1>3, <1>6, <2>2, <3>2, <4>1 DEF LoadTypes
    <3> QED BY <1>6, <1>7, <3>1, <3>2
  <2> QED BY <1>1, <1>6, <2>1, <2>2 DEF LoadTypes
<1>9. Target \notin loaded /\ \A i \in 1..n : calls[i].unit # Target
  BY <1>1, <1>3 DEF Loading
<1>10. calls'[1].unit = Entry
  <2>1. 1 \in 1..n
    BY <1>3
  <2> QED BY <1>6, <2>1 DEF CallsInv
<1>11. ASSUME NEW i \in DOMAIN calls', NEW j \in DOMAIN calls', calls'[i].unit = calls'[j].unit
       PROVE  i = j
  <2>1. (i = n + 1 \/ i \in 1..n) /\ (j = n + 1 \/ j \in 1..n)
    BY <1>6, <1>7
  <2> QED BY <1>3, <1>4, <1>6, <1>9, <1>11, <2>1 DEF CallsInv
<1>12. \A i \in DOMAIN calls' : calls'[i].unit \notin loaded'
  BY <1>1, <1>3, <1>4, <1>6, <1>7, <1>9 DEF CallsInv
<1>13. ASSUME NEW i \in DOMAIN calls', i + 1 \in DOMAIN calls'
       PROVE  /\ calls'[i].todo # <<>> /\ Head(calls'[i].todo).do = "import"
              /\ Goal(Head(calls'[i].todo)) = calls'[i + 1].unit
  <2>1. i \in 1..n /\ (i = n \/ i + 1 \in 1..n)
    BY <1>3, <1>6, <1>13
  <2>2. CASE i = n
    BY <1>2, <1>3, <1>4, <1>6, <2>1, <2>2
  <2>3. CASE i + 1 \in 1..n
    BY <1>3, <1>6, <2>1, <2>3 DEF CallsInv
  <2> QED BY <2>1, <2>2, <2>3
<1>14. ASSUME NEW i \in DOMAIN calls', NEW m \in DOMAIN calls'[i].todo
       PROVE  Fits(calls'[i].todo[m], calls'[i].unit)
  <2>1. CASE i = n + 1
    BY <1>4, <1>6, <1>14, <2>1
  <2>2. CASE i \in 1..n
    BY <1>3, <1>6, <1>14, <2>2 DEF CallsInv
  <2> QED BY <1>6, <1>7, <2>1, <2>2
<1>15. CallsInv'
  BY <1>1, <1>10, <1>11, <1>12, <1>13, <1>14, SameImports DEF CallsInv, Goal
<1> QED BY <1>1, <1>2, <1>4, <1>8, <1>15 DEF t

-----------------------------------------------------------------------------
(* Cycles of imports.                                                      *)

\* What a call has to import has been loaded, or is still on its agenda.
Pending ==
  \A i \in DOMAIN calls : \A imp \in ToSet(ImportsOf(calls[i].unit)) :
    \/ Resolved(calls[i].unit, imp.path) \in loaded
    \/ \E m \in DOMAIN calls[i].todo : calls[i].todo[m] = Import(calls[i].unit, imp)

\* What has been loaded has loaded its imports before.
NoLoops == \A u \in loaded : Targets(u) \subseteq loaded /\ u \notin From(Targets(u), Targets)

\* How the loader ends.
Ends ==
  /\ ending = "ok" => Len(calls) = 1 /\ calls[1].todo = <<>>
  /\ ending = "import cycle" => /\ Top.todo # <<>> /\ Head(Top.todo).do = "import"
                                /\ Goal(Head(Top.todo)) \in Loading

LoadInv ==
  /\ LoadTypes
  /\ ending # "name conflict" => CallsInv /\ Pending /\ NoLoops
  /\ Ends

\* The imports of a unit are on its agenda.
LEMMA AgendaHas ==
  ASSUME imports \in Programs, NEW u \in Unit, NEW imp \in ToSet(ImportsOf(u))
  PROVE  \E k \in DOMAIN Agenda(u) : Agenda(u)[k] = Import(u, imp)
<1> DEFINE a == ImportsFrom(u)
<1>1. a \in Seq(Item) /\ WithSiblings \in Seq(Item) /\ Check \in Item
  BY AgendaFacts, UnitFacts DEF Item, Check
<1>2. PICK k \in DOMAIN a : a[k] = Import(u, imp)
  <2>1. PICK i \in DOMAIN ImportsOf(u) : ImportsOf(u)[i] = imp
    BY DEF ToSet
  <2> QED BY <2>1 DEF ImportsFrom
<1>3. Agenda(u) = a \/ Agenda(u) = a \o <<Check>> \o WithSiblings
  BY DEF Agenda
<1> HIDE DEF a
<1>4. CASE Agenda(u) = a
  BY <1>2, <1>4
<1>5. CASE Agenda(u) = a \o <<Check>> \o WithSiblings
  <2> DEFINE b == Agenda(u)
  <2>1. b = a \o <<Check>> \o WithSiblings
    BY <1>5
  <2> HIDE DEF b
  <2>2. k \in DOMAIN b /\ b[k] = a[k]
    BY <1>1, <1>2, <2>1, ThreeParts
  <2> QED BY <1>2, <2>2 DEF b
<1> QED BY <1>3, <1>4, <1>5

\* The k-th call is done with its head, which it does not have to import.
LEMMA PendingDrop ==
  ASSUME LoadTypes, Pending, UNCHANGED imports, loaded \subseteq loaded',
         NEW k \in DOMAIN calls, Drop(k), calls[k].todo # <<>>,
         Head(calls[k].todo).do = "import" /\ Head(calls[k].todo).from = calls[k].unit
           => Goal(Head(calls[k].todo)) \in loaded'
  PROVE  Pending'
<1>1. DOMAIN calls' = 1..k /\ \A i \in 1..k : /\ i \in DOMAIN calls /\ calls'[i].unit = calls[i].unit
                                              /\ i # k => calls'[i] = calls[i]
  BY DEF Drop
<1>2. ASSUME NEW i \in DOMAIN calls', NEW imp \in ToSet(ImportsOf(calls[i].unit)),
             Resolved(calls[i].unit, imp.path) \notin loaded'
      PROVE  \E m \in DOMAIN calls'[i].todo : calls'[i].todo[m] = Import(calls[i].unit, imp)
  <2>1. PICK m \in DOMAIN calls[i].todo : calls[i].todo[m] = Import(calls[i].unit, imp)
    BY <1>1, <1>2 DEF Pending
  <2>2. CASE i # k
    BY <1>1, <1>2, <2>1, <2>2
  <2>3. CASE i = k
    <3>1. calls[k].todo \in Seq(Item) /\ calls'[k].todo = Tail(calls[k].todo)
      BY TopFacts DEF Drop
    <3>2. CASE m = 1
      <4>1. Head(calls[k].todo) = Import(calls[k].unit, imp)
        BY <2>1, <2>3, <3>1, <3>2
      <4> QED BY <1>2, <2>3, <4>1 DEF Import, Goal
    <3>3. CASE m # 1
      <4>1. m - 1 \in DOMAIN Tail(calls[k].todo) /\ Tail(calls[k].todo)[m - 1] = calls[k].todo[m]
        BY <2>1, <2>3, <3>1, <3>3, TailPositions
      <4> QED BY <2>1, <2>3, <3>1, <4>1
    <3> QED BY <3>2, <3>3
  <2> QED BY <2>2, <2>3
<1>3. \A i \in DOMAIN calls' : calls'[i].unit = calls[i].unit
  BY <1>1
<1>4. \A u : ImportsOf(u)' = ImportsOf(u)
  BY SameImports
<1> QED BY <1>2, <1>3, <1>4 DEF Pending

\* A new call has all its imports on its agenda.
LEMMA PendingPush ==
  ASSUME LoadTypes, CallsInv, Pending, ImportFirst
  PROVE  Pending'
<1> DEFINE n == Len(calls)
           t == Call(Target)
<1>1. /\ UNCHANGED <<imports, loaded>> /\ Target \in Unit /\ calls' = Append(calls, t)
      /\ t \in CallOf /\ t.unit = Target /\ t.todo = Agenda(Target)
  BY PushStep
<1>2. DOMAIN calls = 1..n /\ n \in Nat /\ calls \in Seq(CallOf)
  BY TopFacts DEF LoadTypes
<1> HIDE DEF t
<1>3. /\ DOMAIN calls' = 1..(n + 1) /\ calls'[n + 1] = t /\ \A i \in 1..n : calls'[i] = calls[i]
  BY <1>1, <1>2
<1> HIDE DEF n
<1>4. \A i \in 1..(n + 1) : i = n + 1 \/ i \in 1..n
  BY <1>2
<1>5. ASSUME NEW i \in DOMAIN calls', NEW imp \in ToSet(ImportsOf(calls'[i].unit))
      PROVE  \/ Resolved(calls'[i].unit, imp.path) \in loaded
             \/ \E m \in DOMAIN calls'[i].todo : calls'[i].todo[m] = Import(calls'[i].unit, imp)
  <2>1. CASE i = n + 1
    BY <1>1, <1>3, <1>5, <2>1, AgendaHas DEF LoadTypes
  <2>2. CASE i \in 1..n
    BY <1>2, <1>3, <1>5, <2>2 DEF Pending
  <2> QED BY <1>3, <1>4, <2>1, <2>2
<1>6. \A u : ImportsOf(u)' = ImportsOf(u)
  BY <1>1, SameImports
<1> QED BY <1>1, <1>5, <1>6 DEF Pending

\* Reading a sibling adds to the agenda of the entry.
LEMMA PendingRead ==
  ASSUME LoadTypes, CallsInv, Pending, ReadSibling
  PROVE  Pending'
<1> DEFINE n == Len(calls)
           f == Head(Top.todo).from
           a == ImportsFrom(f)
           x == Sibling(f)
           b == Tail(Top.todo)
           todo == a \o <<x>> \o b
<1>1. /\ UNCHANGED <<imports, loaded>> /\ Top.todo # <<>> /\ Head(Top.todo).do = "read"
      /\ f \in InProgram /\ calls' = [calls EXCEPT ![n].todo = todo]
  BY ReadStep
<1>2. /\ n \in DOMAIN calls /\ Top = calls[n] /\ Top.todo \in Seq(Item) /\ b \in Seq(Item)
      /\ calls \in Seq(CallOf) /\ \A i \in DOMAIN calls : calls[i] \in CallOf
  BY <1>1, TopFacts DEF LoadTypes
<1>3. a \in Seq(Item) /\ x \in Item
  BY <1>1, UnitFacts, AgendaFacts DEF LoadTypes, Sibling, Item, Unit
<1> HIDE DEF a, x, f, todo
<1>4. /\ DOMAIN calls' = DOMAIN calls
      /\ \A i \in DOMAIN calls : calls'[i].unit = calls[i].unit /\ (i # n => calls'[i] = calls[i])
      /\ calls'[n].todo = todo
  <2>1. \A c \in CallOf : [c EXCEPT !.todo = todo].unit = c.unit /\ [c EXCEPT !.todo = todo].todo = todo
    BY DEF CallOf
  <2> QED BY <1>1, <1>2, <2>1
<1>5. ASSUME NEW imp, NEW m \in DOMAIN Top.todo, Top.todo[m] = Import(Top.unit, imp)
      PROVE  \E l \in DOMAIN todo : todo[l] = Import(Top.unit, imp)
  <2>1. m # 1
    <3>1. Head(Top.todo) = Top.todo[1]
      BY <1>1, <1>2
    <3> QED BY <1>1, <1>5, <3>1 DEF Import
  <2>2. m - 1 \in DOMAIN b /\ b[m - 1] = Top.todo[m]
    BY <1>1, <1>2, <1>5, <2>1, TailPositions
  <2> HIDE DEF b
  <2>3. Len(a) + 1 + (m - 1) \in DOMAIN todo /\ todo[Len(a) + 1 + (m - 1)] = b[m - 1]
    <3>1. todo = a \o <<x>> \o b
      BY DEF todo
    <3> QED BY <1>2, <1>3, <2>2, <3>1, ThreeParts
  <2> QED BY <1>5, <2>2, <2>3
<1>6. ASSUME NEW i \in DOMAIN calls', NEW imp \in ToSet(ImportsOf(calls'[i].unit))
      PROVE  \/ Resolved(calls'[i].unit, imp.path) \in loaded
             \/ \E m \in DOMAIN calls'[i].todo : calls'[i].todo[m] = Import(calls'[i].unit, imp)
  <2>1. \/ Resolved(calls[i].unit, imp.path) \in loaded
        \/ \E m \in DOMAIN calls[i].todo : calls[i].todo[m] = Import(calls[i].unit, imp)
    BY <1>4, <1>6 DEF Pending
  <2>2. CASE i = n
    BY <1>2, <1>4, <1>5, <2>1, <2>2
  <2>3. CASE i # n
    BY <1>4, <1>6, <2>1, <2>3
  <2> QED BY <2>2, <2>3
<1>7. \A u : ImportsOf(u)' = ImportsOf(u)
  BY <1>1, SameImports
<1> QED BY <1>1, <1>6, <1>7 DEF Pending

\* What is loaded last leads only to what was loaded before.
LEMMA LoopStep ==
  ASSUME LoadTypes, NoLoops, UNCHANGED imports, NEW u \in Unit, u \notin loaded,
         Targets(u) \subseteq loaded
  PROVE  /\ u \notin From(Targets(u), Targets)
         /\ loaded \subseteq loaded' /\ loaded' \subseteq loaded \cup {u} => NoLoops'
<1>1. u \notin From(Targets(u), Targets)
  <2>1. loaded \in SUBSET Unit /\ Targets(u) \cap Unit \subseteq loaded
    BY DEF LoadTypes
  <2>2. \A v \in loaded : Targets(v) \cap Unit \subseteq loaded
    BY DEF NoLoops
  <2> QED BY <2>1, <2>2 DEF From
<1>2. ASSUME loaded' \subseteq loaded \cup {u}, loaded \subseteq loaded' PROVE NoLoops'
  <2>1. \A v : Targets(v)' = Targets(v)
    BY SameImports
  <2>2. ASSUME NEW v \in loaded'
        PROVE  Targets(v) \subseteq loaded' /\ v \notin From(Targets(v), Targets)
    BY <1>1, <1>2, <2>2 DEF NoLoops
  <2> QED BY <2>1, <2>2 DEF NoLoops, From
<1> QED BY <1>1, <1>2

\* The import on the agenda of a call is one that its unit needs.
LEMMA GoalNeeded ==
  ASSUME LoadTypes, CallsInv, NEW i \in DOMAIN calls, calls[i].todo # <<>>,
         Head(calls[i].todo).do = "import"
  PROVE  Goal(Head(calls[i].todo)) \in Needs(calls[i].unit)
<1> DEFINE h == Head(calls[i].todo)
           u == calls[i].unit
<1>1. calls[i].todo \in Seq(Item) /\ u \in Unit
  BY TopFacts
<1>2. 1 \in DOMAIN calls[i].todo /\ h = calls[i].todo[1]
  BY <1>1
<1>3. Fits(h, u)
  BY <1>2 DEF CallsInv
<1>4. Goal(h) \in Targets(h.from)
  BY <1>3 DEF Fits, Targets, Goal
<1>5. ASSUME NEW x, NEW v, NEW w, x \in Targets(v), v = w \/ (w = Entry /\ v \in InProgram)
      PROVE  x \in Needs(w)
  BY <1>5 DEF Needs
<1> HIDE DEF h, u
<1>6. h.from = u \/ (u = Entry /\ h.from \in InProgram)
  BY <1>3 DEF Fits
<1>7. Goal(h) \in Needs(u)
  BY <1>4, <1>5, <1>6
<1> QED BY <1>7 DEF h, u

\* If an import leads back to a unit that is being loaded, this unit is part of
\* a cycle: along the calls, each needs the next.
LEMMA CycleOfCalls ==
  ASSUME LoadTypes, CallsInv, Top.todo # <<>>, Head(Top.todo).do = "import",
         Goal(Head(Top.todo)) \in Loading
  PROVE  \E u \in Loading : u \in From(Needs(u), Needs)
<1> DEFINE n == Len(calls)
<1>1. n \in Nat \ {0} /\ DOMAIN calls = 1..n /\ n \in DOMAIN calls /\ Top = calls[n]
      /\ \A i \in DOMAIN calls : calls[i].unit \in Unit
  BY TopFacts
<1>2. PICK k \in 1..n : calls[k].unit = Goal(Head(Top.todo))
  BY <1>1 DEF Loading
<1> DEFINE u == calls[k].unit
<1>3. u \in Unit /\ u \in Loading
  BY <1>1, <1>2 DEF Loading
<1>4. u \in Needs(calls[n].unit)
  BY <1>1, <1>2, GoalNeeded
<1>5. \A i \in 1..(n - 1) : calls[i + 1].unit \in Needs(calls[i].unit)
  <2>1. ASSUME NEW i \in 1..(n - 1)
        PROVE  calls[i + 1].unit \in Needs(calls[i].unit)
    <3>1. i \in DOMAIN calls /\ i + 1 \in DOMAIN calls
      BY <1>1
    <3>2. calls[i].todo # <<>> /\ Head(calls[i].todo).do = "import"
          /\ Goal(Head(calls[i].todo)) = calls[i + 1].unit
      BY <3>1 DEF CallsInv
    <3> QED BY <3>1, <3>2, GoalNeeded
  <2> QED BY <2>1
<1> HIDE DEF n
<1>6. ASSUME NEW X \in SUBSET Unit, Needs(u) \cap Unit \subseteq X,
             \A v \in X : Needs(v) \cap Unit \subseteq X
      PROVE  u \in X
  <2> DEFINE P == {i \in 0..n : i < k \/ Needs(calls[i].unit) \cap Unit \subseteq X}
  <2>1. 0 \in P /\ n \in 0..n
    BY <1>1, <1>2
  <2>2. ASSUME NEW i \in 0..(n - 1), i \in P PROVE i + 1 \in P
    <3>1. i + 1 \in 0..n
      BY <1>1
    <3>2. CASE i + 1 < k
      BY <3>1, <3>2
    <3>3. CASE i + 1 = k
      BY <1>6, <3>1, <3>3
    <3>4. CASE ~(i + 1 < k) /\ i + 1 # k
      <4>1. ~(i < k) /\ i \in 1..(n - 1) /\ i + 1 \in 1..n
        BY <1>1, <1>2, <3>4
      <4>2. calls[i + 1].unit \in X
        BY <1>1, <1>5, <2>2, <4>1
      <4>3. Needs(calls[i + 1].unit) \cap Unit \subseteq X
        BY <1>6, <4>2
      <4> QED BY <3>1, <4>3
    <3> QED BY <3>2, <3>3, <3>4
  <2>3. n \in P
    <3> HIDE DEF P
    <3> QED BY <1>1, <2>1, <2>2, Induction
  <2>4. ~(n < k)
    BY <1>1, <1>2
  <2>5. Needs(calls[n].unit) \cap Unit \subseteq X
    BY <2>3, <2>4
  <2> QED BY <1>3, <1>4, <2>5
<1>7. u \in From(Needs(u), Needs)
  BY <1>3, <1>6 DEF From
<1> QED BY <1>3, <1>7

\* The invariant is what the loader promises of cycles.
LEMMA InvCycleFound == LoadInv => CycleFound
<1> SUFFICES ASSUME LoadInv PROVE CycleFound
  OBVIOUS
<1>1. ASSUME ending = "ok", NEW u \in Followed
      PROVE  u \notin From(Targets(u), Targets)
  <2>1. LoadTypes /\ CallsInv /\ Pending /\ NoLoops /\ Len(calls) = 1 /\ calls[1].todo = <<>>
    BY <1>1 DEF LoadInv, Ends
  <2>2. 1 \in DOMAIN calls /\ calls[1].unit = Entry /\ Entry \notin loaded /\ Entry \in Unit
    BY <2>1, TopFacts, UnitFacts DEF CallsInv
  <2>3. Targets(Entry) \subseteq loaded
    BY <2>1, <2>2 DEF Pending, Targets
  <2>4. Entry \notin From(Targets(Entry), Targets)
    <3>1. loaded \in SUBSET Unit /\ Targets(Entry) \cap Unit \subseteq loaded
      BY <2>1, <2>3 DEF LoadTypes
    <3>2. \A v \in loaded : Targets(v) \cap Unit \subseteq loaded
      BY <2>1 DEF NoLoops
    <3> QED BY <2>2, <3>1, <3>2 DEF From
  <2> QED BY <1>1, <2>1, <2>4 DEF Followed, NoLoops
<1>2. ASSUME ending = "import cycle"
      PROVE  \E u \in Loading : u \in From(Needs(u), Needs)
  BY <1>2, CycleOfCalls DEF LoadInv, Ends
<1> QED BY <1>1, <1>2 DEF CycleFound

\* The invariant holds at first.
LEMMA LoadInitInv == LoadInit => LoadInv
<1> SUFFICES ASSUME LoadInit PROVE LoadInv
  OBVIOUS
<1> DEFINE t == Call(Entry)
<1>1. imports \in Programs /\ merged = <<>> /\ calls = <<t>> /\ loaded = {} /\ namespaces = {} /\ ending = "none"
  BY DEF LoadInit
<1>2. merged \in Seq(Line) /\ Len(merged) = 0
  BY <1>1
<1>3. /\ t \in CallOf /\ t.unit = Entry /\ t.start = 0 /\ t.todo = Agenda(Entry)
      /\ \A k \in DOMAIN Agenda(Entry) : Fits(Agenda(Entry)[k], Entry)
  BY <1>1, <1>2, CallFacts, UnitFacts
<1> HIDE DEF t
<1>4. calls \in Seq(CallOf) /\ DOMAIN calls = {1} /\ calls # <<>> /\ calls[1] = t
  BY <1>1, <1>3
<1>5. LoadTypes
  BY <1>1, <1>2, <1>3, <1>4 DEF LoadTypes
<1>6. CallsInv
  BY <1>1, <1>3, <1>4 DEF CallsInv
<1>7. Pending
  BY <1>1, <1>3, <1>4, AgendaHas, UnitFacts DEF Pending
<1>8. NoLoops /\ Ends
  BY <1>1 DEF NoLoops, Ends
<1> QED BY <1>5, <1>6, <1>7, <1>8 DEF LoadInv

\* Every step keeps the invariant.
LEMMA LoadStepInv == LoadInv /\ [LoadNext]_loadVars => LoadInv'
<1> SUFFICES ASSUME LoadInv, [LoadNext]_loadVars PROVE LoadInv'
  OBVIOUS
<1> USE DEF LoadInv
<1>a. ASSUME UNCHANGED <<imports, calls, loaded>>, ending = "none"
      PROVE  Pending /\ NoLoops => Pending' /\ NoLoops'
  <2>1. \A u : ImportsOf(u)' = ImportsOf(u) /\ Targets(u)' = Targets(u)
    BY <1>a, SameImports
  <2> QED BY <1>a, <2>1 DEF Pending, NoLoops, From
<1>b. ASSUME NEW error, error \notin {"ok", "import cycle", "none"}, Fails(error), ending = "none"
      PROVE  LoadInv'
  <2>1. UNCHANGED <<imports, calls, loaded, namespaces, merged>> /\ ending' = error
    BY <1>b DEF Fails
  <2>2. LoadTypes /\ CallsInv /\ Pending /\ NoLoops
    BY <1>b
  <2>3. loaded' \subseteq Unit
    BY <2>1, <2>2 DEF LoadTypes
  <2>4. LoadTypes' /\ CallsInv'
    BY <2>1, <2>2, <2>3, StayStep
  <2>5. Ends'
    BY <1>b, <2>1 DEF Ends
  <2> QED BY <1>a, <1>b, <2>1, <2>2, <2>4, <2>5
<1>c. ASSUME UNCHANGED <<imports, loaded>>, NoLoops PROVE NoLoops'
  <2>1. \A u : Targets(u)' = Targets(u)
    BY <1>c, SameImports
  <2> QED BY <1>c, <2>1 DEF NoLoops, From
<1>1. CASE NotFound
  BY <1>1, <1>b DEF NotFound, Doing
<1>2. CASE BareScript
  BY <1>2, <1>b DEF BareScript, Doing
<1>3. CASE ImportCycle
  <2>1. /\ Doing("import") /\ Target \in Loading /\ ending' = "import cycle"
        /\ UNCHANGED <<imports, calls, loaded, namespaces, merged>>
    BY <1>3 DEF ImportCycle, Importable, Fails
  <2>2. /\ ending = "none" /\ LoadTypes /\ CallsInv /\ Pending /\ NoLoops
        /\ Top.todo # <<>> /\ Head(Top.todo).do = "import" /\ Target = Goal(Head(Top.todo))
    BY <2>1, TargetFacts DEF Doing
  <2>3. loaded' \subseteq Unit
    BY <2>1, <2>2 DEF LoadTypes
  <2>4. LoadTypes' /\ CallsInv'
    BY <2>1, <2>2, <2>3, StayStep
  <2>5. Top' = Top /\ Loading' = Loading /\ (Goal(Head(Top.todo)))' = Goal(Head(Top.todo))
    BY <2>1 DEF Top, Loading, Goal
  <2>6. Ends'
    BY <2>1, <2>2, <2>5 DEF Ends
  <2> QED BY <1>a, <2>1, <2>2, <2>4, <2>6
<1>4. CASE PassOver
  <2>1. /\ ending = "none" /\ Top.todo # <<>> /\ calls' = Advanced /\ Head(Top.todo).from # Top.unit
        /\ UNCHANGED <<imports, loaded, namespaces, merged, ending>>
    BY <1>4 DEF PassOver, Doing, PassedOver
  <2>2. LoadTypes /\ CallsInv /\ Pending /\ NoLoops
    BY <2>1
  <2>3. LoadTypes' /\ CallsInv' /\ Drop(Len(calls))
    BY <2>1, <2>2, AdvanceStep
  <2>4. Len(calls) \in DOMAIN calls /\ Top = calls[Len(calls)]
    BY <2>2, TopFacts
  <2>5. Pending'
    BY <2>1, <2>2, <2>3, <2>4, PendingDrop
  <2> QED BY <1>c, <2>1, <2>2, <2>3, <2>5 DEF Ends
<1>5. CASE ImportAgain
  <2>1. LoadTypes /\ CallsInv /\ Pending /\ NoLoops /\ ending = "none"
    BY <1>5 DEF ImportAgain, Importable, Doing
  <2>2. /\ UNCHANGED <<imports, loaded>> /\ Top.todo # <<>> /\ Target \in loaded
        /\ Target = Goal(Head(Top.todo))
        /\ \/ ending' = "name conflict" /\ UNCHANGED <<calls, namespaces, merged>>
           \/ Takes(calls, merged, <<>>, Target)
    BY <1>5, <2>1, AgainFacts
  <2>3. CASE ending' = "name conflict" /\ UNCHANGED <<calls, namespaces, merged>>
    <3>1. loaded' \subseteq Unit
      BY <2>1, <2>2 DEF LoadTypes
    <3>2. LoadTypes'
      BY <2>1, <2>2, <2>3, <3>1, StayStep
    <3> QED BY <2>3, <3>2 DEF Ends
  <2>4. CASE ending' # "name conflict"
    <3>1. LoadTypes' /\ CallsInv' /\ Drop(Len(calls)) /\ UNCHANGED ending
      BY <1>5, <2>1, <2>2, <2>4, AgainStep DEF NoConflict, Takes
    <3>2. Len(calls) \in DOMAIN calls /\ Top = calls[Len(calls)]
      BY <2>1, TopFacts
    <3>3. Pending'
      BY <2>1, <2>2, <3>1, <3>2, PendingDrop
    <3>4. NoLoops' /\ Ends'
      BY <1>c, <2>1, <2>2, <3>1 DEF Ends
    <3> QED BY <3>1, <3>3, <3>4
  <2> QED BY <2>1, <2>2, <2>3, <2>4 DEF Takes
<1>6. CASE ImportFirst
  <2>1. LoadTypes /\ CallsInv /\ Pending /\ NoLoops /\ ending = "none"
    BY <1>6 DEF ImportFirst, Importable, Doing
  <2>2. LoadTypes' /\ CallsInv' /\ UNCHANGED <<imports, loaded, ending>>
    BY <1>6, <2>1, PushStep
  <2>3. Pending'
    BY <1>6, <2>1, PendingPush
  <2> QED BY <1>c, <2>1, <2>2, <2>3 DEF Ends
<1>7. CASE ModuleEnds
  <2>1. LoadTypes /\ CallsInv /\ Pending /\ NoLoops /\ ending = "none"
    BY <1>7 DEF ModuleEnds
  <2>2. /\ UNCHANGED imports /\ loaded' = loaded \cup {Top.unit}
        /\ Len(calls) > 1 /\ Top.unit \in Unit /\ Top.todo = <<>>
        /\ Last(Front(calls)).todo # <<>> /\ Head(Last(Front(calls)).todo).do = "import"
        /\ Goal(Head(Last(Front(calls)).todo)) = Top.unit
        /\ \/ ending' = "name conflict" /\ UNCHANGED <<calls, namespaces, merged>>
           \/ Takes(Front(calls), SubSeq(merged, 1, Top.start), Written, Top.unit)
    BY <1>7, <2>1, EndsFacts
  <2>3. CASE ending' = "name conflict" /\ UNCHANGED <<calls, namespaces, merged>>
    <3>1. loaded' \subseteq Unit
      BY <2>1, <2>2 DEF LoadTypes
    <3>2. LoadTypes'
      BY <2>1, <2>2, <2>3, <3>1, StayStep
    <3> QED BY <2>3, <3>2 DEF Ends
  <2>4. CASE ending' # "name conflict"
    <3>1. LoadTypes' /\ CallsInv' /\ Drop(Len(calls) - 1) /\ UNCHANGED ending
      BY <1>7, <2>1, <2>2, <2>4, EndsStep DEF NoConflict, Takes
    <3>2. /\ Len(calls) - 1 \in DOMAIN calls /\ Last(Front(calls)) = calls[Len(calls) - 1]
          /\ Len(calls) \in DOMAIN calls /\ Top = calls[Len(calls)]
      BY <2>1, <2>2, FrontFacts, TopFacts
    <3>3. Pending'
      BY <2>1, <2>2, <3>1, <3>2, PendingDrop
    <3>4. Top.unit \notin loaded /\ Targets(Top.unit) \subseteq loaded
      <4>1. \A m \in DOMAIN calls[Len(calls)].todo : FALSE
        <5>1. ASSUME NEW t \in Seq(Item), t = <<>>
              PROVE  \A m \in DOMAIN t : FALSE
          <6>1. ASSUME NEW r \in Seq(Item), NEW m \in DOMAIN r PROVE Len(r) # 0
            <7>1. Len(r) \in Nat /\ DOMAIN r = 1..Len(r)
              BY ONLY r \in Seq(Item)
            <7> HIDE DEF Item
            <7>2. \A l \in Nat : m \in 1..l => l # 0
              BY ONLY TRUE
            <7> QED BY <6>1, <7>1, <7>2
          <6>2. Len(<<>>) = 0
            OBVIOUS
          <6> QED BY <5>1, <6>1, <6>2
        <5>2. calls[Len(calls)].todo \in Seq(Item) /\ calls[Len(calls)].todo = <<>>
          BY <2>1, <2>2, <3>2, TopFacts
        <5> QED BY <5>1, <5>2
      <4>2. Top.unit \notin loaded
        BY <2>1, <3>2 DEF CallsInv
      <4>3. \A imp \in ToSet(ImportsOf(calls[Len(calls)].unit)) :
              Resolved(calls[Len(calls)].unit, imp.path) \in loaded
        BY <2>1, <3>2, <4>1 DEF Pending
      <4> QED BY <3>2, <4>2, <4>3 DEF Targets
    <3>5. NoLoops'
      BY <2>1, <2>2, <3>4, LoopStep
    <3>6. Ends'
      BY <2>1, <3>1 DEF Ends
    <3> QED BY <3>1, <3>3, <3>5, <3>6
  <2> QED BY <2>1, <2>2, <2>3, <2>4 DEF Takes
<1>8. CASE CheckEntry
  <2>1. Doing("check") /\ (Fails("name conflict") \/ (calls' = Advanced /\ UNCHANGED <<imports, loaded, namespaces, merged, ending>>))
    BY <1>8 DEF CheckEntry
  <2>2. ending = "none" /\ Top.todo # <<>> /\ Head(Top.todo).do = "check" /\ LoadTypes /\ CallsInv /\ Pending /\ NoLoops
    BY <2>1 DEF Doing
  <2>3. CASE Fails("name conflict")
    BY <1>b, <2>2, <2>3
  <2>4. CASE calls' = Advanced /\ UNCHANGED <<imports, loaded, namespaces, merged, ending>>
    <3>1. LoadTypes' /\ CallsInv' /\ Drop(Len(calls))
      BY <2>2, <2>4, AdvanceStep
    <3>2. Len(calls) \in DOMAIN calls /\ Top = calls[Len(calls)]
      BY <2>2, TopFacts
    <3>3. Pending'
      BY <2>2, <2>4, <3>1, <3>2, PendingDrop
    <3> QED BY <1>c, <2>2, <2>4, <3>1, <3>3 DEF Ends
  <2> QED BY <2>1, <2>3, <2>4
<1>9. CASE ReadSibling
  <2>1. LoadTypes /\ CallsInv /\ Pending /\ NoLoops /\ ending = "none"
    BY <1>9 DEF ReadSibling, Doing
  <2>2. LoadTypes' /\ CallsInv' /\ UNCHANGED <<imports, loaded, ending>>
    BY <1>9, <2>1, ReadStep
  <2>3. Pending'
    BY <1>9, <2>1, PendingRead
  <2> QED BY <1>c, <2>1, <2>2, <2>3 DEF Ends
<1>10. CASE AddSibling
  <2>1. /\ ending = "none" /\ Top.todo # <<>> /\ calls' = Advanced /\ Head(Top.todo).do = "sibling"
        /\ merged' = merged \o Body(Head(Top.todo).from)
        /\ UNCHANGED <<imports, loaded, namespaces, ending>>
    BY <1>10 DEF AddSibling, Doing
  <2>2. LoadTypes /\ CallsInv /\ Pending /\ NoLoops
    BY <2>1
  <2>3. Len(calls) \in DOMAIN calls /\ Top = calls[Len(calls)] /\ Head(Top.todo) \in Item
    BY <2>1, <2>2, TopFacts
  <2>4. Head(Top.todo).from \in Unit
    BY <2>3, ItemFacts
  <2>5. LoadTypes' /\ CallsInv' /\ Drop(Len(calls))
    BY <2>1, <2>2, <2>4, AdvanceStep
  <2>6. Pending'
    BY <2>1, <2>2, <2>3, <2>5, PendingDrop
  <2> QED BY <1>c, <2>1, <2>2, <2>5, <2>6 DEF Ends
<1>11. CASE EntryEnds
  <2>1. /\ ending = "none" /\ Len(calls) = 1 /\ Top.todo = <<>> /\ merged' = merged \o Body(Entry)
        /\ ending' = "ok" /\ UNCHANGED <<imports, calls, loaded, namespaces>>
    BY <1>11 DEF EntryEnds
  <2>2. LoadTypes /\ CallsInv /\ Pending /\ NoLoops
    BY <2>1
  <2>3. loaded' \subseteq Unit
    BY <2>1, <2>2 DEF LoadTypes
  <2>4. LoadTypes' /\ CallsInv'
    BY <2>1, <2>2, <2>3, StayStep
  <2>5. calls'[1].todo = <<>>
    BY <2>1 DEF Top, Last
  <2> QED BY <1>a, <2>1, <2>2, <2>4, <2>5 DEF Ends
<1>12. CASE UNCHANGED loadVars
  <2>1. UNCHANGED <<imports, calls, loaded, namespaces, merged, ending>>
    BY <1>12 DEF loadVars
  <2>2. loaded' \subseteq Unit /\ LoadTypes
    BY <2>1 DEF LoadTypes
  <2>3. LoadTypes' /\ (CallsInv => CallsInv')
    BY <2>1, <2>2, StayStep
  <2>4. \A u : ImportsOf(u)' = ImportsOf(u) /\ Targets(u)' = Targets(u)
    BY <2>1, SameImports
  <2>5. (Pending => Pending') /\ (NoLoops => NoLoops')
    BY <2>1, <2>4 DEF Pending, NoLoops, From
  <2>6. Ends'
    BY <2>1 DEF Ends, Top, Loading, Goal
  <2> QED BY <2>1, <2>3, <2>5, <2>6
<1> QED BY <1>1, <1>2, <1>3, <1>4, <1>5, <1>6, <1>7, <1>8, <1>9, <1>10, <1>11, <1>12 DEF LoadNext

\* A build does not change what the loader has done.
LEMMA ToolLoadInv == ToolSpec => []LoadInv
<1>1. ToolInit => LoadInv
  BY LoadInitInv DEF ToolInit
<1>2. LoadInv /\ [Load \/ BuildLoaded]_<<loadVars, buildVars>> => LoadInv'
  <2>1. [Load \/ BuildLoaded]_<<loadVars, buildVars>> => [LoadNext]_loadVars
    BY DEF Load, BuildLoaded
  <2> QED BY <2>1, LoadStepInv
<1> QED BY <1>1, <1>2, PTL DEF ToolSpec

\* A program with a cycle among the imports that are followed is never loaded
\* to its end, and a program is rejected for a cycle only if there is one:
\* internal/runner, loadSource.
THEOREM CycleFoundCorrect == ToolSpec => []CycleFound
BY ToolLoadInv, InvCycleFound, PTL

-----------------------------------------------------------------------------
(* The merged text.                                                        *)

\* A text T of which the units L have been written, with the namespaces N, the
\* files under names that U gives them.
Defining(T) == {i \in DOMAIN T : T[i].kind \in {"class", "script"}}

DefinedIn(T) == {T[i].file : i \in Defining(T)}

\* What defines: a file once, those of L all and no others but siblings.
Once(T) == \A i, j \in Defining(T) : T[i].file = T[j].file => i = j
Full(T, L) == \A v \in L : \A f \in PublicFiles(v) : \E j \in Defining(T) : T[j].file = f
Sourced(T, L) ==
  \A i \in Defining(T) : T[i].file \in InProgram \/ \E v \in L : T[i].file \in PublicFiles(v)
Named(T, U) == \A i \in DOMAIN T : T[i].kind = "class" => <<T[i].file, T[i].name[2]>> \in U

\* The namespaces: each is created once.
SpacesMade(T, N) ==
  /\ \A i \in DOMAIN T : T[i].kind = "namespace" => T[i].name[2] \in N
  /\ \A i, j \in DOMAIN T : T[i].kind = "namespace" /\ T[i] = T[j] => i = j
  /\ \A sp \in N : \E i \in DOMAIN T : T[i] = NewSpace(sp)

\* A binding comes after the class and the namespaces it needs.
BoundAt(T, i) ==
  /\ \E j \in DOMAIN T : j < i /\ T[j].kind = "class" /\ T[j].name = T[i].name
  /\ \A sp \in ToSet(Spaces(T[i].name[2])) : \E j \in DOMAIN T : j < i /\ T[j] = NewSpace(sp)
BoundAfter(T) == \A i \in DOMAIN T : T[i].kind = "binding" => BoundAt(T, i)

\* A unit comes after what it imports.
InOrder(T, L) ==
  \A u \in L : \A v \in Targets(u) : \A i, j \in Defining(T) :
    T[i].file \in PublicFiles(v) /\ T[j].file \in PublicFiles(u) => i < j

Text(T, L, N, U) ==
  /\ Once(T) /\ Full(T, L) /\ Sourced(T, L) /\ Named(T, U)
  /\ SpacesMade(T, N) /\ BoundAfter(T) /\ InOrder(T, L)

\* The units whose imports count, and those that have been written.
Met == Followed \cup Loading
Finished == IF ending = "ok" THEN Followed ELSE loaded

\* The siblings still to come are not written yet, and come once.
ToCome == {k \in DOMAIN calls[1].todo : calls[1].todo[k].do \in {"read", "sibling"}}
Awaited ==
  /\ \A k \in ToCome : calls[1].todo[k].from \notin DefinedIn(merged)
  /\ \A k, l \in ToCome : calls[1].todo[k].from = calls[1].todo[l].from => k = l

\* While the importers agree, what has been merged is such a text.
TextInv ==
  ending \in {"none", "ok"} /\ Agreed(Met) =>
    /\ Text(merged, Finished, namespaces, Uses(Met))
    /\ Awaited
    /\ \A v \in loaded : IsClassLike(v) => v \in Imported(Met)

-----------------------------------------------------------------------------
(* Longer texts.                                                           *)

\* The text c is the n lines of T and then D.
Continues(c, T, n, D) ==
  /\ c \in Seq(Line) /\ n \in Nat /\ DOMAIN T = 1..n /\ DOMAIN c \subseteq Nat
  /\ \A i \in DOMAIN T : i \in DOMAIN c /\ c[i] = T[i] /\ i \in Nat /\ i <= n
  /\ \A k \in DOMAIN D : /\ n + k \in DOMAIN c /\ c[n + k] = D[k] /\ n + k \notin DOMAIN T
                         /\ k \in Nat /\ n < n + k
  /\ \A i \in DOMAIN c : i \in DOMAIN T \/ \E k \in DOMAIN D : i = n + k

LEMMA JoinFacts ==
  ASSUME NEW T \in Seq(Line), NEW D \in Seq(Line)
  PROVE  Continues(T \o D, T, Len(T), D)
<1> DEFINE c == T \o D
           n == Len(T)
           m == Len(D)
<1>1. /\ n \in Nat /\ m \in Nat /\ DOMAIN T = 1..n /\ DOMAIN D = 1..m
      /\ c \in Seq(Line) /\ Len(c) = n + m /\ DOMAIN c = 1..(n + m)
      /\ \A i \in 1..(n + m) : c[i] = IF i <= n THEN T[i] ELSE D[i - n]
  OBVIOUS
<1> HIDE DEF c, n, m
<1>2. ASSUME NEW i \in 1..n PROVE i \in 1..(n + m) /\ c[i] = T[i] /\ i \in Nat /\ i <= n
  BY <1>1
<1>3. ASSUME NEW k \in 1..m
      PROVE  n + k \in 1..(n + m) /\ c[n + k] = D[k] /\ n + k \notin 1..n /\ k \in Nat /\ n < n + k
  <2>1. /\ n + k \in 1..(n + m) /\ ~(n + k <= n) /\ (n + k) - n = k /\ n + k \notin 1..n
        /\ k \in Nat /\ n < n + k
    BY <1>1
  <2> QED BY <1>1, <2>1
<1>4. ASSUME NEW i \in 1..(n + m), i \notin 1..n PROVE \E k \in 1..m : i = n + k
  <2>1. i - n \in 1..m /\ i = n + (i - n)
    BY <1>1, <1>4
  <2> QED BY <2>1
<1>5. Continues(c, T, n, D)
  <2>1. 1..(n + m) \subseteq Nat
    BY <1>1
  <2>2. \A i \in DOMAIN T : i \in DOMAIN c /\ c[i] = T[i] /\ i \in Nat /\ i <= n
    BY <1>1, <1>2
  <2>3. \A k \in DOMAIN D : /\ n + k \in DOMAIN c /\ c[n + k] = D[k] /\ n + k \notin DOMAIN T
                           /\ k \in Nat /\ n < n + k
    BY <1>1, <1>3
  <2>4. \A i \in DOMAIN c : i \in DOMAIN T \/ \E k \in DOMAIN D : i = n + k
    BY <1>1, <1>4
  <2> QED BY <1>1, <2>1, <2>2, <2>3, <2>4 DEF Continues
<1> QED BY <1>5 DEF c, n

\* What defines in a longer text.
LEMMA DefiningMore ==
  ASSUME NEW c, NEW T, NEW n, NEW D, Continues(c, T, n, D)
  PROVE  /\ Defining(D) \subseteq DOMAIN D /\ Defining(T) \subseteq DOMAIN T
         /\ \A i \in Defining(T) : i \in Defining(c) /\ c[i] = T[i] /\ i \in Nat /\ i <= n
         /\ \A k \in Defining(D) : n + k \in Defining(c) /\ c[n + k] = D[k] /\ k \in Nat
         /\ \A i \in Defining(c) : \/ i \in Defining(T) /\ c[i] = T[i]
                                   \/ \E k \in Defining(D) : i = n + k /\ c[i] = D[k]
BY DEF Defining, Continues

LEMMA DefinedMore ==
  ASSUME NEW c, NEW T, NEW n, NEW D, Continues(c, T, n, D)
  PROVE  DefinedIn(c) = DefinedIn(T) \cup DefinedIn(D)
BY DefiningMore DEF DefinedIn

\* Definitions of files that have not been defined, and with them some units.
LEMMA DefineMore ==
  ASSUME NEW c, NEW T, NEW n, NEW D, Continues(c, T, n, D),
         NEW L, NEW L2, NEW N, NEW U, Text(T, L, N, U),
         \A k \in DOMAIN D : D[k].kind \in {"class", "script"},
         \A k, l \in DOMAIN D : D[k].file = D[l].file => k = l,
         \A k \in DOMAIN D, i \in Defining(T) : D[k].file # T[i].file,
         \A k \in DOMAIN D : D[k].kind = "class" => <<D[k].file, D[k].name[2]>> \in U,
         \A k \in DOMAIN D : D[k].file \in InProgram \/ \E v \in L2 : D[k].file \in PublicFiles(v),
         L \subseteq L2,
         \A v \in L2 : v \notin L => \A f \in PublicFiles(v) : \E k \in DOMAIN D : D[k].file = f,
         \A v \in L2 : Targets(v) \subseteq L
  PROVE  Text(c, L2, N, U)
<1>1. /\ n \in Nat /\ DOMAIN T = 1..n
      /\ \A i \in DOMAIN T : i \in DOMAIN c /\ c[i] = T[i] /\ i \in Nat /\ i <= n
      /\ \A k \in DOMAIN D : /\ n + k \in DOMAIN c /\ c[n + k] = D[k] /\ k \in Nat /\ n < n + k
                            /\ k \in Defining(D)
      /\ \A i \in DOMAIN c : i \in DOMAIN T \/ \E k \in DOMAIN D : i = n + k
  BY DEF Defining, Continues
<1>2. /\ Defining(D) \subseteq DOMAIN D /\ Defining(T) \subseteq DOMAIN T
      /\ \A i \in Defining(T) : i \in Defining(c) /\ c[i] = T[i] /\ i \in Nat /\ i <= n
      /\ \A k \in Defining(D) : n + k \in Defining(c) /\ c[n + k] = D[k] /\ k \in Nat
      /\ \A i \in Defining(c) : \/ i \in Defining(T) /\ c[i] = T[i]
                                \/ \E k \in Defining(D) : i = n + k /\ c[i] = D[k]
  BY DefiningMore
<1> USE DEF Text
<1>3. Once(c)
  <2> SUFFICES ASSUME NEW i \in Defining(c), NEW j \in Defining(c), c[i].file = c[j].file
               PROVE  i = j
    BY DEF Once
  <2>1. CASE i \in Defining(T) /\ j \in Defining(T)
    BY <1>2, <2>1 DEF Once
  <2>2. CASE i \in Defining(T) /\ j \notin Defining(T)
    BY <1>2, <2>2
  <2>3. CASE i \notin Defining(T) /\ j \in Defining(T)
    BY <1>2, <2>3
  <2>4. CASE i \notin Defining(T) /\ j \notin Defining(T)
    BY <1>2, <2>4
  <2> QED BY <2>1, <2>2, <2>3, <2>4
<1>4. Full(c, L2)
  <2> SUFFICES ASSUME NEW v \in L2, NEW f \in PublicFiles(v) PROVE \E j \in Defining(c) : c[j].file = f
    BY DEF Full
  <2>1. CASE v \in L
    <3>1. PICK j \in Defining(T) : T[j].file = f
      BY <2>1 DEF Full
    <3> QED BY <1>2, <3>1
  <2>2. CASE v \notin L
    <3>1. PICK k \in DOMAIN D : D[k].file = f
      BY <2>2
    <3>2. k \in Defining(D) /\ n + k \in Defining(c) /\ c[n + k] = D[k]
      BY <1>1, <1>2
    <3> QED BY <3>1, <3>2
  <2> QED BY <2>1, <2>2
<1>5. Sourced(c, L2)
  <2> SUFFICES ASSUME NEW i \in Defining(c)
               PROVE  c[i].file \in InProgram \/ \E v \in L2 : c[i].file \in PublicFiles(v)
    BY DEF Sourced
  <2>1. CASE i \in Defining(T)
    BY <1>2, <2>1 DEF Sourced
  <2>2. CASE i \notin Defining(T)
    BY <1>2, <2>2
  <2> QED BY <2>1, <2>2
<1>6. Named(c, U)
  <2> SUFFICES ASSUME NEW i \in DOMAIN c, c[i].kind = "class" PROVE <<c[i].file, c[i].name[2]>> \in U
    BY DEF Named
  <2>1. CASE i \in DOMAIN T
    BY <1>1, <2>1 DEF Named
  <2>2. CASE i \notin DOMAIN T
    BY <1>1, <2>2
  <2> QED BY <2>1, <2>2
<1>7. ASSUME NEW i \in DOMAIN c, c[i].kind \in {"namespace", "binding"}
      PROVE  i \in DOMAIN T /\ c[i] = T[i]
  <2>1. ASSUME NEW k \in DOMAIN D, i = n + k PROVE FALSE
    <3>1. c[i] = D[k] /\ D[k].kind \in {"class", "script"}
      BY <1>1, <2>1
    <3> QED BY <1>7, <3>1
  <2> QED BY <1>1, <2>1
<1>8. SpacesMade(c, N)
  <2>1. \A i \in DOMAIN c : c[i].kind = "namespace" => c[i].name[2] \in N
    BY <1>7 DEF SpacesMade
  <2>2. \A i, j \in DOMAIN c : c[i].kind = "namespace" /\ c[i] = c[j] => i = j
    BY <1>7 DEF SpacesMade
  <2>3. \A sp \in N : \E i \in DOMAIN c : c[i] = NewSpace(sp)
    BY <1>1 DEF SpacesMade
  <2> QED BY <2>1, <2>2, <2>3 DEF SpacesMade
<1>9. BoundAfter(c)
  <2> SUFFICES ASSUME NEW i \in DOMAIN c, c[i].kind = "binding"
               PROVE  BoundAt(c, i)
    BY DEF BoundAfter
  <2>1. i \in DOMAIN T /\ c[i] = T[i] /\ T[i].kind = "binding"
    BY <1>7
  <2> QED BY <1>1, <2>1 DEF BoundAfter, BoundAt
<1>10. InOrder(c, L2)
  <2> SUFFICES ASSUME NEW u \in L2, NEW v \in Targets(u), NEW i \in Defining(c), NEW j \in Defining(c),
                      c[i].file \in PublicFiles(v), c[j].file \in PublicFiles(u)
               PROVE  i < j
    BY DEF InOrder
  <2>1. v \in L
    OBVIOUS
  <2>2. i \in Defining(T) /\ c[i] = T[i]
    <3>1. PICK l \in Defining(T) : T[l].file = c[i].file
      BY <2>1 DEF Full
    <3>2. l = i
      BY <1>2, <1>3, <3>1 DEF Once
    <3> QED BY <1>2, <3>1, <3>2
  <2>3. CASE j \in Defining(T)
    <3>1. c[j] = T[j]
      BY <1>2, <2>3
    <3>2. u \in L
      <4> SUFFICES ASSUME u \notin L PROVE FALSE
        OBVIOUS
      <4>1. PICK k \in DOMAIN D : D[k].file = c[j].file
        OBVIOUS
      <4> QED BY <2>3, <3>1, <4>1
    <3> QED BY <2>2, <2>3, <3>1, <3>2 DEF InOrder
  <2>4. CASE j \notin Defining(T)
    <3>1. PICK k \in Defining(D) : j = n + k
      BY <1>2, <2>4
    <3>2. n < n + k /\ k \in Nat
      BY <1>1, <1>2, <3>1
    <3>3. i <= n /\ i \in Nat
      BY <1>2, <2>2
    <3> QED BY <1>1, <3>1, <3>2, <3>3
  <2> QED BY <2>3, <2>4
<1> QED BY <1>3, <1>4, <1>5, <1>6, <1>8, <1>9, <1>10

\* Lines that define nothing leave what is said of definitions.
LEMMA SameDefinitions ==
  ASSUME NEW c, NEW T, NEW n, NEW D, Continues(c, T, n, D), NEW L, NEW N, NEW U, Text(T, L, N, U),
         \A k \in DOMAIN D : D[k].kind \notin {"class", "script"}
  PROVE  Once(c) /\ Full(c, L) /\ Sourced(c, L) /\ Named(c, U) /\ InOrder(c, L)
<1>1. /\ \A i \in DOMAIN T : i \in DOMAIN c /\ c[i] = T[i]
      /\ \A k \in DOMAIN D : c[n + k] = D[k]
      /\ \A i \in DOMAIN c : i \in DOMAIN T \/ \E k \in DOMAIN D : i = n + k
  BY DEF Continues
<1>2. \A i \in DOMAIN c : c[i].kind \in {"class", "script"} => i \in DOMAIN T /\ c[i] = T[i]
  BY <1>1
<1>3. Defining(c) = Defining(T) /\ \A i \in Defining(c) : c[i] = T[i]
  BY <1>1, <1>2 DEF Defining
<1>4. Named(c, U)
  BY <1>2 DEF Text, Named
<1>5. Once(c) /\ Full(c, L) /\ Sourced(c, L) /\ InOrder(c, L)
  BY <1>3 DEF Text, Once, Full, Sourced, InOrder
<1> QED BY <1>4, <1>5

\* The namespaces of S that had not been created.
LEMMA SpaceMore ==
  ASSUME NEW c, NEW T, NEW n, NEW D, Continues(c, T, n, D), NEW L, NEW N, NEW U, Text(T, L, N, U),
         NEW S, IsInjective(D), ToSet(D) = {NewSpace(sp) : sp \in S \ N}
  PROVE  Text(c, L, N \cup S, U)
<1>1. /\ \A i \in DOMAIN T : i \in DOMAIN c /\ c[i] = T[i]
      /\ \A k \in DOMAIN D : n + k \in DOMAIN c /\ c[n + k] = D[k]
      /\ \A i \in DOMAIN c : i \in DOMAIN T \/ \E k \in DOMAIN D : i = n + k
  BY DEF Continues
<1>2. \A k \in DOMAIN D : \E sp \in S \ N : D[k] = NewSpace(sp)
  BY DEF ToSet
<1>3. \A sp : NewSpace(sp).kind = "namespace" /\ NewSpace(sp).name[2] = sp
  BY DEF NewSpace
<1>4. \A k \in DOMAIN D : D[k].kind = "namespace" /\ D[k].name[2] \in S \ N
  BY <1>2, <1>3
<1>5. Once(c) /\ Full(c, L) /\ Sourced(c, L) /\ Named(c, U) /\ InOrder(c, L)
  BY <1>4, SameDefinitions
<1>6. SpacesMade(c, N \cup S)
  <2>1. \A i \in DOMAIN c : c[i].kind = "namespace" => c[i].name[2] \in N \cup S
    BY <1>1, <1>4 DEF Text, SpacesMade
  <2>2. ASSUME NEW i \in DOMAIN c, NEW j \in DOMAIN c, c[i].kind = "namespace", c[i] = c[j]
        PROVE  i = j
    <3>1. CASE i \in DOMAIN T /\ j \in DOMAIN T
      BY <1>1, <2>2, <3>1 DEF Text, SpacesMade
    <3>2. ASSUME NEW a \in DOMAIN T, NEW b \in DOMAIN D, T[a] = D[b] PROVE FALSE
      BY <1>4, <3>2 DEF Text, SpacesMade
    <3>3. CASE i \in DOMAIN T /\ j \notin DOMAIN T
      BY <1>1, <2>2, <3>2, <3>3
    <3>4. CASE i \notin DOMAIN T /\ j \in DOMAIN T
      BY <1>1, <2>2, <3>2, <3>4
    <3>5. CASE i \notin DOMAIN T /\ j \notin DOMAIN T
      <4>1. PICK k \in DOMAIN D, l \in DOMAIN D : i = n + k /\ j = n + l
        BY <1>1, <3>5
      <4>2. D[k] = D[l]
        BY <1>1, <2>2, <4>1
      <4> QED BY <4>1, <4>2 DEF IsInjective
    <3> QED BY <3>1, <3>3, <3>4, <3>5
  <2>3. ASSUME NEW sp \in N \cup S PROVE \E i \in DOMAIN c : c[i] = NewSpace(sp)
    <3>1. CASE sp \in N
      BY <1>1, <3>1 DEF Text, SpacesMade
    <3>2. CASE sp \notin N
      <4>1. NewSpace(sp) \in ToSet(D)
        BY <2>3, <3>2
      <4>2. PICK k \in DOMAIN D : D[k] = NewSpace(sp)
        BY <4>1 DEF ToSet
      <4> QED BY <1>1, <4>2
    <3> QED BY <3>1, <3>2
  <2> QED BY <2>1, <2>2, <2>3 DEF SpacesMade
<1>7. BoundAfter(c)
  <2> SUFFICES ASSUME NEW i \in DOMAIN c, c[i].kind = "binding"
               PROVE  BoundAt(c, i)
    BY DEF BoundAfter
  <2>1. i \in DOMAIN T /\ c[i] = T[i] /\ T[i].kind = "binding"
    BY <1>1, <1>4
  <2> QED BY <1>1, <2>1 DEF BoundAfter, BoundAt, Text
<1> QED BY <1>5, <1>6, <1>7 DEF Text

\* Bindings of classes that are defined in namespaces that are created.
LEMMA BindMore ==
  ASSUME NEW c, NEW T, NEW n, NEW D, Continues(c, T, n, D), NEW L, NEW N, NEW U, Text(T, L, N, U),
         \A k \in DOMAIN D : /\ D[k].kind = "binding"
                             /\ \E j \in DOMAIN T : T[j].kind = "class" /\ T[j].name = D[k].name
                             /\ ToSet(Spaces(D[k].name[2])) \subseteq N
  PROVE  Text(c, L, N, U)
<1>1. /\ n \in Nat
      /\ \A i \in DOMAIN T : i \in DOMAIN c /\ c[i] = T[i] /\ i \in Nat /\ i <= n
      /\ \A k \in DOMAIN D : n + k \in DOMAIN c /\ c[n + k] = D[k] /\ k \in Nat /\ n < n + k
      /\ \A i \in DOMAIN c : i \in DOMAIN T \/ \E k \in DOMAIN D : i = n + k
  BY DEF Continues
<1>2. Once(c) /\ Full(c, L) /\ Sourced(c, L) /\ Named(c, U) /\ InOrder(c, L)
  <2>1. \A k \in DOMAIN D : D[k].kind \notin {"class", "script"}
    OBVIOUS
  <2> QED BY <2>1, SameDefinitions
<1>3. \A i \in DOMAIN c : c[i].kind = "namespace" => i \in DOMAIN T /\ c[i] = T[i]
  BY <1>1
<1>4. SpacesMade(c, N)
  BY <1>1, <1>3 DEF Text, SpacesMade
<1>5. BoundAfter(c)
  <2> SUFFICES ASSUME NEW i \in DOMAIN c, c[i].kind = "binding"
               PROVE  BoundAt(c, i)
    BY DEF BoundAfter
  <2>1. CASE i \in DOMAIN T
    BY <1>1, <2>1 DEF BoundAfter, BoundAt, Text
  <2>2. CASE i \notin DOMAIN T
    <3>1. PICK k \in DOMAIN D : i = n + k
      BY <1>1, <2>2
    <3>2. c[i] = D[k] /\ n < i /\ i \in Nat
      BY <1>1, <3>1
    <3>3. \A j \in DOMAIN T : j \in DOMAIN c /\ c[j] = T[j] /\ j < i
      BY <1>1, <3>2
    <3>4. \A sp \in ToSet(Spaces(c[i].name[2])) : \E j \in DOMAIN T : T[j] = NewSpace(sp)
      BY <3>2 DEF Text, SpacesMade
    <3>5. \E j \in DOMAIN T : T[j].kind = "class" /\ T[j].name = c[i].name
      BY <3>2
    <3> QED BY <3>3, <3>4, <3>5 DEF BoundAt
  <2> QED BY <2>1, <2>2
<1> QED BY <1>2, <1>4, <1>5 DEF Text

-----------------------------------------------------------------------------
(* What is written for a unit.                                             *)

\* The definitions of a unit that is put into namespace ns.
SourceAs(u, ns) == IF IsClassLike(u) THEN Definitions(u, ns) ELSE Body(u)

\* The public files of a unit, each once.
LEMMA FileFacts ==
  ASSUME NEW u \in Unit
  PROVE  /\ \A i, j \in DOMAIN FilesOf(u) : FilesOf(u)[i] = FilesOf(u)[j] => i = j
         /\ \A i \in DOMAIN FilesOf(u) : FilesOf(u)[i] \in PublicFiles(u)
         /\ \A f \in PublicFiles(u) : \E i \in DOMAIN FilesOf(u) : FilesOf(u)[i] = f
         /\ u \in ClassFile => FilesOf(u) = <<u>> /\ u \notin Package
<1>1. \A i, j \in DOMAIN FilesOf(u) : FilesOf(u)[i] = FilesOf(u)[j] => i = j
  <2>1. CASE u \in Package
    BY <2>1, LoaderAssumption DEF FilesOf
  <2>2. CASE u \notin Package
    BY <2>2 DEF FilesOf
  <2> QED BY <2>1, <2>2
<1>2. u \in ClassFile => FilesOf(u) = <<u>> /\ u \notin Package
  BY LoaderAssumption DEF FilesOf
<1> QED BY <1>1, <1>2 DEF PublicFiles, ToSet

\* The lines of these definitions.
LEMMA SourceFacts ==
  ASSUME NEW u \in Unit, NEW ns \in Seq(Word) \cup {Plain}
  PROVE  /\ SourceAs(u, ns) \in Seq(Line) /\ Body(u) = SourceAs(u, Plain)
         /\ \A k \in DOMAIN SourceAs(u, ns) :
              /\ SourceAs(u, ns)[k].kind \in {"class", "script"}
              /\ SourceAs(u, ns)[k].kind = "class" => IsClassLike(u) /\ SourceAs(u, ns)[k].name[2] = ns
              /\ SourceAs(u, ns)[k].file \in PublicFiles(u)
         /\ \A k, l \in DOMAIN SourceAs(u, ns) : SourceAs(u, ns)[k].file = SourceAs(u, ns)[l].file => k = l
         /\ \A f \in PublicFiles(u) : \E k \in DOMAIN SourceAs(u, ns) : SourceAs(u, ns)[k].file = f
         /\ IsClassLike(u) => \A f \in PublicFiles(u) :
              \E k \in DOMAIN SourceAs(u, ns) : SourceAs(u, ns)[k] = Definition(f, ns)
<1>1. CASE IsClassLike(u)
  <2> DEFINE D == Definitions(u, ns)
  <2>1. SourceAs(u, ns) = D /\ D \in Seq(Line) /\ Body(u) = SourceAs(u, Plain)
    BY <1>1, TextTypes DEF SourceAs, Body, Definitions
  <2>2. DOMAIN D = DOMAIN FilesOf(u) /\ \A k \in DOMAIN D : D[k] = Definition(FilesOf(u)[k], ns)
    BY DEF Definitions
  <2> HIDE DEF D
  <2>3. \A k \in DOMAIN D : D[k].kind = "class" /\ D[k].name[2] = ns /\ D[k].file = FilesOf(u)[k]
    BY <2>2 DEF Definition
  <2>4. \A f \in PublicFiles(u) : \E k \in DOMAIN D : D[k] = Definition(f, ns) /\ D[k].file = f
    BY <2>2, <2>3, FileFacts
  <2> QED BY <1>1, <2>1, <2>2, <2>3, <2>4, FileFacts
<1>2. CASE ~IsClassLike(u)
  <2> DEFINE D == SourceAs(u, ns)
  <2>1. SourceAs(u, Plain) = Body(u) /\ D = Body(u) /\ Body(u) = <<TopLevel(u)>> /\ PublicFiles(u) = {u}
    BY <1>2, UnitFacts DEF SourceAs, Body
  <2>2. D \in Seq(Line)
    BY <2>1, TextTypes
  <2>3. DOMAIN D = {1} /\ D[1].kind = "script" /\ D[1].file = u
    BY <2>1 DEF TopLevel
  <2> HIDE DEF D
  <2>4. /\ \A k \in DOMAIN D : k = 1 /\ D[k].kind = "script" /\ D[k].file \in PublicFiles(u)
        /\ \A f \in PublicFiles(u) : 1 \in DOMAIN D /\ D[1].file = f
    BY <2>1, <2>3
  <2>5. D \in Seq(Line) /\ Body(u) = SourceAs(u, Plain)
    BY <2>1, <2>2
  <2> QED BY <1>2, <2>4, <2>5 DEF D
<1> QED BY <1>1, <1>2

\* What is written for a unit that has been loaded.
LEMMA WrappedAgain ==
  ASSUME NEW u \in Unit, NEW ns \in Seq(Word) \cup {Plain}, ns # Plain => IsClassLike(u)
  PROVE  /\ ns = Plain => Wrapped(<<>>, u, ns) = <<>>
         /\ ns # Plain => Wrapped(<<>>, u, ns) = Prelude(ns) \o Bindings(u, ns)
<1>1. ns = Plain => Wrapped(<<>>, u, ns) = <<>>
  BY DEF Wrapped
<1>2. ASSUME ns # Plain PROVE Wrapped(<<>>, u, ns) = Prelude(ns) \o Bindings(u, ns)
  <2>1. Wrapped(<<>>, u, ns) = InNamespace(<<>>, u, ns)
    BY <1>2 DEF Wrapped
  <2>2. Renamed(<<>>, PublicNames(u), ns) = <<>>
    BY DEF Renamed
  <2>3. Prelude(ns) \in Seq(Line)
    BY <1>2, TextTypes
  <2>4. InNamespace(<<>>, u, ns) = Renamed(<<>>, PublicNames(u), ns) \o Prelude(ns) \o Bindings(u, ns)
    BY DEF InNamespace, Bindings
  <2>5. <<>> \o Prelude(ns) = Prelude(ns)
    BY <2>3
  <2> QED BY <2>1, <2>2, <2>4, <2>5
<1> QED BY <1>1, <1>2

\* The definitions of a unit are renamed.
LEMMA RenamedBody ==
  ASSUME NEW u \in Unit, NEW ns \in Seq(Word), IsClassLike(u)
  PROVE  Renamed(Body(u), PublicNames(u), ns) = Definitions(u, ns)
<1>1. Body(u) = [i \in DOMAIN FilesOf(u) |-> Definition(FilesOf(u)[i], Plain)]
  BY DEF Body
<1>2. ASSUME NEW i \in DOMAIN FilesOf(u)
      PROVE  /\ Body(u)[i].kind = "class" /\ Body(u)[i].file = FilesOf(u)[i]
             /\ Body(u)[i].name \in PublicNames(u) \X {Plain}
  <2>1. FilesOf(u)[i] \in PublicFiles(u)
    BY FileFacts
  <2> QED BY <1>1, <2>1 DEF Definition, PublicNames
<1>3. DOMAIN Body(u) = DOMAIN FilesOf(u)
  BY <1>1
<1> QED BY <1>2, <1>3 DEF Renamed, Definitions

\* Two texts put together, by position.
LEMMA JoinedLines ==
  ASSUME NEW a \in Seq(Line), NEW b \in Seq(Line)
  PROVE  /\ a \o b \in Seq(Line) /\ Len(a \o b) = Len(a) + Len(b)
         /\ \A i \in 1..(Len(a) + Len(b)) : (a \o b)[i] = IF i <= Len(a) THEN a[i] ELSE b[i - Len(a)]
OBVIOUS

\* Nothing is renamed where none of the names is defined.
LEMMA RenamedOthers ==
  ASSUME NEW s \in Seq(Line), NEW t \in Seq(Line), NEW names, NEW ns \in Seq(Word),
         \A i \in DOMAIN s : s[i].kind = "class" => s[i].name \notin names \X {Plain},
         Renamed(t, names, ns) \in Seq(Line), Len(Renamed(t, names, ns)) = Len(t)
  PROVE  Renamed(s \o t, names, ns) = s \o Renamed(t, names, ns)
<1> DEFINE r == Renamed(t, names, ns)
           c == s \o t
           d == s \o r
           n == Len(s)
           m == Len(t)
           New(x) == IF x.kind = "class" /\ x.name \in names \X {Plain} THEN Definition(x.file, ns) ELSE x
<1>1. DOMAIN r = DOMAIN t /\ \A k \in DOMAIN t : r[k] = New(t[k])
  BY DEF Renamed
<1>2. /\ n \in Nat /\ m \in Nat /\ DOMAIN s = 1..n /\ DOMAIN t = 1..m
      /\ DOMAIN c = 1..(n + m) /\ \A i \in 1..(n + m) : c[i] = IF i <= n THEN s[i] ELSE t[i - n]
  OBVIOUS
<1>3. r \in Seq(Line) /\ Len(r) = m
  OBVIOUS
<1>4. d = [i \in 1..(n + m) |-> IF i <= n THEN s[i] ELSE r[i - n]]
  <2> HIDE DEF r
  <2>1. /\ d \in Seq(Line) /\ Len(d) = n + m
        /\ \A i \in 1..(n + m) : d[i] = IF i <= n THEN s[i] ELSE r[i - n]
    <3>1. /\ s \o r \in Seq(Line) /\ Len(s \o r) = Len(s) + Len(r)
          /\ \A i \in 1..(Len(s) + Len(r)) : (s \o r)[i] = IF i <= Len(s) THEN s[i] ELSE r[i - Len(s)]
      BY <1>3, JoinedLines
    <3> QED BY <1>3, <3>1
  <2> HIDE DEF d
  <2>2. DOMAIN d = 1..(n + m) /\ d = [i \in DOMAIN d |-> d[i]]
    BY <2>1
  <2> QED BY <2>1, <2>2
<1>5. Renamed(c, names, ns) = [i \in 1..(n + m) |-> New(c[i])]
  BY <1>2 DEF Renamed
<1> HIDE DEF r, c, d, n, m
<1>6. ASSUME NEW i \in 1..(n + m) PROVE New(c[i]) = IF i <= n THEN s[i] ELSE r[i - n]
  <2>1. CASE i <= n
    <3>1. i \in DOMAIN s /\ c[i] = s[i]
      BY <1>2, <2>1
    <3> QED BY <2>1, <3>1
  <2>2. CASE ~(i <= n)
    <3>1. i - n \in DOMAIN t /\ c[i] = t[i - n]
      BY <1>2, <2>2
    <3> QED BY <1>1, <2>2, <3>1
  <2> QED BY <2>1, <2>2
<1> HIDE DEF New
<1>7. Renamed(c, names, ns) = d
  BY <1>4, <1>5, <1>6
<1> QED BY <1>7 DEF c, d, r

\* Texts are put together in any order.
LEMMA Associates ==
  ASSUME NEW a \in Seq(Line), NEW b \in Seq(Line), NEW c \in Seq(Line)
  PROVE  (a \o b) \o c = a \o (b \o c)
<1> DEFINE S == Line
<1>1. a \in Seq(S) /\ b \in Seq(S) /\ c \in Seq(S)
  OBVIOUS
<1> HIDE DEF S
<1> QED BY <1>1, ConcatAssociative

\* What is written for a unit that has just been loaded.
LEMMA WrappedFirst ==
  ASSUME NEW u \in Unit, NEW ns \in Seq(Word) \cup {Plain}, ns # Plain => IsClassLike(u),
         NEW src \in Seq(Line),
         ns # Plain => \A i \in DOMAIN src :
                         src[i].kind = "class" => src[i].name \notin PublicNames(u) \X {Plain}
  PROVE  /\ ns = Plain => Wrapped(src \o Body(u), u, ns) = src \o SourceAs(u, ns)
         /\ ns # Plain => Wrapped(src \o Body(u), u, ns)
                            = src \o (SourceAs(u, ns) \o (Prelude(ns) \o Bindings(u, ns)))
<1>1. ns = Plain => Wrapped(src \o Body(u), u, ns) = src \o SourceAs(u, ns)
  BY SourceFacts DEF Wrapped
<1>2. ASSUME ns # Plain
      PROVE  Wrapped(src \o Body(u), u, ns) = src \o (SourceAs(u, ns) \o (Prelude(ns) \o Bindings(u, ns)))
  <2> DEFINE b == Body(u)
             d == Definitions(u, ns)
             q == Prelude(ns)
             g == Bindings(u, ns)
  <2>1. ns \in Seq(Word) /\ IsClassLike(u) /\ SourceAs(u, ns) = d
    BY <1>2 DEF SourceAs
  <2>2. b \in Seq(Line) /\ d \in Seq(Line) /\ q \in Seq(Line) /\ g \in Seq(Line)
    BY <2>1, TextTypes
  <2>3. Renamed(b, PublicNames(u), ns) = d
    BY <2>1, RenamedBody
  <2>4. \A s : InNamespace(s, u, ns) = Renamed(s, PublicNames(u), ns) \o q \o g
    BY DEF InNamespace, Bindings
  <2>5. src \o d \o q \o g = src \o (d \o (q \o g)) /\ d \o q \o g = d \o (q \o g)
    <3> HIDE DEF d, q, g
    <3> DEFINE r == d \o q
    <3>1. r \in Seq(Line)
      BY <2>2
    <3>2. r \o g = d \o (q \o g)
      BY <2>2, Associates
    <3>3. src \o d \o q = src \o r
      BY <2>2, Associates
    <3>4. (src \o r) \o g = src \o (r \o g)
      <4> HIDE DEF r
      <4>1. src \in Seq(Line) /\ r \in Seq(Line) /\ g \in Seq(Line)
        BY <2>2, <3>1
      <4> QED BY <4>1, Associates
    <3> QED BY <3>2, <3>3, <3>4
  <2>6. CASE u \in ClassFile /\ src \o b # <<>> /\ Last(src \o b) = Last(Body(u))
    <3>1. b = <<Definition(u, Plain)>>
      BY <2>1, <2>6, FileFacts DEF Body
    <3>2. Front(src \o b) = src
      <4> DEFINE x == Definition(u, Plain)
      <4> HIDE DEF x
      <4>1. b = <<x>> /\ x \in Line
        BY <2>2, <3>1 DEF x
      <4>2. Front(src \o <<x>>) = src
        BY <4>1 DEF Front
      <4> QED BY <4>1, <4>2
    <3>3. Wrapped(src \o b, u, ns) = src \o InNamespace(Body(u), u, ns)
      BY <1>2, <2>1, <2>6, <3>2 DEF Wrapped
    <3>4. InNamespace(Body(u), u, ns) = d \o q \o g
      BY <2>3, <2>4
    <3> QED BY <2>1, <2>5, <3>3, <3>4
  <2>7. CASE ~(u \in ClassFile /\ src \o b # <<>> /\ Last(src \o b) = Last(Body(u)))
    <3>1. Wrapped(src \o b, u, ns) = InNamespace(src \o b, u, ns)
      BY <1>2, <2>1, <2>7 DEF Wrapped
    <3>2. Renamed(src \o b, PublicNames(u), ns) = src \o d
      <4>1. \A i \in DOMAIN src : src[i].kind = "class" => src[i].name \notin PublicNames(u) \X {Plain}
        BY <1>2
      <4>2. Renamed(b, PublicNames(u), ns) \in Seq(Line) /\ Len(Renamed(b, PublicNames(u), ns)) = Len(b)
        BY <2>1, <2>2, RenamedTypes
      <4> HIDE DEF d, b
      <4>3. Renamed(src \o b, PublicNames(u), ns) = src \o Renamed(b, PublicNames(u), ns)
        BY <2>1, <2>2, <4>1, <4>2, RenamedOthers
      <4> QED BY <2>3, <4>3
    <3> QED BY <2>1, <2>4, <2>5, <3>1, <3>2
  <2> QED BY <2>6, <2>7
<1> QED BY <1>1, <1>2

\* The definitions of a unit are added.
LEMMA SourceAdded ==
  ASSUME NEW T \in Seq(Line), NEW u \in Unit, NEW ns \in Seq(Word) \cup {Plain},
         NEW L, NEW L2, NEW N, NEW U, Text(T, L, N, U),
         PublicFiles(u) \cap DefinedIn(T) = {},
         IsClassLike(u) => \A f \in PublicFiles(u) : <<f, ns>> \in U,
         L2 = L \cup {u} \/ (L2 = L /\ PublicFiles(u) \subseteq InProgram),
         \A v \in L2 : Targets(v) \subseteq L
  PROVE  /\ T \o SourceAs(u, ns) \in Seq(Line)
         /\ Text(T \o SourceAs(u, ns), L2, N, U)
         /\ DefinedIn(T \o SourceAs(u, ns)) = DefinedIn(T) \cup PublicFiles(u)
         /\ IsClassLike(u) => \A f \in PublicFiles(u) :
              \E j \in DOMAIN (T \o SourceAs(u, ns)) : (T \o SourceAs(u, ns))[j] = Definition(f, ns)
<1> DEFINE D == SourceAs(u, ns)
           c == T \o D
           n == Len(T)
<1>1. /\ D \in Seq(Line)
      /\ \A k \in DOMAIN D : /\ D[k].kind \in {"class", "script"}
                             /\ D[k].kind = "class" => IsClassLike(u) /\ D[k].name[2] = ns
                             /\ D[k].file \in PublicFiles(u)
      /\ \A k, l \in DOMAIN D : D[k].file = D[l].file => k = l
      /\ \A f \in PublicFiles(u) : \E k \in DOMAIN D : D[k].file = f
      /\ IsClassLike(u) => \A f \in PublicFiles(u) : \E k \in DOMAIN D : D[k] = Definition(f, ns)
  BY SourceFacts
<1> HIDE DEF D
<1>2. Continues(c, T, n, D)
  BY <1>1, JoinFacts
<1> HIDE DEF c, n
<1>3. \A k \in DOMAIN D, i \in Defining(T) : D[k].file # T[i].file
  BY <1>1 DEF DefinedIn
<1>4. \A k \in DOMAIN D : D[k].kind = "class" => <<D[k].file, D[k].name[2]>> \in U
  BY <1>1
<1>5. \A k \in DOMAIN D : D[k].file \in InProgram \/ \E v \in L2 : D[k].file \in PublicFiles(v)
  BY <1>1
<1>6. /\ L \subseteq L2
      /\ \A v \in L2 : v \notin L => \A f \in PublicFiles(v) : \E k \in DOMAIN D : D[k].file = f
  BY <1>1
<1>7. Text(c, L2, N, U)
  BY <1>1, <1>2, <1>3, <1>4, <1>5, <1>6, DefineMore
<1>8. DefinedIn(D) = PublicFiles(u)
  BY <1>1 DEF DefinedIn, Defining
<1>9. DefinedIn(c) = DefinedIn(T) \cup PublicFiles(u)
  BY <1>2, <1>8, DefinedMore
<1>10. c \in Seq(Line) /\ \A k \in DOMAIN D : n + k \in DOMAIN c /\ c[n + k] = D[k]
  BY <1>2 DEF Continues
<1>11. IsClassLike(u) => \A f \in PublicFiles(u) : \E j \in DOMAIN c : c[j] = Definition(f, ns)
  BY <1>1, <1>10
<1> QED BY <1>7, <1>9, <1>10, <1>11 DEF c, D

\* Classes that are defined under their names in a namespace are put into it.
LEMMA SpaceAdded ==
  ASSUME NEW T \in Seq(Line), NEW u \in Unit, NEW ns \in Seq(Word), IsClassLike(u),
         NEW L, NEW U, Text(T, L, namespaces, U),
         \A f \in PublicFiles(u) : \E j \in DOMAIN T : T[j] = Definition(f, ns)
  PROVE  /\ Text(T \o (Prelude(ns) \o Bindings(u, ns)), L, namespaces \cup ToSet(Spaces(ns)), U)
         /\ DefinedIn(T \o (Prelude(ns) \o Bindings(u, ns))) = DefinedIn(T)
<1> DEFINE q == Prelude(ns)
           g == Bindings(u, ns)
           N == namespaces \cup ToSet(Spaces(ns))
<1>1. q \in Seq(Line) /\ g \in Seq(Line)
  BY TextTypes
<1>2. IsInjective(q) /\ ToSet(q) = {NewSpace(sp) : sp \in ToSet(Spaces(ns)) \ namespaces}
  BY PreludeFacts
<1>3. /\ DOMAIN g = DOMAIN FilesOf(u)
      /\ \A k \in DOMAIN g : g[k] = Binding(FilesOf(u)[k], ns) /\ FilesOf(u)[k] \in PublicFiles(u)
  BY FileFacts DEF Bindings
<1> HIDE DEF q, g
<1> DEFINE a == T \o q
           c == a \o g
<1>4. Continues(a, T, Len(T), q) /\ a \in Seq(Line)
  BY <1>1, JoinFacts DEF Continues
<1> HIDE DEF a
<1>5. Continues(c, a, Len(a), g)
  BY <1>1, <1>4, JoinFacts
<1> HIDE DEF c
<1>6. Text(a, L, N, U)
  BY <1>2, <1>4, SpaceMore
<1>7. \A k \in DOMAIN g : /\ g[k].kind = "binding"
                          /\ \E j \in DOMAIN a : a[j].kind = "class" /\ a[j].name = g[k].name
                          /\ ToSet(Spaces(g[k].name[2])) \subseteq N
  <2> SUFFICES ASSUME NEW k \in DOMAIN g
               PROVE  /\ g[k].kind = "binding"
                      /\ \E j \in DOMAIN a : a[j].kind = "class" /\ a[j].name = g[k].name
                      /\ ToSet(Spaces(g[k].name[2])) \subseteq N
    OBVIOUS
  <2> DEFINE f == FilesOf(u)[k]
  <2>1. g[k] = Binding(f, ns) /\ f \in PublicFiles(u)
    BY <1>3
  <2> HIDE DEF f
  <2>2. PICK j \in DOMAIN T : T[j] = Definition(f, ns)
    BY <2>1
  <2>3. j \in DOMAIN a /\ a[j] = Definition(f, ns)
    BY <1>4, <2>2 DEF Continues
  <2>4. /\ g[k].kind = "binding" /\ g[k].name = <<Class[f], ns>>
        /\ a[j].kind = "class" /\ a[j].name = <<Class[f], ns>>
    BY <2>1, <2>3 DEF Binding, Definition
  <2>5. g[k].name[2] = ns
    BY <2>4
  <2> QED BY <2>3, <2>4, <2>5
<1>8. Text(c, L, N, U)
  BY <1>5, <1>6, <1>7, BindMore
<1>9. DefinedIn(q) = {} /\ DefinedIn(g) = {}
  <2>1. \A i \in DOMAIN q : q[i].kind = "namespace"
    BY <1>2 DEF ToSet, NewSpace
  <2>2. \A i \in DOMAIN g : g[i].kind = "binding"
    BY <1>7
  <2> QED BY <2>1, <2>2 DEF DefinedIn, Defining
<1>10. DefinedIn(c) = DefinedIn(T)
  <2>1. DefinedIn(a) = DefinedIn(T) \cup DefinedIn(q)
    BY <1>4, DefinedMore
  <2>2. DefinedIn(c) = DefinedIn(a) \cup DefinedIn(g)
    BY <1>5, DefinedMore
  <2> QED BY <1>9, <2>1, <2>2
<1>11. c = T \o (q \o g)
  BY <1>1, Associates DEF a, c
<1> QED BY <1>8, <1>10, <1>11 DEF q, g

\* More uses.
LEMMA TextMore ==
  ASSUME NEW T, NEW L, NEW N, NEW U, NEW U2, U \subseteq U2, Text(T, L, N, U)
  PROVE  Text(T, L, N, U2)
BY DEF Text, Named

-----------------------------------------------------------------------------
(* Whose imports count.                                                    *)

\* With more units come more uses, and fewer may agree.
LEMMA SameMet ==
  ASSUME UNCHANGED imports, Met \subseteq Met'
  PROVE  /\ Uses(Met) \subseteq Uses(Met)' /\ Imported(Met) \subseteq Imported(Met)'
         /\ Agreed(Met)' => Agreed(Met)
<1>1. InProgram' = InProgram /\ \A u : UsesIn(u)' = UsesIn(u) /\ Targets(u)' = Targets(u)
  BY SameImports
<1>2. Uses(Met) \subseteq Uses(Met)'
  BY <1>1 DEF Uses
<1>3. Imported(Met) \subseteq Imported(Met)'
  BY <1>1 DEF Imported
<1>4. Agreed(Met)' => Agreed(Met)
  <2> DEFINE U == Uses(Met)
             I == Imported(Met)
             V == Uses(Met)'
             J == Imported(Met)'
  <2>1. Agreed(Met)' => /\ \A x, y \in V : x[1] = y[1] => x = y
                        /\ \A x, y \in V : x # y /\ Class[x[1]] = Class[y[1]]
                                             => x[2] # y[2] /\ Plain \notin {x[2], y[2]}
                        /\ \A u, v \in J : u # v => PublicFiles(u) \cap PublicFiles(v) = {}
                        /\ \A u \in J : PublicFiles(u) \cap InProgram = {}
    BY <1>1 DEF Agreed
  <2>2. U \subseteq V /\ I \subseteq J
    BY <1>2, <1>3
  <2> HIDE DEF U, V, I, J
  <2>3. Agreed(Met)' => /\ \A x, y \in U : x[1] = y[1] => x = y
                        /\ \A x, y \in U : x # y /\ Class[x[1]] = Class[y[1]]
                                             => x[2] # y[2] /\ Plain \notin {x[2], y[2]}
                        /\ \A u, v \in I : u # v => PublicFiles(u) \cap PublicFiles(v) = {}
                        /\ \A u \in I : PublicFiles(u) \cap InProgram = {}
    BY <2>1, <2>2
  <2> QED BY <2>3 DEF U, I, Agreed
<1> QED BY <1>2, <1>3, <1>4

\* What an import on an agenda uses.
LEMMA UseOf ==
  ASSUME LoadTypes, CallsInv, NEW i \in DOMAIN calls, calls[i].todo # <<>>,
         Head(calls[i].todo).do = "import", NEW u \in Unit, u = Goal(Head(calls[i].todo)), IsClassLike(u)
  PROVE  /\ u \in Imported(Met)
         /\ \A f \in PublicFiles(u) : <<f, Namespace(Head(calls[i].todo).imp)>> \in Uses(Met)
<1> DEFINE h == Head(calls[i].todo)
           v == h.from
           imp == h.imp
<1>1. Fits(h, calls[i].unit)
  <2>1. calls[i].todo \in Seq(Item)
    BY TopFacts
  <2>2. 1 \in DOMAIN calls[i].todo /\ h = calls[i].todo[1]
    BY <2>1
  <2> QED BY <2>2 DEF CallsInv
<1>2. v \in Met \cup InProgram /\ imp \in ToSet(ImportsOf(v)) /\ u = Resolved(v, imp.path)
  <2>1. calls[i].unit \in Met
    BY DEF Met, Loading
  <2> QED BY <1>1, <2>1 DEF Fits, Goal
<1> HIDE DEF h, v, imp
<1>3. u \in Imported(Met)
  <2>1. u \in Targets(v)
    BY <1>2 DEF Targets
  <2>2. u \in ClassFile \cup Package
    BY DEF IsClassLike
  <2>3. u \in UNION {Targets(w) : w \in Met \cup InProgram}
    BY <1>2, <2>1
  <2> QED BY <2>2, <2>3 DEF Imported
<1>4. ASSUME NEW f \in PublicFiles(u) PROVE <<f, Namespace(imp)>> \in Uses(Met)
  <2>1. f \in ClassFile
    BY UnitFacts
  <2>2. <<f, Namespace(imp)>> \in UsesIn(v)
    BY <1>2, <2>1 DEF UsesIn
  <2> QED BY <1>2, <2>2 DEF Uses
<1> QED BY <1>3, <1>4 DEF imp, h

\* What is not loaded has not been written.
LEMMA NotWritten ==
  ASSUME LoadTypes, Agreed(Met), NEW N, NEW U, Text(merged, loaded, N, U),
         \A v \in loaded : IsClassLike(v) => v \in Imported(Met),
         NEW u \in Unit, u \notin loaded, IsClassLike(u) => u \in Imported(Met)
  PROVE  PublicFiles(u) \cap (DefinedIn(merged) \cup InProgram) = {}
<1>1. ASSUME NEW f \in PublicFiles(u) PROVE f \notin InProgram
  <2>1. CASE IsClassLike(u)
    BY <1>1, <2>1 DEF Agreed
  <2>2. CASE ~IsClassLike(u)
    <3>1. f \in Script /\ InProgram \subseteq ClassFile
      BY <1>1, <2>2, UnitFacts
    <3> QED BY <3>1, LoaderAssumption
  <2> QED BY <2>1, <2>2
<1>2. ASSUME NEW f \in PublicFiles(u), f \in DefinedIn(merged) PROVE FALSE
  <2>1. PICK v \in loaded : f \in PublicFiles(v)
    BY <1>1, <1>2 DEF DefinedIn, Text, Sourced
  <2>2. v \in Unit /\ v # u
    BY DEF LoadTypes
  <2>3. CASE IsClassLike(u) /\ IsClassLike(v)
    BY <1>2, <2>1, <2>2, <2>3 DEF Agreed
  <2>4. CASE IsClassLike(u) /\ ~IsClassLike(v)
    <3>1. f \in ClassFile /\ f \in Script
      BY <1>2, <2>1, <2>2, <2>4, UnitFacts
    <3> QED BY <3>1, LoaderAssumption
  <2>5. CASE ~IsClassLike(u) /\ IsClassLike(v)
    <3>1. f \in ClassFile /\ f \in Script
      BY <1>2, <2>1, <2>2, <2>5, UnitFacts
    <3> QED BY <3>1, LoaderAssumption
  <2>6. CASE ~IsClassLike(u) /\ ~IsClassLike(v)
    <3>1. f = u /\ f = v
      BY <1>2, <2>1, <2>2, <2>6, UnitFacts
    <3> QED BY <2>2, <3>1
  <2> QED BY <2>3, <2>4, <2>5, <2>6
<1> QED BY <1>1, <1>2

-----------------------------------------------------------------------------
(* Steps of the loader.                                                    *)

\* What has to hold of the next state.
LEMMA TextStep ==
  ASSUME UNCHANGED imports, Met \subseteq Met',
         NEW L, L = Finished', Text(merged', L, namespaces', Uses(Met)),
         Awaited', \A v \in loaded' : IsClassLike(v) => v \in Imported(Met)
  PROVE  TextInv'
<1>1. InProgram' = InProgram /\ \A u : Targets(u)' = Targets(u)
  BY SameImports
<1> DEFINE V == Uses(Met)'
<1>2. Uses(Met) \subseteq V /\ Imported(Met) \subseteq Imported(Met)'
  BY SameMet
<1> HIDE DEF V
<1>3. Text(merged', L, namespaces', V)
  BY <1>2, TextMore
<1>4. Text(merged, Finished, namespaces, Uses(Met))'
  <2>1. Once(merged)' /\ Full(merged, Finished)' /\ Sourced(merged, Finished)'
    BY <1>1, <1>3 DEF Text, Once, Full, Sourced, Defining
  <2>2. Named(merged, Uses(Met))'
    BY <1>3 DEF Text, Named, V
  <2>3. SpacesMade(merged, namespaces)' /\ BoundAfter(merged)'
    BY <1>3 DEF Text, SpacesMade, BoundAfter, BoundAt
  <2>4. InOrder(merged, Finished)'
    BY <1>1, <1>3 DEF Text, InOrder, Defining
  <2> QED BY <2>1, <2>2, <2>3, <2>4 DEF Text
<1>5. (\A v \in loaded : IsClassLike(v) => v \in Imported(Met))'
  BY <1>2
<1> QED BY <1>4, <1>5 DEF TextInv

\* What is known before a step, if the importers agree.
Good ==
  /\ LoadTypes /\ CallsInv /\ Pending /\ NoLoops /\ Agreed(Met)
  /\ Text(merged, loaded, namespaces, Uses(Met)) /\ Awaited
  /\ \A v \in loaded : IsClassLike(v) => v \in Imported(Met)

LEMMA GoodNow ==
  ASSUME LoadInv, TextInv, ending = "none", Agreed(Met)
  PROVE  Good
BY DEF LoadInv, TextInv, Good, Finished

\* A call that is done with its imports has them all loaded.
LEMMA AllLoaded ==
  ASSUME LoadTypes, CallsInv, Pending, NoLoops, Top.todo = <<>>
  PROVE  /\ Targets(Top.unit) \subseteq loaded /\ Top.unit \notin loaded
         /\ \A v \in loaded : Targets(v) \subseteq loaded
<1>1. Len(calls) \in DOMAIN calls /\ Top = calls[Len(calls)]
  BY TopFacts
<1>2. Top.unit \notin loaded /\ \A v \in loaded : Targets(v) \subseteq loaded
  BY <1>1 DEF CallsInv, NoLoops
<1>3. DOMAIN Top.todo = {}
  BY DOMAIN <<>> = {}
<1>4. Targets(Top.unit) \subseteq loaded
  <2>1. \A imp \in ToSet(ImportsOf(calls[Len(calls)].unit)) :
          Resolved(calls[Len(calls)].unit, imp.path) \in loaded
    BY <1>1, <1>3 DEF Pending
  <2> QED BY <1>1, <2>1 DEF Targets
<1> QED BY <1>2, <1>4

\* The siblings still to come are class files beside the entry.
LEMMA ToComeFacts ==
  ASSUME LoadTypes, CallsInv
  PROVE  /\ calls[1].todo \in Seq(Item) /\ ToCome \subseteq DOMAIN calls[1].todo
         /\ \A k \in ToCome : calls[1].todo[k].from \in InProgram
<1>1. 1 \in DOMAIN calls /\ calls[1].todo \in Seq(Item)
  BY TopFacts
<1> QED BY <1>1 DEF ToCome, CallsInv, Fits

\* The head of an agenda is done with; what has been defined was not awaited
\* after it.
LEMMA AwaitedDrop ==
  ASSUME LoadTypes, CallsInv, Awaited, NEW k \in DOMAIN calls, Drop(k), calls[k].todo # <<>>,
         \A l \in ToCome : (k = 1 => l # 1) => calls[1].todo[l].from \notin DefinedIn(merged')
  PROVE  Awaited'
<1>1. 1 \in 1..k /\ 1 \in DOMAIN calls /\ calls[1].todo \in Seq(Item) /\ k \in Nat
  BY TopFacts
<1> DEFINE Coming == {l \in DOMAIN calls'[1].todo : calls'[1].todo[l].do \in {"read", "sibling"}}
<1>2. CASE k # 1
  <2>1. calls'[1] = calls[1]
    BY <1>1, <1>2 DEF Drop
  <2> QED BY <1>2, <2>1 DEF Awaited, ToCome, DefinedIn, Defining
<1>3. CASE k = 1
  <2>1. calls'[1].todo = Tail(calls[1].todo)
    BY <1>3 DEF Drop
  <2> DEFINE t == calls[1].todo
  <2>2. ASSUME NEW l \in Coming
        PROVE  /\ l \in Nat \ {0} /\ l + 1 \in ToCome /\ l + 1 # 1
               /\ calls'[1].todo[l] = t[l + 1]
    <3>1. t \in Seq(Item) /\ t # <<>> /\ l \in DOMAIN Tail(t)
      BY <1>1, <1>3, <2>1
    <3> HIDE DEF t
    <3>2. l \in Nat \ {0} /\ l + 1 \in DOMAIN t /\ Tail(t)[l] = t[l + 1] /\ l + 1 # 1
      BY <3>1
    <3> QED BY <2>1, <2>2, <3>2 DEF ToCome, t
  <2>3. \A l \in Coming : calls'[1].todo[l].from \notin DefinedIn(merged')
    BY <1>3, <2>2
  <2>4. ASSUME NEW l \in Coming, NEW j \in Coming, calls'[1].todo[l].from = calls'[1].todo[j].from
        PROVE  l = j
    <3>1. l + 1 = j + 1
      BY <2>2, <2>4 DEF Awaited
    <3> QED BY <2>2, <3>1
  <2>5. ToCome' = Coming /\ DefinedIn(merged)' = DefinedIn(merged')
    BY DEF ToCome, DefinedIn, Defining
  <2> QED BY <2>3, <2>4, <2>5 DEF Awaited
<1> QED BY <1>2, <1>3

\* The units being loaded after calls have been dropped.
LEMMA DropMet ==
  ASSUME LoadTypes, NEW k \in DOMAIN calls, Drop(k), loaded \subseteq loaded',
         \A i \in DOMAIN calls : i \in 1..k \/ calls[i].unit \in loaded'
  PROVE  Met \subseteq Met'
<1>1. DOMAIN calls' = 1..k /\ \A i \in 1..k : calls'[i].unit = calls[i].unit
  BY DEF Drop
<1>2. \A i \in DOMAIN calls : calls[i].unit \in Loading' \cup loaded'
  BY <1>1 DEF Loading
<1> QED BY <1>2 DEF Met, Followed, Loading

\* A class file of a unit that has been written is defined under the name that
\* all its importers use.
LEMMA DefinedAs ==
  ASSUME LoadTypes, Agreed(Met), NEW L, NEW N, Text(merged, L, N, Uses(Met)),
         NEW v \in L, NEW f \in PublicFiles(v), f \in ClassFile, NEW ns, <<f, ns>> \in Uses(Met)
  PROVE  \E j \in DOMAIN merged : merged[j] = Definition(f, ns)
<1>1. PICK j \in DOMAIN merged : merged[j].kind \in {"class", "script"} /\ merged[j].file = f
  BY DEF Text, Full, Defining
<1>2. merged[j] \in Line
  BY DEF LoadTypes
<1>3. merged[j].kind = "class"
  <2>1. merged[j].kind = "script" => f \in Script
    BY <1>1, <1>2, LineFacts
  <2> QED BY <1>1, <2>1, LoaderAssumption
<1>4. merged[j] = Definition(f, merged[j].name[2])
  BY <1>1, <1>2, <1>3, LineFacts
<1>5. <<f, merged[j].name[2]>> \in Uses(Met)
  BY <1>1, <1>3 DEF Text, Named
<1>6. merged[j].name[2] = ns
  <2> DEFINE m == merged[j].name[2]
  <2>1. \A x, y \in Uses(Met) : x[1] = y[1] => x = y
    BY DEF Agreed
  <2>2. <<f, m>> = <<f, ns>>
    BY <1>5, <2>1
  <2> QED BY <2>2
<1> QED BY <1>4, <1>6

\* What is imported again is put into its namespace, if that is new.
LEMMA TextAgain ==
  ASSUME Good, ending = "none", ImportAgain, NoConflict
  PROVE  TextInv'
<1> DEFINE n == Len(calls)
           h == Head(calls[n].todo)
           u == Target
           ns == Space(h.imp, u)
<1>1. /\ LoadTypes /\ CallsInv /\ Agreed(Met)
      /\ Text(merged, loaded, namespaces, Uses(Met)) /\ Awaited
      /\ \A v \in loaded : IsClassLike(v) => v \in Imported(Met)
  BY DEF Good
<1>2. Drop(n) /\ Takes(calls, merged, <<>>, u)
  BY <1>1, AgainStep
<1>3. n \in DOMAIN calls /\ Top = calls[n] /\ DOMAIN calls = 1..n
  BY <1>1, TopFacts
<1>4. /\ UNCHANGED <<imports, loaded>> /\ calls[n].todo # <<>> /\ h.do = "import" /\ h \in Item
      /\ u \in loaded /\ u \in Unit /\ u = Goal(h)
  BY <1>1, <1>3, AgainFacts
<1>5. /\ ns \in Seq(Word) \cup {Plain}
      /\ ns # Plain => ns \in Seq(Word) /\ IsClassLike(u) /\ ns = Namespace(h.imp)
  <2>1. h.imp \in Statement
    BY <1>4, ItemFacts
  <2> QED BY <1>4, <2>1, SpaceFacts DEF Space
<1>6. /\ merged' = merged \o Wrapped(<<>>, u, ns) /\ UNCHANGED ending
      /\ namespaces' = IF ns = Plain THEN namespaces ELSE namespaces \cup ToSet(Spaces(ns))
  BY <1>2 DEF Takes
<1>7. merged \in Seq(Line)
  BY <1>1 DEF LoadTypes
<1> HIDE DEF h, u, ns
<1>8. Text(merged', loaded, namespaces', Uses(Met)) /\ DefinedIn(merged') = DefinedIn(merged)
  <2>1. CASE ns = Plain
    <3>1. Wrapped(<<>>, u, ns) = <<>>
      BY <1>4, <1>5, <2>1, WrappedAgain
    <3>2. merged' = merged /\ namespaces' = namespaces
      BY <1>6, <1>7, <2>1, <3>1
    <3> QED BY <1>1, <3>2
  <2>2. CASE ns # Plain
    <3>1. Wrapped(<<>>, u, ns) = Prelude(ns) \o Bindings(u, ns)
      BY <1>4, <1>5, <2>2, WrappedAgain
    <3>2. \A f \in PublicFiles(u) : f \in ClassFile /\ <<f, ns>> \in Uses(Met)
      BY <1>1, <1>3, <1>4, <1>5, <2>2, UseOf, UnitFacts DEF h
    <3>3. \A f \in PublicFiles(u) : \E j \in DOMAIN merged : merged[j] = Definition(f, ns)
      BY <1>1, <1>4, <3>2, DefinedAs
    <3>4. merged' = merged \o (Prelude(ns) \o Bindings(u, ns))
          /\ namespaces' = namespaces \cup ToSet(Spaces(ns))
      BY <1>6, <2>2, <3>1
    <3> QED BY <1>1, <1>4, <1>5, <1>7, <2>2, <3>3, <3>4, SpaceAdded
  <2> QED BY <2>1, <2>2
<1>9. Awaited'
  BY <1>1, <1>2, <1>3, <1>4, <1>8, AwaitedDrop DEF Awaited
<1>10. Met \subseteq Met'
  BY <1>1, <1>2, <1>3, <1>4, DropMet
<1>11. Finished' = loaded
  BY <1>4, <1>6 DEF Finished
<1> QED BY <1>1, <1>4, <1>8, <1>9, <1>10, <1>11, TextStep

\* The text of a module follows the texts of its imports, and then it is put
\* into its namespace.
LEMMA TextEnds ==
  ASSUME Good, ending = "none", ModuleEnds, NoConflict
  PROVE  TextInv'
<1> DEFINE n == Len(calls)
           h == Head(calls[n - 1].todo)
           u == Top.unit
           ns == Space(h.imp, u)
           before == SubSeq(merged, 1, Top.start)
           src == SubSeq(merged, Top.start + 1, Len(merged))
<1>1. /\ LoadTypes /\ CallsInv /\ Pending /\ NoLoops /\ Agreed(Met)
      /\ Text(merged, loaded, namespaces, Uses(Met)) /\ Awaited
      /\ \A v \in loaded : IsClassLike(v) => v \in Imported(Met)
  BY DEF Good
<1>2. Drop(n - 1) /\ Takes(Front(calls), before, Written, u)
  BY <1>1, EndsStep
<1>3. /\ UNCHANGED imports /\ loaded' = loaded \cup {u} /\ n > 1 /\ u \in Unit /\ Top.todo = <<>>
      /\ Last(Front(calls)).todo # <<>> /\ Head(Last(Front(calls)).todo).do = "import"
      /\ Head(Last(Front(calls)).todo) \in Item /\ Goal(Head(Last(Front(calls)).todo)) = u
  BY <1>1, EndsFacts
<1>4. /\ Last(Front(calls)) = calls[n - 1] /\ Front(calls)[Len(Front(calls))] = calls[n - 1]
      /\ n - 1 \in DOMAIN calls /\ n \in DOMAIN calls /\ DOMAIN calls = 1..n /\ n \in Nat
      /\ Top = calls[n] /\ Top.start \in Nat
  <2>1. n \in DOMAIN calls /\ DOMAIN calls = 1..n /\ n \in Nat /\ Top = calls[n] /\ Top.start \in Nat
    BY <1>1, TopFacts
  <2>2. Last(Front(calls)) = calls[n - 1] /\ n - 1 \in DOMAIN calls
    BY <1>1, <1>3, FrontFacts
  <2> QED BY <2>1, <2>2 DEF Last
<1>5. h \in Item /\ h.do = "import" /\ calls[n - 1].todo # <<>> /\ u = Goal(h)
  BY <1>3, <1>4
<1>6. /\ ns \in Seq(Word) \cup {Plain}
      /\ ns # Plain => ns \in Seq(Word) /\ IsClassLike(u)
      /\ IsClassLike(u) => ns = Namespace(h.imp)
  <2>1. h.imp \in Statement
    BY <1>5, ItemFacts
  <2> QED BY <1>3, <2>1, SpaceFacts DEF Space
<1>7. /\ merged' = before \o Wrapped(src \o Body(u), u, ns) /\ UNCHANGED ending
      /\ namespaces' = IF ns = Plain THEN namespaces ELSE namespaces \cup ToSet(Spaces(ns))
  BY <1>2, <1>4 DEF Takes, Written
<1>8. /\ merged \in Seq(Line) /\ before \in Seq(Line) /\ src \in Seq(Line)
      /\ merged = before \o src
      /\ \A i \in DOMAIN src : \E j \in DOMAIN merged : src[i] = merged[j]
  <2>1. merged \in Seq(Line) /\ Top.start \in 0..Len(merged)
    BY <1>1, <1>4 DEF LoadTypes
  <2>2. before \in Seq(Line) /\ src \in Seq(Line) /\ merged = before \o src
    BY <2>1, SplitFacts
  <2> HIDE DEF before, src
  <2>3. Continues(merged, before, Len(before), src)
    BY <2>2, JoinFacts
  <2>4. \A i \in DOMAIN src : Len(before) + i \in DOMAIN merged /\ src[i] = merged[Len(before) + i]
    BY <2>3 DEF Continues
  <2> QED BY <2>1, <2>2, <2>4
<1>9. Targets(u) \subseteq loaded /\ u \notin loaded /\ \A v \in loaded : Targets(v) \subseteq loaded
  BY <1>1, <1>3, AllLoaded
<1>10. /\ IsClassLike(u) => u \in Imported(Met)
       /\ IsClassLike(u) => \A f \in PublicFiles(u) : f \in ClassFile /\ <<f, ns>> \in Uses(Met)
  BY <1>1, <1>3, <1>4, <1>5, <1>6, UseOf, UnitFacts
<1> HIDE DEF h, u, ns, before, src, n
<1>11. PublicFiles(u) \cap (DefinedIn(merged) \cup InProgram) = {}
  BY <1>1, <1>3, <1>9, <1>10, NotWritten
<1>12. ASSUME ns # Plain, NEW i \in DOMAIN src, src[i].kind = "class",
              src[i].name \in PublicNames(u) \X {Plain}
       PROVE  FALSE
  <2>1. PICK j \in DOMAIN merged : src[i] = merged[j]
    BY <1>8
  <2>2. PICK f \in PublicFiles(u) : src[i].name = <<Class[f], Plain>>
    BY <1>12 DEF PublicNames
  <2> DEFINE g == src[i].file
  <2>3. src[i] \in Line
    BY <1>8
  <2>4. src[i] = Definition(g, src[i].name[2])
    BY <1>12, <2>3, LineFacts
  <2>5. Class[g] = Class[f] /\ src[i].name[2] = Plain
    BY <2>2, <2>4 DEF Definition
  <2>6. <<g, Plain>> \in Uses(Met)
    BY <1>1, <1>12, <2>1, <2>5 DEF Text, Named
  <2>7. <<f, ns>> \in Uses(Met)
    BY <1>6, <1>10, <1>12
  <2> HIDE DEF g
  <2>8. ASSUME NEW x \in Uses(Met), NEW y \in Uses(Met), x # y, Class[x[1]] = Class[y[1]]
        PROVE  Plain \notin {x[2], y[2]}
    BY <1>1, <2>8 DEF Agreed
  <2>9. <<g, Plain>> # <<f, ns>>
    BY <1>12
  <2> QED BY <2>5, <2>6, <2>7, <2>8, <2>9
<1> DEFINE S == SourceAs(u, ns)
<1>13. /\ S \in Seq(Line) /\ merged \o S \in Seq(Line)
       /\ Text(merged \o S, loaded', namespaces, Uses(Met))
       /\ DefinedIn(merged \o S) = DefinedIn(merged) \cup PublicFiles(u)
       /\ IsClassLike(u) => \A f \in PublicFiles(u) :
            \E j \in DOMAIN (merged \o S) : (merged \o S)[j] = Definition(f, ns)
  <2>1. S \in Seq(Line)
    BY <1>3, <1>6, SourceFacts
  <2>2. loaded' = loaded \cup {u} /\ \A v \in loaded' : Targets(v) \subseteq loaded
    BY <1>3, <1>9
  <2>3. PublicFiles(u) \cap DefinedIn(merged) = {}
    BY <1>11
  <2> DEFINE L2 == loaded'
             U == Uses(Met)
  <2>4. /\ u \in Unit /\ ns \in Seq(Word) \cup {Plain} /\ merged \in Seq(Line)
        /\ Text(merged, loaded, namespaces, U)
        /\ IsClassLike(u) => \A f \in PublicFiles(u) : <<f, ns>> \in U
        /\ L2 = loaded \cup {u} /\ \A v \in L2 : Targets(v) \subseteq loaded
    BY <1>1, <1>3, <1>6, <1>8, <1>10, <2>2
  <2> HIDE DEF L2, U
  <2>5. /\ merged \o SourceAs(u, ns) \in Seq(Line)
        /\ Text(merged \o SourceAs(u, ns), L2, namespaces, U)
        /\ DefinedIn(merged \o SourceAs(u, ns)) = DefinedIn(merged) \cup PublicFiles(u)
        /\ IsClassLike(u) => \A f \in PublicFiles(u) :
             \E j \in DOMAIN (merged \o SourceAs(u, ns)) :
               (merged \o SourceAs(u, ns))[j] = Definition(f, ns)
    BY <2>3, <2>4, SourceAdded
  <2> QED BY <2>1, <2>5 DEF L2, U
<1>14. /\ Text(merged', loaded', namespaces', Uses(Met))
       /\ DefinedIn(merged') = DefinedIn(merged) \cup PublicFiles(u)
  <2>1. CASE ns = Plain
    <3>1. Wrapped(src \o Body(u), u, ns) = src \o S
      BY <1>3, <1>6, <1>8, <2>1, WrappedFirst
    <3>2. merged' = merged \o S /\ namespaces' = namespaces
      <4> HIDE DEF S
      <4> QED BY <1>7, <1>8, <1>13, <2>1, <3>1, Associates
    <3> QED BY <1>13, <3>2
  <2>2. CASE ns # Plain
    <3> DEFINE q == Prelude(ns) \o Bindings(u, ns)
    <3>1. Wrapped(src \o Body(u), u, ns) = src \o (S \o q)
      BY <1>3, <1>6, <1>8, <1>12, <2>2, WrappedFirst
    <3>2. q \in Seq(Line)
      BY <1>3, <1>6, <2>2, TextTypes
    <3>3. merged' = (merged \o S) \o q
      <4> HIDE DEF S, q
      <4>1. S \o q \in Seq(Line)
        BY <1>13, <3>2
      <4>2. merged' = before \o (src \o (S \o q))
        BY <1>7, <3>1
      <4>3. before \o (src \o (S \o q)) = (before \o src) \o (S \o q)
        <5> DEFINE r == S \o q
        <5>1. r \in Seq(Line) /\ before \in Seq(Line) /\ src \in Seq(Line)
          BY <1>8, <4>1
        <5> HIDE DEF r
        <5>2. (before \o src) \o r = before \o (src \o r)
          BY <5>1, Associates
        <5> QED BY <5>2 DEF r
      <4>4. merged \o (S \o q) = (merged \o S) \o q
        <5>1. merged \in Seq(Line) /\ S \in Seq(Line) /\ q \in Seq(Line)
          BY <1>8, <1>13, <3>2
        <5> QED BY <5>1, Associates
      <4> QED BY <1>8, <4>2, <4>3, <4>4
    <3>4. namespaces' = namespaces \cup ToSet(Spaces(ns))
      BY <1>7, <2>2
    <3> DEFINE T == merged \o S
    <3>5. T \in Seq(Line) /\ Text(T, loaded', namespaces, Uses(Met))
          /\ \A f \in PublicFiles(u) : \E j \in DOMAIN T : T[j] = Definition(f, ns)
      BY <1>6, <1>13, <2>2
    <3>6. /\ DefinedIn(T) = DefinedIn(merged) \cup PublicFiles(u)
          /\ merged' = T \o (Prelude(ns) \o Bindings(u, ns))
      BY <1>13, <3>3
    <3> HIDE DEF T
    <3> QED BY <1>3, <1>6, <2>2, <3>4, <3>5, <3>6, SpaceAdded
  <2> QED BY <2>1, <2>2
<1>15. Awaited'
  <2>1. \A l \in ToCome : calls[1].todo[l].from \notin DefinedIn(merged')
    BY <1>1, <1>11, <1>14, ToComeFacts DEF Awaited
  <2> QED BY <1>1, <1>2, <1>4, <1>5, <2>1, AwaitedDrop
<1>16. Met \subseteq Met'
  <2>1. \A i \in DOMAIN calls : i \in 1..(n - 1) \/ calls[i].unit \in loaded'
    BY <1>3, <1>4 DEF u
  <2> QED BY <1>1, <1>2, <1>3, <1>4, <2>1, DropMet
<1>17. Finished' = loaded'
  BY <1>7 DEF Finished
<1>18. \A v \in loaded' : IsClassLike(v) => v \in Imported(Met)
  BY <1>1, <1>3, <1>10
<1> QED BY <1>3, <1>14, <1>15, <1>16, <1>17, <1>18, TextStep

\* On the agenda t no sibling that is still to come is one of W, or comes twice.
Waits(t, W) ==
  /\ \A k \in DOMAIN t : t[k].do \in {"read", "sibling"} => t[k].from \notin W
  /\ \A k, l \in DOMAIN t : t[k].do \in {"read", "sibling"} /\ t[l].do \in {"read", "sibling"}
                              /\ t[k].from = t[l].from => k = l

LEMMA WaitsAwaited ==
  /\ Awaited <=> Waits(calls[1].todo, DefinedIn(merged))
  /\ Awaited' <=> Waits(calls'[1].todo, DefinedIn(merged'))
<1>1. Awaited <=> Waits(calls[1].todo, DefinedIn(merged))
  BY DEF Awaited, ToCome, Waits
<1>2. Awaited' <=> Waits(calls'[1].todo, DefinedIn(merged'))
  <2>1. DefinedIn(merged)' = DefinedIn(merged')
    BY DEF DefinedIn, Defining
  <2> QED BY <2>1 DEF Awaited, ToCome, Waits
<1> QED BY <1>1, <1>2

\* Imports are put before a sibling and those that come after it.
LEMMA WaitsParts ==
  ASSUME NEW a \in Seq(Item), NEW x \in Item, NEW b \in Seq(Item), NEW c, c = a \o <<x>> \o b, NEW W,
         \A k \in DOMAIN a : a[k].do = "import",
         Waits(b, W),
         x.do \in {"read", "sibling"} =>
           /\ x.from \notin W
           /\ \A j \in DOMAIN b : b[j].do \in {"read", "sibling"} => b[j].from # x.from
  PROVE  Waits(c, W)
<1> DEFINE m == Len(a) + 1
           Come(i) == i.do \in {"read", "sibling"}
<1>1. \A k \in DOMAIN c : \/ k \in DOMAIN a /\ c[k] = a[k]
                          \/ k = m /\ c[k] = x
                          \/ \E j \in DOMAIN b : k = m + j /\ c[k] = b[j]
  <2> DEFINE S == Item
  <2>1. a \in Seq(S) /\ x \in S /\ b \in Seq(S)
    OBVIOUS
  <2> HIDE DEF S
  <2> QED BY <2>1, ThreeParts
<1>2. ASSUME NEW k \in DOMAIN c, Come(c[k])
      PROVE  \/ k = m /\ c[k] = x
             \/ \E j \in DOMAIN b : k = m + j /\ c[k] = b[j]
  BY <1>1, <1>2
<1> HIDE DEF m
<1>3. ASSUME NEW k \in DOMAIN c, Come(c[k]) PROVE c[k].from \notin W
  <2>1. CASE c[k] = x
    BY <1>3, <2>1
  <2>2. ASSUME NEW j \in DOMAIN b, c[k] = b[j] PROVE c[k].from \notin W
    BY <1>3, <2>2 DEF Waits
  <2> QED BY <1>2, <1>3, <2>1, <2>2
<1>4. ASSUME NEW k \in DOMAIN c, NEW l \in DOMAIN c, Come(c[k]), Come(c[l]), c[k].from = c[l].from
      PROVE  k = l
  <2>1. CASE k = m /\ c[k] = x /\ l = m
    BY <2>1
  <2>2. ASSUME k = m /\ c[k] = x, NEW j \in DOMAIN b, c[l] = b[j] PROVE FALSE
    BY <1>4, <2>2
  <2>3. ASSUME l = m /\ c[l] = x, NEW j \in DOMAIN b, c[k] = b[j] PROVE FALSE
    BY <1>4, <2>3
  <2>4. ASSUME NEW i \in DOMAIN b, NEW j \in DOMAIN b, k = m + i, l = m + j, c[k] = b[i], c[l] = b[j]
        PROVE  k = l
    <3>1. i = j
      BY <1>4, <2>4 DEF Waits
    <3> QED BY <2>4, <3>1
  <2> QED BY <1>2, <1>4, <2>1, <2>2, <2>3, <2>4
<1> QED BY <1>3, <1>4 DEF Waits

\* The imports of a unit.
LEMMA ImportsOnly ==
  ASSUME imports \in Programs, NEW u \in Unit
  PROVE  \A k \in DOMAIN ImportsFrom(u) : ImportsFrom(u)[k].do = "import"
<1>1. \A k \in DOMAIN ImportsFrom(u) : ImportsFrom(u)[k] = Import(u, ImportsOf(u)[k])
  BY DEF ImportsFrom
<1> QED BY <1>1 DEF Import

\* A unit is imported the first time: nothing is written yet.
LEMMA TextPush ==
  ASSUME Good, ending = "none", ImportFirst
  PROVE  TextInv'
<1>1. LoadTypes /\ CallsInv /\ Text(merged, loaded, namespaces, Uses(Met)) /\ Awaited
      /\ \A v \in loaded : IsClassLike(v) => v \in Imported(Met)
  BY DEF Good
<1>2. /\ UNCHANGED <<imports, loaded, namespaces, merged, ending>>
      /\ calls' = Append(calls, Call(Target)) /\ Call(Target) \in CallOf
  BY <1>1, PushStep
<1>3. 1 \in DOMAIN calls /\ calls \in Seq(CallOf)
  BY <1>1, TopFacts DEF LoadTypes
<1>4. \A i \in DOMAIN calls : i \in DOMAIN calls' /\ calls'[i] = calls[i]
  <2> DEFINE t == Call(Target)
  <2> HIDE DEF t
  <2>1. t \in CallOf /\ calls' = Append(calls, t)
    BY <1>2 DEF t
  <2> QED BY <1>3, <2>1
<1>5. Met \subseteq Met'
  BY <1>2, <1>4 DEF Met, Followed, Loading
<1>6. Awaited'
  BY <1>1, <1>2, <1>3, <1>4, WaitsAwaited
<1>7. loaded = Finished'
  BY <1>2 DEF Finished
<1> QED BY <1>1, <1>2, <1>5, <1>6, <1>7, TextStep

\* The entry is what the first call loads, and no other.
LEMMA EntryFirst ==
  ASSUME LoadTypes, CallsInv, Top.unit = Entry
  PROVE  Len(calls) = 1 /\ Top = calls[1]
<1>1. Len(calls) \in DOMAIN calls /\ Top = calls[Len(calls)] /\ 1 \in DOMAIN calls
  BY TopFacts
<1> QED BY <1>1 DEF CallsInv

\* A sibling is read: it is to be added once its imports are done.
LEMMA TextRead ==
  ASSUME Good, ending = "none", ReadSibling
  PROVE  TextInv'
<1> DEFINE t == calls[1].todo
           f == Head(t).from
           W == DefinedIn(merged)
<1>1. LoadTypes /\ CallsInv /\ Text(merged, loaded, namespaces, Uses(Met)) /\ Awaited
      /\ \A v \in loaded : IsClassLike(v) => v \in Imported(Met)
  BY DEF Good
<1>2. Len(calls) = 1 /\ Top = calls[1]
  BY <1>1, ReadStep, EntryFirst
<1>3. /\ UNCHANGED <<imports, loaded, namespaces, merged, ending>>
      /\ t # <<>> /\ Head(t).do = "read" /\ f \in InProgram
      /\ calls' = [calls EXCEPT ![1].todo = ImportsFrom(f) \o <<Sibling(f)>> \o Tail(t)]
  BY <1>1, <1>2, ReadStep
<1>4. /\ 1 \in DOMAIN calls /\ DOMAIN calls = {1} /\ calls \in Seq(CallOf) /\ calls[1] \in CallOf
      /\ t \in Seq(Item) /\ Tail(t) \in Seq(Item)
  BY <1>1, <1>2, <1>3, TopFacts DEF LoadTypes
<1>5. f \in ClassFile /\ f \in Unit
  BY <1>3, UnitFacts DEF Unit
<1>6. ImportsFrom(f) \in Seq(Item) /\ Sibling(f) \in Item /\ imports \in Programs
  BY <1>1, <1>5, AgendaFacts DEF LoadTypes, Sibling, Item
<1> DEFINE a == ImportsFrom(f)
           x == Sibling(f)
           b == Tail(t)
           c == a \o <<x>> \o b
<1>7. Waits(t, W)
  BY <1>1, WaitsAwaited
<1>8. Waits(b, W) /\ f \notin W /\ \A j \in DOMAIN b : b[j].do \in {"read", "sibling"} => b[j].from # f
  <2> HIDE DEF t
  <2>1. \A j \in DOMAIN b : j + 1 \in DOMAIN t /\ b[j] = t[j + 1] /\ j \in Nat /\ j + 1 # 1
    BY <1>3, <1>4
  <2>2. 1 \in DOMAIN t /\ t[1] = Head(t)
    BY <1>3, <1>4
  <2> HIDE DEF b, W
  <2>3. f \notin W /\ \A j \in DOMAIN b : b[j].do \in {"read", "sibling"} => b[j].from # f
    BY <1>3, <1>7, <2>1, <2>2 DEF Waits
  <2>4. \A k, l \in DOMAIN b : b[k].do \in {"read", "sibling"} /\ b[l].do \in {"read", "sibling"}
                                 /\ b[k].from = b[l].from => k = l
    <3> SUFFICES ASSUME NEW k \in DOMAIN b, NEW l \in DOMAIN b, b[k].do \in {"read", "sibling"},
                        b[l].do \in {"read", "sibling"}, b[k].from = b[l].from
                 PROVE  k = l
      OBVIOUS
    <3>1. k + 1 = l + 1
      BY <1>7, <2>1 DEF Waits
    <3> QED BY <2>1, <3>1
  <2>5. \A k \in DOMAIN b : b[k].do \in {"read", "sibling"} => b[k].from \notin W
    BY <1>7, <2>1 DEF Waits
  <2> QED BY <2>3, <2>4, <2>5 DEF Waits
<1>9. x.do = "sibling" /\ x.from = f
  BY DEF Sibling
<1>10. \A k \in DOMAIN a : a[k].do = "import"
  BY <1>5, <1>6, ImportsOnly
<1> HIDE DEF a, x, b, t, W
<1>11. Waits(c, W)
  <2>1. a \in Seq(Item) /\ x \in Item /\ b \in Seq(Item)
    <3>1. b \in Seq(Item)
      BY <1>4 DEF b
    <3> QED BY <1>6, <3>1 DEF a, x
  <2>2. c = a \o <<x>> \o b
    OBVIOUS
  <2> HIDE DEF c
  <2>3. x.do \in {"read", "sibling"} =>
          /\ x.from \notin W
          /\ \A j \in DOMAIN b : b[j].do \in {"read", "sibling"} => b[j].from # x.from
    BY <1>8, <1>9
  <2>4. Waits(b, W)
    BY <1>8
  <2> QED BY <1>10, <2>1, <2>2, <2>3, <2>4, WaitsParts, Zenon
<1>12. calls' = [calls EXCEPT ![1].todo = c]
  BY <1>3 DEF a, x, b
<1> HIDE DEF c
<1>13. calls'[1].todo = c /\ calls'[1].unit = calls[1].unit /\ DOMAIN calls' = DOMAIN calls
  BY <1>4, <1>12 DEF CallOf
<1>14. Awaited'
  BY <1>3, <1>11, <1>13, WaitsAwaited DEF W
<1>15. Met \subseteq Met'
  BY <1>3, <1>4, <1>13 DEF Met, Followed, Loading
<1>16. loaded = Finished'
  BY <1>3 DEF Finished
<1> QED BY <1>1, <1>3, <1>14, <1>15, <1>16, TextStep

\* A sibling is added, once.
LEMMA TextSibling ==
  ASSUME Good, ending = "none", AddSibling
  PROVE  TextInv'
<1> DEFINE t == calls[1].todo
           f == Head(t).from
<1>1. /\ LoadTypes /\ CallsInv /\ NoLoops /\ Text(merged, loaded, namespaces, Uses(Met)) /\ Awaited
      /\ \A v \in loaded : IsClassLike(v) => v \in Imported(Met)
  BY DEF Good
<1>2. /\ Top.todo # <<>> /\ Head(Top.todo).do = "sibling" /\ calls' = Advanced
      /\ merged' = merged \o Body(Head(Top.todo).from)
      /\ UNCHANGED <<imports, loaded, namespaces, ending>>
  BY DEF AddSibling, Doing
<1>3. Top.unit = Entry /\ Head(Top.todo).from \in InProgram
  <2>1. Len(calls) \in DOMAIN calls /\ Top = calls[Len(calls)] /\ Top.todo \in Seq(Item)
    BY <1>1, TopFacts
  <2>2. 1 \in DOMAIN Top.todo /\ Head(Top.todo) = Top.todo[1]
    BY <1>2, <2>1
  <2> QED BY <1>1, <1>2, <2>1, <2>2 DEF CallsInv, Fits
<1>4. Len(calls) = 1 /\ Top = calls[1]
  BY <1>1, <1>3, EntryFirst
<1>5. t \in Seq(Item) /\ t # <<>> /\ 1 \in DOMAIN calls /\ merged \in Seq(Line)
  BY <1>1, <1>2, <1>4, TopFacts DEF LoadTypes
<1>6. 1 \in ToCome /\ t[1].from = f
  <2>1. 1 \in DOMAIN t /\ t[1] = Head(t)
    BY <1>5
  <2> QED BY <1>2, <1>4, <2>1 DEF ToCome
<1>7. f \in InProgram /\ f \in ClassFile /\ f \in Unit /\ IsClassLike(f) /\ PublicFiles(f) = {f}
  <2>1. f \in InProgram /\ f \in ClassFile /\ f \in Unit
    BY <1>3, <1>4, UnitFacts DEF Unit
  <2>2. FilesOf(f) = <<f>>
    BY <2>1, FileFacts
  <2> QED BY <2>1, <2>2 DEF IsClassLike, PublicFiles, ToSet
<1>8. Drop(1)
  BY <1>1, <1>2, <1>4, <1>7, AdvanceStep
<1>9. merged' = merged \o SourceAs(f, Plain)
  BY <1>2, <1>4, <1>7, SourceFacts
<1> HIDE DEF f
<1>10. Text(merged', loaded, namespaces, Uses(Met)) /\ DefinedIn(merged') = DefinedIn(merged) \cup {f}
  <2> DEFINE U == Uses(Met)
             L == loaded
  <2>1. f \notin DefinedIn(merged)
    BY <1>1, <1>6 DEF Awaited
  <2>2. <<f, Plain>> \in U
    BY <1>7 DEF Uses
  <2>3. \A v \in L : Targets(v) \subseteq loaded
    BY <1>1 DEF NoLoops
  <2>4. /\ Text(merged, loaded, namespaces, U) /\ L = loaded /\ PublicFiles(f) \subseteq InProgram
        /\ PublicFiles(f) \cap DefinedIn(merged) = {} /\ Plain \in Seq(Word) \cup {Plain}
        /\ IsClassLike(f) => \A g \in PublicFiles(f) : <<g, Plain>> \in U
    BY <1>1, <1>7, <2>1, <2>2
  <2> HIDE DEF U, L
  <2>5. Text(merged \o SourceAs(f, Plain), L, namespaces, U)
        /\ DefinedIn(merged \o SourceAs(f, Plain)) = DefinedIn(merged) \cup PublicFiles(f)
    BY <1>5, <1>7, <2>3, <2>4, SourceAdded
  <2> QED BY <1>7, <1>9, <2>5 DEF U, L
<1>11. Awaited'
  <2>1. \A l \in ToCome : l # 1 => t[l].from \notin DefinedIn(merged')
    BY <1>1, <1>6, <1>10 DEF Awaited
  <2> QED BY <1>1, <1>5, <1>8, <2>1, AwaitedDrop
<1>12. Met \subseteq Met'
  <2>1. \A i \in DOMAIN calls : i \in 1..1
    BY <1>1, <1>4, TopFacts
  <2> QED BY <1>1, <1>2, <1>5, <1>8, <2>1, DropMet
<1>13. loaded = Finished'
  BY <1>2 DEF Finished
<1> QED BY <1>1, <1>2, <1>10, <1>11, <1>12, <1>13, TextStep

\* A call goes on and writes nothing.
LEMMA TextAdvance ==
  ASSUME Good, ending = "none", Top.todo # <<>>, Head(Top.todo).do \notin {"read", "sibling"},
         calls' = Advanced, UNCHANGED <<imports, loaded, namespaces, merged, ending>>
  PROVE  TextInv'
<1>1. /\ LoadTypes /\ CallsInv /\ Text(merged, loaded, namespaces, Uses(Met)) /\ Awaited
      /\ \A v \in loaded : IsClassLike(v) => v \in Imported(Met)
  BY DEF Good
<1>2. /\ Drop(Len(calls)) /\ Len(calls) \in DOMAIN calls
      /\ Top = calls[Len(calls)] /\ DOMAIN calls = 1..Len(calls)
  BY <1>1, AdvanceStep, TopFacts
<1>3. Awaited'
  <2>1. \A l \in ToCome : calls[1].todo[l].from \notin DefinedIn(merged')
    BY <1>1 DEF Awaited
  <2> QED BY <1>1, <1>2, <2>1, AwaitedDrop
<1>4. Met \subseteq Met'
  BY <1>1, <1>2, DropMet
<1>5. loaded = Finished'
  BY DEF Finished
<1> QED BY <1>1, <1>3, <1>4, <1>5, TextStep

\* The entry comes last.
LEMMA TextEntry ==
  ASSUME Good, ending = "none", EntryEnds
  PROVE  TextInv'
<1>1. /\ LoadTypes /\ CallsInv /\ Pending /\ NoLoops /\ Agreed(Met)
      /\ Text(merged, loaded, namespaces, Uses(Met)) /\ Awaited
      /\ \A v \in loaded : IsClassLike(v) => v \in Imported(Met)
  BY DEF Good
<1>2. /\ Len(calls) = 1 /\ Top.todo = <<>> /\ merged' = merged \o Body(Entry) /\ ending' = "ok"
      /\ UNCHANGED <<imports, calls, loaded, namespaces>>
  BY DEF EntryEnds
<1>3. Top = calls[1] /\ Top.unit = Entry /\ merged \in Seq(Line)
  BY <1>1, <1>2, TopFacts DEF CallsInv, LoadTypes
<1>4. Entry \in Unit /\ ~IsClassLike(Entry)
  BY UnitFacts
<1>5. Targets(Entry) \subseteq loaded /\ Entry \notin loaded /\ \A v \in loaded : Targets(v) \subseteq loaded
  BY <1>1, <1>2, <1>3, AllLoaded
<1>6. PublicFiles(Entry) \cap DefinedIn(merged) = {}
  BY <1>1, <1>4, <1>5, NotWritten
<1>7. merged' = merged \o SourceAs(Entry, Plain)
  BY <1>2, <1>4, SourceFacts
<1>8. Text(merged', Followed, namespaces, Uses(Met))
  <2> DEFINE U == Uses(Met)
             L == Followed
  <2>1. /\ L = loaded \cup {Entry} /\ \A v \in L : Targets(v) \subseteq loaded
        /\ Text(merged, loaded, namespaces, U) /\ Plain \in Seq(Word) \cup {Plain}
    BY <1>1, <1>5 DEF Followed
  <2> HIDE DEF U, L
  <2>2. Text(merged \o SourceAs(Entry, Plain), L, namespaces, U)
    BY <1>3, <1>4, <1>6, <2>1, SourceAdded
  <2> QED BY <1>7, <2>2 DEF U, L
<1>9. Awaited'
  <2>1. calls'[1].todo = <<>>
    BY <1>2, <1>3
  <2>2. DOMAIN <<>> = {}
    OBVIOUS
  <2> QED BY <2>1, <2>2, WaitsAwaited DEF Waits
<1>10. Met \subseteq Met'
  BY <1>2 DEF Met, Followed, Loading
<1>11. Followed = Finished'
  BY <1>2 DEF Finished, Followed
<1> QED BY <1>1, <1>2, <1>8, <1>9, <1>10, <1>11, TextStep

\* At first nothing is written.
LEMMA TextInit == LoadInit => TextInv
<1> SUFFICES ASSUME LoadInit PROVE TextInv
  OBVIOUS
<1>1. /\ imports \in Programs /\ merged = <<>> /\ calls = <<Call(Entry)>>
      /\ loaded = {} /\ namespaces = {} /\ ending = "none"
  BY DEF LoadInit
<1>2. calls[1].todo = Agenda(Entry)
  <2>1. Call(Entry).todo = Agenda(Entry)
    BY DEF Call
  <2> QED BY <1>1, <2>1
<1>3. DOMAIN merged = {} /\ DefinedIn(merged) = {}
  <2>1. DOMAIN <<>> = {}
    OBVIOUS
  <2> QED BY <1>1, <2>1 DEF DefinedIn, Defining
<1>4. Text(merged, loaded, namespaces, Uses(Met))
  BY <1>1, <1>3 DEF Text, Once, Full, Sourced, Named, SpacesMade, BoundAfter, BoundAt, InOrder, Defining
<1>5. Waits(WithSiblings, {})
  <2>1. CASE HasTopLevelImports
    <3>1. WithSiblings = <<>> /\ DOMAIN <<>> = {}
      BY <2>1 DEF WithSiblings
    <3> QED BY <3>1 DEF Waits
  <2>2. CASE ~HasTopLevelImports
    <3>1. /\ DOMAIN WithSiblings = DOMAIN Siblings
          /\ \A k \in DOMAIN Siblings : WithSiblings[k].from = Siblings[k]
      BY <2>2 DEF WithSiblings, Read
    <3>2. \A k, l \in DOMAIN Siblings : Siblings[k] = Siblings[l] => k = l
      BY LoaderAssumption DEF IsInjective
    <3> QED BY <3>1, <3>2 DEF Waits
  <2> QED BY <2>1, <2>2
<1>6. Waits(Agenda(Entry), {})
  <2> DEFINE a == ImportsFrom(Entry)
             x == Check
             b == WithSiblings
             c == a \o <<x>> \o b
             W == {}
  <2>1. a \in Seq(Item) /\ b \in Seq(Item) /\ \A k \in DOMAIN a : a[k].do = "import"
    BY <1>1, UnitFacts, AgendaFacts, ImportsOnly
  <2>2. x \in Item /\ x.do \notin {"read", "sibling"}
    BY DEF Check, Item
  <2>3. Agenda(Entry) = c
    BY DEF Agenda
  <2>4. c = a \o <<x>> \o b
    OBVIOUS
  <2>5. Waits(b, W)
    BY <1>5
  <2> HIDE DEF a, x, b, c, W
  <2>6. Waits(c, W)
    BY <2>1, <2>2, <2>4, <2>5, WaitsParts, Zenon
  <2> QED BY <2>3, <2>6 DEF W
<1>7. Awaited
  BY <1>2, <1>3, <1>6, WaitsAwaited
<1> QED BY <1>1, <1>4, <1>7 DEF TextInv, Finished

\* The units whose imports count stay.
LEMMA MetGrows ==
  ASSUME LoadTypes, CallsInv, ending = "none", LoadNext, ending' \in {"none", "ok"}
  PROVE  UNCHANGED imports /\ Met \subseteq Met'
<1>1. ASSUME UNCHANGED <<imports, calls, loaded>> PROVE UNCHANGED imports /\ Met \subseteq Met'
  BY <1>1 DEF Met, Followed, Loading
<1>2. ASSUME calls' = Advanced, Top.todo # <<>>, UNCHANGED <<imports, loaded>>
      PROVE  UNCHANGED imports /\ Met \subseteq Met'
  <2>1. Drop(Len(calls)) /\ Len(calls) \in DOMAIN calls /\ DOMAIN calls = 1..Len(calls)
    BY <1>2, AdvancedFacts, DropFacts, TopFacts
  <2> QED BY <1>2, <2>1, DropMet
<1>3. ASSUME NEW error, error \notin {"none", "ok"}, Fails(error) PROVE FALSE
  BY <1>3 DEF Fails
<1>4. CASE NotFound \/ BareScript \/ ImportCycle
  BY <1>3, <1>4 DEF NotFound, BareScript, ImportCycle
<1>5. CASE PassOver
  BY <1>2, <1>5 DEF PassOver, Doing
<1>6. CASE ImportAgain
  <2>1. Drop(Len(calls)) /\ UNCHANGED <<imports, loaded>>
    BY <1>6, AgainStep, AgainFacts DEF NoConflict
  <2>2. Len(calls) \in DOMAIN calls /\ DOMAIN calls = 1..Len(calls)
    BY TopFacts
  <2> QED BY <2>1, <2>2, DropMet
<1>7. CASE ImportFirst
  <2>1. UNCHANGED <<imports, loaded>> /\ calls' = Append(calls, Call(Target)) /\ Call(Target) \in CallOf
    BY <1>7, PushStep
  <2>2. \A i \in DOMAIN calls : i \in DOMAIN calls' /\ calls'[i] = calls[i]
    <3> DEFINE t == Call(Target)
    <3> HIDE DEF t
    <3>1. t \in CallOf /\ calls' = Append(calls, t) /\ calls \in Seq(CallOf)
      BY <2>1 DEF t, LoadTypes
    <3> QED BY <3>1
  <2> QED BY <2>1, <2>2 DEF Met, Followed, Loading
<1>8. CASE ModuleEnds
  <2>1. /\ Drop(Len(calls) - 1) /\ UNCHANGED imports /\ loaded' = loaded \cup {Top.unit} /\ Len(calls) > 1
    BY <1>8, EndsStep, EndsFacts DEF NoConflict
  <2>2. /\ Len(calls) - 1 \in DOMAIN calls /\ Top = calls[Len(calls)]
        /\ \A i \in DOMAIN calls : i \in 1..(Len(calls) - 1) \/ i = Len(calls)
    BY <2>1, TopFacts
  <2> QED BY <2>1, <2>2, DropMet
<1>9. CASE CheckEntry
  <2>1. calls' = Advanced /\ Top.todo # <<>> /\ UNCHANGED <<imports, loaded>>
    BY <1>3, <1>9 DEF CheckEntry, Doing
  <2> QED BY <1>2, <2>1
<1>10. CASE ReadSibling
  <2> DEFINE t == ImportsFrom(Head(Top.todo).from) \o <<Sibling(Head(Top.todo).from)>> \o Tail(Top.todo)
  <2>1. UNCHANGED <<imports, loaded>> /\ calls' = [calls EXCEPT ![Len(calls)].todo = t]
    BY <1>10, ReadStep
  <2> HIDE DEF t
  <2>2. \A i \in DOMAIN calls : i \in DOMAIN calls' /\ calls'[i].unit = calls[i].unit
    <3>1. calls \in Seq(CallOf) /\ Len(calls) \in DOMAIN calls /\ \A i \in DOMAIN calls : calls[i] \in CallOf
      BY TopFacts DEF LoadTypes
    <3> QED BY <2>1, <3>1 DEF CallOf
  <2> QED BY <2>1, <2>2 DEF Met, Followed, Loading
<1>11. CASE AddSibling
  BY <1>2, <1>11 DEF AddSibling, Doing
<1>12. CASE EntryEnds
  BY <1>1, <1>12 DEF EntryEnds
<1> QED BY <1>4, <1>5, <1>6, <1>7, <1>8, <1>9, <1>10, <1>11, <1>12 DEF LoadNext

\* Every step keeps the invariant of the text.
LEMMA TextStepInv == LoadInv /\ TextInv /\ [LoadNext]_loadVars => TextInv'
<1> SUFFICES ASSUME LoadInv, TextInv, [LoadNext]_loadVars PROVE TextInv'
  OBVIOUS
<1>1. CASE UNCHANGED loadVars
  <2>1. UNCHANGED <<imports, calls, loaded, namespaces, merged, ending>>
    BY <1>1 DEF loadVars
  <2>2. Finished' = Finished /\ Met' = Met
    BY <2>1 DEF Finished, Met, Followed, Loading
  <2>3. SUFFICES ASSUME ending \in {"none", "ok"}, Agreed(Met)' PROVE TextInv'
    BY <2>1 DEF TextInv
  <2>4. Agreed(Met)
    BY <2>1, <2>2, <2>3, SameMet
  <2>5. Text(merged, Finished, namespaces, Uses(Met)) /\ Awaited
        /\ \A v \in loaded : IsClassLike(v) => v \in Imported(Met)
    BY <2>3, <2>4 DEF TextInv
  <2>6. Awaited'
    BY <2>1, <2>5, WaitsAwaited
  <2>7. Text(merged', Finished, namespaces', Uses(Met)) /\ Finished = Finished'
        /\ \A v \in loaded' : IsClassLike(v) => v \in Imported(Met)
    BY <2>1, <2>2, <2>5
  <2> QED BY <2>1, <2>2, <2>6, <2>7, TextStep
<1>2. CASE LoadNext
  <2>1. ending = "none"
    BY <1>2 DEF LoadNext, NotFound, BareScript, ImportCycle, PassOver, ImportAgain, ImportFirst,
                ModuleEnds, CheckEntry, ReadSibling, AddSibling, EntryEnds, Importable, Doing
  <2>2. SUFFICES ASSUME ending' \in {"none", "ok"}, Agreed(Met)' PROVE TextInv'
    BY DEF TextInv
  <2>3. LoadTypes /\ CallsInv
    BY <2>1 DEF LoadInv
  <2>4. Agreed(Met)
    BY <1>2, <2>1, <2>2, <2>3, MetGrows, SameMet
  <2>5. Good
    BY <2>1, <2>4, GoodNow
  <2>6. ASSUME NEW error, error \notin {"none", "ok"}, Fails(error) PROVE FALSE
    BY <2>2, <2>6 DEF Fails
  <2>7. CASE NotFound \/ BareScript \/ ImportCycle
    BY <2>6, <2>7 DEF NotFound, BareScript, ImportCycle
  <2>8. CASE PassOver
    BY <2>1, <2>5, <2>8, TextAdvance DEF PassOver, Doing
  <2>9. CASE ImportAgain
    BY <2>1, <2>2, <2>5, <2>9, TextAgain DEF NoConflict
  <2>10. CASE ImportFirst
    BY <2>1, <2>5, <2>10, TextPush
  <2>11. CASE ModuleEnds
    BY <2>1, <2>2, <2>5, <2>11, TextEnds DEF NoConflict
  <2>12. CASE CheckEntry
    <3>1. /\ calls' = Advanced /\ Top.todo # <<>> /\ Head(Top.todo).do = "check"
          /\ UNCHANGED <<imports, loaded, namespaces, merged, ending>>
      BY <2>6, <2>12 DEF CheckEntry, Doing
    <3> QED BY <2>1, <2>5, <3>1, TextAdvance
  <2>13. CASE ReadSibling
    BY <2>1, <2>5, <2>13, TextRead
  <2>14. CASE AddSibling
    BY <2>1, <2>5, <2>14, TextSibling
  <2>15. CASE EntryEnds
    BY <2>1, <2>5, <2>15, TextEntry
  <2> QED BY <1>2, <2>7, <2>8, <2>9, <2>10, <2>11, <2>12, <2>13, <2>14, <2>15 DEF LoadNext
<1> QED BY <1>1, <1>2

\* The lines before a line.
LEMMA LinesBefore ==
  ASSUME NEW s \in Seq(Line), NEW i \in DOMAIN s, NEW j \in DOMAIN s, j < i
  PROVE  j \in 1..(i - 1) /\ s[j] \in ToSet(SubSeq(s, 1, i - 1))
<1>1. /\ Len(s) \in Nat /\ DOMAIN s = 1..Len(s) /\ i \in 1..Len(s) /\ j \in 1..Len(s)
      /\ i - 1 \in 0..Len(s) /\ j \in 1..(i - 1)
  OBVIOUS
<1>2. /\ SubSeq(s, 1, i - 1) \in Seq(Line) /\ Len(SubSeq(s, 1, i - 1)) = i - 1
      /\ \A k \in 1..(i - 1) : SubSeq(s, 1, i - 1)[k] = s[k]
  <2> DEFINE S == Line
  <2>1. s \in Seq(S)
    OBVIOUS
  <2> HIDE DEF S
  <2>2. /\ SubSeq(s, 1, i - 1) \in Seq(S) /\ Len(SubSeq(s, 1, i - 1)) = i - 1
        /\ \A k \in 1..(i - 1) : SubSeq(s, 1, i - 1)[k] = s[k]
    BY <1>1, <2>1
  <2> QED BY <2>2 DEF S
<1>3. j \in DOMAIN SubSeq(s, 1, i - 1) /\ SubSeq(s, 1, i - 1)[j] = s[j]
  <2>1. DOMAIN SubSeq(s, 1, i - 1) = 1..(i - 1)
    <3> DEFINE r == SubSeq(s, 1, i - 1)
    <3>1. r \in Seq(Line) /\ Len(r) = i - 1
      BY <1>2
    <3> HIDE DEF r
    <3>2. DOMAIN r = 1..(i - 1)
      BY <3>1
    <3> QED BY <3>2 DEF r
  <2> QED BY <1>1, <1>2, <2>1
<1> QED BY <1>1, <1>3 DEF ToSet

\* The invariants are what the loader promises of the merged program.
LEMMA InvWellFormed == LoadInv /\ TextInv => WellFormed
<1> SUFFICES ASSUME LoadInv, TextInv, ending = "ok", Agreed(Followed)
             PROVE  /\ \A i, j \in DOMAIN merged :
                         i # j /\ merged[i].kind = merged[j].kind /\ merged[i].kind # "binding"
                           => merged[i].name # merged[j].name
                    /\ \A i \in DOMAIN merged : merged[i].kind = "binding" =>
                         /\ \E j \in 1..(i - 1) : merged[j].kind = "class" /\ merged[j].name = merged[i].name
                         /\ \A ns \in ToSet(Spaces(merged[i].name[2])) :
                              NewSpace(ns) \in ToSet(SubSeq(merged, 1, i - 1))
                    /\ \A u \in Followed : \A x \in UsesIn(u) : Definition(x[1], x[2]) \in ToSet(merged)
                    /\ \A u \in Followed : \A v \in Targets(u) : \A i, j \in DOMAIN merged :
                         Defines(i) /\ Defines(j) /\ merged[i].file \in PublicFiles(v)
                           /\ merged[j].file \in PublicFiles(u) => i < j
  BY DEF WellFormed
<1>1. LoadTypes /\ CallsInv /\ Pending /\ NoLoops /\ Len(calls) = 1 /\ calls[1].todo = <<>>
  BY DEF LoadInv, Ends
<1>2. Met = Followed
  <2>1. DOMAIN calls = 1..1 /\ calls[1].unit = Entry
    BY <1>1, TopFacts DEF CallsInv
  <2>2. \A i \in 1..1 : i = 1
    OBVIOUS
  <2>3. Loading \subseteq {Entry}
    BY <2>1, <2>2 DEF Loading
  <2> QED BY <2>3 DEF Met, Followed
<1>3. Agreed(Met) /\ Text(merged, Followed, namespaces, Uses(Met))
  BY <1>2 DEF TextInv, Finished
<1>4. merged \in Seq(Line) /\ \A i \in DOMAIN merged : merged[i] \in Line
  BY <1>1 DEF LoadTypes
<1>5. \A u \in Followed : Targets(u) \subseteq Followed
  <2>1. Top = calls[1] /\ calls[1].unit = Entry /\ Top.todo = <<>>
    BY <1>1, TopFacts DEF CallsInv
  <2>2. Targets(Entry) \subseteq loaded /\ \A v \in loaded : Targets(v) \subseteq loaded
    BY <1>1, <2>1, AllLoaded
  <2> QED BY <2>2 DEF Followed
<1>6. ASSUME NEW i \in DOMAIN merged, NEW j \in DOMAIN merged, i # j, merged[i].kind = merged[j].kind,
             merged[i].kind # "binding", merged[i].name = merged[j].name
      PROVE  FALSE
  <2> DEFINE a == merged[i]
             b == merged[j]
  <2>1. a \in Line /\ b \in Line
    BY <1>4
  <2>2. CASE a.kind = "namespace"
    <3>1. a = NewSpace(a.name[2]) /\ b = NewSpace(b.name[2])
      BY <1>6, <2>1, <2>2, LineFacts
    <3>2. a = b
      BY <1>6, <3>1
    <3> QED BY <1>3, <1>6, <2>2, <3>2 DEF Text, SpacesMade
  <2>3. CASE a.kind = "script"
    <3>1. a = TopLevel(a.file) /\ b = TopLevel(b.file)
      BY <1>6, <2>1, <2>3, LineFacts
    <3>2. a.name = <<a.file, Plain>> /\ b.name = <<b.file, Plain>>
      BY <3>1 DEF TopLevel
    <3>3. a.file = b.file
      <4>1. a.name = b.name
        BY <1>6
      <4> HIDE DEF a, b
      <4>2. <<a.file, Plain>> = <<b.file, Plain>>
        BY <3>2, <4>1
      <4> QED BY <4>2
    <3>4. i \in Defining(merged) /\ j \in Defining(merged)
      BY <1>6, <2>3 DEF Defining
    <3> QED BY <1>3, <1>6, <3>3, <3>4 DEF Text, Once
  <2>4. CASE a.kind = "class"
    <3> DEFINE f == a.file
               g == b.file
               m == a.name[2]
               x == <<f, m>>
               y == <<g, m>>
    <3>1. a = Definition(f, m) /\ b = Definition(g, b.name[2])
      BY <1>6, <2>1, <2>4, LineFacts
    <3>2. a.name = <<Class[f], m>> /\ b.name = <<Class[g], b.name[2]>>
      BY <3>1 DEF Definition
    <3>3. Class[f] = Class[g] /\ b.name[2] = m
      BY <1>6, <3>2
    <3>4. x \in Uses(Met) /\ y \in Uses(Met)
      BY <1>3, <1>6, <2>4, <3>3 DEF Text, Named
    <3>5. f # g
      <4>1. i \in Defining(merged) /\ j \in Defining(merged)
        BY <1>6, <2>4 DEF Defining
      <4> QED BY <1>3, <1>6, <4>1 DEF Text, Once
    <3>6. \A p, q \in Uses(Met) : p # q /\ Class[p[1]] = Class[q[1]] => p[2] # q[2]
      BY <1>3 DEF Agreed
    <3> HIDE DEF f, g, m
    <3>7. x # y /\ x[1] = f /\ y[1] = g /\ x[2] = y[2]
      BY <3>5
    <3> QED BY <3>3, <3>4, <3>6, <3>7
  <2>5. a.kind \in {"class", "binding", "script", "namespace"}
    BY <2>1, LineFacts
  <2> QED BY <1>6, <2>2, <2>3, <2>4, <2>5
<1>7. ASSUME NEW i \in DOMAIN merged, merged[i].kind = "binding"
      PROVE  /\ \E j \in 1..(i - 1) : merged[j].kind = "class" /\ merged[j].name = merged[i].name
             /\ \A ns \in ToSet(Spaces(merged[i].name[2])) :
                  NewSpace(ns) \in ToSet(SubSeq(merged, 1, i - 1))
  <2>1. \A j \in DOMAIN merged : j < i =>
          j \in 1..(i - 1) /\ merged[j] \in ToSet(SubSeq(merged, 1, i - 1))
    BY <1>4, LinesBefore
  <2>2. /\ \E j \in DOMAIN merged : j < i /\ merged[j].kind = "class" /\ merged[j].name = merged[i].name
        /\ \A sp \in ToSet(Spaces(merged[i].name[2])) :
             \E j \in DOMAIN merged : j < i /\ merged[j] = NewSpace(sp)
    BY <1>3, <1>7 DEF Text, BoundAfter, BoundAt
  <2>3. ASSUME NEW ns \in ToSet(Spaces(merged[i].name[2]))
        PROVE  NewSpace(ns) \in ToSet(SubSeq(merged, 1, i - 1))
    <3>1. PICK j \in DOMAIN merged : j < i /\ merged[j] = NewSpace(ns)
      BY <2>2
    <3>2. merged[j] \in ToSet(SubSeq(merged, 1, i - 1))
      BY <2>1, <3>1
    <3> QED BY <3>1, <3>2
  <2> QED BY <2>1, <2>2, <2>3
<1>8. ASSUME NEW u \in Followed, NEW x \in UsesIn(u)
      PROVE  Definition(x[1], x[2]) \in ToSet(merged)
  <2>1. PICK imp \in ToSet(ImportsOf(u)) : /\ x[1] \in PublicFiles(Resolved(u, imp.path))
                                           /\ x[2] = Namespace(imp)
    BY <1>8 DEF UsesIn
  <2> DEFINE v == Resolved(u, imp.path)
  <2>2. v \in Followed
    BY <1>5 DEF Targets
  <2>3. x[1] \in ClassFile /\ x = <<x[1], x[2]>> /\ x \in Uses(Met)
    BY <1>2 DEF UsesIn, Uses
  <2> HIDE DEF v
  <2> DEFINE f == x[1]
             ns == x[2]
  <2>4. f \in ClassFile /\ f \in PublicFiles(v) /\ <<f, ns>> \in Uses(Met)
    BY <2>1, <2>3 DEF v
  <2> HIDE DEF f, ns
  <2>5. \E j \in DOMAIN merged : merged[j] = Definition(f, ns)
    BY <1>1, <1>3, <2>2, <2>4, DefinedAs
  <2> QED BY <2>5 DEF ToSet, f, ns
<1>9. ASSUME NEW u \in Followed, NEW v \in Targets(u), NEW i \in DOMAIN merged, NEW j \in DOMAIN merged,
             Defines(i), Defines(j), merged[i].file \in PublicFiles(v), merged[j].file \in PublicFiles(u)
      PROVE  i < j
  <2>1. i \in Defining(merged) /\ j \in Defining(merged)
    BY <1>9 DEF Defines, Defining
  <2> QED BY <1>3, <1>9, <2>1 DEF Text, InOrder
<1> QED BY <1>6, <1>7, <1>8, <1>9

\* If all importers agree, what the loader has merged is a program: every class
\* is defined once and before it is bound, every namespace is created once, and
\* what a unit imports stands before it, for any program: internal/runner,
\* loadSource and synthesizeNamespacedPackageSource.
THEOREM WellFormedCorrect == ToolSpec => []WellFormed
<1>1. ToolInit => TextInv
  BY TextInit DEF ToolInit
<1>2. LoadInv /\ TextInv /\ [Load \/ BuildLoaded]_<<loadVars, buildVars>> => TextInv'
  <2>1. [Load \/ BuildLoaded]_<<loadVars, buildVars>> => [LoadNext]_loadVars
    BY DEF Load, BuildLoaded
  <2> QED BY <2>1, TextStepInv
<1> QED BY <1>1, <1>2, ToolLoadInv, InvWellFormed, PTL DEF ToolSpec

-----------------------------------------------------------------------------
(* What is loaded.                                                         *)

\* Everything the program imports, directly or not, and the calls in progress
\* load nothing else.
Needed == From(Needs(Entry), Needs)
OnlyNeeded == /\ loaded \subseteq Needed
              /\ \A i \in DOMAIN calls : i # 1 => calls[i].unit \in Needed

\* Needed is closed.
LEMMA NeededFacts ==
  /\ Needs(Entry) \cap Unit \subseteq Needed
  /\ \A u \in Needed : Needs(u) \cap Unit \subseteq Needed
<1>1. ASSUME NEW u \in Unit, u \in Needs(Entry) PROVE u \in Needed
  BY <1>1 DEF Needed, From
<1>2. ASSUME NEW u \in Needed, NEW v \in Unit, v \in Needs(u) PROVE v \in Needed
  <2> SUFFICES ASSUME NEW X \in SUBSET Unit, Needs(Entry) \cap Unit \subseteq X,
                      \A w \in X : Needs(w) \cap Unit \subseteq X
               PROVE  v \in X
    BY DEF Needed, From
  <2>1. u \in X
    BY DEF Needed, From
  <2> QED BY <1>2, <2>1
<1> QED BY <1>1, <1>2

LEMMA SameNeeds ==
  ASSUME UNCHANGED imports
  PROVE  Needed' = Needed
<1>1. InProgram' = InProgram /\ \A u : Targets(u)' = Targets(u)
  BY SameImports
<1>2. \A u : Needs(u)' = Needs(u)
  BY <1>1 DEF Needs
<1> QED BY <1>1, <1>2 DEF Needed, From

\* Calls that are done load nothing more.
LEMMA NeededDrop ==
  ASSUME LoadTypes, OnlyNeeded, UNCHANGED imports, NEW k \in DOMAIN calls, Drop(k),
         loaded' \subseteq loaded \cup Needed
  PROVE  OnlyNeeded'
<1>1. k \in Nat /\ DOMAIN calls = 1..Len(calls) /\ Len(calls) \in Nat
  BY TopFacts
<1>2. DOMAIN calls' = 1..k /\ \A i \in 1..k : i \in DOMAIN calls /\ calls'[i].unit = calls[i].unit
  BY <1>1 DEF Drop
<1> QED BY <1>2, SameNeeds DEF OnlyNeeded

\* Every step keeps it.
LEMMA NeededStep == LoadInv /\ OnlyNeeded /\ [LoadNext]_loadVars => OnlyNeeded'
<1> SUFFICES ASSUME LoadInv, OnlyNeeded, [LoadNext]_loadVars PROVE OnlyNeeded'
  OBVIOUS
<1>1. ASSUME UNCHANGED <<imports, calls>>, loaded' \subseteq loaded \cup Needed PROVE OnlyNeeded'
  BY <1>1, SameNeeds DEF OnlyNeeded
<1>2. CASE UNCHANGED loadVars
  BY <1>1, <1>2 DEF loadVars
<1>3. CASE LoadNext
  <2>1. ending = "none"
    BY <1>3 DEF LoadNext, NotFound, BareScript, ImportCycle, PassOver, ImportAgain, ImportFirst,
                ModuleEnds, CheckEntry, ReadSibling, AddSibling, EntryEnds, Importable, Doing
  <2>2. LoadTypes /\ CallsInv
    BY <2>1 DEF LoadInv
  <2>3. Len(calls) \in DOMAIN calls /\ Top = calls[Len(calls)] /\ DOMAIN calls = 1..Len(calls)
    BY <2>2, TopFacts
  <2>4. ASSUME NEW error, Fails(error) PROVE OnlyNeeded'
    BY <1>1, <2>4 DEF Fails
  <2>5. ASSUME calls' = Advanced, Top.todo # <<>>, UNCHANGED <<imports, loaded>> PROVE OnlyNeeded'
    BY <2>2, <2>3, <2>5, AdvancedFacts, DropFacts, NeededDrop
  <2>6. CASE NotFound \/ BareScript \/ ImportCycle
    BY <2>4, <2>6 DEF NotFound, BareScript, ImportCycle
  <2>7. CASE PassOver
    BY <2>5, <2>7 DEF PassOver, Doing
  <2>8. CASE CheckEntry
    BY <2>4, <2>5, <2>8 DEF CheckEntry, Doing
  <2>9. CASE AddSibling
    BY <2>5, <2>9 DEF AddSibling, Doing
  <2>10. CASE EntryEnds
    BY <1>1, <2>10 DEF EntryEnds
  <2>11. CASE ImportAgain
    <3>1. /\ UNCHANGED <<imports, loaded>>
          /\ \/ ending' = "name conflict" /\ UNCHANGED <<calls, namespaces, merged>>
             \/ Takes(calls, merged, <<>>, Target)
      BY <2>2, <2>11, AgainFacts
    <3>2. CASE ending' = "name conflict" /\ UNCHANGED <<calls, namespaces, merged>>
      BY <1>1, <3>1, <3>2
    <3>3. CASE ending' # "name conflict"
      <4>1. Drop(Len(calls))
        BY <2>2, <2>11, <3>3, AgainStep DEF NoConflict
      <4> QED BY <2>2, <2>3, <3>1, <4>1, NeededDrop
    <3> QED BY <2>1, <3>1, <3>2, <3>3 DEF Takes
  <2>12. CASE ImportFirst
    <3>1. /\ UNCHANGED <<imports, loaded>> /\ calls' = Append(calls, Call(Target))
          /\ Target \in Unit /\ Call(Target) \in CallOf /\ Call(Target).unit = Target
      BY <2>2, <2>12, PushStep
    <3>2. Target = Goal(Head(Top.todo)) /\ Top.todo # <<>> /\ Head(Top.todo).do = "import"
      BY <2>2, <2>12, TargetFacts DEF ImportFirst, Importable
    <3>3. Target \in Needs(Top.unit)
      BY <2>2, <2>3, <3>2, GoalNeeded
    <3>4. Top.unit = Entry \/ Top.unit \in Needed
      BY <2>2, <2>3 DEF OnlyNeeded, CallsInv
    <3>5. Target \in Needed
      BY <3>1, <3>3, <3>4, NeededFacts
    <3>6. \A i \in DOMAIN calls' : \/ i \in DOMAIN calls /\ calls'[i] = calls[i]
                                   \/ calls'[i] = Call(Target)
      <4> DEFINE t == Call(Target)
      <4> HIDE DEF t
      <4>1. t \in CallOf /\ calls' = Append(calls, t) /\ calls \in Seq(CallOf)
        BY <2>2, <3>1 DEF t, LoadTypes
      <4>2. \A i \in DOMAIN calls' : \/ i \in DOMAIN calls /\ calls'[i] = calls[i]
                                     \/ calls'[i] = t
        BY <4>1
      <4> QED BY <4>2 DEF t
    <3>7. \A i \in DOMAIN calls' : i # 1 => calls'[i].unit \in Needed
      BY <3>1, <3>5, <3>6 DEF OnlyNeeded
    <3> QED BY <3>1, <3>7, SameNeeds DEF OnlyNeeded
  <2>13. CASE ModuleEnds
    <3>1. /\ UNCHANGED imports /\ loaded' = loaded \cup {Top.unit} /\ Len(calls) > 1
          /\ \/ ending' = "name conflict" /\ UNCHANGED <<calls, namespaces, merged>>
             \/ Takes(Front(calls), SubSeq(merged, 1, Top.start), Written, Top.unit)
      BY <2>2, <2>13, EndsFacts
    <3>2. loaded' \subseteq loaded \cup Needed
      <4>1. Len(calls) # 1
        <5> DEFINE n == Len(calls)
        <5>1. n > 1 /\ n \in Nat
          BY <2>2, <3>1, TopFacts
        <5> HIDE DEF n
        <5>2. n # 1
          BY <5>1
        <5> QED BY <5>2 DEF n
      <4>2. Top.unit \in Needed
        BY <2>3, <4>1 DEF OnlyNeeded
      <4> QED BY <3>1, <4>2
    <3>3. CASE ending' = "name conflict" /\ UNCHANGED <<calls, namespaces, merged>>
      BY <1>1, <3>1, <3>2, <3>3
    <3>4. CASE ending' # "name conflict"
      <4>1. Drop(Len(calls) - 1) /\ Len(calls) - 1 \in DOMAIN calls
        BY <2>2, <2>13, <3>1, <3>4, EndsStep, FrontFacts DEF NoConflict
      <4> QED BY <2>2, <3>1, <3>2, <4>1, NeededDrop
    <3> QED BY <2>1, <3>1, <3>3, <3>4 DEF Takes
  <2>14. CASE ReadSibling
    <3> DEFINE t == ImportsFrom(Head(Top.todo).from) \o <<Sibling(Head(Top.todo).from)>> \o Tail(Top.todo)
    <3>1. UNCHANGED <<imports, loaded>> /\ calls' = [calls EXCEPT ![Len(calls)].todo = t]
      BY <2>2, <2>14, ReadStep
    <3> HIDE DEF t
    <3>2. \A i \in DOMAIN calls' : i \in DOMAIN calls /\ calls'[i].unit = calls[i].unit
      <4>1. calls \in Seq(CallOf) /\ \A i \in DOMAIN calls : calls[i] \in CallOf
        BY <2>2, TopFacts DEF LoadTypes
      <4> QED BY <2>3, <3>1, <4>1 DEF CallOf
    <3> QED BY <3>1, <3>2, SameNeeds DEF OnlyNeeded
  <2> QED BY <1>3, <2>6, <2>7, <2>8, <2>9, <2>10, <2>11, <2>12, <2>13, <2>14 DEF LoadNext
<1> QED BY <1>2, <1>3

\* What has been loaded in the end is closed under imports.
LEMMA AllNeeded ==
  LoadInv /\ ending = "ok" => From(Targets(Entry), Targets) \subseteq loaded
<1> SUFFICES ASSUME LoadInv, ending = "ok", NEW u \in From(Targets(Entry), Targets)
             PROVE  u \in loaded
  OBVIOUS
<1>1. LoadTypes /\ CallsInv /\ Pending /\ NoLoops /\ Len(calls) = 1 /\ calls[1].todo = <<>>
  BY DEF LoadInv, Ends
<1>2. Top = calls[1] /\ calls[1].unit = Entry /\ Top.todo = <<>>
  BY <1>1, TopFacts DEF CallsInv
<1>3. Targets(Entry) \subseteq loaded /\ \A v \in loaded : Targets(v) \subseteq loaded
  BY <1>1, <1>2, AllLoaded
<1>4. loaded \in SUBSET Unit
  BY <1>1 DEF LoadTypes
<1> QED BY <1>3, <1>4 DEF From

\* A program that is loaded to its end has loaded all that the entry imports,
\* directly or not, and no program loads what neither the entry nor a class file
\* beside it leads to: internal/runner, loadSource.
LoadsImports ==
  /\ ending = "ok" => From(Targets(Entry), Targets) \subseteq loaded
  /\ loaded \subseteq From(Needs(Entry), Needs)

THEOREM LoadsImportsCorrect == ToolSpec => []LoadsImports
<1>1. ToolInit => OnlyNeeded
  <2> SUFFICES ASSUME LoadInit PROVE OnlyNeeded
    BY DEF ToolInit
  <2>1. loaded = {} /\ calls = <<Call(Entry)>>
    BY DEF LoadInit
  <2>2. DOMAIN calls = {1}
    BY <2>1
  <2> QED BY <2>1, <2>2 DEF OnlyNeeded
<1>2. LoadInv /\ OnlyNeeded /\ [Load \/ BuildLoaded]_<<loadVars, buildVars>> => OnlyNeeded'
  <2>1. [Load \/ BuildLoaded]_<<loadVars, buildVars>> => [LoadNext]_loadVars
    BY DEF Load, BuildLoaded
  <2> QED BY <2>1, NeededStep
<1>3. LoadInv /\ OnlyNeeded => LoadsImports
  BY AllNeeded DEF OnlyNeeded, Needed, LoadsImports
<1> QED BY <1>1, <1>2, <1>3, ToolLoadInv, PTL DEF ToolSpec

-----------------------------------------------------------------------------
(* The builds.                                                             *)

\* Whatever programs are loaded first, the steps that build them are those of
\* Builds: what holds of its builds holds of tya build (cmd/tya/main.go).
THEOREM ToolchainBuilds == ToolSpec => BuildSpec
<1>1. ToolInit => BuildInit
  BY DEF ToolInit
<1>2. [Load \/ BuildLoaded]_<<loadVars, buildVars>> => [BuildNext]_buildVars
  BY DEF Load, BuildLoaded
<1> QED BY <1>1, <1>2, PTL DEF ToolSpec, BuildSpec

Partial == [Source -> Content \cup {None}]
Making == {"compiling", "clearing", "removing", "again"}
Later == Making \cup {"reading", "linking", "done"}
Phases == Later \cup {"idle", "writing", "hashing", "failed", "crashed"}

Types ==
  /\ runtime \in Key
  /\ objects \in [Key -> Partial]
  /\ phase \in [Build -> Phases]
  /\ key \in [Build -> Partial]
  /\ made \in [Build -> Partial]
  /\ output \in [Build -> Partial]

(* A build has a whole key once it has looked, and objects of its own only *)
(* from then to their renaming.                                            *)
OwnSound ==
  \A b \in Build : /\ phase[b] = "writing" => key[b] = Nothing
                   /\ phase[b] \in Later => key[b] \in Key
                   /\ phase[b] \notin Making => made[b] = Nothing

(* What is hashed and not compiled yet has not been edited.                *)
KeysFresh ==
  \A b \in Build, i \in Source :
    phase[b] \in {"hashing", "compiling"} /\ key[b][i] # None /\ made[b][i] = None
      => key[b][i] = runtime[i]
MadeAgrees ==
  \A b \in Build, i \in Source : made[b][i] \in {None, key[b][i]}
CacheAgrees ==
  \A k \in Key, i \in Source : objects[k][i] \in {None, k[i]}
OutputAgrees ==
  \A b \in Build : phase[b] = "done" => output[b] = key[b]
Agreement == KeysFresh /\ MadeAgrees /\ CacheAgrees /\ OutputAgrees

CacheInv == Types /\ OwnSound /\ (~mixed => Agreement)

-----------------------------------------------------------------------------
\* A build starts with nothing hashed, nothing compiled and an empty cache.
LEMMA InitCacheInv == BuildInit => CacheInv
  BY BuildsAssumption
  DEF BuildInit, CacheInv, Types, OwnSound, Agreement, KeysFresh, MadeAgrees,
      CacheAgrees, OutputAgrees, Nothing, Key, Partial, Phases, Later, Making

\* What the initial and the forgotten functions are made of.
LEMMA NothingFacts ==
  /\ Nothing \in Partial
  /\ \A i \in Source : Nothing[i] = None
  BY DEF Nothing, Partial

\* A step that takes a build from one phase to the next, and may drop what it
\* has compiled, keeps the invariant, if the key is whole when it has to be.
LEMMA PassesInv ==
  ASSUME CacheInv, NEW b \in Build, NEW to \in Phases, Goes(b, to),
         made' = made \/ (NoneMade(b) /\ to = "reading"),
         UNCHANGED <<runtime, objects, key, output, mixed>>,
         to \notin {"writing", "done"},
         to = "compiling" => phase[b] = "hashing",
         to = "hashing" => phase[b] = "writing",
         to \in Later => phase[b] \in Later \/ Whole(key[b]),
         phase[b] \in Making => to \in Making \/ NoneMade(b)
  PROVE  CacheInv'
<1> USE BuildsAssumption DEF CacheInv, Types, Goes, NoneMade
<1>1. Types'
  BY NothingFacts
<1>2. OwnSound'
  <2>1. Whole(key[b]) => key[b] \in Key
    BY DEF Whole, Key, Partial
  <2> QED BY <1>1, <2>1, NothingFacts DEF OwnSound, Later, Making
<1>3. ASSUME ~mixed' PROVE Agreement'
  <2>1. Agreement
    BY <1>3
  <2>2. KeysFresh'
    BY <1>1, <2>1, NothingFacts DEF OwnSound, Agreement, KeysFresh, Later, Making
  <2>3. MadeAgrees'
    BY <1>1, <2>1, NothingFacts DEF Agreement, MadeAgrees
  <2>4. CacheAgrees' /\ OutputAgrees'
    BY <1>1, <2>1 DEF Agreement, CacheAgrees, OutputAgrees
  <2> QED BY <2>2, <2>3, <2>4 DEF Agreement
<1> QED BY <1>1, <1>2, <1>3

\* A build that fails or is killed leaves nothing the invariant speaks of.
LEMMA GivesUpInv ==
  ASSUME CacheInv, NEW b \in Build, NEW to \in {"failed", "crashed"}, Goes(b, to),
         Forgets(b), made' = [made EXCEPT ![b] = Nothing],
         UNCHANGED <<runtime, objects, output, mixed>>
  PROVE  CacheInv'
<1> USE BuildsAssumption DEF CacheInv, Types, Goes, Forgets
<1>1. Types'
  BY NothingFacts DEF Phases
<1>2. OwnSound'
  BY <1>1, NothingFacts DEF OwnSound, Later, Making
<1>3. ASSUME ~mixed' PROVE Agreement'
  <2>1. KeysFresh' /\ CacheAgrees' /\ OutputAgrees'
    BY <1>1, <1>3 DEF Agreement, KeysFresh, CacheAgrees, OutputAgrees
  <2>2. MadeAgrees'
    BY <1>1, <1>3, NothingFacts DEF Agreement, MadeAgrees
  <2> QED BY <2>1, <2>2 DEF Agreement
<1> QED BY <1>1, <1>2, <1>3

\* A build begins with nothing hashed and nothing compiled.
LEMMA BeginInv == ASSUME CacheInv, NEW b \in Build, Begin(b) PROVE CacheInv'
<1> USE BuildsAssumption
    DEF CacheInv, Types, Begin, Running, Ended, Forgets, Goes, cacheVars
<1>1. Types'
  BY NothingFacts DEF Phases
<1>2. made[b] = Nothing
  BY DEF OwnSound, Making
<1>3. OwnSound'
  BY <1>1, <1>2, NothingFacts DEF OwnSound, Later, Making
<1>4. ASSUME ~mixed' PROVE Agreement'
  <2>1. KeysFresh' /\ CacheAgrees' /\ OutputAgrees'
    BY <1>1, <1>4 DEF Agreement, KeysFresh, CacheAgrees, OutputAgrees
  <2>2. MadeAgrees'
    BY <1>1, <1>2, <1>4, NothingFacts DEF Agreement, MadeAgrees
  <2> QED BY <2>1, <2>2 DEF Agreement
<1> QED BY <1>1, <1>3, <1>4

\* What is hashed is what the source holds.
LEMMA HashInv == ASSUME CacheInv, NEW b \in Build, Hash(b) PROVE CacheInv'
<1> USE BuildsAssumption
    DEF CacheInv, Types, Key, Partial, Hash, NextOf, fileVars, cacheVars, aboutVars
<1>1. Types'
  OBVIOUS
<1>2. OwnSound'
  BY <1>1 DEF OwnSound, Later, Making
<1>3. ASSUME ~mixed' PROVE Agreement'
  <2>1. made[b] = Nothing
    BY DEF OwnSound, Making
  <2>2. KeysFresh' /\ MadeAgrees'
    BY <1>1, <1>3, <2>1, NothingFacts DEF Agreement, KeysFresh, MadeAgrees
  <2>3. CacheAgrees' /\ OutputAgrees'
    BY <1>1, <1>3 DEF Agreement, CacheAgrees, OutputAgrees
  <2> QED BY <2>2, <2>3 DEF Agreement
<1> QED BY <1>1, <1>2, <1>3

\* What is compiled is what was hashed: the source has not been edited since.
LEMMA CompileInv == ASSUME CacheInv, NEW b \in Build, Compile(b) PROVE CacheInv'
<1> USE BuildsAssumption
    DEF CacheInv, Types, Key, Partial, Compile, NextOf, fileVars, cacheVars, aboutVars
<1>1. Types'
  OBVIOUS
<1>2. OwnSound'
  BY <1>1 DEF OwnSound, Later, Making
<1>3. ASSUME ~mixed' PROVE Agreement'
  <2>1. \A i \in Source : key[b][i] # None
    BY DEF OwnSound, Later, Making
  <2>2. KeysFresh' /\ MadeAgrees'
    BY <1>1, <1>3, <2>1 DEF Agreement, KeysFresh, MadeAgrees
  <2>3. CacheAgrees' /\ OutputAgrees'
    BY <1>1, <1>3 DEF Agreement, CacheAgrees, OutputAgrees
  <2> QED BY <2>2, <2>3 DEF Agreement
<1> QED BY <1>1, <1>2, <1>3

\* A directory that becomes that of a key holds what the key says.
LEMMA MovesInv ==
  ASSUME CacheInv, NEW b \in Build, phase[b] \in Making, Moves(b)
  PROVE  CacheInv'
<1> USE BuildsAssumption
    DEF CacheInv, Types, Moves, Goes, NoneMade, fileVars, aboutVars
<1>1. key[b] \in Key
  BY DEF OwnSound, Later, Making
<1>2. Types'
  BY <1>1, NothingFacts DEF Phases, Later
<1>3. OwnSound'
  BY <1>2, NothingFacts DEF OwnSound, Later, Making
<1>4. ASSUME ~mixed' PROVE Agreement'
  <2>1. KeysFresh' /\ OutputAgrees'
    BY <1>2, <1>4 DEF Agreement, KeysFresh, OutputAgrees
  <2>2. MadeAgrees'
    BY <1>2, <1>4, NothingFacts DEF Agreement, MadeAgrees
  <2>3. CacheAgrees'
    BY <1>1, <1>2, <1>4 DEF Agreement, MadeAgrees, CacheAgrees
  <2> QED BY <2>1, <2>2, <2>3 DEF Agreement
<1> QED BY <1>2, <1>3, <1>4

\* To lose an object of a directory does no harm to what the others are of.
LEMMA LosesInv ==
  ASSUME CacheInv, NEW k \in Key, NEW i \in Source,
         objects' = [objects EXCEPT ![k][i] = None],
         UNCHANGED <<runtime, phase, ownVars, mixed>>
  PROVE  CacheInv'
<1> USE BuildsAssumption DEF CacheInv, Types, ownVars
<1>1. Types'
  BY DEF Partial
<1>2. OwnSound'
  BY DEF OwnSound
<1>3. ASSUME ~mixed' PROVE Agreement'
  <2>1. KeysFresh' /\ MadeAgrees' /\ OutputAgrees'
    BY <1>3 DEF Agreement, KeysFresh, MadeAgrees, OutputAgrees
  <2>2. CacheAgrees'
    BY <1>1, <1>3 DEF Agreement, CacheAgrees, Partial
  <2> QED BY <2>1, <2>2 DEF Agreement
<1> QED BY <1>1, <1>2, <1>3

\* An executable is linked with whole objects only, and they are of its key.
LEMMA LinkInv == ASSUME CacheInv, NEW b \in Build, Link(b) PROVE CacheInv'
<1> USE BuildsAssumption
    DEF CacheInv, Types, Link, Goes, fileVars, cacheVars, aboutVars
<1>1. key[b] \in Key /\ made[b] = Nothing
  BY DEF OwnSound, Later, Making
<1>2. CASE Complete(key[b])
  <2>1. output' = [output EXCEPT ![b] = objects[key[b]]] /\ phase' = [phase EXCEPT ![b] = "done"]
        /\ UNCHANGED <<key, made>>
    BY <1>2
  <2>2. Types'
    BY <1>1, <2>1 DEF Phases, Later
  <2>3. OwnSound'
    BY <1>1, <2>1, <2>2 DEF OwnSound, Later, Making
  <2>4. ASSUME ~mixed' PROVE Agreement'
    <3>1. KeysFresh' /\ MadeAgrees' /\ CacheAgrees'
      BY <2>1, <2>2, <2>4 DEF Agreement, KeysFresh, MadeAgrees, CacheAgrees
    <3>2. objects[key[b]] = key[b]
      <4>1. \A i \in Source : objects[key[b]][i] = key[b][i]
        BY <1>1, <1>2, <2>4 DEF Agreement, CacheAgrees, Complete, Whole
      <4> QED BY <1>1, <4>1, SMTT(30) DEF Key, Partial
    <3>3. OutputAgrees'
      BY <2>1, <2>2, <2>4, <3>2 DEF Agreement, OutputAgrees
    <3> QED BY <3>1, <3>3 DEF Agreement
  <2> QED BY <2>2, <2>3, <2>4
<1>3. CASE ~Complete(key[b])
  <2>1. made' = [made EXCEPT ![b] = Nothing]
    BY <1>1
  <2> QED BY <1>3, <2>1, GivesUpInv
<1> QED BY <1>2, <1>3

\* An edit comes between hashing and compilation, or changes nothing hashed
\* that is still to be compiled.
LEMMA EditInv == ASSUME CacheInv, NEW i \in Source, Edit(i) PROVE CacheInv'
<1> USE BuildsAssumption DEF CacheInv, Types, Edit, Meddles, ownVars, cacheVars
<1>1. Types'
  BY DEF Key
<1>2. OwnSound'
  BY DEF OwnSound
<1>3. ASSUME ~mixed' PROVE Agreement'
  <2>1. MadeAgrees' /\ CacheAgrees' /\ OutputAgrees'
    BY <1>3 DEF Agreement, MadeAgrees, CacheAgrees, OutputAgrees
  <2>2. KeysFresh'
    <3>1. UNCHANGED <<phase, key, made>>
      OBVIOUS
    <3>2. ASSUME NEW j \in Source, j # i PROVE runtime'[j] = runtime[j]
      BY <3>2 DEF Key
    <3>3. ~mixed /\ ~\E b \in Build : /\ phase[b] \in {"hashing", "compiling"}
                                      /\ key[b][i] # None /\ made[b][i] = None
      BY <1>3
    <3> QED BY <3>1, <3>2, <3>3 DEF Agreement, KeysFresh
  <2> QED BY <2>1, <2>2 DEF Agreement
<1> QED BY <1>1, <1>2, <1>3

\* Every step of a build keeps the invariant.
LEMMA BuildStepInv == ASSUME CacheInv, NEW b \in Build, BuildStep(b) PROVE CacheInv'
<1> USE DEF fileVars, cacheVars, aboutVars
<1>1. CASE Begin(b) \/ Hash(b) \/ Compile(b) \/ Link(b)
  BY <1>1, BeginInv, HashInv, CompileInv, LinkInv
<1>2. CASE Rename(b) \/ RenameAgain(b)
  BY <1>2, MovesInv DEF Rename, RenameAgain, Making
<1>3. CASE Write(b)
  BY <1>3, PassesInv DEF Write, Phases, Later, Making, ownVars
<1>4. CASE Look(b)
  BY <1>4, PassesInv DEF Look, Phases, Later, Making, ownVars
<1>5. CASE OpenDir(b)
  BY <1>5, PassesInv DEF OpenDir, Phases, Later, Making, ownVars
<1>6. CASE RemoveDir(b)
  BY <1>6, PassesInv DEF RemoveDir, Phases, Later, Making, ownVars
<1>7. CASE RenameFails(b)
  <2>1. CASE Complete(key[b])
    BY <1>7, <2>1, PassesInv DEF RenameFails, Phases, Later, Making, NoneMade
  <2>2. CASE ~Complete(key[b])
    BY <1>7, <2>2, PassesInv DEF RenameFails, Phases, Later, Making
  <2> QED BY <2>1, <2>2
<1>8. CASE CompileFails(b) \/ RenameAgainFails(b) \/ Crash(b)
  BY <1>8, GivesUpInv DEF CompileFails, RenameAgainFails, Crash, NoneMade
<1>9. CASE RemoveObject(b)
  <2>1. phase[b] = "removing" /\ key[b] \in Key
    BY <1>9 DEF RemoveObject, CacheInv, OwnSound, Later, Making
  <2> QED BY <1>9, <2>1, LosesInv DEF RemoveObject
<1>10. CASE ReadMain(b)
  <2>1. made[b] = Nothing /\ phase[b] = "reading"
    BY <1>10 DEF ReadMain, CacheInv, OwnSound, Making
  <2>2. CASE mainC \in {None, Blank, Garbled}
    <3>1. made' = [made EXCEPT ![b] = Nothing]
      BY <1>10, <2>1 DEF ReadMain, CacheInv, Types
    <3> QED BY <1>10, <2>2, <3>1, GivesUpInv DEF ReadMain
  <2>3. CASE mainC \notin {None, Blank, Garbled}
    BY <1>10, <2>1, <2>3, PassesInv DEF ReadMain, Phases, Later, Making
  <2> QED BY <2>2, <2>3
<1> QED
  BY <1>1, <1>2, <1>3, <1>4, <1>5, <1>6, <1>7, <1>8, <1>9, <1>10 DEF BuildStep

\* Every step keeps the invariant.
LEMMA NextCacheInv == CacheInv /\ [BuildNext]_buildVars => CacheInv'
<1> SUFFICES ASSUME CacheInv, [BuildNext]_buildVars PROVE CacheInv'
  OBVIOUS
<1> USE DEF fileVars, cacheVars, ownVars, aboutVars
<1>1. CASE \E b \in Build : BuildStep(b)
  BY <1>1, BuildStepInv
<1>2. CASE \E i \in Source : Edit(i)
  BY <1>2, EditInv
<1>3. CASE \E k \in Key, i \in Source : Vanish(k, i)
  BY <1>3, LosesInv DEF Vanish, Meddles
<1>4. CASE Clean
  BY <1>4 DEF Clean, Meddles, CacheInv, Types, OwnSound, Agreement, KeysFresh,
              MadeAgrees, CacheAgrees, OutputAgrees
<1>5. CASE UNCHANGED buildVars
  BY <1>5 DEF buildVars, CacheInv, Types, OwnSound, Agreement, KeysFresh,
              MadeAgrees, CacheAgrees, OutputAgrees
<1> QED BY <1>1, <1>2, <1>3, <1>4, <1>5 DEF BuildNext

\* The cache holds what its keys say, for any builds, sources and bounds.
THEOREM CacheIsSound == BuildSpec => []CacheHolds
<1>1. CacheInv => CacheHolds
  BY DEF CacheInv, Agreement, CacheAgrees, OutputAgrees, CacheHolds
<1> QED BY <1>1, InitCacheInv, NextCacheInv, PTL DEF BuildSpec

-----------------------------------------------------------------------------
(* A build that nothing comes across is the only one that runs, so what it *)
(* has found or left on disk is still there.                               *)
FromMain == {"hashing", "compiling", "clearing", "removing", "again", "reading"}
Disk(b) ==
  /\ phase[b] = "writing" => b \in opened /\ mainC = Blank
  /\ phase[b] \in FromMain => mainC = ProgramOf[b]
  /\ phase[b] = "clearing" => key[b] \in dirs
  /\ phase[b] = "removing" => b \in emptying
  /\ phase[b] = "again" => key[b] \notin dirs
  /\ phase[b] \in {"clearing", "removing", "again"} => Whole(made[b])
  /\ phase[b] \in {"reading", "linking"} => Complete(key[b])
Result(b) ==
  /\ phase[b] # "failed"
  /\ phase[b] \in {"linking", "done"} => program[b] = ProgramOf[b]
AloneSound(b) == (b \in Running => Running = {b}) /\ Disk(b) /\ Result(b)
AllBuild == alone \subseteq Build /\ DOMAIN program = Build
AloneInv == CacheInv /\ AllBuild /\ \A b \in alone : AloneSound(b)

\* A step of a build changes the phase of no other, and only a build that
\* begins was not running before.
LEMMA StepFrame ==
  ASSUME AloneInv, NEW c \in Build, BuildStep(c)
  PROVE  /\ \A b \in Build \ {c} : phase'[b] = phase[b] /\ program'[b] = program[b]
         /\ Running' \subseteq Running \cup {c}
         /\ Begin(c) \/ (c \in Running /\ alone' \subseteq alone)
         /\ AllBuild'
<1> USE DEF AloneInv, AllBuild, CacheInv, Types, fileVars, cacheVars, ownVars, aboutVars,
            Goes, Forgets, Running, Ended
<1>1. /\ \A b \in Build \ {c} : phase'[b] = phase[b] /\ program'[b] = program[b]
      /\ Begin(c) \/ (c \in Running /\ alone' \subseteq alone)
      /\ AllBuild'
  <2>1. CASE Begin(c) \/ Write(c) \/ Hash(c) \/ Look(c) \/ Compile(c) \/ CompileFails(c)
    BY <2>1 DEF Begin, Write, Hash, Look, Compile, CompileFails
  <2>2. CASE Rename(c) \/ RenameFails(c) \/ OpenDir(c) \/ RemoveObject(c) \/ RemoveDir(c)
    BY <2>2 DEF Rename, Moves, RenameFails, OpenDir, RemoveObject, RemoveDir
  <2>3. CASE RenameAgain(c) \/ RenameAgainFails(c) \/ ReadMain(c) \/ Link(c) \/ Crash(c)
    BY <2>3 DEF RenameAgain, Moves, RenameAgainFails, ReadMain, Link, Crash
  <2> QED BY <2>1, <2>2, <2>3 DEF BuildStep
<1>2. Running' \subseteq Running \cup {c}
  BY <1>1
<1> QED BY <1>1, <1>2

\* The steps of another build come across every build that runs.
LEMMA OthersAlone ==
  ASSUME AloneInv, NEW c \in Build, BuildStep(c), NEW b \in alone', b # c
  PROVE  AloneSound(b)'
<1>1. b \in Build /\ b \in alone /\ b \notin Running
  <2>1. CASE Begin(c)
    BY <2>1, StepFrame DEF Begin, AloneInv, AllBuild
  <2>2. CASE c \in Running /\ alone' \subseteq alone
    BY <2>2 DEF AloneInv, AllBuild, AloneSound
  <2> QED BY <2>1, <2>2, StepFrame
<1>2. phase'[b] = phase[b] /\ program'[b] = program[b] /\ b \notin Running'
  BY <1>1, StepFrame
<1>3. phase[b] \in {"done", "crashed", "idle"}
  BY <1>1 DEF AloneInv, AloneSound, Result, Running, Ended
<1> QED
  BY <1>1, <1>2, <1>3 DEF AloneInv, AloneSound, Disk, Result, FromMain

\* The steps of the build itself.
LEMMA OwnAlone ==
  ASSUME AloneInv, NEW b \in Build, BuildStep(b), b \in alone'
  PROVE  AloneSound(b)'
<1> USE BuildsAssumption
    DEF AloneInv, CacheInv, Types, Goes, fileVars, cacheVars, ownVars, aboutVars, FromMain
<1>1. CASE Begin(b)
  <2>1. Running = {}
    BY <1>1 DEF Begin
  <2>2. phase'[b] = "writing" /\ mainC' = Blank /\ b \in opened' /\ Running' \subseteq {b}
    BY <1>1, <2>1, StepFrame DEF Begin, AllBuild
  <2> QED BY <2>2 DEF AloneSound, Disk, Result
<1>2. CASE ~Begin(b)
  <2>1. b \in Running /\ b \in alone /\ Running = {b} /\ Running' \subseteq {b}
    BY <1>2, StepFrame DEF AloneSound
  <2>2. Disk(b) /\ Result(b)
    BY <2>1 DEF AloneSound
  <2>3. phase[b] \in Later => key[b] \in Key
    BY DEF OwnSound
  <2>4. Disk(b)' /\ Result(b)'
    <3>1. CASE Write(b)
      BY <3>1, <2>2 DEF Write, Disk, Result
    <3>2. CASE Hash(b)
      BY <3>2, <2>2 DEF Hash, Disk, Result
    <3>3. CASE Look(b)
      BY <3>3, <2>2 DEF Look, Disk, Result, Complete
    <3>4. CASE Compile(b)
      BY <3>4, <2>2 DEF Compile, Disk, Result
    <3>5. CASE CompileFails(b)
      BY <3>5 DEF CompileFails
    <3>6. CASE Rename(b)
      BY <3>6, <2>2, <2>3 DEF Rename, Moves, Disk, Result, Complete, Whole, Later, Making
    <3>7. CASE RenameFails(b)
      BY <3>7, <2>2 DEF RenameFails, Disk, Result, Complete, Whole
    <3>8. CASE OpenDir(b)
      BY <3>8, <2>2 DEF OpenDir, Disk, Result
    <3>9. CASE RemoveObject(b)
      BY <3>9, <2>2 DEF RemoveObject, Disk, Result
    <3>10. CASE RemoveDir(b)
      BY <3>10, <2>2 DEF RemoveDir, Disk, Result
    <3>11. CASE RenameAgain(b)
      BY <3>11, <2>2, <2>3 DEF RenameAgain, Moves, Disk, Result, Complete, Whole, Later, Making
    <3>12. CASE RenameAgainFails(b)
      BY <3>12, <2>2 DEF RenameAgainFails, Disk
    <3>13. CASE ReadMain(b)
      BY <3>13, <2>2 DEF ReadMain, Disk, Result, AllBuild, Complete
    <3>14. CASE Link(b)
      BY <3>14, <2>2 DEF Link, Disk, Result, Complete
    <3>15. CASE Crash(b)
      BY <3>15 DEF Crash, Disk, Result
    <3> QED
      BY <1>2, <3>1, <3>2, <3>3, <3>4, <3>5, <3>6, <3>7, <3>8, <3>9, <3>10, <3>11,
         <3>12, <3>13, <3>14, <3>15 DEF BuildStep
  <2> QED BY <2>1, <2>4 DEF AloneSound
<1> QED BY <1>1, <1>2

\* What happens beside the builds comes across every one that runs, an edit
\* excepted, which touches nothing a build alone relies on.
LEMMA BesideAlone ==
  ASSUME AloneInv, NEW b \in alone',
         \/ \E i \in Source : Edit(i)
         \/ \E k \in Key, i \in Source : Vanish(k, i)
         \/ Clean
  PROVE  AloneSound(b)'
<1> USE DEF AloneInv, ownVars, cacheVars, fileVars, Meddles
<1>1. UNCHANGED <<phase, ownVars, dirs, emptying>> /\ b \in alone
  BY DEF Edit, Vanish, Clean
<1>2. AloneSound(b) /\ Running' = Running
  BY <1>1 DEF Running
<1>3. CASE \E i \in Source : Edit(i)
  BY <1>1, <1>2, <1>3 DEF Edit, AloneSound, Disk, Result, Complete
<1>4. CASE ~\E i \in Source : Edit(i)
  <2>1. b \notin Running
    BY <1>4 DEF Vanish, Clean
  <2>2. phase[b] \in {"done", "crashed", "idle"}
    BY <1>1, <1>2, <2>1 DEF AloneSound, Result, Running, Ended, AllBuild
  <2> QED BY <1>1, <1>2, <2>1, <2>2 DEF AloneSound, Disk, Result, FromMain
<1> QED BY <1>3, <1>4

\* A build that nothing comes across is one of its own program, whatever the
\* builds before it have left.
THEOREM AloneSucceeds == BuildSpec => []AloneBuilds
<1>1. BuildInit => AloneInv
  BY InitCacheInv DEF BuildInit, AloneInv, AllBuild
<1>2. AloneInv /\ [BuildNext]_buildVars => AloneInv'
  <2> SUFFICES ASSUME AloneInv, [BuildNext]_buildVars PROVE AloneInv'
    OBVIOUS
  <2>1. CacheInv'
    BY NextCacheInv DEF AloneInv
  <2>2. CASE UNCHANGED buildVars
    BY <2>1, <2>2
    DEF buildVars, fileVars, cacheVars, ownVars, aboutVars, AloneInv, AllBuild,
        AloneSound, Running, Disk, Result, Complete
  <2>3. CASE \E b \in Build : BuildStep(b)
    BY <2>1, <2>3, OthersAlone, OwnAlone, StepFrame DEF AloneInv
  <2>4. CASE \/ \E i \in Source : Edit(i)
             \/ \E k \in Key, i \in Source : Vanish(k, i)
             \/ Clean
    <3>1. AllBuild'
      BY <2>4 DEF Edit, Vanish, Clean, Meddles, ownVars, AloneInv, AllBuild
    <3> QED BY <2>1, <2>4, <3>1, BesideAlone DEF AloneInv
  <2> QED BY <2>2, <2>3, <2>4 DEF BuildNext
<1>3. AloneInv => AloneBuilds
  BY DEF AloneInv, AloneSound, Result, AloneBuilds
<1> QED BY <1>1, <1>2, <1>3, PTL DEF BuildSpec
=============================================================================
