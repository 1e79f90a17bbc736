------------------------------- MODULE MCLoader -------------------------------
(* An instance of Loader for TLC: an entry, a script m, a class file c, a     *)
(* class file d beside the entry, which is also the only file of the package  *)
(* p, and import statements of every kind between them.  One of the programs  *)
(* is built, beside another program of the project.                           *)
EXTENDS Toolchain, TLC

CONSTANTS e, m, c, d, p, x, pe, pm, pc, pd, pp, pn, C, D, b1, b2, one, other

ClassFiles == {c, d}
Scripts == {e, m}
Packages == {p}
Classes == c :> C @@ d :> D
FilesIn == p :> <<d>>
BesideEntry == <<d>>

Paths == {pe, pm, pc, pd, pp, pn}
Local == [u \in Unit |-> [q \in Paths |-> IF q = pd THEN d ELSE Missing]]
Library == pe :> <<e>> @@ pm :> <<m>> @@ pc :> <<c>> @@ pd :> <<>> @@ pp :> <<p>> @@ pn :> <<>>
PartsOf == [q \in Paths |-> <<IF q = pd THEN pp ELSE q>>]
BaseOf == [q \in Paths |-> q]

Imp(path, bare, alias, block) == [path |-> path, bare |-> bare, alias |-> alias, block |-> block]
One(path) == Imp(path, FALSE, <<>>, FALSE)
As(path, name) == Imp(path, FALSE, <<name>>, FALSE)
Bare(path) == Imp(path, TRUE, <<>>, FALSE)
InBlock(path) == Imp(path, FALSE, <<>>, TRUE)

OfEntry == {One(pc), Bare(pc), As(pc, x), One(pm), Bare(pm), One(pp), Bare(pp), One(pn),
            Imp(pm, FALSE, <<x>>, TRUE), InBlock(pd), InBlock(pc)}
UpTo2(S) == {<<>>} \cup {<<i>> : i \in S} \cup {<<i, j>> : i, j \in S}
UpTo1(S) == {<<>>} \cup {<<i>> : i \in S}

SomePrograms ==
  {e :> i @@ m :> j @@ c :> k @@ d :> l @@ p :> <<>> :
     i \in UpTo2(OfEntry), j \in UpTo1({One(pe), One(pc), As(pc, x), One(pp), Bare(pp)}),
     k \in UpTo1({One(pm), One(pd), One(pp)}), l \in UpTo1({One(pc), One(pm)})}

NamesTaken == {pp}

TwoBuilds == b1 :> one @@ b2 :> other
OneBuilt ==
  {e :> <<One(pm)>> @@ m :> <<>> @@ c :> <<>> @@ d :> <<>> @@ p :> <<>>}
=============================================================================
