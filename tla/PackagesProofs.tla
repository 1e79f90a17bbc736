---------------------------- MODULE PackagesProofs ----------------------------
(***************************************************************************)
(* The lock file of a project, for any packages, repositories and          *)
(* commands: what depends on what is locked together, an import finds the  *)
(* locked commit, an install keeps a lock that satisfies the manifest.     *)
(***************************************************************************)
EXTENDS Packages, FiniteSetTheorems, SequenceTheorems, TLAPS

EntryFields == {"source", "version", "url", "dir", "commit", "sum", "deps"}
JobFields == {"kind", "step", "todo", "plan"}
Slots == Name \X {Pack[c].version : c \in Commits}
CloneSet == [known : Nat, branch : Nat]
Trees == {t \in [commit : Commits, manifest : BOOLEAN, whole : BOOLEAN] :
            t.whole => t.manifest}

(* A git package is locked at a commit of its repository and has the       *)
(* checksum of the clone, or of a whole copy of that commit.               *)
EntrySound(e) ==
  /\ DOMAIN e = EntryFields
  /\ e.source = "git" =>
       /\ e.url \in Url /\ e.commit \in Commits
       /\ e.version = Pack[e.commit].version
       /\ e.sum \in {CloneSum(e.commit), TreeSum(Tree(e.commit, TRUE, TRUE))}
Plan(lf) ==
  /\ IsFiniteSet(DOMAIN lf) /\ DOMAIN lf \subseteq Name
  /\ \A n \in DOMAIN lf : EntrySound(lf[n])

WorldInv ==
  /\ pushed \in [Url -> Nat]
  /\ \A u \in Url : pushed[u] \in 1..Len(History[u])
  /\ \A d \in Dir : local[d] \in Local[d]
  /\ deps \in Seq(References) /\ devDeps \in Seq(References)
  /\ clones \in [Url -> CloneSet \cup {Nothing}]
  /\ \A u \in Url : clones[u] # Nothing =>
       clones[u].known <= pushed[u] /\ clones[u].branch \in 1..pushed[u]
  /\ store \in [Slots -> Trees \cup {Nothing}]

JobInv ==
  job # Idle =>
    /\ DOMAIN job = JobFields
    /\ job.step \in {"resolve", "copy"}
    /\ Plan(job.plan)
    /\ job.step = "resolve" => job.todo \in Seq(References)
    /\ job.step = "copy" => job.todo \in Seq(DOMAIN job.plan)

LockInv == lock # Nothing => Plan(lock)

(* What a package depends on is in the plan, or still to be visited.       *)
Closed(lf, names) == \A n \in DOMAIN lf : lf[n].deps \subseteq DOMAIN lf \cup names
ToVisit == IF job.step = "resolve" THEN {d.name : d \in ToSet(job.todo)} ELSE {}
ClosedInv ==
  /\ job # Idle => Closed(job.plan, ToVisit)
  /\ lock # Nothing => Closed(lock, {})

(* An install that finds a lock which satisfies the manifest only copies.  *)
KeptInv ==
  job # Idle /\ job.kind = "install" /\ lock # Nothing /\ SatisfiesManifest(lock) =>
    /\ job.step = "copy" /\ DOMAIN job.plan = DOMAIN lock
    /\ \A n \in DOMAIN lock : job.plan[n].commit = lock[n].commit

PkgInv == WorldInv /\ JobInv /\ LockInv /\ ClosedInv /\ KeptInv

-----------------------------------------------------------------------------
\* The packages of a plan in some order: a list of its names.
LEMMA NamesInOrder ==
  ASSUME NEW S, IsFiniteSet(S) PROVE SetToSeq(S) \in Seq(S)
<1>1. Cardinality(S) \in Nat /\ ExistsBijection(1..Cardinality(S), S)
  BY FS_CardinalityType
<1>2. PICK f : f \in Bijection(1..Cardinality(S), S)
  BY <1>1 DEF ExistsBijection
<1>3. f \in [1..Cardinality(S) -> S] /\ IsInjective(f)
  BY <1>2 DEF Bijection, Injection, IsInjective
<1>4. SetToSeq(S) \in [1..Cardinality(S) -> S]
  BY <1>3 DEF SetToSeq
<1> QED BY <1>1, <1>4

\* What copying starts with.
LEMMA CopyingFacts ==
  ASSUME NEW lf, Plan(lf), NEW kind
  PROVE  LET j == Copying(kind, lf)
         IN  /\ DOMAIN j = JobFields /\ j.kind = kind /\ j.step = "copy" /\ j.plan = lf
             /\ j.todo \in Seq(DOMAIN lf)
  BY NamesInOrder DEF Copying, Plan, JobFields

\* A table of the manifest stays one.
LEMMA TableFacts ==
  ASSUME NEW tab \in Seq(References)
  PROVE  /\ \A n : Without(tab, n) \in Seq(References)
         /\ \A d \in References : Put(tab, d) \in Seq(References)
<1>1. ASSUME NEW n PROVE Without(tab, n) \in Seq(References)
  <2>1. CASE HasName(tab, n)
    <3> DEFINE i == CHOOSE i \in DOMAIN tab : tab[i].name = n
    <3>1. i \in 1..Len(tab)
      BY <2>1 DEF HasName
    <3> HIDE DEF i
    <3>2. SubSeq(tab, 1, i - 1) \in Seq(References)
      BY <3>1, SubSeqProperties
    <3>3. SubSeq(tab, i + 1, Len(tab)) \in Seq(References)
      BY <3>1, SubSeqProperties
    <3>4. Without(tab, n) = SubSeq(tab, 1, i - 1) \o SubSeq(tab, i + 1, Len(tab))
      BY <2>1 DEF Without, RemoveAt, i
    <3> QED BY <3>2, <3>3, <3>4, ConcatProperties
  <2>2. CASE ~HasName(tab, n)
    BY <2>2 DEF Without
  <2> QED BY <2>1, <2>2
<1>2. ASSUME NEW d \in References PROVE Put(tab, d) \in Seq(References)
  BY DEF Put
<1> QED BY <1>1, <1>2

\* What is put in place of the first of a list leaves the others on it.
LEMMA VisitFacts ==
  ASSUME NEW S, NEW s \in Seq(S), NEW t \in Seq(S), t # <<>>
  PROVE  /\ s \o Tail(t) \in Seq(S)
         /\ ToSet(s) \subseteq ToSet(s \o Tail(t))
         /\ ToSet(t) \subseteq {Head(t)} \cup ToSet(s \o Tail(t))
<1> DEFINE u == Tail(t)
           r == s \o u
<1>1. /\ u \in Seq(S) /\ Len(u) = Len(t) - 1
      /\ \A i \in 1..Len(u) : u[i] = t[i + 1]
  BY HeadTailProperties
<1> HIDE DEF u
<1>2. /\ r \in Seq(S) /\ Len(r) = Len(s) + Len(u)
      /\ \A i \in 1..Len(s) + Len(u) : r[i] = IF i <= Len(s) THEN s[i] ELSE u[i - Len(s)]
  BY <1>1, ConcatProperties
<1> HIDE DEF r
<1>3. \A i \in 1..Len(s) : i \in DOMAIN r /\ r[i] = s[i]
  BY <1>1, <1>2, SMTT(30)
<1>4. ASSUME NEW i \in 1..Len(t), i # 1
      PROVE  Len(s) + (i - 1) \in DOMAIN r /\ r[Len(s) + (i - 1)] = t[i]
  <2>1. i - 1 \in 1..Len(u) /\ u[i - 1] = t[i]
    BY <1>1, <1>4
  <2>2. /\ Len(s) + (i - 1) \in 1..Len(s) + Len(u)
        /\ ~(Len(s) + (i - 1) <= Len(s)) /\ (Len(s) + (i - 1)) - Len(s) = i - 1
    BY <1>1, <2>1
  <2> QED BY <1>2, <2>1, <2>2
<1>5. r \in Seq(S) /\ ToSet(s) \subseteq ToSet(r)
  BY <1>2, <1>3 DEF ToSet
<1>6. ToSet(t) \subseteq {Head(t)} \cup ToSet(r)
  BY <1>4 DEF ToSet
<1> QED BY <1>5, <1>6 DEF r, u

\* A clone is as good after a fetch as before, and a commit that is checked
\* out for its own sake is that commit.
LEMMA GitFacts ==
  ASSUME WorldInv, NEW u \in Url, NEW clone \in Fetched(u), NEW ref
  PROVE  /\ clone \in CloneSet \cup {Nothing}
         /\ clone # Nothing => clone.known <= pushed[u] /\ clone.branch \in 1..pushed[u]
         /\ CheckedOut(u, clone, ref) \in Commits \cup {Nothing}
         /\ ref \in Commits => CheckedOut(u, clone, ref) \in {ref, Nothing}
<1> USE PackagesAssumption DEF WorldInv, CloneSet
<1>1. /\ clone \in CloneSet \cup {Nothing}
      /\ clone # Nothing => clone.known <= pushed[u] /\ clone.branch \in 1..pushed[u]
  <2>1. CASE clones[u] = Nothing
    BY <2>1 DEF Fetched
  <2>2. CASE clones[u] # Nothing
    <3>1. /\ clones[u] \in CloneSet /\ pushed[u] \in Nat /\ clones[u].known <= pushed[u]
          /\ clones[u].branch \in 1..pushed[u]
      BY <2>2
    <3>2. CASE clone = clones[u]
      BY <3>1, <3>2
    <3>3. CASE clone = [clones[u] EXCEPT !.known = pushed[u]]
      <4>1. clone \in CloneSet /\ clone.known = pushed[u] /\ clone.branch = clones[u].branch
        BY <3>1, <3>3
      <4> QED BY <3>1, <4>1
    <3> QED BY <2>2, <3>2, <3>3 DEF Fetched
  <2> QED BY <2>1, <2>2
<1>2. ASSUME clone # Nothing
      PROVE  /\ \A i \in 1..clone.known : History[u][i] \in Commits
             /\ History[u][clone.branch] \in Commits
  BY <1>1, <1>2
<1> QED BY <1>1, <1>2 DEF CheckedOut

\* The invariant holds of a project without any file.
LEMMA InitPkgInv == PkgInit => PkgInv
<1> SUFFICES ASSUME PkgInit PROVE PkgInv
  OBVIOUS
<1> USE PackagesAssumption DEF PkgInit
<1>1. WorldInv
  BY DEF WorldInv, Slots
<1>2. JobInv /\ LockInv /\ ClosedInv /\ KeptInv
  BY DEF JobInv, LockInv, ClosedInv, KeptInv
<1> QED BY <1>1, <1>2 DEF PkgInv

\* A command that begins to install either copies what is locked, or resolves
\* because the lock file does not satisfy the manifest it has now.
LEMMA BegunInv ==
  ASSUME PkgInv, WorldInv', UNCHANGED lock, job' = Begun(deps', devDeps', lock)
  PROVE  PkgInv'
<1> DEFINE fits == lock # Nothing /\ SatisfiesManifest(lock)'
<1>1. CASE fits
  <2>1. job' = Copying("install", lock) /\ Plan(lock)
    BY <1>1 DEF Begun, SatisfiesManifest, SatisfiesDependency, PkgInv, LockInv
  <2>2. JobInv' /\ LockInv'
    BY <2>1, CopyingFacts DEF JobInv, LockInv
  <2>3. ClosedInv' /\ KeptInv'
    BY <1>1, <2>1, CopyingFacts DEF PkgInv, ClosedInv, KeptInv, ToVisit, Closed
  <2> QED BY <2>2, <2>3 DEF PkgInv
<1>2. CASE ~fits
  <2>1. job' = Resolving("install", deps' \o devDeps')
    BY <1>2 DEF Begun, SatisfiesManifest, SatisfiesDependency
  <2>2. JobInv' /\ LockInv'
    BY <2>1, FS_EmptySet DEF JobInv, LockInv, Resolving, JobFields, Plan, Empty, PkgInv, WorldInv
  <2>3. ClosedInv' /\ KeptInv'
    BY <1>2, <2>1 DEF PkgInv, ClosedInv, KeptInv, ToVisit, Closed, Resolving, Empty
  <2> QED BY <2>2, <2>3 DEF PkgInv
<1> QED BY <1>1, <1>2

\* When no command runs, nothing but the world and the lock file counts.
LEMMA EndsInv ==
  ASSUME PkgInv, WorldInv', job' = Idle, lock' \in {lock, Empty} \/ (lock' = job.plan /\ job # Idle /\ ToVisit = {})
  PROVE  PkgInv'
<1>1. JobInv' /\ KeptInv'
  BY DEF JobInv, KeptInv
<1>2. LockInv'
  BY FS_EmptySet DEF PkgInv, LockInv, JobInv, Plan, Empty
<1>3. ClosedInv'
  BY DEF PkgInv, ClosedInv, Closed, Empty
<1> QED BY <1>1, <1>2, <1>3 DEF PkgInv

\* The world outside does not touch what is locked or planned.
LEMMA WorldStepInv ==
  ASSUME PkgInv, WorldInv', UNCHANGED <<deps, devDeps, lock, job>>
  PROVE  PkgInv'
  BY DEF PkgInv, JobInv, LockInv, ClosedInv, KeptInv, ToVisit, SatisfiesManifest,
         SatisfiesDependency

\* The commands.
LEMMA CommandInv ==
  ASSUME PkgInv,
         \/ Install \/ Update
         \/ \E d \in Addable : AddDependency(d, d.name \in DevNames)
         \/ \E n \in Name : RemoveDependency(n)
  PROVE  PkgInv'
<1> USE DEF worldVars, manifestVars
<1>1. CASE Install
  <2>1. WorldInv'
    BY <1>1 DEF Install, PkgInv, WorldInv
  <2> QED BY <1>1, <2>1, BegunInv, EndsInv DEF Install, Ends
<1>2. CASE Update
  <2>1. WorldInv'
    BY <1>2 DEF Update, PkgInv, WorldInv
  <2>2. CASE ManifestReadable
    <3>1. job' = Resolving("update", deps \o devDeps) /\ UNCHANGED lock
      BY <1>2, <2>2 DEF Update
    <3>2. JobInv' /\ LockInv'
      BY <3>1, FS_EmptySet DEF JobInv, LockInv, Resolving, JobFields, Plan, Empty, PkgInv, WorldInv
    <3>3. ClosedInv' /\ KeptInv'
      BY <3>1 DEF PkgInv, ClosedInv, KeptInv, ToVisit, Closed, Resolving, Empty
    <3> QED BY <2>1, <3>2, <3>3 DEF PkgInv
  <2> QED BY <1>2, <2>1, <2>2, EndsInv DEF Update, Ends
<1>3. ASSUME NEW d \in Addable, AddDependency(d, d.name \in DevNames) PROVE PkgInv'
  <2>1. d \in References
    BY DEF References
  <2>2. deps' \in Seq(References) /\ devDeps' \in Seq(References)
    BY <1>3, <2>1, TableFacts DEF AddDependency, PkgInv, WorldInv
  <2>3. WorldInv'
    BY <1>3, <2>2 DEF AddDependency, PkgInv, WorldInv
  <2>4. job' = Idle \/ job' = Begun(deps', devDeps', lock)
    BY <1>3 DEF AddDependency, Ends
  <2> QED BY <1>3, <2>3, <2>4, BegunInv, EndsInv DEF AddDependency
<1>4. ASSUME NEW n \in Name, RemoveDependency(n) PROVE PkgInv'
  <2>1. WorldInv'
    BY <1>4, TableFacts DEF RemoveDependency, PkgInv, WorldInv
  <2> QED BY <1>4, <2>1, EndsInv DEF RemoveDependency, Ends
<1> QED BY <1>1, <1>2, <1>3, <1>4

\* A package is locked as it was read, and what it depends on is visited next.
LEMMA ResolvedInv ==
  ASSUME PkgInv, WorldInv', UNCHANGED <<deps, devDeps, lock>>,
         job # Idle, job.step = "resolve", job.todo # <<>>,
         NEW pack, pack.deps \in Seq(References), NEW commit, NEW sum,
         Head(job.todo).name \notin DOMAIN job.plan,
         EntrySound(Entry(Head(job.todo), pack, commit, sum)),
         job' = Resolved(Head(job.todo), pack, commit, sum)
  PROVE  PkgInv'
<1> USE PackagesAssumption
<1> DEFINE d == Head(job.todo)
           e == Entry(d, pack, commit, sum)
           todo == pack.deps \o Tail(job.todo)
           plan == Adding(job.plan, d.name, e)
<1>1. /\ DOMAIN job = JobFields /\ job.todo \in Seq(References) /\ Plan(job.plan)
      /\ d \in References /\ d.name \in Name
  BY DEF PkgInv, JobInv
<1>2. /\ DOMAIN job' = JobFields /\ job'.step = "resolve" /\ job'.kind = job.kind
      /\ job'.todo = todo /\ job'.plan = plan
  BY <1>1 DEF Resolved, JobFields
<1>3. /\ DOMAIN plan = DOMAIN job.plan \cup {d.name}
      /\ plan[d.name] = e
      /\ \A n \in DOMAIN job.plan : plan[n] = job.plan[n]
  BY DEF Adding
<1>4. Plan(plan)
  BY <1>1, <1>3, FS_AddElement DEF Plan
<1>5. /\ todo \in Seq(References)
      /\ ToSet(pack.deps) \subseteq ToSet(todo)
      /\ ToSet(job.todo) \subseteq {d} \cup ToSet(todo)
  BY <1>1, VisitFacts
<1>6. JobInv' /\ LockInv'
  BY <1>2, <1>4, <1>5 DEF JobInv, LockInv, PkgInv
<1>7. ClosedInv'
  <2> DEFINE names == {x.name : x \in ToSet(todo)}
  <2>1. e.deps \subseteq names
    BY <1>5 DEF Entry, ToSet
  <2>2. ToVisit \subseteq {d.name} \cup names
    BY <1>5 DEF ToVisit
  <2>3. Closed(job.plan, ToVisit)
    BY DEF PkgInv, ClosedInv
  <2>4. Closed(plan, names)
    BY <1>3, <2>1, <2>2, <2>3 DEF Closed
  <2>5. ToVisit' = names
    BY <1>2 DEF ToVisit
  <2> QED BY <1>2, <2>4, <2>5 DEF ClosedInv, PkgInv, Closed
<1>8. KeptInv'
  BY <1>2 DEF KeptInv, PkgInv, SatisfiesManifest, SatisfiesDependency
<1> QED BY <1>6, <1>7, <1>8 DEF PkgInv

\* One visit of resolve.
LEMMA ResolveInv ==
  ASSUME PkgInv, job.step = "resolve", Resolve
  PROVE  PkgInv'
<1> USE PackagesAssumption DEF worldVars, manifestVars
<1>1. /\ job # Idle /\ DOMAIN job = JobFields /\ job.todo \in Seq(References) /\ Plan(job.plan)
      /\ WorldInv
  BY DEF PkgInv, JobInv, Idle
<1>2. ASSUME NEW d \in ToSet(job.todo), VisitPath(d) \/ VisitGit(d) \/ VisitVersion(d)
      PROVE  PkgInv'
  <2>1. /\ job.todo # <<>> /\ d = Head(job.todo) /\ d \in References
        /\ d.name \notin DOMAIN job.plan
    BY <1>1, <1>2 DEF VisitPath, VisitGit, VisitVersion, Visits, Fresh, ToSet
  <2>2. CASE VisitPath(d)
    <3>1. WorldInv'
      BY <1>1, <2>2 DEF VisitPath, WorldInv
    <3>2. d.dir \in Dir /\ local[d.dir].deps \in Seq(References)
      BY <1>1, <2>1, <2>2 DEF VisitPath, WorldInv
    <3>3. EntrySound(Entry(d, local[d.dir], Nothing, Nothing))
      BY <2>2 DEF VisitPath, EntrySound, EntryFields, Entry
    <3>4. CASE Readable(local[d.dir].deps)
      BY <1>1, <2>1, <2>2, <3>1, <3>2, <3>3, <3>4, ResolvedInv DEF VisitPath
    <3>5. CASE ~Readable(local[d.dir].deps)
      BY <2>2, <3>1, <3>5, EndsInv DEF VisitPath, Ends
    <3> QED BY <3>4, <3>5
  <2>3. CASE VisitGit(d)
    <3>1. d.source = "git" /\ d.url \in Url
      BY <2>1, <2>3 DEF VisitGit
    <3>2. PICK clone \in Fetched(d.url) :
            LET c == CheckedOut(d.url, clone, d.ref) IN
            /\ clones' = [clones EXCEPT ![d.url] = clone]
            /\ IF c # Nothing /\ Readable(Pack[c].deps) /\ Satisfies(d.terms, Pack[c].version)
               THEN job' = Resolved(d, Pack[c], c, CloneSum(c)) /\ UNCHANGED outcome
               ELSE Ends("failed")
      BY <2>3 DEF VisitGit
    <3> DEFINE c == CheckedOut(d.url, clone, d.ref)
    <3>3. WorldInv'
      BY <1>1, <2>3, <3>1, <3>2, GitFacts DEF VisitGit, WorldInv
    <3>4. CASE c # Nothing /\ Readable(Pack[c].deps) /\ Satisfies(d.terms, Pack[c].version)
      <4>1. c \in Commits
        BY <1>1, <3>1, <3>4, GitFacts
      <4>2. job' = Resolved(d, Pack[c], c, CloneSum(c))
        BY <3>2, <3>4
      <4> HIDE DEF c
      <4>3. EntrySound(Entry(d, Pack[c], c, CloneSum(c))) /\ Pack[c].deps \in Seq(References)
        BY <3>1, <4>1 DEF EntrySound, EntryFields, Entry
      <4> QED BY <1>1, <2>1, <2>3, <3>3, <4>2, <4>3, ResolvedInv DEF VisitGit
    <3>5. CASE ~(c # Nothing /\ Readable(Pack[c].deps) /\ Satisfies(d.terms, Pack[c].version))
      <4>1. job' = Idle
        BY <3>2, <3>5 DEF Ends
      <4> QED BY <2>3, <3>3, <4>1, EndsInv DEF VisitGit
    <3> QED BY <3>4, <3>5
  <2>4. CASE VisitVersion(d)
    <3>1. WorldInv'
      BY <1>1, <2>4 DEF VisitVersion, WorldInv
    <3> QED BY <2>4, <3>1, EndsInv DEF VisitVersion, Ends
  <2> QED BY <1>2, <2>2, <2>3, <2>4
<1>3. CASE VisitAgain
  <2> DEFINE next == Tail(job.todo)
  <2>1. /\ job.todo # <<>> /\ Head(job.todo).name \in DOMAIN job.plan
        /\ UNCHANGED <<deps, devDeps, lock>> /\ WorldInv'
    BY <1>1, <1>3 DEF VisitAgain, Visits, Fresh, WorldInv
  <2>2. /\ DOMAIN job' = JobFields /\ job'.step = "resolve" /\ job'.kind = job.kind
        /\ job'.todo = next /\ job'.plan = job.plan
    BY <1>1, <1>3 DEF VisitAgain, JobFields
  <2>3. next \in Seq(References) /\ ToSet(job.todo) \subseteq {Head(job.todo)} \cup ToSet(next)
    <3>1. <<>> \o next = next /\ <<>> \in Seq(References) /\ next \in Seq(References)
      BY <1>1, <2>1, HeadTailProperties, ConcatEmptySeq
    <3> HIDE DEF next
    <3>2. ToSet(job.todo) \subseteq {Head(job.todo)} \cup ToSet(<<>> \o Tail(job.todo))
      BY <1>1, <2>1, <3>1, VisitFacts
    <3> QED BY <3>1, <3>2 DEF next
  <2> HIDE DEF next
  <2>4. JobInv' /\ LockInv'
    BY <1>1, <2>1, <2>2, <2>3 DEF JobInv, LockInv, PkgInv
  <2>5. ClosedInv'
    <3>1. ToVisit \subseteq DOMAIN job.plan \cup ToVisit'
      BY <2>1, <2>2, <2>3 DEF ToVisit
    <3> QED BY <1>1, <2>1, <2>2, <3>1 DEF ClosedInv, PkgInv, Closed
  <2>6. KeptInv'
    BY <1>1, <2>1, <2>2 DEF KeptInv, PkgInv, SatisfiesManifest, SatisfiesDependency
  <2> QED BY <2>1, <2>4, <2>5, <2>6 DEF PkgInv
<1>4. CASE ResolveEnds
  <2>1. /\ job.todo = <<>> /\ job' = Copying(job.kind, job.plan)
        /\ UNCHANGED <<deps, devDeps, lock>> /\ WorldInv'
    BY <1>1, <1>4 DEF ResolveEnds, WorldInv
  <2>2. /\ DOMAIN job' = JobFields /\ job'.step = "copy" /\ job'.kind = job.kind
        /\ job'.plan = job.plan /\ job'.todo \in Seq(DOMAIN job.plan)
    BY <1>1, <2>1, CopyingFacts
  <2>3. JobInv' /\ LockInv'
    BY <1>1, <2>1, <2>2 DEF JobInv, LockInv, PkgInv
  <2>4. ClosedInv'
    <3>1. ToVisit = {} /\ ToVisit' = {}
      BY <2>1, <2>2 DEF ToVisit, ToSet
    <3> QED BY <1>1, <2>1, <2>2, <3>1 DEF ClosedInv, PkgInv, Closed
  <2>5. KeptInv'
    BY <1>1, <2>1, <2>2 DEF KeptInv, PkgInv, SatisfiesManifest, SatisfiesDependency
  <2> QED BY <2>1, <2>3, <2>4, <2>5 DEF PkgInv
<1> QED BY <1>2, <1>3, <1>4 DEF Resolve

\* To go on to the next package of the plan, its checksum perhaps another one,
\* but still one of the locked commit.
LEMMA GoesOnInv ==
  ASSUME PkgInv, WorldInv', UNCHANGED <<deps, devDeps, lock>>,
         job # Idle, job.step = "copy", job.todo # <<>>,
         NEW sum, EntrySound([job.plan[Head(job.todo)] EXCEPT !.sum = sum]),
         \/ job' = [job EXCEPT !.todo = Tail(@)]
         \/ job' = [job EXCEPT !.todo = Tail(@), !.plan[Head(job.todo)].sum = sum]
  PROVE  PkgInv'
<1> DEFINE n == Head(job.todo)
<1>1. /\ DOMAIN job = JobFields /\ job.todo \in Seq(DOMAIN job.plan) /\ Plan(job.plan)
      /\ n \in DOMAIN job.plan /\ Tail(job.todo) \in Seq(DOMAIN job.plan)
  BY HeadTailProperties DEF PkgInv, JobInv
<1> HIDE DEF n
<1>2. /\ DOMAIN job' = JobFields /\ job'.step = "copy" /\ job'.kind = job.kind
      /\ job'.todo = Tail(job.todo)
      /\ job'.plan = job.plan \/ job'.plan = [job.plan EXCEPT ![n].sum = sum]
  BY <1>1 DEF JobFields, n
<1>3. /\ DOMAIN job'.plan = DOMAIN job.plan
      /\ Plan(job'.plan)
      /\ \A m \in DOMAIN job.plan : /\ job'.plan[m].deps = job.plan[m].deps
                                    /\ job'.plan[m].commit = job.plan[m].commit
  <2>1. \A m \in DOMAIN job.plan : DOMAIN job.plan[m] = EntryFields
    BY <1>1 DEF Plan, EntrySound
  <2>2. EntrySound([job.plan[n] EXCEPT !.sum = sum])
    BY DEF n
  <2>3. CASE job'.plan = job.plan
    BY <1>1, <2>3
  <2>4. CASE job'.plan = [job.plan EXCEPT ![n].sum = sum]
    BY <1>1, <2>1, <2>2, <2>4 DEF Plan, EntryFields
  <2> QED BY <1>2, <2>3, <2>4
<1>4. JobInv' /\ LockInv'
  BY <1>1, <1>2, <1>3 DEF JobInv, LockInv, PkgInv
<1>5. ClosedInv'
  BY <1>1, <1>2, <1>3 DEF ClosedInv, PkgInv, Closed, ToVisit
<1>6. KeptInv'
  BY <1>1, <1>2, <1>3 DEF KeptInv, PkgInv, SatisfiesManifest, SatisfiesDependency
<1> QED BY <1>4, <1>5, <1>6 DEF PkgInv

\* One package of materialize.
LEMMA MaterializeInv == ASSUME PkgInv, job # Idle, Materialize PROVE PkgInv'
<1> USE PackagesAssumption DEF worldVars, manifestVars
<1> DEFINE n == Head(job.todo)
           e == job.plan[n]
<1>1. /\ DOMAIN job = JobFields /\ job.todo \in Seq(DOMAIN job.plan) /\ Plan(job.plan)
      /\ n \in DOMAIN job.plan /\ n \in Name /\ job.step = "copy" /\ job.todo # <<>> /\ WorldInv
      /\ EntrySound(e) /\ UNCHANGED <<pushed, local, deps, devDeps, lock>>
  BY HeadTailProperties DEF PkgInv, JobInv, Materialize, Plan
<1>2. CASE SkipsCopy(n)
  <2>1. WorldInv' /\ job' = [job EXCEPT !.todo = Tail(@)]
    BY <1>1, <1>2 DEF SkipsCopy, WorldInv
  <2>2. EntrySound([e EXCEPT !.sum = e.sum])
    BY <1>1 DEF EntrySound, EntryFields
  <2> QED BY <1>1, <2>1, <2>2, GoesOnInv
<1>3. CASE FetchesCopy(n)
  <2>1. e.source = "git" /\ e.url \in Url /\ e.commit \in Commits /\ Slot(n, e) \in Slots
    BY <1>1, <1>3 DEF FetchesCopy, NeedsCopy, EntrySound, Slot, Slots
  <2>2. PICK clone \in Fetched(e.url) :
          LET c == CheckedOut(e.url, clone, e.commit) IN
          /\ clones' = [clones EXCEPT ![e.url] = clone]
          /\ IF c = Nothing THEN Ends("failed") /\ UNCHANGED store
             ELSE Copies(n, clone, c) \/ CopyBreaks(n, clone, c)
    BY <1>3 DEF FetchesCopy
  <2>3. CheckedOut(e.url, clone, e.commit) \in {e.commit, Nothing}
    BY <1>1, <2>1, GitFacts
  <2>4. \/ Ends("failed") /\ UNCHANGED store
        \/ Copies(n, clone, e.commit) \/ CopyBreaks(n, clone, e.commit)
    BY <2>2, <2>3
  <2>5. /\ clones' \in [Url -> CloneSet \cup {Nothing}]
        /\ \A u \in Url : clones'[u] # Nothing =>
             clones'[u].known <= pushed[u] /\ clones'[u].branch \in 1..pushed[u]
    BY <1>1, <2>1, <2>2, GitFacts DEF WorldInv
  <2>6. store' \in [Slots -> Trees \cup {Nothing}]
    <3>1. \A m \in BOOLEAN : Tree(e.commit, m, FALSE) \in Trees /\ Tree(e.commit, TRUE, TRUE) \in Trees
      BY <2>1 DEF Tree, Trees
    <3>2. store \in [Slots -> Trees \cup {Nothing}]
      BY <1>1 DEF WorldInv
    <3>3. store' = store \/ \E t \in Trees : store' = [store EXCEPT ![Slot(n, e)] = t]
      BY <2>4, <3>1 DEF Copies, CopyBreaks
    <3> QED BY <2>1, <3>2, <3>3
  <2>7. WorldInv'
    BY <1>1, <2>5, <2>6 DEF WorldInv
  <2>8. CASE Ends("failed")
    BY <1>1, <2>7, <2>8, EndsInv DEF Ends
  <2>9. CASE Copies(n, clone, e.commit)
    <3>1. job' = [job EXCEPT !.todo = Tail(@), !.plan[n].sum = TreeSum(Tree(e.commit, TRUE, TRUE))]
      BY <2>9 DEF Copies
    <3>2. EntrySound([e EXCEPT !.sum = TreeSum(Tree(e.commit, TRUE, TRUE))])
      BY <1>1, <2>1 DEF EntrySound, EntryFields
    <3> QED BY <1>1, <2>7, <3>1, <3>2, GoesOnInv
  <2> QED BY <2>4, <2>8, <2>9 DEF CopyBreaks
<1> QED BY <1>2, <1>3 DEF Materialize

\* Every step keeps the invariant.
LEMMA NextPkgInv == PkgInv /\ [PkgNext]_pkgVars => PkgInv'
<1> SUFFICES ASSUME PkgInv, [PkgNext]_pkgVars PROVE PkgInv'
  OBVIOUS
<1> USE PackagesAssumption DEF worldVars, manifestVars
<1>1. ASSUME NEW u \in Url, Push(u) PROVE PkgInv'
  <2>1. WorldInv'
    BY <1>1 DEF Push, PkgInv, WorldInv, CloneSet
  <2> QED BY <1>1, <2>1, WorldStepInv DEF Push
<1>2. ASSUME NEW d \in Dir, EditLocal(d) PROVE PkgInv'
  <2>1. WorldInv'
    BY <1>2 DEF EditLocal, PkgInv, WorldInv
  <2> QED BY <1>2, <2>1, WorldStepInv DEF EditLocal
<1>3. CASE DeleteClones \/ DeleteStore
  <2>1. WorldInv'
    BY <1>3 DEF DeleteClones, DeleteStore, PkgInv, WorldInv
  <2> QED BY <1>3, <2>1, WorldStepInv DEF DeleteClones, DeleteStore
<1>4. CASE \/ Install \/ Update
           \/ \E d \in Addable : AddDependency(d, d.name \in DevNames)
           \/ \E n \in Name : RemoveDependency(n)
  BY <1>4, CommandInv
<1>5. CASE job.step = "resolve" /\ Resolve
  BY <1>5, ResolveInv
<1>6. CASE Materialize
  BY <1>6, MaterializeInv DEF Materialize, Idle
<1>7. CASE WriteLockfile
  <2>1. WorldInv' /\ ToVisit = {} /\ job # Idle
    BY <1>7 DEF WriteLockfile, PkgInv, WorldInv, ToVisit, Idle
  <2> QED BY <1>7, <2>1, EndsInv DEF WriteLockfile, Ends
<1>8. CASE Crash
  <2>1. WorldInv'
    BY <1>8 DEF Crash, PkgInv, WorldInv
  <2> QED BY <1>8, <2>1, EndsInv DEF Crash, Ends
<1>9. CASE UNCHANGED pkgVars
  <2>1. WorldInv'
    BY <1>9 DEF pkgVars, PkgInv, WorldInv
  <2> QED BY <1>9, <2>1, WorldStepInv DEF pkgVars
<1> QED BY <1>1, <1>2, <1>3, <1>4, <1>5, <1>6, <1>7, <1>8, <1>9 DEF PkgNext

-----------------------------------------------------------------------------
\* Whatever a locked package depends on is locked, for any packages.
THEOREM LockIsClosed == PkgSpec => []LockClosed
<1>1. PkgInv => LockClosed
  BY DEF PkgInv, ClosedInv, Closed, LockClosed
<1> QED BY <1>1, InitPkgInv, NextPkgInv, PTL DEF PkgSpec

\* An import that passes the check finds the whole content of the commit that
\* is locked, whatever has been deleted, pushed or broken off before.
THEOREM ImportsAreLocked == PkgSpec => []ImportIsLocked
<1>1. PkgInv => ImportIsLocked
  <2> SUFFICES ASSUME PkgInv, NEW n \in Name, ImportOutcome(n) = "locked"
               PROVE  store[Slot(n, lock[n])] = Tree(lock[n].commit, TRUE, TRUE)
    BY DEF ImportIsLocked
  <2> DEFINE e == lock[n]
             t == store[Slot(n, e)]
  <2>1. /\ lock # Nothing /\ n \in DOMAIN lock /\ e.source = "git"
        /\ t # Nothing /\ TreeSum(t) = e.sum
    BY DEF ImportOutcome
  <2>2. /\ e.commit \in Commits /\ e.version = Pack[e.commit].version
        /\ e.sum \in {CloneSum(e.commit), TreeSum(Tree(e.commit, TRUE, TRUE))}
    BY <2>1 DEF PkgInv, LockInv, Plan, EntrySound
  <2>3. t \in Trees
    BY <2>1, <2>2 DEF PkgInv, WorldInv, Slot, Slots
  <2>4. TreeSum(t) = TreeSum(Tree(e.commit, TRUE, TRUE))
    <3>1. TreeSum(t)[1] = "copy" /\ CloneSum(e.commit)[1] = "clone"
      BY DEF TreeSum, CloneSum
    <3> HIDE DEF e, t
    <3> QED BY <2>1, <2>2, <3>1
  <2>5. t.commit = e.commit /\ t.whole = TRUE /\ t.manifest = TRUE
    BY <2>3, <2>4 DEF TreeSum, Tree, Trees
  <2> QED BY <2>3, <2>5 DEF Tree, Trees
<1> QED BY <1>1, InitPkgInv, NextPkgInv, PTL DEF PkgSpec

\* An install does not move a lock file that satisfies the manifest.
THEOREM InstallsKeepLock == PkgSpec => InstallKeepsLock
<1>1. PkgInv /\ [PkgNext]_pkgVars =>
        [WriteLockfile /\ job.kind = "install" /\ lock # Nothing /\ SatisfiesManifest(lock)
           => /\ DOMAIN lock' = DOMAIN lock
              /\ \A n \in DOMAIN lock : lock'[n].commit = lock[n].commit]_pkgVars
  <2>1. WriteLockfile => job # Idle
    BY DEF WriteLockfile, Idle
  <2> QED BY <2>1 DEF PkgInv, KeptInv, WriteLockfile
<1> QED BY <1>1, InitPkgInv, NextPkgInv, PTL DEF PkgSpec, InstallKeepsLock

-----------------------------------------------------------------------------
(* If all references to a name agree on its source, what is resolved comes *)
(* from where the manifest says, and nothing of the manifest is forgotten. *)
Manifest == ToSet(deps) \cup ToSet(devDeps)
Comes(e, r) ==
  /\ r.source \in {"git", "path"} /\ e.source = r.source
  /\ r.source = "git" => e.url = r.url
  /\ r.source = "path" => e.dir = r.dir
Visited ==
  /\ \A n \in DOMAIN job.plan : \E r \in References : r.name = n /\ Comes(job.plan[n], r)
  /\ \A d \in Manifest : d.name \in DOMAIN job.plan \/ d \in ToSet(job.todo)
FitsInv ==
  /\ job # Idle /\ job.step = "resolve" => Visited
  /\ job # Idle /\ job.step = "copy" => SatisfiesManifest(job.plan)
  /\ job = Idle /\ outcome = "ok" => SatisfiesManifest(lock)

\* References that agree on the source of a name ask for the same package.
LEMMA SourceFacts ==
  ASSUME OneSource, NEW d \in References, NEW r \in References, d.name = r.name,
         NEW e, Comes(e, r)
  PROVE  /\ d.source = e.source
         /\ d.source = "git" => e.url = d.url
         /\ d.source = "path" => e.dir = d.dir
<1>1. SourceOf(d) = SourceOf(r)
  BY DEF OneSource
<1>2. /\ d.source \in {"git", "path", "version"}
      /\ SourceOf(d)[1] = d.source /\ SourceOf(r)[1] = r.source
  BY PackagesAssumption DEF SourceOf, Comes
<1>3. d.source = r.source
  BY <1>1, <1>2
<1>4. CASE d.source = "git"
  BY <1>1, <1>3, <1>4 DEF SourceOf, Comes
<1>5. CASE d.source = "path"
  BY <1>1, <1>3, <1>5 DEF SourceOf, Comes
<1> QED BY <1>2, <1>3, <1>4, <1>5 DEF Comes

\* The first to be visited is one of those to be visited.
LEMMA ListsFacts ==
  ASSUME NEW S, NEW s \in Seq(S), NEW t \in Seq(S)
  PROVE  ToSet(s \o t) = ToSet(s) \cup ToSet(t)
<1> DEFINE r == s \o t
<1>1. /\ r \in Seq(S) /\ Len(r) = Len(s) + Len(t)
      /\ \A i \in 1..Len(s) + Len(t) : r[i] = IF i <= Len(s) THEN s[i] ELSE t[i - Len(s)]
  BY ConcatProperties
<1> HIDE DEF r
<1>2. \A i \in 1..Len(s) : i \in DOMAIN r /\ r[i] = s[i]
  BY <1>1
<1>3. ASSUME NEW i \in 1..Len(t)
      PROVE  Len(s) + i \in DOMAIN r /\ r[Len(s) + i] = t[i]
  <2>1. Len(s) \in Nat /\ Len(t) \in Nat /\ DOMAIN r = 1..(Len(s) + Len(t))
    BY <1>1
  <2>2. /\ Len(s) + i \in 1..(Len(s) + Len(t))
        /\ ~(Len(s) + i <= Len(s)) /\ Len(s) + i - Len(s) = i
    BY <2>1
  <2> QED BY <1>1, <2>1, <2>2
<1>5. ASSUME NEW i \in DOMAIN r
      PROVE  r[i] \in ToSet(s) \cup ToSet(t)
  <2>1. /\ Len(s) \in Nat /\ Len(t) \in Nat /\ DOMAIN r = 1..(Len(s) + Len(t))
        /\ DOMAIN s = 1..Len(s) /\ DOMAIN t = 1..Len(t)
    BY <1>1
  <2>2. i \in 1..(Len(s) + Len(t))
    BY <2>1
  <2>3. CASE i <= Len(s)
    BY <1>1, <2>1, <2>2, <2>3 DEF ToSet
  <2>4. CASE ~(i <= Len(s))
    <3>1. i - Len(s) \in DOMAIN t /\ r[i] = t[i - Len(s)]
      BY <1>1, <2>1, <2>2, <2>4
    <3> QED BY <3>1 DEF ToSet
  <2> QED BY <2>3, <2>4
<1>6. ToSet(r) \subseteq ToSet(s) \cup ToSet(t)
  <2>1. \A x \in ToSet(r) : \E i \in DOMAIN r : x = r[i]
    BY DEF ToSet
  <2> QED BY <1>5, <2>1
<1>7. ToSet(s) \subseteq ToSet(r) /\ ToSet(t) \subseteq ToSet(r)
  <2>1. \A i \in 1..Len(s) : s[i] \in ToSet(r)
    BY <1>2 DEF ToSet
  <2>2. \A i \in 1..Len(t) : t[i] \in ToSet(r)
    BY <1>3 DEF ToSet
  <2>3. DOMAIN s = 1..Len(s) /\ DOMAIN t = 1..Len(t)
    OBVIOUS
  <2> QED BY <2>1, <2>2, <2>3 DEF ToSet
<1> QED BY <1>6, <1>7 DEF r

\* The manifest's dependencies are references.
LEMMA ManifestFacts == PkgInv => Manifest \subseteq References
  BY DEF PkgInv, WorldInv, Manifest, ToSet

\* What a command begins with fits the manifest it has.
LEMMA BegunFits ==
  ASSUME PkgInv', UNCHANGED lock,
         job' \in {Begun(deps', devDeps', lock), Resolving("update", deps' \o devDeps')}
  PROVE  FitsInv'
<1>1. ASSUME NEW kind, job' = Resolving(kind, deps' \o devDeps') PROVE FitsInv'
  <2>1. ToSet(deps' \o devDeps') = ToSet(deps') \cup ToSet(devDeps')
    BY ListsFacts DEF PkgInv, WorldInv
  <2> QED BY <1>1, <2>1 DEF FitsInv, Visited, Manifest, Resolving, Empty, Idle
<1>2. CASE lock # Nothing /\ SatisfiesManifest(lock)'
  <2>1. Begun(deps', devDeps', lock) = Copying("install", lock)
    BY <1>2 DEF Begun, SatisfiesManifest, SatisfiesDependency
  <2>2. CASE job' = Copying("install", lock)
    BY <1>2, <2>2 DEF FitsInv, Copying, SatisfiesManifest, SatisfiesDependency, Idle
  <2> QED BY <1>1, <2>1, <2>2
<1>3. CASE ~(lock # Nothing /\ SatisfiesManifest(lock)')
  <2>1. Begun(deps', devDeps', lock) = Resolving("install", deps' \o devDeps')
    BY <1>3 DEF Begun, SatisfiesManifest, SatisfiesDependency
  <2> QED BY <1>1, <2>1
<1> QED BY <1>2, <1>3

\* A visit fits, and so does what resolve ends with.
LEMMA ResolveFits ==
  ASSUME OneSource, PkgInv, PkgInv', FitsInv, job.step = "resolve", Resolve
  PROVE  FitsInv'
<1> USE DEF worldVars, manifestVars
<1>1. /\ job # Idle /\ DOMAIN job = JobFields /\ job.todo \in Seq(References) /\ Visited
  BY DEF PkgInv, JobInv, FitsInv, Idle
<1>2. ASSUME NEW d \in ToSet(job.todo), VisitPath(d) \/ VisitGit(d) \/ VisitVersion(d)
      PROVE  FitsInv'
  <2>1. /\ job.todo # <<>> /\ d = Head(job.todo) /\ d \in References
        /\ UNCHANGED <<deps, devDeps>>
    BY <1>1, <1>2 DEF VisitPath, VisitGit, VisitVersion, Visits, ToSet
  <2>2. \/ Ends("failed")
        \/ \E pack, commit, sum : /\ job' = Resolved(d, pack, commit, sum)
                                  /\ pack.deps \in Seq(References)
                                  /\ d.source \in {"git", "path"}
    <3>1. CASE VisitPath(d)
      <4>1. d.source = "path" /\ local[d.dir].deps \in Seq(References)
        BY <2>1, <3>1, PackagesAssumption DEF VisitPath, PkgInv, WorldInv
      <4> QED BY <3>1, <4>1 DEF VisitPath
    <3>2. CASE VisitGit(d)
      <4>1. d.source = "git" /\ d.url \in Url
        BY <2>1, <3>2, PackagesAssumption DEF VisitGit
      <4>2. PICK clone \in Fetched(d.url) :
              LET c == CheckedOut(d.url, clone, d.ref)
              IN  IF c # Nothing /\ Readable(Pack[c].deps) /\ Satisfies(d.terms, Pack[c].version)
                  THEN job' = Resolved(d, Pack[c], c, CloneSum(c)) /\ UNCHANGED outcome
                  ELSE Ends("failed")
        BY <3>2 DEF VisitGit
      <4> DEFINE c == CheckedOut(d.url, clone, d.ref)
      <4>3. c \in Commits \cup {Nothing}
        BY <4>1, GitFacts DEF PkgInv
      <4>4. c # Nothing => Pack[c].deps \in Seq(References)
        BY <4>3, PackagesAssumption
      <4> QED BY <4>1, <4>2, <4>4
    <3>3. CASE VisitVersion(d)
      BY <3>3 DEF VisitVersion
    <3> QED BY <1>2, <3>1, <3>2, <3>3
  <2>3. CASE Ends("failed")
    BY <2>3 DEF Ends, FitsInv
  <2>4. ASSUME NEW pack, NEW commit, NEW sum, job' = Resolved(d, pack, commit, sum),
               pack.deps \in Seq(References), d.source \in {"git", "path"}
        PROVE  FitsInv'
    <3> DEFINE e == Entry(d, pack, commit, sum)
    <3>1. /\ job'.step = "resolve" /\ job'.todo = pack.deps \o Tail(job.todo)
          /\ job'.plan = Adding(job.plan, d.name, e)
      BY <1>1, <2>4 DEF Resolved, JobFields
    <3>2. Comes(e, d)
      BY <2>4 DEF Comes, Entry
    <3>3. /\ DOMAIN job'.plan = DOMAIN job.plan \cup {d.name}
          /\ job'.plan[d.name] = e
          /\ \A n \in DOMAIN job.plan : n # d.name => job'.plan[n] = job.plan[n]
      BY <3>1 DEF Adding
    <3> HIDE DEF e
    <3>4. ToSet(job.todo) \subseteq {d} \cup ToSet(job'.todo)
      BY <1>1, <2>1, <2>4, <3>1, VisitFacts
    <3>5. Visited'
      <4>1. \A n \in DOMAIN job'.plan :
              \E r \in References : r.name = n /\ Comes(job'.plan[n], r)
        BY <1>1, <2>1, <3>2, <3>3 DEF Visited
      <4>2. \A x \in Manifest : x.name \in DOMAIN job'.plan \/ x \in ToSet(job'.todo)
        BY <1>1, <3>3, <3>4 DEF Visited
      <4> QED BY <2>1, <4>1, <4>2 DEF Visited, Manifest
    <3> QED BY <3>1, <3>5 DEF FitsInv, Idle
  <2> QED BY <2>2, <2>3, <2>4
<1>3. CASE VisitAgain
  <2>1. /\ job.todo # <<>> /\ Head(job.todo).name \in DOMAIN job.plan
        /\ UNCHANGED <<deps, devDeps>> /\ job'.step = "resolve" /\ job'.plan = job.plan
        /\ job'.todo = Tail(job.todo)
    BY <1>1, <1>3 DEF VisitAgain, Visits, Fresh, JobFields
  <2>2. ToSet(job.todo) \subseteq {Head(job.todo)} \cup ToSet(Tail(job.todo))
    <3>1. /\ <<>> \in Seq(References) /\ Tail(job.todo) \in Seq(References)
      BY <1>1, <2>1, HeadTailProperties
    <3>2. <<>> \o Tail(job.todo) = Tail(job.todo)
      BY <3>1, ConcatEmptySeq
    <3>3. ToSet(job.todo) \subseteq {Head(job.todo)} \cup ToSet(<<>> \o Tail(job.todo))
      BY <1>1, <2>1, <3>1, VisitFacts
    <3> QED BY <3>2, <3>3
  <2>3. Visited'
    BY <1>1, <2>1, <2>2 DEF Visited, Manifest
  <2> QED BY <2>1, <2>3 DEF FitsInv, Idle
<1>4. CASE ResolveEnds
  <2>1. /\ job.todo = <<>> /\ UNCHANGED <<deps, devDeps>>
        /\ job'.step = "copy" /\ job'.plan = job.plan
    BY <1>4 DEF ResolveEnds, Copying
  <2>2. ASSUME NEW d \in Manifest PROVE SatisfiesDependency(job.plan, d)
    <3>1. d \in References /\ d.name \in DOMAIN job.plan
      BY <1>1, <2>1, ManifestFacts DEF Visited, ToSet
    <3>2. PICK r \in References : r.name = d.name /\ Comes(job.plan[d.name], r)
      BY <1>1, <3>1 DEF Visited
    <3>3. /\ d.source = job.plan[d.name].source /\ d.source \in {"git", "path"}
          /\ d.source = "git" => job.plan[d.name].url = d.url
          /\ d.source = "path" => job.plan[d.name].dir = d.dir
      BY <3>1, <3>2, SourceFacts DEF Comes
    <3> QED BY <3>1, <3>3 DEF SatisfiesDependency
  <2>3. SatisfiesManifest(job.plan)
    BY <2>2 DEF SatisfiesManifest, Manifest
  <2>4. SatisfiesManifest(job.plan)'
    <3>1. job'.plan = job.plan /\ deps' = deps /\ devDeps' = devDeps
      BY <2>1
    <3>2. \A d : SatisfiesDependency(job'.plan, d) <=> SatisfiesDependency(job.plan, d)
      BY <3>1
    <3>3. \A d \in ToSet(deps') \cup ToSet(devDeps') : SatisfiesDependency(job'.plan, d)
      BY <2>3, <3>1, <3>2 DEF SatisfiesManifest
    <3>4. SatisfiesManifest(job.plan)' <=>
            \A d \in ToSet(deps') \cup ToSet(devDeps') : SatisfiesDependency(job'.plan, d)
      BY DEF SatisfiesManifest, SatisfiesDependency
    <3> QED BY <3>3, <3>4
  <2> QED BY <2>1, <2>4 DEF FitsInv, Idle
<1> QED BY <1>2, <1>3, <1>4 DEF Resolve

\* Every step keeps what is planned in agreement with the manifest.
LEMMA NextFits ==
  ASSUME OneSource, PkgInv, PkgInv', FitsInv, [PkgNext]_pkgVars
  PROVE  FitsInv'
<1> USE DEF worldVars, manifestVars
<1>1. CASE \/ \E u \in Url : Push(u)
           \/ \E d \in Dir : EditLocal(d)
           \/ DeleteClones \/ DeleteStore \/ UNCHANGED pkgVars
  <2>1. UNCHANGED <<deps, devDeps, lock, job, outcome>>
    BY <1>1 DEF Push, EditLocal, DeleteClones, DeleteStore, pkgVars
  <2> QED BY <2>1 DEF FitsInv, Visited, Manifest, SatisfiesManifest, SatisfiesDependency
<1>2. CASE Install \/ Update
  <2>1. \/ Ends("failed")
        \/ /\ UNCHANGED <<deps, devDeps, lock>>
           /\ job' \in {Begun(deps, devDeps, lock), Resolving("update", deps \o devDeps)}
    BY <1>2 DEF Install, Update
  <2> QED BY <2>1, BegunFits DEF Ends, FitsInv
<1>3. CASE \E d \in Addable : AddDependency(d, d.name \in DevNames)
  <2>1. \/ Ends("failed") \/ Ends("added")
        \/ UNCHANGED lock /\ job' = Begun(deps', devDeps', lock)
    BY <1>3 DEF AddDependency
  <2> QED BY <2>1, BegunFits DEF Ends, FitsInv
<1>4. CASE \E n \in Name : RemoveDependency(n)
  BY <1>4 DEF RemoveDependency, Ends, FitsInv
<1>5. CASE job.step = "resolve" /\ Resolve
  BY <1>5, ResolveFits
<1>6. CASE Materialize
  <2> DEFINE n == Head(job.todo)
  <2>1. /\ job # Idle /\ DOMAIN job = JobFields /\ job.step = "copy"
        /\ UNCHANGED <<deps, devDeps>> /\ n \in DOMAIN job.plan
        /\ DOMAIN job.plan[n] = EntryFields
    <3>1. job # Idle /\ job.step = "copy" /\ job.todo # <<>> /\ UNCHANGED <<deps, devDeps>>
      BY <1>6 DEF Materialize, Idle
    <3>2. DOMAIN job = JobFields /\ job.todo \in Seq(DOMAIN job.plan) /\ Plan(job.plan)
      BY <3>1 DEF PkgInv, JobInv
    <3>3. n \in DOMAIN job.plan
      BY <3>1, <3>2, HeadTailProperties
    <3> QED BY <3>1, <3>2, <3>3 DEF Plan, EntrySound
  <2>2. \/ Ends("failed")
        \/ job' = [job EXCEPT !.todo = Tail(@)]
        \/ \E sum : job' = [job EXCEPT !.todo = Tail(@), !.plan[n].sum = sum]
    BY <1>6 DEF Materialize, SkipsCopy, FetchesCopy, Copies, CopyBreaks
  <2> HIDE DEF n
  <2>3. CASE Ends("failed")
    BY <2>3 DEF Ends, FitsInv
  <2>4. CASE job' = [job EXCEPT !.todo = Tail(@)]
    BY <2>1, <2>4 DEF FitsInv, JobFields, Idle, SatisfiesManifest, SatisfiesDependency
  <2>5. ASSUME NEW sum, job' = [job EXCEPT !.todo = Tail(@), !.plan[n].sum = sum]
        PROVE  FitsInv'
    <3>1. job'.step = "copy" /\ job'.plan = [job.plan EXCEPT ![n].sum = sum]
      BY <2>1, <2>5 DEF JobFields
    <3>2. /\ DOMAIN job'.plan = DOMAIN job.plan
          /\ \A m \in DOMAIN job.plan : /\ job'.plan[m].version = job.plan[m].version
                                        /\ job'.plan[m].source = job.plan[m].source
                                        /\ job'.plan[m].url = job.plan[m].url
                                        /\ job'.plan[m].dir = job.plan[m].dir
      BY <2>1, <3>1 DEF EntryFields
    <3>3. SatisfiesManifest(job.plan)
      BY <2>1 DEF FitsInv
    <3>4. ASSUME NEW d, SatisfiesDependency(job.plan, d)
          PROVE  SatisfiesDependency(job'.plan, d)
      BY <3>2, <3>4 DEF SatisfiesDependency
    <3>5. \A d \in Manifest : SatisfiesDependency(job'.plan, d)
      BY <3>3, <3>4 DEF SatisfiesManifest, Manifest
    <3>6. SatisfiesManifest(job.plan)'
      BY <2>1, <3>5 DEF SatisfiesManifest, SatisfiesDependency, Manifest
    <3> QED BY <3>1, <3>6 DEF FitsInv, Idle
  <2> QED BY <2>2, <2>3, <2>4, <2>5
<1>7. CASE WriteLockfile
  <2>1. /\ job # Idle /\ job.step = "copy" /\ job' = Idle /\ lock' = job.plan
        /\ UNCHANGED <<deps, devDeps>>
    BY <1>7 DEF WriteLockfile, Ends, Idle
  <2>2. SatisfiesManifest(job.plan)
    BY <2>1 DEF FitsInv
  <2>3. SatisfiesManifest(lock)'
    BY <2>1, <2>2 DEF SatisfiesManifest, SatisfiesDependency
  <2> QED BY <2>1, <2>3 DEF FitsInv
<1>8. CASE Crash
  BY <1>8 DEF Crash, Ends, FitsInv
<1> QED BY <1>1, <1>2, <1>3, <1>4, <1>5, <1>6, <1>7, <1>8 DEF PkgNext

\* After a successful install or update the lock file satisfies the manifest.
THEOREM InstallsSatisfy == PkgSpec => []InstallSatisfies
<1>1. CASE OneSource
  <2>1. PkgInit => FitsInv
    BY DEF PkgInit, FitsInv
  <2>2. PkgInv /\ PkgInv' /\ FitsInv /\ [PkgNext]_pkgVars => FitsInv'
    BY <1>1, NextFits
  <2>3. FitsInv => InstallSatisfies
    BY DEF FitsInv, InstallSatisfies
  <2> QED BY <2>1, <2>2, <2>3, InitPkgInv, NextPkgInv, PTL DEF PkgSpec
<1>2. CASE ~OneSource
  <2>1. InstallSatisfies
    BY <1>2 DEF InstallSatisfies
  <2> QED BY <2>1, PTL
<1> QED BY <1>1, <1>2
-----------------------------------------------------------------------------
(* What versions and constraints mean, for all versions.                   *)

\* Versions are totally ordered by their parts, the major one first (Compare).
THEOREM CompareOrders ==
  ASSUME NEW u \in Version, NEW v \in Version, NEW w \in Version
  PROVE  /\ Compare(v, w) = 0 <=> v = w
         /\ Compare(v, w) = -Compare(w, v)
         /\ Compare(u, v) >= 0 /\ Compare(v, w) >= 0 => Compare(u, w) >= 0
<1>1. Compare(v, w) = 0 <=> v = w
  BY DEF Compare, Version
<1>2. Compare(v, w) = -Compare(w, v)
  BY DEF Compare, Version
<1>3. Compare(u, v) >= 0 /\ Compare(v, w) >= 0 => Compare(u, w) >= 0
  BY DEF Compare, Version
<1> QED BY <1>1, <1>2, <1>3

\* The two terms a caret and a tilde stand for.
LEMMA TermFacts ==
  ASSUME NEW v, NEW w
  PROVE  /\ Holds(Term(">=", v), w) <=> Compare(w, v) >= 0
         /\ Holds(Term("<", v), w) <=> Compare(w, v) < 0
  BY DEF Holds, Term

\* A caret admits the versions from its own on that agree with it up to the
\* leftmost part that is not zero (ParseConstraint, caretUpper).
THEOREM CaretMeans ==
  ASSUME NEW v \in Version, NEW w \in Version
  PROVE  Satisfies(TermsOf("^", v), w) <=>
           /\ Compare(w, v) >= 0
           /\ w.major = v.major
           /\ v.major = 0 => w.minor = v.minor
           /\ v.major = 0 /\ v.minor = 0 => w.patch = v.patch
<1>1. Satisfies(TermsOf("^", v), w) <=>
        Compare(w, v) >= 0 /\ Compare(w, CaretUpper(v)) < 0
  <2>1. TermsOf("^", v) = {Term(">=", v), Term("<", CaretUpper(v))}
    BY DEF TermsOf
  <2> QED BY <2>1, TermFacts DEF Satisfies
<1>2. CASE v.major > 0
  BY <1>1, <1>2 DEF CaretUpper, V, Compare, Version
<1>3. CASE v.major = 0 /\ v.minor > 0
  BY <1>1, <1>3 DEF CaretUpper, V, Compare, Version
<1>4. CASE v.major = 0 /\ v.minor = 0
  BY <1>1, <1>4 DEF CaretUpper, V, Compare, Version
<1> QED BY <1>2, <1>3, <1>4 DEF Version

\* A tilde admits the versions from its own on that differ in the patch only.
THEOREM TildeMeans ==
  ASSUME NEW v \in Version, NEW w \in Version
  PROVE  Satisfies(TermsOf("~", v), w) <=>
           Compare(w, v) >= 0 /\ w.major = v.major /\ w.minor = v.minor
<1>1. Satisfies(TermsOf("~", v), w) <=>
        Compare(w, v) >= 0 /\ Compare(w, V(v.major, v.minor + 1, 0)) < 0
  <2>1. TermsOf("~", v) = {Term(">=", v), Term("<", V(v.major, v.minor + 1, 0))}
    BY DEF TermsOf
  <2> QED BY <2>1, TermFacts DEF Satisfies
<1> QED BY <1>1 DEF V, Compare, Version
=============================================================================
