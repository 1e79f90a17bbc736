------------------------------- MODULE Packages -------------------------------
(***************************************************************************)
(* The package manager (internal/pkg, its commands in cmd/tya) and the     *)
(* check that an import makes of the lock file (internal/runner).          *)
(*                                                                         *)
(* A commit of a git repository is a revision: its manifest and the rest   *)
(* of its content are constants of the commit.  A repository is the list   *)
(* of its commits, of which the first few have been pushed; its branch     *)
(* points at the last of them.  The files of a project's .tya directory    *)
(* are clones of repositories and copies of commits.                       *)
(***************************************************************************)
EXTENDS Sequences, SequencesExt, FiniteSets, Semver

CONSTANTS Name,       \* of packages
          Url,        \* of git repositories
          History,    \* url -> its commits, in the order they are pushed
          Pack,       \* commit -> its manifest: version and dependencies
          Dir,        \* directories that path dependencies name
          Local,      \* directory -> the manifests it may come to have
          Addable,    \* the dependencies a user adds,
          DevNames,   \* those of these names with --dev
          Branch,     \* the reference that is a branch and not a commit
          NoRef,      \* no reference
          Nothing,    \* no file
          MaxCommands

Commits == UNION {ToSet(History[u]) : u \in Url}

\* The dependencies that a manifest may come to have.
References == Addable \cup (UNION {ToSet(Pack[c].deps) : c \in Commits})
                      \cup UNION {ToSet(m.deps) : m \in UNION {Local[d] : d \in Dir}}

ASSUME PackagesAssumption ==
  /\ \A u \in Url : History[u] \in Seq(Commits) /\ History[u] # <<>>
  /\ {Branch, Nothing} \cap Commits = {}
  /\ \A c \in Commits : Pack[c].deps \in Seq(References)
  /\ \A d \in Dir : \A m \in Local[d] : m.deps \in Seq(References)
  /\ \A r \in References : r.name \in Name
                           /\ r.source \in {"git", "path", "version"}
                           /\ (r.source = "git" => r.url \in Url)
                           /\ (r.source = "path" => r.dir \in Dir)
  /\ MaxCommands \in Nat

VARIABLES
  pushed,    \* url -> how many commits have been pushed
  local,     \* directory -> its manifest
  deps,      \* [dependencies] of tya.toml, in order
  devDeps,   \* [dev-dependencies] of tya.toml, in order
  lock,      \* tya.lock: name -> its entry, or Nothing without the file
  clones,    \* url -> the clone: commits it knows, and its branch; or Nothing
  store,     \* name, version -> the copy in .tya/packages, or Nothing
  job,       \* the command that runs
  outcome,   \* of the last command
  commands   \* how many commands have been started

pkgVars == <<pushed, local, deps, devDeps, lock, clones, store, job, outcome, commands>>
worldVars == <<pushed, local>>
manifestVars == <<deps, devDeps>>

Empty == [n \in {} |-> Nothing]
Idle == [step |-> "idle"]

---------------------------------------------------------------------------
(* tya.toml.                                                               *)

\* A table has a name once.
HasName(tab, n) == \E i \in DOMAIN tab : tab[i].name = n
Without(tab, n) ==
  IF HasName(tab, n) THEN RemoveAt(tab, CHOOSE i \in DOMAIN tab : tab[i].name = n) ELSE tab

\* A dependency of the same name is replaced where it stands.
Put(tab, d) == IF ~HasName(tab, d.name) THEN Append(tab, d)
               ELSE [i \in DOMAIN tab |-> IF tab[i].name = d.name THEN d ELSE tab[i]]

\* ReadManifest refuses a git dependency without tag, branch and rev.
Readable(tab) == \A i \in DOMAIN tab : tab[i].source = "git" => tab[i].ref # NoRef

ManifestReadable == Readable(deps) /\ Readable(devDeps)

---------------------------------------------------------------------------
(* tya.lock.                                                               *)

SatisfiesDependency(lf, d) ==
  /\ d.name \in DOMAIN lf
  /\ CASE d.source = "version" -> Satisfies(d.terms, lf[d.name].version)
       [] d.source = "git" -> lf[d.name].source = "git" /\ lf[d.name].url = d.url
       [] d.source = "path" -> lf[d.name].source = "path" /\ lf[d.name].dir = d.dir

SatisfiesManifest(lf) == \A d \in ToSet(deps) \cup ToSet(devDeps) : SatisfiesDependency(lf, d)

\* The checksum of a directory covers all its files: those below .git are in
\* a clone and not in a copy.
CloneSum(c) == <<"clone", c>>
TreeSum(t) == <<"copy", t.commit, t.whole>>

---------------------------------------------------------------------------
(* Git, as FetchGit calls it.                                              *)

\* The clone of u after FetchGit has brought it up to date, or has failed to:
\* a fetch is tried and its failure ignored, a missing clone must be made.
\* A fetch does not move the branch of the clone.
Fetched(u) ==
  IF clones[u] = Nothing THEN {[known |-> pushed[u], branch |-> pushed[u]], Nothing}
  ELSE {[clones[u] EXCEPT !.known = pushed[u]], clones[u]}

\* The commit that a reference names in a clone; Nothing if checkout fails.
CheckedOut(u, clone, ref) ==
  IF clone = Nothing THEN Nothing
  ELSE IF ref = Branch THEN History[u][clone.branch]
  ELSE IF \E i \in 1..clone.known : History[u][i] = ref THEN ref
  ELSE Nothing

---------------------------------------------------------------------------
PkgInit ==
  /\ pushed = [u \in Url |-> 1]
  /\ local \in [Dir -> UNION {Local[d] : d \in Dir}] /\ \A d \in Dir : local[d] \in Local[d]
  /\ deps = <<>> /\ devDeps = <<>>
  /\ lock = Nothing
  /\ clones = [u \in Url |-> Nothing]
  /\ store = [p \in Name \X {Pack[c].version : c \in Commits} |-> Nothing]
  /\ job = Idle
  /\ outcome = "none"
  /\ commands = 0

---------------------------------------------------------------------------
(* The world outside.                                                      *)

Push(u) ==
  /\ pushed[u] < Len(History[u])
  /\ pushed' = [pushed EXCEPT ![u] = @ + 1]
  /\ UNCHANGED <<local, manifestVars, lock, clones, store, job, outcome, commands>>

EditLocal(d) ==
  /\ \E m \in Local[d] : m # local[d] /\ local' = [local EXCEPT ![d] = m]
  /\ UNCHANGED <<pushed, manifestVars, lock, clones, store, job, outcome, commands>>

\* The user deletes .tya/cache or .tya/packages, which the documents call safe.
DeleteClones ==
  /\ job = Idle
  /\ clones' = [u \in Url |-> Nothing]
  /\ UNCHANGED <<worldVars, manifestVars, lock, store, job, outcome, commands>>

DeleteStore ==
  /\ job = Idle
  /\ store' = [p \in DOMAIN store |-> Nothing]
  /\ UNCHANGED <<worldVars, manifestVars, lock, clones, job, outcome, commands>>

---------------------------------------------------------------------------
(* The commands.                                                           *)

Ends(result) == /\ job' = Idle
                /\ outcome' = result

Starts == /\ job = Idle
          /\ commands < MaxCommands
          /\ commands' = commands + 1

\* resolve visits dependencies in order, dev-dependencies last.
Resolving(kind, all) == [kind |-> kind, step |-> "resolve", todo |-> all, plan |-> Empty]
Copying(kind, lf) ==
  [kind |-> kind, step |-> "copy", todo |-> SetToSeq(DOMAIN lf), plan |-> lf]

\* Mutant of Begun: every install resolves anew.
BegunAnew(tab, dev, lf) == Resolving("install", tab \o dev)

\* Mutant of Begun: dev-dependencies are not resolved.
BegunWithoutDev(tab, dev, lf) ==
  IF lf # Nothing /\ \A d \in ToSet(tab) \cup ToSet(dev) : SatisfiesDependency(lf, d)
  THEN Copying("install", lf) ELSE Resolving("install", tab)

\* Install keeps a lock file that satisfies the manifest.
Begun(tab, dev, lf) ==
  IF lf # Nothing /\ \A d \in ToSet(tab) \cup ToSet(dev) : SatisfiesDependency(lf, d)
  THEN Copying("install", lf) ELSE Resolving("install", tab \o dev)

Install ==
  /\ Starts
  /\ IF ManifestReadable THEN job' = Begun(deps, devDeps, lock) /\ UNCHANGED outcome
     ELSE Ends("failed")
  /\ UNCHANGED <<worldVars, manifestVars, lock, clones, store>>

\* Update resolves everything, also when one package is named.
Update ==
  /\ Starts
  /\ IF ManifestReadable THEN job' = Resolving("update", deps \o devDeps) /\ UNCHANGED outcome
     ELSE Ends("failed")
  /\ UNCHANGED <<worldVars, manifestVars, lock, clones, store>>

\* add edits the manifest and installs, unless there is no source to install
\* from; it edits one table and leaves the name in the other one.
AddDependency(d, dev) ==
  /\ Starts
  /\ LET tab == IF dev THEN deps ELSE Put(deps, d)
         devTab == IF dev THEN Put(devDeps, d) ELSE devDeps
     IN IF ~ManifestReadable THEN Ends("failed") /\ UNCHANGED manifestVars
        ELSE /\ deps' = tab /\ devDeps' = devTab
             /\ IF d.source = "version" THEN Ends("added")
                ELSE IF ~(Readable(tab) /\ Readable(devTab)) THEN Ends("failed")
                ELSE job' = Begun(tab, devTab, lock) /\ UNCHANGED outcome
  /\ UNCHANGED <<worldVars, lock, clones, store>>

\* remove leaves the lock file and the store alone.
RemoveDependency(n) ==
  /\ Starts
  /\ IF ManifestReadable /\ (HasName(deps, n) \/ HasName(devDeps, n))
     THEN /\ deps' = Without(deps, n) /\ devDeps' = Without(devDeps, n)
          /\ Ends("removed")
     ELSE Ends("failed") /\ UNCHANGED manifestVars
  /\ UNCHANGED <<worldVars, lock, clones, store>>

---------------------------------------------------------------------------
(* resolve: one visit a step.                                              *)

Visits(d) == /\ job.step = "resolve"
             /\ job.todo # <<>>
             /\ Head(job.todo) = d

Entry(d, pack, commit, sum) ==
  [source |-> d.source, version |-> pack.version,
   url |-> IF d.source = "git" THEN d.url ELSE Nothing,
   dir |-> IF d.source = "path" THEN d.dir ELSE Nothing,
   commit |-> commit, sum |-> sum, deps |-> {pack.deps[i].name : i \in DOMAIN pack.deps}]

Adding(lf, n, e) == [m \in DOMAIN lf \cup {n} |-> IF m = n THEN e ELSE lf[m]]

\* Mutant of Resolved: the dependencies of a package are not visited.
ResolvedFlat(d, pack, commit, sum) ==
  [job EXCEPT !.plan = Adding(@, d.name, Entry(d, pack, commit, sum)), !.todo = Tail(@)]

\* The package is locked and its own dependencies are visited before the rest.
Resolved(d, pack, commit, sum) ==
  [job EXCEPT !.plan = Adding(@, d.name, Entry(d, pack, commit, sum)),
              !.todo = pack.deps \o Tail(@)]

\* Mutant of Fresh: visits are not remembered.
FreshAlways(d) == TRUE

Fresh(d) == d.name \notin DOMAIN job.plan

\* The first visit of a name counts, whatever later ones ask for.
VisitAgain ==
  /\ \E d \in ToSet(job.todo) : Visits(d) /\ ~Fresh(d)
  /\ job' = [job EXCEPT !.todo = Tail(@)]
  /\ UNCHANGED <<worldVars, manifestVars, lock, clones, store, outcome, commands>>

\* The directory is read where it stands, and no checksum is recorded.
VisitPath(d) ==
  /\ Visits(d) /\ Fresh(d) /\ d.source = "path"
  /\ IF Readable(local[d.dir].deps)
     THEN job' = Resolved(d, local[d.dir], Nothing, Nothing) /\ UNCHANGED outcome
     ELSE Ends("failed")
  /\ UNCHANGED <<worldVars, manifestVars, lock, clones, store, commands>>

\* The manifest is read in the clone, which stays.
VisitGit(d) ==
  /\ Visits(d) /\ Fresh(d) /\ d.source = "git"
  /\ \E clone \in Fetched(d.url) :
       LET c == CheckedOut(d.url, clone, d.ref) IN
       /\ clones' = [clones EXCEPT ![d.url] = clone]
       /\ IF c # Nothing /\ Readable(Pack[c].deps) /\ Satisfies(d.terms, Pack[c].version)
          THEN job' = Resolved(d, Pack[c], c, CloneSum(c)) /\ UNCHANGED outcome
          ELSE Ends("failed")
  /\ UNCHANGED <<worldVars, manifestVars, lock, store, commands>>

\* There is no registry to ask for a version.
VisitVersion(d) ==
  /\ Visits(d) /\ Fresh(d) /\ d.source = "version"
  /\ Ends("failed")
  /\ UNCHANGED <<worldVars, manifestVars, lock, clones, store, commands>>

ResolveEnds ==
  /\ job.step = "resolve" /\ job.todo = <<>>
  /\ job' = Copying(job.kind, job.plan)
  /\ UNCHANGED <<worldVars, manifestVars, lock, clones, store, outcome, commands>>

---------------------------------------------------------------------------
(* materialize: one package after the other.                               *)

Slot(n, e) == <<n, e.version>>

\* A copy counts as present as soon as it has a tya.toml; a package in a
\* directory of its own needs no copy.
NeedsCopy(n, e) ==
  e.source = "git" /\ (store[Slot(n, e)] # Nothing => ~store[Slot(n, e)].manifest)

Tree(commit, manifest, whole) == [commit |-> commit, manifest |-> manifest, whole |-> whole]

\* Mutant of SkipsCopy: what is there is trusted and its checksum locked.
SkipsCopyAndTrusts(n) ==
  LET e == job.plan[n] IN
  /\ ~NeedsCopy(n, e)
  /\ job' = [job EXCEPT !.todo = Tail(@),
               !.plan[n].sum = IF e.source = "path" THEN Nothing ELSE TreeSum(store[Slot(n, e)])]
  /\ UNCHANGED <<clones, store, outcome>>

\* Packages read in place and those present are passed over.
SkipsCopy(n) ==
  LET e == job.plan[n] IN
  /\ ~NeedsCopy(n, e)
  /\ job' = [job EXCEPT !.todo = Tail(@)]
  /\ UNCHANGED <<clones, store, outcome>>

\* What was there is removed, the checked-out files are copied without .git,
\* and the checksum is that of the copy.
Copies(n, clone, c) ==
  LET t == Tree(c, TRUE, TRUE) IN
  /\ store' = [store EXCEPT ![Slot(n, job.plan[n])] = t]
  /\ job' = [job EXCEPT !.todo = Tail(@), !.plan[n].sum = TreeSum(t)]
  /\ UNCHANGED outcome

\* The process dies or the disk is full midway: files are copied in the order
\* of their names, some before tya.toml and some after it.
CopyBreaks(n, clone, c) ==
  /\ \E manifest \in BOOLEAN :
       store' = [store EXCEPT ![Slot(n, job.plan[n])] = Tree(c, manifest, FALSE)]
  /\ Ends("failed")

FetchesCopy(n) ==
  LET e == job.plan[n] IN
  /\ NeedsCopy(n, e)
  /\ \E clone \in Fetched(e.url) :
       LET c == CheckedOut(e.url, clone, e.commit) IN
       /\ clones' = [clones EXCEPT ![e.url] = clone]
       /\ IF c = Nothing THEN Ends("failed") /\ UNCHANGED store
          ELSE Copies(n, clone, c) \/ CopyBreaks(n, clone, c)

Materialize ==
  /\ job.step = "copy" /\ job.todo # <<>>
  /\ SkipsCopy(Head(job.todo)) \/ FetchesCopy(Head(job.todo))
  /\ UNCHANGED <<worldVars, manifestVars, lock, commands>>

WriteLockfile ==
  /\ job.step = "copy" /\ job.todo = <<>>
  /\ lock' = job.plan
  /\ Ends("ok")
  /\ UNCHANGED <<worldVars, manifestVars, clones, store, commands>>

\* The process dies.  The lock file is emptied before it is written, and an
\* empty one is read as a lock of no package.
Crash ==
  /\ job # Idle
  /\ lock' \in IF job.step = "copy" /\ job.todo = <<>> THEN {lock, Empty} ELSE {lock}
  /\ Ends("failed")
  /\ UNCHANGED <<worldVars, manifestVars, clones, store, commands>>

---------------------------------------------------------------------------
(* The import of a package: packageSrcDirsFromRoot.                        *)

\* What an import of package n comes to; "unlocked" leaves it to whatever
\* directories of that name are in the store, and to TYA_PATH.
ImportOutcome(n) ==
  IF lock = Nothing THEN "unlocked"
  ELSE IF ManifestReadable /\ ~SatisfiesManifest(lock) THEN "stale lock"
  ELSE IF n \notin DOMAIN lock THEN "unlocked"
  ELSE LET e == lock[n]
           t == IF e.source = "git" THEN store[Slot(n, e)] ELSE Nothing
       IN IF e.source = "path" THEN "local"
          ELSE IF t = Nothing THEN "unavailable"
          ELSE IF TreeSum(t) # e.sum THEN "mismatch"
          ELSE "locked"

---------------------------------------------------------------------------
Resolve == \/ VisitAgain
           \/ \E d \in ToSet(job.todo) : VisitPath(d) \/ VisitGit(d) \/ VisitVersion(d)
           \/ ResolveEnds

PkgNext ==
  \/ \E u \in Url : Push(u)
  \/ \E d \in Dir : EditLocal(d)
  \/ DeleteClones \/ DeleteStore
  \/ Install \/ Update
  \/ \E d \in Addable : AddDependency(d, d.name \in DevNames)
  \/ \E n \in Name : RemoveDependency(n)
  \/ job.step = "resolve" /\ Resolve
  \/ Materialize
  \/ WriteLockfile
  \/ Crash

Runs == (job.step = "resolve" /\ Resolve) \/ Materialize \/ WriteLockfile

\* A command that has been started runs until it ends or is killed.
PkgSpec == PkgInit /\ [][PkgNext]_pkgVars /\ WF_pkgVars(Runs)

---------------------------------------------------------------------------
\* Whatever a locked package depends on is locked too (resolve visits the
\* dependencies of path and git packages alike).
LockClosed == lock # Nothing => \A n \in DOMAIN lock : lock[n].deps \subseteq DOMAIN lock

\* An import that passes the check finds the complete content of the locked
\* commit, after any sequence of commands, crashes and failed copies.
ImportIsLocked ==
  \A n \in Name : ImportOutcome(n) = "locked" =>
    store[Slot(n, lock[n])] = Tree(lock[n].commit, TRUE, TRUE)

\* All references to a name agree on where the package comes from.
SourceOf(d) == CASE d.source = "git" -> <<"git", d.url>>
                 [] d.source = "path" -> <<"path", d.dir>>
                 [] OTHER -> <<"version">>
OneSource == \A d, e \in References : d.name = e.name => SourceOf(d) = SourceOf(e)

\* After a successful install or update the lock file satisfies the manifest,
\* so that imports do not ask for another install.
InstallSatisfies ==
  OneSource /\ job = Idle /\ outcome = "ok" => SatisfiesManifest(lock)

\* An install never moves a lock file that satisfies the manifest to other
\* commits, whatever has been pushed meanwhile (Install).
InstallKeepsLock ==
  [][WriteLockfile /\ job.kind = "install" /\ lock # Nothing /\ SatisfiesManifest(lock)
       => /\ DOMAIN lock' = DOMAIN lock
          /\ \A n \in DOMAIN lock : lock'[n].commit = lock[n].commit]_pkgVars

\* Every command ends, also when packages depend on each other in a circle.
CommandsEnd == job # Idle ~> job = Idle

\* What the documents say of the checksum in the lock file: it is that of the
\* unpacked tree, so that a package a successful command has locked imports.
LockedVerifies ==
  job = Idle /\ outcome = "ok" => \A n \in DOMAIN lock : ImportOutcome(n) # "mismatch"
=============================================================================
