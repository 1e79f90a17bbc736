-------------------------------- MODULE Builds --------------------------------
(***************************************************************************)
(* Builds of the programs of one project (cmd/tya/main.go).  Each is a     *)
(* process of its own: it writes the C it has generated to the one file    *)
(* .tya/build/main.c, looks for the objects of the runtime in a cache      *)
(* under a key made of the contents of the runtime's sources, compiles     *)
(* them where it finds none, and links.  Meanwhile a source of the runtime *)
(* may be edited, an object may vanish from the cache, `tya clean` may     *)
(* run, and a build may be killed at any step.                             *)
(*                                                                         *)
(* A source stands for itself and the files it includes, which are hashed  *)
(* and compiled with it.                                                   *)
(***************************************************************************)
EXTENDS Naturals

CONSTANTS Build,        \* those who build, with tya build, tya run and the like
          ProgramOf,    \* build -> the C source generated for its program
          SourceCount,  \* the number of sources of the runtime
          Content,      \* what a source may hold
          FirstContent, \* what each holds at first
          None,         \* no content, no file
          Blank,        \* a file that has just been truncated
          Garbled,      \* one that two builds have written at once
          MaxBegun,     \* bounds the builds that are begun
          MaxMeddles    \* bounds edits, vanished objects and cleans together

Source == 1..SourceCount
Key == [Source -> Content]     \* the digest, as what it is made of

ASSUME BuildsAssumption ==
  /\ SourceCount \in Nat \ {0}
  /\ FirstContent \in Content /\ None \notin Content
  /\ \A b \in Build : ProgramOf[b] \notin {None, Blank, Garbled}
  /\ MaxBegun \in Nat /\ MaxMeddles \in Nat

VARIABLES
  runtime,   \* source -> what it holds
  mainC,     \* what .tya/build/main.c holds
  opened,    \* the builds that are writing the main.c that is there
  dirs,      \* the keys the cache has a directory of
  objects,   \* key -> source -> what the object in that directory was made of
  emptying,  \* the builds that are removing the directory that is there
  phase,     \* build -> what it does next
  key,       \* build -> source -> what has been hashed
  made,      \* build -> source -> what the object in its own directory is made of
  program,   \* build -> the main.c it has compiled
  output,    \* build -> the objects its executable is linked with
  begun, meddles,
  alone,     \* the builds that nothing has come across
  mixed      \* a source has been edited between its hashing and its compilation

fileVars == <<runtime, mainC, opened>>
cacheVars == <<dirs, objects, emptying>>
ownVars == <<key, made, program, output>>
aboutVars == <<begun, meddles, alone, mixed>>
buildVars == <<fileVars, cacheVars, phase, ownVars, aboutVars>>

Nothing == [i \in Source |-> None]

BuildInit ==
  /\ runtime = [i \in Source |-> FirstContent]
  /\ mainC = None
  /\ opened = {}
  /\ dirs = {}
  /\ objects = [k \in Key |-> Nothing]
  /\ emptying = {}
  /\ phase = [b \in Build |-> "idle"]
  /\ key = [b \in Build |-> Nothing]
  /\ made = [b \in Build |-> Nothing]
  /\ program = [b \in Build |-> None]
  /\ output = [b \in Build |-> Nothing]
  /\ begun = 0 /\ meddles = 0
  /\ alone = {}
  /\ mixed = FALSE

Ended == {"done", "failed", "crashed"}
Running == {b \in Build : phase[b] \notin Ended \cup {"idle"}}

Goes(b, to) == phase' = [phase EXCEPT ![b] = to]
NoneMade(b) == made' = [made EXCEPT ![b] = Nothing]
Forgets(b) == key' = [key EXCEPT ![b] = Nothing] /\ program' = [program EXCEPT ![b] = None]

(* runtimeObjectsExist                                                     *)
Whole(f) == \A i \in Source : f[i] # None
Complete(k) == Whole(objects[k])

---------------------------------------------------------------------------
(* The C of the program.                                                   *)

(* The source has been generated; the file is created or truncated.        *)
Begin(b) ==
  /\ b \notin Running
  /\ begun < MaxBegun /\ begun' = begun + 1
  /\ mainC' = Blank
  /\ opened' = opened \cup {b}
  /\ alone' = (alone \ (Running \cup {b})) \cup (IF Running = {} THEN {b} ELSE {})
  /\ Goes(b, "writing")
  /\ Forgets(b)
  /\ output' = [output EXCEPT ![b] = Nothing]
  /\ UNCHANGED <<runtime, cacheVars, made, meddles, mixed>>

(* From the start of the file, which another may have written since.       *)
Write(b) ==
  /\ phase[b] = "writing"
  /\ mainC' \in IF b \notin opened THEN {mainC}
                ELSE IF mainC \in {Blank, ProgramOf[b]} THEN {ProgramOf[b]}
                ELSE {ProgramOf[b], Garbled}
  /\ opened' = opened \ {b}
  /\ Goes(b, "hashing")
  /\ UNCHANGED <<runtime, cacheVars, ownVars, aboutVars>>

---------------------------------------------------------------------------
(* cachedRuntimeObjects                                                    *)

NextOf(f) == {i \in Source : f[i] = None /\ \A j \in 1..(i - 1) : f[j] # None}

\* Mutant of Hash: only the first source counts.
HashFirst(b) ==
  /\ phase[b] = "hashing"
  /\ \E i \in NextOf(key[b]) :
       key' = [key EXCEPT ![b][i] = IF i = 1 THEN runtime[i] ELSE FirstContent]
  /\ UNCHANGED <<fileVars, cacheVars, phase, made, program, output, aboutVars>>

(* runtimeObjectCacheKey                                                   *)
Hash(b) ==
  /\ phase[b] = "hashing"
  /\ \E i \in NextOf(key[b]) : key' = [key EXCEPT ![b][i] = runtime[i]]
  /\ UNCHANGED <<fileVars, cacheVars, phase, made, program, output, aboutVars>>

Look(b) ==
  /\ phase[b] = "hashing" /\ Whole(key[b])
  /\ Goes(b, IF Complete(key[b]) THEN "reading" ELSE "compiling")
  /\ UNCHANGED <<fileVars, cacheVars, ownVars, aboutVars>>

Compile(b) ==
  /\ phase[b] = "compiling"
  /\ \E i \in NextOf(made[b]) : made' = [made EXCEPT ![b][i] = runtime[i]]
  /\ UNCHANGED <<fileVars, cacheVars, phase, key, program, output, aboutVars>>

(* The compiler fails; the directory of the build is removed.              *)
CompileFails(b) ==
  /\ phase[b] = "compiling" /\ ~Whole(made[b])
  /\ alone' = alone \ {b}
  /\ NoneMade(b) /\ Forgets(b)
  /\ Goes(b, "failed")
  /\ UNCHANGED <<fileVars, cacheVars, output, begun, meddles, mixed>>

(* The directory of the build becomes that of the key.                     *)
Moves(b) ==
  /\ key[b] \notin dirs
  /\ dirs' = dirs \cup {key[b]}
  /\ objects' = [objects EXCEPT ![key[b]] = made[b]]
  /\ NoneMade(b)
  /\ Goes(b, "reading")
  /\ UNCHANGED <<fileVars, emptying, key, program, output, aboutVars>>

Rename(b) == phase[b] = "compiling" /\ Whole(made[b]) /\ Moves(b)

\* Mutant of RenameFails: a directory that lacks an object is left.
RenameGivesUp(b) ==
  /\ phase[b] = "compiling" /\ Whole(made[b])
  /\ key[b] \in dirs
  /\ Goes(b, IF Complete(key[b]) THEN "reading" ELSE "failed")
  /\ UNCHANGED <<fileVars, cacheVars, ownVars, aboutVars>>

(* There is one: another build's, or one that lacks an object.             *)
RenameFails(b) ==
  /\ phase[b] = "compiling" /\ Whole(made[b])
  /\ key[b] \in dirs
  /\ IF Complete(key[b]) THEN NoneMade(b) /\ Goes(b, "reading")
     ELSE UNCHANGED made /\ Goes(b, "clearing")
  /\ UNCHANGED <<fileVars, cacheVars, key, program, output, aboutVars>>

(* os.RemoveAll: the directory is opened, its files are removed, then the  *)
(* directory of this name.                                                 *)
OpenDir(b) ==
  /\ phase[b] = "clearing"
  /\ emptying' = IF key[b] \in dirs THEN emptying \cup {b} ELSE emptying
  /\ Goes(b, "removing")
  /\ UNCHANGED <<fileVars, dirs, objects, ownVars, aboutVars>>

RemoveObject(b) ==
  /\ phase[b] = "removing" /\ b \in emptying
  /\ \E i \in Source : /\ objects[key[b]][i] # None
                       /\ objects' = [objects EXCEPT ![key[b]][i] = None]
  /\ UNCHANGED <<fileVars, dirs, emptying, phase, ownVars, aboutVars>>

RemoveDir(b) ==
  /\ phase[b] = "removing"
  /\ b \in emptying => objects[key[b]] = Nothing
  /\ IF objects[key[b]] = Nothing
     THEN /\ dirs' = dirs \ {key[b]}
          /\ emptying' = {c \in emptying : key[c] # key[b]}
     ELSE UNCHANGED <<dirs, emptying>>
  /\ Goes(b, "again")
  /\ UNCHANGED <<fileVars, objects, ownVars, aboutVars>>

RenameAgain(b) == phase[b] = "again" /\ Moves(b)

RenameAgainFails(b) ==
  /\ phase[b] = "again" /\ key[b] \in dirs
  /\ NoneMade(b) /\ Forgets(b)
  /\ Goes(b, "failed")
  /\ UNCHANGED <<fileVars, cacheVars, output, aboutVars>>

---------------------------------------------------------------------------
(* The C compiler: it reads main.c, then the objects.                      *)

ReadMain(b) ==
  /\ phase[b] = "reading"
  /\ IF mainC \in {None, Blank, Garbled}
     THEN Forgets(b) /\ Goes(b, "failed")
     ELSE /\ program' = [program EXCEPT ![b] = mainC]
          /\ UNCHANGED key
          /\ Goes(b, "linking")
  /\ UNCHANGED <<fileVars, cacheVars, made, output, aboutVars>>

Link(b) ==
  /\ phase[b] = "linking"
  /\ IF Complete(key[b])
     THEN /\ output' = [output EXCEPT ![b] = objects[key[b]]]
          /\ UNCHANGED <<key, program>>
          /\ Goes(b, "done")
     ELSE UNCHANGED output /\ Forgets(b) /\ Goes(b, "failed")
  /\ UNCHANGED <<fileVars, cacheVars, made, aboutVars>>

Crash(b) ==
  /\ b \in Running
  /\ opened' = opened \ {b}
  /\ emptying' = emptying \ {b}
  /\ NoneMade(b) /\ Forgets(b)     \* nobody looks at what it leaves behind
  /\ Goes(b, "crashed")
  /\ UNCHANGED <<runtime, mainC, dirs, objects, output, aboutVars>>

---------------------------------------------------------------------------
(* What happens beside the builds.                                         *)

Meddles ==
  meddles < MaxMeddles /\ meddles' = meddles + 1 /\ UNCHANGED begun

Edit(i) ==
  /\ Meddles
  /\ \E c \in Content \ {runtime[i]} : runtime' = [runtime EXCEPT ![i] = c]
  /\ mixed' = (mixed \/ \E b \in Build :
                 /\ phase[b] \in {"hashing", "compiling"}
                 /\ key[b][i] # None /\ made[b][i] = None)
  /\ UNCHANGED <<mainC, opened, cacheVars, phase, ownVars, alone>>

Vanish(k, i) ==
  /\ Meddles
  /\ objects[k][i] # None
  /\ objects' = [objects EXCEPT ![k][i] = None]
  /\ alone' = alone \ Running
  /\ UNCHANGED <<fileVars, dirs, emptying, phase, ownVars, mixed>>

(* cleanCommand; the cache is the user's and stays.                        *)
Clean ==
  /\ Meddles
  /\ mainC' = None
  /\ opened' = {}
  /\ alone' = alone \ Running
  /\ UNCHANGED <<runtime, cacheVars, phase, ownVars, mixed>>

BuildStep(b) ==
  \/ Begin(b) \/ Write(b)
  \/ Hash(b) \/ Look(b) \/ Compile(b) \/ CompileFails(b)
  \/ Rename(b) \/ RenameFails(b) \/ OpenDir(b) \/ RemoveObject(b)
  \/ RemoveDir(b) \/ RenameAgain(b) \/ RenameAgainFails(b)
  \/ ReadMain(b) \/ Link(b) \/ Crash(b)
BuildNext ==
  \/ \E b \in Build : BuildStep(b)
  \/ \E i \in Source : Edit(i)
  \/ \E k \in Key, i \in Source : Vanish(k, i)
  \/ Clean
BuildSpec == BuildInit /\ [][BuildNext]_buildVars

---------------------------------------------------------------------------

\* An object in the cache, and so in every executable, was made of the sources
\* its key says, whatever builds run at once, are killed or clear the same
\* directory, unless a source is edited between its hashing and its compilation
\* (cachedRuntimeObjects).
CacheHolds ==
  ~mixed =>
    /\ \A k \in Key, i \in Source : objects[k][i] \in {None, k[i]}
    /\ \A b \in Build : phase[b] = "done" => output[b] = key[b]

\* A build that nothing comes across, whatever builds before it have left, is
\* one of its own program and does not fail (buildExecutableWithCoverTargetFlags).
AloneBuilds ==
  \A b \in alone :
    phase[b] # "failed" /\ (phase[b] = "done" => program[b] = ProgramOf[b])
=============================================================================
