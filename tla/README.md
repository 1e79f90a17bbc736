# A verification of Tya in TLA+

Tya is a programming language. Its compiler, written in Go, loads a program's
files, checks them, translates them to C and links them with a runtime written
in C; around it stand a formatter, a linter, a language server, a task runner
and a package manager. This directory models these parts in TLA+, checks small
instances with TLC, and proves with TLAPS what holds for every size. Paths are
relative to the repository's root.

## 1. Inventory

| component | where | state it keeps | operations | modules |
|---|---|---|---|---|
| fiber scheduler | `runtime/tya_runtime_net.c` 492-765, `runtime/tya_runtime_task_sync.c` 97-194, `runtime/tya_runtime_io.c` 1082-1118 | ready list, sleep list, current task, saved scheduler context; per task `done`, `raised`, `cancelled`, `wake_time`, `next_waiter` | spawn, await, cancel, sleep, yield, finish, run-one, run-until-done | `Scheduler` |
| channels | `runtime/tya_runtime_task_sync.c` 201-620 | ring buffer, `closed`, lists of parked senders and receivers; per task `pending_value`, `waiting_value`, `channel_send_failed` | send, receive, receive_timeout, select, close | `Channel`, `FifoQueue` |
| structured scopes | `runtime/tya_runtime_task_sync.c` 1-64, `internal/codegen/stmt.go`, `internal/codegen/func.go` | the chain from `tya_current_scope`; per scope its tasks | enter, register, exit, raise, leave by `return` | `Scopes` |
| exceptions | `runtime/tya_runtime_io.c`, `internal/codegen/errors.go`, `stmt.go` | chain of `setjmp` frames | raise, try, catch, finally | `Codegen`, `CMachine` |
| task runner | `cmd/tya/task.go` | graph of named tasks, snapshot of watched files | validate, run in order, commands in parallel, watch | `TaskRunner` |
| package manager | `internal/pkg`, parts of `cmd/tya/main.go` and `internal/runner` | manifest, lock file, clones, copies | install, update, add, remove, import check | `Semver`, `Packages` |
| module runner and build cache | `internal/runner`, `cmd/tya/main.go` | loaded modules, namespaces, merged source; `main.c`, cache of objects | load, merge, hash, compile, link, clean | `Loader`, `Builds`, `Toolchain` |
| lexer and parser | `internal/lexer`, `internal/parser` | tokens, place | indentation, recursive descent | `Syntax`, `Parser`, `ClassText` |
| checker and linter | `internal/checker`, `cmd/tya/lint*.go` | chain of scopes, tables of classes | names, kinds, classes, arities; unused bindings, `--fix` | `Checker`, `Classes`, `Lint` |
| code generator | `internal/codegen` | declared C variables, open frames, captures | statements, expressions, closures, classes | `Codegen`, `CMachine`, `ClassTables`, `ClassMeaning` |
| evaluator | `internal/eval` | environments, closures | run a tree | `Evaluator` |
| formatter | `internal/formatter` | none | tree to canonical text | `Layout`, `ClassText` |
| language server | `internal/lsp` | open documents, cache of parsed files | open, change, save, close, requests, rename | `LanguageServer`, `Rename` |
| mutex, atomic integer, wait group | `runtime/tya_runtime_task_sync.c` 673-796 | pthread mutexes, counters | lock, unlock, add, wait | not modelled |
| garbage collector, collections, regex, digests, HTTP server, I/O, coverage | `runtime/*` | | | not modelled |
| documentation, diagnostics, command line, standard library, self-hosted compiler, editors | `internal/doc`, `internal/diag`, `cmd/tya`, `lib`, `selfhost`, `editors` | | | not modelled |

`PROJECT.json` has every component with its sources and status, and the hazards
(what is hard to test here) at their lines, each with the properties that
would see it go wrong.

**How they interact.** `tya build` loads (`Loader`), checks (`Checker`, `Classes`),
emits C (`Codegen`, `ClassTables`) and compiles and links it (`Builds`); `Toolchain`
and `Language` compose them. The generated C calls the runtime: `spawn`, `await`
and `scope` become `tya_task_new`, `tya_task_await` and
`tya_scope_enter`/`tya_scope_exit`, a `try` pushes a raise frame. Channels and
scopes share the scheduler's lists and its one saved context: `Channel` and
`Scopes` extend `Scheduler`. A loader that meets an import of a package asks the
lock file (`Packages`). Formatter, `lint --fix` and rename produce text that the
parser must read back, so `Language` runs them before the checker and the two ways to
run a program.

**What is hard here.**

* A fiber waits by `swapcontext` to **one global context**, whoever saved it
  last; any function that runs the scheduler on top of a fiber makes it the
  wrong one. The main program is not a task: each waiting call has a second
  implementation for it, a loop that drives the scheduler and decides in its
  own way when to give up.
* A task has **one link field** for the list of its waiters and for its own
  place in another task's list.
* A channel has two ways into a receiver and two for a sender. A state in which
  one is used while the other has a queue breaks the order or strands somebody.
* Scopes are chained through a variable of the thread, not of the fiber.
* Raise frames live in C blocks; `return`, `break` and a raise leave these blocks.
* What formatter, linter and rename decide about names is decided apart from
  the checker and the code generator, which decide again.
* Lock file, copies and clones are written by commands that may be killed between
  any two steps. Builds of one project share `main.c` and the cache of objects.
* The editor runs ahead of the language server, which answers from its store, from
  the disk and from a cache.

## 2. The modules

### Runtime

`Scheduler`: a step is the code between two points where another fiber may run,
or one turn of a loop. `cur` is `tya_current_task_ptr` (`Main` stands for `NULL`),
`ctx` says whose activation of `tya_scheduler_run_one` was saved last, `prev[t]`
whose activation resumed `t`. `SwitchOut`, the jump back, lands in the right
place only if both agree; otherwise `cur` becomes `None` and nothing more is said
of the program (`Stopped`). `TypeCorrect` excludes that state where the main program alone
drives the scheduler; in a task that does (section 5) it is reached.

| action | code |
|---|---|
| `Spawn`, `Cancel` | `tya_task_new`, `tya_task_cancel` |
| `Await`, `AwaitReturn` | `tya_task_await` in a task, before and after the yield |
| `Sleep`, `Yield` | `tya_time_sleep` with `tya_task_sleep_until`; `tya_task_yield(true)` |
| `Finish`, `WakeWaiter`, `Leave` | `tya_task_fiber_main`: `tya_task_finish`, each turn of `tya_task_wake_waiters`, `setcontext` |
| `MainAwait`, `MainSleep`, their returns | the main program in `tya_scheduler_run_until_task_done` and `tya_time_sleep` |
| `MainWakeSleeper`, `MainDispatch` | `tya_task_wake_sleepers` and `tya_scheduler_run_one` in those loops |
| `MainExit`, `Tick` | the end of `main`; the wall clock |

`Channel`: a value is its number among the values its channel accepted, so that
order, loss and duplication can be stated. A call is one action where it does
not wait and a pair around the wait where it does. Tasks are parked; the main
program and whoever waits in `receive_timeout` or `select` polls. `sent` and
`got` are history. The pthread mutex of a channel is never held across a switch
and is left out. `FifoQueue` keeps what is stored, what blocked senders bring,
what has been handed out and whether the queue is closed; `QueueSpec` says that
every channel implements it.

`Scopes`: `own[o]` are the scopes whose statements `o` is inside; `curScope` and
`outer` are the runtime's chain. Leaving is `Exit` or `Raise`, then the loop over
the tasks (`JoinRuns` while the scheduler runs, `JoinNext` when it comes back),
then `ScopeEnds`. `first[o]` is the task whose raise `tya_scope_exit` keeps for the end.
`ReturnOut` is what the code generator makes of `return`.

### Tools

`LanguageServer`: a text is a sequence of bytes; what the server computes from
one text alone is represented by that text. The editor edits buffers and sends
messages through a pipe, the server takes one at a time and runs its whole
handler (`Serve`); another program writes the files that are not open.

`Packages`: a commit's manifest and content are constants; the variables are the
pushed histories, manifest, lock file, clones, copies, and the step of the command in
progress, which may be killed at any step (`Crash`). `Semver` has versions and
constraints. That a manifest with a git dependency without tag, branch and rev is refused
is modelled wherever one is read; the run's packages have none, the theorems allow them.

`TaskRunner`: validation and run are depth-first walks with an explicit `stack`;
commands of parallel tasks run side by side; `Watch` compares snapshots.

`Loader`: one action per outcome of an import in `loadSource` and `loadImport`:
not found, a bare script, a cycle, passed over, loaded before, loaded now. `calls`
is the Go stack, `merged` the text as items (class, binding, namespace,
script). The files beside the entry are read one after another, each once those
before it have been added (`ReadSibling`, `AddSibling`).

`Builds`: one process per build, one action per file operation: write `main.c`, hash
the runtime's sources, look the key up, compile into a directory of its own,
rename it, link. Sources are edited, objects vanish, `tya clean` runs, builds are
killed. `Toolchain`: a loaded program is built.

### Language

`Syntax` is the tree, `Layout` the formatter's lines, `Parser` the layout tokens
and the recursive descent. `Checker` has scopes, kinds and the strict pass;
`Evaluator` runs the tree; `Codegen` emits C, and `CMachine` runs it on raise frames
named by the block they live in, so that a jump into a dead one is seen.
`Classes` are the checker's rules for classes and interfaces, `ClassTables` the
methods the generator emits, `ClassMeaning` what `docs/SPEC.md` says a call means,
`ClassText` the text of declarations with what the formatter drops of `self` and
`Self`. `Lint` is `tya lint --fix`, `Rename` the language server's rename.
`Language` walks a program through all of these. These modules use RECURSIVE
operators over trees.

## 3. What is checked

The MC modules hold the instances. Deadlock is checked except where programs or
commands end by themselves (`Packages`, `TaskRunner`, `Loader`, `Language` and their
violation runs).

| run | instance | shows |
|---|---|---|
| `Scheduler` | tasks `a1`, `a2` may await `b1`; everybody cancels, all raise; one clock tick | one place per task, whoever is parked in await is linked to what it awaits; await returns only for a task that is done, in a task and in the main program; ready tasks run, sleepers and waiters resume |
| `ChannelTasks` | three tasks, one channel of capacity 1, three sends, the main program may close | nobody is stranded, nil means closed, the channel is a queue, close wakes everybody |
| `ChannelCalls` | one task and the main program, two channels, every call, two sends, one tick | a task is on one list of one channel; no value is duplicated and only a close loses values |
| `Scopes` | tasks `a1`, `b1`, two nested scopes of the main program, one may be left by `return`, all raise, one tick; 1,893,646 states | leaving a scope joins its tasks and re-raises the first raise in spawn order; a raising body cancels them; the chain leads to live scopes |
| `LanguageServer` | two files, one openable, three versions, texts of two bytes, two messages in the pipe; 853,659 states | documents and diagnostics agree with the buffers once the server has caught up; no answer uses an older text |
| `Packages` | two git packages and a directory, three commands, pushes, deletions, crashes; 318,954 states | what is imported is the locked commit; the lock is closed; an install satisfies the manifest and keeps a lock that does |
| `TaskRunner` | 96 graphs of three tasks, shared, circular or unknown; two edits; one task parallel; 12,331 states | the verdict on a graph, order, exit code, every edit is followed by a run |
| `Loader` | 9,576 programs of an entry, a script, a class file, a class file beside the entry and a package around it; then three builds by two processes with two edits, losses or cleans; 256,884 states | cycles, the merged program, the cache, builds |
| `Language` | thousands of programs of `try`, `finally`, control flow as a value, closures, blocks, classes and interfaces; loops of three turns | the ten properties of the language's roads, below |

Three tasks are the least with which a waiter list has an inner link and another
task can come between; three sends on a channel of capacity 1 fill it and block two
senders; two scopes nest. The entry, a script and a class file already form
cycles of three with and without the entry, and the package around the sibling is
a second way to one class. Two versions of two packages are what an update, a downgrade
and a closed lock need. The theorems of section 4 cover all sizes of these
parts. `Language` has no theorem; its programs put each construct inside each other one
once, and jumps, captures and names are decided construct by construct.

The `Language` properties: `Agree` (compiled program and evaluator print and
end alike), `AcceptedSound` (an accepted program reads no name without value and its
C compiles), `ChainWhole` (every raise frame is popped), `MethodsResolve`,
`CallsAnswered` (the method meant by the specification runs, with its number of
arguments), `FormatReads`, `FormatKeeps`, `FormatResolves` (formatted text parses,
means the same and its names resolve to the same members), `RenameKeeps`, `FixKeeps`.
Programs on which the code is known to differ (section 5) are outside these
properties' guards or not among the programs; the guards are written in the properties.

**Fairness.** `Scheduler` and `Channel`: one thread runs, so somebody always goes on:
weak fairness of all tasks' steps together, of the main program's together, and
of the clock. No fairness between tasks is assumed. `Packages`: a command once
started goes on. `TaskRunner`: validation, run and watching go on. Nothing is assumed
elsewhere. A task that computes for ever without a runtime call is not modelled.

**Where the code disagrees with what is written about it.**

| run | property | what happens |
|---|---|---|
| `ChainEarly` | `AwaitReturnsDone` | `a1` awaits `a2`, which awaits `b1`: `a1` hangs on the link that `a2` takes into the list of `b1`; when `b1` ends `a1` is woken and gets nil for a task that is alive (`docs/SPEC.md:1034`) |
| `FinallySkipped` | `FinallyAlwaysRuns` | a `return` in a `try` leaves it compiled without running `finally` (`docs/SPEC.md:1203`) |
| `UpdateBreaksLock` | `LockedVerifies` | a package resolved again at the same version keeps its copy while the lock file gets the checksum of the clone; every import then fails (`docs/v0.26/SPEC.md:193`) |

## 4. What is proved

Every property of a passing run is a theorem, except those named at the end of
this section. The theorems hold for every value of the constants that satisfies
the named assumption of the module. `ListFacts` has what all proofs need of lists (append,
take the head, insert, remove, order) and three facts in place of the
library's induction theorems, which the provers cannot use: `LeastNat` (a set of
naturals that is not empty has a least member), `Induction` over a set, and `Recursion`
(a recursive function on an initial segment of the naturals exists).

**Scheduler** (`SchedulerProofs`; every await relation, chains and circles included).
`Invariance`, `TypeCorrect`, `OnePlaceCorrect`, `SleepersSortedCorrect`. `OnePlace` is not inductive. That a woken waiter is on no
other list needs that only parked tasks are linked, each from one place
(`LinkInv`); that a task which is enqueued is not done, asleep or running needs what
its program counter says about its place (`PcInv`); that a task which switches out
comes back to the main program needs that no other activation is live
(`ControlInv`, which holds because in `Scheduler` only the main program drives; a task
that does so on its own fiber is outside, section 5). `IInv` is their conjunction with types and lists.

Under `Flat` (no task both awaits and is awaited; `ChainEarly` shows why):
`AwaitersLinkedCorrect`, `AwaitReturnsDoneCorrect`, `MainAwaitReturnsDoneCorrect`.
The invariant adds that a resumed waiter's task is done, that the tasks on a list
all await the one it starts at, and that every parked task is reachable on the
right list. Reachability is not defined by recursion but as membership in every set
closed under `next_waiter`: what a step takes off a list is added to an arbitrary
closed set of the new state, which is then closed in the old one. The main
program's await gives up only when nothing is ready and nobody sleeps; then every
task that is alive is parked and awaits one that is, against `Flat`.

**Channels** (`ChannelProofs`). `ChanInvariance`, `ChanOnePlaceCorrect`,
`AccountedCorrect`, `ReceiveNilCorrect` hold for every program, `select` inside
tasks included. The invariant says where a task is in each stage of a call, that
the channel's lists hold exactly the parked tasks, what an answer has put into a
task's fields, and that the values stored, blocked, answered and handed out are
each accepted value once. Every action is first shown to be one of a few deeds
on a channel (store, take, hand over, park, let a sender in, close), and the
invariant is proved deed by deed.

Under `Orderly` (no timed receive, and no send of the main program):
`NobodyStrandedCorrect`, and `QueueCorrect`, that every channel implements
`FifoQueue`. Without it both fail in the code: a timed receive does not let a blocked
sender in, so that a later send overtakes it; the main program, after waiting for room,
stores its value although the only receiver has parked itself.

**Scopes** (`ScopesProofs`). `ScopesInvariance`, `ChainLiveCorrect`,
`BodyRaiseCancelsCorrect`, `ScopeJoinsCorrect`, `ScopeReraisesCorrect`, under `Flat`
and `MainScopes` (only the main program enters scopes: the chain is shared by all
fibers, and scopes of two tasks that overlap take each other's tasks). The
invariant: the chain is the stack of blocks, every task is registered or done, a
join has passed only tasks that are done, and keeps the first of them that raised.

**Loader and builds** (`ToolchainProofs`). `CycleFoundCorrect`: a program with a cycle
of imports is never loaded to its end, and only a program with one is rejected for it.
`LoadInv`: each call loads a unit of its own, which the call before imports
(`CallsInv`); what a call must import is loaded or still on its agenda (`Pending`);
loaded units loaded their imports before, so that no loaded unit reaches itself
(`NoLoops`). That a repeated unit closes a cycle follows the calls by `Induction`.
`WellFormedCorrect`: if all importers agree on a name for each class, the merged program
defines every class once, before it is bound and after what its unit imports, and
creates every namespace once. Its invariant is about the text merged so far
(`TextInv`): what defines is the loaded units and siblings, each once, under a name
that some import gives (`Once`, `Full`, `Sourced`, `Named`), namespaces and bindings are in
place (`SpacesMade`, `BoundAfter`), units are in order (`InOrder`), and the siblings
still on the agenda are not written yet (`Awaited`). The importers that count are
those of the units loaded or being loaded: there are more of them after each step,
so that agreement at the end is agreement all along. When a module ends, what its
package renames in the source of its imports is nothing (`WrappedFirst`), since a bare
class has a name of its own.
`LoadsImportsCorrect`: a program that is loaded has loaded everything that the entry
imports, directly or not, and no program loads what neither the entry nor a class file
beside it leads to (an import of such a class file may be passed over, so that only
the entry's count for the first half). This one no run checks.
`ToolchainBuilds`: whatever is loaded, the builds are those of `Builds`;
`CacheIsSound`: objects found under a key were compiled from the sources hashed,
unless one was edited in between; `AloneSucceeds`: a build that nothing comes
across succeeds, and its binary is of its own program.

**Packages** (`PackagesProofs`). `LockIsClosed`, `ImportsAreLocked`, `InstallsKeepLock`,
`InstallsSatisfy`, with an invariant about the world, the command in progress,
the lock, and what a command that may still be killed has left. `CompareOrders`,
`CaretMeans`, `TildeMeans` are about versions.

**Task runner** (`TaskRunnerProofs`). `TasksInOrder`, `GraphVerdictCorrect`,
`ExitTellsAllCorrect`, for graphs of any size. The invariant follows both walks: what is
visited and off the stack has all it needs visited, and the stack is a path.

**Language server** (`LanguageServerProofs`). `AnswersUseBuffersCorrect`; and under
`OneByte` (every text has characters of one byte) `InSyncCorrect`: applying
the messages in the pipe to the server's text gives the editor's buffer, by
`PositionRoundTrip`, that a position denotes the offset it was made from. Without
`OneByte` it fails in the code: the server counts bytes, the editor UTF-16 units.

**Only model-checked.** Liveness (`TasksGoOn`, `CloseWakes`, `CommandsEnd`, `EditsRun`),
which is out of the prover's reach. The ten properties of `Language`, whose modules
are recursive over syntax trees: no backend follows RECURSIVE operators, and what
they compute for every tree needs induction over data. The assertions of the violation
runs fail by design.

## 5. Seen while modelling

Divergences for which no run is kept, by the code they are in. Those marked (r)
were reproduced by programs against the C runtime.

*Runtime.* `receive_timeout` lets a later send overtake a blocked one (r). A
send of the main program strands a parked receiver and the next one spins for ever
(r). `receive` in the main program returns nil on an open channel while the sender
sleeps (r). A scope, or a `select` with another task ready, in a task runs the
scheduler on top of its fiber, which later jumps into a dead frame (r). A task that raises
does not cancel the sibling being waited for (r). `select` in the main program
never wakes sleepers. Overlapping scopes of two tasks share the chain. `return`
out of a scope leaves `tya_current_scope` dangling and tasks unjoined. A chain of
awaits may make the main program's await give up. A wait on a wait group runs
ready tasks and then blocks the thread for good, also when only sleepers remain;
a mutex held by another fiber blocks the only thread.

*Exceptions.* `finally` is skipped when a `try` or `catch` is left by return, break,
continue or a raise in `catch`, and runs twice when it raises; break and continue
inside `try` or `scope` leave a frame on the chain; return pops frames before it
evaluates its expression.

*Compiled and evaluated programs differ.* Closures capture values when compiled and
environments when evaluated, so that a local recursive function captures nil
(`docs/SPEC.md:812`, 851); operands that print or are control flow are hoisted
(916); what a statement that is no call would print is dropped; a body that ends in an assignment,
`try` or nested control flow has another value; kinds are checked at run time by
the evaluator only, which has no scopes, inheritance or interfaces and evaluates field
initialisers once per class. A name first assigned in a scope block is undeclared C.

*Classes.* Subclasses do not get the interface defaults, fields and initialisers of their
parent's interfaces, which the checker accepts; a parent declared after its child
gives it nothing; super to a default of a parent's interface is nil; a method with
the name of a parent's private one replaces it unchecked; defaults that replace
inherited methods are not checked for arity; nested blocks hide super from the
checker; constructing a class of an inheritance circle hangs the checker.

*Formatter.* Members are sorted by name, which changes the order of initialisers
(`docs/SPEC.md:579`). `self.m()`, `Self.m()` and `C.m()` become `m()` even where a
local or a top-level name is meant then; `Self.MAX` of an inherited constant becomes an
undefined name. Defaults of parameters of interface methods are dropped. A tail
`return` is dropped also where it gives the function its value. Statements that
begin with `-` or `(` join the line before. `(a+b) << c` and the like, function
literals and wrapped operands lose parentheses; `x ??= if` is written with `=`.
Comments of several statements are lost. Too long tail returns are not stable.

*Linter.* An assignment in a nested block to an outer name is reported as unused and
deleted, as are names read only in control-flow values, scopes, `spawn`, `await`,
interpolations or before their definition (`docs/lint.md:31-35`), with the side effects of
the right-hand side; blocks are emptied, `else` lines orphaned; an unused catch name that begins a
line deletes the whole block (prefix match).

*Rename.* Loop and catch variables are not renamed, nor names in control-flow values,
scopes, `spawn` and `await`; conflicts are looked for only among top-level
functions and direct body statements; renaming a function renames locals of its name.

*Language server.* Positions are counted in bytes.

*Loader.* A class file imported under two namespaces by two files is merged under the
first only (`internal/runner/runner.go:351`); a package and a member of it both imported define the class twice; a
sibling imported under an alias by another sibling is emitted twice; no sibling is found if
one of them is a script (1013-1017); import blocks do not count as top-level imports; an import of
a sibling whose name is visible is not followed (555-557). These are what `Agreed`
excludes. *Builds.* Two builds in a project share `main.c`; a runtime source edited between
hashing and compiling is cached under the old key; removing a partial cache
directory may remove another build's fresh one.

*Packages.* Two commands share a clone (`internal/pkg/source.go:49`);
`satisfiesDependency` ignores tag and constraint (`lockfile.go:151`). *Task runner.* A
failing run ends watch mode, a changed `tya.toml` is not read again, and a line above 1 MiB stops
the output (`cmd/tya/task.go:477`).

## 6. Not modelled, and why

Mutexes, atomic integers and wait groups take one step each on the only thread; no
other interleaving exists. The garbage collector scans C stacks
conservatively: what it finds depends on the C compiler. Collections, regular
expressions, digests and compression are sequential computations over data. I/O
is one system call each; the HTTP server handles one request after another in
blocking calls. Coverage, documentation and diagnostics produce text. The
standard library is thin; the self-hosted compiler repeats the Go one; the command
line handles flags and files.

Inside modelled components: results of tasks except whether they were raised,
allocation of stacks, fields that are never read; characters, numbers and strings
of the lexer; comments, wrapped literals and the formatter's pass for what has
no tree; the types of literals and naming rules; builtins and collections; the texts
of `tya.toml`, `tya.lock` and commands (a killed command leaves the whole lock file or an
empty one, never a part, as a full disk might); the rewriting of text by the loader; wasm and
cross builds, and the cache directory used when the user's cannot be made.
