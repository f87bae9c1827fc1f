# Verification of the Xiao runtime and its shared files

TLA+ modules, TLC configurations and TLAPS proofs about the places of the Xiao
language where threads or processes meet: the task pools, the close protocol of a
runtime, the lock of shared objects, the lock files that keep the tool's processes
apart, the package operations on configuration, lockfile and environments, and
the cache of compiled modules. Paths below are relative to `src/`; `scheduler.rs`
and `concurrency.rs` are those of `core/rust/crates/xiao-runtime/src`.

## 1. The system

Xiao is a compiler, a virtual machine and a package tool (Rust, some thirty
crates under `core/rust/crates`) with a command line in TypeScript (`cli/ts`).
Most of it is sequential: source goes through lexer, parser, type checker,
lifetime analysis, IR, bytecode or LLVM text. What is hard to test is where
threads or processes meet.

| Part | State it keeps | Operations | Meets | What is hard |
|---|---|---|---|---|
| task pool (`scheduler.rs`) | bounded queue, closed flags, leases, one-slot result channels | `submit*`, worker loop, cancel hooks, `wait`, `shutdown` | runtime, tokens | one condition variable for all kinds of waiters, cancellation against insertion, who answers |
| runtime close (`scheduler.rs`) | gate, list of pools, active and closing counts, worker handles | `close`, `shutdown`, `create`, `spawn` | pools, activities that call it themselves | joins in both directions, a close inside a close, pools created meanwhile |
| shared lock (`concurrency.rs`) | word in the object header, weak registry of condition variables | `lock`, `lock_with_cancel`, `lock_owned`, guard drop | tokens, host interrupt | lost wakeups, a waiters bit set late, condition variables that come and go |
| tokens (`concurrency.rs`) | flag, registered waiters, hooks | `cancel`, `register_cancel_hook` | pool, lock | store, collect and notify are separate steps |
| shared handles (`concurrency.rs`) | strong and weak counts, payload | clone, downgrade, upgrade, drop | lock | upgrade against the last drop |
| thread handles, reaper (`scheduler.rs`, `vm_concurrency.rs`) | reaper threads, queue, reports | `join`, `detach`, report | runtime | reaper blocked for ever, late reports |
| VM boundary (`xiao-vm`) | boundary copies, child events | spawn and submit from bytecode | pool | who releases what was copied |
| entry lock (`xiao-lock`) | one file | `acquire`, recovery, drop | all caches and package operations | crash between two file-system calls, two recoveries at once |
| package operations (`xiao-package`) | `config.xiao`, lockfile, environment, snapshots | sync, install, lock, update, edit with rollback | entry lock, driver | crash between two replacements, editors, environments shared by projects |
| artifact store (`xiao-artifacts`, `xiao-driver`) | objects, global index, archives | put, read, upsert, build, clean, rebuild | entry lock | stale plan, damaged objects, index read without its lock |
| driver and client (`xiao-driver`, `cli/ts`) | requests in flight | frames over a pipe | each other | late answers, death of the driver |

The rest (front end, types, IR, optimizer, bytecode, code generator, resolvers,
archives, configuration, diagnostics, intrinsics) computes a result from its
input on one thread. `PROJECT.json` lists every part with its status.

How they interact: a task is submitted with the token of its execution context.
The submission takes an *activity lease* from the runtime and a *submission
lease* from the pool, and registers a hook with the token. The message waits in
the queue, is claimed by a worker, or is removed by the hook of a cancel. `close`
refuses new activities, closes the queues, joins the workers, and waits until
nothing is active except activities that are closing themselves. Guards of
shared objects are taken by tasks and threads with the same tokens. The entry
lock, the package operations and the artifact store share nothing with the
runtime: their actors are processes, which meet in files. Package operations of one
project and the writers of an index exclude each other by an entry lock; editors
and other projects do not take part in it.

What makes them correct, in one line each:

- pool: bounded, first in first out, one answer for each admitted task, nothing
  admitted after the close, every cancelled task out of the queue, no wakeup lost,
  leases counted exactly;
- close: returns, leaves nothing running behind but other callers, never two
  activities waiting for each other;
- shared lock: one owner, nobody asleep without reason, a cancelled or
  interrupted acquisition returns;
- entry lock: one owner, nothing left behind but by the dead, acquisitions end;
- package operations: the lockfile describes the configuration, the environment
  the lockfile, whatever fails or dies in between; nobody's text and nobody's
  mapping is overwritten unread;
- artifact store: a record names an object that was stored, builds do not lose each
  other's records, a cleanup spares what it was told to, damage is not used.

## 2. Modules

| Module | Models | Proofs |
|---|---|---|
| `PoolContract` | abstract pool: what callers are promised | |
| `LockContract` | abstract lock: what those that lock are promised | |
| `PoolQueue` | one pool with its threads, mutex, condition variable, hooks and counters | `PoolQueue_proofs` |
| `TaskHandle` | the handles of accepted tasks beside that pool: waits, interrupts, the detached reapers | `TaskHandle_proofs` |
| `RuntimeClose` | several pools, activities and callers around `close_inner` and `shutdown_inner`, over the abstract queue of the contract | `RuntimeClose_proofs`, `RuntimeClose_pools` |
| `SharedLock` | the lock of one shared object with its tokens | `SharedLock_proofs` |
| `EntryLock` | one lock file and the processes that want it | `EntryLock_proofs` |
| `PackageOps` | sync, install, lock, update and the dependency edit of several projects, with failures, deaths and an editor | `PackageOps_proofs` |
| `ArtifactCache` | object store, global index, archives and the requests that build, clean and rebuild | `ArtifactCache_proofs` |
| `MC*` | constants for TLC, nothing else | |

In every module a block of definitions marked "Defect" holds the code with one
plausible mistake. They are used by nothing; each is what some property is
expected to notice, and `PROJECT.json` ("mutants") says which.

### 2.1 PoolQueue

A `Task` is one call of `submit_policy`: the thread that makes it, the message it
builds and the handle it returns. `queue`, `closed`, `parked` are
`PoolQueueState` and the threads blocked on its condition variable; `active` and
`pending` are `RuntimeInner.active` and `PoolInner.pending_submissions`; `submit`
and `message` are the program counters of a submission and of its message;
`scan` and `cancelling` those of `LockCancellation::cancel`.

Steps are cut where another thread can get in between. The mutex of the queue
makes most of them one step; it is visible (`lock`) only where the code reads a
flag that others write without it: between the insertion and the second look at
the token (`Push`, `Recheck`). `notify_one` picks any parked thread, submitter or
worker. `wait_timeout(2ms)` of a submitter may end at any time
(`SubmitTimeout`), `wait` of a worker may wake without cause (`SpuriousWakeup`).
A host interrupt is a closure the submission asks beside its token: `Interrupt` is the
answer that it has fired, possible whenever it is asked (`Stop`).
What a message does when it is removed (drop of the closure, then of the lease,
then the send) stays separate, because `shutdown` counts the lease.

What its holder does with a handle is in `TaskHandle`, which EXTENDS `PoolQueue`: every
step is one of the pool's that leaves the handles alone, or a step of a handle.
`handle` says where each stands (held, waiting, asking for a cancel, settled, listed
for the reapers, being reaped), `reapQueue` is the channel of `detached_reaper`. An
interrupted waiter makes the cancel itself (`Ask` is `CancelStore` of its token), lets
it run to its end (`Asked`) and goes back to receiving, as `wait_interruptible_inner`
does; whether the answer is the value or 027 is not told apart. The interrupt may come
before or after the result. Handles are waited for or given to the reapers: that is
what the VM's and the native values do when they are dropped. A bare Rust `TaskHandle`
that is dropped would lose its hook, and its task would stay queued after a cancel.

`StartHelpers` starts any of the helpers: a thread that cannot be created is skipped,
and the drain by the closer itself, which then comes in its place, is one of them.
`Receive` knows a result and a time limit, but no disconnected channel: each message
sends exactly one result before it lets its sender go (`ResultsSentOnce`, `AnswersAll`).

Not in it: a panic while a lock is held (poisoning).

`PoolContract` has no threads: tasks are admitted up to the capacity while the
pool is open, started in order, revoked while they wait, answered once.
`ImplementsContract` maps a message of `PoolQueue` to its phase. A message
refused before insertion maps to "new": it has never been there.

### 2.2 RuntimeClose

Callers are external threads and activities (tasks, spawned threads); each may
call `close`, `shutdown` of any pool or `create` at any point of its body, up to
`MaxCalls` times. A call is walked through as the code has it: register in
`closing_threads` (`EnterClosing`), choose the role under `close_gate`
(`ChooseRole`: owner, passive follower, or return at once), take the pools one by
one (`NextPool`), and for each: raise the closed flag (`CloseQueue`), wait for
pending submissions, start helpers if the caller is a worker of this very pool,
join the workers one by one skipping its own and those already closing
(`JoinNext` takes one look, `Joined` blocks), wait for helpers. The owner then
waits for `active <= closing` and finishes.

The queue is PoolQueue's contract cut down to admission, start and answer, which
`Contract(p)` says of each pool; a task
removed by a cancellation is not in this module (PoolQueue shows that its lease
is released on every path, which is all that `close` depends on). One runtime;
child runtimes and `TaskPool::drop` are left to later work.

A spawned thread may fail to start (`StartThread`), and so may a worker while a pool is
created: `Register` then closes the new pool and joins the workers, as it does when
the runtime refuses it. Helpers can always be created here. If the first one could not,
the caller would run the queued tasks on its own thread, one inside the other;
section 6 says what that does to the counts.

### 2.3 SharedLock

`word` is `SharedHeader.lock_state` ("stray" is the waiters bit alone), `registry`
the entry for this object in the map of weak `LockWaiters`. Instances are
numbered (*generations*), `gen[t]` is the Arc thread `t` has. The gate is not a
variable: it is held by a thread between `EnterGate` and `Try` or `Park`. CAS and
`fetch_or` are separate steps under it; the release needs it, and the cancellation
flag can rise at any time. `registered`, `collected` and `cancelling` are a
token's list of weak entries and the course of `cancel`. The hooks `cancel` runs
after its waiters are PoolQueue's subject. A thread takes one guard at a time:
whether a thread that locks the same object twice should wait for itself is not
asked. `MaxGen` bounds how many generations a behaviour sees.

`LockContract` has no word, gate or condition variable: a client asks, is let in
while nobody else is inside, or is sent away for a reason of its own, and leaves.
`ImplementsLock` maps a thread to its place ("in" while it has the guard) and excuses
it once its token is cancelled or its host has interrupted it.

### 2.4 EntryLock

Each action is one file-system call of one process: exclusive creation, write,
first read, verdict, second read, removal, and for the release comparison and
removal. A process may die before any step (`Crash`), calls may fail
(`WriteFails`, `AcquireFails`, `CleanupFails`), a process may be found late
(`Expire`) at any time. The content is a record (creator, number, complete); two
incomplete contents are equal, as empty or half-written bytes may be. The age of
a file is not a number: any file at the path may be old when it is looked at.
Process identifiers are not used again and a process makes one acquisition at a
time.

`mishaps` is a history variable for the properties: "overlap" (a verdict while
another recovery stands between verdict and removal), "slow" (a file in use is
judged old), "leak" (an ignored clean-up error).

The same `LockContract` is mapped here with two differences: everybody is excused, as
any call may fail, and the lock *lapses* with the first overlap or slow owner, after
which it promises to let in, but not one at a time. A process that dies is "gone".

### 2.5 PackageOps

`config` and `source` are a project's `config.xiao` and the rest of its tree,
`lockFile` its `xiao.lock.json`, `env` the metadata of an environment ("Bare" is a
directory without metadata), `holder` the operation lock of a project. A request
is walked through one read or write of a file at a time, in the order of
`apply_packages` (`CheckDocument`, `ResolveGraph`, `ReadLock`, `CompareLock` or
`BuildLock` and `WriteLock`, `Materialize`, `FindEnvironment`, `CreateDirectory`
and `CreateMetadata` or `ReadMetadata` and `UpdateMetadata`) and of
`apply_dependency_edit` (`ResolveEdit`, `CompareConfig`, `ReplaceConfig`,
`BuildLock`, `RecheckConfig`, `WriteLock`, and the rollback: `CompareConfig`,
`RestoreConfig`). `atomic_write_file` is one step, as the staging file is renamed
into place. A comparison that does not hold leaves the process with nothing but
`Fail`, which may also come at any other moment, because every step is a file
operation that can fail. `Crash` ends a process without a rollback and without
a clean-up. `Editor` changes a file at any moment and takes no lock.

A package graph is named by the configuration it was resolved from, and the root
package stands for the graph: an environment maps a project to the digest of its
tree. What is kept of the three reads of `config.xiao` (by the command line, by
the driver under the lock, by the resolver) and of the two imports of the tree
(for the lockfile, for the environment) is when they happen, which is
what the properties are about. Remote packages, the object cache and the digest of
snapshots are not in it. `--locked` and `--frozen` differ in wording only and are one
kind. The operation lock is ideal here; `EntryLock` is the module about it, and
`OperationLock(p)` is `LockContract` as the requests of project `p` use it.

History variables, read by properties only: `disturbed` (projects an editor has
changed, or an edit has left apart by dying or by losing its rollback, since the
last lockfile made or matched from start to end), `fresh` (processes that hold an
undisturbed project), `raced` (a file was written by another since this process
read it), `abandoned` (an environment whose creator died, or could not remove the directory
whose metadata it had failed to write: the code ignores that failure).

### 2.6 ArtifactCache

`object` is the state of the file of each digest (never stored, good, damaged,
isolated in quarantine, removed), `index` the keys `global.index.pb` has a record
for, `archive` the modules packed in each written archive, `maintenance` and `indexing`
the two lock files. A build reads the index once and without its lock (`ReadIndex`),
takes a recorded module for a hit (`CachedModule`), stores and reads every module
(`Put`, `ReadObject`, `IsolateObject`), merges its records under the index lock
(`BeginUpsert`, `CommitUpsert`) and writes the archive last (`Publish`). A clean
reads the archives it was told of one after the other (`ReadArchive`), scans the store
without a lock (`PlanCleanup`), reads the archives once more (`Recollected` when it
has), then takes `maintenance.lock` and works off its plan path by path
(`EnterMaintenance`, `Sweep`). The scan is one step: what has changed since is met by the
second look at each path. A rebuild scans, isolates, and replaces the index
by one whose keys name objects (`Scan`, `WriteRebuilt`); no such key is ever a
build's, so that for builds it is an empty index. `Put` holds `maintenance.lock`
for one step: nothing it does before the final rename is visible to others.

A key stands for everything a module is compiled from, so that the digest is a
function of it. An archive does not hold the cached objects: `add_xiaoc` decodes each
and encodes it again without debug symbols and source, and the archive's index has the
digest of the new bytes (`ArchivedDigest`). A release module has nothing to leave out
and comes out byte for byte as it went in; this is an assumption about the encoder,
which is deterministic and writes a release module with default options only. A module
with debug symbols (`Debug`) comes out under a digest no cached object has
(`StrippedOf`). A build compiles all its modules with debug symbols or none. Told of
no source a clean protects everything; of the three kinds of sources only archives are
modelled. The disk may damage an object (`Damage`), and any request may fail or die at
any moment (`Fail`), which releases its locks.
History: `recorded` (keys committed since the last rebuild) and `late` (archives
written since a process last read them). `CacheLock(lock)` is `LockContract`
as the two locks are used; a put and the end of a rebuild hold theirs for one step,
which it does not see, so `BriefHoldersAlone` says what that step excludes.

## 3. What is checked

| Run | Instance | Properties |
|---|---|---|
| `pool_safety` | 3 tasks, one token, 2 workers, 1 helper, capacity 2, symmetry | exact counters, no lost wakeup (two halves), no stranded message, refused never runs, refinement of the contract, drained queue only shrinks |
| `pool_live` | 2 tasks, 1 worker, 1 reaper, capacity 1; one task cooperative and waited for with an interrupt, one submitted with a host interrupt and detached | a settled handle's task is over; if the workers run, every admitted task is answered, every submission returns and every wait and reap ends; even if they hang, a cancel frees the slot, an interrupt ends the wait for an unclaimed task and a close releases blocked submitters |
| `close_cross` | 2 pools, 3 tasks, 1 external thread, every mix of calls | no circle of waiters, finished means quiet, first shutdown drains, one known standstill and no other |
| `close_live` | a task, a spawned thread, an external thread, a pool created at any time | no usable pool left open, calls return, everything ends |
| `lock_shared` | 3 threads (2 share a token, 1 has none), 3 generations | word exact, one condition variable, no lost wakeup at release and at cancellation, refinement of the lock contract, cancelled and interrupted acquisitions return |
| `lock_contend` | 3 processes, one locks twice | exclusive unless recoveries overlap, nothing abandoned, acquisitions end |
| `package_safety` | 2 processes, 2 projects sharing the global environment, sync, install, lock, edit, 3 requests, one change by an editor, symmetry | lockfile follows configuration, environment follows lockfile, lockfile changes only for requests that resolve, edits replace what they compared, other projects' mappings kept, no bare directory but after a crash or a removal that failed |
| `artifact_upkeep` | 2 processes, 2 release modules and one with debug symbols, one archive, 3 requests, one damaged object | committed records kept, records name stored objects, release modules of declared archives survive a clean, every request ends |
| `close_stands`, `close_shutdown`, `lock_recover`, `artifact_isolated` | small instances of the above | four sentences of documents and tests that the code does not keep (section 6) |

Bounds. Two workers and three tasks are the least at which a `notify_one` can
reach the wrong thread while a second worker sleeps and a submitter waits; a
capacity of one or two makes a full queue ordinary. Two pools with a task in each
and one more are the least for two tasks that shut down each other's pool while a
third is queued behind one of them; a longer circle would need three pools, and
the theorem `NoDeadlock` covers it. `MaxCalls = 1` lets every caller make one
call: calls of one caller are sequential and leave no state but flags that the
calls of others set as well. The symmetry of `pool_safety` permutes tasks and
workers, which its constants do not tell apart; the runs with liveness use none.
Three processes are two recoverers and the owner that dies; the second acquisition
gives a process that has lost its file by mistake the chance to meet its next one.
Three generations let a token's list hold a dead entry beside a live one.
In `package_safety` two configurations and two trees let every comparison fail, two
projects are the least for a shared environment, and three requests let one fail,
one die and one be served, or two race and a third come after them; the global
environment is the only target, as it is the one that two projects write. Kinds that
take the same path (`--locked` beside `install`, `--keep-extra` beside `sync` and
`install`, `update` beside `sync`) are left to the theorems, which cover them all. In
`artifact_upkeep` three requests let a build, a clean and a second build or a
rebuild overlap, with an archive that is replaced between the two times it is read. The
same instance with two archives was checked once (1,151,014 states).
The runs switch deadlock checking off because a system in which everything has
been submitted, closed and answered stops.

Fairness. Each thread goes on with the call it is in (weak fairness of its steps)
and a task body returns; the condition variable's time limits end
(`SubmitTimeout` is part of the submitting thread). Nobody has to submit, to cancel,
to close, to interrupt, to lock or to release. The workers' fairness is an antecedent
(`WorkersRun`) of what needs it in `pool_live` (`AnswersAll`, `SubmitReturns`, the
second half of `HandlesSettle`), so that the rest holds with workers that hang.
Waits and reapers go on once they can; nobody has to wait or to detach. In `SharedLock` threads compete for the gate again and again, so
taking it has strong fairness: a mutex that is free infinitely often is obtained,
which every mutex the standard library uses gives in practice and weak fairness
would not. The 5 ms time limit has no fairness there, so `CancelReturns` holds by
notification alone; `InterruptReturns` adds it as an antecedent, because an
interrupt notifies nobody. `EntryLock` has fairness for the steps of an acquisition
and for the clock, none for release, death or failures. In `ArtifactCache` a process
that has begun a request goes on with it; requests, failures and damage are not fair.
`PackageOps` has no liveness: its requests neither wait for each other, but for the one
lock at their beginning, nor repeat anything.

Two facts met on the way that no property states: the second look at the token
after the insertion (`Recheck`) is needed only for a host interrupt, since the
hook registered before is enough for a cancellation; and since `LOCK_WAIT` (30 s)
is shorter than `INCOMPLETE_LOCK_GRACE` (60 s), a process that meets a fresh
incomplete lock gives up before it may recover it, and only a later one does.

## 4. What is proved

TLAPS proves the following for every value of the constants that satisfies the
named assumption of the module (finite sets of tasks and workers, disjoint kinds
of threads, a positive capacity; in `EntryLock` and `SharedLock` the sets of
processes, threads and tokens need not even be finite).

**PoolQueue** (`PoolAssumption`): type correctness, all safety properties of
`pool_safety` including the refinement. They follow from one inductive invariant,
`PoolInv`, a conjunction of named parts:

- `Line`: the queue holds exactly the messages in state "queued", once each, and
  no more than the capacity;
- `Sleepers`, `Stages`, `Refusals`: who may be parked, and which states of a
  submission go with which of its message, its result and its remover;
- `Hooked`: a queued message is in somebody's reach: the recheck's, the
  withdrawal's, or that of a hook which the canceller has still to collect or to
  run. This is what `NoStrandedCancelled` needs and does not say itself;
- `Drained`: after the last pending submission nobody is between the insertion and
  the recheck, in a closed pool;
- `LeasesCounted` and `NoLostWakeup` are inductive with the above. The second
  counts: a push adds a message and wakes a worker or, if it hits a submitter, no
  worker was asleep beside an unattended message, because submitters sleep only
  while the queue is full (`SubmittersSleepOnlyWhenFull`).

The refinement proof maps each action to the step of `PoolContract` it makes or
to a stutter. That a sent result stays (`ResultsSentOnce`) is proved and, as part of
the contract, checked by TLC.

**TaskHandle** (`HandleAssumption`): each step is a step of `PoolQueue` or a stutter, so
that `HandlesRunPool` carries every safety theorem about pools over; `SettledIsOver`
follows from `PoolInv`, from the fact that a sent result stays, and from `HandleInv`
(a settled handle has its result, the line of the reapers has each listed handle once).

**RuntimeClose** (`CloseAssumption`): types, `NoDeadlock` and `FinishedIsQuiet`, from
`CloseInv` = types and `FreshPools` (a pool under creation is empty and has one
creator), `Lives` (queues hold queued activities once; only running ones call) and
`Calling` (past its guard a caller is in `closing`). The argument against circles
has two lemmas. `WaitersClose`: whoever waits for another activity is in `closing`.
`NewWaits`: a step adds a wait for an activity only if that one is outside
`closing` at that moment, because joins and the final comparison skip those inside.
So in any set of activities either one is outside `closing`, and waits for nobody,
or all are inside, no wait within the set is new, and the member that waited for no
other before still does not. That the look of `JoinNext` is stale by the time of the
join does no harm: the activity joined may start to wait later, but not for its
joiner. `OnlyCallersLeft` carries the counting argument of `active <= closing`: the
announced activities are a subset of the leased ones and both are finite, so
the comparison leaves only activities that have called.

`RuntimeClose_pools` adds what has become of the pools. `PoolsOwed`: before the close
each usable pool is registered, afterwards each open one is owed by the one owner, who
is past its loop only when it owes none; this is `FinishedClosesPools`. For
`FirstShutdownDrains`, with `WorkersAssumption` (a pool has a worker): `TasksPlaced`
(a running task has its thread, an exited worker has left an empty queue of a closed
pool, helpers come only after a task has called), `HandlesKept` (the worker handles of
a pool are complete until the one call that closed it takes them) and `WorkersJoined`
(as long as no task of the pool has called, that call skips no worker, so that all
have exited when it is done).

`NothingElseStands` answers what `NoDeadlock` leaves open: activities wait not only for
running ones but, as owner, for queued ones, which no wait-for relation shows. A
*standstill* is a state in which somebody is inside a call and no step of a call, of an
activity or of a thread can be taken; it is a state predicate over the guards of the
steps, because ENABLED cannot be proved about. `NothingMoves` proves that nothing
moves in it; that it leaves no such state out was compared with ENABLED by TLC on the
instance of `close_live` (101,366 states). The theorem: in a standstill an activity owns the close and awaits a task
queued in a pool all of whose workers are inside calls. Beside the parts above it needs
`PendingListed`, `DrainOwned`, `ThreadsThere` and `JoinsClosed` (`shutdown_inner` joins
only existing threads of the pool it has closed). `HeldUp`: a call that cannot go on is
the owner's wait, a follower's, or a join of a thread whose activity is inside a call
too. The activities inside calls do not wait in a circle, so one of them is the owner
(`OwnerAmongThem`); more leases than closers mean an activity outside every closing
path, and the only kind that does not move by itself is queued (`AwaitsQueued`). If
the owner is an external thread there is none of that: the last activity inside a
call would have to be an owner as well.

`PoolsKeepContract`: each pool of the runtime, with all that closes around it, implements
the `PoolContract` that `PoolQueue` implements. `RuntimeClose` may therefore be read as
the runtime over pools of the contract: it assumes no more of them than is shown, and
breaks none of their promises. It follows from `Lives` (what a worker takes is queued, of
its own pool, and queued once); all but the steps of admission, start, end and the raised
flag are stutters.

**SharedLock** (`SharedLockAssumption`): all four invariants of `lock_shared` from
`LockInv`. `ArcsLatest` (every Arc is of the generation in the registry, because a
new one is made only when none is alive) gives `OneCondvar`; `GateExclusive` and
`BesideOwner` (from the failed CAS to the end of the sleep the word cannot become
free, because the release needs the gate) give `LockWordExact` and
`SleepersHaveHolder`; `KnownToToken` and `WillBeNotified` (past the look under the
gate, a raised flag has its collection or its notification still to come) give
`CancelledAwake`.

**EntryLock** (`LockAssumption`): types; `NobodyAbandons` from the invariant `Kept`;
`OverlapIsTheOnlyWay` from `LockInv`: as long as there has been no overlap and no
slow owner, whoever holds the lock is the creator of the file at the path, at most
one recovery is past its verdict, and what it is about to remove is not in use.
Crashes, failing calls and time-outs are all in it: none of them is enough to
break exclusion.

**LockContract** is implemented by both locks (`SharedLockImplements`,
`EntryLockImplements`) and relied on by the two modules whose locks are ideal
(`OperationLockSuffices` for each project, `CacheLocksSuffice` for `maintenance.lock` and
`global.index.lock`): their projections are behaviours of the contract that never lapse.
So what sections 2.5 and 2.6 take for granted of a lock file is what `EntryLock` gives as
long as no two recoveries overlap and no owner in use is judged old; what happens to the
files after that is nobody's theorem. The contract says nothing of waiting: that an
acquisition ends is a property of each lock. For the package operations exclusion comes
from `Owner` (who is past the acquisition is the holder), for the cache from
`InsideHolds`, which is proved from `Orderly`: a request gets in only from the queue of
a free lock, keeps the lock while inside, and takes no other process's. TLC has
checked `ImplementsLock` of `SharedLock` in `lock_shared`; the other mappings and
`PoolsKeepContract` were checked once on the instances of `lock_contend` (195,309 states),
`package_safety` with one project and two requests, `artifact_upkeep` and
`close_cross`, with the parameter written out, because TLC takes no parameterised
instance as a property.

**PackageOps** (`PackageAssumption`): types and all six properties of
`package_safety`, from `PackageInv`. Its parts say what a process has in hand at each
step: whoever is past the acquisition holds the lock of its project and nobody else
does, which makes the steps of one project sequential; a `fresh` process's document,
graph and tree are those on disk; a lockfile of an undisturbed project without an
uncompleted edit is accurate; whoever is between directory and metadata is alone in a
bare environment or the environment is abandoned. The last needs that a directory is
created exclusively (`CreateDirectory` fails if there is one). `EnvironmentFollowsLock`
is inductive only together with the lockfile part, because a sync that resolves makes
the lockfile itself and imports the tree once more for the environment.

**ArtifactCache** (`CacheAssumption`): types and the three safety properties of
`artifact_upkeep`, from `CacheInv`: whoever is between the read and the write of the
index holds `global.index.lock` and has seen every committed record; nothing that
was stored becomes "never" again; what a clean protects once it has its plan covers
what the archives it has read since refer to, but for those in `late`, and at `Sweep` it
has read all it was told of (`Protects`). `SparesDeclaredArchives` concludes that the
object of a release module of such an archive is not removed, because the archive refers
to it by its own digest; it says nothing of modules with debug symbols.

Only model-checked: everything with fairness (no prover for liveness or ENABLED is
used). Every invariant and action property of a passing run has its theorem.

## 5. What is not modelled, and why

Shared handle counts, thread handles, the report channel, the VM boundary, the snapshot
store and the federation cache of packages and the driver's protocol are in reach and
planned (section 7). The front end, the type checker, IR, bytecode and code generation are
pure functions over large inputs; a small instance would say little about them.
Memory, containers and tables belong to one thread. Remote sources and the archive format
are input and output. Poisoned mutexes are left out everywhere: the code treats
them as fatal or falls back to doing nothing.

## 6. Disagreements between documents and code

- `close_stands`: a test and the documents say that the joins of a shutdown and the
  drain of a close never wait for each other. Across two pools of one worker they can:
  a task of P shuts down Q and begins to join Q's worker; the task on that worker then
  calls `close` and becomes the owner. It skips P's worker, which is closing, starts no
  helpers on P, where it does not run, and awaits a second task queued in P, which
  nobody is left to take. Only a cancellation of that task would end it. The test
  has one pool, where the helpers of a closer take the queued tasks.
- `close_shutdown`: the documents say that `shutdown` waits for the submitted tasks
  and that repeating it succeeds in the same way. Only the call that flips the flag
  joins the workers; a second one from another thread returns while tasks are
  queued or running.
- `lock_recover`: `xiao-lock` calls itself the one exclusive lock and says it
  reclaims only provably stale locks. Comparison and removal of a stale lock are two
  calls; of two processes that recover the lock of a dead one, the second can delete
  the lock the first has just created. Both then hold it.
- `artifact_isolated`: the cache document says that damaged objects go into quarantine
  and take no part in hits. Neither isolation nor a cleanup touches the global index:
  the next build with that key takes the record for a hit, cannot read the object and
  fails, and so does every later one until `cache rebuild`.

Not in a run of its own: the documents (22c, D-3) say that an activity which calls
`close` while another owner drains is still awaited as an ordinary activity after its
call. The owner compares the counters once; if that happens while the follower is
inside its call, the close finishes and the follower's body still runs. This is the
exception `calls[a] > 0` of `FinishedOnlyClosersRemain`.

Not a contradiction of any sentence, but worth knowing: operation locks are per
project, while the global environment belongs to all. Two installs of different
projects read, merge and replace its metadata without excluding each other, and the
mapping the first has written can be lost. `ExtrasKeptUnlessRaced` states the exact
window (between `ReadMetadata` and `UpdateMetadata`) and that there is no other.
Likewise a caller of `apply_cleanup` is told to pause builds, and `cache clean` does
not; `DeclaredArchivesSurvive` states what holds all the same.

It holds for release modules only. The index of an archive that was built with debug
symbols has digests the store never has (section 2.6), so that `cache clean --apply`,
told of that archive, removes the very objects it was built from. The records of
these objects stay in the global index, and the next build with debug symbols takes them
for hits and fails, as in `artifact_isolated`.

A shutdown by a task of its own pool that can start no helper runs the queued tasks on its
own thread. `enter_current_thread_closing` then counts for a nested task that closes
in its turn all leases of the thread, the outer one's, already counted, among them. The
closing count is one too high, and an owner may finish beside one activity that
closes nothing. `RuntimeClose` has no such nesting, and its theorems say nothing of it.

## 7. Plan

Order: what the safety of running programs rests on first, then what survives a
crash, then the pipe. Abstract specifications are worth stating where a caller
relies on a promise across components.

1. `PoolQueue` with `PoolContract`, `RuntimeClose`, `EntryLock`, `SharedLock`,
   `TaskHandle`, `PackageOps`, `ArtifactCache`: done, with the runs and theorems above.
   Left in them: aliases of a pool and `TaskPool::drop`; remote packages, snapshots and the federation cache; project locks as references of a
   cleanup.
2. `SharedObject`: strong and weak counts with their CAS loops, upgrade against the
   last release, the guard that keeps the object alive; composed with `SharedLock`.
   Theorem: the payload is dropped once, and never while a guard exists.
3. Thread handles beside the task handles, the report channel with its
   capacity and the 25 ms window of a finished run.
4. `VmBoundary` and `DriverProtocol`: who releases boundary copies; which answer
   belongs to which request after a time-out or a cancellation.
5. Sequential algorithms against a reference definition: version solving, the module
   resolver's cycle detection, escape analysis.
6. Composition: `RuntimeClose` over `PoolContract`, `PackageOps` and `ArtifactCache` over
   `LockContract`: done. Left: what the caches still guarantee once their lock has
   lapsed.
