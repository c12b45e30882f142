# Verification of spawns

TLA+ models of [spawns](https://github.com/kezhuw/spawns), a Rust library that
spawns and joins async tasks without naming a runtime; TLC configurations that
check them on small instances; and theorems about them that TLAPS proves for
every value of the constants.

Run everything from this directory: `tlc -config X.cfg MCX` for a run,
`tlapm XProofs.tla` for the proofs.

## 1. The system

| Component | State | Operations | Where |
|---|---|---|---|
| **Joint / JoinHandle** | `stage`, an atomic (Running, Finished, Detached), always Relaxed; `result`, a mutex-protected cell (Empty, Joining(waker), Finished(outcome), Joined, Detached) | `Joint::wake` by the task; `JoinHandle::poll` and `drop` by the owner | `spawns-core/src/task.rs` 219-254, 562-658 |
| **Cancellation / CancelHandle** | one atomic pointer: null, a boxed `Waker`, or the sentinel CANCELLED; shared through an `Arc` | `is_cancelled` and `update` by the task's poll; `cancel` by any handle; `drop` by the last reference | `task.rs` 344-420, 487-508 |
| **TaskFuture / TaskHandle** | the future (or none, once finished), the spare box; whether the owner has a `JoinHandle` or a `TaskHandle` | `poll`, `finish`, `drop` by the executor; `attach`, `detach`, `cancel`, `drop` by the owner | `task.rs` 280-342, 510-559 |
| **Task ids** | a global counter; the thread-local `RUNNING_ID` | `RawId::next`, `IdFuture::poll`, `IdScope::drop`, `id`, `try_id` | `task.rs` 16-122, 256-278, 660-680 |
| **Task, Name, Builder, JoinError** | plain data | constructors, accessors, formatting | `task.rs` 124-217, 422-485 |
| **Spawner scopes** | the thread-local `SPAWNER`, a `RefCell`; each `SpawnScope` with what it replaced | `enter`, `SpawnScope::drop`, `spawn_with_name` | `spawns-core/src/spawn.rs` |
| **Compat registry** | the link-time slice `COMPATS`; the `OnceLock` with the chosen global spawner | `find_spawn`, `find_local`, `find_global`, `pick_global` | `spawns-core/src/compat.rs` |
| **Compat entries** | none | one adapter each for tokio, smol, async-global-executor | `spawns-compat/src` |
| **Executors** | `LocalPool`; or an `Executor` shared by worker threads and a shutdown token | `block_on`, `Blocking::block_on` | `spawns-executor/src/lib.rs` |
| **Façade, example** | none | re-exports | `spawns/src/lib.rs`, `examples/echo.rs` |

How they interact. `spawn` asks the thread's SPAWNER, or failing that the
compat registry, to run a new `Task`. The `Task` carries a boxed `TaskFuture`
to some executor; the caller keeps a `JoinHandle`. The two share an
`Arc<Joint>`, through which the outcome goes to the owner, and an
`Arc<Cancellation>`, through which a cancel comes from the owner or from any
`CancelHandle`. Executor, owner and cancellers are on different threads, and
nothing but these two structures synchronises them. Both wake wakers: Joint the
owner's, Cancellation the task's.

What is hard.

* Joint reads `stage` with Relaxed loads, outside the mutex, so either side may
  act on a stage older than the cell it then finds. The slow path of `poll`
  takes the outcome and marks the cell joined in two separate critical sections.
* Cancellation is lock-free. Wakers in boxes move between the task, the pointer
  and a canceller; addresses return (ABA); loads may be stale; a cancel may fall
  anywhere in a poll. Every box must be freed once and every cancel must find
  the right waker. All accesses are Relaxed, the publication of a box included.
* A task may be dropped unfinished, its future's destructor may panic, its
  owner may drop the handle at any moment.
* SPAWNER holds a borrow with its lifetime transmuted away, and is borrowed
  while user code runs in `Spawn::spawn`.

What makes each component correct, in words; section 3 gives the properties:

* *Joint*: each outcome goes to the owner exactly once; an owner told to wait is
  woken through its latest waker; no assertion fails; nothing is kept alive for
  a handle that is gone.
* *Cancellation*: each box has one owner; a cancel is final, ends the task, and
  returns.
* *TaskFuture*: a cancel reaches the waiting owner; a task is Cancelled only for
  a reason; dropping a `TaskHandle` ends the task, dropping a `JoinHandle` does
  not.
* *Spawner scopes*: a task goes to the innermost scope's spawner; SPAWNER never
  outlives the borrow behind it; ending a scope never panics.
* *Task ids*: `id()` names the innermost task being polled; ids of running tasks
  differ until the counter has wrapped.
* *Compat registry*: every thread gets the same global spawner, the named one if
  there is one; a thread in a runtime gets that one.
* *Executors*: what is queued is polled or cancelled; workers stop, and every
  task left is cancelled, after the main future returns; nothing enters an
  executor that is being dropped.

## 2. Modules

| Module | What it is |
|---|---|
| `JoinContract` | the promise of a `JoinHandle`: one outcome, sent once, received once, by an owner who waits for it |
| `CancelContract` | the promise of cancelling: it takes effect at one instant and for good, and the task is then due for a poll, which is its last |
| `Joint` | `Joint::wake`, `JoinHandle::poll`, `JoinHandle::drop`; instantiates `JoinContract` with a refinement mapping |
| `Cancellation` | `cancel`, `update`, `is_cancelled`, `drop`, with the part of `TaskFuture::poll` that calls them; instantiates `CancelContract` |
| `TaskFuture` | instantiates `Joint` and `Cancellation` on shared variables: one task with its executor, owner and cancellers |
| `TaskId` | the id counter, `IdFuture::poll`, `IdScope::drop`, `try_id`, on several threads |
| `SpawnScope` | `enter`, `SpawnScope::drop`, `spawn_with_name` on one thread |
| `Compat` | `find_spawn`, `find_local`, `find_global`, `pick_global` over every registry, with the three adapters as entries |
| `BlockingExecutor` | `block_on` and `Blocking::block_on`: the threads, the shutdown token, the end of the executor |
| `MCJoint`, `MCCancellation`, `MCTaskFuture`, `MCTaskId`, `MCSpawnScope`, `MCCompat`, `MCBlockingExecutor` | instances for TLC |
| `BoundedSets` | two lemmas: a finite range of numbers has a least and a greatest member |
| `JointProofs`, `CancellationProofs`, `TaskFutureProofs`, `TaskIdProofs`, `SpawnScopeProofs`, `CompatProofs`, `BlockingExecutorProofs` | theorems and proofs |

Next to some definitions there is a *faulty variant*: what the definition would
be if the code had a plausible bug. No specification uses them. Replacing the
definition by its variant must make a property fail; `PROJECT.json` pairs each
checked property with the variant that refutes it.

### Joint

Two threads. The task's (`tpc`): `Finish` (the outcome is given to
`TaskFuture::finish`, whose `self.future = None` may unwind), then `WakeLoad`,
`WakePublish`, `WakeStore`, `WakeNotify`, `WakeReset`, one step per access of
`Joint::wake`. The owner's (`hpc`): `PollLoad`, then `PollTake` (the fast path)
or `PollRegister` and perhaps `PollSettle` (the slow path); `DropStore`,
`DropDetach`. A critical section is a single `mem::replace` or assignment and so
a single step.

`stage` is modelled as the set of values stored so far: a relaxed load may
return any of them, but nothing older than the thread has already read (`seen`).
The mutex does not rule any of these out: `wake` stores the stage after it
unlocks, `drop` stores it before it locks, and no thread loads after having
locked behind the other's store. `woken` holds the wakers woken and not yet
consumed by a poll.

`Repoll` says whether the owner may poll again after Ready, or after catching a
panic of `poll`. The contract of `Future` forbids the former; the code panics
with "already joined" there, and the runs with `Repoll = TRUE` look at what is
left afterwards.

### Cancellation

The task (`pc`): `PollStart` (`is_cancelled`), `InnerEnds` or `InnerPends` (the
future's own poll, and the box for the waker), `UpdateLoad`, then
`UpdateRefused`, `UpdateInstall` or `UpdateRetry` for each turn of `update`'s
loop; `Abandon` (`TaskFuture::drop`) and `TaskDrop` (its fields). Each handle
(`cpc[c]`): `CancelLoad`, then `CancelReturn`, `CancelTake` or `CancelRetry` for
each turn of `cancel`'s loop, `CancelWake`, and `DropHandle`. The last of them
to go runs `Cancellation::drop` (`Released`).

`spare` stands for `TaskFuture.waker` and, during `update`, for the box it is
to install. `heap` is the set of boxes allocated and `content` what each holds;
a new box may come back at the address of a freed one. `past` is the set of
values the pointer has held: relaxed loads return any of them, a
`compare_exchange` reads the latest. `Ordered` says whether the writing of a box
is visible to a thread that has read its address: nothing in the code makes it
so, x86 does. In a build where it is not, `CancelWake` may find memory that is
no live waker. A poll after the task has finished returns Ready and changes
nothing; it is left out.

### TaskFuture

`outcome` is one variable for both parts: the step of `Cancellation` that ends
the task is at once `Joint`'s `Finish` (`TaskStep`), and the executor lets go of
the task only when `Joint::wake` is through, or finish has unwound
(`TaskRelease`). `handle` says what the owner has. It polls, attaches, detaches,
cancels and drops one at a time (`OwnerFree`); `DropTaskHandle` runs cancel to
its end before `DropJoinHandle`, and `DropFields` gives back the reference to
the Cancellation. `CancelHandles` work concurrently; they are taken to exist
from the start, which an unused one does not reveal. `asked` is history: whether
a cancel was called, on any handle, or a `TaskHandle` dropped. `Ordered` is a
parameter here as in `Cancellation`. The run `task` sets it to TRUE, which the
code's Relaxed operations do not give: what it shows of cancelling is for builds
that publish a box with its pointer. Section 4 says what is proved without.

### TaskId

`ID` is the counter, modulo `Modulus` (2^64 in the code), and starts at 1;
`RUNNING_ID` is thread-local. `polls[h]` is the stack of polls in progress on
thread `h`, each an `IdScope` with the id it replaced: a poll may poll other
tasks, by a `Spawn` that runs a task at once or a nested `block_on`. `PollEnds`
stands for a return and for a panic, `IdScope::drop` runs either way. A task is
"over" while a handle can still be asked for its id, and comes back as another
task once it is "none". `wrapped` and `since` are history: whether the counter
has come to 0, and how many spawns ago (at most `Modulus`) the task was spawned.

### SpawnScope

One thread. `frames` is its stack of live scopes and of calls of `Spawn::spawn`
in progress; SPAWNER is borrowed as long as there is a call. User code runs
between any two steps: it may panic anywhere and catch the panic anywhere, and
unwinding removes the youngest frame first. `Nested` says that scopes end
youngest first; without it, they are held by futures that share the thread and
end in any order. A spawner is what `ptr::eq` on two `&dyn Spawn` compares, address and
vtable (`Addresses`): two spawners of one type without fields may share both.

### Compat

A registry is any sequence of entries, those that the adapters for tokio, smol
and async-global-executor register (`TOKIO`, `SMOL`, `ASYNC_GLOBAL_EXECUTOR`)
and others (`Custom`); a spawner is known by its entry's position. `inside[h]` is the set of
local runtimes that thread `h` is in. `find_spawn` is one step (`FindSpawn`) up
to `find_global`, which is three: `FindGlobal` looks at the `OnceLock`,
`ReadEnv` reads the environment, `GetOrInit` picks and keeps. Threads enter and
leave runtimes between calls (`Switch`), and the environment variable changes at
any time (`SetEnv`). `panicMultiple` is the cargo feature. `given` and `envs`
are history: the results of lookups that were not local, and the values the
environment has had. `PickGlobal` states the selection by what it selects (the
first entry of the name; else the last that has a name; else the last), where
the code keeps candidates in a loop.

### BlockingExecutor

`threads` is `parallelism()`; thread 1 is the caller. It starts the workers one
by one (`StartWorker`, or `StartFails`, whose `unwrap` unwinds before the token
exists), then polls its own future and tasks (`PollMain`, `PollTask`), as do the
workers. A thread leaves when its future ends, when the token is triggered
(`WorkerLeaves`), or when the destructor of a task panics through it
(`TaskReturns`): first the scope of `run_until` ends ("left"), then, for the
caller, the token is dropped, then its reference to the executor (`Release`).
The last reference drops the executor and with it the tasks in it (`Cancel`,
`Drained`); their destructors, and those that run in polls, may try to spawn
(`Spawn`). With one thread the caller's future is itself a task of the pool, and
the caller polls its handle (`RootReturns`). The queues, the token's signal and
the starting of threads belong to other crates and are modelled from how they
are used.

## 3. What is checked

Passing runs:

| Run | Instance | Distinct states | Shows |
|---|---|---|---|
| `joint` (`Joint.cfg`) | 3 outcomes, 2 wakers, destructor may panic | 753 | `NoPanic`, `NoLostOutcome`, `NoLostWakeup`, `NothingRetained`, `NoLockAfterDrop`; `WaitingResolves`; refinement of `JoinContract` |
| `joint_repoll` (`JointRepoll.cfg`) | the same, polling on allowed | 1779 | `DeliveredOnce` |
| `cancellation` (`Cancellation.cfg`) | 3 boxes, 2 wakers, 2 handles, `Ordered` | 57173 | `BoxesOwnedOnce`, `TwoBoxes`, `NoLostCancel`; refinement of `CancelContract` (`ContractSafe`); `CancelEndsTask`, `CancelIsLockFree` |
| `task` (`TaskFuture.cfg`) | 2 boxes, a waker each, owner and one CancelHandle, `Ordered` | 148030 | `NothingLeft`, `NoCancelStuck`, `CancelledForAReason`; `CancelReachesOwner`, `DropEndsTask`; refinement of `JoinContract`, cancels and drops of handles included |
| `task_id` (`TaskId.cfg`) | 3 tasks, 2 threads, a counter of 2 bits, symmetry | 8707 | `RunningIsInnermost`, `NoneIsOutside`, `UniqueUntilWrap` |
| `scope_nested` (`SpawnScope.cfg`) | 3 addresses, 5 frames | 4344 | `InnermostSpawns`, `EnteredIsAlive`, `DropsQuietly` |
| `compat` (`Compat.cfg`) | 2 threads, all registries of up to 3 entries, both builds, symmetry | 162124 | `OneForAll`, `OneForAReason`, `LocalFirst` |
| `executor` (`BlockingExecutor.cfg`) | 2 tasks, 1 to 3 threads, destructors may panic | 2453 | `NoOrphan`, `ScopeEndsFirst`; `WorkersEnd`, `QueuedRuns` |

Each model is also checked for type correctness.

Runs that find a violation, and what it means for the code:

* `joint_repoll_assert`: an owner that polls on after Ready reaches
  `unreachable!("get no task result after stage finished")`. The slow path of
  `poll` replaces `Joined` by `Joining` before it panics with "already joined",
  so a poll after a caught panic finds neither. The same poll, if `stage` still
  reads Running, returns Pending, and nothing will wake it.
* `cancellation_weak`: with `Ordered = FALSE` a canceller wakes through memory
  that is no live waker. `update` writes a `Box<Waker>` and publishes it with a
  Relaxed `compare_exchange`, `cancel` takes it with another; the handles are
  Send and Sync. Release on success in `update` and Acquire on success in
  `cancel` would make `Ordered` true of every build. (`cancel` may also fail
  and retry; only the exchange that takes the box matters.)
* `scope_interleaved`: two scopes of one thread that end in the order they were
  entered (dropped by hand, or held by two futures joined on it) leave SPAWNER at a spawner whose scope has ended. `SpawnScope::drop`
  sets SPAWNER before it checks what it replaced, and the check then panics.

Bounds. The instances are small because the code's interactions are. Joint has
two threads, and a third waker is to it like the second (only "the latest or an
older one" matters). A task keeps at most two boxes (`TwoBoxes`, proved), so the
third gives the allocator a choice, and lets the check of `TwoBoxes` fail. Two
handles suffice for one cancel to fail because of another; two wakers tell the
latest from an older one. In `TaskId` two tasks nest on one thread while a third
uses another or draws the next id, and four ids wrap onto living tasks within
reach. Three entries are a named one, its rival and a local one; two threads
race on the `OnceLock` with a value each. Three threads are the caller and two
workers, the first of which can be running when the second cannot be started.
Five frames hold a scope, a spawn in it that spawns, and scopes around them.
`MaxFrames`, `MaxCompats` and `MaxThreads` are the bounds that the code does not
have; every other model is finite as it stands.

`CHECK_DEADLOCK` is FALSE where the system does stop: once a task and its
handles, or the threads of an executor, are gone there is nothing left to do.

Fairness, and why the code justifies it. A thread that has entered `wake`,
`poll`, `cancel` or `drop` runs on (weak fairness of the rest of that call; the
critical sections are short and never nested). An executor polls a task it has
been given, and polls it again when the waker of its last poll is woken. That is
the contract of wakers. Nothing obliges a future to become ready, an owner to
poll a first time, or anyone to cancel or drop. In `TaskFuture` the owner's
being polled again is strong fairness: it may be in the middle of a cancel when
it is woken, and it is assumed to return to its executor again and again rather
than to call `cancel` for ever. `cancel` itself is lock-free, not wait-free: it
may retry for as long as the task goes on replacing its waker, which
`CancelIsLockFree` and `DropEndsTask` say.

In `BlockingExecutor` polls return and what a leaving thread has begun it
completes (weak fairness). Two things are strong fairness, both because they are
promised however many tasks there are: the executors' queues are first in, first
out, so a queued task is polled if threads poll at all; and `run` and
`run_until` poll the future they were given again and again between tasks, so a
worker notices the token and the caller its root task. Nothing obliges the
caller's future to end, a task to be woken, or a worker to be started in time.

## 4. What is proved

For every set of outcomes, wakers, boxes and handles, finite or not.

`JointProofs`:

* whatever the owner does, polls after Ready and after a caught panic included:
  `TypeCorrect`, `NoLostOutcomeHolds`, `NothingRetainedHolds`,
  `NoLockAfterDropHolds`, `DeliveredOnceHolds`;
* for an owner that does not poll on (`Repoll = FALSE`): `NoPanicHolds`,
  `NoLostWakeupHolds`, and `ContractSafety`: every behaviour of `Spec` satisfies
  `JoinContract`'s `Init /\ [][Next]_vars` under the refinement mapping.

The hypothesis of the second group is not a convenience. An owner that polls on
meets the panic "already joined", which `NoPanic` excludes; and if it catches
that panic and polls again, the code has put `Joining` over `Joined`, takes the
owner to be waiting, and nobody will wake it: TLC finds `NoLostWakeup` false for
such an owner.

None of the invariants is inductive. For the second group `IInv` adds how far
each thread can be for each content of the cell and of `stage` (`StageInv`,
`TaskInv`, `HandleInv`), where the outcome is between publication and delivery
(`OutcomeInv`), whose waker is in the cell or in wake's hand (`WakerInv`), and
what a dropped handle leaves (`DetachedInv`). Its heart is lemma `CellShape`,
which says what the cell can contain when each of the two threads is about to
replace it: `TakeFinds` and `RegisterFinds` follow, and with them that no branch
of the two `match`es that panics is taken. For the first group less is true of
the cell, and `AnyInv` is a separate, weaker invariant: an outcome enters the
cell once, and is spent when a poll has it in hand or has returned it
(`SpentInv`); what a handle leaves behind when it goes, and that wake finds it
(`LeftInv`); and that an unspent outcome which has been published is still there
(`FoundInv`).

`CancellationProofs`:

* whatever `Ordered` is: `TypeCorrect`, `BoxesOwnedOnceHolds`, `TwoBoxesHolds`,
  `CancelIsFinalHolds` (a cancelled task stays so, and no poll of it returns
  Pending), `CancelTakesEffect` (a `cancel` that returns leaves the task
  cancelled). The races on the pointer are resolved by `compare_exchange` alone,
  and no box is leaked or freed twice in any build;
* assuming `Ordered`: `NoLostCancelHolds`, `WakesLiveWakerHolds`, and
  `ContractSafeHolds`: `Cancellation` implements `CancelContract`. The second
  says that the repair named in section 3 suffices.

`OwnerInv` joins ownership with three facts: CANCELLED is in the past of the
pointer exactly when it is its value (`PastInv`), so no relaxed load invents a
cancel; a poll in `update` holds a box with its own waker (`TaskInv`); at most
one cancel holds a box, and then the pointer is CANCELLED (`TakenInv`).
`CancelInv` adds that between polls the pointer is at the waker of the last poll
(`WakerInv`), which is what a cancel has to find, and that every box in the heap
holds a waker (`LiveInv`), which ownership turns into: whoever reads a box finds
one. In the contract, `CancelTake` is the request and `CancelWake` is nothing:
the task is due from the moment a cancel has its waker in hand. That this mapping
is right is `WakerInv` for the first and `NoLostCancel` for the second.

`TaskFutureProofs`, for any number of handles:

* `WholeInvariance`, in every build: the inductive invariants of both parts that
  do not need `Ordered` hold of the whole, with what ties them (`TiedInv`: the
  executor lets go of the task only when `finish` is over, the owner of the
  Cancellation only when the Joint is done with; a task has an outcome once it
  has ended), how far the drop of a `TaskHandle` is (`DropInv`), and that the
  pointer is CANCELLED, or a cancel running, only after someone asked for it
  (`AskedInv`). The steps of the parts are not proved again. By lemma
  `StepComposes` each step of `Next` is one of either part, of both (the end of
  the task), or leaves each alone; the module instantiates both proof modules,
  `SameCancellation` and `SameJoint` say that those instances are the same
  specifications, and the step lemmas are cited from there;
* from it, in every build: `TypeCorrect`; `NothingLeftHolds` (from
  `BoxesOwnedOnce` and `DetachedInv`, with `TiedInv` for the order in which the
  two let go); `PartsKeptHolds` (boxes, and everything about the owner's side);
  `CancelledForAReasonHolds`; `JoinContractSafety`; and `DropCancelsHolds`:
  `TaskHandle::drop` detaches only what it has cancelled;
* assuming `Ordered`: `CancelInvariance` (all of `CancelInv`), and from it
  `CancelKeptHolds` (no cancel is lost, only live wakers are woken),
  `CancelContractSafety`, and `NoCancelStuckHolds`: an owner that waits for a
  task that is cancelled has an answer on its way. Run `cancellation_weak` shows
  what becomes of `CancelKept`, and so of `CancelInv`, without `Ordered`.

`DropCancelsHolds` and `NoCancelStuckHolds` are the safety part of two liveness
properties; what `DropEndsTask` and `CancelReachesOwner` add to them is fairness.

`TaskIdProofs`, for any tasks, threads and width of the counter:

* `RunningIsInnermostHolds`, `NoneIsOutsideHolds`, `UniqueUntilWrapHolds`,
  `TypeCorrect`. `ChainInv` says that each poll keeps the id of the one around
  it, or 0; `ZeroInv` that no task has the id 0 until the counter has come to
  it; `LagInv` that a task's id is as far behind the counter as there were
  spawns since, modulo the width, and that these numbers differ: two tasks with
  the same id would have the same number, or one a full round more.

`SpawnScopeProofs`, where scopes nest (`Nested`), for any spawners and depth:

* `InnermostSpawnsHolds`, `EnteredIsAliveHolds`, `DropsQuietlyHolds`,
  `TypeCorrect`. `Chained` says that each scope keeps the spawner of the one
  around it and each call has that of the one it is in; `Push` and `Pop` show
  that a frame that fits keeps the chain and what the innermost spawner is then.
  With it the assertion of `SpawnScope::drop` cannot fail, even if two spawners
  share an address. Run `scope_interleaved` shows that the hypothesis is needed.

`CompatProofs`, for registries of any length, any threads and names:

* `OneForAllHolds`, `OneForAReasonHolds`, `LocalFirstHolds`, `TypeCorrect`.
  A thread on its way to the global spawner is in no runtime and chooses by a
  value that the environment has had (`StepInv`); what is in the `OnceLock` was
  selected by such a value, and with several entries nothing but that is given,
  with at most one nothing but that entry (`GivenInv`). Lemma `Picks` says what
  `PickGlobal` returns, and why.

`BlockingExecutorProofs`, for any tasks and number of threads:

* `NoOrphanHolds`, `ScopeEndsFirstHolds`, `TypeCorrect`. `HolderInv`: a live
  task has a thread that holds the executor; `DrainInv`: the thread that drops
  it is the only one; `PollingInv`: only a running thread polls, and no two the
  same task.
* `NoWorkerStuckHolds`: after `block_on`, no worker waits for a signal that was
  never given, unless one could not be started (the safety part of
  `WorkersEnd`); `FullyStaffedHolds`, `ReturnsOutputHolds`: unless a destructor
  panics, all workers run while the caller's future does, and `block_on` is
  through only once that has ended. `SignalInv` says who gives the signal, when,
  and that every worker has been started by then.

The only assumptions are the modules' own (`JointAssumption` and so on: the
special values are not among the ordinary ones, bounds are numbers), which TLC
evaluates in every run.

Model-checked only: liveness (`WaitingResolves`, `CancelEndsTask`,
`CancelIsLockFree`, `CancelReachesOwner`, `DropEndsTask`, `WorkersEnd`,
`QueuedRuns`, and the liveness part of `ImplementsContract`, of `Joint` as of
`TaskFuture`), which the prover does not handle. Every invariant that a passing
run checks is a theorem, and so is every property that says what a step may not
do; those that need `Repoll = FALSE`, `Ordered` or `Nested` say so.

## 5. What is not modelled

* Destructors that panic while an executor drops its tasks, and wakers that
  panic, run out of memory, or call back into the handle. An outcome whose
  destructor panics with Joint's mutex locked is covered: `NoLockAfterDrop` says
  that nobody meets the poison. A waker that does the same, when drop replaces
  the `Joining` it is in, is not: `wake` may then still be about to lock.
* What becomes of an owner when the destructor of its task's future panics in
  `finish`: `wake` is skipped and nobody answers. `WaitingResolves`,
  `CancelReachesOwner` and `NoCancelStuck` except that case ("lost");
  `NothingLeft` covers what is then to be freed.
* After `StartFails` the workers that were started wait for a token that was
  never made. That is what the code does, and `WorkersEnd` says so by excepting
  it; the code promises nothing for that case. `NoOrphan` holds in it too.
* Reference counts as numbers: only who still has a reference.
* `Display` and `Debug`, `Name`, `Builder`, and the accessors of `JoinError`:
  data that no decision of the modelled code depends on. The façade crate
  re-exports, the example uses it.
* What the runtimes behind the compat entries do with a task, and the queues of
  the executors.
* What a destructor that `finish` runs sees as its task's id: `IdFuture` is
  inside the future, so the id is that of the task around it, if any.
* Leaking a `SpawnScope` (`mem::forget`), and a `Spawn::spawn` that ends a scope
  begun before it.
* `Cancellation::cancelled`, the sentinel, is the address of a function. That
  it is the same everywhere and no box's address is an assumption.

## 6. What could come next

1. The executor composed with `TaskFuture`, for handles that outlive `block_on`.
2. Scopes that are leaked.
