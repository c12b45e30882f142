-------------------------- MODULE BlockingExecutor --------------------------
(***************************************************************************)
(* spawns-executor: `block_on`, a LocalPool on the caller's thread, and    *)
(* `Blocking::block_on` with more than one thread, an Executor that the    *)
(* caller (thread 1) and the workers 2..threads share through an Arc and   *)
(* all run.  What these promise about the tasks spawned in them: each is   *)
(* polled or cancelled, and none outlives the last thread.                 *)
(*                                                                         *)
(* External: the executors' queues, the shutdown signal and the starting   *)
(* of threads.  The last reference to an executor or pool drops, and so    *)
(* cancels, the tasks in it.  Unwinding drops what returning drops, in the *)
(* same order, so how the main future ended makes no difference.           *)
(***************************************************************************)
EXTENDS Naturals

CONSTANTS Tasks,        \* tasks spawned while blocking
          MaxThreads,   \* bound of the model: parallelism
          NONE,         \* nothing polled
          DropMayPanic  \* the destructor of a task's future may panic

ASSUME ExecutorAssumption ==
  /\ MaxThreads \in Nat /\ MaxThreads >= 2
  /\ NONE \notin Tasks /\ "main" \notin Tasks /\ NONE # "main"
  /\ DropMayPanic \in BOOLEAN

VARIABLES
  threads,      \* Blocking::parallelism()
  failed,       \* a worker could not be started
  shutdown,     \* the signal the workers wait for
  main,         \* the caller's future: "pending" or "ended"
  pc,           \* where each thread is
  polling,      \* what it polls: a task, "main", or nothing
  task          \* what has become of each task

vars == <<threads, failed, shutdown, main, pc, polling, task>>

Threads == 1..MaxThreads
Holding == {"start", "run", "left", "release", "draining"}
Live    == {"queued", "running", "waiting"}

TypeOK ==
  /\ threads \in Threads
  /\ failed \in BOOLEAN /\ shutdown \in BOOLEAN /\ main \in {"pending", "ended"}
  /\ pc \in [Threads -> Holding \cup {"absent", "gone"}]
  /\ polling \in [Threads -> Tasks \cup {"main", NONE}]
  /\ task \in [Tasks -> Live \cup {"none", "finished", "lost", "cancelled"}]

ParallelismAsked(asked, available) == asked    \* Faulty: 0 threads.

\* parallelism(): 0 asks for what is available, and that may be unknown (0).
Parallelism(asked, available) ==
  IF asked # 0 THEN asked ELSE IF available # 0 THEN available ELSE 2

Init ==
  /\ \E asked, available \in 0..MaxThreads :
       threads = Parallelism(asked, available)
  /\ failed = FALSE /\ shutdown = FALSE /\ main = "pending"
  /\ pc = [i \in Threads |-> IF i = 1 THEN "start" ELSE "absent"]
  /\ polling = [i \in Threads |-> NONE]
  /\ task = [t \in Tasks |-> "none"]

Goto(i, l)   == pc' = [pc EXCEPT ![i] = l]
Become(t, s) == task' = [task EXCEPT ![t] = s]
Rest(i)      == polling' = [polling EXCEPT ![i] = NONE]

(***************************************************************************)
(* The caller starts the workers, one by one, and runs the executor        *)
(***************************************************************************)
NextToStart(i) ==
  /\ pc[1] = "start" /\ pc[i] = "absent"
  /\ \A j \in 2..(i - 1) : pc[j] # "absent"

StartWorker(i) ==
  /\ NextToStart(i)
  /\ Goto(i, "run")
  /\ UNCHANGED <<threads, failed, shutdown, main, polling, task>>

\* `.unwrap()` on the error: unwinding comes before the token exists.
StartFails(i) ==
  /\ NextToStart(i)
  /\ failed' = TRUE
  /\ Goto(1, "release")
  /\ UNCHANGED <<threads, shutdown, main, polling, task>>

\* The token, the scope, and the first poll to come.
StartRun ==
  /\ pc[1] = "start" /\ \A i \in 2..threads : pc[i] # "absent"
  /\ Goto(1, "run")
  /\ UNCHANGED <<threads, failed, shutdown, main, polling, task>>

Start == StartRun \/ \E i \in 2..threads : StartWorker(i) \/ StartFails(i)

(***************************************************************************)
(* Polling: the caller's future, and tasks on any thread                   *)
(***************************************************************************)
TicksWorkersOnly(i) ==            \* Faulty: the caller polls its future only.
  i # 1 /\ pc[i] = "run" /\ polling[i] = NONE

\* `executor.run` and `pool.run_until` poll tasks besides their future.
Ticks(i) == pc[i] = "run" /\ polling[i] = NONE

PollMain ==
  /\ pc[1] = "run" /\ polling[1] = NONE /\ main = "pending"
  /\ polling' = [polling EXCEPT ![1] = "main"]
  /\ UNCHANGED <<threads, failed, shutdown, main, pc, task>>

\* With one thread the future is a task, and the caller polls its JoinHandle;
\* otherwise run_until ends with the future, be it by a panic.
MainReturns ==
  /\ polling[1] = "main"
  /\ Rest(1)
  /\ \/ UNCHANGED <<main, pc>>
     \/ /\ main' = "ended"
        /\ \/ threads = 1 /\ pc' = pc
           \/ (threads > 1 \/ DropMayPanic) /\ Goto(1, "left")
  /\ UNCHANGED <<threads, failed, shutdown, task>>

\* The JoinHandle is ready.
RootReturns ==
  /\ threads = 1 /\ main = "ended" /\ pc[1] = "run" /\ polling[1] = NONE
  /\ Goto(1, "left")
  /\ UNCHANGED <<threads, failed, shutdown, main, polling, task>>

PollTask(i, t) ==
  /\ Ticks(i) /\ task[t] = "queued"
  /\ polling' = [polling EXCEPT ![i] = t]
  /\ Become(t, "running")
  /\ UNCHANGED <<threads, failed, shutdown, main, pc>>

\* The poll finishes the task, or leaves it waiting or already woken; or a
\* destructor unwinds out of the executor and through the thread.
TaskReturns(i, t) ==
  /\ polling[i] = t
  /\ Rest(i)
  /\ \/ \E s \in {"finished", "waiting", "queued"} : Become(t, s) /\ pc' = pc
     \/ DropMayPanic /\ Become(t, "lost") /\ Goto(i, "left")
  /\ UNCHANGED <<threads, failed, shutdown, main>>

Wake(t) ==
  /\ task[t] = "waiting"
  /\ Become(t, "queued")
  /\ UNCHANGED <<threads, failed, shutdown, main, pc, polling>>

InScopeLonger(i) == pc[i] \in Holding   \* Faulty: the executor drops first.

\* Code that runs on a thread, a destructor at the end included, spawns into
\* the executor as long as the thread is in the scope of run_until.
InScope(i) == pc[i] = "run"

Spawn(i, t) ==
  /\ polling[i] # NONE \/ pc[i] = "draining"
  /\ InScope(i) /\ task[t] = "none"
  /\ Become(t, "queued")
  /\ UNCHANGED <<threads, failed, shutdown, main, pc, polling>>

(***************************************************************************)
(* The end: the scope, then the token, then the reference to the executor  *)
(***************************************************************************)
WorkerLeaves(i) ==
  /\ i # 1 /\ shutdown /\ Ticks(i)
  /\ Goto(i, "left")
  /\ UNCHANGED <<threads, failed, shutdown, main, polling, task>>

TriggeredNever == shutdown        \* Faulty: nothing is done on drop.

\* The drop of `_shutdown_on_drop`, which one thread does without.
Triggered == shutdown \/ threads > 1

Leave(i) ==
  /\ pc[i] = "left"
  /\ Goto(i, "release")
  /\ shutdown' = IF i = 1 THEN Triggered ELSE shutdown
  /\ UNCHANGED <<threads, failed, main, polling, task>>

LastHolderNever(i) == FALSE       \* Faulty: a reference is leaked.

\* The Arc's count, or that the pool is the caller's own.
LastHolder(i) == \A j \in Threads \ {i} : pc[j] \notin Holding

Release(i) ==
  /\ pc[i] = "release"
  /\ Goto(i, IF LastHolder(i) THEN "draining" ELSE "gone")
  /\ UNCHANGED <<threads, failed, shutdown, main, polling, task>>

\* The executor drops a task that is left.
Cancel(i, t) ==
  /\ pc[i] = "draining" /\ task[t] \in Live
  /\ Become(t, "cancelled")
  /\ UNCHANGED <<threads, failed, shutdown, main, pc, polling>>

Drained(i) ==
  /\ pc[i] = "draining" /\ \A t \in Tasks : task[t] \notin Live
  /\ Goto(i, "gone")
  /\ UNCHANGED <<threads, failed, shutdown, main, polling, task>>

End(i) == Leave(i) \/ Release(i) \/ Drained(i) \/ \E t \in Tasks : Cancel(i, t)

(***************************************************************************)
(* Specification                                                           *)
(***************************************************************************)
Next ==
  \/ Start \/ PollMain \/ MainReturns \/ RootReturns
  \/ \E t \in Tasks : Wake(t)
  \/ \E i \in Threads :
       \/ \E t \in Tasks : PollTask(i, t) \/ TaskReturns(i, t) \/ Spawn(i, t)
       \/ WorkerLeaves(i) \/ End(i)

\* Polls return; queues are first in, first out; a thread comes back to the
\* future it runs again and again, however many tasks there are to poll.
\* Nothing obliges the caller's future to end, or anyone to wake a task.
Fairness ==
  /\ WF_vars(Start) /\ WF_vars(MainReturns) /\ SF_vars(RootReturns)
  /\ \A t \in Tasks : SF_vars(\E i \in Threads : PollTask(i, t))
  /\ \A i \in Threads :
       /\ WF_vars(\E t \in Tasks : TaskReturns(i, t))
       /\ SF_vars(WorkerLeaves(i)) /\ WF_vars(End(i))

Spec == Init /\ [][Next]_vars /\ Fairness

(***************************************************************************)
(* Properties                                                              *)
(***************************************************************************)
AllGone == \A i \in Threads : pc[i] \in {"absent", "gone"}

\* When the last thread has let go of the executor, every task spawned into
\* it has ended: none stays in a queue nobody runs, however late it was
\* spawned or woken and whichever threads have died.
NoOrphan == AllGone => \A t \in Tasks : task[t] \notin Live

\* No task is added to an executor that is being dropped: by then every
\* thread, not the dropping one alone, has left the scope of run_until.
ScopeEndsFirst ==
  [][\A t \in Tasks : task[t] = "none" /\ task'[t] # "none" =>
       \A i \in Threads : pc[i] # "draining"]_vars

\* Once block_on is through, the workers end, and with NoOrphan the tasks:
\* "cancelled sooner or later after return".  Only workers that wait for a
\* token never made, because one of them could not be started, stay.
WorkersEnd == pc[1] = "gone" ~> (failed \/ AllGone)

\* A task that was spawned or woken is polled or cancelled, though workers may
\* die one by one.
QueuedRuns == \A t \in Tasks : task[t] = "queued" ~> task[t] # "queued"
=============================================================================
