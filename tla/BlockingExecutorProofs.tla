----------------------- MODULE BlockingExecutorProofs -----------------------
(***************************************************************************)
(* Proofs about BlockingExecutor, for any number of tasks and of threads:  *)
(* no task outlives the executor, none enters it while it is dropped, and  *)
(* the workers run as long as the caller does and can end once it is gone. *)
(***************************************************************************)
EXTENDS BlockingExecutor, TLAPS

\* A thread that polls is in run_until, and alone in polling that task.
PollingInv ==
  \A i \in Threads :
    /\ polling[i] # NONE => pc[i] = "run"
    /\ \A t \in Tasks : polling[i] = t =>
         /\ task[t] = "running"
         /\ \A j \in Threads : polling[j] = t => j = i

\* A live task has a thread that holds the executor.
HolderInv ==
  (\E t \in Tasks : task[t] \in Live) => \E i \in Threads : pc[i] \in Holding

\* The thread that drops the executor is the only one that holds it.
DrainInv ==
  \A i, j \in Threads :
    pc[i] = "draining" /\ pc[j] \in Holding => j = i

IInv == TypeOK /\ PollingInv /\ HolderInv /\ DrainInv

LEMMA InitInv == Init => IInv
<1> SUFFICES ASSUME Init PROVE IInv
  OBVIOUS
<1>1. TypeOK
  <2>1. \A asked, available \in 0..MaxThreads :
          Parallelism(asked, available) \in Threads
    BY ExecutorAssumption DEF Parallelism, Threads
  <2>2. QED
    BY <2>1 DEF Init, TypeOK, Holding
<1>2. PollingInv
  BY ExecutorAssumption DEF Init, PollingInv
<1>3. HolderInv /\ DrainInv
  BY DEF Init, HolderInv, DrainInv, Live, Holding
<1>4. QED
  BY <1>1, <1>2, <1>3 DEF IInv

LEMMA TypeStep ==
  ASSUME TypeOK, [Next]_vars
  PROVE  TypeOK'
<1> USE ExecutorAssumption
    DEF TypeOK, Threads, Holding, Live, Goto, Become, Rest
<1>1. ASSUME Start PROVE TypeOK'
  BY <1>1 DEF Start, StartRun, StartWorker, StartFails
<1>2. ASSUME PollMain \/ MainReturns \/ RootReturns PROVE TypeOK'
  BY <1>2 DEF PollMain, MainReturns, RootReturns
<1>3. ASSUME NEW t \in Tasks, Wake(t) PROVE TypeOK'
  BY <1>3 DEF Wake
<1>4. ASSUME NEW i \in Threads, NEW t \in Tasks,
             PollTask(i, t) \/ TaskReturns(i, t) \/ Spawn(i, t)
      PROVE  TypeOK'
  BY <1>4 DEF PollTask, TaskReturns, Spawn
<1>5. ASSUME NEW i \in Threads, WorkerLeaves(i) \/ End(i) PROVE TypeOK'
  BY <1>5 DEF WorkerLeaves, End, Leave, Triggered, Release, Drained, Cancel
<1>6. CASE UNCHANGED vars
  BY <1>6 DEF vars
<1>7. QED
  BY <1>1, <1>2, <1>3, <1>4, <1>5, <1>6 DEF Next

LEMMA PollingStep ==
  ASSUME IInv, [Next]_vars
  PROVE  PollingInv'
<1> USE ExecutorAssumption
    DEF IInv, TypeOK, PollingInv, Threads, Holding, Live, Goto, Become, Rest
<1>1. ASSUME Start PROVE PollingInv'
  BY <1>1 DEF Start, StartRun, StartWorker, StartFails, NextToStart
<1>2. CASE PollMain
  BY <1>2 DEF PollMain
<1>3. CASE MainReturns
  BY <1>3 DEF MainReturns
<1>4. CASE RootReturns
  BY <1>4 DEF RootReturns
<1>5. ASSUME NEW t \in Tasks, Wake(t) PROVE PollingInv'
  BY <1>5 DEF Wake
<1>6. ASSUME NEW i \in Threads, NEW t \in Tasks, PollTask(i, t)
      PROVE  PollingInv'
  BY <1>6 DEF PollTask, Ticks
<1>7. ASSUME NEW i \in Threads, NEW t \in Tasks, TaskReturns(i, t)
      PROVE  PollingInv'
  BY <1>7 DEF TaskReturns
<1>8. ASSUME NEW i \in Threads, NEW t \in Tasks, Spawn(i, t)
      PROVE  PollingInv'
  BY <1>8 DEF Spawn
<1>9. ASSUME NEW i \in Threads, WorkerLeaves(i) PROVE PollingInv'
  BY <1>9 DEF WorkerLeaves, Ticks
<1>10. ASSUME NEW i \in Threads, Leave(i) \/ Release(i) \/ Drained(i)
       PROVE  PollingInv'
  BY <1>10 DEF Leave, Release, Drained
<1>11. ASSUME NEW i \in Threads, NEW t \in Tasks, Cancel(i, t)
       PROVE  PollingInv'
  <2>1. \A j \in Threads : polling[j] # t
    BY <1>11 DEF Cancel, DrainInv
  <2>2. QED
    BY <1>11, <2>1 DEF Cancel
<1>12. CASE UNCHANGED vars
  BY <1>12 DEF vars
<1>13. QED
  BY <1>1, <1>2, <1>3, <1>4, <1>5, <1>6, <1>7, <1>8, <1>9, <1>10, <1>11,
     <1>12 DEF Next, End

\* A thread lets go of the executor only if another holds it, or nothing in
\* it is live; a thread begins to hold it only while the caller starts.
LEMMA HolderStep ==
  ASSUME IInv, [Next]_vars
  PROVE  HolderInv' /\ DrainInv'
<1> USE ExecutorAssumption
    DEF IInv, TypeOK, HolderInv, DrainInv, Threads, Holding, Live, Goto,
        Become, Rest
<1>1. CASE StartRun
  BY <1>1 DEF StartRun
<1>2. ASSUME NEW i \in 2..threads, StartWorker(i) \/ StartFails(i)
      PROVE  HolderInv' /\ DrainInv'
  <2>1. pc[1] = "start" /\ i \in Threads /\ i # 1 /\ pc[i] = "absent"
    BY <1>2 DEF StartWorker, StartFails, NextToStart
  <2>2. \A j \in Threads : pc[j] # "draining"
    BY <2>1
  <2>3. \E j \in Threads : pc'[j] \in Holding
    BY <1>2, <2>1 DEF StartWorker, StartFails
  <2>4. \A j \in Threads : pc'[j] # "draining"
    BY <1>2, <2>1, <2>2 DEF StartWorker, StartFails
  <2>5. QED
    BY <2>3, <2>4
<1>3. CASE PollMain
  BY <1>3 DEF PollMain
<1>4. CASE MainReturns
  BY <1>4 DEF MainReturns, PollingInv
<1>5. CASE RootReturns
  BY <1>5 DEF RootReturns
<1>6. ASSUME NEW t \in Tasks, Wake(t) PROVE HolderInv' /\ DrainInv'
  BY <1>6 DEF Wake
<1>7. ASSUME NEW i \in Threads, NEW t \in Tasks, PollTask(i, t)
      PROVE  HolderInv' /\ DrainInv'
  BY <1>7 DEF PollTask
<1>8. ASSUME NEW i \in Threads, NEW t \in Tasks, TaskReturns(i, t)
      PROVE  HolderInv' /\ DrainInv'
  <2>1. pc[i] = "run" /\ pc'[i] \in {"run", "left"}
          /\ \A j \in Threads \ {i} : pc'[j] = pc[j]
    BY <1>8 DEF TaskReturns, PollingInv
  <2>2. QED
    BY <2>1
<1>9. ASSUME NEW i \in Threads, NEW t \in Tasks, Spawn(i, t)
      PROVE  HolderInv' /\ DrainInv'
  BY <1>9 DEF Spawn, InScope
<1>10. ASSUME NEW i \in Threads, WorkerLeaves(i)
       PROVE  HolderInv' /\ DrainInv'
  BY <1>10 DEF WorkerLeaves, Ticks
<1>11. ASSUME NEW i \in Threads, Leave(i) PROVE HolderInv' /\ DrainInv'
  BY <1>11 DEF Leave
<1>12. ASSUME NEW i \in Threads, Release(i) PROVE HolderInv' /\ DrainInv'
  <2>1. pc[i] = "release" /\ \A j \in Threads \ {i} : pc'[j] = pc[j]
    BY <1>12 DEF Release
  <2>2. CASE LastHolder(i)
    <3>1. pc'[i] = "draining"
      BY <1>12, <2>2 DEF Release
    <3>2. QED
      BY <2>1, <2>2, <3>1 DEF LastHolder
  <2>3. CASE ~LastHolder(i)
    <3>1. pc'[i] = "gone" /\ \E j \in Threads \ {i} : pc'[j] \in Holding
      BY <1>12, <2>1, <2>3 DEF Release, LastHolder
    <3>2. QED
      BY <2>1, <3>1
  <2>4. QED
    BY <2>2, <2>3
<1>13. ASSUME NEW i \in Threads, Drained(i) PROVE HolderInv' /\ DrainInv'
  BY <1>13 DEF Drained
<1>14. ASSUME NEW i \in Threads, NEW t \in Tasks, Cancel(i, t)
       PROVE  HolderInv' /\ DrainInv'
  BY <1>14 DEF Cancel
<1>15. CASE UNCHANGED vars
  BY <1>15 DEF vars
<1>16. QED
  BY <1>1, <1>2, <1>3, <1>4, <1>5, <1>6, <1>7, <1>8, <1>9, <1>10, <1>11,
     <1>12, <1>13, <1>14, <1>15 DEF Next, Start, End

(***************************************************************************)
(* The workers, from the start of block_on to its return                   *)
(***************************************************************************)
Past == {"release", "draining", "gone"}

\* The signal is given by the caller on its way out, and only there; without
\* panicking destructors, the caller's way out begins with the end of its
\* future, and a worker's with the signal.
SignalInv ==
  /\ \A i \in Threads \ {1} : pc[i] # "start"
                             /\ (pc[i] # "absent" => threads > 1)
  /\ shutdown => pc[1] \in Past
  /\ pc[1] \in Past => shutdown \/ failed \/ threads = 1
  /\ ~DropMayPanic =>
       /\ pc[1] \in Past \cup {"left"} => main = "ended" \/ failed
       /\ pc[1] = "start" => \A i \in Threads \ {1} : pc[i] \in {"absent", "run"}
       /\ pc[1] \in {"run", "left"} => \A i \in 2..threads : pc[i] = "run"

LEMMA SignalInit == Init => SignalInv
  BY ExecutorAssumption DEF Init, SignalInv, Past, Threads

LEMMA SignalStep ==
  ASSUME IInv, SignalInv, [Next]_vars
  PROVE  SignalInv'
<1> USE ExecutorAssumption
    DEF IInv, TypeOK, SignalInv, Past, Threads, Goto, Rest
<1>1. CASE StartRun
  BY <1>1 DEF StartRun
<1>2. ASSUME NEW i \in 2..threads, StartWorker(i) PROVE SignalInv'
  BY <1>2 DEF StartWorker, NextToStart
<1>3. ASSUME NEW i \in 2..threads, StartFails(i) PROVE SignalInv'
  BY <1>3 DEF StartFails, NextToStart
<1>4. CASE MainReturns
  BY <1>4 DEF MainReturns, PollingInv
<1>5. CASE RootReturns
  BY <1>5 DEF RootReturns
<1>6. ASSUME NEW i \in Threads, NEW t \in Tasks, TaskReturns(i, t)
      PROVE  SignalInv'
  BY <1>6 DEF TaskReturns, PollingInv
<1>7. ASSUME NEW i \in Threads, WorkerLeaves(i) PROVE SignalInv'
  BY <1>7 DEF WorkerLeaves, Ticks
<1>8. ASSUME NEW i \in Threads, Leave(i) PROVE SignalInv'
  <2>1. /\ pc[i] = "left" /\ pc'[i] = "release"
        /\ \A j \in Threads \ {i} : pc'[j] = pc[j]
        /\ UNCHANGED <<threads, failed, main>>
        /\ shutdown' = IF i = 1 THEN shutdown \/ threads > 1 ELSE shutdown
    BY <1>8 DEF Leave, Triggered
  <2>2. CASE i = 1
    <3>1. pc'[1] = "release" /\ \A j \in Threads \ {1} : pc'[j] = pc[j]
      BY <2>1, <2>2
    <3>2. threads = 1 \/ shutdown'
      <4>1. threads > 1 => shutdown'
        BY <2>1, <2>2, Zenon
      <4>2. QED
        BY <4>1
    <3>3. ~DropMayPanic => main' = "ended" \/ failed'
      BY <2>1, <2>2
    <3>4. QED
      BY <2>1, <3>1, <3>2, <3>3
  <2>3. CASE i # 1
    <3>1. pc'[1] = pc[1] /\ shutdown' = shutdown
      BY <2>1, <2>3
    <3>2. QED
      BY <2>1, <2>3, <3>1
  <2>4. QED
    BY <2>2, <2>3
<1>9. ASSUME NEW i \in Threads, Release(i) \/ Drained(i) PROVE SignalInv'
  BY <1>9 DEF Release, Drained
<1>10. CASE \/ PollMain
            \/ \E t \in Tasks : Wake(t)
            \/ \E i \in Threads, t \in Tasks :
                 PollTask(i, t) \/ Spawn(i, t) \/ Cancel(i, t)
  BY <1>10 DEF PollMain, Wake, PollTask, Spawn, Cancel
<1>11. CASE UNCHANGED vars
  BY <1>11 DEF vars
<1>12. QED
  BY <1>1, <1>2, <1>3, <1>4, <1>5, <1>6, <1>7, <1>8, <1>9, <1>10, <1>11
     DEF Next, Start, End

(***************************************************************************)
(* Theorems                                                                *)
(***************************************************************************)

\* The invariant holds of block_on and Blocking::block_on, for any number of
\* threads.
THEOREM Invariance == Spec => []IInv
<1>1. Init => IInv
  BY InitInv
<1>2. IInv /\ [Next]_vars => IInv'
  BY TypeStep, PollingStep, HolderStep DEF IInv
<1>3. QED
  BY <1>1, <1>2, PTL DEF Spec

\* Every variable keeps its type.
THEOREM TypeCorrect == Spec => []TypeOK
  BY Invariance, PTL DEF IInv

\* No task stays behind in an executor without threads.
THEOREM NoOrphanHolds == Spec => []NoOrphan
<1>1. IInv => NoOrphan
  BY DEF IInv, TypeOK, HolderInv, NoOrphan, AllGone, Holding
<1>2. QED
  BY <1>1, Invariance, PTL

\* No task enters an executor that is being dropped.
THEOREM ScopeEndsFirstHolds == Spec => ScopeEndsFirst
<1>1. ASSUME IInv, [Next]_vars, NEW t \in Tasks,
             task[t] = "none", task'[t] # "none", NEW k \in Threads
      PROVE  pc[k] # "draining"
  <2> USE <1>1 DEF IInv, TypeOK, Become, Live
  <2>1. PICK i \in Threads : Spawn(i, t)
    <3>1. ~(Start \/ PollMain \/ MainReturns \/ RootReturns)
      BY DEF Start, StartRun, StartWorker, StartFails, PollMain, MainReturns,
             RootReturns
    <3>2. ASSUME NEW u \in Tasks PROVE ~Wake(u)
      BY DEF Wake
    <3>3. ASSUME NEW i \in Threads, NEW u \in Tasks
          PROVE  ~PollTask(i, u) /\ ~TaskReturns(i, u) /\ ~Cancel(i, u)
      BY DEF PollTask, TaskReturns, Cancel, PollingInv
    <3>4. ASSUME NEW i \in Threads
          PROVE  ~(WorkerLeaves(i) \/ Leave(i) \/ Release(i) \/ Drained(i))
      BY DEF WorkerLeaves, Leave, Release, Drained
    <3>5. ASSUME NEW i \in Threads, NEW u \in Tasks, Spawn(i, u)
          PROVE  u = t
      BY <3>5 DEF Spawn
    <3>6. task' # task
      OBVIOUS
    <3>7. QED
      BY <3>1, <3>2, <3>3, <3>4, <3>5, <3>6 DEF Next, End, vars
  <2>2. QED
    BY <2>1 DEF Spawn, InScope, DrainInv, Holding
<1>2. IInv /\ [Next]_vars =>
        (\A t \in Tasks : task[t] = "none" /\ task'[t] # "none" =>
           \A i \in Threads : pc[i] # "draining")
  BY <1>1
<1>3. QED
  BY <1>2, Invariance, PTL DEF Spec, ScopeEndsFirst

THEOREM SignalInvariance == Spec => [](IInv /\ SignalInv)
<1>1. Init => SignalInv
  BY SignalInit
<1>2. IInv /\ SignalInv /\ [Next]_vars => SignalInv'
  BY SignalStep
<1>3. QED
  BY <1>1, <1>2, Invariance, PTL DEF Spec

\* After block_on has returned, a worker that is still there is on its way
\* out, in a poll, or has the signal to leave: none waits for a signal that
\* was never given, unless one of them could not be started.
NoWorkerStuck ==
  pc[1] = "gone" /\ ~failed =>
    \A i \in Threads :
      \/ pc[i] \in {"absent", "left", "release", "draining", "gone"}
      \/ polling[i] # NONE
      \/ shutdown /\ Ticks(i)

THEOREM NoWorkerStuckHolds == Spec => []NoWorkerStuck
<1>1. ASSUME IInv, SignalInv, pc[1] = "gone", ~failed, NEW i \in Threads,
             pc[i] \notin {"absent", "left", "release", "draining", "gone"},
             polling[i] = NONE
      PROVE  shutdown /\ Ticks(i)
  <2>1. pc[i] = "run" /\ i # 1
    BY <1>1, ExecutorAssumption
       DEF IInv, TypeOK, Holding, SignalInv, Threads
  <2>2. threads > 1
    BY <1>1, <2>1 DEF SignalInv
  <2>3. QED
    BY <1>1, <2>1, <2>2, ExecutorAssumption
       DEF IInv, TypeOK, Threads, SignalInv, Past, Ticks
<1>2. IInv /\ SignalInv => NoWorkerStuck
  BY <1>1 DEF NoWorkerStuck
<1>3. QED
  BY <1>2, SignalInvariance, PTL

\* Unless a destructor panics, all the workers that parallelism asks for run
\* from the caller's first poll to the end of its future.
FullyStaffed ==
  ~DropMayPanic /\ pc[1] = "run" => \A i \in 2..threads : pc[i] = "run"

THEOREM FullyStaffedHolds == Spec => []FullyStaffed
<1>1. IInv /\ SignalInv => FullyStaffed
  BY DEF SignalInv, FullyStaffed
<1>2. QED
  BY <1>1, SignalInvariance, PTL

\* block_on returns only once the caller's future has ended, unless a worker
\* could not be started or the destructor of a task unwound through it.
ReturnsOutput ==
  ~DropMayPanic /\ ~failed /\ pc[1] = "gone" => main = "ended"

THEOREM ReturnsOutputHolds == Spec => []ReturnsOutput
<1>1. IInv /\ SignalInv => ReturnsOutput
  BY DEF SignalInv, Past, ReturnsOutput
<1>2. QED
  BY <1>1, SignalInvariance, PTL
=============================================================================
