------------------------------- MODULE Joint --------------------------------
(***************************************************************************)
(* The hand-over of a task's outcome to its JoinHandle, task.rs: `Joint`,  *)
(* `TaskFuture::finish`, `JoinHandle::poll` and `JoinHandle::drop`.  Two   *)
(* threads share a mutex-protected cell `result` and an atomic `stage`     *)
(* accessed with Ordering::Relaxed:                                        *)
(*   - the task's thread finishes the task and runs Joint::wake;           *)
(*   - the thread of the handle's owner polls the handle and drops it.     *)
(* Each section under the mutex is one mem::replace or one assignment, so  *)
(* it is one step; everything between two accesses interleaves.            *)
(*                                                                         *)
(* Relaxed memory.  `stage` is the set of values stored so far.  A relaxed *)
(* load returns any of them, except that a thread never reads a value      *)
(* older than one it has already read (coherence).  Neither thread loads   *)
(* after its own store, and the mutex never orders a store of `stage`      *)
(* before a load of it (wake locks again only once the handle is gone), so *)
(* the lock hides no value from a load.                                    *)
(***************************************************************************)
CONSTANTS Outcomes,     \* values of Result<T, InnerJoinError>
          Wakers,       \* wakers the handle's owner polls with
          NONE,         \* no outcome, no waker
          DropMayPanic, \* the future's destructor may panic
          Repoll        \* the owner may poll on after Ready or a caught panic

ASSUME JointAssumption ==
  /\ NONE \notin Outcomes /\ NONE \notin Wakers
  /\ DropMayPanic \in BOOLEAN /\ Repoll \in BOOLEAN

VARIABLES
  \* Joint
  stage,        \* values the atomic has held
  result,       \* the cell
  \* the task's thread
  outcome,      \* the value given to finish, or NONE
  tpc,          \* where it is in finish
  replaced,     \* what Joint::wake took out of the cell
  \* the thread of the handle's owner
  hpc,          \* where it is in poll or drop
  polling,      \* the waker of the poll in progress or of the last one
  seen,         \* the last value it has read from stage
  verdict,      \* how the last poll ended
  taken,        \* the outcome a poll has moved out of the cell, or NONE
  joined,       \* the outcome a poll returned, or NONE
  woken         \* wakers woken and not consumed by a poll since

taskVars   == <<outcome, tpc, replaced>>
pollVars   == <<polling, seen, verdict, taken, joined>>
handleVars == <<hpc, pollVars>>
vars       == <<stage, result, taskVars, handleVars, woken>>

(***************************************************************************)
(* The cell, JoinResult<T>                                                 *)
(***************************************************************************)
Empty       == [tag |-> "Empty"]
Joined      == [tag |-> "Joined"]
Detached    == [tag |-> "Detached"]
Joining(w)  == [tag |-> "Joining", waker |-> w]
Finished(v) == [tag |-> "Finished", value |-> v]

JoinResult == {Empty, Joined, Detached}
                \cup {Joining(w) : w \in Wakers}
                \cup {Finished(v) : v \in Outcomes}

TypeOK ==
  /\ stage \in SUBSET {"Running", "Finished", "Detached"}
  /\ result \in JoinResult
  /\ outcome \in Outcomes \cup {NONE}
  /\ tpc \in {"alive", "load", "publish", "store", "notify", "reset",
              "done", "lost", "unreachable"}
  /\ replaced \in JoinResult
  /\ hpc \in {"idle", "take", "register", "settle", "detach", "gone"}
  /\ polling \in Wakers \cup {NONE}
  /\ seen \in {"Running", "Finished", "Detached"}
  /\ verdict \in {"none", "polling", "pending", "ready", "already joined",
                  "already detached", "unreachable"}
  /\ taken \in Outcomes \cup {NONE}
  /\ joined \in Outcomes \cup {NONE}
  /\ woken \in SUBSET Wakers

Init ==
  /\ stage = {"Running"}
  /\ result = Empty
  /\ outcome = NONE /\ tpc = "alive" /\ replaced = Empty
  /\ hpc = "idle" /\ polling = NONE /\ seen = "Running"
  /\ verdict = "none" /\ taken = NONE /\ joined = NONE
  /\ woken = {}

(***************************************************************************)
(* The task's thread: TaskFuture::finish, then Joint::wake                 *)
(***************************************************************************)

\* finish(value): `self.future = None` runs the future's destructor.  If it
\* unwinds, the future is gone, `value` is dropped and wake is not called.
Finish(v) ==
  /\ tpc = "alive"
  /\ outcome' = v
  /\ \/ tpc' = "load"
     \/ DropMayPanic /\ tpc' = "lost"
  /\ UNCHANGED <<stage, result, replaced, handleVars, woken>>

\* Faulty: the store of Finished moved up, before the outcome is in the cell.
WakeLoadStoring ==
  /\ tpc = "load"
  /\ \E s \in stage : tpc' = IF s = "Running" THEN "publish" ELSE "done"
  /\ stage' = stage \cup {"Finished"}
  /\ UNCHANGED <<result, outcome, replaced, handleVars, woken>>

\* `if stage != Stage::Running { return; }`
WakeLoad ==
  /\ tpc = "load"
  /\ \E s \in stage : tpc' = IF s = "Running" THEN "publish" ELSE "done"
  /\ UNCHANGED <<stage, result, outcome, replaced, handleVars, woken>>

\* Faulty: the value moved out before it is stored; the value of a task
\* nobody waits for yet dropped.
OutgoingMoved    == Finished(NONE)
OutgoingToWaiter == IF result = Empty THEN Empty ELSE Finished(outcome)

\* `JoinResult::Finished(value)`
Outgoing == Finished(outcome)

\* The first section under the mutex.
WakePublish ==
  /\ tpc = "publish"
  /\ result' = Outgoing
  /\ replaced' = result
  /\ tpc' = "store"
  /\ UNCHANGED <<stage, outcome, handleVars, woken>>

\* `self.stage.store(Stage::Finished)`, after the lock is released.
WakeStore ==
  /\ tpc = "store"
  /\ stage' = stage \cup {"Finished"}
  /\ tpc' = "notify"
  /\ UNCHANGED <<result, outcome, replaced, handleVars, woken>>

\* Faulty: the outcome published to a dropped handle stays in the cell; the
\* cell is reset whoever was found in it; the registered waker is dropped.
AfterMatchKeeping   == "done"
AfterMatchResetting == "reset"
NotifiedNobody      == {}

\* `match result`: where the replaced content of the cell leads.
AfterMatch == CASE replaced.tag \in {"Empty", "Joining"}   -> "done"
                [] replaced.tag \in {"Joined", "Finished"} -> "unreachable"
                [] replaced.tag = "Detached"               -> "reset"

Notified == IF replaced.tag = "Joining" THEN {replaced.waker} ELSE {}

WakeNotify ==
  /\ tpc = "notify"
  /\ tpc' = AfterMatch
  /\ woken' = woken \cup Notified
  /\ UNCHANGED <<stage, result, outcome, replaced, handleVars>>

\* The handle was dropped before the value was published: drop the value.
WakeReset ==
  /\ tpc = "reset"
  /\ result' = Detached
  /\ tpc' = "done"
  /\ UNCHANGED <<stage, outcome, replaced, handleVars, woken>>

Wake == WakeLoad \/ WakePublish \/ WakeStore \/ WakeNotify \/ WakeReset

(***************************************************************************)
(* The handle's thread: JoinHandle::poll                                   *)
(***************************************************************************)
MayPoll == Repoll \/ verdict \in {"none", "pending"}

\* `let stage = self.joint.stage()` and the branch on it.  Starting the poll
\* consumes the notification that led to it.
PollLoad(w) ==
  /\ hpc = "idle" /\ MayPoll
  /\ \E s \in IF seen = "Finished" THEN {"Finished"} ELSE stage :
       /\ hpc' = IF s = "Finished" THEN "take" ELSE "register"
       /\ seen' = s
  /\ polling' = w
  /\ verdict' = "polling"
  /\ woken' = woken \ {w}
  /\ UNCHANGED <<stage, result, taskVars, taken, joined>>

\* Faulty: the fast path copies the outcome.
LeftCopied == IF result.tag = "Finished" THEN result ELSE Joined

\* The fast path: `mem::replace(&mut *lock, JoinResult::Joined)`.
Left == Joined

TakeVerdict == CASE result.tag = "Finished" -> "ready"
                 [] result.tag = "Joined"   -> "already joined"
                 [] result.tag = "Detached" -> "already detached"
                 [] OTHER                   -> "unreachable"

PollTake ==
  /\ hpc = "take"
  /\ result' = Left
  /\ verdict' = TakeVerdict
  /\ joined' = IF verdict' = "ready" THEN result.value ELSE joined
  /\ hpc' = "idle"
  /\ UNCHANGED <<stage, taskVars, polling, seen, taken, woken>>

\* Faulty: the waker of an earlier poll is kept; the slow path does not look
\* at what it replaces.
RegisteredFirst == IF result.tag = "Joining" THEN result ELSE Joining(polling)

RegisterVerdictBlind == "pending"

\* The slow path: `mem::replace(&mut *lock, JoinResult::Joining(waker))`.
\* With an outcome in hand the cell is not settled before a second lock.
Registered == Joining(polling)

RegisterVerdict ==
  CASE result.tag \in {"Empty", "Joining"} -> "pending"
    [] result.tag = "Finished"             -> "polling"
    [] result.tag = "Joined"               -> "already joined"
    [] result.tag = "Detached"             -> "already detached"

PollRegister ==
  /\ hpc = "register"
  /\ result' = Registered
  /\ verdict' = RegisterVerdict
  /\ IF verdict' = "polling" THEN hpc' = "settle" /\ taken' = result.value
                             ELSE hpc' = "idle" /\ taken' = taken
  /\ UNCHANGED <<stage, taskVars, polling, seen, joined, woken>>

PollSettle ==
  /\ hpc = "settle"
  /\ result' = Joined
  /\ verdict' = "ready"
  /\ joined' = taken
  /\ taken' = NONE
  /\ hpc' = "idle"
  /\ UNCHANGED <<stage, taskVars, polling, seen, woken>>

\* What is left of a poll that has loaded the stage.
PollRest == PollTake \/ PollRegister \/ PollSettle

(***************************************************************************)
(* The handle's thread: JoinHandle::drop                                   *)
(***************************************************************************)
DropStore ==
  /\ hpc = "idle"
  /\ stage' = stage \cup {"Detached"}
  /\ hpc' = "detach"
  /\ UNCHANGED <<result, taskVars, pollVars, woken>>

DropDetach ==
  /\ hpc = "detach"
  /\ result' = Detached
  /\ hpc' = "gone"
  /\ UNCHANGED <<stage, taskVars, pollVars, woken>>

(***************************************************************************)
(* Specification                                                           *)
(***************************************************************************)
Next ==
  \/ \E v \in Outcomes : Finish(v)
  \/ Wake
  \/ \E w \in Wakers : PollLoad(w)
  \/ PollRest
  \/ DropStore
  \/ DropDetach

\* A thread that has entered wake, poll or drop runs on; an executor polls
\* the owner's task again once its waker is woken.  Nothing obliges a task
\* to finish, an owner to poll a first time, or to drop its handle.
Repolled == polling \in woken /\ PollLoad(polling)

Fairness == WF_vars(Wake) /\ WF_vars(PollRest) /\ WF_vars(DropDetach)
              /\ WF_vars(Repolled)

Spec == Init /\ [][Next]_vars /\ Fairness

(***************************************************************************)
(* Properties                                                              *)
(***************************************************************************)
Published  == tpc \in {"store", "notify", "reset", "done"}
HandleHeld == hpc \notin {"detach", "gone"}

\* The code's own assertions: neither unreachable!() is reached, that of
\* Joint::wake ("task completed already") and that of JoinHandle::poll ("get
\* no task result after stage finished").
NoUnreachable == tpc # "unreachable" /\ verdict # "unreachable"

\* An owner that stops polling at Ready meets no panic of JoinHandle::poll
\* either: neither "already joined" nor "already detached".
NoPanic ==
  NoUnreachable /\ verdict \notin {"already joined", "already detached"}

\* Once published, and as long as the handle exists, the outcome is somewhere
\* the owner will find it: in the cell, in the hand of a poll between its two
\* locks, or already returned.  No stale stage and no interleaving of wake
\* with a poll leaves it nowhere.
NoLostOutcome ==
  Published /\ HandleHeld =>
    \/ result = Finished(outcome)
    \/ hpc = "settle" /\ taken = outcome
    \/ joined = outcome

\* A task that has left wake has woken the waker of the owner's last poll, if
\* that poll returned Pending: never an older waker, never none.
NoLostWakeup ==
  tpc = "done" /\ hpc = "idle" /\ verdict = "pending" => polling \in woken

\* With both sides through, the cell keeps no outcome alive: whichever of
\* wake and drop comes last, the value has been dropped.
NothingRetained == tpc = "done" /\ hpc = "gone" => result = Detached

\* An outcome that drop or wake drops inside the cell, with the mutex locked,
\* is the last thing the mutex is locked for: a destructor that unwinds
\* poisons a mutex that neither side will lock again.
TaskLocks ==
  \/ tpc \in {"alive", "load", "publish", "reset"}
  \/ tpc \in {"store", "notify"} /\ replaced = Detached

NoLockAfterDrop ==
  [][result.tag = "Finished" /\ result' = Detached =>
       (hpc = "gone" /\ ~TaskLocks)']_vars

\* An outcome is returned by at most one poll, even if the owner polls on.
DeliveredOnce ==
  [][verdict # "ready" /\ verdict' = "ready" => joined = NONE]_vars

\* An owner told to wait gets an answer once the task has finished, unless
\* the future's destructor panicked or the handle is dropped.
WaitingResolves ==
  (outcome # NONE /\ verdict = "pending")
     ~> (verdict = "ready" \/ ~HandleHeld \/ tpc = "lost")

(***************************************************************************)
(* Refinement of the contract: an outcome is sent when wake publishes it,  *)
(* or drops it on finding the handle gone.                                 *)
(***************************************************************************)
Contract == INSTANCE JoinContract WITH
  sent     <- IF Published THEN outcome ELSE NONE,
  received <- joined,
  open     <- HandleHeld,
  waiting  <- HandleHeld /\ joined = NONE /\ polling # NONE
                /\ (hpc = "idle" => verdict = "pending")

ImplementsContract == Contract!Spec
=============================================================================
