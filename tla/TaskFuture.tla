----------------------------- MODULE TaskFuture -----------------------------
(***************************************************************************)
(* A spawned task as its executor, its owner and the holders of its        *)
(* CancelHandles see it: task.rs, `TaskFuture` with `TaskHandle` and       *)
(* `JoinHandle`.  Composes Joint (the outcome's way to the owner) and      *)
(* Cancellation (the cancel's way to the task), which meet in three        *)
(* places: a poll or drop that ends the task runs Joint::wake before it    *)
(* returns; the owner polls, cancels and drops one at a time; and dropping *)
(* a TaskHandle cancels before it detaches.                                *)
(***************************************************************************)
EXTENDS Integers, FiniteSets

CONSTANTS Boxes,         \* addresses of boxed wakers
          TaskWakers,    \* wakers the executor polls the task with
          OwnerWakers,   \* wakers the owner polls the handle with
          Owner,         \* the TaskHandle or JoinHandle
          CancelHandles, \* the CancelHandles made from it
          NONE,
          Ordered,       \* as in Cancellation
          DropMayPanic   \* the future's destructor may panic

ASSUME TaskFutureAssumption ==
  /\ "null" \notin Boxes /\ "cancelled" \notin Boxes
  /\ NONE \notin Boxes \cup TaskWakers \cup OwnerWakers
               \cup {"Ok", "Panic", "Cancelled"}
  /\ Owner \notin CancelHandles
  /\ Ordered \in BOOLEAN /\ DropMayPanic \in BOOLEAN

VARIABLES
  handle,       \* what the owner has: "join", "task", or one being dropped
  asked,        \* history: a cancel was called, or a TaskHandle dropped
  outcome,      \* the value given to finish, or NONE
  \* Cancellation
  slot, past, heap, content, taskWoken, pc, cx, spare, current, cpc, cur,
  \* Joint
  stage, result, tpc, replaced, hpc, polling, seen, verdict, taken, joined,
  ownerWoken

\* Results of a task: its value, or an InnerJoinError.
Outcomes == {"Ok", "Panic", "Cancelled"}

C == INSTANCE Cancellation WITH
       Wakers <- TaskWakers, Cancellers <- {Owner} \cup CancelHandles,
       woken <- taskWoken, ended <- outcome

J == INSTANCE Joint WITH
       Wakers <- OwnerWakers,
       Repoll <- FALSE, woken <- ownerWoken

ownerVars  == <<handle, asked>>
\* Each part, without the outcome they share.
cancelVars == <<slot, past, heap, content, taskWoken, pc, cx, spare, current,
                cpc, cur>>
jointVars  == <<stage, result, tpc, replaced, hpc, polling, seen, verdict,
                taken, joined, ownerWoken>>
vars       == <<ownerVars, outcome, cancelVars, jointVars>>

TypeOK ==
  /\ handle \in {"join", "task", "cancelling", "dropping"}
  /\ asked \in BOOLEAN
  /\ C!TypeOK /\ J!TypeOK

Init == handle = "join" /\ asked = FALSE /\ C!Init /\ J!Init

(***************************************************************************)
(* The executor's side                                                     *)
(***************************************************************************)

\* Faulty: a poll that ends the task returns without finish; the destructor
\* finishes a task that has been finished; the task's references are dropped
\* while wake is still running.
TaskStepSilent(A) == A /\ UNCHANGED <<ownerVars, jointVars>>
TaskReleaseFinishing ==
  /\ tpc = "done" /\ pc = "finished"
  /\ outcome' = "Cancelled" /\ tpc' = "load"
  /\ UNCHANGED <<ownerVars, cancelVars, stage, result, replaced, hpc, polling,
                 seen, verdict, taken, joined, ownerWoken>>
TaskReleaseEarly == C!TaskDrop /\ UNCHANGED <<ownerVars, jointVars>>

\* A step of TaskFuture::poll or drop; one that ends the task enters finish.
TaskStep(A) ==
  /\ A
  /\ IF outcome' = outcome THEN UNCHANGED jointVars ELSE J!Finish(outcome')
  /\ UNCHANGED ownerVars

TaskPoll(w) == TaskStep(C!PollStart(w))
TaskRun     == TaskStep(C!PollRest)
TaskAbandon == TaskStep(C!Abandon)

\* `self.joint.wake(value)`
TaskWake == J!Wake /\ UNCHANGED <<ownerVars, cancelVars>>

\* Once finish has returned, or unwound, the executor lets go of the task;
\* the destructor finds no future, and leaves the outcome alone.
TaskRelease ==
  /\ tpc \in {"done", "lost"}
  /\ C!TaskDrop
  /\ UNCHANGED <<ownerVars, jointVars>>

(***************************************************************************)
(* The owner's side                                                        *)
(***************************************************************************)
OwnerFree == handle \in {"join", "task"} /\ hpc = "idle" /\ cpc[Owner] = "held"

\* JoinHandle::attach, TaskHandle::detach
Attach ==
  /\ OwnerFree /\ handle = "join" /\ handle' = "task"
  /\ UNCHANGED <<asked, outcome, cancelVars, jointVars>>

\* Faulty: detach takes the JoinHandle out of a TaskHandle that it drops.
DetachDropping ==
  /\ OwnerFree /\ handle = "task"
  /\ C!CancelLoad(Owner)
  /\ handle' = "join"
  /\ UNCHANGED <<asked, jointVars>>

Detach ==
  /\ OwnerFree /\ handle = "task" /\ handle' = "join"
  /\ UNCHANGED <<asked, outcome, cancelVars, jointVars>>

\* JoinHandle::cancel, and TaskHandle::cancel, which detaches as well.
OwnerCancel ==
  /\ OwnerFree
  /\ C!CancelLoad(Owner)
  /\ handle' = "join" /\ asked' = TRUE
  /\ UNCHANGED jointVars

OwnerCancelRest == C!CancelRest(Owner) /\ UNCHANGED <<ownerVars, jointVars>>

OwnerPoll(w) ==
  /\ OwnerFree
  /\ J!PollLoad(w)
  /\ UNCHANGED <<ownerVars, cancelVars>>

OwnerPollRest == J!PollRest /\ UNCHANGED <<ownerVars, cancelVars>>

\* Faulty: TaskHandle has no destructor of its own.
DropTaskHandleOnly ==
  /\ OwnerFree /\ handle = "task" /\ handle' = "cancelling" /\ asked' = TRUE
  /\ UNCHANGED <<outcome, cancelVars, jointVars>>

\* TaskHandle::drop cancels; the JoinHandle in it is dropped next.
DropTaskHandle ==
  /\ OwnerFree /\ handle = "task"
  /\ C!CancelLoad(Owner)
  /\ handle' = "cancelling" /\ asked' = TRUE
  /\ UNCHANGED jointVars

\* JoinHandle::drop
DropJoinHandle ==
  /\ \/ OwnerFree /\ handle = "join"
     \/ handle = "cancelling" /\ cpc[Owner] = "held"
  /\ J!DropStore
  /\ handle' = "dropping"
  /\ UNCHANGED <<asked, cancelVars>>

DropDetach == J!DropDetach /\ UNCHANGED <<ownerVars, cancelVars>>

\* Last, the handle's Arc<Cancellation>.
DropFields ==
  /\ hpc = "gone"
  /\ C!DropHandle(Owner)
  /\ UNCHANGED <<ownerVars, jointVars>>

\* The drop of a handle that has begun.
DropRest == \/ handle = "cancelling" /\ DropJoinHandle
            \/ DropDetach
            \/ DropFields

\* A CancelHandle, on a thread of its own.
CancelHandleStep(c) ==
  /\ C!Handle(c)
  /\ asked' = (asked \/ C!CancelLoad(c))
  /\ UNCHANGED <<handle, jointVars>>

(***************************************************************************)
(* Specification                                                           *)
(***************************************************************************)
Next ==
  \/ \E w \in TaskWakers : TaskPoll(w)
  \/ TaskRun \/ TaskAbandon \/ TaskWake \/ TaskRelease
  \/ Attach \/ Detach \/ OwnerCancel \/ OwnerCancelRest
  \/ \E w \in OwnerWakers : OwnerPoll(w)
  \/ OwnerPollRest
  \/ DropTaskHandle \/ DropJoinHandle \/ DropDetach \/ DropFields
  \/ \E c \in CancelHandles : CancelHandleStep(c)

\* What has begun runs on, and whoever is woken is polled again; for the
\* owner, that is strong fairness: it may be in the middle of a cancel, and
\* it returns to its executor again and again, not after a last cancel.
Fairness ==
  /\ WF_vars(C!Scheduled /\ \E w \in TaskWakers : TaskPoll(w))
  /\ WF_vars(TaskRun) /\ WF_vars(TaskWake)
  /\ WF_vars(OwnerCancelRest) /\ WF_vars(OwnerPollRest) /\ WF_vars(DropRest)
  /\ SF_vars(polling \in ownerWoken /\ OwnerPoll(polling))
  /\ \A c \in CancelHandles : WF_vars(C!CancelRest(c) /\ CancelHandleStep(c))

Spec == Init /\ [][Next]_vars /\ Fairness

(***************************************************************************)
(* Properties                                                              *)
(***************************************************************************)

\* When the task and every handle are gone, nothing they allocated or stored
\* for one another is left: no box, no outcome and no waker of the owner.
NothingLeft ==
  pc = "gone" /\ (\A c \in {Owner} \cup CancelHandles : cpc[c] = "dropped")
    => heap = {} /\ result = J!Detached

\* A task ends Cancelled only if a cancel was called, a TaskHandle dropped, or
\* the task dropped unfinished by its executor: attaching, detaching and
\* dropping a JoinHandle, in any order, leave it alone.
CancelledForAReason ==
  [][outcome # "Cancelled" /\ outcome' = "Cancelled" =>
       asked \/ TaskAbandon]_vars

\* An owner waiting for a task that is cancelled never waits for nothing: the
\* executor has a reason to poll the task, or a poll, wake or cancel that will
\* bring the answer is running, or the owner has been woken.  Only a panic of
\* the future's destructor leaves it alone.
NoCancelStuck ==
  slot = "cancelled" /\ hpc = "idle" /\ verdict = "pending" =>
    \/ pc = "idle" /\ C!Due
    \/ pc \in {"inner", "update", "swap"}
    \/ tpc \in {"load", "publish", "store", "notify", "reset"}
    \/ polling \in ownerWoken
    \/ tpc = "lost"

\* However an owner's polls alternate with its cancels, attaching and
\* detaching, and whoever ends the task, the executor's dropping it included:
\* its handle is what JoinContract promises, with one outcome for good.
ImplementsContract == J!Contract!Spec

\* An owner that waits on a cancelled task gets its answer, unless it drops
\* the handle first or the destructor of the future panics.
CancelReachesOwner ==
  (slot = "cancelled" /\ verdict = "pending")
    ~> (verdict = "ready" \/ handle \in {"cancelling", "dropping"}
          \/ tpc = "lost")

\* Dropping a TaskHandle ends the task, unless the task installs new wakers
\* for ever.
DropEndsTask ==
  \/ []<><<C!UpdateInstall>>_vars
  \/ handle = "cancelling" ~> pc \in {"finished", "gone"}
=============================================================================
