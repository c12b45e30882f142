-------------------------- MODULE TaskFutureProofs --------------------------
(***************************************************************************)
(* Proofs about TaskFuture: each part keeps its specification in the       *)
(* composition; the inductive invariants of JointProofs and                *)
(* CancellationProofs hold of it together; and from both, with what ties   *)
(* the parts, follow the properties of the whole.  What depends on Ordered *)
(* says so; the rest holds under the weakest memory.                       *)
(***************************************************************************)
EXTENDS TaskFuture, TLAPS

\* The parts' proofs, about the parts of this composition.
CP == INSTANCE CancellationProofs WITH
        Wakers <- TaskWakers, Cancellers <- {Owner} \cup CancelHandles,
        woken <- taskWoken, ended <- outcome

JP == INSTANCE JointProofs WITH
        Wakers <- OwnerWakers,
        Repoll <- FALSE, woken <- ownerWoken

\* How a step of the task's poll or drop may end the task.
LEMMA Endings ==
  ASSUME C!PollRest \/ C!Abandon \/ \E w \in TaskWakers : C!PollStart(w)
  PROVE  outcome' = outcome \/ outcome' \in Outcomes
  BY DEF C!PollRest, C!Abandon, C!PollStart, C!InnerEnds, C!InnerPends,
         C!UpdateLoad, C!UpdateRefused, C!UpdateInstall, C!UpdateRetry,
         C!Finish, C!Endings, Outcomes, C!pointer, C!handleVars, C!taskVars

\* A step of the task's side is one of Cancellation, and of Joint if it ends
\* the task.
LEMMA TaskStepComposes ==
  ASSUME TaskRun \/ TaskAbandon \/ \E w \in TaskWakers : TaskPoll(w)
  PROVE  C!Next /\ (J!Next \/ UNCHANGED J!vars)
<1>1. C!PollRest \/ C!Abandon \/ \E w \in TaskWakers : C!PollStart(w)
  BY DEF TaskPoll, TaskRun, TaskAbandon, TaskStep
<1>2. C!Next
  BY <1>1 DEF C!Next, C!Task
<1>3. CASE outcome' = outcome
  <2>1. UNCHANGED J!vars
    BY <1>3 DEF TaskPoll, TaskRun, TaskAbandon, TaskStep, jointVars,
                J!vars, J!taskVars, J!handleVars, J!pollVars
  <2>2. QED
    BY <1>2, <2>1
<1>4. CASE outcome' # outcome
  <2>1. J!Finish(outcome')
    BY <1>4 DEF TaskPoll, TaskRun, TaskAbandon, TaskStep
  <2>2. outcome' \in Outcomes
    BY <1>1, <1>4, Endings
  <2>3. QED
    BY <1>2, <2>1, <2>2 DEF J!Next
<1>5. QED
  BY <1>3, <1>4

\* Only finish sets the outcome.
LEMMA OutcomeKept ==
  ASSUME J!Wake \/ J!PollRest \/ J!DropStore \/ J!DropDetach
           \/ \E w \in OwnerWakers : J!PollLoad(w)
  PROVE  outcome' = outcome
  BY DEF J!Wake, J!WakeLoad, J!WakePublish, J!WakeStore, J!WakeNotify,
         J!WakeReset, J!PollRest, J!PollTake, J!PollRegister, J!PollSettle,
         J!PollLoad, J!DropStore, J!DropDetach, J!taskVars

\* Every step is one of one part, of both, or of the handle alone.
LEMMA StepComposes ==
  ASSUME [Next]_vars
  PROVE  [C!Next]_(C!vars) /\ [J!Next]_(J!vars)
<1> DEFINE Still == UNCHANGED C!vars
           Quiet == UNCHANGED J!vars
<1>1. UNCHANGED <<outcome, cancelVars>> => Still
  BY DEF cancelVars, C!vars, C!pointer, C!taskVars, C!handleVars
<1>2. UNCHANGED <<outcome, jointVars>> => Quiet
  BY DEF jointVars, J!vars, J!taskVars, J!handleVars, J!pollVars
<1> SUFFICES (C!Next \/ Still) /\ (J!Next \/ Quiet)
  OBVIOUS
<1> HIDE DEF Still, Quiet
<1>3. ASSUME NEW c \in {Owner} \cup CancelHandles, C!Handle(c)
      PROVE  C!Next /\ outcome' = outcome
  BY <1>3 DEF C!Next, C!Handle, C!CancelLoad, C!CancelRest, C!CancelReturn,
         C!CancelTake, C!CancelRetry, C!CancelWake, C!DropHandle, C!taskVars
<1>4. CASE TaskRun \/ TaskAbandon \/ \E w \in TaskWakers : TaskPoll(w)
  BY <1>4, TaskStepComposes DEF Quiet
<1>6. CASE \/ TaskWake \/ OwnerPollRest \/ DropDetach \/ DropJoinHandle
           \/ \E w \in OwnerWakers : OwnerPoll(w)
  <2>1. J!Next /\ outcome' = outcome
    BY <1>6, OutcomeKept
       DEF TaskWake, OwnerPollRest, DropDetach, DropJoinHandle, OwnerPoll,
           J!Next
  <2>2. UNCHANGED cancelVars
    BY <1>6
       DEF TaskWake, OwnerPollRest, DropDetach, DropJoinHandle, OwnerPoll
  <2>3. QED
    BY <1>1, <2>1, <2>2
<1>7. CASE TaskRelease
  BY <1>2, <1>7 DEF TaskRelease, C!Next, C!Task, C!TaskDrop
<1>8. CASE OwnerCancel \/ OwnerCancelRest \/ DropTaskHandle \/ DropFields
  <2>1. C!Handle(Owner) /\ UNCHANGED jointVars
    BY <1>8
       DEF OwnerCancel, OwnerCancelRest, DropTaskHandle, DropFields, C!Handle
  <2>2. QED
    BY <1>2, <1>3, <2>1
<1>9. CASE Attach \/ Detach \/ UNCHANGED vars
  BY <1>1, <1>2, <1>9 DEF Attach, Detach, vars
<1>10. ASSUME NEW c \in CancelHandles, CancelHandleStep(c)
       PROVE  C!Next /\ Quiet
  <2>1. C!Handle(c) /\ UNCHANGED jointVars
    BY <1>10 DEF CancelHandleStep
  <2>2. QED
    BY <1>2, <1>3, <2>1
<1>11. QED
  BY <1>4, <1>6, <1>7, <1>8, <1>9, <1>10 DEF Next

\* The outcome moves only in poll, or where the task is dropped unfinished.
LEMMA OutcomeMoves ==
  ASSUME [Next]_vars, outcome' # outcome
  PROVE  \/ \E w \in TaskWakers : C!PollStart(w)
         \/ C!PollRest
         \/ TaskAbandon
<1>1. CASE TaskRun \/ TaskAbandon \/ \E w \in TaskWakers : TaskPoll(w)
  BY <1>1 DEF TaskRun, TaskPoll, TaskStep
<1>2. CASE \/ TaskWake \/ OwnerPollRest \/ DropDetach \/ DropJoinHandle
           \/ \E w \in OwnerWakers : OwnerPoll(w)
  BY <1>2, OutcomeKept
     DEF TaskWake, OwnerPollRest, DropDetach, DropJoinHandle, OwnerPoll
<1>3. ASSUME NEW c \in {Owner} \cup CancelHandles,
             C!Handle(c)
      PROVE  outcome' = outcome
  BY <1>3 DEF C!Handle, C!CancelLoad, C!CancelRest, C!CancelReturn,
         C!CancelTake, C!CancelRetry, C!CancelWake, C!DropHandle, C!taskVars
<1>4. CASE OwnerCancel \/ OwnerCancelRest \/ DropTaskHandle \/ DropFields
  BY <1>3, <1>4
     DEF OwnerCancel, OwnerCancelRest, DropTaskHandle, DropFields, C!Handle
<1>5. CASE TaskRelease \/ Attach \/ Detach \/ UNCHANGED vars
  BY <1>5 DEF TaskRelease, C!TaskDrop, Attach, Detach, vars
<1>6. ASSUME NEW c \in CancelHandles, CancelHandleStep(c)
      PROVE  outcome' = outcome
  BY <1>3, <1>6 DEF CancelHandleStep
<1>7. QED
  BY <1>1, <1>2, <1>4, <1>5, <1>6 DEF Next

(***************************************************************************)
(* The parts' invariants                                                   *)
(***************************************************************************)

\* What the parts assume of their constants.
LEMMA CancelAssumed == CP!CancellationAssumption
  BY TaskFutureAssumption DEF CP!CancellationAssumption

LEMMA JointAssumed == JP!JointAssumption
  BY TaskFutureAssumption DEF JP!JointAssumption, Outcomes

\* CP and C, JP and J name the same specifications: the definitions agree one
\* by one.
LEMMA SameCancellation ==
  /\ C!Init <=> CP!Init
  /\ [C!Next]_(C!vars) <=> [CP!Next]_(CP!vars)
<1> USE DEF C!pointer, C!taskVars, C!handleVars,
            CP!pointer, CP!taskVars, CP!handleVars
<1>1. C!Init <=> CP!Init
  BY DEF C!Init, CP!Init
<1>2. UNCHANGED C!vars <=> UNCHANGED CP!vars
  BY DEF C!vars, CP!vars
<1>3. C!Task <=> CP!Task
  BY DEF C!Task, C!PollStart, C!PollRest, C!InnerEnds, C!InnerPends,
         C!UpdateLoad, C!UpdateRefused, C!UpdateInstall, C!UpdateRetry,
         C!Abandon, C!TaskDrop, C!Swap, C!Finish, C!Endings, C!Noted,
         C!Refused, C!HandedBack, C!Unshared, C!Released,
         CP!Task, CP!PollStart, CP!PollRest, CP!InnerEnds, CP!InnerPends,
         CP!UpdateLoad, CP!UpdateRefused, CP!UpdateInstall, CP!UpdateRetry,
         CP!Abandon, CP!TaskDrop, CP!Swap, CP!Finish, CP!Endings, CP!Noted,
         CP!Refused, CP!HandedBack, CP!Unshared, CP!Released
<1>4. \A c : C!Handle(c) <=> CP!Handle(c)
  BY DEF C!Handle, C!CancelLoad, C!CancelRest, C!CancelReturn, C!CancelTake,
         C!CancelRetry, C!CancelWake, C!DropHandle, C!Swap, C!Goto, C!Forget,
         C!Newer, C!Readable, C!Woken, C!Unshared, C!Released,
         CP!Handle, CP!CancelLoad, CP!CancelRest, CP!CancelReturn,
         CP!CancelTake, CP!CancelRetry, CP!CancelWake, CP!DropHandle,
         CP!Swap, CP!Goto, CP!Forget, CP!Newer, CP!Readable, CP!Woken,
         CP!Unshared, CP!Released
<1>5. QED
  BY <1>1, <1>2, <1>3, <1>4 DEF C!Next, CP!Next

LEMMA SameJoint ==
  /\ J!Init <=> JP!Init
  /\ [J!Next]_(J!vars) <=> [JP!Next]_(JP!vars)
<1> USE DEF J!taskVars, J!handleVars, J!pollVars, J!Empty, J!Joined,
            J!Detached, J!Joining, J!Finished,
            JP!taskVars, JP!handleVars, JP!pollVars, JP!Empty, JP!Joined,
            JP!Detached, JP!Joining, JP!Finished
<1>1. J!Init <=> JP!Init
  BY DEF J!Init, JP!Init
<1>2. UNCHANGED J!vars <=> UNCHANGED JP!vars
  BY DEF J!vars, JP!vars
<1>3. J!Next <=> JP!Next
  BY DEF J!Next, J!Finish, J!Wake, J!WakeLoad, J!WakePublish, J!WakeStore,
         J!WakeNotify, J!WakeReset, J!PollLoad, J!PollRest, J!PollTake,
         J!PollRegister, J!PollSettle, J!DropStore, J!DropDetach, J!MayPoll,
         J!Left, J!TakeVerdict, J!Registered, J!RegisterVerdict, J!Outgoing,
         J!AfterMatch, J!Notified,
         JP!Next, JP!Finish, JP!Wake, JP!WakeLoad, JP!WakePublish,
         JP!WakeStore, JP!WakeNotify, JP!WakeReset, JP!PollLoad, JP!PollRest,
         JP!PollTake, JP!PollRegister, JP!PollSettle, JP!DropStore,
         JP!DropDetach, JP!MayPoll, JP!Left, JP!TakeVerdict, JP!Registered,
         JP!RegisterVerdict, JP!Outgoing, JP!AfterMatch, JP!Notified
<1>4. QED
  BY <1>1, <1>2, <1>3

\* Where the parts meet: the executor lets go of a task only when finish is
\* over, and its owner of the Cancellation when the Joint is; and a task has
\* an outcome once a poll or a drop has ended it.
TiedInv ==
  /\ pc = "gone" => tpc \in {"done", "lost"}
  /\ cpc[Owner] = "dropped" => hpc = "gone"
  /\ pc \in {"finished", "gone"} <=> outcome # NONE

HandleTyped ==
  handle \in {"join", "task", "cancelling", "dropping"} /\ asked \in BOOLEAN

\* A TaskHandle being dropped has cancelled before it detaches.
DropInv ==
  handle = "cancelling" /\ cpc[Owner] = "held" => slot = "cancelled"

\* A task is cancelled, or about to be, only when someone asked for it.
AskedInv ==
  slot = "cancelled" \/ (\E c \in {Owner} \cup CancelHandles :
                           cpc[c] \in {"swap", "wake"})
    => asked

\* What holds in every build.
WholeInv ==
  /\ CP!OwnerInv /\ JP!IInv
  /\ HandleTyped /\ TiedInv /\ DropInv /\ AskedInv

LEMMA WholeInit == Init => WholeInv /\ CP!CancelInv
<1> SUFFICES ASSUME Init PROVE WholeInv /\ CP!CancelInv
  OBVIOUS
<1>1. CP!CancelInv
  BY CancelAssumed, SameCancellation, CP!InitInv
     DEF Init, CP!CancellationAssumption
<1>2. JP!IInv
  BY JointAssumed, SameJoint, JP!InitInv DEF Init, JP!JointAssumption
<1>3. HandleTyped /\ TiedInv /\ DropInv /\ AskedInv
  BY CancelAssumed
     DEF Init, C!Init, J!Init, HandleTyped, TiedInv, DropInv, AskedInv
<1>4. QED
  BY <1>1, <1>2, <1>3 DEF WholeInv, CP!CancelInv

\* Each part's invariant is kept by its own steps, and StepComposes leaves it
\* no others.
LEMMA PartsStep ==
  ASSUME WholeInv, [Next]_vars
  PROVE  CP!OwnerInv' /\ JP!IInv'
<1>1. [CP!Next]_(CP!vars) /\ [JP!Next]_(JP!vars)
  BY StepComposes, SameCancellation, SameJoint
<1>2. CP!OwnerInv'
  BY <1>1, CancelAssumed, CP!OwnerStepInv
     DEF WholeInv, CP!CancellationAssumption
<1>3. JP!IInv'
  BY <1>1, JointAssumed, JP!StepInv DEF WholeInv, JP!JointAssumption
<1>4. QED
  BY <1>2, <1>3

\* A canceller moves only itself, and is dropped by no cancel.
LEMMA HandleMoves ==
  ASSUME WholeInv, NEW c \in {Owner} \cup CancelHandles, C!Handle(c)
  PROVE  /\ UNCHANGED <<pc, outcome>>
         /\ c # Owner => cpc'[Owner] = cpc[Owner]
         /\ cpc[Owner] = "dropped" => cpc'[Owner] = "dropped"
         /\ C!CancelLoad(c) \/ C!CancelRest(c) => cpc'[c] # "dropped"
<1>1. cpc \in [{Owner} \cup CancelHandles
                 -> {"held", "swap", "wake", "dropped"}]
  BY DEF WholeInv, CP!OwnerInv, CP!TypeOK
<1>2. CASE C!CancelLoad(c) \/ C!CancelRest(c)
  <2>1. cpc[c] \in {"held", "swap", "wake"} /\ UNCHANGED <<pc, outcome>>
    BY <1>2 DEF C!CancelLoad, C!CancelRest, C!CancelReturn, C!CancelTake,
         C!CancelRetry, C!CancelWake, C!taskVars
  <2>2. PICK l \in {"held", "swap", "wake"} : cpc' = [cpc EXCEPT ![c] = l]
    <3>1. CASE C!CancelLoad(c) \/ C!CancelReturn(c) \/ C!CancelTake(c)
                 \/ C!CancelWake(c)
      BY <3>1 DEF C!CancelLoad, C!CancelReturn, C!CancelTake, C!CancelWake,
                  C!Goto
    <3>2. CASE C!CancelRetry(c)
      BY <1>1, <2>1, <3>2 DEF C!CancelRetry
    <3>3. QED
      BY <1>2, <3>1, <3>2 DEF C!CancelRest
  <2>3. QED
    BY <1>1, <2>1, <2>2
<1>3. CASE C!DropHandle(c)
  <2>1. /\ cpc' = [cpc EXCEPT ![c] = "dropped"]
        /\ UNCHANGED <<pc, outcome>>
    BY <1>3 DEF C!DropHandle, C!Goto, C!taskVars
  <2>2. ~(C!CancelLoad(c) \/ C!CancelRest(c))
    BY <1>1, <2>1 DEF C!CancelLoad, C!CancelRest, C!CancelReturn,
         C!CancelTake, C!CancelRetry, C!CancelWake, C!Goto
  <2>3. QED
    BY <1>1, <2>1, <2>2
<1>4. QED
  BY <1>2, <1>3 DEF C!Handle

\* Neither side lets go of the other's memory early.
LEMMA TiedStep ==
  ASSUME WholeInv, [Next]_vars
  PROVE  TiedInv'
<1> USE TaskFutureAssumption DEF TiedInv
<1>1. TiedInv
  BY DEF WholeInv
<1>2. CASE TaskRun \/ TaskAbandon \/ \E w \in TaskWakers : TaskPoll(w)
  <2>1. C!PollRest \/ C!Abandon \/ \E w \in TaskWakers : C!PollStart(w)
    BY <1>2 DEF TaskPoll, TaskRun, TaskAbandon, TaskStep
  <2>2. /\ pc \notin {"finished", "gone"} /\ pc' # "gone" /\ cpc' = cpc
        /\ \/ pc' # "finished" /\ outcome' = outcome
           \/ pc' = "finished" /\ outcome' \in Outcomes
    BY <2>1 DEF C!PollRest, C!Abandon, C!PollStart, C!InnerEnds,
         C!InnerPends, C!UpdateLoad, C!UpdateRefused, C!UpdateInstall,
         C!UpdateRetry, C!Finish, C!Endings, Outcomes, C!pointer,
         C!handleVars
  <2>3. hpc' = hpc
    BY <1>2 DEF TaskPoll, TaskRun, TaskAbandon, TaskStep, jointVars,
                J!Finish, J!handleVars
  <2>4. QED
    BY <1>1, <2>2, <2>3 DEF Outcomes
<1>3. CASE TaskWake
  BY <1>1, <1>3
     DEF TaskWake, cancelVars, J!Wake, J!WakeLoad, J!WakePublish, J!WakeStore,
         J!WakeNotify, J!WakeReset, J!handleVars
<1>4. CASE TaskRelease
  BY <1>1, <1>4 DEF TaskRelease, C!TaskDrop, C!handleVars, jointVars
<1>5. CASE \/ OwnerPollRest \/ DropDetach \/ DropJoinHandle
           \/ \E w \in OwnerWakers : OwnerPoll(w)
  <2>1. hpc # "gone" /\ UNCHANGED <<pc, cpc, tpc, outcome>>
    BY <1>5
       DEF OwnerPollRest, DropDetach, DropJoinHandle, OwnerPoll, cancelVars,
           J!PollRest, J!PollTake, J!PollRegister, J!PollSettle, J!PollLoad,
           J!DropStore, J!DropDetach, J!taskVars
  <2>2. QED
    BY <1>1, <2>1
<1>6. CASE OwnerCancel \/ OwnerCancelRest \/ DropTaskHandle \/ DropFields
  <2>1. C!Handle(Owner) /\ UNCHANGED <<tpc, hpc>>
    BY <1>6
       DEF OwnerCancel, OwnerCancelRest, DropTaskHandle, DropFields,
           C!Handle, jointVars
  <2>2. cpc'[Owner] # "dropped" \/ hpc = "gone"
    BY <1>6, <2>1, HandleMoves
       DEF OwnerCancel, OwnerCancelRest, DropTaskHandle, DropFields
  <2>3. QED
    BY <1>1, <2>1, <2>2, HandleMoves
<1>7. ASSUME NEW c \in CancelHandles, CancelHandleStep(c) PROVE TiedInv'
  <2>1. C!Handle(c) /\ UNCHANGED <<tpc, hpc>> /\ c # Owner
    BY <1>7 DEF CancelHandleStep, jointVars
  <2>2. QED
    BY <1>1, <2>1, HandleMoves
<1>8. CASE Attach \/ Detach \/ UNCHANGED vars
  BY <1>1, <1>8 DEF Attach, Detach, vars, cancelVars, jointVars
<1>9. QED
  BY <1>2, <1>3, <1>4, <1>5, <1>6, <1>7, <1>8 DEF Next

\* Nothing brings back a handle that has been dropped.
LEMMA OwnerStaysDropped ==
  ASSUME WholeInv, [Next]_vars, cpc[Owner] = "dropped"
  PROVE  cpc'[Owner] = "dropped"
<1>1. CASE C!Next
  <2>1. CASE C!Task
    BY <2>1 DEF C!Task, C!PollStart, C!PollRest, C!InnerEnds, C!InnerPends,
         C!UpdateLoad, C!UpdateRefused, C!UpdateInstall, C!UpdateRetry,
         C!Abandon, C!TaskDrop, C!handleVars
  <2>2. QED
    BY <1>1, <2>1, HandleMoves DEF C!Next
<1>2. CASE UNCHANGED C!vars
  BY <1>2 DEF C!vars, C!handleVars
<1>3. QED
  BY <1>1, <1>2, StepComposes

\* The handle begins to be dropped by its cancel alone.
LEMMA HandleStep ==
  ASSUME WholeInv, [Next]_vars
  PROVE  /\ HandleTyped'
         /\ handle' = "cancelling" /\ handle # "cancelling" => DropTaskHandle
<1> USE DEF HandleTyped, ownerVars
<1>1. HandleTyped
  BY DEF WholeInv
<1>2. CASE TaskRun \/ TaskAbandon \/ \E w \in TaskWakers : TaskPoll(w)
  BY <1>1, <1>2 DEF TaskRun, TaskAbandon, TaskPoll, TaskStep
<1>3. CASE TaskWake \/ TaskRelease
  BY <1>1, <1>3 DEF TaskWake, TaskRelease
<1>4. CASE \/ Attach \/ Detach \/ OwnerCancel \/ OwnerCancelRest
           \/ OwnerPollRest \/ \E w \in OwnerWakers : OwnerPoll(w)
  BY <1>1, <1>4 DEF Attach, Detach, OwnerCancel, OwnerCancelRest,
                    OwnerPollRest, OwnerPoll
<1>5. CASE DropTaskHandle
  BY <1>5 DEF DropTaskHandle
<1>6. CASE DropJoinHandle \/ DropDetach \/ DropFields
  BY <1>1, <1>6 DEF DropJoinHandle, DropDetach, DropFields
<1>7. CASE \E c \in CancelHandles : CancelHandleStep(c)
  BY <1>1, <1>7 DEF CancelHandleStep
<1>8. CASE UNCHANGED vars
  BY <1>1, <1>8 DEF vars
<1>9. QED
  BY <1>2, <1>3, <1>4, <1>5, <1>6, <1>7, <1>8 DEF Next

\* Only a cancel of the owner's brings the owner's handle back from one.
LEMMA DropStep ==
  ASSUME WholeInv, [Next]_vars
  PROVE  DropInv'
<1> SUFFICES ASSUME handle' = "cancelling", cpc'[Owner] = "held"
             PROVE  slot' = "cancelled"
  BY DEF DropInv
<1>1. CP!OwnerInv /\ [CP!Next]_(CP!vars)
  BY StepComposes, SameCancellation DEF WholeInv
<1>2. cpc[Owner] \in {"held", "swap", "wake", "dropped"}
  BY <1>1 DEF CP!OwnerInv, CP!TypeOK
<1>3. CASE cpc[Owner] \in {"swap", "wake"}
  BY <1>1, <1>3, CancelAssumed, CP!ReturnsCancelled
     DEF CP!CancellationAssumption
<1>4. CASE cpc[Owner] = "held"
  <2>1. ~DropTaskHandle
    <3>1. cpc \in [{Owner} \cup CancelHandles
                     -> {"held", "swap", "wake", "dropped"}]
      BY <1>1 DEF CP!OwnerInv, CP!TypeOK
    <3>2. QED
      BY <3>1 DEF DropTaskHandle, C!CancelLoad, C!Goto
  <2>2. slot = "cancelled"
    BY <1>4, <2>1, HandleStep DEF WholeInv, DropInv
  <2>3. QED
    BY <1>1, <2>2, CancelAssumed, CP!StaysCancelled
       DEF CP!CancellationAssumption
<1>5. CASE cpc[Owner] = "dropped"
  <2>1. cpc'[Owner] = "dropped"
    BY <1>5, OwnerStaysDropped
  <2>2. QED
    BY <2>1
<1>6. QED
  BY <1>2, <1>3, <1>4, <1>5

\* The pointer becomes CANCELLED, and a cancel begins, by no step of the task
\* and by no step of the owner's but cancel and the drop of a TaskHandle.
LEMMA AskedStep ==
  ASSUME WholeInv, [Next]_vars
  PROVE  AskedInv'
<1> DEFINE Begun(c) == cpc[c] \in {"swap", "wake"}
           All      == {Owner} \cup CancelHandles
<1> SUFFICES ASSUME ~asked'
             PROVE  slot' # "cancelled" /\ \A c \in All : ~Begun(c)'
  BY DEF AskedInv
<1> USE DEF AskedInv
<1>1. /\ AskedInv /\ cpc \in [All -> {"held", "swap", "wake", "dropped"}]
      /\ pc = "swap" => spare \in Boxes
  BY DEF WholeInv, CP!OwnerInv, CP!TypeOK, CP!TaskInv
<1>2. CASE TaskRun \/ TaskAbandon \/ \E w \in TaskWakers : TaskPoll(w)
  <2>1. C!PollRest \/ C!Abandon \/ \E w \in TaskWakers : C!PollStart(w)
    BY <1>2 DEF TaskPoll, TaskRun, TaskAbandon, TaskStep
  <2>2. UNCHANGED <<cpc, asked>>
    BY <1>2, <2>1
       DEF TaskPoll, TaskRun, TaskAbandon, TaskStep, ownerVars,
           C!PollRest, C!Abandon, C!PollStart, C!InnerEnds, C!InnerPends,
           C!UpdateLoad, C!UpdateRefused, C!UpdateInstall, C!UpdateRetry,
           C!handleVars
  <2>3. slot' = slot \/ slot' \in Boxes
    BY <1>1, <2>1
       DEF C!PollRest, C!Abandon, C!PollStart, C!InnerEnds, C!InnerPends,
           C!UpdateLoad, C!UpdateRefused, C!UpdateInstall, C!UpdateRetry,
           C!Swap, C!pointer
  <2>4. QED
    BY <1>1, <2>2, <2>3, TaskFutureAssumption
<1>3. ASSUME NEW c \in All, C!Handle(c), ~C!CancelLoad(c), asked' = asked
      PROVE  slot' # "cancelled" /\ \A d \in All : ~Begun(d)'
  <2>1. ~asked /\ ~Begun(c)
    BY <1>1, <1>3
  <2>2. C!DropHandle(c)
    BY <1>3, <2>1 DEF C!Handle, C!CancelRest, C!CancelReturn, C!CancelTake,
                      C!CancelRetry, C!CancelWake
  <2>3. slot' = slot /\ cpc' = [cpc EXCEPT ![c] = "dropped"]
    BY <2>2 DEF C!DropHandle, C!Goto, C!pointer
  <2>4. QED
    BY <1>1, <2>1, <2>3
<1>4. CASE OwnerCancelRest \/ DropFields
  <2>1. C!Handle(Owner) /\ asked' = asked
    BY <1>4 DEF OwnerCancelRest, DropFields, C!Handle, ownerVars
  <2>2. ~C!CancelLoad(Owner)
    BY <1>1, <1>4
       DEF OwnerCancelRest, DropFields, C!CancelLoad, C!CancelRest,
           C!CancelReturn, C!CancelTake, C!CancelRetry, C!CancelWake,
           C!DropHandle, C!Goto
  <2>3. QED
    BY <1>3, <2>1, <2>2
<1>5. ASSUME NEW c \in CancelHandles, CancelHandleStep(c)
      PROVE  slot' # "cancelled" /\ \A d \in All : ~Begun(d)'
  <2>1. C!Handle(c) /\ ~C!CancelLoad(c) /\ ~asked
    BY <1>5 DEF CancelHandleStep
  <2>2. asked' = asked
    BY <1>5, <2>1 DEF CancelHandleStep, WholeInv, HandleTyped
  <2>3. QED
    BY <1>3, <2>1, <2>2
<1>6. CASE OwnerCancel \/ DropTaskHandle
  BY <1>6 DEF OwnerCancel, DropTaskHandle
<1>7. CASE \/ TaskWake \/ OwnerPollRest \/ DropDetach \/ DropJoinHandle
           \/ \E w \in OwnerWakers : OwnerPoll(w)
  <2>1. UNCHANGED <<asked, slot, cpc>>
    BY <1>7 DEF TaskWake, OwnerPollRest, DropDetach, DropJoinHandle,
                OwnerPoll, ownerVars, cancelVars
  <2>2. QED
    BY <1>1, <2>1
<1>8. CASE TaskRelease \/ Attach \/ Detach \/ UNCHANGED vars
  <2>1. UNCHANGED <<asked, slot, cpc>>
    BY <1>8 DEF TaskRelease, C!TaskDrop, C!pointer, C!handleVars, Attach,
                Detach, vars, ownerVars, cancelVars
  <2>2. QED
    BY <1>1, <2>1
<1>9. QED
  BY <1>2, <1>4, <1>5, <1>6, <1>7, <1>8 DEF Next

LEMMA WholeStep ==
  ASSUME WholeInv, [Next]_vars
  PROVE  WholeInv'
  BY PartsStep, HandleStep, TiedStep, DropStep, AskedStep DEF WholeInv

(***************************************************************************)
(* Theorems                                                                *)
(***************************************************************************)

\* The invariants of both parts hold of the composition, with what ties them.
THEOREM WholeInvariance == Spec => []WholeInv
<1>1. Init => WholeInv
  BY WholeInit
<1>2. WholeInv /\ [Next]_vars => WholeInv'
  BY WholeStep
<1>3. QED
  BY <1>1, <1>2, PTL DEF Spec

\* So does all of Cancellation's, in a build that publishes a box with its
\* pointer.
THEOREM CancelInvariance ==
  ASSUME Ordered
  PROVE  Spec => []CP!CancelInv
<1>1. Init => CP!CancelInv
  BY WholeInit
<1>2. CP!CancelInv /\ [Next]_vars => CP!CancelInv'
  BY StepComposes, SameCancellation, CancelAssumed, CP!StepInv
     DEF CP!CancellationAssumption
<1>3. QED
  BY <1>1, <1>2, PTL DEF Spec

\* Every variable of the task, its owner and its cancellers keeps its type.
THEOREM TypeCorrect == Spec => []TypeOK
<1>1. WholeInv => C!TypeOK
  BY DEF WholeInv, CP!OwnerInv, CP!TypeOK, CP!Pointers,
         C!TypeOK, C!Pointers
<1>2. WholeInv => J!TypeOK
  BY DEF WholeInv, JP!IInv, JP!TypeOK, JP!JoinResult, JP!Empty, JP!Joined,
         JP!Detached, JP!Joining, JP!Finished, J!TypeOK, J!JoinResult,
         J!Empty, J!Joined, J!Detached, J!Joining, J!Finished
<1>3. WholeInv => TypeOK
  BY <1>1, <1>2 DEF WholeInv, HandleTyped, TypeOK
<1>4. QED
  BY <1>3, WholeInvariance, PTL

\* A task that ends Cancelled was asked to, or dropped by its executor: only a
\* call of cancel or the drop of a TaskHandle is a reason, in every build.
THEOREM CancelledForAReasonHolds == Spec => CancelledForAReason
<1>1. ASSUME WholeInv, [Next]_vars, outcome # "Cancelled",
             outcome' = "Cancelled"
      PROVE  asked \/ TaskAbandon
  <2>0. slot = "cancelled" => asked
    BY <1>1 DEF WholeInv, AskedInv
  <2>1. CASE \E w \in TaskWakers : C!PollStart(w)
    BY <1>1, <2>0, <2>1 DEF C!PollStart, C!Finish, WholeInv, CP!OwnerInv,
                                 CP!PastInv
  <2>2. CASE C!PollRest
    <3>1. CASE C!InnerEnds
      BY <1>1, <3>1 DEF C!InnerEnds, C!Finish, C!Endings
    <3>2. CASE C!UpdateRefused
      BY <1>1, <2>0, <3>2 DEF C!UpdateRefused, C!Refused, WholeInv,
                              CP!OwnerInv, CP!PastInv
    <3>3. CASE C!InnerPends \/ C!UpdateLoad \/ C!UpdateInstall
                 \/ C!UpdateRetry
      BY <1>1, <3>3 DEF C!InnerPends, C!UpdateLoad, C!UpdateInstall,
                        C!UpdateRetry
    <3>4. QED
      BY <2>2, <3>1, <3>2, <3>3 DEF C!PollRest
  <2>3. CASE TaskAbandon
    BY <2>3
  <2>4. QED
    BY <1>1, <2>1, <2>2, <2>3, OutcomeMoves
<1>2. QED
  BY <1>1, WholeInvariance, PTL DEF Spec, CancelledForAReason

\* When the task and every handle are gone, no box, no outcome and no waker of
\* the owner is left: whoever of task, owner and cancellers is the last to go
\* frees what is still there, and the owner finds in the cell, or leaves
\* there, no outcome that nobody will drop.
THEOREM NothingLeftHolds == Spec => []NothingLeft
<1>1. ASSUME WholeInv, pc = "gone",
             \A c \in {Owner} \cup CancelHandles : cpc[c] = "dropped"
      PROVE  heap = {} /\ result = J!Detached
  <2>1. CP!TypeOK /\ CP!TaskInv /\ CP!BoxesOwnedOnce
    BY <1>1 DEF WholeInv, CP!OwnerInv
  <2>2. heap \subseteq Boxes /\ NONE \notin Boxes
    BY <2>1, TaskFutureAssumption DEF CP!TypeOK
  <2>3. ASSUME NEW b \in Boxes PROVE b \notin heap
    BY <1>1, <2>1, <2>2
       DEF CP!TaskInv, CP!BoxesOwnedOnce, CP!InSlot, CP!Shared, CP!Taken
  <2>4. tpc \in {"done", "lost"} /\ hpc = "gone"
    BY <1>1 DEF WholeInv, TiedInv
  <2>5. result = JP!Detached
    BY <1>1, <2>4 DEF WholeInv, JP!IInv, JP!DetachedInv
  <2>6. QED
    BY <2>2, <2>3, <2>5 DEF J!Detached, JP!Detached
<1>2. WholeInv => NothingLeft
  BY <1>1 DEF NothingLeft
<1>3. QED
  BY <1>2, WholeInvariance, PTL

\* What the parts promise one by one they promise together, of one and the
\* same task, in every build: no box is leaked or shared, no outcome and no
\* wake-up of the owner is lost, and neither wake nor poll panics.
PartsKept ==
  C!BoxesOwnedOnce /\ J!NoPanic /\ J!NoLostOutcome /\ J!NoLostWakeup

THEOREM PartsKeptHolds == Spec => []PartsKept
<1>1. WholeInv => C!BoxesOwnedOnce
  BY DEF WholeInv, CP!OwnerInv, CP!BoxesOwnedOnce, CP!InSlot,
         CP!Shared, CP!Taken, C!BoxesOwnedOnce, C!InSlot, C!Shared, C!Taken
<1>2. WholeInv => J!NoPanic
  BY DEF WholeInv, JP!IInv, JP!TaskInv, JP!HandleInv, J!NoPanic,
         J!NoUnreachable
<1>3. WholeInv => J!NoLostOutcome
  BY DEF WholeInv, JP!IInv, JP!HandleInv, JP!OutcomeInv, JP!Published,
         JP!HandleHeld, JP!Finished, J!NoLostOutcome, J!Published,
         J!HandleHeld, J!Finished
<1>4. WholeInv => J!NoLostWakeup
  BY DEF WholeInv, JP!IInv, JP!WakerInv, J!NoLostWakeup
<1>5. WholeInv => PartsKept
  BY <1>1, <1>2, <1>3, <1>4 DEF PartsKept
<1>6. QED
  BY <1>5, WholeInvariance, PTL

\* In a build that publishes a box with its pointer, cancel and
\* TaskHandle::drop find the waker of the task's last poll, and no canceller
\* calls through anything but a live Waker.
CancelKept == C!NoLostCancel /\ C!WakesLiveWaker

THEOREM CancelKeptHolds ==
  ASSUME Ordered
  PROVE  Spec => []CancelKept
<1>1. CP!CancelInv => C!NoLostCancel
  BY DEF CP!CancelInv, CP!NoLostCancel, C!NoLostCancel
<1>2. CP!CancelInv => C!WakesLiveWaker
  BY DEF CP!CancelInv, CP!LiveInv, CP!WakesLiveWaker, C!WakesLiveWaker
<1>3. CP!CancelInv => CancelKept
  BY <1>1, <1>2 DEF CancelKept
<1>4. QED
  BY <1>3, CancelInvariance, PTL

\* In such a build, an owner waiting for a task it has cancelled never waits
\* for nothing: the task is due for a poll, or a poll or wake that will bring
\* the answer is running, or the owner has been woken; only a panic of the
\* future's destructor, which is no part of the hand-over, leaves it alone.
THEOREM NoCancelStuckHolds ==
  ASSUME Ordered
  PROVE  Spec => []NoCancelStuck
<1>1. ASSUME WholeInv, slot = "cancelled", hpc = "idle", verdict = "pending",
             pc \in {"finished", "gone"}
      PROVE  \/ tpc \in {"load", "publish", "store", "notify", "reset", "lost"}
             \/ polling \in ownerWoken
  <2>1. tpc # "alive" /\ tpc # "unreachable"
    BY <1>1 DEF WholeInv, TiedInv, JP!IInv, JP!TaskInv
  <2>2. tpc = "done" => polling \in ownerWoken
    BY <1>1 DEF WholeInv, JP!IInv, JP!WakerInv
  <2>3. QED
    BY <1>1, <2>1, <2>2 DEF WholeInv, JP!IInv, JP!TypeOK
<1>2. CP!CancelInv /\ slot = "cancelled" /\ pc = "idle" => C!Due
  BY DEF CP!CancelInv, CP!NoLostCancel, C!Due, C!Scheduled
<1>3. WholeInv =>
        pc \in {"idle", "inner", "update", "swap", "finished", "gone"}
  BY DEF WholeInv, CP!OwnerInv, CP!TypeOK
<1>4. WholeInv /\ CP!CancelInv => NoCancelStuck
  BY <1>1, <1>2, <1>3 DEF NoCancelStuck
<1>5. QED
  BY <1>4, WholeInvariance, CancelInvariance, PTL

\* TaskHandle::drop detaches only a task it has cancelled: its cancel is over,
\* and took effect, before JoinHandle::drop begins.
DropCancels ==
  [][handle = "cancelling" /\ handle' = "dropping" => slot = "cancelled"]_vars

THEOREM DropCancelsHolds == Spec => DropCancels
<1>1. ASSUME WholeInv, [Next]_vars, handle = "cancelling",
             handle' = "dropping"
      PROVE  slot = "cancelled"
  <2>1. DropJoinHandle
    BY <1>1 DEF Next, TaskPoll, TaskRun, TaskAbandon, TaskStep, TaskWake,
         TaskRelease, Attach, Detach, OwnerCancel, OwnerCancelRest,
         OwnerPoll, OwnerPollRest, DropTaskHandle, DropDetach, DropFields,
         CancelHandleStep, ownerVars, vars
  <2>2. QED
    BY <1>1, <2>1 DEF DropJoinHandle, WholeInv, DropInv
<1>2. QED
  BY <1>1, WholeInvariance, PTL DEF Spec, DropCancels

\* A spawned task, with cancels and drops of any of its handles in between,
\* implements the safety part of what JoinHandle promises.
THEOREM JoinContractSafety == Spec => J!Contract!Safe
<1>1. Init => J!Contract!Init
  BY DEF Init, J!Init, J!Contract!Init, J!Published, J!HandleHeld
<1>2. ASSUME WholeInv, [Next]_vars
      PROVE  [J!Contract!Next]_(J!Contract!vars)
  <2>1. JP!IInv /\ [JP!Next]_(JP!vars)
    BY <1>2, StepComposes, SameJoint DEF WholeInv
  <2>2. [JP!Contract!Next]_(JP!Contract!vars)
    BY <2>1, JointAssumed, JP!StepRefines DEF JP!JointAssumption
  <2>3. QED
    BY <2>2
       DEF J!Contract!Next, J!Contract!Send, J!Contract!Wait,
           J!Contract!Receive, J!Contract!Close, J!Contract!vars,
           J!Published, J!HandleHeld,
           JP!Contract!Next, JP!Contract!Send, JP!Contract!Wait,
           JP!Contract!Receive, JP!Contract!Close, JP!Contract!vars,
           JP!Published, JP!HandleHeld
<1>3. QED
  BY <1>1, <1>2, WholeInvariance, PTL DEF Spec, J!Contract!Safe

\* With its owner among the cancellers, on its thread and between its polls,
\* and with cancels on drop, cancelling it is what CancelContract says, in a
\* build that publishes a box with its pointer.
THEOREM CancelContractSafety ==
  ASSUME Ordered
  PROVE  Spec => C!ContractSafe
<1>1. Init => C!Contract!Init
  <2>1. CP!CancellationAssumption
    BY CancelAssumed
  <2>2. QED
    BY <2>1 DEF Init, C!Init, C!Contract!Init, C!Stage, C!Due, C!Scheduled
<1>2. ASSUME CP!CancelInv, [Next]_vars
      PROVE  [C!Contract!Next]_(C!Contract!vars)
  <2> USE DEF C!Stage, C!Due, C!Scheduled, CP!Stage, CP!Due, CP!Scheduled,
              C!Contract!vars, CP!Contract!vars
  <2>1. CP!CancelInv /\ [CP!Next]_(CP!vars)
    BY <1>2, StepComposes, SameCancellation
  <2>2. [CP!Contract!Next]_(CP!Contract!vars)
    BY <2>1, CancelAssumed, CP!StepContract DEF CP!CancellationAssumption
  <2>3. QED
    BY <2>2
       DEF C!Contract!Next, C!Contract!Poll, C!Contract!Pend, C!Contract!End,
           C!Contract!Request,
           CP!Contract!Next, CP!Contract!Poll, CP!Contract!Pend,
           CP!Contract!End, CP!Contract!Request
<1>3. QED
  BY <1>1, <1>2, CancelInvariance, PTL DEF Spec, C!ContractSafe, C!Contract!Safe
=============================================================================
