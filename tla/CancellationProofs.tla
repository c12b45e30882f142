------------------------- MODULE CancellationProofs -------------------------
(***************************************************************************)
(* Proofs about Cancellation, for any number of boxes, wakers and handles. *)
(* Ownership and finality hold under the weakest memory; that no cancel is *)
(* lost needs Ordered.                                                     *)
(***************************************************************************)
EXTENDS Cancellation, FiniteSetTheorems, TLAPS

\* CANCELLED is in the past of the pointer only once it has become final, and
\* neither update nor a cancel tries with a value the pointer has not held.
PastInv ==
  /\ slot \in past /\ ("cancelled" \in past <=> slot = "cancelled")
  /\ pc = "swap" => current \in past
  /\ \A c \in Cancellers : cpc[c] = "swap" => cur[c] \in past

\* A poll past the future's own holds a box with its waker; a task that has
\* been dropped holds none.
TaskInv ==
  /\ pc \in {"inner", "update", "swap"} => cx # NONE
  /\ pc \in {"update", "swap"} => spare \in Boxes /\ content[spare] = cx
  /\ pc = "gone" => spare = NONE

\* A cancel with a box in hand is the one that cancelled the task.
TakenInv ==
  \A c \in Cancellers :
    cpc[c] = "wake" =>
      /\ cur[c] \in Boxes /\ slot = "cancelled"
      /\ \A d \in Cancellers : cpc[d] = "wake" => d = c

\* Between polls the pointer is at the waker of the last one.
WakerInv ==
  /\ pc = "idle" /\ cx = NONE => slot \in {"null", "cancelled"}
  /\ pc = "idle" /\ cx # NONE /\ slot # "cancelled" =>
       slot \in Boxes /\ content[slot] = cx

\* Every box in the heap holds a waker: it is freed by whoever consumes that.
LiveInv == WakesLiveWaker /\ \A b \in heap : content[b] # NONE

OwnerInv == TypeOK /\ PastInv /\ TaskInv /\ TakenInv /\ BoxesOwnedOnce

CancelInv == OwnerInv /\ WakerInv /\ NoLostCancel /\ LiveInv

LEMMA SmallPair ==
  ASSUME NEW a, NEW b, NEW S, S \subseteq {a, b}
  PROVE  Cardinality(S) <= 2
<1>1. IsFiniteSet({a, b}) /\ Cardinality({a, b}) <= 2
  <2>1. IsFiniteSet({a}) /\ Cardinality({a}) = 1
    BY FS_Singleton
  <2>2. {a, b} = {a} \cup {b}
    OBVIOUS
  <2>3. QED
    BY <2>1, <2>2, FS_AddElement
<1>2. QED
  BY <1>1, FS_Subset, FS_CardinalityType

LEMMA InitInv == Init => CancelInv
<1> USE CancellationAssumption
<1>1. Init => TypeOK
  BY DEF Init, TypeOK, Pointers
<1>2. Init => PastInv /\ TaskInv /\ TakenInv /\ WakerInv /\ NoLostCancel
                /\ LiveInv
  BY DEF Init, PastInv, TaskInv, TakenInv, WakerInv, NoLostCancel, LiveInv,
         WakesLiveWaker
<1>3. Init => BoxesOwnedOnce
  BY DEF Init, BoxesOwnedOnce, InSlot, Taken
<1>4. QED
  BY <1>1, <1>2, <1>3 DEF CancelInv, OwnerInv

\* Type correctness is inductive but for two facts about a box in hand.
LEMMA TypeStep ==
  ASSUME TypeOK, PastInv, TaskInv, TakenInv, [Next]_vars
  PROVE  TypeOK'
<1> USE CancellationAssumption
    DEF TypeOK, Pointers, Finish, Swap, Goto, Forget, pointer, Endings, Noted,
        Refused, HandedBack, Newer, Woken
<1>1. ASSUME NEW w \in Wakers, PollStart(w) PROVE TypeOK'
  BY <1>1 DEF PollStart, handleVars
<1>2. CASE InnerEnds
  BY <1>2 DEF InnerEnds, handleVars
<1>3. CASE InnerPends
  BY <1>3 DEF InnerPends, handleVars
<1>4. CASE UpdateLoad
  BY <1>4 DEF UpdateLoad, handleVars
<1>5. CASE UpdateRefused
  BY <1>5 DEF UpdateRefused, handleVars
<1>6. CASE UpdateInstall
  BY <1>6 DEF UpdateInstall, handleVars, TaskInv
<1>7. CASE UpdateRetry
  BY <1>7 DEF UpdateRetry, handleVars
<1>8. CASE Abandon
  BY <1>8 DEF Abandon, handleVars
<1>9. CASE TaskDrop
  BY <1>9 DEF TaskDrop, handleVars
<1>10. ASSUME NEW c \in Cancellers, CancelLoad(c) PROVE TypeOK'
  BY <1>10 DEF CancelLoad, taskVars
<1>11. ASSUME NEW c \in Cancellers, CancelReturn(c) PROVE TypeOK'
  BY <1>11 DEF CancelReturn, taskVars
<1>12. ASSUME NEW c \in Cancellers, CancelTake(c) PROVE TypeOK'
  BY <1>12 DEF CancelTake, taskVars
<1>13. ASSUME NEW c \in Cancellers, CancelRetry(c) PROVE TypeOK'
  BY <1>13 DEF CancelRetry, taskVars
<1>14. ASSUME NEW c \in Cancellers, CancelWake(c) PROVE TypeOK'
  BY <1>14 DEF CancelWake, Readable, taskVars, TakenInv
<1>15. ASSUME NEW c \in Cancellers, DropHandle(c) PROVE TypeOK'
  BY <1>15 DEF DropHandle, taskVars
<1>16. CASE UNCHANGED vars
  BY <1>16 DEF vars, taskVars, handleVars
<1>17. QED
  BY <1>1, <1>2, <1>3, <1>4, <1>5, <1>6, <1>7, <1>8, <1>9, <1>10, <1>11,
     <1>12, <1>13, <1>14, <1>15, <1>16
     DEF Next, Task, PollRest, Handle, CancelRest

LEMMA LocalStep ==
  ASSUME OwnerInv, [Next]_vars
  PROVE  PastInv' /\ TaskInv' /\ TakenInv'
<1> USE CancellationAssumption
    DEF OwnerInv, TypeOK, Pointers, PastInv, TaskInv, TakenInv, Finish,
        Swap, Goto, Forget, taskVars, handleVars, pointer, Endings, Noted,
        Refused, HandedBack, Newer, Woken
<1>1. ASSUME NEW w \in Wakers, PollStart(w)
      PROVE  PastInv' /\ TaskInv' /\ TakenInv'
  BY <1>1 DEF PollStart
<1>2. CASE InnerEnds
  BY <1>2 DEF InnerEnds
<1>3. CASE InnerPends
  BY <1>3 DEF InnerPends
<1>4. CASE UpdateLoad
  BY <1>4 DEF UpdateLoad
<1>5. CASE UpdateRefused
  BY <1>5 DEF UpdateRefused
<1>6. CASE UpdateInstall
  BY <1>6 DEF UpdateInstall
<1>7. CASE UpdateRetry
  BY <1>7 DEF UpdateRetry
<1>8. CASE Abandon
  BY <1>8 DEF Abandon
<1>9. CASE TaskDrop
  BY <1>9 DEF TaskDrop
<1>10. ASSUME NEW c \in Cancellers, CancelLoad(c)
       PROVE  PastInv' /\ TaskInv' /\ TakenInv'
  BY <1>10 DEF CancelLoad
<1>11. ASSUME NEW c \in Cancellers, CancelReturn(c)
       PROVE  PastInv' /\ TaskInv' /\ TakenInv'
  BY <1>11 DEF CancelReturn
<1>12. ASSUME NEW c \in Cancellers, CancelTake(c)
       PROVE  PastInv' /\ TaskInv' /\ TakenInv'
  BY <1>12 DEF CancelTake
<1>13. ASSUME NEW c \in Cancellers, CancelRetry(c)
       PROVE  PastInv' /\ TaskInv' /\ TakenInv'
  BY <1>13 DEF CancelRetry
<1>14. ASSUME NEW c \in Cancellers, CancelWake(c)
       PROVE  PastInv' /\ TaskInv' /\ TakenInv'
  BY <1>14 DEF CancelWake
<1>15. ASSUME NEW c \in Cancellers, DropHandle(c)
       PROVE  PastInv' /\ TaskInv' /\ TakenInv'
  BY <1>15 DEF DropHandle
<1>16. CASE UNCHANGED vars
  BY <1>16 DEF vars
<1>17. QED
  BY <1>1, <1>2, <1>3, <1>4, <1>5, <1>6, <1>7, <1>8, <1>9, <1>10, <1>11,
     <1>12, <1>13, <1>14, <1>15, <1>16
     DEF Next, Task, PollRest, Handle, CancelRest

\* Each step hands a box from one owner to the next, or frees it.
LEMMA OwnerStep ==
  ASSUME OwnerInv, [Next]_vars
  PROVE  BoxesOwnedOnce'
<1> USE CancellationAssumption
    DEF OwnerInv, TypeOK, Pointers, PastInv, TaskInv, TakenInv, Finish,
        Swap, Goto, Forget, taskVars, handleVars, pointer, Endings, Noted,
        Refused, HandedBack, Newer, Woken, BoxesOwnedOnce, InSlot,
        Taken, Shared
<1>1. ASSUME NEW w \in Wakers, PollStart(w) PROVE BoxesOwnedOnce'
  BY <1>1 DEF PollStart
<1>2. CASE InnerEnds
  BY <1>2 DEF InnerEnds
<1>3. CASE InnerPends
  BY <1>3 DEF InnerPends
<1>4. CASE UpdateLoad
  BY <1>4 DEF UpdateLoad
<1>5. CASE UpdateRefused
  BY <1>5 DEF UpdateRefused
<1>6. CASE UpdateInstall
  <2>1. \A c \in Cancellers : cpc[c] # "wake" /\ cpc'[c] # "wake"
    BY <1>6 DEF UpdateInstall
  <2>2. /\ spare \in Boxes /\ slot # spare
        /\ slot' = spare
        /\ spare' = IF slot = "null" THEN NONE ELSE slot
    BY <1>6 DEF UpdateInstall
  <2>3. \A b \in Boxes : b \in heap <=> spare = b \/ slot = b
    BY <1>6, <2>1 DEF UpdateInstall
  <2>4. Shared /\ Shared' /\ heap' = heap
    BY <1>6 DEF UpdateInstall
  <2>5. ASSUME NEW b \in Boxes
        PROVE  /\ b \in heap' <=> spare' = b \/ slot' = b
               /\ ~(spare' = b /\ slot' = b)
    BY <2>2, <2>3, <2>4
  <2>6. QED
    BY <2>1, <2>4, <2>5
<1>7. CASE UpdateRetry
  BY <1>7 DEF UpdateRetry
<1>8. CASE Abandon
  BY <1>8 DEF Abandon
<1>9. CASE TaskDrop
  BY <1>9 DEF TaskDrop, Released, Unshared
<1>10. ASSUME NEW c \in Cancellers, CancelLoad(c) PROVE BoxesOwnedOnce'
  BY <1>10 DEF CancelLoad
<1>11. ASSUME NEW c \in Cancellers, CancelReturn(c) PROVE BoxesOwnedOnce'
  BY <1>11 DEF CancelReturn
<1>12. ASSUME NEW c \in Cancellers, CancelTake(c) PROVE BoxesOwnedOnce'
  BY <1>12 DEF CancelTake
<1>13. ASSUME NEW c \in Cancellers, CancelRetry(c) PROVE BoxesOwnedOnce'
  BY <1>13 DEF CancelRetry
<1>14. ASSUME NEW c \in Cancellers, CancelWake(c) PROVE BoxesOwnedOnce'
  BY <1>14 DEF CancelWake
<1>15. ASSUME NEW c \in Cancellers, DropHandle(c) PROVE BoxesOwnedOnce'
  BY <1>15 DEF DropHandle, Released, Unshared
<1>16. CASE UNCHANGED vars
  BY <1>16 DEF vars
<1>17. QED
  BY <1>1, <1>2, <1>3, <1>4, <1>5, <1>6, <1>7, <1>8, <1>9, <1>10, <1>11,
     <1>12, <1>13, <1>14, <1>15, <1>16
     DEF Next, Task, PollRest, Handle, CancelRest

LEMMA WakerStep ==
  ASSUME CancelInv, [Next]_vars
  PROVE  WakerInv'
<1> USE CancellationAssumption
    DEF CancelInv, OwnerInv, TypeOK, Pointers, PastInv, TaskInv, WakerInv,
        Finish, Swap, Goto, Forget, taskVars, handleVars, pointer, Endings,
        Noted, Refused, HandedBack, Newer, Woken
<1>1. ASSUME NEW w \in Wakers, PollStart(w) PROVE WakerInv'
  BY <1>1 DEF PollStart
<1>2. CASE InnerEnds
  BY <1>2 DEF InnerEnds
<1>3. CASE InnerPends
  BY <1>3 DEF InnerPends
<1>4. CASE UpdateLoad
  BY <1>4 DEF UpdateLoad
<1>5. CASE UpdateRefused
  BY <1>5 DEF UpdateRefused
<1>6. CASE UpdateInstall
  BY <1>6 DEF UpdateInstall
<1>7. CASE UpdateRetry
  BY <1>7 DEF UpdateRetry
<1>8. CASE Abandon
  BY <1>8 DEF Abandon
<1>9. CASE TaskDrop
  BY <1>9 DEF TaskDrop
<1>10. ASSUME NEW c \in Cancellers, CancelLoad(c) PROVE WakerInv'
  BY <1>10 DEF CancelLoad
<1>11. ASSUME NEW c \in Cancellers, CancelReturn(c) PROVE WakerInv'
  BY <1>11 DEF CancelReturn
<1>12. ASSUME NEW c \in Cancellers, CancelTake(c) PROVE WakerInv'
  BY <1>12 DEF CancelTake
<1>13. ASSUME NEW c \in Cancellers, CancelRetry(c) PROVE WakerInv'
  BY <1>13 DEF CancelRetry
<1>14. ASSUME NEW c \in Cancellers, CancelWake(c) PROVE WakerInv'
  BY <1>14 DEF CancelWake
<1>15. ASSUME NEW c \in Cancellers, DropHandle(c) PROVE WakerInv'
  BY <1>15 DEF DropHandle
<1>16. CASE UNCHANGED vars
  BY <1>16 DEF vars
<1>17. QED
  BY <1>1, <1>2, <1>3, <1>4, <1>5, <1>6, <1>7, <1>8, <1>9, <1>10, <1>11,
     <1>12, <1>13, <1>14, <1>15, <1>16
     DEF Next, Task, PollRest, Handle, CancelRest

LEMMA NoLostCancelStep ==
  ASSUME Ordered, CancelInv, [Next]_vars
  PROVE  NoLostCancel'
<1> USE CancellationAssumption
    DEF CancelInv, OwnerInv, TypeOK, Pointers, PastInv, TaskInv, TakenInv,
        WakerInv, NoLostCancel, Finish, Swap, Goto, Forget, taskVars,
        handleVars, pointer, Endings, Noted, Refused, HandedBack, Newer,
        Woken
<1>1. ASSUME NEW w \in Wakers, PollStart(w) PROVE NoLostCancel'
  BY <1>1 DEF PollStart
<1>2. CASE InnerEnds
  BY <1>2 DEF InnerEnds
<1>3. CASE InnerPends
  BY <1>3 DEF InnerPends
<1>4. CASE UpdateLoad
  BY <1>4 DEF UpdateLoad
<1>5. CASE UpdateRefused
  BY <1>5 DEF UpdateRefused
<1>6. CASE UpdateInstall
  BY <1>6 DEF UpdateInstall
<1>7. CASE UpdateRetry
  BY <1>7 DEF UpdateRetry
<1>8. CASE Abandon
  BY <1>8 DEF Abandon
<1>9. CASE TaskDrop
  BY <1>9 DEF TaskDrop
<1>10. ASSUME NEW c \in Cancellers, CancelLoad(c) PROVE NoLostCancel'
  BY <1>10 DEF CancelLoad
<1>11. ASSUME NEW c \in Cancellers, CancelReturn(c) PROVE NoLostCancel'
  BY <1>11 DEF CancelReturn
<1>12. ASSUME NEW c \in Cancellers, CancelTake(c) PROVE NoLostCancel'
  BY <1>12 DEF CancelTake
<1>13. ASSUME NEW c \in Cancellers, CancelRetry(c) PROVE NoLostCancel'
  BY <1>13 DEF CancelRetry
<1>14. ASSUME NEW c \in Cancellers, CancelWake(c) PROVE NoLostCancel'
  BY <1>14 DEF CancelWake, Readable
<1>15. ASSUME NEW c \in Cancellers, DropHandle(c) PROVE NoLostCancel'
  BY <1>15 DEF DropHandle
<1>16. CASE UNCHANGED vars
  BY <1>16 DEF vars
<1>17. QED
  BY <1>1, <1>2, <1>3, <1>4, <1>5, <1>6, <1>7, <1>8, <1>9, <1>10, <1>11,
     <1>12, <1>13, <1>14, <1>15, <1>16
     DEF Next, Task, PollRest, Handle, CancelRest

\* A canceller reads a box it owns, and that is one with a waker in it.
LEMMA LiveStep ==
  ASSUME Ordered, CancelInv, [Next]_vars
  PROVE  LiveInv'
<1> USE CancellationAssumption
    DEF CancelInv, OwnerInv, TypeOK, LiveInv, WakesLiveWaker
<1>1. ASSUME NEW w \in Wakers, PollStart(w) PROVE LiveInv'
  BY <1>1 DEF PollStart
<1>2. CASE InnerPends
  BY <1>2 DEF InnerPends, Noted, TaskInv
<1>3. ASSUME NEW c \in Cancellers, CancelWake(c) PROVE LiveInv'
  <2>1. cur[c] \in heap
    BY <1>3 DEF CancelWake, TakenInv, BoxesOwnedOnce, Taken
  <2>2. QED
    BY <1>3, <2>1 DEF CancelWake, Readable, Woken
<1>4. CASE \/ InnerEnds \/ UpdateLoad \/ UpdateRefused \/ UpdateInstall
           \/ UpdateRetry \/ Abandon \/ TaskDrop
  BY <1>4 DEF InnerEnds, UpdateLoad, UpdateRefused, UpdateInstall,
              UpdateRetry, Abandon, TaskDrop
<1>5. ASSUME NEW c \in Cancellers,
             \/ CancelLoad(c) \/ CancelReturn(c) \/ CancelTake(c)
             \/ CancelRetry(c) \/ DropHandle(c)
      PROVE  LiveInv'
  BY <1>5 DEF CancelLoad, CancelReturn, CancelTake, CancelRetry, DropHandle
<1>6. CASE UNCHANGED vars
  BY <1>6 DEF vars
<1>7. QED
  BY <1>1, <1>2, <1>3, <1>4, <1>5, <1>6
     DEF Next, Task, PollRest, Handle, CancelRest

\* No step breaks what holds of every build, and none breaks the rest in a
\* build that publishes a box with its pointer.
LEMMA OwnerStepInv ==
  ASSUME OwnerInv, [Next]_vars
  PROVE  OwnerInv'
  BY TypeStep, LocalStep, OwnerStep DEF OwnerInv

LEMMA StepInv ==
  ASSUME Ordered, CancelInv, [Next]_vars
  PROVE  CancelInv'
  BY OwnerStepInv, WakerStep, NoLostCancelStep, LiveStep DEF CancelInv

\* CANCELLED is never replaced, and a poll that meets it ends the task.
LEMMA StaysCancelled ==
  ASSUME OwnerInv, [Next]_vars, slot = "cancelled"
  PROVE  slot' = "cancelled" /\ (pc # "idle" => pc' # "idle")
<1> USE DEF Finish, Swap, taskVars, handleVars, pointer, Refused
<1>1. CASE Task
  BY <1>1 DEF Task, PollRest, PollStart, InnerEnds, InnerPends,
              UpdateLoad, UpdateRefused, UpdateInstall, UpdateRetry,
              Abandon, TaskDrop
<1>2. ASSUME NEW c \in Cancellers, Handle(c)
      PROVE  slot' = "cancelled" /\ pc' = pc
  BY <1>2 DEF Handle, CancelRest, CancelLoad, CancelReturn, CancelTake,
              CancelRetry, CancelWake, DropHandle
<1>3. CASE UNCHANGED vars
  BY <1>3 DEF vars
<1>4. QED
  BY <1>1, <1>2, <1>3 DEF Next

\* A cancel that returns has taken effect, or found that another had.
LEMMA ReturnsCancelled ==
  ASSUME OwnerInv, [Next]_vars, NEW c \in Cancellers,
         cpc[c] \in {"swap", "wake"}, cpc'[c] = "held"
  PROVE  slot' = "cancelled"
<1> USE DEF OwnerInv, TypeOK, PastInv, TakenInv, Goto, Forget, pointer,
            taskVars, handleVars, Swap
<1>1. CASE Task
  BY <1>1 DEF Task, PollStart, PollRest, InnerEnds, InnerPends, UpdateLoad,
              UpdateRefused, UpdateInstall, UpdateRetry, Abandon, TaskDrop
<1>2. ASSUME NEW d \in Cancellers, Handle(d) PROVE slot' = "cancelled"
  <2>1. CASE CancelReturn(d) \/ CancelTake(d) \/ CancelWake(d)
    BY <1>2, <2>1 DEF CancelReturn, CancelTake, CancelWake
  <2>2. CASE CancelLoad(d) \/ CancelRetry(d) \/ DropHandle(d)
    BY <1>2, <2>2 DEF CancelLoad, CancelRetry, DropHandle
  <2>3. QED
    BY <1>2, <2>1, <2>2 DEF Handle, CancelRest
<1>3. CASE UNCHANGED vars
  BY <1>3 DEF vars
<1>4. QED
  BY <1>1, <1>2, <1>3 DEF Next

(***************************************************************************)
(* Theorems                                                                *)
(***************************************************************************)

\* What holds of the pointer and the boxes in every build.
THEOREM OwnerInvariance == Spec => []OwnerInv
<1>1. Init => OwnerInv
  BY InitInv DEF CancelInv
<1>2. OwnerInv /\ [Next]_vars => OwnerInv'
  BY OwnerStepInv
<1>3. QED
  BY <1>1, <1>2, PTL DEF Spec

\* What holds in a build that publishes a box with its pointer.
THEOREM Invariance ==
  ASSUME Ordered
  PROVE  Spec => []CancelInv
<1>1. Init => CancelInv
  BY InitInv
<1>2. CancelInv /\ [Next]_vars => CancelInv'
  BY StepInv
<1>3. QED
  BY <1>1, <1>2, PTL DEF Spec

\* Every variable stays within its type, in every build.
THEOREM TypeCorrect == Spec => []TypeOK
<1>1. OwnerInv => TypeOK
  BY DEF OwnerInv
<1>2. QED
  BY <1>1, OwnerInvariance, PTL

\* Boxes are neither leaked nor freed twice, nor shared, in every build: the
\* pointer alone decides who owns a box.
THEOREM BoxesOwnedOnceHolds == Spec => []BoxesOwnedOnce
<1>1. OwnerInv => BoxesOwnedOnce
  BY DEF OwnerInv
<1>2. QED
  BY <1>1, OwnerInvariance, PTL

\* No task ever keeps a third box.
THEOREM TwoBoxesHolds == Spec => []TwoBoxes
<1>1. ASSUME OwnerInv PROVE TwoBoxes
  <2>1. PICK d : \A c \in Cancellers : cpc[c] = "wake" => cur[c] = d
    <3>1. \A c, e \in Cancellers :
            cpc[c] = "wake" /\ cpc[e] = "wake" => c = e
      BY <1>1 DEF OwnerInv, TakenInv
    <3>2. CASE \E c \in Cancellers : cpc[c] = "wake"
      BY <3>1, <3>2
    <3>3. CASE ~\E c \in Cancellers : cpc[c] = "wake"
      BY <3>3
    <3>4. QED
      BY <3>2, <3>3
  <2>2. CASE slot = "cancelled"
    <3>1. heap \subseteq {spare, d}
      BY <1>1, <2>1, <2>2, CancellationAssumption
         DEF OwnerInv, TypeOK, BoxesOwnedOnce, InSlot, Taken
    <3>2. QED
      BY <3>1, SmallPair DEF TwoBoxes
  <2>3. CASE slot # "cancelled"
    <3>1. heap \subseteq {spare, slot}
      BY <1>1, <2>3
         DEF OwnerInv, TypeOK, TakenInv, BoxesOwnedOnce, InSlot, Taken
    <3>2. QED
      BY <3>1, SmallPair DEF TwoBoxes
  <2>4. QED
    BY <2>2, <2>3
<1>2. QED
  BY <1>1, OwnerInvariance, PTL

\* Once cancelled, a task stays cancelled, and no poll of it returns Pending.
THEOREM CancelIsFinalHolds == Spec => CancelIsFinal
<1>1. OwnerInv /\ [Next]_vars =>
        (slot = "cancelled" =>
           slot' = "cancelled" /\ (pc # "idle" => pc' # "idle"))
  BY StaysCancelled
<1>2. QED
  BY <1>1, OwnerInvariance, PTL DEF Spec, CancelIsFinal

\* A build that publishes a box with its pointer loses no cancel: a cancelled
\* task found pending has its latest waker woken, or about to be.
THEOREM NoLostCancelHolds ==
  ASSUME Ordered
  PROVE  Spec => []NoLostCancel
<1>1. CancelInv => NoLostCancel
  BY DEF CancelInv
<1>2. QED
  BY <1>1, Invariance, PTL

\* In such a build a canceller calls through nothing but live Wakers: what
\* the weakest memory breaks is repaired by ordering the write of a box before
\* the compare_exchange that publishes it, and nothing else is needed.
THEOREM WakesLiveWakerHolds ==
  ASSUME Ordered
  PROVE  Spec => []WakesLiveWaker
<1>1. CancelInv => WakesLiveWaker
  BY DEF CancelInv, LiveInv
<1>2. QED
  BY <1>1, Invariance, PTL

\* cancel never returns without effect, in any build: when it does, whichever
\* canceller was first and however often the task changed its waker under it,
\* the task is cancelled.
ReturnsOnlyCancelled ==
  [][\A c \in Cancellers :
       cpc[c] \in {"swap", "wake"} /\ cpc'[c] = "held"
         => slot' = "cancelled"]_vars

THEOREM CancelTakesEffect == Spec => ReturnsOnlyCancelled
<1>1. OwnerInv /\ [Next]_vars =>
        \A c \in Cancellers :
          cpc[c] \in {"swap", "wake"} /\ cpc'[c] = "held"
            => slot' = "cancelled"
  BY ReturnsCancelled
<1>2. QED
  BY <1>1, OwnerInvariance, PTL DEF Spec, ReturnsOnlyCancelled

(***************************************************************************)
(* Refinement of the contract                                              *)
(***************************************************************************)

\* What every step of the task is in the contract.
LEMMA TaskRefines ==
  ASSUME CancelInv, Task
  PROVE  [Contract!Next]_(Contract!vars)
<1> USE CancellationAssumption
    DEF Contract!vars, Contract!Next, Stage, Due, Scheduled, Finish, Swap,
        handleVars, pointer, Refused
<1>1. ASSUME NEW w \in Wakers, PollStart(w) PROVE Contract!Next
  BY <1>1 DEF PollStart, Contract!Poll, Contract!End
<1>2. ASSUME InnerEnds PROVE Contract!Next
  BY <1>2 DEF InnerEnds, Contract!End
<1>3. ASSUME InnerPends \/ UpdateLoad \/ UpdateRetry \/ TaskDrop
      PROVE  UNCHANGED Contract!vars
  BY <1>3 DEF InnerPends, UpdateLoad, UpdateRetry, TaskDrop
<1>4. ASSUME UpdateRefused PROVE Contract!Next
  BY <1>4 DEF UpdateRefused, Contract!End
<1>5. ASSUME UpdateInstall PROVE Contract!Next
  <2>1. spare \in Boxes
    BY <1>5 DEF UpdateInstall, CancelInv, OwnerInv, TaskInv
  <2>2. slot # "cancelled" /\ slot' # "cancelled"
    BY <1>5, <2>1 DEF UpdateInstall
  <2>3. Contract!Pend
    BY <1>5, <2>2 DEF UpdateInstall, Contract!Pend
  <2>4. QED
    BY <2>3
<1>6. ASSUME Abandon PROVE Contract!Next
  BY <1>6 DEF Abandon, Contract!End
<1>7. QED
  BY <1>1, <1>2, <1>3, <1>4, <1>5, <1>6 DEF Task, PollRest

\* What every step of a handle is: the compare_exchange that cancels is the
\* request, and to wake the task afterwards is to keep it due.
LEMMA HandleRefines ==
  ASSUME CancelInv, CancelInv', NEW c \in Cancellers, Handle(c)
  PROVE  [Contract!Next]_(Contract!vars)
<1> USE CancellationAssumption
    DEF Contract!vars, Contract!Next, Stage, Due, Scheduled, Goto, Forget,
        taskVars, pointer, CancelInv, OwnerInv, TypeOK
<1>1. ASSUME CancelLoad(c) \/ CancelReturn(c) \/ CancelRetry(c) \/ DropHandle(c)
      PROVE  UNCHANGED Contract!vars
  BY <1>1 DEF CancelLoad, CancelReturn, CancelRetry, DropHandle
<1>2. ASSUME CancelTake(c) PROVE Contract!Next
  <2>1. slot # "cancelled" /\ slot' = "cancelled" /\ Stage' = Stage
    BY <1>2 DEF CancelTake, Swap
  <2>2. Due' <=> pc = "idle"
    BY <1>2 DEF CancelTake, Swap, WakerInv
  <2>3. Contract!Request
    BY <2>1, <2>2 DEF Contract!Request
  <2>4. QED
    BY <2>3
<1>3. ASSUME CancelWake(c) PROVE UNCHANGED Contract!vars
  <2>1. slot = "cancelled" /\ UNCHANGED <<slot, Stage>>
    BY <1>3 DEF CancelWake, TakenInv
  <2>2. Due <=> pc = "idle"
    BY <2>1 DEF NoLostCancel
  <2>3. Due' <=> pc = "idle"
    BY <1>3, <2>1 DEF NoLostCancel, CancelWake
  <2>4. QED
    BY <2>1, <2>2, <2>3
<1>4. QED
  BY <1>1, <1>2, <1>3 DEF Handle, CancelRest

LEMMA StepContract ==
  ASSUME Ordered, CancelInv, [Next]_vars
  PROVE  [Contract!Next]_(Contract!vars)
<1>1. CancelInv'
  BY StepInv
<1>2. CASE UNCHANGED vars
  BY <1>2 DEF vars, pointer, taskVars, handleVars, Contract!vars, Stage,
              Due, Scheduled
<1>3. QED
  BY <1>1, <1>2, TaskRefines, HandleRefines DEF Next

\* In a build that publishes a box with its pointer, cancelling a task is what
\* CancelContract says: for any number of boxes, wakers and handles the
\* refinement that the run `cancellation` checks holds.
THEOREM ContractSafeHolds ==
  ASSUME Ordered
  PROVE  Spec => ContractSafe
<1>1. Init => Contract!Init
  BY CancellationAssumption DEF Init, Contract!Init, Stage, Due, Scheduled
<1>2. CancelInv /\ [Next]_vars => [Contract!Next]_(Contract!vars)
  BY StepContract
<1>3. QED
  BY <1>1, <1>2, Invariance, PTL DEF Spec, ContractSafe, Contract!Safe
=============================================================================
