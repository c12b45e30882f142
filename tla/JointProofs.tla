----------------------------- MODULE JointProofs ----------------------------
(***************************************************************************)
(* Proofs about Joint, for every set of outcomes and of wakers, with and   *)
(* without panicking destructors.  For an owner that stops polling at Ready:*)
(* all the safety properties, and that Joint implements JoinContract.  For *)
(* one that polls on as well: all of them but NoPanic and NoLostWakeup, which*)
(* such an owner forfeits.                                                 *)
(***************************************************************************)
EXTENDS Joint, TLAPS

(***************************************************************************)
(* The inductive invariant behind the safety properties, for an owner that *)
(* does not poll after Ready (Repoll = FALSE)                              *)
(***************************************************************************)
Unpublished == tpc \in {"alive", "load", "publish", "lost"}
Notifying   == tpc \in {"store", "notify", "reset"}

\* What the atomic has held, by where the two threads are.
StageInv ==
  /\ "Running" \in stage
  /\ "Finished" \in stage => tpc \in {"notify", "reset", "done"}
  /\ "Detached" \in stage <=> ~HandleHeld
  /\ seen = "Finished" => "Finished" \in stage

\* The task's side: what wake has replaced, and the cell before that.
TaskInv ==
  /\ tpc = "alive" <=> outcome = NONE
  /\ Unpublished /\ hpc # "gone" =>
       result.tag \in {"Empty", "Joining"}
  /\ Unpublished /\ hpc = "gone" => result = Detached
  /\ tpc \in {"store", "notify"} =>
       \/ replaced.tag \in {"Empty", "Joining"}
       \/ replaced = Detached /\ hpc = "gone"
  /\ tpc = "reset" => hpc = "gone"
  /\ tpc # "unreachable"

\* The handle's side: how a poll in progress relates to the cell.
HandleInv ==
  /\ verdict \in {"none", "polling", "pending", "ready"}
  /\ hpc = "idle" => verdict # "polling"
  /\ hpc \in {"take", "register", "settle"} =>
       verdict = "polling" /\ polling \in Wakers
  /\ hpc = "take" => "Finished" \in stage
  /\ verdict = "ready" <=> joined # NONE
  /\ hpc = "settle" => Published /\ taken = outcome

\* The outcome is where the owner will look for it.
OutcomeInv ==
  /\ joined # NONE => Published /\ joined = outcome
  /\ Published /\ HandleHeld /\ joined = NONE /\ hpc # "settle" =>
       result = Finished(outcome)

\* The waker of the last poll is where wake will find it, or has been woken.
WakerInv ==
  hpc = "idle" /\ verdict = "pending" =>
    /\ polling \in Wakers
    /\ Unpublished => result = Joining(polling)
    /\ tpc \in {"store", "notify"} => replaced = Joining(polling)
    /\ tpc = "done" => polling \in woken

\* A cell that both sides have left is Detached.
DetachedInv ==
  hpc = "gone" =>
    \/ result = Detached
    \/ tpc \in {"store", "notify"} /\ replaced = Detached
    \/ tpc = "reset"

IInv == TypeOK /\ StageInv /\ TaskInv /\ HandleInv /\ OutcomeInv /\ WakerInv
          /\ DetachedInv

(***************************************************************************)
(* Proofs                                                                  *)
(***************************************************************************)
LEMMA InitInv == Init => IInv
  BY JointAssumption
  DEF Init, IInv, TypeOK, StageInv, TaskInv, HandleInv, OutcomeInv, WakerInv,
      DetachedInv, Unpublished, Published, HandleHeld, JoinResult, Empty

\* A cell is determined by its tag, its waker and its outcome.
LEMMA CellShape ==
  ASSUME NEW c \in JoinResult
  PROVE  /\ c.tag \in {"Empty", "Joined", "Detached", "Joining", "Finished"}
         /\ c.tag = "Joining" => c.waker \in Wakers /\ c = Joining(c.waker)
         /\ c.tag = "Finished" => c.value \in Outcomes /\ c = Finished(c.value)
         /\ c.tag = "Detached" => c = Detached
  BY DEF JoinResult, Empty, Joined, Detached, Joining, Finished

\* A poll that has read Finished finds the outcome in the cell.
LEMMA TakeFinds ==
  ASSUME IInv, PollTake
  PROVE  /\ Published /\ HandleHeld /\ joined = NONE
         /\ result = Finished(outcome)
         /\ verdict' = "ready" /\ joined' = outcome
<1>1. /\ Published /\ HandleHeld /\ joined = NONE
      /\ result = Finished(outcome)
  BY DEF IInv, StageInv, HandleInv, OutcomeInv, Published, HandleHeld, PollTake
<1>2. verdict' = "ready" /\ joined' = outcome
  BY <1>1 DEF PollTake, TakeVerdict, Finished
<1>3. QED
  BY <1>1, <1>2

\* A poll that registers its waker either comes before the outcome is
\* published, or finds it.
LEMMA RegisterFinds ==
  ASSUME IInv, PollRegister
  PROVE  \/ /\ Unpublished /\ result'.tag = "Joining"
            /\ verdict' = "pending" /\ hpc' = "idle" /\ taken' = taken
         \/ /\ Published /\ joined = NONE
            /\ verdict' = "polling" /\ hpc' = "settle" /\ taken' = outcome
<1> USE DEF IInv, TypeOK, TaskInv, HandleInv, OutcomeInv, Unpublished,
            Published, HandleHeld
<1>1. CASE Unpublished
  <2>1. result.tag \in {"Empty", "Joining"}
    BY <1>1 DEF PollRegister
  <2>2. QED
    BY <1>1, <2>1 DEF PollRegister, RegisterVerdict, Registered, Joining
<1>2. CASE Published
  <2>1. result = Finished(outcome) /\ joined = NONE
    BY <1>2 DEF PollRegister
  <2>2. QED
    BY <1>2, <2>1 DEF PollRegister, RegisterVerdict, Finished
<1>3. QED
  BY <1>1, <1>2

\* A step that leaves every variable alone keeps its type.
LEMMA TypeKept ==
  ASSUME TypeOK,
         UNCHANGED <<stage, result, outcome, tpc, replaced, hpc, polling, seen,
                     verdict, taken, joined, woken>>
  PROVE  TypeOK'
<1>1. (result \in JoinResult /\ replaced \in JoinResult)'
  BY DEF TypeOK
<1>2. (stage \in SUBSET {"Running", "Finished", "Detached"})'
  BY DEF TypeOK
<1>3. (tpc \in {"alive", "load", "publish", "store", "notify", "reset",
               "done", "lost", "unreachable"})'
  BY DEF TypeOK
<1>4. (hpc \in {"idle", "take", "register", "settle", "detach", "gone"})'
  BY DEF TypeOK
<1>5. QED
  BY <1>1, <1>2, <1>3, <1>4 DEF TypeOK

\* And the invariant.
LEMMA InvKept ==
  ASSUME IInv, UNCHANGED vars
  PROVE  IInv'
<1>1. UNCHANGED <<stage, result, outcome, tpc, replaced, hpc, polling, seen,
                  verdict, taken, joined, woken>>
  BY DEF vars, taskVars, handleVars, pollVars
<1>2. UNCHANGED <<Published, HandleHeld, Unpublished>>
  BY <1>1 DEF Published, HandleHeld, Unpublished
<1>3. TypeOK'
  BY <1>1, TypeKept DEF IInv
<1>4. StageInv'
  BY <1>1, <1>2 DEF IInv, StageInv
<1>5. TaskInv'
  BY <1>1, <1>2 DEF IInv, TaskInv, Detached
<1>6. HandleInv'
  BY <1>1, <1>2 DEF IInv, HandleInv
<1>7. OutcomeInv'
  BY <1>1, <1>2 DEF IInv, OutcomeInv, Finished
<1>8. WakerInv'
  BY <1>1, <1>2 DEF IInv, WakerInv, Joining
<1>9. DetachedInv'
  BY <1>1 DEF IInv, DetachedInv, Detached
<1>10. QED
  BY <1>3, <1>4, <1>5, <1>6, <1>7, <1>8, <1>9 DEF IInv

\* No step breaks the invariant, as long as the owner does not poll on.
LEMMA StepInv ==
  ASSUME Repoll = FALSE, IInv, [Next]_vars
  PROVE  IInv'
<1> USE JointAssumption
    DEF IInv, TypeOK, StageInv, TaskInv, HandleInv, OutcomeInv, WakerInv,
        DetachedInv, Unpublished, Published, HandleHeld, taskVars, handleVars,
        pollVars
<1>1. ASSUME NEW v \in Outcomes, Finish(v) PROVE IInv'
  <2>1. TypeOK'
    BY <1>1 DEF Finish
  <2>2. StageInv' /\ TaskInv' /\ HandleInv'
    BY <1>1 DEF Finish
  <2>3. OutcomeInv' /\ WakerInv' /\ DetachedInv'
    BY <1>1 DEF Finish
  <2>4. QED
    BY <2>1, <2>2, <2>3
<1>2. CASE WakeLoad
  <2>1. TypeOK'
    BY <1>2 DEF WakeLoad
  <2>2. StageInv' /\ TaskInv' /\ HandleInv'
    BY <1>2 DEF WakeLoad
  <2>3. OutcomeInv' /\ WakerInv' /\ DetachedInv'
    BY <1>2 DEF WakeLoad
  <2>4. QED
    BY <2>1, <2>2, <2>3
<1>3. CASE WakePublish
  <2>1. outcome \in Outcomes
    BY <1>3 DEF WakePublish
  <2>2. /\ tpc' = "store" /\ replaced' = result /\ result' = Finished(outcome)
        /\ UNCHANGED <<stage, outcome, hpc, polling, seen, verdict, taken,
                       joined, woken>>
    BY <1>3 DEF WakePublish, Outgoing
  <2>3. TypeOK'
    BY <2>1, <2>2 DEF JoinResult
  <2>4. StageInv' /\ HandleInv' /\ OutcomeInv'
    BY <1>3, <2>2 DEF WakePublish
  <2>5. TaskInv' /\ DetachedInv'
    BY <1>3, <2>1, <2>2 DEF WakePublish
  <2>6. WakerInv'
    BY <1>3, <2>2 DEF WakePublish
  <2>7. QED
    BY <2>3, <2>4, <2>5, <2>6
<1>4. CASE WakeStore
  <2>1. TypeOK'
    BY <1>4 DEF WakeStore
  <2>2. StageInv' /\ TaskInv' /\ HandleInv'
    BY <1>4 DEF WakeStore
  <2>3. OutcomeInv' /\ WakerInv' /\ DetachedInv'
    BY <1>4 DEF WakeStore
  <2>4. QED
    BY <2>1, <2>2, <2>3
<1>5. CASE WakeNotify
  <2>1. CASE replaced.tag \in {"Empty", "Joining"}
    <3>1. tpc' = "done"
      BY <1>5, <2>1 DEF WakeNotify, AfterMatch
    <3>2. replaced # Detached
      <4>1. Detached.tag = "Detached"
        BY DEF Detached
      <4>2. QED
        BY <2>1, <4>1
    <3>3. TypeOK' /\ StageInv' /\ TaskInv' /\ HandleInv' /\ OutcomeInv'
      BY <1>5, <2>1, <3>1, CellShape DEF WakeNotify, Notified
    <3>4. DetachedInv'
      BY <1>5, <3>1, <3>2 DEF WakeNotify
    <3>5. WakerInv'
      <4>1. \A w : Joining(w).tag = "Joining" /\ Joining(w).waker = w
        BY DEF Joining
      <4>2. \A w : replaced = Joining(w) => w \in woken'
        BY <1>5, <4>1 DEF WakeNotify, Notified
      <4>3. QED
        BY <1>5, <3>1, <4>2 DEF WakeNotify
    <3>6. QED
      BY <3>3, <3>4, <3>5
  <2>2. CASE replaced = Detached /\ hpc = "gone"
    <3>1. tpc' = "reset" /\ woken' = woken
      BY <1>5, <2>2 DEF WakeNotify, AfterMatch, Notified, Detached
    <3>2. QED
      BY <1>5, <2>2, <3>1 DEF WakeNotify
  <2>3. QED
    BY <1>5, <2>1, <2>2 DEF WakeNotify
<1>6. CASE WakeReset
  <2>1. TypeOK'
    BY <1>6 DEF WakeReset, JoinResult
  <2>2. StageInv' /\ TaskInv' /\ HandleInv' /\ OutcomeInv' /\ WakerInv'
          /\ DetachedInv'
    BY <1>6 DEF WakeReset
  <2>3. QED
    BY <2>1, <2>2
<1>7. ASSUME NEW w \in Wakers, PollLoad(w) PROVE IInv'
  <2>1. /\ verdict \in {"none", "pending"} /\ joined = NONE
        /\ hpc' = "take" => "Finished" \in stage
        /\ hpc' \in {"take", "register"}
        /\ seen' \in stage /\ polling' = w /\ verdict' = "polling"
    BY <1>7 DEF PollLoad, MayPoll
  <2>2. UNCHANGED <<stage, result, outcome, tpc, replaced, taken, joined>>
    BY <1>7 DEF PollLoad
  <2>3. TypeOK'
    BY <1>7, <2>1, <2>2 DEF PollLoad
  <2>4. StageInv' /\ TaskInv' /\ HandleInv' /\ OutcomeInv' /\ WakerInv'
          /\ DetachedInv'
    BY <1>7, <2>1, <2>2 DEF PollLoad
  <2>5. QED
    BY <2>3, <2>4
<1>8. CASE PollTake
  <2>1. /\ Published /\ HandleHeld /\ joined = NONE
        /\ result = Finished(outcome)
        /\ verdict' = "ready" /\ joined' = outcome
    BY <1>8, TakeFinds
  <2>2. TypeOK'
    BY <1>8, <2>1 DEF PollTake, Left, JoinResult
  <2>3. StageInv' /\ TaskInv' /\ HandleInv' /\ OutcomeInv' /\ WakerInv'
          /\ DetachedInv'
    BY <1>8, <2>1 DEF PollTake, Left
  <2>4. QED
    BY <2>2, <2>3
<1>9. CASE PollRegister
  <2>1. \/ /\ Unpublished /\ result'.tag = "Joining"
           /\ verdict' = "pending" /\ hpc' = "idle" /\ taken' = taken
        \/ /\ Published /\ joined = NONE
           /\ verdict' = "polling" /\ hpc' = "settle" /\ taken' = outcome
    BY <1>9, RegisterFinds
  <2>2. TypeOK'
    BY <1>9, <2>1 DEF PollRegister, Registered, JoinResult
  <2>3. StageInv' /\ TaskInv' /\ HandleInv' /\ OutcomeInv' /\ WakerInv'
          /\ DetachedInv'
    BY <1>9, <2>1 DEF PollRegister, Registered
  <2>4. QED
    BY <2>2, <2>3
<1>10. CASE PollSettle
  <2>1. TypeOK'
    BY <1>10 DEF PollSettle, JoinResult
  <2>2. StageInv' /\ TaskInv' /\ HandleInv' /\ OutcomeInv' /\ WakerInv'
          /\ DetachedInv'
    BY <1>10 DEF PollSettle
  <2>3. QED
    BY <2>1, <2>2
<1>11. CASE DropStore
  <2>1. TypeOK'
    BY <1>11 DEF DropStore
  <2>2. StageInv' /\ TaskInv' /\ HandleInv' /\ OutcomeInv' /\ WakerInv'
          /\ DetachedInv'
    BY <1>11 DEF DropStore
  <2>3. QED
    BY <2>1, <2>2
<1>12. CASE DropDetach
  <2>1. TypeOK'
    BY <1>12 DEF DropDetach, JoinResult
  <2>2. StageInv' /\ TaskInv' /\ HandleInv' /\ OutcomeInv' /\ WakerInv'
          /\ DetachedInv'
    BY <1>12 DEF DropDetach
  <2>3. QED
    BY <2>1, <2>2
<1>13. CASE UNCHANGED vars
  BY <1>13, InvKept
<1>14. QED
  BY <1>1, <1>2, <1>3, <1>4, <1>5, <1>6, <1>7, <1>8, <1>9, <1>10, <1>11,
     <1>12, <1>13 DEF Next, Wake, PollRest

(***************************************************************************)
(* Theorems                                                                *)
(***************************************************************************)

\* The invariant holds of every behaviour of task.rs's hand-over in which the
\* owner does not poll after Ready.
THEOREM Invariance ==
  ASSUME Repoll = FALSE
  PROVE  Spec => []IInv
<1>1. Init => IInv
  BY InitInv
<1>2. IInv /\ [Next]_vars => IInv'
  BY StepInv
<1>3. QED
  BY <1>1, <1>2, PTL DEF Spec

\* No unreachable!() and no panic of poll is met: Joint::wake and
\* JoinHandle::poll agree on who has the cell in every interleaving, however
\* stale the stage each of them reads.
THEOREM NoPanicHolds ==
  ASSUME Repoll = FALSE
  PROVE  Spec => []NoPanic
<1>1. IInv => NoPanic
  BY DEF IInv, TaskInv, HandleInv, NoPanic, NoUnreachable
<1>2. QED
  BY <1>1, Invariance, PTL

\* The waker of the owner's last pending poll has been woken once the task
\* has left Joint::wake.
THEOREM NoLostWakeupHolds ==
  ASSUME Repoll = FALSE
  PROVE  Spec => []NoLostWakeup
<1>1. IInv => NoLostWakeup
  BY DEF IInv, WakerInv, NoLostWakeup
<1>2. QED
  BY <1>1, Invariance, PTL

(***************************************************************************)
(* Refinement                                                              *)
(***************************************************************************)
LEMMA InitRefines == Init => Contract!Init
  BY DEF Init, Contract!Init, Published, HandleHeld

LEMMA StepRefines ==
  ASSUME Repoll = FALSE, IInv, [Next]_vars
  PROVE  [Contract!Next]_(Contract!vars)
<1> USE JointAssumption
    DEF Published, HandleHeld, Contract!vars, Contract!Next, taskVars,
        handleVars, pollVars
<1>0. /\ outcome \in Outcomes \cup {NONE}
      /\ tpc = "alive" <=> outcome = NONE
      /\ hpc \in {"take", "register", "settle"} =>
           verdict = "polling" /\ polling # NONE
      /\ verdict = "ready" <=> joined # NONE
  BY DEF IInv, TypeOK, TaskInv, HandleInv
<1>1. ASSUME NEW v \in Outcomes, Finish(v) PROVE UNCHANGED Contract!vars
  BY <1>1 DEF Finish
<1>2. ASSUME WakeLoad PROVE [Contract!Next]_(Contract!vars)
  <2>1. outcome \in Outcomes /\ ~Published
    BY <1>0, <1>2 DEF WakeLoad
  <2>2. CASE tpc' = "publish"
    BY <1>2, <2>2 DEF WakeLoad
  <2>3. CASE tpc' = "done"
    <3>1. Contract!Send(outcome)
      BY <1>2, <2>1, <2>3 DEF WakeLoad, Contract!Send
    <3>2. QED
      BY <2>1, <3>1
  <2>4. QED
    BY <1>2, <2>2, <2>3 DEF WakeLoad
<1>3. ASSUME WakePublish PROVE Contract!Next
  <2>1. outcome \in Outcomes
    BY <1>0, <1>3 DEF WakePublish
  <2>2. Contract!Send(outcome)
    BY <1>3 DEF WakePublish, Contract!Send
  <2>3. QED
    BY <2>1, <2>2
<1>4. ASSUME WakeStore PROVE UNCHANGED Contract!vars
  BY <1>4 DEF WakeStore
<1>5. ASSUME WakeNotify PROVE UNCHANGED Contract!vars
  <2>1. tpc' \in {"done", "reset"}
    BY <1>5, StepInv DEF WakeNotify, IInv, TaskInv, AfterMatch, Detached
  <2>2. QED
    BY <1>5, <2>1 DEF WakeNotify
<1>6. ASSUME WakeReset PROVE UNCHANGED Contract!vars
  BY <1>6 DEF WakeReset
<1>7. ASSUME NEW w \in Wakers, PollLoad(w)
      PROVE  [Contract!Next]_(Contract!vars)
  BY <1>0, <1>7 DEF PollLoad, MayPoll, Contract!Wait
<1>8. ASSUME PollTake PROVE Contract!Next
  <2>1. Published /\ joined = NONE /\ joined' = outcome /\ verdict' = "ready"
    BY <1>8, TakeFinds
  <2>2. outcome # NONE
    BY <1>0, <2>1
  <2>3. Contract!Receive
    BY <1>0, <1>8, <2>1, <2>2 DEF PollTake, Contract!Receive
  <2>4. QED
    BY <2>3
<1>9. ASSUME PollRegister PROVE UNCHANGED Contract!vars
  BY <1>0, <1>9, RegisterFinds DEF PollRegister
<1>10. ASSUME PollSettle PROVE Contract!Next
  <2>1. Contract!Receive
    BY <1>0, <1>10 DEF PollSettle, IInv, HandleInv, Contract!Receive
  <2>2. QED
    BY <2>1
<1>11. ASSUME DropStore PROVE Contract!Next
  BY <1>11 DEF DropStore, Contract!Close
<1>12. ASSUME DropDetach PROVE UNCHANGED Contract!vars
  BY <1>12 DEF DropDetach
<1>13. ASSUME UNCHANGED vars PROVE UNCHANGED Contract!vars
  BY <1>13 DEF vars
<1>14. QED
  BY <1>1, <1>2, <1>3, <1>4, <1>5, <1>6, <1>7, <1>8, <1>9, <1>10, <1>11,
     <1>12, <1>13 DEF Next, Wake, PollRest

\* The hand-over implements the safety part of what JoinHandle promises.
THEOREM ContractSafety ==
  ASSUME Repoll = FALSE
  PROVE  Spec => Contract!Safe
<1>1. Init => Contract!Init
  BY InitRefines
<1>2. IInv /\ [Next]_vars => [Contract!Next]_(Contract!vars)
  BY StepRefines
<1>3. QED
  BY <1>1, <1>2, Invariance, PTL DEF Spec, Contract!Safe

(***************************************************************************)
(* Whatever the owner does: it may poll on (Repoll = TRUE)                 *)
(***************************************************************************)

\* wake puts an outcome into the cell once; from then on it can only be taken
\* out of it, and a poll that holds it is on its way to return it.
PastPublish == tpc \in {"store", "notify", "reset", "done", "unreachable"}
CellSpent   == PastPublish /\ result.tag # "Finished"

SpentInv ==
  /\ tpc # "alive" => outcome \in Outcomes
  /\ hpc = "register" => polling \in Wakers
  /\ result.tag = "Finished" => PastPublish
  /\ hpc = "settle" \/ joined # NONE => CellSpent
  /\ hpc = "settle" => joined = NONE

OnceInv == TypeOK /\ SpentInv

LEMMA OnceInit == Init => OnceInv
  BY JointAssumption DEF Init, OnceInv, TypeOK, SpentInv, JoinResult, Empty

\* What the operations put into the cell.
LEMMA Tags ==
  /\ Joined.tag # "Finished" /\ Detached.tag # "Finished"
  /\ \A w : Joining(w).tag # "Finished"
  /\ Joined \in JoinResult /\ Detached \in JoinResult
  /\ \A w \in Wakers : Joining(w) \in JoinResult
  /\ \A v \in Outcomes : Finished(v) \in JoinResult
  BY DEF Joined, Detached, Joining, Finished, JoinResult

\* The three `match`es on the content of the cell.
LEMMA Matches ==
  ASSUME TypeOK
  PROVE  /\ AfterMatch \in {"done", "reset", "unreachable"}
         /\ AfterMatch = "reset" <=> replaced = Detached
         /\ Notified \subseteq Wakers
         /\ TakeVerdict \in {"ready", "already joined", "already detached",
                             "unreachable"}
         /\ TakeVerdict = "ready" => result.tag = "Finished"
         /\ RegisterVerdict \in {"pending", "polling", "already joined",
                                 "already detached"}
         /\ RegisterVerdict = "polling" => result.tag = "Finished"
<1>1. /\ AfterMatch \in {"done", "reset", "unreachable"}
      /\ AfterMatch = "reset" <=> replaced = Detached
      /\ Notified \subseteq Wakers
  <2>1. replaced \in JoinResult /\ Detached.tag = "Detached"
    BY DEF TypeOK, Detached
  <2>2. QED
    BY <2>1, CellShape DEF AfterMatch, Notified
<1>2. result.tag \in {"Empty", "Joined", "Detached", "Joining", "Finished"}
  BY CellShape DEF TypeOK
<1>3. /\ TakeVerdict \in {"ready", "already joined", "already detached",
                          "unreachable"}
      /\ TakeVerdict = "ready" => result.tag = "Finished"
  BY <1>2 DEF TakeVerdict
<1>4. /\ RegisterVerdict \in {"pending", "polling", "already joined",
                              "already detached"}
      /\ RegisterVerdict = "polling" => result.tag = "Finished"
  BY <1>2 DEF RegisterVerdict
<1>5. QED
  BY <1>1, <1>3, <1>4

\* No step brings a second outcome into the cell, or one back into it.
LEMMA OnceStep ==
  ASSUME OnceInv, [Next]_vars
  PROVE  OnceInv'
<1> USE JointAssumption
    DEF OnceInv, TypeOK, SpentInv, PastPublish, CellSpent, taskVars, pollVars,
            handleVars
<1>1. ASSUME NEW v \in Outcomes, Finish(v) PROVE OnceInv'
  <2>1. TypeOK'
    BY <1>1 DEF Finish
  <2>2. SpentInv'
    BY <1>1 DEF Finish
  <2>3. QED
    BY <2>1, <2>2
<1>2. CASE WakeLoad
  <2>1. TypeOK'
    BY <1>2 DEF WakeLoad
  <2>2. SpentInv'
    BY <1>2 DEF WakeLoad
  <2>3. QED
    BY <2>1, <2>2
<1>3. CASE WakePublish
  <2>1. TypeOK'
    BY <1>3, Tags DEF WakePublish, Outgoing
  <2>2. SpentInv'
    BY <1>3, Tags DEF WakePublish, Outgoing
  <2>3. QED
    BY <2>1, <2>2
<1>4. CASE WakeStore
  <2>1. TypeOK'
    BY <1>4 DEF WakeStore
  <2>2. SpentInv'
    BY <1>4 DEF WakeStore
  <2>3. QED
    BY <2>1, <2>2
<1>5. CASE WakeNotify
  <2>1. /\ tpc' \in {"done", "reset", "unreachable"} /\ woken' \subseteq Wakers
        /\ UNCHANGED <<stage, result, outcome, replaced, hpc, polling, seen,
                       verdict, taken, joined>>
    BY <1>5, Matches DEF WakeNotify
  <2>2. TypeOK'
    BY <1>5, <2>1 DEF WakeNotify
  <2>3. SpentInv'
    BY <1>5, <2>1 DEF WakeNotify
  <2>4. QED
    BY <2>2, <2>3
<1>6. CASE WakeReset
  <2>1. TypeOK'
    BY <1>6, Tags DEF WakeReset
  <2>2. SpentInv'
    BY <1>6, Tags DEF WakeReset
  <2>3. QED
    BY <2>1, <2>2
<1>7. ASSUME NEW w \in Wakers, PollLoad(w) PROVE OnceInv'
  <2>1. TypeOK'
    BY <1>7 DEF PollLoad
  <2>2. SpentInv'
    BY <1>7 DEF PollLoad
  <2>3. QED
    BY <2>1, <2>2
<1>8. CASE PollTake
  <2>1. /\ result' = Joined /\ hpc' = "idle"
        /\ verdict' \in {"ready", "already joined", "already detached",
                         "unreachable"}
        /\ \/ joined' = joined
           \/ result.tag = "Finished" /\ joined' = result.value
    <3>1. /\ result' = Joined /\ hpc' = "idle" /\ verdict' = TakeVerdict
          /\ joined' = IF verdict' = "ready" THEN result.value ELSE joined
      BY <1>8 DEF PollTake, Left
    <3>2. /\ TakeVerdict \in {"ready", "already joined", "already detached",
                              "unreachable"}
          /\ TakeVerdict = "ready" => result.tag = "Finished"
      BY Matches
    <3>3. QED
      BY <3>1, <3>2
  <2>2. joined' \in Outcomes \cup {NONE}
    BY <2>1, CellShape
  <2>3. TypeOK'
    BY <1>8, <2>1, <2>2, Tags DEF PollTake
  <2>4. SpentInv'
    BY <1>8, <2>1, Tags DEF PollTake
  <2>5. QED
    BY <2>3, <2>4
<1>9. CASE PollRegister
  <2>1. /\ result' = Joining(polling)
        /\ verdict' \in {"pending", "polling", "already joined",
                         "already detached"}
        /\ \/ hpc' = "idle" /\ taken' = taken
           \/ hpc' = "settle" /\ taken' = result.value
                /\ result.tag = "Finished"
    BY <1>9, Matches DEF PollRegister, Registered
  <2>2. taken' \in Outcomes \cup {NONE}
    BY <2>1, CellShape
  <2>3. TypeOK'
    BY <1>9, <2>1, <2>2, Tags DEF PollRegister
  <2>4. SpentInv'
    BY <1>9, <2>1, Tags DEF PollRegister
  <2>5. QED
    BY <2>3, <2>4
<1>10. CASE PollSettle
  <2>1. TypeOK'
    BY <1>10, Tags DEF PollSettle
  <2>2. SpentInv'
    BY <1>10, Tags DEF PollSettle
  <2>3. QED
    BY <2>1, <2>2
<1>11. CASE DropStore
  <2>1. TypeOK'
    BY <1>11 DEF DropStore
  <2>2. SpentInv'
    BY <1>11 DEF DropStore
  <2>3. QED
    BY <2>1, <2>2
<1>12. CASE DropDetach
  <2>1. TypeOK'
    BY <1>12, Tags DEF DropDetach
  <2>2. SpentInv'
    BY <1>12, Tags DEF DropDetach
  <2>3. QED
    BY <2>1, <2>2
<1>13. CASE UNCHANGED vars
  <2>1. UNCHANGED <<stage, result, outcome, tpc, replaced, hpc, polling, seen,
                    verdict, taken, joined, woken>>
    BY <1>13 DEF vars
  <2>2. TypeOK'
    BY <2>1, TypeKept
  <2>3. SpentInv'
    BY <2>1
  <2>4. QED
    BY <2>2, <2>3
<1>14. QED
  BY <1>1, <1>2, <1>3, <1>4, <1>5, <1>6, <1>7, <1>8, <1>9, <1>10, <1>11,
     <1>12, <1>13 DEF Next, Wake, PollRest

\* Only a handle that is gone leaves Detached in the cell, for wake to find;
\* and once it is gone, that is what wake finds or leaves there.
LeftInv ==
  /\ result = Detached => hpc = "gone"
  /\ tpc \in {"store", "notify"} /\ replaced = Detached => hpc = "gone"
  /\ tpc = "reset" => hpc = "gone"
  /\ DetachedInv

LEMMA LeftInit == Init => LeftInv
  BY DEF Init, LeftInv, DetachedInv, Empty, Detached

LEMMA DetachedAlone ==
  /\ Joined # Detached
  /\ \A w : Joining(w) # Detached
  /\ \A v : Finished(v) # Detached
  BY DEF Joined, Joining, Finished, Detached

LEMMA LeftStep ==
  ASSUME OnceInv, LeftInv, [Next]_vars
  PROVE  LeftInv'
<1> USE DEF LeftInv, DetachedInv, taskVars, pollVars, handleVars
<1>1. ASSUME NEW v \in Outcomes, Finish(v) PROVE LeftInv'
  BY <1>1 DEF Finish
<1>2. CASE WakeLoad \/ WakeStore
  BY <1>2 DEF WakeLoad, WakeStore
<1>3. CASE WakePublish
  BY <1>3, DetachedAlone DEF WakePublish, Outgoing
<1>4. CASE WakeNotify
  <2>1. /\ tpc' \in {"done", "reset", "unreachable"}
        /\ tpc' = "reset" <=> replaced = Detached
        /\ UNCHANGED <<result, replaced, hpc>>
    BY <1>4, Matches DEF WakeNotify, OnceInv
  <2>2. QED
    BY <1>4, <2>1 DEF WakeNotify
<1>5. CASE WakeReset
  BY <1>5 DEF WakeReset
<1>6. ASSUME NEW w \in Wakers, PollLoad(w) PROVE LeftInv'
  BY <1>6 DEF PollLoad
<1>7. CASE PollTake \/ PollRegister \/ PollSettle
  <2>1. /\ hpc # "gone" /\ hpc' # "gone" /\ result' # Detached
        /\ UNCHANGED <<tpc, replaced>>
    BY <1>7, DetachedAlone
       DEF PollTake, Left, PollRegister, Registered, PollSettle
  <2>2. QED
    BY <2>1
<1>8. CASE DropStore \/ DropDetach
  BY <1>8 DEF DropStore, DropDetach
<1>9. CASE UNCHANGED vars
  BY <1>9 DEF vars
<1>10. QED
  BY <1>1, <1>2, <1>3, <1>4, <1>5, <1>6, <1>7, <1>8, <1>9
     DEF Next, Wake, PollRest

\* A published outcome moves from the cell to a poll between its locks to the
\* owner, and what the three places hold is what was given to finish.
FoundInv ==
  /\ "Detached" \in stage => ~HandleHeld
  /\ "Finished" \in stage => tpc \in {"notify", "reset", "done", "unreachable"}
  /\ result.tag = "Finished" => result = Finished(outcome)
  /\ hpc = "settle" => taken = outcome
  /\ NoLostOutcome

LEMMA FoundInit == Init => FoundInv
  BY DEF Init, FoundInv, NoLostOutcome, Published, HandleHeld, Empty

LEMMA FoundStep ==
  ASSUME OnceInv, LeftInv, FoundInv, [Next]_vars
  PROVE  FoundInv'
<1> USE DEF FoundInv, NoLostOutcome, Published, HandleHeld, taskVars, pollVars,
            handleVars
<1>1. ASSUME NEW v \in Outcomes, Finish(v) PROVE FoundInv'
  <2>1. result.tag # "Finished"
    BY <1>1 DEF Finish, OnceInv, SpentInv, PastPublish
  <2>2. hpc # "settle"
    BY <1>1 DEF Finish, OnceInv, SpentInv, CellSpent, PastPublish
  <2>3. QED
    BY <1>1, <2>1, <2>2 DEF Finish
<1>2. CASE WakeLoad
  <2>1. \/ tpc' = "publish"
        \/ tpc' = "done" /\ ~HandleHeld
    <3>1. PICK s \in stage : tpc' = IF s = "Running" THEN "publish" ELSE "done"
      BY <1>2 DEF WakeLoad
    <3>2. s \in {"Running", "Detached"}
      BY <1>2 DEF WakeLoad, OnceInv, TypeOK
    <3>3. QED
      BY <3>1, <3>2
  <2>2. QED
    BY <1>2, <2>1 DEF WakeLoad
<1>3. CASE WakePublish
  BY <1>3 DEF WakePublish, Outgoing
<1>4. CASE WakeStore
  BY <1>4 DEF WakeStore
<1>5. CASE WakeNotify
  <2>1. tpc' \in {"done", "reset", "unreachable"}
    BY <1>5, Matches DEF WakeNotify, OnceInv
  <2>2. QED
    BY <1>5, <2>1 DEF WakeNotify
<1>6. CASE WakeReset
  BY <1>6, Tags DEF WakeReset, LeftInv
<1>7. ASSUME NEW w \in Wakers, PollLoad(w) PROVE FoundInv'
  BY <1>7 DEF PollLoad
<1>8. CASE PollTake
  <2>1. CASE result.tag = "Finished"
    <3>1. joined' = outcome
      BY <1>8, <2>1 DEF PollTake, TakeVerdict, Finished
    <3>2. QED
      BY <1>8, <3>1, Tags DEF PollTake, Left
  <2>2. CASE result.tag # "Finished"
    <3>1. joined' = joined
      BY <1>8, <2>2, Matches DEF PollTake, OnceInv
    <3>2. result # Finished(outcome)
      BY <2>2 DEF Finished
    <3>3. QED
      BY <1>8, <3>1, <3>2, Tags DEF PollTake, Left
  <2>3. QED
    BY <2>1, <2>2
<1>9. CASE PollRegister
  <2>1. CASE result.tag = "Finished"
    <3>1. hpc' = "settle" /\ taken' = outcome
      BY <1>9, <2>1 DEF PollRegister, RegisterVerdict, Finished
    <3>2. QED
      BY <1>9, <3>1, Tags DEF PollRegister, Registered
  <2>2. CASE result.tag # "Finished"
    <3>1. hpc' = "idle"
      BY <1>9, <2>2, Matches DEF PollRegister, OnceInv
    <3>2. result # Finished(outcome)
      BY <2>2 DEF Finished
    <3>3. QED
      BY <1>9, <3>1, <3>2, Tags DEF PollRegister, Registered
  <2>3. QED
    BY <2>1, <2>2
<1>10. CASE PollSettle
  BY <1>10, Tags DEF PollSettle
<1>11. CASE DropStore
  BY <1>11 DEF DropStore
<1>12. CASE DropDetach
  BY <1>12, Tags DEF DropDetach
<1>13. CASE UNCHANGED vars
  BY <1>13 DEF vars
<1>14. QED
  BY <1>1, <1>2, <1>3, <1>4, <1>5, <1>6, <1>7, <1>8, <1>9, <1>10, <1>11,
     <1>12, <1>13 DEF Next, Wake, PollRest

\* What holds however the owner polls.
AnyInv == OnceInv /\ LeftInv /\ FoundInv

THEOREM AnyOwner == Spec => []AnyInv
<1>1. Init => AnyInv
  BY OnceInit, LeftInit, FoundInit DEF AnyInv
<1>2. AnyInv /\ [Next]_vars => AnyInv'
  BY OnceStep, LeftStep, FoundStep DEF AnyInv
<1>3. QED
  BY <1>1, <1>2, PTL DEF Spec

\* Every variable keeps its type, however the owner polls.
THEOREM TypeCorrect == Spec => []TypeOK
<1>1. AnyInv => TypeOK
  BY DEF AnyInv, OnceInv
<1>2. QED
  BY <1>1, AnyOwner, PTL

\* A poll returns the outcome only if none has before it, even if the owner
\* polls on after Ready, or after a panic of poll that it caught.
THEOREM DeliveredOnceHolds == Spec => DeliveredOnce
<1>1. ASSUME OnceInv, [Next]_vars, verdict # "ready", verdict' = "ready"
      PROVE  joined = NONE
  <2>1. CASE PollTake
    <3>1. result.tag = "Finished"
      BY <1>1, <2>1, Matches DEF PollTake, OnceInv
    <3>2. QED
      BY <1>1, <3>1 DEF OnceInv, SpentInv, CellSpent
  <2>2. CASE PollSettle
    BY <1>1, <2>2 DEF PollSettle, OnceInv, SpentInv
  <2>3. CASE PollRegister
    BY <1>1, <2>3, Matches DEF PollRegister, OnceInv
  <2>4. CASE ~PollTake /\ ~PollSettle /\ ~PollRegister
    BY <1>1, <2>4
       DEF Next, Finish, Wake, WakeLoad, WakePublish, WakeStore, WakeNotify,
           WakeReset, PollLoad, PollRest, DropStore, DropDetach, vars,
           handleVars, pollVars
  <2>5. QED
    BY <2>1, <2>2, <2>3, <2>4
<1>2. QED
  BY <1>1, AnyOwner, PTL DEF Spec, DeliveredOnce, AnyInv

\* A published outcome is where the owner of the handle will find it, or has
\* been returned: polling on does not lose it.
THEOREM NoLostOutcomeHolds == Spec => []NoLostOutcome
<1>1. AnyInv => NoLostOutcome
  BY DEF AnyInv, FoundInv
<1>2. QED
  BY <1>1, AnyOwner, PTL

\* Whichever of Joint::wake and JoinHandle::drop comes last, the outcome of a
\* task whose handle is gone is dropped, even if the owner polled on before.
THEOREM NothingRetainedHolds == Spec => []NothingRetained
<1>1. AnyInv => NothingRetained
  BY DEF AnyInv, LeftInv, DetachedInv, NothingRetained
<1>2. QED
  BY <1>1, AnyOwner, PTL

\* A destructor of an outcome that unwinds while wake or drop holds the mutex
\* poisons it for nobody: neither side locks it again.
THEOREM NoLockAfterDropHolds == Spec => NoLockAfterDrop
<1>1. ASSUME OnceInv, LeftInv, [Next]_vars, result.tag = "Finished",
             result' = Detached
      PROVE  (hpc = "gone" /\ ~TaskLocks)'
  <2>1. Detached.tag = "Detached" /\ result' # result
    BY <1>1 DEF Detached
  <2>2. WakeReset \/ DropDetach
    BY <1>1, <2>1, DetachedAlone
       DEF Next, Wake, PollRest, Finish, WakeLoad, WakePublish, Outgoing,
           WakeStore, WakeNotify, PollLoad, PollTake, Left, PollRegister,
           Registered, PollSettle, DropStore, vars
  <2>3. CASE WakeReset
    BY <1>1, <2>3 DEF WakeReset, handleVars, TaskLocks, LeftInv
  <2>4. CASE DropDetach
    <3>1. tpc \in {"store", "notify", "done", "unreachable"}
      BY <1>1, <2>4 DEF DropDetach, OnceInv, SpentInv, PastPublish, LeftInv
    <3>2. tpc \in {"store", "notify"} => replaced # Detached
      BY <1>1, <2>4 DEF DropDetach, LeftInv
    <3>3. QED
      BY <2>4, <3>1, <3>2 DEF DropDetach, taskVars, TaskLocks
  <2>5. QED
    BY <2>2, <2>3, <2>4
<1>2. QED
  BY <1>1, AnyOwner, PTL DEF Spec, NoLockAfterDrop, AnyInv
=============================================================================
