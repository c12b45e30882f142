---------------------------- MODULE Cancellation ----------------------------
(***************************************************************************)
(* Cancelling a task, task.rs: `Cancellation` and the part of              *)
(* `TaskFuture::poll` that uses it.  One atomic pointer is null, a boxed   *)
(* Waker, or CANCELLED.  The task's poll installs the box of its latest    *)
(* waker and gets the previous box back for the next poll; the first       *)
(* cancel swaps CANCELLED in and owns, wakes and frees the box it took     *)
(* out.  Neither side locks.                                               *)
(*                                                                         *)
(* Relaxed memory.  A relaxed load returns any value the pointer has held  *)
(* (`past`); a compare_exchange reads the latest, so an older value costs  *)
(* a failed compare_exchange and no more.  What a box holds is another     *)
(* matter: no acquire or release orders its writing before the             *)
(* compare_exchange that publishes it.  `Ordered` says that the build does *)
(* so all the same (x86); without it a canceller may find in the box       *)
(* memory that is no live Waker.                                           *)
(***************************************************************************)
EXTENDS Integers, FiniteSets

CONSTANTS Boxes,        \* addresses the allocator hands out
          Wakers,       \* wakers the task is polled with
          Cancellers,   \* the handles, each used by one thread at a time
          NONE,         \* no box, no waker, no outcome
          Ordered       \* the write of a box is visible with its pointer

ASSUME CancellationAssumption ==
  /\ "null" \notin Boxes /\ "cancelled" \notin Boxes
  /\ NONE \notin Boxes \cup Wakers \cup {"Ok", "Panic", "Cancelled"}
  /\ Ordered \in BOOLEAN

VARIABLES
  slot,         \* Cancellation.waker
  past,         \* the values slot has held
  heap,         \* the boxes allocated
  content,      \* the waker written to each box
  woken,        \* wakers woken and not consumed by a poll since
  \* the task, in the hands of its executor
  pc,           \* between polls, in a poll, finished or dropped
  cx,           \* the waker of the poll in progress or of the last one
  spare,        \* TaskFuture.waker, or the box update is to install
  current,      \* update's `current`, "null" out of it
  ended,        \* the outcome given to finish, or NONE
  \* the handles
  cpc,          \* where each one is in cancel
  cur           \* cancel's `current`, "null" out of it

pointer    == <<slot, past>>
taskVars   == <<pc, cx, spare, current, ended>>
handleVars == <<cpc, cur>>
vars       == <<pointer, heap, content, woken, taskVars, handleVars>>

Pointers == Boxes \cup {"null", "cancelled"}

TypeOK ==
  /\ slot \in Pointers /\ past \in SUBSET Pointers
  /\ heap \in SUBSET Boxes
  /\ content \in [Boxes -> Wakers \cup {NONE}]
  /\ woken \in SUBSET (Wakers \cup {NONE})
  /\ pc \in {"idle", "inner", "update", "swap", "finished", "gone"}
  /\ cx \in Wakers \cup {NONE}
  /\ spare \in Boxes \cup {NONE}
  /\ current \in Pointers
  /\ ended \in {"Ok", "Panic", "Cancelled", NONE}
  /\ cpc \in [Cancellers -> {"held", "swap", "wake", "dropped"}]
  /\ cur \in [Cancellers -> Pointers]

Init ==
  /\ slot = "null" /\ past = {"null"}
  /\ heap = {} /\ content = [b \in Boxes |-> NONE]
  /\ woken = {}
  /\ pc = "idle" /\ cx = NONE /\ spare = NONE /\ current = "null"
  /\ ended = NONE
  /\ cpc = [c \in Cancellers |-> "held"]
  /\ cur = [c \in Cancellers |-> "null"]

\* A successful compare_exchange.
Swap(p) == slot' = p /\ past' = past \cup {p}

\* TaskFuture::finish, here no more than the end of the task.
Finish(v) == pc' = "finished" /\ ended' = v

(***************************************************************************)
(* The task: TaskFuture::poll and Cancellation::update                     *)
(***************************************************************************)

\* is_cancelled, a relaxed load: it may miss a cancel, never make one up.
PollStart(w) ==
  /\ pc = "idle"
  /\ cx' = w
  /\ woken' = woken \ {w}
  /\ \E p \in past :
       IF p = "cancelled" THEN Finish("Cancelled")
                          ELSE pc' = "inner" /\ UNCHANGED ended
  /\ UNCHANGED <<pointer, heap, content, spare, current, handleVars>>

\* Faulty: a panic of the future reported as a cancel; a box kept from an
\* earlier poll keeping its waker.
EndingsCancelled  == {"Ok", "Cancelled"}
NotedUnchanged(b) == IF b = spare THEN content ELSE [content EXCEPT ![b] = cx]

\* The future's own poll returns Ready or panics.
Endings == {"Ok", "Panic"}

InnerEnds ==
  /\ pc = "inner"
  /\ \E v \in Endings : Finish(v)
  /\ UNCHANGED <<pointer, heap, content, woken, cx, spare, current, handleVars>>

\* It returns Pending: the waker goes to the box kept from the last poll, or
\* to a new one, wherever the allocator puts it.
Noted(b) == [content EXCEPT ![b] = cx]

InnerPends ==
  /\ pc = "inner"
  /\ \E b \in IF spare = NONE THEN Boxes \ heap ELSE {spare} :
       /\ spare' = b
       /\ heap' = heap \cup {b}
       /\ content' = Noted(b)
  /\ pc' = "update"
  /\ UNCHANGED <<pointer, woken, cx, current, ended, handleVars>>

UpdateLoad ==
  /\ pc = "update"
  /\ current' \in past
  /\ pc' = "swap"
  /\ UNCHANGED <<pointer, heap, content, woken, cx, spare, ended, handleVars>>

\* Faulty: update does not look for CANCELLED; it forgets the box it
\* replaces; it makes a box of null.
RefusedNever(p)   == FALSE
HandedBackNothing == NONE
HandedBackNull    == current

\* `if ptr::eq(current, Self::CANCELLED)`
Refused(p) == p = "cancelled"

\* `return Err(())`: the box is dropped and the task finished.
UpdateRefused ==
  /\ pc = "swap" /\ Refused(current)
  /\ heap' = heap \ {spare}
  /\ spare' = NONE /\ current' = "null"
  /\ Finish("Cancelled")
  /\ UNCHANGED <<pointer, content, woken, cx, handleVars>>

\* The compare_exchange succeeds: the box replaced, if any, is kept.
HandedBack == IF current = "null" THEN NONE ELSE current

UpdateInstall ==
  /\ pc = "swap" /\ ~Refused(current) /\ current = slot
  /\ Swap(spare)
  /\ spare' = HandedBack
  /\ current' = "null"
  /\ pc' = "idle"
  /\ UNCHANGED <<heap, content, woken, cx, ended, handleVars>>

UpdateRetry ==
  /\ pc = "swap" /\ ~Refused(current) /\ current # slot
  /\ current' = slot
  /\ UNCHANGED <<pointer, heap, content, woken, pc, cx, spare, ended, handleVars>>

\* What is left of a poll that has started.
PollRest == \/ InnerEnds \/ InnerPends
            \/ UpdateLoad \/ UpdateRefused \/ UpdateInstall \/ UpdateRetry

\* The executor drops a task it has not run to its end: TaskFuture::drop.
Abandon ==
  /\ pc = "idle"
  /\ Finish("Cancelled")
  /\ UNCHANGED <<pointer, heap, content, woken, cx, spare, current, handleVars>>

(***************************************************************************)
(* The last reference to the Arc runs Cancellation::drop.                  *)
(***************************************************************************)
Unshared == pc' = "gone" /\ \A c \in Cancellers : cpc'[c] = "dropped"

ReleasedNever == {}     \* Faulty: no destructor.

Released == IF Unshared THEN {slot} ELSE {}

\* The fields of the TaskFuture are dropped.
TaskDrop ==
  /\ pc = "finished"
  /\ pc' = "gone"
  /\ spare' = NONE
  /\ UNCHANGED <<pointer, content, woken, cx, current, ended, handleVars>>
  /\ heap' = heap \ ({spare} \cup Released)

(***************************************************************************)
(* A handle: Cancellation::cancel, any number of times, and its drop       *)
(***************************************************************************)
Goto(c, l) == cpc' = [cpc EXCEPT ![c] = l]
Forget(c)  == cur' = [cur EXCEPT ![c] = "null"]

CancelLoad(c) ==
  /\ cpc[c] = "held"
  /\ \E p \in past : cur' = [cur EXCEPT ![c] = p]
  /\ Goto(c, "swap")
  /\ UNCHANGED <<pointer, heap, content, woken, taskVars>>

\* Faulty: cancel tries again with the value it read first; it drops the box
\* it took.
NewerStale(c)  == cur[c]
WokenNobody(w) == {}

\* Cancelled already.
CancelReturn(c) ==
  /\ cpc[c] = "swap" /\ cur[c] = "cancelled"
  /\ Goto(c, "held") /\ Forget(c)
  /\ UNCHANGED <<pointer, heap, content, woken, taskVars>>

CancelTake(c) ==
  /\ cpc[c] = "swap" /\ cur[c] # "cancelled" /\ cur[c] = slot
  /\ Swap("cancelled")
  /\ Goto(c, IF cur[c] = "null" THEN "held" ELSE "wake")
  /\ UNCHANGED <<heap, content, woken, taskVars, cur>>

\* `Err(newer) => current = newer`
Newer(c) == slot

CancelRetry(c) ==
  /\ cpc[c] = "swap" /\ cur[c] # "cancelled" /\ cur[c] # slot
  /\ cur' = [cur EXCEPT ![c] = Newer(c)]
  /\ UNCHANGED <<pointer, heap, content, woken, taskVars, cpc>>

\* What a canceller may find in a box: memory as it was before the write is
\* not yet, or no longer, a live Waker.
Readable(b) == {content[b]} \cup (IF Ordered THEN {} ELSE {NONE})

Woken(w) == {w}

\* `Box::from_raw(current)`, `waker.wake()`: wakes and frees.
CancelWake(c) ==
  /\ cpc[c] = "wake"
  /\ \E w \in Readable(cur[c]) : woken' = woken \cup Woken(w)
  /\ heap' = heap \ {cur[c]}
  /\ Goto(c, "held") /\ Forget(c)
  /\ UNCHANGED <<pointer, content, taskVars>>

CancelRest(c) ==
  CancelReturn(c) \/ CancelTake(c) \/ CancelRetry(c) \/ CancelWake(c)

DropHandle(c) ==
  /\ cpc[c] = "held"
  /\ Goto(c, "dropped")
  /\ UNCHANGED <<pointer, content, woken, taskVars, cur>>
  /\ heap' = heap \ Released

(***************************************************************************)
(* Specification                                                           *)
(***************************************************************************)
Task == (\E w \in Wakers : PollStart(w)) \/ PollRest \/ Abandon \/ TaskDrop

Handle(c) == CancelLoad(c) \/ CancelRest(c) \/ DropHandle(c)

Next == Task \/ \E c \in Cancellers : Handle(c)

\* An executor polls a new task, and a task whose waker is woken; it may poll
\* at any other time too.  A poll and a cancel that have begun run on.
\* Nothing obliges anyone to cancel, or to drop a task or a handle.
Scheduled == cx = NONE \/ cx \in woken

Fairness ==
  /\ WF_vars(Scheduled /\ \E w \in Wakers : PollStart(w))
  /\ WF_vars(PollRest)
  /\ \A c \in Cancellers : WF_vars(CancelRest(c))

Spec == Init /\ [][Next]_vars /\ Fairness

(***************************************************************************)
(* Properties                                                              *)
(***************************************************************************)
Shared      == pc # "gone" \/ \E c \in Cancellers : cpc[c] # "dropped"
InSlot(b)   == Shared /\ slot = b
Taken(c, b) == cpc[c] = "wake" /\ cur[c] = b

\* Every box has one owner: the task, the pointer, or the one cancel that
\* took it.  No box is leaked, freed twice, or written by a poll while a
\* cancel wakes it, though addresses return to the pointer (ABA) and any of
\* the owners may go first.
BoxesOwnedOnce ==
  \A b \in Boxes :
    /\ b \in heap <=> \/ spare = b
                      \/ InSlot(b)
                      \/ \E c \in Cancellers : Taken(c, b)
    /\ ~(spare = b /\ InSlot(b))
    /\ \A c \in Cancellers : Taken(c, b) =>
         /\ spare # b /\ ~InSlot(b)
         /\ \A d \in Cancellers : Taken(d, b) => d = c

\* A task never keeps more than two boxes, however often it is polled.
TwoBoxes == Cardinality(heap) <= 2

\* A cancelled task that its executor considers pending is about to run: the
\* waker of its last poll is woken, or a cancel holds it and will wake it.
\* An older waker will not do.
NoLostCancel ==
  slot = "cancelled" /\ pc = "idle" /\ cx # NONE =>
    \/ cx \in woken
    \/ \E c \in Cancellers : cpc[c] = "wake" /\ content[cur[c]] = cx

\* Cancelling is final: afterwards the pointer never changes, and a poll that
\* was anywhere on its way, stale is_cancelled or not, ends the task.
CancelIsFinal ==
  [][slot = "cancelled" =>
       slot' = "cancelled" /\ (pc # "idle" => pc' # "idle")]_vars

\* A canceller calls through nothing but a live Waker: cancel is what its
\* handles being Send and Sync says of it, sound on any thread.
WakesLiveWaker == NONE \notin woken

\* A cancelled task ends, by the cancel or on its own.
CancelEndsTask == slot = "cancelled" ~> pc \in {"finished", "gone"}

\* cancel is lock-free: it comes to its end unless the task keeps replacing
\* its waker for ever, each time before the next compare_exchange.
CancelIsLockFree ==
  \A c \in Cancellers :
    <>[](cpc[c] = "swap") => []<><<UpdateInstall>>_vars

(***************************************************************************)
(* Refinement of the contract: the request is the compare_exchange that    *)
(* puts CANCELLED into the pointer; the task is due as soon as its waker   *)
(* is in the hand of the cancel that took it.                              *)
(***************************************************************************)
Stage == IF pc = "idle" THEN "pending"
         ELSE IF pc \in {"finished", "gone"} THEN "ended" ELSE "running"

Due == /\ pc = "idle"
       /\ \/ Scheduled
          \/ \E c \in Cancellers : cpc[c] = "wake" /\ content[cur[c]] = cx

Contract == INSTANCE CancelContract WITH
  state <- Stage, requested <- slot = "cancelled", due <- Due

\* A cancel takes effect at one instant, whatever the interleaving: from its
\* compare_exchange on the task is cancelled for good, a task left pending by
\* its last poll has its executor told to poll it and stays so until it does,
\* and no poll, an earlier one still on its way included, returns Pending.
ContractSafe == Contract!Safe
=============================================================================
