--------------------------- MODULE CancelContract ---------------------------
(***************************************************************************)
(* What cancelling a task promises, with no trace of how: a request takes  *)
(* effect at once and for good, it finds a task that waits for its         *)
(* executor with a reason to be polled, and from then on no poll of the    *)
(* task returns Pending.                                                   *)
(***************************************************************************)
VARIABLES state,      \* "pending" between polls, "running", or "ended"
          requested,  \* the task is to be cancelled
          due         \* between polls: its executor has been told to poll it

vars == <<state, requested, due>>

\* A new task is in its executor's queue.
Init == state = "pending" /\ requested = FALSE /\ due = TRUE

\* An executor polls when it is told to, and may poll at any other time.
Poll ==
  /\ state = "pending"
  /\ state' = "running" /\ due' = FALSE
  /\ UNCHANGED requested

\* The poll leaves the task waiting; what it waits for may be there already.
Pend ==
  /\ state = "running" /\ ~requested
  /\ state' = "pending" /\ due' \in BOOLEAN
  /\ UNCHANGED requested

\* The task returns, panics or is cancelled, or its executor drops it.
End ==
  /\ state # "ended"
  /\ state' = "ended" /\ due' = FALSE
  /\ UNCHANGED requested

Request ==
  /\ ~requested
  /\ requested' = TRUE /\ due' = (state = "pending")
  /\ UNCHANGED state

Next == Poll \/ Pend \/ End \/ Request

Safe == Init /\ [][Next]_vars
=============================================================================
