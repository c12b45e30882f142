---------------------------- MODULE JoinContract ----------------------------
(***************************************************************************)
(* What JoinHandle promises, with no trace of how: a task hands over one   *)
(* outcome, once, and the owner of the handle receives that outcome, once, *)
(* unless it lets go of the handle first.  An owner that has polled and    *)
(* been told to wait does receive the outcome once there is one.           *)
(***************************************************************************)
CONSTANTS Outcomes,     \* what a task can end with
          NONE          \* no outcome, not one of Outcomes

VARIABLES sent,         \* the outcome handed over by the task, or NONE
          received,     \* the outcome a poll of the handle returned, or NONE
          open,         \* the handle exists
          waiting       \* its owner polled it and was told to wait

vars == <<sent, received, open, waiting>>

Init == sent = NONE /\ received = NONE /\ open = TRUE /\ waiting = FALSE

Send(v) ==
  /\ sent = NONE
  /\ sent' = v
  /\ UNCHANGED <<received, open, waiting>>

Wait ==
  /\ open /\ received = NONE
  /\ waiting' = TRUE
  /\ UNCHANGED <<sent, received, open>>

Receive ==
  /\ open /\ sent # NONE /\ received = NONE
  /\ received' = sent
  /\ waiting' = FALSE
  /\ UNCHANGED <<sent, open>>

Close ==
  /\ open
  /\ open' = FALSE
  /\ waiting' = FALSE
  /\ UNCHANGED <<sent, received>>

Next == (\E v \in Outcomes : Send(v)) \/ Wait \/ Receive \/ Close

Safe == Init /\ [][Next]_vars

Spec == Safe /\ WF_vars(waiting /\ Receive)
=============================================================================
