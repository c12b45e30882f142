------------------------------ MODULE MCJoint -------------------------------
(* Instances of Joint for TLC: the outcomes are the three the code knows.  *)
EXTENDS Joint, TLC

MCOutcomes == {"Ok", "Cancelled", "Panic"}
=============================================================================
