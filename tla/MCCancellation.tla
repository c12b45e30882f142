--------------------------- MODULE MCCancellation ---------------------------
EXTENDS Cancellation
=============================================================================
