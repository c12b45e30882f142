------------------------- MODULE MCBlockingExecutor -------------------------
EXTENDS BlockingExecutor
=============================================================================
