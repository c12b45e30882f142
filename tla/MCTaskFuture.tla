---------------------------- MODULE MCTaskFuture ----------------------------
EXTENDS TaskFuture
=============================================================================
