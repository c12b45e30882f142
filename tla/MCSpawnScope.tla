---------------------------- MODULE MCSpawnScope ----------------------------
EXTENDS SpawnScope
=============================================================================
