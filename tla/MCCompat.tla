------------------------------ MODULE MCCompat ------------------------------
EXTENDS Compat, TLC

\* One entry of the deprecated kind, besides the adapters.
MCCustom == {[kind |-> "global", name |-> NONE]}

Symmetry == Permutations(Threads)
=============================================================================
