---------------------------- MODULE MCChildExec ----------------------------
\* ChildExec.tla on small instances.
EXTENDS ChildExec, TLC

CONSTANTS j1, j2, j3, r1, r2

Symmetry == Permutations({j1, j2, j3}) \cup Permutations({r1, r2})
=============================================================================
