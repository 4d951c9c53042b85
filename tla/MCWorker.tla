------------------------------ MODULE MCWorker ------------------------------
\* Worker.tla on small instances.
EXTENDS WorkerProofs, TLC

CONSTANTS c1, c2, c3

MCCalls == {c1, c2, c3}
Symmetry == Permutations(MCCalls)
=============================================================================
