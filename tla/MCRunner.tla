------------------------------ MODULE MCRunner ------------------------------
\* Runner.tla on small instances; the cfg files give the constants' values.
EXTENDS RunnerProofs
=============================================================================
