------------------------------ MODULE MCStream ------------------------------
\* Stream.tla on small instances; the cfg files give the constants' values.
EXTENDS Stream

\* Bound of stream_safety: stdout has several chunks, stderr at most one byte.
ShortStderr == out["stderr"] <= 1

=============================================================================
