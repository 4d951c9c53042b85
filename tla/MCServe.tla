------------------------------- MODULE MCServe -------------------------------
\* Serve.tla on small instances; the cfg files give the constants' values.
EXTENDS Serve
==============================================================================
