---------------------------- MODULE MCDirectExec ----------------------------
(***************************************************************************)
(* DirectExec.tla on small instances, with jobs that may write for ever:   *)
(* once a stream has reached MaxOut, bytes that were copied leave all the  *)
(* counts, so that MaxOut bounds what is still to be copied.  Nothing in   *)
(* the command but the difference of the counts depends on them.           *)
(***************************************************************************)
EXTENDS DirectExec

\* The first byte on console w is forgotten wherever it is counted.
Forget(w) ==
  /\ out[Source(w)] = MaxOut /\ offset[w] > 0
  /\ out' = [out EXCEPT ![Source(w)] = @ - 1]
  /\ offset' = [offset EXCEPT ![w] = @ - 1]
  /\ console' = [console EXCEPT ![w][Source(w)] = @ - 1]
  /\ UNCHANGED <<exitCode, listeners, chan, pc, seenCode, status>>
  /\ UNCHANGED <<signal, timer, asked>>

EndlessNext == Next \/ \E w \in Streams : Forget(w)

EndlessSpec == Init /\ [][EndlessNext]_vars /\ Fairness

=============================================================================
