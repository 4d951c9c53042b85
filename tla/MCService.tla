----------------------------- MODULE MCService -----------------------------
(***************************************************************************)
(* Service.tla on small instances, with a job that may write for ever:     *)
(* while a stream is being read and has reached MaxOut, its first byte is  *)
(* forgotten, in the log and in all that was read of it, so that MaxOut    *)
(* bounds how far readers are behind and not what there is to read.        *)
(***************************************************************************)
EXTENDS Service

Forget(s) ==
  /\ out[s] = MaxOut /\ \E c \in Calls : pc[c] = s
  /\ \A c \in Calls : pc[c] = s => got[c][s] > 0
  /\ out' = [out EXCEPT ![s] = @ - 1]
  /\ got' = [c \in Calls |->
               [got[c] EXCEPT ![s] = IF @ > 0 THEN @ - 1 ELSE 0]]
  /\ UNCHANGED <<exitCode, listeners, chan>>
  /\ UNCHANGED <<pc, kind, include, status, code, before, workerVars>>

EndlessNext == Next \/ \E s \in Streams : Forget(s)

EndlessSpec == Init /\ [][EndlessNext]_vars /\ Fairness

=============================================================================
