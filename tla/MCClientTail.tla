---------------------------- MODULE MCClientTail ----------------------------
(***************************************************************************)
(* ClientTail.tla on small instances; the cfg file gives the constants'    *)
(* values.  A stream that is requested alone has room for MaxOut bytes,    *)
(* two that are requested together for one each, and stderr has its byte,  *)
(* if any, from the start.                                                 *)
(***************************************************************************)
EXTENDS ClientTail

Room(s) == IF want = {s} THEN MaxOut ELSE IF s \in want THEN 1 ELSE 0

ShortInit == TailInit /\ \A s \in Streams : out[s] <= Room(s)

ShortNext ==
  /\ TailNext
  /\ out'["stdout"] <= Room("stdout") /\ UNCHANGED out["stderr"]

ShortSpec == ShortInit /\ [][ShortNext]_allVars /\ TailFairness

=============================================================================
