-------------------------------- MODULE Serve --------------------------------
(***************************************************************************)
(* The serve command (cmd/server.go) on the worker of Worker.tla: the main *)
(* goroutine, which waits for the server or a signal and then shuts down,  *)
(* and the RPC handlers, which submit and look up jobs meanwhile.          *)
(*                                                                         *)
(* Main calls Shutdown up to three times: gracefully on a signal, by force *)
(* when that fails, and by force again in a deferred call.  Each is an     *)
(* element of Calls, as each RPC is.  Only the call that finds the worker  *)
(* up looks at its context, so ctxDone is the context of that one.  When   *)
(* main is over the process is, with all its goroutines; jobs live on.     *)
(***************************************************************************)
EXTENDS Worker

CONSTANTS Rpcs, Graceful, Forced, Deferred

Mains == {Graceful, Forced, Deferred}

ASSUME ServeAssumption ==
  /\ Calls = Rpcs \cup Mains
  /\ Rpcs \cap Mains = {}
  /\ Graceful # Forced /\ Forced # Deferred /\ Graceful # Deferred
  /\ "shutdown" \in Kinds

VARIABLES
  main,    \* where the command is
  sig,     \* does sigCh hold a signal?
  server,  \* grpc.Server: "down", "up", "failed" (Serve returned an error)
  forced   \* jobs asked to stop by force

serveVars == <<main, sig, server, forced>>
allVars == <<vars, serveVars>>

\* The calls of main have no key.
ServeInit ==
  /\ Init
  /\ \A c \in Mains : key[c] = <<CHOOSE n \in Namespaces : TRUE, NoId>>
  /\ main = "start"
  /\ sig = FALSE
  /\ server = "down"
  /\ forced = {}

Over == main \in {"exit", "killed"}

\* An RPC reaches the worker while the server accepts.
Rpc(c, kind) ==
  /\ server # "down" /\ kind # "shutdown"
  /\ Call(c, kind)
  /\ UNCHANGED serveVars

-----------------------------------------------------------------------------
(* The steps of main. *)

\* Flags, files, credentials, worker.New: without them no worker is shut down.
Refuse ==
  /\ main = "start"
  /\ main' = "exit"
  /\ UNCHANGED <<vars, sig, server, forced>>

\* The server starts in a goroutine, or the address cannot be listened to.
Listen ==
  /\ main = "start"
  /\ \/ main' = "notify" /\ server' = "up"
     \/ main' = "stop" /\ UNCHANGED server
  /\ UNCHANGED <<vars, sig, forced>>

Notify ==
  /\ main = "notify"
  /\ main' = "select"
  /\ UNCHANGED <<vars, sig, server, forced>>

TakeError ==
  /\ main = "select" /\ server = "failed"
  /\ main' = "stop"
  /\ UNCHANGED <<vars, sig, server, forced>>

TakeSignal ==
  /\ main = "select" /\ sig
  /\ main' = "graceful" /\ sig' = FALSE
  /\ Call(Graceful, "shutdown")
  /\ UNCHANGED <<server, forced>>

\* A return runs the deferred cancels of both contexts.
CancelContexts ==
  /\ ctxDone' = TRUE
  /\ UNCHANGED <<pc, key, ret, got, seen>>
  /\ UNCHANGED <<lockVars, mapVars, run, stopVars, panicked>>

\* nil ends the command, anything else leads to the forced shutdown.
GracefulDone ==
  /\ main = "graceful" /\ pc[Graceful] = "ret"
  /\ IF ret[Graceful] = "nil"
       THEN main' = "stop" /\ CancelContexts
       ELSE main' = "forced" /\ Call(Forced, "shutdown")
  /\ UNCHANGED <<sig, server, forced>>

ForcedDone ==
  /\ main = "forced" /\ pc[Forced] = "ret"
  /\ main' = "stop" /\ CancelContexts
  /\ UNCHANGED <<sig, server, forced>>

\* Mutant: the worker is not shut down when the command returns.
StopServerOnly ==
  /\ main = "stop"
  /\ main' = "exit" /\ server' = "down"
  /\ UNCHANGED <<vars, sig, forced>>

\* The deferred Stop accepts nothing more, but waits for no handler; then the
\* deferred forced shutdown.
StopServer ==
  /\ main = "stop"
  /\ main' = "deferred" /\ server' = "down"
  /\ Call(Deferred, "shutdown")
  /\ UNCHANGED <<sig, forced>>

DeferredDone ==
  /\ main = "deferred" /\ pc[Deferred] = "ret"
  /\ main' = "exit"
  /\ CancelContexts
  /\ UNCHANGED <<sig, server, forced>>

Main ==
  \/ Refuse \/ Listen \/ Notify \/ TakeError \/ TakeSignal
  \/ GracefulDone \/ ForcedDone \/ StopServer \/ DeferredDone

-----------------------------------------------------------------------------
(* What goes on around main. *)

\* Until main listens for signals the first kills the process; once it has
\* one, others stay in the channel unread.
Signal ==
  /\ \/ main \in {"start", "notify"} /\ main' = "killed" /\ UNCHANGED sig
     \/ main = "select" /\ sig' = TRUE /\ UNCHANGED main
  /\ UNCHANGED <<vars, server, forced>>

\* Serve returns an error.  RPCs on open connections go on.
ServeFails ==
  /\ server = "up"
  /\ server' = "failed"
  /\ UNCHANGED <<vars, main, sig, forced>>

\* The stop of job j carries the force of the Shutdown that took the map.
AskStop(j) ==
  /\ StopAsk(j)
  /\ forced' = IF pc[Graceful] = "idle" THEN forced \cup {j} ELSE forced
  /\ UNCHANGED <<main, sig, server>>

\* The deadline of a context that was made.
Deadline ==
  /\ \E c \in Mains : pc[c] # "idle"
  /\ CtxExpire
  /\ UNCHANGED serveVars

Handler(c) == (Submit(c) \/ Get(c)) /\ UNCHANGED serveVars
ShutdownCall == (\E c \in Mains : Shut(c)) /\ UNCHANGED serveVars
Stopper(j) == AskStop(j) \/ (StopReturn(j) /\ UNCHANGED serveVars)
CloseDone == CloseWgDone /\ UNCHANGED serveVars
Done(j) == JobEnds(j) /\ UNCHANGED serveVars

ServeNext ==
  /\ ~Over
  /\ \/ Main \/ Signal \/ ServeFails \/ Deadline
     \/ ShutdownCall \/ CloseDone
     \/ \E c \in Rpcs :
          \/ \E kind \in Kinds : Rpc(c, kind)
          \/ Handler(c) \/ Stopper(c) \/ Done(c)

ServeSpec == ServeInit /\ [][ServeNext]_allVars

\* Goroutines run until the command is over, deadlines pass, and a job that
\* was sent SIGKILL ends.  Signals, errors, RPCs and other jobs do as they
\* please.
ServeFairness ==
  /\ WF_allVars(~Over /\ Main)
  /\ WF_allVars(~Over /\ ShutdownCall)
  /\ WF_allVars(~Over /\ CloseDone)
  /\ WF_allVars(~Over /\ Deadline)
  /\ \A c \in Rpcs :
       /\ WF_allVars(~Over /\ Handler(c))
       /\ WF_allVars(~Over /\ Stopper(c))
       /\ WF_allVars(~Over /\ c \in forced /\ Done(c))

FairServeSpec == ServeSpec /\ ServeFairness

-----------------------------------------------------------------------------
(* Properties. *)

\* A lookup keeps read locks for ever (worker.go:79).
LookedUp ==
  \E c \in Rpcs : pc[c] \in {"read", "unlock"} \/ readLocks[c] = 2

\* The command leaves no job behind that Shutdown has not seen, though
\* handlers may still be submitting when the server has stopped and main
\* returns (server.go:63-71: the deferred calls and their order).
NoJobLeftUnseen ==
  main = "exit" => \A j \in Rpcs : run[j] = "running" => j \in taken

\* Shutdown returns nil before its context closes only when no job is running
\* (worker.go:176-211), for any interleaving of the jobs, the goroutines that
\* stop them and the one that waits for these.  Once the context has closed
\* those goroutines give up on their jobs, and a nil promises nothing.
NilIsEarned ==
  \A c \in Mains :
    ret[c] = "nil" /\ ~ctxDone => \A j \in Rpcs : run[j] # "running"

\* After a signal or an error of the server the command ends, though jobs
\* ignore every request to stop, if nobody has looked up a job.
CommandEnds == (sig \/ server = "failed") ~> (Over \/ LookedUp)

\* Every RPC is answered, unless the command ends or is kept by a lookup.
EveryRpcReturns ==
  \A c \in Rpcs : (pc[c] # "idle") ~> (pc[c] = "ret" \/ Over \/ LookedUp)

\* Shutdown asks the jobs in goroutines of their own (worker.go:179-190), which
\* end with the process: when the command ends, by whatever return, each job
\* that runs on was asked to stop, unless a Shutdown gave up at its deadline.
ExitMeansAsked ==
  main = "exit" =>
    \A j \in Rpcs : run[j] = "running" =>
      \/ stopper[j] \in {"wait", "end"}
      \/ \E c \in Mains : ret[c] = "context"

\* server.go:96: "Timeout, so we attempt a forced shutdown": when graceful
\* shutdown timed out, a job that still runs was asked to stop by force.
ForcedAfterTimeout ==
  main = "exit" /\ ret[Graceful] = "context" =>
    \A j \in Rpcs : run[j] = "running" => j \in forced

=============================================================================
