------------------------------ MODULE Service ------------------------------
(***************************************************************************)
(* The unary RPCs of the service (workergrpc/service.go): GetJob, SubmitJob *)
(* and StopJob of concurrent clients, all about one ID in one namespace.   *)
(* (A client whose certificate names another namespace asks about another  *)
(* ID.)  The job is the contract of JobContract.tla.                       *)
(*                                                                         *)
(* Of the worker this module has what Worker.tla shows: an ID is free,     *)
(* held by a submission under way, or names a job; Shutdown keeps everyone *)
(* out while it waits for the submissions under way and for the read locks *)
(* that lookups never give back.                                           *)
(***************************************************************************)
EXTENDS JobContract

CONSTANTS
  Calls,    \* RPCs, one goroutine each
  Chunk,    \* size of allOutput's buffer
  Earlier,  \* the submission before any of them whose job the ID may name
  NoJob     \* no job

ASSUME ServiceAssumption ==
  /\ Chunk \in Nat \ {0}
  /\ Earlier \notin Calls /\ NoJob \notin Calls /\ Earlier # NoJob

VARIABLES
  pc,       \* where each RPC is
  kind,     \* its method
  include,  \* the streams its request includes
  status,   \* the status it returned (FailedPrecondition is split by its message)
  code,     \* the exit code in its response
  got,      \* how much output is in its response
  before,   \* the RPCs that had succeeded when it was called
  entry,    \* the ID in the worker's map: "free", "held" or "job"
  shutdown, \* the worker: "no", "waiting" for its lock, or "yes"
  looked    \* has a lookup taken read locks of the worker?

responseVars == <<code, got>>
rpcVars == <<pc, kind, include, status, responseVars, before>>
workerVars == <<entry, shutdown, looked>>
vars == <<jobVars, rpcVars, workerVars>>

Kinds == {"get", "submit", "stop"}
Places == {"idle", "lookup", "submit", "start", "check", "stop", "code",
           "stdout", "stderr", "respond", "ret"}

TypeOK ==
  /\ JobTypeOK
  /\ pc \in [Calls -> Places]
  /\ kind \in [Calls -> Kinds]
  /\ include \in [Calls -> SUBSET Streams]
  /\ status \in [Calls -> {"none", "OK", "Refused", "NotFound", "AlreadyExists",
                           "Shutdown", "Stopped", "NotStopped", "Unknown"}]
  /\ code \in [Calls -> ExitCodes \cup {NoCode}]
  /\ got \in [Calls -> [Streams -> 0..MaxOut]]
  /\ before \in [Calls -> SUBSET Calls]
  /\ entry \in {"free", "held", "job"}
  /\ shutdown \in {"no", "waiting", "yes"}
  /\ looked \in BOOLEAN

\* The ID is free, or was submitted some time ago.
Init ==
  /\ \/ JobInit /\ entry = "free"
     \/ /\ entry = "job"
        /\ out \in [Streams -> 0..MaxOut]
        /\ exitCode \in ExitCodes \cup {NoCode}
        /\ listeners = {} /\ chan = [l \in Listeners |-> << >>]
  /\ pc = [c \in Calls |-> "idle"]
  /\ kind \in [Calls -> Kinds]
  /\ include \in [Calls -> SUBSET Streams]
  /\ \A c \in Calls : kind[c] # "get" => include[c] = {}
  /\ status = [c \in Calls |-> "none"]
  /\ code = [c \in Calls |-> NoCode]
  /\ got = [c \in Calls |-> [s \in Streams |-> 0]]
  /\ before = [c \in Calls |-> {}]
  /\ shutdown = "no" /\ looked = FALSE

Goto(c, l) == pc' = [pc EXCEPT ![c] = l]
Return(c, s) == Goto(c, "ret") /\ status' = [status EXCEPT ![c] = s]

Call(c) ==
  /\ pc[c] = "idle"
  /\ Goto(c, IF kind[c] = "submit" THEN "submit" ELSE "lookup")
  /\ before' = [before EXCEPT ![c] = {d \in Calls : status[d] = "OK"}]
  /\ UNCHANGED <<kind, include, status, responseVars, jobVars, workerVars>>

\* No job ID, a request that does not validate, or no client certificate.
Refuse(c) ==
  /\ pc[c] \in {"lookup", "submit"}
  /\ Return(c, "Refused")
  /\ UNCHANGED <<kind, include, before, responseVars, jobVars, workerVars>>

\* getJob.  A nil placeholder is not found either.
Lookup(c) ==
  /\ pc[c] = "lookup"
  /\ shutdown # "waiting"
  /\ looked' = TRUE
  /\ \/ shutdown = "yes" /\ Return(c, "Shutdown")
     \/ shutdown = "no" /\ entry # "job" /\ Return(c, "NotFound")
     \/ /\ shutdown = "no" /\ entry = "job"
        /\ Goto(c, IF kind[c] = "stop" THEN "check" ELSE "code")
        /\ UNCHANGED status
  /\ UNCHANGED <<kind, include, before, responseVars, jobVars, entry, shutdown>>

-----------------------------------------------------------------------------
(* SubmitJob. *)

Submit(c) ==
  /\ pc[c] = "submit"
  /\ shutdown # "waiting"
  /\ \/ shutdown = "yes" /\ Return(c, "Shutdown") /\ UNCHANGED entry
     \/ shutdown = "no" /\ entry # "free"
        /\ Return(c, "AlreadyExists") /\ UNCHANGED entry
     \/ /\ shutdown = "no" /\ entry = "free"
        /\ entry' = "held"
        /\ Goto(c, "start")
        /\ UNCHANGED status
  /\ UNCHANGED <<kind, include, before, responseVars, jobVars, shutdown, looked>>

\* Mutant: the response does not wait for the job to be in the map.
StartUnpublished(c) ==
  /\ pc[c] = "start"
  /\ \/ entry' = "free" /\ Goto(c, "code") /\ UNCHANGED status
     \/ entry' = "free" /\ Return(c, "Unknown")
  /\ UNCHANGED <<kind, include, before, responseVars, jobVars, shutdown, looked>>

\* The job is started and put into the map, or is not and the ID is given up.
Start(c) ==
  /\ pc[c] = "start"
  /\ \/ entry' = "job" /\ Goto(c, "code") /\ UNCHANGED status
     \/ entry' = "free" /\ Return(c, "Unknown")
  /\ UNCHANGED <<kind, include, before, responseVars, jobVars, shutdown, looked>>

-----------------------------------------------------------------------------
(* StopJob. *)

CheckStopped(c) ==
  /\ pc[c] = "check"
  /\ IF exitCode # NoCode
       THEN Return(c, "Stopped")
       ELSE Goto(c, "stop") /\ UNCHANGED status
  /\ UNCHANGED <<kind, include, before, responseVars, jobVars, workerVars>>

\* Job.Stop sees the job done, be it stopped by this call or not ...
StopDone(c) ==
  /\ pc[c] = "stop" /\ exitCode # NoCode
  /\ Goto(c, "code")
  /\ UNCHANGED <<kind, include, status, before, responseVars, jobVars, workerVars>>

\* Mutant: the error of Job.Stop is ignored.
StopIgnoresError(c) ==
  /\ pc[c] = "stop"
  /\ Goto(c, "code")
  /\ UNCHANGED <<kind, include, status, before, responseVars, jobVars, workerVars>>

\* Mutant: the wait for the job has no timeout.
StopForever(c) ==
  /\ pc[c] = "stop" /\ exitCode # NoCode
  /\ Return(c, "NotStopped")
  /\ UNCHANGED <<kind, include, before, responseVars, jobVars, workerVars>>

\* ... or its context closed: three seconds passed or the client went away.
StopFails(c) ==
  /\ pc[c] = "stop"
  /\ Return(c, "NotStopped")
  /\ UNCHANGED <<kind, include, before, responseVars, jobVars, workerVars>>

-----------------------------------------------------------------------------
(* toProtoJob: the exit code, then the included streams in this order. *)

NextPart(c, part) ==
  IF part = "code" /\ "stdout" \in include[c] THEN "stdout"
  ELSE IF part # "stderr" /\ "stderr" \in include[c] THEN "stderr"
  ELSE "respond"

ReadCode(c) ==
  /\ pc[c] = "code"
  /\ code' = [code EXCEPT ![c] = exitCode]
  /\ Goto(c, NextPart(c, "code"))
  /\ UNCHANGED <<kind, include, status, got, before, jobVars, workerVars>>

\* Mutant: the whole buffer is appended.
ReadOutputWhole(c, s) ==
  /\ pc[c] = s
  /\ LET n == IF out[s] > got[c][s] THEN Chunk ELSE 0 IN
       /\ got' = [got EXCEPT ![c][s] = @ + n]
       /\ Goto(c, IF n = 0 THEN NextPart(c, s) ELSE s)
  /\ UNCHANGED <<kind, include, status, code, before, jobVars, workerVars>>

\* One read of allOutput, which asks until there is nothing more.
ReadOutput(c, s) ==
  /\ pc[c] = s
  /\ LET left == out[s] - got[c][s]
         n == IF left < Chunk THEN left ELSE Chunk
     IN /\ got' = [got EXCEPT ![c][s] = @ + n]
        /\ Goto(c, IF n = 0 THEN NextPart(c, s) ELSE s)
  /\ UNCHANGED <<kind, include, status, code, before, jobVars, workerVars>>

\* Mutant: the exit code is looked up after the output.
RespondWithCode(c) ==
  /\ pc[c] = "respond"
  /\ code' = [code EXCEPT ![c] = exitCode]
  /\ Return(c, "OK")
  /\ UNCHANGED <<kind, include, before, got, jobVars, workerVars>>

Respond(c) ==
  /\ pc[c] = "respond"
  /\ Return(c, "OK")
  /\ UNCHANGED <<kind, include, before, responseVars, jobVars, workerVars>>

-----------------------------------------------------------------------------

\* The job runs once it is started, and ends whenever it likes.
Job ==
  /\ entry = "job"
  /\ \/ \E s \in Streams, n \in 1..MaxOut : UpdateOutput(s, n)
     \/ \E c \in ExitCodes : MarkDone(c)
  /\ UNCHANGED <<rpcVars, workerVars>>

\* Shutdown announces that it wants the lock ...
ShutAnnounce ==
  /\ shutdown = "no"
  /\ shutdown' = "waiting"
  /\ UNCHANGED <<entry, looked, jobVars, rpcVars>>

\* ... and gets it when no submission is under way and no lookup left a lock.
ShutMark ==
  /\ shutdown = "waiting" /\ entry # "held" /\ ~looked
  /\ shutdown' = "yes"
  /\ UNCHANGED <<entry, looked, jobVars, rpcVars>>

Rpc(c) ==
  \/ Lookup(c) \/ Submit(c) \/ Start(c)
  \/ CheckStopped(c) \/ StopDone(c) \/ StopFails(c)
  \/ ReadCode(c) \/ Respond(c) \/ \E s \in Streams : ReadOutput(c, s)

Next ==
  \/ Job \/ ShutAnnounce \/ ShutMark
  \/ \E c \in Calls : Call(c) \/ Refuse(c) \/ Rpc(c)

Spec == Init /\ [][Next]_vars

\* Goroutines run, and the timeout of StopJob passes.
Fairness == WF_vars(ShutMark) /\ \A c \in Calls : WF_vars(Rpc(c))

-----------------------------------------------------------------------------
(* Properties. *)

\* service.go:86-89: a response that has an exit code has all the output of
\* the streams it includes, though code and output are not read atomically.
CodeMeansAllOutput ==
  \A c \in Calls : status[c] = "OK" /\ code[c] # NoCode =>
    \A s \in include[c] : got[c][s] = out[s]

\* A StopJob that succeeds answers with an exit code.
StoppedHasCode ==
  \A c \in Calls : kind[c] = "stop" /\ status[c] = "OK" => code[c] # NoCode

\* Clients see a job move forwards only: an RPC called after another one on
\* the same job had succeeded finds the job, the exit code if there was one,
\* and at least as much output.
NeverBackwards ==
  \A c \in Calls : \A d \in before[c] :
    /\ status[c] # "NotFound"
    /\ status[c] = "OK" =>
         /\ code[d] # NoCode => code[c] = code[d]
         /\ \A s \in include[c] \cap include[d] : got[c][s] >= got[d][s]

\* What the RPCs see of the worker is a registry of one ID.
Kept(c) ==
  kind[c] = "submit" /\ (pc[c] \in {"code", "respond"} \/ status[c] = "OK")
HasJob(c) ==
  /\ kind[c] # "submit"
  /\ \/ pc[c] \in {"check", "stop", "code", "stdout", "stderr", "respond"}
     \/ status[c] \in {"OK", "Stopped", "NotStopped"}
Owner ==
  IF \E c \in Calls : Kept(c) THEN CHOOSE c \in Calls : Kept(c) ELSE Earlier
Holders == [k \in {"id"} |-> {c \in Calls : pc[c] = "start"}]
Listed ==
  [k \in {"id"} |-> IF entry = "job" /\ shutdown # "yes" THEN Owner ELSE NoJob]
Handed == IF entry = "job" /\ shutdown = "yes" THEN {Owner} ELSE {}
Answers ==
  [c \in Calls |->
     IF pc[c] = "idle" THEN "idle"
     ELSE IF pc[c] \in {"lookup", "submit"} \/ status[c] = "Refused" THEN "called"
     ELSE IF pc[c] = "start" THEN "held"
     ELSE IF status[c] = "Shutdown" THEN "ErrShutdown"
     ELSE IF status[c] = "AlreadyExists" THEN "ErrIDAlreadyExists"
     ELSE IF status[c] = "Unknown" THEN "error"
     ELSE IF Kept(c) THEN "ok" ELSE "job"]
Found == [c \in Calls |-> IF HasJob(c) THEN Owner ELSE NoJob]

Reg == INSTANCE Registry WITH
  Keys <- {"id"}, Earlier <- {Earlier}, None <- NoJob,
  key <- [c \in Calls |-> "id"], held <- Holders, job <- Listed,
  shut <- shutdown = "yes", handed <- Handed, answer <- Answers, found <- Found

ImplementsRegistry == Reg!Spec

\* Every RPC comes back, with two exceptions: Shutdown waits for lookups that
\* never give the worker's lock back, and allOutput (service.go:107-120), which
\* does not look at its context, always finds more to read.  The second takes
\* a job that runs on and writes at least as fast as it is read, for ever.
EveryRpcReturns ==
  \A c \in Calls :
    (pc[c] # "idle") ~> (\/ pc[c] = "ret"
                         \/ shutdown = "waiting" /\ looked
                         \/ [](pc[c] = "stdout" /\ exitCode = NoCode)
                         \/ [](pc[c] = "stderr" /\ exitCode = NoCode))

=============================================================================
