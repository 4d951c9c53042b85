---------------------------- MODULE ServeProofs ----------------------------
(***************************************************************************)
(* Theorems about Serve.tla: the serve command uses the worker as          *)
(* Worker.tla says, so that its invariants hold of the command, and what   *)
(* the command adds to them, for any number of RPCs.                       *)
(***************************************************************************)
EXTENDS Serve, WorkerProofs

-----------------------------------------------------------------------------
(* The command implements the worker's specification. *)

\* Every step of the command is one of the worker, or leaves it alone.
LEMMA WorkerStep == ASSUME TypeOK, [ServeNext]_allVars PROVE [Next]_vars
  <1>a. Graceful \in Calls /\ Forced \in Calls /\ Deferred \in Calls
    BY ServeAssumption DEF Mains
  <1>b. Rpcs \subseteq Calls /\ Mains \subseteq Calls /\ "shutdown" \in Kinds
    BY ServeAssumption
  <1>1. ASSUME CancelContexts PROVE [Next]_vars
    <2>1. CASE ctxDone
      BY <2>1, <1>1 DEF CancelContexts, TypeOK, vars, callVars
    <2>2. CASE ~ctxDone
      BY <2>2, <1>1 DEF CancelContexts, Next, CtxExpire
    <2> QED
      BY <2>1, <2>2
  <1>2. CASE Main
    <2>1. CASE TakeSignal \/ StopServer
      BY <2>1, <1>a, <1>b DEF TakeSignal, StopServer, Next
    <2>2. CASE GracefulDone
      BY <2>2, <1>1, <1>a, <1>b DEF GracefulDone, Next
    <2>3. CASE ForcedDone \/ DeferredDone
      BY <2>3, <1>1 DEF ForcedDone, DeferredDone
    <2>4. CASE Refuse \/ Listen \/ Notify \/ TakeError
      BY <2>4 DEF Refuse, Listen, Notify, TakeError
    <2> QED
      BY <2>1, <2>2, <2>3, <2>4, <1>2 DEF Main
  <1>3. CASE Signal \/ ServeFails \/ UNCHANGED allVars
    BY <1>3 DEF Signal, ServeFails, allVars
  <1>4. CASE Deadline \/ CloseDone
    BY <1>4 DEF Deadline, CloseDone, Next
  <1>5. CASE ShutdownCall
    BY <1>5, <1>b DEF ShutdownCall, Next
  <1>6. ASSUME NEW c \in Rpcs,
               (\E kind \in Kinds : Rpc(c, kind)) \/ Handler(c) \/ Stopper(c) \/ Done(c)
        PROVE  [Next]_vars
    BY <1>6, <1>b DEF Rpc, Handler, Stopper, AskStop, Done, Next, Stopping
  <1> QED
    BY <1>2, <1>3, <1>4, <1>5, <1>6 DEF ServeNext

-----------------------------------------------------------------------------
(* What a nil of Shutdown means. *)

\* The goroutines that stop jobs: there is one for every job that was taken,
\* and before the context closes they end, and the group is done, when the
\* jobs are.
StopInv ==
  /\ ~mapNil => ~wgDone /\ \A j \in Calls : stopper[j] = "none"
  /\ mapNil => \A j \in taken : stopper[j] # "none"
  /\ \A j \in Calls : stopper[j] = "end" /\ ~ctxDone => run[j] = "done"
  /\ wgDone /\ ~ctxDone => \A j \in taken : run[j] = "done"
  /\ wgDone => \A j \in Calls : stopper[j] \in {"none", "end"}
  /\ \A k \in Keys : jobs[k] # Absent => spaces # {}
  /\ \A c \in Calls : ret[c] = "nil" => mapNil /\ (wgDone \/ taken = {})

\* The goroutines that stop jobs are those of the jobs that were taken.
LEMMA StepStop == ASSUME IInv, StopInv, [Next]_vars PROVE StopInv'
  <1> USE DEF Goto, Return, RLock, RUnlock, lockVars, mapVars, stopVars, callVars
  <1>a. StopInv
    OBVIOUS
  <1>b. /\ ret \in [Calls -> Results] /\ run \in [Calls -> {"none", "running", "done"}]
        /\ stopper \in [Calls -> {"none", "ask", "wait", "end"}]
        /\ jobs \in [Keys -> Calls \cup {Nil, Absent}] /\ taken \subseteq Calls
        /\ wgDone \in BOOLEAN /\ ctxDone \in BOOLEAN
    BY DEF IInv, TypeOK
  <1>c. \A c \in Calls :
          /\ pc[c] \in {"start", "discard", "publish", "reserve"} =>
               ~mapNil /\ key[c] \in Keys
          /\ pc[c] \in {"start", "discard", "publish"} => jobs[key[c]] = Nil
          /\ pc[c] = "take" => ~mapNil
    BY DEF IInv, LockInv, CallInv, MapInv, Reading, Submitting, Deciding
  <1>1. ASSUME NEW c \in Calls,
               \/ \E kind \in Kinds : Call(c, kind)
               \/ SubmitEnter(c) \/ Get(c) \/ ShutAnnounce(c) \/ ShutMark(c)
               \/ ShutSelect(c)
        PROVE  StopInv'
    <2>1. UNCHANGED <<mapVars, stopVars, run, ctxDone>>
      BY <1>1 DEF Call, SubmitEnter, Get, GetEnter, GetRead, GetUnlock,
         ShutAnnounce, ShutMark, ShutSelect
    <2>2. \/ ret' = ret
          \/ \E r \in {"ErrShutdown", "job"} : ret' = [ret EXCEPT ![c] = r]
      BY <1>1 DEF Call, SubmitEnter, Get, GetEnter, GetRead, GetUnlock,
         ShutAnnounce, ShutMark, ShutSelect
    <2> QED
      BY <2>1, <2>2, <1>a, <1>b DEF StopInv
  <1>2. ASSUME NEW c \in Calls, SubmitReserve(c) PROVE StopInv'
    <2>1. /\ UNCHANGED <<taken, mapNil, run, stopVars, ctxDone>>
          /\ ret' = ret \/ ret' = [ret EXCEPT ![c] = "ErrIDAlreadyExists"]
          /\ \A k \in Keys : jobs'[k] # Absent => spaces' # {}
      BY <1>2, <1>a, <1>b, <1>c DEF SubmitReserve, StopInv
    <2> QED
      BY <2>1, <1>a, <1>b DEF StopInv
  <1>3. ASSUME NEW c \in Calls, NEW root \in BOOLEAN, SubmitStart(c, root)
        PROVE  StopInv'
    BY <1>3, <1>a, <1>b, <1>c DEF SubmitStart, StopInv
  <1>4. ASSUME NEW c \in Calls, SubmitDiscard(c) \/ SubmitPublish(c)
        PROVE  StopInv'
    <2>1. /\ UNCHANGED <<spaces, taken, mapNil, run, stopVars, ctxDone>>
          /\ \E r \in {"error", "ok"} : ret' = [ret EXCEPT ![c] = r]
      BY <1>4 DEF SubmitDiscard, SubmitPublish
    <2>2. spaces # {}
      BY <1>4, <1>a, <1>c, WorkerAssumption
      DEF SubmitDiscard, SubmitPublish, StopInv
    <2> QED
      BY <2>1, <2>2, <1>a, <1>b DEF StopInv
  <1>5. ASSUME NEW c \in Calls, ShutTake(c) PROVE StopInv'
    <2>1. /\ ~mapNil /\ mapNil' /\ ~wgDone /\ wgDone' = wgDone
          /\ UNCHANGED <<run, ctxDone, spaces>>
      BY <1>5, <1>a, <1>c DEF ShutTake, StopInv
    <2>2. /\ \A j \in taken' : stopper'[j] = "ask"
          /\ \A j \in Calls : stopper'[j] # "end"
      BY <1>5, <1>b DEF ShutTake
    <2>3. \A k \in Keys : jobs'[k] = Absent
      BY <1>5 DEF ShutTake
    <2>4. \A d \in Calls : ret'[d] = "nil" => taken' = {}
      <3>1. CASE spaces = {}
        BY <3>1, <1>5, <1>a DEF ShutTake, StopInv
      <3>2. CASE spaces # {}
        BY <3>2, <1>5, <1>a, <2>1 DEF ShutTake, StopInv
      <3> QED
        BY <3>1, <3>2
    <2> QED
      BY <2>1, <2>2, <2>3, <2>4 DEF StopInv
  <1>6. ASSUME NEW c \in Calls, ShutRecheck(c) PROVE StopInv'
    <2>1. /\ UNCHANGED <<mapVars, stopVars, run, ctxDone>>
          /\ wgDone => mapNil
          /\ ret' = [ret EXCEPT ![c] = IF wgDone THEN "nil" ELSE "context"]
      BY <1>6, <1>a DEF ShutRecheck, StopInv
    <2> QED
      BY <2>1, <1>a, <1>b DEF StopInv
  <1>7. ASSUME NEW j \in Calls, Stopping(j) PROVE StopInv'
    <2>1. CASE StopAsk(j)
      BY <2>1, <1>a, <1>b DEF StopAsk, StopInv
    <2>2. CASE StopReturn(j)
      BY <2>2, <1>a, <1>b DEF StopReturn, StopInv
    <2> QED
      BY <2>1, <2>2, <1>7 DEF Stopping
  <1>8. ASSUME NEW j \in Calls, JobEnds(j) PROVE StopInv'
    BY <1>8, <1>a, <1>b DEF JobEnds, StopInv
  <1>9. CASE CloseWgDone
    BY <1>9, <1>a, <1>b DEF CloseWgDone, StopInv
  <1>10. CASE CtxExpire
    BY <1>10, <1>a DEF CtxExpire, StopInv
  <1>11. CASE UNCHANGED vars
    BY <1>11, <1>a DEF vars, StopInv
  <1> QED
    BY <1>1, <1>2, <1>3, <1>4, <1>5, <1>6, <1>7, <1>8, <1>9, <1>10, <1>11
    DEF Next, Submit, Shut

-----------------------------------------------------------------------------
(* The order in which the command shuts down. *)

\* Which of its calls of Shutdown the command has made, and finished.
CallersInv ==
  /\ \A c \in Rpcs : pc[c] \notin {"shutdown", "mark"} \cup Finishing
  /\ \A c \in Mains : pc[c] \in {"idle", "shutdown", "mark", "ret"} \cup Finishing
  /\ main \in {"start", "notify", "select"} => \A c \in Mains : pc[c] = "idle"
  /\ main = "graceful" => pc[Forced] = "idle" /\ pc[Deferred] = "idle"
  /\ main = "forced" => pc[Graceful] = "ret" /\ pc[Deferred] = "idle"
  /\ main = "stop" => pc[Deferred] = "idle"
  /\ main \in {"stop", "deferred"} =>
       pc[Graceful] \in {"idle", "ret"} /\ pc[Forced] \in {"idle", "ret"}
  /\ main = "start" => server = "down" /\ \A c \in Rpcs : pc[c] = "idle"
  /\ main = "exit" => \A c \in Mains : pc[c] \in {"idle", "ret"}

\* A worker that is shut down has had its map taken, or is about to; at the
\* end of the command it has, if any job was ever started.
TakenInv ==
  /\ shutdown => mapNil \/ \E c \in Mains : pc[c] = "take"
  /\ \A c \in Mains : pc[c] = "ret" => shutdown
  /\ main = "exit" => mapNil \/ \A j \in Rpcs : run[j] = "none"

\* A call of the command that took the map waits for the goroutines that stop
\* the jobs, or returned because they ended or at its deadline.
TakerInv ==
  mapNil => \E c \in Mains :
    \/ pc[c] \in {"select", "recheck"}
    \/ pc[c] = "ret" /\ ret[c] \in {"nil", "context"}

ServeInv == IInv /\ StopInv /\ CallersInv /\ TakenInv /\ TakerInv

\* The calls of Shutdown are made by main alone, one after the other.
LEMMA StepCallers ==
  ASSUME ServeInv, [ServeNext]_allVars PROVE CallersInv'
  <1> USE ServeAssumption DEF Goto, Return, Mains, Finishing
  <1>a. CallersInv /\ pc \in [Calls -> Places]
    BY DEF ServeInv, IInv, TypeOK
  <1>1. CASE TakeSignal \/ StopServer
    BY <1>1, <1>a DEF TakeSignal, StopServer, Call, CallersInv
  <1>2. CASE GracefulDone
    BY <1>2, <1>a DEF GracefulDone, Call, CancelContexts, CallersInv
  <1>3. CASE ForcedDone \/ DeferredDone
    BY <1>3, <1>a DEF ForcedDone, DeferredDone, CancelContexts, CallersInv
  <1>4. CASE Refuse \/ Listen \/ Notify \/ TakeError \/ Signal
    BY <1>4, <1>a DEF Refuse, Listen, Notify, TakeError, Signal, CallersInv,
       vars, callVars
  <1>5. CASE ServeFails \/ Deadline \/ CloseDone \/ UNCHANGED allVars
    <2>1. UNCHANGED <<pc, main>> /\ (main = "start" /\ server = "down" => server' = "down")
      BY <1>5 DEF ServeFails, Deadline, CtxExpire, CloseDone, CloseWgDone,
         allVars, serveVars, vars, callVars
    <2> QED
      BY <2>1, <1>a DEF CallersInv
  <1>6. ASSUME NEW c \in Mains, Shut(c), UNCHANGED serveVars PROVE CallersInv'
    <2>1. /\ pc[c] \in {"shutdown", "mark", "take", "select", "recheck"}
          /\ \E l \in {"mark", "ret", "take", "select", "recheck"} :
               pc' = [pc EXCEPT ![c] = l]
      BY <1>6 DEF Shut, ShutAnnounce, ShutMark, ShutTake, ShutSelect, ShutRecheck
    <2> QED
      BY <2>1, <1>6, <1>a DEF CallersInv, serveVars
  <1>7. ASSUME NEW c \in Rpcs,
               (\E kind \in Kinds : Rpc(c, kind)) \/ Handler(c)
        PROVE  CallersInv'
    <2>1. /\ server = "down" => pc[c] # "idle"
          /\ \E l \in Places \ ({"shutdown", "mark"} \cup Finishing) :
               pc' = [pc EXCEPT ![c] = l]
          /\ UNCHANGED serveVars
      BY <1>7, WorkerAssumption
      DEF Rpc, Call, Handler, Submit, Get, SubmitEnter, SubmitReserve,
          SubmitStart, SubmitDiscard, SubmitPublish, GetEnter, GetRead,
          GetUnlock, Places, Submitting
    <2> QED
      BY <2>1, <1>a DEF CallersInv, serveVars
  <1>8. ASSUME NEW c \in Rpcs, Stopper(c) \/ Done(c) PROVE CallersInv'
    <2>1. UNCHANGED <<pc, main, server>>
      BY <1>8 DEF Stopper, AskStop, StopAsk, StopReturn, Done, JobEnds, serveVars,
         callVars
    <2> QED
      BY <2>1, <1>a DEF CallersInv
  <1> QED
    BY <1>1, <1>2, <1>3, <1>4, <1>5, <1>6, <1>7, <1>8
    DEF ServeNext, Main, ShutdownCall

\* The map is taken by the time a Shutdown of the command has returned.
LEMMA StepTaken ==
  ASSUME ServeInv, [ServeNext]_allVars PROVE TakenInv'
  <1> USE ServeAssumption DEF Goto, Return, Mains, Finishing
  <1>a. TakenInv /\ CallersInv /\ pc \in [Calls -> Places]
    BY DEF ServeInv, IInv, TypeOK
  <1>b. main = "start" => \A j \in Rpcs : run[j] = "none"
    BY <1>a DEF CallersInv, ServeInv, IInv, CallInv
  <1>1. CASE TakeSignal \/ StopServer
    BY <1>1, <1>a DEF TakeSignal, StopServer, Call, TakenInv, lockVars, mapVars
  <1>2. CASE GracefulDone
    BY <1>2, <1>a DEF GracefulDone, Call, CancelContexts, TakenInv, lockVars,
       mapVars
  <1>3. CASE ForcedDone
    BY <1>3, <1>a DEF ForcedDone, CancelContexts, TakenInv, lockVars, mapVars
  <1>4. CASE DeferredDone
    <2>1. shutdown /\ ~\E c \in Mains : pc[c] = "take"
      BY <1>4, <1>a DEF DeferredDone, TakenInv, CallersInv
    <2> QED
      BY <2>1, <1>4, <1>a DEF DeferredDone, CancelContexts, TakenInv, lockVars,
         mapVars
  <1>5. CASE Refuse \/ Listen \/ Notify \/ TakeError \/ Signal
    BY <1>5, <1>a, <1>b DEF Refuse, Listen, Notify, TakeError, Signal, TakenInv,
       vars, callVars, lockVars, mapVars
  <1>6. CASE UNCHANGED allVars
    BY <1>6, <1>a DEF allVars, serveVars, vars, callVars, lockVars, mapVars,
       TakenInv
  <1>7. ASSUME ~Over, ServeFails \/ Deadline \/ CloseDone PROVE TakenInv'
    <2>1. main # "exit" /\ UNCHANGED <<pc, shutdown, mapNil, main>>
      BY <1>7 DEF Over, ServeFails, Deadline, CtxExpire, CloseDone, CloseWgDone,
         serveVars, vars, callVars, lockVars, mapVars
    <2> QED
      BY <2>1, <1>a DEF TakenInv
  <1>8. ASSUME ~Over, NEW c \in Mains, Shut(c), UNCHANGED serveVars PROVE TakenInv'
    <2>1. main # "exit" /\ main' = main
      BY <1>8 DEF Over, serveVars
    <2>2. CASE ShutAnnounce(c) \/ ShutSelect(c) \/ ShutTake(c)
      BY <2>2, <2>1, <1>8, <1>a DEF ShutAnnounce, ShutSelect, ShutTake, TakenInv,
         CallersInv, lockVars, mapVars, ServeInv, IInv, LockInv
    <2>3. CASE ShutMark(c)
      BY <2>3, <2>1, <1>8, <1>a DEF ShutMark, TakenInv, CallersInv, mapVars
    <2>4. CASE ShutRecheck(c)
      <3>1. shutdown
        BY <2>4, <1>8 DEF ShutRecheck, ServeInv, IInv, LockInv
      <3> QED
        BY <3>1, <2>4, <2>1, <1>8, <1>a DEF ShutRecheck, TakenInv, lockVars, mapVars
    <2> QED
      BY <2>2, <2>3, <2>4, <1>8 DEF Shut
  <1>9. ASSUME ~Over, NEW c \in Rpcs,
               \/ \E kind \in Kinds : Rpc(c, kind)
               \/ Handler(c) \/ Stopper(c) \/ Done(c)
        PROVE  TakenInv'
    <2>1. main # "exit" /\ UNCHANGED <<shutdown, mapNil, main>>
      BY <1>9 DEF Over, Rpc, Call, Handler, Submit, Get, SubmitEnter,
         SubmitReserve, SubmitStart, SubmitDiscard, SubmitPublish, GetEnter,
         GetRead, GetUnlock, Stopper, AskStop, StopAsk, StopReturn, Done, JobEnds,
         serveVars, callVars, lockVars, mapVars
    <2>2. pc' = pc \/ \E l \in Places : pc' = [pc EXCEPT ![c] = l]
      BY <1>9, WorkerAssumption
      DEF Rpc, Call, Handler, Submit, Get, SubmitEnter, SubmitReserve,
         SubmitStart, SubmitDiscard, SubmitPublish, GetEnter, GetRead, GetUnlock,
         Stopper, AskStop, StopAsk, StopReturn, Done, JobEnds, callVars, Places,
         Submitting
    <2>3. \A d \in Mains : pc'[d] = pc[d]
      BY <2>2, <1>9, <1>a
    <2> QED
      BY <2>1, <2>3, <1>a DEF TakenInv
  <1> QED
    BY <1>1, <1>2, <1>3, <1>4, <1>5, <1>6, <1>7, <1>8, <1>9
    DEF ServeNext, Main, ShutdownCall

\* What a call of the command returned stays, and nothing else takes the map.
LEMMA StepTaker ==
  ASSUME ServeInv, [ServeNext]_allVars PROVE TakerInv'
  <1> USE ServeAssumption DEF Goto, Return, Mains, Finishing
  <1>a. TakerInv /\ CallersInv /\ pc \in [Calls -> Places] /\ ret \in [Calls -> Results]
    BY DEF ServeInv, IInv, TypeOK
  <1>1. ASSUME NEW c \in Mains, Shut(c) PROVE TakerInv'
    <2>1. CASE ShutAnnounce(c) \/ ShutMark(c)
      <3>1. UNCHANGED mapNil /\ pc[c] \in {"shutdown", "mark"}
        BY <2>1 DEF ShutAnnounce, ShutMark, mapVars
      <3>2. \A d \in Mains : d # c => pc'[d] = pc[d] /\ ret'[d] = ret[d]
        BY <2>1, <1>a DEF ShutAnnounce, ShutMark
      <3> QED
        BY <3>1, <3>2, <1>a DEF TakerInv
    <2>2. CASE ShutTake(c)
      BY <2>2, <1>a DEF ShutTake, TakerInv
    <2>3. CASE ShutSelect(c) \/ ShutRecheck(c)
      <3>1. pc'[c] = "recheck" \/ (pc'[c] = "ret" /\ ret'[c] \in {"nil", "context"})
        BY <2>3, <1>a DEF ShutSelect, ShutRecheck
      <3> QED
        BY <3>1 DEF TakerInv
    <2> QED
      BY <2>1, <2>2, <2>3, <1>1 DEF Shut
  <1>2. CASE TakeSignal \/ GracefulDone \/ StopServer
    <2>1. /\ UNCHANGED <<mapNil, ret>>
          /\ \A d \in Mains : pc'[d] = pc[d] \/ pc[d] = "idle"
      BY <1>2, <1>a DEF TakeSignal, GracefulDone, StopServer, Call,
         CancelContexts, mapVars
    <2> QED
      BY <2>1, <1>a DEF TakerInv
  <1>3. CASE \/ Refuse \/ Listen \/ Notify \/ TakeError \/ Signal
             \/ ForcedDone \/ DeferredDone \/ ServeFails \/ Deadline
             \/ CloseDone \/ UNCHANGED allVars
    <2>1. UNCHANGED <<pc, ret, mapNil>>
      BY <1>3 DEF Refuse, Listen, Notify, TakeError, Signal, ForcedDone,
         DeferredDone, CancelContexts, ServeFails, Deadline, CtxExpire,
         CloseDone, CloseWgDone, allVars, serveVars, vars, callVars, mapVars
    <2> QED
      BY <2>1, <1>a DEF TakerInv
  <1>4. ASSUME NEW c \in Rpcs,
               \/ \E kind \in Kinds : Rpc(c, kind)
               \/ Handler(c) \/ Stopper(c) \/ Done(c)
        PROVE  TakerInv'
    <2>1. /\ UNCHANGED mapNil
          /\ pc' = pc \/ \E l \in Places : pc' = [pc EXCEPT ![c] = l]
      BY <1>4, WorkerAssumption
      DEF Rpc, Call, Handler, Submit, Get, SubmitEnter, SubmitReserve,
         SubmitStart, SubmitDiscard, SubmitPublish, GetEnter, GetRead, GetUnlock,
         Stopper, AskStop, StopAsk, StopReturn, Done, JobEnds, callVars, mapVars,
         Places, Submitting
    <2>2. ret' = ret \/ \E r \in Results : ret' = [ret EXCEPT ![c] = r]
      BY <1>4
      DEF Rpc, Call, Handler, Submit, Get, SubmitEnter, SubmitReserve,
         SubmitStart, SubmitDiscard, SubmitPublish, GetEnter, GetRead, GetUnlock,
         Stopper, AskStop, StopAsk, StopReturn, Done, JobEnds, callVars, Results
    <2>3. \A d \in Mains : pc'[d] = pc[d] /\ ret'[d] = ret[d]
      BY <2>1, <2>2, <1>4, <1>a
    <2> QED
      BY <2>1, <2>3, <1>a DEF TakerInv
  <1> QED
    BY <1>1, <1>2, <1>3, <1>4 DEF ServeNext, Main, ShutdownCall

-----------------------------------------------------------------------------
(* Theorems. *)

\* The inductive invariant of the serve command: the worker's own
\* (WorkerProofs), the goroutines that stop jobs (worker.go:176-196), and the
\* order of the calls of Shutdown (server.go:63-103).
THEOREM ServeInvariant == ServeSpec => []ServeInv
  <1>1. ServeInit => ServeInv
    <2> SUFFICES ASSUME ServeInit PROVE ServeInv
      OBVIOUS
    <2>1. Init /\ IInv
      BY InitInv DEF ServeInit
    <2>2. StopInv
      BY <2>1 DEF Init, StopInv
    <2>3. CallersInv
      BY <2>1, ServeAssumption DEF ServeInit, Init, CallersInv, Finishing
    <2>4. TakenInv /\ TakerInv
      BY <2>1, ServeAssumption DEF ServeInit, Init, TakenInv, TakerInv
    <2> QED
      BY <2>1, <2>2, <2>3, <2>4 DEF ServeInv
  <1>2. ServeInv /\ [ServeNext]_allVars => ServeInv'
    <2> SUFFICES ASSUME ServeInv, [ServeNext]_allVars PROVE ServeInv'
      OBVIOUS
    <2>1. IInv /\ StopInv /\ [Next]_vars
      BY WorkerStep DEF ServeInv, IInv
    <2>2. IInv' /\ StopInv'
      BY <2>1, StepType, StepLock, StepCall, StepMap, StepGet, StepPanic, StepStop
      DEF IInv
    <2> QED
      BY <2>2, StepCallers, StepTaken, StepTaker DEF ServeInv
  <1> QED
    BY <1>1, <1>2, PTL DEF ServeSpec

\* The command uses its worker as Worker.tla says: its main goroutine and
\* handlers make calls, and what it does to contexts is their closing
\* (server.go:63-103).  All that WorkerProofs shows holds of the command.
THEOREM ImplementsWorker == ServeSpec => Spec
  <1>1. ServeInit => Init
    BY DEF ServeInit
  <1>2. ServeInv /\ [ServeNext]_allVars => [Next]_vars
    BY WorkerStep DEF ServeInv, IInv
  <1> QED
    BY <1>1, <1>2, ServeInvariant, PTL DEF ServeSpec, Spec

\* Whatever ends the command, every job that runs on was taken by Shutdown,
\* though handlers outlive the server (server.go:63-71).
THEOREM NoJobIsLeft == ServeSpec => []NoJobLeftUnseen
  <1>1. ServeInv => NoJobLeftUnseen
    <2> SUFFICES ASSUME ServeInv, main = "exit", NEW j \in Rpcs, run[j] = "running"
                 PROVE  j \in taken
      BY DEF NoJobLeftUnseen
    <2>1. mapNil /\ shutdown /\ j \in Calls
      BY ServeAssumption DEF ServeInv, TakenInv, IInv, LockInv
    <2>2. ret[j] = "ok"
      BY <2>1 DEF ServeInv, IInv, LockInv, CallInv, Reading, Submitting
    <2> QED
      BY <2>1, <2>2 DEF ServeInv, IInv, MapInv
  <1> QED
    BY <1>1, ServeInvariant, PTL

\* A nil of Shutdown before its context closes means that no job runs
\* (worker.go:176-211).
THEOREM NilIsTrue == ServeSpec => []NilIsEarned
  <1>1. ServeInv => NilIsEarned
    <2> SUFFICES ASSUME ServeInv, NEW c \in Mains, ret[c] = "nil", ~ctxDone,
                        NEW j \in Rpcs, run[j] = "running"
                 PROVE  FALSE
      BY DEF NilIsEarned
    <2>1. c \in Calls /\ j \in Calls
      BY ServeAssumption
    <2>2. mapNil /\ (wgDone \/ taken = {})
      BY <2>1 DEF ServeInv, StopInv
    <2>3. ret[j] = "ok"
      BY <2>1, <2>2 DEF ServeInv, IInv, LockInv, CallInv, Reading, Submitting
    <2>4. j \in taken
      BY <2>1, <2>2, <2>3 DEF ServeInv, IInv, MapInv
    <2> QED
      BY <2>2, <2>4 DEF ServeInv, StopInv
  <1> QED
    BY <1>1, ServeInvariant, PTL

\* Whatever ends the command, a job that runs on was asked to stop, unless a
\* Shutdown gave up at its deadline (worker.go:179-207): the process does not
\* end before the goroutines that ask.
THEOREM AskedAtExit == ServeSpec => []ExitMeansAsked
  <1>1. ServeInv => ExitMeansAsked
    <2> SUFFICES ASSUME ServeInv, main = "exit", NEW j \in Rpcs, run[j] = "running",
                        \A c \in Mains : ret[c] # "context"
                 PROVE  stopper[j] = "end"
      BY DEF ExitMeansAsked
    <2>1. mapNil /\ shutdown /\ j \in Calls
      BY ServeAssumption DEF ServeInv, TakenInv, IInv, LockInv
    <2>2. ret[j] = "ok"
      BY <2>1 DEF ServeInv, IInv, LockInv, CallInv, Reading, Submitting
    <2>3. j \in taken
      BY <2>1, <2>2 DEF ServeInv, IInv, MapInv
    <2>4. PICK c \in Mains : ret[c] = "nil"
      BY <2>1 DEF ServeInv, TakerInv, CallersInv
    <2>5. wgDone
      BY <2>3, <2>4, ServeAssumption DEF ServeInv, StopInv
    <2>6. stopper[j] \in {"none", "end"} /\ stopper[j] # "none"
      BY <2>1, <2>3, <2>5 DEF ServeInv, StopInv
    <2> QED
      BY <2>6
  <1> QED
    BY <1>1, ServeInvariant, PTL

=============================================================================
