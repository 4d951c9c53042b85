---------------------------- MODULE RunnerProofs ----------------------------
(***************************************************************************)
(* The inductive invariant of Runner.tla, and what follows from it for     *)
(* every set of callers, listeners and statuses and every buffer size.     *)
(***************************************************************************)
EXTENDS Runner, TLAPS

\* Bytes are never lost between the process, the pipe, the reader's buffer
\* and the job, and a reader that saw EOF left nothing behind.
FlowInv ==
  \A s \in Streams :
    /\ out[s] + buf[s] + pipe[s] = written[s]
    /\ reader[s] = "append" <=> buf[s] > 0
    /\ reader[s] = "closed" /\ ~failed[s] => pipe[s] = 0 /\ ~open[s]

\* The waiting goroutine moves past cmd.Wait only when both readers are done
\* and the process has ended.
WaiterInv ==
  /\ proc = "running" <=> status = NoCode
  /\ waiter = "wait" <=> proc # "reaped"
  /\ waiter = "wait" => waitCode = NoCode
  /\ waiter # "wait" =>
       /\ \A s \in Streams : reader[s] = "closed"
       /\ waitCode \in {status, -1}

\* Exit code, done context and the answers of Stop follow markDone's steps.
DoneInv ==
  /\ exitCode = IF waiter \in {"wait", "set"} THEN NoCode ELSE waitCode
  /\ doneCtx => waiter \in {"notify", "end"}
  /\ \A c \in Callers :
       /\ call[c] = "read" => doneCtx
       /\ call[c] = "code" => waiter = "end" /\ ret[c] = exitCode

IInv == TypeOK /\ FlowInv /\ WaiterInv /\ DoneInv

-----------------------------------------------------------------------------

\* What a non-blocking send leaves in the channels is again a sequence of
\* updates per channel (updateOutput and markDone, job.go:183-188, 201-206).
LEMMA NotifiedType ==
  ASSUME JobTypeOK, NEW u \in Updates
  PROVE  Notified(u) \in [Listeners -> Seq(Updates)]
  BY DEF Notified, JobTypeOK

\* A job whose goroutines have just been launched satisfies the invariant.
LEMMA InitInv == Init => IInv
  <1> SUFFICES ASSUME Init PROVE IInv
    OBVIOUS
  <1> USE DEF Init, JobInit
  <1>1. TypeOK
    <2>1. JobTypeOK
      BY JobAssumption DEF JobTypeOK
    <2>2. Signals \subseteq {"SIGTERM", "SIGKILL"} /\ 0 \in 0..MaxSignals
      BY DEF Signals, MaxSignals
    <2>3. 0 \in 0..MaxOut /\ 0 \in 0..ReadBuf
      BY JobAssumption, RunnerAssumption
    <2> QED
      BY <2>1, <2>2, <2>3 DEF TypeOK
  <1>2. FlowInv
    BY DEF FlowInv
  <1>3. WaiterInv
    BY DEF WaiterInv
  <1>4. DoneInv
    BY DEF DoneInv
  <1> QED
    BY <1>1, <1>2, <1>3, <1>4 DEF IInv

-----------------------------------------------------------------------------

\* Every step keeps the variables in their types; that out stays within the
\* bound rests on FlowInv.
LEMMA StepType == ASSUME IInv, [Next]_vars PROVE TypeOK'
  <1> USE JobAssumption, RunnerAssumption
  <1>a. TypeOK /\ JobTypeOK
    BY DEF IInv, TypeOK
  <1>1. CASE Process
    <2>1. JobTypeOK'
      BY <1>1, <1>a DEF Process, ProcWrite, ProcClose, ProcExit,
         jobVars, JobTypeOK
    <2> DEFINE procTypes == /\ proc \in {"running", "zombie", "reaped"}
                            /\ status \in ExitCodes \cup {NoCode}
                            /\ written \in [Streams -> 0..MaxOut]
                            /\ open \in [Streams -> BOOLEAN]
    <2>2. procTypes'
      <3>1. ASSUME NEW s \in Streams, ProcWrite(s) PROVE procTypes'
        <4>1. written[s] + 1 \in 0..MaxOut
          BY <3>1, <1>a DEF ProcWrite, TypeOK
        <4> QED
          BY <3>1, <4>1, <1>a DEF ProcWrite, TypeOK
      <3>2. ASSUME NEW s \in Streams, ProcClose(s) PROVE procTypes'
        BY <3>2, <1>a DEF ProcClose, TypeOK
      <3>3. ASSUME NEW c \in ExitCodes, NEW held \in SUBSET Streams,
                   ProcExit(c, held)
            PROVE  procTypes'
        BY <3>3, <1>a DEF ProcExit, TypeOK
      <3> QED
        BY <3>1, <3>2, <3>3, <1>1 DEF Process
    <2>3. pipe' \in [Streams -> 0..MaxOut]
      <3>1. ASSUME NEW s \in Streams, ProcWrite(s) PROVE pipe[s] + 1 \in 0..MaxOut
        BY <3>1, <1>a DEF IInv, FlowInv, ProcWrite, TypeOK, JobTypeOK
      <3> QED
        BY <3>1, <1>1, <1>a DEF Process, ProcWrite, ProcClose,
           ProcExit, TypeOK
    <2>4. UNCHANGED <<pumpVars, waitVars, stopVars, callVars>>
      BY <1>1 DEF Process, ProcWrite, ProcClose, ProcExit
    <2> QED
      BY <2>1, <2>2, <2>3, <2>4, <1>a
      DEF TypeOK, pumpVars, waitVars, stopVars, callVars
  <1>2. ASSUME NEW s \in Streams, PipeAppend(s) PROVE TypeOK'
    <2>1. out' \in [Streams -> 0..MaxOut]
      <3>1. out[s] + buf[s] \in 0..MaxOut
        BY <1>a DEF IInv, FlowInv, TypeOK, JobTypeOK
      <3> QED
        BY <3>1, <1>2, <1>a DEF PipeAppend, JobTypeOK
    <2>2. chan' \in [Listeners -> Seq(Updates)]
      BY <1>2, <1>a, NotifiedType DEF PipeAppend, Updates
    <2> QED
      BY <2>1, <2>2, <1>2, <1>a DEF PipeAppend, TypeOK, JobTypeOK,
         procVars, waitVars, stopVars, callVars
  <1>3. ASSUME NEW s \in Streams, PipeRead(s) \/ PipeEOF(s) \/ PipeFail(s)
        PROVE TypeOK'
    <2>1. UNCHANGED <<jobVars, proc, status, written, open, waitVars,
                      stopVars, callVars>>
      BY <1>3 DEF PipeRead, PipeEOF, PipeFail, procVars
    <2>2. /\ pipe' \in [Streams -> 0..MaxOut]
          /\ buf' \in [Streams -> 0..ReadBuf]
      BY <1>3, <1>a DEF PipeRead, PipeEOF, PipeFail, TypeOK, procVars
    <2>3. /\ reader' \in [Streams -> {"read", "append", "closed"}]
          /\ failed' \in [Streams -> BOOLEAN]
      BY <1>3, <1>a DEF PipeRead, PipeEOF, PipeFail, TypeOK
    <2> QED
      BY <2>1, <2>2, <2>3, <1>a
      DEF TypeOK, JobTypeOK, jobVars, waitVars, stopVars, callVars
  <1>4. ASSUME WaitCommand \/ MarkDoneSet \/ MarkDoneCancel PROVE TypeOK'
    <2>1. CASE WaitCommand
      BY <2>1, <1>a DEF WaitCommand, TypeOK, JobTypeOK, ExitCodes, jobVars,
         pumpVars, stopVars, callVars
    <2>2. CASE MarkDoneSet
      BY <2>2, <1>a DEF MarkDoneSet, TypeOK, JobTypeOK, procVars, pumpVars,
         stopVars, callVars
    <2>3. CASE MarkDoneCancel
      BY <2>3, <1>a DEF MarkDoneCancel, TypeOK, JobTypeOK, jobVars, procVars,
         pumpVars, stopVars, callVars
    <2> QED
      BY <2>1, <2>2, <2>3, <1>4
  <1>5. CASE MarkDoneNotify
    <2>1. chan' \in [Listeners -> Seq(Updates)]
      BY <1>5, <1>a, NotifiedType DEF MarkDoneNotify, Updates
    <2> QED
      BY <2>1, <1>5, <1>a DEF MarkDoneNotify, TypeOK, JobTypeOK,
         procVars, pumpVars, stopVars, callVars
  <1>6. CASE Stopper
    <2>1. signals' \in [Signals -> 0..MaxSignals]
      BY <1>6, <1>a DEF Stopper, StopperDone, StopperTerm, StopperKill,
         Signal, MaxSignals, TypeOK
    <2>2. /\ stopper' \in {"select", "end"}
          /\ stopCh' \in BOOLEAN /\ forceStopCh' \in BOOLEAN
      BY <1>6, <1>a DEF Stopper, StopperDone, StopperTerm, StopperKill, TypeOK
    <2>3. UNCHANGED <<jobVars, procVars, pumpVars, waitVars, callVars>>
      BY <1>6 DEF Stopper, StopperDone, StopperTerm, StopperKill
    <2> QED
      BY <2>1, <2>2, <2>3, <1>a
      DEF TypeOK, JobTypeOK, jobVars, procVars, pumpVars, waitVars, callVars
  <1>7. ASSUME NEW c \in Callers,
               Caller(c) \/ StopCtx(c) \/ \E f \in BOOLEAN : StopCall(c, f)
        PROVE TypeOK'
    <2>1. UNCHANGED <<jobVars, procVars, pumpVars, waitVars, stopVars>>
      BY <1>7 DEF Caller, StopCtx, StopDone, StopRead, StopCall
    <2>2. /\ call' \in [Callers -> {"idle", "wait", "read", "code", "ctx"}]
          /\ ret' \in [Callers -> ExitCodes \cup {NoCode}]
      BY <1>7, <1>a DEF Caller, StopCtx, StopDone, StopRead,
         StopCall, TypeOK, JobTypeOK
    <2>3. /\ force' \in [Callers -> BOOLEAN]
          /\ stopCtx' \in BOOLEAN /\ forceStopCtx' \in BOOLEAN
      BY <1>7, <1>a DEF Caller, StopCtx, StopDone, StopRead,
         StopCall, TypeOK
    <2> QED
      BY <2>1, <2>2, <2>3, <1>a DEF TypeOK, JobTypeOK, jobVars, procVars,
         pumpVars, waitVars, stopVars
  <1>8. ASSUME NEW l \in Listeners, ListenerStep(l) PROVE TypeOK'
    <2>1. /\ UNCHANGED <<out, exitCode, procVars, pumpVars, waitVars>>
          /\ UNCHANGED <<stopVars, callVars>>
      BY <1>8 DEF ListenerStep, AddUpdateListener, RemoveUpdateListener, Receive
    <2>2. listeners' \subseteq Listeners
      BY <1>8, <1>a DEF ListenerStep, AddUpdateListener, RemoveUpdateListener,
         Receive, JobTypeOK
    <2>3. chan' \in [Listeners -> Seq(Updates)]
      <3>1. ASSUME Receive(l) PROVE Tail(chan[l]) \in Seq(Updates)
        BY <3>1, <1>a DEF Receive, JobTypeOK
      <3> QED
        BY <3>1, <1>8, <1>a DEF ListenerStep, AddUpdateListener,
           RemoveUpdateListener, Receive, JobTypeOK
    <2> QED
      BY <2>1, <2>2, <2>3, <1>a
      DEF TypeOK, JobTypeOK, procVars, pumpVars, waitVars, stopVars, callVars
  <1>9. CASE UNCHANGED vars
    BY <1>9, <1>a DEF vars, TypeOK, JobTypeOK, jobVars, procVars, pumpVars,
       waitVars, stopVars, callVars
  <1> QED
    BY <1>1, <1>2, <1>3, <1>4, <1>5, <1>6, <1>7, <1>8, <1>9
    DEF Next, Pump, Waiter

\* No step loses or invents a byte between the process and the job.
LEMMA StepFlow == ASSUME IInv, [Next]_vars PROVE FlowInv'
  <1> DEFINE flow == <<out, written, pipe, open, pumpVars>>
             flowAt(s) ==
               /\ out[s] + buf[s] + pipe[s] = written[s]
               /\ reader[s] = "append" <=> buf[s] > 0
               /\ reader[s] = "closed" /\ ~failed[s] => pipe[s] = 0 /\ ~open[s]
  <1>a. /\ out \in [Streams -> Nat] /\ written \in [Streams -> Nat]
        /\ pipe \in [Streams -> Nat] /\ buf \in [Streams -> Nat]
        /\ open \in [Streams -> BOOLEAN] /\ failed \in [Streams -> BOOLEAN]
        /\ reader \in [Streams -> {"read", "append", "closed"}]
    BY JobAssumption, RunnerAssumption DEF IInv, TypeOK, JobTypeOK
  <1>b. \A s \in Streams : flowAt(s)
    BY DEF IInv, FlowInv
  <1>1. ASSUME NEW s \in Streams, ProcWrite(s) PROVE FlowInv'
    <2>1. flowAt(s)'
      BY <1>1, <1>a, <1>b DEF ProcWrite, jobVars, pumpVars
    <2>2. ASSUME NEW r \in Streams \ {s} PROVE flowAt(r)'
      BY <1>1, <1>a, <1>b DEF ProcWrite, jobVars, pumpVars
    <2> QED
      BY <2>1, <2>2 DEF FlowInv
  <1>2. ASSUME NEW s \in Streams, ProcClose(s) PROVE FlowInv'
    BY <1>2, <1>a, <1>b DEF ProcClose, FlowInv, jobVars, pumpVars
  <1>3. ASSUME NEW c \in ExitCodes, NEW held \in SUBSET Streams,
               ProcExit(c, held)
        PROVE  FlowInv'
    BY <1>3, <1>a, <1>b DEF ProcExit, FlowInv, jobVars, pumpVars
  <1>4. ASSUME NEW s \in Streams, PipeRead(s) PROVE FlowInv'
    <2>1. PICK n \in 1..ReadBuf :
            /\ n <= pipe[s]
            /\ pipe' = [pipe EXCEPT ![s] = @ - n]
            /\ buf' = [buf EXCEPT ![s] = n]
      BY <1>4 DEF PipeRead
    <2>2. /\ reader[s] = "read" /\ buf[s] = 0 /\ n \in Nat \ {0}
          /\ UNCHANGED <<out, written, open, failed>>
          /\ reader' = [reader EXCEPT ![s] = "append"]
      BY <1>4, <2>1, <1>a, <1>b, RunnerAssumption DEF PipeRead, jobVars
    <2>3. flowAt(s)'
      BY <2>1, <2>2, <1>a, <1>b
    <2>4. ASSUME NEW r \in Streams \ {s} PROVE flowAt(r)'
      BY <2>1, <2>2, <1>a, <1>b
    <2> QED
      BY <2>3, <2>4 DEF FlowInv
  <1>5. ASSUME NEW s \in Streams, PipeAppend(s) PROVE FlowInv'
    <2>1. flowAt(s)'
      BY <1>5, <1>a, <1>b DEF PipeAppend, procVars
    <2>2. ASSUME NEW r \in Streams \ {s} PROVE flowAt(r)'
      BY <1>5, <1>a, <1>b DEF PipeAppend, procVars
    <2> QED
      BY <2>1, <2>2 DEF FlowInv
  <1>6. ASSUME NEW s \in Streams, PipeEOF(s) \/ PipeFail(s) PROVE FlowInv'
    BY <1>6, <1>a, <1>b DEF PipeEOF, PipeFail, FlowInv, jobVars, procVars
  <1>7. ASSUME UNCHANGED flow PROVE FlowInv'
    BY <1>7, <1>b DEF FlowInv, pumpVars
  <1>8. CASE Waiter
    BY <1>7, <1>8 DEF Waiter, WaitCommand, MarkDoneSet, MarkDoneCancel,
       MarkDoneNotify, jobVars, procVars
  <1>9. CASE Stopper
    BY <1>7, <1>9 DEF Stopper, StopperDone, StopperTerm, StopperKill, jobVars,
       procVars
  <1>10. ASSUME NEW c \in Callers,
                Caller(c) \/ StopCtx(c) \/ \E f \in BOOLEAN : StopCall(c, f)
         PROVE  FlowInv'
    BY <1>7, <1>10 DEF Caller, StopCtx, StopDone, StopRead, StopCall,
       jobVars, procVars
  <1>11. ASSUME NEW l \in Listeners, ListenerStep(l) PROVE FlowInv'
    BY <1>7, <1>11 DEF ListenerStep, AddUpdateListener, RemoveUpdateListener,
       Receive, procVars
  <1>12. CASE UNCHANGED vars
    BY <1>7, <1>12 DEF vars, jobVars, procVars
  <1> QED
    BY <1>1, <1>2, <1>3, <1>4, <1>5, <1>6, <1>8, <1>9, <1>10, <1>11, <1>12
    DEF Next, Process, Pump

\* The waiting goroutine goes on only after both readers and the process.
LEMMA StepWaiter == ASSUME IInv, [Next]_vars PROVE WaiterInv'
  <1> DEFINE wait == <<proc, status, reader, waiter, waitCode>>
  <1>a. TypeOK /\ WaiterInv /\ NoCode \notin ExitCodes
    BY JobAssumption DEF IInv
  <1>1. ASSUME UNCHANGED wait PROVE WaiterInv'
    BY <1>1, <1>a DEF WaiterInv
  <1>2. ASSUME NEW c \in ExitCodes, NEW held \in SUBSET Streams,
               ProcExit(c, held)
        PROVE  WaiterInv'
    BY <1>2, <1>a DEF ProcExit, WaiterInv, pumpVars, waitVars
  <1>3. ASSUME NEW s \in Streams, ProcWrite(s) \/ ProcClose(s) PROVE WaiterInv'
    BY <1>1, <1>3 DEF ProcWrite, ProcClose, pumpVars, waitVars
  <1>4. ASSUME NEW s \in Streams, Pump(s) \/ PipeFail(s) PROVE WaiterInv'
    <2>1. UNCHANGED <<proc, status, waiter, waitCode>>
      BY <1>4 DEF Pump, PipeRead, PipeAppend, PipeEOF, PipeFail, procVars,
         waitVars
    <2>2. \A t \in Streams : reader[t] = "closed" => reader'[t] = "closed"
      BY <1>4, <1>a DEF Pump, PipeRead, PipeAppend, PipeEOF, PipeFail, TypeOK
    <2> QED
      BY <2>1, <2>2, <1>a DEF WaiterInv
  <1>5. CASE WaitCommand
    BY <1>5, <1>a DEF WaitCommand, WaiterInv, pumpVars
  <1>6. CASE MarkDoneSet \/ MarkDoneCancel \/ MarkDoneNotify
    BY <1>6, <1>a DEF MarkDoneSet, MarkDoneCancel, MarkDoneNotify, WaiterInv,
       procVars, pumpVars
  <1>7. CASE Stopper
    BY <1>1, <1>7 DEF Stopper, StopperDone, StopperTerm, StopperKill, procVars,
       pumpVars, waitVars
  <1>8. ASSUME NEW c \in Callers,
               Caller(c) \/ StopCtx(c) \/ \E f \in BOOLEAN : StopCall(c, f)
        PROVE  WaiterInv'
    BY <1>1, <1>8 DEF Caller, StopCtx, StopDone, StopRead, StopCall,
       procVars, pumpVars, waitVars
  <1>9. ASSUME NEW l \in Listeners, ListenerStep(l) PROVE WaiterInv'
    BY <1>1, <1>9 DEF ListenerStep, procVars, pumpVars, waitVars
  <1>10. CASE UNCHANGED vars
    BY <1>1, <1>10 DEF vars, procVars, pumpVars, waitVars
  <1> QED
    BY <1>2, <1>3, <1>4, <1>5, <1>6, <1>7, <1>8, <1>9, <1>10
    DEF Next, Process, Waiter

\* markDone's three steps and the calls of Stop stay in order.
LEMMA StepDone == ASSUME IInv, [Next]_vars PROVE DoneInv'
  <1> DEFINE done == <<exitCode, waiter, waitCode, doneCtx, call, ret>>
  <1>a. TypeOK /\ JobTypeOK /\ WaiterInv /\ DoneInv
    BY DEF IInv, TypeOK
  <1>1. ASSUME UNCHANGED done PROVE DoneInv'
    BY <1>1, <1>a DEF DoneInv
  <1>2. CASE Process
    BY <1>1, <1>2 DEF Process, ProcWrite, ProcClose, ProcExit, jobVars,
       waitVars, callVars
  <1>3. ASSUME NEW s \in Streams, Pump(s) \/ PipeFail(s) PROVE DoneInv'
    BY <1>1, <1>3 DEF Pump, PipeRead, PipeAppend, PipeEOF, PipeFail, jobVars,
       waitVars, callVars
  <1>4. CASE WaitCommand
    BY <1>4, <1>a DEF WaitCommand, DoneInv, jobVars, callVars
  <1>5. CASE MarkDoneSet
    BY <1>5, <1>a DEF MarkDoneSet, DoneInv, WaiterInv, callVars
  <1>6. CASE MarkDoneCancel \/ MarkDoneNotify
    BY <1>6, <1>a DEF MarkDoneCancel, MarkDoneNotify, DoneInv, jobVars, callVars
  <1>7. CASE Stopper
    BY <1>1, <1>7 DEF Stopper, StopperDone, StopperTerm, StopperKill, jobVars,
       waitVars, callVars
  <1>8. ASSUME NEW c \in Callers,
               \/ StopCtx(c) \/ StopDone(c)
               \/ \E f \in BOOLEAN : StopCall(c, f)
        PROVE  DoneInv'
    BY <1>8, <1>a DEF StopCtx, StopDone, StopCall, DoneInv, TypeOK,
       jobVars, waitVars
  <1>9. ASSUME NEW c \in Callers, StopRead(c) PROVE DoneInv'
    <2>1. waiter = "end"
      BY <1>9, <1>a DEF StopRead, DoneInv, Locked
    <2> QED
      BY <2>1, <1>9, <1>a DEF StopRead, DoneInv, TypeOK, jobVars, waitVars
  <1>10. ASSUME NEW l \in Listeners, ListenerStep(l) PROVE DoneInv'
    BY <1>1, <1>10 DEF ListenerStep, AddUpdateListener, RemoveUpdateListener,
       Receive, waitVars, callVars
  <1>11. CASE UNCHANGED vars
    BY <1>1, <1>11 DEF vars, jobVars, waitVars, callVars
  <1> QED
    BY <1>2, <1>3, <1>4, <1>5, <1>6, <1>7, <1>8, <1>9, <1>10, <1>11
    DEF Next, Waiter, Caller

\* The invariant holds in every state of a job's goroutines.
THEOREM Invariant == Spec => []IInv
  <1>1. IInv /\ [Next]_vars => IInv'
    BY StepType, StepFlow, StepWaiter, StepDone DEF IInv
  <1> QED
    BY InitInv, <1>1, PTL DEF Spec

-----------------------------------------------------------------------------

\* Every variable keeps its type; in particular what the readers store never
\* exceeds what the process wrote (runner.go:125-139, job.go:169-181).
THEOREM TypeCorrect == Spec => []TypeOK
  <1>1. IInv => TypeOK
    BY DEF IInv
  <1> QED
    BY Invariant, <1>1, PTL

\* An exit code means that the output of every stream read without an error
\* is complete (runner.go:79-82, job.go:193-207).
THEOREM OutputIsComplete == Spec => []OutputComplete
  <1>1. IInv => OutputComplete
    <2> SUFFICES ASSUME IInv, exitCode # NoCode, NEW s \in Streams, ~failed[s]
                 PROVE  out[s] = written[s]
      BY DEF OutputComplete
    <2>1. reader[s] = "closed"
      BY DEF IInv, DoneInv, WaiterInv
    <2>2. buf[s] = 0 /\ pipe[s] = 0
      BY <2>1 DEF IInv, FlowInv, TypeOK
    <2> QED
      BY <2>2 DEF IInv, FlowInv, TypeOK, JobTypeOK
  <1> QED
    BY Invariant, <1>1, PTL

\* A job is complete only after its process was waited for, with the status
\* of that process or -1 (runner.go:83-93).
THEOREM DoneIsReaped == Spec => []DoneMeansReaped
  <1>1. IInv => DoneMeansReaped
    BY DEF IInv, DoneInv, WaiterInv, TypeOK, DoneMeansReaped
  <1> QED
    BY Invariant, <1>1, PTL

\* Stop never dereferences a nil exit code, and its answer is final
\* (job.go:149-156).
THEOREM StopIsFinal == Spec => []StopCodeIsFinal
  <1>1. IInv => StopCodeIsFinal
    <2> SUFFICES ASSUME IInv, NEW c \in Callers, call[c] = "code"
                 PROVE  ret[c] # NoCode /\ ret[c] = exitCode
      BY DEF StopCodeIsFinal
    <2>1. waiter = "end" /\ ret[c] = exitCode /\ exitCode = waitCode
      BY DEF IInv, DoneInv
    <2>2. waitCode \in {status, -1} /\ proc # "running"
      BY <2>1 DEF IInv, WaiterInv
    <2> QED
      BY <2>1, <2>2, JobAssumption DEF IInv, WaiterInv, ExitCodes
  <1> QED
    BY Invariant, <1>1, PTL

-----------------------------------------------------------------------------

\* The first state of a job is a first state of the contract.
LEMMA ContractInit == Init => Contract!JobInit
  BY DEF Init, JobInit, Contract!JobInit, VisibleCode, Locked, Contract!Streams,
     Streams

\* Every step of the goroutines is a step of the contract or a stutter.
LEMMA ContractStep ==
  ASSUME IInv, [Next]_vars
  PROVE  [Contract!JobNext]_(Contract!jobVars)
  <1> DEFINE same == UNCHANGED <<out, listeners, chan, VisibleCode>>
  <1>a. TypeOK /\ JobTypeOK /\ FlowInv /\ WaiterInv /\ DoneInv
    BY DEF IInv, TypeOK
  <1>1. same => UNCHANGED Contract!jobVars
    BY DEF Contract!jobVars
  <1>2. UNCHANGED <<jobVars, waiter>> => same
    BY DEF VisibleCode, Locked, jobVars
  <1>3. ASSUME NEW s \in Streams, PipeAppend(s) PROVE Contract!JobNext
    <2>1. exitCode = NoCode /\ VisibleCode = NoCode
      BY <1>3, <1>a DEF PipeAppend, WaiterInv, DoneInv, VisibleCode, TypeOK
    <2>2. VisibleCode' = VisibleCode
      BY <1>3, <2>1 DEF PipeAppend, VisibleCode, Locked, waitVars
    <2>3. buf[s] \in 1..MaxOut /\ out[s] + buf[s] <= MaxOut
      BY <1>3, <1>a, JobAssumption DEF PipeAppend, FlowInv, TypeOK, JobTypeOK
    <2>4. Contract!UpdateOutput(s, buf[s])
      BY <1>3, <2>1, <2>2, <2>3
      DEF PipeAppend, Contract!UpdateOutput, Contract!Notified, Notified
    <2> QED
      BY <2>3, <2>4 DEF Contract!JobNext, Contract!Streams, Streams
  <1>4. CASE MarkDoneNotify
    <2>1. VisibleCode = NoCode /\ VisibleCode' = exitCode
      BY <1>4 DEF MarkDoneNotify, VisibleCode, Locked
    <2>2. exitCode \in ExitCodes
      BY <1>4, <1>a DEF MarkDoneNotify, WaiterInv, DoneInv, TypeOK, ExitCodes
    <2>3. Contract!MarkDone(exitCode)
      BY <1>4, <2>1 DEF MarkDoneNotify, Contract!MarkDone, Contract!Notified,
         Notified
    <2> QED
      BY <2>2, <2>3 DEF Contract!JobNext, Contract!ExitCodes, ExitCodes
  <1>5. ASSUME WaitCommand \/ MarkDoneSet \/ MarkDoneCancel PROVE same
    BY <1>5, <1>a DEF WaitCommand, MarkDoneSet, MarkDoneCancel, DoneInv,
       VisibleCode, Locked, jobVars
  <1>6. ASSUME NEW l \in Listeners, ListenerStep(l) PROVE Contract!JobNext
    <2>1. VisibleCode' = VisibleCode
      BY <1>6 DEF ListenerStep, AddUpdateListener, RemoveUpdateListener,
         Receive, VisibleCode, Locked, waitVars
    <2> QED
      BY <1>6, <2>1 DEF ListenerStep, AddUpdateListener, RemoveUpdateListener,
         Receive, Contract!JobNext, Contract!AddUpdateListener,
         Contract!RemoveUpdateListener, Contract!Receive
  <1>7. ASSUME NEW s \in Streams, PipeRead(s) \/ PipeEOF(s) \/ PipeFail(s)
        PROVE  same
    BY <1>2, <1>7 DEF PipeRead, PipeEOF, PipeFail, waitVars
  <1>8. ASSUME Process PROVE same
    BY <1>2, <1>8 DEF Process, ProcWrite, ProcClose, ProcExit, waitVars
  <1>9. ASSUME Stopper PROVE same
    BY <1>2, <1>9 DEF Stopper, StopperDone, StopperTerm, StopperKill, waitVars
  <1>10. ASSUME NEW c \in Callers,
                Caller(c) \/ StopCtx(c) \/ \E f \in BOOLEAN : StopCall(c, f)
         PROVE  same
    BY <1>2, <1>10 DEF Caller, StopCtx, StopDone, StopRead, StopCall,
       waitVars
  <1>11. ASSUME UNCHANGED vars PROVE same
    BY <1>2, <1>11 DEF vars, waitVars
  <1> QED
    BY <1>1, <1>3, <1>4, <1>5, <1>6, <1>7, <1>8, <1>9, <1>10, <1>11
    DEF Next, Pump, Waiter

\* The goroutines of a job implement the contract its holders rely on: output
\* that only grows, never after the exit code, one exit code, and a
\* non-blocking send of every change to every listener.
THEOREM Implementation == Spec => ImplementsContract
  <1> QED
    BY ContractInit, ContractStep, Invariant, PTL
    DEF Spec, ImplementsContract, Contract!JobSpec

=============================================================================
