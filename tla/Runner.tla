------------------------------- MODULE Runner -------------------------------
(***************************************************************************)
(* One job started by execRunner.startCmd (worker/runner.go) together with *)
(* the Job methods its goroutines call (worker/job.go):                    *)
(*   - the operating system process, its descendants and the two pipes;    *)
(*   - a reader goroutine per pipe (startPipe);                            *)
(*   - the goroutine that waits for the command and marks the job done;    *)
(*   - the goroutine that turns stop requests into signals;                *)
(*   - callers of Job.Stop, each with a context that may expire;           *)
(*   - holders of update channels.                                         *)
(* The limited runner of Linux starts another command through the same     *)
(* startCmd, so this module stands for its goroutines too.                 *)
(***************************************************************************)
EXTENDS JobContract

CONSTANTS
  Callers,    \* goroutines that call Job.Stop
  ReadBuf     \* size of a pipe reader's buffer (1024 bytes in startPipe)

ASSUME RunnerAssumption == ReadBuf \in Nat \ {0}

VARIABLES
  proc,       \* "running", "zombie" (ended, not waited for) or "reaped"
  status,     \* how the process ended, NoCode while it runs
  written,    \* bytes ever written to each stream
  pipe,       \* bytes in each pipe
  open,       \* does anyone hold the write end of the pipe?
  reader,     \* pipe reader: "read", "append" or "closed"
  buf,        \* bytes in the reader's buffer
  failed,     \* the reader gave up on an error that is not EOF
  waiter,     \* "wait", "set", "cancel", "notify" or "end"
  waitCode,   \* the waiter's exitCode variable
  doneCtx, stopCtx, forceStopCtx,  \* is the context cancelled?
  stopper,    \* stop goroutine: "select" or "end"
  stopCh, forceStopCh,             \* is the channel variable non-nil?
  signals,    \* signals sent so far, counted up to MaxSignals
  call,       \* caller of Stop: "idle", "wait", "read", "code" or "ctx"
  force,      \* the force argument of the call
  ret         \* the code the call returned

procVars == <<proc, status, written, pipe, open>>
pumpVars == <<reader, buf, failed>>
waitVars == <<waiter, waitCode, doneCtx>>
stopVars == <<stopper, stopCh, forceStopCh, signals>>
callVars == <<call, force, ret, stopCtx, forceStopCtx>>
vars == <<jobVars, procVars, pumpVars, waitVars, stopVars, callVars>>

MaxSignals == 2   \* bound of the signal counters: "more than once"
Signals == {"SIGTERM", "SIGKILL"}

TypeOK ==
  /\ JobTypeOK
  /\ proc \in {"running", "zombie", "reaped"}
  /\ status \in ExitCodes \cup {NoCode}
  /\ written \in [Streams -> 0..MaxOut]
  /\ pipe \in [Streams -> 0..MaxOut]
  /\ open \in [Streams -> BOOLEAN]
  /\ reader \in [Streams -> {"read", "append", "closed"}]
  /\ buf \in [Streams -> 0..ReadBuf]
  /\ failed \in [Streams -> BOOLEAN]
  /\ waiter \in {"wait", "set", "cancel", "notify", "end"}
  /\ waitCode \in ExitCodes \cup {NoCode}
  /\ doneCtx \in BOOLEAN /\ stopCtx \in BOOLEAN /\ forceStopCtx \in BOOLEAN
  /\ stopper \in {"select", "end"}
  /\ stopCh \in BOOLEAN /\ forceStopCh \in BOOLEAN
  /\ signals \in [Signals -> 0..MaxSignals]
  /\ call \in [Callers -> {"idle", "wait", "read", "code", "ctx"}]
  /\ force \in [Callers -> BOOLEAN]
  /\ ret \in [Callers -> ExitCodes \cup {NoCode}]

\* startCmd once cmd.Start has succeeded and the goroutines are launched.
Init ==
  /\ JobInit
  /\ proc = "running" /\ status = NoCode
  /\ written = [s \in Streams |-> 0]
  /\ pipe = [s \in Streams |-> 0]
  /\ open = [s \in Streams |-> TRUE]
  /\ reader = [s \in Streams |-> "read"]
  /\ buf = [s \in Streams |-> 0]
  /\ failed = [s \in Streams |-> FALSE]
  /\ waiter = "wait" /\ waitCode = NoCode
  /\ doneCtx = FALSE /\ stopCtx = FALSE /\ forceStopCtx = FALSE
  /\ stopper = "select" /\ stopCh = TRUE /\ forceStopCh = TRUE
  /\ signals = [g \in Signals |-> 0]
  /\ call = [c \in Callers |-> "idle"]
  /\ force = [c \in Callers |-> FALSE]
  /\ ret = [c \in Callers |-> NoCode]

\* markDone holds Job.updateLock across its three steps.
Locked == waiter \in {"cancel", "notify"}

-----------------------------------------------------------------------------
(* The process and its descendants. *)

ProcWrite(s) ==
  /\ open[s] /\ written[s] < MaxOut
  /\ written' = [written EXCEPT ![s] = @ + 1]
  /\ pipe' = [pipe EXCEPT ![s] = @ + 1]
  /\ UNCHANGED <<proc, status, open>>
  /\ UNCHANGED <<jobVars, pumpVars, waitVars, stopVars, callVars>>

\* The last holder of the write end closes it (or ends).
ProcClose(s) ==
  /\ open[s]
  /\ open' = [open EXCEPT ![s] = FALSE]
  /\ UNCHANGED <<proc, status, written, pipe>>
  /\ UNCHANGED <<jobVars, pumpVars, waitVars, stopVars, callVars>>

\* The process ends; held are the streams its descendants keep open.
ProcExit(c, held) ==
  /\ proc = "running"
  /\ proc' = "zombie"
  /\ status' = c
  /\ open' = [s \in Streams |-> open[s] /\ s \in held]
  /\ UNCHANGED <<written, pipe>>
  /\ UNCHANGED <<jobVars, pumpVars, waitVars, stopVars, callVars>>

\* SIGKILL cannot be ignored; ExitError.ExitCode is then -1.
ProcKilled ==
  /\ signals["SIGKILL"] > 0
  /\ \E held \in SUBSET Streams : ProcExit(-1, held)

-----------------------------------------------------------------------------
(* startPipe: r.Read, then updateOutput, until an error. *)

PipeRead(s) ==
  /\ reader[s] = "read"
  /\ \E n \in 1..ReadBuf :
       /\ n <= pipe[s]
       /\ pipe' = [pipe EXCEPT ![s] = @ - n]
       /\ buf' = [buf EXCEPT ![s] = n]
  /\ reader' = [reader EXCEPT ![s] = "append"]
  /\ UNCHANGED <<failed, proc, status, written, open>>
  /\ UNCHANGED <<jobVars, waitVars, stopVars, callVars>>

\* Mutant: the whole buffer is appended, not b[:n].
PipeAppendWhole(s) ==
  /\ reader[s] = "append"
  /\ ~Locked
  /\ out' = [out EXCEPT ![s] = @ + ReadBuf]
  /\ chan' = Notified(s)
  /\ buf' = [buf EXCEPT ![s] = 0]
  /\ reader' = [reader EXCEPT ![s] = "read"]
  /\ UNCHANGED <<exitCode, listeners, failed>>
  /\ UNCHANGED <<procVars, waitVars, stopVars, callVars>>

PipeAppend(s) ==
  /\ reader[s] = "append"
  /\ ~Locked
  /\ out' = [out EXCEPT ![s] = @ + buf[s]]
  /\ chan' = Notified(s)
  /\ buf' = [buf EXCEPT ![s] = 0]
  /\ reader' = [reader EXCEPT ![s] = "read"]
  /\ UNCHANGED <<exitCode, listeners, failed>>
  /\ UNCHANGED <<procVars, waitVars, stopVars, callVars>>

PipeEOF(s) ==
  /\ reader[s] = "read"
  /\ pipe[s] = 0 /\ ~open[s]
  /\ reader' = [reader EXCEPT ![s] = "closed"]
  /\ UNCHANGED <<buf, failed>>
  /\ UNCHANGED <<jobVars, procVars, waitVars, stopVars, callVars>>

PipeFail(s) ==
  /\ reader[s] = "read"
  /\ reader' = [reader EXCEPT ![s] = "closed"]
  /\ failed' = [failed EXCEPT ![s] = TRUE]
  /\ UNCHANGED buf
  /\ UNCHANGED <<jobVars, procVars, waitVars, stopVars, callVars>>

-----------------------------------------------------------------------------
(* The goroutine that waits for completion. *)

\* Mutant: cmd.Wait is called without waiting for the pipe readers.
WaitBeforePipes ==
  /\ waiter = "wait"
  /\ proc = "zombie"
  /\ proc' = "reaped"
  /\ waitCode' \in {status, -1}
  /\ waiter' = "set"
  /\ UNCHANGED <<doneCtx, status, written, pipe, open>>
  /\ UNCHANGED <<jobVars, pumpVars, stopVars, callVars>>

\* Mutant: the end of both pipes is taken for the end of the process.
WaitForPipesOnly ==
  /\ waiter = "wait"
  /\ \A s \in Streams : reader[s] = "closed"
  /\ waitCode' \in {status, -1}
  /\ waiter' = "set"
  /\ UNCHANGED <<doneCtx, procVars>>
  /\ UNCHANGED <<jobVars, pumpVars, stopVars, callVars>>

\* Mutant: doneCancel is called before markDone sets the exit code.
WaitAndCancel ==
  /\ waiter = "wait"
  /\ \A s \in Streams : reader[s] = "closed"
  /\ proc = "zombie"
  /\ proc' = "reaped"
  /\ waitCode' \in {status, -1}
  /\ waiter' = "set"
  /\ doneCtx' = TRUE
  /\ UNCHANGED <<status, written, pipe, open>>
  /\ UNCHANGED <<jobVars, pumpVars, stopVars, callVars>>

\* <-stdoutCh, <-stderrCh, then cmd.Wait, whose own failure gives -1.
WaitCommand ==
  /\ waiter = "wait"
  /\ \A s \in Streams : reader[s] = "closed"
  /\ proc = "zombie"
  /\ proc' = "reaped"
  /\ waitCode' \in {status, -1}
  /\ waiter' = "set"
  /\ UNCHANGED <<doneCtx, status, written, pipe, open>>
  /\ UNCHANGED <<jobVars, pumpVars, stopVars, callVars>>

MarkDoneSet ==
  /\ waiter = "set"
  /\ exitCode' = waitCode
  /\ waiter' = "cancel"
  /\ UNCHANGED <<out, listeners, chan, waitCode, doneCtx>>
  /\ UNCHANGED <<procVars, pumpVars, stopVars, callVars>>

\* Mutant: markDone forgets doneCancel.
MarkDoneNoCancel ==
  /\ waiter = "cancel"
  /\ waiter' = "notify"
  /\ UNCHANGED <<waitCode, doneCtx>>
  /\ UNCHANGED <<jobVars, procVars, pumpVars, stopVars, callVars>>

MarkDoneCancel ==
  /\ waiter = "cancel"
  /\ doneCtx' = TRUE
  /\ waiter' = "notify"
  /\ UNCHANGED waitCode
  /\ UNCHANGED <<jobVars, procVars, pumpVars, stopVars, callVars>>

\* Mutant: markDone forgets the listeners.
MarkDoneSilent ==
  /\ waiter = "notify"
  /\ waiter' = "end"
  /\ UNCHANGED <<jobVars, waitCode, doneCtx>>
  /\ UNCHANGED <<procVars, pumpVars, stopVars, callVars>>

MarkDoneNotify ==
  /\ waiter = "notify"
  /\ chan' = Notified("exit")
  /\ waiter' = "end"
  /\ UNCHANGED <<out, exitCode, listeners, waitCode, doneCtx>>
  /\ UNCHANGED <<procVars, pumpVars, stopVars, callVars>>

-----------------------------------------------------------------------------
(* The goroutine that listens for stop requests. *)

\* Process.Signal does nothing once cmd.Wait has returned.
Signal(g) ==
  signals' = [signals EXCEPT
                ![g] = IF proc # "reaped" /\ @ < MaxSignals THEN @ + 1 ELSE @]

StopperDone ==
  /\ stopper = "select" /\ doneCtx
  /\ stopper' = "end"
  /\ UNCHANGED <<stopCh, forceStopCh, signals>>
  /\ UNCHANGED <<jobVars, procVars, pumpVars, waitVars, callVars>>

\* Mutant: the goroutine returns after the first SIGTERM.
StopperTermOnly ==
  /\ stopper = "select" /\ stopCh /\ stopCtx
  /\ stopCh' = FALSE
  /\ Signal("SIGTERM")
  /\ stopper' = "end"
  /\ UNCHANGED forceStopCh
  /\ UNCHANGED <<jobVars, procVars, pumpVars, waitVars, callVars>>

StopperTerm ==
  /\ stopper = "select" /\ stopCh /\ stopCtx
  /\ stopCh' = FALSE
  /\ Signal("SIGTERM")
  /\ stopper' = IF forceStopCh THEN "select" ELSE "end"
  /\ UNCHANGED forceStopCh
  /\ UNCHANGED <<jobVars, procVars, pumpVars, waitVars, callVars>>

\* This case receives from the context, not from forceStopCh.
StopperKill ==
  /\ stopper = "select" /\ forceStopCtx
  /\ forceStopCh' = FALSE
  /\ Signal("SIGKILL")
  /\ stopper' = IF stopCh THEN "select" ELSE "end"
  /\ UNCHANGED stopCh
  /\ UNCHANGED <<jobVars, procVars, pumpVars, waitVars, callVars>>

-----------------------------------------------------------------------------
(* Job.Stop. *)

StopCall(c, f) ==
  /\ call[c] = "idle"
  /\ call' = [call EXCEPT ![c] = "wait"]
  /\ force' = [force EXCEPT ![c] = f]
  /\ IF f THEN forceStopCtx' = TRUE /\ UNCHANGED stopCtx
          ELSE stopCtx' = TRUE /\ UNCHANGED forceStopCtx
  /\ UNCHANGED ret
  /\ UNCHANGED <<jobVars, procVars, pumpVars, waitVars, stopVars>>

\* The call's context has closed, and the select takes that case.
StopCtx(c) ==
  /\ call[c] = "wait"
  /\ call' = [call EXCEPT ![c] = "ctx"]
  /\ UNCHANGED <<force, ret, stopCtx, forceStopCtx>>
  /\ UNCHANGED <<jobVars, procVars, pumpVars, waitVars, stopVars>>

StopDone(c) ==
  /\ call[c] = "wait" /\ doneCtx
  /\ call' = [call EXCEPT ![c] = "read"]
  /\ UNCHANGED <<force, ret, stopCtx, forceStopCtx>>
  /\ UNCHANGED <<jobVars, procVars, pumpVars, waitVars, stopVars>>

\* return *j.ExitCode(), under the read lock.
StopRead(c) ==
  /\ call[c] = "read"
  /\ ~Locked
  /\ ret' = [ret EXCEPT ![c] = exitCode]
  /\ call' = [call EXCEPT ![c] = "code"]
  /\ UNCHANGED <<force, stopCtx, forceStopCtx>>
  /\ UNCHANGED <<jobVars, procVars, pumpVars, waitVars, stopVars>>

-----------------------------------------------------------------------------
(* Holders of update channels. *)

ListenerStep(l) ==
  /\ \/ ~Locked /\ AddUpdateListener(l)
     \/ ~Locked /\ RemoveUpdateListener(l)
     \/ Receive(l)
  /\ UNCHANGED <<procVars, pumpVars, waitVars, stopVars, callVars>>

-----------------------------------------------------------------------------

Process ==
  \/ \E s \in Streams : ProcWrite(s) \/ ProcClose(s)
  \/ \E c \in ExitCodes, held \in SUBSET Streams : ProcExit(c, held)

Pump(s) == PipeRead(s) \/ PipeAppend(s) \/ PipeEOF(s)
Waiter == WaitCommand \/ MarkDoneSet \/ MarkDoneCancel \/ MarkDoneNotify
Stopper == StopperDone \/ StopperTerm \/ StopperKill
Caller(c) == StopDone(c) \/ StopRead(c)

Next ==
  \/ Process
  \/ \E s \in Streams : Pump(s) \/ PipeFail(s)
  \/ Waiter
  \/ Stopper
  \/ \E c \in Callers :
       Caller(c) \/ StopCtx(c) \/ \E f \in BOOLEAN : StopCall(c, f)
  \/ \E l \in Listeners : ListenerStep(l)

Spec == Init /\ [][Next]_vars

\* Goroutines keep running and a select picks at random among its ready
\* cases, so each case that stays ready is taken; a killed process ends.
\* What the process, its descendants and the callers choose is not fair, and
\* a context need not close.
Fairness ==
  /\ WF_vars(ProcKilled)
  /\ \A s \in Streams : WF_vars(Pump(s))
  /\ WF_vars(Waiter)
  /\ WF_vars(StopperDone) /\ WF_vars(StopperTerm) /\ WF_vars(StopperKill)
  /\ \A c \in Callers : WF_vars(Caller(c))

FairSpec == Spec /\ Fairness

-----------------------------------------------------------------------------
(* Properties. *)

\* When the exit code is out, everything ever written to a stream whose
\* reader met no error has been stored: the promise of ExitCode that the
\* total never changes again, which rests on draining before cmd.Wait.
OutputComplete ==
  exitCode # NoCode =>
    \A s \in Streams : failed[s] \/ out[s] = written[s]

\* A job is reported complete only after its process has ended, with the
\* status the process ended with or the -1 of an unknown one.
DoneMeansReaped ==
  exitCode # NoCode => proc = "reaped" /\ exitCode \in {status, -1}

\* A Stop that saw the done context dereferences a code, never nil, and
\* returns what every later call of ExitCode returns.
StopCodeIsFinal ==
  \A c \in Callers : call[c] = "code" => ret[c] # NoCode /\ ret[c] = exitCode

\* The code readers can see: markDone's lock hides it until it is notified.
VisibleCode == IF Locked THEN NoCode ELSE exitCode

Contract == INSTANCE JobContract WITH exitCode <- VisibleCode

\* The runner's goroutines implement the contract of Job: output only grows,
\* never after the exit code, and every change is offered to every listener.
ImplementsContract == Contract!JobSpec

\* A descendant of the ended process still holds a pipe.
Orphaned == proc # "running" /\ \E s \in Streams : open[s]

\* Stop with force comes back, whatever the process does with SIGTERM and
\* however many graceful stops came before, unless an orphan holds a pipe.
ForcedStopReturns ==
  \A c \in Callers :
    (call[c] = "wait" /\ force[c]) ~> (call[c] \in {"code", "ctx"} \/ Orphaned)

\* Once the process has ended and its pipes are closed the job gets done,
\* read errors or not.
ClosedPipesComplete ==
  (proc # "running" /\ \A s \in Streams : ~open[s]) ~> doneCtx

=============================================================================
