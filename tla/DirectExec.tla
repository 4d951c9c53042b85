----------------------------- MODULE DirectExec -----------------------------
(***************************************************************************)
(* The direct-exec command (cmd/exec.go, runDirectExec): it runs one job   *)
(* and copies its output until the job is done or a signal arrives, then   *)
(* stops the job, first gracefully and then by force.  The job is the      *)
(* contract of JobContract.tla.                                            *)
(*                                                                         *)
(* The channel the command listens on is Update.  Stop is what Runner.tla  *)
(* shows of Job.Stop: a request, then the first of "done" and "context     *)
(* closed".                                                                *)
(***************************************************************************)
EXTENDS JobContract

CONSTANTS
  Update,   \* updateCh
  Chunk     \* size of buf

ASSUME ExecAssumption ==
  /\ Listeners = {Update}
  /\ Chunk \in Nat \ {0}

VARIABLES
  pc,       \* where the command is
  seenCode, \* its exitCode variable
  offset,   \* stdoutOffset and stderrOffset
  console,  \* bytes written on os.Stdout and os.Stderr, by stream they are of
  signal,   \* does sigCh hold a signal?
  timer,    \* which of the two timeouts have passed
  asked,    \* how the job was asked to stop
  status    \* what the command exits with

execVars == <<pc, seenCode, offset, console, status>>
vars == <<jobVars, execVars, signal, timer, asked>>

Drains == {"drainOut", "drainErr"}
Ended == {"exited", "stopped", "failed", "ioError", "killed"}

TypeOK ==
  /\ JobTypeOK
  /\ pc \in {"listen", "code", "check", "select", "stop", "force"}
              \cup Drains \cup Ended
  /\ seenCode \in ExitCodes \cup {NoCode}
  /\ offset \in [Streams -> 0..MaxOut]
  /\ console \in [Streams -> [Streams -> 0..MaxOut]]
  /\ signal \in BOOLEAN
  /\ timer \subseteq {"first", "second"}
  /\ asked \subseteq {"term", "kill"}
  /\ status \in ExitCodes \cup {NoCode}

\* SubmitJob has started the job.
Init ==
  /\ JobInit
  /\ pc = "listen" /\ seenCode = NoCode
  /\ offset = [s \in Streams |-> 0]
  /\ console = [w \in Streams |-> [s \in Streams |-> 0]]
  /\ signal = FALSE /\ timer = {} /\ asked = {}
  /\ status = NoCode

Goto(l) == pc' = l

\* The job writes, and ends whenever it likes.
Job ==
  /\ \/ \E s \in Streams, n \in 1..MaxOut : UpdateOutput(s, n)
     \/ \E c \in ExitCodes : MarkDone(c)
  /\ UNCHANGED <<execVars, signal, timer, asked>>

\* AddUpdateListener, then signal.Notify.
Listen ==
  /\ pc = "listen"
  /\ AddUpdateListener(Update)
  /\ Goto("code")
  /\ UNCHANGED <<seenCode, offset, console, status, signal, timer, asked>>

\* "Check for exit code before draining".
ReadCode ==
  /\ pc = "code"
  /\ seenCode' = exitCode
  /\ Goto("drainOut")
  /\ UNCHANGED <<offset, console, status, jobVars, signal, timer, asked>>

Source(w) == IF w = "stdout" THEN "stderr" ELSE "stdout"

\* Mutant: the whole buffer counts as read while anything was.
DrainWhole(w, from, next) ==
  /\ pc = from
  /\ LET s == Source(w)
         n == IF out[s] > offset[w] THEN Chunk ELSE 0
     IN /\ offset' = [offset EXCEPT ![w] = @ + n]
        /\ console' = [console EXCEPT ![w][s] = @ + n]
        /\ Goto(IF n = 0 THEN next ELSE from)
  /\ UNCHANGED <<seenCode, status, jobVars, signal, timer, asked>>

\* One read of drainOutput and the write of what it got on console w; with
\* nothing to read the command goes on.  For os.Stderr the code reads the
\* job's stdout, for os.Stdout its stderr.
Drain(w, from, next) ==
  /\ pc = from
  /\ LET s == Source(w)
         left == out[s] - offset[w]
         n == IF left < Chunk THEN left ELSE Chunk
     IN /\ offset' = [offset EXCEPT ![w] = @ + n]
        /\ console' = [console EXCEPT ![w][s] = @ + n]
        /\ Goto(IF n = 0 THEN next ELSE from)
  /\ UNCHANGED <<seenCode, status, jobVars, signal, timer, asked>>

\* Mutant: the exit code is looked up after draining.
CheckCodeNow ==
  /\ pc = "check"
  /\ IF exitCode = NoCode
       THEN Goto("select") /\ UNCHANGED status
       ELSE Goto("exited") /\ status' = exitCode
  /\ UNCHANGED <<seenCode, offset, console, jobVars, signal, timer, asked>>

CheckCode ==
  /\ pc = "check"
  /\ IF seenCode = NoCode
       THEN Goto("select") /\ UNCHANGED status
       ELSE Goto("exited") /\ status' = seenCode
  /\ UNCHANGED <<seenCode, offset, console, jobVars, signal, timer, asked>>

\* A write on the console fails: the command returns, the job runs on.
DrainFails ==
  /\ pc \in Drains
  /\ Goto("ioError")
  /\ UNCHANGED <<seenCode, offset, console, status, jobVars, signal, timer, asked>>

-----------------------------------------------------------------------------
(* The select, and stopping. *)

\* Mutant: only the update of the exit code starts another round.
TakeExitUpdate ==
  /\ pc = "select"
  /\ Receive(Update)
  /\ Goto(IF Head(chan[Update]) = "exit" THEN "code" ELSE "select")
  /\ UNCHANGED <<seenCode, offset, console, status, signal, timer, asked>>

\* Any update starts another round.
TakeUpdate ==
  /\ pc = "select"
  /\ Receive(Update)
  /\ Goto("code")
  /\ UNCHANGED <<seenCode, offset, console, status, signal, timer, asked>>

TakeSignal ==
  /\ pc = "select" /\ signal
  /\ signal' = FALSE
  /\ asked' = asked \cup {"term"}
  /\ Goto("stop")
  /\ UNCHANGED <<seenCode, offset, console, status, jobVars, timer>>

\* job.Stop comes back because the job is done.
StopDone ==
  /\ pc \in {"stop", "force"} /\ exitCode # NoCode
  /\ status' = exitCode
  /\ Goto("stopped")
  /\ UNCHANGED <<seenCode, offset, console, jobVars, signal, timer, asked>>

\* Mutant: the graceful stop has no timeout.
StopWaits ==
  /\ pc = "stop" /\ exitCode # NoCode
  /\ asked' = asked \cup {"kill"}
  /\ Goto("force")
  /\ UNCHANGED <<seenCode, offset, console, status, jobVars, signal, timer>>

\* The first context closes: on to the forced stop.
StopTimesOut ==
  /\ pc = "stop" /\ "first" \in timer
  /\ asked' = asked \cup {"kill"}
  /\ Goto("force")
  /\ UNCHANGED <<seenCode, offset, console, status, jobVars, signal, timer>>

\* The second context is a child of the first one, which is closed.
ForceTimesOut ==
  /\ pc = "force" /\ timer # {}
  /\ Goto("failed")
  /\ UNCHANGED <<seenCode, offset, console, status, jobVars, signal, timer, asked>>

\* Three seconds pass.
Timeout ==
  /\ \/ pc = "stop" /\ timer' = timer \cup {"first"}
     \/ pc = "force" /\ timer' = timer \cup {"second"}
  /\ UNCHANGED <<execVars, jobVars, signal, asked>>

\* SIGTERM or SIGINT.  It kills the command, not its job, until the command
\* listens for signals; from then on sigCh holds one.
Signalled ==
  /\ \/ pc = "listen" /\ Goto("killed") /\ UNCHANGED signal
     \/ pc \notin Ended \cup {"listen"} /\ ~signal /\ signal' = TRUE /\ UNCHANGED pc
  /\ UNCHANGED <<seenCode, offset, console, status, jobVars, timer, asked>>

-----------------------------------------------------------------------------

Command ==
  \/ Listen \/ ReadCode \/ CheckCode
  \/ Drain("stdout", "drainOut", "drainErr") \/ Drain("stderr", "drainErr", "check")
  \/ TakeUpdate
  \/ StopDone \/ StopTimesOut \/ ForceTimesOut

Next == Command \/ TakeSignal \/ DrainFails \/ Timeout \/ Signalled \/ Job

Spec == Init /\ [][Next]_vars

\* The command runs, its timers go off, and a select does not pass over a
\* signal for ever.
Fairness == WF_vars(Command) /\ SF_vars(TakeSignal) /\ WF_vars(Timeout)

-----------------------------------------------------------------------------
(* Properties. *)

\* exec.go:90: "We can exit safely because we drained after an exit code
\* appeared": all output is on the console, and the status is the job's.
ExitsAfterDrain ==
  pc = "exited" =>
    /\ status = exitCode
    /\ \A s \in Streams : console["stdout"][s] + console["stderr"][s] = out[s]

\* The command ends when its job does.
CommandEnds == (exitCode # NoCode) ~> (pc \in Ended)

\* A signal that was caught ends the command, whatever the job does about
\* being stopped, with one exception: a drain that always finds more to copy
\* (exec.go:133) never gets back to the select.  It takes a job that runs on
\* and writes at least as fast as the console takes it, for ever.
SignalEnds ==
  signal ~> (\/ pc \in Ended
             \/ [](pc = "drainOut" /\ exitCode = NoCode)
             \/ [](pc = "drainErr" /\ exitCode = NoCode))

=============================================================================
