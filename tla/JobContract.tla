---------------------------- MODULE JobContract ----------------------------
(***************************************************************************)
(* What a Job (worker/job.go) promises to the code that holds one: two     *)
(* append-only output streams, an exit code that is set once and closes    *)
(* both streams, and update channels that are notified by non-blocking     *)
(* sends.  Every method of job.go runs under Job.updateLock, so each of    *)
(* them is one atomic step here.                                           *)
(*                                                                         *)
(* Output is abstracted to its length: the i-th byte a process writes on a *)
(* stream is the i-th byte of that stream.  nil, for an exit code, is      *)
(* NoCode.                                                                 *)
(*                                                                         *)
(* Runner.tla shows that the runner's goroutines implement this contract;  *)
(* Stream.tla builds the streaming RPC on top of it.                       *)
(***************************************************************************)
EXTENDS Integers, Sequences

CONSTANTS
  Statuses,   \* exit statuses a process may end with
  NoCode,     \* the nil exit code of a job that is not complete
  Listeners,  \* the channels callers pass to AddUpdateListener
  ChanCap,    \* buffer of each of those channels
  MaxOut      \* bound: bytes a process writes on one stream

ExitCodes == Statuses \cup {-1}

ASSUME JobAssumption ==
  /\ NoCode \notin ExitCodes
  /\ ChanCap \in Nat \ {0}
  /\ MaxOut \in Nat

VARIABLES
  out,        \* length of Job.stdout and of Job.stderr
  exitCode,   \* Job.exitCode
  listeners,  \* Job.listeners
  chan        \* what each channel buffers

jobVars == <<out, exitCode, listeners, chan>>

Streams == {"stdout", "stderr"}
Updates == Streams \cup {"exit"}

JobTypeOK ==
  /\ out \in [Streams -> 0..MaxOut]
  /\ exitCode \in ExitCodes \cup {NoCode}
  /\ listeners \subseteq Listeners
  /\ chan \in [Listeners -> Seq(Updates)]

JobInit ==
  /\ out = [s \in Streams |-> 0]
  /\ exitCode = NoCode
  /\ listeners = {}
  /\ chan = [l \in Listeners |-> << >>]

\* Non-blocking send to every registered channel; a full one misses it.
Notified(u) ==
  [l \in Listeners |->
     IF l \in listeners /\ Len(chan[l]) < ChanCap
       THEN Append(chan[l], u) ELSE chan[l]]

\* updateOutput "should never be called after markDone": its callers' duty.
UpdateOutput(s, n) ==
  /\ exitCode = NoCode
  /\ out[s] + n <= MaxOut
  /\ out' = [out EXCEPT ![s] = @ + n]
  /\ chan' = Notified(s)
  /\ UNCHANGED <<exitCode, listeners>>

\* Mutant: markDone forgets the listeners.
MarkDoneUnseen(c) ==
  /\ exitCode = NoCode
  /\ exitCode' = c
  /\ UNCHANGED <<out, listeners, chan>>

MarkDone(c) ==
  /\ exitCode = NoCode
  /\ exitCode' = c
  /\ chan' = Notified("exit")
  /\ UNCHANGED <<out, listeners>>

AddUpdateListener(l) ==
  /\ listeners' = listeners \cup {l}
  /\ UNCHANGED <<out, exitCode, chan>>

RemoveUpdateListener(l) ==
  /\ listeners' = listeners \ {l}
  /\ UNCHANGED <<out, exitCode, chan>>

\* The holder of a channel receives from it.
Receive(l) ==
  /\ chan[l] # << >>
  /\ chan' = [chan EXCEPT ![l] = Tail(@)]
  /\ UNCHANGED <<out, exitCode, listeners>>

JobNext ==
  \/ \E s \in Streams, n \in 1..MaxOut : UpdateOutput(s, n)
  \/ \E c \in ExitCodes : MarkDone(c)
  \/ \E l \in Listeners :
       AddUpdateListener(l) \/ RemoveUpdateListener(l) \/ Receive(l)

JobSpec == JobInit /\ [][JobNext]_jobVars

=============================================================================
