-------------------------- MODULE DirectExecProofs --------------------------
(***************************************************************************)
(* The inductive invariant of DirectExec.tla, and what follows from it for *)
(* every buffer size, channel capacity, amount of output and set of exit   *)
(* statuses.                                                               *)
(***************************************************************************)
EXTENDS DirectExec, TLAPS

\* A console has what was read for it, which is never more than the job has
\* stored, and nothing else.
CopyInv ==
  \A w \in Streams :
    /\ offset[w] <= out[Source(w)]
    /\ console[w][Source(w)] = offset[w]
    /\ console[w][w] = 0

\* The consoles that have been drained since the exit code was read.
Drained ==
  CASE pc = "drainErr" -> {"stdout"}
    [] pc \in {"check", "exited"} -> Streams
    [] OTHER -> {}

\* An exit code that was seen is the job's, and what was drained after it
\* was seen is all there will ever be.
SeenInv ==
  /\ seenCode # NoCode =>
       /\ seenCode = exitCode
       /\ \A w \in Drained : offset[w] = out[Source(w)]
  /\ pc = "exited" => seenCode # NoCode /\ status = seenCode

IInv == TypeOK /\ CopyInv /\ SeenInv

-----------------------------------------------------------------------------

\* The job's own steps and the command's calls keep the job in its types
\* (job.go:183-188, 201-206).
LEMMA JobType ==
  ASSUME JobTypeOK,
         \/ \E s \in Streams, n \in 1..MaxOut : UpdateOutput(s, n)
         \/ \E c \in ExitCodes : MarkDone(c)
         \/ AddUpdateListener(Update) \/ Receive(Update)
         \/ UNCHANGED jobVars
  PROVE  JobTypeOK'
  <1>a. /\ out \in [Streams -> 0..MaxOut] /\ exitCode \in ExitCodes \cup {NoCode}
        /\ listeners \subseteq Listeners /\ chan \in [Listeners -> Seq(Updates)]
        /\ MaxOut \in Nat /\ Update \in Listeners
    BY JobAssumption, ExecAssumption DEF JobTypeOK
  <1>b. ASSUME NEW u \in Updates PROVE Notified(u) \in [Listeners -> Seq(Updates)]
    BY <1>a DEF Notified
  <1>1. ASSUME NEW s \in Streams, NEW n \in 1..MaxOut, UpdateOutput(s, n)
        PROVE  JobTypeOK'
    BY <1>1, <1>a, <1>b DEF UpdateOutput, JobTypeOK, Updates
  <1>2. ASSUME NEW c \in ExitCodes, MarkDone(c) PROVE JobTypeOK'
    BY <1>2, <1>a, <1>b DEF MarkDone, JobTypeOK, Updates
  <1>3. CASE AddUpdateListener(Update)
    BY <1>3, <1>a DEF AddUpdateListener, JobTypeOK
  <1>4. CASE Receive(Update)
    <2>1. Tail(chan[Update]) \in Seq(Updates)
      BY <1>4, <1>a DEF Receive
    <2> QED
      BY <2>1, <1>4, <1>a DEF Receive, JobTypeOK
  <1>5. CASE UNCHANGED jobVars
    BY <1>5 DEF jobVars, JobTypeOK
  <1> QED
    BY <1>1, <1>2, <1>3, <1>4, <1>5

\* The command has just been called.
LEMMA InitInv == Init => IInv
  <1> SUFFICES ASSUME Init PROVE IInv
    OBVIOUS
  <1> USE DEF Init, JobInit
  <1>1. TypeOK
    <2>1. 0 \in 0..MaxOut
      BY JobAssumption
    <2>2. JobTypeOK
      BY <2>1 DEF JobTypeOK
    <2>3. pc \in {"listen"} /\ timer \subseteq {"first"} /\ asked \subseteq {"term"}
      OBVIOUS
    <2> QED
      BY <2>1, <2>2, <2>3 DEF TypeOK
  <1>2. CopyInv
    BY DEF CopyInv, Source, Streams
  <1>3. SeenInv
    BY DEF SeenInv
  <1> QED
    BY <1>1, <1>2, <1>3 DEF IInv

\* One read and the write of what it got: the offset and the console move
\* together, not beyond what the job has stored; the command goes on when
\* nothing is left.
LEMMA DrainStep ==
  ASSUME TypeOK, CopyInv, NEW w \in Streams, NEW from, NEW next,
         Drain(w, from, next)
  PROVE  /\ UNCHANGED <<seenCode, status, jobVars, signal, timer, asked>>
         /\ offset' \in [Streams -> 0..MaxOut]
         /\ console' \in [Streams -> [Streams -> 0..MaxOut]]
         /\ CopyInv'
         /\ \A v \in Streams \ {w} : offset'[v] = offset[v]
         /\ \/ pc' = from
            \/ pc' = next /\ offset' = offset /\ offset[w] = out[Source(w)]
  <1> DEFINE left == out[Source(w)] - offset[w]
             n == IF left < Chunk THEN left ELSE Chunk
  <1>a. /\ out \in [Streams -> 0..MaxOut] /\ offset \in [Streams -> 0..MaxOut]
        /\ console \in [Streams -> [Streams -> 0..MaxOut]]
        /\ MaxOut \in Nat /\ Chunk \in Nat \ {0}
        /\ \A v \in Streams : Source(v) \in Streams /\ Source(v) # v
    BY JobAssumption, ExecAssumption DEF TypeOK, JobTypeOK, Source, Streams
  <1>b. /\ offset[w] <= out[Source(w)]
        /\ console[w][Source(w)] = offset[w]
    BY DEF CopyInv
  <1>1. n \in 0..left /\ n \in Nat /\ (n = 0 => offset[w] = out[Source(w)])
    <2>1. offset[w] \in Int /\ out[Source(w)] \in Int /\ Chunk \in Nat \ {0}
      <3>1. Source(w) \in Streams
        BY <1>a
      <3> QED
        BY <3>1, <1>a
    <2> QED
      BY <2>1, <1>b
  <1>2. offset[w] + n \in 0..out[Source(w)] /\ out[Source(w)] \in 0..MaxOut
    BY <1>1, <1>a
  <1>3. /\ offset' = [offset EXCEPT ![w] = @ + n]
        /\ console' = [console EXCEPT ![w][Source(w)] = @ + n]
        /\ pc' = IF n = 0 THEN next ELSE from
        /\ UNCHANGED <<seenCode, status, jobVars, signal, timer, asked>>
    BY DEF Drain, Goto
  <1> HIDE DEF n, left
  <1>4. /\ offset' \in [Streams -> 0..MaxOut]
        /\ console' \in [Streams -> [Streams -> 0..MaxOut]]
    BY <1>1, <1>2, <1>3, <1>a, <1>b
  <1>5. CopyInv'
    <2>1. ASSUME NEW v \in Streams
          PROVE  /\ offset'[v] <= out'[Source(v)]
                 /\ console'[v][Source(v)] = offset'[v]
                 /\ console'[v][v] = 0
      BY <1>2, <1>3, <1>a, <1>b DEF CopyInv, jobVars
    <2> QED
      BY <2>1 DEF CopyInv
  <1>6. n = 0 => offset' = offset
    BY <1>3, <1>a
  <1> QED
    BY <1>1, <1>3, <1>4, <1>5, <1>6, <1>a

-----------------------------------------------------------------------------

\* Every step keeps the variables in their types; that the consoles stay
\* within the bound rests on CopyInv.
LEMMA StepType == ASSUME IInv, [Next]_vars PROVE TypeOK'
  <1> USE DEF Goto, execVars
  <1>a. TypeOK /\ JobTypeOK /\ CopyInv /\ exitCode \in ExitCodes \cup {NoCode}
    BY DEF IInv, TypeOK, JobTypeOK
  <1>b. ASSUME Job \/ Listen \/ TakeUpdate \/ UNCHANGED jobVars PROVE JobTypeOK'
    BY <1>a, <1>b, JobType DEF Job, Listen, TakeUpdate
  <1>1. CASE Job \/ Listen \/ TakeUpdate
    BY <1>1, <1>a, <1>b DEF Job, Listen, TakeUpdate, TypeOK
  <1>2. CASE ReadCode \/ CheckCode \/ DrainFails
    BY <1>2, <1>a, <1>b DEF ReadCode, CheckCode, DrainFails, TypeOK,
       jobVars, Drains, Ended
  <1>3. ASSUME NEW w \in Streams, NEW from \in Drains, NEW next \in Drains \cup {"check"},
               Drain(w, from, next)
        PROVE  TypeOK'
    <2>1. /\ UNCHANGED <<seenCode, status, jobVars, signal, timer, asked>>
          /\ offset' \in [Streams -> 0..MaxOut]
          /\ console' \in [Streams -> [Streams -> 0..MaxOut]]
          /\ pc' \in {from, next}
      BY <1>3, <1>a, DrainStep
    <2> QED
      BY <2>1, <1>a, <1>b DEF TypeOK
  <1>4. CASE TakeSignal \/ StopDone \/ StopTimesOut \/ ForceTimesOut
    BY <1>4, <1>a, <1>b DEF TakeSignal, StopDone, StopTimesOut, ForceTimesOut,
       TypeOK, jobVars, Ended
  <1>5. CASE Timeout \/ UNCHANGED vars
    BY <1>5, <1>a, <1>b DEF Timeout, vars, TypeOK
  <1>6. CASE Signalled
    <2>1. pc' = pc \/ pc' = "killed"
      BY <1>6 DEF Signalled
    <2> QED
      BY <2>1, <1>6, <1>a, <1>b DEF Signalled, TypeOK, Ended, jobVars
  <1> QED
    BY <1>1, <1>2, <1>3, <1>4, <1>5, <1>6 DEF Next, Command, Drains, Streams

\* What a step does to the job: its output only grows, and once it has an
\* exit code neither changes.
LEMMA JobGrows ==
  ASSUME TypeOK, [Next]_vars
  PROVE  /\ out' \in [Streams -> Int] /\ \A s \in Streams : out'[s] >= out[s]
         /\ exitCode # NoCode => UNCHANGED <<out, exitCode>>
  <1> USE DEF execVars
  <1>a. /\ out \in [Streams -> Int] /\ MaxOut \in Nat
    BY JobAssumption DEF TypeOK, JobTypeOK
  <1>1. ASSUME NEW s \in Streams, NEW n \in 1..MaxOut, UpdateOutput(s, n)
        PROVE  /\ out' \in [Streams -> Int] /\ \A r \in Streams : out'[r] >= out[r]
               /\ exitCode = NoCode
    BY <1>1, <1>a DEF UpdateOutput
  <1>2. ASSUME NEW c \in ExitCodes, MarkDone(c)
        PROVE  out' = out /\ exitCode = NoCode
    BY <1>2 DEF MarkDone
  <1>3. CASE Job
    BY <1>1, <1>2, <1>3, <1>a DEF Job
  <1>4. CASE Command
    <2>1. ASSUME NEW w \in Streams, NEW from, NEW next, Drain(w, from, next)
          PROVE  UNCHANGED jobVars
      BY <2>1 DEF Drain
    <2> QED
      BY <1>4, <2>1, <1>a DEF Command, Listen, ReadCode, CheckCode, TakeUpdate,
         StopDone, StopTimesOut, ForceTimesOut, AddUpdateListener, Receive,
         jobVars, Streams
  <1>5. CASE TakeSignal \/ DrainFails \/ Timeout \/ Signalled \/ UNCHANGED vars
    BY <1>5, <1>a DEF TakeSignal, DrainFails, Timeout, Signalled, vars, jobVars
  <1> QED
    BY <1>3, <1>4, <1>5 DEF Next

\* The consoles are written by Drain alone, and the job only grows.
LEMMA StepCopy == ASSUME IInv, [Next]_vars PROVE CopyInv'
  <1> USE DEF execVars
  <1>a. TypeOK /\ CopyInv /\ \A w \in Streams : Source(w) \in Streams
    BY DEF IInv, Source, Streams
  <1>1. ASSUME UNCHANGED <<offset, console>> PROVE CopyInv'
    <2>1. /\ offset \in [Streams -> Int] /\ out \in [Streams -> Int]
          /\ out' \in [Streams -> Int] /\ \A s \in Streams : out'[s] >= out[s]
      BY <1>a, JobGrows, JobAssumption DEF TypeOK, JobTypeOK
    <2> QED
      BY <1>a, <1>1, <2>1 DEF CopyInv
  <1>2. ASSUME NEW w \in Streams, NEW from, NEW next, Drain(w, from, next)
        PROVE  CopyInv'
    BY <1>2, <1>a, DrainStep
  <1>3. CASE Command
    BY <1>1, <1>2, <1>3 DEF Command, Listen, ReadCode, CheckCode, TakeUpdate,
       StopDone, StopTimesOut, ForceTimesOut, Streams
  <1>4. CASE TakeSignal \/ DrainFails \/ Timeout \/ Signalled \/ Job \/ UNCHANGED vars
    BY <1>1, <1>4 DEF TakeSignal, DrainFails, Timeout, Signalled, Job, vars
  <1> QED
    BY <1>3, <1>4 DEF Next

\* The exit code is read before the consoles are drained, so that it freezes
\* what there is to drain.
LEMMA StepSeen == ASSUME IInv, [Next]_vars PROVE SeenInv'
  <1> USE DEF Goto, execVars
  <1>a. TypeOK /\ SeenInv /\ \A w \in Streams : Source(w) \in Streams
    BY DEF IInv, Source, Streams
  <1>b. exitCode # NoCode => out' = out /\ exitCode' = exitCode
    BY <1>a, JobGrows
  <1>1. CASE Job \/ Timeout \/ Signalled \/ UNCHANGED vars
    BY <1>1, <1>a, <1>b DEF Job, Timeout, Signalled, vars, SeenInv, Drained, jobVars
  <1>2. CASE ReadCode
    BY <1>2, <1>a DEF ReadCode, SeenInv, Drained, jobVars
  <1>3. CASE Drain("stdout", "drainOut", "drainErr")
    <2>1. /\ UNCHANGED <<seenCode, status, jobVars>>
          /\ pc = "drainOut"
          /\ \/ pc' = "drainOut"
             \/ pc' = "drainErr" /\ offset'["stdout"] = out[Source("stdout")]
      BY <1>3, DrainStep DEF IInv, Drain, Streams
    <2> QED
      BY <2>1, <1>a DEF SeenInv, Drained, jobVars
  <1>4. CASE Drain("stderr", "drainErr", "check")
    <2>1. /\ UNCHANGED <<seenCode, status, jobVars>>
          /\ pc = "drainErr"
          /\ offset'["stdout"] = offset["stdout"]
          /\ \/ pc' = "drainErr"
             \/ pc' = "check" /\ offset'["stderr"] = out[Source("stderr")]
      BY <1>4, DrainStep DEF IInv, Drain, Streams
    <2> QED
      BY <2>1, <1>a DEF SeenInv, Drained, jobVars, Streams
  <1>5. CASE CheckCode
    BY <1>5, <1>a DEF CheckCode, SeenInv, Drained, jobVars
  <1>6. CASE \/ Listen \/ TakeUpdate \/ TakeSignal \/ DrainFails
             \/ StopDone \/ StopTimesOut \/ ForceTimesOut
    BY <1>6, <1>a DEF Listen, TakeUpdate, TakeSignal, DrainFails, StopDone,
       StopTimesOut, ForceTimesOut, AddUpdateListener, Receive, SeenInv, Drained,
       jobVars
  <1> QED
    BY <1>1, <1>2, <1>3, <1>4, <1>5, <1>6 DEF Next, Command

-----------------------------------------------------------------------------
(* The theorems. *)

\* The inductive invariant of the command (exec.go, runDirectExec).
THEOREM Invariant == Spec => []IInv
  <1>1. IInv /\ [Next]_vars => IInv'
    BY StepType, StepCopy, StepSeen DEF IInv
  <1> QED
    BY InitInv, <1>1, PTL DEF Spec

\* All variables keep their types; no console gets more than a job wrote.
THEOREM TypeCorrect == Spec => []TypeOK
  <1>1. IInv => TypeOK
    BY DEF IInv
  <1> QED
    BY Invariant, <1>1, PTL

\* A command that exits because the job is done has copied all of its output
\* and exits with its code (exec.go:80-97), however the job's last writes and
\* its end fall between the command's reads.
THEOREM ExitIsDrained == Spec => []ExitsAfterDrain
  <1>1. IInv => ExitsAfterDrain
    <2> SUFFICES ASSUME IInv, pc = "exited" PROVE ExitsAfterDrain
      BY DEF ExitsAfterDrain
    <2>1. /\ status = exitCode
          /\ \A w \in Streams : offset[w] = out[Source(w)]
      BY DEF IInv, SeenInv, Drained
    <2>2. /\ \A w \in Streams : console[w][Source(w)] = offset[w] /\ console[w][w] = 0
          /\ out \in [Streams -> Int]
      BY JobAssumption DEF IInv, CopyInv, TypeOK, JobTypeOK
    <2> QED
      BY <2>1, <2>2 DEF ExitsAfterDrain, Source, Streams
  <1> QED
    BY Invariant, <1>1, PTL

=============================================================================
