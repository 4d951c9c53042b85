--------------------------- MODULE ServiceProofs ---------------------------
(***************************************************************************)
(* The inductive invariant of Service.tla, and what follows from it for    *)
(* every number of RPCs, buffer size and amount of output.                 *)
(***************************************************************************)
EXTENDS Service, TLAPS

Early == {"idle", "lookup", "submit", "start", "check", "stop", "code"}
Reading == {"code", "stdout", "stderr", "respond"}

\* Has RPC c read the exit code, and to its end stream s?
HasCode(c) == pc[c] \in {"stdout", "stderr", "respond"} \/ status[c] = "OK"
HasStream(c, s) ==
  \/ pc[c] = "respond" \/ status[c] = "OK"
  \/ s = "stdout" /\ pc[c] = "stderr"

\* Each RPC takes the path of its method, and has a status when it returns.
PathInv ==
  \A c \in Calls :
    /\ kind[c] # "get" => include[c] = {}
    /\ pc[c] \in {"submit", "start"} => kind[c] = "submit"
    /\ pc[c] = "lookup" => kind[c] # "submit"
    /\ pc[c] \in {"check", "stop"} => kind[c] = "stop"
    /\ pc[c] \in Streams => pc[c] \in include[c]
    /\ status[c] # "none" => pc[c] = "ret"
    /\ pc[c] = "idle" => before[c] = {}

\* The ID is held by the one submission that is about to start its job, and
\* once it names a job it does for good.
EntryInv ==
  /\ \A c \in Calls :
       /\ pc[c] = "start" => entry = "held"
       /\ pc[c] \in Reading \cup {"check", "stop"} \/ status[c] = "OK" =>
            entry = "job"
  /\ \A c, d \in Calls : pc[c] = "start" /\ pc[d] = "start" => c = d

\* A response has a part of the job: the exit code it has is the job's, and
\* what it read after that code is everything.
ResponseInv ==
  \A c \in Calls :
    /\ \A s \in Streams : got[c][s] <= out[s]
    /\ code[c] # NoCode => HasCode(c) /\ code[c] = exitCode
    /\ \A s \in include[c] :
         code[c] # NoCode /\ HasStream(c, s) => got[c][s] = out[s]

\* StopJob goes on to the response only when its job is done.
StopInv ==
  \A c \in Calls : kind[c] = "stop" =>
    /\ pc[c] = "code" => exitCode # NoCode
    /\ HasCode(c) => code[c] # NoCode

\* What an RPC has read is not behind what earlier ones answered.
OrderInv ==
  \A c \in Calls : \A d \in before[c] :
    /\ status[d] = "OK"
    /\ status[c] # "NotFound"
    /\ HasCode(c) /\ code[d] # NoCode => code[c] = code[d]
    /\ \A s \in include[c] \cap include[d] :
         HasStream(c, s) => got[c][s] >= got[d][s]

IInv == TypeOK /\ PathInv /\ EntryInv /\ ResponseInv /\ StopInv /\ OrderInv

-----------------------------------------------------------------------------

\* No RPC has been made yet.
LEMMA InitInv == Init => IInv
  <1> SUFFICES ASSUME Init PROVE IInv
    OBVIOUS
  <1> USE DEF Init
  <1>1. TypeOK
    <2>1. 0 \in 0..MaxOut
      BY JobAssumption
    <2>2. JobTypeOK
      <3>1. /\ out \in [Streams -> 0..MaxOut]
            /\ exitCode \in ExitCodes \cup {NoCode}
        BY <2>1 DEF JobInit
      <3>2. listeners = {} /\ chan = [l \in Listeners |-> << >>]
        BY DEF JobInit
      <3> QED
        BY <3>1, <3>2 DEF JobTypeOK
    <2>3. /\ got \in [Calls -> [Streams -> 0..MaxOut]]
          /\ pc \in [Calls -> Places] /\ before \in [Calls -> SUBSET Calls]
      BY <2>1 DEF Places
    <2> QED
      BY <2>2, <2>3 DEF TypeOK
  <1>2. PathInv /\ EntryInv /\ StopInv /\ OrderInv
    BY DEF PathInv, EntryInv, StopInv, OrderInv, HasCode, HasStream, Streams, Reading
  <1>3. ResponseInv
    <2>1. \A s \in Streams : out[s] \in Nat
      BY <1>1, JobAssumption DEF TypeOK, JobTypeOK
    <2> QED
      BY <2>1, <1>1 DEF ResponseInv, TypeOK, HasCode
  <1> QED
    BY <1>1, <1>2, <1>3 DEF IInv

\* What a step does to the job: its output only grows, and once it has an
\* exit code neither changes.
LEMMA JobGrows ==
  ASSUME TypeOK, [Next]_vars
  PROVE  /\ JobTypeOK'
         /\ \A s \in Streams : out'[s] >= out[s]
         /\ exitCode # NoCode => UNCHANGED <<out, exitCode>>
  <1>a. /\ JobTypeOK
        /\ out \in [Streams -> 0..MaxOut] /\ exitCode \in ExitCodes \cup {NoCode}
        /\ listeners \subseteq Listeners /\ chan \in [Listeners -> Seq(Updates)]
        /\ MaxOut \in Nat
    BY JobAssumption DEF TypeOK, JobTypeOK
  <1>b. ASSUME NEW u \in Updates PROVE Notified(u) \in [Listeners -> Seq(Updates)]
    BY <1>a DEF Notified
  <1>1. ASSUME NEW s \in Streams, NEW n \in 1..MaxOut, UpdateOutput(s, n)
        PROVE  /\ JobTypeOK' /\ \A r \in Streams : out'[r] >= out[r]
               /\ exitCode = NoCode
    <2>1. /\ out' \in [Streams -> 0..MaxOut] /\ \A r \in Streams : out'[r] >= out[r]
      BY <1>1, <1>a DEF UpdateOutput
    <2> QED
      BY <2>1, <1>1, <1>a, <1>b DEF UpdateOutput, JobTypeOK, Updates
  <1>2. ASSUME NEW c \in ExitCodes, MarkDone(c)
        PROVE  JobTypeOK' /\ out' = out /\ exitCode = NoCode
    BY <1>2, <1>a, <1>b DEF MarkDone, JobTypeOK, Updates
  <1>3. CASE UNCHANGED jobVars
    BY <1>3, <1>a DEF jobVars, JobTypeOK
  <1>4. CASE Job
    BY <1>1, <1>2, <1>4, <1>a DEF Job
  <1>5. ASSUME NEW c \in Calls, Call(c) \/ Refuse(c) \/ Rpc(c)
        PROVE  UNCHANGED jobVars
    BY <1>5 DEF Call, Refuse, Rpc, Lookup, Submit, Start, CheckStopped, StopDone,
       StopFails, ReadCode, Respond, ReadOutput
  <1> QED
    BY <1>3, <1>4, <1>5 DEF Next, ShutAnnounce, ShutMark, vars

\* One read of allOutput adds nothing when all is read, and never more than
\* there is.
LEMMA ReadMore ==
  ASSUME TypeOK, ResponseInv, NEW c \in Calls, NEW s \in Streams, ReadOutput(c, s)
  PROVE  /\ got' \in [Calls -> [Streams -> 0..MaxOut]]
         /\ \A d \in Calls, r \in Streams :
              got'[d][r] >= got[d][r] /\ got'[d][r] <= out[r]
         /\ \A d \in Calls \ {c} : got'[d] = got[d]
         /\ \A r \in Streams \ {s} : got'[c][r] = got[c][r]
         /\ \/ pc' = pc
            \/ /\ pc' = [pc EXCEPT ![c] = NextPart(c, s)]
               /\ got' = got /\ got[c][s] = out[s]
  <1> DEFINE left == out[s] - got[c][s]
             n == IF left < Chunk THEN left ELSE Chunk
  <1>a. /\ out \in [Streams -> 0..MaxOut] /\ MaxOut \in Nat
        /\ got \in [Calls -> [Streams -> 0..MaxOut]]
        /\ \A d \in Calls, r \in Streams : got[d][r] <= out[r]
    BY JobAssumption DEF TypeOK, JobTypeOK, ResponseInv
  <1>1. /\ n \in Nat /\ got[c][s] + n <= out[s] /\ (n = 0 => got[c][s] = out[s])
    <2>1. out[s] \in Int /\ got[c][s] \in Int /\ got[c][s] <= out[s]
      BY <1>a
    <2> QED
      BY <2>1, ServiceAssumption
  <1>2. /\ got' = [got EXCEPT ![c][s] = @ + n]
        /\ pc' = [pc EXCEPT ![c] = IF n = 0 THEN NextPart(c, s) ELSE s]
        /\ pc[c] = s
    BY DEF ReadOutput, Goto
  <1> HIDE DEF n, left
  <1>3. \A d \in Calls, r \in Streams :
          /\ got[d][r] \in 0..MaxOut
          /\ got'[d][r] = IF d = c /\ r = s THEN got[c][s] + n ELSE got[d][r]
    BY <1>2, <1>a
  <1>4. \A d \in Calls, r \in Streams :
          got'[d][r] >= got[d][r] /\ got'[d][r] <= out[r]
    BY <1>1, <1>3, <1>a
  <1>5. got' \in [Calls -> [Streams -> 0..MaxOut]]
    <2>1. got[c][s] + n \in 0..MaxOut
      BY <1>1, <1>3, <1>a
    <2> QED
      BY <2>1, <1>2, <1>a
  <1>6. \A d \in Calls \ {c} : got'[d] = got[d]
    BY <1>2, <1>a
  <1>7. CASE n = 0
    <2>1. got' = got
      BY <1>7, <1>2, <1>a, <1>3
    <2> QED
      BY <2>1, <1>1, <1>2, <1>3, <1>4, <1>5, <1>6, <1>7
  <1>8. CASE n # 0
    <2>1. pc' = pc
      BY <1>8, <1>2 DEF TypeOK
    <2> QED
      BY <2>1, <1>3, <1>4, <1>5, <1>6
  <1> QED
    BY <1>7, <1>8

-----------------------------------------------------------------------------

\* Every step keeps the variables in their types; that responses stay within
\* the bound rests on ResponseInv.
LEMMA StepType == ASSUME IInv, [Next]_vars PROVE TypeOK'
  <1> USE DEF Goto, Return, rpcVars, responseVars, workerVars
  <1>a. TypeOK /\ JobTypeOK' /\ exitCode \in ExitCodes \cup {NoCode}
    BY JobGrows DEF IInv, TypeOK, JobTypeOK
  <1>1. ASSUME NEW c \in Calls, Call(c) \/ Refuse(c) PROVE TypeOK'
    <2>1. pc' \in [Calls -> Places]
      BY <1>1, <1>a DEF Call, Refuse, TypeOK, Places
    <2>2. before' \in [Calls -> SUBSET Calls]
      <3>1. {d \in Calls : status[d] = "OK"} \in SUBSET Calls
        OBVIOUS
      <3> QED
        BY <3>1, <1>1, <1>a DEF Call, Refuse, TypeOK
    <2> QED
      BY <2>1, <2>2, <1>1, <1>a DEF Call, Refuse, TypeOK
  <1>2. ASSUME NEW c \in Calls, Lookup(c) \/ Submit(c) \/ Start(c) PROVE TypeOK'
    BY <1>2, <1>a DEF Lookup, Submit, Start, TypeOK, Places
  <1>3. ASSUME NEW c \in Calls,
               CheckStopped(c) \/ StopDone(c) \/ StopFails(c) \/ Respond(c)
        PROVE  TypeOK'
    BY <1>3, <1>a DEF CheckStopped, StopDone, StopFails, Respond, TypeOK, Places
  <1>4. ASSUME NEW c \in Calls, ReadCode(c) PROVE TypeOK'
    BY <1>4, <1>a DEF ReadCode, NextPart, TypeOK, Places
  <1>5. ASSUME NEW c \in Calls, NEW s \in Streams, ReadOutput(c, s) PROVE TypeOK'
    <2>1. got' \in [Calls -> [Streams -> 0..MaxOut]]
      BY <1>5, <1>a, ReadMore DEF IInv
    <2>2. pc' \in [Calls -> Places]
      BY <1>5, <1>a, ReadMore DEF IInv, NextPart, TypeOK, Places
    <2> QED
      BY <2>1, <2>2, <1>5, <1>a DEF ReadOutput, TypeOK
  <1>6. CASE Job \/ ShutAnnounce \/ ShutMark \/ UNCHANGED vars
    BY <1>6, <1>a DEF Job, ShutAnnounce, ShutMark, vars, TypeOK
  <1> QED
    BY <1>1, <1>2, <1>3, <1>4, <1>5, <1>6 DEF Next, Rpc

\* Control of an RPC goes along its method.
LEMMA StepPath == ASSUME IInv, [Next]_vars PROVE PathInv'
  <1> USE DEF Goto, Return, rpcVars, responseVars, workerVars
  <1>a. TypeOK /\ PathInv /\ ResponseInv
    BY DEF IInv
  <1>1. ASSUME NEW c \in Calls, Call(c) \/ Refuse(c) PROVE PathInv'
    BY <1>1, <1>a DEF Call, Refuse, PathInv, TypeOK, Streams
  <1>2. ASSUME NEW c \in Calls, Lookup(c) \/ Submit(c) \/ Start(c) PROVE PathInv'
    BY <1>2, <1>a DEF Lookup, Submit, Start, PathInv, TypeOK, Streams
  <1>3. ASSUME NEW c \in Calls,
               CheckStopped(c) \/ StopDone(c) \/ StopFails(c) \/ Respond(c)
        PROVE  PathInv'
    BY <1>3, <1>a DEF CheckStopped, StopDone, StopFails, Respond, PathInv, TypeOK,
       Streams
  <1>4. ASSUME NEW c \in Calls, ReadCode(c) PROVE PathInv'
    BY <1>4, <1>a DEF ReadCode, NextPart, PathInv, TypeOK, Streams
  <1>5. ASSUME NEW c \in Calls, NEW s \in Streams, ReadOutput(c, s) PROVE PathInv'
    <2>1. /\ UNCHANGED <<kind, include, status, before>> /\ pc[c] = s
          /\ \/ pc' = pc
             \/ pc' = [pc EXCEPT ![c] = NextPart(c, s)]
      BY <1>5, <1>a, ReadMore DEF ReadOutput
    <2> QED
      BY <2>1, <1>a DEF NextPart, PathInv, TypeOK, Streams
  <1>6. CASE Job \/ ShutAnnounce \/ ShutMark \/ UNCHANGED vars
    BY <1>6, <1>a DEF Job, ShutAnnounce, ShutMark, vars, PathInv
  <1> QED
    BY <1>1, <1>2, <1>3, <1>4, <1>5, <1>6 DEF Next, Rpc

\* The ID goes from free to held and back, or on to the job.
LEMMA StepEntry == ASSUME IInv, [Next]_vars PROVE EntryInv'
  <1> USE DEF Goto, Return, rpcVars, responseVars, workerVars
  <1>a. TypeOK /\ PathInv /\ EntryInv /\ ResponseInv
    BY DEF IInv
  <1>1. ASSUME NEW c \in Calls, Call(c) \/ Refuse(c) PROVE EntryInv'
    BY <1>1, <1>a DEF Call, Refuse, EntryInv, TypeOK, Reading
  <1>2. ASSUME NEW c \in Calls, Lookup(c) PROVE EntryInv'
    BY <1>2, <1>a DEF Lookup, EntryInv, TypeOK, Reading
  <1>3. ASSUME NEW c \in Calls, Submit(c) \/ Start(c) PROVE EntryInv'
    BY <1>3, <1>a DEF Submit, Start, EntryInv, TypeOK, Reading
  <1>4. ASSUME NEW c \in Calls,
               CheckStopped(c) \/ StopDone(c) \/ StopFails(c) \/ Respond(c)
        PROVE  EntryInv'
    BY <1>4, <1>a DEF CheckStopped, StopDone, StopFails, Respond, EntryInv, TypeOK,
       Reading
  <1>5. ASSUME NEW c \in Calls, ReadCode(c) PROVE EntryInv'
    BY <1>5, <1>a DEF ReadCode, NextPart, EntryInv, TypeOK, Reading
  <1>6. ASSUME NEW c \in Calls, NEW s \in Streams, ReadOutput(c, s) PROVE EntryInv'
    <2>1. /\ UNCHANGED <<status, entry>> /\ pc[c] = s
          /\ \/ pc' = pc
             \/ pc' = [pc EXCEPT ![c] = NextPart(c, s)]
      BY <1>6, <1>a, ReadMore DEF ReadOutput
    <2> QED
      BY <2>1, <1>a DEF NextPart, EntryInv, TypeOK, Reading, Streams
  <1>7. CASE Job \/ ShutAnnounce \/ ShutMark \/ UNCHANGED vars
    BY <1>7, <1>a DEF Job, ShutAnnounce, ShutMark, vars, EntryInv
  <1> QED
    BY <1>1, <1>2, <1>3, <1>4, <1>5, <1>6, <1>7 DEF Next, Rpc

\* An exit code in a response freezes the job, and so what the response has
\* to read.
LEMMA StepResponse == ASSUME IInv, [Next]_vars PROVE ResponseInv'
  <1> USE DEF Goto, Return, rpcVars, responseVars, workerVars, HasCode, HasStream
  <1>a. TypeOK /\ PathInv /\ ResponseInv
    BY DEF IInv
  <1>b. /\ out \in [Streams -> Int] /\ out' \in [Streams -> Int]
        /\ got \in [Calls -> [Streams -> Int]]
        /\ \A s \in Streams : out'[s] >= out[s]
        /\ exitCode # NoCode => UNCHANGED <<out, exitCode>>
    BY <1>a, JobGrows, JobAssumption DEF TypeOK, JobTypeOK
  <1>1. ASSUME NEW c \in Calls, Call(c) \/ Refuse(c) \/ CheckStopped(c)
                                \/ StopDone(c) \/ StopFails(c)
        PROVE  ResponseInv'
    BY <1>1, <1>a DEF Call, Refuse, CheckStopped, StopDone, StopFails, ResponseInv,
       PathInv, TypeOK, jobVars
  <1>2. ASSUME NEW c \in Calls, Lookup(c) \/ Submit(c) \/ Start(c)
        PROVE  ResponseInv'
    BY <1>2, <1>a DEF Lookup, Submit, Start, ResponseInv, PathInv, TypeOK, jobVars
  <1>3. ASSUME NEW c \in Calls, ReadCode(c) PROVE ResponseInv'
    BY <1>3, <1>a DEF ReadCode, NextPart, ResponseInv, PathInv, TypeOK, jobVars,
       Streams
  <1>4. ASSUME NEW c \in Calls, NEW s \in Streams, ReadOutput(c, s)
        PROVE  ResponseInv'
    <2>1. /\ UNCHANGED <<include, status, code, jobVars>> /\ pc[c] = s
      BY <1>4 DEF ReadOutput
    <2>2. /\ \A d \in Calls, r \in Streams : got'[d][r] <= out[r]
          /\ \A d \in Calls \ {c} : got'[d] = got[d]
          /\ \A r \in Streams \ {s} : got'[c][r] = got[c][r]
          /\ \/ pc' = pc
             \/ /\ pc' = [pc EXCEPT ![c] = NextPart(c, s)]
                /\ got' = got /\ got[c][s] = out[s]
      BY <1>4, <1>a, ReadMore
    <2>3. /\ status[c] = "none"
          /\ \A d \in Calls : include[d] \subseteq Streams
      BY <2>1, <1>a DEF PathInv, TypeOK, Streams
    <2>4. CASE pc' = pc
      BY <2>1, <2>2, <2>3, <2>4, <1>a DEF ResponseInv, jobVars, Streams
    <2>5. CASE pc' = [pc EXCEPT ![c] = NextPart(c, s)] /\ got' = got
               /\ got[c][s] = out[s]
      BY <2>1, <2>3, <2>5, <1>a DEF NextPart, ResponseInv, TypeOK, jobVars, Streams
    <2> QED
      BY <2>2, <2>4, <2>5
  <1>5. ASSUME NEW c \in Calls, Respond(c) PROVE ResponseInv'
    BY <1>5, <1>a DEF Respond, ResponseInv, PathInv, TypeOK, jobVars
  <1>6. CASE Job \/ ShutAnnounce \/ ShutMark \/ UNCHANGED vars
    <2>1. UNCHANGED <<pc, include, status, code, got>>
      BY <1>6 DEF Job, ShutAnnounce, ShutMark, vars
    <2>2. \A c \in Calls, s \in Streams : got[c][s] <= out'[s]
      BY <1>a, <1>b DEF ResponseInv
    <2>3. \A c \in Calls : code[c] # NoCode =>
            HasCode(c) /\ code[c] = exitCode' /\ out' = out
      BY <1>a, <1>b DEF ResponseInv
    <2> QED
      BY <2>1, <2>2, <2>3, <1>a DEF ResponseInv
  <1> QED
    BY <1>1, <1>2, <1>3, <1>4, <1>5, <1>6 DEF Next, Rpc

\* StopJob reads the exit code after Job.Stop saw the job done.
LEMMA StepStop == ASSUME IInv, [Next]_vars PROVE StopInv'
  <1> USE DEF Goto, Return, rpcVars, responseVars, workerVars, HasCode
  <1>a. TypeOK /\ PathInv /\ StopInv /\ ResponseInv
    BY DEF IInv
  <1>1. ASSUME NEW c \in Calls, Call(c) \/ Refuse(c) \/ CheckStopped(c)
                                \/ StopDone(c) \/ StopFails(c)
        PROVE  StopInv'
    BY <1>1, <1>a DEF Call, Refuse, CheckStopped, StopDone, StopFails, StopInv,
       PathInv, TypeOK, jobVars
  <1>2. ASSUME NEW c \in Calls, Lookup(c) \/ Submit(c) \/ Start(c)
        PROVE  StopInv'
    BY <1>2, <1>a DEF Lookup, Submit, Start, StopInv, PathInv, TypeOK, jobVars
  <1>3. ASSUME NEW c \in Calls, ReadCode(c) \/ Respond(c) PROVE StopInv'
    BY <1>3, <1>a DEF ReadCode, Respond, NextPart, StopInv, PathInv, TypeOK, jobVars
  <1>4. ASSUME NEW c \in Calls, NEW s \in Streams, ReadOutput(c, s)
        PROVE  StopInv'
    <2>1. /\ UNCHANGED <<kind, status, code, jobVars>> /\ pc[c] = s
          /\ \/ pc' = pc
             \/ pc' = [pc EXCEPT ![c] = NextPart(c, s)]
      BY <1>4, <1>a, ReadMore DEF ReadOutput
    <2> QED
      BY <2>1, <1>a DEF NextPart, StopInv, TypeOK, jobVars, Streams
  <1>5. CASE Job \/ ShutAnnounce \/ ShutMark \/ UNCHANGED vars
    <2>1. UNCHANGED <<pc, kind, status, code>>
      BY <1>5 DEF Job, ShutAnnounce, ShutMark, vars
    <2> QED
      BY <2>1, <1>a, JobGrows DEF StopInv
  <1> QED
    BY <1>1, <1>2, <1>3, <1>4, <1>5 DEF Next, Rpc

\* Answers are given in the order in which the job moves.
LEMMA StepOrder == ASSUME IInv, [Next]_vars PROVE OrderInv'
  <1> USE DEF Goto, Return, rpcVars, responseVars, workerVars, HasCode, HasStream
  <1>a. TypeOK /\ PathInv /\ EntryInv /\ OrderInv /\ ResponseInv
    BY DEF IInv
  <1>b. /\ got \in [Calls -> [Streams -> Int]]
        /\ \A c \in Calls : before[c] \subseteq Calls /\ include[c] \subseteq Streams
        /\ \A c \in Calls : \A d \in before[c] : (pc[d] = "ret" /\ d # c) \/ pc[c] = "ret"
    BY <1>a, JobAssumption DEF TypeOK, OrderInv, PathInv
  <1>1. ASSUME NEW c \in Calls, Call(c) PROVE OrderInv'
    <2>1. /\ UNCHANGED <<include, status, code, got>> /\ pc[c] = "idle"
          /\ status[c] = "none" /\ \A d \in Calls : c \notin before[d]
      BY <1>1, <1>a DEF Call, OrderInv, PathInv
    <2>2. /\ pc'[c] \in {"submit", "lookup"}
          /\ before'[c] = {d \in Calls : status[d] = "OK"}
          /\ \A d \in Calls \ {c} : pc'[d] = pc[d] /\ before'[d] = before[d]
      BY <1>1, <1>a DEF Call, TypeOK
    <2> QED
      BY <2>1, <2>2, <1>a DEF OrderInv
  <1>2. ASSUME NEW c \in Calls, Refuse(c) \/ CheckStopped(c) \/ StopDone(c)
                                \/ StopFails(c)
        PROVE  OrderInv'
    BY <1>2, <1>a DEF Refuse, CheckStopped, StopDone, StopFails, OrderInv, PathInv,
       TypeOK
  <1>3. ASSUME NEW c \in Calls, Lookup(c) \/ Submit(c) \/ Start(c) PROVE OrderInv'
    <2>1. before[c] # {} => entry = "job"
      BY <1>a, <1>b DEF OrderInv, EntryInv
    <2> QED
      BY <2>1, <1>3, <1>a DEF Lookup, Submit, Start, OrderInv, PathInv, TypeOK
  <1>4. ASSUME NEW c \in Calls, ReadCode(c) PROVE OrderInv'
    BY <1>4, <1>a, <1>b DEF ReadCode, NextPart, OrderInv, PathInv, ResponseInv,
       TypeOK, Streams
  <1>5. ASSUME NEW c \in Calls, Respond(c) PROVE OrderInv'
    BY <1>5, <1>a DEF Respond, OrderInv, PathInv, TypeOK
  <1>6. ASSUME NEW c \in Calls, NEW s \in Streams, ReadOutput(c, s)
        PROVE  OrderInv'
    <2>1. /\ UNCHANGED <<include, status, code, before>> /\ pc[c] = s
      BY <1>6 DEF ReadOutput
    <2>2. /\ \A d \in Calls, r \in Streams : got'[d][r] >= got[d][r]
          /\ \A d \in Calls \ {c} : got'[d] = got[d]
          /\ got' \in [Calls -> [Streams -> Int]]
          /\ \/ pc' = pc
             \/ /\ pc' = [pc EXCEPT ![c] = NextPart(c, s)]
                /\ got' = got /\ got[c][s] = out[s]
      BY <1>6, <1>a, ReadMore, JobAssumption
    <2>3. \A d \in Calls : c \notin before[d]
      <3>1. status[c] # "OK"
        BY <2>1, <1>a DEF PathInv, Streams
      <3> QED
        BY <3>1, <1>a DEF OrderInv
    <2>4. CASE pc' = pc
      <3>1. ASSUME NEW d \in Calls, NEW e \in before[d],
                   NEW r \in include[d] \cap include[e], HasStream(d, r)
            PROVE  got'[d][r] >= got'[e][r]
        <4>1. /\ e \in Calls \ {c} /\ r \in Streams
              /\ got[d][r] >= got[e][r]
          BY <3>1, <2>3, <1>a, <1>b DEF OrderInv
        <4> QED
          BY <4>1, <2>2, <1>b
      <3> QED
        BY <3>1, <2>1, <2>4, <1>a DEF OrderInv
    <2>5. CASE pc' = [pc EXCEPT ![c] = NextPart(c, s)] /\ got' = got
               /\ got[c][s] = out[s]
      BY <2>1, <2>3, <2>5, <1>a, <1>b
      DEF NextPart, OrderInv, ResponseInv, TypeOK, Streams
    <2> QED
      BY <2>2, <2>4, <2>5
  <1>7. CASE Job \/ ShutAnnounce \/ ShutMark \/ UNCHANGED vars
    BY <1>7, <1>a DEF Job, ShutAnnounce, ShutMark, vars, OrderInv
  <1> QED
    BY <1>1, <1>2, <1>3, <1>4, <1>5, <1>6, <1>7 DEF Next, Rpc

-----------------------------------------------------------------------------
(* The worker's promise: what the RPCs see of it is a registry. *)

\* One submission at most has its job listed, the ID is held as long as it is
\* being decided, and the shutdown has waited for that.
RegInv ==
  /\ \A c \in Calls :
       status[c] \in {"Stopped", "NotStopped"} => kind[c] = "stop" /\ entry = "job"
  /\ \A c, d \in Calls : Kept(c) /\ Kept(d) => c = d
  /\ shutdown = "yes" => entry # "held"
  /\ entry = "held" => \E c \in Calls : pc[c] = "start"

\* A call that goes on from one of these places stays decided as it was.
Decided == {"check", "stop", "code", "stdout", "stderr", "respond"}

\* What the calls that go on do to the variables that the registry is about.
LEMMA DecidedMoves ==
  ASSUME IInv, RegInv, NEW c \in Calls,
         \/ CheckStopped(c) \/ StopDone(c) \/ StopFails(c) \/ ReadCode(c)
         \/ Respond(c) \/ \E s \in Streams : ReadOutput(c, s)
  PROVE  /\ UNCHANGED <<kind, entry, shutdown>>
         /\ pc[c] \in Decided /\ status[c] = "none" /\ entry = "job"
         /\ \A d \in Calls \ {c} : pc'[d] = pc[d] /\ status'[d] = status[d]
         /\ \/ pc'[c] \in Decided \ {"check"} /\ status'[c] = "none"
            \/ pc'[c] = "ret" /\ status'[c] \in {"OK", "Stopped", "NotStopped"}
         /\ kind[c] = "submit" =>
              \/ pc[c] = "code" /\ pc'[c] = "respond" /\ status'[c] = "none"
              \/ pc[c] = "respond" /\ pc'[c] = "ret" /\ status'[c] = "OK"
         /\ status'[c] \in {"Stopped", "NotStopped"} => kind[c] = "stop"
  <1> USE DEF Goto, Return, responseVars, workerVars, Decided
  <1>a. TypeOK /\ PathInv /\ EntryInv /\ ResponseInv
    BY DEF IInv
  <1>1. CASE CheckStopped(c) \/ StopDone(c) \/ StopFails(c)
    BY <1>1, <1>a DEF CheckStopped, StopDone, StopFails, PathInv, EntryInv, TypeOK
  <1>2. CASE ReadCode(c)
    BY <1>2, <1>a DEF ReadCode, NextPart, PathInv, EntryInv, Reading, TypeOK
  <1>3. CASE Respond(c)
    BY <1>3, <1>a DEF Respond, PathInv, EntryInv, Reading, TypeOK
  <1>4. ASSUME NEW s \in Streams, ReadOutput(c, s)
        PROVE  /\ UNCHANGED <<kind, entry, shutdown, status>>
               /\ pc[c] \in Streams /\ status[c] = "none" /\ entry = "job"
               /\ \A d \in Calls \ {c} : pc'[d] = pc[d]
               /\ pc'[c] \in Decided \ {"check"} /\ kind[c] # "submit"
    <2>1. /\ UNCHANGED <<kind, status, entry, shutdown>> /\ pc[c] = s
          /\ \/ pc' = pc
             \/ pc' = [pc EXCEPT ![c] = NextPart(c, s)]
      BY <1>4, <1>a, ReadMore DEF ReadOutput
    <2> QED
      BY <2>1, <1>a DEF NextPart, PathInv, EntryInv, Reading, TypeOK, Streams
  <1> QED
    BY <1>1, <1>2, <1>3, <1>4 DEF Streams

\* No call has come to the worker yet.
LEMMA InitReg == Init => RegInv
  BY DEF Init, RegInv, Kept

\* Each submission decides alone, and Shutdown's lock keeps it from going on
\* after the shutdown.
LEMMA StepReg == ASSUME IInv, RegInv, [Next]_vars PROVE RegInv'
  <1> USE DEF Goto, Return, rpcVars, responseVars, workerVars
  <1>a. TypeOK /\ PathInv /\ EntryInv
    BY DEF IInv
  <1>1. ASSUME NEW c \in Calls, Call(c) \/ Refuse(c) \/ Lookup(c)
        PROVE  RegInv'
    <2>1. /\ UNCHANGED <<kind, entry, shutdown>>
          /\ pc[c] \in {"idle", "lookup", "submit"} /\ status[c] = "none"
          /\ \A d \in Calls \ {c} : pc'[d] = pc[d] /\ status'[d] = status[d]
          /\ pc'[c] # "start" /\ status'[c] \notin {"OK", "Stopped", "NotStopped"}
          /\ pc'[c] \in {"code", "respond"} => kind[c] # "submit"
      <3>1. CASE Call(c)
        BY <3>1, <1>a DEF Call, PathInv, TypeOK
      <3>2. CASE Refuse(c)
        BY <3>2, <1>a DEF Refuse, PathInv, TypeOK
      <3>3. CASE Lookup(c)
        BY <3>3, <1>a DEF Lookup, PathInv, TypeOK
      <3> QED
        BY <1>1, <3>1, <3>2, <3>3
    <2> QED
      BY <2>1 DEF RegInv, Kept
  <1>2. ASSUME NEW c \in Calls, Submit(c) PROVE RegInv'
    BY <1>2, <1>a DEF Submit, RegInv, Kept, PathInv, EntryInv, Reading, TypeOK
  <1>3. ASSUME NEW c \in Calls, Start(c) PROVE RegInv'
    BY <1>3, <1>a DEF Start, RegInv, Kept, PathInv, EntryInv, Reading, TypeOK
  <1>4. ASSUME NEW c \in Calls,
               \/ CheckStopped(c) \/ StopDone(c) \/ StopFails(c) \/ ReadCode(c)
               \/ Respond(c) \/ \E s \in Streams : ReadOutput(c, s)
        PROVE  RegInv'
    BY <1>4, DecidedMoves DEF RegInv, Kept, Decided
  <1>5. CASE Job \/ ShutAnnounce \/ ShutMark \/ UNCHANGED vars
    BY <1>5 DEF Job, ShutAnnounce, ShutMark, vars, RegInv, Kept
  <1> QED
    BY <1>1, <1>2, <1>3, <1>4, <1>5 DEF Next, Rpc

\* The job under the ID is that of the call that kept it, or an earlier one.
LEMMA OwnerIs ==
  ASSUME RegInv
  PROVE  /\ \A c \in Calls : Kept(c) => Owner = c
         /\ (\A c \in Calls : ~Kept(c)) => Owner = Earlier
         /\ Owner \in Calls \cup {Earlier}
  BY DEF RegInv, Owner

\* The owner is determined by who has kept the ID.
LEMMA OwnerStays ==
  ASSUME RegInv, RegInv', \A c \in Calls : Kept(c)' <=> Kept(c)
  PROVE  Owner' = Owner
  <1>1. CASE \E c \in Calls : Kept(c)
    <2>1. PICK c \in Calls : Kept(c)
      BY <1>1
    <2>2. Owner = c /\ Kept(c)'
      BY <2>1, OwnerIs
    <2>3. Owner' = c
      BY <2>2 DEF RegInv, Owner
    <2> QED
      BY <2>2, <2>3
  <1>2. CASE \A c \in Calls : ~Kept(c)
    <2>1. ~ \E c \in Calls : Kept(c)'
      BY <1>2
    <2> QED
      BY <1>2, <2>1 DEF Owner
  <1> QED
    BY <1>1, <1>2

\* A step that decides nothing leaves the ID and what was found under it.
LEMMA RegStays ==
  ASSUME RegInv, RegInv', UNCHANGED <<entry, shutdown>>,
         \A c \in Calls : /\ Kept(c)' <=> Kept(c)
                          /\ HasJob(c)' <=> HasJob(c)
                          /\ pc'[c] = "start" <=> pc[c] = "start"
  PROVE  UNCHANGED <<Holders, Listed, Handed, Found>>
  BY OwnerStays DEF Holders, Listed, Handed, Found

\* The ID is free, or names the job of an earlier submission.
LEMMA RegistryInit == Init => Reg!Init
  <1> SUFFICES ASSUME Init PROVE Reg!Init
    OBVIOUS
  <1>1. \A c \in Calls : ~Kept(c) /\ ~HasJob(c) /\ pc[c] = "idle"
    BY DEF Init, Kept, HasJob
  <1>2. Owner = Earlier
    BY <1>1 DEF Owner
  <1>3. /\ Holders = [k \in {"id"} |-> {}] /\ Handed = {} /\ shutdown # "yes"
        /\ Found = [c \in Calls |-> NoJob]
    BY <1>1 DEF Init, Holders, Handed, Found
  <1>4. Answers = [c \in Calls |-> "idle"]
    BY <1>1 DEF Answers
  <1>5. Listed \in [{"id"} -> {Earlier} \cup {NoJob}]
    BY <1>2 DEF Listed
  <1> QED
    BY <1>3, <1>4, <1>5 DEF Reg!Init

\* An answer changes for the one call that moves.
LEMMA AnswerStep ==
  ASSUME NEW c \in Calls, kind' = kind,
         \A d \in Calls \ {c} : pc'[d] = pc[d] /\ status'[d] = status[d]
  PROVE  /\ Answers' = [Answers EXCEPT ![c] = Answers'[c]]
         /\ Answers'[c] = Answers[c] => Answers' = Answers
  <1>1. \A d \in Calls \ {c} : Answers'[d] = Answers[d]
    BY DEF Answers, Kept
  <1>2. Answers = [d \in Calls |-> Answers[d]] /\ Answers' = [d \in Calls |-> Answers'[d]]
    BY DEF Answers
  <1> QED
    BY <1>1, <1>2

\* Every step of an RPC is one of the registry, or changes nothing of it.
LEMMA RegistryStep ==
  ASSUME IInv, IInv', RegInv, RegInv', [Next]_vars
  PROVE  [Reg!Next]_(Reg!regVars)
  <1> DEFINE same == UNCHANGED <<Holders, Listed, Handed, Found>>
             others(c) == \A d \in Calls \ {c} : pc'[d] = pc[d] /\ status'[d] = status[d]
  <1> USE DEF Goto, Return, rpcVars, responseVars, workerVars
  <1>a. /\ TypeOK /\ PathInv /\ EntryInv
        /\ pc \in [Calls -> Places] /\ Owner # NoJob
    BY OwnerIs, ServiceAssumption DEF IInv, TypeOK
  <1>b. ASSUME same, Answers' = Answers, shutdown' = "yes" <=> shutdown = "yes"
        PROVE  [Reg!Next]_(Reg!regVars)
    BY <1>b DEF Reg!regVars
  <1>c. ASSUME NEW c \in Calls,
               \/ Reg!Invoke(c) \/ Reg!Refuse(c) \/ Reg!Hold(c) \/ Reg!Exists(c)
               \/ Reg!Keep(c) \/ Reg!Drop(c) \/ Reg!Look(c)
        PROVE  [Reg!Next]_(Reg!regVars)
    BY <1>c DEF Reg!Next
  <1>1. ASSUME NEW c \in Calls, Call(c) PROVE [Reg!Next]_(Reg!regVars)
    <2>1. /\ UNCHANGED <<kind, entry, shutdown>> /\ others(c)
          /\ pc[c] = "idle" /\ pc'[c] \in {"submit", "lookup"}
          /\ status[c] = "none" /\ status'[c] = "none"
      BY <1>1, <1>a DEF Call, PathInv, TypeOK
    <2>2. same
      BY <2>1, RegStays DEF Kept, HasJob
    <2>3. Answers[c] = "idle" /\ Answers'[c] = "called"
      BY <2>1 DEF Answers
    <2>4. Answers' = [Answers EXCEPT ![c] = "called"]
      BY <2>1, <2>3, AnswerStep
    <2>5. Reg!Invoke(c)
      BY <2>1, <2>2, <2>3, <2>4 DEF Reg!Invoke, Reg!Answer
    <2> QED
      BY <2>5, <1>c
  <1>2. ASSUME NEW c \in Calls, Refuse(c) PROVE [Reg!Next]_(Reg!regVars)
    <2>1. /\ UNCHANGED <<kind, entry, shutdown>> /\ others(c)
          /\ pc[c] \in {"lookup", "submit"} /\ pc'[c] = "ret"
          /\ status[c] = "none" /\ status'[c] = "Refused"
      BY <1>2, <1>a DEF Refuse, PathInv, TypeOK
    <2>2. same
      BY <2>1, RegStays DEF Kept, HasJob
    <2>3. Answers[c] = "called" /\ Answers'[c] = "called"
      BY <2>1 DEF Answers
    <2>4. Answers' = Answers
      BY <2>1, <2>3, AnswerStep
    <2> QED
      BY <2>1, <2>2, <2>4, <1>b
  <1>3. ASSUME NEW c \in Calls, Lookup(c) PROVE [Reg!Next]_(Reg!regVars)
    <2>1. /\ UNCHANGED <<kind, entry, shutdown>> /\ others(c)
          /\ pc[c] = "lookup" /\ status[c] = "none" /\ kind[c] # "submit"
          /\ Answers[c] = "called"
      BY <1>3, <1>a DEF Lookup, PathInv, TypeOK, Answers
    <2>2. CASE shutdown = "yes"
      <3>1. pc'[c] = "ret" /\ status'[c] = "Shutdown"
        BY <1>3, <2>2, <1>a DEF Lookup, TypeOK
      <3>2. same
        BY <2>1, <3>1, RegStays DEF Kept, HasJob
      <3>3. Answers'[c] = "ErrShutdown"
        BY <3>1 DEF Answers
      <3>4. Answers' = [Answers EXCEPT ![c] = "ErrShutdown"]
        BY <2>1, <3>3, AnswerStep
      <3>5. Reg!Refuse(c)
        BY <2>1, <2>2, <3>2, <3>4 DEF Reg!Refuse, Reg!Answer
      <3> QED
        BY <3>5, <1>c
    <2>3. CASE shutdown = "no"
      <3>1. \/ /\ entry # "job" /\ pc'[c] = "ret" /\ status'[c] = "NotFound"
            \/ /\ entry = "job" /\ pc'[c] \in {"check", "code"} /\ status'[c] = "none"
        BY <1>3, <2>1, <2>3, <1>a DEF Lookup, TypeOK
      <3>2. /\ UNCHANGED <<Holders, Listed, Handed, Owner>>
        <4>1. \A d \in Calls : /\ Kept(d)' <=> Kept(d)
                               /\ pc'[d] = "start" <=> pc[d] = "start"
          BY <2>1, <3>1 DEF Kept
        <4>2. Owner' = Owner
          BY <4>1, OwnerStays
        <4> QED
          BY <4>1, <4>2, <2>1 DEF Holders, Listed, Handed
      <3>3. Answers'[c] = "job"
        BY <2>1, <3>1 DEF Answers, Kept
      <3>4. Answers' = [Answers EXCEPT ![c] = "job"]
        BY <2>1, <3>3, AnswerStep
      <3>5. Found' = [Found EXCEPT ![c] = Listed["id"]]
        <4>1. \A d \in Calls \ {c} : HasJob(d)' <=> HasJob(d)
          BY <2>1 DEF HasJob
        <4>2. HasJob(c)' <=> entry = "job"
          BY <2>1, <3>1 DEF HasJob
        <4> QED
          BY <4>1, <4>2, <3>2, <2>3 DEF Found, Listed
      <3>6. Reg!Look(c)
        BY <2>1, <2>3, <3>2, <3>4, <3>5 DEF Reg!Look, Reg!Answer
      <3> QED
        BY <3>6, <1>c
    <2> QED
      BY <1>3, <2>2, <2>3 DEF Lookup
  <1>4. ASSUME NEW c \in Calls, Submit(c) PROVE [Reg!Next]_(Reg!regVars)
    <2>1. /\ UNCHANGED <<kind, shutdown>> /\ others(c)
          /\ pc[c] = "submit" /\ status[c] = "none" /\ kind[c] = "submit"
          /\ Answers[c] = "called"
      BY <1>4, <1>a DEF Submit, PathInv, TypeOK, Answers
    <2>2. CASE shutdown = "yes"
      <3>1. pc'[c] = "ret" /\ status'[c] = "Shutdown" /\ entry' = entry
        BY <1>4, <2>2, <1>a DEF Submit, TypeOK
      <3>2. same
        BY <2>1, <3>1, RegStays DEF Kept, HasJob
      <3>3. Answers'[c] = "ErrShutdown"
        BY <3>1 DEF Answers
      <3>4. Answers' = [Answers EXCEPT ![c] = "ErrShutdown"]
        BY <2>1, <3>3, AnswerStep
      <3>5. Reg!Refuse(c)
        BY <2>1, <2>2, <3>2, <3>4 DEF Reg!Refuse, Reg!Answer
      <3> QED
        BY <3>5, <1>c
    <2>3. CASE shutdown = "no" /\ entry # "free"
      <3>1. pc'[c] = "ret" /\ status'[c] = "AlreadyExists" /\ entry' = entry
        BY <1>4, <2>3, <1>a DEF Submit, TypeOK
      <3>2. same
        BY <2>1, <3>1, RegStays DEF Kept, HasJob
      <3>3. Answers'[c] = "ErrIDAlreadyExists"
        BY <3>1 DEF Answers
      <3>4. Answers' = [Answers EXCEPT ![c] = "ErrIDAlreadyExists"]
        BY <2>1, <3>3, AnswerStep
      <3>5. Holders["id"] # {} \/ Listed["id"] # NoJob
        <4>1. entry \in {"held", "job"}
          BY <2>3, <1>a DEF TypeOK
        <4> QED
          BY <4>1, <2>3, <1>a DEF Holders, Listed, RegInv
      <3>6. Reg!Exists(c)
        BY <2>1, <2>3, <3>2, <3>4, <3>5 DEF Reg!Exists, Reg!Answer
      <3> QED
        BY <3>6, <1>c
    <2>4. CASE shutdown = "no" /\ entry = "free"
      <3>1. pc'[c] = "start" /\ status'[c] = "none" /\ entry' = "held"
        BY <1>4, <2>1, <2>4, <1>a DEF Submit, TypeOK
      <3>2. \A d \in Calls : /\ ~Kept(d) /\ ~Kept(d)' /\ ~HasJob(d) /\ ~HasJob(d)'
                             /\ pc[d] # "start"
                             /\ pc'[d] = "start" <=> d = c
        <4>1. \A d \in Calls : /\ ~Kept(d) /\ ~HasJob(d) /\ pc[d] # "start"
          BY <2>4, <1>a DEF EntryInv, Reading, Kept, HasJob, RegInv
        <4> QED
          BY <4>1, <2>1, <3>1 DEF Kept, HasJob
      <3>3. /\ UNCHANGED <<Listed, Handed, Found>>
            /\ Listed["id"] = NoJob /\ Holders["id"] = {}
            /\ Holders' = [Holders EXCEPT !["id"] = {c}]
        BY <3>1, <3>2, <2>1, <2>4 DEF Listed, Handed, Found, Holders
      <3>4. Answers'[c] = "held"
        BY <3>1 DEF Answers
      <3>5. Answers' = [Answers EXCEPT ![c] = "held"]
        BY <2>1, <3>4, AnswerStep
      <3>6. Reg!Hold(c)
        BY <2>1, <2>4, <3>3, <3>5 DEF Reg!Hold, Reg!Answer
      <3> QED
        BY <3>6, <1>c
    <2> QED
      BY <1>4, <2>2, <2>3, <2>4 DEF Submit
  <1>5. ASSUME NEW c \in Calls, Start(c) PROVE [Reg!Next]_(Reg!regVars)
    <2>1. /\ UNCHANGED <<kind, shutdown>> /\ others(c)
          /\ pc[c] = "start" /\ status[c] = "none" /\ kind[c] = "submit"
          /\ Answers[c] = "held" /\ entry = "held" /\ shutdown # "yes"
      BY <1>5, <1>a DEF Start, PathInv, EntryInv, RegInv, TypeOK, Answers
    <2>2. \/ pc'[c] = "code" /\ status'[c] = "none" /\ entry' = "job"
          \/ pc'[c] = "ret" /\ status'[c] = "Unknown" /\ entry' = "free"
      BY <1>5, <2>1, <1>a DEF Start, TypeOK
    <2>3. \A d \in Calls : /\ ~Kept(d) /\ ~HasJob(d) /\ ~HasJob(d)'
                           /\ pc[d] = "start" <=> d = c
                           /\ pc'[d] # "start"
      <3>1. \A d \in Calls : ~Kept(d) /\ ~HasJob(d) /\ (pc[d] = "start" <=> d = c)
        BY <2>1, <1>a DEF EntryInv, Reading, Kept, HasJob, RegInv
      <3> QED
        BY <3>1, <2>1, <2>2 DEF HasJob
    <2>4. /\ UNCHANGED <<Handed, Found>>
          /\ Holders["id"] = {c} /\ Holders' = [Holders EXCEPT !["id"] = {}]
      BY <2>1, <2>3 DEF Handed, Found, Holders
    <2>5. CASE entry' = "job"
      <3>1. Answers'[c] = "ok" /\ Kept(c)'
        BY <2>1, <2>2, <2>5 DEF Answers, Kept
      <3>2. Owner' = c
        BY <3>1 DEF RegInv, Owner
      <3>3. Listed' = [Listed EXCEPT !["id"] = c]
        BY <3>2, <2>1, <2>5 DEF Listed
      <3>4. Answers' = [Answers EXCEPT ![c] = "ok"]
        BY <2>1, <3>1, AnswerStep
      <3>5. Reg!Keep(c)
        BY <2>1, <2>4, <3>3, <3>4 DEF Reg!Keep, Reg!Answer
      <3> QED
        BY <3>5, <1>c
    <2>6. CASE entry' = "free"
      <3>1. Answers'[c] = "error"
        BY <2>2, <2>6 DEF Answers
      <3>2. Listed' = Listed
        BY <2>1, <2>6 DEF Listed
      <3>3. Answers' = [Answers EXCEPT ![c] = "error"]
        BY <2>1, <3>1, AnswerStep
      <3>4. Reg!Drop(c)
        BY <2>1, <2>4, <3>2, <3>3 DEF Reg!Drop, Reg!Answer
      <3> QED
        BY <3>4, <1>c
    <2> QED
      BY <2>2, <2>5, <2>6
  <1>6. ASSUME NEW c \in Calls,
               \/ CheckStopped(c) \/ StopDone(c) \/ StopFails(c) \/ ReadCode(c)
               \/ Respond(c) \/ \E s \in Streams : ReadOutput(c, s)
        PROVE  [Reg!Next]_(Reg!regVars)
    <2>1. /\ UNCHANGED <<kind, entry, shutdown>> /\ others(c)
          /\ Kept(c)' <=> Kept(c)
          /\ HasJob(c)' <=> HasJob(c)
          /\ pc[c] # "start" /\ pc'[c] # "start"
          /\ Answers'[c] = Answers[c]
      BY <1>6, DecidedMoves DEF Kept, HasJob, Decided, Answers
    <2>2. same
      BY <2>1, RegStays DEF Kept, HasJob
    <2>3. Answers' = Answers
      BY <2>1, AnswerStep
    <2> QED
      BY <2>1, <2>2, <2>3, <1>b
  <1>7. CASE Job \/ ShutAnnounce \/ UNCHANGED vars
    <2>1. UNCHANGED <<pc, kind, status, entry>> /\ (shutdown' = "yes" <=> shutdown = "yes")
      BY <1>7 DEF Job, ShutAnnounce, vars
    <2>2. Answers' = Answers /\ same
      BY <2>1 DEF Answers, Kept, HasJob, Owner, Holders, Listed, Handed, Found
    <2> QED
      BY <2>1, <2>2, <1>b
  <1>8. CASE ShutMark
    <2>1. /\ UNCHANGED <<pc, kind, status, entry>> /\ shutdown # "yes" /\ shutdown' = "yes"
          /\ entry # "held"
      BY <1>8 DEF ShutMark
    <2>2. Answers' = Answers /\ UNCHANGED <<Holders, Found, Owner>>
      BY <2>1 DEF Answers, Kept, HasJob, Owner, Holders, Found
    <2>3. /\ Listed' = [k \in {"id"} |-> NoJob]
          /\ Handed' = {Listed[k] : k \in {"id"}} \ {NoJob}
      BY <2>1, <2>2, <1>a DEF Listed, Handed
    <2>4. Holders["id"] = {}
      BY <2>1, <1>a DEF Holders, EntryInv
    <2>5. Reg!Close
      BY <2>1, <2>2, <2>3, <2>4 DEF Reg!Close
    <2> QED
      BY <2>5 DEF Reg!Next
  <1> QED
    BY <1>1, <1>2, <1>3, <1>4, <1>5, <1>6, <1>7, <1>8 DEF Next, Rpc

-----------------------------------------------------------------------------
(* The theorems. *)

\* The inductive invariant of the unary RPCs (service.go).
THEOREM Invariant == Spec => []IInv
  <1>1. IInv /\ [Next]_vars => IInv'
    BY StepType, StepPath, StepEntry, StepResponse, StepStop, StepOrder DEF IInv
  <1> QED
    BY InitInv, <1>1, PTL DEF Spec

\* All variables keep their types; no response has more output than the job.
THEOREM TypeCorrect == Spec => []TypeOK
  <1>1. IInv => TypeOK
    BY DEF IInv
  <1> QED
    BY Invariant, <1>1, PTL

\* A response with an exit code has all output of the streams it includes
\* (service.go:86-89), whatever the job did between the reads.
THEOREM CodeHasAllOutput == Spec => []CodeMeansAllOutput
  <1>1. IInv => CodeMeansAllOutput
    BY DEF IInv, ResponseInv, HasStream, CodeMeansAllOutput
  <1> QED
    BY Invariant, <1>1, PTL

\* A StopJob that succeeds answers with the exit code of the job
\* (service.go, StopJob), however many others stop it or read it meanwhile.
THEOREM StopAnswersCode == Spec => []StoppedHasCode
  <1>1. IInv => StoppedHasCode
    BY DEF IInv, StopInv, HasCode, StoppedHasCode
  <1> QED
    BY Invariant, <1>1, PTL

\* Clients see the job move forwards only, across all RPCs (service.go,
\* toProtoJob, and what worker.go promises about its map).
THEOREM ForwardsOnly == Spec => []NeverBackwards
  <1>1. IInv => NeverBackwards
    BY DEF IInv, OrderInv, HasCode, HasStream, NeverBackwards
  <1> QED
    BY Invariant, <1>1, PTL

\* What the RPCs see of the worker is a registry of jobs, the one that the
\* worker implements (WorkerProofs.tla): service.go asks of worker.go no more
\* than that.
THEOREM UsesRegistry == Spec => ImplementsRegistry
  <1>1. Spec => [](IInv /\ RegInv)
    <2>1. RegInv /\ IInv /\ [Next]_vars => RegInv'
      BY StepReg
    <2> QED
      BY InitReg, Invariant, <2>1, PTL DEF Spec
  <1>2. IInv /\ RegInv /\ IInv' /\ RegInv' /\ [Next]_vars => [Reg!Next]_(Reg!regVars)
    BY RegistryStep
  <1> QED
    BY <1>1, <1>2, RegistryInit, PTL DEF Spec, ImplementsRegistry, Reg!Spec

=============================================================================
