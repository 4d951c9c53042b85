---------------------------- MODULE StreamProofs ----------------------------
(***************************************************************************)
(* The inductive invariant of Stream.tla, and what follows from it for     *)
(* every amount of output, chunk size, capacity of the channels and set of *)
(* exit statuses.                                                          *)
(***************************************************************************)
EXTENDS Stream, TLAPS

Offering == {"sendPast", "send", "sendLast"}
Live == {"read", "send", "sendLast", "wait"}

\* How far the client has been sent stream s ...
Sent(s) ==
  IF recv[s] # NoMsg THEN recv[s].to ELSE IF fromStart THEN 0 ELSE total[s]

\* ... and how far the handler has got with it.
Taken(s) ==
  IF inHand # NoMsg /\ inHand[1] = s THEN inHand[2].to ELSE Sent(s)

\* A message continues what came before it up to from, and is past or not as
\* a whole.
Continues(s, m, from) ==
  /\ m \in Messages
  /\ m.from = from /\ from < m.to /\ m.to <= out[s]
  /\ m.past <=> m.to <= total[s]

\* What a goroutine has read is the job's, and what is past is read first.
ReadInv ==
  \A s \in Streams :
    /\ total[s] <= out[s] /\ offset[s] <= out[s]
    /\ pc[s] \in {"off", "total"} => total[s] = 0 /\ offset[s] = 0
    /\ pc[s] \in {"past", "sendPast"} => fromStart
    /\ pc[s] = "past" => offset[s] < total[s]
    /\ pc[s] = "sendPast" => offset[s] <= total[s]
    /\ pc[s] = "listen" => offset[s] = IF fromStart THEN total[s] ELSE 0
    /\ pc[s] \in Live => offset[s] >= total[s]

\* Each goroutine is about to offer, offers or has offered what the handler
\* has not got yet, as long as the handler has not given up.
GaveUp == handler = "ret" /\ code = NoCode

OfferAt(s) ==
  /\ pc[s] \in {"off", "total"} /\ inHand # NoMsg => inHand[1] # s
  /\ pc[s] \in {"total", "listen"} /\ ~fromStart => Taken(s) = total[s]
  /\ pc[s] \in {"total", "past", "listen"} /\ fromStart => Taken(s) = offset[s]
  /\ pc[s] \in {"read", "wait"} => Taken(s) = offset[s]
  /\ pc[s] \in {"remove", "end"} /\ ~failed[s] => Taken(s) = offset[s]
  /\ pc[s] \in Offering =>
       Continues(s, msg[s], Taken(s)) /\ msg[s].to = offset[s]

OfferInv == ~GaveUp => \A s \in Streams : OfferAt(s)

\* The handler has at most one message, and only on its way to the client.
HandInv ==
  /\ inHand # NoMsg <=> handler = "send"
  /\ inHand # NoMsg => Continues(inHand[1], inHand[2], Sent(inHand[1]))
  /\ \A s \in Streams : pc[s] \in {"off", "total"} => recv[s] = NoMsg

\* A goroutine that waits in vain has everything: its listener was added
\* before it read, and a full channel will wake it.
WakeInv ==
  \A s \in Streams :
    /\ pc[s] \in Live \cup {"remove"} => s \in listeners
    /\ pc[s] = "wait" /\ chan[s] = << >> => offset[s] = out[s] /\ exitCode = NoCode

\* Only the end of the job ends a goroutine without an error, and only the
\* end of all goroutines brings the handler to the exit code.
EndInv ==
  /\ want # {}
  /\ \A s \in Streams :
       /\ pc[s] = "off" <=> s \notin want
       /\ pc[s] \in {"sendLast", "remove", "end"} /\ ~failed[s] => exitCode # NoCode
       /\ s \in want \ open => pc[s] = "end" /\ ~failed[s]
       /\ failed[s] => ctx /\ pc[s] \in {"remove", "end"}
  /\ handler = "final" \/ code # NoCode => open = {}
  /\ code # NoCode => code = exitCode /\ handler = "ret"
  /\ handler \in {"loop", "send"} => open # {}

IInv == TypeOK /\ ReadInv /\ OfferInv /\ HandInv /\ WakeInv /\ EndInv

-----------------------------------------------------------------------------

\* The RPC has just been made, at any moment of the job's life.
LEMMA InitInv == Init => IInv
  <1> SUFFICES ASSUME Init PROVE IInv
    OBVIOUS
  <1> USE DEF Init
  <1>a. want \subseteq Streams /\ want # {} /\ NoCode \notin ExitCodes
    BY StreamAssumption, JobAssumption DEF Streams
  <1>1. TypeOK
    <2>1. 0 \in 0..MaxOut
      BY JobAssumption
    <2>2. JobTypeOK
      BY DEF JobTypeOK
    <2>3. pc \in [Streams -> Goroutine]
      BY DEF Goroutine
    <2> QED
      BY <1>a, <2>1, <2>2, <2>3 DEF TypeOK
  <1>2. ReadInv
    <2>1. \A s \in Streams : out[s] \in Nat
      BY JobAssumption
    <2> QED
      BY <2>1 DEF ReadInv, Live
  <1>3. OfferInv
    BY DEF OfferInv, OfferAt, Offering, Taken, Sent
  <1>4. HandInv /\ WakeInv /\ EndInv
    BY <1>a DEF HandInv, WakeInv, EndInv, Live
  <1> QED
    BY <1>1, <1>2, <1>3, <1>4 DEF IInv

\* What a step does to the job: its output only grows, once it has an exit
\* code neither changes, and no send finds a channel empty and leaves it so.
LEMMA JobGrows ==
  ASSUME JobTypeOK, Job
  PROVE  /\ JobTypeOK'
         /\ listeners' = listeners
         /\ \A s \in Streams : out'[s] >= out[s]
         /\ exitCode = NoCode
         /\ \A s \in listeners : chan'[s] # << >>
  <1>a. /\ out \in [Streams -> 0..MaxOut] /\ exitCode \in ExitCodes \cup {NoCode}
        /\ listeners \subseteq Listeners /\ chan \in [Listeners -> Seq(Updates)]
        /\ MaxOut \in Nat /\ ChanCap \in Nat \ {0}
    BY JobAssumption DEF JobTypeOK
  <1>b. ASSUME NEW u \in Updates
        PROVE  /\ Notified(u) \in [Listeners -> Seq(Updates)]
               /\ \A s \in listeners : Notified(u)[s] # << >>
    <2>1. ASSUME NEW s \in listeners PROVE Notified(u)[s] # << >>
      <3>1. chan[s] \in Seq(Updates) /\ s \in Listeners
        BY <1>a
      <3>2. CASE Len(chan[s]) < ChanCap
        <4>1. Notified(u)[s] = Append(chan[s], u)
          BY <3>1, <3>2 DEF Notified
        <4>2. Len(Append(chan[s], u)) = Len(chan[s]) + 1 /\ Len(chan[s]) \in Nat
          BY <3>1
        <4> QED
          BY <4>1, <4>2
      <3>3. CASE ~(Len(chan[s]) < ChanCap)
        <4>1. Notified(u)[s] = chan[s] /\ chan[s] # << >>
          BY <3>1, <3>3, <1>a DEF Notified
        <4> QED
          BY <4>1
      <3> QED
        BY <3>2, <3>3
    <2>2. Notified(u) \in [Listeners -> Seq(Updates)]
      BY <1>a DEF Notified
    <2> QED
      BY <2>1, <2>2
  <1>1. ASSUME NEW s \in Streams, NEW n \in 1..MaxOut, UpdateOutput(s, n)
        PROVE  /\ JobTypeOK' /\ listeners' = listeners /\ exitCode = NoCode
               /\ \A r \in Streams : out'[r] >= out[r]
               /\ chan' = Notified(s)
    <2>1. /\ out' \in [Streams -> 0..MaxOut] /\ \A r \in Streams : out'[r] >= out[r]
      BY <1>1, <1>a DEF UpdateOutput
    <2> QED
      BY <2>1, <1>1, <1>a, <1>b DEF UpdateOutput, JobTypeOK, Updates
  <1>2. ASSUME NEW c \in ExitCodes, MarkDone(c)
        PROVE  /\ JobTypeOK' /\ UNCHANGED <<out, listeners>> /\ exitCode = NoCode
               /\ chan' = Notified("exit")
    BY <1>2, <1>a, <1>b DEF MarkDone, JobTypeOK, Updates
  <1>3. \A r \in Streams : out[r] >= out[r]
    BY <1>a
  <1> QED
    BY <1>1, <1>2, <1>3, <1>b DEF Job, Updates

\* A goroutine that adds or removes its listener, or receives.
LEMMA ListenerStep ==
  ASSUME JobTypeOK, NEW s \in Streams,
         AddUpdateListener(s) \/ RemoveUpdateListener(s) \/ Receive(s)
  PROVE  JobTypeOK'
  <1>1. CASE AddUpdateListener(s) \/ RemoveUpdateListener(s)
    BY <1>1, StreamAssumption DEF AddUpdateListener, RemoveUpdateListener, JobTypeOK
  <1>2. CASE Receive(s)
    <2>1. chan \in [Listeners -> Seq(Updates)] /\ s \in Listeners
      BY StreamAssumption DEF JobTypeOK
    <2>2. Tail(chan[s]) \in Seq(Updates)
      BY <1>2, <2>1 DEF Receive
    <2> QED
      BY <2>1, <2>2, <1>2 DEF Receive, JobTypeOK
  <1> QED
    BY <1>1, <1>2

\* A read gets further exactly when there is something to read, and never
\* beyond the limit.
LEMMA ReachBetween ==
  ASSUME NEW s \in Streams, NEW limit \in Nat, offset[s] \in Nat, offset[s] <= limit
  PROVE  /\ Reach(s, limit) \in Nat
         /\ offset[s] <= Reach(s, limit) /\ Reach(s, limit) <= limit
         /\ Reach(s, limit) > offset[s] <=> limit > offset[s]
  BY StreamAssumption DEF Reach

\* What a read of the range up to "to" leaves is a message that continues at
\* the goroutine's offset.
LEMMA RangeContinues ==
  ASSUME TypeOK, NEW s \in Streams, NEW past \in BOOLEAN, NEW to \in Nat,
         offset[s] < to, to <= out[s], past <=> to <= total[s]
  PROVE  /\ Range(s, past, to) \in Messages /\ Range(s, past, to).to = to
         /\ Continues(s, Range(s, past, to), offset[s])
  <1>1. /\ offset[s] \in 0..MaxOut /\ out[s] \in 0..MaxOut
    BY DEF TypeOK, JobTypeOK
  <1>2. to \in 0..MaxOut
    BY <1>1, JobAssumption
  <1> QED
    BY <1>1, <1>2 DEF Range, Continues, Messages

-----------------------------------------------------------------------------

\* Every step keeps the variables in their types; that a handler sends a
\* message rests on HandInv, that an offset stays within the bound on ReadInv.
LEMMA StepType == ASSUME IInv, [Next]_vars PROVE TypeOK'
  <1> USE DEF reqVars, handlerVars, goVars, clientVars
  <1>a. /\ TypeOK /\ JobTypeOK
        /\ out \in [Streams -> 0..MaxOut] /\ exitCode \in ExitCodes \cup {NoCode}
        /\ offset \in [Streams -> 0..MaxOut] /\ total \in [Streams -> 0..MaxOut]
        /\ \A s \in Streams : total[s] <= out[s] /\ offset[s] <= out[s]
        /\ MaxOut \in Nat
    BY JobAssumption DEF IInv, TypeOK, JobTypeOK, ReadInv
  <1>b. UNCHANGED jobVars => JobTypeOK'
    BY <1>a DEF jobVars, JobTypeOK
  <1>1. CASE Job
    <2>1. JobTypeOK'
      BY <1>1, <1>a, JobGrows
    <2> QED
      BY <2>1, <1>1, <1>a DEF Job, TypeOK
  <1>2. ASSUME NEW s \in Streams, ReadTotal(s) PROVE TypeOK'
    BY <1>2, <1>a, <1>b DEF ReadTotal, TypeOK, Goroutine
  <1>3. ASSUME NEW s \in Streams, NEW limit \in Nat, NEW past \in BOOLEAN,
               offset[s] <= limit, limit <= out[s]
        PROVE  /\ Reach(s, limit) \in 0..MaxOut
               /\ Range(s, past, Reach(s, limit)) \in Messages
    <2>1. offset[s] \in 0..MaxOut /\ out[s] \in 0..MaxOut
      BY <1>a
    <2>2. Reach(s, limit) \in Nat /\ Reach(s, limit) <= limit
      BY <2>1, <1>3, ReachBetween
    <2>3. Reach(s, limit) \in 0..MaxOut
      BY <2>1, <2>2, <1>3, <1>a
    <2> QED
      BY <2>1, <2>3 DEF Range, Messages
  <1>4. ASSUME NEW s \in Streams, ReadPast(s) PROVE TypeOK'
    <2>1. offset[s] <= total[s] /\ total[s] \in Nat /\ total[s] <= out[s]
      <3>1. pc[s] = "past" /\ ReadInv /\ total[s] \in 0..MaxOut
                           /\ offset[s] \in 0..MaxOut
        BY <1>4, <1>a DEF ReadPast, IInv
      <3> QED
        BY <3>1, <1>a DEF ReadInv
    <2>2. /\ Reach(s, total[s]) \in 0..MaxOut
          /\ Range(s, TRUE, Reach(s, total[s])) \in Messages
      BY <2>1, <1>3
    <2> QED
      BY <2>2, <1>4, <1>a, <1>b DEF ReadPast, TypeOK, Goroutine
  <1>5. ASSUME NEW s \in Streams, ReadLive(s) PROVE TypeOK'
    <2>1. offset[s] <= out[s] /\ out[s] \in Nat /\ out[s] <= out[s]
      BY <1>a
    <2>2. /\ Reach(s, out[s]) \in 0..MaxOut
          /\ Range(s, FALSE, Reach(s, out[s])) \in Messages
      BY <2>1, <1>3
    <2>3. pc' \in [Streams -> Goroutine]
      BY <1>5, <1>a DEF ReadLive, TypeOK, Goroutine
    <2> QED
      BY <2>2, <2>3, <1>5, <1>a, <1>b DEF ReadLive, TypeOK
  <1>6. ASSUME NEW s \in Streams, Listen(s) \/ Wait(s) \/ Remove(s) PROVE TypeOK'
    <2>1. JobTypeOK'
      BY <1>6, <1>a, ListenerStep DEF Listen, Wait, Remove
    <2> QED
      BY <2>1, <1>6, <1>a DEF Listen, Wait, Remove, TypeOK, Goroutine
  <1>7. ASSUME NEW s \in Streams, Leave(s) PROVE TypeOK'
    BY <1>7, <1>a, <1>b DEF Leave, TypeOK, Goroutine
  <1>8. ASSUME NEW s \in Streams, TakeMsg(s) \/ TakeResult(s) PROVE TypeOK'
    <2>1. CASE TakeMsg(s)
      <3>1. msg[s] \in Messages
        BY <2>1 DEF TakeMsg, IInv, OfferInv, OfferAt, GaveUp, Offering, Continues
      <3>2. inHand' \in Streams \X Messages
        BY <3>1, <2>1 DEF TakeMsg
      <3>3. pc' \in [Streams -> Goroutine]
        BY <2>1, <1>a DEF TakeMsg, TypeOK, Goroutine
      <3> QED
        BY <3>2, <3>3, <2>1, <1>a, <1>b DEF TakeMsg, TypeOK
    <2>2. CASE TakeResult(s)
      BY <2>2, <1>a, <1>b DEF TakeResult, TypeOK
    <2> QED
      BY <1>8, <2>1, <2>2
  <1>9. CASE SendMsg
    <2>1. inHand \in Streams \X Messages
      BY <1>9, <1>a DEF SendMsg, IInv, HandInv, TypeOK
    <2>2. recv' \in [Streams -> Messages \cup {NoMsg}]
      BY <2>1, <1>9, <1>a DEF SendMsg, TypeOK
    <2> QED
      BY <2>2, <1>9, <1>a, <1>b DEF SendMsg, TypeOK
  <1>10. CASE SendCode \/ GiveUp \/ Cancel
    BY <1>10, <1>a, <1>b DEF SendCode, GiveUp, Cancel, TypeOK
  <1>11. CASE UNCHANGED vars
    BY <1>11, <1>a, <1>b DEF vars, TypeOK
  <1> QED
    BY <1>1, <1>2, <1>4, <1>5, <1>6, <1>7, <1>8, <1>9, <1>10, <1>11
    DEF Next, Handle, Go

\* Reads go forward and past output is read before live output.
LEMMA StepRead == ASSUME IInv, [Next]_vars PROVE ReadInv'
  <1> USE DEF reqVars, handlerVars, goVars, clientVars, Live
  <1>a. /\ ReadInv /\ pc \in [Streams -> Goroutine] /\ fromStart \in BOOLEAN
        /\ out \in [Streams -> Nat] /\ offset \in [Streams -> Nat]
        /\ total \in [Streams -> Nat]
    BY JobAssumption DEF IInv, TypeOK, JobTypeOK
  <1>1. CASE Job
    <2>1. \A s \in Streams : out'[s] >= out[s] /\ out'[s] \in Nat
      BY <1>1, JobGrows, JobAssumption DEF IInv, TypeOK, JobTypeOK
    <2>2. UNCHANGED <<pc, total, offset, fromStart>>
      BY <1>1 DEF Job
    <2>3. \A s \in Streams : total[s] <= out'[s] /\ offset[s] <= out'[s]
      BY <2>1, <1>a DEF ReadInv
    <2> QED
      BY <2>2, <2>3, <1>a DEF ReadInv
  <1>2. ASSUME NEW s \in Streams, ReadTotal(s) PROVE ReadInv'
    BY <1>2, <1>a DEF ReadTotal, ReadInv, jobVars
  <1>3. ASSUME NEW s \in Streams, ReadPast(s) PROVE ReadInv'
    <2>1. /\ offset[s] <= Reach(s, total[s]) /\ Reach(s, total[s]) <= total[s]
          /\ Reach(s, total[s]) \in Nat
      BY <1>3, <1>a, ReachBetween DEF ReadPast, ReadInv
    <2> QED
      BY <2>1, <1>3, <1>a DEF ReadPast, ReadInv, jobVars
  <1>4. ASSUME NEW s \in Streams, ReadLive(s) PROVE ReadInv'
    <2>1. /\ offset[s] <= Reach(s, out[s]) /\ Reach(s, out[s]) <= out[s]
          /\ Reach(s, out[s]) \in Nat
      BY <1>4, <1>a, ReachBetween DEF ReadLive, ReadInv
    <2>2. /\ UNCHANGED <<out, total, fromStart>>
          /\ offset' = [offset EXCEPT ![s] = Reach(s, out[s])]
          /\ \E l \in {"send", "wait", "sendLast", "remove"} :
               pc' = [pc EXCEPT ![s] = l]
          /\ pc[s] = "read"
      BY <1>4 DEF ReadLive, jobVars
    <2> QED
      BY <2>1, <2>2, <1>a DEF ReadInv
  <1>5. ASSUME NEW s \in Streams, Listen(s) PROVE ReadInv'
    BY <1>5, <1>a DEF Listen, AddUpdateListener, ReadInv
  <1>6. ASSUME NEW s \in Streams, Wait(s) \/ Leave(s) \/ Remove(s) PROVE ReadInv'
    BY <1>6, <1>a DEF Wait, Leave, Remove, Receive, RemoveUpdateListener, ReadInv,
       jobVars
  <1>7. ASSUME NEW s \in Streams, TakeMsg(s) PROVE ReadInv'
    BY <1>7, <1>a DEF TakeMsg, ReadInv, jobVars
  <1>8. CASE SendMsg \/ SendCode \/ GiveUp \/ Cancel \/ UNCHANGED vars
             \/ \E s \in Streams : TakeResult(s)
    BY <1>8, <1>a DEF SendMsg, SendCode, GiveUp, Cancel, TakeResult, vars, jobVars,
       ReadInv
  <1> QED
    BY <1>1, <1>2, <1>3, <1>4, <1>5, <1>6, <1>7, <1>8 DEF Next, Handle, Go

\* The message in hand continues what was sent, and is sent or dropped.
LEMMA StepHand == ASSUME IInv, [Next]_vars PROVE HandInv'
  <1> USE DEF reqVars, handlerVars, goVars, clientVars
  <1>a. /\ TypeOK /\ HandInv /\ EndInv /\ OfferInv
        /\ NoMsg \notin Messages
        /\ \A s \in Streams, m \in Messages : <<s, m>> # NoMsg
    BY StreamAssumption DEF IInv
  <1>c. \A s \in Streams : pc'[s] \in {"off", "total"} => pc[s] \in {"off", "total"}
    <2>1. pc \in [Streams -> Goroutine]
      BY <1>a DEF TypeOK
    <2> QED
      BY <2>1 DEF Next, Job, Handle, Go, ReadTotal, ReadPast, Listen, ReadLive, Wait,
         Leave, Remove, TakeMsg, SendMsg, GiveUp, TakeResult, SendCode, Cancel, vars
  <1>b. ASSUME handler # "send", UNCHANGED <<handler, inHand, recv>> PROVE HandInv'
    BY <1>a, <1>b, <1>c DEF HandInv
  <1>1. ASSUME UNCHANGED <<handler, inHand, recv, fromStart, total>>,
               \A s \in Streams : out'[s] \in Nat /\ out[s] \in Nat /\ out'[s] >= out[s]
        PROVE  HandInv'
    <2>1. ASSUME inHand # NoMsg PROVE Continues(inHand[1], inHand[2], Sent(inHand[1]))'
      <3>1. /\ inHand[1] \in Streams /\ inHand[2].to \in Nat
            /\ Continues(inHand[1], inHand[2], Sent(inHand[1]))
        BY <2>1, <1>a, JobAssumption DEF HandInv, TypeOK, Messages
      <3> QED
        BY <3>1, <1>1 DEF Continues, Sent
    <2> QED
      BY <2>1, <1>1, <1>a, <1>c DEF HandInv
  <1>2. CASE Job
    <2>1. \A s \in Streams : out'[s] \in Nat /\ out[s] \in Nat /\ out'[s] >= out[s]
      BY <1>2, JobGrows, JobAssumption DEF IInv, TypeOK, JobTypeOK
    <2> QED
      BY <2>1, <1>1, <1>2 DEF Job
  <1>3. \A s \in Streams : out[s] \in Nat /\ out[s] >= out[s]
    BY JobAssumption DEF IInv, TypeOK, JobTypeOK
  <1>4. ASSUME NEW s \in Streams, ReadTotal(s) PROVE HandInv'
    <2>1. CASE handler # "send"
      BY <2>1, <1>4, <1>b DEF ReadTotal
    <2>2. CASE handler = "send"
      <3>1. inHand # NoMsg /\ inHand[1] # s /\ ~GaveUp /\ inHand[1] \in Streams
        BY <2>2, <1>4, <1>a DEF ReadTotal, HandInv, OfferInv, OfferAt, GaveUp, TypeOK
      <3>2. /\ Sent(inHand[1])' = Sent(inHand[1]) /\ UNCHANGED <<out, inHand>>
            /\ total'[inHand[1]] = total[inHand[1]]
        BY <3>1, <1>4, <1>a DEF ReadTotal, Sent, TypeOK, jobVars
      <3> QED
        BY <3>1, <3>2, <1>4, <1>a DEF ReadTotal, HandInv, Continues
    <2> QED
      BY <2>1, <2>2
  <1>5. ASSUME NEW s \in Streams,
               ReadPast(s) \/ Listen(s) \/ ReadLive(s) \/ Wait(s) \/ Leave(s)
                 \/ Remove(s)
        PROVE  HandInv'
    <2>1. UNCHANGED <<handler, inHand, recv, fromStart, total, out>>
      BY <1>5 DEF ReadPast, Listen, ReadLive, Wait, Leave, Remove,
         AddUpdateListener, RemoveUpdateListener, Receive, jobVars
    <2> QED
      BY <2>1, <1>1, <1>3
  <1>6. ASSUME NEW s \in Streams, TakeMsg(s) PROVE HandInv'
    <2>1. /\ inHand = NoMsg /\ ~GaveUp
          /\ Continues(s, msg[s], Taken(s))
      BY <1>6, <1>a DEF TakeMsg, HandInv, OfferInv, OfferAt, Offering, GaveUp
    <2>2. /\ inHand' = <<s, msg[s]>> /\ handler' = "send"
          /\ UNCHANGED <<recv, fromStart, total, out>>
      BY <1>6 DEF TakeMsg, jobVars
    <2>3. Continues(s, msg[s], Sent(s)) /\ inHand' # NoMsg
      BY <2>1, <2>2, <1>a DEF Taken, Continues
    <2>4. Continues(s, msg[s], Sent(s))
            => Continues(inHand[1], inHand[2], Sent(inHand[1]))'
      BY <2>2 DEF Continues, Sent
    <2> QED
      BY <2>2, <2>3, <2>4, <1>a, <1>c DEF HandInv
  <1>7. CASE SendMsg
    <2>1. inHand \in Streams \X Messages
      BY <1>7, <1>a DEF SendMsg, HandInv, TypeOK
    <2>2. /\ recv' = [recv EXCEPT ![inHand[1]] = inHand[2]] /\ inHand' = NoMsg
          /\ handler' = "loop" /\ pc' = pc
      BY <1>7 DEF SendMsg
    <2>3. \A s \in Streams : pc[s] \in {"off", "total"} => inHand[1] # s /\ recv[s] = NoMsg
      BY <1>7, <1>a DEF SendMsg, GaveUp, OfferInv, OfferAt, HandInv
    <2> QED
      BY <2>1, <2>2, <2>3, <1>a DEF HandInv, TypeOK
  <1>8. CASE GiveUp
    BY <1>8, <1>a, <1>c DEF GiveUp, HandInv
  <1>9. ASSUME NEW s \in Streams, TakeResult(s) PROVE HandInv'
    <2>1. inHand = NoMsg
      BY <1>9, <1>a DEF TakeResult, HandInv
    <2>2. inHand' = NoMsg /\ handler' # "send" /\ recv' = recv
      BY <1>9, <2>1 DEF TakeResult
    <2> QED
      BY <2>2, <1>a, <1>c DEF HandInv
  <1>10. CASE SendCode
    BY <1>10, <1>a, <1>c DEF SendCode, HandInv
  <1>11. CASE Cancel \/ UNCHANGED vars
    BY <1>11, <1>1, <1>3 DEF Cancel, vars, jobVars
  <1> QED
    BY <1>2, <1>4, <1>5, <1>6, <1>7, <1>8, <1>9, <1>10, <1>11 DEF Next, Handle, Go

\* A step of goroutine s concerns what s offers and nothing else.
LEMMA OfferOthers ==
  ASSUME TypeOK, OfferInv, ~GaveUp, NEW s \in Streams, NEW r \in Streams \ {s},
         UNCHANGED <<recv, inHand, fromStart, out>>,
         /\ pc'[r] = pc[r] /\ total'[r] = total[r] /\ offset'[r] = offset[r]
         /\ msg'[r] = msg[r] /\ failed'[r] = failed[r]
  PROVE  OfferAt(r)'
  BY DEF OfferInv, OfferAt, Taken, Sent, Continues

\* Each message is offered once, where the last one ended.
LEMMA StepOffer == ASSUME IInv, [Next]_vars PROVE OfferInv'
  <1> USE DEF reqVars, handlerVars, goVars, clientVars, Offering
  <1>a. /\ TypeOK /\ ReadInv /\ HandInv /\ EndInv /\ OfferInv
        /\ NoMsg \notin Messages
        /\ \A s \in Streams, m \in Messages : <<s, m>> # NoMsg
    BY StreamAssumption DEF IInv
  <1>b. /\ pc \in [Streams -> Goroutine] /\ fromStart \in BOOLEAN
        /\ out \in [Streams -> Nat] /\ offset \in [Streams -> Nat]
        /\ total \in [Streams -> Nat] /\ failed \in [Streams -> BOOLEAN]
        /\ msg \in [Streams -> Messages \cup {NoMsg}]
    BY JobAssumption DEF IInv, TypeOK, JobTypeOK
  <1>c. GaveUp => GaveUp'
    BY DEF GaveUp, Next, Job, Handle, Go, ReadTotal, ReadPast, Listen, ReadLive,
       Wait, Leave, Remove, TakeMsg, SendMsg, GiveUp, TakeResult, SendCode, Cancel,
       vars
  <1>d. ASSUME ~GaveUp' PROVE ~GaveUp /\ \A s \in Streams : OfferAt(s)
    BY <1>a, <1>c, <1>d DEF OfferInv
  <1>1. CASE Job
    <2> SUFFICES ASSUME ~GaveUp', NEW s \in Streams PROVE OfferAt(s)'
      BY DEF OfferInv
    <2>1. /\ OfferAt(s) /\ out'[s] >= out[s] /\ out'[s] \in Nat
          /\ UNCHANGED <<reqVars, handlerVars, goVars, clientVars>>
      BY <1>1, <1>d, JobGrows, JobAssumption DEF Job, IInv, TypeOK, JobTypeOK
    <2>2. ASSUME Continues(s, msg[s], Taken(s)) PROVE Continues(s, msg[s], Taken(s))'
      <3>1. msg[s].to \in Nat /\ Taken(s)' = Taken(s)
        BY <2>1, <2>2, JobAssumption DEF Continues, Messages, Taken, Sent
      <3> QED
        BY <2>1, <2>2, <3>1, <1>b DEF Continues
    <2> QED
      BY <2>1, <2>2 DEF OfferAt, Taken, Sent
  <1>2. ASSUME NEW s \in Streams, ReadTotal(s) PROVE OfferInv'
    <2> SUFFICES ASSUME ~GaveUp', NEW r \in Streams PROVE OfferAt(r)'
      BY DEF OfferInv
    <2>1. CASE r = s
      <3>1. /\ recv[s] = NoMsg /\ offset[s] = 0
            /\ ~(inHand # NoMsg /\ inHand[1] = s)
        BY <1>2, <1>a, <1>d DEF ReadTotal, OfferAt, ReadInv, HandInv
      <3>2. /\ UNCHANGED <<recv, inHand, fromStart, offset>>
            /\ pc'[s] \in {"past", "listen"}
        BY <1>2, <1>b DEF ReadTotal
      <3> QED
        BY <3>1, <3>2, <2>1, <1>b DEF OfferAt, Taken, Sent
    <2>2. CASE r # s
      BY <2>2, <1>2, <1>a, <1>b, <1>d, OfferOthers DEF ReadTotal, jobVars
    <2> QED
      BY <2>1, <2>2
  <1>3. ASSUME NEW s \in Streams, ReadPast(s) PROVE OfferInv'
    <2> SUFFICES ASSUME ~GaveUp', NEW r \in Streams PROVE OfferAt(r)'
      BY DEF OfferInv
    <2> DEFINE to == Reach(s, total[s])
    <2>1. CASE r = s
      <3>1. /\ fromStart /\ Taken(s) = offset[s] /\ offset[s] < total[s]
            /\ total[s] <= out[s]
        BY <1>3, <1>a, <1>d DEF ReadPast, OfferAt, ReadInv
      <3>2. to \in Nat /\ offset[s] < to /\ to <= total[s] /\ to <= out[s]
        <4>1. /\ offset[s] \in Nat /\ total[s] \in Nat /\ out[s] \in Nat
              /\ offset[s] <= total[s]
          BY <3>1, <1>b
        <4>2. to \in Nat /\ to <= total[s] /\ (to > offset[s] <=> total[s] > offset[s])
          BY <4>1, ReachBetween
        <4> HIDE DEF to
        <4> QED
          BY <4>1, <4>2, <3>1
      <3>3. /\ Range(s, TRUE, to).to = to
            /\ Continues(s, Range(s, TRUE, to), offset[s])
        BY <3>2, <1>a, RangeContinues
      <3>4. /\ UNCHANGED <<recv, inHand, fromStart, out, total>>
            /\ pc'[s] = "sendPast" /\ offset'[s] = to
            /\ msg'[s] = Range(s, TRUE, to)
        BY <1>3, <1>b DEF ReadPast, jobVars
      <3> HIDE DEF to
      <3>5. Taken(s)' = Taken(s)
        BY <3>4 DEF Taken, Sent
      <3> QED
        BY <3>1, <3>3, <3>4, <3>5, <2>1 DEF OfferAt, Continues
    <2>2. CASE r # s
      BY <2>2, <1>3, <1>a, <1>b, <1>d, OfferOthers DEF ReadPast, jobVars
    <2> QED
      BY <2>1, <2>2
  <1>4. ASSUME NEW s \in Streams, ReadLive(s) PROVE OfferInv'
    <2> SUFFICES ASSUME ~GaveUp', NEW r \in Streams PROVE OfferAt(r)'
      BY DEF OfferInv
    <2> DEFINE to == Reach(s, out[s])
    <2>1. CASE r = s
      <3>1. /\ Taken(s) = offset[s] /\ offset[s] <= out[s] /\ total[s] <= offset[s]
        BY <1>4, <1>a, <1>d DEF ReadLive, OfferAt, ReadInv, Live
      <3>2. to \in Nat /\ offset[s] <= to /\ to <= out[s]
        BY <3>1, <1>b, ReachBetween
      <3>3. /\ UNCHANGED <<recv, inHand, fromStart, out, total, failed>>
            /\ offset'[s] = to
            /\ msg'[s] = IF to > offset[s] THEN Range(s, FALSE, to) ELSE NoMsg
            /\ pc'[s] \in IF to > offset[s] THEN {"send", "sendLast"}
                                            ELSE {"wait", "remove"}
        BY <1>4, <1>b DEF ReadLive, jobVars
      <3> HIDE DEF to
      <3>4. ASSUME to > offset[s]
            PROVE  /\ Range(s, FALSE, to).to = to
                   /\ Continues(s, Range(s, FALSE, to), offset[s])
        <4>1. offset[s] \in Nat /\ total[s] \in Nat
          BY <1>b
        <4>2. ~(to <= total[s]) /\ offset[s] < to
          BY <4>1, <3>1, <3>2, <3>4
        <4> QED
          BY <4>2, <3>2, <1>a, RangeContinues
      <3>5. Taken(s)' = Taken(s)
        BY <3>3 DEF Taken, Sent
      <3>6. CASE to > offset[s]
        BY <3>1, <3>3, <3>4, <3>5, <3>6, <2>1 DEF OfferAt, Continues
      <3>7. CASE ~(to > offset[s])
        <4>1. to = offset[s]
          BY <3>2, <3>7, <1>b
        <4> QED
          BY <4>1, <3>1, <3>3, <3>5, <3>7, <2>1 DEF OfferAt
      <3> QED
        BY <3>6, <3>7
    <2>2. CASE r # s
      BY <2>2, <1>4, <1>a, <1>b, <1>d, OfferOthers DEF ReadLive, jobVars
    <2> QED
      BY <2>1, <2>2
  <1>5. ASSUME NEW s \in Streams, Listen(s) PROVE OfferInv'
    <2> SUFFICES ASSUME ~GaveUp', NEW r \in Streams PROVE OfferAt(r)'
      BY DEF OfferInv
    <2>1. CASE r = s
      <3>1. Taken(s) = total[s]
        BY <1>5, <1>a, <1>b, <1>d DEF Listen, OfferAt, ReadInv
      <3>2. /\ UNCHANGED <<recv, inHand, fromStart, total>>
            /\ pc'[s] = "read" /\ offset'[s] = total[s]
        BY <1>5, <1>b DEF Listen
      <3> QED
        BY <3>1, <3>2, <2>1 DEF OfferAt, Taken, Sent
    <2>2. CASE r # s
      BY <2>2, <1>5, <1>a, <1>b, <1>d, OfferOthers DEF Listen, AddUpdateListener
    <2> QED
      BY <2>1, <2>2
  <1>6. ASSUME NEW s \in Streams, Wait(s) \/ Leave(s) \/ Remove(s) PROVE OfferInv'
    <2> SUFFICES ASSUME ~GaveUp', NEW r \in Streams PROVE OfferAt(r)'
      BY DEF OfferInv
    <2>0. /\ UNCHANGED <<recv, inHand, fromStart, out, total, offset, msg>>
          /\ \/ pc[s] = "wait" /\ pc' = [pc EXCEPT ![s] = "read"] /\ failed' = failed
             \/ /\ \E l \in {"end", "remove"} : pc' = [pc EXCEPT ![s] = l]
                /\ failed' = [failed EXCEPT ![s] = TRUE]
             \/ /\ pc[s] = "remove" /\ pc' = [pc EXCEPT ![s] = "end"]
                /\ failed' = failed
      BY <1>6 DEF Wait, Leave, Remove, Receive, RemoveUpdateListener, jobVars
    <2>1. CASE r = s
      BY <2>0, <2>1, <1>b, <1>d DEF OfferAt, Taken, Sent
    <2>2. CASE r # s
      BY <2>0, <2>2, <1>a, <1>b, <1>d, OfferOthers
    <2> QED
      BY <2>1, <2>2
  <1>7. ASSUME NEW s \in Streams, TakeMsg(s) PROVE OfferInv'
    <2> SUFFICES ASSUME ~GaveUp', NEW r \in Streams PROVE OfferAt(r)'
      BY DEF OfferInv
    <2>0. /\ inHand = NoMsg /\ inHand' = <<s, msg[s]>> /\ inHand' # NoMsg
          /\ Continues(s, msg[s], Taken(s)) /\ msg[s].to = offset[s]
          /\ UNCHANGED <<recv, fromStart, out, total, offset, failed>>
          /\ msg' = [msg EXCEPT ![s] = NoMsg]
      BY <1>7, <1>a, <1>d DEF TakeMsg, HandInv, OfferAt, Continues, jobVars
    <2>1. CASE r = s
      <3>1. /\ Taken(s)' = offset[s]
            /\ pc[s] = "sendPast" => fromStart /\ offset[s] <= total[s]
        BY <2>0, <1>a DEF Taken, ReadInv
      <3>2. pc'[s] = CASE pc[s] = "send" -> "read"
                       [] pc[s] = "sendLast" -> "remove"
                       [] OTHER -> IF offset[s] < total[s] THEN "past" ELSE "listen"
        BY <1>7, <1>b DEF TakeMsg
      <3>3. pc[s] \in {"sendPast", "send", "sendLast"}
        BY <1>7 DEF TakeMsg
      <3> QED
        BY <2>0, <2>1, <3>1, <3>2, <3>3, <1>b DEF OfferAt
    <2>2. CASE r # s
      <3>1. /\ pc'[r] = pc[r] /\ msg'[r] = msg[r] /\ Taken(r)' = Taken(r)
        BY <1>7, <2>0, <2>2, <1>b DEF TakeMsg, Taken, Sent
      <3> QED
        BY <2>0, <2>2, <3>1, <1>d DEF OfferAt, Continues
    <2> QED
      BY <2>1, <2>2
  <1>8. CASE SendMsg
    <2> SUFFICES ASSUME ~GaveUp', NEW r \in Streams PROVE OfferAt(r)'
      BY DEF OfferInv
    <2>1. inHand \in Streams \X Messages /\ inHand # NoMsg
      BY <1>8, <1>a DEF SendMsg, HandInv, TypeOK
    <2>2. /\ recv' = [recv EXCEPT ![inHand[1]] = inHand[2]] /\ inHand' = NoMsg
          /\ UNCHANGED <<fromStart, out, goVars>>
      BY <1>8 DEF SendMsg, jobVars
    <2>3. Taken(r)' = Taken(r)
      BY <2>1, <2>2, <1>a DEF Taken, Sent, TypeOK
    <2> QED
      BY <2>2, <2>3, <1>d DEF OfferAt, Continues
  <1>9. CASE GiveUp
    <2>1. GaveUp'
      BY <1>9, <1>a DEF GiveUp, GaveUp, EndInv
    <2> QED
      BY <2>1 DEF OfferInv
  <1>10. CASE SendCode \/ Cancel \/ UNCHANGED vars \/ \E s \in Streams : TakeResult(s)
    <2>1. UNCHANGED <<recv, inHand, fromStart, out, goVars>>
      BY <1>10 DEF SendCode, Cancel, TakeResult, vars, jobVars
    <2> QED
      BY <2>1, <1>d DEF OfferInv, OfferAt, Taken, Sent, Continues
  <1> QED
    BY <1>1, <1>2, <1>3, <1>4, <1>5, <1>6, <1>7, <1>8, <1>9, <1>10
    DEF Next, Handle, Go

\* A listener is added before the read that decides to wait, so that an
\* update after that read is in the channel.
LEMMA StepWake == ASSUME IInv, [Next]_vars PROVE WakeInv'
  <1> USE DEF reqVars, handlerVars, goVars, clientVars, Live
  <1>a. /\ TypeOK /\ JobTypeOK /\ WakeInv /\ ReadInv
        /\ pc \in [Streams -> Goroutine]
        /\ out \in [Streams -> Nat] /\ offset \in [Streams -> Nat]
    BY JobAssumption DEF IInv, TypeOK, JobTypeOK
  <1>1. CASE Job
    <2>1. /\ listeners' = listeners /\ \A s \in listeners : chan'[s] # << >>
      BY <1>1, <1>a, JobGrows
    <2>2. pc' = pc
      BY <1>1 DEF Job
    <2> QED
      BY <2>1, <2>2, <1>a DEF WakeInv
  <1>2. ASSUME NEW s \in Streams, ReadTotal(s) \/ ReadPast(s) \/ TakeMsg(s)
        PROVE  WakeInv'
    <2>1. CASE ReadTotal(s)
      BY <2>1, <1>a DEF ReadTotal, WakeInv, jobVars
    <2>2. CASE ReadPast(s)
      BY <2>2, <1>a DEF ReadPast, WakeInv, jobVars
    <2>3. CASE TakeMsg(s)
      BY <2>3, <1>a DEF TakeMsg, WakeInv, jobVars
    <2> QED
      BY <1>2, <2>1, <2>2, <2>3
  <1>3. ASSUME NEW s \in Streams, Listen(s) PROVE WakeInv'
    BY <1>3, <1>a DEF Listen, AddUpdateListener, WakeInv
  <1>4. ASSUME NEW s \in Streams, ReadLive(s) PROVE WakeInv'
    <2>1. /\ UNCHANGED <<listeners, chan, out, exitCode>> /\ pc[s] = "read"
          /\ offset' = [offset EXCEPT ![s] = Reach(s, out[s])]
          /\ \E l \in {"send", "wait", "sendLast", "remove"} :
               /\ pc' = [pc EXCEPT ![s] = l]
               /\ l = "wait" => exitCode = NoCode /\ ~(Reach(s, out[s]) > offset[s])
      BY <1>4 DEF ReadLive, jobVars
    <2>2. /\ offset[s] <= Reach(s, out[s]) /\ Reach(s, out[s]) \in Nat
          /\ ~(Reach(s, out[s]) > offset[s]) => ~(out[s] > offset[s])
          /\ offset[s] <= out[s]
      BY <1>a, ReachBetween DEF ReadInv
    <2>3. ~(Reach(s, out[s]) > offset[s]) => Reach(s, out[s]) = out[s]
      BY <2>2, <1>a
    <2> QED
      BY <2>1, <2>3, <1>a DEF WakeInv
  <1>5. ASSUME NEW s \in Streams, Wait(s) PROVE WakeInv'
    <2>1. \A r \in Streams \ {s} : chan'[r] = chan[r]
      BY <1>5, <1>a, StreamAssumption DEF Wait, Receive, JobTypeOK
    <2> QED
      BY <2>1, <1>5, <1>a DEF Wait, Receive, WakeInv
  <1>6. ASSUME NEW s \in Streams, Leave(s) PROVE WakeInv'
    BY <1>6, <1>a DEF Leave, WakeInv, jobVars
  <1>7. ASSUME NEW s \in Streams, Remove(s) PROVE WakeInv'
    BY <1>7, <1>a DEF Remove, RemoveUpdateListener, WakeInv
  <1>8. CASE SendMsg \/ SendCode \/ GiveUp \/ Cancel \/ UNCHANGED vars
             \/ \E s \in Streams : TakeResult(s)
    BY <1>8, <1>a DEF SendMsg, SendCode, GiveUp, Cancel, TakeResult, vars, jobVars,
       WakeInv
  <1> QED
    BY <1>1, <1>2, <1>3, <1>4, <1>5, <1>6, <1>7, <1>8 DEF Next, Handle, Go

\* Goroutines end one by one, and the handler when all have.
LEMMA StepEnd == ASSUME IInv, [Next]_vars PROVE EndInv'
  <1> USE DEF reqVars, handlerVars, goVars, clientVars
  <1>a. /\ TypeOK /\ EndInv /\ ReadInv
        /\ pc \in [Streams -> Goroutine] /\ failed \in [Streams -> BOOLEAN]
        /\ open \subseteq want /\ want \subseteq Streams
        /\ exitCode \in ExitCodes \cup {NoCode}
        /\ handler \in {"loop", "send", "final", "ret"}
    BY DEF IInv, TypeOK, JobTypeOK
  <1>1. CASE Job
    <2>1. exitCode = NoCode
      BY <1>1, <1>a, JobGrows DEF TypeOK
    <2> QED
      BY <2>1, <1>1, <1>a DEF Job, EndInv
  <1>2. ASSUME NEW s \in Streams, ReadTotal(s) \/ ReadPast(s) \/ Listen(s) \/ Wait(s)
        PROVE  EndInv'
    <2>1. /\ UNCHANGED <<exitCode, want, open, failed, ctx, handler, code>>
          /\ pc[s] \in {"total", "past", "listen", "wait"}
          /\ \E l \in {"past", "listen", "sendPast", "read"} :
               pc' = [pc EXCEPT ![s] = l]
      BY <1>2 DEF ReadTotal, ReadPast, Listen, Wait, AddUpdateListener, Receive, jobVars
    <2> QED
      BY <2>1, <1>a DEF EndInv
  <1>3. ASSUME NEW s \in Streams, ReadLive(s) PROVE EndInv'
    <2>1. /\ UNCHANGED <<exitCode, want, open, failed, ctx, handler, code>>
          /\ pc[s] = "read"
          /\ \E l \in {"send", "wait", "sendLast", "remove"} :
               /\ pc' = [pc EXCEPT ![s] = l]
               /\ l \in {"sendLast", "remove"} => exitCode # NoCode
      BY <1>3 DEF ReadLive, jobVars
    <2> QED
      BY <2>1, <1>a DEF EndInv
  <1>4. ASSUME NEW s \in Streams, Leave(s) \/ Remove(s) PROVE EndInv'
    <2>1. /\ UNCHANGED <<exitCode, want, open, ctx, handler, code>>
          /\ pc[s] \in {"sendPast", "send", "sendLast", "wait", "remove"}
          /\ \E l \in {"remove", "end"} : pc' = [pc EXCEPT ![s] = l]
          /\ \/ ctx /\ failed' = [failed EXCEPT ![s] = TRUE]
             \/ pc[s] = "remove" /\ failed' = failed
      BY <1>4 DEF Leave, Remove, RemoveUpdateListener, jobVars
    <2> QED
      BY <2>1, <1>a DEF EndInv
  <1>5. ASSUME NEW s \in Streams, TakeMsg(s) PROVE EndInv'
    <2>1. /\ UNCHANGED <<exitCode, want, open, ctx, failed, code>>
          /\ handler = "loop" /\ handler' = "send"
          /\ pc[s] \in {"sendPast", "send", "sendLast"}
          /\ \E l \in {"past", "listen", "read", "remove"} :
               /\ pc' = [pc EXCEPT ![s] = l]
               /\ l = "remove" => pc[s] = "sendLast"
      BY <1>5 DEF TakeMsg, jobVars
    <2> QED
      BY <2>1, <1>a DEF EndInv
  <1>6. ASSUME NEW s \in Streams, TakeResult(s) PROVE EndInv'
    <2>1. /\ UNCHANGED <<exitCode, want, ctx, pc, failed, code>>
          /\ handler = "loop" /\ pc[s] = "end"
          /\ \/ failed[s] /\ handler' = "ret" /\ open' = open
             \/ /\ ~failed[s] /\ open' = open \ {s}
                /\ handler' = IF open' = {} THEN "final" ELSE "loop"
      BY <1>6 DEF TakeResult, jobVars
    <2> QED
      BY <2>1, <1>a DEF EndInv
  <1>7. CASE SendMsg
    BY <1>7, <1>a DEF SendMsg, EndInv, jobVars
  <1>8. CASE SendCode
    BY <1>8, <1>a DEF SendCode, EndInv, jobVars
  <1>9. CASE GiveUp
    BY <1>9, <1>a DEF GiveUp, EndInv, jobVars
  <1>10. CASE Cancel \/ UNCHANGED vars
    BY <1>10, <1>a DEF Cancel, vars, jobVars, EndInv
  <1> QED
    BY <1>1, <1>2, <1>3, <1>4, <1>5, <1>6, <1>7, <1>8, <1>9, <1>10
    DEF Next, Handle, Go

-----------------------------------------------------------------------------
(* The theorems. *)

\* Every step keeps every part of the invariant.
LEMMA Step == ASSUME IInv, [Next]_vars PROVE IInv'
  BY StepType, StepRead, StepOffer, StepHand, StepWake, StepEnd DEF IInv

\* The inductive invariant of the streaming RPC (service.go,
\* StreamJobOutput and streamOutput).
THEOREM Invariant == Spec => []IInv
  BY InitInv, Step, PTL DEF Spec

\* All variables keep their types; no offset gets beyond what a job may write.
THEOREM TypeCorrect == Spec => []TypeOK
  <1>1. IInv => TypeOK
    BY DEF IInv
  <1> QED
    BY Invariant, <1>1, PTL

\* The exit code the handler dereferences (service.go:246) is never nil,
\* and all that was read has been sent by then.
THEOREM CodeIsThere == Spec => []CodeIsPresent
  <1>1. IInv => CodeIsPresent
    <2> SUFFICES ASSUME IInv, handler = "final"
                 PROVE  /\ exitCode # NoCode
                        /\ \A s \in want : recv[s] # NoMsg => recv[s].to = offset[s]
      BY DEF CodeIsPresent
    <2>1. want \subseteq Streams /\ inHand = NoMsg /\ ~GaveUp /\ open = {}
      BY DEF IInv, TypeOK, HandInv, EndInv, GaveUp
    <2>2. \A s \in want : pc[s] = "end" /\ ~failed[s] /\ exitCode # NoCode
      BY <2>1 DEF IInv, EndInv
    <2>3. \A s \in want : Taken(s) = offset[s]
      BY <2>1, <2>2 DEF IInv, OfferInv, OfferAt
    <2>4. want # {}
      BY DEF IInv, EndInv
    <2> QED
      BY <2>1, <2>2, <2>3, <2>4 DEF Taken, Sent
  <1> QED
    BY Invariant, <1>1, PTL

\* A goroutine that waits with nothing in its channel has missed nothing,
\* though job.go sends without blocking (job.go:183-188, service.go:352-360).
THEOREM NothingIsMissed == Spec => []NoLostUpdate
  <1>1. IInv => NoLostUpdate
    BY DEF IInv, TypeOK, WakeInv, NoLostUpdate
  <1> QED
    BY Invariant, <1>1, PTL

\* Each stream reaches the client as one gapless range in order, past output
\* first (worker.proto, StreamJobOutputResponse), for every chunk size and
\* every way the two goroutines share the handler.
THEOREM SentInOrder == Spec => Contiguous
  <1>1. ASSUME IInv, handler = "send"
        PROVE  ContiguousSend(inHand[1], inHand[2])
    <2>1. Continues(inHand[1], inHand[2], Sent(inHand[1]))
      BY <1>1 DEF IInv, HandInv
    <2> QED
      BY <2>1 DEF Continues, Sent, ContiguousSend
  <1>2. IInv /\ [Next]_vars =>
          [handler = "send" /\ handler' = "loop" =>
             ContiguousSend(inHand[1], inHand[2])]_vars
    BY <1>1
  <1> QED
    BY Invariant, <1>2, PTL DEF Spec, Contiguous

=============================================================================
