-------------------------- MODULE ClientTailProofs --------------------------
(***************************************************************************)
(* ClientTail.tla implements Stream.tla, whose theorems therefore hold of  *)
(* the tail command too, and what the command prints is what the server    *)
(* sent: an inductive invariant of the connection between them, for every  *)
(* capacity of the connection and every amount of output.                  *)
(***************************************************************************)
EXTENDS ClientTail, StreamProofs

Outputs == Streams \X Messages

TailTypeOK ==
  /\ tail \in {"dial", "select", "exit"}
  /\ result \in {"none", "nocall", "complete", "error", "signal"}
  /\ receiver \in {"recv", "nil", "error"}
  /\ shown \in [Streams -> Messages \cup {NoMsg}]
  /\ wire \in Seq(Outputs \cup {CodeMsg})
  /\ broken \in BOOLEAN
  /\ served \in {"no", "yes", "refused"}

\* How far the command has printed stream s.
Shown(s) ==
  IF shown[s] # NoMsg THEN shown[s].to ELSE IF fromStart THEN 0 ELSE total[s]

\* Is nothing from stream s at the places I of the wire?
NoneAt(s, I) == \A i \in I : wire[i][1] # s

\* The messages of each stream on the wire lead, one after the other, from
\* what was printed last to what was sent last.
Chain(s) ==
  /\ \A i \in 1..Len(wire) : wire[i][1] = s =>
       /\ recv[s] # NoMsg
       /\ NoneAt(s, 1..(i - 1)) => wire[i][2].from = Shown(s)
       /\ NoneAt(s, (i + 1)..Len(wire)) => recv[s] = wire[i][2]
       /\ \A k \in (i + 1)..Len(wire) :
            wire[k][1] = s /\ NoneAt(s, (i + 1)..(k - 1)) =>
              wire[k][2].from = wire[i][2].to
  /\ NoneAt(s, 1..Len(wire)) => recv[s] = shown[s]

\* The exit code comes after all of them.
CodeLast ==
  \A i \in 1..Len(wire) : wire[i] = CodeMsg => i = Len(wire) /\ code # NoCode

WireInv ==
  IF Gone THEN wire = << >> ELSE CodeLast /\ \A s \in Streams : Chain(s)

\* Nothing is sent before the job was found, and from then on, while both ends
\* are there, only the exit code ends the call.
CallInv ==
  /\ tail = "dial" => ~Called
  /\ ~Called => wire = << >> /\ \A s \in Streams : shown[s] = NoMsg
  /\ ctx => handler = "ret" \/ Gone
  /\ handler = "ret" =>
       \/ Gone \/ receiver = "nil"
       \/ wire # << >> /\ wire[Len(wire)] = CodeMsg
  /\ receiver = "nil" => code # NoCode /\ shown = recv
  /\ receiver = "error" => broken \/ served = "refused"
  /\ result = "complete" => receiver = "nil"
  /\ result = "error" => receiver = "error"

TailInv == IInv /\ TailTypeOK /\ WireInv /\ CallInv

-----------------------------------------------------------------------------

\* Every step of the tail command and of the call is one of Stream.tla, or
\* leaves the server as it was.
LEMMA TailStepIsNext == ASSUME [TailNext]_allVars PROVE [Next]_vars
  <1>1. CASE \/ NoCall \/ StartStream \/ Command \/ TakeSignal
             \/ Break \/ Accept \/ RefuseCall
    BY <1>1 DEF NoCall, StartStream, Command, RecvMsg, RecvErr, TakeErr, TakeSignal,
       Break, Accept, RefuseCall
  <1>2. CASE Handler
    BY <1>2 DEF Handler, HandlerStep, SendMsgOver, SendCodeOver, Next, Handle
  <1>3. CASE CtxCloses \/ JobStep
    BY <1>3 DEF CtxCloses, JobStep, Next
  <1>4. CASE \E s \in Streams : Goroutines(s)
    BY <1>4 DEF Goroutines, Next
  <1>5. CASE UNCHANGED allVars
    BY <1>5 DEF allVars
  <1> QED
    BY <1>1, <1>2, <1>3, <1>4, <1>5 DEF TailNext

\* The tail command and its connection are a client of Stream.tla: what
\* service.go promises any client, it promises tailCmd (client.go:185-257).
THEOREM ImplementsStream == TailSpec => Spec
  <1>1. TailInit => Init
    BY DEF TailInit
  <1>2. [TailNext]_allVars => [Next]_vars
    BY TailStepIsNext
  <1> QED
    BY <1>1, <1>2, PTL DEF TailSpec, Spec

-----------------------------------------------------------------------------

\* Nothing has been sent yet.
LEMMA TailInitInv == TailInit => TailInv
  <1> SUFFICES ASSUME TailInit PROVE TailInv
    OBVIOUS
  <1>1. IInv
    BY InitInv DEF TailInit
  <1>2. TailTypeOK
    <2>1. << >> \in Seq(Outputs \cup {CodeMsg})
      OBVIOUS
    <2>2. [s \in Streams |-> NoMsg] \in [Streams -> Messages \cup {NoMsg}]
      OBVIOUS
    <2> QED
      BY <2>1, <2>2 DEF TailInit, TailTypeOK
  <1>3. WireInv
    <2>1. wire = << >> /\ Len(wire) = 0 /\ recv = shown
      BY DEF TailInit, Init
    <2> QED
      BY <2>1 DEF WireInv, CodeLast, Chain
  <1>4. CallInv
    BY DEF TailInit, Init, CallInv, Called
  <1> QED
    BY <1>1, <1>2, <1>3, <1>4 DEF TailInv

\* What the handler has in hand, and what it is when the code was sent.
LEMMA Handed ==
  ASSUME IInv
  PROVE  /\ handler = "send" =>
              /\ inHand \in Outputs /\ inHand[2].from = Sent(inHand[1])
              /\ pc[inHand[1]] \notin {"off", "total"}
              /\ code = NoCode
         /\ handler = "final" => exitCode # NoCode /\ code = NoCode
         /\ code # NoCode => /\ handler = "ret" /\ exitCode # NoCode
                             /\ \A s \in want : pc[s] = "end" /\ Sent(s) = offset[s]
  <1>a. TypeOK /\ OfferInv /\ HandInv /\ EndInv
    BY DEF IInv
  <1>1. ASSUME handler = "send"
        PROVE  /\ inHand \in Outputs /\ inHand[2].from = Sent(inHand[1])
               /\ pc[inHand[1]] \notin {"off", "total"} /\ code = NoCode
    <2>1. inHand # NoMsg /\ inHand \in Outputs /\ ~GaveUp
      BY <1>1, <1>a DEF HandInv, TypeOK, GaveUp, Outputs
    <2>2. inHand[1] \in Streams
      BY <2>1 DEF Outputs
    <2> QED
      BY <1>1, <2>1, <2>2, <1>a DEF HandInv, Continues, OfferInv, OfferAt, EndInv
  <1>2. handler = "final" => exitCode # NoCode /\ code = NoCode
    <2>1. handler = "final" => \E s \in want : s \notin open
      BY <1>a DEF EndInv
    <2> QED
      BY <2>1, <1>a DEF EndInv, TypeOK
  <1>3. ASSUME code # NoCode
        PROVE  /\ handler = "ret" /\ exitCode # NoCode
               /\ \A s \in want : pc[s] = "end" /\ Sent(s) = offset[s]
    <2>1. open = {} /\ handler = "ret" /\ exitCode # NoCode /\ inHand = NoMsg /\ ~GaveUp
      BY <1>3, <1>a DEF EndInv, HandInv, GaveUp
    <2>2. \A s \in want : pc[s] = "end" /\ ~failed[s] /\ s \in Streams
      BY <2>1, <1>a DEF EndInv, TypeOK
    <2> QED
      BY <2>1, <2>2, <1>a DEF OfferInv, OfferAt, Taken
  <1> QED
    BY <1>1, <1>2, <1>3

\* Every step keeps the variables of the command and the wire in their types.
LEMMA TailStepType == ASSUME TailInv, [TailNext]_allVars PROVE TailTypeOK'
  <1> USE DEF tailVars, wireVars
  <1>a. TailTypeOK /\ IInv
    BY DEF TailInv
  <1>1. CASE RecvMsg
    <2>1. wire # << >> /\ Head(wire) \in Outputs \cup {CodeMsg} /\ wire' = Tail(wire)
      BY <1>1, <1>a DEF RecvMsg, TailTypeOK
    <2>2. wire' \in Seq(Outputs \cup {CodeMsg})
      BY <2>1, <1>a DEF TailTypeOK
    <2>3. shown' \in [Streams -> Messages \cup {NoMsg}]
      <3>1. CASE Head(wire) = CodeMsg
        BY <3>1, <1>1, <1>a DEF RecvMsg, TailTypeOK
      <3>2. CASE Head(wire) # CodeMsg
        <4>1. Head(wire)[1] \in Streams /\ Head(wire)[2] \in Messages
          BY <2>1, <3>2 DEF Outputs
        <4> QED
          BY <4>1, <3>2, <1>1, <1>a DEF RecvMsg, TailTypeOK
      <3> QED
        BY <3>1, <3>2
    <2> QED
      BY <2>2, <2>3, <1>1, <1>a DEF RecvMsg, TailTypeOK
  <1>2. CASE \/ NoCall \/ StartStream \/ RecvErr \/ TakeErr \/ TakeSignal
             \/ Break \/ Accept \/ RefuseCall
    <2>1. << >> \in Seq(Outputs \cup {CodeMsg})
      OBVIOUS
    <2> QED
      BY <2>1, <1>2, <1>a
      DEF NoCall, StartStream, RecvErr, TakeErr, TakeSignal, Break, Accept,
          RefuseCall, TailTypeOK
  <1>3. CASE Handler
    <2>1. CASE SendMsgOver
      <3>1. inHand \in Outputs
        BY <2>1, <1>a, Handed DEF SendMsgOver, SendMsg
      <3> QED
        BY <3>1, <2>1, <1>a DEF SendMsgOver, TailTypeOK
    <2>2. CASE SendCodeOver
      BY <2>2, <1>a DEF SendCodeOver, TailTypeOK
    <2>3. CASE UNCHANGED <<tailVars, wireVars, served>>
      BY <2>3, <1>a DEF TailTypeOK
    <2> QED
      BY <1>3, <2>1, <2>2, <2>3 DEF Handler, HandlerStep
  <1>4. CASE CtxCloses \/ JobStep \/ (\E s \in Streams : Goroutines(s))
             \/ UNCHANGED allVars
    BY <1>4, <1>a DEF CtxCloses, JobStep, Goroutines, allVars, TailTypeOK
  <1> QED
    BY <1>1, <1>2, <1>3, <1>4 DEF TailNext, Command

-----------------------------------------------------------------------------

\* The command prints the first message of the wire, and the next of its
\* stream becomes the first.
LEMMA TakenInv == ASSUME TailInv, RecvMsg PROVE WireInv'
  <1>a. TailTypeOK /\ WireInv
    BY DEF TailInv
  <1>b. /\ wire # << >> /\ wire \in Seq(Outputs \cup {CodeMsg})
        /\ ~Gone /\ ~Gone' /\ CodeLast /\ \A s \in Streams : Chain(s)
        /\ UNCHANGED <<recv, fromStart, total, code>>
    BY <1>a DEF RecvMsg, WireInv, Gone, TailTypeOK, vars, clientVars, goVars, reqVars
  <1>n. PICK n \in Nat \ {0} : n = Len(wire)
    BY <1>b
  <1>c. /\ wire' = Tail(wire) /\ Len(wire') = n - 1 /\ Head(wire) = wire[1]
        /\ \A i \in 1..(n - 1) : wire'[i] = wire[i + 1]
    BY <1>b, <1>n DEF RecvMsg
  <1>d. \A i \in 1..n : wire[i] \in Outputs \/ wire[i] = CodeMsg
    BY <1>b, <1>n
  <1>1. CodeLast'
    <2> SUFFICES ASSUME NEW i \in 1..(n - 1), wire'[i] = CodeMsg
                 PROVE  i = n - 1 /\ code' # NoCode
      BY <1>c DEF CodeLast
    <2>1. i + 1 \in 1..n /\ wire[i + 1] = CodeMsg
      BY <1>b, <1>c
    <2> QED
      BY <2>1, <1>b, <1>n DEF CodeLast
  <1>2. ASSUME NEW s \in Streams PROVE Chain(s)'
    <2>a. /\ Chain(s)
          /\ \A i \in 1..(n - 1) : i + 1 \in 1..n /\ wire'[i] = wire[i + 1]
      BY <1>b, <1>c
    <2>b. ASSUME NEW i \in Nat \ {0}, NEW k \in Int, k <= n - 1, NoneAt(s, i..k)'
          PROVE  NoneAt(s, (i + 1)..(k + 1))
      <3> SUFFICES ASSUME NEW j \in (i + 1)..(k + 1) PROVE wire[j][1] # s
        BY DEF NoneAt
      <3>1. j - 1 \in i..k /\ j - 1 \in 1..(n - 1) /\ (j - 1) + 1 = j
        BY <1>b, <2>b
      <3> QED
        BY <3>1, <2>a, <2>b DEF NoneAt
    <2>1. ASSUME NEW i \in 1..(n - 1), wire'[i][1] = s
          PROVE  /\ recv'[s] # NoMsg
                 /\ NoneAt(s, (i + 1)..(n - 1))' => recv'[s] = wire'[i][2]
                 /\ \A k \in (i + 1)..(n - 1) :
                      wire'[k][1] = s /\ NoneAt(s, (i + 1)..(k - 1))' =>
                        wire'[k][2].from = wire'[i][2].to
      <3>1. /\ i + 1 \in 1..n /\ wire[i + 1][1] = s /\ wire'[i] = wire[i + 1]
            /\ recv[s] # NoMsg /\ recv' = recv /\ (n - 1) + 1 = n
            /\ NoneAt(s, ((i + 1) + 1)..n) => recv[s] = wire[i + 1][2]
        BY <2>a, <2>1, <1>b, <1>n DEF Chain
      <3>2. NoneAt(s, (i + 1)..(n - 1))' => recv'[s] = wire'[i][2]
        BY <3>1, <2>b, <1>b
      <3>3. ASSUME NEW k \in (i + 1)..(n - 1), wire'[k][1] = s,
                   NoneAt(s, (i + 1)..(k - 1))'
            PROVE  wire'[k][2].from = wire'[i][2].to
        <4>1. /\ k + 1 \in ((i + 1) + 1)..n /\ k \in 1..(n - 1) /\ k - 1 <= n - 1
              /\ (k - 1) + 1 = (k + 1) - 1 /\ i + 1 \in Nat \ {0} /\ k - 1 \in Int
          BY <1>b
        <4>2. NoneAt(s, ((i + 1) + 1)..((k + 1) - 1))
          BY <4>1, <3>3, <2>b
        <4>3. wire'[k] = wire[k + 1]
          BY <4>1, <2>a
        <4> QED
          BY <4>1, <4>2, <4>3, <3>1, <3>3, <2>a, <1>n DEF Chain
      <3> QED
        BY <3>1, <3>2, <3>3
    <2>2. CASE wire[1][1] = s
      <3>1. /\ wire[1] \in Outputs /\ wire[1] # CodeMsg
            /\ 1 \in 1..n
        BY <2>2, <1>b, <1>d DEF CodeMsg, Streams
      <3>2. shown'[s] = wire[1][2] /\ wire[1][2] # NoMsg
        BY <3>1, <2>2, <1>a, <1>c, StreamAssumption DEF RecvMsg, TailTypeOK, Outputs
      <3>3. Shown(s)' = wire[1][2].to
        BY <3>2 DEF Shown
      <3>4. ASSUME NEW i \in 1..(n - 1), wire'[i][1] = s, NoneAt(s, 1..(i - 1))'
            PROVE  wire'[i][2].from = Shown(s)'
        <4>1. /\ i - 1 \in Int /\ i - 1 <= n - 1 /\ (i - 1) + 1 = (i + 1) - 1
              /\ i + 1 \in (1 + 1)..n
          BY <1>b
        <4>2. NoneAt(s, (1 + 1)..((i + 1) - 1))
          BY <4>1, <3>4, <2>b
        <4>3. wire'[i] = wire[i + 1]
          BY <2>a
        <4>4. wire[i + 1][2].from = wire[1][2].to
          BY <4>1, <4>2, <4>3, <3>1, <3>4, <2>2, <2>a, <1>n DEF Chain
        <4> QED
          BY <4>3, <4>4, <3>3
      <3>5. NoneAt(s, 1..(n - 1))' => recv'[s] = shown'[s]
        <4>1. n - 1 \in Int /\ (n - 1) + 1 = n
          BY <1>b
        <4>2. NoneAt(s, 1..(n - 1))' => NoneAt(s, (1 + 1)..n)
          BY <4>1, <2>b
        <4> QED
          BY <4>2, <3>1, <3>2, <2>2, <2>a, <1>b, <1>n DEF Chain
      <3>6. Len(wire') = n - 1
        BY <1>c
      <3>7. NoneAt(s, 1..Len(wire))' => recv'[s] = shown'[s]
        BY <3>5, <3>6
      <3> QED
        BY <2>1, <3>4, <3>6, <3>7 DEF Chain
    <2>3. CASE wire[1][1] # s
      <3>1. shown'[s] = shown[s]
        BY <2>3, <1>a, <1>c DEF RecvMsg, TailTypeOK
      <3>2. Shown(s)' = Shown(s)
        BY <3>1, <1>b DEF Shown
      <3>3. ASSUME NEW k \in Int, k <= n - 1, NoneAt(s, 1..k)'
            PROVE  NoneAt(s, 1..(k + 1))
        <4>1. NoneAt(s, (1 + 1)..(k + 1))
          BY <3>3, <2>b
        <4> QED
          BY <4>1, <2>3 DEF NoneAt
      <3>4. ASSUME NEW i \in 1..(n - 1), wire'[i][1] = s, NoneAt(s, 1..(i - 1))'
            PROVE  wire'[i][2].from = Shown(s)'
        <4>1. i - 1 \in Int /\ i - 1 <= n - 1 /\ (i - 1) + 1 = (i + 1) - 1
          BY <1>b
        <4>2. NoneAt(s, 1..((i + 1) - 1))
          BY <4>1, <3>3, <3>4
        <4> QED
          BY <4>2, <3>2, <3>4, <2>a, <1>n DEF Chain
      <3>5. NoneAt(s, 1..(n - 1))' => recv'[s] = shown'[s]
        <4>1. n - 1 \in Int /\ (n - 1) + 1 = n
          BY <1>b
        <4> QED
          BY <4>1, <3>1, <3>3, <2>a, <1>b, <1>n DEF Chain
      <3>6. Len(wire') = n - 1
        BY <1>c
      <3>7. NoneAt(s, 1..Len(wire))' => recv'[s] = shown'[s]
        BY <3>5, <3>6
      <3> QED
        BY <2>1, <3>4, <3>6, <3>7 DEF Chain
    <2> QED
      BY <2>2, <2>3
  <1> QED
    BY <1>1, <1>2, <1>b DEF WireInv

\* What is sent of anything else leaves a stream's chain as it was.
LEMMA ChainOfOthers ==
  ASSUME TailTypeOK, NEW s \in Streams, Chain(s),
         NEW m \in Outputs \cup {CodeMsg}, wire' = Append(wire, m), m[1] # s,
         recv'[s] = recv[s], UNCHANGED <<shown, fromStart, total>>
  PROVE  Chain(s)'
  <1>n. PICK n \in Nat : n = Len(wire)
    BY DEF TailTypeOK
  <1>a. /\ Len(wire') = n + 1 /\ wire'[n + 1] = m
        /\ \A i \in 1..n : wire'[i] = wire[i]
        /\ Shown(s)' = Shown(s)
    BY <1>n DEF TailTypeOK, Shown
  <1>b. ASSUME NEW i \in Int, NEW k \in Int, i >= 1, k <= n
        PROVE  NoneAt(s, i..k)' <=> NoneAt(s, i..k)
    <2>1. \A j \in i..k : j \in 1..n
      BY <1>b
    <2> QED
      BY <2>1, <1>a DEF NoneAt
  <1>c. ASSUME NEW i \in Int, i >= 1, NoneAt(s, i..(n + 1))'
        PROVE  NoneAt(s, i..n)
    BY <1>c, <1>a DEF NoneAt
  <1>1. ASSUME NEW i \in 1..(n + 1), wire'[i][1] = s
        PROVE  /\ recv'[s] # NoMsg
               /\ NoneAt(s, 1..(i - 1))' => wire'[i][2].from = Shown(s)'
               /\ NoneAt(s, (i + 1)..(n + 1))' => recv'[s] = wire'[i][2]
               /\ \A k \in (i + 1)..(n + 1) :
                    wire'[k][1] = s /\ NoneAt(s, (i + 1)..(k - 1))' =>
                      wire'[k][2].from = wire'[i][2].to
    <2>1. /\ i \in 1..n /\ wire'[i] = wire[i] /\ wire[i][1] = s
          /\ i - 1 \in Int /\ i - 1 <= n /\ i + 1 \in Int /\ i + 1 >= 1
      BY <1>1, <1>a
    <2>2. NoneAt(s, 1..(i - 1))' <=> NoneAt(s, 1..(i - 1))
      BY <2>1, <1>b
    <2>3. NoneAt(s, (i + 1)..(n + 1))' => NoneAt(s, (i + 1)..n)
      BY <2>1, <1>c
    <2>4. ASSUME NEW k \in (i + 1)..(n + 1), wire'[k][1] = s,
                 NoneAt(s, (i + 1)..(k - 1))'
          PROVE  wire'[k][2].from = wire'[i][2].to
      <3>1. k \in (i + 1)..n /\ k \in 1..n /\ k - 1 \in Int /\ k - 1 <= n
        BY <2>1, <2>4, <1>a
      <3>2. wire'[k] = wire[k] /\ NoneAt(s, (i + 1)..(k - 1))
        BY <3>1, <2>1, <2>4, <1>a, <1>b
      <3> QED
        BY <3>1, <3>2, <2>1, <2>4, <1>n DEF Chain
    <2> QED
      BY <2>1, <2>2, <2>3, <2>4, <1>a, <1>n DEF Chain
  <1>2. NoneAt(s, 1..(n + 1))' => recv'[s] = shown'[s]
    BY <1>c, <1>n DEF Chain
  <1> QED
    BY <1>1, <1>2, <1>a DEF Chain

\* The handler sends what continues the last message it sent.
LEMMA SentInv == ASSUME TailInv, SendMsgOver PROVE WireInv'
  <1>a. /\ TailTypeOK /\ WireInv /\ TypeOK /\ ~Gone /\ ~Gone' /\ SendMsg
        /\ CodeLast /\ \A s \in Streams : Chain(s)
    BY DEF TailInv, IInv, SendMsgOver, Gone, tailVars, WireInv
  <1>b. /\ inHand \in Outputs /\ inHand[2].from = Sent(inHand[1]) /\ code = NoCode
        /\ inHand[1] \in Streams /\ inHand[2] # NoMsg /\ inHand # CodeMsg
    <2>1. handler = "send" /\ IInv
      BY <1>a DEF SendMsg, TailInv
    <2>2. inHand \in Outputs /\ inHand[2].from = Sent(inHand[1]) /\ code = NoCode
      BY <2>1, Handed
    <2>3. inHand[1] \in Streams /\ inHand[2] \in Messages /\ NoMsg \notin Messages
      BY <2>2, StreamAssumption DEF Outputs
    <2>4. CodeMsg[1] \notin Streams
      BY DEF CodeMsg, Streams
    <2> QED
      BY <2>2, <2>3, <2>4
  <1>n. PICK n \in Nat : n = Len(wire)
    BY <1>a DEF TailTypeOK
  <1>c. /\ wire' = Append(wire, inHand) /\ Len(wire') = n + 1 /\ wire'[n + 1] = inHand
        /\ \A i \in 1..n : wire'[i] = wire[i]
        /\ recv' = [recv EXCEPT ![inHand[1]] = inHand[2]]
        /\ UNCHANGED <<shown, fromStart, total, code>>
    BY <1>a, <1>b, <1>n DEF SendMsgOver, SendMsg, TailTypeOK, tailVars, reqVars, goVars
  <1>1. CodeLast'
    <2> SUFFICES ASSUME NEW i \in 1..(n + 1), wire'[i] = CodeMsg PROVE FALSE
      BY <1>c DEF CodeLast
    <2>1. i \in 1..n /\ wire[i] = CodeMsg
      BY <1>b, <1>c
    <2> QED
      BY <2>1, <1>a, <1>b, <1>n DEF CodeLast
  <1>2. ASSUME NEW s \in Streams PROVE Chain(s)'
    <2>a. Chain(s) /\ Shown(s)' = Shown(s)
      BY <1>a, <1>c DEF Shown
    <2>b. ASSUME NEW i \in Int, NEW k \in Int, i >= 1, k <= n
          PROVE  NoneAt(s, i..k)' <=> NoneAt(s, i..k)
      <3>1. \A j \in i..k : j \in 1..n
        BY <2>b
      <3> QED
        BY <3>1, <1>c DEF NoneAt
    <2>1. CASE inHand[1] # s
      <3>1. recv'[s] = recv[s]
        BY <2>1, <1>a, <1>b, <1>c DEF TypeOK
      <3> QED
        BY <3>1, <2>1, <2>a, <1>a, <1>b, <1>c, ChainOfOthers
    <2>2. CASE inHand[1] = s
      <3>1. recv'[s] = inHand[2]
        BY <2>2, <1>a, <1>b, <1>c DEF TypeOK
      <3>2. ASSUME NEW i \in 1..(n + 1), wire'[i][1] = s
            PROVE  /\ NoneAt(s, 1..(i - 1))' => wire'[i][2].from = Shown(s)'
                   /\ NoneAt(s, (i + 1)..(n + 1))' => recv'[s] = wire'[i][2]
                   /\ \A k \in (i + 1)..(n + 1) :
                        wire'[k][1] = s /\ NoneAt(s, (i + 1)..(k - 1))' =>
                          wire'[k][2].from = wire'[i][2].to
        <4>1. CASE i = n + 1
          <5>1. NoneAt(s, 1..n)' => wire'[n + 1][2].from = Shown(s)'
            <6>1. NoneAt(s, 1..n)' => recv[s] = shown[s]
              BY <2>a, <2>b, <1>n DEF Chain
            <6> QED
              BY <6>1, <2>2, <2>a, <1>b, <1>c DEF Shown, Sent
          <5>2. i - 1 = n /\ (i + 1)..(n + 1) = {}
            BY <4>1
          <5> QED
            BY <5>1, <5>2, <4>1, <3>1, <1>c
        <4>2. CASE i # n + 1
          <5>1. /\ i \in 1..n /\ wire'[i] = wire[i] /\ wire[i][1] = s
                /\ i - 1 \in Int /\ i - 1 <= n /\ i + 1 \in Int /\ i + 1 >= 1
                /\ n + 1 \in (i + 1)..(n + 1)
            BY <3>2, <4>2, <1>c
          <5>2. NoneAt(s, 1..(i - 1))' => wire'[i][2].from = Shown(s)'
            BY <5>1, <2>a, <2>b, <1>n DEF Chain
          <5>3. ~NoneAt(s, (i + 1)..(n + 1))'
            BY <5>1, <2>2, <1>c DEF NoneAt
          <5>4. ASSUME NEW k \in (i + 1)..(n + 1), wire'[k][1] = s,
                       NoneAt(s, (i + 1)..(k - 1))'
                PROVE  wire'[k][2].from = wire'[i][2].to
            <6>1. k - 1 \in Int /\ k - 1 <= n
              BY <5>1
            <6>2. NoneAt(s, (i + 1)..(k - 1))
              BY <6>1, <5>1, <5>4, <2>b
            <6>3. CASE k = n + 1
              <7>1. k - 1 = n
                BY <6>3
              <7>2. recv[s] = wire[i][2] /\ recv[s] # NoMsg
                BY <7>1, <6>2, <5>1, <2>a, <1>n DEF Chain
              <7> QED
                BY <7>2, <6>3, <5>1, <2>2, <1>b, <1>c DEF Sent
            <6>4. CASE k # n + 1
              <7>1. k \in (i + 1)..n /\ k \in 1..n
                BY <6>4, <5>1
              <7> QED
                BY <7>1, <6>2, <5>1, <5>4, <2>a, <1>c, <1>n DEF Chain
            <6> QED
              BY <6>3, <6>4
          <5> QED
            BY <5>2, <5>3, <5>4
        <4> QED
          BY <4>1, <4>2
      <3>3. ~NoneAt(s, 1..(n + 1))'
        <4>1. n + 1 \in 1..(n + 1)
          OBVIOUS
        <4> QED
          BY <4>1, <2>2, <1>c DEF NoneAt
      <3>4. recv'[s] # NoMsg /\ Len(wire') = n + 1
        BY <3>1, <1>b, <1>c
      <3> QED
        BY <3>2, <3>3, <3>4 DEF Chain
    <2> QED
      BY <2>1, <2>2
  <1> QED
    BY <1>1, <1>2, <1>a DEF WireInv

\* The exit code goes after what was sent, once.
LEMMA CodeSentInv == ASSUME TailInv, SendCodeOver PROVE WireInv'
  <1>a. /\ TailTypeOK /\ WireInv /\ ~Gone /\ ~Gone' /\ SendCode
        /\ CodeLast /\ (\A s \in Streams : Chain(s)) /\ IInv
    BY DEF TailInv, SendCodeOver, Gone, tailVars, WireInv
  <1>n. PICK n \in Nat : n = Len(wire)
    BY <1>a DEF TailTypeOK
  <1>b. /\ wire' = Append(wire, CodeMsg) /\ Len(wire') = n + 1 /\ wire'[n + 1] = CodeMsg
        /\ \A i \in 1..n : wire'[i] = wire[i]
        /\ UNCHANGED <<shown, fromStart, total, recv>>
    BY <1>a, <1>n DEF SendCodeOver, SendCode, TailTypeOK, tailVars, reqVars, goVars
  <1>c. code = NoCode /\ code' # NoCode
    BY <1>a, Handed DEF SendCode
  <1>d. CodeMsg[1] \notin Streams
    BY DEF CodeMsg, Streams
  <1>1. CodeLast'
    <2> SUFFICES ASSUME NEW i \in 1..(n + 1), wire'[i] = CodeMsg
                 PROVE  i = n + 1 /\ code' # NoCode
      BY <1>b DEF CodeLast
    <2>1. i \notin 1..n
      BY <1>a, <1>b, <1>c, <1>n DEF CodeLast
    <2> QED
      BY <2>1, <1>c
  <1>2. ASSUME NEW s \in Streams PROVE Chain(s)'
    BY <1>a, <1>b, <1>d, ChainOfOthers
  <1> QED
    BY <1>1, <1>2, <1>a DEF WireInv

\* A total is read before anything of its stream is sent.
LEMMA ChainKept ==
  ASSUME NEW s \in Streams, Chain(s), UNCHANGED <<wire, recv, shown, fromStart>>,
         total'[s] = total[s] \/ recv[s] = NoMsg
  PROVE  Chain(s)'
  <1>1. CASE total'[s] = total[s]
    BY <1>1 DEF Chain, NoneAt, Shown
  <1>2. CASE recv[s] = NoMsg
    BY <1>2 DEF Chain, NoneAt
  <1> QED
    BY <1>1, <1>2

\* What is on the wire stays in order, and the exit code last.
LEMMA StepWire == ASSUME TailInv, [TailNext]_allVars PROVE WireInv'
  <1> USE DEF tailVars, wireVars, reqVars, handlerVars, goVars, clientVars
  <1>a. TailTypeOK /\ WireInv /\ CallInv /\ TypeOK /\ HandInv
    BY DEF TailInv, IInv
  <1>b. ASSUME UNCHANGED <<wire, recv, shown, fromStart, code>>, Gone' <=> Gone,
               \A s \in Streams : total'[s] = total[s] \/ recv[s] = NoMsg
        PROVE  WireInv'
    <2>1. CASE Gone
      BY <2>1, <1>a, <1>b DEF WireInv
    <2>2. CASE ~Gone
      <3>1. CodeLast /\ \A s \in Streams : Chain(s)
        BY <2>2, <1>a DEF WireInv
      <3>2. CodeLast'
        BY <3>1, <1>b DEF CodeLast
      <3>3. \A s \in Streams : Chain(s)'
        BY <3>1, <1>b, ChainKept
      <3> QED
        BY <3>2, <3>3, <2>2, <1>b DEF WireInv
    <2> QED
      BY <2>1, <2>2
  <1>1. CASE RecvMsg
    BY <1>1, TakenInv
  <1>2. CASE NoCall \/ TakeErr \/ TakeSignal \/ Break
    <2>1. wire' = << >> /\ Gone'
      BY <1>2, <1>a DEF NoCall, TakeErr, TakeSignal, Break, Gone, CallInv
    <2> QED
      BY <2>1 DEF WireInv
  <1>3. CASE \/ StartStream \/ RecvErr \/ CtxCloses \/ Accept \/ RefuseCall
             \/ JobStep \/ UNCHANGED allVars
    <2>1. UNCHANGED <<wire, recv, shown, fromStart, code, total>> /\ (Gone' <=> Gone)
      BY <1>3 DEF StartStream, RecvErr, CtxCloses, Cancel, Accept, RefuseCall, JobStep,
         Job, Gone, allVars, vars
    <2> QED
      BY <2>1, <1>b
  <1>4. CASE Handler
    <2>1. CASE SendMsgOver
      BY <2>1, SentInv
    <2>2. CASE SendCodeOver
      BY <2>2, CodeSentInv
    <2>3. CASE /\ GiveUp \/ \E s \in Streams : TakeMsg(s) \/ TakeResult(s)
               /\ UNCHANGED <<tailVars, wireVars, served>>
      <3>1. UNCHANGED <<wire, recv, shown, fromStart, code, total>> /\ (Gone' <=> Gone)
        BY <2>3 DEF GiveUp, TakeMsg, TakeResult, Gone
      <3> QED
        BY <3>1, <1>b
    <2> QED
      BY <1>4, <2>1, <2>2, <2>3 DEF Handler, HandlerStep
  <1>5. ASSUME NEW s \in Streams, Goroutines(s) PROVE WireInv'
    <2>1. /\ UNCHANGED <<wire, recv, shown, fromStart, code>> /\ (Gone' <=> Gone)
          /\ Go(s)
      BY <1>5 DEF Goroutines, Go, ReadTotal, ReadPast, Listen, ReadLive, Wait, Leave,
         Remove, Gone
    <2>2. ASSUME NEW r \in Streams PROVE total'[r] = total[r] \/ recv[r] = NoMsg
      <3>1. CASE ReadTotal(s)
        BY <3>1, <1>a DEF ReadTotal, HandInv, TypeOK
      <3>2. CASE ~ReadTotal(s)
        BY <3>2, <2>1 DEF Go, ReadPast, Listen, ReadLive, Wait, Leave, Remove
      <3> QED
        BY <3>1, <3>2
    <2> QED
      BY <2>1, <2>2, <1>b
  <1> QED
    BY <1>1, <1>2, <1>3, <1>4, <1>5 DEF TailNext, Command

\* The call ends with the exit code unless an end of it has gone.
LEMMA StepCall == ASSUME TailInv, [TailNext]_allVars PROVE CallInv'
  <1> USE DEF tailVars, wireVars, reqVars, handlerVars, goVars, clientVars
  <1>a. /\ TailTypeOK /\ WireInv /\ CallInv /\ TypeOK /\ EndInv /\ IInv
        /\ wire \in Seq(Outputs \cup {CodeMsg})
    BY DEF TailInv, IInv, TailTypeOK
  <1>b. code # NoCode => handler = "ret"
    BY <1>a, Handed
  <1>1. CASE RecvMsg
    <2>1. /\ ~Gone /\ ~Gone' /\ wire # << >> /\ wire' = Tail(wire)
          /\ receiver = "recv" /\ tail # "dial"
          /\ Head(wire) = wire[1] /\ Len(wire) \in Nat \ {0}
          /\ UNCHANGED <<vars, tail, result, broken, served>> /\ Called
      BY <1>1, <1>a DEF RecvMsg, WireInv, Gone, CallInv, Called
    <2>2. CodeLast /\ \A s \in Streams : Chain(s)
      BY <2>1, <1>a DEF WireInv
    <2>3. CASE wire[1] = CodeMsg
      <3>1. Len(wire) = 1 /\ code # NoCode
        <4>1. 1 \in 1..Len(wire)
          BY <2>1
        <4> QED
          BY <4>1, <2>2, <2>3 DEF CodeLast
      <3>2. ASSUME NEW s \in Streams PROVE recv[s] = shown[s]
        <4>1. CodeMsg[1] # s
          BY DEF CodeMsg, Streams
        <4> QED
          BY <4>1, <3>1, <2>2, <2>3 DEF Chain, NoneAt
      <3>3. recv = shown
        BY <3>2, <1>a DEF TypeOK, TailTypeOK
      <3>4. receiver' = "nil" /\ shown' = shown
        BY <1>1, <2>1, <2>3 DEF RecvMsg
      <3> QED
        BY <3>1, <3>3, <3>4, <2>1, <1>a DEF CallInv, Called, vars, Gone
    <2>4. CASE wire[1] # CodeMsg
      <3>1. receiver' = receiver
        BY <1>1, <2>1, <2>4 DEF RecvMsg
      <3>2. ASSUME wire[Len(wire)] = CodeMsg
            PROVE  wire' # << >> /\ wire'[Len(wire')] = CodeMsg
        <4>n. PICK n \in Nat \ {0, 1} : n = Len(wire)
          BY <3>2, <2>1, <2>4
        <4>1. Len(wire') = n - 1 /\ n - 1 \in Nat \ {0} /\ (n - 1) + 1 = n
          BY <4>n, <2>1, <1>a
        <4>2. \A i \in 1..(n - 1) : wire'[i] = wire[i + 1]
          BY <4>n, <2>1, <1>a
        <4>3. n - 1 \in 1..(n - 1)
          BY <4>1
        <4>4. wire'[n - 1] = wire[n]
          BY <4>1, <4>2, <4>3
        <4> QED
          BY <4>n, <4>1, <4>4, <3>2
      <3> QED
        BY <3>1, <3>2, <2>1, <1>a DEF CallInv, Called, vars, Gone
    <2> QED
      BY <2>3, <2>4
  <1>2. CASE RecvErr
    <2>1. broken \/ served = "refused"
      BY <1>2, <1>a DEF RecvErr, CallInv, Gone
    <2> QED
      BY <2>1, <1>2, <1>a DEF RecvErr, CallInv, Called, Gone, vars
  <1>3. CASE \/ NoCall \/ StartStream \/ TakeErr \/ TakeSignal \/ Break
             \/ Accept \/ RefuseCall
    BY <1>3, <1>a
    DEF NoCall, StartStream, TakeErr, TakeSignal, Break, Accept, RefuseCall,
        CallInv, Called, Gone, vars, TailTypeOK
  <1>4. CASE Handler
    <2>a. Called /\ tail # "dial"
      BY <1>4, <1>a DEF Handler, CallInv
    <2>1. CASE SendMsgOver
      <3>1. handler = "send" /\ handler' = "loop" /\ code' = code /\ ctx' = ctx
        BY <2>1 DEF SendMsgOver, SendMsg
      <3> QED
        BY <3>1, <2>1, <2>a, <1>a, <1>b DEF SendMsgOver, CallInv, Called, Gone
    <2>2. CASE SendCodeOver
      <3>1. /\ handler = "final" /\ handler' = "ret" /\ ctx' = ctx
            /\ wire' = Append(wire, CodeMsg) /\ UNCHANGED <<tailVars, broken, served>>
        BY <2>2 DEF SendCodeOver, SendCode
      <3>2. wire' # << >> /\ wire'[Len(wire')] = CodeMsg
        BY <3>1, <1>a
      <3> QED
        BY <3>1, <3>2, <2>a, <1>a, <1>b DEF CallInv, Called, Gone
    <2>3. CASE GiveUp /\ (ctx \/ Gone) /\ UNCHANGED <<tailVars, wireVars, served>>
      BY <2>3, <2>a, <1>a DEF GiveUp, CallInv, Called, Gone
    <2>4. ASSUME NEW s \in Streams, TakeMsg(s) \/ TakeResult(s),
                 UNCHANGED <<tailVars, wireVars, served>>
          PROVE  CallInv'
      <3>1. /\ handler = "loop" /\ UNCHANGED <<ctx, recv, code>>
            /\ handler' = "ret" => ctx
        BY <2>4, <1>a DEF TakeMsg, TakeResult, EndInv
      <3> QED
        BY <3>1, <2>4, <2>a, <1>a DEF CallInv, Called, Gone
    <2> QED
      BY <1>4, <2>1, <2>2, <2>3, <2>4 DEF Handler, HandlerStep
  <1>5. CASE CtxCloses
    BY <1>5, <1>a DEF CtxCloses, Cancel, CallInv, Called, Gone
  <1>6. CASE JobStep \/ (\E s \in Streams : Goroutines(s)) \/ UNCHANGED allVars
    <2>1. UNCHANGED <<ctx, handler, code, recv, tailVars, wireVars, served>>
      BY <1>6 DEF JobStep, Job, Goroutines, Go, ReadTotal, ReadPast, Listen, ReadLive,
         Wait, Leave, Remove, allVars, vars
    <2> QED
      BY <2>1, <1>a DEF CallInv, Called, Gone
  <1> QED
    BY <1>1, <1>2, <1>3, <1>4, <1>5, <1>6 DEF TailNext, Command

-----------------------------------------------------------------------------

\* The server, the connection and the command agree on what was sent, what is
\* on its way and what was printed, in every state.
THEOREM TailInvariant == TailSpec => []TailInv
  <1>1. TailInv /\ [TailNext]_allVars => TailInv'
    <2> SUFFICES ASSUME TailInv, [TailNext]_allVars PROVE TailInv'
      OBVIOUS
    <2>1. IInv'
      BY TailStepIsNext, Step DEF TailInv
    <2> QED
      BY <2>1, TailStepType, StepWire, StepCall DEF TailInv
  <1> QED
    BY <1>1, TailInitInv, PTL DEF TailSpec

\* A tail command that ends because the job completed (client.go:232-246) has
\* printed all that the server read of each requested stream.
THEOREM CompletePrinted == TailSpec => []CompleteMeansPrinted
  <1>1. TailInv => CompleteMeansPrinted
    <2> SUFFICES ASSUME TailInv, result = "complete" PROVE CompleteMeansPrinted
      BY DEF CompleteMeansPrinted
    <2>1. code # NoCode /\ shown = recv /\ IInv
      BY DEF TailInv, CallInv
    <2> QED
      BY <2>1, Handed DEF Sent, CompleteMeansPrinted
  <1> QED
    BY <1>1, TailInvariant, PTL

\* A command that fails reading the stream (client.go:238-244) has lost its
\* connection, or was refused with nothing printed: what the handler and its
\* goroutines do among themselves ends no stream before the exit code.
THEOREM ErrorIsCaused == TailSpec => []ErrorHasCause
  <1>1. TailInv => ErrorHasCause
    BY DEF TailInv, CallInv, Called, ErrorHasCause
  <1> QED
    BY <1>1, TailInvariant, PTL

\* The goroutine that receives prints every stream without a gap, a repetition
\* or a message out of order (client.go:218-231), whatever is on the wire.
THEOREM PrintedInOrder == TailSpec => PrintsInOrder
  <1> DEFINE Prints(s) ==
        shown'[s] # shown[s] =>
          shown'[s].from = IF shown[s] # NoMsg THEN shown[s].to
                           ELSE IF fromStart THEN 0 ELSE total[s]
  <1>1. TailInv /\ [TailNext]_allVars => [\A s \in Streams : Prints(s)]_allVars
    <2> SUFFICES ASSUME TailInv, [TailNext]_allVars, NEW s \in Streams,
                        shown'[s] # shown[s]
                 PROVE  shown'[s].from = Shown(s)
      BY DEF Shown
    <2>1. RecvMsg
      BY DEF TailNext, NoCall, StartStream, Command, RecvErr, TakeErr, TakeSignal,
         Accept, RefuseCall, Handler, HandlerStep, SendMsgOver, SendCodeOver, CtxCloses, Break, JobStep,
         Goroutines, allVars, tailVars, wireVars
    <2>2. /\ wire \in Seq(Outputs \cup {CodeMsg}) /\ wire # << >> /\ ~Gone
          /\ Head(wire) = wire[1] /\ 1 \in 1..Len(wire) /\ TailTypeOK
      BY <2>1 DEF RecvMsg, TailInv, TailTypeOK, WireInv
    <2>3. wire[1][1] = s /\ shown'[s] = wire[1][2]
      BY <2>1, <2>2 DEF RecvMsg, TailTypeOK
    <2>4. Chain(s)
      BY <2>2 DEF TailInv, WireInv
    <2>5. NoneAt(s, 1..(1 - 1))
      BY DEF NoneAt
    <2> QED
      BY <2>2, <2>3, <2>4, <2>5 DEF Chain
  <1> QED
    BY <1>1, TailInvariant, PTL DEF TailSpec, PrintsInOrder

=============================================================================
