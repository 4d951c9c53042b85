----------------------------- MODULE ClientTail -----------------------------
(***************************************************************************)
(* The tail command (cmd/client.go, tailCmd) at the other end of the       *)
(* streaming RPC of Stream.tla: its main goroutine, the goroutine that     *)
(* receives and prints, and the connection in between, which holds a       *)
(* bounded number of messages and may break.  The call itself is only the  *)
(* sending of a request: that the service found no job, or found one and   *)
(* runs the handler of Stream.tla, is known at the other end.              *)
(***************************************************************************)
EXTENDS Stream

CONSTANT WireCap  \* messages sent and not yet received

ASSUME TailAssumption == WireCap \in Nat \ {0}

VARIABLES
  tail,     \* the command: "dial", "select" or "exit"
  result,   \* how it ended
  receiver, \* the goroutine: "recv", "nil", "error" (what it put on errCh)
  shown,    \* the last message printed, per stream
  wire,     \* messages on their way
  broken,   \* has the connection been lost?
  served    \* has the service found the job: "no" (not yet), "yes", "refused"

tailVars == <<tail, result, receiver, shown>>
wireVars == <<wire, broken>>
allVars == <<vars, tailVars, wireVars, served>>

CodeMsg == <<"code", NoMsg>>

TailInit ==
  /\ Init
  /\ tail = "dial" /\ result = "none"
  /\ receiver = "recv"
  /\ shown = [s \in Streams |-> NoMsg]
  /\ wire = << >> /\ broken = FALSE
  /\ served = "no"

\* From here on the handler runs.
Called == served = "yes"
Gone == broken \/ tail = "exit"

-----------------------------------------------------------------------------
(* The command. *)

\* Flags that exclude each other, no certificate or key, no connection: no
\* call is made.
NoCall ==
  /\ tail = "dial"
  /\ tail' = "exit" /\ result' = "nocall"
  /\ UNCHANGED <<vars, receiver, shown, wireVars, served>>

StartStream ==
  /\ tail = "dial"
  /\ tail' = "select"
  /\ UNCHANGED <<vars, result, receiver, shown, wireVars, served>>

\* Mutant: each message is printed by a goroutine of its own.
RecvAny ==
  /\ tail = "select" /\ receiver = "recv"
  /\ \E i \in 1..Len(wire) :
       /\ wire' = SubSeq(wire, 1, i - 1) \o SubSeq(wire, i + 1, Len(wire))
       /\ IF wire[i] = CodeMsg
            THEN receiver' = "nil" /\ UNCHANGED shown
            ELSE /\ shown' = [shown EXCEPT ![wire[i][1]] = wire[i][2]]
                 /\ UNCHANGED receiver
  /\ UNCHANGED <<vars, tail, result, broken, served>>

\* Recv returns what was sent first.
RecvMsg ==
  /\ tail = "select" /\ receiver = "recv" /\ wire # << >>
  /\ wire' = Tail(wire)
  /\ IF Head(wire) = CodeMsg
       THEN receiver' = "nil" /\ UNCHANGED shown
       ELSE /\ shown' = [shown EXCEPT ![Head(wire)[1]] = Head(wire)[2]]
            /\ UNCHANGED receiver
  /\ UNCHANGED <<vars, tail, result, broken, served>>

\* Recv fails once the call is over and all it sent was received, and if the
\* call was refused: it is here that the command learns of that.
RecvErr ==
  /\ tail = "select" /\ receiver = "recv"
  /\ broken \/ served = "refused" \/ (handler = "ret" /\ wire = << >>)
  /\ receiver' = "error"
  /\ UNCHANGED <<vars, tail, result, shown, wireVars, served>>

\* The select, and the deferred cancel and close of the connection.
TakeErr ==
  /\ tail = "select" /\ receiver # "recv"
  /\ tail' = "exit"
  /\ result' = IF receiver = "nil" THEN "complete" ELSE "error"
  /\ wire' = << >>
  /\ UNCHANGED <<vars, receiver, shown, broken, served>>

\* A signal reaches the select.
TakeSignal ==
  /\ tail = "select"
  /\ tail' = "exit" /\ result' = "signal"
  /\ wire' = << >>
  /\ UNCHANGED <<vars, receiver, shown, broken, served>>

-----------------------------------------------------------------------------
(* The connection, and the handler at its other end. *)

Break ==
  /\ ~broken
  /\ broken' = TRUE /\ wire' = << >>
  /\ UNCHANGED <<vars, tailVars, served>>

\* The handler looks up the job, if the lock of the worker ever lets it in ...
Accept ==
  /\ tail # "dial" /\ served = "no"
  /\ served' = "yes"
  /\ UNCHANGED <<vars, tailVars, wireVars>>

\* ... or returns at once: no ID, no certificate, no such job, or a worker
\* that is shut down.
RefuseCall ==
  /\ tail # "dial" /\ served = "no"
  /\ served' = "refused"
  /\ UNCHANGED <<vars, tailVars, wireVars>>

\* Sends wait for room.
SendMsgOver ==
  /\ ~Gone /\ Len(wire) < WireCap
  /\ SendMsg
  /\ wire' = Append(wire, inHand)
  /\ UNCHANGED <<tailVars, broken, served>>

SendCodeOver ==
  /\ ~Gone /\ Len(wire) < WireCap
  /\ SendCode
  /\ wire' = Append(wire, CodeMsg)
  /\ UNCHANGED <<tailVars, broken, served>>

HandlerStep ==
  \/ SendMsgOver \/ SendCodeOver
  \/ /\ \/ \E s \in Streams : TakeMsg(s) \/ TakeResult(s)
        \/ (ctx \/ Gone) /\ GiveUp
     /\ UNCHANGED <<tailVars, wireVars, served>>

\* Mutant: the call has a deadline.
CtxClosesEarly ==
  /\ Called
  /\ Cancel
  /\ UNCHANGED <<tailVars, wireVars, served>>

\* gRPC closes the context of a call that is over, at either end.
CtxCloses ==
  /\ Called /\ (handler = "ret" \/ Gone)
  /\ Cancel
  /\ UNCHANGED <<tailVars, wireVars, served>>

Command == RecvMsg \/ RecvErr \/ TakeErr
Handler == Called /\ HandlerStep
Goroutines(s) == Called /\ Go(s) /\ UNCHANGED <<tailVars, wireVars, served>>
JobStep == Job /\ UNCHANGED <<tailVars, wireVars, served>>

TailNext ==
  \/ NoCall \/ StartStream \/ Command \/ TakeSignal
  \/ Accept \/ RefuseCall \/ Handler \/ CtxCloses \/ Break \/ JobStep
  \/ \E s \in Streams : Goroutines(s)

TailSpec == TailInit /\ [][TailNext]_allVars

\* Goroutines run at both ends, and the end of a call gets through.  Signals,
\* connections, jobs and the lookup of the job do as they please.
TailFairness ==
  /\ \A s \in Streams : WF_allVars(Goroutines(s))
  /\ WF_allVars(Handler)
  /\ WF_allVars(CtxCloses)
  /\ WF_allVars(RecvMsg \/ RecvErr)
  /\ WF_allVars(TakeErr)

FairTailSpec == TailSpec /\ TailFairness

-----------------------------------------------------------------------------
(* Properties. *)

\* What is printed of a stream is one gapless range of its bytes in order,
\* from where the command was asked to start (client.go:218-231).
PrintsInOrder ==
  [][\A s \in Streams : shown'[s] # shown[s] =>
       shown'[s].from = IF shown[s] # NoMsg THEN shown[s].to
                        ELSE IF fromStart THEN 0 ELSE total[s]]_allVars

\* A command that ends because the job completed has printed everything the
\* server read of the job (client.go:232-246).
CompleteMeansPrinted ==
  result = "complete" =>
    /\ exitCode # NoCode
    /\ \A s \in want :
         offset[s] = IF shown[s] # NoMsg THEN shown[s].to
                     ELSE IF fromStart THEN 0 ELSE total[s]

\* A tail that ends with "reading stream: ..." (client.go:240-244) lost its
\* connection, or was refused before anything was printed: once the handler
\* has the job, nothing it and its goroutines do among themselves ends the
\* stream early.
ErrorHasCause ==
  result = "error" =>
    broken \/ (served = "refused" /\ \A s \in Streams : shown[s] = NoMsg)

\* The command ends when the job has, the call is refused or the connection
\* breaks, whatever waits for whom on the way from the job to the console.
TailEnds ==
  LET over == \/ Called /\ exitCode # NoCode
              \/ tail = "select" /\ (broken \/ served = "refused")
  IN  over ~> (tail = "exit")

\* However the command ends, the server is left with no goroutine, listener
\* or handler of its call.
ServerLetsGo ==
  (Called /\ tail = "exit") ~>
    (handler = "ret" /\ listeners = {} /\ \A s \in want : pc[s] = "end")

=============================================================================
