------------------------------- MODULE Stream -------------------------------
(***************************************************************************)
(* The streaming RPC (workergrpc/service.go, StreamJobOutput): a handler,  *)
(* one streamOutput goroutine per requested stream, an unbuffered channel  *)
(* between them, and the client that receives what the handler sends.  The *)
(* job is the contract of JobContract.tla, which Runner.tla implements.    *)
(*                                                                         *)
(* The goroutine of stream s listens on a channel of its own, also named   *)
(* s.  A message is the range of bytes it carries.  The handler sends a    *)
(* message in the step after it took it from the channel.                  *)
(***************************************************************************)
EXTENDS JobContract

CONSTANTS
  Requests, \* the sets of streams a request may ask for (stream_limit)
  Chunk,    \* chunkSize: the most bytes of one read
  NoMsg

Messages == [past : BOOLEAN, from : 0..MaxOut, to : 0..MaxOut]

ASSUME StreamAssumption ==
  /\ Listeners = Streams
  /\ Requests \subseteq {Streams, {"stdout"}, {"stderr"}}
  /\ Chunk \in Nat \ {0}
  /\ NoMsg \notin Messages \cup (Streams \X Messages)

VARIABLES
  want,       \* streams requested; both unless the request limits them
  fromStart,  \* the request's from_beginning
  ctx,        \* has srv.Context() closed?
  handler,    \* "loop", "send", "final" or "ret"
  open,       \* streams whose error channel is not nil yet
  inHand,     \* the stream and the message the handler is about to send
  pc,         \* goroutine of each stream
  total,      \* its pastTotal
  offset,     \* its offset
  msg,        \* the message it offers
  failed,     \* did it end with an error?
  recv,       \* the last message the client was sent, per stream
  code        \* the exit code the client was sent

reqVars == <<want, fromStart>>
handlerVars == <<handler, open, inHand>>
goVars == <<pc, total, offset, msg, failed>>
clientVars == <<recv, code>>
vars == <<jobVars, reqVars, ctx, handlerVars, goVars, clientVars>>

Goroutine ==
  {"off", "total", "past", "sendPast", "listen", "read", "send",
   "sendLast", "wait", "remove", "end"}

TypeOK ==
  /\ JobTypeOK
  /\ want \subseteq Streams /\ fromStart \in BOOLEAN
  /\ ctx \in BOOLEAN
  /\ handler \in {"loop", "send", "final", "ret"}
  /\ open \subseteq want
  /\ inHand = NoMsg \/ inHand \in Streams \X Messages
  /\ pc \in [Streams -> Goroutine]
  /\ total \in [Streams -> 0..MaxOut]
  /\ offset \in [Streams -> 0..MaxOut]
  /\ msg \in [Streams -> Messages \cup {NoMsg}]
  /\ failed \in [Streams -> BOOLEAN]
  /\ recv \in [Streams -> Messages \cup {NoMsg}]
  /\ code \in ExitCodes \cup {NoCode}

\* The RPC may start at any moment of the job's life.
Init ==
  /\ out \in [Streams -> 0..MaxOut]
  /\ exitCode \in ExitCodes \cup {NoCode}
  /\ listeners = {}
  /\ chan = [l \in Listeners |-> << >>]
  /\ want \in Requests /\ fromStart \in BOOLEAN
  /\ ctx = FALSE
  /\ handler = "loop" /\ open = want /\ inHand = NoMsg
  /\ pc = [s \in Streams |-> IF s \in want THEN "total" ELSE "off"]
  /\ total = [s \in Streams |-> 0] /\ offset = [s \in Streams |-> 0]
  /\ msg = [s \in Streams |-> NoMsg]
  /\ failed = [s \in Streams |-> FALSE]
  /\ recv = [s \in Streams |-> NoMsg]
  /\ code = NoCode

Job ==
  /\ \/ \E s \in Streams, n \in 1..MaxOut : UpdateOutput(s, n)
     \/ \E c \in ExitCodes : MarkDone(c)
  /\ UNCHANGED <<reqVars, ctx, handlerVars, goVars, clientVars>>

\* Mutant: the size of the buffer is taken for the number of bytes read.
ReachWhole(s, limit) == offset[s] + Chunk

\* How far a read of at most room bytes from offset[s] gets below limit.
Reach(s, limit) ==
  IF limit - offset[s] < Chunk THEN limit ELSE offset[s] + Chunk
Range(s, past, to) == [past |-> past, from |-> offset[s], to |-> to]

-----------------------------------------------------------------------------
(* streamOutput. *)

\* The eager read with a nil slice.
ReadTotal(s) ==
  /\ pc[s] = "total"
  /\ total' = [total EXCEPT ![s] = out[s]]
  /\ pc' = [pc EXCEPT ![s] = IF fromStart /\ out[s] > 0 THEN "past" ELSE "listen"]
  /\ UNCHANGED <<offset, msg, failed>>
  /\ UNCHANGED <<jobVars, reqVars, ctx, handlerVars, clientVars>>

\* Mutant: a past chunk is not cut at the past total.
ReadPastWhole(s) ==
  /\ pc[s] = "past"
  /\ LET to == Reach(s, out[s]) IN
       /\ msg' = [msg EXCEPT ![s] = Range(s, TRUE, to)]
       /\ offset' = [offset EXCEPT ![s] = to]
  /\ pc' = [pc EXCEPT ![s] = "sendPast"]
  /\ UNCHANGED <<total, failed>>
  /\ UNCHANGED <<jobVars, reqVars, ctx, handlerVars, clientVars>>

\* One chunk of the past, never beyond the past total.
ReadPast(s) ==
  /\ pc[s] = "past"
  /\ LET to == Reach(s, total[s]) IN
       /\ msg' = [msg EXCEPT ![s] = Range(s, TRUE, to)]
       /\ offset' = [offset EXCEPT ![s] = to]
  /\ pc' = [pc EXCEPT ![s] = "sendPast"]
  /\ UNCHANGED <<total, failed>>
  /\ UNCHANGED <<jobVars, reqVars, ctx, handlerVars, clientVars>>

\* AddUpdateListener, then live output starts from the past total.
Listen(s) ==
  /\ pc[s] = "listen"
  /\ AddUpdateListener(s)
  /\ offset' = [offset EXCEPT ![s] = total[s]]
  /\ pc' = [pc EXCEPT ![s] = "read"]
  /\ UNCHANGED <<total, msg, failed>>
  /\ UNCHANGED <<reqVars, ctx, handlerVars, clientVars>>

\* One read of live output and, in the same critical section, the exit code.
ReadLive(s) ==
  /\ pc[s] = "read"
  /\ LET to == Reach(s, out[s]) IN
       /\ msg' = [msg EXCEPT ![s] =
                    IF to > offset[s] THEN Range(s, FALSE, to) ELSE NoMsg]
       /\ offset' = [offset EXCEPT ![s] = to]
       /\ pc' = [pc EXCEPT ![s] =
                   IF exitCode = NoCode
                     THEN IF to > offset[s] THEN "send" ELSE "wait"
                     ELSE IF to > offset[s] THEN "sendLast" ELSE "remove"]
  /\ UNCHANGED <<total, failed>>
  /\ UNCHANGED <<jobVars, reqVars, ctx, handlerVars, clientVars>>

Wait(s) ==
  /\ pc[s] = "wait"
  /\ Receive(s)
  /\ pc' = [pc EXCEPT ![s] = "read"]
  /\ UNCHANGED <<total, offset, msg, failed>>
  /\ UNCHANGED <<reqVars, ctx, handlerVars, clientVars>>

\* Mutant: a closed context ends the goroutine without an error.
LeaveQuietly(s) ==
  /\ pc[s] \in {"sendPast", "send", "sendLast", "wait"} /\ ctx
  /\ pc' = [pc EXCEPT ![s] = IF pc[s] = "sendPast" THEN "end" ELSE "remove"]
  /\ UNCHANGED <<failed, total, offset, msg>>
  /\ UNCHANGED <<jobVars, reqVars, ctx, handlerVars, clientVars>>

\* Mutant: sends are not bound by the context.
LeaveWait(s) ==
  /\ pc[s] = "wait" /\ ctx
  /\ pc' = [pc EXCEPT ![s] = "remove"]
  /\ failed' = [failed EXCEPT ![s] = TRUE]
  /\ UNCHANGED <<total, offset, msg>>
  /\ UNCHANGED <<jobVars, reqVars, ctx, handlerVars, clientVars>>

\* Every select also waits for the context.
Leave(s) ==
  /\ pc[s] \in {"sendPast", "send", "sendLast", "wait"} /\ ctx
  /\ pc' = [pc EXCEPT ![s] = IF pc[s] = "sendPast" THEN "end" ELSE "remove"]
  /\ failed' = [failed EXCEPT ![s] = TRUE]
  /\ UNCHANGED <<total, offset, msg>>
  /\ UNCHANGED <<jobVars, reqVars, ctx, handlerVars, clientVars>>

\* The deferred RemoveUpdateListener; the result fits the error channel.
Remove(s) ==
  /\ pc[s] = "remove"
  /\ RemoveUpdateListener(s)
  /\ pc' = [pc EXCEPT ![s] = "end"]
  /\ UNCHANGED <<total, offset, msg, failed>>
  /\ UNCHANGED <<reqVars, ctx, handlerVars, clientVars>>

-----------------------------------------------------------------------------
(* StreamJobOutput. *)

\* The rendezvous on responseCh, and where the goroutine goes on.
TakeMsg(s) ==
  /\ handler = "loop" /\ open # {}
  /\ pc[s] \in {"sendPast", "send", "sendLast"}
  /\ inHand' = <<s, msg[s]>>
  /\ handler' = "send"
  /\ msg' = [msg EXCEPT ![s] = NoMsg]
  /\ pc' = [pc EXCEPT ![s] =
              CASE @ = "send" -> "read"
                [] @ = "sendLast" -> "remove"
                [] OTHER -> IF offset[s] < total[s] THEN "past" ELSE "listen"]
  /\ UNCHANGED <<open, total, offset, failed>>
  /\ UNCHANGED <<jobVars, reqVars, ctx, clientVars>>

SendMsg ==
  /\ handler = "send"
  /\ recv' = [recv EXCEPT ![inHand[1]] = inHand[2]]
  /\ inHand' = NoMsg
  /\ handler' = "loop"
  /\ UNCHANGED <<open, code, jobVars, reqVars, ctx, goVars>>

\* srv.Send fails, or the select finds the context closed.
GiveUp ==
  /\ handler \in {"send", "final"} \/ (handler = "loop" /\ open # {} /\ ctx)
  /\ handler' = "ret"
  /\ inHand' = NoMsg
  /\ UNCHANGED <<open, jobVars, reqVars, ctx, goVars, clientVars>>

\* Mutant: one goroutine that ends stands for both.
TakeResultFirst(s) ==
  /\ handler = "loop" /\ s \in open /\ pc[s] = "end"
  /\ handler' = IF failed[s] THEN "ret" ELSE "final"
  /\ UNCHANGED <<open, inHand, jobVars, reqVars, ctx, goVars, clientVars>>

\* The result of a goroutine: an error ends the call.
TakeResult(s) ==
  /\ handler = "loop" /\ s \in open /\ pc[s] = "end"
  /\ IF failed[s]
       THEN handler' = "ret" /\ UNCHANGED open
       ELSE /\ open' = open \ {s}
            /\ handler' = IF open' = {} THEN "final" ELSE "loop"
  /\ UNCHANGED <<inHand, jobVars, reqVars, ctx, goVars, clientVars>>

\* The exit code, dereferenced, is the last message.
SendCode ==
  /\ handler = "final"
  /\ code' = exitCode
  /\ handler' = "ret"
  /\ UNCHANGED <<open, inHand, recv, jobVars, reqVars, ctx, goVars>>

\* The client goes away, or gRPC closes the context of a finished call.
Cancel ==
  /\ ~ctx
  /\ ctx' = TRUE
  /\ UNCHANGED <<jobVars, reqVars, handlerVars, goVars, clientVars>>

-----------------------------------------------------------------------------

Go(s) ==
  \/ ReadTotal(s) \/ ReadPast(s) \/ Listen(s) \/ ReadLive(s) \/ Wait(s)
  \/ Leave(s) \/ Remove(s)
Handle ==
  SendMsg \/ SendCode \/ \E s \in Streams : TakeMsg(s) \/ TakeResult(s)

Next == Job \/ Handle \/ GiveUp \/ Cancel \/ \E s \in Streams : Go(s)

Spec == Init /\ [][Next]_vars

-----------------------------------------------------------------------------
(* Properties. *)

\* What the client has of a stream is one gapless range of its bytes, in
\* order and without repetition, from the beginning or from what there was
\* when the RPC started; and the bytes there were then, no others, are past.
ContiguousSend(s, m) ==
  /\ m.from = IF recv[s] # NoMsg THEN recv[s].to
              ELSE IF fromStart THEN 0 ELSE total[s]
  /\ m.from < m.to /\ m.to <= out[s]
  /\ m.past <=> m.to <= total[s]

Contiguous ==
  [][handler = "send" /\ handler' = "loop" =>
       ContiguousSend(inHand[1], inHand[2])]_vars

\* "Exit code will always be present" when the handler dereferences it, and
\* nothing of what the goroutines read is left unsent by then.
CodeIsPresent ==
  handler = "final" =>
    /\ exitCode # NoCode
    /\ \A s \in want : recv[s] # NoMsg => recv[s].to = offset[s]

\* A goroutine that waits with an empty channel has read everything and the
\* job is not done: no update was missed between the read and the wait,
\* though sends to its channel are non-blocking.
NoLostUpdate ==
  \A s \in want :
    pc[s] = "wait" /\ chan[s] = << >> => offset[s] = out[s] /\ exitCode = NoCode

\* worker.proto:136-137: the exit code is sent "when the job has completed and
\* all output has been sent".
AllOutputBeforeCode ==
  code # NoCode => \A s \in want : offset[s] = out[s]

=============================================================================
