------------------------------- MODULE Worker -------------------------------
(***************************************************************************)
(* The worker (worker/worker.go): SubmitJob, GetJob and Shutdown called    *)
(* concurrently, the two read-write locks and the map of jobs.             *)
(*                                                                         *)
(* Every element of Calls is one goroutine that makes one call.  A job is  *)
(* named by the call that started it; Runner.tla has the life of a job in  *)
(* detail, here it runs and then is done.                                  *)
(*                                                                         *)
(* shutdownLock is Go's RWMutex: a writer first announces itself, which    *)
(* keeps new readers out, then waits until every read lock taken before    *)
(* was given back.  The sections under jobsLock never block: each is one   *)
(* step.                                                                   *)
(***************************************************************************)
EXTENDS Integers

CONSTANTS
  Calls,       \* goroutines, one call each
  Kinds,       \* the methods they call: "submit", "get", "shutdown"
  Namespaces,
  Ids,         \* job IDs
  Uuids,       \* the IDs among them that uuid.New may generate
  NoId,        \* the empty ID
  HasLimits,   \* Worker.hasLimits
  Nil,         \* nil: the placeholder in the map, or no job
  Absent,      \* no entry in the map
  NoCall

ASSUME WorkerAssumption ==
  /\ Kinds \subseteq {"submit", "get", "shutdown"}
  /\ Uuids \subseteq Ids /\ NoId \notin Ids
  /\ HasLimits \in BOOLEAN
  /\ Nil \notin Calls /\ Absent \notin Calls /\ NoCall \notin Calls
  /\ Nil # Absent

VARIABLES
  pc,          \* where each call is
  key,         \* namespace and ID of the call
  ret,         \* what the call returned
  got,         \* the job GetJob returned
  seen,        \* submissions that had returned when GetJob was called
  readLocks,   \* shutdownLock: read locks each call has taken and not released
  writer,      \* shutdownLock: the call that announced itself as writer
  shutdown,    \* Worker.shutdown
  jobs,        \* Worker.jobs, both levels
  spaces,      \* namespaces that have an inner map
  taken,       \* jobs Shutdown took; w.jobs is nil from then on
  mapNil,      \* is w.jobs nil?
  run,         \* each job: "none", "running" or "done"
  stopper,     \* Shutdown's goroutine per job: "none", "ask", "wait", "end"
  wgDone,      \* is Shutdown's wgDone channel closed?
  ctxDone,     \* has the context given to Shutdown closed?
  panicked     \* nil dereference or assignment to a nil map

callVars == <<pc, key, ret, got, seen, ctxDone>>
lockVars == <<readLocks, writer, shutdown>>
mapVars == <<jobs, spaces, taken, mapNil>>
stopVars == <<stopper, wgDone>>
vars == <<callVars, lockVars, mapVars, run, stopVars, panicked>>

Keys == Namespaces \X Ids
Submitting == {"reserve", "start", "discard", "publish"}
Places == Submitting \cup
  {"idle", "submit", "get", "read", "unlock",
   "shutdown", "mark", "take", "select", "recheck", "ret"}
Results == {"none", "ok", "job", "nil", "error", "context", "ErrShutdown",
            "ErrIDAlreadyExists"}
Called == {c \in Calls : pc[c] # "idle"}

TypeOK ==
  /\ pc \in [Calls -> Places]
  /\ key \in [Calls -> Namespaces \X (Ids \cup {NoId})]
  /\ ret \in [Calls -> Results]
  /\ got \in [Calls -> Calls \cup {Nil}]
  /\ seen \in [Calls -> SUBSET Calls]
  /\ readLocks \in [Calls -> 0..2]
  /\ writer \in Calls \cup {NoCall}
  /\ shutdown \in BOOLEAN
  /\ jobs \in [Keys -> Calls \cup {Nil, Absent}]
  /\ spaces \subseteq Namespaces
  /\ taken \subseteq Calls
  /\ mapNil \in BOOLEAN
  /\ run \in [Calls -> {"none", "running", "done"}]
  /\ stopper \in [Calls -> {"none", "ask", "wait", "end"}]
  /\ wgDone \in BOOLEAN
  /\ ctxDone \in BOOLEAN
  /\ panicked \in BOOLEAN

\* New.
Init ==
  /\ pc = [c \in Calls |-> "idle"]
  /\ key \in [Calls -> Namespaces \X (Ids \cup {NoId})]
  /\ ret = [c \in Calls |-> "none"]
  /\ got = [c \in Calls |-> Nil]
  /\ seen = [c \in Calls |-> {}]
  /\ readLocks = [c \in Calls |-> 0]
  /\ writer = NoCall
  /\ shutdown = FALSE
  /\ jobs = [k \in Keys |-> Absent]
  /\ spaces = {}
  /\ taken = {}
  /\ mapNil = FALSE
  /\ run = [c \in Calls |-> "none"]
  /\ stopper = [c \in Calls |-> "none"]
  /\ wgDone = FALSE
  /\ ctxDone = FALSE
  /\ panicked = FALSE

Goto(c, l) == pc' = [pc EXCEPT ![c] = l]
Return(c, r) == Goto(c, "ret") /\ ret' = [ret EXCEPT ![c] = r]
RLock(c) ==
  writer = NoCall /\ readLocks' = [readLocks EXCEPT ![c] = @ + 1]
RUnlock(c) == readLocks' = [readLocks EXCEPT ![c] = @ - 1]

\* A goroutine makes its call.  (The gRPC service refuses to get job "".)
Call(c, kind) ==
  /\ pc[c] = "idle"
  /\ kind = "get" => key[c] \in Keys
  /\ Goto(c, kind)
  /\ seen' = [seen EXCEPT ![c] = {j \in Calls : kind = "get" /\ ret[j] = "ok"}]
  /\ UNCHANGED <<key, ret, got, ctxDone>>
  /\ UNCHANGED <<lockVars, mapVars, run, stopVars, panicked>>

-----------------------------------------------------------------------------
(* SubmitJob. *)

\* An empty ID is replaced by one nobody has used.
MakeId(c) ==
  IF key[c][2] # NoId
    THEN UNCHANGED key
    ELSE \E i \in Uuids \ {key[d][2] : d \in Called} :
           key' = [key EXCEPT ![c] = <<key[c][1], i>>]

\* Mutant: the read lock is given back right after the check.
SubmitEnterUnlocked(c) ==
  /\ pc[c] = "submit"
  /\ writer = NoCall
  /\ \/ /\ shutdown
        /\ Return(c, "ErrShutdown")
        /\ UNCHANGED key
     \/ /\ ~shutdown
        /\ Goto(c, "reserve")
        /\ MakeId(c)
        /\ UNCHANGED ret
  /\ UNCHANGED <<got, seen, ctxDone>>
  /\ UNCHANGED <<lockVars, mapVars, run, stopVars, panicked>>

\* The read lock is taken for the life of the call.  (An early return gives
\* it back in the same step.)
SubmitEnter(c) ==
  /\ pc[c] = "submit"
  /\ \/ /\ shutdown /\ writer = NoCall
        /\ Return(c, "ErrShutdown")
        /\ UNCHANGED <<key, readLocks>>
     \/ /\ ~shutdown
        /\ RLock(c)
        /\ Goto(c, "reserve")
        /\ MakeId(c)
        /\ UNCHANGED ret
  /\ UNCHANGED <<got, seen, ctxDone, writer, shutdown>>
  /\ UNCHANGED <<mapVars, run, stopVars, panicked>>

\* Mutant: the deferred removal also covers an ID that already exists.
SubmitReserveDefer(c) ==
  /\ pc[c] = "reserve"
  /\ Goto(c, IF jobs[key[c]] # Absent THEN "discard" ELSE "start")
  /\ jobs' = [jobs EXCEPT ![key[c]] = IF @ = Absent THEN Nil ELSE @]
  /\ spaces' = spaces \cup {key[c][1]}
  /\ panicked' = (panicked \/ mapNil)
  /\ UNCHANGED <<key, ret, got, seen, ctxDone, lockVars, taken, mapNil>>
  /\ UNCHANGED <<run, stopVars>>

\* Holds the ID with nil, or fails.
SubmitReserve(c) ==
  /\ pc[c] = "reserve"
  /\ \/ /\ jobs[key[c]] # Absent
        /\ Return(c, "ErrIDAlreadyExists")
        /\ RUnlock(c)
        /\ UNCHANGED <<jobs, spaces, panicked>>
     \/ /\ jobs[key[c]] = Absent
        /\ jobs' = [jobs EXCEPT ![key[c]] = Nil]
        /\ spaces' = spaces \cup {key[c][1]}
        /\ panicked' = (panicked \/ mapNil)
        /\ Goto(c, "start")
        /\ UNCHANGED <<ret, readLocks>>
  /\ UNCHANGED <<key, got, seen, ctxDone, writer, shutdown>>
  /\ UNCHANGED <<taken, mapNil, run, stopVars>>

\* Options, the check of RootFS, and runner.start, which may fail.
SubmitStart(c, root) ==
  /\ pc[c] = "start"
  /\ \/ /\ root => HasLimits
        /\ run' = [run EXCEPT ![c] = "running"]
        /\ Goto(c, "publish")
     \/ Goto(c, "discard") /\ UNCHANGED run
  /\ UNCHANGED <<key, ret, got, seen, ctxDone>>
  /\ UNCHANGED <<lockVars, mapVars, stopVars, panicked>>

\* Mutant: a failed submission keeps its placeholder.
SubmitDiscardNothing(c) ==
  /\ pc[c] = "discard"
  /\ RUnlock(c)
  /\ Return(c, "error")
  /\ UNCHANGED <<key, got, seen, ctxDone, writer, shutdown>>
  /\ UNCHANGED <<mapVars, run, stopVars, panicked>>

\* Mutant: the read lock is not given back on failure.
SubmitDiscardLocked(c) ==
  /\ pc[c] = "discard"
  /\ jobs' = [jobs EXCEPT ![key[c]] = Absent]
  /\ Return(c, "error")
  /\ UNCHANGED <<key, got, seen, ctxDone, lockVars>>
  /\ UNCHANGED <<spaces, taken, mapNil, run, stopVars, panicked>>

\* The deferred removal of the ID, then the deferred RUnlock.
SubmitDiscard(c) ==
  /\ pc[c] = "discard"
  /\ jobs' = [jobs EXCEPT ![key[c]] = Absent]
  /\ RUnlock(c)
  /\ Return(c, "error")
  /\ UNCHANGED <<key, got, seen, ctxDone, writer, shutdown>>
  /\ UNCHANGED <<spaces, taken, mapNil, run, stopVars, panicked>>

\* Mutant: success is not recorded, so the deferred removal undoes the entry.
SubmitPublishUndone(c) ==
  /\ pc[c] = "publish"
  /\ jobs' = [jobs EXCEPT ![key[c]] = Absent]
  /\ panicked' = (panicked \/ mapNil)
  /\ RUnlock(c)
  /\ Return(c, "ok")
  /\ UNCHANGED <<key, got, seen, ctxDone, writer, shutdown>>
  /\ UNCHANGED <<spaces, taken, mapNil, run, stopVars>>

SubmitPublish(c) ==
  /\ pc[c] = "publish"
  /\ jobs' = [jobs EXCEPT ![key[c]] = c]
  /\ panicked' = (panicked \/ mapNil)
  /\ RUnlock(c)
  /\ Return(c, "ok")
  /\ UNCHANGED <<key, got, seen, ctxDone, writer, shutdown>>
  /\ UNCHANGED <<spaces, taken, mapNil, run, stopVars>>

-----------------------------------------------------------------------------
(* GetJob. *)

GetEnter(c) ==
  /\ pc[c] = "get"
  /\ RLock(c)
  /\ IF shutdown
       THEN Goto(c, "unlock") /\ ret' = [ret EXCEPT ![c] = "ErrShutdown"]
       ELSE Goto(c, "read") /\ UNCHANGED ret
  /\ UNCHANGED <<key, got, seen, ctxDone, writer, shutdown>>
  /\ UNCHANGED <<mapVars, run, stopVars, panicked>>

GetRead(c) ==
  /\ pc[c] = "read"
  /\ LET entry == jobs[key[c]] IN
       got' = [got EXCEPT ![c] = IF entry = Absent THEN Nil ELSE entry]
  /\ ret' = [ret EXCEPT ![c] = "job"]
  /\ Goto(c, "unlock")
  /\ UNCHANGED <<key, seen, ctxDone>>
  /\ UNCHANGED <<lockVars, mapVars, run, stopVars, panicked>>

\* The deferred call is RLock, so the call leaves with two read locks.
GetUnlock(c) ==
  /\ pc[c] = "unlock"
  /\ RLock(c)
  /\ Goto(c, "ret")
  /\ UNCHANGED <<key, ret, got, seen, ctxDone, writer, shutdown>>
  /\ UNCHANGED <<mapVars, run, stopVars, panicked>>

-----------------------------------------------------------------------------
(* Shutdown, and the goroutines it starts to stop the jobs. *)

\* shutdownLock.Lock, first half: no reader gets in from here on.
ShutAnnounce(c) ==
  /\ pc[c] = "shutdown"
  /\ writer = NoCall
  /\ writer' = c
  /\ Goto(c, "mark")
  /\ UNCHANGED <<key, ret, got, seen, ctxDone, readLocks, shutdown>>
  /\ UNCHANGED <<mapVars, run, stopVars, panicked>>

\* The lock is had, the worker marked as shut down, the lock given back.
ShutMark(c) ==
  /\ pc[c] = "mark"
  /\ \A d \in Calls : readLocks[d] = 0
  /\ shutdown' = TRUE
  /\ writer' = NoCall
  /\ IF shutdown THEN Return(c, "ErrShutdown")
                 ELSE Goto(c, "take") /\ UNCHANGED ret
  /\ UNCHANGED <<key, got, seen, ctxDone, readLocks>>
  /\ UNCHANGED <<mapVars, run, stopVars, panicked>>

\* Mutant: Shutdown does not wait for the goroutines it starts.
ShutTakeAndReturn(c) ==
  /\ pc[c] = "take"
  /\ taken' = {jobs[k] : k \in Keys} \ {Absent, Nil}
  /\ stopper' = [j \in Calls |-> IF j \in taken' THEN "ask" ELSE "none"]
  /\ jobs' = [k \in Keys |-> Absent]
  /\ mapNil' = TRUE
  /\ Return(c, "nil")
  /\ UNCHANGED <<key, got, seen, ctxDone, lockVars, spaces, run, wgDone>>
  /\ UNCHANGED panicked

\* Takes the map, sets w.jobs to nil and starts a goroutine per job.
ShutTake(c) ==
  /\ pc[c] = "take"
  /\ LET entries == {jobs[k] : k \in Keys} \ {Absent} IN
       /\ taken' = entries \ {Nil}
       /\ panicked' = (panicked \/ Nil \in entries)
       /\ stopper' = [j \in Calls |-> IF j \in entries THEN "ask" ELSE "none"]
  /\ jobs' = [k \in Keys |-> Absent]
  /\ mapNil' = TRUE
  /\ IF spaces = {} THEN Return(c, "nil")
                    ELSE Goto(c, "select") /\ UNCHANGED ret
  /\ UNCHANGED <<key, got, seen, ctxDone, lockVars, spaces, run, wgDone>>

\* Job.Stop in the goroutine of job j: the request ...
StopAsk(j) ==
  /\ stopper[j] = "ask"
  /\ stopper' = [stopper EXCEPT ![j] = "wait"]
  /\ UNCHANGED <<callVars, lockVars, mapVars, run, wgDone, panicked>>

\* ... and the wait for the job or for Shutdown's context.
StopReturn(j) ==
  /\ stopper[j] = "wait"
  /\ run[j] = "done" \/ ctxDone
  /\ stopper' = [stopper EXCEPT ![j] = "end"]
  /\ UNCHANGED <<callVars, lockVars, mapVars, run, wgDone, panicked>>

\* Mutant: a goroutine adds itself to the group when it runs.
CloseWgDoneRace ==
  /\ mapNil /\ ~wgDone
  /\ \A j \in Calls : stopper[j] # "wait"
  /\ wgDone' = TRUE
  /\ UNCHANGED <<callVars, lockVars, mapVars, run, stopper, panicked>>

\* The goroutine that waits for the group and closes wgDone.
CloseWgDone ==
  /\ mapNil /\ ~wgDone
  /\ \A j \in Calls : stopper[j] \in {"none", "end"}
  /\ wgDone' = TRUE
  /\ UNCHANGED <<callVars, lockVars, mapVars, run, stopper, panicked>>

\* Mutant: Shutdown waits for the jobs alone, not for its context.
ShutSelectDone(c) ==
  /\ pc[c] = "select"
  /\ \A j \in taken : run[j] = "done"
  /\ Goto(c, "recheck")
  /\ UNCHANGED <<key, ret, got, seen, ctxDone>>
  /\ UNCHANGED <<lockVars, mapVars, run, stopVars, panicked>>

ShutSelect(c) ==
  /\ pc[c] = "select"
  /\ ctxDone \/ wgDone
  /\ Goto(c, "recheck")
  /\ UNCHANGED <<key, ret, got, seen, ctxDone>>
  /\ UNCHANGED <<lockVars, mapVars, run, stopVars, panicked>>

\* The second, non-blocking select.
ShutRecheck(c) ==
  /\ pc[c] = "recheck"
  /\ Return(c, IF wgDone THEN "nil" ELSE "context")
  /\ UNCHANGED <<key, got, seen, ctxDone>>
  /\ UNCHANGED <<lockVars, mapVars, run, stopVars, panicked>>

-----------------------------------------------------------------------------

JobEnds(j) ==
  /\ run[j] = "running"
  /\ run' = [run EXCEPT ![j] = "done"]
  /\ UNCHANGED <<callVars, lockVars, mapVars, stopVars, panicked>>

CtxExpire ==
  /\ ~ctxDone
  /\ ctxDone' = TRUE
  /\ UNCHANGED <<pc, key, ret, got, seen, lockVars, mapVars, run, stopVars>>
  /\ UNCHANGED panicked

Submit(c) ==
  \/ SubmitEnter(c) \/ SubmitReserve(c)
  \/ \E root \in BOOLEAN : SubmitStart(c, root)
  \/ SubmitDiscard(c) \/ SubmitPublish(c)
Get(c) == GetEnter(c) \/ GetRead(c) \/ GetUnlock(c)
Shut(c) ==
  \/ ShutAnnounce(c) \/ ShutMark(c) \/ ShutTake(c)
  \/ ShutSelect(c) \/ ShutRecheck(c)
Stopping(j) == StopAsk(j) \/ StopReturn(j)

Next ==
  \/ \E c \in Calls :
       \/ \E kind \in Kinds : Call(c, kind)
       \/ Submit(c) \/ Get(c) \/ Shut(c)
       \/ Stopping(c) \/ JobEnds(c)
  \/ CloseWgDone
  \/ CtxExpire

Spec == Init /\ [][Next]_vars

\* Goroutines run, and the contexts given to Shutdown have a deadline
\* (cmd/server.go).  Jobs need not end.
Fairness ==
  /\ \A c \in Calls :
       WF_vars(Submit(c)) /\ WF_vars(Get(c)) /\ WF_vars(Shut(c))
  /\ \A j \in Calls : WF_vars(Stopping(j))
  /\ WF_vars(CloseWgDone)
  /\ WF_vars(CtxExpire)

FairSpec == Spec /\ Fairness

-----------------------------------------------------------------------------
(* Properties. *)

\* No call dereferences the nil placeholder of a submission under way, nor
\* writes into the nil map Shutdown leaves behind (worker.go:112-122, 147-150,
\* 171-190): what locking shutdown "for life of the submission" is for.
NoPanic == ~panicked

\* A job that was started is never out of Shutdown's sight: when the map is
\* taken, the jobs in it are all there are, and no other is started later.
NoJobEscapesShutdown ==
  mapNil => \A c \in Calls : run[c] # "none" => c \in taken

\* Until Shutdown takes the map a submission that succeeded stays listed
\* under its ID, whatever other submissions of that ID failed meanwhile.
SubmittedStaysListed ==
  \A c \in Calls : ret[c] = "ok" /\ ~mapNil => jobs[key[c]] = c

\* GetJob finds every job whose submission had returned when it was called.
GetFindsSubmitted ==
  \A c \in Calls : ret[c] = "job" =>
    \A j \in seen[c] : key[j] = key[c] => got[c] = j

\* An ID is held without a job only while a submission is deciding about it:
\* no failure leaves it taken for ever.
PlaceholdersAreTemporary ==
  \A k \in Keys : jobs[k] = Nil =>
    \E c \in Calls : key[c] = k /\ pc[c] \in {"start", "discard", "publish"}

\* Every call takes effect at once, while it runs, on one registry of jobs: the
\* two locks and the placeholder make the interleaved steps of submissions,
\* lookups and shutdowns indistinguishable from whole ones.  An ID is held from
\* the placeholder on; what Shutdown is handed is fixed when it marks the
\* worker, though it takes the map later.
Deciding == {"start", "discard", "publish"}   \* submissions that hold an ID
Holders == [k \in Keys |-> {c \in Calls : pc[c] \in Deciding /\ key[c] = k}]
Listed == [k \in Keys |->
             IF shutdown \/ jobs[k] = Absent THEN Nil ELSE jobs[k]]
Handed ==
  IF mapNil THEN taken
  ELSE IF shutdown THEN {jobs[k] : k \in Keys} \ {Absent, Nil} ELSE {}
Answers ==
  [c \in Calls |->
     IF pc[c] = "idle" THEN "idle"
     ELSE IF pc[c] \in Deciding THEN "held"
     ELSE IF ret[c] \in {"none", "nil", "context"} THEN "called"
     ELSE ret[c]]

Reg == INSTANCE Registry WITH
  Earlier <- {}, None <- Nil, held <- Holders, job <- Listed, shut <- shutdown,
  handed <- Handed, answer <- Answers, found <- got

ImplementsRegistry == Reg!Spec

\* worker.go:155-156: Shutdown waits for the jobs "or context to close".
ShutdownReturns ==
  \A c \in Calls : (pc[c] = "mark" /\ ctxDone) ~> (pc[c] = "ret")

=============================================================================
