---------------------------- MODULE WorkerProofs ----------------------------
(***************************************************************************)
(* The inductive invariant of Worker.tla and the safety properties that    *)
(* follow from it, for any number of calls, namespaces and IDs.            *)
(***************************************************************************)
EXTENDS Worker, TLAPS

Reading == Submitting \cup {"read"}           \* calls that rely on the lock
Finishing == {"take", "select", "recheck"}    \* the Shutdown that does the work

\* shutdownLock: who holds it, and what being shut down excludes.
LockInv ==
  /\ \A c \in Calls :
       /\ pc[c] \in Reading \cup {"unlock"} => readLocks[c] = 1
       /\ pc[c] \notin Reading \cup {"unlock", "ret"} => readLocks[c] = 0
       /\ pc[c] \in Reading => ~shutdown
       /\ pc[c] \in Finishing => shutdown
       /\ pc[c] = "take" => ~mapNil
  /\ \A c, d \in Calls : pc[c] = "take" /\ pc[d] = "take" => c = d
  /\ mapNil => shutdown

\* What a call has is known from where it is.
CallInv ==
  \A c \in Calls :
    /\ ret[c] # "none" => pc[c] \in {"unlock", "ret"}
    /\ ret[c] = "ok" => pc[c] = "ret"
    /\ pc[c] \in Reading \ {"read"} \/ ret[c] = "ok" => key[c] \in Keys
    /\ pc[c] \in {"get", "read"} => key[c] \in Keys
    /\ run[c] # "none" => pc[c] = "publish" \/ ret[c] = "ok"

\* The entries of the map and the submissions they belong to.
MapInv ==
  /\ PlaceholdersAreTemporary
  /\ \A c \in Calls : pc[c] \in Deciding => jobs[key[c]] = Nil
  /\ \A c, d \in Calls :
       pc[c] \in Deciding /\ pc[d] \in Deciding /\ key[c] = key[d] => c = d
  /\ SubmittedStaysListed
  /\ mapNil => \A c \in Calls : ret[c] = "ok" => c \in taken

\* What GetJob promises, and that a success is never taken back.
GetInv ==
  /\ \A c \in Calls : \A j \in seen[c] : ret[j] = "ok"
  /\ GetFindsSubmitted

IInv == TypeOK /\ LockInv /\ CallInv /\ MapInv /\ GetInv /\ NoPanic

-----------------------------------------------------------------------------

\* The steps of jobs, of the goroutines that stop them and of contexts leave
\* everything the invariant speaks of as it is.
Quiet ==
  \/ \E j \in Calls : Stopping(j) \/ JobEnds(j)
  \/ CloseWgDone
  \/ CtxExpire
  \/ UNCHANGED vars

\* The steps that take no lock and do not touch the map keep the invariant.
LEMMA QuietStep ==
  ASSUME TypeOK, Quiet
  PROVE  /\ UNCHANGED <<pc, key, ret, got, seen, lockVars, mapVars, panicked>>
         /\ \A c \in Calls : run'[c] # "none" => run[c] # "none"
  BY DEF Quiet, Stopping, StopAsk, StopReturn, JobEnds, CloseWgDone, CtxExpire,
     vars, callVars, stopVars, TypeOK

\* A new worker satisfies the invariant.
LEMMA InitInv == Init => IInv
  <1> SUFFICES ASSUME Init PROVE IInv
    OBVIOUS
  <1> USE WorkerAssumption DEF Init
  <1>1. TypeOK
    <2>1. 0 \in 0..2
      OBVIOUS
    <2> QED
      BY <2>1 DEF TypeOK, Places, Results
  <1>2. LockInv
    BY DEF LockInv, Reading, Submitting, Finishing
  <1>3. CallInv
    BY DEF CallInv, Reading, Submitting
  <1>4. MapInv
    BY DEF MapInv, Deciding, PlaceholdersAreTemporary, SubmittedStaysListed
  <1>5. GetInv /\ NoPanic
    BY DEF GetInv, GetFindsSubmitted, NoPanic
  <1> QED
    BY <1>1, <1>2, <1>3, <1>4, <1>5 DEF IInv

\* The lock discipline is kept by every step.
LEMMA StepLock == ASSUME IInv, [Next]_vars PROVE LockInv'
  <1> USE DEF Goto, Return, RLock, RUnlock, Reading, Submitting, Finishing
  <1>a. TypeOK /\ LockInv
    BY DEF IInv
  <1>b. pc \in [Calls -> Places] /\ readLocks \in [Calls -> 0..2]
    BY <1>a DEF TypeOK
  <1>1. ASSUME NEW c \in Calls, NEW kind \in Kinds, Call(c, kind)
        PROVE  LockInv'
    BY <1>1, <1>a, <1>b, WorkerAssumption DEF Call, LockInv, lockVars, mapVars
  <1>2. ASSUME NEW c \in Calls, SubmitEnter(c) PROVE LockInv'
    BY <1>2, <1>a, <1>b DEF SubmitEnter, LockInv, mapVars
  <1>3. ASSUME NEW c \in Calls, SubmitReserve(c) PROVE LockInv'
    BY <1>3, <1>a, <1>b DEF SubmitReserve, LockInv
  <1>4. ASSUME NEW c \in Calls, NEW root \in BOOLEAN, SubmitStart(c, root)
        PROVE  LockInv'
    BY <1>4, <1>a, <1>b DEF SubmitStart, LockInv, lockVars, mapVars
  <1>5. ASSUME NEW c \in Calls, SubmitDiscard(c) \/ SubmitPublish(c)
        PROVE  LockInv'
    <2>1. /\ pc[c] \in Submitting
          /\ pc' = [pc EXCEPT ![c] = "ret"]
          /\ readLocks' = [readLocks EXCEPT ![c] = @ - 1]
          /\ UNCHANGED <<shutdown, mapNil>>
      BY <1>5 DEF SubmitDiscard, SubmitPublish
    <2> QED
      BY <2>1, <1>a, <1>b DEF LockInv
  <1>6. ASSUME NEW c \in Calls, Get(c) PROVE LockInv'
    BY <1>6, <1>a, <1>b DEF Get, GetEnter, GetRead, GetUnlock, LockInv,
       lockVars, mapVars
  <1>7. ASSUME NEW c \in Calls, ShutMark(c) PROVE LockInv'
    <2>1. \A d \in Calls : pc[d] \notin Reading \cup {"unlock"}
      BY <1>7, <1>a, <1>b DEF ShutMark, LockInv
    <2> QED
      BY <2>1, <1>7, <1>a, <1>b DEF ShutMark, LockInv, mapVars
  <1>8. ASSUME NEW c \in Calls,
               ShutAnnounce(c) \/ ShutTake(c) \/ ShutSelect(c) \/ ShutRecheck(c)
        PROVE  LockInv'
    <2>1. CASE ShutAnnounce(c)
      BY <2>1, <1>a, <1>b DEF ShutAnnounce, LockInv, mapVars
    <2>2. CASE ShutTake(c)
      BY <2>2, <1>a, <1>b DEF ShutTake, LockInv, lockVars
    <2>3. CASE ShutSelect(c) \/ ShutRecheck(c)
      BY <2>3, <1>a, <1>b DEF ShutSelect, ShutRecheck, LockInv, lockVars,
         mapVars
    <2> QED
      BY <2>1, <2>2, <2>3, <1>8
  <1>9. CASE Quiet
    BY <1>9, <1>a, QuietStep DEF LockInv, lockVars, mapVars
  <1> QED
    BY <1>1, <1>2, <1>3, <1>4, <1>5, <1>6, <1>7, <1>8, <1>9
    DEF Next, Submit, Shut, Quiet

\* Every step keeps the variables in their types; that a read lock is never
\* released twice or taken a third time rests on LockInv.
LEMMA StepType == ASSUME IInv, [Next]_vars PROVE TypeOK'
  <1> USE DEF Goto, Return, RLock, RUnlock, Results
  <1>a. TypeOK
    BY DEF IInv
  <1>b. \A c \in Calls :
          /\ pc[c] \in {"submit", "get"} => readLocks[c] = 0
          /\ pc[c] \in Submitting \cup {"unlock"} => readLocks[c] = 1
          /\ pc[c] \in Submitting \ {"start"} => key[c] \in Keys
          /\ pc[c] \in {"get", "read"} => key[c] \in Keys
    BY DEF IInv, LockInv, CallInv, Reading, Submitting
  <1>1. ASSUME NEW c \in Calls, NEW kind \in Kinds, Call(c, kind) PROVE TypeOK'
    BY <1>1, <1>a, WorkerAssumption DEF Call, TypeOK, Places, lockVars, mapVars,
       stopVars
  <1>2. ASSUME NEW c \in Calls, SubmitEnter(c) PROVE TypeOK'
    <2>1. key' \in [Calls -> Namespaces \X (Ids \cup {NoId})]
      BY <1>2, <1>a, WorkerAssumption DEF SubmitEnter, MakeId, TypeOK
    <2>2. readLocks' \in [Calls -> 0..2]
      BY <1>2, <1>a, <1>b DEF SubmitEnter, TypeOK
    <2>3. pc' \in [Calls -> Places] /\ ret' \in [Calls -> Results]
      <3>1. /\ \E l \in {"ret", "reserve"} : pc' = [pc EXCEPT ![c] = l]
            /\ ret' = ret \/ ret' = [ret EXCEPT ![c] = "ErrShutdown"]
        BY <1>2 DEF SubmitEnter
      <3>2. {"ret", "reserve"} \subseteq Places
        BY DEF Places, Submitting
      <3>3. pc' \in [Calls -> Places]
        BY <3>1, <3>2, <1>a DEF TypeOK
      <3> QED
        BY <3>1, <3>3, <1>a DEF TypeOK
    <2> QED
      BY <2>1, <2>2, <2>3, <1>2, <1>a DEF SubmitEnter, TypeOK, mapVars, stopVars
  <1>3. ASSUME NEW c \in Calls, SubmitReserve(c) PROVE TypeOK'
    <2>1. readLocks' \in [Calls -> 0..2]
      BY <1>3, <1>a, <1>b DEF SubmitReserve, TypeOK, Submitting
    <2>2. jobs' \in [Keys -> Calls \cup {Nil, Absent}]
      BY <1>3, <1>a DEF SubmitReserve, TypeOK
    <2>3. spaces' \subseteq Namespaces
      BY <1>3, <1>a DEF SubmitReserve, TypeOK
    <2>4. pc' \in [Calls -> Places] /\ ret' \in [Calls -> Results]
      BY <1>3, <1>a DEF SubmitReserve, TypeOK, Places, Submitting
    <2>5. panicked' \in BOOLEAN
      BY <1>3, <1>a DEF SubmitReserve, TypeOK
    <2> QED
      BY <2>1, <2>2, <2>3, <2>4, <2>5, <1>3, <1>a DEF SubmitReserve, TypeOK, stopVars
  <1>4. ASSUME NEW c \in Calls, NEW root \in BOOLEAN, SubmitStart(c, root)
        PROVE  TypeOK'
    <2>1. pc' \in [Calls -> Places] /\ run' \in [Calls -> {"none", "running", "done"}]
      <3>1. /\ \E l \in {"publish", "discard"} : pc' = [pc EXCEPT ![c] = l]
            /\ run' = run \/ run' = [run EXCEPT ![c] = "running"]
        BY <1>4 DEF SubmitStart
      <3>2. {"publish", "discard"} \subseteq Places
        BY DEF Places, Submitting
      <3>3. pc' \in [Calls -> Places]
        BY <3>1, <3>2, <1>a DEF TypeOK
      <3> QED
        BY <3>1, <3>3, <1>a DEF TypeOK
    <2>2. UNCHANGED <<key, ret, got, seen, ctxDone, lockVars, mapVars, stopVars, panicked>>
      BY <1>4 DEF SubmitStart
    <2> QED
      BY <2>1, <2>2, <1>a DEF TypeOK, lockVars, mapVars, stopVars
  <1>5. ASSUME NEW c \in Calls, SubmitDiscard(c) \/ SubmitPublish(c)
        PROVE  TypeOK'
    <2>1. readLocks' \in [Calls -> 0..2]
      BY <1>5, <1>a, <1>b DEF SubmitDiscard, SubmitPublish, TypeOK, Submitting
    <2>2. /\ jobs' \in [Keys -> Calls \cup {Nil, Absent}]
          /\ panicked' \in BOOLEAN
      BY <1>5, <1>a DEF SubmitDiscard, SubmitPublish, TypeOK
    <2>3. pc' \in [Calls -> Places] /\ ret' \in [Calls -> Results]
      <3>1. \E r \in {"error", "ok"} :
              pc' = [pc EXCEPT ![c] = "ret"] /\ ret' = [ret EXCEPT ![c] = r]
        BY <1>5 DEF SubmitDiscard, SubmitPublish
      <3>2. "ret" \in Places /\ {"error", "ok"} \subseteq Results
        BY DEF Places, Results
      <3> QED
        BY <3>1, <3>2, <1>a DEF TypeOK
    <2> QED
      BY <2>1, <2>2, <2>3, <1>5, <1>a DEF SubmitDiscard, SubmitPublish, TypeOK,
         stopVars
  <1>6. ASSUME NEW c \in Calls, Get(c) PROVE TypeOK'
    <2>1. CASE GetEnter(c)
      <3>1. pc' \in [Calls -> Places] /\ ret' \in [Calls -> Results]
        BY <2>1, <1>a DEF GetEnter, TypeOK, Places
      <3> QED
        BY <3>1, <2>1, <1>a, <1>b DEF GetEnter, TypeOK, mapVars, stopVars
    <2>2. CASE GetRead(c)
      BY <2>2, <1>a, <1>b DEF GetRead, TypeOK, Places, lockVars, mapVars,
         stopVars
    <2>3. CASE GetUnlock(c)
      BY <2>3, <1>a, <1>b DEF GetUnlock, TypeOK, Places, mapVars, stopVars
    <2> QED
      BY <2>1, <2>2, <2>3, <1>6 DEF Get
  <1>7. ASSUME NEW c \in Calls, ShutTake(c) PROVE TypeOK'
    <2>1. taken' \subseteq Calls
      BY <1>7, <1>a DEF ShutTake, TypeOK
    <2>2. /\ stopper' \in [Calls -> {"none", "ask", "wait", "end"}]
          /\ panicked' \in BOOLEAN
      BY <1>7, <1>a DEF ShutTake, TypeOK
    <2>3. pc' \in [Calls -> Places] /\ ret' \in [Calls -> Results]
      BY <1>7, <1>a DEF ShutTake, TypeOK, Places
    <2> QED
      BY <2>1, <2>2, <2>3, <1>7, <1>a DEF ShutTake, TypeOK, lockVars
  <1>8. ASSUME NEW c \in Calls,
               ShutAnnounce(c) \/ ShutMark(c) \/ ShutSelect(c) \/ ShutRecheck(c)
        PROVE  TypeOK'
    <2>1. pc' \in [Calls -> Places] /\ ret' \in [Calls -> Results]
      BY <1>8, <1>a DEF ShutAnnounce, ShutMark, ShutSelect, ShutRecheck, TypeOK,
         Places
    <2> QED
      BY <2>1, <1>8, <1>a DEF ShutAnnounce, ShutMark, ShutSelect, ShutRecheck,
         TypeOK, lockVars, mapVars, stopVars
  <1>9. CASE Quiet
    <2>1. ASSUME NEW j \in Calls, Stopping(j) \/ JobEnds(j)
          PROVE  /\ run' \in [Calls -> {"none", "running", "done"}]
                 /\ stopper' \in [Calls -> {"none", "ask", "wait", "end"}]
                 /\ UNCHANGED <<wgDone, ctxDone>>
      <3>1. CASE Stopping(j)
        BY <3>1, <1>a DEF Stopping, StopAsk, StopReturn, TypeOK, callVars
      <3>2. CASE JobEnds(j)
        BY <3>2, <1>a DEF JobEnds, TypeOK, callVars, stopVars
      <3> QED
        BY <2>1, <3>1, <3>2
    <2>2. ASSUME CloseWgDone \/ CtxExpire \/ UNCHANGED vars
          PROVE  /\ UNCHANGED <<run, stopper>>
                 /\ wgDone' \in BOOLEAN /\ ctxDone' \in BOOLEAN
      BY <2>2, <1>a DEF CloseWgDone, CtxExpire, TypeOK, vars, callVars, stopVars
    <2>3. /\ run' \in [Calls -> {"none", "running", "done"}]
          /\ stopper' \in [Calls -> {"none", "ask", "wait", "end"}]
          /\ wgDone' \in BOOLEAN /\ ctxDone' \in BOOLEAN
      BY <2>1, <2>2, <1>9, <1>a DEF Quiet, TypeOK
    <2> QED
      BY <2>3, <1>9, <1>a, QuietStep DEF TypeOK, lockVars, mapVars
  <1> QED
    BY <1>1, <1>2, <1>3, <1>4, <1>5, <1>6, <1>7, <1>8, <1>9
    DEF Next, Submit, Shut, Quiet

\* What is known of a call from its place stays right.
LEMMA StepCall == ASSUME IInv, [Next]_vars PROVE CallInv'
  <1> USE DEF Goto, Return, Reading, Submitting
  <1>a. TypeOK /\ CallInv
    BY DEF IInv
  <1>b. /\ pc \in [Calls -> Places] /\ ret \in [Calls -> Results]
        /\ key \in [Calls -> Namespaces \X (Ids \cup {NoId})]
        /\ run \in [Calls -> {"none", "running", "done"}]
    BY <1>a DEF TypeOK
  <1>1. ASSUME NEW c \in Calls, NEW kind \in Kinds, Call(c, kind)
        PROVE  CallInv'
    BY <1>1, <1>a, <1>b, WorkerAssumption DEF Call, CallInv
  <1>2. ASSUME NEW c \in Calls, SubmitEnter(c) PROVE CallInv'
    <2>1. ~shutdown => key'[c] \in Keys
      BY <1>2, <1>b, WorkerAssumption DEF SubmitEnter, MakeId, Keys
    <2>2. \A d \in Calls : d # c => key'[d] = key[d]
      BY <1>2, <1>b DEF SubmitEnter, MakeId
    <2> QED
      BY <2>1, <2>2, <1>2, <1>a, <1>b DEF SubmitEnter, CallInv
  <1>3. ASSUME NEW c \in Calls, SubmitReserve(c) PROVE CallInv'
    BY <1>3, <1>a, <1>b DEF SubmitReserve, CallInv
  <1>4. ASSUME NEW c \in Calls, NEW root \in BOOLEAN, SubmitStart(c, root)
        PROVE  CallInv'
    BY <1>4, <1>a, <1>b DEF SubmitStart, CallInv
  <1>5. ASSUME NEW c \in Calls, SubmitDiscard(c) PROVE CallInv'
    BY <1>5, <1>a, <1>b DEF SubmitDiscard, CallInv
  <1>6. ASSUME NEW c \in Calls, SubmitPublish(c) PROVE CallInv'
    BY <1>6, <1>a, <1>b DEF SubmitPublish, CallInv
  <1>7. ASSUME NEW c \in Calls, Get(c) PROVE CallInv'
    BY <1>7, <1>a, <1>b DEF Get, GetEnter, GetRead, GetUnlock, CallInv
  <1>8. ASSUME NEW c \in Calls, Shut(c) PROVE CallInv'
    <2>1. pc[c] \notin Reading \cup {"get", "unlock", "ret"} /\ ret[c] = "none"
      BY <1>8, <1>a DEF Shut, ShutAnnounce, ShutMark, ShutTake, ShutSelect,
         ShutRecheck, CallInv
    <2>2. /\ \A d \in Calls : d # c => pc'[d] = pc[d] /\ ret'[d] = ret[d]
          /\ pc'[c] \notin Reading \cup {"get", "unlock"}
          /\ ret'[c] # "none" => pc'[c] = "ret"
          /\ ret'[c] # "ok"
          /\ UNCHANGED <<key, run>>
      BY <2>1, <1>8, <1>b DEF Shut, ShutAnnounce, ShutMark, ShutTake,
         ShutSelect, ShutRecheck
    <2> QED
      BY <2>1, <2>2, <1>a DEF CallInv
  <1>9. CASE Quiet
    BY <1>9, <1>a, QuietStep DEF CallInv
  <1> QED
    BY <1>1, <1>2, <1>3, <1>4, <1>5, <1>6, <1>7, <1>8, <1>9
    DEF Next, Submit, Quiet

\* The map's entries keep belonging to the submissions that made them.
LEMMA StepMap == ASSUME IInv, [Next]_vars PROVE MapInv'
  <1> USE WorkerAssumption
      DEF Goto, Return, Deciding, PlaceholdersAreTemporary, SubmittedStaysListed
  <1>a. TypeOK /\ LockInv /\ CallInv /\ MapInv
    BY DEF IInv
  <1>b. /\ pc \in [Calls -> Places] /\ ret \in [Calls -> Results]
        /\ jobs \in [Keys -> Calls \cup {Nil, Absent}]
    BY <1>a DEF TypeOK
  <1>c. \A c \in Calls :
          /\ pc[c] \in Deciding \/ ret[c] = "ok" => key[c] \in Keys
          /\ pc[c] # "ret" => ret[c] # "ok"
          /\ pc[c] \in Deciding \cup {"reserve"} => ~mapNil
    BY <1>a DEF CallInv, LockInv, Reading, Submitting
  <1>1. ASSUME NEW c \in Calls, NEW kind \in Kinds, Call(c, kind) PROVE MapInv'
    BY <1>1, <1>a, <1>b DEF Call, MapInv, mapVars
  <1>2. ASSUME NEW c \in Calls, SubmitEnter(c) PROVE MapInv'
    <2>1. \A d \in Calls : d # c => key'[d] = key[d]
      BY <1>2, <1>a DEF SubmitEnter, MakeId, TypeOK
    <2> QED
      BY <2>1, <1>2, <1>a, <1>b, <1>c DEF SubmitEnter, MapInv, mapVars
  <1>3. ASSUME NEW c \in Calls, SubmitReserve(c) PROVE MapInv'
    <2>1. key[c] \in Keys
      BY <1>3, <1>a DEF SubmitReserve, CallInv, Reading, Submitting
    <2>2. CASE jobs[key[c]] # Absent
      BY <2>2, <1>3, <1>a, <1>b, <1>c DEF SubmitReserve, MapInv
    <2>3. CASE jobs[key[c]] = Absent
      BY <2>1, <2>3, <1>3, <1>a, <1>b, <1>c DEF SubmitReserve, MapInv
    <2> QED
      BY <2>2, <2>3
  <1>4. ASSUME NEW c \in Calls, NEW root \in BOOLEAN, SubmitStart(c, root)
        PROVE  MapInv'
    BY <1>4, <1>a, <1>b DEF SubmitStart, MapInv, mapVars
  <1>5. ASSUME NEW c \in Calls, SubmitDiscard(c) PROVE MapInv'
    BY <1>5, <1>a, <1>b, <1>c DEF SubmitDiscard, MapInv
  <1>6. ASSUME NEW c \in Calls, SubmitPublish(c) PROVE MapInv'
    BY <1>6, <1>a, <1>b, <1>c DEF SubmitPublish, MapInv
  <1>7. ASSUME NEW c \in Calls, Get(c) PROVE MapInv'
    BY <1>7, <1>a, <1>b DEF Get, GetEnter, GetRead, GetUnlock, MapInv, mapVars
  <1>8. ASSUME NEW c \in Calls, ShutTake(c) PROVE MapInv'
    <2>1. \A d \in Calls : pc[d] \notin Deciding
      BY <1>8, <1>a DEF ShutTake, LockInv, Finishing, Reading, Submitting
    <2>2. \A d \in Calls : ret[d] = "ok" => d \in taken'
      BY <1>8, <1>a, <1>b, <1>c DEF ShutTake, LockInv, MapInv
    <2>3. /\ \A k \in Keys : jobs'[k] # Nil
          /\ mapNil'
      BY <1>8 DEF ShutTake
    <2>4. \A d \in Calls : /\ pc'[d] \notin Deciding
                           /\ ret'[d] = "ok" => ret[d] = "ok"
      BY <2>1, <1>8, <1>b DEF ShutTake
    <2> QED
      BY <2>2, <2>3, <2>4 DEF MapInv
  <1>9. ASSUME NEW c \in Calls,
               ShutAnnounce(c) \/ ShutMark(c) \/ ShutSelect(c) \/ ShutRecheck(c)
        PROVE  MapInv'
    <2>1. /\ pc[c] \notin Deciding
          /\ \A d \in Calls : d # c => pc'[d] = pc[d] /\ ret'[d] = ret[d]
          /\ pc'[c] \notin Deciding /\ (ret'[c] = "ok" => ret[c] = "ok")
          /\ UNCHANGED <<key, jobs, taken, mapNil>>
      BY <1>9, <1>b DEF ShutAnnounce, ShutMark, ShutSelect, ShutRecheck, mapVars
    <2> QED
      BY <2>1, <1>a, <1>b DEF MapInv
  <1>10. CASE Quiet
    BY <1>10, <1>a, QuietStep DEF MapInv, mapVars
  <1> QED
    BY <1>1, <1>2, <1>3, <1>4, <1>5, <1>6, <1>7, <1>8, <1>9, <1>10
    DEF Next, Submit, Shut, Quiet

\* A success is final, and GetJob reads the map under the read lock.
LEMMA StepGet == ASSUME IInv, [Next]_vars PROVE GetInv'
  <1> USE DEF Goto, Return, GetFindsSubmitted
  <1>a. TypeOK /\ LockInv /\ CallInv /\ MapInv /\ GetInv
    BY DEF IInv
  <1>b. /\ pc \in [Calls -> Places] /\ ret \in [Calls -> Results]
        /\ seen \in [Calls -> SUBSET Calls] /\ got \in [Calls -> Calls \cup {Nil}]
        /\ key \in [Calls -> Namespaces \X (Ids \cup {NoId})]
    BY <1>a DEF TypeOK
  <1>c. \A c \in Calls :
          /\ ret[c] = "ok" => pc[c] = "ret"
          /\ ret[c] = "job" => pc[c] \in {"unlock", "ret"}
    BY <1>a DEF CallInv
  <1>1. ASSUME NEW c \in Calls, NEW kind \in Kinds, Call(c, kind) PROVE GetInv'
    BY <1>1, <1>a, <1>b, <1>c DEF Call, GetInv
  <1>2. ASSUME NEW c \in Calls, Submit(c) \/ Shut(c) PROVE GetInv'
    <2>1. /\ pc[c] \notin {"ret", "unlock"}
          /\ \A d \in Calls : d # c => ret'[d] = ret[d]
          /\ ret'[c] # "job"
          /\ UNCHANGED <<got, seen>>
      BY <1>2, <1>b, <1>c
      DEF Submit, SubmitEnter, SubmitReserve, SubmitStart, SubmitDiscard,
          SubmitPublish, Shut, ShutAnnounce, ShutMark, ShutTake, ShutSelect,
          ShutRecheck
    <2>2. \A d \in Calls : d # c => key'[d] = key[d]
      BY <1>2, <1>b
      DEF Submit, SubmitEnter, MakeId, SubmitReserve, SubmitStart,
          SubmitDiscard, SubmitPublish, Shut, ShutAnnounce, ShutMark, ShutTake,
          ShutSelect, ShutRecheck
    <2>3. ret[c] # "ok"
      BY <2>1, <1>c
    <2> QED
      BY <2>1, <2>2, <2>3, <1>a, <1>b DEF GetInv
  <1>3. ASSUME NEW c \in Calls, GetEnter(c) \/ GetUnlock(c) PROVE GetInv'
    <2>1. /\ \A d \in Calls : ret'[d] = ret[d] \/ (d = c /\ ret'[d] = "ErrShutdown")
          /\ ret[c] # "ok"
          /\ UNCHANGED <<key, got, seen>>
      BY <1>3, <1>b, <1>c DEF GetEnter, GetUnlock
    <2> QED
      BY <2>1, <1>a, <1>b DEF GetInv
  <1>4. ASSUME NEW c \in Calls, GetRead(c) PROVE GetInv'
    <2>1. ~mapNil /\ ret[c] # "ok"
      BY <1>4, <1>a DEF GetRead, LockInv, CallInv, Reading
    <2>2. \A j \in seen[c] : jobs[key[j]] = j /\ j \in Calls
      BY <2>1, <1>a, <1>b DEF GetInv, MapInv, SubmittedStaysListed
    <2>3. \A j \in seen[c] : key[j] = key[c] => got'[c] = j
      BY <2>2, <1>4, <1>b, WorkerAssumption DEF GetRead
    <2> QED
      BY <2>1, <2>3, <1>4, <1>a, <1>b DEF GetRead, GetInv
  <1>5. CASE Quiet
    BY <1>5, <1>a, QuietStep DEF GetInv
  <1> QED
    BY <1>1, <1>2, <1>3, <1>4, <1>5 DEF Next, Get, Quiet

\* No step panics: the map is nil, and its entries are taken, only when no
\* submission is under way.
LEMMA StepPanic == ASSUME IInv, [Next]_vars PROVE NoPanic'
  <1>a. TypeOK /\ LockInv /\ MapInv /\ NoPanic
    BY DEF IInv
  <1>1. ASSUME NEW c \in Calls, SubmitReserve(c) \/ SubmitPublish(c)
        PROVE  NoPanic'
    <2>1. ~mapNil
      BY <1>1, <1>a DEF SubmitReserve, SubmitPublish, LockInv, Reading,
         Submitting
    <2> QED
      BY <2>1, <1>1, <1>a DEF SubmitReserve, SubmitPublish, NoPanic
  <1>2. ASSUME NEW c \in Calls, ShutTake(c) PROVE NoPanic'
    <2>1. \A k \in Keys : jobs[k] # Nil
      BY <1>2, <1>a DEF ShutTake, LockInv, MapInv, PlaceholdersAreTemporary,
         Reading, Submitting, Finishing
    <2> QED
      BY <2>1, <1>2, <1>a DEF ShutTake, NoPanic
  <1>3. ASSUME NEW c \in Calls,
               \/ \E kind \in Kinds : Call(c, kind)
               \/ SubmitEnter(c) \/ SubmitDiscard(c)
               \/ \E root \in BOOLEAN : SubmitStart(c, root)
               \/ Get(c)
               \/ ShutAnnounce(c) \/ ShutMark(c) \/ ShutSelect(c) \/ ShutRecheck(c)
        PROVE  NoPanic'
    <2>1. UNCHANGED panicked
      BY <1>3 DEF Call, SubmitEnter, SubmitDiscard, SubmitStart, Get, GetEnter,
         GetRead, GetUnlock, ShutAnnounce, ShutMark, ShutSelect, ShutRecheck
    <2> QED
      BY <2>1, <1>a DEF NoPanic
  <1>4. CASE Quiet
    BY <1>4, <1>a, QuietStep DEF NoPanic
  <1> QED
    BY <1>1, <1>2, <1>3, <1>4 DEF Next, Submit, Shut, Quiet

\* The invariant holds in every state of a worker.
THEOREM Invariant == Spec => []IInv
  <1>1. IInv /\ [Next]_vars => IInv'
    BY StepType, StepLock, StepCall, StepMap, StepGet, StepPanic DEF IInv
  <1> QED
    BY InitInv, <1>1, PTL DEF Spec

-----------------------------------------------------------------------------

\* The variables keep their types: a read lock is never released twice
\* (worker.go:104-105), and GetJob leaves with two of them (78-79).
THEOREM TypeCorrect == Spec => []TypeOK
  <1>1. IInv => TypeOK
    BY DEF IInv
  <1> QED
    BY Invariant, <1>1, PTL

\* No interleaving of SubmitJob and Shutdown dereferences a nil placeholder or
\* writes into the nil map (worker.go:114-122, 147-150, 171-190).
THEOREM NeverPanics == Spec => []NoPanic
  <1>1. IInv => NoPanic
    BY DEF IInv
  <1> QED
    BY Invariant, <1>1, PTL

\* Shutdown takes every job that was ever started, and none is started after
\* (worker.go:102-108, 160-174).
THEOREM ShutdownSeesAllJobs == Spec => []NoJobEscapesShutdown
  <1>1. IInv => NoJobEscapesShutdown
    BY DEF IInv, NoJobEscapesShutdown, LockInv, CallInv, MapInv, Reading,
       Submitting
  <1> QED
    BY Invariant, <1>1, PTL

\* A submission that succeeded stays listed under its ID until the shutdown
\* (worker.go:114-150).
THEOREM SubmittedIsListed == Spec => []SubmittedStaysListed
  <1>1. IInv => SubmittedStaysListed
    BY DEF IInv, MapInv
  <1> QED
    BY Invariant, <1>1, PTL

\* GetJob finds what was submitted before it was called (worker.go:77-86).
THEOREM GetFinds == Spec => []GetFindsSubmitted
  <1>1. IInv => GetFindsSubmitted
    BY DEF IInv, GetInv
  <1> QED
    BY Invariant, <1>1, PTL

\* A failed submission frees its ID (worker.go:126-134).
THEOREM PlaceholdersGo == Spec => []PlaceholdersAreTemporary
  <1>1. IInv => PlaceholdersAreTemporary
    BY DEF IInv, MapInv
  <1> QED
    BY Invariant, <1>1, PTL

-----------------------------------------------------------------------------
(* The worker implements Registry.tla. *)

\* What the registry's state is made of.
regSources == <<pc, key, ret, got, jobs, shutdown, mapNil, taken>>

\* The registry stays when the variables it is read from do.
LEMMA RegStutter ==
  ASSUME UNCHANGED regSources
  PROVE  UNCHANGED <<key, Holders, Listed, shutdown, Handed, Answers, got>>
  BY DEF regSources, Holders, Listed, Handed, Answers

\* A call that goes on and neither enters nor leaves the decision about an ID
\* leaves all IDs as they are.
LEMMA RegCallMoves ==
  ASSUME TypeOK, NEW c \in Calls, NEW l \in Places, pc' = [pc EXCEPT ![c] = l],
         pc[c] \in Deciding <=> l \in Deciding,
         UNCHANGED <<key, jobs, shutdown, mapNil, taken>>
  PROVE  UNCHANGED <<Holders, Listed, Handed>>
  <1>1. \A d \in Calls : pc'[d] \in Deciding <=> pc[d] \in Deciding
    BY DEF TypeOK
  <1> QED
    BY <1>1 DEF Holders, Listed, Handed

\* What a call's answer becomes, and that the others' stay.
LEMMA RegAnswer ==
  ASSUME TypeOK, NEW c \in Calls, NEW l \in Places, NEW r \in Results,
         pc' = [pc EXCEPT ![c] = l], ret' = [ret EXCEPT ![c] = r]
  PROVE  Answers' = [Answers EXCEPT ![c] =
           IF l = "idle" THEN "idle"
           ELSE IF l \in Deciding THEN "held"
           ELSE IF r \in {"none", "nil", "context"} THEN "called" ELSE r]
  BY DEF TypeOK, Answers

\* A call that has its result has its answer.
LEMMA RegAnswered ==
  ASSUME TypeOK, NEW c \in Calls,
         NEW r \in {"ok", "error", "job", "ErrShutdown", "ErrIDAlreadyExists"},
         \E l \in {"unlock", "ret"} : pc' = [pc EXCEPT ![c] = l],
         ret' = [ret EXCEPT ![c] = r]
  PROVE  Answers' = [Answers EXCEPT ![c] = r]
  <1>1. PICK l \in {"unlock", "ret"} : pc' = [pc EXCEPT ![c] = l]
    OBVIOUS
  <1>2. /\ l \in Places /\ l # "idle" /\ l \notin Deciding /\ r \in Results
        /\ r \notin {"none", "nil", "context"}
    BY DEF Places, Deciding, Results
  <1> QED
    BY <1>1, <1>2 DEF TypeOK, Answers

\* The new worker is an empty registry.
LEMMA RegInit == Init => Reg!Init
  BY DEF Init, Reg!Init, Holders, Listed, Handed, Answers, Deciding

\* Every step of the worker is one of the registry, or changes nothing of it.
LEMMA RegStep == ASSUME IInv, [Next]_vars PROVE [Reg!Next]_(Reg!regVars)
  <1> DEFINE same == UNCHANGED <<key, Holders, Listed, shutdown, Handed, Answers, got>>
  <1> USE DEF Goto, Return
  <1>a. /\ TypeOK /\ LockInv /\ CallInv /\ MapInv
        /\ pc \in [Calls -> Places] /\ ret \in [Calls -> Results]
        /\ got \in [Calls -> Calls \cup {Nil}]
        /\ key \in [Calls -> Namespaces \X (Ids \cup {NoId})]
        /\ jobs \in [Keys -> Calls \cup {Nil, Absent}]
        /\ Nil \notin Calls /\ Absent \notin Calls /\ Nil # Absent
    BY WorkerAssumption DEF IInv, TypeOK
  <1>b. ASSUME NEW c \in Calls
        PROVE  Answers[c] = IF pc[c] = "idle" THEN "idle"
                 ELSE IF pc[c] \in Deciding THEN "held"
                 ELSE IF ret[c] \in {"none", "nil", "context"} THEN "called" ELSE ret[c]
    BY DEF Answers
  <1>c. ASSUME same PROVE [Reg!Next]_(Reg!regVars)
    BY <1>c DEF Reg!regVars
  <1>d. ASSUME NEW c \in Calls, key[c] \in Keys,
               Reg!Hold(c) \/ Reg!Exists(c) \/ Reg!Keep(c) \/ Reg!Drop(c) \/ Reg!Look(c)
        PROVE  [Reg!Next]_(Reg!regVars)
    BY <1>d DEF Reg!Next
  <1>1. ASSUME NEW c \in Calls, NEW kind \in Kinds, Call(c, kind)
        PROVE  [Reg!Next]_(Reg!regVars)
    <2>1. kind \in Places \ Deciding /\ kind # "idle" /\ pc[c] = "idle" /\ ret[c] = "none"
      BY <1>1, <1>a, WorkerAssumption DEF Call, Places, Deciding, CallInv
    <2>2. UNCHANGED <<Holders, Listed, Handed>>
      BY <2>1, <1>1, <1>a, RegCallMoves DEF Call, Deciding, lockVars, mapVars
    <2>3. Answers' = [Answers EXCEPT ![c] = "called"]
      <3>1. pc' = [pc EXCEPT ![c] = kind] /\ ret' = [ret EXCEPT ![c] = "none"]
        BY <1>1, <2>1, <1>a DEF Call
      <3> QED
        BY <3>1, <2>1, <1>a, RegAnswer DEF Results
    <2>4. Reg!Invoke(c)
      BY <1>1, <2>1, <2>2, <2>3, <1>b DEF Call, Reg!Invoke, Reg!Answer, lockVars
    <2> QED
      BY <2>4 DEF Reg!Next
  <1>2. ASSUME NEW c \in Calls, SubmitEnter(c) PROVE [Reg!Next]_(Reg!regVars)
    <2>1. pc[c] = "submit" /\ ret[c] = "none" /\ Answers[c] = "called"
      BY <1>2, <1>a, <1>b DEF SubmitEnter, CallInv, Deciding
    <2>2. /\ \E l \in {"ret", "reserve"} : pc' = [pc EXCEPT ![c] = l]
          /\ UNCHANGED <<got, jobs, shutdown, mapNil, taken>>
      BY <1>2 DEF SubmitEnter, mapVars
    <2>3. \A d \in Calls : pc'[d] \in Deciding <=> pc[d] \in Deciding
      BY <2>1, <2>2, <1>a DEF Deciding
    <2>4. CASE shutdown
      <3>1. /\ pc' = [pc EXCEPT ![c] = "ret"] /\ ret' = [ret EXCEPT ![c] = "ErrShutdown"]
            /\ key' = key
        BY <1>2, <2>4 DEF SubmitEnter
      <3>2. UNCHANGED <<Holders, Listed, Handed>>
        BY <3>1, <2>2, <2>3 DEF Holders, Listed, Handed
      <3>3. Answers' = [Answers EXCEPT ![c] = "ErrShutdown"]
        BY <3>1, <1>a, RegAnswered
      <3>4. Reg!Refuse(c)
        BY <3>1, <3>2, <3>3, <2>1, <2>2, <2>4 DEF Reg!Refuse, Reg!Answer
      <3> QED
        BY <3>4 DEF Reg!Next
    <2>5. CASE ~shutdown
      <3>1. /\ pc' = [pc EXCEPT ![c] = "reserve"] /\ ret' = ret /\ MakeId(c)
        BY <1>2, <2>5 DEF SubmitEnter
      <3>2. UNCHANGED <<Listed, Handed>>
        BY <2>2 DEF Listed, Handed
      <3>3. Answers' = Answers
        BY <3>1, <2>1, <1>a DEF Answers, Deciding
      <3>4. CASE key' = key
        <4>1. Holders' = Holders
          BY <3>4, <2>3 DEF Holders
        <4> QED
          BY <4>1, <3>2, <3>3, <3>4, <2>2, <1>c
      <3>5. CASE key' # key
        <4>1. PICK i \in Uuids \ {key[d][2] : d \in Called} :
                key' = [key EXCEPT ![c] = <<key[c][1], i>>]
          BY <3>1, <3>5 DEF MakeId
        <4>2. key[c][2] = NoId
          BY <3>1, <3>5 DEF MakeId
        <4> DEFINE k == <<key[c][1], i>>
        <4>3. k \in Keys /\ key[c] \notin Keys
          BY <4>2, <1>a, WorkerAssumption DEF Keys
        <4>4. \A d \in Calls : Answers[d] # "idle" => key[d] # k
          BY <4>1, <1>b DEF Called
        <4>5. Holders' = Holders
          <5>1. \A d \in Calls : pc'[d] \in Deciding => key'[d] = key[d]
            BY <4>1, <2>1, <2>3, <1>a DEF Deciding
          <5> QED
            BY <5>1, <2>3 DEF Holders
        <4>6. Reg!MakeId(c, k)
          BY <4>1, <4>3, <4>4, <4>5, <3>2, <3>3, <2>1, <2>2 DEF Reg!MakeId
        <4> QED
          BY <4>3, <4>6 DEF Reg!Next
      <3> QED
        BY <3>4, <3>5
    <2> QED
      BY <2>4, <2>5
  <1>3. ASSUME NEW c \in Calls, SubmitReserve(c) PROVE [Reg!Next]_(Reg!regVars)
    <2>1. /\ pc[c] = "reserve" /\ ret[c] = "none" /\ Answers[c] = "called"
          /\ ~shutdown /\ ~mapNil /\ key[c] \in Keys
      BY <1>3, <1>a, <1>b DEF SubmitReserve, CallInv, LockInv, Reading, Submitting, Deciding
    <2>2. UNCHANGED <<key, got, shutdown, mapNil, taken>>
      BY <1>3 DEF SubmitReserve
    <2>3. Handed' = Handed
      BY <2>1, <2>2 DEF Handed
    <2>4. CASE jobs[key[c]] # Absent
      <3>1. /\ pc' = [pc EXCEPT ![c] = "ret"] /\ jobs' = jobs
            /\ ret' = [ret EXCEPT ![c] = "ErrIDAlreadyExists"]
        BY <1>3, <2>4 DEF SubmitReserve
      <3>2. UNCHANGED <<Holders, Listed>>
        BY <3>1, <2>1, <2>2, <1>a, RegCallMoves DEF SubmitReserve, Places, Deciding
      <3>3. Answers' = [Answers EXCEPT ![c] = "ErrIDAlreadyExists"]
        BY <3>1, <1>a, RegAnswered
      <3>4. Holders[key[c]] # {} \/ Listed[key[c]] # Nil
        <4>1. jobs[key[c]] = Nil => \E d \in Calls : pc[d] \in Deciding /\ key[d] = key[c]
          BY <2>1, <1>a DEF MapInv, PlaceholdersAreTemporary, Deciding
        <4>2. jobs[key[c]] # Nil => Listed[key[c]] # Nil
          BY <2>1, <2>4 DEF Listed
        <4> QED
          BY <4>1, <4>2, <2>1 DEF Holders
      <3>5. Reg!Exists(c)
        BY <3>2, <3>3, <3>4, <2>1, <2>2, <2>3 DEF Reg!Exists, Reg!Answer
      <3> QED
        BY <3>5, <2>1, <1>d
    <2>5. CASE jobs[key[c]] = Absent
      <3>1. /\ pc' = [pc EXCEPT ![c] = "start"] /\ ret' = ret
            /\ jobs' = [jobs EXCEPT ![key[c]] = Nil]
        BY <1>3, <2>5 DEF SubmitReserve
      <3>2. Listed' = Listed
        BY <3>1, <2>1, <2>2, <2>5, <1>a DEF Listed
      <3>3. Answers' = [Answers EXCEPT ![c] = "held"]
        <4>1. ret' = [ret EXCEPT ![c] = "none"]
          BY <3>1, <2>1, <1>a
        <4> QED
          BY <4>1, <3>1, <1>a, RegAnswer DEF Places, Submitting, Results, Deciding
      <3>4. Holders[key[c]] = {} /\ Listed[key[c]] = Nil
        <4>1. \A d \in Calls : ~(pc[d] \in Deciding /\ key[d] = key[c])
          BY <2>5, <1>a DEF MapInv
        <4> QED
          BY <4>1, <2>1, <2>5 DEF Holders, Listed
      <3>5. Holders' = [Holders EXCEPT ![key[c]] = {c}]
        <4>1. \A d \in Calls : pc'[d] \in Deciding <=> (pc[d] \in Deciding \/ d = c)
          BY <3>1, <1>a DEF Deciding
        <4>2. \A k \in Keys \ {key[c]} : Holders'[k] = Holders[k]
          BY <4>1, <2>2 DEF Holders
        <4>3. Holders'[key[c]] = {c}
          BY <4>1, <3>4, <2>1, <2>2 DEF Holders
        <4> QED
          BY <4>2, <4>3, <2>1, <2>2 DEF Holders
      <3>6. Reg!Hold(c)
        BY <3>2, <3>3, <3>4, <3>5, <2>1, <2>2, <2>3 DEF Reg!Hold, Reg!Answer
      <3> QED
        BY <3>6, <2>1, <1>d
    <2> QED
      BY <2>4, <2>5
  <1>4. ASSUME NEW c \in Calls, NEW root \in BOOLEAN, SubmitStart(c, root)
        PROVE  [Reg!Next]_(Reg!regVars)
    <2>1. /\ \E l \in {"publish", "discard"} : pc' = [pc EXCEPT ![c] = l]
          /\ pc[c] = "start"
          /\ UNCHANGED <<key, ret, got, jobs, shutdown, mapNil, taken>>
      BY <1>4 DEF SubmitStart, lockVars, mapVars
    <2>2. \A d \in Calls :
            /\ pc'[d] \in Deciding <=> pc[d] \in Deciding
            /\ pc'[d] = "idle" <=> pc[d] = "idle"
      BY <2>1, <1>a DEF Deciding
    <2>3. same
      BY <2>1, <2>2 DEF Holders, Listed, Handed, Answers
    <2> QED
      BY <2>3, <1>c
  <1>5. ASSUME NEW c \in Calls, SubmitDiscard(c) \/ SubmitPublish(c)
        PROVE  [Reg!Next]_(Reg!regVars)
    <2>1. /\ pc[c] \in {"discard", "publish"} /\ pc[c] \in Deciding
          /\ Answers[c] = "held"
          /\ ~shutdown /\ ~mapNil /\ key[c] \in Keys
          /\ pc' = [pc EXCEPT ![c] = "ret"]
          /\ UNCHANGED <<key, got, shutdown, mapNil, taken>>
      BY <1>5, <1>a, <1>b DEF SubmitDiscard, SubmitPublish, CallInv, LockInv, Reading,
         Submitting, Deciding
    <2>2. Handed' = Handed
      BY <2>1 DEF Handed
    <2>3. \A d \in Calls : pc[d] \in Deciding /\ key[d] = key[c] <=> d = c
      BY <2>1, <1>a DEF MapInv
    <2>4. jobs[key[c]] = Nil
      BY <2>1, <1>a DEF MapInv
    <2>5. Holders[key[c]] = {c}
      BY <2>1, <2>3 DEF Holders
    <2>6. Holders' = [Holders EXCEPT ![key[c]] = {}]
      <3>1. \A d \in Calls : pc'[d] \in Deciding <=> pc[d] \in Deciding /\ d # c
        BY <2>1, <1>a DEF Deciding
      <3>2. \A k \in Keys \ {key[c]} : Holders'[k] = Holders[k]
        BY <3>1, <2>1 DEF Holders
      <3>3. Holders'[key[c]] = {}
        BY <3>1, <2>1, <2>3 DEF Holders
      <3> QED
        BY <3>2, <3>3, <2>1 DEF Holders
    <2>7. CASE SubmitDiscard(c)
      <3>1. Listed' = Listed
        BY <2>7, <2>1, <2>4, <1>a DEF SubmitDiscard, Listed
      <3>2. Answers' = [Answers EXCEPT ![c] = "error"]
        <4>1. ret' = [ret EXCEPT ![c] = "error"]
          BY <2>7 DEF SubmitDiscard
        <4> QED
          BY <4>1, <2>1, <1>a, RegAnswered
      <3>3. Reg!Drop(c)
        BY <3>1, <3>2, <2>1, <2>2, <2>5, <2>6 DEF Reg!Drop, Reg!Answer
      <3> QED
        BY <3>3, <2>1, <1>d
    <2>8. CASE SubmitPublish(c)
      <3>1. Listed' = [Listed EXCEPT ![key[c]] = c]
        <4>1. jobs' = [jobs EXCEPT ![key[c]] = c]
          BY <2>8 DEF SubmitPublish
        <4>2. \A k \in Keys : Listed'[k] = IF k = key[c] THEN c ELSE Listed[k]
          BY <4>1, <2>1, <1>a DEF Listed
        <4> QED
          BY <4>2, <2>1 DEF Listed
      <3>2. Answers' = [Answers EXCEPT ![c] = "ok"]
        <4>1. ret' = [ret EXCEPT ![c] = "ok"]
          BY <2>8 DEF SubmitPublish
        <4> QED
          BY <4>1, <2>1, <1>a, RegAnswered
      <3>3. Reg!Keep(c)
        BY <3>1, <3>2, <2>1, <2>2, <2>5, <2>6 DEF Reg!Keep, Reg!Answer
      <3> QED
        BY <3>3, <2>1, <1>d
    <2> QED
      BY <1>5, <2>7, <2>8
  <1>6. ASSUME NEW c \in Calls, Get(c) PROVE [Reg!Next]_(Reg!regVars)
    <2>1. /\ UNCHANGED <<key, jobs, shutdown, mapNil, taken>>
          /\ pc[c] \in {"get", "read", "unlock"}
          /\ \E l \in {"read", "unlock", "ret"} : pc' = [pc EXCEPT ![c] = l]
      BY <1>6 DEF Get, GetEnter, GetRead, GetUnlock, lockVars, mapVars
    <2>2. UNCHANGED <<Holders, Listed, Handed>>
      <3>1. \A d \in Calls : pc'[d] \in Deciding <=> pc[d] \in Deciding
        BY <2>1, <1>a DEF Deciding
      <3> QED
        BY <3>1, <2>1 DEF Holders, Listed, Handed
    <2>3. CASE GetEnter(c) /\ shutdown
      <3>1. /\ pc[c] = "get" /\ ret[c] = "none" /\ got' = got
            /\ pc' = [pc EXCEPT ![c] = "unlock"]
            /\ ret' = [ret EXCEPT ![c] = "ErrShutdown"]
        BY <2>3, <1>a DEF GetEnter, CallInv
      <3>2. Answers[c] = "called" /\ Answers' = [Answers EXCEPT ![c] = "ErrShutdown"]
        <4>1. Answers[c] = "called"
          BY <3>1, <1>b DEF Deciding
        <4> QED
          BY <4>1, <3>1, <1>a, RegAnswered
      <3>3. Reg!Refuse(c)
        BY <3>1, <3>2, <2>1, <2>2, <2>3 DEF Reg!Refuse, Reg!Answer
      <3> QED
        BY <3>3 DEF Reg!Next
    <2>4. CASE (GetEnter(c) /\ ~shutdown) \/ GetUnlock(c)
      <3>1. UNCHANGED <<ret, got>>
        BY <2>4 DEF GetEnter, GetUnlock
      <3>2. Answers' = Answers
        BY <3>1, <2>1, <1>a DEF Answers, Deciding
      <3> QED
        BY <3>1, <3>2, <2>1, <2>2, <1>c
    <2>5. CASE GetRead(c)
      <3>1. /\ pc[c] = "read" /\ ret[c] = "none" /\ ~shutdown /\ key[c] \in Keys
            /\ pc' = [pc EXCEPT ![c] = "unlock"]
            /\ ret' = [ret EXCEPT ![c] = "job"]
        BY <2>5, <1>a DEF GetRead, CallInv, LockInv, Reading
      <3>2. Answers[c] = "called" /\ Answers' = [Answers EXCEPT ![c] = "job"]
        <4>1. Answers[c] = "called"
          BY <3>1, <1>b DEF Deciding
        <4> QED
          BY <4>1, <3>1, <1>a, RegAnswered
      <3>3. got' = [got EXCEPT ![c] = Listed[key[c]]]
        BY <2>5, <3>1 DEF GetRead, Listed
      <3>4. Reg!Look(c)
        BY <3>1, <3>2, <3>3, <2>1, <2>2 DEF Reg!Look, Reg!Answer
      <3> QED
        BY <3>1, <3>4, <1>d
    <2> QED
      BY <1>6, <2>3, <2>4, <2>5 DEF Get
  <1>7. ASSUME NEW c \in Calls, ShutMark(c) PROVE [Reg!Next]_(Reg!regVars)
    <2>1. /\ pc[c] = "mark" /\ ret[c] = "none" /\ Answers[c] = "called"
          /\ shutdown' = TRUE /\ UNCHANGED <<key, got, jobs, mapNil, taken>>
          /\ \A d \in Calls : pc[d] \notin Deciding
      <3>1. /\ pc[c] = "mark" /\ shutdown' = TRUE
            /\ UNCHANGED <<key, got, jobs, mapNil, taken>>
            /\ \A d \in Calls : readLocks[d] = 0
        BY <1>7 DEF ShutMark, mapVars
      <3>2. ret[c] = "none"
        BY <3>1, <1>a DEF CallInv
      <3>3. Answers[c] = "called"
        BY <3>1, <3>2, <1>b DEF Deciding
      <3>4. \A d \in Calls : pc[d] \notin Deciding
        BY <3>1, <1>a DEF LockInv, Reading, Submitting, Deciding
      <3> QED
        BY <3>1, <3>2, <3>3, <3>4
    <2>2. Holders = [k \in Keys |-> {}] /\ Holders' = Holders
      <3>1. \A d \in Calls : pc'[d] \notin Deciding
        BY <1>7, <2>1, <1>a DEF ShutMark, Deciding
      <3> QED
        BY <3>1, <2>1 DEF Holders
    <2>3. CASE shutdown
      <3>1. /\ pc' = [pc EXCEPT ![c] = "ret"] /\ ret' = [ret EXCEPT ![c] = "ErrShutdown"]
        BY <1>7, <2>3 DEF ShutMark
      <3>2. Answers' = [Answers EXCEPT ![c] = "ErrShutdown"]
        BY <3>1, <1>a, RegAnswered
      <3>3. UNCHANGED <<Listed, Handed>>
        BY <2>1, <2>3 DEF Listed, Handed
      <3>4. Reg!Refuse(c)
        BY <3>2, <3>3, <2>1, <2>2, <2>3 DEF Reg!Refuse, Reg!Answer
      <3> QED
        BY <3>4 DEF Reg!Next
    <2>4. CASE ~shutdown
      <3>1. pc' = [pc EXCEPT ![c] = "take"] /\ ret' = ret /\ ~mapNil
        BY <1>7, <2>4, <1>a DEF ShutMark, LockInv
      <3>2. Answers' = Answers
        BY <3>1, <2>1, <1>a DEF Answers, Deciding
      <3>3. Listed' = [k \in Keys |-> Nil]
        BY <2>1 DEF Listed
      <3>4. Handed' = {Listed[k] : k \in Keys} \ {Nil}
        <4>1. Handed' = {jobs[k] : k \in Keys} \ {Absent, Nil}
          BY <2>1, <3>1 DEF Handed
        <4>2. \A k \in Keys : Listed[k] = IF jobs[k] = Absent THEN Nil ELSE jobs[k]
          BY <2>4 DEF Listed
        <4> QED
          BY <4>1, <4>2
      <3>5. Reg!Close
        BY <3>2, <3>3, <3>4, <2>1, <2>2, <2>4 DEF Reg!Close
      <3> QED
        BY <3>5 DEF Reg!Next
    <2> QED
      BY <2>3, <2>4
  <1>8. ASSUME NEW c \in Calls,
               ShutAnnounce(c) \/ ShutTake(c) \/ ShutSelect(c) \/ ShutRecheck(c)
        PROVE  [Reg!Next]_(Reg!regVars)
    <2>1. /\ pc[c] \in {"shutdown", "take", "select", "recheck"} /\ ret[c] = "none"
          /\ pc[c] = "take" => shutdown /\ ~mapNil
          /\ UNCHANGED <<key, got, shutdown>>
      BY <1>8, <1>a DEF ShutAnnounce, ShutTake, ShutSelect, ShutRecheck, CallInv, LockInv,
         Finishing, lockVars
    <2>2. \E l \in {"mark", "select", "recheck", "ret"}, r \in {"none", "nil", "context"} :
            pc' = [pc EXCEPT ![c] = l] /\ ret' = [ret EXCEPT ![c] = r]
      <3>1. ret = [ret EXCEPT ![c] = "none"]
        BY <2>1, <1>a
      <3> QED
        BY <1>8, <3>1 DEF ShutAnnounce, ShutTake, ShutSelect, ShutRecheck
    <2>3. Answers' = Answers /\ \A d \in Calls : pc'[d] \in Deciding <=> pc[d] \in Deciding
      BY <2>1, <2>2, <1>a DEF Answers, Deciding
    <2>4. Holders' = Holders
      BY <2>1, <2>3 DEF Holders
    <2>5. CASE ShutTake(c)
      <3>1. /\ pc[c] = "take" /\ mapNil'
            /\ taken' = ({jobs[k] : k \in Keys} \ {Absent}) \ {Nil}
        BY <2>5 DEF ShutTake
      <3>2. UNCHANGED <<Listed, Handed>>
        BY <3>1, <2>1 DEF Listed, Handed
      <3> QED
        BY <3>2, <2>1, <2>3, <2>4, <1>c
    <2>6. CASE ~ShutTake(c)
      <3>1. UNCHANGED <<jobs, mapNil, taken>>
        BY <2>6, <1>8 DEF ShutAnnounce, ShutSelect, ShutRecheck, mapVars
      <3>2. UNCHANGED <<Listed, Handed>>
        BY <3>1, <2>1 DEF Listed, Handed
      <3> QED
        BY <3>2, <2>1, <2>3, <2>4, <1>c
    <2> QED
      BY <2>5, <2>6
  <1>9. CASE Quiet
    BY <1>9, <1>a, <1>c, QuietStep, RegStutter DEF regSources, lockVars, mapVars
  <1> QED
    BY <1>1, <1>2, <1>3, <1>4, <1>5, <1>6, <1>7, <1>8, <1>9
    DEF Next, Submit, Shut, Quiet

\* Every call of SubmitJob, GetJob and Shutdown (worker.go:77-193) takes effect
\* in one step on a registry of jobs, whatever runs in between: the worker is
\* linearizable.
THEOREM Linearizable == Spec => ImplementsRegistry
  <1> QED
    BY RegInit, RegStep, Invariant, PTL DEF Spec, ImplementsRegistry, Reg!Spec

=============================================================================
