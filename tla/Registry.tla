------------------------------ MODULE Registry ------------------------------
(***************************************************************************)
(* What the worker (worker/worker.go) promises its callers, without its    *)
(* locks and its map: an ID is free, held by one submission that is being  *)
(* decided, or names a job for as long as the worker is up; each call has  *)
(* its effect in one step; and a shutdown, which waits for the submissions *)
(* that hold an ID, is handed every job there is and refuses all the rest. *)
(*                                                                         *)
(* Worker.tla shows that SubmitJob, GetJob and Shutdown implement it, and  *)
(* Service.tla uses the worker as if it were this.                         *)
(***************************************************************************)
CONSTANTS
  Calls,   \* goroutines, one call each; a job is named by the call it is from
  Keys,    \* namespaces and IDs
  Earlier, \* jobs that were submitted before any of the calls
  None     \* no job

VARIABLES
  key,     \* what each call asks for; not in Keys as long as it has no ID
  held,    \* per ID, the submissions that hold it
  job,     \* per ID, the job it names
  shut,    \* has the worker been shut down?
  handed,  \* the jobs the shutdown was handed
  answer,  \* what each call has come to
  found    \* the job each lookup found

regVars == <<key, held, job, shut, handed, answer, found>>

Init ==
  /\ held = [k \in Keys |-> {}]
  /\ job \in [Keys -> Earlier \cup {None}]
  /\ shut = FALSE /\ handed = {}
  /\ answer = [c \in Calls |-> "idle"]
  /\ found = [c \in Calls |-> None]

Answer(c, from, to) ==
  answer[c] = from /\ answer' = [answer EXCEPT ![c] = to]

Invoke(c) ==
  /\ Answer(c, "idle", "called")
  /\ UNCHANGED <<key, held, job, shut, handed, found>>

\* A submission without an ID gets one nobody has asked for.
MakeId(c, k) ==
  /\ answer[c] = "called" /\ key[c] \notin Keys
  /\ \A d \in Calls : answer[d] # "idle" => key[d] # k
  /\ key' = [key EXCEPT ![c] = k]
  /\ UNCHANGED <<held, job, shut, handed, answer, found>>

\* ErrShutdown.
Refuse(c) ==
  /\ Answer(c, "called", "ErrShutdown")
  /\ shut
  /\ UNCHANGED <<key, held, job, shut, handed, found>>

\* A submission gets an ID that is free ...
Hold(c) ==
  /\ Answer(c, "called", "held")
  /\ ~shut /\ held[key[c]] = {} /\ job[key[c]] = None
  /\ held' = [held EXCEPT ![key[c]] = {c}]
  /\ UNCHANGED <<key, job, shut, handed, found>>

\* ... or fails with ErrIDAlreadyExists.
Exists(c) ==
  /\ Answer(c, "called", "ErrIDAlreadyExists")
  /\ ~shut /\ (held[key[c]] # {} \/ job[key[c]] # None)
  /\ UNCHANGED <<key, held, job, shut, handed, found>>

\* The job is listed under the ID, or the ID is free again.
Keep(c) ==
  /\ Answer(c, "held", "ok")
  /\ held[key[c]] = {c}
  /\ held' = [held EXCEPT ![key[c]] = {}]
  /\ job' = [job EXCEPT ![key[c]] = c]
  /\ UNCHANGED <<key, shut, handed, found>>

Drop(c) ==
  /\ Answer(c, "held", "error")
  /\ held[key[c]] = {c}
  /\ held' = [held EXCEPT ![key[c]] = {}]
  /\ UNCHANGED <<key, job, shut, handed, found>>

\* A lookup gets the job, or nil for an ID that is free or held.
Look(c) ==
  /\ Answer(c, "called", "job")
  /\ ~shut
  /\ found' = [found EXCEPT ![c] = job[key[c]]]
  /\ UNCHANGED <<key, held, job, shut, handed>>

Close ==
  /\ ~shut /\ shut' = TRUE
  /\ \A k \in Keys : held[k] = {}
  /\ handed' = {job[k] : k \in Keys} \ {None}
  /\ job' = [k \in Keys |-> None]
  /\ UNCHANGED <<key, held, answer, found>>

Next ==
  \/ Close
  \/ \E c \in Calls :
       \/ Invoke(c) \/ Refuse(c)
       \/ \E k \in Keys : MakeId(c, k)
       \/ /\ key[c] \in Keys
          /\ Hold(c) \/ Exists(c) \/ Keep(c) \/ Drop(c) \/ Look(c)

Spec == Init /\ [][Next]_regVars

=============================================================================
