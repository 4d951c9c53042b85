----------------------------- MODULE ChildExec -----------------------------
(***************************************************************************)
(* The limited runner and child-exec (worker/runner_linux.go): a limited   *)
(* job is a child of the worker, teleworker itself, which puts itself into *)
(* one cgroup per limit, pivots to the job's root directory, runs the      *)
(* command and removes the cgroup directories.                             *)
(*                                                                         *)
(* Each child has cgroup directories of its own (a new container ID), but  *)
(* children with the same root directory share what is in it.  Mounts are  *)
(* per child: its mount namespace.  What the kernel does is external: a    *)
(* process cannot remove a cgroup it is in; removing a directory takes     *)
(* away what other namespaces have mounted on it.                          *)
(***************************************************************************)
EXTENDS Integers

CONSTANTS
  Jobs,      \* limited jobs of one worker
  Roots,     \* root directories
  NoRoot,    \* no RootFS
  Statuses,  \* exit codes of commands
  NoStatus   \* not over yet

ASSUME ChildAssumption ==
  /\ NoRoot \notin Roots
  /\ Statuses \subseteq 0..255
  /\ NoStatus \notin -1..255

\* -1 is for a command that a signal ended.
Codes == Statuses \cup {-1}

Controllers == {"cpu", "memory", "blkio"}
Rank == [cpu |-> 1, memory |-> 2, blkio |-> 3]

VARIABLES
  limits,     \* controllers the configuration sets limits for
  pidNs,      \* Isolation.PID
  mountNs,    \* Isolation.Mount
  root,       \* root directory of each job
  pc,         \* where each child is
  todo,       \* controllers it has not dealt with
  dirs,       \* its cgroup directories
  joined,     \* cgroups it put itself into
  pivoted,    \* has it changed its root?
  oldMounted, \* is the old root mounted on .pivot_old?
  command,    \* its command: "none", "running", "done"
  ended,      \* exit code of the command
  status,     \* exit status of the child
  hasOld,     \* root directories with a .pivot_old
  met         \* history: children whose pivots overlapped with its own

config == <<limits, pidNs, mountNs, root>>
groupVars == <<todo, dirs, joined>>
mountVars == <<pivoted, oldMounted, hasOld, met>>
commandVars == <<command, ended, status>>
vars == <<config, pc, groupVars, mountVars, commandVars>>

Places == {"none", "groups", "write", "old", "pivot", "unmount", "remove",
           "run", "wait", "return", "exit", "killed"}

ChildTypeOK ==
  /\ limits \subseteq Controllers
  /\ pidNs \in BOOLEAN /\ mountNs \in BOOLEAN
  /\ root \in [Jobs -> Roots \cup {NoRoot}]
  /\ pc \in [Jobs -> Places]
  /\ todo \in [Jobs -> SUBSET limits]
  /\ dirs \in [Jobs -> SUBSET limits]
  /\ joined \in [Jobs -> SUBSET limits]
  /\ pivoted \in [Jobs -> BOOLEAN]
  /\ oldMounted \in [Jobs -> BOOLEAN]
  /\ command \in [Jobs -> {"none", "running", "done"}]
  /\ ended \in [Jobs -> Codes \cup {NoStatus}]
  /\ status \in [Jobs -> 0..255 \cup {NoStatus}]
  /\ hasOld \subseteq Roots
  /\ met \in [Jobs -> SUBSET Jobs]

\* newLimitedRunner has accepted the configuration.
Init ==
  /\ limits \in SUBSET Controllers
  /\ pidNs \in BOOLEAN /\ mountNs \in BOOLEAN
  /\ root \in [Jobs -> Roots \cup {NoRoot}]
  /\ pc = [j \in Jobs |-> "none"]
  /\ todo = [j \in Jobs |-> {}]
  /\ dirs = [j \in Jobs |-> {}]
  /\ joined = [j \in Jobs |-> {}]
  /\ pivoted = [j \in Jobs |-> FALSE]
  /\ oldMounted = [j \in Jobs |-> FALSE]
  /\ command = [j \in Jobs |-> "none"]
  /\ ended = [j \in Jobs |-> NoStatus]
  /\ status = [j \in Jobs |-> NoStatus]
  /\ hasOld = {}
  /\ met = [j \in Jobs |-> {}]

Goto(j, l) == pc' = [pc EXCEPT ![j] = l]

\* The limits go to the child as an argument, the isolation as clone flags.
Start(j) ==
  /\ pc[j] = "none"
  /\ todo' = [todo EXCEPT ![j] = limits]
  /\ Goto(j, "groups")
  /\ UNCHANGED <<config, dirs, joined, mountVars, commandVars>>

-----------------------------------------------------------------------------
(* ExecLimitedChild. *)

\* Mutant: Execute looks at exit errors only.
ReturnQuietly(j, s) ==
  Goto(j, "return") /\ status' = [status EXCEPT ![j] = IF s = 1 THEN 0 ELSE s]

\* Any error makes the child return; log.Fatal exits with status 1.
Return(j, s) == Goto(j, "return") /\ status' = [status EXCEPT ![j] = s]

\* The limits are applied in a fixed order.
Current(j) == CHOOSE c \in todo[j] : \A d \in todo[j] : Rank[c] <= Rank[d]

\* Mutant: the controller's name was left over from the first limit.
MakeDirOfCpu(j) ==
  /\ pc[j] = "groups" /\ todo[j] # {}
  /\ dirs' = [dirs EXCEPT ![j] = @ \cup {"cpu"}]
  /\ Goto(j, "write")
  /\ UNCHANGED <<config, todo, joined, mountVars, commandVars>>

\* The first half of writeCGroupSettings: the directory.
MakeDir(j) ==
  /\ pc[j] = "groups" /\ todo[j] # {}
  /\ \/ /\ dirs' = [dirs EXCEPT ![j] = @ \cup {Current(j)}]
        /\ Goto(j, "write") /\ UNCHANGED status
     \/ Return(j, 1) /\ UNCHANGED dirs
  /\ UNCHANGED <<config, todo, joined, mountVars, command, ended>>

\* Mutant: an error of the write to cgroup.procs is ignored.
WriteSettingsAnyway(j) ==
  /\ pc[j] = "write"
  /\ \/ joined' = [joined EXCEPT ![j] = @ \cup {Current(j)}]
     \/ UNCHANGED joined
  /\ todo' = [todo EXCEPT ![j] = @ \ {Current(j)}]
  /\ Goto(j, "groups")
  /\ UNCHANGED <<config, dirs, mountVars, commandVars>>

\* The second half: the settings, then the child itself as a member.
WriteSettings(j) ==
  /\ pc[j] = "write"
  /\ \/ /\ joined' = [joined EXCEPT ![j] = @ \cup {Current(j)}]
        /\ todo' = [todo EXCEPT ![j] = @ \ {Current(j)}]
        /\ Goto(j, "groups") /\ UNCHANGED status
     \/ Return(j, 1) /\ UNCHANGED <<joined, todo>>
  /\ UNCHANGED <<config, dirs, mountVars, command, ended>>

\* pivotRoot mounts /proc and the root on itself, which it may do in a mount
\* namespace of its own only.
Bind(j) ==
  /\ pc[j] = "groups" /\ todo[j] = {} /\ root[j] # NoRoot
  /\ \/ mountNs /\ Goto(j, "old") /\ UNCHANGED status
     \/ Return(j, 1)
  /\ UNCHANGED <<config, groupVars, mountVars, command, ended>>

\* Children of the same root that are between making and removing its old.
Meeting(j) ==
  {k \in Jobs \ {j} : root[k] = root[j] /\ pc[k] \in {"pivot", "unmount", "remove"}}

\* It is no error if the directory is there already.
MakeOld(j) ==
  /\ pc[j] = "old"
  /\ \/ /\ hasOld' = hasOld \cup {root[j]}
        /\ met' = [k \in Jobs |-> IF k = j THEN Meeting(j)
                                  ELSE IF k \in Meeting(j) THEN met[k] \cup {j}
                                  ELSE met[k]]
        /\ Goto(j, "pivot") /\ UNCHANGED status
     \/ Return(j, 1) /\ UNCHANGED <<hasOld, met>>
  /\ UNCHANGED <<config, groupVars, pivoted, oldMounted, command, ended>>

\* pivot_root, which needs the directory.
Pivot(j) ==
  /\ pc[j] = "pivot"
  /\ \/ /\ root[j] \in hasOld
        /\ pivoted' = [pivoted EXCEPT ![j] = TRUE]
        /\ oldMounted' = [oldMounted EXCEPT ![j] = TRUE]
        /\ Goto(j, "unmount") /\ UNCHANGED status
     \/ Return(j, 1) /\ UNCHANGED <<pivoted, oldMounted>>
  /\ UNCHANGED <<config, groupVars, hasOld, met, command, ended>>

\* The change to the new root, and the unmount, which needs the mount.
Unmount(j) ==
  /\ pc[j] = "unmount"
  /\ \/ /\ oldMounted[j]
        /\ oldMounted' = [oldMounted EXCEPT ![j] = FALSE]
        /\ Goto(j, "remove") /\ UNCHANGED status
     \/ Return(j, 1) /\ UNCHANGED oldMounted
  /\ UNCHANGED <<config, groupVars, pivoted, hasOld, met, command, ended>>

\* It is no error if the directory is gone already.
RemoveOld(j) ==
  /\ pc[j] = "remove"
  /\ \/ /\ hasOld' = hasOld \ {root[j]}
        /\ oldMounted' =
             [k \in Jobs |-> oldMounted[k] /\ (k = j \/ root[k] # root[j])]
        /\ Goto(j, "run") /\ UNCHANGED status
     \/ Return(j, 1) /\ UNCHANGED <<hasOld, oldMounted>>
  /\ UNCHANGED <<config, groupVars, pivoted, met, command, ended>>

\* cmd.Run starts the command, or fails to.
Run(j) ==
  /\ pc[j] = "run" \/ (pc[j] = "groups" /\ todo[j] = {} /\ root[j] = NoRoot)
  /\ \/ /\ command' = [command EXCEPT ![j] = "running"]
        /\ Goto(j, "wait") /\ UNCHANGED status
     \/ Return(j, 1) /\ UNCHANGED command
  /\ UNCHANGED <<config, groupVars, mountVars, ended>>

\* The end of the command.
CommandEnds(j, s) ==
  /\ command[j] = "running"
  /\ command' = [command EXCEPT ![j] = "done"]
  /\ ended' = [ended EXCEPT ![j] = s]
  /\ UNCHANGED <<config, pc, groupVars, mountVars, status>>

\* Mutant: a deferred removal of .pivot_old, once the command is over.
RunDoneCleans(j) ==
  /\ pc[j] = "wait" /\ command[j] = "done"
  /\ Return(j, ended[j] % 256)
  /\ hasOld' = hasOld \ {root[j]}
  /\ UNCHANGED <<config, groupVars, pivoted, oldMounted, met, command, ended>>

\* Its exit code becomes the child's, in the eight bits of a status.
RunDone(j) ==
  /\ pc[j] = "wait" /\ command[j] = "done"
  /\ Return(j, ended[j] % 256)
  /\ UNCHANGED <<config, groupVars, mountVars, command, ended>>

\* The deferred removals, whose errors are ignored: after a pivot the
\* directories are out of sight, and before it the child is in them.
Leave(j) ==
  /\ pc[j] = "return"
  /\ dirs' = [dirs EXCEPT ![j] = IF pivoted[j] THEN @ ELSE @ \cap joined[j]]
  /\ Goto(j, "exit")
  /\ UNCHANGED <<config, todo, joined, mountVars, commandVars>>

\* SIGTERM or SIGKILL ends the child, wherever it is, and with it its PID
\* namespace.
Kill(j) ==
  /\ pc[j] \notin {"none", "exit", "killed"}
  /\ Goto(j, "killed")
  /\ IF pidNs /\ command[j] = "running"
       THEN /\ command' = [command EXCEPT ![j] = "done"]
            /\ ended' = [ended EXCEPT ![j] = -1]
       ELSE UNCHANGED <<command, ended>>
  /\ UNCHANGED <<config, groupVars, mountVars, status>>

-----------------------------------------------------------------------------

Child(j) ==
  \/ Start(j) \/ MakeDir(j) \/ WriteSettings(j) \/ Bind(j) \/ MakeOld(j)
  \/ Pivot(j) \/ Unmount(j) \/ RemoveOld(j) \/ Run(j) \/ RunDone(j) \/ Leave(j)

Next ==
  \E j \in Jobs :
    Child(j) \/ Kill(j) \/ \E s \in Codes : CommandEnds(j, s)

Spec == Init /\ [][Next]_vars

-----------------------------------------------------------------------------
(* Properties. *)

\* A command never runs outside its limits: whatever failed before, by the
\* time it runs the child is in a cgroup per limit, in the job's root, and the
\* old root is out of reach (runner_linux.go:76-148).
LimitsBeforeCommand ==
  \A j \in Jobs : command[j] # "none" =>
    /\ joined[j] = limits
    /\ root[j] # NoRoot => pivoted[j] /\ ~oldMounted[j]

\* Only jobs with the same root whose pivots overlapped make each other fail:
\* one alone gets its root, whatever earlier ones left there.
LonePivotSucceeds ==
  \A j \in Jobs :
    /\ pc[j] = "pivot" /\ met[j] = {} => root[j] \in hasOld
    /\ pc[j] = "unmount" /\ met[j] = {} => oldMounted[j]

\* ExecLimitedChild "only returns a nil error on completion of the child with
\* a 0 exit code" (runner_linux.go:72-75).
ZeroMeansCompleted ==
  \A j \in Jobs : status[j] = 0 => command[j] = "done" /\ ended[j] = 0

=============================================================================
