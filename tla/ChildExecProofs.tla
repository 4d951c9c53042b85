-------------------------- MODULE ChildExecProofs --------------------------
(***************************************************************************)
(* Theorems about ChildExec.tla: what a command of a limited job runs in,  *)
(* and what children with one root directory do to each other, for any     *)
(* number of jobs and roots.                                               *)
(***************************************************************************)
EXTENDS ChildExec, TLAPS

-----------------------------------------------------------------------------
(* The inductive invariant. *)

\* Each limit is either still to be applied or has been; after the last one,
\* and as long as the command runs, all have.
GroupInv ==
  \A j \in Jobs :
    /\ pc[j] \in {"groups", "write"} => todo[j] \cup joined[j] = limits
    /\ pc[j] = "write" => todo[j] # {}
    /\ pc[j] \in {"old", "pivot", "unmount", "remove", "run", "wait"} =>
         joined[j] = limits
    /\ pc[j] = "wait" => command[j] # "none"
    /\ command[j] # "none" =>
         joined[j] = limits /\ pc[j] \in {"wait", "return", "exit", "killed"}

\* The steps of pivotRoot are taken in order, by children with a root.
PivotInv ==
  \A j \in Jobs :
    /\ pc[j] \in {"old", "pivot", "unmount", "remove", "run"} => root[j] # NoRoot
    /\ pc[j] \in {"unmount", "remove", "run"} => pivoted[j]
    /\ pc[j] \in {"remove", "run"} => ~oldMounted[j]
    /\ command[j] # "none" /\ root[j] # NoRoot => pivoted[j] /\ ~oldMounted[j]

\* Children of one root at their pivots know of each other.
MeetInv ==
  \A j, k \in Jobs :
    /\ j # k /\ root[j] = root[k]
    /\ pc[j] \in {"pivot", "unmount", "remove"}
    /\ pc[k] \in {"pivot", "unmount", "remove"}
    => k \in met[j]

\* A command that is over has an exit code.
EndInv == \A j \in Jobs : command[j] = "done" => ended[j] \in Codes

IInv ==
  /\ ChildTypeOK /\ GroupInv /\ PivotInv /\ EndInv
  /\ MeetInv /\ LonePivotSucceeds /\ ZeroMeansCompleted

-----------------------------------------------------------------------------
(* Lemmas. *)

\* The limit a child applies next is one of those it has not dealt with.
LEMMA CurrentIsToDo ==
  ASSUME NEW j \in Jobs, todo[j] \subseteq Controllers, todo[j] # {}
  PROVE  Current(j) \in todo[j]
  <1>1. \E c \in todo[j] : \A d \in todo[j] : Rank[c] <= Rank[d]
    <2>1. \A c \in todo[j] : c = "cpu" \/ c = "memory" \/ c = "blkio"
      BY DEF Controllers
    <2>2. Rank["cpu"] = 1 /\ Rank["memory"] = 2 /\ Rank["blkio"] = 3
      BY DEF Rank
    <2>3. CASE "cpu" \in todo[j]
      BY <2>1, <2>2, <2>3
    <2>4. CASE "cpu" \notin todo[j] /\ "memory" \in todo[j]
      BY <2>1, <2>2, <2>4
    <2>5. CASE "cpu" \notin todo[j] /\ "memory" \notin todo[j]
      BY <2>1, <2>2, <2>5
    <2> QED
      BY <2>3, <2>4, <2>5
  <1> QED
    BY <1>1 DEF Current

\* An exit code fits the eight bits of a status, and only 0 becomes 0.
LEMMA StatusOfCode ==
  ASSUME NEW s \in Codes
  PROVE  s % 256 \in 0..255 /\ (s % 256 = 0 => s = 0)
  <1>1. CASE s = -1
    <2>1. s \in Int /\ s + 1 = 0
      BY <1>1
    <2> QED
      BY <2>1
  <1>2. CASE s \in 0..255
    BY <1>2
  <1> QED
    BY <1>1, <1>2, ChildAssumption DEF Codes

\* No step changes the configuration.
LEMMA StepConfig == ASSUME [Next]_vars PROVE UNCHANGED config
  BY DEF Next, Child, Start, MakeDir, WriteSettings, Bind, MakeOld, Pivot,
     Unmount, RemoveOld, Run, RunDone, Leave, CommandEnds, Kill, vars

\* Every step keeps the variables in their types.
LEMMA StepType == ASSUME IInv, [Next]_vars PROVE ChildTypeOK'
  <1> USE DEF Goto, Return, groupVars, mountVars, commandVars
  <1>a. ChildTypeOK /\ UNCHANGED <<limits, pidNs, mountNs, root>>
    BY StepConfig DEF IInv, config
  <1>b. \A j \in Jobs : pc[j] \in {"groups", "write"} /\ todo[j] # {} =>
          Current(j) \in limits
    BY <1>a, CurrentIsToDo DEF ChildTypeOK
  <1>1. ASSUME NEW j \in Jobs, Start(j) \/ Bind(j) \/ Leave(j) PROVE ChildTypeOK'
    BY <1>1, <1>a DEF Start, Bind, Leave, ChildTypeOK, Places
  <1>2. ASSUME NEW j \in Jobs, MakeDir(j) PROVE ChildTypeOK'
    BY <1>2, <1>a, <1>b DEF MakeDir, ChildTypeOK, Places
  <1>3. ASSUME NEW j \in Jobs, WriteSettings(j) PROVE ChildTypeOK'
    BY <1>3, <1>a, <1>b DEF WriteSettings, ChildTypeOK, Places, IInv, GroupInv
  <1>4. ASSUME NEW j \in Jobs, MakeOld(j) PROVE ChildTypeOK'
    <2>1. root[j] \in Roots
      BY <1>4, <1>a DEF MakeOld, ChildTypeOK, IInv, PivotInv
    <2>2. met' \in [Jobs -> SUBSET Jobs]
      BY <1>4, <1>a DEF MakeOld, ChildTypeOK, Meeting
    <2> QED
      BY <2>1, <2>2, <1>4, <1>a DEF MakeOld, ChildTypeOK, Places
  <1>5. ASSUME NEW j \in Jobs, Pivot(j) \/ Unmount(j) PROVE ChildTypeOK'
    <2>1. /\ pc' \in [Jobs -> Places]
          /\ status' \in [Jobs -> 0..255 \cup {NoStatus}]
      BY <1>5, <1>a DEF Pivot, Unmount, ChildTypeOK, Places
    <2>2. pivoted' = pivoted \/ pivoted' = [pivoted EXCEPT ![j] = TRUE]
      BY <1>5 DEF Pivot, Unmount
    <2>3. pivoted' \in [Jobs -> BOOLEAN]
      BY <2>2, <1>a DEF ChildTypeOK
    <2>4. \/ oldMounted' = oldMounted
          \/ oldMounted' = [oldMounted EXCEPT ![j] = TRUE]
          \/ oldMounted' = [oldMounted EXCEPT ![j] = FALSE]
      BY <1>5 DEF Pivot, Unmount
    <2>5. oldMounted' \in [Jobs -> BOOLEAN]
      BY <2>4, <1>a DEF ChildTypeOK
    <2> QED
      BY <2>1, <2>3, <2>5, <1>5, <1>a DEF Pivot, Unmount, ChildTypeOK
  <1>6. ASSUME NEW j \in Jobs, RemoveOld(j) PROVE ChildTypeOK'
    <2>1. /\ pc' \in [Jobs -> Places]
          /\ status' \in [Jobs -> 0..255 \cup {NoStatus}]
          /\ hasOld' \subseteq Roots
      BY <1>6, <1>a DEF RemoveOld, ChildTypeOK, Places
    <2>2. \/ oldMounted' = oldMounted
          \/ oldMounted' =
               [k \in Jobs |-> oldMounted[k] /\ (k = j \/ root[k] # root[j])]
      BY <1>6 DEF RemoveOld
    <2>3. oldMounted' \in [Jobs -> BOOLEAN]
      BY <2>2, <1>a, Zenon DEF ChildTypeOK
    <2> QED
      BY <2>1, <2>3, <1>6, <1>a DEF RemoveOld, ChildTypeOK
  <1>7. ASSUME NEW j \in Jobs, Run(j) PROVE ChildTypeOK'
    BY <1>7, <1>a DEF Run, ChildTypeOK, Places
  <1>8. ASSUME NEW j \in Jobs, RunDone(j) PROVE ChildTypeOK'
    <2>1. ended[j] % 256 \in 0..255
      BY <1>8, StatusOfCode DEF RunDone, IInv, EndInv
    <2> QED
      BY <2>1, <1>8, <1>a DEF RunDone, ChildTypeOK, Places
  <1>9. ASSUME NEW j \in Jobs, Kill(j) PROVE ChildTypeOK'
    BY <1>9, <1>a DEF Kill, ChildTypeOK, Places, Codes
  <1>10. ASSUME NEW j \in Jobs, NEW s \in Codes, CommandEnds(j, s)
         PROVE  ChildTypeOK'
    BY <1>10, <1>a DEF CommandEnds, ChildTypeOK
  <1>11. CASE UNCHANGED vars
    BY <1>11, <1>a DEF vars, ChildTypeOK
  <1> QED
    BY <1>1, <1>2, <1>3, <1>4, <1>5, <1>6, <1>7, <1>8, <1>9, <1>10, <1>11
    DEF Next, Child

\* A child that starts its command has applied every limit.
LEMMA StepGroup == ASSUME IInv, [Next]_vars PROVE GroupInv'
  <1> USE DEF Goto, Return, groupVars, mountVars, commandVars
  <1>a. ChildTypeOK /\ GroupInv /\ UNCHANGED limits
    BY StepConfig DEF IInv, config
  <1>b. /\ pc \in [Jobs -> Places]
        /\ todo \in [Jobs -> SUBSET limits] /\ joined \in [Jobs -> SUBSET limits]
        /\ command \in [Jobs -> {"none", "running", "done"}]
    BY <1>a DEF ChildTypeOK
  <1>1. ASSUME NEW j \in Jobs, Start(j) PROVE GroupInv'
    BY <1>1, <1>a, <1>b DEF Start, GroupInv
  <1>2. ASSUME NEW j \in Jobs, MakeDir(j) PROVE GroupInv'
    BY <1>2, <1>a, <1>b DEF MakeDir, GroupInv
  <1>3. ASSUME NEW j \in Jobs, WriteSettings(j) PROVE GroupInv'
    <2>1. Current(j) \in limits \/ pc[j] # "write"
      BY <1>a, <1>b, CurrentIsToDo DEF GroupInv, ChildTypeOK
    <2> QED
      BY <2>1, <1>3, <1>a, <1>b DEF WriteSettings, GroupInv
  <1>4. ASSUME NEW j \in Jobs,
               \/ Bind(j) \/ MakeOld(j) \/ Pivot(j) \/ Unmount(j)
               \/ RemoveOld(j) \/ Leave(j) \/ RunDone(j)
        PROVE  GroupInv'
    <2>1. /\ UNCHANGED <<todo, joined, command>>
          /\ \A k \in Jobs \ {j} : pc'[k] = pc[k]
          /\ \/ /\ pc[j] = "groups" /\ todo[j] = {}
                /\ pc'[j] \in {"old", "return"}
             \/ /\ pc[j] \in {"old", "pivot", "unmount", "remove"}
                /\ pc'[j] \in {"pivot", "unmount", "remove", "run", "return"}
             \/ pc[j] = "return" /\ pc'[j] = "exit"
             \/ pc[j] = "wait" /\ pc'[j] = "return"
      BY <1>4, <1>b DEF Bind, MakeOld, Pivot, Unmount, RemoveOld, Leave, RunDone
    <2> QED
      BY <2>1, <1>a, <1>b DEF GroupInv
  <1>5. ASSUME NEW j \in Jobs, Run(j) PROVE GroupInv'
    BY <1>5, <1>a, <1>b DEF Run, GroupInv
  <1>6. ASSUME NEW j \in Jobs, Kill(j) PROVE GroupInv'
    BY <1>6, <1>a, <1>b DEF Kill, GroupInv
  <1>7. ASSUME NEW j \in Jobs, NEW s \in Codes, CommandEnds(j, s)
        PROVE  GroupInv'
    BY <1>7, <1>a, <1>b DEF CommandEnds, GroupInv
  <1>8. CASE UNCHANGED vars
    BY <1>8, <1>a DEF vars, GroupInv
  <1> QED
    BY <1>1, <1>2, <1>3, <1>4, <1>5, <1>6, <1>7, <1>8 DEF Next, Child

\* The steps of pivotRoot stay in order.
LEMMA StepPivot == ASSUME IInv, [Next]_vars PROVE PivotInv'
  <1> USE DEF Goto, Return, groupVars, mountVars, commandVars
  <1>a. PivotInv /\ UNCHANGED root
    BY StepConfig DEF IInv, config
  <1>b. /\ pc \in [Jobs -> Places]
        /\ pivoted \in [Jobs -> BOOLEAN] /\ oldMounted \in [Jobs -> BOOLEAN]
        /\ command \in [Jobs -> {"none", "running", "done"}]
    BY DEF IInv, ChildTypeOK
  <1>c. \A j \in Jobs : command[j] # "none" =>
          pc[j] \in {"wait", "return", "exit", "killed"}
    BY DEF IInv, GroupInv
  <1>1. ASSUME NEW j \in Jobs,
               \/ Start(j) \/ MakeDir(j) \/ WriteSettings(j) \/ Bind(j)
               \/ RunDone(j) \/ Leave(j)
        PROVE  PivotInv'
    <2>1. /\ UNCHANGED <<pivoted, oldMounted, command>>
          /\ \A k \in Jobs \ {j} : pc'[k] = pc[k]
          /\ \/ pc'[j] \in {"groups", "write", "return", "exit"}
             \/ pc'[j] = "old" /\ root[j] # NoRoot
      BY <1>1, <1>b DEF Start, MakeDir, WriteSettings, Bind, RunDone, Leave
    <2> QED
      BY <2>1, <1>a, <1>b DEF PivotInv
  <1>2. ASSUME NEW j \in Jobs, MakeOld(j) PROVE PivotInv'
    BY <1>2, <1>a, <1>b DEF MakeOld, PivotInv
  <1>3. ASSUME NEW j \in Jobs, Pivot(j) PROVE PivotInv'
    BY <1>3, <1>a, <1>b, <1>c DEF Pivot, PivotInv
  <1>4. ASSUME NEW j \in Jobs, Unmount(j) PROVE PivotInv'
    BY <1>4, <1>a, <1>b, <1>c DEF Unmount, PivotInv
  <1>5. ASSUME NEW j \in Jobs, RemoveOld(j) PROVE PivotInv'
    <2>1. \A k \in Jobs : ~oldMounted[k] => ~oldMounted'[k]
      BY <1>5, <1>b DEF RemoveOld
    <2>2. /\ UNCHANGED <<pivoted, command>>
          /\ pc[j] = "remove" /\ pc'[j] \in {"run", "return"}
          /\ \A k \in Jobs \ {j} : pc'[k] = pc[k]
      BY <1>5, <1>b DEF RemoveOld
    <2> QED
      BY <2>1, <2>2, <1>a, <1>b DEF PivotInv
  <1>6. ASSUME NEW j \in Jobs, Run(j) PROVE PivotInv'
    BY <1>6, <1>a, <1>b DEF Run, PivotInv
  <1>7. ASSUME NEW j \in Jobs, Kill(j) PROVE PivotInv'
    BY <1>7, <1>a, <1>b DEF Kill, PivotInv
  <1>8. ASSUME NEW j \in Jobs, NEW s \in Codes, CommandEnds(j, s)
        PROVE  PivotInv'
    BY <1>8, <1>a, <1>b DEF CommandEnds, PivotInv
  <1>9. CASE UNCHANGED vars
    BY <1>9, <1>a DEF vars, PivotInv
  <1> QED
    BY <1>1, <1>2, <1>3, <1>4, <1>5, <1>6, <1>7, <1>8, <1>9 DEF Next, Child

\* The exit code of a command is there once it is over.
LEMMA StepEnd == ASSUME IInv, [Next]_vars PROVE EndInv'
  <1> USE DEF groupVars, mountVars, commandVars
  <1>a. /\ EndInv
        /\ command \in [Jobs -> {"none", "running", "done"}]
        /\ ended \in [Jobs -> Codes \cup {NoStatus}]
    BY DEF IInv, ChildTypeOK
  <1>1. ASSUME NEW j \in Jobs, Child(j) PROVE EndInv'
    <2>1. ended' = ended
      BY <1>1 DEF Child, Start, MakeDir, WriteSettings, Bind, MakeOld, Pivot,
         Unmount, RemoveOld, Run, RunDone, Leave
    <2>2. \/ command' = command
          \/ command' = [command EXCEPT ![j] = "running"]
      BY <1>1 DEF Child, Start, MakeDir, WriteSettings, Bind, MakeOld, Pivot,
         Unmount, RemoveOld, Run, RunDone, Leave
    <2> QED
      BY <2>1, <2>2, <1>a DEF EndInv
  <1>2. ASSUME NEW j \in Jobs, Kill(j) PROVE EndInv'
    BY <1>2, <1>a DEF Kill, EndInv, Codes
  <1>3. ASSUME NEW j \in Jobs, NEW s \in Codes, CommandEnds(j, s) PROVE EndInv'
    BY <1>3, <1>a DEF CommandEnds, EndInv
  <1>4. CASE UNCHANGED vars
    BY <1>4, <1>a DEF vars, EndInv
  <1> QED
    BY <1>1, <1>2, <1>3, <1>4 DEF Next

\* A status of 0 comes from the exit code 0 of a command that is over.
LEMMA StepZero == ASSUME IInv, [Next]_vars PROVE ZeroMeansCompleted'
  <1> USE DEF Goto, Return, groupVars, mountVars, commandVars
  <1>a. /\ ZeroMeansCompleted
        /\ command \in [Jobs -> {"none", "running", "done"}]
        /\ ended \in [Jobs -> Codes \cup {NoStatus}]
        /\ status \in [Jobs -> 0..255 \cup {NoStatus}]
    BY DEF IInv, ChildTypeOK
  <1>1. ASSUME NEW j \in Jobs, Child(j), ~RunDone(j), ~Run(j)
        PROVE  ZeroMeansCompleted'
    <2>1. /\ UNCHANGED <<command, ended>>
          /\ status' = status \/ status' = [status EXCEPT ![j] = 1]
      BY <1>1 DEF Child, Start, MakeDir, WriteSettings, Bind, MakeOld, Pivot,
         Unmount, RemoveOld, Leave
    <2> QED
      BY <2>1, <1>a DEF ZeroMeansCompleted
  <1>2. ASSUME NEW j \in Jobs, Run(j) PROVE ZeroMeansCompleted'
    <2>1. command[j] # "done"
      BY <1>2 DEF IInv, GroupInv, Run
    <2> QED
      BY <2>1, <1>2, <1>a DEF Run, ZeroMeansCompleted
  <1>3. ASSUME NEW j \in Jobs, RunDone(j) PROVE ZeroMeansCompleted'
    <2>1. command[j] = "done" /\ (ended[j] % 256 = 0 => ended[j] = 0)
      BY <1>3, StatusOfCode DEF RunDone, IInv, EndInv
    <2> QED
      BY <2>1, <1>3, <1>a DEF RunDone, ZeroMeansCompleted
  <1>4. ASSUME NEW j \in Jobs, Kill(j) PROVE ZeroMeansCompleted'
    BY <1>4, <1>a DEF Kill, ZeroMeansCompleted
  <1>5. ASSUME NEW j \in Jobs, NEW s \in Codes, CommandEnds(j, s)
        PROVE  ZeroMeansCompleted'
    BY <1>5, <1>a DEF CommandEnds, ZeroMeansCompleted
  <1>6. CASE UNCHANGED vars
    BY <1>6, <1>a DEF vars, ZeroMeansCompleted
  <1> QED
    BY <1>1, <1>2, <1>3, <1>4, <1>5, <1>6 DEF Next

\* Children at the directory of one root keep knowing of each other.
LEMMA StepMeet == ASSUME IInv, [Next]_vars PROVE MeetInv'
  <1> USE DEF Goto, Return, groupVars, mountVars, commandVars
  <1>a. MeetInv /\ UNCHANGED root
    BY StepConfig DEF IInv, config
  <1>b. pc \in [Jobs -> Places] /\ met \in [Jobs -> SUBSET Jobs]
    BY DEF IInv, ChildTypeOK
  <1>1. ASSUME NEW j \in Jobs, MakeOld(j) PROVE MeetInv'
    <2>1. CASE /\ met' = [k \in Jobs |-> IF k = j THEN Meeting(j)
                            ELSE IF k \in Meeting(j) THEN met[k] \cup {j}
                            ELSE met[k]]
               /\ pc' = [pc EXCEPT ![j] = "pivot"]
      BY <2>1, <1>a, <1>b DEF MeetInv, Meeting
    <2>2. CASE met' = met /\ pc' = [pc EXCEPT ![j] = "return"]
      BY <2>2, <1>a, <1>b DEF MeetInv
    <2> QED
      BY <2>1, <2>2, <1>1 DEF MakeOld
  <1>2. ASSUME NEW j \in Jobs, Child(j), ~MakeOld(j) PROVE MeetInv'
    <2>1. /\ met' = met
          /\ \A k \in Jobs \ {j} : pc'[k] = pc[k]
          /\ pc'[j] \in {"pivot", "unmount", "remove"} =>
               pc[j] \in {"pivot", "unmount", "remove"}
      BY <1>2, <1>b DEF Child, Start, MakeDir, WriteSettings, Bind, Pivot,
         Unmount, RemoveOld, Run, RunDone, Leave
    <2> QED
      BY <2>1, <1>a DEF MeetInv
  <1>3. ASSUME NEW j \in Jobs, Kill(j) PROVE MeetInv'
    BY <1>3, <1>a, <1>b DEF Kill, MeetInv
  <1>4. ASSUME NEW j \in Jobs, NEW s \in Codes, CommandEnds(j, s)
        PROVE  MeetInv'
    BY <1>4, <1>a DEF CommandEnds, MeetInv
  <1>5. CASE UNCHANGED vars
    BY <1>5, <1>a DEF vars, MeetInv
  <1> QED
    BY <1>1, <1>2, <1>3, <1>4, <1>5 DEF Next

\* Whoever removes the directory has met the children that still need it.
LEMMA StepLone == ASSUME IInv, [Next]_vars PROVE LonePivotSucceeds'
  <1> USE DEF Goto, Return, groupVars, mountVars, commandVars
  <1>a. LonePivotSucceeds /\ UNCHANGED root
    BY StepConfig DEF IInv, config
  <1>b. /\ pc \in [Jobs -> Places] /\ met \in [Jobs -> SUBSET Jobs]
        /\ oldMounted \in [Jobs -> BOOLEAN]
    BY DEF IInv, ChildTypeOK
  <1>1. ASSUME NEW j \in Jobs, MakeOld(j) PROVE LonePivotSucceeds'
    <2>1. /\ \A k \in Jobs \ {j} : pc'[k] = pc[k] /\ (met'[k] = {} => met[k] = {})
          /\ hasOld \subseteq hasOld' /\ oldMounted' = oldMounted
          /\ pc'[j] # "unmount" /\ (pc'[j] = "pivot" => root[j] \in hasOld')
      BY <1>1, <1>b DEF MakeOld
    <2> QED
      BY <2>1, <1>a DEF LonePivotSucceeds
  <1>2. ASSUME NEW j \in Jobs, Pivot(j) PROVE LonePivotSucceeds'
    BY <1>2, <1>a, <1>b DEF Pivot, LonePivotSucceeds
  <1>3. ASSUME NEW j \in Jobs, Unmount(j) PROVE LonePivotSucceeds'
    BY <1>3, <1>a, <1>b DEF Unmount, LonePivotSucceeds
  <1>4. ASSUME NEW j \in Jobs, RemoveOld(j) PROVE LonePivotSucceeds'
    <2>1. /\ pc[j] = "remove" /\ pc'[j] \in {"run", "return"}
          /\ \A k \in Jobs \ {j} : pc'[k] = pc[k]
          /\ met' = met
      BY <1>4, <1>b DEF RemoveOld
    <2>2. \A k \in Jobs \ {j} : root[k] # root[j] =>
            /\ root[k] \in hasOld => root[k] \in hasOld'
            /\ oldMounted[k] => oldMounted'[k]
      BY <1>4, <1>b DEF RemoveOld
    <2>3. \A k \in Jobs \ {j} :
            root[k] = root[j] /\ pc[k] \in {"pivot", "unmount"} => met[k] # {}
      BY <2>1 DEF IInv, MeetInv
    <2> QED
      BY <2>1, <2>2, <2>3, <1>a DEF LonePivotSucceeds
  <1>5. ASSUME NEW j \in Jobs,
               \/ Start(j) \/ MakeDir(j) \/ WriteSettings(j) \/ Bind(j)
               \/ Run(j) \/ RunDone(j) \/ Leave(j) \/ Kill(j)
        PROVE  LonePivotSucceeds'
    <2>1. /\ UNCHANGED <<met, hasOld, oldMounted>>
          /\ \A k \in Jobs \ {j} : pc'[k] = pc[k]
          /\ pc'[j] \notin {"pivot", "unmount"}
      BY <1>5, <1>b DEF Start, MakeDir, WriteSettings, Bind, Run, RunDone, Leave,
         Kill
    <2> QED
      BY <2>1, <1>a DEF LonePivotSucceeds
  <1>6. ASSUME NEW j \in Jobs, NEW s \in Codes, CommandEnds(j, s)
        PROVE  LonePivotSucceeds'
    BY <1>6, <1>a DEF CommandEnds, LonePivotSucceeds
  <1>7. CASE UNCHANGED vars
    BY <1>7, <1>a DEF vars, LonePivotSucceeds
  <1> QED
    BY <1>1, <1>2, <1>3, <1>4, <1>5, <1>6, <1>7 DEF Next, Child

-----------------------------------------------------------------------------
(* Theorems. *)

\* The inductive invariant of the children of limited jobs
\* (runner_linux.go:76-202): limits are applied one after the other, pivotRoot
\* goes step by step, and children with one root that overlap at their pivots
\* know of each other.
THEOREM Invariant == Spec => []IInv
  <1>1. Init => IInv
    <2> SUFFICES ASSUME Init PROVE IInv
      OBVIOUS
    <2>1. ChildTypeOK
      BY DEF Init, ChildTypeOK, Places
    <2>2. GroupInv /\ PivotInv /\ EndInv /\ MeetInv
      BY DEF Init, GroupInv, PivotInv, EndInv, MeetInv
    <2>3. LonePivotSucceeds
      BY DEF Init, LonePivotSucceeds
    <2>4. ZeroMeansCompleted
      <3>1. NoStatus # 0
        BY ChildAssumption
      <3> QED
        BY <3>1 DEF Init, ZeroMeansCompleted
    <2> QED
      BY <2>1, <2>2, <2>3, <2>4 DEF IInv
  <1>2. IInv /\ [Next]_vars => IInv'
    BY StepType, StepGroup, StepPivot, StepEnd, StepMeet, StepLone, StepZero
    DEF IInv
  <1> QED
    BY <1>1, <1>2, PTL DEF Spec

\* The variables of the children keep their types; the status of a child fits
\* eight bits, whatever ended its command (root.go:17-18).
THEOREM TypeCorrect == Spec => []ChildTypeOK
  <1>1. IInv => ChildTypeOK
    BY DEF IInv
  <1> QED
    BY <1>1, Invariant, PTL

\* No command of a limited job runs outside a limit, or with the old root in
\* reach, whatever failed before it (runner_linux.go:86-148).
THEOREM CommandIsLimited == Spec => []LimitsBeforeCommand
  <1>1. IInv => LimitsBeforeCommand
    BY DEF IInv, GroupInv, PivotInv, LimitsBeforeCommand
  <1> QED
    BY <1>1, Invariant, PTL

\* A child that is alone at the pivot of its root finds .pivot_old, and the
\* old root mounted on it, whatever other children left behind
\* (runner_linux.go:164-181).
THEOREM AlonePivots == Spec => []LonePivotSucceeds
  <1>1. IInv => LonePivotSucceeds
    BY DEF IInv
  <1> QED
    BY <1>1, Invariant, PTL

\* child-exec exits with 0 only after its command did (runner_linux.go:72-75,
\* root.go:14-21).
THEOREM ZeroIsSuccess == Spec => []ZeroMeansCompleted
  <1>1. IInv => ZeroMeansCompleted
    BY DEF IInv
  <1> QED
    BY <1>1, Invariant, PTL

=============================================================================
