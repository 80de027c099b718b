------------------------- MODULE JobLifecycleProofs -------------------------
(***************************************************************************)
(* Proofs about the background jobs: every variable keeps its type, the    *)
(* task table holds one whole generation, a completed generation has saved *)
(* its tasks, the table implements the register of TaskRegister, and a     *)
(* completion is final when nothing fails.                                 *)
(*                                                                         *)
(* The heart is SaveInv.  A DELETE sees all the rows of one generation or  *)
(* none of them, so it deletes all the rows there are or none; the first   *)
(* task of the first respondent is in every generation, so the unique key  *)
(* lets one save at a time pass its INSERT, and only when its DELETE has   *)
(* taken that row, hence all of them.                                      *)
(***************************************************************************)
EXTENDS JobLifecycle, TLAPS

(* A loop that goes on has a phase left.                                   *)
PhaseLeft == \A r \in Runs : run[r].pc = "work" => run[r].left \in 1 .. 2
TypeInv == TypeOK /\ PhaseLeft
RunInv == run \in [Runs -> RunType] /\ PhaseLeft

LEMMA NewRunType == NewRun \in RunType
  BY DEF NewRun, RunType, Places, Statuses

LEMMA Moved ==
    ASSUME NEW rec \in RunType, NEW place \in Places
    PROVE  [rec EXCEPT !.pc = place] \in RunType /\ [rec EXCEPT !.pc = place].pc = place
  BY DEF RunType

LEMMA MovedWithLeft ==
    ASSUME NEW rec \in RunType, NEW place \in Places, NEW n, n \in 0 .. 2
    PROVE  [rec EXCEPT !.pc = place, !.left = n] \in RunType
  BY DEF RunType

LEMMA Asked ==
    ASSUME NEW rec \in RunType
    PROVE  /\ [rec EXCEPT !.asked = TRUE] \in RunType
           /\ [rec EXCEPT !.asked = TRUE].pc = rec.pc
           /\ [rec EXCEPT !.asked = TRUE].left = rec.left
  BY DEF RunType

LEMMA Updated ==
    ASSUME RunInv, NEW r \in Runs, NEW v \in RunType, v.pc = "work" => v.left \in 1 .. 2,
           run' = [run EXCEPT ![r] = v]
    PROVE  RunInv'
  BY DEF RunInv, PhaseLeft

LEMMA GotoInv ==
    ASSUME RunInv, NEW r \in Runs, NEW place \in Places, place # "work", Goto(r, place)
    PROVE  RunInv'
<1>1. run[r] \in RunType
  BY DEF RunInv
<1>2. [run[r] EXCEPT !.pc = place] \in RunType /\ [run[r] EXCEPT !.pc = place].pc = place
  BY <1>1, Moved
<1> QED
  BY <1>2, Updated DEF Goto

LEMMA RaiseInv ==
    ASSUME RunInv, NEW r \in Runs, Raise(r)
    PROVE  RunInv'
<1>1. run[r] \in RunType
  BY DEF RunInv
<1>2. Raised(r) \in RunType /\ Raised(r).pc = "fail"
  BY <1>1 DEF Raised, RunType, Places
<1> QED
  BY <1>2, Updated DEF Raise

LEMMA StoppedInv ==
    ASSUME RunInv, NEW r \in Runs, run' = Stopped(r)
    PROVE  RunInv'
<1>1. [NewRun EXCEPT !.pc = "ended"] \in RunType /\ [NewRun EXCEPT !.pc = "ended"].pc = "ended"
  BY NewRunType, Moved DEF Places
<1> QED
  BY <1>1, Updated DEF Stopped

LEMMA FirstRun ==
    ASSUME NEW j \in Jobs
    PROVE  <<j, 1>> \in Runs /\ <<j, 1>>[1] = j
  BY BoundsAssumption DEF Runs

-----------------------------------------------------------------------------
(* Each step leaves the executions well-typed.                             *)
LEMMA RunTypeStep == TypeInv /\ [Next]_vars => RunInv'
<1> SUFFICES ASSUME TypeInv, [Next]_vars PROVE RunInv'
  OBVIOUS
<1>0. RunInv /\ \A r \in Runs : run[r] \in RunType
  BY DEF TypeInv, TypeOK, RunInv
<1>1. ASSUME NEW j \in Jobs, Dispatch(j) PROVE RunInv'
  BY <1>0, <1>1, FirstRun, GotoInv DEF Dispatch, Places, RunInv, PhaseLeft
<1>2. ASSUME NEW j \in Jobs, GenerateDirectly(j) PROVE RunInv'
  <2> DEFINE v == [run[<<j, 1>>] EXCEPT !.pc = "work", !.left = 1]
  <2>1. v \in RunType /\ v.left \in 1 .. 2
    <3>1. run[<<j, 1>>] \in RunType
      BY <1>0, FirstRun
    <3>2. "work" \in Places
      BY DEF Places
    <3>3. v \in RunType
      <4> DEFINE n == 1
      <4>1. n \in 0 .. 2
        OBVIOUS
      <4> HIDE DEF n
      <4>2. [run[<<j, 1>>] EXCEPT !.pc = "work", !.left = n] \in RunType
        BY <3>1, <3>2, <4>1, MovedWithLeft
      <4> QED
        BY <4>2 DEF n
    <3>4. v.left = 1
      BY <3>1 DEF RunType
    <3> QED
      BY <3>1, <3>3, <3>4
  <2>2. run' = [run EXCEPT ![<<j, 1>>] = v]
    BY <1>2 DEF GenerateDirectly
  <2> QED
    BY <1>0, <2>1, <2>2, FirstRun, Updated
<1>3. ASSUME NEW j \in Jobs, Deliver(j) PROVE RunInv'
  <2>1. <<j, deliveries[j] + 1>> \in Runs
    BY <1>3, BoundsAssumption DEF Deliver, TypeInv, TypeOK, Runs
  <2> QED
    BY <1>0, <1>3, <2>1, GotoInv DEF Deliver, Places
<1>4. ASSUME NEW j \in Jobs, CancelRead(j) PROVE RunInv'
  <2> DEFINE v == [run[<<j, 1>>] EXCEPT !.asked = TRUE]
  <2>1. v \in RunType /\ (v.pc = "work" => v.left \in 1 .. 2)
    BY <1>0, FirstRun, Asked DEF RunInv, PhaseLeft
  <2>2. CASE run' = [run EXCEPT ![<<j, 1>>] = v]
    BY <1>0, <2>1, <2>2, FirstRun, Updated
  <2>3. CASE UNCHANGED run
    BY <1>0, <2>3 DEF RunInv, PhaseLeft
  <2> QED
    BY <1>4, <2>2, <2>3 DEF CancelRead
<1>5. ASSUME NEW r \in Runs, StartRead(r) \/ StartCommit(r) \/ CancelledEnd(r)
                             \/ Notify(r) \/ FailCommit(r)
      PROVE  RunInv'
  BY <1>0, <1>5, GotoInv DEF StartRead, StartCommit, NotStarted, CancelledEnd, Notify, FailCommit, Places
<1>6. ASSUME NEW r \in Runs, NEW place \in Places, place # "work",
             run' = [run EXCEPT ![r].pc = place, ![r].seen = status[r[1]]]
      PROVE  RunInv'
  <2> DEFINE v == [run[r] EXCEPT !.pc = place, !.seen = status[r[1]]]
  <2>1. v \in RunType /\ v.pc = place
    <3>1. run[r] \in RunType /\ status[r[1]] \in Statuses
      BY <1>0 DEF TypeInv, TypeOK, Runs
    <3> QED
      BY <3>1 DEF RunType
  <2> QED
    BY <1>0, <1>6, <2>1, Updated
<1>7. ASSUME NEW r \in Runs, OpenRead(r) \/ FinishRead(r) \/ FailRead(r) PROVE RunInv'
  BY <1>0, <1>6, <1>7, GotoInv DEF OpenRead, FinishRead, FailRead, Places
<1>8. ASSUME NEW r \in Runs, MarkCommit(r) PROVE RunInv'
  <2> DEFINE v == [run[r] EXCEPT !.pc = "work", !.left = Phases(r[1])]
  <2>1. v \in RunType /\ v.left \in 1 .. 2
    <3>1. run[r] \in RunType /\ Phases(r[1]) \in 1 .. 2
      BY <1>0 DEF Phases
    <3>2. "work" \in Places
      BY DEF Places
    <3>3. v \in RunType
      <4> DEFINE n == Phases(r[1])
      <4>1. n \in 0 .. 2
        BY <3>1
      <4> HIDE DEF n
      <4>2. [run[r] EXCEPT !.pc = "work", !.left = n] \in RunType
        BY <3>1, <3>2, <4>1, MovedWithLeft
      <4> QED
        BY <4>2 DEF n
    <3>4. v.left = Phases(r[1])
      BY <3>1 DEF RunType
    <3> QED
      BY <3>1, <3>3, <3>4
  <2>2. CASE run' = [run EXCEPT ![r] = v]
    BY <1>0, <2>1, <2>2, Updated
  <2> QED
    BY <1>0, <1>8, <2>2, RaiseInv, GotoInv DEF MarkCommit, MarkRaises, Places
<1>9. ASSUME NEW r \in Runs, Work(r) PROVE RunInv'
  <2> DEFINE v == [run[r] EXCEPT !.left = @ - 1,
                      !.pc = IF run[r].left = 1 THEN AfterWork(r[1]) ELSE @]
             place == IF run[r].left = 1 THEN AfterWork(r[1]) ELSE "work"
  <2>1. run[r].pc = "work" /\ run[r].left \in 1 .. 2
    BY <1>0, <1>9 DEF Work, RunInv, PhaseLeft
  <2>2. AfterWork(r[1]) \in Places \ {"work"}
    BY DEF AfterWork, Places
  <2>3. v \in RunType /\ (v.pc = "work" => v.left \in 1 .. 2)
    <3>1. run[r] \in RunType /\ place \in Places /\ run[r].left - 1 \in 0 .. 2
      BY <1>0, <2>1, <2>2 DEF Places
    <3> HIDE DEF place
    <3>2. [run[r] EXCEPT !.left = run[r].left - 1, !.pc = place] \in RunType
      BY <3>1 DEF RunType
    <3>3. v = [run[r] EXCEPT !.left = run[r].left - 1, !.pc = place]
      BY <2>1 DEF place
    <3>4. v.pc = place /\ v.left = run[r].left - 1
      BY <3>1, <3>3 DEF RunType
    <3> QED
      BY <2>1, <2>2, <3>2, <3>3, <3>4 DEF place
  <2>4. run' = [run EXCEPT ![r] = v]
    BY <1>9 DEF Work
  <2> QED
    BY <1>0, <2>3, <2>4, Updated
<1>10. ASSUME NEW r \in Runs, StopWhenCancelled(r) PROVE RunInv'
  BY <1>0, <1>10, RaiseInv DEF StopWhenCancelled
<1>11. ASSUME NEW r \in Runs, WorkFails(r) PROVE RunInv'
  <2> DEFINE v == [run[r] EXCEPT !.pc = "finish", !.ok = FALSE]
  <2>1. v \in RunType /\ v.pc = "finish"
    BY <1>0 DEF RunType, Places
  <2>2. CASE run' = [run EXCEPT ![r] = v]
    BY <1>0, <2>1, <2>2, Updated
  <2> QED
    BY <1>0, <1>11, <2>2, RaiseInv DEF WorkFails
<1>12. ASSUME NEW r \in Runs, SaveSnapshot(r) PROVE RunInv'
  <2> DEFINE t == {Version(k) : k \in {l \in Keys : Present(l)}}
             v == [run[r] EXCEPT !.pc = "delete", !.target = t]
  <2>1. t \subseteq Keys \X Runs
    BY DEF TypeInv, TypeOK, Version, Present
  <2>2. v \in RunType /\ v.pc = "delete"
    BY <1>0, <2>1 DEF RunType, Places
  <2>3. run' = [run EXCEPT ![r] = v]
    BY <1>12 DEF SaveSnapshot
  <2> QED
    BY <1>0, <2>2, <2>3, Updated
<1>13. ASSUME NEW r \in Runs, SaveDelete(r) PROVE RunInv'
  <2> DEFINE v == [run[r] EXCEPT !.pc = "insert", !.del = Deletable(r), !.target = {}]
  <2>1. Deletable(r) \subseteq Keys
    BY DEF Deletable
  <2>2. v \in RunType /\ v.pc = "insert"
    BY <1>0, <2>1 DEF RunType, Places
  <2>3. run' = [run EXCEPT ![r] = v]
    BY <1>13 DEF SaveDelete
  <2> QED
    BY <1>0, <2>2, <2>3, Updated
<1>14. ASSUME NEW r \in Runs, SaveInsert(r) \/ FinishCommit(r) \/ DatabaseError(r) PROVE RunInv'
  BY <1>0, <1>14, RaiseInv, GotoInv DEF SaveInsert, FinishCommit, DatabaseError, Places
<1>15. ASSUME NEW r \in Runs, SaveCommit(r) PROVE RunInv'
  <2> DEFINE place == IF kind[r[1]] = "direct" THEN "ending" ELSE "finish"
             v == [run[r] EXCEPT !.pc = place, !.del = {}]
  <2>1. v \in RunType /\ v.pc # "work"
    BY <1>0 DEF RunType, Places
  <2>2. run' = [run EXCEPT ![r] = v]
    BY <1>15 DEF SaveCommit
  <2> QED
    BY <1>0, <2>1, <2>2, Updated
<1>16. ASSUME NEW r \in Runs, RunEnds(r) \/ RunDies(r) \/ WorkerLost(r) PROVE RunInv'
  BY <1>0, <1>16, StoppedInv DEF RunEnds, RunDies, WorkerLost, RunInv, PhaseLeft
<1>17. ASSUME NEW j \in Jobs,
              \/ CreateJob(j) \/ DispatchFails(j) \/ CancelCommit(j) \/ CancelFails(j) \/ Cleanup(j)
       PROVE  RunInv'
  BY <1>0, <1>17 DEF CreateJob, DispatchFails, CancelCommit, CancelFails, Cleanup, RunInv, PhaseLeft
<1>18. CASE UNCHANGED vars
  BY <1>0, <1>18 DEF vars, RunInv, PhaseLeft
<1> QED
  BY <1>1, <1>2, <1>3, <1>4, <1>5, <1>7, <1>8, <1>9, <1>10, <1>11, <1>12, <1>13, <1>14, <1>15,
     <1>16, <1>17, <1>18 DEF Next, RequestStep, RunStep, SaveStep

LEMMA TypeInit == Init => TypeInv
<1> SUFFICES ASSUME Init PROVE TypeInv
  OBVIOUS
<1>1. run \in [Runs -> RunType] /\ PhaseLeft
  BY NewRunType DEF Init, PhaseLeft, NewRun
<1>2. kind \in [Jobs -> Kinds]
  BY DesignsAssumption DEF Init
<1> QED
  BY <1>1, <1>2, BoundsAssumption DEF Init, TypeInv, TypeOK, Statuses

LEMMA TypeStep == TypeInv /\ [Next]_vars => TypeInv'
<1> SUFFICES ASSUME TypeInv, [Next]_vars PROVE TypeInv'
  OBVIOUS
<1>0. run' \in [Runs -> RunType] /\ PhaseLeft'
  BY RunTypeStep DEF RunInv
<1> USE BoundsAssumption, <1>0 DEF TypeInv, TypeOK, fixed, table, Statuses
<1>1. ASSUME NEW j \in Jobs, RequestStep(j) \/ DispatchFails(j) PROVE TypeInv'
  BY <1>1 DEF RequestStep, CreateJob, Dispatch, GenerateDirectly, DispatchFails, Fault
<1>2. ASSUME NEW j \in Jobs, Deliver(j) PROVE TypeInv'
  BY <1>2 DEF Deliver, OnDelivery
<1>3. ASSUME NEW j \in Jobs,
             CancelRead(j) \/ CancelCommit(j) \/ CancelFails(j) \/ Cleanup(j)
      PROVE  TypeInv'
  BY <1>3 DEF CancelRead, CancelCommit, CancelFails, Cleanup, Fault
<1>4. ASSUME NEW r \in Runs,
             StartRead(r) \/ OpenRead(r) \/ Work(r) \/ StopWhenCancelled(r) \/ WorkFails(r)
             \/ SaveSnapshot(r) \/ SaveDelete(r) \/ SaveInsert(r)
             \/ FinishRead(r) \/ Notify(r) \/ FailRead(r)
      PROVE  TypeInv'
  BY <1>4 DEF StartRead, NotStarted, OpenRead, Work, StopWhenCancelled, WorkFails, SaveSnapshot,
       SaveDelete, SaveInsert, FinishRead, Notify, FailRead
<1>5. ASSUME NEW r \in Runs, StartCommit(r) PROVE TypeInv'
  BY <1>5 DEF StartCommit, NotStarted
<1>6. ASSUME NEW r \in Runs, MarkCommit(r) \/ FinishCommit(r) \/ FailCommit(r) PROVE TypeInv'
  BY <1>6 DEF MarkCommit, FinishCommit, FailCommit, Assigned, Outcome
<1>7. ASSUME NEW r \in Runs, CancelledEnd(r) \/ RunEnds(r) PROVE TypeInv'
  BY <1>7 DEF CancelledEnd, RunEnds, Acknowledged, Runs
<1>8. ASSUME NEW r \in Runs, SaveCommit(r) PROVE TypeInv'
  <2>1. rows' \in [Keys -> Runs \cup {None}]
    BY <1>8 DEF SaveCommit, Replaced
  <2>2. written' \subseteq Jobs
    BY <1>8 DEF SaveCommit, Runs
  <2> QED
    BY <1>8, <2>1, <2>2 DEF SaveCommit
<1>9. ASSUME NEW r \in Runs, DatabaseError(r) \/ RunDies(r) \/ WorkerLost(r) PROVE TypeInv'
  <2>1. r[1] \in Jobs
    BY DEF Runs
  <2>2. message' \in [Jobs -> {"none", "queued", "held", "acked"}] /\ lost' \subseteq Jobs
        /\ faults' \in 0 .. MaxFaults
    BY <1>9, <2>1 DEF DatabaseError, RunDies, WorkerLost, Fault, Acknowledged
  <2> QED
    BY <1>9, <2>2 DEF DatabaseError, RunDies, WorkerLost
<1>10. CASE UNCHANGED vars
  BY <1>10 DEF vars
<1> QED
  BY <1>1, <1>2, <1>3, <1>4, <1>5, <1>6, <1>7, <1>8, <1>9, <1>10 DEF Next, RunStep, SaveStep

\* Every variable has its type.
THEOREM TypeCorrect == Spec => []TypeOK
<1>1. Spec => []TypeInv
  BY TypeInit, TypeStep, PTL DEF Spec
<1>2. TypeInv => TypeOK
  BY DEF TypeInv
<1> QED
  BY <1>1, <1>2, PTL

-----------------------------------------------------------------------------
(* Executions begin one after the other.                                   *)
StartInv ==
    /\ \A j \in Jobs : request[j] \in {"new", "created"} => deliveries[j] = 0 /\ message[j] = "none"
    /\ \A r \in Runs : r[2] > deliveries[r[1]] => run[r].pc = "idle"

(* Nothing but a beginning moves an idle execution.                        *)
LEMMA IdleStays ==
    ASSUME TypeInv, NEW r \in Runs, NEW q \in Runs, run[q].pc = "idle",
           RunStep(r) \/ DatabaseError(r) \/ RunDies(r) \/ WorkerLost(r)
    PROVE  run'[q] = run[q]
<1>0. run \in [Runs -> RunType]
  BY DEF TypeInv, TypeOK
<1>1. run[r].pc # "idle"
  BY DEF RunStep, SaveStep, StartRead, StartCommit, NotStarted, OpenRead, MarkCommit, MarkRaises, Work, StopWhenCancelled,
      WorkFails, CancelledEnd, SaveSnapshot, SaveDelete, SaveInsert, SaveCommit, FinishRead,
      FinishCommit, Notify, FailRead, FailCommit, RunEnds, DatabaseError, RunDies, WorkerLost, Live
<1>2. \/ UNCHANGED run
      \/ \E v : run' = [run EXCEPT ![r] = v]
  BY DEF RunStep, SaveStep, StartRead, StartCommit, NotStarted, OpenRead, MarkCommit, MarkRaises, Work, StopWhenCancelled,
      WorkFails, CancelledEnd, SaveSnapshot, SaveDelete, SaveInsert, SaveCommit, FinishRead,
      FinishCommit, Notify, FailRead, FailCommit, RunEnds, DatabaseError, RunDies, WorkerLost,
      Goto, Raise, Stopped
<1> QED
  BY <1>0, <1>1, <1>2

LEMMA StartStep == TypeInv /\ StartInv /\ [Next]_vars => StartInv'
<1> SUFFICES ASSUME TypeInv, StartInv, [Next]_vars PROVE StartInv'
  OBVIOUS
<1>0. run \in [Runs -> RunType] /\ deliveries \in [Jobs -> 0 .. MaxDeliveries]
      /\ \A r \in Runs : r = <<r[1], r[2]>> /\ r[1] \in Jobs /\ r[2] \in 1 .. MaxDeliveries
  BY DEF TypeInv, TypeOK, Runs
<1> USE BoundsAssumption, <1>0 DEF StartInv
<1>1. ASSUME NEW j \in Jobs, CreateJob(j) \/ DispatchFails(j) PROVE StartInv'
  BY <1>1 DEF CreateJob, DispatchFails, TypeInv, TypeOK
<1>2. ASSUME NEW j \in Jobs, Dispatch(j) \/ GenerateDirectly(j) \/ Deliver(j) PROVE StartInv'
  BY <1>2, FirstRun DEF Dispatch, GenerateDirectly, Deliver, OnDelivery, Goto, TypeInv, TypeOK
<1>3. ASSUME NEW j \in Jobs, CancelRead(j) PROVE StartInv'
  BY <1>3, FirstRun DEF CancelRead, Live, TypeInv, TypeOK
<1>4. ASSUME NEW j \in Jobs, CancelCommit(j) \/ CancelFails(j) \/ Cleanup(j) PROVE StartInv'
  BY <1>4 DEF CancelCommit, CancelFails, Cleanup
<1>5. ASSUME NEW r \in Runs, RunStep(r) \/ DatabaseError(r) \/ RunDies(r) \/ WorkerLost(r)
      PROVE  StartInv'
  <2>1. UNCHANGED <<request, deliveries>>
    BY <1>5 DEF RunStep, SaveStep, StartRead, StartCommit, NotStarted, OpenRead, MarkCommit, MarkRaises, Work,
      StopWhenCancelled, WorkFails, CancelledEnd, SaveSnapshot, SaveDelete, SaveInsert, SaveCommit,
      FinishRead, FinishCommit, Notify, FailRead, FailCommit, RunEnds, DatabaseError, RunDies,
      WorkerLost
  <2>2. \A j \in Jobs : message[j] = "none" => message'[j] = "none"
    BY <1>5 DEF RunStep, SaveStep, StartRead, StartCommit, NotStarted, OpenRead, MarkCommit, MarkRaises, Work,
      StopWhenCancelled, WorkFails, CancelledEnd, SaveSnapshot, SaveDelete, SaveInsert, SaveCommit,
      FinishRead, FinishCommit, Notify, FailRead, FailCommit, RunEnds, DatabaseError, RunDies,
      WorkerLost, Acknowledged, TypeInv, TypeOK
  <2> QED
    BY <1>5, <2>1, <2>2, IdleStays
<1>6. CASE UNCHANGED vars
  BY <1>6 DEF vars
<1> QED
  BY <1>1, <1>2, <1>3, <1>4, <1>5, <1>6 DEF Next, RequestStep

-----------------------------------------------------------------------------
Occupied == {k \in Keys : Present(k)}
Same(r) == /\ run'[r].pc = run[r].pc
           /\ run'[r].del = run[r].del
           /\ run'[r].target = run[r].target
Calm(r) == Same(r) \/ (run'[r].del = {} /\ run'[r].pc \notin {"delete", "commit"})
AllCalm == \A r \in Runs : Calm(r)

(* A DELETE that has seen one row of a generation has seen all of them.    *)
TargetInv ==
    \A r \in Runs : run[r].pc = "delete" =>
        \/ run[r].target = {}
        \/ \E q \in Runs : \A k \in Keys, x \in Runs :
                <<k, x>> \in run[r].target <=> x = q /\ k \in design[q[1]]

(* Rows are deleted in a save only, all of them or none, and each by one   *)
(* save; the save that has inserted its rows is alone, and has deleted     *)
(* those it replaces.                                                      *)
DeleteInv ==
    /\ \A r \in Runs : run[r].del # {} => run[r].pc \in {"insert", "commit"}
    /\ \A r \in Runs : run[r].del = {} \/ run[r].del = Occupied
    /\ \A r, s \in Runs : r # s => run[r].del \cap run[s].del = {}
CommitInv ==
    /\ \A r \in Runs : run[r].pc = "commit" =>
        \A k \in design[r[1]] : Present(k) => k \in run[r].del
    /\ \A r, s \in Runs : run[r].pc = "commit" /\ run[s].pc = "commit" => r = s

SaveInv == TasksOfOneGeneration /\ TargetInv /\ DeleteInv /\ CommitInv

LEMMA SaveInit == Init => SaveInv
<1> SUFFICES ASSUME Init PROVE SaveInv
  OBVIOUS
<1>1. \A r \in Runs : run[r].pc = "idle" /\ run[r].del = {}
  BY DEF Init, NewRun
<1>2. TasksOfOneGeneration
  BY DEF Init, TasksOfOneGeneration, Empty
<1> QED
  BY <1>1, <1>2 DEF SaveInv, TargetInv, DeleteInv, CommitInv

(* The steps outside of save_tasks keep a save where it is, or roll it     *)
(* back, and do not touch the rows.                                        *)
LEMMA OtherStep ==
    ASSUME SaveInv, rows' = rows, design' = design,
           AllCalm
    PROVE  SaveInv'
<1> USE DEF SaveInv, Calm, AllCalm
<1>1. TasksOfOneGeneration'
  BY DEF TasksOfOneGeneration, Empty, Whole
<1>2. TargetInv'
  BY DEF TargetInv, Same
<1>3. Occupied' = Occupied
  BY DEF Occupied, Present
<1>4. DeleteInv'
  BY <1>3 DEF DeleteInv, Same
<1>5. CommitInv'
  BY DEF CommitInv, Same, Present
<1> QED
  BY <1>1, <1>2, <1>4, <1>5

LEMMA UpdateCalm ==
    ASSUME run \in [Runs -> RunType], NEW r \in Runs, NEW v, run' = [run EXCEPT ![r] = v],
           \/ v.pc = run[r].pc /\ v.del = run[r].del /\ v.target = run[r].target
           \/ v.del = {} /\ v.pc \notin {"delete", "commit"}
    PROVE  AllCalm
  BY DEF AllCalm, Calm, Same

LEMMA GotoCalm ==
    ASSUME run \in [Runs -> RunType], DeleteInv, NEW r \in Runs, NEW place, Goto(r, place),
           run[r].pc \notin {"insert", "commit"}, place \notin {"delete", "commit"}
    PROVE  AllCalm
<1> DEFINE v == [run[r] EXCEPT !.pc = place]
<1>1. run[r] \in RunType
  OBVIOUS
<1>2. v.pc = place /\ v.del = run[r].del
  BY <1>1 DEF RunType
<1>3. run[r].del = {}
  BY DEF DeleteInv
<1> QED
  BY <1>2, <1>3, UpdateCalm DEF Goto

LEMMA RaiseCalm ==
    ASSUME run \in [Runs -> RunType], NEW r \in Runs, Raise(r)
    PROVE  AllCalm
<1>1. run[r] \in RunType
  OBVIOUS
<1>2. Raised(r).pc = "fail" /\ Raised(r).del = {}
  BY <1>1 DEF Raised, RunType
<1> QED
  BY <1>2, UpdateCalm DEF Raise

LEMMA StoppedCalm ==
    ASSUME run \in [Runs -> RunType], NEW r \in Runs, run' = Stopped(r)
    PROVE  AllCalm
<1>1. [NewRun EXCEPT !.pc = "ended"].pc = "ended" /\ [NewRun EXCEPT !.pc = "ended"].del = {}
  BY DEF NewRun
<1> QED
  BY <1>1, UpdateCalm DEF Stopped

(* The steps of save_tasks that change what is deleted or inserted.        *)
Saves(r) ==
    \/ SaveSnapshot(r) \/ SaveDelete(r) \/ SaveCommit(r)
    \/ SaveInsert(r) /\ Goto(r, "commit") /\ ~InsertConflicts(r)

(* All other steps are calm.                                               *)
LEMMA CalmStep ==
    ASSUME TypeInv, StartInv, DeleteInv, [Next]_vars, \A r \in Runs : ~Saves(r)
    PROVE  AllCalm /\ rows' = rows /\ design' = design
<1> DEFINE Goal == AllCalm /\ rows' = rows /\ design' = design
<1>0. run \in [Runs -> RunType] /\ \A r \in Runs : run[r] \in RunType
  BY DEF TypeInv, TypeOK
<1>1. ASSUME UNCHANGED run PROVE AllCalm
  BY <1>1 DEF AllCalm, Calm, Same
<1>2. ASSUME NEW j \in Jobs, \/ CreateJob(j) \/ DispatchFails(j) \/ CancelCommit(j)
                             \/ CancelFails(j) \/ Cleanup(j)
      PROVE  Goal
  <2> QED
    BY <1>1, <1>2 DEF CreateJob, DispatchFails, CancelCommit, CancelFails, Cleanup, table, fixed
<1>3. ASSUME NEW j \in Jobs, Dispatch(j) PROVE Goal
  <2>1. run[<<j, 1>>].pc = "idle"
    BY <1>3, FirstRun DEF Dispatch, StartInv
  <2>2. ASSUME Goto(<<j, 1>>, "begin") PROVE AllCalm
    BY <1>0, <2>1, <2>2, FirstRun, GotoCalm
  <2> QED
    BY <1>1, <1>3, <2>2 DEF Dispatch, table, fixed
<1>4. ASSUME NEW j \in Jobs, GenerateDirectly(j) PROVE Goal
  <2> DEFINE v == [run[<<j, 1>>] EXCEPT !.pc = "work", !.left = 1]
  <2>1. run[<<j, 1>>].pc = "idle" /\ run[<<j, 1>>] \in RunType
    BY <1>0, <1>4, FirstRun DEF GenerateDirectly, StartInv
  <2>2. v.pc = "work" /\ v.del = {}
    BY <2>1, FirstRun DEF RunType, DeleteInv
  <2>3. run' = [run EXCEPT ![<<j, 1>>] = v]
    BY <1>4 DEF GenerateDirectly
  <2>4. AllCalm
    <3> HIDE DEF v
    <3> QED
      BY <1>0, <2>2, <2>3, FirstRun, UpdateCalm
  <2> QED
    BY <1>4, <2>4 DEF GenerateDirectly, table, fixed
<1>5. ASSUME NEW j \in Jobs, Deliver(j) PROVE Goal
  <2> DEFINE r == <<j, deliveries[j] + 1>>
  <2>1. r \in Runs /\ run[r].pc = "idle"
    BY <1>5, BoundsAssumption DEF Deliver, TypeInv, TypeOK, Runs, StartInv
  <2>2. Goto(r, "open")
    BY <1>5 DEF Deliver
  <2> HIDE DEF r
  <2>3. AllCalm
    BY <1>0, <2>1, <2>2, GotoCalm
  <2> QED
    BY <1>5, <2>3 DEF Deliver, table, fixed
<1>6. ASSUME NEW j \in Jobs, CancelRead(j) PROVE Goal
  <2> DEFINE v == [run[<<j, 1>>] EXCEPT !.asked = TRUE]
  <2>1. run[<<j, 1>>] \in RunType
    BY <1>0, FirstRun
  <2>2. v.pc = run[<<j, 1>>].pc /\ v.del = run[<<j, 1>>].del /\ v.target = run[<<j, 1>>].target
    BY <2>1 DEF RunType
  <2>4. ASSUME run' = [run EXCEPT ![<<j, 1>>] = v] PROVE AllCalm
    BY <1>0, <2>2, <2>4, FirstRun, UpdateCalm
  <2>5. AllCalm
    BY <1>1, <1>6, <2>4 DEF CancelRead
  <2> QED
    BY <1>6, <2>5 DEF CancelRead, table, fixed
<1>7. ASSUME NEW r \in Runs,
             StartRead(r) \/ StartCommit(r) \/ CancelledEnd(r) \/ Notify(r) \/ FailCommit(r)
      PROVE  Goal
  <2>1. AllCalm
    BY <1>0, <1>7, GotoCalm DEF StartRead, StartCommit, NotStarted, CancelledEnd, Notify, FailCommit
  <2> QED
    BY <1>7, <2>1 DEF StartRead, StartCommit, NotStarted, CancelledEnd, Notify, FailCommit, table, fixed
<1>8. ASSUME NEW r \in Runs, NEW place,
             run' = [run EXCEPT ![r].pc = place, ![r].seen = status[r[1]]],
             run[r].pc \notin {"insert", "commit"}, place \notin {"delete", "commit"}
      PROVE  AllCalm
  <2> DEFINE v == [run[r] EXCEPT !.pc = place, !.seen = status[r[1]]]
  <2>1. run[r] \in RunType /\ run[r].del = {}
    BY <1>0, <1>8 DEF DeleteInv
  <2>2. v.pc = place /\ v.del = {}
    BY <2>1 DEF RunType
  <2> QED
    BY <1>0, <1>8, <2>2, UpdateCalm
<1>9. ASSUME NEW r \in Runs, OpenRead(r) \/ FinishRead(r) \/ FailRead(r) PROVE Goal
  <2>1. AllCalm
    BY <1>0, <1>8, <1>9, GotoCalm DEF OpenRead, FinishRead, FailRead
  <2> QED
    BY <1>9, <2>1 DEF OpenRead, FinishRead, FailRead, table, fixed
<1>10. ASSUME NEW r \in Runs, MarkCommit(r) PROVE Goal
  <2> DEFINE v == [run[r] EXCEPT !.pc = "work", !.left = Phases(r[1])]
  <2>1. run[r] \in RunType /\ run[r].del = {}
    BY <1>0, <1>10 DEF DeleteInv, MarkCommit
  <2>2. v.pc = "work" /\ v.del = {}
    BY <2>1 DEF RunType
  <2>3. ASSUME run' = [run EXCEPT ![r] = v] PROVE AllCalm
    BY <1>0, <2>2, <2>3, UpdateCalm
  <2>4. ASSUME Raise(r) PROVE AllCalm
    BY <1>0, <2>4, RaiseCalm
  <2>6. ASSUME Goto(r, "ending") PROVE AllCalm
    BY <1>0, <1>10, <2>6, GotoCalm DEF MarkCommit
  <2>5. AllCalm
    BY <1>10, <2>3, <2>4, <2>6 DEF MarkCommit, MarkRaises
  <2> QED
    BY <1>10, <2>5 DEF MarkCommit, table, fixed
<1>11. ASSUME NEW r \in Runs, Work(r) PROVE Goal
  <2> DEFINE v == [run[r] EXCEPT !.left = @ - 1,
                      !.pc = IF run[r].left = 1 THEN AfterWork(r[1]) ELSE @]
  <2>1. run[r] \in RunType /\ run[r].del = {} /\ run[r].pc = "work"
    BY <1>0, <1>11 DEF DeleteInv, Work
  <2>2. v.pc \notin {"delete", "commit"} /\ v.del = {}
    BY <2>1 DEF RunType, AfterWork
  <2>3. run' = [run EXCEPT ![r] = v]
    BY <1>11 DEF Work
  <2>4. AllCalm
    BY <1>0, <2>2, <2>3, UpdateCalm
  <2> QED
    BY <1>11, <2>4 DEF Work, table, fixed
<1>12. ASSUME NEW r \in Runs, StopWhenCancelled(r) PROVE Goal
  <2>1. AllCalm
    BY <1>0, <1>12, RaiseCalm DEF StopWhenCancelled
  <2> QED
    BY <1>12, <2>1 DEF StopWhenCancelled, table, fixed
<1>13. ASSUME NEW r \in Runs, WorkFails(r) PROVE Goal
  <2> DEFINE v == [run[r] EXCEPT !.pc = "finish", !.ok = FALSE]
  <2>1. run[r] \in RunType /\ run[r].del = {}
    BY <1>0, <1>13 DEF DeleteInv, WorkFails
  <2>2. v.pc = "finish" /\ v.del = {}
    BY <2>1 DEF RunType
  <2>3. ASSUME run' = [run EXCEPT ![r] = v] PROVE AllCalm
    BY <1>0, <2>2, <2>3, UpdateCalm
  <2>4. ASSUME Raise(r) PROVE AllCalm
    BY <1>0, <2>4, RaiseCalm
  <2>5. AllCalm
    BY <1>13, <2>3, <2>4 DEF WorkFails
  <2> QED
    BY <1>13, <2>5 DEF WorkFails, table, fixed
<1>14. ASSUME NEW r \in Runs, SaveStep(r) PROVE Goal
  <2>1. SaveInsert(r) /\ Raise(r)
    BY <1>14 DEF SaveStep, SaveInsert, Saves
  <2>2. AllCalm
    BY <1>0, <2>1, RaiseCalm
  <2> QED
    BY <2>1, <2>2 DEF SaveInsert, table, fixed
<1>15. ASSUME NEW r \in Runs, FinishCommit(r) PROVE Goal
  <2>1. AllCalm
    BY <1>0, <1>15, RaiseCalm, GotoCalm DEF FinishCommit
  <2> QED
    BY <1>15, <2>1 DEF FinishCommit, table, fixed
<1>16. ASSUME NEW r \in Runs, DatabaseError(r) PROVE Goal
  <2>1. ASSUME Raise(r) PROVE AllCalm
    BY <1>0, <2>1, RaiseCalm
  <2>2. ASSUME Unhandled(r), Goto(r, "ending") PROVE AllCalm
    BY <1>0, <2>2, GotoCalm DEF Unhandled
  <2>3. AllCalm
    BY <1>16, <2>1, <2>2 DEF DatabaseError
  <2> QED
    BY <1>16, <2>3 DEF DatabaseError, table, fixed
<1>17. ASSUME NEW r \in Runs, RunEnds(r) \/ RunDies(r) \/ WorkerLost(r) PROVE Goal
  <2>1. AllCalm
    BY <1>0, <1>1, <1>17, StoppedCalm DEF RunEnds, RunDies, WorkerLost
  <2> QED
    BY <1>17, <2>1 DEF RunEnds, RunDies, WorkerLost, table, fixed
<1>18. ASSUME UNCHANGED vars PROVE Goal
  BY <1>1, <1>18 DEF vars, fixed
<1>19. Goal
  <2> HIDE DEF Goal
  <2> QED
    BY <1>2, <1>3, <1>4, <1>5, <1>6, <1>7, <1>9, <1>10, <1>11, <1>12, <1>13, <1>14, <1>15,
       <1>16, <1>17, <1>18 DEF Next, RequestStep, RunStep
<1> QED
  BY <1>19 DEF Goal

-----------------------------------------------------------------------------
(* A table that is not empty holds one whole generation, with the first    *)
(* task of the first respondent.                                           *)
LEMMA OneGeneration ==
    ASSUME TypeInv, TasksOfOneGeneration, Occupied # {}
    PROVE  \E q \in Runs : rows = Whole(q) /\ Occupied = design[q[1]] /\ FirstKey \in Occupied
<1>1. PICK q \in Runs : rows = Whole(q)
  BY DEF TasksOfOneGeneration, Empty, Occupied, Present
<1>2. design[q[1]] \in Designs
  BY DEF TypeInv, TypeOK, Runs
<1>3. Occupied = design[q[1]]
  BY <1>1, <1>2, DesignsAssumption, NoneAssumption DEF Occupied, Present, Whole, Runs
<1> QED
  BY <1>1, <1>2, <1>3, DesignsAssumption

LEMMA SnapshotStep ==
    ASSUME TypeInv, SaveInv, NEW r \in Runs, SaveSnapshot(r)
    PROVE  SaveInv'
<1> DEFINE t == {Version(k) : k \in {l \in Keys : Present(l)}}
           v == [run[r] EXCEPT !.pc = "delete", !.target = t]
<1>1. run \in [Runs -> RunType] /\ run[r] \in RunType
  BY DEF TypeInv, TypeOK
<1>2. run[r].del = {}
  BY DEF SaveInv, DeleteInv, SaveSnapshot
<1>3. run' = [run EXCEPT ![r] = v] /\ UNCHANGED <<rows, design>>
  BY DEF SaveSnapshot, table, fixed
<1>4. v.pc = "delete" /\ v.target = t /\ v.del = {}
  BY <1>1, <1>2 DEF RunType
<1>5. \/ t = {}
      \/ \E q \in Runs : \A k \in Keys, x \in Runs :
            <<k, x>> \in t <=> x = q /\ k \in design[q[1]]
  <2>1. CASE rows = Empty
    BY <2>1 DEF Present, Empty
  <2>2. ASSUME NEW q \in Runs, rows = Whole(q)
        PROVE  \A k \in Keys, x \in Runs : <<k, x>> \in t <=> x = q /\ k \in design[q[1]]
    BY <2>2, NoneAssumption DEF Present, Version, Whole, Runs
  <2> QED
    BY <2>1, <2>2 DEF SaveInv, TasksOfOneGeneration
<1> HIDE DEF v, t
<1>6. TasksOfOneGeneration'
  BY <1>3 DEF SaveInv, TasksOfOneGeneration, Empty, Whole
<1>7. TargetInv'
  <2> SUFFICES ASSUME NEW s \in Runs, run'[s].pc = "delete"
               PROVE  \/ run'[s].target = {}
                      \/ \E q \in Runs : \A k \in Keys, x \in Runs :
                            <<k, x>> \in run'[s].target <=> x = q /\ k \in design[q[1]]
    BY <1>3 DEF TargetInv
  <2>1. CASE s = r
    BY <1>1, <1>3, <1>4, <1>5, <2>1
  <2>2. CASE s # r
    BY <1>1, <1>3, <2>2 DEF SaveInv, TargetInv
  <2> QED
    BY <2>1, <2>2
<1>8. DeleteInv'
  BY <1>1, <1>2, <1>3, <1>4 DEF SaveInv, DeleteInv, Occupied, Present
<1>9. CommitInv'
  BY <1>1, <1>3, <1>4 DEF SaveInv, CommitInv, Present
<1> QED
  BY <1>6, <1>7, <1>8, <1>9 DEF SaveInv

LEMMA DeleteStep ==
    ASSUME TypeInv, SaveInv, NEW r \in Runs, SaveDelete(r)
    PROVE  SaveInv'
<1> DEFINE v == [run[r] EXCEPT !.pc = "insert", !.del = Deletable(r), !.target = {}]
<1>1. run \in [Runs -> RunType] /\ run[r] \in RunType /\ run[r].pc = "delete"
  BY DEF TypeInv, TypeOK, SaveDelete
<1>2. run' = [run EXCEPT ![r] = v] /\ UNCHANGED <<rows, design>>
  BY DEF SaveDelete, table, fixed
<1>3. v.pc = "insert" /\ v.target = {} /\ v.del = Deletable(r)
  BY <1>1 DEF RunType
<1>4. Deletable(r) \in {{}, Occupied}
  <2>1. CASE run[r].target = {}
    BY <2>1 DEF Deletable
  <2>2. ASSUME NEW q \in Runs,
               \A k \in Keys, x \in Runs :
                    <<k, x>> \in run[r].target <=> x = q /\ k \in design[q[1]],
               Occupied # {}
        PROVE  Deletable(r) \in {{}, Occupied}
    <3>1. PICK p \in Runs : rows = Whole(p) /\ Occupied = design[p[1]]
      BY <2>2, OneGeneration DEF SaveInv
    <3>2. \A k \in Occupied : k \in Keys /\ Version(k) = <<k, p>>
      BY <3>1 DEF Occupied, Version, Whole
    <3>3. CASE p = q
      <4>1. \A k \in Occupied : Version(k) \in run[r].target
        BY <2>2, <3>1, <3>2, <3>3
      <4> QED
        BY <4>1 DEF Deletable, Occupied
    <3>4. CASE p # q
      <4>1. \A k \in Occupied : Version(k) \notin run[r].target
        BY <2>2, <3>2, <3>4
      <4> QED
        BY <4>1 DEF Deletable, Occupied
    <3> QED
      BY <3>3, <3>4
  <2>3. CASE Occupied = {}
    BY <2>3 DEF Deletable, Occupied
  <2> QED
    BY <1>1, <2>1, <2>2, <2>3 DEF SaveInv, TargetInv
<1>5. \A s \in Runs \ {r} : run[s].del \cap Deletable(r) = {}
  BY DEF SaveDelete, LockedByOther
<1> HIDE DEF v
<1>6. TasksOfOneGeneration'
  BY <1>2 DEF SaveInv, TasksOfOneGeneration, Empty, Whole
<1>7. TargetInv'
  BY <1>1, <1>2, <1>3 DEF SaveInv, TargetInv
<1>8. DeleteInv'
  <2>1. Occupied' = Occupied
    BY <1>2 DEF Occupied, Present
  <2>2. \A s \in Runs : run'[s] = IF s = r THEN v ELSE run[s]
    BY <1>1, <1>2
  <2>3. \A s \in Runs : run'[s].del = {} \/ run'[s].del = Occupied
    BY <1>3, <1>4, <2>2 DEF SaveInv, DeleteInv
  <2>4. \A s, q \in Runs : s # q => run'[s].del \cap run'[q].del = {}
    BY <1>3, <1>5, <2>2 DEF SaveInv, DeleteInv
  <2>5. \A s \in Runs : run'[s].del # {} => run'[s].pc \in {"insert", "commit"}
    BY <1>3, <2>2 DEF SaveInv, DeleteInv
  <2> QED
    BY <2>1, <2>3, <2>4, <2>5 DEF DeleteInv
<1>9. CommitInv'
  BY <1>1, <1>2, <1>3 DEF SaveInv, CommitInv, Present
<1> QED
  BY <1>6, <1>7, <1>8, <1>9 DEF SaveInv

LEMMA InsertStep ==
    ASSUME TypeInv, SaveInv, NEW r \in Runs, SaveInsert(r), Goto(r, "commit"),
           ~InsertConflicts(r)
    PROVE  SaveInv'
<1> DEFINE v == [run[r] EXCEPT !.pc = "commit"]
<1>1. run \in [Runs -> RunType] /\ run[r] \in RunType /\ run[r].pc = "insert"
  BY DEF TypeInv, TypeOK, SaveInsert
<1>2. run' = [run EXCEPT ![r] = v] /\ UNCHANGED <<rows, design>>
  BY DEF SaveInsert, Goto, table, fixed
<1>3. v.pc = "commit" /\ v.target = run[r].target /\ v.del = run[r].del
  BY <1>1 DEF RunType
<1>4. \A s \in Runs : FirstKey \in design[s[1]] /\ design[s[1]] \subseteq Keys
  BY DesignsAssumption DEF TypeInv, TypeOK, Runs
<1>5. \A s \in Runs : run[s].pc # "commit"
  BY <1>1, <1>4 DEF SaveInsert, InsertWaits
<1> HIDE DEF v
<1>6. TasksOfOneGeneration'
  BY <1>2 DEF SaveInv, TasksOfOneGeneration, Empty, Whole
<1>7. TargetInv'
  BY <1>1, <1>2, <1>3 DEF SaveInv, TargetInv
<1>8. DeleteInv'
  BY <1>1, <1>2, <1>3 DEF SaveInv, DeleteInv, Occupied, Present
<1>9. CommitInv'
  BY <1>1, <1>2, <1>3, <1>5 DEF CommitInv, InsertConflicts, Present
<1> QED
  BY <1>6, <1>7, <1>8, <1>9 DEF SaveInv

(* A commit replaces all the rows there are: it has deleted the first task *)
(* of the first respondent, hence all of them.                             *)
LEMMA CommitReplaces ==
    ASSUME TypeInv, SaveInv, NEW r \in Runs, SaveCommit(r)
    PROVE  rows' = Whole(r) /\ run[r].del = Occupied
<1>1. run[r].pc = "commit" /\ rows' = Replaced(r)
  BY DEF SaveCommit
<1>2. FirstKey \in design[r[1]]
  BY DesignsAssumption DEF TypeInv, TypeOK, Runs
<1>3. run[r].del = Occupied
  <2>1. CASE Occupied = {}
    BY <2>1 DEF SaveInv, DeleteInv
  <2>2. CASE Occupied # {}
    <3>1. FirstKey \in Keys /\ Present(FirstKey)
      BY <2>2, OneGeneration DEF SaveInv, Occupied
    <3>2. FirstKey \in run[r].del
      BY <1>1, <1>2, <3>1 DEF SaveInv, CommitInv
    <3> QED
      BY <3>2 DEF SaveInv, DeleteInv
  <2> QED
    BY <2>1, <2>2
<1> QED
  BY <1>1, <1>3 DEF Replaced, Whole, Occupied, Present

LEMMA CommitStep ==
    ASSUME TypeInv, SaveInv, NEW r \in Runs, SaveCommit(r)
    PROVE  SaveInv'
<1> DEFINE place == IF kind[r[1]] = "direct" THEN "ending" ELSE "finish"
           v == [run[r] EXCEPT !.pc = place, !.del = {}]
<1>1. run \in [Runs -> RunType] /\ run[r] \in RunType /\ run[r].pc = "commit"
  BY DEF TypeInv, TypeOK, SaveCommit
<1>2. run' = [run EXCEPT ![r] = v] /\ design' = design
  BY DEF SaveCommit, fixed
<1>3. v.pc \notin {"delete", "commit"} /\ v.del = {}
  BY <1>1 DEF RunType
<1>4. \A s \in Runs \ {r} : run[s].del = {} /\ run[s].pc # "commit"
  BY <1>1, CommitReplaces DEF SaveInv, DeleteInv, CommitInv
<1> HIDE DEF v
<1>5. \A s \in Runs : run'[s] = IF s = r THEN v ELSE run[s]
  BY <1>1, <1>2
<1>6. TasksOfOneGeneration'
  BY <1>2, CommitReplaces DEF TasksOfOneGeneration, Whole
<1>7. TargetInv'
  BY <1>2, <1>3, <1>5 DEF SaveInv, TargetInv
<1>8. DeleteInv'
  BY <1>3, <1>4, <1>5 DEF DeleteInv
<1>9. CommitInv'
  BY <1>3, <1>4, <1>5 DEF CommitInv
<1> QED
  BY <1>6, <1>7, <1>8, <1>9 DEF SaveInv

LEMMA SaveInvStep == TypeInv /\ StartInv /\ SaveInv /\ [Next]_vars => SaveInv'
<1> SUFFICES ASSUME TypeInv, StartInv, SaveInv, [Next]_vars PROVE SaveInv'
  OBVIOUS
<1>1. CASE \A r \in Runs : ~Saves(r)
  BY <1>1, CalmStep, OtherStep DEF SaveInv
<1>2. ASSUME NEW r \in Runs, Saves(r) PROVE SaveInv'
  BY <1>2, SnapshotStep, DeleteStep, InsertStep, CommitStep DEF Saves
<1> QED
  BY <1>1, <1>2

LEMMA StartInit == Init => StartInv
  BY DEF Init, StartInv, NewRun

(* The inductive invariant of the task table.                              *)
Inv == TypeInv /\ StartInv /\ SaveInv

LEMMA InvHolds == Spec => []Inv
<1>1. Init => Inv
  BY TypeInit, StartInit, SaveInit DEF Inv
<1>2. Inv /\ [Next]_vars => Inv'
  BY TypeStep, StartStep, SaveInvStep DEF Inv
<1> QED
  BY <1>1, <1>2, PTL DEF Spec

\* The task table holds one whole generation or nothing, for any number of
\* jobs, executions and faults.
THEOREM TableIsWhole == Spec => []TasksOfOneGeneration
<1>1. Inv => TasksOfOneGeneration
  BY DEF Inv, SaveInv
<1> QED
  BY <1>1, InvHolds, PTL

-----------------------------------------------------------------------------
(* An execution of a generation that reaches its end has saved its tasks.  *)
DoneInv == \A r \in Runs :
    Generates(r[1]) /\ run[r].pc \in {"finish", "complete"} => r[1] \in written

LEMMA UpdateDone ==
    ASSUME TypeInv, DoneInv, NEW r \in Runs, NEW v, run' = [run EXCEPT ![r] = v],
           Generates(r[1]) /\ v.pc \in {"finish", "complete"} => r[1] \in written',
           written \subseteq written', kind' = kind
    PROVE  DoneInv'
<1>1. run \in [Runs -> RunType]
  BY DEF TypeInv, TypeOK
<1> QED
  BY <1>1 DEF DoneInv, Generates

LEMMA SameDone ==
    ASSUME DoneInv, UNCHANGED <<run, written, kind>>
    PROVE  DoneInv'
  BY DEF DoneInv, Generates

LEMMA GotoDone ==
    ASSUME TypeInv, DoneInv, NEW r \in Runs, NEW place, Goto(r, place),
           Generates(r[1]) => place \notin {"finish", "complete"},
           UNCHANGED <<written, kind>>
    PROVE  DoneInv'
<1> DEFINE v == [run[r] EXCEPT !.pc = place]
<1>1. run[r] \in RunType
  BY DEF TypeInv, TypeOK
<1>2. v.pc = place
  BY <1>1 DEF RunType
<1> QED
  BY <1>2, UpdateDone DEF Goto

LEMMA RaiseDone ==
    ASSUME TypeInv, DoneInv, NEW r \in Runs, Raise(r), UNCHANGED <<written, kind>>
    PROVE  DoneInv'
<1>1. run[r] \in RunType
  BY DEF TypeInv, TypeOK
<1>2. Raised(r).pc = "fail"
  BY <1>1 DEF Raised, RunType
<1> QED
  BY <1>2, UpdateDone DEF Raise

LEMMA StoppedDone ==
    ASSUME TypeInv, DoneInv, NEW r \in Runs, run' = Stopped(r), UNCHANGED <<written, kind>>
    PROVE  DoneInv'
<1>1. [NewRun EXCEPT !.pc = "ended"].pc = "ended"
  BY DEF NewRun
<1> QED
  BY <1>1, UpdateDone DEF Stopped

LEMMA DoneStep == TypeInv /\ DoneInv /\ [Next]_vars => DoneInv'
<1> SUFFICES ASSUME TypeInv, DoneInv, [Next]_vars PROVE DoneInv'
  OBVIOUS
<1>0. \A r \in Runs : run[r] \in RunType
  BY DEF TypeInv, TypeOK
<1>1. ASSUME NEW j \in Jobs, \/ CreateJob(j) \/ DispatchFails(j) \/ CancelCommit(j)
                             \/ CancelFails(j) \/ Cleanup(j)
      PROVE  DoneInv'
  BY <1>1, SameDone DEF CreateJob, DispatchFails, CancelCommit, CancelFails, Cleanup, table, fixed
<1>2. ASSUME NEW j \in Jobs, Dispatch(j) PROVE DoneInv'
  BY <1>2, FirstRun, SameDone, GotoDone DEF Dispatch, table, fixed
<1>3. ASSUME NEW j \in Jobs, GenerateDirectly(j) PROVE DoneInv'
  <2> DEFINE v == [run[<<j, 1>>] EXCEPT !.pc = "work", !.left = 1]
  <2>1. run' = [run EXCEPT ![<<j, 1>>] = v] /\ UNCHANGED <<written, kind>>
    BY <1>3 DEF GenerateDirectly, table, fixed
  <2>2. v.pc = "work"
    BY <1>0, FirstRun DEF RunType
  <2> HIDE DEF v
  <2> QED
    BY <2>1, <2>2, FirstRun, UpdateDone
<1>4. ASSUME NEW j \in Jobs, Deliver(j) PROVE DoneInv'
  <2>1. <<j, deliveries[j] + 1>> \in Runs
    BY <1>4, BoundsAssumption DEF Deliver, TypeInv, TypeOK, Runs
  <2> QED
    BY <1>4, <2>1, GotoDone DEF Deliver, table, fixed
<1>5. ASSUME NEW j \in Jobs, CancelRead(j) PROVE DoneInv'
  <2> DEFINE v == [run[<<j, 1>>] EXCEPT !.asked = TRUE]
  <2>1. UNCHANGED <<written, kind>>
    BY <1>5 DEF CancelRead, table, fixed
  <2>2. v.pc = run[<<j, 1>>].pc
    BY <1>0, FirstRun DEF RunType
  <2>3. ASSUME run' = [run EXCEPT ![<<j, 1>>] = v] PROVE DoneInv'
    <3> HIDE DEF v
    <3>1. Generates(j) /\ v.pc \in {"finish", "complete"} => j \in written
      BY <2>2, FirstRun DEF DoneInv
    <3> QED
      BY <2>1, <2>3, <3>1, FirstRun, UpdateDone
  <2> QED
    BY <1>5, <2>1, <2>3, SameDone DEF CancelRead
<1>6. ASSUME NEW r \in Runs,
             StartRead(r) \/ StartCommit(r) \/ CancelledEnd(r) \/ Notify(r) \/ FailCommit(r)
      PROVE  DoneInv'
  BY <1>6, GotoDone DEF StartRead, StartCommit, NotStarted, CancelledEnd, Notify, FailCommit, table, fixed
<1>7. ASSUME NEW r \in Runs, NEW place, UNCHANGED <<written, kind>>,
             run' = [run EXCEPT ![r].pc = place, ![r].seen = status[r[1]]],
             place = "complete" => run[r].pc = "finish", place # "finish"
      PROVE  DoneInv'
  <2> DEFINE v == [run[r] EXCEPT !.pc = place, !.seen = status[r[1]]]
  <2>1. v.pc = place
    BY <1>0 DEF RunType
  <2>2. run' = [run EXCEPT ![r] = v]
    BY <1>7
  <2> HIDE DEF v
  <2>3. Generates(r[1]) /\ v.pc \in {"finish", "complete"} => r[1] \in written'
    BY <1>7, <2>1 DEF DoneInv
  <2> QED
    BY <1>7, <2>2, <2>3, UpdateDone
<1>8. ASSUME NEW r \in Runs, OpenRead(r) \/ FinishRead(r) \/ FailRead(r) PROVE DoneInv'
  BY <1>7, <1>8, GotoDone DEF OpenRead, FinishRead, FailRead, table, fixed
<1>9. ASSUME NEW r \in Runs, MarkCommit(r) PROVE DoneInv'
  <2> DEFINE v == [run[r] EXCEPT !.pc = "work", !.left = Phases(r[1])]
  <2>1. UNCHANGED <<written, kind>>
    BY <1>9 DEF MarkCommit, table, fixed
  <2>2. v.pc = "work"
    BY <1>0 DEF RunType
  <2>3. ASSUME run' = [run EXCEPT ![r] = v] PROVE DoneInv'
    <3> HIDE DEF v
    <3> QED
      BY <2>1, <2>2, <2>3, UpdateDone
  <2> QED
    BY <1>7, <1>9, <2>1, <2>3, RaiseDone, GotoDone DEF MarkCommit, MarkRaises
<1>10. ASSUME NEW r \in Runs, Work(r) PROVE DoneInv'
  <2> DEFINE v == [run[r] EXCEPT !.left = @ - 1,
                      !.pc = IF run[r].left = 1 THEN AfterWork(r[1]) ELSE @]
  <2>1. run' = [run EXCEPT ![r] = v] /\ UNCHANGED <<written, kind>>
    BY <1>10 DEF Work, table, fixed
  <2>2. Generates(r[1]) => v.pc \in {"save", "work"}
    BY <1>0, <1>10 DEF Work, AfterWork, RunType
  <2> HIDE DEF v
  <2> QED
    BY <2>1, <2>2, UpdateDone
<1>11. ASSUME NEW r \in Runs, WorkFails(r) PROVE DoneInv'
  <2> DEFINE v == [run[r] EXCEPT !.pc = "finish", !.ok = FALSE]
  <2>1. UNCHANGED <<written, kind>>
    BY <1>11 DEF WorkFails, table, fixed
  <2>2. ASSUME run' = [run EXCEPT ![r] = v], kind[r[1]] = "simulate" PROVE DoneInv'
    <3> HIDE DEF v
    <3>1. ~Generates(r[1])
      BY <2>2 DEF Generates
    <3> QED
      BY <2>1, <2>2, <3>1, UpdateDone
  <2> QED
    BY <1>11, <2>1, <2>2, RaiseDone DEF WorkFails
<1>12. ASSUME NEW r \in Runs, SaveSnapshot(r) PROVE DoneInv'
  <2> DEFINE v == [run[r] EXCEPT !.pc = "delete",
                       !.target = {Version(k) : k \in {l \in Keys : Present(l)}}]
  <2>1. run' = [run EXCEPT ![r] = v] /\ UNCHANGED <<written, kind>>
    BY <1>12 DEF SaveSnapshot, table, fixed
  <2>2. v.pc = "delete"
    BY <1>0 DEF RunType
  <2> HIDE DEF v
  <2> QED
    BY <2>1, <2>2, UpdateDone
<1>13. ASSUME NEW r \in Runs, SaveDelete(r) PROVE DoneInv'
  <2> DEFINE v == [run[r] EXCEPT !.pc = "insert", !.del = Deletable(r), !.target = {}]
  <2>1. run' = [run EXCEPT ![r] = v] /\ UNCHANGED <<written, kind>>
    BY <1>13 DEF SaveDelete, table, fixed
  <2>2. v.pc = "insert"
    BY <1>0 DEF RunType
  <2> HIDE DEF v
  <2> QED
    BY <2>1, <2>2, UpdateDone
<1>14. ASSUME NEW r \in Runs, SaveCommit(r) PROVE DoneInv'
  <2> DEFINE place == IF kind[r[1]] = "direct" THEN "ending" ELSE "finish"
             v == [run[r] EXCEPT !.pc = place, !.del = {}]
  <2>1. run' = [run EXCEPT ![r] = v] /\ kind' = kind /\ written' = written \cup {r[1]}
    BY <1>14 DEF SaveCommit, fixed
  <2> HIDE DEF v
  <2> QED
    BY <2>1, UpdateDone
<1>15. ASSUME NEW r \in Runs, \/ StopWhenCancelled(r) \/ SaveInsert(r) \/ FinishCommit(r)
                              \/ DatabaseError(r)
       PROVE  DoneInv'
  BY <1>15, GotoDone, RaiseDone
     DEF StopWhenCancelled, SaveInsert, FinishCommit, DatabaseError, table, fixed
<1>16. ASSUME NEW r \in Runs, RunEnds(r) \/ RunDies(r) \/ WorkerLost(r) PROVE DoneInv'
  BY <1>16, StoppedDone, SameDone DEF RunEnds, RunDies, WorkerLost, table, fixed
<1>17. CASE UNCHANGED vars
  BY <1>17, SameDone DEF vars, fixed
<1> QED
  BY <1>1, <1>2, <1>3, <1>4, <1>5, <1>6, <1>8, <1>9, <1>10, <1>11, <1>12, <1>13, <1>14, <1>15,
     <1>16, <1>17 DEF Next, RequestStep, RunStep, SaveStep

(* Only the last step of an execution completes a job.                     *)
LEMMA CompletedStep ==
    ASSUME TypeInv, [Next]_vars, NEW j \in Jobs, status'[j] = "completed",
           status[j] # "completed"
    PROVE  \E r \in Runs : r[1] = j /\ FinishCommit(r) /\ run[r].pc = "complete"
<1>0. status \in [Jobs -> Statuses] /\ \A r \in Runs : r[1] \in Jobs
  BY DEF TypeInv, TypeOK, Runs
<1>1. ASSUME NEW i \in Jobs, \/ RequestStep(i) \/ DispatchFails(i) \/ Deliver(i) \/ CancelRead(i)
                             \/ CancelCommit(i) \/ CancelFails(i) \/ Cleanup(i)
      PROVE  FALSE
  BY <1>0, <1>1 DEF RequestStep, CreateJob, Dispatch, GenerateDirectly, DispatchFails, Deliver,
     CancelRead, CancelCommit, CancelFails, Cleanup
<1>2. ASSUME NEW r \in Runs, RunStep(r) \/ DatabaseError(r) \/ RunDies(r) \/ WorkerLost(r)
      PROVE  FinishCommit(r)
  BY <1>0, <1>2 DEF RunStep, SaveStep, StartRead, StartCommit, NotStarted, OpenRead, MarkCommit, MarkRaises, Work,
     StopWhenCancelled, WorkFails, CancelledEnd, SaveSnapshot, SaveDelete, SaveInsert, SaveCommit,
     FinishRead, Notify, FailRead, FailCommit, RunEnds, DatabaseError, RunDies, WorkerLost, Assigned
<1>3. ASSUME NEW r \in Runs, FinishCommit(r) PROVE r[1] = j /\ run[r].pc = "complete"
  BY <1>0, <1>3 DEF FinishCommit, Assigned
<1>4. ~UNCHANGED vars
  BY DEF vars
<1> QED
  BY <1>1, <1>2, <1>3, <1>4 DEF Next

LEMMA WrittenGrows == [Next]_vars => written \subseteq written' /\ kind' = kind
  BY DEF Next, vars, fixed, table, RequestStep, CreateJob, Dispatch, GenerateDirectly, DispatchFails,
     Deliver, CancelRead, CancelCommit, CancelFails, Cleanup, RunStep, SaveStep, StartRead,
     StartCommit, NotStarted, OpenRead, MarkCommit, MarkRaises, Work, StopWhenCancelled, WorkFails, CancelledEnd,
     SaveSnapshot, SaveDelete, SaveInsert, SaveCommit, FinishRead, FinishCommit, Notify, FailRead,
     FailCommit, RunEnds, DatabaseError, RunDies, WorkerLost

LEMMA SavedStep ==
    TypeInv /\ DoneInv /\ CompletedMeansSaved /\ [Next]_vars => CompletedMeansSaved'
<1> SUFFICES ASSUME TypeInv, DoneInv, CompletedMeansSaved, [Next]_vars,
                    NEW j \in Jobs, Generates(j)', status'[j] = "completed"
             PROVE  j \in written'
  BY DEF CompletedMeansSaved
<1>1. Generates(j) /\ written \subseteq written'
  BY WrittenGrows DEF Generates
<1>2. CASE status[j] = "completed"
  BY <1>1, <1>2 DEF CompletedMeansSaved
<1>3. CASE status[j] # "completed"
  <2>1. PICK r \in Runs : r[1] = j /\ FinishCommit(r) /\ run[r].pc = "complete"
    BY <1>3, CompletedStep
  <2> QED
    BY <1>1, <2>1 DEF DoneInv
<1> QED
  BY <1>2, <1>3

\* A generation that is reported completed has committed its tasks, whatever
\* crashes, redeliveries and cancellations came between.
THEOREM CompletedIsSaved == Spec => []CompletedMeansSaved
<1>1. Init => DoneInv /\ CompletedMeansSaved
  BY DEF Init, DoneInv, CompletedMeansSaved, NewRun
<1>2. Inv /\ DoneInv /\ CompletedMeansSaved /\ [Next]_vars
        => DoneInv' /\ CompletedMeansSaved'
  BY DoneStep, SavedStep DEF Inv
<1> QED
  BY <1>1, <1>2, InvHolds, PTL DEF Spec

-----------------------------------------------------------------------------
(* The register that the table implements.                                 *)
Table == IF \E r \in Runs : rows = Whole(r)
           THEN CHOOSE r \in Runs : rows = Whole(r) ELSE None
Reported == {j \in Generators : status[j] = "completed"}

LEMMA FirstRow ==
    ASSUME TypeInv, NEW r \in Runs
    PROVE  FirstKey \in Keys /\ Whole(r)[FirstKey] = r
BY DesignsAssumption DEF TypeInv, TypeOK, Whole, Runs

TableIsWhose == \A r \in Runs : rows = Whole(r) => Table = r

LEMMA TableOf == TypeInv => TableIsWhose
BY FirstRow DEF TableIsWhose, Table

LEMMA RegisterInit == Init => Register!Init
<1> SUFFICES ASSUME Init PROVE Table = None /\ written = {} /\ Reported = {}
  BY DEF Register!Init, Table, Reported
<1>1. TypeInv
  BY TypeInit
<1>2. \A r \in Runs : r # None
  BY NoneAssumption DEF Runs
<1>3. \A r \in Runs : rows # Whole(r)
  BY <1>1, <1>2, FirstRow DEF Init
<1> QED
  BY <1>3 DEF Init, Table, Reported, Generators

LEMMA RegisterWrite ==
    ASSUME TypeInv, TypeInv', SaveInv, NEW r \in Runs, SaveCommit(r)
    PROVE  Register!Write(r[1], r[2])
<1>1. rows' = Whole(r)'
  BY CommitReplaces DEF SaveCommit, Whole, fixed
<1>2. TypeInv' => TableIsWhose'
  BY TableOf, PTL
<1>3. Table' = r
  BY <1>1, <1>2 DEF TableIsWhose
<1>4. written' = written \cup {r[1]} /\ Reported' = Reported
  BY DEF SaveCommit, Reported, Generators, Generates, fixed
<1>5. r = <<r[1], r[2]>>
  BY DEF Runs
<1> QED
  BY <1>3, <1>4, <1>5 DEF Register!Write, Table, Reported

(* A step changes the status of one job at most.                           *)
LEMMA OneStatus ==
    ASSUME TypeInv, [Next]_vars
    PROVE  UNCHANGED status \/ \E j \in Jobs : \A i \in Jobs \ {j} : status'[i] = status[i]
<1>0. status \in [Jobs -> Statuses] /\ \A r \in Runs : r[1] \in Jobs
  BY DEF TypeInv, TypeOK, Runs
<1>1. ASSUME NEW j \in Jobs, \/ RequestStep(j) \/ DispatchFails(j) \/ Deliver(j) \/ CancelRead(j)
                             \/ CancelCommit(j) \/ CancelFails(j) \/ Cleanup(j)
      PROVE  \A i \in Jobs \ {j} : status'[i] = status[i]
  BY <1>0, <1>1 DEF RequestStep, CreateJob, Dispatch, GenerateDirectly, DispatchFails, Deliver,
     CancelRead, CancelCommit, CancelFails, Cleanup
<1>2. ASSUME NEW r \in Runs, RunStep(r) \/ DatabaseError(r) \/ RunDies(r) \/ WorkerLost(r)
      PROVE  \A i \in Jobs \ {r[1]} : status'[i] = status[i]
  BY <1>0, <1>2 DEF RunStep, SaveStep, StartRead, StartCommit, NotStarted, OpenRead, MarkCommit, MarkRaises, Work,
     StopWhenCancelled, WorkFails, CancelledEnd, SaveSnapshot, SaveDelete, SaveInsert, SaveCommit,
     FinishRead, FinishCommit, Notify, FailRead, FailCommit, RunEnds, DatabaseError, RunDies,
     WorkerLost, Assigned
<1>3. CASE UNCHANGED vars
  BY <1>3 DEF vars
<1> QED
  BY <1>0, <1>1, <1>2, <1>3 DEF Next

LEMMA WrittenStays ==
    ASSUME [Next]_vars, \A r \in Runs : ~SaveCommit(r)
    PROVE  UNCHANGED written
BY DEF Next, vars, table, RequestStep, CreateJob, Dispatch, GenerateDirectly, DispatchFails,
     Deliver, CancelRead, CancelCommit, CancelFails, Cleanup, RunStep, SaveStep, StartRead,
     StartCommit, NotStarted, OpenRead, MarkCommit, MarkRaises, Work, StopWhenCancelled, WorkFails, CancelledEnd,
     SaveSnapshot, SaveDelete, SaveInsert, FinishRead, FinishCommit, Notify, FailRead,
     FailCommit, RunEnds, DatabaseError, RunDies, WorkerLost

LEMMA RowsStay ==
    ASSUME [Next]_vars, \A r \in Runs : ~SaveCommit(r)
    PROVE  UNCHANGED <<rows, design>>
BY DEF Next, vars, table, fixed, RequestStep, CreateJob, Dispatch, GenerateDirectly, DispatchFails,
     Deliver, CancelRead, CancelCommit, CancelFails, Cleanup, RunStep, SaveStep, StartRead,
     StartCommit, NotStarted, OpenRead, MarkCommit, MarkRaises, Work, StopWhenCancelled, WorkFails, CancelledEnd,
     SaveSnapshot, SaveDelete, SaveInsert, FinishRead, FinishCommit, Notify, FailRead,
     FailCommit, RunEnds, DatabaseError, RunDies, WorkerLost

LEMMA RegisterStep ==
    Inv /\ Inv' /\ CompletedMeansSaved' /\ [Next]_vars => [Register!Next]_(Register!vars)
<1> SUFFICES ASSUME Inv, Inv', CompletedMeansSaved', [Next]_vars
             PROVE  [Register!Next]_(Register!vars)
  OBVIOUS
<1>1. ASSUME NEW r \in Runs, SaveCommit(r) PROVE Register!Next
  <2>1. Register!Write(r[1], r[2])
    BY <1>1, RegisterWrite DEF Inv
  <2>2. r[1] \in Jobs /\ r[2] \in 1 .. MaxDeliveries
    BY DEF Runs
  <2> QED
    BY <2>1, <2>2 DEF Register!Next
<1>2. ASSUME \A r \in Runs : ~SaveCommit(r)
      PROVE  [Register!Next]_(Register!vars)
  <2>1. Table' = Table
    BY <1>2, RowsStay DEF Table, Whole
  <2>2. written' = written /\ Generators' = Generators
    BY <1>2, WrittenStays, WrittenGrows DEF Generators, Generates
  <2>3. CASE UNCHANGED status
    BY <2>1, <2>2, <2>3 DEF Register!vars, Table
  <2>4. ASSUME NEW j \in Jobs, \A i \in Jobs \ {j} : status'[i] = status[i]
        PROVE  Register!Next
    <3>1. CASE j \in Generators /\ status'[j] = "completed"
      <4>1. Reported' = Reported \cup {j}
        BY <2>2, <2>4, <3>1 DEF Reported, Generators
      <4>2. j \in written
        BY <2>2, <3>1 DEF CompletedMeansSaved, Generators
      <4>3. Register!Report(j)
        BY <2>1, <2>2, <4>1, <4>2 DEF Register!Report, Table, Reported
      <4> QED
        BY <4>3 DEF Register!Next
    <3>2. CASE ~(j \in Generators /\ status'[j] = "completed")
      <4>1. Reported' = Reported \ {j}
        BY <2>2, <2>4, <3>2 DEF Reported, Generators
      <4>2. Register!Withdraw(j)
        BY <2>1, <2>2, <4>1 DEF Register!Withdraw, Table, Reported
      <4> QED
        BY <4>2 DEF Register!Next
    <3> QED
      BY <3>1, <3>2
  <2>5. TypeInv
    BY DEF Inv
  <2> QED
    BY <2>3, <2>4, <2>5, OneStatus
<1> QED
  BY <1>1, <1>2

\* The task table and the reports of the jobs implement the register: a
\* generation takes effect at its commit, all at once, and is reported after.
THEOREM RegisterImplemented == Spec => ImplementsRegister
<1>1. Spec => Register!Init /\ [][Register!Next]_(Register!vars)
  BY RegisterInit, RegisterStep, InvHolds, CompletedIsSaved, PTL DEF Spec
<1> QED
  BY <1>1 DEF ImplementsRegister, Register!Spec

-----------------------------------------------------------------------------
(* Without a failure a job is executed once, and a completed job has       *)
(* nothing left to do but to tell so.                                      *)
Over == {"notify", "ending", "ended"}
OnceInv == faults = 0 => \A j \in Jobs :
    /\ message[j] = "queued" => deliveries[j] = 0
    /\ deliveries[j] <= 1
FreshInv == \A j \in Jobs : request[j] = "new" => status[j] = "none"
OverInv == faults = 0 => \A j \in Jobs : status[j] = "completed" => run[<<j, 1>>].pc \in Over

LEMMA FaultsGrow == TypeInv /\ [Next]_vars /\ faults' = 0 => faults = 0
<1> SUFFICES ASSUME TypeInv, [Next]_vars, faults' = 0 PROVE faults = 0
  OBVIOUS
<1>1. faults \in Nat
  BY BoundsAssumption DEF TypeInv, TypeOK
<1>2. ~Fault
  BY <1>1 DEF Fault
<1> QED
  BY <1>2 DEF Next, vars, RequestStep, CreateJob, Dispatch, GenerateDirectly, DispatchFails,
     Deliver, CancelRead, CancelCommit, CancelFails, Cleanup, RunStep, SaveStep, StartRead,
     StartCommit, NotStarted, OpenRead, MarkCommit, MarkRaises, Work, StopWhenCancelled, WorkFails, CancelledEnd,
     SaveSnapshot, SaveDelete, SaveInsert, SaveCommit, FinishRead, FinishCommit, Notify, FailRead,
     FailCommit, RunEnds, DatabaseError, RunDies, WorkerLost

LEMMA NoFault ==
    ASSUME TypeInv, [Next]_vars, faults' = 0
    PROVE  \/ \E j \in Jobs : \/ RequestStep(j) \/ Deliver(j) \/ CancelRead(j)
                              \/ CancelCommit(j) \/ Cleanup(j)
           \/ \E r \in Runs : RunStep(r)
           \/ UNCHANGED vars
<1>1. ~Fault
  BY BoundsAssumption DEF Fault, TypeInv, TypeOK
<1> QED
  BY <1>1 DEF Next, DispatchFails, CancelFails, DatabaseError, RunDies, WorkerLost

LEMMA OnceStep == TypeInv /\ StartInv /\ OnceInv /\ [Next]_vars => OnceInv'
<1> SUFFICES ASSUME TypeInv, StartInv, OnceInv, [Next]_vars, faults' = 0, NEW j \in Jobs
             PROVE  /\ message'[j] = "queued" => deliveries'[j] = 0
                    /\ deliveries'[j] <= 1
  BY DEF OnceInv
<1>0. /\ faults = 0
      /\ message \in [Jobs -> {"none", "queued", "held", "acked"}]
      /\ deliveries \in [Jobs -> 0 .. MaxDeliveries]
  BY FaultsGrow DEF TypeInv, TypeOK
<1>1. (message[j] = "queued" => deliveries[j] = 0) /\ deliveries[j] <= 1
  BY <1>0 DEF OnceInv
<1>2. ASSUME NEW i \in Jobs, \/ RequestStep(i) \/ Deliver(i) \/ CancelRead(i)
                             \/ CancelCommit(i) \/ Cleanup(i)
      PROVE  (message'[j] = "queued" => deliveries'[j] = 0) /\ deliveries'[j] <= 1
  BY <1>0, <1>1, <1>2 DEF RequestStep, CreateJob, Dispatch, GenerateDirectly, Deliver, OnDelivery,
     CancelRead, CancelCommit, Cleanup, StartInv, OnceInv
<1>3. ASSUME NEW r \in Runs, RunStep(r)
      PROVE  deliveries' = deliveries /\ (message'[j] = "queued" => message[j] = "queued")
  BY <1>0, <1>3 DEF RunStep, SaveStep, StartRead, StartCommit, NotStarted, OpenRead, MarkCommit, MarkRaises, Work,
     StopWhenCancelled, WorkFails, CancelledEnd, SaveSnapshot, SaveDelete, SaveInsert, SaveCommit,
     FinishRead, FinishCommit, Notify, FailRead, FailCommit, RunEnds, Acknowledged
<1>4. CASE UNCHANGED vars
  BY <1>1, <1>4 DEF vars
<1> QED
  BY <1>1, <1>2, <1>3, <1>4, NoFault

LEMMA FreshStep == TypeInv /\ FreshInv /\ [Next]_vars => FreshInv'
<1> SUFFICES ASSUME TypeInv, FreshInv, [Next]_vars PROVE FreshInv'
  OBVIOUS
<1>0. /\ status \in [Jobs -> Statuses] /\ \A r \in Runs : r[1] \in Jobs
      /\ request \in [Jobs -> {"new", "created", "sent", "gone"}]
  BY DEF TypeInv, TypeOK, Runs
<1>1. ASSUME NEW j \in Jobs, \/ RequestStep(j) \/ DispatchFails(j) \/ Deliver(j) \/ CancelRead(j)
                             \/ CancelCommit(j) \/ CancelFails(j) \/ Cleanup(j)
      PROVE  FreshInv'
  BY <1>0, <1>1 DEF FreshInv, RequestStep, CreateJob, Dispatch, GenerateDirectly, DispatchFails,
     Deliver, CancelRead, CancelCommit, CancelFails, Cleanup, Exists
<1>2. ASSUME NEW r \in Runs, RunStep(r) \/ DatabaseError(r) \/ RunDies(r) \/ WorkerLost(r)
      PROVE  FreshInv'
  BY <1>0, <1>2 DEF FreshInv, RunStep, SaveStep, StartRead, StartCommit, NotStarted, OpenRead, MarkCommit, MarkRaises, Work,
     StopWhenCancelled, WorkFails, CancelledEnd, SaveSnapshot, SaveDelete, SaveInsert, SaveCommit,
     FinishRead, FinishCommit, Notify, FailRead, FailCommit, RunEnds, DatabaseError, RunDies,
     WorkerLost, Assigned, Exists
<1>3. CASE UNCHANGED vars
  BY <1>3 DEF vars, FreshInv
<1> QED
  BY <1>1, <1>2, <1>3 DEF Next

LEMMA OneExecution ==
    ASSUME TypeInv, StartInv, OnceInv, faults = 0, NEW r \in Runs, run[r].pc # "idle"
    PROVE  r = <<r[1], 1>>
<1>1. r = <<r[1], r[2]>> /\ r[1] \in Jobs /\ r[2] \in 1 .. MaxDeliveries
  BY DEF Runs
<1>2. deliveries[r[1]] \in 0 .. MaxDeliveries /\ deliveries[r[1]] <= 1
  BY <1>1 DEF TypeInv, TypeOK, OnceInv
<1>3. ~(r[2] > deliveries[r[1]])
  BY DEF StartInv
<1>4. r[2] = 1
  BY <1>1, <1>2, <1>3, BoundsAssumption
<1> QED
  BY <1>1, <1>4

LEMMA OverStep ==
    TypeInv /\ StartInv /\ OnceInv /\ FreshInv /\ OverInv /\ [Next]_vars => OverInv'
<1> SUFFICES ASSUME TypeInv, StartInv, OnceInv, FreshInv, OverInv, [Next]_vars, faults' = 0,
                    NEW j \in Jobs, status'[j] = "completed"
             PROVE  run'[<<j, 1>>].pc \in Over
  BY DEF OverInv
<1>0. /\ faults = 0
      /\ run \in [Runs -> RunType]
      /\ \A r \in Runs : r = <<r[1], r[2]>> /\ r[1] \in Jobs /\ r[2] \in 1 .. MaxDeliveries
      /\ deliveries \in [Jobs -> 0 .. MaxDeliveries]
  BY FaultsGrow DEF TypeInv, TypeOK, Runs
<1>1. CASE status[j] # "completed"
  <2>1. PICK r \in Runs : r[1] = j /\ FinishCommit(r) /\ run[r].pc = "complete"
    BY <1>1, CompletedStep
  <2>3. r = <<j, 1>>
    BY <1>0, <2>1, OneExecution
  <2>4. Goto(r, "notify")
    BY <1>1, <2>1 DEF FinishCommit
  <2>5. run[r] \in RunType
    BY <1>0
  <2>6. run'[r].pc = "notify"
    BY <1>0, <2>4, <2>5 DEF Goto, RunType
  <2> QED
    BY <2>3, <2>6 DEF Over
<1>2. CASE status[j] = "completed"
  <2>0. run[<<j, 1>>].pc \in Over /\ <<j, 1>> \in Runs
    BY <1>0, <1>2, FirstRun DEF OverInv
  <2>1. ASSUME NEW i \in Jobs, Dispatch(i) \/ GenerateDirectly(i) \/ Deliver(i) \/ CancelRead(i)
        PROVE  run'[<<j, 1>>].pc = run[<<j, 1>>].pc
    <3>1. CASE CancelRead(i)
      BY <1>0, <2>0, <3>1, FirstRun DEF CancelRead, RunType
    <3>2. CASE Dispatch(i) \/ GenerateDirectly(i) \/ Deliver(i)
      <4>1. i # j
        BY <1>0, <1>2, <2>0, <3>2 DEF Dispatch, GenerateDirectly, Deliver, StartInv, OnceInv,
           FreshInv, Over
      <4> QED
        BY <1>0, <2>0, <3>2, <4>1 DEF Dispatch, GenerateDirectly, Deliver, Goto
    <3> QED
      BY <2>1, <3>1, <3>2
  <2>2. ASSUME NEW i \in Jobs, CreateJob(i) \/ CancelCommit(i) \/ Cleanup(i)
        PROVE  run' = run
    BY <2>2 DEF CreateJob, CancelCommit, Cleanup
  <2>3. ASSUME NEW r \in Runs, RunStep(r)
        PROVE  run'[<<j, 1>>].pc \in Over
    <3>1. CASE r # <<j, 1>>
      <4>1. \E v : run' = [run EXCEPT ![r] = v]
        BY <2>3 DEF RunStep, SaveStep, StartRead, StartCommit, NotStarted, OpenRead, MarkCommit, MarkRaises,
           Work, StopWhenCancelled, WorkFails, CancelledEnd, SaveSnapshot, SaveDelete, SaveInsert,
           SaveCommit, FinishRead, FinishCommit, Notify, FailRead, FailCommit, RunEnds, Goto, Raise,
           Stopped
      <4> QED
        BY <1>0, <2>0, <3>1, <4>1
    <3>2. CASE r = <<j, 1>>
      <4>1. Notify(r) \/ RunEnds(r)
        BY <2>0, <2>3, <3>2 DEF Over, RunStep, SaveStep, StartRead, StartCommit, OpenRead,
           MarkCommit, MarkRaises, Work, StopWhenCancelled, WorkFails, CancelledEnd, SaveSnapshot, SaveDelete,
           SaveInsert, SaveCommit, FinishRead, FinishCommit, FailRead, FailCommit
      <4>2. CASE Notify(r)
        BY <1>0, <3>2, <4>2 DEF Notify, Goto, Over, RunType
      <4>3. CASE RunEnds(r)
        BY <1>0, <3>2, <4>3 DEF RunEnds, Stopped, NewRun, Over
      <4> QED
        BY <4>1, <4>2, <4>3
    <3> QED
      BY <3>1, <3>2
  <2>4. CASE UNCHANGED vars
    BY <2>0, <2>4 DEF vars
  <2> QED
    BY <2>0, <2>1, <2>2, <2>3, <2>4, NoFault DEF RequestStep
<1> QED
  BY <1>1, <1>2

LEMMA FinalStep ==
    ASSUME TypeInv, StartInv, OnceInv, FreshInv, OverInv, [Next]_vars,
           NEW j \in Jobs, status[j] = "completed", faults = 0, cancel[j] # "decided"
    PROVE  status'[j] \in {"completed", "none"}
<1>0. /\ status \in [Jobs -> Statuses]
      /\ \A r \in Runs : r = <<r[1], r[2]>> /\ r[1] \in Jobs /\ r[2] \in 1 .. MaxDeliveries
      /\ deliveries \in [Jobs -> 0 .. MaxDeliveries]
  BY DEF TypeInv, TypeOK, Runs
<1>1. ASSUME NEW i \in Jobs, \/ RequestStep(i) \/ DispatchFails(i) \/ Deliver(i) \/ CancelRead(i)
                             \/ CancelCommit(i) \/ CancelFails(i) \/ Cleanup(i)
      PROVE  status'[j] \in {"completed", "none"}
  BY <1>0, <1>1 DEF RequestStep, CreateJob, Dispatch, GenerateDirectly, DispatchFails, Deliver,
     CancelRead, CancelCommit, CancelFails, Cleanup, FreshInv
<1>2. ASSUME NEW r \in Runs, StartCommit(r) \/ MarkCommit(r) \/ FinishCommit(r) \/ FailCommit(r)
      PROVE  status'[j] = status[j]
  <2>1. CASE r[1] = j
    <3>1. run[r].pc # "idle"
      BY <1>2 DEF StartCommit, MarkCommit, FinishCommit, FailCommit
    <3>2. r = <<j, 1>>
      BY <2>1, <3>1, OneExecution
    <3> QED
      BY <1>2, <3>2 DEF OverInv, Over, StartCommit, MarkCommit, FinishCommit, FailCommit
  <2>2. CASE r[1] # j
    BY <1>0, <1>2, <2>2 DEF StartCommit, MarkCommit, FinishCommit, FailCommit, Assigned
  <2> QED
    BY <2>1, <2>2
<1>3. ASSUME NEW r \in Runs, RunStep(r) \/ DatabaseError(r) \/ RunDies(r) \/ WorkerLost(r)
      PROVE  status'[j] = status[j]
  BY <1>2, <1>3 DEF RunStep, SaveStep, StartRead, OpenRead, Work, StopWhenCancelled, WorkFails,
     CancelledEnd, SaveSnapshot, SaveDelete, SaveInsert, SaveCommit, FinishRead, Notify, FailRead,
     RunEnds, DatabaseError, RunDies, WorkerLost
<1>4. CASE UNCHANGED vars
  BY <1>4 DEF vars
<1> QED
  BY <1>1, <1>3, <1>4 DEF Next

\* Without a failure a completed job stays completed until the clean-up.
THEOREM CompletedIsFinal == Spec => CompletionIsFinal
<1> DEFINE I == OnceInv /\ FreshInv /\ OverInv
           Final == \A j \in Jobs : status[j] = "completed" /\ faults = 0 /\ cancel[j] # "decided"
                        => status'[j] \in {"completed", "none"}
<1>1. Init => I
  BY DEF Init, OnceInv, FreshInv, OverInv
<1>2. Inv /\ I /\ [Next]_vars => I'
  BY OnceStep, FreshStep, OverStep DEF Inv
<1>3. Inv /\ I /\ [Next]_vars => [Final]_vars
  BY FinalStep DEF Inv
<1>4. Spec => [][Final]_vars
  BY <1>1, <1>2, <1>3, InvHolds, PTL DEF Spec
<1> QED
  BY <1>4 DEF CompletionIsFinal
=============================================================================
