----------------------- MODULE EvidenceRetention_proofs -----------------------
(***************************************************************************)
(* Evidence clips, for any incidents, cameras, frames and faults.          *)
(*                                                                         *)
(* Stages and Selected are the inductive part about clips: a task writes   *)
(* the row of its clip once, after the file, and the retention manager     *)
(* works on rows that stay unlocked and expired while it suspends.  Order  *)
(* is the one about frames: what a buffer holds is newer than what any     *)
(* task took from it.                                                      *)
(***************************************************************************)
EXTENDS EvidenceRetention, TLAPS

USE DEF Locking

Parts == {"pre", "post"}

\* The stages of a task that has not written its row.
BeforeRow == {"none", "scheduled", "pre", "waiting", "post", "merging", "persist"}

StagesOf(i) ==
    /\ task[i].pc \in {"none", "scheduled"} => task[i].pre = {}
    /\ task[i].pc \in {"none", "scheduled", "pre", "waiting"} => task[i].post = {}
    /\ task[i].pc \in BeforeRow => rows[i] = "none"
    /\ task[i].pc = "persist" => files[i] # {}
    /\ Locking(i) => rows[i] # "unlocked"

Stages == \A i \in Incidents : StagesOf(i)

Selected == \A i \in purge.selected : rows[i] = "unlocked" /\ i \in expired

-----------------------------------------------------------------------------
(* Types. *)

LEMMA TypeInit == Init => TypeOK
BY BoundsAssumption DEF Init, TypeOK, NoTask, IdlePurge, Severities

LEMMA FaultType == ASSUME TypeOK, Fault PROVE faults' \in 0..MaxFaults /\ faults' # 0
BY BoundsAssumption DEF TypeOK, Fault

LEMMA FrameTyped ==
    ASSUME TypeOK, NEW c \in Cameras, PushFrame(c) PROVE TypeOK'
<1>1. captured[c] + 1 \in Frames /\ captured[c] + 1 \in 0..MaxFrames
  BY BoundsAssumption DEF TypeOK, PushFrame, Frames
<1>2. \E oldest \in 1..(captured[c] + 1) :
        buffer' = [buffer EXCEPT ![c] =
                     {f \in buffer[c] \cup {captured[c] + 1} : f >= oldest}]
  BY DEF PushFrame, TypeOK
<1>3. buffer' \in [Cameras -> SUBSET Frames]
  BY <1>1, <1>2 DEF TypeOK
<1> QED BY <1>1, <1>3 DEF TypeOK, PushFrame, clips, tasks

TaskStages == {"none", "scheduled", "pre", "waiting", "post", "merging", "persist",
               "cleanup", "ended"}

Task == [pc : TaskStages, severity : Severities, pre : SUBSET Frames, post : SUBSET Frames]

LEMMA TaskTypes == TypeOK => task \in [Incidents -> Task]
BY DEF TypeOK, Task, TaskStages

LEMMA TaskMoves ==
    ASSUME NEW t \in Task, NEW pc \in TaskStages, NEW s \in SUBSET Frames
    PROVE  /\ [t EXCEPT !.pc = pc] \in Task
           /\ [t EXCEPT !.pc = pc, !.pre = s] \in Task
           /\ [t EXCEPT !.pc = pc, !.post = s] \in Task
BY DEF Task

LEMMA TaskTyped ==
    ASSUME TypeOK, NEW i \in Incidents, TaskStep(i) PROVE TypeOK'
<1>1. Buffered(i) \in SUBSET Frames /\ Taken(i) \in SUBSET Frames
  BY DEF Buffered, Taken, TypeOK
<1>2. ASSUME NEW t \in Task, task' = [task EXCEPT ![i] = t]
      PROVE  task' \in [Incidents -> Task]
  BY <1>2, TaskTypes
<1>3. task[i] \in Task
  BY TaskTypes
<1>4. task' \in [Incidents -> Task]
  <2> USE <1>1, <1>2, <1>3, TaskMoves DEF TaskStages
  <2>1. CASE FlushPre(i)
    BY <2>1 DEF FlushPre, FlushInto
  <2>2. CASE FlushPost(i)
    BY <2>2 DEF FlushPost, FlushInto
  <2>3. ASSUME NEW pc \in TaskStages, task' = [task EXCEPT ![i].pc = pc]
        PROVE  task' \in [Incidents -> Task]
    BY <2>3
  <2>4. CASE WriteStaging(i, "pre", "pre", "waiting")
    BY <2>3, <2>4 DEF WriteStaging
  <2>5. CASE WriteStaging(i, "post", "post", "merging")
    BY <2>3, <2>5 DEF WriteStaging
  <2>6. CASE MergeClip(i)
    BY <2>3, <2>6 DEF MergeClip
  <2>7. CASE MergeFails(i) \/ PersistClip(i) \/ Cleanup(i)
    BY <2>3, <2>7 DEF MergeFails, PersistClip, Cleanup
  <2> QED BY <2>1, <2>2, <2>4, <2>5, <2>6, <2>7 DEF TaskStep
<1>5. faults' \in 0..MaxFaults
  BY FaultType DEF TypeOK, TaskStep, FlushPre, WriteStaging, FlushPost, MergeClip,
                   MergeFails, PersistClip, Cleanup
<1>6. buffer' \in [Cameras -> SUBSET Frames]
  BY DEF TypeOK, TaskStep, FlushInto, FlushPre, WriteStaging, FlushPost, MergeClip,
         MergeFails, PersistClip, Cleanup, clips
<1>7. /\ files' \in [Incidents -> SUBSET Frames]
      /\ rows' \in [Incidents -> {"none", "unlocked", "locked"}]
      /\ staging' \subseteq Incidents \X Parts
  BY <1>1 DEF TypeOK, TaskStep, FlushInto, FlushPre, WriteStaging, FlushPost, MergeClip,
              MergeFails, PersistClip, Cleanup, clips, Parts
<1>8. UNCHANGED <<captured, camera, locked, expired, purge>> /\ ready' \subseteq Incidents
  BY DEF TypeOK, TaskStep, FlushInto, FlushPre, WriteStaging, FlushPost, MergeClip,
         MergeFails, PersistClip, Cleanup, clips
<1> QED BY <1>4, <1>5, <1>6, <1>7, <1>8 DEF TypeOK, Task, TaskStages, Parts

LEMMA PurgeTyped == ASSUME TypeOK, PurgeStep PROVE TypeOK'
<1> USE DEF TypeOK, clips, tasks
<1>1. CASE SelectExpired
  BY <1>1 DEF SelectExpired, Purgeable
<1>2. CASE RemoveFiles
  <2>1. PICK stuck : /\ IF stuck = {} THEN UNCHANGED faults ELSE Fault
                     /\ files' = [i \in Incidents |->
                                    IF i \in purge.selected \ stuck THEN {} ELSE files[i]]
    BY <1>2 DEF RemoveFiles
  <2> QED BY <1>2, <2>1, FaultType DEF RemoveFiles
<1>3. CASE CommitPurge
  BY <1>3 DEF CommitPurge, IdlePurge
<1>4. CASE PurgeFails
  BY <1>4, FaultType DEF PurgeFails, IdlePurge
<1> QED BY <1>1, <1>2, <1>3, <1>4 DEF PurgeStep

LEMMA RestartTyped == ASSUME TypeOK, Restart PROVE TypeOK'
<1>1. PICK partial : files' = [i \in Incidents |-> IF i \in partial THEN Taken(i)
                                                                    ELSE files[i]]
  BY DEF Restart
<1>2. files' \in [Incidents -> SUBSET Frames]
  BY <1>1 DEF Taken, TypeOK
<1>3. task' \in [Incidents -> Task]
  <2>1. NoTask \in Task
    BY DEF NoTask, Task, TaskStages, Severities
  <2>2. \A i \in Incidents : [task[i] EXCEPT !.pc = "ended"] \in Task
    BY TaskTypes, TaskMoves DEF TaskStages
  <2> QED BY <2>1, <2>2 DEF Restart
<1> QED BY <1>2, <1>3, FaultType DEF Restart, TypeOK, IdlePurge, Task, TaskStages

LEMMA TypeStep == TypeOK /\ [Next]_vars => TypeOK'
<1> SUFFICES ASSUME TypeOK, [Next]_vars PROVE TypeOK'
  OBVIOUS
<1>1. CASE UNCHANGED vars
  BY <1>1 DEF TypeOK, vars, clips, tasks
<1>2. ASSUME NEW i \in Incidents, NEW c \in Cameras, NEW sev \in Severities,
             RequestClip(i, c, sev)
      PROVE  TypeOK'
  <2>1. [task[i] EXCEPT !.pc = "scheduled", !.severity = sev] \in Task
    BY TaskTypes DEF Task, TaskStages
  <2>2. task' \in [Incidents -> Task]
    BY <1>2, <2>1, TaskTypes DEF RequestClip
  <2> QED BY <1>2, <2>2 DEF TypeOK, RequestClip, clips, Task, TaskStages
<1>3. ASSUME NEW i \in Incidents, LockIncident(i) \/ Expire(i)
      PROVE  TypeOK'
  BY <1>3 DEF TypeOK, LockIncident, Expire, clips, tasks
<1> QED BY <1>1, <1>2, <1>3, FrameTyped, TaskTyped, PurgeTyped, RestartTyped DEF Next

\* Type correctness, for any incidents, cameras and bounds.
THEOREM TypeCorrect == Spec => []TypeOK
BY TypeInit, TypeStep, PTL DEF Spec

-----------------------------------------------------------------------------
(* The row of a clip is written once, after its file, and deleted only when    *)
(* it is unlocked and expired.                                                 *)

\* Nothing of incident i that the invariants speak of changes.
Rests(i) ==
    /\ task'[i] = task[i] /\ files'[i] = files[i] /\ rows'[i] = rows[i]
    /\ (i \in expired' <=> i \in expired)

\* A step of one task leaves the other incidents and the purge alone.
LEMMA TaskFrame ==
    ASSUME TypeOK, NEW i \in Incidents, TaskStep(i)
    PROVE  /\ \A j \in Incidents \ {i} : Rests(j)
           /\ UNCHANGED <<expired, purge, captured, camera, locked>>
BY DEF TypeOK, Rests, TaskStep, FlushInto, FlushPre, WriteStaging, FlushPost, MergeClip,
       MergeFails, PersistClip, Cleanup, clips

LEMMA StagesInit == Init => Stages /\ Selected /\ RowsHaveFiles
BY DEF Init, NoTask, IdlePurge, Stages, StagesOf, Selected, RowsHaveFiles

LEMMA StagesTask ==
    ASSUME TypeOK, Stages, NEW i \in Incidents, TaskStep(i)
    PROVE  StagesOf(i)'
<1> USE TaskTypes DEF Stages, StagesOf, BeforeRow, clips
<1>1. task[i] \in Task /\ rows[i] \in {"none", "unlocked", "locked"} /\ StagesOf(i)
  BY DEF TypeOK
<1>2. CASE FlushPre(i)
  BY <1>1, <1>2 DEF FlushPre, FlushInto, Task
<1>3. CASE FlushPost(i)
  BY <1>1, <1>3 DEF FlushPost, FlushInto, Task
<1>4. CASE WriteStaging(i, "pre", "pre", "waiting")
  BY <1>1, <1>4 DEF WriteStaging, Task
<1>5. CASE WriteStaging(i, "post", "post", "merging")
  BY <1>1, <1>5 DEF WriteStaging, Task
<1>6. CASE MergeClip(i)
  <2>1. files'[i] # {}
    BY <1>6 DEF MergeClip, TypeOK
  <2> QED BY <1>1, <1>6, <2>1 DEF MergeClip, Task
<1>7. CASE MergeFails(i)
  BY <1>1, <1>7 DEF MergeFails, Task
<1>8. CASE PersistClip(i)
  <2>1. task'[i] = [task[i] EXCEPT !.pc = "cleanup"]
    BY <1>8 DEF PersistClip
  <2>2. rows'[i] \in {rows[i], IF Locking(i) THEN "locked" ELSE "unlocked"}
    BY <1>8 DEF PersistClip, TypeOK
  <2> QED BY <1>1, <2>1, <2>2 DEF Task
<1>9. CASE Cleanup(i)
  BY <1>1, <1>9 DEF Cleanup, Task
<1> QED BY <1>2, <1>3, <1>4, <1>5, <1>6, <1>7, <1>8, <1>9 DEF TaskStep

LEMMA StagesStep == TypeOK /\ Stages /\ Selected /\ [Next]_vars => Stages'
<1> SUFFICES ASSUME TypeOK, Stages, Selected, [Next]_vars, NEW i \in Incidents
             PROVE  StagesOf(i)'
  BY DEF Stages
<1> USE TaskTypes DEF StagesOf, BeforeRow, clips, tasks
<1>1. StagesOf(i) /\ task[i] \in Task /\ rows[i] \in {"none", "unlocked", "locked"}
  BY DEF Stages, TypeOK
<1>2. CASE Rests(i)
  BY <1>1, <1>2 DEF Rests
<1>3. ASSUME \/ UNCHANGED vars \/ \E c \in Cameras : PushFrame(c)
             \/ \E j \in Incidents : LockIncident(j)
             \/ SelectExpired \/ PurgeFails
      PROVE  Rests(i)
  BY <1>3 DEF vars, PushFrame, LockIncident, SelectExpired, PurgeFails, Rests
<1>4. ASSUME NEW j \in Incidents, NEW c \in Cameras, NEW sev \in Severities,
             RequestClip(j, c, sev)
      PROVE  StagesOf(i)'
  <2>1. CASE i # j
    BY <1>2, <1>4, <2>1 DEF RequestClip, Rests
  <2>2. CASE i = j
    <3>1. task'[i] = [task[i] EXCEPT !.pc = "scheduled", !.severity = sev]
      BY <1>4, <2>2 DEF RequestClip
    <3> QED BY <1>1, <1>4, <2>2, <3>1 DEF RequestClip, Task
  <2> QED BY <2>1, <2>2
<1>5. ASSUME NEW j \in Incidents, TaskStep(j)
      PROVE  StagesOf(i)'
  BY <1>2, <1>5, StagesTask, TaskFrame
<1>6. ASSUME NEW j \in Incidents, Expire(j)
      PROVE  StagesOf(i)'
  BY <1>1, <1>6 DEF Expire
<1>7. CASE RemoveFiles
  <2>1. UNCHANGED <<task, rows>>
    BY <1>7 DEF RemoveFiles
  <2>2. task[i].pc = "persist" => i \notin purge.selected
    BY <1>1 DEF Selected
  <2>3. i \notin purge.selected => files'[i] = files[i]
    BY <1>7 DEF RemoveFiles
  <2> QED BY <1>1, <2>1, <2>2, <2>3
<1>8. CASE CommitPurge
  BY <1>1, <1>8 DEF CommitPurge
<1>9. CASE Restart
  <2>1. task'[i] = IF task[i].pc = "none" THEN NoTask ELSE [task[i] EXCEPT !.pc = "ended"]
    BY <1>9 DEF Restart
  <2>2. rows' = rows
    BY <1>9 DEF Restart
  <2> QED BY <1>1, <2>1, <2>2 DEF NoTask, Task
<1> QED BY <1>2, <1>3, <1>4, <1>5, <1>6, <1>7, <1>8, <1>9 DEF Next, PurgeStep

\* What the row and the file of incident i may do in a step of its own task.
LEMMA OwnClip ==
    ASSUME TypeOK, Stages, NEW i \in Incidents, TaskStep(i)
    PROVE  /\ rows'[i] # rows[i] => task[i].pc = "persist" /\ task'[i].pc = "cleanup"
           /\ rows'[i] \in {rows[i], IF Locking(i) THEN "locked" ELSE "unlocked"}
           /\ files'[i] # files[i] => task[i].pc = "merging" /\ files'[i] # {}
           /\ expired' = expired /\ task'[i].severity = task[i].severity
<1> USE TaskTypes DEF clips
<1>0. task[i] \in Task
  OBVIOUS
<1>1. CASE FlushPre(i) \/ FlushPost(i)
  <2>1. /\ task[i].pc \in {"scheduled", "waiting"} /\ task'[i].pc \in {"pre", "post"}
        /\ task'[i].severity = task[i].severity
    <3>1. CASE FlushPre(i)
      <4>1. task'[i] = [task[i] EXCEPT !.pc = "pre", !.pre = Buffered(i)]
        BY <3>1 DEF FlushPre, FlushInto
      <4> QED BY <1>0, <3>1, <4>1 DEF FlushPre, Task
    <3>2. CASE FlushPost(i)
      <4>1. task'[i] = [task[i] EXCEPT !.pc = "post", !.post = Buffered(i)]
        BY <3>2 DEF FlushPost, FlushInto
      <4> QED BY <1>0, <3>2, <4>1 DEF FlushPost, Task
    <3> QED BY <1>1, <3>1, <3>2
  <2>2. UNCHANGED <<rows, files, expired>>
    BY <1>1 DEF FlushPre, FlushPost
  <2> QED BY <2>1, <2>2
<1>2. CASE WriteStaging(i, "pre", "pre", "waiting") \/ MergeFails(i) \/ Cleanup(i)
           \/ WriteStaging(i, "post", "post", "merging")
  BY <1>0, <1>2 DEF WriteStaging, MergeFails, Cleanup, Task
<1>3. CASE MergeClip(i)
  <2>1. task'[i] = [task[i] EXCEPT !.pc = "persist"] /\ files'[i] = Taken(i)
    BY <1>3 DEF MergeClip, TypeOK
  <2> QED BY <1>0, <1>3, <2>1 DEF MergeClip, Task
<1>4. CASE PersistClip(i)
  <2>1. task'[i] = [task[i] EXCEPT !.pc = "cleanup"] /\ UNCHANGED <<files, expired>>
        /\ task[i].pc = "persist"
    BY <1>4 DEF PersistClip
  <2>2. rows'[i] \in {rows[i], IF Locking(i) THEN "locked" ELSE "unlocked"}
    BY <1>4 DEF PersistClip, TypeOK
  <2> QED BY <1>0, <2>1, <2>2 DEF Task
<1> QED BY <1>1, <1>2, <1>3, <1>4 DEF TaskStep

\* Files and rows disappear in the hands of the retention manager only, and
\* only those it selected.
LEMMA ClipKept ==
    ASSUME TypeOK, Stages, Selected, [Next]_vars, NEW i \in Incidents, rows[i] # "none"
    PROVE  /\ rows'[i] = rows[i] \/ (rows'[i] = "none" /\ i \in purge.selected)
           /\ files'[i] = files[i] \/ i \in purge.selected
           /\ i \in expired => i \in expired' \/ rows'[i] = "none"
<1> USE DEF clips, tasks
<1>1. task[i].pc \notin BeforeRow
  BY DEF Stages, StagesOf
<1>2. ASSUME \/ UNCHANGED vars \/ \E c \in Cameras : PushFrame(c)
             \/ \E j \in Incidents : LockIncident(j)
             \/ \E j \in Incidents, c \in Cameras, sev \in Severities : RequestClip(j, c, sev)
             \/ SelectExpired \/ PurgeFails
      PROVE  UNCHANGED clips
  BY <1>2 DEF vars, PushFrame, LockIncident, RequestClip, SelectExpired, PurgeFails
<1>3. ASSUME NEW j \in Incidents, TaskStep(j)
      PROVE  rows'[i] = rows[i] /\ files'[i] = files[i] /\ expired' = expired
  <2>1. CASE i = j
    BY <1>1, <1>3, <2>1, OwnClip DEF BeforeRow
  <2>2. CASE i # j
    BY <1>3, <2>2, TaskFrame DEF Rests
  <2> QED BY <2>1, <2>2
<1>4. ASSUME NEW j \in Incidents, Expire(j)
      PROVE  UNCHANGED <<rows, files>> /\ expired \subseteq expired'
  BY <1>4 DEF Expire
<1>5. CASE RemoveFiles
  BY <1>5 DEF RemoveFiles
<1>6. CASE CommitPurge
  BY <1>6 DEF CommitPurge
<1>7. CASE Restart
  BY <1>1, <1>7 DEF Restart, BeforeRow
<1> QED BY <1>2, <1>3, <1>4, <1>5, <1>6, <1>7 DEF Next, PurgeStep

LEMMA SelectedStep == TypeOK /\ Stages /\ Selected /\ [Next]_vars => Selected'
<1> SUFFICES ASSUME TypeOK, Stages, Selected, [Next]_vars, NEW i \in purge'.selected
             PROVE  rows'[i] = "unlocked" /\ i \in expired'
  BY DEF Selected
<1> USE DEF clips, tasks
<1>1. CASE SelectExpired
  BY <1>1 DEF SelectExpired, Purgeable
<1>2. CASE CommitPurge \/ PurgeFails \/ Restart
  BY <1>2 DEF CommitPurge, PurgeFails, Restart, IdlePurge
<1>3. CASE ~(SelectExpired \/ CommitPurge \/ PurgeFails \/ Restart)
  <2>1. purge'.selected = purge.selected
    <3>1. CASE RemoveFiles
      BY <3>1 DEF RemoveFiles, TypeOK
    <3>2. CASE \E j \in Incidents : TaskStep(j)
      BY <3>2, TaskFrame
    <3>3. CASE ~RemoveFiles /\ ~ \E j \in Incidents : TaskStep(j)
      BY <1>3, <3>3 DEF Next, PurgeStep, vars, PushFrame, LockIncident, RequestClip, Expire
    <3> QED BY <3>1, <3>2, <3>3
  <2>2. i \in Incidents /\ rows[i] = "unlocked" /\ i \in expired
    BY <2>1 DEF Selected, TypeOK
  <2>3. rows'[i] # "none"
    <3>1. CASE \E j \in Incidents : TaskStep(j)
      <4>1. PICK j \in Incidents : TaskStep(j)
        BY <3>1
      <4>2. CASE i = j
        BY <2>2, <4>1, <4>2, OwnClip
      <4>3. CASE i # j
        BY <2>2, <4>1, <4>3, TaskFrame DEF Rests
      <4> QED BY <4>2, <4>3
    <3>2. CASE ~ \E j \in Incidents : TaskStep(j)
      <4>1. UNCHANGED rows
        BY <1>3, <3>2 DEF Next, PurgeStep, vars, PushFrame, LockIncident, RequestClip,
                          Expire, RemoveFiles
      <4> QED BY <2>2, <4>1
    <3> QED BY <3>1, <3>2
  <2> QED BY <2>2, <2>3, ClipKept
<1> QED BY <1>1, <1>2, <1>3

ClipInv == TypeOK /\ Stages /\ Selected

LEMMA ClipInvStep == ClipInv /\ [Next]_vars => ClipInv'
BY TypeStep, StagesStep, SelectedStep DEF ClipInv

LEMMA ClipInvAlways == Spec => []ClipInv
<1>1. Init => ClipInv
  BY TypeInit, StagesInit DEF ClipInv
<1> QED BY <1>1, ClipInvStep, PTL DEF Spec

\* A row appears in the commit of a task, which wrote the file before.
LEMMA RowAppears ==
    ASSUME ClipInv, [Next]_vars, NEW i \in Incidents, rows[i] = "none", rows'[i] # "none"
    PROVE  files[i] # {} /\ files'[i] = files[i]
<1> USE DEF ClipInv, clips, tasks
<1>1. ASSUME NEW j \in Incidents, TaskStep(j)
      PROVE  files[i] # {} /\ files'[i] = files[i]
  <2>1. i = j
    BY <1>1, TaskFrame DEF Rests
  <2>2. task[i].pc = "persist"
    BY <1>1, <2>1, OwnClip
  <2> QED BY <1>1, <2>1, <2>2, OwnClip DEF Stages, StagesOf
<1>2. CASE CommitPurge
  BY <1>2 DEF CommitPurge
<1>3. CASE ~CommitPurge /\ ~ \E j \in Incidents : TaskStep(j)
  BY <1>3 DEF Next, PurgeStep, vars, PushFrame, LockIncident, RequestClip,
              Expire, RemoveFiles, SelectExpired, PurgeFails, Restart
<1> QED BY <1>1, <1>2, <1>3

\* A clip in the table has its file, unless its retention period has passed and
\* it is not locked: no purge, error or restart takes the file of another one.
THEOREM RowsHaveFilesAlways == Spec => []RowsHaveFiles
<1>1. ASSUME ClipInv, RowsHaveFiles, [Next]_vars
      PROVE  RowsHaveFiles'
  <2> SUFFICES ASSUME NEW i \in Incidents, rows'[i] # "none"
               PROVE  files'[i] # {} \/ (i \in expired' /\ rows'[i] = "unlocked")
    BY DEF RowsHaveFiles
  <2>1. CASE rows[i] = "none"
    BY <1>1, <2>1, RowAppears
  <2>2. CASE rows[i] # "none"
    <3>1. files[i] # {} \/ (i \in expired /\ rows[i] = "unlocked")
      BY <1>1, <2>2 DEF RowsHaveFiles
    <3>2. i \in purge.selected => i \in expired /\ rows[i] = "unlocked"
      BY <1>1 DEF ClipInv, Selected
    <3> QED BY <1>1, <2>2, <3>1, <3>2, ClipKept DEF ClipInv
  <2> QED BY <2>1, <2>2
<1>2. Init => RowsHaveFiles
  BY StagesInit
<1> QED BY <1>1, <1>2, ClipInvAlways, PTL DEF Spec

\* The clip of an incident created as HIGH stays on disk and in the table.
LockedClipKept ==
    [][\A i \in Incidents :
         Locking(i) /\ rows[i] # "none" => rows'[i] # "none" /\ files'[i] = files[i]]_vars

\* The clip of an incident created as HIGH is never touched again, by a purge
\* that selected rows before, by an error or by a restart.
THEOREM LockedClipKeptAlways == Spec => LockedClipKept
<1>1. ASSUME ClipInv, [Next]_vars, NEW i \in Incidents, Locking(i), rows[i] # "none"
      PROVE  rows'[i] # "none" /\ files'[i] = files[i]
  <2>1. i \notin purge.selected
    BY <1>1 DEF ClipInv, Stages, StagesOf, Selected
  <2> QED BY <1>1, <2>1, ClipKept DEF ClipInv
<1>2. ClipInv /\ [Next]_vars
        => [\A i \in Incidents :
              Locking(i) /\ rows[i] # "none" => rows'[i] # "none" /\ files'[i] = files[i]]_vars
  BY <1>1
<1> QED BY <1>2, ClipInvAlways, PTL DEF Spec, LockedClipKept

-----------------------------------------------------------------------------
(* Frames: a flush takes what is newer than every earlier flush of the camera. *)

Order ==
    /\ \A c \in Cameras : \A f \in buffer[c] : f <= captured[c]
    /\ \A i \in Incidents : \A c, d \in camera[i] : c = d
    /\ \A i \in Incidents : \A c \in camera[i] : \A f \in Taken(i) :
         /\ f <= captured[c]
         /\ \A g \in buffer[c] : f < g

FrameInv == ClipInv /\ Order /\ FramesTakenOnce

LEMMA FrameInvInit == Init => FrameInv
BY TypeInit, StagesInit
   DEF Init, NoTask, FrameInv, ClipInv, Order, FramesTakenOnce, Taken

\* A step that moves no frame keeps the order of the frames.
LEMMA FramesRest ==
    ASSUME FrameInv, UNCHANGED <<captured, camera>>,
           \A c \in Cameras : buffer'[c] \subseteq buffer[c],
           \A i \in Incidents : task'[i].pre = task[i].pre /\ task'[i].post = task[i].post
    PROVE  Order' /\ FramesTakenOnce'
<1>1. \A i \in Incidents : Taken(i)' = Taken(i) /\ camera[i] \subseteq Cameras
  BY DEF Taken, FrameInv, ClipInv, TypeOK
<1>2. Order'
  BY <1>1 DEF FrameInv, Order
<1>3. FramesTakenOnce'
  BY <1>1 DEF FrameInv, FramesTakenOnce
<1> QED BY <1>2, <1>3

LEMMA FramesPushed ==
    ASSUME FrameInv, NEW c \in Cameras, PushFrame(c)
    PROVE  Order' /\ FramesTakenOnce'
<1> USE DEF FrameInv, ClipInv
<1>1. /\ captured[c] \in Nat /\ captured' = [captured EXCEPT ![c] = captured[c] + 1]
      /\ UNCHANGED <<camera, task>>
  BY BoundsAssumption DEF PushFrame, TypeOK, tasks
<1>2. \A d \in Cameras : captured[d] \in Nat /\ captured'[d] \in Nat
                         /\ captured[d] <= captured'[d]
  BY <1>1, BoundsAssumption DEF TypeOK
<1>3. PICK oldest : buffer' = [buffer EXCEPT ![c] =
                                 {f \in buffer[c] \cup {captured[c] + 1} : f >= oldest}]
  BY DEF PushFrame, TypeOK
<1>4. \A d \in Cameras : \A g \in buffer'[d] :
        g \in buffer[d] \/ (d = c /\ g = captured[c] + 1)
  BY <1>3 DEF TypeOK
<1>5. \A i \in Incidents : camera[i] \subseteq Cameras /\ Taken(i)' = Taken(i)
                           /\ Taken(i) \subseteq Nat
  BY <1>1 DEF TypeOK, Taken, Frames
<1>6. \A d \in Cameras : buffer[d] \subseteq Nat
  BY DEF TypeOK, Frames
<1>7. ASSUME NEW d \in Cameras, NEW g \in buffer'[d]
      PROVE  g <= captured'[d]
  BY <1>1, <1>2, <1>4, <1>6, <1>7 DEF Order, TypeOK
<1>8. ASSUME NEW i \in Incidents, NEW d \in camera[i], NEW f \in Taken(i)
      PROVE  f <= captured'[d] /\ \A g \in buffer'[d] : f < g
  <2>1. d \in Cameras /\ f \in Nat /\ f <= captured[d] /\ \A g \in buffer[d] : f < g
    BY <1>5, <1>8 DEF Order
  <2>2. f <= captured'[d]
    BY <1>2, <2>1
  <2>3. ASSUME NEW g \in buffer'[d] PROVE f < g
    BY <1>1, <1>4, <2>1, <2>3
  <2> QED BY <2>2, <2>3
<1>9. Order'
  BY <1>1, <1>5, <1>7, <1>8 DEF Order
<1> QED BY <1>1, <1>5, <1>9 DEF FramesTakenOnce

\* The flush of a task leaves its camera's buffer empty, and adds what was in
\* it to the task's frames.
LEMMA FramesFlushed ==
    ASSUME FrameInv, NEW i \in Incidents, FlushPre(i) \/ FlushPost(i)
    PROVE  Order' /\ FramesTakenOnce'
<1> USE DEF FrameInv, ClipInv
<1>1. /\ UNCHANGED <<captured, camera>>
      /\ buffer' = [c \in Cameras |-> IF c \in camera[i] THEN {} ELSE buffer[c]]
      /\ \A j \in Incidents \ {i} : task'[j] = task[j]
  BY DEF FlushPre, FlushPost, FlushInto, TypeOK
<1>2. task[i] \in Task /\ StagesOf(i)
  BY TaskTypes DEF Stages
<1>3. \/ task'[i].pre = Buffered(i) /\ task[i].pre = {}
         /\ task'[i].post = {} /\ task[i].post = {}
      \/ task'[i].pre = task[i].pre /\ task'[i].post = Buffered(i) /\ task[i].post = {}
  <2>1. CASE FlushPre(i)
    <3>1. task'[i] = [task[i] EXCEPT !.pc = "pre", !.pre = Buffered(i)]
          /\ task[i].pc = "scheduled"
      BY <2>1, TaskTypes DEF FlushPre, FlushInto
    <3> QED BY <1>2, <3>1 DEF StagesOf, Task
  <2>2. CASE FlushPost(i)
    <3>1. task'[i] = [task[i] EXCEPT !.pc = "post", !.post = Buffered(i)]
          /\ task[i].pc = "waiting"
      BY <2>2, TaskTypes DEF FlushPost, FlushInto
    <3> QED BY <1>2, <3>1 DEF StagesOf, Task
  <2> QED BY <2>1, <2>2
<1>4. Taken(i)' = Taken(i) \cup Buffered(i)
  BY <1>3 DEF Taken
<1>5. \A j \in Incidents \ {i} : Taken(j)' = Taken(j)
  BY <1>1 DEF Taken
<1>6. ASSUME NEW j \in Incidents
      PROVE  camera[j] \subseteq Cameras
  BY DEF TypeOK
<1>7. ASSUME NEW c \in camera[i], NEW g \in Buffered(i)
      PROVE  g \in buffer[c] /\ g <= captured[c] /\ buffer'[c] = {}
  <2>1. g \in buffer[c]
    BY <1>7 DEF Buffered, Order
  <2>2. c \in Cameras
    BY <1>6, <1>7
  <2> QED BY <1>1, <2>1, <2>2 DEF Order
<1>8. \A c \in camera[i] : buffer'[c] = {}
  BY <1>1, <1>6
<1>9. ASSUME NEW j \in Incidents, NEW c \in camera[j], NEW f \in Taken(j)'
      PROVE  f <= captured[c] /\ \A g \in buffer'[c] : f < g
  <2>1. CASE j = i
    BY <1>4, <1>7, <1>8, <1>9, <2>1 DEF Order
  <2>2. CASE j # i
    <3>1. buffer'[c] \subseteq buffer[c]
      BY <1>1, <1>6, <1>9
    <3> QED BY <1>5, <1>9, <2>2, <3>1 DEF Order
  <2> QED BY <2>1, <2>2
<1>10. \A c \in Cameras : buffer'[c] \subseteq buffer[c]
  BY <1>1
<1>11. Order'
  <2>1. \A c \in Cameras : \A f \in buffer'[c] : f <= captured'[c]
    BY <1>1, <1>10 DEF Order
  <2> QED BY <1>1, <1>9, <2>1 DEF Order
<1>12. ASSUME NEW j \in Incidents \ {i}, camera[i] \cap camera[j] # {}
       PROVE  Taken(i)' \cap Taken(j)' = {}
  <2>1. PICK c : c \in camera[i] /\ c \in camera[j]
    BY <1>12
  <2>2. Taken(j)' = Taken(j) /\ Taken(i) \cap Taken(j) = {}
    BY <1>5, <1>12 DEF FramesTakenOnce
  <2>3. \A f \in Taken(j), g \in Buffered(i) : f < g /\ f \in Nat
    <3>1. \A f \in Taken(j) : f \in Nat
      BY DEF Taken, TypeOK, Frames
    <3> QED BY <1>7, <2>1, <3>1 DEF Order
  <2>4. Buffered(i) \cap Taken(j) = {}
    BY <2>3
  <2> QED BY <1>4, <2>2, <2>4
<1>13. \A f \in task'[i].pre, g \in task'[i].post : f < g
  <2>1. CASE task'[i].post = {}
    BY <2>1
  <2>2. CASE task'[i].pre = task[i].pre /\ task'[i].post = Buffered(i)
    <3> SUFFICES ASSUME NEW f \in task[i].pre, NEW g \in Buffered(i) PROVE f < g
      BY <2>2
    <3>1. PICK c \in camera[i] : g \in buffer[c]
      BY DEF Buffered
    <3> QED BY <3>1 DEF Order, Taken
  <2> QED BY <1>3, <2>1, <2>2
<1>14. FramesTakenOnce'
  <2>1. ASSUME NEW j \in Incidents, NEW k \in Incidents, j # k,
               camera[j] \cap camera[k] # {}
        PROVE  Taken(j)' \cap Taken(k)' = {}
    <3>1. CASE j = i
      BY <1>12, <2>1, <3>1
    <3>2. CASE k = i
      BY <1>12, <2>1, <3>2
    <3>3. CASE j # i /\ k # i
      BY <1>5, <2>1, <3>3 DEF FramesTakenOnce
    <3> QED BY <3>1, <3>2, <3>3
  <2>2. \A j \in Incidents : \A f \in task'[j].pre, g \in task'[j].post : f < g
    BY <1>1, <1>13 DEF FramesTakenOnce
  <2> QED BY <1>1, <2>1, <2>2 DEF FramesTakenOnce
<1> QED BY <1>11, <1>14

LEMMA FramesRequested ==
    ASSUME FrameInv, NEW i \in Incidents, NEW c \in Cameras, NEW sev \in Severities,
           RequestClip(i, c, sev)
    PROVE  Order' /\ FramesTakenOnce'
<1> USE DEF FrameInv, ClipInv
<1>1. /\ UNCHANGED <<captured, buffer>>
      /\ camera' = [camera EXCEPT ![i] = {c}]
      /\ task[i].pc = "none"
      /\ task' = [task EXCEPT ![i] = [task[i] EXCEPT !.pc = "scheduled", !.severity = sev]]
  BY DEF RequestClip
<1>2. /\ task[i].pre = {} /\ task[i].post = {}
      /\ \A j \in Incidents : task'[j].pre = task[j].pre /\ task'[j].post = task[j].post
  BY <1>1, TaskTypes DEF Stages, StagesOf, Task
<1>3. Taken(i) = {} /\ \A j \in Incidents : Taken(j)' = Taken(j)
  BY <1>2 DEF Taken
<1>4. camera'[i] = {c} /\ \A j \in Incidents \ {i} : camera'[j] = camera[j]
  BY <1>1 DEF TypeOK
<1>5. Order'
  BY <1>1, <1>3, <1>4 DEF Order
<1>6. ASSUME NEW j \in Incidents, NEW k \in Incidents, j # k,
             camera'[j] \cap camera'[k] # {}
      PROVE  Taken(j)' \cap Taken(k)' = {}
  BY <1>3, <1>4, <1>6 DEF FramesTakenOnce
<1> QED BY <1>2, <1>5, <1>6 DEF FramesTakenOnce

LEMMA FrameInvStep == FrameInv /\ [Next]_vars => FrameInv'
<1> SUFFICES ASSUME FrameInv, [Next]_vars PROVE FrameInv'
  OBVIOUS
<1> USE DEF clips, tasks
<1>1. ClipInv' /\ TypeOK
  BY ClipInvStep DEF FrameInv, ClipInv
<1>2. ASSUME \/ UNCHANGED vars \/ PurgeStep
             \/ \E i \in Incidents : LockIncident(i) \/ Expire(i)
      PROVE  Order' /\ FramesTakenOnce'
  <2>1. captured' = captured /\ buffer' = buffer /\ camera' = camera /\ task' = task
    BY <1>2 DEF vars, PurgeStep, SelectExpired, RemoveFiles, CommitPurge, PurgeFails,
                LockIncident, Expire
  <2>2. \A c \in Cameras : buffer'[c] \subseteq buffer[c]
    BY <2>1
  <2>3. \A i \in Incidents : task'[i].pre = task[i].pre /\ task'[i].post = task[i].post
    BY <2>1
  <2> QED BY <2>1, <2>2, <2>3, FramesRest
<1>3. ASSUME \/ \E c \in Cameras : PushFrame(c)
             \/ \E i \in Incidents, c \in Cameras, sev \in Severities : RequestClip(i, c, sev)
      PROVE  Order' /\ FramesTakenOnce'
  BY <1>3, FramesPushed, FramesRequested
<1>4. ASSUME NEW i \in Incidents, NEW pc,
             task' = [task EXCEPT ![i].pc = pc], UNCHANGED <<captured, buffer, camera>>
      PROVE  Order' /\ FramesTakenOnce'
  <2>1. \A j \in Incidents : task'[j].pre = task[j].pre /\ task'[j].post = task[j].post
    BY <1>1, <1>4, TaskTypes DEF Task
  <2> QED BY <1>4, <2>1, FramesRest
<1>5. ASSUME NEW i \in Incidents, TaskStep(i)
      PROVE  Order' /\ FramesTakenOnce'
  BY <1>4, <1>5, FramesFlushed
     DEF TaskStep, WriteStaging, MergeClip, MergeFails, PersistClip, Cleanup
<1>6. ASSUME Restart
      PROVE  Order' /\ FramesTakenOnce'
  <2>1. UNCHANGED <<captured, camera>> /\ \A c \in Cameras : buffer'[c] \subseteq buffer[c]
    BY <1>6 DEF Restart
  <2>2. ASSUME NEW i \in Incidents
        PROVE  task'[i].pre = task[i].pre /\ task'[i].post = task[i].post
    <3>1. task[i] \in Task /\ StagesOf(i)
      BY <1>1, TaskTypes DEF FrameInv, ClipInv, Stages
    <3>2. task'[i] = IF task[i].pc = "none" THEN NoTask
                                            ELSE [task[i] EXCEPT !.pc = "ended"]
      BY <1>6 DEF Restart
    <3> QED BY <3>1, <3>2 DEF StagesOf, NoTask, Task
  <2> QED BY <2>1, <2>2, FramesRest
<1>7. Order' /\ FramesTakenOnce'
  BY <1>2, <1>3, <1>5, <1>6 DEF Next
<1> QED BY <1>1, <1>7 DEF FrameInv

\* No frame is in the clips of two incidents, and the footage a clip holds from
\* after the event is newer than that from before it, for any number of tasks
\* that share a camera's buffer and any arrival and eviction of frames.
THEOREM FramesTakenOnceAlways == Spec => []FramesTakenOnce
BY FrameInvInit, FrameInvStep, PTL DEF Spec, FrameInv

-----------------------------------------------------------------------------
(* Without errors and restarts, what is on disk has an owner.                  *)

\* While nothing failed: a staging file belongs to a task that is past writing
\* it, and the files of the rows about to be deleted are gone.
Owned ==
    faults = 0 =>
        /\ \A i \in Incidents :
             /\ <<i, "pre">> \in staging =>
                  /\ task[i].pre # {}
                  /\ task[i].pc \in {"waiting", "post", "merging", "persist", "cleanup"}
             /\ <<i, "post">> \in staging =>
                  task[i].post # {} /\ task[i].pc \in {"merging", "persist", "cleanup"}
             /\ files[i] # {} => rows[i] # "none" \/ task[i].pc = "persist"
        /\ purge.pc = "removed" => \A i \in purge.selected : files[i] = {}

LEMMA OwnedTask ==
    ASSUME ClipInv, Owned, NEW i \in Incidents, TaskStep(i), faults' = 0
    PROVE  /\ <<i, "pre">> \in staging' =>
                task'[i].pre # {}
                /\ task'[i].pc \in {"waiting", "post", "merging", "persist", "cleanup"}
           /\ <<i, "post">> \in staging' =>
                task'[i].post # {} /\ task'[i].pc \in {"merging", "persist", "cleanup"}
           /\ files'[i] # {} => rows'[i] # "none" \/ task'[i].pc = "persist"
           /\ \A j \in Incidents \ {i}, part \in Parts :
                <<j, part>> \in staging' => <<j, part>> \in staging
           /\ files'[i] # files[i] => rows[i] = "none"
<1> USE TaskTypes DEF ClipInv, clips, Parts
<1>1. task[i] \in Task /\ StagesOf(i) /\ faults \in Nat
  BY BoundsAssumption DEF Stages, TypeOK
<1>2. ~Fault
  BY <1>1 DEF Fault
<1>3. faults = 0
  BY <1>2 DEF TaskStep, FlushPre, WriteStaging, FlushPost, MergeClip, MergeFails,
              PersistClip, Cleanup
<1>4. /\ <<i, "pre">> \in staging =>
           /\ task[i].pre # {}
           /\ task[i].pc \in {"waiting", "post", "merging", "persist", "cleanup"}
      /\ <<i, "post">> \in staging =>
           task[i].post # {} /\ task[i].pc \in {"merging", "persist", "cleanup"}
      /\ files[i] # {} => rows[i] # "none" \/ task[i].pc = "persist"
  BY <1>3 DEF Owned
<1>5. CASE FlushPre(i)
  BY <1>1, <1>4, <1>5 DEF FlushPre, FlushInto, Task
<1>6. CASE FlushPost(i)
  BY <1>1, <1>4, <1>6 DEF FlushPost, FlushInto, Task
<1>7. CASE WriteStaging(i, "pre", "pre", "waiting")
  <2>1. staging' \subseteq staging \cup {<<i, "pre">>}
        /\ (<<i, "pre">> \in staging' => <<i, "pre">> \in staging \/ task[i].pre # {})
    BY <1>2, <1>7 DEF WriteStaging
  <2>2. task'[i] = [task[i] EXCEPT !.pc = "waiting"] /\ task[i].pc = "pre"
        /\ UNCHANGED clips
    BY <1>7 DEF WriteStaging
  <2> QED BY <1>1, <1>4, <2>1, <2>2 DEF Task
<1>8. CASE WriteStaging(i, "post", "post", "merging")
  <2>1. staging' \subseteq staging \cup {<<i, "post">>}
        /\ (<<i, "post">> \in staging' => <<i, "post">> \in staging \/ task[i].post # {})
    BY <1>2, <1>8 DEF WriteStaging
  <2>2. task'[i] = [task[i] EXCEPT !.pc = "merging"] /\ task[i].pc = "post"
        /\ UNCHANGED clips
    BY <1>8 DEF WriteStaging
  <2> QED BY <1>1, <1>4, <2>1, <2>2 DEF Task
<1>9. CASE MergeClip(i)
  <2>1. task'[i] = [task[i] EXCEPT !.pc = "persist"] /\ task[i].pc = "merging"
        /\ UNCHANGED <<rows, staging>>
    BY <1>9 DEF MergeClip
  <2> QED BY <1>1, <1>4, <2>1 DEF Task, StagesOf, BeforeRow
<1>10. CASE MergeFails(i)
  <2>1. task[i].pre = {} /\ task[i].post = {} /\ UNCHANGED <<rows, files, staging>>
        /\ task[i].pc = "merging"
    BY <1>2, <1>10 DEF MergeFails, Taken
  <2> QED BY <1>1, <1>4, <2>1 DEF Task
<1>11. CASE PersistClip(i)
  <2>1. rows'[i] # "none" /\ task'[i] = [task[i] EXCEPT !.pc = "cleanup"]
        /\ UNCHANGED <<files, staging>> /\ task[i].pc = "persist"
    BY <1>2, <1>11 DEF PersistClip, TypeOK
  <2> QED BY <1>1, <1>4, <2>1 DEF Task
<1>12. CASE Cleanup(i)
  <2>1. /\ staging' = staging \ {<<i, "pre">>, <<i, "post">>}
        /\ UNCHANGED <<files, rows>> /\ task[i].pc = "cleanup"
    BY <1>12 DEF Cleanup
  <2> QED BY <1>4, <2>1
<1> QED BY <1>5, <1>6, <1>7, <1>8, <1>9, <1>10, <1>11, <1>12 DEF TaskStep

OwnedInv == ClipInv /\ Owned

LEMMA OwnedInvStep == OwnedInv /\ [Next]_vars => OwnedInv'
<1> SUFFICES ASSUME ClipInv, Owned, [Next]_vars PROVE Owned'
  BY ClipInvStep DEF OwnedInv
<1> SUFFICES ASSUME faults' = 0
             PROVE  /\ \A i \in Incidents :
                         /\ <<i, "pre">> \in staging' =>
                              /\ task'[i].pre # {}
                              /\ task'[i].pc \in {"waiting", "post", "merging",
                                                  "persist", "cleanup"}
                         /\ <<i, "post">> \in staging' =>
                              /\ task'[i].post # {}
                              /\ task'[i].pc \in {"merging", "persist", "cleanup"}
                         /\ files'[i] # {} => rows'[i] # "none" \/ task'[i].pc = "persist"
                    /\ purge'.pc = "removed" => \A i \in purge'.selected : files'[i] = {}
  BY DEF Owned
<1> USE DEF clips, tasks
<1>1. ~Fault
  BY BoundsAssumption DEF Fault, ClipInv, TypeOK
<1>2. faults = 0
  <2>1. UNCHANGED faults
    BY <1>1 DEF Next, vars, PushFrame, RequestClip, LockIncident, Expire, PurgeStep,
                SelectExpired, RemoveFiles, CommitPurge, PurgeFails, Restart, TaskStep,
                FlushPre, WriteStaging, FlushPost, MergeClip, MergeFails, PersistClip,
                Cleanup
  <2> QED BY <2>1
<1>3. /\ \A i \in Incidents :
           /\ <<i, "pre">> \in staging =>
                /\ task[i].pre # {}
                /\ task[i].pc \in {"waiting", "post", "merging", "persist", "cleanup"}
           /\ <<i, "post">> \in staging =>
                task[i].post # {} /\ task[i].pc \in {"merging", "persist", "cleanup"}
           /\ files[i] # {} => rows[i] # "none" \/ task[i].pc = "persist"
      /\ purge.pc = "removed" => \A i \in purge.selected : files[i] = {}
  BY <1>2 DEF Owned
<1>4. CASE UNCHANGED <<task, staging, files, rows, purge>>
  BY <1>3, <1>4
<1>5. ASSUME \/ UNCHANGED vars \/ \E c \in Cameras : PushFrame(c)
             \/ \E i \in Incidents : LockIncident(i) \/ Expire(i)
      PROVE  UNCHANGED <<task, staging, files, rows, purge>>
  BY <1>5 DEF vars, PushFrame, LockIncident, Expire
<1>6. ASSUME NEW i \in Incidents, NEW c \in Cameras, NEW sev \in Severities,
             RequestClip(i, c, sev)
      PROVE  /\ UNCHANGED <<staging, files, rows, purge>>
             /\ task[i].pc = "none"
             /\ \A j \in Incidents \ {i} : task'[j] = task[j]
  BY <1>6, TaskTypes DEF RequestClip, ClipInv
<1>7. ASSUME NEW i \in Incidents, TaskStep(i)
      PROVE  /\ \A j \in Incidents \ {i} : Rests(j)
             /\ purge' = purge
             /\ purge.pc = "removed" => \A j \in purge.selected : files'[j] = {}
  <2>1. /\ \A j \in Incidents \ {i} : Rests(j)
        /\ purge' = purge
    BY <1>7, TaskFrame DEF ClipInv
  <2>2. files'[i] # files[i] => i \notin purge.selected
    BY <1>7, OwnedTask DEF ClipInv, Selected
  <2> QED BY <1>3, <2>1, <2>2 DEF Rests, ClipInv, TypeOK
<1>8. CASE SelectExpired
  BY <1>3, <1>8 DEF SelectExpired
<1>9. CASE RemoveFiles
  <2>1. files' = [i \in Incidents |-> IF i \in purge.selected THEN {} ELSE files[i]]
        /\ UNCHANGED <<task, staging, rows>> /\ purge'.selected = purge.selected
    BY <1>1, <1>9 DEF RemoveFiles, ClipInv, TypeOK
  <2> QED BY <1>3, <2>1 DEF ClipInv, TypeOK
<1>10. CASE CommitPurge
  BY <1>3, <1>10 DEF CommitPurge, IdlePurge, ClipInv, TypeOK
<1>11. ASSUME PurgeFails \/ Restart
       PROVE  FALSE
  BY <1>1, <1>11 DEF PurgeFails, Restart
<1>12. CASE \E i \in Incidents, c \in Cameras, sev \in Severities : RequestClip(i, c, sev)
  BY <1>3, <1>6, <1>12
<1>13. CASE \E i \in Incidents : TaskStep(i)
  <2>1. PICK i \in Incidents : TaskStep(i)
    BY <1>13
  <2>2. \A j \in Incidents \ {i}, part \in Parts :
          <<j, part>> \in staging' => <<j, part>> \in staging
    BY <2>1, OwnedTask
  <2>3. /\ <<i, "pre">> \in staging' =>
             /\ task'[i].pre # {}
             /\ task'[i].pc \in {"waiting", "post", "merging", "persist", "cleanup"}
        /\ <<i, "post">> \in staging' =>
             task'[i].post # {} /\ task'[i].pc \in {"merging", "persist", "cleanup"}
        /\ files'[i] # {} => rows'[i] # "none" \/ task'[i].pc = "persist"
    BY <2>1, OwnedTask
  <2>4. \A j \in Incidents \ {i} :
          /\ task'[j] = task[j] /\ files'[j] = files[j] /\ rows'[j] = rows[j]
          /\ <<j, "pre">> \in staging' => <<j, "pre">> \in staging
          /\ <<j, "post">> \in staging' => <<j, "post">> \in staging
    BY <1>7, <2>1, <2>2 DEF Rests, Parts
  <2>5. purge'.pc = "removed" => \A j \in purge'.selected : files'[j] = {}
    BY <1>7, <2>1
  <2> QED BY <1>3, <2>3, <2>4, <2>5
<1> QED BY <1>4, <1>5, <1>8, <1>9, <1>10, <1>11, <1>12, <1>13 DEF Next, PurgeStep

\* As long as nothing failed, no clip file is without a row or a task about to
\* write it, and no staging file outlives its task, although tasks and purges
\* interleave.
THEOREM NoOrphansAlways == Spec => []NoOrphans
<1>1. Init => OwnedInv
  BY TypeInit, StagesInit DEF Init, OwnedInv, ClipInv, Owned, IdlePurge
<1>2. OwnedInv => NoOrphans
  <2> SUFFICES ASSUME OwnedInv, faults = 0
               PROVE  /\ \A i \in Incidents : files[i] # {} =>
                             rows[i] # "none" \/ task[i].pc = "persist"
                      /\ \A part \in staging : task[part[1]].pc # "ended"
    BY DEF NoOrphans
  <2>1. ASSUME NEW part \in staging PROVE task[part[1]].pc # "ended"
    <3>1. PICK i \in Incidents, p \in Parts : part = <<i, p>>
      BY DEF OwnedInv, ClipInv, TypeOK, Parts
    <3> QED BY <2>1, <3>1 DEF OwnedInv, Owned, Parts
  <2> QED BY <2>1 DEF OwnedInv, Owned
<1> QED BY <1>1, <1>2, OwnedInvStep, PTL DEF Spec

-----------------------------------------------------------------------------
(* The service implements ClipCustody.                                     *)

ClipOf(i) == <<CustodyOf(i), FootageOf(i)>>

\* Only a recorded clip has a retention period that can have passed.
ExpiredHaveRows == \A i \in expired : rows[i] # "none"

CustodyInv == ClipInv /\ ExpiredHaveRows

LEMMA ExpiredStep ==
    ASSUME CustodyInv, [Next]_vars, NEW i \in expired'
    PROVE  rows'[i] # "none"
<1> USE DEF CustodyInv, ExpiredHaveRows, ClipInv, TypeOK
<1>1. CASE \E j \in Incidents : Expire(j)
  BY <1>1 DEF Expire
<1>2. CASE CommitPurge
  BY <1>2 DEF CommitPurge
<1>3. CASE \E j \in Incidents : TaskStep(j)
  <2>1. PICK j \in Incidents : TaskStep(j)
    BY <1>3
  <2>2. i \in expired /\ i \in Incidents /\ rows[i] # "none"
    BY <2>1, TaskFrame
  <2>3. CASE i = j
    BY <2>1, <2>2, <2>3, OwnClip
  <2>4. CASE i # j
    BY <2>1, <2>2, <2>4, TaskFrame DEF Rests
  <2> QED BY <2>3, <2>4
<1>4. CASE ~CommitPurge /\ ~ \E j \in Incidents : TaskStep(j) \/ Expire(j)
  BY <1>4 DEF Next, PurgeStep, vars, tasks, clips, PushFrame, LockIncident, RequestClip,
              RemoveFiles, SelectExpired, PurgeFails, Restart
<1> QED BY <1>1, <1>2, <1>3, <1>4

LEMMA CustodyInvAlways == Spec => []CustodyInv
<1>1. Init => CustodyInv
  BY TypeInit, StagesInit DEF Init, CustodyInv, ClipInv, ExpiredHaveRows
<1>2. CustodyInv /\ [Next]_vars => CustodyInv'
  BY ClipInvStep, ExpiredStep DEF CustodyInv, ExpiredHaveRows
<1> QED BY <1>1, <1>2, PTL DEF Spec

\* The custody of a clip depends on its row, its file and its task only.
LEMMA ClipRests ==
    ASSUME NEW i \in Incidents, Rests(i)
    PROVE  ClipOf(i)' = ClipOf(i)
BY DEF Rests, ClipOf, CustodyOf, FootageOf

LEMMA CustodyInit == Init => Custody!Init
BY DEF Init, NoTask, Custody!Init, CustodyOf, FootageOf

\* When nobody's clip moves, neither does the promise.
LEMMA NothingMoves ==
    ASSUME \A i \in Incidents : ClipOf(i)' = ClipOf(i)
    PROVE  UNCHANGED <<[i \in Incidents |-> CustodyOf(i)], [i \in Incidents |-> FootageOf(i)]>>
BY DEF ClipOf

\* What a task does to its own clip.
LEMMA CustodyOfTask ==
    ASSUME CustodyInv, NEW i \in Incidents, TaskStep(i)
    PROVE  \/ ClipOf(i)' = ClipOf(i)
           \/ /\ ClipOf(i) = <<"pending", {}>>
              /\ CustodyOf(i)' \in {"kept", "held"}
              /\ FootageOf(i)' \in (SUBSET Frames) \ {{}}
           \/ ClipOf(i) = <<"pending", {}>> /\ ClipOf(i)' = <<"gone", {}>>
<1> USE TaskTypes DEF CustodyInv, ClipInv, clips
<1>0. /\ task[i] \in Task /\ rows[i] \in {"none", "unlocked", "locked"}
      /\ StagesOf(i) /\ files[i] \in SUBSET Frames
  BY DEF Stages, TypeOK
<1>1. ASSUME \/ FlushPre(i) \/ FlushPost(i) \/ WriteStaging(i, "pre", "pre", "waiting")
             \/ WriteStaging(i, "post", "post", "merging") \/ Cleanup(i)
      PROVE  ClipOf(i)' = ClipOf(i)
  <2>1. UNCHANGED <<rows, files, expired>> /\ task'[i].severity = task[i].severity
    BY <1>1, OwnClip DEF FlushPre, FlushPost, WriteStaging, Cleanup
  <2>2. task'[i].pc \in {"cleanup", "ended"} <=> task[i].pc \in {"cleanup", "ended"}
    <3>1. CASE FlushPre(i) \/ FlushPost(i)
      <4>1. CASE FlushPre(i)
        <5>1. task'[i] = [task[i] EXCEPT !.pc = "pre", !.pre = Buffered(i)]
              /\ task[i].pc = "scheduled"
          BY <4>1 DEF FlushPre, FlushInto
        <5> QED BY <1>0, <5>1 DEF Task
      <4>2. CASE FlushPost(i)
        <5>1. task'[i] = [task[i] EXCEPT !.pc = "post", !.post = Buffered(i)]
              /\ task[i].pc = "waiting"
          BY <4>2 DEF FlushPost, FlushInto
        <5> QED BY <1>0, <5>1 DEF Task
      <4> QED BY <3>1, <4>1, <4>2
    <3>2. CASE WriteStaging(i, "pre", "pre", "waiting")
      BY <1>0, <3>2 DEF WriteStaging, Task
    <3>3. CASE WriteStaging(i, "post", "post", "merging")
      BY <1>0, <3>3 DEF WriteStaging, Task
    <3>4. CASE Cleanup(i)
      BY <1>0, <3>4 DEF Cleanup, Task
    <3> QED BY <1>1, <3>1, <3>2, <3>3, <3>4
  <2> QED BY <2>1, <2>2 DEF ClipOf, CustodyOf, FootageOf
<1>2. CASE MergeClip(i)
  <2>1. /\ UNCHANGED <<rows, expired>> /\ rows[i] = "none"
        /\ task[i].pc = "merging" /\ task'[i].pc = "persist"
    BY <1>0, <1>2 DEF MergeClip, Task, StagesOf, BeforeRow
  <2> QED BY <2>1 DEF ClipOf, CustodyOf, FootageOf
<1>3. CASE MergeFails(i)
  <2>1. /\ UNCHANGED <<rows, files, expired>> /\ rows[i] = "none"
        /\ task[i].pc = "merging" /\ task'[i].pc = "ended"
    BY <1>0, <1>3 DEF MergeFails, Task, StagesOf, BeforeRow
  <2> QED BY <2>1 DEF ClipOf, CustodyOf, FootageOf
<1>4. CASE PersistClip(i)
  <2>1. /\ UNCHANGED <<files, expired>> /\ rows[i] = "none" /\ files[i] # {}
        /\ task[i].pc = "persist" /\ task'[i].pc = "cleanup"
    BY <1>0, <1>4 DEF PersistClip, Task, StagesOf, BeforeRow
  <2>2. ClipOf(i) = <<"pending", {}>>
    BY <2>1 DEF ClipOf, CustodyOf, FootageOf
  <2>3. CASE rows'[i] = "none"
    BY <2>1, <2>2, <2>3 DEF ClipOf, CustodyOf, FootageOf
  <2>4. CASE rows'[i] # "none"
    <3>1. FootageOf(i)' \in (SUBSET Frames) \ {{}}
      BY <1>0, <2>1, <2>4 DEF FootageOf
    <3>2. i \notin expired
      BY <2>1 DEF ExpiredHaveRows
    <3>3. CustodyOf(i)' \in {"kept", "held"}
      BY <2>1, <2>4, <3>2 DEF CustodyOf
    <3> QED BY <2>2, <3>1, <3>3
  <2> QED BY <2>3, <2>4
<1> QED BY <1>1, <1>2, <1>3, <1>4 DEF TaskStep

LEMMA CustodyTask ==
    ASSUME CustodyInv, NEW i \in Incidents, TaskStep(i),
           ClipOf(i)' # ClipOf(i)
    PROVE  Custody!Next
<1>1. \A j \in Incidents \ {i} : CustodyOf(j)' = CustodyOf(j) /\ FootageOf(j)' = FootageOf(j)
  BY TaskFrame, ClipRests DEF CustodyInv, ClipInv, ClipOf
<1>2. CASE /\ ClipOf(i) = <<"pending", {}>>
           /\ CustodyOf(i)' \in {"kept", "held"}
           /\ FootageOf(i)' \in (SUBSET Frames) \ {{}}
  <2> DEFINE cust == [j \in Incidents |-> CustodyOf(j)]
             foot == [j \in Incidents |-> FootageOf(j)]
  <2>1. CustodyOf(i) = "pending" /\ cust[i] = "pending"
    BY <1>2 DEF ClipOf
  <2>2. foot' = [foot EXCEPT ![i] = FootageOf(i)']
    BY <1>1
  <2>3. \A to : CustodyOf(i)' = to => cust' = [j \in Incidents |-> IF j \in {i} THEN to ELSE cust[j]]
    BY <1>1
  <2>4. Custody!Move({i}, "kept") \/ Custody!Move({i}, "held")
    BY <1>2, <2>3 DEF Custody!Move
  <2>5. Custody!Record(i)
    BY <1>2, <2>1, <2>2, <2>4 DEF Custody!Record
  <2> QED BY <2>5 DEF Custody!Next
<1>3. CASE ClipOf(i) = <<"pending", {}>> /\ ClipOf(i)' = <<"gone", {}>>
  <2>1. Custody!GiveUp({i})
    BY <1>1, <1>3 DEF Custody!GiveUp, Custody!Move, ClipOf
  <2> QED BY <2>1 DEF Custody!Next
<1> QED BY <1>2, <1>3, CustodyOfTask

LEMMA CustodyExpire ==
    ASSUME ClipInv, NEW i \in Incidents, Expire(i)
    PROVE  Custody!Next \/ \A j \in Incidents : ClipOf(j)' = ClipOf(j)
<1>1. /\ UNCHANGED <<task, rows, files>> /\ expired' = expired \cup {i}
      /\ rows[i] # "none" /\ i \notin expired
  BY DEF Expire, tasks
<1>2. CASE Locking(i)
  BY <1>1, <1>2 DEF ClipOf, CustodyOf, FootageOf
<1>3. CASE ~Locking(i)
  <2>1. Custody!Release(i)
    BY <1>1, <1>3 DEF Custody!Release, Custody!Move, CustodyOf, FootageOf
  <2> QED BY <2>1 DEF Custody!Next
<1> QED BY <1>2, <1>3

\* The retention manager works on deletable clips.
LEMMA SelectedDeletable ==
    ASSUME ClipInv
    PROVE  /\ purge.selected \subseteq Incidents
           /\ \A i \in purge.selected : /\ rows[i] # "none" /\ CustodyOf(i) = "deletable"
                                       /\ task[i].pc \in {"cleanup", "ended"}
<1>1. purge.selected \subseteq Incidents
  BY DEF ClipInv, TypeOK
<1>2. ASSUME NEW i \in purge.selected
      PROVE  /\ rows[i] # "none" /\ CustodyOf(i) = "deletable"
             /\ task[i].pc \in {"cleanup", "ended"}
  <2>1. rows[i] = "unlocked" /\ i \in expired /\ i \in Incidents
    BY <1>1, <1>2 DEF ClipInv, Selected
  <2>2. ~Locking(i) /\ task[i].pc \notin BeforeRow /\ task[i] \in Task
    BY <2>1, TaskTypes DEF ClipInv, Stages, StagesOf
  <2> QED BY <2>1, <2>2 DEF CustodyOf, Task, TaskStages, BeforeRow
<1> QED BY <1>1, <1>2

LEMMA CustodyPurge ==
    ASSUME ClipInv, RemoveFiles \/ CommitPurge
    PROVE  Custody!Next
<1>1. CASE RemoveFiles
  <2>1. PICK stuck \in SUBSET purge.selected :
            files' = [i \in Incidents |-> IF i \in purge.selected \ stuck THEN {} ELSE files[i]]
    BY <1>1 DEF RemoveFiles
  <2> DEFINE S == purge.selected \ stuck
  <2>2. UNCHANGED <<task, rows, expired>>
    BY <1>1 DEF RemoveFiles, tasks
  <2>3. Custody!Discard(S)
    BY <2>1, <2>2, SelectedDeletable DEF Custody!Discard, CustodyOf, FootageOf
  <2>4. S \in SUBSET Incidents
    BY SelectedDeletable
  <2> QED BY <2>3, <2>4 DEF Custody!Next
<1>2. CASE CommitPurge
  <2>1. /\ UNCHANGED <<task, files>> /\ expired' = expired \ purge.selected
        /\ rows' = [i \in Incidents |-> IF i \in purge.selected THEN "none" ELSE rows[i]]
    BY <1>2 DEF CommitPurge, tasks
  <2>2. Custody!Delete(purge.selected)
    BY <2>1, SelectedDeletable DEF Custody!Delete, Custody!Move, CustodyOf, FootageOf
  <2> QED BY <2>2, SelectedDeletable DEF Custody!Next
<1> QED BY <1>1, <1>2

LEMMA CustodyRestart ==
    ASSUME ClipInv, Restart
    PROVE  Custody!Next
<1> DEFINE S == {i \in Incidents : CustodyOf(i) = "pending" /\ task[i].pc # "none"}
<1>1. ASSUME NEW i \in Incidents
      PROVE  /\ CustodyOf(i)' = IF i \in S THEN "gone" ELSE CustodyOf(i)
             /\ FootageOf(i)' = FootageOf(i)
  <2>1. /\ task'[i] = IF task[i].pc = "none" THEN NoTask ELSE [task[i] EXCEPT !.pc = "ended"]
        /\ UNCHANGED <<rows, expired>>
        /\ task[i].pc # "merging" => files'[i] = files[i]
    BY DEF Restart
  <2>2. task[i] \in Task /\ (task[i].pc \in BeforeRow => rows[i] = "none")
    BY TaskTypes DEF ClipInv, Stages, StagesOf
  <2>3. CASE task[i].pc = "none"
    BY <2>1, <2>2, <2>3 DEF CustodyOf, FootageOf, NoTask, BeforeRow
  <2>4. CASE task[i].pc # "none"
    <3>1. task'[i].pc = "ended" /\ task'[i].severity = task[i].severity
      BY <2>1, <2>2, <2>4 DEF Task
    <3>2. FootageOf(i)' = FootageOf(i)
      BY <2>1, <2>2 DEF FootageOf, BeforeRow
    <3> QED BY <2>1, <2>4, <3>1, <3>2 DEF CustodyOf
  <2> QED BY <2>3, <2>4
<1>2. Custody!GiveUp(S)
  BY <1>1 DEF Custody!GiveUp, Custody!Move
<1> QED BY <1>2 DEF Custody!Next

LEMMA CustodyRequest ==
    ASSUME ClipInv, NEW j \in Incidents, NEW c \in Cameras, NEW sev \in Severities,
           RequestClip(j, c, sev), NEW i \in Incidents
    PROVE  ClipOf(i)' = ClipOf(i)
<1>1. /\ task' = [task EXCEPT ![j].pc = "scheduled", ![j].severity = sev]
      /\ task[j].pc = "none" /\ UNCHANGED <<rows, files, expired>>
  BY DEF RequestClip, clips
<1>2. task[i] \in Task /\ (task[i].pc \in BeforeRow => rows[i] = "none")
  BY TaskTypes DEF ClipInv, Stages, StagesOf
<1>3. CASE i # j
  <2>1. task'[i] = task[i]
    BY <1>1, <1>3, TaskTypes DEF ClipInv
  <2> QED BY <1>1, <2>1 DEF ClipOf, CustodyOf, FootageOf
<1>4. CASE i = j
  <2>1. task'[i].pc = "scheduled"
    BY <1>1, <1>2, <1>4, TaskTypes DEF ClipInv, Task
  <2> QED BY <1>1, <1>2, <1>4, <2>1 DEF ClipOf, CustodyOf, FootageOf, BeforeRow
<1> QED BY <1>3, <1>4

LEMMA CustodyStep ==
    ASSUME CustodyInv, [Next]_vars
    PROVE  [Custody!Next]_<<[i \in Incidents |-> CustodyOf(i)], [i \in Incidents |-> FootageOf(i)]>>
<1> USE DEF CustodyInv
<1>1. CASE \A i \in Incidents : ClipOf(i)' = ClipOf(i)
  BY <1>1, NothingMoves
<1>2. ASSUME \/ UNCHANGED vars \/ \E c \in Cameras : PushFrame(c)
             \/ \E i \in Incidents : LockIncident(i)
             \/ SelectExpired \/ PurgeFails
      PROVE  \A i \in Incidents : ClipOf(i)' = ClipOf(i)
  <2>1. UNCHANGED <<task, rows, files, expired>>
    BY <1>2 DEF vars, tasks, clips, PushFrame, LockIncident, SelectExpired, PurgeFails
  <2> QED BY <2>1 DEF ClipOf, CustodyOf, FootageOf
<1>3. ASSUME NEW i \in Incidents, NEW c \in Cameras, NEW sev \in Severities, RequestClip(i, c, sev)
      PROVE  \A j \in Incidents : ClipOf(j)' = ClipOf(j)
  BY <1>3, CustodyRequest
<1>4. ASSUME NEW i \in Incidents, TaskStep(i)
      PROVE  Custody!Next \/ \A j \in Incidents : ClipOf(j)' = ClipOf(j)
  <2>1. \A j \in Incidents \ {i} : ClipOf(j)' = ClipOf(j)
    BY <1>4, TaskFrame, ClipRests DEF ClipInv
  <2> QED BY <1>4, <2>1, CustodyTask
<1>5. CASE \E i \in Incidents : Expire(i)
  BY <1>1, <1>5, CustodyExpire
<1>6. CASE RemoveFiles \/ CommitPurge \/ Restart
  BY <1>6, CustodyPurge, CustodyRestart
<1> QED BY <1>1, <1>2, <1>3, <1>4, <1>5, <1>6 DEF Next, PurgeStep

\* Every step of the evidence service is one of ClipCustody or leaves every clip
\* where it is: each clip is recorded once, with footage that stays, and only a clip
\* that is expired and was not asked to be locked is deleted.
THEOREM EvidenceRefinesClipCustody == Spec => ClipsInCustody
<1>1. Custody!Spec <=> Custody!Init /\ [][Custody!Next]_<<[i \in Incidents |-> CustodyOf(i)],
                                                          [i \in Incidents |-> FootageOf(i)]>>
  BY DEF Custody!Spec
<1> QED BY <1>1, CustodyInit, CustodyStep, CustodyInvAlways, PTL DEF Spec, ClipsInCustody
=============================================================================
