-------------------------- MODULE EvidenceRetention --------------------------
(***************************************************************************)
(* Evidence clips: each incident starts an asyncio task that takes frames  *)
(* from its camera's buffer before and after the event, writes the clip    *)
(* and records it in the database; the retention manager deletes expired   *)
(* clips, files first and rows second.                                     *)
(*                                                                         *)
(* All of it runs in one process, the only deployment in which the tasks   *)
(* see the frames that inference pushed.  An action is the code between    *)
(* two suspension points.  A definition named Bug... is a defective        *)
(* variant of the definition that follows it.                              *)
(***************************************************************************)
EXTENDS Naturals, FiniteSets

CONSTANTS
    Incidents,    \* incident ids
    Cameras,
    Grades,       \* incident -> severities it may be created with
    MaxFrames,    \* bound on the frames a camera delivers
    MaxFaults     \* bound on disk and database errors and restarts

ASSUME BoundsAssumption == MaxFrames \in Nat /\ MaxFaults \in Nat

Severities == {"LOW", "MEDIUM", "HIGH"}

VARIABLES
    captured,    \* camera -> number of its last frame (_frame_count)
    buffer,      \* camera -> frames in its CameraFrameBuffer
    camera,      \* incident -> its camera, once the clip was requested
    locked,      \* incidents with is_locked (Incident, not EvidenceClip)
    task,        \* incident -> its _extract_clip task
    staging,     \* files under staging/: <<incident, "pre" or "post">>
    files,       \* incident -> frames of clips/<id>_full.mp4, {} if no file
    rows,        \* incident -> its EvidenceClip row: "none", or its is_locked
    expired,     \* incidents whose clip has expires_at <= now
    purge,       \* the retention manager
    ready,       \* incidents announced by EVIDENCE_READY
    faults

clips == <<files, rows, expired>>
tasks == <<camera, task, staging, ready>>
vars  == <<captured, buffer, locked, clips, tasks, purge, faults>>

Frames == 1..MaxFrames
NoTask == [pc |-> "none", severity |-> "LOW", pre |-> {}, post |-> {}]
IdlePurge == [pc |-> "idle", selected |-> {}]

BugTakenPostOnly(i) == task[i].post

\* all_frames of the clip.
Taken(i) == task[i].pre \cup task[i].post

TypeOK ==
    /\ captured \in [Cameras -> 0..MaxFrames]
    /\ buffer \in [Cameras -> SUBSET Frames]
    /\ camera \in [Incidents -> SUBSET Cameras]
    /\ locked \subseteq Incidents
    /\ task \in [Incidents ->
                   [pc : {"none", "scheduled", "pre", "waiting", "post",
                          "merging", "persist", "cleanup", "ended"},
                    severity : Severities, pre : SUBSET Frames, post : SUBSET Frames]]
    /\ staging \subseteq Incidents \X {"pre", "post"}
    /\ files \in [Incidents -> SUBSET Frames]
    /\ rows \in [Incidents -> {"none", "unlocked", "locked"}]
    /\ expired \subseteq Incidents
    /\ purge \in [pc : {"idle", "selected", "removed"}, selected : SUBSET Incidents]
    /\ ready \subseteq Incidents
    /\ faults \in 0..MaxFaults

Init ==
    /\ captured = [c \in Cameras |-> 0]
    /\ buffer = [c \in Cameras |-> {}]
    /\ camera = [i \in Incidents |-> {}]
    /\ locked = {}
    /\ task = [i \in Incidents |-> NoTask]
    /\ staging = {}
    /\ files = [i \in Incidents |-> {}]
    /\ rows = [i \in Incidents |-> "none"]
    /\ expired = {}
    /\ purge = IdlePurge
    /\ ready = {}
    /\ faults = 0

Fault == faults < MaxFaults /\ faults' = faults + 1

-----------------------------------------------------------------------------
(* Frames and incidents. *)

\* CameraFrameBuffer.push: the new frame stays; frames older than the window,
\* an arbitrary prefix, are evicted.
PushFrame(c) ==
    LET new == captured[c] + 1 IN
    /\ new \in Frames
    /\ captured' = [captured EXCEPT ![c] = new]
    /\ \E oldest \in 1..new :
         buffer' = [buffer EXCEPT ![c] = {f \in @ \cup {new} : f >= oldest}]
    /\ UNCHANGED <<locked, clips, tasks, purge, faults>>

\* The lock argument of the extraction: only _handle_high passes it.
Locking(i) == task[i].severity = "HIGH"

\* request_clip_extraction, called once per persisted incident; a HIGH incident
\* is created locked and asks for a locked clip.
RequestClip(i, c, sev) ==
    /\ sev \in Grades[i]
    /\ task[i].pc = "none"
    /\ camera[i] = {}
    /\ camera' = [camera EXCEPT ![i] = {c}]
    /\ task' = [task EXCEPT ![i].pc = "scheduled", ![i].severity = sev]
    /\ locked' = IF sev = "HIGH" THEN locked \cup {i} ELSE locked
    /\ UNCHANGED <<captured, buffer, clips, staging, ready, purge, faults>>

\* A review or an escalation locks the incident row.
LockIncident(i) ==
    /\ camera[i] # {}
    /\ i \notin locked
    /\ locked' = locked \cup {i}
    /\ UNCHANGED <<captured, buffer, clips, tasks, purge, faults>>

-----------------------------------------------------------------------------
(* _extract_clip. *)

BugFlushKeeps(i, take) ==
    /\ task' = [task EXCEPT ![i] = take]
    /\ UNCHANGED buffer

\* buffer.flush() by the task of incident i, whose record becomes `take`.
FlushInto(i, take) ==
    /\ task' = [task EXCEPT ![i] = take]
    /\ buffer' = [c \in Cameras |-> IF c \in camera[i] THEN {} ELSE buffer[c]]

Buffered(i) == UNION {buffer[c] : c \in camera[i]}

FlushPre(i) ==
    /\ task[i].pc = "scheduled"
    /\ FlushInto(i, [task[i] EXCEPT !.pc = "pre", !.pre = Buffered(i)])
    /\ UNCHANGED <<captured, camera, locked, clips, staging, ready, purge, faults>>

FlushPost(i) ==
    /\ task[i].pc = "waiting"
    /\ FlushInto(i, [task[i] EXCEPT !.pc = "post", !.post = Buffered(i)])
    /\ UNCHANGED <<captured, camera, locked, clips, staging, ready, purge, faults>>

\* _write_frames_to_video into staging.  No frames, no file; a writer that does
\* not open is a fault whose result the task ignores.
WriteStaging(i, from, part, to) ==
    /\ task[i].pc = from
    /\ task' = [task EXCEPT ![i].pc = to]
    /\ \/ /\ staging' = IF task[i][part] = {} THEN staging
                        ELSE staging \cup {<<i, part>>}
          /\ UNCHANGED faults
       \/ Fault /\ UNCHANGED staging
    /\ UNCHANGED <<captured, buffer, camera, locked, clips, ready, purge>>

\* The merged clip is written and hashed.
MergeClip(i) ==
    /\ task[i].pc = "merging"
    /\ Taken(i) # {}
    /\ files' = [files EXCEPT ![i] = Taken(i)]
    /\ task' = [task EXCEPT ![i].pc = "persist"]
    /\ UNCHANGED <<captured, buffer, camera, locked, rows, expired, staging, ready,
                   purge, faults>>

\* Nothing to merge, or the writer does not open: the task returns.
MergeFails(i) ==
    /\ task[i].pc = "merging"
    /\ IF Taken(i) = {} THEN UNCHANGED faults ELSE Fault
    /\ task' = [task EXCEPT ![i].pc = "ended"]
    /\ UNCHANGED <<captured, buffer, camera, locked, clips, staging, ready, purge>>

BugPersistUnlocked(i) ==
    /\ task[i].pc = "persist"
    /\ task' = [task EXCEPT ![i].pc = "cleanup"]
    /\ rows' = [rows EXCEPT ![i] = "unlocked"]
    /\ UNCHANGED <<captured, buffer, camera, locked, files, expired, staging, ready,
                   purge, faults>>

BugPersistSwapped(i) ==
    /\ task[i].pc = "persist"
    /\ task' = [task EXCEPT ![i].pc = "cleanup"]
    /\ rows' = [rows EXCEPT ![i] = IF Locking(i) THEN "LONG_365D" ELSE "TEMP_72H"]
    /\ UNCHANGED <<captured, buffer, camera, locked, files, expired, staging, ready,
                   purge, faults>>

\* _persist_evidence_clip, which swallows a database error.
PersistClip(i) ==
    /\ task[i].pc = "persist"
    /\ task' = [task EXCEPT ![i].pc = "cleanup"]
    /\ \/ /\ rows' = [rows EXCEPT ![i] = IF Locking(i) THEN "locked" ELSE "unlocked"]
          /\ UNCHANGED faults
       \/ Fault /\ UNCHANGED rows
    /\ UNCHANGED <<captured, buffer, camera, locked, files, expired, staging, ready,
                   purge>>

BugCleanupKeepsPost(i) ==
    /\ task[i].pc = "cleanup"
    /\ task' = [task EXCEPT ![i].pc = "ended"]
    /\ staging' = staging \ {<<i, "pre">>}
    /\ ready' = ready \cup {i}
    /\ UNCHANGED <<captured, buffer, camera, locked, clips, purge, faults>>

\* Staging files removed, EVIDENCE_READY pushed: whether or not a row was
\* written.
Cleanup(i) ==
    /\ task[i].pc = "cleanup"
    /\ task' = [task EXCEPT ![i].pc = "ended"]
    /\ staging' = staging \ {<<i, "pre">>, <<i, "post">>}
    /\ ready' = ready \cup {i}
    /\ UNCHANGED <<captured, buffer, camera, locked, clips, purge, faults>>

-----------------------------------------------------------------------------
(* The retention manager. *)

\* expires_at of a clip passes; every tag the dispatcher uses has one.
Expire(i) ==
    /\ rows[i] # "none"
    /\ i \notin expired
    /\ expired' = expired \cup {i}
    /\ UNCHANGED <<captured, buffer, locked, files, rows, tasks, purge, faults>>

BugPurgeableIgnoresExpiry == {i \in Incidents : rows[i] = "unlocked"}

BugPurgeableNeedsFile ==
    {i \in Incidents : rows[i] = "unlocked" /\ i \in expired /\ files[i] # {}}

\* The WHERE clause of _purge_expired.
Purgeable == {i \in Incidents : rows[i] = "unlocked" /\ i \in expired}

SelectExpired ==
    /\ purge.pc = "idle"
    /\ Purgeable # {}
    /\ purge' = [pc |-> "selected", selected |-> Purgeable]
    /\ UNCHANGED <<captured, buffer, locked, clips, tasks, faults>>

\* Every selected file is removed without a suspension; an os.remove that
\* raises is only logged.
RemoveFiles ==
    /\ purge.pc = "selected"
    /\ \E stuck \in SUBSET {i \in purge.selected : files[i] # {}} :
         /\ IF stuck = {} THEN UNCHANGED faults ELSE Fault
         /\ files' = [i \in Incidents |-> IF i \in purge.selected \ stuck THEN {}
                                                                         ELSE files[i]]
    /\ purge' = [purge EXCEPT !.pc = "removed"]
    /\ UNCHANGED <<captured, buffer, locked, rows, expired, tasks>>

\* The rows are deleted in one transaction.
CommitPurge ==
    /\ purge.pc = "removed"
    /\ rows' = [i \in Incidents |-> IF i \in purge.selected THEN "none" ELSE rows[i]]
    /\ expired' = expired \ purge.selected
    /\ purge' = IdlePurge
    /\ UNCHANGED <<captured, buffer, locked, files, tasks, faults>>

\* The SELECT or the commit raises; the loop logs it and tries again later.
PurgeFails ==
    /\ purge.pc # "idle"
    /\ Fault
    /\ purge' = IdlePurge
    /\ UNCHANGED <<captured, buffer, locked, clips, tasks>>

\* The process restarts: buffers and tasks are gone, and a merge that was
\* writing may leave its file.
Restart ==
    /\ Fault
    /\ \E partial \in SUBSET {i \in Incidents : task[i].pc = "merging"} :
         files' = [i \in Incidents |-> IF i \in partial THEN Taken(i) ELSE files[i]]
    /\ buffer' = [c \in Cameras |-> {}]
    /\ task' = [i \in Incidents |->
                  IF task[i].pc = "none" THEN NoTask ELSE [task[i] EXCEPT !.pc = "ended"]]
    /\ purge' = IdlePurge
    /\ UNCHANGED <<captured, camera, locked, rows, expired, staging, ready>>

TaskStep(i) ==
    \/ FlushPre(i)
    \/ WriteStaging(i, "pre", "pre", "waiting")
    \/ FlushPost(i)
    \/ WriteStaging(i, "post", "post", "merging")
    \/ MergeClip(i)
    \/ MergeFails(i)
    \/ PersistClip(i)
    \/ Cleanup(i)

PurgeStep == SelectExpired \/ RemoveFiles \/ CommitPurge \/ PurgeFails

Next ==
    \/ \E c \in Cameras : PushFrame(c)
    \/ \E i \in Incidents, c \in Cameras, sev \in Severities : RequestClip(i, c, sev)
    \/ \E i \in Incidents : LockIncident(i) \/ TaskStep(i) \/ Expire(i)
    \/ PurgeStep
    \/ Restart

Spec == Init /\ [][Next]_vars

\* Tasks and the hourly purge are run by the event loop; frames, requests,
\* locks and expiry are the environment's.
Fairness == WF_vars(PurgeStep) /\ \A i \in Incidents : WF_vars(TaskStep(i))

FairSpec == Spec /\ Fairness

-----------------------------------------------------------------------------
(* Properties. *)

\* No frame is in two clips, however the tasks of one camera interleave their
\* flushes of the shared buffer; and the frames a clip holds as post-event footage
\* are newer than its pre-event footage, although frames arrive and are evicted
\* while it sleeps.
FramesTakenOnce ==
    /\ \A i, j \in Incidents :
         i # j /\ camera[i] \cap camera[j] # {} => Taken(i) \cap Taken(j) = {}
    /\ \A i \in Incidents : \A f \in task[i].pre, g \in task[i].post : f < g

\* A clip in the table can be played: its file is there, unless its retention
\* period has passed and it was not locked.
RowsHaveFiles ==
    \A i \in Incidents :
        rows[i] # "none" => files[i] # {} \/ (i \in expired /\ rows[i] = "unlocked")

\* Where the clip of incident i is.  A clip is held when its task was asked to
\* lock it, so a row recorded without the lock breaks the promise once it is purged.
CustodyOf(i) ==
    IF rows[i] = "none"
    THEN IF task[i].pc \in {"cleanup", "ended"} THEN "gone" ELSE "pending"
    ELSE IF Locking(i) THEN "held"
    ELSE IF i \in expired THEN "deletable" ELSE "kept"

FootageOf(i) == IF rows[i] = "none" THEN {} ELSE files[i]

Custody == INSTANCE ClipCustody
           WITH custody <- [i \in Incidents |-> CustodyOf(i)],
                footage <- [i \in Incidents |-> FootageOf(i)]

\* Tasks, purges, faults and restarts together keep the promise of ClipCustody: a clip
\* is recorded once, keeps its footage, and is deleted only when its retention
\* period has passed and its incident was not created as HIGH.
ClipsInCustody == Custody!Spec

\* Nothing on disk is without an owner, unless an error or a restart
\* intervened: a clip file has a row or a task that will write it, and a staging
\* file has a task that will remove it or that had nothing to merge.
NoOrphans ==
    faults = 0 =>
        /\ \A i \in Incidents : files[i] # {} =>
               rows[i] # "none" \/ task[i].pc = "persist"
        /\ \A part \in staging : task[part[1]].pc # "ended"

\* The clip of a LOW incident is deleted in the end, also after purges that
\* failed half-way, unless its incident was locked: "Auto-deleted after 72h if not
\* confirmed" (ARCHITECTURE.md, line 225).  MEDIUM is left out: line 232 says that
\* its clip is not deleted, but the dispatcher asks for it without a lock
\* (alert_dispatcher.py, lines 182-186), and so it is, after 30 days.
EventuallyPurged ==
    \A i \in Incidents :
        task[i].severity = "LOW" /\ i \in expired \ locked
            ~> rows[i] = "none" \/ i \in locked

\* A task that took pre-event frames announces its clip, with or without
\* post-event frames, unless an error or a restart intervenes.
EventuallyReady ==
    \A i \in Incidents : task[i].pre # {} ~> i \in ready \/ faults > 0

\* review.py, line 168, "Lock evidence on CONFIRM or ESCALATE", and
\* ARCHITECTURE.md, line 259, "All HIGH clips: is_locked=True (cannot be
\* auto-deleted)": the clip of a locked incident is never deleted.
LockedIncidentKeepsClip ==
    [][\A i \in Incidents :
         i \in locked /\ rows[i] # "none" => rows'[i] # "none"]_vars
=============================================================================
