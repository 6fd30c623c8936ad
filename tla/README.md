# OmniSentinel: TLA+ specifications

Formal models of the OmniSentinel surveillance backend (`src/smart-omnisentinel`):
cameras are read, frames analysed, events scored, incidents recorded, reviewed and
escalated, and evidence clips written and purged. All paths below are relative to
`src/smart-omnisentinel`. The whole backend is `asyncio`: inside one process tasks
interleave only where a coroutine suspends, and across processes (API, ingestion,
workers) only the database is shared. An action of a module is therefore the code
between two suspension points.

## 1. The system

| Component | State | Operations | Interacts with | Hard part | Correct when |
|---|---|---|---|---|---|
| Alert dispatcher (`services/alert_manager/alert_dispatcher.py`, `audit_writer.py`) | `_active_incidents` (dedup keys), rows `incidents`, `audit_log` | `dispatch`, `_handle_low/_medium/_high`, `_persist_incident`, `close_incident` (no caller) | bus channel `scored_incidents`; timer, analyzer cooldown, clip extractor, notifications, dashboards | the database fails between the dedup registration, the insert and the refresh; restarts | one incident per running event; a MEDIUM incident reaches the timer |
| Escalation timer (`escalation_timer.py`) | `_registry` | `register`, `deregister`, `run`, `_check_overdue`, `_escalate` | rows `incidents`, `alerts`, `audit_log`; notifications | reads a row and commits later, while requests write it; errors and lost acknowledgements | every MEDIUM incident is decided or escalated, once, and announced |
| Review and manual escalation (`api/routes/review.py`, `alerts.py`) | rows `incidents`, `alerts`, `review_actions`, `audit_log` | `submit_review_action`, `manual_escalate` | database session of the request, broadcast, background tasks | concurrent reviewers; broadcast before commit; rollback | decisions hold, locks stay, the audit trail agrees with the rows |
| Database session (`db/session.py`, `db/models`) | the tables | commit, rollback, unit of work | every component | an UPDATE carries the changed columns only | no mix of two writers breaks a row |
| Evidence extraction (`services/evidence_manager/clip_extractor.py`) | `_active_clip_tasks`, staging and clip files, rows `evidence_clips` | `request_clip_extraction`, `_extract_clip` | frame buffer, dispatcher, dashboards | concurrent tasks share one buffer; failing writers; stops in between | a frame is in one clip; rows have files; nothing is orphaned |
| Frame buffer (`services/inference/frame_buffer.py`) | a deque per camera | `push`, `flush`, `snapshot`, `get_buffer`, `remove_buffer` (no caller) | inference, clip tasks | eviction only on push | frames in order, taken once |
| Retention manager (`retention_manager.py`) | clip files and rows | `_purge_expired` every hour | evidence clips, incidents | files first, rows second; failures between | nothing locked or unexpired is deleted; what may be is |
| Event bus (`core/event_bus.py`) | one bounded queue per subscriber | `publish`, `subscribe`, `unsubscribe`, `consume`, `consume_prefix` | everything in one process | full queues drop, cancelled consumers discard, failing handlers lose the message | order per subscriber; losses only where the code says so |
| Event analysis (`services/event_analysis`) | smoothed confidence, persistence counter and cooldown per (camera, event); merge windows; track histories | `handle_candidate`, `set_cooldown`, `clear_event`, `run_decay_loop`, `process`, `record` | bus, dispatcher | thresholds, counters at their limits, cooldown against candidates in flight | an event is confirmed after enough frames and not during a cooldown |
| Risk engine (`services/risk_engine`) | zone cache | `compute_risk_score`, `score_to_severity`, `extract_signals`, `get_zone_for_camera`, `invalidate` | bus, database | clamping; a fetch in flight while its entry is invalidated | the score is exact at the tiers; a cached zone is no older than its TTL |
| Camera ingestion (`services/ingestion`) | reader and task per camera, reconnect counters | `start_camera`, `stop_camera`, `listen_for_control_commands`, reader loop | bus, camera API | stop during a reconnect; commands that nobody receives | one reader per camera, within reach of a stop; a shutdown ends |
| Camera API and health (`api/routes/cameras.py`, `services/health_monitor/camera_health.py`) | `Camera.status`, `_last_status` | register, start, stop, deregister, `_handle_health_update` | database, bus | three writers of one status; a cache updated before the write | the row and the dashboards say what was reported last |
| Inference (`services/inference`) | frame counters, the detector's last result, tracks, fall states, frame windows, votes | `process_frame` and what it calls | frames in, candidates out | counters that run apart, tracks that come and go, a tracker that fails in the middle | a person's window holds successive frames; shaking is damped |
| WebSocket manager (`api/websocket_manager.py`, `api/routes/ws.py`) | `_connections` | `connect`, `disconnect`, `broadcast`, `send_to_user` (no caller) | dashboards | the table changes during a broadcast | a dead connection is dropped, a live one served |
| Notifications (`services/notification`, `alert_manager/notifier.py`) | none beyond the running tasks | `send_webhook`, `send_alert_email`, `send_alert_sms`, `dispatch_emergency_alert` | dispatcher, timer, reviews | retries, late answers, one addressee's failure, a client that cannot be made | one addressee's failure keeps no other from being told |
| Service health (`services/health_monitor`) | the last sample | disk checks, `HealthReporter` | bus, dashboards | it pushes beside the camera monitor | it disturbs nobody's broadcast |
| Training (`ml`, `scripts/train_rwf.py`) | `data/processed`, checkpoints, exported models | loaders, `dataset_builder`, trainings, exports | one program's files are the next one's input | stops in the middle of a file, repeated runs, disagreeing formats | the best model is kept, and what is loaded was meant for the model |
| Demonstrations (`scripts/demo_ingest.py`, `demo_live.py`) | votes per person, frame buffers, cooldown | one loop each | rows `incidents`, a frame file for the dashboard | replays of the video, state cleared in part | an alarm rests on what was just seen |
| Authentication (`core/security.py`, `api/routes/auth.py`) | revoked token ids | login, refresh, logout, revoke | Redis or memory | - | - |
| Queries, review queue, configuration, start-up, schemas, other scripts, dashboard, deployments | little or none | reads, declarations | - | - | - |

`PROJECT.json` lists the same components with their status, and under `hazards` the
places in the code where an order of steps, a failure, a restart or a limit matters and
a test would hardly reach it, each with the property that covers it.

How the parts are connected: inference publishes candidates; the analyzer confirms them
and publishes on `confirmed_events`; the severity classifier scores them and publishes on
`scored_incidents`; the dispatcher persists an incident, sets the analyzer's cooldown for
a HIGH one, requests a clip, notifies, and registers a MEDIUM one with the timer. The
API's requests and the timer then write the same rows. The retention manager deletes
what the clip tasks recorded. Beside this stream, readers report their camera's state on
`camera_health`; the health monitor writes it to the row and shows it to the dashboards,
while requests write the same column.

The bus is in memory, so this holds only where the parts are in one process. Three
channels lead nowhere in any deployment: `frames.<camera>` and `ingestion.commands` have no
consumer, and `camera_control` no publisher.

## 2. Modules

| Module | Models | Files |
|---|---|---|
| `IncidentLifecycle` | dispatcher, timer, review and manual escalation, database session | `MCIncidentLifecycle.tla`, `Lifecycle*.cfg`, `BusAndTimer.cfg` |
| `IncidentLifecycle_proofs` | theorems about it | |
| `EvidenceRetention` | frame buffer, clip tasks, retention manager | `MCEvidenceRetention.tla`, `EvidenceRetention.cfg`, `EvidenceLock.cfg` |
| `ClipCustody` | what the evidence service promises of a clip, refined by `EvidenceRetention` | |
| `EvidenceRetention_proofs` | theorems about it | |
| `EventBus` | the bus's queues and consumers, as operators other modules build steps from | |
| `EventBusDelivery` | the bus with its history, EXTENDS `EventBus` | `MCBusAndTimer.tla`, `BusAndTimer.cfg` (with the lifecycle's liveness) |
| `LossyDelivery` | what the bus promises, refined by `EventBusDelivery` | |
| `EventBusDelivery_proofs` | theorems about it | |
| `CameraReaders` | registry, reader tasks, command listener, start-up and shutdown of ingestion | |
| `Dashboards` | connections and broadcasts | |
| `CameraControl` | camera requests, health monitor, health reporter; EXTENDS the two above, on `EventBus` | `MCCameraControl.tla`, `Cameras.cfg`, `CameraStart.cfg` |
| `CameraControl_proofs` | theorems about it | |
| `RiskScore` | the score and its tiers, pure functions | |
| `EventAnalysis` | analyzer, risk engine and dispatcher's entry on `EventBus`; EXTENDS `RiskScore` | `MCPipeline.tla`, `Pipeline.cfg`, `ConfirmedInARow.cfg` |
| `AnalysisStores` | merger windows, track histories, zone cache | the same |
| `Perception` | one camera's runner, from frame to candidates | the same |
| `Notifications` | what becomes of one alert on its way out | the same |
| `PersonVotes`, `DemoIngest`, `DemoLive` | the two demonstration programs and the state of a person they share | the same |
| `Demonstrations` | the two beside each other | the same |
| `ModelTraining` | loaders, trainings and exports, by the files they leave | the same, `TrainingData.cfg` |
| `Analysis_proofs` | theorems about `RiskScore`, `EventAnalysis` and `AnalysisStores` | |
| `Perception_proofs`, `Notifications_proofs` | theorems about these | |
| `Programs_proofs` | theorems about `ModelTraining` and `Demonstrations` | |

Operators named `Bug...` are defective variants of the definition after them. No
specification uses one; each says which programming mistake a property catches.

### IncidentLifecycle

| State | Code |
|---|---|
| `incidents`, `rowsOf` | table `incidents`: severity, status, `is_locked`, last review action; the rows of a (camera, event type) pair |
| `alerts`, `audit` | tables `alerts` (number of automatic and manual rows) and `audit_log` |
| `active`, `disp` | `AlertDispatcher._active_incidents`, and where `dispatch` is suspended |
| `registry`, `overdue`, `timer` | `EscalationTimer._registry`, the entries past their timeout, and the pass of `_check_overdue` |
| `req` | requests of the API with the row each one read |
| `sent` | clips requested, notifications, dashboard messages, exports |
| `run`, `forgotten`, `faults` | history: rows of this worker process, ids it lost to a fault or restart; the fault bound |

The dispatcher handles one message at a time (`bus.consume` awaits the handler):
`DispatchNew`, then `PersistIncident` (or `PersistFails`, or `RefreshFails` when the
commit succeeded and the refresh did not), `AuditDispatch`, `FinishDispatch`. The timer:
`StartCheck` takes the overdue entries, then per entry `EscalateSkip`, or `EscalateRead`,
`EscalateCommit`, `EscalatePush`; `EscalateFails` and `EscalateAckLost` are the failures
that `_escalate` swallows. A request: `RequestRead`, `RequestFlush`, `RequestCommit`, or
`RequestRollback`.

`Merged` is the unit of work: an UPDATE writes the columns whose value differs from what
the session read, over whatever the row holds by then. A flushed request holds the row
lock until it commits (`HoldsRowLock`), and the timer's commit waits for it (`RowFree`).

What the properties say, and why they are not obvious:

- `DecisionsLock`, `LockNeverReleased`, `AlertedIsHigh`: two sessions that write a row
  from stale reads never unlock evidence, never take HIGH back and never leave an escalated
  incident below it. It holds because `is_locked` only ever goes from false to true, and severity
  to HIGH, so a stale session does not write the old value; a session that wrote the whole
  row would break it (`BugMergedWholeRow`).
- `SingleAutoEscalation`: one automatic escalation per incident although the registry,
  the overdue list and the commit are apart and acknowledgements get lost.
- `OneIncidentPerKey`, `NothingForgotten`: what the in-memory tables guarantee within one
  run of the worker, and exactly which faults lose an incident (`forgotten`).
- `EscalationNotified`, `EscalationAnnounced`: who escalates also tells somebody.
- `AuditMatchesRows`: the audit trail and the tables agree, over rollbacks.
- `ReviewTakesEffect`: a committed decision is the status of the row, unless the handler
  had read that status and therefore did not write it.
- `EventuallyDecided`: every incident in ACTIVE_REVIEW is reviewed or escalated.

### EvidenceRetention

| State | Code |
|---|---|
| `captured`, `buffer` | `CameraFrameBuffer._frame_count`, the frames in it |
| `camera`, `locked` | the incident's camera once its clip is requested; `Incident.is_locked` |
| `task` | where `_extract_clip` is, the severity its incident was created with, the frames it took |
| `staging`, `files` | files under `staging/` and `clips/` |
| `rows`, `expired` | table `evidence_clips` and its `is_locked`; clips past `expires_at` |
| `purge` | `RetentionManager._purge_expired` |
| `ready` | incidents announced by EVIDENCE_READY |

`Locking(i)` is the `lock` argument of a task: only `_handle_high` passes it. `Grades` is a constant that says which
severities an incident may be created with.

`TaskStep` is one task: `FlushPre`, `WriteStaging`, sleep, `FlushPost`, `WriteStaging`,
`MergeClip` or `MergeFails`, `PersistClip`, `Cleanup`. Frames are numbers; eviction by age
removes an arbitrary prefix, so no clock is needed. The module is about one process that
runs inference and the evidence manager together (`api/main.py` in development, or the
scripts); in separate containers the buffers are not shared at all and no clip has frames.

`FramesTakenOnce` is about tasks that flush the same buffer: a frame is in one clip, and a clip's
frames are in order. `RowsHaveFiles` is about files removed before rows, with
failures and restarts between; `NoOrphans`, `EventuallyReady`, `EventuallyPurged` about what is left behind.
`EventuallyPurged` speaks of clips of LOW incidents, which `docs/ARCHITECTURE.md:225` says are deleted. A MEDIUM
incident's clip is purged by the same code, though line 232 says that it is not (see section 4).

`ClipCustody` is what the rest of the system may rely on, without tasks, buffers and staging: a clip
is pending, kept or held, deletable, and gone; it is recorded once, its footage does not change
in custody, a held clip stays, a deletable one loses its file first and its row second.
`ClipsInCustody` says `EvidenceRetention` implements it. A clip is held if its task was asked to lock it
(`Locking(i)`) and not if its row says so, so that a row recorded without the lock is a violation
as soon as it expires.

### EventBus, EventBusDelivery, LossyDelivery

| State | Code |
|---|---|
| `subscribed`, `queue` | `InProcessEventBus._subscribers`: one bounded queue per call of `consume` |
| `handling` | the message whose handler `consume` awaits |
| `published`, `since`, `taken`, `dropped` | history: last number per channel, number at subscription, messages handed over, messages that met a full queue |

`publish` has no suspension point, so `Publish` reaches every queue of the channel in one
step; a full queue is skipped. `Start` is `consume` up to its loop, `Take` is `queue.get`
returning, `Return` the handler's end (an exception is logged and ends it just the
same), `Cancel` the cancellation of the task with what its queue still holds.

`LossyDelivery` is all a service may rely on: messages of its channel, published after it
subscribed, in order, each at most once, any of them missing. `DeliversInOrder` says the bus
implements it, with `queue`, `handling` and `dropped` hidden. What it leaves open is
bounded by `AllAccounted` (nothing is missing that was not dropped at a full queue of
that consumer) and `WaitingIsTaken`.

### CameraReaders, Dashboards, CameraControl

| State | Code |
|---|---|
| `table`, `task` | `CameraRegistry._tasks`; each task's reader: camera, place in `run`, `_reconnect_count` |
| `awaited` | who is inside `stop_camera`, and the cancelled task it waits for |
| `ingestion`, `loaded` | where `services.ingestion.main` is; the rows it found ACTIVE |
| `conn`, `pool`, `push` | each client's socket; `WebSocketManager._connections`; the broadcasts under way |
| `row`, `req` | `Camera.status`; requests between their read and their commit |
| `last`, `monitor` | `CameraHealthMonitor._last_status`, and where its handler is |
| `reporter` | where `HealthReporter`'s handler is |
| `view`, `written` | history: what each dashboard was shown; the last status the monitor wrote |
| `subscribed`, `queue`, `handling` | the bus, as in `EventBus` |

A reader: `OpenSucceeds`, `OpenFails`, `OpensEmpty` (it opens and the first read fails),
`ReadFails`, and `ReaderCancelled`, each up to its next await; the statuses it publishes in
one step reach the queues in that order. The registry: `ListenerStarts`, `ListenerStops`
and `ListenerResumes`, as `stop_camera` waits for the task it cancelled. The service:
`LoadActiveCameras`, `StartLoaded`, `Shutdown`, `StopNext`, `StopResumes`, `StopEnds`. A request is
admitted (`Register`, `StartStream`, `StopStream`, `Deregister`) and later commits or rolls back.
The monitor: `MonitorIgnores`, or `MonitorTakes`, `MonitorWrites`, the push, and for an ACTIVE
`MonitorSees`, the second write. `Command` is a message on `camera_control`: nothing in the
repository publishes there, and the registry must still be right if something does.

- `ReadersReachable`: a running reader is in the table under its camera. Together with the
  table being a function it means one reader per camera, over restarts of a camera while
  its cancelled task has not ended, give-ups, and the shutdown.
- `RowFollowsReports`, `DashboardsCurrent`: row, cache and dashboards agree between reports,
  except where a request wrote the row or a write failed. A failed write is not repeated
  unless the status is ACTIVE (`camera_health.py:40`), which is why `written` is reset there.
- `ShutdownCompletes`: stated without the case in which the shutdown meets the listener
  inside `stop_camera`: there the cancellation is swallowed (`camera_registry.py:60`) and
  the listener goes on. In every other case all readers stop.
- `DashboardsCurrent` is about two clients: one may die or leave, and be removed, while a broadcast goes over the
  connections, and the other still gets what is pushed.
- `GiveUpReachesRow`: a reader's OFFLINE in the monitor's queue reaches the row. It does not say that
  OFFLINE gets into the queue: a full one drops it.
- `StartIsAnswered` is what a comment of the code promises of a start, and is violated: from the moment at which the
  request commits, with no reader of the camera alive, the row does not stay RECONNECTING.

### EventAnalysis, RiskScore

| State | Code |
|---|---|
| `smooth` | `EventAnalyzer._smoothing`: above the threshold or not, `consecutive_frames` |
| `history` | history: the frames since the last reset, above or not |
| `cooling` | `_cooldowns` that are active |
| `risk` | where `process_confirmed_event` is, and the zone sensitivity it read |
| `dispatcher`, `active` | where `dispatch` is; `_active_incidents` |
| `lost` | history: keys with an incident that met a full queue |

A key is a (camera, event type) pair. A smoothed confidence is on one side of the threshold: the mean of
two values on one side stays there, and of two on different sides may be on either
(`Smoothed`). `HandleCandidate` publishes again on every frame past the threshold, as the
code does, until `DispatchAlarms` sets the cooldown. `RiskReadsZone` and `RiskScores` are the two
database reads, with the values they fall back to. `RiskScore` is the weighted sum in
hundredths of a point, so that rounding and the tiers are exact.

`CreditIsNetSupport` says what the counter means: it is decremented, not reset, on a weak
frame, so it is the largest surplus of strong over weak frames in any run of frames that
reaches to the present, and a cooling key has none. The documents say "consecutive frames" instead: `ConfirmedInARow` is that claim, and is
violated. `ConfirmedIsRegistered` follows a
confirmed event over two queues and three failing calls to the dispatcher's table.

### AnalysisStores

`window` is `EventMerger._windows`, `track` the `TrackHistoryStore`, `cache` and `call` one
camera's entry in `ZoneConfigCache` and the calls that fetch it, `now` time in units. Nothing in the
repository calls these classes yet; they are modelled for the day something does.
`CountsMatchContents`: what is kept by counting (a window's peak and count, a track's
counters as its deque drops frames) agrees with the contents. `ZoneFresh`: a cached zone was
the camera's within the last TTL, also with several slow fetches, because an entry
expires counted from the time its call began. An invalidation promises nothing: a fetch
under way stores the old zone after it.

### Perception

One camera's `InferenceRunner` as `scripts/replay_video_file.py` drives it. `frame` is the frame
in hand and how far it is (`Detect`, `ByteTrack` or `Fallback`, `PosesAndFalls`, `CnnWaits`,
`CnnClassifies` or `SkeletonClassifies`, `Crowd`), the other variables are the fields of the
detector, tracker, fall detector and classifier. What the networks see is any choice.
`WindowsUnbroken`: a track's window holds successive frames. `ShakeMissedOutOfStep`: the
classifier counts frames with tracks and the optical flow counts all frames. In step,
the damping of a shaking camera works, unless there was nothing to compare with or the flow raised:
`inference_runner.py:117` logs the exception and goes on with magnitude 0, which reads as a camera at rest (`failed`). Out
of step it may or may not be missed. A ByteTrack that fails may have cleared the tracks and refilled some of them before
`Fallback` takes over.

### Notifications

For each task (webhooks, mails, telephones, emergency) the addressee it is at, how often each
was tried and how often it got the alert. A failure may come with or without delivery
(a late answer), so a webhook may be told more than once. `CannotStart` is a task that ends before anybody is tried, as
its library is missing or its client cannot be made (`sms_sender.py:94-103`, `email_sender.py:61`).
`FailuresStayApart`: once a task has tried anybody, no addressee's failure keeps another from being tried, but
for mails, where it ends the loop; of the emergency services each is tried in any case.

### PersonVotes, DemoIngest, DemoLive

`PersonVotes` is the `PersonState` both programs have; poses and votes carry the pass of the
video they come from. A step is one processed frame, with `VideoLoops` and `Replayed` for the end of
the file. `AlarmsWellFounded`: an alarm rests on poses and votes of one pass alone, although
the frame buffer of the CNN is not cleared, and an incident of `demo_ingest` is always HIGH. It is
only ever written with a live frame path: the import at line 538 makes the name
`time` local, so without one the first frame with a track ends the program.

### ModelTraining

| State | Code |
|---|---|
| `collected` | the spans of videos there are, with the class of each |
| `processed` | files under `data/processed`: source, video, place, class, split, and the length of their vectors |
| `samples` | what `FeatureWindowDataset` loaded: files of the two classes it knows |
| `training`, `best`, `scores` | trainings that run, `best_val_f1` or `best_val_loss`, results of epochs |
| `saved`, `exported` | the checkpoint files and `violence_model.onnx`: run, epoch, and whether a stop has torn the file |
| `finished` | history: the runs of the CNN that came to their end and exported |

Any program may stop in the middle and run again, also in the middle of writing a checkpoint (`StopsInSave`)
or an export (`StopsInExport`): `torch.save` writes over the only file there is. `ValShares` leaves the split open: the
shuffle has a fixed seed, but the list has the order of a CSV or of a directory, and the share is a parameter. So
no property says that the splits stay apart; they need not. `BestIsKept`: a checkpoint is the first best
epoch of its run, and no later run had an epoch worth saving; the same of the export, and no
later run that came to its end had anything to export. Only a program that was stopped leaves a torn file.
`ReadyForTraining` is what the documentation says of the windows, and is violated.

### MCPipeline

`MCPipeline` puts the modules from `EventAnalysis` to `ModelTraining` into one run. They meet each
other on the bus and in files only, so each behaviour is one of one `part`, and the others rest.

## 3. Runs

| Run | Instance | Shows |
|---|---|---|
| `lifecycle_safety` | 2 ids, 2 keys, 2 requests, 1 fault; symmetric | type, seven invariants and two action properties, 2.25 million states |
| `lifecycle_race` | 1 id, 1 key, 1 request, no faults | violated: the timer overwrites a decision made after it read the row |
| `lifecycle_lost` | 1 id, 1 key, 1 request, 1 fault | violated: one database error and the incident is never escalated |
| `lifecycle_suppressed` | 1 id, 1 key, 1 request, 1 fault | violated: a failed insert leaves the dedup key behind |
| `evidence` | 2 incidents, one LOW or HIGH, one MEDIUM or HIGH, 1 camera, 3 frames, 1 fault | type, three invariants, refinement of `ClipCustody`, two liveness properties, 0.6 million states |
| `evidence_lock` | 1 incident, 1 camera, 1 frame, no faults | violated: a clip whose incident was locked after its creation is purged |
| `bus_and_timer` | the bus: 2 consumers of one channel, a channel without consumers, queues of 2, 4 messages a channel; the lifecycle: 2 ids, 2 keys, 1 request, no faults | of the bus its type, two invariants, `WaitingIsTaken` and the refinement of `LossyDelivery`; of the lifecycle `EventuallyDecided` and `EscalationAnnounced`; 51,855 states |
| `confirmed_in_a_row` | the pipeline part with 3 frames needed and 5 frames | violated: five frames, above the threshold but for the third, confirm an event with no three in a row |
| `cameras` | 1 camera, 2 reader tasks, 2 requests, 2 dashboards, 2 outside events, 1 of them a fault | type, three invariants, two liveness properties, 0.51 million states |
| `camera_start` | the same, no faults | violated: a camera whose reader gave up is started, and stays RECONNECTING with no reader |
| `pipeline` | see below | eight invariants, one liveness property, 0.85 million states |
| `training_data` | the same | violated: windows of RWF-2000 and UR Fall are loaded as zeros |

Bounds of the lifecycle, evidence and bus runs. In `bus_and_timer` each behaviour is one of one of the two parts, and the
other rests. Two ids are needed for two incidents of one key and for an overdue list with two
entries, two keys for two dispatches around one pass, two requests for two sessions that
read before either writes; every property speaks of at most two incidents and two
sessions. One fault at any point covers each failing step against every interleaving; a
second adds restarts after restarts. Two clips of one camera are the conflict over
a buffer, and three frames give each task one before and one after its event with one
to be stolen. Four messages exceed a queue of two and what its handler holds by one, so a
message is dropped, and two consumers show that one's full queue is not the other's loss.

Bounds of the camera runs. The properties are per camera; two dashboards are one that leaves or dies during a broadcast and one
that stays; two tasks are a cancelled reader and the
one started over it, as a third needs the first to have ended. One failed attempt is allowed, so that both a
reconnect and giving up happen. `MaxEvents` bounds what comes from outside (requests,
commands, connections, disk checks, faults and ends of the process): two of them are every pair,
such as a stop and a start, a request and a fault, a command and the end of the process.
Readers, reports and the start of the service are not bounded, so a camera that flaps does so for ever.

Bounds of the pipeline runs. Two keys share queues of one message, so that one key's events push out
the other's; two frames are needed and three are counted, so the counter goes up, down and
past its threshold. Time is 0 to 2 with windows, ages and TTL of 1: within, at and past each limit. Two spots,
two track ids and four frames: a track leaves, its number comes back for another person,
and the CNN, which looks at every second frame from the second on, falls out of step and is in step again
(with three frames it never votes in step). Falls are not combined with the CNN, which does not read them. Two addressees per task and one
retry; two poses and votes; two passes of a video, and a third in the live demonstration; two
epochs and two runs of a training; two spans of one video and two videos of one source, of classes the training
loads and of others. `confirmed_in_a_row` needs three frames and has five: with two
needed, a count of two is always reached by two in a row.

Deadlock is not checked: ids, requests, frames, events and faults run out.

Fairness (`Fairness` in each module) is the event loop's: a task that is ready runs
(`WF` of `DispatcherStep`, `TimerStep`, `TaskStep`, `PurgeStep`, `TakeNext`, `ReturnConsumer`,
`MonitorStep`, `RiskStep`, `DispatchStep`, and of the registry's listener and its stops), a request that
began ends, a timeout passes, a cancelled reader ends and a reader makes its next attempt, and the
process starts its services. Nothing is assumed of new messages, frames, candidates, requests, reviews,
commands, cameras, faults or restarts; in particular not that a stream opens. `EscalateFails` is part of `TimerStep`, so fairness does not promise that a
failing call succeeds: the lifecycle's part of `bus_and_timer` has no faults, and
`lifecycle_lost` shows what one fault does.

## 4. Findings

The seven violation runs are disagreements between the code and what it says of itself,
quoted under `findings` in `PROJECT.json`:

1. `escalation_timer.py:142` escalates an incident a reviewer has just decided, although
   line 141 says "Only escalate if still unreviewed".
2. `escalation_timer.py:108` forgets an incident whose escalation failed.
3. `alert_dispatcher.py:112` suppresses events for an incident that was never stored.
4. `retention_manager.py:47` deletes clips of locked incidents: it tests the lock copied
   at extraction, not the incident's.
5. `cameras.py:172` asks for a start on a channel nobody consumes; line 181 says "ingestion
   service will confirm or revert". A reader that gave up leaves the row OFFLINE; a start sets it to RECONNECTING, and as no
   reader runs nobody changes it again.
6. `train_classifier.py:82` replaces windows of the wrong shape by zeros, and the loaders of
   RWF-2000 and UR Fall write nothing else, although `dataset_builder.py` calls the result ready for training.
7. `event_analyzer.py:51` takes one from the counter on a weak frame and does not reset it, so an event is confirmed without
   the "consecutive frames" of `event_analyzer.py:7`, `persistence_checker.py:5-6`, `README.md:38` and
   `docs/ARCHITECTURE.md:177`. `CreditIsNetSupport` says what the counter asks for instead.

What the models say of the code without a run of its own:

- The clip of a MEDIUM incident is requested without a lock (`alert_dispatcher.py:182-186`) and purged after 30
  days, although `docs/ARCHITECTURE.md:232` says "60s clip locked in evidence staging (not auto-deleted)".
- An OFFLINE that meets a full queue of the health monitor is dropped, and never reaches the row.
- A mail that fails ends the loop over the recipients (`email_sender.py:63`).
- A client that cannot be made ends the whole task with nobody tried: `sms_sender.py:94-103` (`twilio` is not in
  `requirements.txt`), `email_sender.py:61`.
- A restart of ingestion reads only rows with status ACTIVE; a camera that was reconnecting is left.
- A shutdown that meets the listener inside `stop_camera` is lost on it.
- An optical flow that raises leaves a shaking frame undamped in step (`inference_runner.py:117`).
- No fall classifier is ever loaded, so every fall is geometric; `export_onnx.py` traces the
  classifier with vectors of length 55, which it does not take.
- A track of the fallback tracker that is never matched again is never aged out (`tracker.py:174`).
- Windows of falls, distress and crowds are written and never opened (`train_classifier.py:46`).
- The same video may be in both splits of UCF-Crime and custom annotations: by
  different spans, against `docs/TRAINING_GUIDE.md:272`, and by one span, when a loader runs again with another list, order or
  `val_fraction` and the files of before stay, against `ucfcrime_loader.py:214`.
- A stop during `torch.save` loses the only checkpoint (`train_rwf.py:217`, `train_classifier.py:266`).

## 5. Proofs

Every invariant and every action property of the passing runs, and both refinements, are theorems, checked by
TLAPS for every value of the constants. TLC checked each of them, and each strengthening, on its
instance before it was proved. The assumptions are the `ASSUME`s of the modules and nothing else; TLC
evaluates them in every run. They say that bounds are natural numbers, queues, windows and intervals are not
empty, model values such as `None` are not data, and, in particular:

- `ControlAssumption`: monitor and reporter are among those who push to dashboards.
- `NotificationsAssumption`: webhooks, recipients, telephones and chats are lists.
- `PerceptionAssumption`: the CNN's interval is a multiple of the optical flow's; in the code both are
  4. Without it, a frame the CNN classifies in step need not be one the flow compared.

No theorem speaks of an unbounded system where the model is bounded by a guard (`MaxFaults`, `MaxEvents`,
`MaxFrames`, `MaxPublished`, ...); each is for every value of the bound. `Tasks` of `CameraReaders` is one more:
a reader is started only while a task name is unused, so for finitely many names starts end.

### IncidentLifecycle_proofs

- `TypeOK` is not inductive: a handler could carry `None` to a write. `Typed` adds
  `Carried` (a handler past its read carries an id). `TypeCorrect` follows.
- `ReadsFollowed`: whatever row the timer or a request read, the row now in the table is
  ahead of it (`Follows`): not deleted, no lock released, no severity lowered, no decision
  withdrawn. This is the invariant that makes a column-wise UPDATE safe, and what
  every step of every session has to keep. `LocksKept` (`LockNeverReleased`) follows from
  it, and with it `DecisionsLockAlways`, `AlertedIsHighAlways` and `AuditMatchesRowsAlways`:
  a session that writes from an old read cannot take back what an audit row says.
- `ReviewTakesEffectAlways`: `RequestEnds` shows that a flushed request ends with a write by its own
  commit only, and `CommitRow` what that commit leaves in the status column.
- `EscalatedOnce` ties the alert count to the timer's place: an escalated incident is not
  unreviewed, so no pass reads it again, and the pass that wrote it does not write twice.
  It gives `SingleAutoEscalationAlways`.
- `Tracked` says a row of this run has its key in `active`, except for the one being
  inserted. It gives `OneIncidentPerKeyAlways`.
- `EscalationNotified` and `NothingForgotten` are inductive given all of the above: what leaves the timer's
  hands was notified, what leaves the registry was decided, escalated or forgotten. `forgotten` and
  `sent` only grow, and nothing but a dispatch and a commit puts a row into ACTIVE_REVIEW.

### EventBusDelivery_proofs

`Ordered` is inductive: what a consumer was given increases, what waits for it increases, the
first lies below the second, and both above its subscription and not above the last
publication. `InOrderAlways` follows by joining the two sequences (`JoinedIsOrdered`).
`BusRefinesLossyDelivery` uses the same invariant: a delivery of `LossyDelivery` must exceed
the last one, which is `Below` at the head of the queue. `AllAccountedAlways` needs it too: the
number being published is new to what was given, waits or was dropped.

### EvidenceRetention_proofs

- `Stages`: a task's frames and row belong to its place in `_extract_clip`; before `persist` there is no row, at
  `persist` there is a file, and a locking task never leaves an unlocked row. `Selected`: rows
  the purge selected are still unlocked and expired, although it suspends twice before it deletes them.
  Each needs the other. They give `RowsHaveFilesAlways` and `LockedClipKeptAlways`.
- `Order`: what a buffer holds is newer than what any task took from it, and not newer than
  the camera's last frame. It gives `FramesTakenOnceAlways`.
- `Owned`, for as long as no fault happened: files and staging files belong to a task at the right place.
- `EvidenceRefinesClipCustody`: one lemma per kind of step (`CustodyOfTask`, `CustodyExpire`, `CustodyPurge`,
  `CustodyRestart`, ...). It needs `ExpiredHaveRows`, that nothing unrecorded has expired:
  otherwise a clip would enter custody as deletable.

### CameraControl_proofs

- `Fed`: what each consumer's queue can hold. With `ReaderTypes` it gives the types.
- `Registry`: a reader that runs is under its camera, and before the service is up, nothing runs and nobody
  listens. A start over a cancelled reader is why the invariant is about tasks that open or read
  and not about every live one. It gives `ReadersReachableAlways`.
- `Heard`: the report in the monitor's hands is the last it heard, and a row that it wrote, with nobody after it,
  has that status unless that is just being written. `Shown`: a dashboard with an older status has the
  newer one on its way, and no open dashboard is counted dead by a broadcast. They give
  `RowFollowsReportsAlways` and `DashboardsCurrentAlways`.

### Analysis_proofs

- `CreditInv`: the counter is the best net support over all suffixes of the history (`Best`). The lemmas on
  `Net` and `Suffixes` say what one more frame does to them.
- `CountsInv`: a window's peak is that of all that was merged (`Peak`), a track's counters are the
  cardinalities of the positions in its deque (`Counted`; `PlacesOfAppend`, `PlacesOfTail`).
- `ZoneInv`: what a call fetched was the zone at some time since the call began, and what is cached, at some time
  within the TTL before it expires.
- `RiskScore`: `ScoreIsExact` and `MoreIsNoLessSevere` need no state. Rounding to the even neighbour keeps the
  order (`RoundedIsMonotone`), saturation keeps it, and no weight is negative.

### Perception_proofs, Notifications_proofs, Programs_proofs

- `WindowsInv`: a window's numbers run up to the count of frames with tracks, so a track that was away must
  have lost its window. `ShakeInv` follows a shaky frame through the runner, also past a flow that raised, and is
  arithmetic modulo the two intervals.
- `ApartInv`: behind the place a task is at everybody was told or tried to the end, ahead of it
  nobody was tried; or the task ended with nobody tried at all (`NotStarted`).
- `BestInv`: a checkpoint is the first best of the scores so far of its run, torn only if that run is over;
  what is exported is such an epoch of a run that came to its end or was stopped in the export (`Exported`), and after
  it no run of `finished` has a result above 0.
- `IngestInv`, `LiveInv`: poses and votes in a person's state are of one pass (`Person`), also after the file
  begins again, where the windows of the CNN are not cleared.

### What is only model-checked

- Liveness: `EventuallyDecided`, `EscalationAnnounced`, `EventuallyPurged`, `EventuallyReady`, `WaitingIsTaken`,
  `ShutdownCompletes`, `GiveUpReachesRow`, `ConfirmedIsRegistered`. They rest on fairness, and so on ENABLED, which
  TLAPS does not reach here.
- The seven findings: TLC's counterexamples.

No module declares a RECURSIVE operator. What a fold over arbitrary data computes is not proved in general:
`Score` and `Multiplier` are closed expressions, and `CreditIsNetSupport` is stated by suffixes.

## 6. Plan

All modules planned are written, and eight modules hold theorems, as many as are planned. What could follow:

1. A timer refinement: `IncidentLifecycle` against an abstract incident (new, in review, decided or
   escalated) whose steps are single transactions, up to the race of finding 1.
2. Type correctness of the modules in `MCPipeline` as theorems of their own.
3. The camera registry against one reader per camera that starts and stops at once.

## 7. Not modelled

Pixels, features and probabilities of detection, pose and temporal networks (numeric: the models
take any result); encoders, file formats and hashing; passwords, JWT encoding, the set of revoked tokens and signed
URLs (library calls and look-ups); read-only endpoints; single-row configuration and zones; migrations,
schemas, logging; augmentation, evaluation and export to TensorRT; scripts that only run straight through; dashboard and deployment
files. Code without a caller is modelled only where it keeps state worth a property
(merger, track histories, zone cache, `NotificationClient`); `reconnect_handler`, `frame_sampler`,
`health_heartbeat`, `crowd_analyzer`, `close_incident`, `remove_buffer`, `clear_event` and the analyzer's decay loop
are not. The message a dashboard receives is one element of `sent` or of `view`; its layout is left out.
