---------------------------- MODULE CameraReaders ----------------------------
(***************************************************************************)
(* The ingestion service: one StreamReader task per camera, the registry   *)
(* that starts and stops them on commands from the bus, and the service's  *)
(* own start and shutdown.                                                 *)
(*                                                                         *)
(* A step is what one task does between two awaits.  A frame that is read  *)
(* changes nothing here: frames.<camera> has no consumer.                  *)
(***************************************************************************)
EXTENDS Naturals, Sequences

CONSTANTS
    Cameras,
    Tasks,          \* names of reader tasks, used again when nothing holds them:
                    \* more of them than cameras, so that one is always unused
    None,
    MaxAttempts,    \* max_reconnect_attempts
    MaxQueue        \* maxsize of a subscriber's queue

ASSUME ReadersAssumption ==
    /\ None \notin Cameras \cup Tasks
    /\ MaxAttempts \in Nat /\ MaxQueue \in Nat \ {0}

VARIABLES
    table,        \* CameraRegistry._tasks: camera -> task, or None
    task,         \* task -> its reader's camera, place in run, and _reconnect_count
    awaited,      \* who is inside stop_camera -> the task it waits for, or None
    ingestion,    \* where main is
    loaded,       \* what load_active_cameras returned
    subscribed, queue, handling    \* the event bus

Statuses == {"DISABLED", "RECONNECTING", "ACTIVE", "OFFLINE"}
Levels   == {"ok", "degraded", "critical"}

\* The consumers of the bus, and what each is subscribed to.  Nothing consumes
\* ingestion.commands.
ChannelOf == [listener |-> "camera_control", monitor |-> "camera_health",
              reporter |-> "system_health"]
Consumers == DOMAIN ChannelOf
Channels  == {ChannelOf[c] : c \in Consumers} \cup {"ingestion.commands"}
Messages  == (Cameras \X Statuses) \cup ({"START", "STOP"} \X Cameras) \cup Levels

Bus == INSTANCE EventBus
       WITH MaxSize <- MaxQueue, subscribed <- subscribed, queue <- queue,
            handling <- handling

readers == <<table, task, awaited, ingestion, loaded>>
bus     == <<subscribed, queue, handling>>

Finished == [camera |-> None, pc |-> "done", attempts |-> 0]
Created(c) == [camera |-> c, pc |-> "opening", attempts |-> 0]

ReadersTypeOK ==
    /\ table \in [Cameras -> Tasks \cup {None}]
    /\ task \in [Tasks -> [camera : Cameras \cup {None},
                           pc : {"done", "opening", "reading", "cancelling"},
                           attempts : 0..MaxAttempts]]
    /\ awaited \in [{"listener", "main"} -> Tasks \cup {None}]
    /\ ingestion \in {"down", "loading", "up", "stopping", "stopped"}
    /\ loaded \subseteq Cameras
    /\ Bus!BusTypeOK

ReadersInit ==
    /\ table = [c \in Cameras |-> None]
    /\ task = [t \in Tasks |-> Finished]
    /\ awaited = [w \in {"listener", "main"} |-> None]
    /\ ingestion = "down"
    /\ loaded = {}

Live(t) == task[t].pc # "done"

\* Task names nothing refers to any more.
Unused == {t \in Tasks : /\ ~Live(t)
                         /\ \A c \in Cameras : table[c] # t
                         /\ \A w \in DOMAIN awaited : awaited[w] # t}

-----------------------------------------------------------------------------
(* StreamReader.run. *)

BugReconnect(t, n, before) ==
    LET c == task[t].camera IN
    /\ task' = [task EXCEPT ![t] = [Created(c) EXCEPT !.attempts = n]]
    /\ Bus!PublishAll("camera_health", Append(before, <<c, "RECONNECTING">>))
    /\ UNCHANGED <<table, awaited, ingestion, loaded>>

\* _handle_reconnect with n failed attempts: says so, and either sleeps before
\* the next attempt or, after too many, gives up.  before: what run published
\* in the same step.
Reconnect(t, n, before) ==
    LET c == task[t].camera
        gaveUp == n > MaxAttempts
    IN  /\ task' = [task EXCEPT ![t] =
                      IF gaveUp THEN Finished ELSE [Created(c) EXCEPT !.attempts = n]]
        /\ Bus!PublishAll("camera_health",
                          before \o << <<c, "RECONNECTING">> >>
                                 \o (IF gaveUp THEN << <<c, "OFFLINE">> >> ELSE <<>>))
        /\ UNCHANGED <<table, awaited, ingestion, loaded>>

OpenFails(t) ==
    /\ task[t].pc = "opening"
    /\ Reconnect(t, task[t].attempts + 1, <<>>)

OpenSucceeds(t) ==
    /\ task[t].pc = "opening"
    /\ task' = [task EXCEPT ![t] = [@ EXCEPT !.pc = "reading", !.attempts = 0]]
    /\ Bus!Publish("camera_health", <<task[t].camera, "ACTIVE">>)
    /\ UNCHANGED <<table, awaited, ingestion, loaded>>

\* The stream opens and its first frame cannot be read.
OpensEmpty(t) ==
    /\ task[t].pc = "opening"
    /\ Reconnect(t, 1, << <<task[t].camera, "ACTIVE">> >>)

ReadFails(t) ==
    /\ task[t].pc = "reading"
    /\ Reconnect(t, 1, <<>>)

\* CancelledError is raised at the await the task is suspended in.
ReaderCancelled(t) ==
    /\ task[t].pc = "cancelling"
    /\ task' = [task EXCEPT ![t] = Finished]
    /\ UNCHANGED <<table, awaited, ingestion, loaded, bus>>

Attempt(t) == OpenFails(t) \/ OpenSucceeds(t) \/ OpensEmpty(t)

ReaderStep(t) == Attempt(t) \/ ReadFails(t) \/ ReaderCancelled(t)

-----------------------------------------------------------------------------
(* CameraRegistry. *)

BugStartCamera(c) ==
    LET t == CHOOSE u \in Unused : TRUE
    IN  table' = [table EXCEPT ![c] = t] /\ task' = [task EXCEPT ![t] = Created(c)]

\* start_camera: nothing, when the camera's task is not done.
StartCamera(c) ==
    IF table[c] # None /\ Live(table[c]) THEN UNCHANGED <<table, task>>
    ELSE LET t == CHOOSE u \in Unused : TRUE
         IN  /\ Unused # {}
             /\ table' = [table EXCEPT ![c] = t]
             /\ task' = [task EXCEPT ![t] = Created(c)]

BugStopCamera(c, who) ==
    /\ table' = [table EXCEPT ![c] = None]
    /\ IF table[c] # None /\ Live(table[c])
       THEN awaited' = [awaited EXCEPT ![who] = table[c]] ELSE UNCHANGED awaited
    /\ UNCHANGED task

\* stop_camera up to its await: the camera leaves the table and its task is
\* cancelled.
StopCamera(c, who) ==
    LET t == table[c] IN
    /\ table' = [table EXCEPT ![c] = None]
    /\ IF t # None /\ Live(t)
       THEN /\ task' = [task EXCEPT ![t].pc = "cancelling"]
            /\ awaited' = [awaited EXCEPT ![who] = t]
       ELSE UNCHANGED <<task, awaited>>

\* handle_command: START does not suspend.
ListenerStarts(c) ==
    /\ Bus!Serve("listener") /\ Head(queue["listener"]) = <<"START", c>>
    /\ StartCamera(c)
    /\ UNCHANGED <<awaited, ingestion, loaded>>

ListenerStops(c) ==
    /\ queue["listener"] # <<>> /\ Head(queue["listener"]) = <<"STOP", c>>
    /\ IF table[c] # None /\ Live(table[c]) THEN Bus!Take("listener")
                                            ELSE Bus!Serve("listener")
    /\ StopCamera(c, "listener")
    /\ UNCHANGED <<ingestion, loaded>>

\* The cancelled reader has ended.  stop_camera swallows the CancelledError,
\* its own cancellation included.
ListenerResumes ==
    /\ awaited["listener"] # None /\ ~Live(awaited["listener"])
    /\ awaited' = [awaited EXCEPT !["listener"] = None]
    /\ Bus!Return("listener")
    /\ UNCHANGED <<table, task, ingestion, loaded>>

ListenerStep ==
    \/ ListenerResumes
    \/ \E c \in Cameras : ListenerStarts(c) \/ ListenerStops(c)

-----------------------------------------------------------------------------
(* services.ingestion.main. *)

\* load_active_cameras, when the rows in active have status ACTIVE.
LoadActiveCameras(active) ==
    /\ ingestion = "down"
    /\ ingestion' = "loading"
    /\ loaded' = active
    /\ UNCHANGED <<table, task, awaited, bus>>

\* A reader for each of them, and the listener.
StartLoaded ==
    /\ ingestion = "loading"
    /\ \E of \in [loaded -> Unused] :
         /\ \A c, d \in loaded : of[c] = of[d] => c = d
         /\ table' = [c \in Cameras |-> IF c \in loaded THEN of[c] ELSE table[c]]
         /\ task' = [t \in Tasks |-> IF \E c \in loaded : of[c] = t
                                     THEN Created(CHOOSE c \in loaded : of[c] = t)
                                     ELSE task[t]]
    /\ Bus!Start("listener")
    /\ ingestion' = "up"
    /\ loaded' = {}
    /\ UNCHANGED awaited

\* main is cancelled, and gather cancels the listener.  Inside stop_camera the
\* cancellation is swallowed, and the listener goes on.
Shutdown ==
    /\ ingestion = "up"
    /\ ingestion' = "stopping"
    /\ IF awaited["listener"] = None THEN Bus!Cancel("listener") ELSE UNCHANGED bus
    /\ UNCHANGED <<table, task, awaited, loaded>>

\* stop_all, after gather is over: one camera after the other.
StopNext(c) ==
    /\ ingestion = "stopping" /\ "listener" \notin subscribed
    /\ awaited["main"] = None /\ table[c] # None
    /\ StopCamera(c, "main")
    /\ UNCHANGED <<ingestion, loaded, bus>>

StopResumes ==
    /\ awaited["main"] # None /\ ~Live(awaited["main"])
    /\ awaited' = [awaited EXCEPT !["main"] = None]
    /\ UNCHANGED <<table, task, ingestion, loaded, bus>>

StopEnds ==
    /\ ingestion = "stopping" /\ "listener" \notin subscribed
    /\ awaited["main"] = None /\ \A c \in Cameras : table[c] = None
    /\ ingestion' = "stopped"
    /\ UNCHANGED <<table, task, awaited, loaded, bus>>

StopStep == StopResumes \/ StopEnds \/ \E c \in Cameras : StopNext(c)
=============================================================================
