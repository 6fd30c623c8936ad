---------------------------- MODULE CameraControl ----------------------------
(***************************************************************************)
(* Cameras, from the API to the dashboards: the rows of the database, the  *)
(* requests that change them, the ingestion service, the health monitor    *)
(* that writes what readers report into the rows and shows it to the       *)
(* dashboards, and the health reporter.  All of it is one process here,    *)
(* the deployment in which the bus connects these parts.                   *)
(***************************************************************************)
EXTENDS CameraReaders, Dashboards

CONSTANTS
    Requests,       \* concurrent API requests
    MaxEvents,      \* bound on what comes from outside: requests, commands,
                    \* connections, disk checks, faults and ends of the process
    MaxFaults       \* bound on failed writes, failed commits and lost connections

ASSUME ControlAssumption ==
    /\ {"monitor", "reporter"} \subseteq Pushers
    /\ MaxEvents \in Nat /\ MaxFaults \in Nat

VARIABLES
    row,         \* camera -> Camera.status, or why there is no row
    req,         \* request -> what it is to commit
    last,        \* CameraHealthMonitor._last_status
    monitor,     \* where _handle_health_update is
    reporter,    \* where HealthReporter's handler is
    view,        \* client -> camera -> the last status shown
    written,     \* camera -> last status the monitor wrote, None after another writer
    events, faults    \* what came from outside so far, and the faults of it

control == <<row, req, last, monitor, reporter, view, written>>
counts  == <<events, faults>>
vars    == <<readers, bus, dashboards, control, counts>>

NoRequest == [op |-> "none", camera |-> None, to |-> None]

TypeOK ==
    /\ ReadersTypeOK
    /\ DashboardsTypeOK
    /\ row \in [Cameras -> Statuses \cup {"UNREGISTERED", "DELETED"}]
    /\ req \in [Requests -> [op : {"none", "register", "update", "delete"},
                             camera : Cameras \cup {None},
                             to : Statuses \cup {"DELETED", None}]]
    /\ last \in [Cameras -> Statuses \cup {None}]
    /\ monitor \in {"idle", "write", "push", "seen"}
    /\ reporter \in {"idle", "push"}
    /\ view \in [Clients -> [Cameras -> Statuses \cup {None}]]
    /\ written \in [Cameras -> Statuses \cup {None}]
    /\ events \in 0..MaxEvents /\ faults \in 0..MaxFaults

Registered(c) == row[c] \in Statuses
Unseen == [c \in Cameras |-> None]

Init ==
    /\ ReadersInit /\ Bus!BusInit /\ DashboardsInit
    /\ row \in [Cameras -> {"UNREGISTERED", "ACTIVE"}]
    /\ req = [r \in Requests |-> NoRequest]
    /\ last = Unseen
    /\ monitor = "idle" /\ reporter = "idle"
    /\ view = [k \in Clients |-> Unseen]
    /\ written = Unseen
    /\ events = 0 /\ faults = 0

Event == events < MaxEvents /\ events' = events + 1
Fault == Event /\ faults < MaxFaults /\ faults' = faults + 1

-----------------------------------------------------------------------------
(* api/routes/cameras.py.  A request reads the row, publishes its command, *)
(* and commits later.                                                      *)

Running == ingestion \in {"loading", "up", "stopping"}

Admit(r, op, c, to) ==
    /\ Running /\ Event
    /\ req[r] = NoRequest
    /\ req' = [req EXCEPT ![r] = [op |-> op, camera |-> c, to |-> to]]

Register(r, c) ==
    /\ row[c] = "UNREGISTERED"
    /\ \A s \in Requests : req[s].camera # c
    /\ Admit(r, "register", c, "DISABLED")
    /\ UNCHANGED <<readers, bus, dashboards, row, last, monitor, reporter, view, written, faults>>

\* start_stream and stop_stream return early when the row is as asked.  A row
\* that is RECONNECTING already is not written again: the session sees no change.
StartStream(r, c) ==
    /\ Registered(c) /\ row[c] # "ACTIVE"
    /\ \/ row[c] # "RECONNECTING" /\ Admit(r, "update", c, "RECONNECTING")
       \/ row[c] = "RECONNECTING" /\ Running /\ Event /\ req[r] = NoRequest /\ UNCHANGED req
    /\ Bus!Publish("ingestion.commands", <<"START", c>>)
    /\ UNCHANGED <<readers, dashboards, row, last, monitor, reporter, view, written, faults>>

StopStream(r, c) ==
    /\ Registered(c) /\ row[c] # "DISABLED"
    /\ Admit(r, "update", c, "DISABLED")
    /\ Bus!Publish("ingestion.commands", <<"STOP", c>>)
    /\ UNCHANGED <<readers, dashboards, row, last, monitor, reporter, view, written, faults>>

\* Refused while the row says ACTIVE.
Deregister(r, c) ==
    /\ Registered(c) /\ row[c] # "ACTIVE"
    /\ Admit(r, "delete", c, "DELETED")
    /\ UNCHANGED <<readers, bus, dashboards, row, last, monitor, reporter, view, written, faults>>

\* The session commits.  An update of a row that is gone fails.
Commit(r) ==
    LET c == req[r].camera IN
    /\ req[r] # NoRequest
    /\ IF req[r].op = "register" \/ Registered(c)
       THEN /\ row' = [row EXCEPT ![c] = req[r].to]
            /\ written' = [written EXCEPT ![c] = None]
       ELSE UNCHANGED <<row, written>>
    /\ req' = [req EXCEPT ![r] = NoRequest]
    /\ UNCHANGED <<readers, bus, dashboards, last, monitor, reporter, view, counts>>

Rollback(r) ==
    /\ req[r] # NoRequest
    /\ Fault
    /\ req' = [req EXCEPT ![r] = NoRequest]
    /\ UNCHANGED <<readers, bus, dashboards, row, last, monitor, reporter, view, written>>

RequestStep(r) ==
    \/ Commit(r) \/ Rollback(r)
    \/ \E c \in Cameras :
         Register(r, c) \/ StartStream(r, c) \/ StopStream(r, c) \/ Deregister(r, c)

-----------------------------------------------------------------------------
(* CameraHealthMonitor. *)

Report == handling["monitor"][1]     \* the report at work: <<camera, status>>

\* A status as before needs nothing, unless it is ACTIVE.
MonitorIgnores ==
    /\ Bus!Serve("monitor")
    /\ LET rep == Head(queue["monitor"]) IN last[rep[1]] = rep[2] /\ rep[2] # "ACTIVE"
    /\ UNCHANGED <<readers, dashboards, control, counts>>

BugMonitorTakes ==
    /\ Bus!Take("monitor")
    /\ monitor' = IF Head(queue["monitor"])[2] = "ACTIVE" THEN "seen" ELSE "write"
    /\ UNCHANGED <<readers, dashboards, row, req, last, reporter, view, written, counts>>

MonitorTakes ==
    /\ Bus!Take("monitor")
    /\ LET rep == Head(queue["monitor"]) IN
       \/ /\ last[rep[1]] # rep[2]
          /\ last' = [last EXCEPT ![rep[1]] = rep[2]]
          /\ monitor' = "write"
       \/ /\ last[rep[1]] = rep[2] /\ rep[2] = "ACTIVE"
          /\ monitor' = "seen"
          /\ UNCHANGED last
    /\ UNCHANGED <<readers, dashboards, row, req, reporter, view, written, counts>>

BugUpdateStatus(c, s) ==
    /\ row' = [row EXCEPT ![c] = IF Registered(c) /\ s = "ACTIVE" THEN s ELSE @]
    /\ written' = [written EXCEPT ![c] = IF Registered(c) /\ s = "ACTIVE" THEN s ELSE None]
    /\ UNCHANGED counts

\* _update_db_status: without effect on a row that is gone; a failure is logged.
UpdateStatus(c, s) ==
    \/ /\ row' = [row EXCEPT ![c] = IF Registered(c) THEN s ELSE @]
       /\ written' = [written EXCEPT ![c] = IF Registered(c) THEN s ELSE @]
       /\ UNCHANGED counts
    \/ /\ Fault
       /\ written' = [written EXCEPT ![c] = None]
       /\ UNCHANGED row

\* After the push, an ACTIVE is written a second time.
AfterPush ==
    IF Report[2] = "ACTIVE" THEN monitor' = "seen" /\ UNCHANGED bus
    ELSE monitor' = "idle" /\ Bus!Return("monitor")

\* The row is written; then the dashboards are told, when there are any.
MonitorWrites ==
    /\ monitor = "write"
    /\ UpdateStatus(Report[1], Report[2])
    /\ IF pool = {} THEN AfterPush /\ UNCHANGED dashboards
                    ELSE monitor' = "push" /\ Begin("monitor") /\ UNCHANGED bus
    /\ UNCHANGED <<readers, req, last, reporter, view>>

MonitorShows(k) ==
    /\ monitor = "push"
    /\ SendReturns("monitor", k)
    /\ view' = [view EXCEPT ![k][Report[1]] = Report[2]]
    /\ UNCHANGED <<readers, bus, row, req, last, monitor, reporter, written, counts>>

MonitorMisses(k) ==
    /\ monitor = "push"
    /\ SendFails("monitor", k)
    /\ UNCHANGED <<readers, bus, control, counts>>

MonitorPushed ==
    /\ monitor = "push"
    /\ Finish("monitor")
    /\ AfterPush
    /\ UNCHANGED <<readers, row, req, last, reporter, view, written, counts>>

\* The second write of an ACTIVE, with last_seen_at.
MonitorSees ==
    /\ monitor = "seen"
    /\ UpdateStatus(Report[1], "ACTIVE")
    /\ monitor' = "idle" /\ Bus!Return("monitor")
    /\ UNCHANGED <<readers, dashboards, req, last, reporter, view>>

MonitorStep ==
    \/ MonitorIgnores \/ MonitorTakes \/ MonitorWrites \/ MonitorPushed \/ MonitorSees
    \/ \E k \in Clients : MonitorShows(k) \/ MonitorMisses(k)

-----------------------------------------------------------------------------
(* ServiceHealthMonitor and HealthReporter. *)

\* The disk is looked at; the level it is at is published whatever it is.
CheckDisk(level) ==
    /\ Running /\ Event
    /\ Bus!Publish("system_health", level)
    /\ UNCHANGED <<readers, dashboards, control, faults>>

ReporterTakes ==
    /\ IF Head(queue["reporter"]) = "ok" \/ pool = {}
       THEN Bus!Serve("reporter") /\ UNCHANGED <<dashboards, reporter>>
       ELSE Bus!Take("reporter") /\ Begin("reporter") /\ reporter' = "push"
    /\ UNCHANGED <<readers, row, req, last, monitor, view, written, counts>>

ReporterSends(k) ==
    /\ reporter = "push"
    /\ SendReturns("reporter", k) \/ SendFails("reporter", k)
    /\ UNCHANGED <<readers, bus, control, counts>>

ReporterPushed ==
    /\ reporter = "push"
    /\ Finish("reporter")
    /\ reporter' = "idle" /\ Bus!Return("reporter")
    /\ UNCHANGED <<readers, row, req, last, monitor, view, written, counts>>

ReporterStep ==
    \/ queue["reporter"] # <<>> /\ ReporterTakes
    \/ ReporterPushed
    \/ \E k \in Clients : ReporterSends(k)

-----------------------------------------------------------------------------
(* Everything together. *)

\* Dashboards come and go; a new one knows no camera's status.
ClientStep(k) ==
    \/ /\ Running /\ Event /\ Connect(k)
       /\ view' = [view EXCEPT ![k] = Unseen]
       /\ UNCHANGED faults
    \/ (Disconnected(k) \/ HandlerEnds(k)) /\ UNCHANGED <<view, counts>>
    \/ Lose(k) /\ Fault /\ UNCHANGED view

Client(k) ==
    /\ ClientStep(k)
    /\ UNCHANGED <<readers, bus, row, req, last, monitor, reporter, written>>

\* A START or STOP on the channel the registry listens to.  Nothing in the
\* repository publishes there.
Command(kind, c) ==
    /\ Running /\ Event
    /\ Bus!Publish("camera_control", <<kind, c>>)
    /\ UNCHANGED <<readers, dashboards, control, faults>>

\* run_health_monitor: both of its consumers begin.
HealthMonitorStarts ==
    /\ Running
    /\ {"monitor", "reporter"} \cap subscribed = {}
    /\ subscribed' = subscribed \cup {"monitor", "reporter"}
    /\ UNCHANGED <<queue, handling>>
    /\ UNCHANGED <<readers, dashboards, control, counts>>

\* The process ends, whatever it is doing: only the rows are left.
Crash ==
    /\ ingestion # "down"
    /\ Event
    /\ table' = [c \in Cameras |-> None]
    /\ task' = [t \in Tasks |-> Finished]
    /\ awaited' = [w \in DOMAIN awaited |-> None]
    /\ ingestion' = "down" /\ loaded' = {}
    /\ subscribed' = {}
    /\ queue' = [c \in Consumers |-> <<>>] /\ handling' = [c \in Consumers |-> <<>>]
    /\ conn' = [k \in Clients |-> "off"] /\ pool' = {} /\ push' = [p \in Pushers |-> NoPush]
    /\ req' = [r \in Requests |-> NoRequest]
    /\ last' = Unseen /\ written' = Unseen /\ view' = [k \in Clients |-> Unseen]
    /\ monitor' = "idle" /\ reporter' = "idle"
    /\ UNCHANGED <<row, faults>>

Load == LoadActiveCameras({c \in Cameras : row[c] = "ACTIVE"})

Ingestion ==
    /\ \/ Load \/ StartLoaded \/ Shutdown \/ StopStep \/ ListenerStep
       \/ \E t \in Tasks : ReaderStep(t)
    /\ UNCHANGED <<dashboards, control, counts>>

Next ==
    \/ Ingestion
    \/ MonitorStep
    \/ ReporterStep
    \/ Crash
    \/ \E r \in Requests : RequestStep(r)
    \/ \E k \in Clients : Client(k)
    \/ \E kind \in {"START", "STOP"}, c \in Cameras : Command(kind, c)
    \/ \E level \in Levels : CheckDisk(level)
    \/ HealthMonitorStarts

Spec == Init /\ [][Next]_vars

\* The event loop runs what can run, writes and sends return, the process and
\* its tasks are started, and a
\* reader makes its next attempt.  Nothing is assumed of cameras, users, commands and
\* the end of the process.
Fairness ==
    /\ WF_vars(MonitorStep)
    /\ \A r \in Requests : WF_vars(Commit(r))
    /\ WF_vars((Load \/ StartLoaded) /\ UNCHANGED <<dashboards, control, counts>>)
    /\ WF_vars((StopStep \/ ListenerStep \/ \E t \in Tasks : ReaderCancelled(t))
                 /\ UNCHANGED <<dashboards, control, counts>>)
    /\ \A t \in Tasks : WF_vars(Attempt(t) /\ UNCHANGED <<dashboards, control, counts>>)
    /\ WF_vars(HealthMonitorStarts)

FairSpec == Spec /\ Fairness

-----------------------------------------------------------------------------
(* Properties. *)

\* A reader that runs is in the registry's table, under its camera: the next
\* stop_camera, or stop_all, can reach it.  With it, no camera has two readers,
\* however starts, stops, give-ups and the shutdown fall together.
ReadersReachable ==
    \A t \in Tasks : task[t].pc \in {"opening", "reading"} => table[task[t].camera] = t

\* The row of a camera says what the monitor heard last, when the monitor is
\* between reports, no request wrote the row since and no write failed.
RowFollowsReports ==
    \A c \in Cameras :
        written[c] # None /\ Registered(c) /\ monitor = "idle"
            => row[c] = last[c]

\* An open dashboard is in the pool, whatever happened to others while it was
\* pushed to; and between reports it shows, of each camera it was told of, what
\* the monitor heard last.
DashboardsCurrent ==
    \A k \in Clients :
        conn[k] = "open" =>
            /\ k \in pool
            /\ monitor = "idle" => \A c \in Cameras : view[k][c] \in {None, last[c]}

\* A shutdown comes to its end, with every reader stopped, unless it met the
\* listener inside stop_camera.
ShutdownCompletes ==
    ingestion = "stopping" /\ "listener" \notin subscribed
        ~> \/ ingestion = "stopped" /\ \A t \in Tasks : ~Live(t)
           \/ ingestion = "down"

\* A reader's last word, that it has given up, is written to its camera's row once
\* it waits in the monitor's queue, unless the write fails, the camera is deleted
\* or the process ends.  An OFFLINE that finds that queue full is dropped by the bus:
\* it never reaches the row, and this property does not cover it.
GiveUpReachesRow ==
    \A c \in Cameras :
        <<c, "OFFLINE">> \in {queue["monitor"][n] : n \in DOMAIN queue["monitor"]}
            ~> \/ row[c] = "OFFLINE" \/ ~Registered(c)
               \/ faults > 0 \/ ingestion = "down"

\* cameras.py, line 181, of the row that start_stream writes: "ingestion service
\* will confirm or revert".  So a camera that is asked to start while nothing reads
\* it does not stay RECONNECTING after the request has committed, unless ingestion
\* is shut down or the process ends.
StartIsAnswered ==
    \A r \in Requests, c \in Cameras :
        /\ req[r] = [op |-> "update", camera |-> c, to |-> "RECONNECTING"]
        /\ ingestion = "up" /\ \A t \in Tasks : Live(t) => task[t].camera # c
        ~> \/ req[r] = NoRequest /\ row[c] # "RECONNECTING"
           \/ ingestion \in {"stopping", "stopped", "down"}
=============================================================================
