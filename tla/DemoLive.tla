------------------------------- MODULE DemoLive -------------------------------
(***************************************************************************)
(* scripts/demo_live.py: the demonstration that shows a video with what is *)
(* made of it.  It follows one person, the one seen best in each frame,    *)
(* whoever that is, and logs an alert while that person is violent.        *)
(***************************************************************************)
EXTENDS PersonVotes

CONSTANTS
    MaxReplays,     \* bound on the times the video starts again
    MaxAlerts       \* bound on the alerts

ASSUME LiveAssumption == {MaxReplays, MaxAlerts} \subseteq Nat

VARIABLES
    onnx,       \* whether there is a model for the CNN
    paused,
    grabbed,    \* whether there is a prev_gray to compare a frame with
    person,     \* state
    buffered,   \* Len(raw_frame_buffer)
    replays,    \* how often the video has started again
    flashed,    \* an alert in the last ALERT_COOLDOWN_SECS
    eventLog,   \* event_log: of each alert, what the verdict rested on
    closed      \* the program has ended

live_demo == <<onnx, paused, grabbed, person, buffered, replays, flashed, eventLog, closed>>

LiveInit ==
    /\ onnx \in BOOLEAN
    /\ paused = FALSE /\ grabbed = FALSE
    /\ person = NoPerson /\ buffered = 0 /\ replays = 0
    /\ flashed = FALSE /\ eventLog = <<>> /\ closed = FALSE

\* A frame in a shaking camera counts as a vote against violence, and nothing
\* else of the person changes.
Steadied(p) ==
    [p EXCEPT !.votes = Appended(@, [violent |-> FALSE, pass |-> replays], VoteWindow),
              !.violent = FALSE]

BugLiveVerdict(p, conf, shaking, frames) ==
    IF onnx /\ frames = WindowSize THEN WithVerdict(p, conf, 74, 75, replays)
    ELSE IF Len(p.window) = WindowSize THEN WithVerdict(p, conf, 50, 75, replays)
    ELSE p

\* classify: by the CNN once its buffer is full, else by the poses once theirs is.
LiveVerdict(p, conf, shaking, frames) ==
    IF shaking THEN Steadied(p)
    ELSE IF onnx /\ frames = WindowSize THEN WithVerdict(p, conf, 74, 75, replays)
    ELSE IF Len(p.window) = WindowSize THEN WithVerdict(p, conf, 50, 75, replays)
    ELSE p

\* A frame without a person, or with one whose pose is malformed.
LiveIdle ==
    /\ ~closed /\ ~paused
    /\ grabbed' = TRUE
    /\ UNCHANGED <<onnx, paused, person, buffered, replays, flashed, eventLog, closed>>

\* The flow of the first frame is none.  A violent person is an alert, unless
\* there has just been one.
LiveFrame(conf, shaking) ==
    /\ ~closed /\ ~paused
    /\ shaking => grabbed
    /\ grabbed' = TRUE
    /\ buffered' = IF buffered < WindowSize THEN buffered + 1 ELSE buffered
    /\ person' = LiveVerdict(WithPose(person, replays), conf, shaking, buffered')
    /\ \/ person'.violent /\ ~flashed /\ Len(eventLog) < MaxAlerts
          /\ eventLog' = Append(eventLog, [pass |-> replays, basis |-> Basis(person'),
                                           shaking |-> shaking])
          /\ flashed' = TRUE
       \/ (~person'.violent \/ flashed) /\ UNCHANGED <<eventLog, flashed>>
    /\ UNCHANGED <<onnx, paused, replays, closed>>

FlashOver ==
    /\ ~closed /\ flashed
    /\ flashed' = FALSE
    /\ UNCHANGED <<onnx, paused, grabbed, person, buffered, replays, eventLog, closed>>

\* A file starts again from its first frame with a new person; the frames of the
\* CNN and the one the flow is taken from are of the pass before.
Replayed ==
    /\ ~closed /\ ~paused /\ replays < MaxReplays
    /\ replays' = replays + 1
    /\ person' = NoPerson
    /\ UNCHANGED <<onnx, paused, grabbed, buffered, flashed, eventLog, closed>>

\* The key P.
TogglePause ==
    /\ ~closed
    /\ paused' = ~paused
    /\ UNCHANGED <<onnx, grabbed, person, buffered, replays, flashed, eventLog, closed>>

\* The key Q, or a webcam that gives no frame.
LiveEnds ==
    /\ ~closed
    /\ closed' = TRUE
    /\ UNCHANGED <<onnx, paused, grabbed, person, buffered, replays, flashed, eventLog>>

LiveNext ==
    \/ LiveIdle \/ FlashOver \/ Replayed \/ TogglePause \/ LiveEnds
    \/ \E conf \in Confidences, shaking \in BOOLEAN : LiveFrame(conf, shaking)

-----------------------------------------------------------------------------
(* Properties. *)

\* No alert of the live demonstration is raised on a frame in which the camera
\* shakes, and none rests on a pose or a vote of an earlier pass of the video.
AlertsWellFounded ==
    \A n \in DOMAIN eventLog :
        /\ ~eventLog[n].shaking
        /\ eventLog[n].basis = {eventLog[n].pass}
=============================================================================
