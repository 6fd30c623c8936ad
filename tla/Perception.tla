------------------------------ MODULE Perception ------------------------------
(***************************************************************************)
(* One camera's InferenceRunner, as the replay of a video drives it: every *)
(* frame goes through the detector, the tracker, the poses and falls, the  *)
(* classifier and the crowd rule, and leaves candidates on the bus.        *)
(*                                                                         *)
(* A person stands at a spot; two spots are too far apart for the fallback *)
(* tracker to take one for the other.  What the neural networks see, and   *)
(* which numbers ByteTrack gives, is any choice.                           *)
(***************************************************************************)
EXTENDS Naturals, Sequences, FiniteSets, FiniteSetsExt, Functions

CONSTANTS
    Spots,
    NoResult,
    SkipN,          \* detection_skip_frames
    FlowEvery,      \* OPTICAL_FLOW_SAMPLE_INTERVAL
    CnnEvery,       \* the CNN classifies every so many frames with tracks
    CnnFrames,      \* frames it looks at
    SkeletonWindow,     \* WINDOW_SIZE of the skeleton classifier
    SmoothingWindow,     \* SMOOTHING_WINDOW
    SmoothingThreshold,       \* SMOOTHING_THRESHOLD
    FallHistory,    \* frames of a person before a fall is considered
    FallRecent,     \* frames a fall may take
    HeadFrames,     \* HEAD_DROP_FRAMES
    CrowdSize,      \* people of a crowd
    MaxTracks,      \* bound on track ids
    VideoFrames       \* bound on the frames of the video

ASSUME PerceptionAssumption ==
    /\ {SkipN, FlowEvery, CnnEvery, SkeletonWindow, SmoothingWindow} \subseteq Nat \ {0}
    /\ CnnEvery % FlowEvery = 0
    /\ {CnnFrames, SmoothingThreshold, FallHistory, FallRecent, HeadFrames, CrowdSize, MaxTracks, VideoFrames}
         \subseteq Nat

VARIABLES
    number,     \* _frame_number; also the detector's _frame_counter
    frame,      \* the frame being processed: how far, what it shows, what is known of it
    cached,     \* the detector's last result: spots, or NoResult
    yolo,       \* PersonTracker._use_yolo_track
    spotOf,         \* PersonTracker._active_tracks: id -> spot
    grey,       \* whether there is a _prev_gray
    falls,      \* FallDetector._states: id -> state
    cnn,        \* whether the classifier has its onnx_session
    frames,     \* _frame_count: frames with tracks
    windows,    \* _track_windows: id -> the numbers of the frames it holds
    votes,      \* _smoothing_buffers: id, or 0 for onnx_global -> votes
    out         \* candidates of the last frame

perception == <<number, frame, cached, yolo, spotOf, grey, falls, cnn, frames, windows, votes, out>>

Ids     == 1..MaxTracks
Motions == {"calm", "brisk", "shaking"}     \* below 2.5, from 3.5 to 4.5, above 4.5
Rest    == [pc |-> "idle", seen |-> {}, scene |-> "calm", flow |-> "calm",
            first |-> FALSE, failed |-> FALSE, voted |-> FALSE]
NoFall  == [stood |-> FALSE, tall |-> FallRecent, known |-> 0]

PerceptionInit ==
    /\ number = 0 /\ frames = 0
    /\ frame = Rest
    /\ cached = NoResult /\ grey = FALSE
    /\ yolo = TRUE /\ cnn \in BOOLEAN
    /\ spotOf = <<>> /\ falls = <<>> /\ windows = <<>> /\ votes = <<>>
    /\ out = {}

\* The last n elements of a deque with one more.
Pushed(s, x, n) == IF Len(s) < n THEN Append(s, x) ELSE Append(Tail(s), x)

\* The frame goes on with what the detector sees, or is over at once without
\* detections.
Detected(spots) ==
    frame' = IF spots = {} THEN Rest ELSE [Rest EXCEPT !.pc = "track", !.seen = spots]

-----------------------------------------------------------------------------
(* PersonDetector. *)

\* detect: the network runs on every SkipN-th frame, and while there is no
\* result to repeat; when it fails there are no detections, and the old result
\* stays for the next frames.
Detect ==
    /\ frame.pc = "idle" /\ number < VideoFrames
    /\ number' = number + 1
    /\ out' = {}
    /\ IF number' % SkipN = 0 \/ cached = NoResult
       THEN \/ \E spots \in SUBSET Spots : cached' = spots /\ Detected(spots)
            \/ UNCHANGED cached /\ Detected({})
       ELSE UNCHANGED cached /\ Detected(cached)
    /\ UNCHANGED <<yolo, spotOf, grey, falls, cnn, frames, windows, votes>>

-----------------------------------------------------------------------------
(* PersonTracker. *)

\* What ByteTrack may make of a frame: tracks with any ids at any spots.
Assignments == UNION {{f \in [ids -> Spots] : IsInjective(f)} : ids \in SUBSET Ids}

\* ByteTrack looks at the frame itself; its tracks replace the old ones.
ByteTrack ==
    /\ frame.pc = "track" /\ yolo
    /\ spotOf' \in Assignments
    /\ frame' = IF spotOf' = <<>> THEN Rest ELSE [frame EXCEPT !.pc = "pose", !.seen = {}]
    /\ UNCHANGED <<number, cached, yolo, grey, falls, cnn, frames, windows, votes, out>>

\* _fallback_update, for good once ByteTrack has failed: at once, or after it had
\* cleared the tracks and put some of its own there.  A detection at the spot of a
\* track is that track's; the others get new ids.  A track without a detection
\* stays as it is: its frames_since_seen is never counted up from 0.
Fallback ==
    /\ frame.pc = "track"
    /\ \E old \in {spotOf} \cup (IF yolo THEN Assignments ELSE {}) :
         LET new  == frame.seen \ Range(old)
             last == Max(DOMAIN old \cup {0})
             ids  == (last + 1)..(last + Cardinality(new))
         IN  /\ ids \subseteq Ids
             /\ \E f \in {g \in [ids -> new] : IsInjective(g)} :
                  spotOf' = [t \in DOMAIN old \cup ids |-> IF t \in ids THEN f[t] ELSE old[t]]
    /\ yolo' = FALSE
    /\ frame' = [frame EXCEPT !.pc = "pose", !.seen = {}]
    /\ UNCHANGED <<number, cached, grey, falls, cnn, frames, windows, votes, out>>

-----------------------------------------------------------------------------
(* PoseEstimator, optical flow and FallDetector. *)

BugCompared == number % FlowEvery = 1 /\ grey

\* The motion of the frame is known only if it is one of the sampled ones and
\* not the first of them that got here, and if the flow does not raise; otherwise
\* it counts as none.
Compared == number % FlowEvery = 0 /\ grey

\* FallDetector.detect of one valid pose whose box is tall, flat or neither.
FallState(s, box) ==
    [stood |-> s.stood \/ box = "tall",
     tall  |-> IF box = "tall" THEN 0 ELSE Min({s.tall + 1, FallRecent}),
     known |-> Min({s.known + 1, Max({FallHistory, HeadFrames})})]

\* A fall is geometric alone, as no fall classifier is ever loaded: from tall
\* to flat within FallRecent frames, or by a head that dropped.
IsFall(s, box, drop) ==
    /\ s.stood
    /\ \/ box = "flat" /\ s.known >= FallHistory /\ s.tall < FallRecent
       \/ drop /\ s.known >= HeadFrames

\* Poses are matched to tracks, or not, and count if enough of them is visible.
PosesAndFalls(scene) ==
    /\ frame.pc = "pose"
    /\ \E failed \in IF Compared THEN BOOLEAN ELSE {FALSE} :
         frame' = [frame EXCEPT !.pc = "classify", !.scene = scene, !.first = ~grey, !.failed = failed,
                                !.flow = IF Compared /\ ~failed THEN scene ELSE "calm"]
    /\ grey' = (grey \/ number % FlowEvery = 0)
    /\ \E valid \in SUBSET DOMAIN spotOf : \E box \in [valid -> {"tall", "between", "flat"}] :
         LET old(t) == IF t \in DOMAIN falls THEN falls[t] ELSE NoFall
             new(t) == IF t \in valid THEN FallState(old(t), box[t]) ELSE old(t)
         IN  /\ falls' = [t \in DOMAIN falls \cup valid |-> new(t)]
             /\ \E drop \in BOOLEAN :
                  out' = IF \E t \in valid : IsFall(new(t), box[t], drop) THEN {"FALL"} ELSE {}
    /\ UNCHANGED <<number, cached, yolo, spotOf, cnn, frames, windows, votes>>

-----------------------------------------------------------------------------
(* TemporalClassificationEngine.update. *)

Violent(v) == Cardinality({n \in DOMAIN v : v[n]}) >= SmoothingThreshold

\* votes with one more, of a buffer that setdefault may have to create.
WithVote(key, vote) ==
    [k \in DOMAIN votes \cup {key} |->
        IF k # key THEN votes[k]
        ELSE Pushed(IF key \in DOMAIN votes THEN votes[key] ELSE <<>>, vote, SmoothingWindow)]

Classified(vote, violent) ==
    /\ frame' = [frame EXCEPT !.pc = "crowd", !.voted = vote]
    /\ out' = IF violent THEN out \cup {"VIOLENT"} ELSE out
    /\ UNCHANGED <<number, cached, yolo, spotOf, grey, falls, cnn>>

CnnWaits ==
    /\ frame.pc = "classify" /\ cnn
    /\ frames' = frames + 1
    /\ frames' % CnnEvery # 0 \/ number < CnnFrames
    /\ Classified(FALSE, FALSE)
    /\ UNCHANGED <<windows, votes>>

\* The CNN's probability is damped by the motion: to less than a half when the
\* camera shakes.  The candidate needs enough votes, not this one.
CnnClassifies ==
    /\ frame.pc = "classify" /\ cnn
    /\ frames' = frames + 1
    /\ frames' % CnnEvery = 0 /\ number >= CnnFrames
    /\ \E vote \in IF frame.flow = "shaking" THEN {FALSE} ELSE BOOLEAN :
         /\ votes' = WithVote(0, vote)
         /\ Classified(vote, Violent(votes'[0]))
    /\ UNCHANGED windows

BugKept == DOMAIN windows \cup DOMAIN spotOf

\* Tracks that are not in the frame lose their window, and their votes.
Kept == DOMAIN spotOf

\* Every track's window gets the frame; then one of the tracks is classified,
\* the one tracked for the most frames, if there is a classifier and its window is
\* full.  Which track that is, and how many there were, is left open.
SkeletonClassifies ==
    /\ frame.pc = "classify" /\ ~cnn
    /\ frames' = frames + 1
    /\ LET old(t) == IF t \in DOMAIN windows THEN windows[t] ELSE <<>>
           held   == [k \in DOMAIN votes \cap Kept |-> votes[k]]
       IN  /\ windows' = [t \in Kept |-> IF t \in DOMAIN spotOf THEN Pushed(old(t), frames', SkeletonWindow)
                                         ELSE old(t)]
           /\ \/ votes' = held /\ Classified(FALSE, FALSE)
              \/ \E t \in DOMAIN spotOf, vote \in BOOLEAN :
                   /\ Len(windows'[t]) = SkeletonWindow
                   /\ LET buffer == Pushed(IF t \in DOMAIN held THEN held[t] ELSE <<>>, vote, SmoothingWindow)
                      IN  /\ votes' = [k \in DOMAIN held \cup {t} |-> IF k = t THEN buffer ELSE held[k]]
                          /\ Classified(vote, vote /\ Violent(buffer))

-----------------------------------------------------------------------------
(* The crowd rule, and the end of the frame. *)

\* _check_crowd_aggression; then the candidates are published and the replay
\* takes them from its queue.
Crowd ==
    /\ frame.pc = "crowd"
    /\ out' = IF Cardinality(DOMAIN spotOf) >= CrowdSize /\ frame.flow # "calm"
              THEN out \cup {"CROWD"} ELSE out
    /\ frame' = Rest
    /\ UNCHANGED <<number, cached, yolo, spotOf, grey, falls, cnn, frames, windows, votes>>

ReplayEnds ==
    /\ frame.pc = "idle"
    /\ frame' = [Rest EXCEPT !.pc = "over"]
    /\ UNCHANGED <<number, cached, yolo, spotOf, grey, falls, cnn, frames, windows, votes, out>>

PerceptionNext ==
    \/ Detect \/ ByteTrack \/ Fallback
    \/ \E scene \in Motions : PosesAndFalls(scene)
    \/ CnnWaits \/ CnnClassifies \/ SkeletonClassifies
    \/ Crowd \/ ReplayEnds

PerceptionSpec == PerceptionInit /\ [][PerceptionNext]_perception

-----------------------------------------------------------------------------
(* Properties. *)

\* What the skeleton classifier is given of a track are successive frames up to
\* the present, of those that had tracks at all: a track that is away and comes
\* back starts anew, though its number may be another person's.
WindowsUnbroken ==
    \A t \in DOMAIN windows :
        LET w == windows[t] IN
            Len(w) <= SkeletonWindow /\ \A n \in DOMAIN w : w[n] = frames - Len(w) + n

\* A camera that shakes is voted violent only when the frames that went by
\* without tracks put the classifier out of step with the optical flow, when
\* there was no earlier frame to compare with, or when the flow raised.  Else the
\* damping of shaky frames has its effect.
ShakeMissedOutOfStep ==
    (frame.pc = "crowd" /\ cnn /\ frame.voted /\ frame.scene = "shaking") =>
        (number - frames) % FlowEvery # 0 \/ frame.first \/ frame.failed
=============================================================================
