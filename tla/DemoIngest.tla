------------------------------ MODULE DemoIngest ------------------------------
(***************************************************************************)
(* scripts/demo_ingest.py: the program of the demonstration that classifies *)
(* a video and writes incidents to the database.  A step is one processed  *)
(* frame; the frames that are skipped change nothing.                      *)
(***************************************************************************)
EXTENDS PersonVotes, FiniteSetsExt

CONSTANTS
    Persons,        \* track ids
    StaleFrames,    \* TRACK_STALE_FRAMES
    MaxPasses,      \* bound on the passes of the video
    MaxIncidents    \* bound on the incidents

ASSUME IngestAssumption == {StaleFrames, MaxPasses, MaxIncidents} \subseteq Nat

VARIABLES
    engine,     \* "pose" or "cnn"
    live,       \* whether frames are exported to live_frame_path
    timed,      \* whether the local name time is bound
    people,     \* states: track -> PersonState
    missed,     \* track -> processed frames since track_last_seen
    raw,        \* raw_frame_buffer: the passes of its frames
    pass,       \* of the video
    recent,     \* an alert in the last ALERT_COOLDOWN_SECS
    incidents,  \* rows written: severity, notes, and what the verdict rested on
    ended       \* the program has stopped

ingest == <<engine, live, timed, people, missed, raw, pass, recent, incidents, ended>>

IngestInit ==
    /\ engine \in {"pose", "cnn"} /\ live \in BOOLEAN
    /\ timed = FALSE
    /\ people = <<>> /\ missed = <<>> /\ raw = <<>>
    /\ pass = 1 /\ recent = FALSE
    /\ incidents = <<>> /\ ended = FALSE

\* The CNN looks at the whole frame, and so gives all its tracks one confidence.
AllEqual(f) == \A t, u \in DOMAIN f : f[t] = f[u]

Risk(conf) == Min({100, conf + 10})

\* write_incident_to_db has tiers of its own, and locks nothing.
RiskTier(risk) == IF risk >= 65 THEN "HIGH" ELSE IF risk >= 30 THEN "MEDIUM" ELSE "LOW"

\* classify: by the CNN once its buffer is full, else by the poses once theirs is.
IngestVerdict(p, conf, frames) ==
    IF engine = "cnn" /\ Len(frames) = WindowSize THEN WithVerdict(p, conf, 74, 60, pass)
    ELSE IF Len(p.window) = WindowSize THEN WithVerdict(p, conf, 50, 60, pass)
    ELSE p

\* The tracks inside the region of interest, after a frame that shows them with
\* these confidences, without those that are stale.
Followed(seen, conf, frames) ==
    LET age == [t \in DOMAIN missed \cup seen |-> IF t \in seen THEN 0 ELSE missed[t] + 1]
        old(t) == IF t \in DOMAIN people THEN people[t] ELSE NoPerson
        new(t) == IF t \in seen THEN IngestVerdict(WithPose(old(t), pass), conf[t], frames)
                                ELSE old(t)
        fresh == {t \in DOMAIN age : age[t] <= StaleFrames}
    IN  [people |-> [t \in fresh |-> new(t)], missed |-> [t \in fresh |-> age[t]]]

\* Frames without tracks are counted all the same.
Aged == [t \in DOMAIN missed |-> Min({missed[t] + 1, StaleFrames})]

\* The import of time sits in the branch that exports a frame; it makes the name
\* local, so that a frame with tracks ends the program while it is not bound.
BindTime == timed' \in {timed, timed \/ live}

NoTracks ==
    /\ ~ended
    /\ BindTime
    /\ missed' = Aged
    /\ UNCHANGED <<engine, live, people, raw, pass, recent, incidents, ended>>

\* The most violent track of the frame, if any, makes an incident, unless there
\* has just been one.  When its write fails, the program ends.
FrameWithTracks(seen, conf) ==
    /\ ~ended
    /\ BindTime
    /\ raw' = IF engine = "cnn" THEN Appended(raw, pass, WindowSize) ELSE raw
    /\ LET after == Followed(seen, conf, raw')
           violent == {t \in seen : after.people[t].violent}
           worst == CHOOSE t \in violent : \A u \in violent :
                        after.people[u].conf <= after.people[t].conf
       IN  /\ people' = after.people /\ missed' = after.missed
           /\ \/ ~timed' /\ ended' = TRUE /\ UNCHANGED <<recent, incidents>>
              \/ /\ timed' /\ (violent = {} \/ recent)
                 /\ UNCHANGED <<recent, incidents, ended>>
              \/ /\ timed' /\ violent # {} /\ ~recent
                 /\ recent' = TRUE
                 /\ \/ /\ Len(incidents) < MaxIncidents
                       /\ incidents' = Append(incidents,
                              [severity |-> RiskTier(Risk(after.people[worst].conf)), notes |-> "",
                               pass |-> pass, basis |-> Basis(after.people[worst])])
                       /\ UNCHANGED ended
                    \/ ended' = TRUE /\ UNCHANGED incidents
    /\ UNCHANGED <<engine, live, pass>>

CooldownOver ==
    /\ ~ended /\ recent
    /\ recent' = FALSE
    /\ UNCHANGED <<engine, live, timed, people, missed, raw, pass, incidents, ended>>

\* _llm_summarize_and_save, in a task: there is always some summary, and when it
\* cannot be saved the notes stay empty.
Summarized(n) ==
    /\ ~ended
    /\ incidents[n].notes = ""
    /\ incidents' = [incidents EXCEPT ![n].notes = "summary"]
    /\ UNCHANGED <<engine, live, timed, people, missed, raw, pass, recent, ended>>

BugVideoLoops ==
    /\ ~ended /\ pass < MaxPasses
    /\ pass' = pass + 1
    /\ UNCHANGED <<engine, live, timed, people, missed, raw, recent, incidents, ended>>

\* A file starts again from its first frame, and all tracks are forgotten; the
\* CNN's frames are not.
VideoLoops ==
    /\ ~ended /\ pass < MaxPasses
    /\ pass' = pass + 1
    /\ people' = <<>> /\ missed' = <<>>
    /\ UNCHANGED <<engine, live, timed, raw, recent, incidents, ended>>

\* A webcam that gives no frame, or Ctrl+C.
IngestEnds ==
    /\ ~ended
    /\ ended' = TRUE
    /\ UNCHANGED <<engine, live, timed, people, missed, raw, pass, recent, incidents>>

IngestNext ==
    \/ NoTracks \/ CooldownOver \/ VideoLoops \/ IngestEnds
    \/ \E seen \in SUBSET Persons :
         \E conf \in {f \in [seen -> Confidences] : engine = "cnn" => AllEqual(f)} :
             FrameWithTracks(seen, conf)
    \/ \E n \in DOMAIN incidents : Summarized(n)

-----------------------------------------------------------------------------
(* Properties. *)

\* An incident of the demonstration rests on poses and votes of one pass of the
\* video alone, is always of HIGH severity, as a verdict needs a confidence that
\* gives no less, and is only ever written by a program that exports its frames:
\* without live_frame_path the first frame with a track ends it.
IncidentsWellFounded ==
    \A n \in DOMAIN incidents :
        /\ incidents[n].basis = {incidents[n].pass}
        /\ incidents[n].severity = "HIGH"
        /\ live
=============================================================================
