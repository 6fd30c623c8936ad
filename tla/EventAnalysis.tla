---------------------------- MODULE EventAnalysis ----------------------------
(***************************************************************************)
(* From the candidates of the inference service to incidents: the event    *)
(* analyzer, the risk engine and the alert dispatcher's entry, joined by   *)
(* the bus.  A key stands for a (camera, event type) pair.                 *)
(*                                                                         *)
(* A smoothed confidence is only above or below the threshold here.  The   *)
(* average of two values on one side of it stays there; of two values on   *)
(* different sides it may be on either.                                    *)
(***************************************************************************)
EXTENDS RiskScore, Sequences, FiniteSets, SequencesExt

CONSTANTS
    Keys,
    Suppressed,     \* keys whose event type the camera's zone suppresses
    Situations,     \* key -> what its candidates may say besides their confidence
    Needed,         \* persistence_frames
    MaxQueue,       \* maxsize of a subscriber's queue
    MaxFrames       \* bound on the frames of a key between two resets

ASSUME AnalysisAssumption ==
    /\ Suppressed \subseteq Keys
    /\ Situations \in [Keys -> SUBSET [confidence : 0..100, duration : Nat, people : Nat,
                                       motion : Nat, night : BOOLEAN]]
    /\ Needed \in Nat \ {0} /\ MaxQueue \in Nat \ {0} /\ MaxFrames \in Nat

VARIABLES
    smooth,      \* SmoothingState: [above |-> , frames |-> ]
    history,     \* key -> above or not, for each frame counted since the last reset
    cooling,     \* keys in their cooldown
    risk,        \* process_confirmed_event: where it is and the zone it read
    dispatcher,  \* where dispatch is, and the severity of its incident
    active,      \* AlertDispatcher._active_incidents
    lost,        \* keys with an incident that found the dispatcher's queue full
    subscribed, queue, handling

ChannelOf == [risk |-> "confirmed_events", dispatcher |-> "scored_incidents"]
Consumers == DOMAIN ChannelOf
Channels  == {ChannelOf[c] : c \in Consumers}
Confirmed == {m \in [key : Keys, situation : UNION Range(Situations)] :
                 m.situation \in Situations[m.key]}
Scored    == [key : Keys, severity : Severities]
Messages  == Confirmed \cup Scored

Bus == INSTANCE EventBus
       WITH MaxSize <- MaxQueue, subscribed <- subscribed, queue <- queue,
            handling <- handling

bus  == <<subscribed, queue, handling>>
vars == <<smooth, history, cooling, risk, dispatcher, active, lost, bus>>

Fresh    == [above |-> FALSE, frames |-> 0]
IdleRisk == [pc |-> "idle", zone |-> 0]
Idle     == [pc |-> "idle", severity |-> "LOW"]

TypeOK ==
    /\ smooth \in [Keys -> [above : BOOLEAN, frames : 0..MaxFrames]]
    /\ history \in [Keys -> Seq(BOOLEAN)] /\ \A k \in Keys : Len(history[k]) <= MaxFrames
    /\ cooling \subseteq Keys
    /\ risk \in [pc : {"idle", "zone", "alert"}, zone : 0..100]
    /\ dispatcher \in [pc : {"idle", "persist", "alarm", "push"}, severity : Severities]
    /\ active \subseteq Keys /\ lost \subseteq Keys
    /\ Bus!BusTypeOK

Init ==
    /\ smooth = [k \in Keys |-> Fresh]
    /\ history = [k \in Keys |-> <<>>]
    /\ cooling = {} /\ active = {} /\ lost = {}
    /\ risk = IdleRisk /\ dispatcher = Idle
    /\ Bus!BusInit

-----------------------------------------------------------------------------
(* EventAnalyzer. *)

BugUpdated(s, up) ==
    [above |-> up, frames |-> IF up THEN s.frames + 1 ELSE 0]

\* SmoothingState.update, when the smoothed confidence ends up above or not.
Updated(s, up) ==
    [above |-> up,
     frames |-> IF up THEN s.frames + 1 ELSE IF s.frames > 0 THEN s.frames - 1 ELSE 0]

\* Where the smoothed confidence may be after a raw one that is strong or weak.
Smoothed(s, strong) == IF s.above = strong THEN {strong} ELSE BOOLEAN

BugHandleCandidate(k, strong, sit) ==
    /\ k \notin Suppressed
    /\ Len(history[k]) < MaxFrames
    /\ \E up \in Smoothed(smooth[k], strong) :
         /\ smooth' = [smooth EXCEPT ![k] = Updated(@, up)]
         /\ history' = [history EXCEPT ![k] = Append(@, up)]
    /\ IF smooth'[k].frames < Needed \/ k \in cooling
       THEN UNCHANGED bus ELSE Bus!Publish("confirmed_events", [key |-> k, situation |-> sit])
    /\ UNCHANGED <<cooling, risk, dispatcher, active, lost>>

\* handle_candidate: a suppressed or cooling key is not even smoothed; one
\* with the frames it needs is published, again for every further frame.
HandleCandidate(k, strong, sit) ==
    /\ k \notin Suppressed \cup cooling
    /\ Len(history[k]) < MaxFrames
    /\ \E up \in Smoothed(smooth[k], strong) :
         /\ smooth' = [smooth EXCEPT ![k] = Updated(@, up)]
         /\ history' = [history EXCEPT ![k] = Append(@, up)]
    /\ IF smooth'[k].frames < Needed
       THEN UNCHANGED bus ELSE Bus!Publish("confirmed_events", [key |-> k, situation |-> sit])
    /\ UNCHANGED <<cooling, risk, dispatcher, active, lost>>

\* cooldown_seconds have passed.
CooldownExpires(k) ==
    /\ k \in cooling
    /\ cooling' = cooling \ {k}
    /\ UNCHANGED <<smooth, history, risk, dispatcher, active, lost, bus>>

-----------------------------------------------------------------------------
(* process_confirmed_event. *)

RiskTakes ==
    /\ Bus!Take("risk")
    /\ risk' = [IdleRisk EXCEPT !.pc = "zone"]
    /\ UNCHANGED <<smooth, history, cooling, dispatcher, active, lost>>

BugRiskReadsZone ==
    /\ risk.pc = "zone"
    /\ \/ \E z \in {30, 90} : risk' = [pc |-> "alert", zone |-> z] /\ UNCHANGED bus
       \/ risk' = IdleRisk /\ Bus!Return("risk")
    /\ UNCHANGED <<smooth, history, cooling, dispatcher, active, lost>>

\* _get_zone_sensitivity: the camera's zone, or 0.7 without one and on error.
RiskReadsZone ==
    /\ risk.pc = "zone"
    /\ \E z \in {30, 70, 90} : risk' = [pc |-> "alert", zone |-> z]
    /\ UNCHANGED <<smooth, history, cooling, dispatcher, active, lost, bus>>

\* _check_recent_alert, False on error; then the score is published, for which
\* the risk engine waits for nothing more.
RiskScores ==
    /\ risk.pc = "alert"
    /\ \E recent \in BOOLEAN :
         LET key == handling["risk"][1].key
             sit == handling["risk"][1].situation
             score == Score([confidence |-> sit.confidence, duration |-> sit.duration,
                             people |-> sit.people, motion |-> sit.motion,
                             recent |-> recent, zone |-> risk.zone, night |-> sit.night])
         IN  /\ queue' = Bus!Enqueued("scored_incidents", [key |-> key, severity |-> Severity(score)])
             /\ lost' = IF Bus!Subscribers("scored_incidents") = {} \/ Bus!Full("dispatcher")
                        THEN lost \cup {key} ELSE lost
    /\ handling' = [handling EXCEPT !["risk"] = <<>>]
    /\ risk' = IdleRisk
    /\ UNCHANGED <<smooth, history, cooling, dispatcher, active, subscribed>>

-----------------------------------------------------------------------------
(* AlertDispatcher.dispatch, as far as it bears on the analyzer. *)

\* A key that is registered is suppressed, at once.
DispatchSuppresses ==
    /\ Bus!Serve("dispatcher")
    /\ Head(queue["dispatcher"]).key \in active
    /\ UNCHANGED <<smooth, history, cooling, risk, dispatcher, active, lost>>

DispatchRegisters ==
    /\ Bus!Take("dispatcher")
    /\ LET m == Head(queue["dispatcher"]) IN
       /\ m.key \notin active
       /\ active' = active \cup {m.key}
       /\ dispatcher' = [pc |-> "persist", severity |-> m.severity]
    /\ UNCHANGED <<smooth, history, cooling, risk, lost>>

\* The incident is written, or that fails and dispatch is over; then, but for
\* LOW, the notifications.
DispatchPersists ==
    /\ dispatcher.pc = "persist"
    /\ \/ /\ dispatcher' = [dispatcher EXCEPT
                             !.pc = IF dispatcher.severity = "HIGH" THEN "alarm" ELSE "push"]
          /\ UNCHANGED bus
       \/ dispatcher' = Idle /\ Bus!Return("dispatcher")
    /\ UNCHANGED <<smooth, history, cooling, risk, active, lost>>

\* EventAnalyzer.set_cooldown: the key's smoothing starts afresh.
SetCooldown(k) ==
    /\ cooling' = cooling \cup {k}
    /\ smooth' = [smooth EXCEPT ![k] = Fresh]
    /\ history' = [history EXCEPT ![k] = <<>>]

\* _handle_high, when the notifications are out.
DispatchAlarms ==
    /\ dispatcher.pc = "alarm"
    /\ SetCooldown(handling["dispatcher"][1].key)
    /\ dispatcher' = [dispatcher EXCEPT !.pc = "push"]
    /\ UNCHANGED <<risk, active, lost, bus>>

DispatchEnds ==
    /\ dispatcher.pc = "push"
    /\ dispatcher' = Idle /\ Bus!Return("dispatcher")
    /\ UNCHANGED <<smooth, history, cooling, risk, active, lost>>

DispatchStep ==
    \/ DispatchSuppresses \/ DispatchRegisters \/ DispatchPersists
    \/ DispatchAlarms \/ DispatchEnds

RiskStep == RiskTakes \/ RiskReadsZone \/ RiskScores

\* The workers begin to consume.
WorkerStarts(c) ==
    /\ Bus!Start(c)
    /\ UNCHANGED <<smooth, history, cooling, risk, dispatcher, active, lost>>

Next ==
    \/ \E k \in Keys, strong \in BOOLEAN : \E sit \in Situations[k] : HandleCandidate(k, strong, sit)
    \/ \E k \in Keys : CooldownExpires(k)
    \/ RiskStep
    \/ DispatchStep
    \/ \E c \in Consumers : WorkerStarts(c)

Spec == Init /\ [][Next]_vars

\* The event loop runs the workers, and what they wait for comes back.  Nothing
\* is assumed of the candidates.
Fairness == WF_vars(RiskStep) /\ WF_vars(DispatchStep)

FairSpec == Spec /\ Fairness

-----------------------------------------------------------------------------
(* Properties. *)

\* Frames above the threshold, less those below it.
Net(h) == Cardinality({n \in DOMAIN h : h[n]}) - Cardinality({n \in DOMAIN h : ~h[n]})

\* The frames a key is credited with are the largest net support of a run of
\* frames that reaches to the present: ones below the threshold count against
\* it, and none before the last alarm or before a gap that used them up count.
\* A key in its cooldown has no credit: after it an event takes Needed frames again,
\* whatever arrived meanwhile.  (What the documents say of the counter is
\* ConfirmedInARow, below.)
CreditIsNetSupport ==
    \A k \in Keys :
        /\ \A h \in Suffixes(history[k]) : smooth[k].frames >= Net(h)
        /\ \E h \in Suffixes(history[k]) : smooth[k].frames = Net(h)
        /\ k \in cooling => smooth[k] = Fresh

\* A confirmed event reaches the dispatcher, which registers its key, even when
\* the risk engine's reads fail, unless a queue was full.
ConfirmedIsRegistered ==
    \A k \in Keys :
        k \in {queue["risk"][n].key : n \in DOMAIN queue["risk"]}
            ~> k \in active \cup lost

\* event_analyzer.py, line 7, "Persistence threshold (N consecutive frames)", and
\* ARCHITECTURE.md, line 177: an event is confirmed only after Needed frames in a
\* row, since the last reset, whose smoothed confidence was above the threshold.
ConfirmedInARow ==
    \A k \in Keys :
        smooth[k].frames >= Needed =>
            \E last \in Needed..Len(history[k]) :
                \A n \in (last - Needed + 1)..last : history[k][n]
=============================================================================
