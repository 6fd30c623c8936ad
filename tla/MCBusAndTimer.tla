---------------------------- MODULE MCBusAndTimer ----------------------------
(* What the event loop gets done in the end, on the bus and in the life of an *)
(* incident.  A behaviour is one of one of the two parts, and the other rests. *)
(* The bus has two consumers of one channel, and a channel nobody consumes.   *)
EXTENDS EventBusDelivery

CONSTANTS Ids, Keys, Requests, None

VARIABLES
    incidents, rowsOf, alerts, audit, active, disp, registry, overdue, timer, req,
    sent, faults, run, forgotten,
    part

lifecycle == <<incidents, rowsOf, alerts, audit, active, disp, registry, overdue,
               timer, req, sent, faults, run, forgotten>>

\* Without faults, which the properties below except.
Lifecycle == INSTANCE IncidentLifecycle WITH MaxFaults <- 0

MCChannels  == {"confirmed_events", "camera_health"}
MCChannelOf == [risk |-> "confirmed_events", replay |-> "confirmed_events"]
MCConsumers == DOMAIN MCChannelOf
MCMessages  == 1..MaxPublished

MCInit == Init /\ Lifecycle!Init /\ part \in {"bus", "incidents"}

MCNext ==
    /\ UNCHANGED part
    /\ \/ part = "bus" /\ Next /\ UNCHANGED lifecycle
       \/ part = "incidents" /\ Lifecycle!Next /\ UNCHANGED vars

MCSpec ==
    MCInit /\ [][MCNext]_<<vars, lifecycle, part>> /\ Fairness /\ Lifecycle!Fairness

\* Every incident in ACTIVE_REVIEW is eventually reviewed or escalated.
EventuallyDecided == Lifecycle!EventuallyDecided

\* Every escalation reaches the dashboards and the notification channels.
EscalationAnnounced == Lifecycle!EscalationAnnounced
=============================================================================
