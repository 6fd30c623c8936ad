---------------------------- MODULE Demonstrations ----------------------------
(***************************************************************************)
(* The two programs of the demonstration.  They may run beside each other, *)
(* and share the rules of PersonVotes but no state.                        *)
(***************************************************************************)
EXTENDS DemoIngest, DemoLive

DemonstrationsNext ==
    \/ IngestNext /\ UNCHANGED live_demo
    \/ LiveNext /\ UNCHANGED ingest

DemonstrationsSpec ==
    IngestInit /\ LiveInit /\ [][DemonstrationsNext]_<<ingest, live_demo>>

\* The alarms of both demonstrations rest on what they should.
AlarmsWellFounded == IncidentsWellFounded /\ AlertsWellFounded
=============================================================================
