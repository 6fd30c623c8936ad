------------------------ MODULE MCEvidenceRetention ------------------------
(* Two incidents that differ in what they are created as, if not as HIGH. *)
EXTENDS EvidenceRetention, TLC

CONSTANTS i1, i2

MCGrades == (i1 :> {"LOW", "HIGH"}) @@ (i2 :> {"MEDIUM", "HIGH"})
=============================================================================
