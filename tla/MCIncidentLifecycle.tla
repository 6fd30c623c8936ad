------------------------ MODULE MCIncidentLifecycle ------------------------
(* Instances of IncidentLifecycle for TLC. *)
EXTENDS IncidentLifecycle, TLC

\* Ids, keys and requests are interchangeable in the safety properties.
Symmetry == Permutations(Ids) \cup Permutations(Keys) \cup Permutations(Requests)
=============================================================================
