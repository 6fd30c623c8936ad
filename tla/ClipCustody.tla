----------------------------- MODULE ClipCustody -----------------------------
(***************************************************************************)
(* What the evidence service promises of the clip of an incident, with its *)
(* tasks, buffers and files hidden.  A clip is recorded at most once, with *)
(* footage that never changes while it is in custody.  A held clip stays   *)
(* for good; any other stays until its retention period has passed, and    *)
(* then loses its footage first and its record second.                     *)
(***************************************************************************)
CONSTANTS Incidents, Frames

VARIABLES
    custody,    \* incident -> where its clip is
    footage     \* incident -> the frames its record stands for

Init ==
    /\ custody = [i \in Incidents |-> "pending"]
    /\ footage = [i \in Incidents |-> {}]

Move(S, to) == custody' = [i \in Incidents |-> IF i \in S THEN to ELSE custody[i]]

\* The clip enters custody.
Record(i) ==
    /\ custody[i] = "pending"
    /\ Move({i}, "kept") \/ Move({i}, "held")
    /\ \E taken \in (SUBSET Frames) \ {{}} :
         footage' = [footage EXCEPT ![i] = taken]

\* There will be no clip: nothing was captured, or the recording failed.
GiveUp(S) ==
    /\ \A i \in S : custody[i] = "pending"
    /\ Move(S, "gone")
    /\ UNCHANGED footage

Release(i) ==
    /\ custody[i] = "kept"
    /\ Move({i}, "deletable")
    /\ UNCHANGED footage

Discard(S) ==
    /\ \A i \in S : custody[i] = "deletable"
    /\ footage' = [i \in Incidents |-> IF i \in S THEN {} ELSE footage[i]]
    /\ UNCHANGED custody

Delete(S) ==
    /\ \A i \in S : custody[i] = "deletable"
    /\ footage' = [i \in Incidents |-> IF i \in S THEN {} ELSE footage[i]]
    /\ Move(S, "gone")

Next ==
    \/ \E i \in Incidents : Record(i) \/ Release(i)
    \/ \E S \in SUBSET Incidents : GiveUp(S) \/ Discard(S) \/ Delete(S)

Spec == Init /\ [][Next]_<<custody, footage>>
=============================================================================
