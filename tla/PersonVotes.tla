----------------------------- MODULE PersonVotes -----------------------------
(***************************************************************************)
(* PersonState, which both demonstration programs keep of a person: the    *)
(* window of poses, the votes on the last frames, and the verdict.  A pose *)
(* and a vote carry the pass of the video they come from.                  *)
(***************************************************************************)
EXTENDS Naturals, Sequences, FiniteSets, Functions

CONSTANTS
    WindowSize,     \* WINDOW_SIZE
    VoteWindow,     \* SMOOTHING_WINDOW
    VoteNeed        \* SMOOTHING_THRESHOLD

ASSUME VotesAssumption == {WindowSize, VoteWindow, VoteNeed} \subseteq Nat \ {0}

\* Confidences in per cent, on either side of the thresholds 50, 60 and 75.
Confidences == {30, 55, 65, 80}

NoPerson == [window |-> <<>>, votes |-> <<>>, conf |-> 0, violent |-> FALSE]

\* A deque of at most n elements with one more.
Appended(s, x, n) == IF Len(s) < n THEN Append(s, x) ELSE Append(Tail(s), x)

\* push.
WithPose(p, pass) == [p EXCEPT !.window = Appended(@, pass, WindowSize)]

VotedViolent(votes) == Cardinality({n \in DOMAIN votes : votes[n].violent}) >= VoteNeed

\* classify, when a network gave a confidence: it is a vote from its threshold
\* on, and the person is violent by enough votes and a high confidence.
WithVerdict(p, conf, threshold, minimum, pass) ==
    LET votes == Appended(p.votes, [violent |-> conf > threshold, pass |-> pass], VoteWindow)
    IN  [p EXCEPT !.votes = votes, !.conf = conf,
                  !.violent = VotedViolent(votes) /\ conf >= minimum]

\* The passes of the video that a person's verdict rests on.
Basis(p) == Range(p.window) \cup {v.pass : v \in Range(p.votes)}
=============================================================================
