-------------------------- MODULE Perception_proofs --------------------------
(***************************************************************************)
(* The replay of a video, for any spots, windows and sampling intervals.   *)
(***************************************************************************)
EXTENDS Perception, SequenceTheorems, TLAPS

-----------------------------------------------------------------------------
(* Arithmetic of the sampling.                                             *)

LEMMA ModIs ==
    ASSUME NEW a \in Int, NEW m \in Nat \ {0}
    PROVE  a % m \in 0..(m - 1) /\ a \div m \in Int /\ a = m * (a \div m) + (a % m)
OBVIOUS

LEMMA MultipleMod ==
    ASSUME NEW k \in Int, NEW m \in Nat \ {0}
    PROVE  (m * k) % m = 0
<1> DEFINE a == m * k
           q == a \div m
           r == a % m
<1>0. a \in Int
  OBVIOUS
<1>1. r \in 0..(m - 1) /\ q \in Int /\ a = m * q + r
  <2> HIDE DEF a
  <2> QED BY <1>0, ModIs
<1> HIDE DEF q, r
<1>2. m * (k - q) = r
  BY <1>1
<1>3. k - q >= 1 => m * (k - q) >= m
  BY <1>1
<1>4. k - q <= -1 => m * (k - q) <= -m
  BY <1>1
<1>5. k - q = 0
  BY <1>1, <1>2, <1>3, <1>4
<1>6. r = 0
  BY <1>1, <1>2, <1>5
<1> QED BY <1>6 DEF r

\* A multiple of a multiple.
LEMMA MultipleOfMultiple ==
    ASSUME NEW a \in Int, NEW c \in Nat \ {0}, NEW m \in Nat \ {0}, a % c = 0, c % m = 0
    PROVE  a % m = 0
<1> DEFINE p == a \div c
           q == c \div m
<1>1. p \in Int /\ q \in Int /\ a = c * p /\ c = m * q
  BY ModIs
<1> HIDE DEF p, q
<1>2. a = m * (q * p) /\ q * p \in Int
  BY <1>1
<1> QED BY <1>2, MultipleMod

LEMMA StepApart ==
    ASSUME NEW a \in Int, NEW b \in Int, NEW m \in Nat \ {0}, b % m = 0, (a - b) % m = 0
    PROVE  a % m = 0
<1> DEFINE p == b \div m
           q == (a - b) \div m
<1>1. p \in Int /\ q \in Int /\ b = m * p /\ a - b = m * q
  BY ModIs
<1> HIDE DEF p, q
<1>2. a = m * (p + q) /\ p + q \in Int
  BY <1>1
<1> QED BY <1>2, MultipleMod
-----------------------------------------------------------------------------
(* The windows of the skeleton classifier.                                 *)

\* A window that holds the numbers of the last frames with tracks, up to f.
Unbroken(w, f) ==
    /\ w \in Seq(Nat) /\ Len(w) <= SkeletonWindow
    /\ \A n \in DOMAIN w : w[n] = f - Len(w) + n

LEMMA EmptyUnbroken ==
    ASSUME NEW f \in Nat
    PROVE  Unbroken(<<>>, f)
<1>1. <<>> \in Seq(Nat) /\ Len(<<>>) = 0 /\ DOMAIN <<>> = {}
  OBVIOUS
<1> QED BY <1>1, PerceptionAssumption DEF Unbroken

LEMMA PushedUnbroken ==
    ASSUME NEW f \in Nat, NEW w, Unbroken(w, f)
    PROVE  Unbroken(Pushed(w, f + 1, SkeletonWindow), f + 1)
<1>1. /\ w \in Seq(Nat) /\ Len(w) \in Nat /\ Len(w) <= SkeletonWindow /\ DOMAIN w = 1..Len(w)
      /\ SkeletonWindow \in Nat \ {0}
      /\ \A n \in 1..Len(w) : w[n] = f - Len(w) + n
  BY PerceptionAssumption DEF Unbroken
<1>2. CASE Len(w) < SkeletonWindow
  <2> DEFINE p == Append(w, f + 1)
  <2>1. /\ p \in Seq(Nat) /\ Len(p) = Len(w) + 1 /\ DOMAIN p = 1..(Len(w) + 1)
        /\ p[Len(w) + 1] = f + 1 /\ \A n \in 1..Len(w) : p[n] = w[n]
    BY <1>1
  <2>2. Pushed(w, f + 1, SkeletonWindow) = p
    BY <1>2 DEF Pushed
  <2> HIDE DEF p
  <2>3. ASSUME NEW n \in DOMAIN p
        PROVE  p[n] = f + 1 - Len(p) + n
    <3>1. n \in 1..Len(w) \/ n = Len(w) + 1
      BY <1>1, <2>1
    <3>2. CASE n \in 1..Len(w)
      <4>1. p[n] = f - Len(w) + n /\ n \in Int
        BY <1>1, <2>1, <3>2
      <4> QED BY <1>1, <2>1, <4>1
    <3>3. CASE n = Len(w) + 1
      BY <1>1, <2>1, <3>3
    <3> QED BY <3>1, <3>2, <3>3
  <2>4. Unbroken(p, f + 1)
    BY <1>1, <1>2, <2>1, <2>3 DEF Unbroken
  <2> QED BY ONLY <2>2, <2>4, Zenon
<1>3. CASE ~(Len(w) < SkeletonWindow)
  <2> DEFINE u == Tail(w)
             p == Append(u, f + 1)
  <2>1. Len(w) = SkeletonWindow /\ w # <<>>
    <3>1. Len(w) = SkeletonWindow /\ Len(w) # 0
      <4> DEFINE l == Len(w)
      <4>1. l \in Nat /\ l <= SkeletonWindow /\ SkeletonWindow \in Nat \ {0} /\ ~(l < SkeletonWindow)
        BY <1>1, <1>3
      <4> HIDE DEF l
      <4>2. l = SkeletonWindow /\ l # 0
        BY ONLY <4>1
      <4> QED BY <4>2 DEF l
    <3>2. Len(<<>>) = 0
      OBVIOUS
    <3> QED BY ONLY <3>1, <3>2, Zenon
  <2>2. u \in Seq(Nat) /\ Len(u) = Len(w) - 1 /\ \A n \in 1..(Len(w) - 1) : u[n] = w[n + 1]
    BY <1>1, <2>1
  <2>3. /\ p \in Seq(Nat) /\ Len(p) = Len(w) /\ DOMAIN p = 1..Len(w)
        /\ p[Len(w)] = f + 1 /\ \A n \in 1..(Len(w) - 1) : p[n] = u[n]
    <3> HIDE DEF u
    <3> QED BY <1>1, <2>1, <2>2
  <2>4. Pushed(w, f + 1, SkeletonWindow) = p
    BY <1>3 DEF Pushed
  <2> HIDE DEF p, u
  <2>5. ASSUME NEW n \in DOMAIN p
        PROVE  p[n] = f + 1 - Len(p) + n
    <3>1. n \in 1..(Len(w) - 1) \/ n = Len(w)
      BY <1>1, <2>3
    <3>2. CASE n \in 1..(Len(w) - 1)
      <4>1. p[n] = w[n + 1] /\ n + 1 \in 1..Len(w) /\ n \in Int
        <5>1. p[n] = u[n] /\ u[n] = w[n + 1]
          BY ONLY <2>2, <2>3, <3>2, Zenon
        <5>2. n + 1 \in 1..Len(w) /\ n \in Int
          BY ONLY <3>2, Len(w) \in Nat
        <5> QED BY <5>1, <5>2
      <4>2. w[n + 1] = f - Len(w) + (n + 1)
        BY <1>1, <4>1
      <4> QED BY <1>1, <2>3, <4>1, <4>2
    <3>3. CASE n = Len(w)
      BY <1>1, <2>3, <3>3
    <3> QED BY <3>1, <3>2, <3>3
  <2>6. Unbroken(p, f + 1)
    BY <1>1, <2>1, <2>3, <2>5 DEF Unbroken
  <2> QED BY ONLY <2>4, <2>6, Zenon
<1> QED BY <1>2, <1>3

\* The CNN keeps no windows of tracks.
WindowsInv ==
    /\ frames \in Nat
    /\ cnn => windows = <<>>
    /\ \A t \in DOMAIN windows : Unbroken(windows[t], frames)

LEMMA WindowsInit == PerceptionInit => WindowsInv
BY DEF PerceptionInit, WindowsInv

LEMMA WindowsStep == WindowsInv /\ [PerceptionNext]_perception => WindowsInv'
<1> SUFFICES ASSUME WindowsInv, [PerceptionNext]_perception
             PROVE  WindowsInv'
  OBVIOUS
<1>1. CASE UNCHANGED <<frames, windows, cnn>>
  BY <1>1 DEF WindowsInv
<1>2. CASE CnnWaits \/ CnnClassifies
  <2>1. cnn /\ frames' = frames + 1 /\ UNCHANGED <<windows, cnn>>
    BY <1>2 DEF CnnWaits, CnnClassifies, Classified
  <2>2. DOMAIN windows = {}
    BY <2>1 DEF WindowsInv
  <2> QED BY <2>1, <2>2 DEF WindowsInv
<1>3. CASE SkeletonClassifies
  <2> DEFINE old(t) == IF t \in DOMAIN windows THEN windows[t] ELSE <<>>
  <2>1. /\ ~cnn /\ frames' = frames + 1
        /\ windows' = [t \in Kept |-> IF t \in DOMAIN spotOf
                                      THEN Pushed(old(t), frames', SkeletonWindow) ELSE old(t)]
    BY <1>3 DEF SkeletonClassifies
  <2>2. cnn' = cnn
    BY <1>3 DEF SkeletonClassifies, Classified
  <2>3. frames \in Nat
    BY DEF WindowsInv
  <2>4. ASSUME NEW t \in DOMAIN windows'
        PROVE  Unbroken(windows'[t], frames')
    <3>1. Unbroken(old(t), frames)
      BY <2>3, EmptyUnbroken DEF WindowsInv
    <3>2. windows'[t] = Pushed(old(t), frames + 1, SkeletonWindow)
      BY <2>1, <2>4 DEF Kept
    <3> HIDE DEF old
    <3> QED BY <2>1, <2>3, <3>1, <3>2, PushedUnbroken
  <2> QED BY <2>1, <2>2, <2>3, <2>4 DEF WindowsInv
<1>4. ASSUME Detect \/ ByteTrack \/ Fallback \/ Crowd \/ ReplayEnds
             \/ (\E scene \in Motions : PosesAndFalls(scene)) \/ UNCHANGED perception
      PROVE  UNCHANGED <<frames, windows, cnn>>
  BY <1>4 DEF Detect, ByteTrack, Fallback, Crowd, ReplayEnds, PosesAndFalls, perception
<1> QED BY <1>1, <1>2, <1>3, <1>4 DEF PerceptionNext

\* What the skeleton classifier is given of a track are the last successive
\* frames with tracks, for any window size: update pushes every tracked frame
\* and drops the window of a track that is away.
THEOREM WindowsUnbrokenAlways == PerceptionSpec => []WindowsUnbroken
<1>1. WindowsInv => WindowsUnbroken
  BY DEF WindowsInv, Unbroken, WindowsUnbroken
<1> QED BY <1>1, WindowsInit, WindowsStep, PTL DEF PerceptionSpec

-----------------------------------------------------------------------------
(* The damping of shaky frames.                                            *)

Frames == [pc : {"idle", "track", "pose", "classify", "crowd", "over"}, seen : SUBSET Spots,
           scene : Motions, flow : Motions, first : BOOLEAN, failed : BOOLEAN,
           voted : BOOLEAN]

\* A shaky frame is not seen to shake only out of the sampling, when it is the
\* first, or when the flow raised; what comes out of the CNN is voted at its own interval.
ShakeInv ==
    /\ frames \in Nat /\ number \in Nat /\ frame \in Frames
    /\ cached \in (SUBSET Spots) \cup {NoResult}
    /\ frame.pc = "classify" /\ frame.scene = "shaking" /\ frame.flow # "shaking" =>
           number % FlowEvery # 0 \/ frame.first \/ frame.failed
    /\ ShakeMissedOutOfStep

LEMMA ShakeInit == PerceptionInit => ShakeInv
BY DEF PerceptionInit, ShakeInv, Rest, Frames, Motions, ShakeMissedOutOfStep

\* What a frame knows when it has been classified.
LEMMA ShakeClassified ==
    ASSUME ShakeInv, NEW vote \in BOOLEAN, NEW violent, Classified(vote, violent),
           frame.pc = "classify", frames' = frames + 1,
           vote /\ cnn /\ frame.scene = "shaking" =>
               (number - frames') % FlowEvery # 0 \/ frame.first \/ frame.failed
    PROVE  ShakeInv'
<1>1. /\ frame \in Frames /\ frames \in Nat /\ number \in Nat
      /\ number' = number /\ cnn' = cnn /\ cached' = cached
      /\ frame' = [frame EXCEPT !.pc = "crowd", !.voted = vote]
  BY DEF ShakeInv, Classified
<1>2. /\ frame' \in Frames /\ frame'.pc = "crowd" /\ frame'.voted = vote
      /\ frame'.scene = frame.scene /\ frame'.first = frame.first
      /\ frame'.failed = frame.failed
  BY <1>1 DEF Frames
<1>3. ShakeMissedOutOfStep'
  BY <1>1, <1>2 DEF ShakeMissedOutOfStep
<1> QED BY <1>1, <1>2, <1>3 DEF ShakeInv

LEMMA ShakeStep == ShakeInv /\ [PerceptionNext]_perception => ShakeInv'
<1> SUFFICES ASSUME ShakeInv, [PerceptionNext]_perception
             PROVE  ShakeInv'
  OBVIOUS
<1>0. /\ frame \in Frames /\ frames \in Nat /\ number \in Nat
      /\ cached \in (SUBSET Spots) \cup {NoResult}
  BY DEF ShakeInv
<1>1. CASE UNCHANGED perception
  BY <1>1 DEF perception, ShakeInv, ShakeMissedOutOfStep
<1>2. CASE Detect \/ ByteTrack \/ Fallback \/ Crowd \/ ReplayEnds
  <2>1. /\ frame' \in Frames /\ frame'.pc \notin {"classify", "crowd"}
    <3>1. Rest \in Frames /\ Rest.pc = "idle"
      BY DEF Rest, Frames, Motions
    <3>2. ASSUME NEW spots \in SUBSET Spots
          PROVE  /\ [Rest EXCEPT !.pc = "track", !.seen = spots] \in Frames
                 /\ [Rest EXCEPT !.pc = "track", !.seen = spots].pc = "track"
      BY DEF Rest, Frames, Motions
    <3>3. CASE Detect
      <4>1. \E spots \in SUBSET Spots : Detected(spots)
        BY <1>0, <3>3 DEF Detect
      <4> QED BY <3>1, <3>2, <4>1 DEF Detected
    <3>4. CASE ByteTrack \/ Fallback
      <4>1. frame' = Rest \/ frame' = [frame EXCEPT !.pc = "pose", !.seen = {}]
        BY <3>4 DEF ByteTrack, Fallback
      <4> QED BY <1>0, <3>1, <4>1 DEF Frames
    <3>5. CASE Crowd \/ ReplayEnds
      BY <3>1, <3>5 DEF Crowd, ReplayEnds, Frames, Rest
    <3> QED BY <1>2, <3>3, <3>4, <3>5
  <2>2. frames' = frames /\ number' \in Nat /\ cached' \in (SUBSET Spots) \cup {NoResult}
    BY <1>0, <1>2 DEF Detect, ByteTrack, Fallback, Crowd, ReplayEnds
  <2> QED BY <1>0, <2>1, <2>2 DEF ShakeInv, ShakeMissedOutOfStep
<1>3. ASSUME NEW scene \in Motions, PosesAndFalls(scene)
      PROVE  ShakeInv'
  <2>0. PICK failed \in IF Compared THEN BOOLEAN ELSE {FALSE} :
            frame' = [frame EXCEPT !.pc = "classify", !.scene = scene, !.first = ~grey, !.failed = failed,
                                   !.flow = IF Compared /\ ~failed THEN scene ELSE "calm"]
    BY <1>3 DEF PosesAndFalls
  <2> DEFINE seen == IF Compared /\ ~failed THEN scene ELSE "calm"
  <2>1. /\ frame' = [frame EXCEPT !.pc = "classify", !.scene = scene, !.first = ~grey,
                                  !.failed = failed, !.flow = seen]
        /\ frames' = frames /\ number' = number /\ cached' = cached
    BY <1>3, <2>0 DEF PosesAndFalls
  <2>2. seen \in Motions /\ failed \in BOOLEAN /\ (seen # scene => ~Compared \/ failed)
    BY Zenon DEF Motions
  <2> HIDE DEF seen
  <2>3. /\ frame' \in Frames /\ frame'.pc = "classify" /\ frame'.scene = scene
        /\ frame'.flow = seen
    BY <1>0, <2>1, <2>2 DEF Frames
  <2>4. frame'.first = ~grey /\ frame'.failed = failed
    BY <1>0, <2>1, Zenon DEF Frames
  <2>5. frame'.scene = "shaking" /\ frame'.flow # "shaking" =>
            number' % FlowEvery # 0 \/ frame'.first \/ frame'.failed
    BY <2>1, <2>2, <2>3, <2>4 DEF Compared
  <2> QED BY <1>0, <2>1, <2>3, <2>5 DEF ShakeInv, ShakeMissedOutOfStep
<1>4. CASE CnnWaits
  BY <1>4, ShakeClassified DEF CnnWaits
<1>5. CASE CnnClassifies
  <2>1. PICK vote \in IF frame.flow = "shaking" THEN {FALSE} ELSE BOOLEAN :
            Classified(vote, Violent(votes'[0]))
    BY <1>5 DEF CnnClassifies
  <2>2. /\ frame.pc = "classify" /\ frames' = frames + 1 /\ frames' % CnnEvery = 0
    BY <1>5 DEF CnnClassifies
  <2>3. vote \in BOOLEAN /\ (vote => frame.flow # "shaking")
    BY <2>1, Zenon
  <2>4. frames' % FlowEvery = 0
    BY <1>0, <2>2, MultipleOfMultiple, PerceptionAssumption
  <2>5. number % FlowEvery # 0 => (number - frames') % FlowEvery # 0
    BY <1>0, <2>2, <2>4, StepApart, PerceptionAssumption
  <2>6. vote /\ frame.scene = "shaking" => (number - frames') % FlowEvery # 0 \/ frame.first \/ frame.failed
    BY <2>2, <2>3, <2>5 DEF ShakeInv
  <2> QED BY <2>1, <2>2, <2>3, <2>6, ShakeClassified
<1>6. CASE SkeletonClassifies
  <2>1. frame.pc = "classify" /\ frames' = frames + 1 /\ ~cnn
    BY <1>6 DEF SkeletonClassifies
  <2>2. PICK vote \in BOOLEAN : \E violent : Classified(vote, violent)
    BY <1>6 DEF SkeletonClassifies
  <2> QED BY <2>1, <2>2, ShakeClassified
<1> QED BY <1>1, <1>2, <1>3, <1>4, <1>5, <1>6 DEF PerceptionNext

\* A camera that shakes is voted violent only when frames without tracks put the
\* CNN out of step with the optical flow, at the first frame of all, or when the
\* flow raised, for any intervals of which one is a multiple of the other.
THEOREM ShakeMissedOutOfStepAlways == PerceptionSpec => []ShakeMissedOutOfStep
<1>1. ShakeInv => ShakeMissedOutOfStep
  BY DEF ShakeInv
<1> QED BY <1>1, ShakeInit, ShakeStep, PTL DEF PerceptionSpec
=============================================================================
