------------------------------ MODULE RiskScore ------------------------------
(***************************************************************************)
(* The risk score of an event, in exact arithmetic: hundredths of a point, *)
(* from a confidence and a zone sensitivity in per cent.                   *)
(***************************************************************************)
EXTENDS Integers

CONSTANTS
    LowMax,       \* RISK_LOW_MAX
    MediumMax     \* RISK_MEDIUM_MAX

ASSUME RiskAssumption == LowMax \in 0..100 /\ MediumMax \in LowMax..100

Severities == {"LOW", "MEDIUM", "HIGH"}

Signals == [confidence : 0..100, duration : Nat, people : Nat, motion : Nat,
            recent : BOOLEAN, zone : 0..100, night : BOOLEAN]

\* min(x / saturation, 1.0) * weight, where each unit of x is worth so much.
Saturated(x, saturation, each) == each * (IF x < saturation THEN x ELSE saturation)

\* The weighted sum.  human_confirmed, worth 5 points, is never set.
RawScore(s) ==
      30 * s.confidence
    + Saturated(s.duration, 30, 50)     \* 15 points at DURATION_SATURATION_S
    + Saturated(s.people, 5, 200)       \* 10 points at PEOPLE_COUNT_SATURATION
    + Saturated(s.motion, 8, 125)       \* 10 points at MOTION_SATURATION
    + (IF s.recent THEN 1000 ELSE 0)
    + 15 * s.zone
    + (IF s.night THEN 500 ELSE 150)

\* round(): the even one of two neighbours at the same distance.
Rounded(h) ==
    LET q == h \div 100
        r == h % 100
    IN  IF r > 50 \/ (r = 50 /\ q % 2 = 1) THEN q + 1 ELSE q

Clamped(n) == IF n < 0 THEN 0 ELSE IF n > 100 THEN 100 ELSE n

Score(s) == Clamped(Rounded(RawScore(s)))

\* score_to_severity, and the tiers of compute_risk_score.
Severity(score) ==
    IF score <= LowMax THEN "LOW"
    ELSE IF score <= MediumMax THEN "MEDIUM" ELSE "HIGH"
=============================================================================
