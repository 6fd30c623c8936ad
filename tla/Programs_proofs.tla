--------------------------- MODULE Programs_proofs ---------------------------
(***************************************************************************)
(* The programs beside the service: those that train the models, for any   *)
(* footage and any number of epochs and runs, and those that demonstrate   *)
(* it, for any persons, windows and numbers of votes.                      *)
(***************************************************************************)
EXTENDS ModelTraining, Demonstrations, SequenceTheorems, TLAPS

-----------------------------------------------------------------------------
(* The results of the epochs of a training's runs.                         *)

Runs == Seq(Seq(Results))

\* m is a run, and the first epoch that did best in it.
Checkpoint(s, m) ==
    /\ m \in Model
    /\ m.run \in 1..Len(s) /\ m.epoch \in 1..Len(s[m.run])
    /\ s[m.run][m.epoch] > 0
    /\ \A n \in 1..Len(s[m.run]) : /\ s[m.run][n] <= s[m.run][m.epoch]
                                   /\ n < m.epoch => s[m.run][n] < s[m.run][m.epoch]

\* No run after the k-th had an epoch worth saving.
NothingAfter(s, k) ==
    \A r \in 1..Len(s) : r > k => \A n \in 1..Len(s[r]) : s[r][n] = 0

\* A run begins.
LEMMA RunBegins ==
    ASSUME NEW s \in Runs
    PROVE  LET s2 == Append(s, <<>>) IN
           /\ s2 \in Runs /\ Len(s2) = Len(s) + 1
           /\ \A m : Checkpoint(s, m) => Checkpoint(s2, m)
           /\ \A k : NothingAfter(s, k) => NothingAfter(s2, k)
<1> DEFINE s2 == Append(s, <<>>)
<1>1. <<>> \in Seq(Results) /\ Len(<<>>) = 0
  OBVIOUS
<1>2. /\ s2 \in Runs /\ Len(s2) = Len(s) + 1 /\ s2[Len(s) + 1] = <<>>
      /\ \A r \in 1..Len(s) : s2[r] = s[r]
      /\ Len(s) \in Nat
  BY <1>1 DEF Runs
<1> HIDE DEF s2
<1>3. ASSUME NEW m, Checkpoint(s, m)
      PROVE  Checkpoint(s2, m)
  <2>1. m.run \in 1..Len(s) /\ m.run \in 1..Len(s2) /\ s2[m.run] = s[m.run]
    BY <1>2, <1>3 DEF Checkpoint
  <2> QED BY <1>3, <2>1 DEF Checkpoint
<1>4. ASSUME NEW k, NothingAfter(s, k)
      PROVE  NothingAfter(s2, k)
  <2>1. ASSUME NEW r \in 1..Len(s2), r > k, NEW n \in 1..Len(s2[r])
        PROVE  s2[r][n] = 0
    <3>1. r # Len(s) + 1
      BY <1>1, <1>2, <2>1
    <3>2. r \in 1..Len(s) /\ s2[r] = s[r]
      BY <1>2, <2>1, <3>1
    <3> QED BY <1>4, <2>1, <3>2 DEF NothingAfter
  <2> QED BY <2>1 DEF NothingAfter
<1> QED BY <1>2, <1>3, <1>4 DEF s2

\* The last run has one more epoch.
WithEpoch(s, x) == [s EXCEPT ![Len(s)] = Append(s[Len(s)], x)]

LEMMA WithEpochIs ==
    ASSUME NEW s \in Runs, Len(s) > 0, NEW x \in Results
    PROVE  /\ WithEpoch(s, x) \in Runs /\ Len(WithEpoch(s, x)) = Len(s)
           /\ Len(s) \in Nat \ {0} /\ s[Len(s)] \in Seq(Results) /\ Len(s[Len(s)]) \in Nat
           /\ Len(WithEpoch(s, x)[Len(s)]) = Len(s[Len(s)]) + 1
           /\ WithEpoch(s, x)[Len(s)][Len(s[Len(s)]) + 1] = x
           /\ \A n \in 1..Len(s[Len(s)]) : /\ WithEpoch(s, x)[Len(s)][n] = s[Len(s)][n]
                                           /\ s[Len(s)][n] \in Nat
           /\ \A r \in 1..(Len(s) - 1) : WithEpoch(s, x)[r] = s[r]
<1> DEFINE l == Len(s)
           c == s[l]
           d == Append(c, x)
           s2 == WithEpoch(s, x)
<1>1. l \in Nat \ {0} /\ l \in DOMAIN s /\ DOMAIN s = 1..l /\ c \in Seq(Results)
  BY DEF Runs
<1>2. /\ d \in Seq(Results) /\ Len(d) = Len(c) + 1 /\ Len(c) \in Nat /\ d[Len(c) + 1] = x
      /\ \A n \in 1..Len(c) : d[n] = c[n] /\ c[n] \in Results
  <2> HIDE DEF c
  <2> QED BY <1>1
<1>3. \A n \in 1..Len(c) : c[n] \in Nat
  BY <1>2 DEF Results
<1>4. s2 = [s EXCEPT ![l] = d]
  BY DEF WithEpoch
<1> HIDE DEF d, s2
<1>5. s2 \in Runs /\ Len(s2) = l /\ s2[l] = d /\ \A r \in 1..(l - 1) : s2[r] = s[r]
  <2> DEFINE S == Seq(Results)
  <2>1. s \in Seq(S) /\ d \in S
    BY <1>2 DEF Runs
  <2> HIDE DEF S, l
  <2>2. /\ s2 \in Seq(S) /\ Len(s2) = Len(s) /\ DOMAIN s2 = DOMAIN s
    BY ONLY <1>1, <1>4, <2>1, ExceptSeq
  <2>3. s2[l] = d /\ \A r \in 1..(l - 1) : s2[r] = s[r]
    BY <1>1, <1>4
  <2> QED BY <2>2, <2>3 DEF S, l, Runs
<1> QED BY <1>1, <1>2, <1>3, <1>5 DEF s2
\* An earlier run's checkpoint does not change.
LEMMA EarlierKept ==
    ASSUME NEW s \in Runs, NEW x \in Results, Len(s) > 0, NEW m, Checkpoint(s, m), m.run < Len(s)
    PROVE  Checkpoint(WithEpoch(s, x), m)
<1> DEFINE s2 == WithEpoch(s, x)
<1>1. m.run \in 1..(Len(s) - 1) /\ m.run \in 1..Len(s)
  BY DEF Checkpoint, Runs
<1>2. Len(s2) = Len(s) /\ s2[m.run] = s[m.run]
  BY <1>1, WithEpochIs
<1> HIDE DEF s2
<1>3. Checkpoint(s2, m)
  BY <1>1, <1>2 DEF Checkpoint
<1> QED BY <1>3 DEF s2

\* The last run's checkpoint stays one, if the epoch does no better.
LEMMA LastKept ==
    ASSUME NEW s \in Runs, NEW x \in Results, Len(s) > 0, NEW m, Checkpoint(s, m), m.run = Len(s),
           x <= s[Len(s)][m.epoch]
    PROVE  Checkpoint(WithEpoch(s, x), m)
<1> DEFINE l  == Len(s)
           c  == s[l]
           s2 == WithEpoch(s, x)
           d  == s2[l]
<1>1. /\ Len(s2) = l /\ l \in Nat \ {0} /\ Len(c) \in Nat /\ Len(d) = Len(c) + 1
      /\ d[Len(c) + 1] = x /\ \A n \in 1..Len(c) : d[n] = c[n] /\ c[n] \in Nat
  BY WithEpochIs
<1>2. /\ m \in Model /\ m.run = l /\ m.epoch \in Nat /\ m.epoch \in 1..Len(c)
      /\ c[m.epoch] > 0 /\ x <= c[m.epoch] /\ x \in Nat
      /\ \A n \in 1..Len(c) : /\ c[n] <= c[m.epoch]
                              /\ n < m.epoch => c[n] < c[m.epoch]
  BY DEF Checkpoint, Results, Model
<1> HIDE DEF c, d, l, s2
<1>3. \A n \in 1..Len(d) : n \in 1..Len(c) \/ n = Len(c) + 1
  BY <1>1
<1>4. d[m.epoch] = c[m.epoch] /\ m.epoch \in 1..Len(d)
  BY <1>1, <1>2
<1>5. \A n \in 1..Len(d) : d[n] <= d[m.epoch] /\ (n < m.epoch => d[n] < d[m.epoch])
  BY <1>1, <1>2, <1>3, <1>4
<1>6. m.run \in 1..Len(s2) /\ s2[m.run] = d
  BY <1>1, <1>2 DEF d
<1>7. Checkpoint(s2, m)
  BY <1>2, <1>4, <1>5, <1>6 DEF Checkpoint
<1> QED BY <1>7 DEF s2

\* An epoch that does better than all of its run before is the new checkpoint.
LEMMA Better ==
    ASSUME NEW s \in Runs, NEW x \in Results, Len(s) > 0, NEW b \in Nat, x > b,
           \A n \in 1..Len(s[Len(s)]) : s[Len(s)][n] <= b
    PROVE  \A torn \in BOOLEAN :
               Checkpoint(WithEpoch(s, x), [run |-> Len(s), epoch |-> Len(s[Len(s)]) + 1, torn |-> torn])
<1> DEFINE l  == Len(s)
           c  == s[l]
           s2 == WithEpoch(s, x)
           d  == s2[l]
           m(torn) == [run |-> l, epoch |-> Len(c) + 1, torn |-> torn]
<1>1. /\ Len(s2) = l /\ l \in Nat \ {0} /\ Len(c) \in Nat /\ Len(d) = Len(c) + 1
      /\ d[Len(c) + 1] = x /\ \A n \in 1..Len(c) : d[n] = c[n] /\ c[n] \in Nat
  BY WithEpochIs
<1>2. x \in Nat /\ \A n \in 1..Len(c) : c[n] <= b
  BY DEF Results
<1> HIDE DEF c, d, l, s2
<1>3. ASSUME NEW torn \in BOOLEAN
      PROVE  m(torn) \in Model /\ m(torn).run = l /\ m(torn).epoch = Len(c) + 1
  BY <1>1 DEF Model
<1> HIDE DEF m
<1>4. \A n \in 1..Len(d) : n \in 1..Len(c) \/ n = Len(c) + 1
  BY <1>1
<1>5. ASSUME NEW torn \in BOOLEAN
      PROVE  Checkpoint(s2, m(torn))
  <2> DEFINE e == m(torn)
  <2>1. e \in Model /\ e.run = l /\ e.epoch = Len(c) + 1
    BY <1>3
  <2> HIDE DEF e
  <2>2. d[e.epoch] = x /\ e.epoch \in 1..Len(d) /\ x > 0
    BY <1>1, <1>2, <2>1
  <2>3. \A n \in 1..Len(d) : d[n] <= d[e.epoch] /\ (n < e.epoch => d[n] < d[e.epoch])
    BY <1>1, <1>2, <1>4, <2>1, <2>2
  <2>4. e.run \in 1..Len(s2) /\ s2[e.run] = d
    BY <1>1, <2>1 DEF d
  <2>5. Checkpoint(s2, e)
    BY <2>1, <2>2, <2>3, <2>4 DEF Checkpoint
  <2> QED BY <2>5 DEF e
<1> QED BY <1>5 DEF s2, m, l, c

LEMMA NothingMore ==
    ASSUME NEW s \in Runs, NEW x \in Results, Len(s) > 0, NEW k \in Nat, NothingAfter(s, k),
           x = 0 \/ k >= Len(s)
    PROVE  NothingAfter(WithEpoch(s, x), k)
<1> DEFINE l  == Len(s)
           s2 == WithEpoch(s, x)
<1>1. /\ Len(s2) = l /\ l \in Nat \ {0} /\ Len(s[l]) \in Nat /\ Len(s2[l]) = Len(s[l]) + 1
      /\ s2[l][Len(s[l]) + 1] = x /\ \A n \in 1..Len(s[l]) : s2[l][n] = s[l][n]
      /\ \A r \in 1..(l - 1) : s2[r] = s[r]
  BY WithEpochIs
<1> HIDE DEF s2
<1>2. ASSUME NEW r \in 1..Len(s2), r > k, NEW n \in 1..Len(s2[r])
      PROVE  s2[r][n] = 0
  <2>1. CASE r = l
    <3>1. x = 0 /\ l \in 1..l
      BY <1>1, <1>2, <2>1
    <3>2. n \in 1..Len(s[l]) \/ n = Len(s[l]) + 1
      BY <1>1, <1>2, <2>1
    <3> QED BY <1>1, <1>2, <2>1, <3>1, <3>2 DEF NothingAfter
  <2>2. CASE r # l
    <3>1. r \in 1..(l - 1) /\ r \in 1..Len(s)
      BY <1>1, <1>2, <2>2
    <3> QED BY <1>1, <1>2, <3>1 DEF NothingAfter
  <2> QED BY <2>1, <2>2
<1> QED BY <1>2 DEF NothingAfter, s2

-----------------------------------------------------------------------------
(* What a training keeps.                                                  *)

\* Runs s whose checkpoint file holds m, while one with the best result b is on.
Kept(s, m, b, on) ==
    /\ s \in Runs /\ b \in Results
    /\ m = NoModel => NothingAfter(s, 0)
    /\ m # NoModel => Checkpoint(s, m) /\ NothingAfter(s, m.run)
    /\ on => /\ Len(s) > 0
             /\ b = 0 => m = NoModel \/ m.run < Len(s)
             /\ b > 0 => m # NoModel /\ m.run = Len(s) /\ ~m.torn /\ s[Len(s)][m.epoch] = b

LEMMA KeptBegins ==
    ASSUME NEW s, NEW m, NEW b, NEW on, Kept(s, m, b, on), NEW now
    PROVE  Kept(Append(s, <<>>), m, 0, now)
<1> DEFINE s2 == Append(s, <<>>)
<1>1. /\ s \in Runs /\ Len(s) \in Nat
      /\ m = NoModel => NothingAfter(s, 0)
      /\ m # NoModel => Checkpoint(s, m) /\ NothingAfter(s, m.run) /\ m.run \in 1..Len(s)
  BY DEF Kept, Runs, Checkpoint
<1>2. /\ s2 \in Runs /\ Len(s2) = Len(s) + 1
      /\ \A e : Checkpoint(s, e) => Checkpoint(s2, e)
      /\ \A k : NothingAfter(s, k) => NothingAfter(s2, k)
  BY <1>1, RunBegins
<1> HIDE DEF s2
<1>3. 0 \in Results /\ ~(0 > 0)
  BY DEF Results
<1>4. Kept(s2, m, 0, now)
  BY <1>1, <1>2, <1>3 DEF Kept
<1> QED BY <1>4 DEF s2

LEMMA KeptEnds ==
    ASSUME NEW s, NEW m, NEW b, NEW on, Kept(s, m, b, on)
    PROVE  Kept(s, m, b, FALSE)
BY DEF Kept

\* The best result so far bounds the results of the run.
LEMMA BestBounds ==
    ASSUME NEW s, NEW m, NEW b, Kept(s, m, b, TRUE)
    PROVE  \A n \in 1..Len(s[Len(s)]) : s[Len(s)][n] <= b
<1> DEFINE l == Len(s)
<1>1. s \in Runs /\ l \in 1..l /\ l > 0 /\ b \in {0, 1, 2}
  BY DEF Kept, Runs, Results
<1>2. CASE b = 0
  <2>1. m = NoModel \/ m.run < l
    BY <1>2 DEF Kept
  <2>2. \A n \in 1..Len(s[l]) : s[l][n] = 0
    <3>1. CASE m = NoModel
      BY <1>1, <3>1 DEF Kept, NothingAfter
    <3>2. CASE m # NoModel
      <4>1. NothingAfter(s, m.run) /\ l > m.run
        BY <1>1, <2>1, <3>2 DEF Kept, Checkpoint
      <4> QED BY <1>1, <4>1 DEF NothingAfter
    <3> QED BY <3>1, <3>2
  <2> QED BY <1>2, <2>2
<1>3. CASE b # 0
  BY <1>1, <1>3 DEF Kept, Checkpoint
<1> QED BY <1>2, <1>3

\* The file is written, or torn by a stop, after which the best result is no matter.
LEMMA KeptBetter ==
    ASSUME NEW s, NEW m, NEW b, Kept(s, m, b, TRUE), NEW x \in Results, x > b, NEW torn \in BOOLEAN
    PROVE  LET m2 == [run |-> Len(s), epoch |-> Len(s[Len(s)]) + 1, torn |-> torn]
           IN  Kept(WithEpoch(s, x), m2, IF torn THEN b ELSE x, ~torn)
<1> DEFINE l  == Len(s)
           s2 == WithEpoch(s, x)
           m2 == [run |-> l, epoch |-> Len(s[l]) + 1, torn |-> torn]
           b2 == IF torn THEN b ELSE x
<1>1. s \in Runs /\ l > 0 /\ b \in Nat /\ b2 \in Results /\ (~torn => b2 = x)
  BY DEF Kept, Results
<1>2. /\ s2 \in Runs /\ Len(s2) = l /\ s2[l][Len(s[l]) + 1] = x /\ l \in Nat \ {0}
      /\ Len(s[l]) \in Nat
  BY <1>1, WithEpochIs
<1>3. Checkpoint(s2, m2)
  BY <1>1, BestBounds, Better
<1>4. m2 \in Model /\ m2.run = l /\ m2.epoch = Len(s[l]) + 1 /\ m2.torn = torn
  BY <1>2 DEF Model
<1> HIDE DEF s2, m2, l, b2
<1>5. m2 # NoModel
  BY <1>4, TrainingAssumption
<1>6. NothingAfter(s2, l)
  BY <1>2 DEF NothingAfter
<1>7. x > 0 /\ x # 0
  BY <1>1 DEF Results
<1>8. Kept(s2, m2, b2, ~torn)
  BY <1>1, <1>2, <1>3, <1>4, <1>5, <1>6, <1>7 DEF Kept
<1> QED BY <1>8 DEF s2, m2, l, b2

LEMMA KeptNoBetter ==
    ASSUME NEW s, NEW m, NEW b, Kept(s, m, b, TRUE), NEW x \in Results, ~(x > b)
    PROVE  Kept(WithEpoch(s, x), m, b, TRUE)
<1> DEFINE l  == Len(s)
           s2 == WithEpoch(s, x)
<1>1. s \in Runs /\ l > 0 /\ b \in {0, 1, 2} /\ x \in {0, 1, 2} /\ l \in Nat
  BY DEF Kept, Results, Runs
<1>2. s2 \in Runs /\ Len(s2) = l /\ \A n \in 1..Len(s[l]) : s2[l][n] = s[l][n]
  BY <1>1, WithEpochIs
<1>3. CASE b = 0
  <2>1. x = 0 /\ (m = NoModel \/ m.run < l)
    BY <1>1, <1>3 DEF Kept
  <2>2. CASE m = NoModel
    <3>1. NothingAfter(s2, 0)
      BY <1>1, <2>1, <2>2, NothingMore DEF Kept
    <3> HIDE DEF s2
    <3> QED BY <1>1, <1>2, <1>3, <2>2, <3>1 DEF Kept, s2
  <2>3. CASE m # NoModel
    <3>1. Checkpoint(s, m) /\ NothingAfter(s, m.run) /\ m.run \in Nat /\ m.run < l
      BY <2>1, <2>3 DEF Kept, Checkpoint
    <3>2. Checkpoint(s2, m) /\ NothingAfter(s2, m.run)
      BY <1>1, <2>1, <3>1, EarlierKept, NothingMore
    <3> HIDE DEF s2
    <3> QED BY <1>1, <1>2, <1>3, <2>3, <3>1, <3>2 DEF Kept, s2
  <2> QED BY <2>2, <2>3
<1>4. CASE b # 0
  <2>1. /\ m # NoModel /\ m.run = l /\ ~m.torn /\ s[l][m.epoch] = b
        /\ Checkpoint(s, m) /\ NothingAfter(s, m.run)
    BY <1>1, <1>4 DEF Kept
  <2>2. m.epoch \in 1..Len(s[l]) /\ m.run \in Nat
    BY <2>1 DEF Checkpoint
  <2>3. Checkpoint(s2, m) /\ NothingAfter(s2, m.run)
    BY <1>1, <2>1, <2>2, LastKept, NothingMore
  <2>4. s2[l][m.epoch] = b
    BY <1>2, <2>1, <2>2
  <2> HIDE DEF s2
  <2> QED BY <1>1, <1>2, <1>4, <2>1, <2>3, <2>4 DEF Kept, s2
<1> QED BY <1>3, <1>4

\* What was exported came from a run that is over, and those that came to their
\* end later, up to the last, had nothing to export.
Exported ==
    /\ finished \in SUBSET (1..Len(scores["cnn"]))
    /\ "cnn" \in training => Len(scores["cnn"]) \notin finished
    /\ exported # NoModel =>
           /\ Checkpoint(scores["cnn"], exported)
           /\ "cnn" \in training => exported.run < Len(scores["cnn"])
           /\ \A r \in finished : r > exported.run =>
                  \A n \in 1..Len(scores["cnn"][r]) : scores["cnn"][r][n] = 0

\* A run that goes on is the last one of its training.
BestInv ==
    /\ scores \in [Trainings -> Runs] /\ best \in [Trainings -> Results]
    /\ saved = [t \in Trainings |-> saved[t]]
    /\ \A t \in Trainings : Kept(scores[t], saved[t], best[t], t \in training)
    /\ Exported

LEMMA BestInit == TrainingInit => BestInv
<1> SUFFICES ASSUME TrainingInit
             PROVE  BestInv
  OBVIOUS
<1>1. <<>> \in Runs /\ Len(<<>>) = 0 /\ 0 \in Results
  BY DEF Runs, Results
<1>2. \A k : NothingAfter(<<>>, k)
  BY <1>1 DEF NothingAfter
<1>3. \A t \in Trainings : Kept(scores[t], saved[t], best[t], t \in training)
  BY <1>1, <1>2 DEF TrainingInit, Kept
<1>4. Exported
  BY DEF TrainingInit, Exported
<1> QED BY <1>1, <1>3, <1>4 DEF TrainingInit, BestInv

\* Only training t goes on: its results, its best and its checkpoint.
LEMMA BestOfOne ==
    ASSUME BestInv, NEW t \in Trainings, NEW s, NEW m, NEW b, Kept(s, m, b, t \in training'),
           scores' = [scores EXCEPT ![t] = s],
           saved' = [saved EXCEPT ![t] = m],
           best' = [best EXCEPT ![t] = b],
           \A u \in Trainings \ {t} : u \in training' <=> u \in training,
           Exported'
    PROVE  BestInv'
<1>1. s \in Runs /\ b \in Results
  BY DEF Kept
<1>2. /\ scores' \in [Trainings -> Runs] /\ best' \in [Trainings -> Results]
      /\ saved' = [u \in Trainings |-> saved'[u]]
      /\ scores'[t] = s /\ saved'[t] = m /\ best'[t] = b
      /\ \A u \in Trainings \ {t} : /\ scores'[u] = scores[u] /\ saved'[u] = saved[u]
                                    /\ best'[u] = best[u]
  BY <1>1 DEF BestInv
<1>3. ASSUME NEW u \in Trainings \ {t}
      PROVE  Kept(scores'[u], saved'[u], best'[u], u \in training')
  <2>1. Kept(scores[u], saved[u], best[u], u \in training)
    BY DEF BestInv
  <2> QED BY <1>2, <2>1 DEF Kept
<1>4. \A u \in Trainings : Kept(scores'[u], saved'[u], best'[u], u \in training')
  BY <1>2, <1>3
<1> QED BY <1>2, <1>4 DEF BestInv

\* A run begins, or has one more epoch: the runs before the present one are as they
\* were, and so is what was exported of them.
LEMMA ExportedKept ==
    ASSUME BestInv, exported' = exported, finished' = finished,
           Len(scores'["cnn"]) \in Nat, Len(scores["cnn"]) <= Len(scores'["cnn"]),
           \A r \in finished : r < Len(scores'["cnn"]) /\ scores'["cnn"][r] = scores["cnn"][r],
           exported # NoModel => /\ exported.run < Len(scores'["cnn"])
                                 /\ Checkpoint(scores'["cnn"], exported)
    PROVE  Exported'
<1>1. /\ finished \in SUBSET (1..Len(scores["cnn"])) /\ Len(scores["cnn"]) \in Nat
      /\ exported # NoModel =>
             \A r \in finished : r > exported.run =>
                 \A n \in 1..Len(scores["cnn"][r]) : scores["cnn"][r][n] = 0
  BY DEF BestInv, Exported, Runs, Trainings
<1>2. finished' \in SUBSET (1..Len(scores'["cnn"])) /\ Len(scores'["cnn"]) \notin finished'
  BY <1>1
<1> QED BY <1>1, <1>2 DEF Exported

LEMMA BestBegins ==
    ASSUME BestInv, NEW t \in Trainings, TrainingBegins(t)
    PROVE  BestInv'
<1> DEFINE s == Append(scores[t], <<>>)
<1>1. /\ scores' = [scores EXCEPT ![t] = s]
      /\ best' = [best EXCEPT ![t] = 0] /\ saved' = [saved EXCEPT ![t] = saved[t]]
      /\ training' = training \cup {t} /\ exported' = exported /\ finished' = finished
  BY DEF TrainingBegins, BestInv
<1>2. Kept(s, saved[t], 0, t \in training')
  BY KeptBegins DEF BestInv
<1>3. /\ scores \in [Trainings -> Runs] /\ scores[t] \in Runs /\ s \in Runs
      /\ Len(s) = Len(scores[t]) + 1 /\ Len(scores[t]) \in Nat
      /\ \A m : Checkpoint(scores[t], m) => Checkpoint(s, m)
      /\ \A r \in 1..Len(scores[t]) : s[r] = scores[t][r]
  <2>1. scores \in [Trainings -> Runs] /\ scores[t] \in Runs
    BY DEF BestInv
  <2> QED BY <2>1, RunBegins DEF Runs
<1> HIDE DEF s
<1>4. Exported'
  <2>1. CASE t = "cnn"
    <3>1. scores'["cnn"] = s
      BY <1>1, <1>3, <2>1
    <3>2. \A r \in finished : r < Len(s) /\ s[r] = scores["cnn"][r]
      BY <1>3, <2>1 DEF BestInv, Exported
    <3>3. exported # NoModel => exported.run < Len(s) /\ Checkpoint(s, exported)
      BY <1>3, <2>1 DEF BestInv, Exported, Checkpoint
    <3> QED BY <1>1, <1>3, <2>1, <3>1, <3>2, <3>3, ExportedKept
  <2>2. CASE t # "cnn"
    <3>1. scores'["cnn"] = scores["cnn"] /\ ("cnn" \in training' <=> "cnn" \in training)
      BY <1>1, <1>3, <2>2 DEF Trainings
    <3> QED BY <1>1, <3>1 DEF BestInv, Exported
  <2> QED BY <2>1, <2>2
<1>5. \A u \in Trainings \ {t} : u \in training' <=> u \in training
  BY <1>1
<1> QED BY ONLY BestInv, t \in Trainings, <1>1, <1>2, <1>4, <1>5, BestOfOne

LEMMA BestStops ==
    ASSUME BestInv, NEW t \in Trainings, TrainingEnds(t) \/ TrainingStops(t) \/ StopsInExport(t)
    PROVE  BestInv'
<1>1. /\ training' = training \ {t} /\ scores' = scores /\ best' = best /\ saved' = saved
      /\ \/ exported' = exported /\ finished' = finished
         \/ /\ t = "cnn" /\ t \in training /\ Whole(saved[t])
            /\ \/ exported' = saved[t] /\ finished' = finished \cup {Len(scores[t])}
               \/ exported' = [saved[t] EXCEPT !.torn = TRUE] /\ finished' = finished
  BY DEF TrainingEnds, TrainingStops, StopsInExport, ThisRun
<1>2. ASSUME NEW u \in Trainings
      PROVE  Kept(scores[u], saved[u], best[u], u \in training')
  <2>1. Kept(scores[u], saved[u], best[u], u \in training)
    BY DEF BestInv
  <2> QED BY <1>1, <2>1 DEF Kept
<1>3. Exported'
  <2>1. CASE exported' = exported /\ finished' = finished
    BY <1>1, <2>1 DEF BestInv, Exported
  <2>2. CASE /\ t = "cnn" /\ t \in training /\ Whole(saved[t])
             /\ \/ exported' = saved[t] /\ finished' = finished \cup {Len(scores[t])}
                \/ exported' = [saved[t] EXCEPT !.torn = TRUE] /\ finished' = finished
    <3> DEFINE s == scores["cnn"]
               m == saved["cnn"]
    <3>1. /\ Checkpoint(s, m) /\ NothingAfter(s, m.run) /\ Len(s) \in 1..Len(s)
          /\ finished \in SUBSET (1..Len(s)) /\ "cnn" \notin training'
      <4>1. Kept(s, m, best["cnn"], TRUE) /\ m # NoModel
        BY <2>2 DEF BestInv, Whole
      <4> QED BY <1>1, <2>2, <4>1 DEF Kept, Runs, BestInv, Exported
    <3>2. exported'.run = m.run /\ exported'.epoch = m.epoch /\ exported' \in Model
      BY <2>2, <3>1 DEF Checkpoint, Model
    <3>3. Checkpoint(s, exported')
      BY <3>1, <3>2 DEF Checkpoint
    <3>4. finished' \in SUBSET (1..Len(s))
      BY <2>2, <3>1
    <3>5. \A r \in finished' : r > exported'.run => \A n \in 1..Len(s[r]) : s[r][n] = 0
      BY <3>1, <3>2, <3>4 DEF NothingAfter
    <3> QED BY <1>1, <3>1, <3>3, <3>4, <3>5 DEF Exported
  <2> QED BY <1>1, <2>1, <2>2
<1> QED BY <1>1, <1>2, <1>3 DEF BestInv

\* An epoch is done and its model, if it is better, is written, or half of it.
LEMMA BestEpoch ==
    ASSUME BestInv, NEW t \in Trainings, NEW x \in Results, Epoch(t, x) \/ StopsInSave(t, x)
    PROVE  BestInv'
<1> DEFINE s  == scores[t]
           s2 == WithEpoch(s, x)
           m2(torn) == [run |-> Len(s), epoch |-> Len(s[Len(s)]) + 1, torn |-> torn]
<1>1. /\ scores \in [Trainings -> Runs] /\ t \in training
      /\ exported' = exported /\ finished' = finished /\ Kept(s, saved[t], best[t], TRUE)
      /\ scores' = [scores EXCEPT ![t] = s2]
  BY DEF Epoch, StopsInSave, EpochDone, BestInv, ThisRun, WithEpoch
<1>2. s \in Runs /\ Len(s) > 0 /\ Len(s) \in Nat
  BY <1>1 DEF Kept, Runs
<1>3. PICK m, b : /\ Kept(s2, m, b, t \in training')
                  /\ saved' = [saved EXCEPT ![t] = m]
                  /\ best' = [best EXCEPT ![t] = b]
                  /\ training' = training \/ training' = training \ {t}
  <2> HIDE DEF s2
  <2>1. CASE Epoch(t, x) /\ x > best[t]
    <3>1. saved' = [saved EXCEPT ![t] = m2(FALSE)] /\ best' = [best EXCEPT ![t] = x] /\ training' = training
      BY <2>1 DEF Epoch, Improves, Saved, ThisRun, EpochOf
    <3>2. Kept(s2, m2(FALSE), x, TRUE)
      <4>1. Kept(s2, m2(FALSE), IF FALSE THEN best[t] ELSE x, ~FALSE)
        BY <1>1, <2>1, KeptBetter, FALSE \in BOOLEAN, Zenon DEF s2
      <4> QED BY <4>1
    <3>3. t \in training'
      BY <1>1, <3>1
    <3> HIDE DEF m2
    <3> QED BY <3>1, <3>2, <3>3
  <2>2. CASE Epoch(t, x) /\ ~(x > best[t])
    <3>1. /\ saved' = [saved EXCEPT ![t] = saved[t]] /\ best' = [best EXCEPT ![t] = best[t]]
          /\ training' = training
      BY <2>2 DEF Epoch, Improves, BestInv
    <3>2. Kept(s2, saved[t], best[t], TRUE)
      BY <1>1, <2>2, KeptNoBetter DEF s2
    <3> QED BY <1>1, <3>1, <3>2
  <2>3. CASE StopsInSave(t, x)
    <3>1. /\ saved' = [saved EXCEPT ![t] = m2(TRUE)] /\ best' = [best EXCEPT ![t] = best[t]]
          /\ training' = training \ {t} /\ x > best[t]
      BY <2>3 DEF StopsInSave, Improves, Saved, ThisRun, EpochOf, BestInv
    <3>2. Kept(s2, m2(TRUE), best[t], FALSE)
      <4>1. Kept(s2, m2(TRUE), IF TRUE THEN best[t] ELSE x, ~TRUE)
        BY <1>1, <3>1, KeptBetter, TRUE \in BOOLEAN, Zenon DEF s2
      <4> QED BY <4>1
    <3>3. ~(t \in training')
      BY <3>1
    <3>4. Kept(s2, m2(TRUE), best[t], t \in training')
      BY <3>2, <3>3 DEF Kept
    <3> HIDE DEF m2
    <3> QED BY <3>1, <3>4, Zenon
  <2> QED BY <2>1, <2>2, <2>3
<1>4. Exported'
  <2>1. CASE t = "cnn"
    <3>1. scores'["cnn"] = s2 /\ Len(s2) = Len(s) /\ \A r \in 1..(Len(s) - 1) : s2[r] = s[r]
      BY <1>1, <1>2, <2>1, WithEpochIs
    <3>2. \A r \in finished : r < Len(s) /\ s2[r] = s[r]
      <4>1. finished \in SUBSET (1..Len(s)) /\ Len(s) \notin finished
        BY <1>1, <2>1 DEF BestInv, Exported
      <4> QED BY <1>2, <3>1, <4>1
    <3>3. exported # NoModel => exported.run < Len(s) /\ Checkpoint(s2, exported)
      <4>1. exported # NoModel => exported.run < Len(s) /\ Checkpoint(s, exported)
        BY <1>1, <2>1 DEF BestInv, Exported
      <4> QED BY <1>2, <4>1, EarlierKept
    <3> HIDE DEF s2
    <3> QED BY <1>1, <1>2, <2>1, <3>1, <3>2, <3>3, ExportedKept
  <2>2. CASE t # "cnn"
    <3>1. scores'["cnn"] = scores["cnn"] /\ ("cnn" \in training' <=> "cnn" \in training)
      BY <1>1, <1>3, <2>2 DEF Trainings
    <3> QED BY <1>1, <3>1 DEF BestInv, Exported
  <2> QED BY <2>1, <2>2
<1>5. \A u \in Trainings \ {t} : u \in training' <=> u \in training
  BY <1>3
<1> HIDE DEF s2
<1> QED BY ONLY BestInv, t \in Trainings, <1>1, <1>3, <1>4, <1>5, BestOfOne

LEMMA BestStep == BestInv /\ [TrainingNext]_models => BestInv'
<1> SUFFICES ASSUME BestInv, [TrainingNext]_models
             PROVE  BestInv'
  OBVIOUS
<1>1. CASE FootageNext \/ UNCHANGED models
  <2>1. UNCHANGED <<training, best, scores, saved, exported, finished>>
    BY <1>1 DEF FootageNext, AddFootage, ProcessRwf2000, ProcessUrFall, ProcessKaggle, FromConfig,
                ProcessUcfCrime, ProcessCustom, ProcessSpans, models
  <2> QED BY <2>1 DEF BestInv, Exported
<1>2. ASSUME NEW t \in Trainings, TrainerNext(t)
      PROVE  BestInv'
  BY <1>2, BestBegins, BestStops, BestEpoch DEF TrainerNext
<1> QED BY <1>1, <1>2 DEF TrainingNext

\* A checkpoint file is of the first best epoch of its run, and no later run had one
\* worth saving; only a run that was stopped leaves it torn; what is exported is of
\* the best of its run, and no later run that came to its end had anything to
\* export, for any number of epochs and runs, however often a training is stopped,
\* in the middle of a file too, and begun again: best starts at nothing, and a
\* checkpoint is written only when it is beaten.
THEOREM BestIsKeptAlways == TrainingSpec => []BestIsKept
<1>1. BestInv => BestIsKept
  <2> SUFFICES ASSUME BestInv
               PROVE  BestIsKept
    OBVIOUS
  <2>1. ASSUME NEW t \in Trainings, NEW k, NothingAfter(scores[t], k),
               NEW r \in DOMAIN scores[t], r > k
        PROVE  Range(scores[t][r]) \subseteq {0}
    <3>1. r \in 1..Len(scores[t]) /\ scores[t][r] \in Seq(Results)
      BY DEF BestInv, Runs
    <3>2. DOMAIN scores[t][r] = 1..Len(scores[t][r])
      BY <3>1
    <3> QED BY <2>1, <3>1, <3>2 DEF NothingAfter, Range
  <2>2. ASSUME NEW t \in Trainings, NEW m, Checkpoint(scores[t], m)
        PROVE  BestOfRun(t, m)
    <3>1. m.run \in 1..Len(scores[t]) /\ scores[t] \in Seq(Seq(Results))
      BY <2>2 DEF BestInv, Runs, Checkpoint
    <3>2. scores[t][m.run] \in Seq(Results)
      BY <3>1
    <3>3. DOMAIN scores[t][m.run] = 1..Len(scores[t][m.run])
      BY <3>2
    <3> QED BY <2>2, <3>3 DEF Checkpoint, BestOfRun
  <2>3. ASSUME NEW t \in Trainings, saved[t] = NoModel
        PROVE  \A r \in DOMAIN scores[t] : Range(scores[t][r]) \subseteq {0}
    <3>1. NothingAfter(scores[t], 0)
      BY <2>3 DEF BestInv, Kept
    <3>2. \A r \in DOMAIN scores[t] : r > 0
      BY DEF BestInv, Runs
    <3> QED BY <2>1, <3>1, <3>2
  <2>4. ASSUME NEW t \in Trainings, saved[t] # NoModel
        PROVE  /\ BestOfRun(t, saved[t])
               /\ \A r \in DOMAIN scores[t] : r > saved[t].run => Range(scores[t][r]) \subseteq {0}
    <3>1. Checkpoint(scores[t], saved[t]) /\ NothingAfter(scores[t], saved[t].run)
      BY <2>4 DEF BestInv, Kept
    <3> QED BY <2>1, <2>2, <3>1
  <2>5. ASSUME NEW t \in Trainings, saved[t] # NoModel, saved[t].torn, t \in training
        PROVE  saved[t].run < ThisRun(t)
    <3>1. Kept(scores[t], saved[t], best[t], TRUE)
      BY <2>5 DEF BestInv
    <3>2. best[t] = 0 \/ best[t] > 0
      BY DEF BestInv, Results
    <3> QED BY <2>5, <3>1, <3>2 DEF Kept, ThisRun
  <2>6. ASSUME exported # NoModel
        PROVE  /\ BestOfRun("cnn", exported)
               /\ \A r \in finished : r > exported.run => Range(scores["cnn"][r]) \subseteq {0}
    <3>1. BestOfRun("cnn", exported)
      BY <2>2, <2>6 DEF BestInv, Exported, Trainings
    <3>2. ASSUME NEW r \in finished, r > exported.run
          PROVE  Range(scores["cnn"][r]) \subseteq {0}
      <4>1. /\ scores["cnn"] \in Seq(Seq(Results)) /\ r \in 1..Len(scores["cnn"])
            /\ \A n \in 1..Len(scores["cnn"][r]) : scores["cnn"][r][n] = 0
        BY <2>6, <3>2 DEF BestInv, Exported, Trainings, Runs
      <4>2. scores["cnn"][r] \in Seq(Results)
        BY <4>1
      <4>3. DOMAIN scores["cnn"][r] = 1..Len(scores["cnn"][r])
        BY <4>2
      <4> QED BY <4>1, <4>3 DEF Range
    <3> QED BY <3>1, <3>2
  <2> QED BY <2>3, <2>4, <2>5, <2>6 DEF BestIsKept
<1> QED BY <1>1, BestInit, BestStep, PTL DEF TrainingSpec

-----------------------------------------------------------------------------
(* The persons of the demonstrations.                                      *)

Confs    == {0} \cup Confidences
Votes(k) == [violent : BOOLEAN, pass : {k}]

\* All poses and votes of p are of the k-th pass, and its verdict of violence
\* came with a confidence of at least least.
Person(p, k, least) ==
    /\ p \in [window : Seq({k}), votes : Seq(Votes(k)), conf : Confs, violent : BOOLEAN]
    /\ p.violent => p.conf >= least

LEMMA AppendedIs ==
    ASSUME NEW S, NEW s \in Seq(S), NEW x \in S, NEW n \in Nat \ {0}
    PROVE  Appended(s, x, n) \in Seq(S) /\ Appended(s, x, n) # <<>>
<1>1. CASE Len(s) < n
  BY <1>1 DEF Appended
<1>2. CASE ~(Len(s) < n)
  <2>1. s # <<>>
    BY <1>2
  <2> DEFINE u == Tail(s)
  <2>2. u \in Seq(S)
    BY <2>1
  <2>3. Appended(s, x, n) = Append(u, x)
    BY <1>2 DEF Appended
  <2> HIDE DEF u
  <2>4. Append(u, x) \in Seq(S) /\ Append(u, x) # <<>>
    BY <2>2
  <2> QED BY <2>3, <2>4
<1> QED BY <1>1, <1>2

LEMMA NobodyIs ==
    ASSUME NEW k, NEW least
    PROVE  Person(NoPerson, k, least)
BY DEF Person, NoPerson, Confs

LEMMA PosedIs ==
    ASSUME NEW p, NEW k, NEW least, Person(p, k, least)
    PROVE  Person(WithPose(p, k), k, least) /\ WithPose(p, k).window # <<>>
<1> DEFINE w == Appended(p.window, k, WindowSize)
<1>1. w \in Seq({k}) /\ w # <<>>
  BY AppendedIs, VotesAssumption DEF Person
<1>2. WithPose(p, k) = [p EXCEPT !.window = w]
  BY DEF WithPose, Person
<1> HIDE DEF w
<1> QED BY <1>1, <1>2 DEF Person

LEMMA VotedIs ==
    ASSUME NEW p, NEW k, NEW least, Person(p, k, least), NEW up \in BOOLEAN
    PROVE  Appended(p.votes, [violent |-> up, pass |-> k], VoteWindow) \in Seq(Votes(k))
<1> DEFINE v == [violent |-> up, pass |-> k]
<1>1. v \in Votes(k) /\ p.votes \in Seq(Votes(k)) /\ VoteWindow \in Nat \ {0}
  BY VotesAssumption DEF Votes, Person
<1> HIDE DEF v
<1> QED BY <1>1, AppendedIs DEF v

LEMMA VerdictIs ==
    ASSUME NEW p, NEW k, NEW least \in Nat, Person(p, k, least), NEW conf \in Confidences,
           NEW threshold \in Nat
    PROVE  /\ Person(WithVerdict(p, conf, threshold, least, k), k, least)
           /\ WithVerdict(p, conf, threshold, least, k).window = p.window
<1> DEFINE up    == conf > threshold
           votes == Appended(p.votes, [violent |-> up, pass |-> k], VoteWindow)
           bad   == VotedViolent(votes) /\ conf >= least
<1>1. up \in BOOLEAN /\ bad \in BOOLEAN
  <2>1. \A a, b : (a > b) \in BOOLEAN
    OBVIOUS
  <2> QED BY <2>1, Zenon DEF VotedViolent
<1>2. votes \in Seq(Votes(k))
  <2> HIDE DEF up
  <2> QED BY <1>1, VotedIs
<1>3. WithVerdict(p, conf, threshold, least, k)
         = [p EXCEPT !.votes = votes, !.conf = conf, !.violent = bad]
  BY DEF WithVerdict
<1>4. bad => conf >= least
  OBVIOUS
<1> HIDE DEF bad, votes, up
<1> QED BY <1>1, <1>2, <1>3, <1>4 DEF Person, Confs

LEMMA BasisIs ==
    ASSUME NEW p, NEW k, NEW least, Person(p, k, least), p.window # <<>>
    PROVE  Basis(p) = {k}
<1>1. p.window \in Seq({k}) /\ p.votes \in Seq(Votes(k))
  BY DEF Person
<1>2. Range(p.window) = {k}
  BY <1>1 DEF Range
<1>3. \A v \in Range(p.votes) : v.pass = k
  <2>1. \A v \in Votes(k) : v.pass = k
    BY DEF Votes
  <2>2. \A v \in Range(p.votes) : v \in Votes(k)
    BY <1>1 DEF Range
  <2> QED BY <2>1, <2>2
<1> QED BY <1>2, <1>3 DEF Basis

-----------------------------------------------------------------------------
(* The demonstration that writes incidents.                                *)

IngestInv ==
    /\ \A t \in DOMAIN people : Person(people[t], pass, 60)
    /\ timed \in BOOLEAN /\ live \in BOOLEAN /\ (timed => live)
    /\ \A n \in DOMAIN incidents : /\ incidents[n].basis = {incidents[n].pass}
                                   /\ incidents[n].severity = "HIGH"
                                   /\ live
    /\ \E S : incidents \in Seq(S)

LEMMA IngestInvInit == IngestInit => IngestInv
<1>1. <<>> \in Seq({}) /\ DOMAIN <<>> = {}
  OBVIOUS
<1> QED BY <1>1 DEF IngestInit, IngestInv

\* What a verdict needs gives a risk that is HIGH.
LEMMA HighRisk ==
    ASSUME NEW conf \in Confs, conf >= 60
    PROVE  RiskTier(Risk(conf)) = "HIGH"
<1>1. conf \in {65, 80}
  BY DEF Confs, Confidences
<1>2. Risk(conf) = conf + 10
  <2> DEFINE both == {100, conf + 10}
  <2>1. conf + 10 \in both /\ \A x \in both : conf + 10 <= x
    BY <1>1
  <2>2. \A y \in both : (\A x \in both : y <= x) => y = conf + 10
    BY <1>1
  <2> HIDE DEF both
  <2>3. Min(both) \in both /\ \A x \in both : Min(both) <= x
    BY ONLY <2>1, Zenon DEF Min
  <2>4. Min(both) = conf + 10
    BY ONLY <2>2, <2>3, Zenon
  <2> QED BY <2>4 DEF both, Risk
<1> QED BY <1>1, <1>2 DEF RiskTier

\* Of some people with confidences, one has the highest.
LEMMA WorstIs ==
    ASSUME NEW P, P # {}, NEW c \in [P -> Confs]
    PROVE  \E t \in P : \A u \in P : c[u] <= c[t]
<1>1. \A t \in P : c[t] \in {0, 30, 55, 65, 80}
  BY DEF Confs, Confidences
<1>2. CASE \E t \in P : c[t] = 80
  BY <1>1, <1>2
<1>3. CASE (\E t \in P : c[t] = 65) /\ ~\E t \in P : c[t] = 80
  BY <1>1, <1>3
<1>4. CASE (\E t \in P : c[t] = 55) /\ ~\E t \in P : c[t] \in {65, 80}
  BY <1>1, <1>4
<1>5. CASE (\E t \in P : c[t] = 30) /\ ~\E t \in P : c[t] \in {55, 65, 80}
  BY <1>1, <1>5
<1>6. CASE ~\E t \in P : c[t] \in {30, 55, 65, 80}
  <2>1. \A t \in P : c[t] = 0
    BY <1>1, <1>6
  <2> QED BY <2>1
<1> QED BY <1>2, <1>3, <1>4, <1>5, <1>6

LEMMA FollowedIs ==
    ASSUME IngestInv, NEW seen, NEW conf \in [seen -> Confidences], NEW recorded
    PROVE  LET after == Followed(seen, conf, recorded).people IN
           /\ \A t \in DOMAIN after : Person(after[t], pass, 60)
           /\ \A t \in seen : t \in DOMAIN after /\ after[t].window # <<>>
<1> DEFINE age == [t \in DOMAIN missed \cup seen |-> IF t \in seen THEN 0 ELSE missed[t] + 1]
           old(t) == IF t \in DOMAIN people THEN people[t] ELSE NoPerson
           new(t) == IF t \in seen THEN IngestVerdict(WithPose(old(t), pass), conf[t], recorded)
                                   ELSE old(t)
           fresh == {t \in DOMAIN age : age[t] <= StaleFrames}
           after == Followed(seen, conf, recorded).people
<1>1. after = [t \in fresh |-> new(t)]
  BY DEF Followed
<1>2. \A t : Person(old(t), pass, 60)
  BY NobodyIs DEF IngestInv
<1>3. ASSUME NEW t \in seen
      PROVE  Person(new(t), pass, 60) /\ new(t).window # <<>>
  <2> DEFINE p == WithPose(old(t), pass)
  <2>1. Person(p, pass, 60) /\ p.window # <<>>
    BY <1>2, PosedIs
  <2>2. conf[t] \in Confidences
    BY <1>3
  <2>3. new(t) = IngestVerdict(p, conf[t], recorded)
    BY <1>3
  <2>4. \/ new(t) = WithVerdict(p, conf[t], 74, 60, pass)
        \/ new(t) = WithVerdict(p, conf[t], 50, 60, pass)
        \/ new(t) = p
    BY <2>3 DEF IngestVerdict
  <2> HIDE DEF p, new
  <2>5. \A th \in Nat : /\ Person(WithVerdict(p, conf[t], th, 60, pass), pass, 60)
                        /\ WithVerdict(p, conf[t], th, 60, pass).window = p.window
    BY <2>1, <2>2, VerdictIs
  <2> QED BY <2>1, <2>4, <2>5
<1>4. \A t : Person(new(t), pass, 60)
  BY <1>2, <1>3
<1>5. seen \subseteq fresh
  BY IngestAssumption
<1> HIDE DEF new, fresh, after
<1> QED BY <1>1, <1>3, <1>4, <1>5 DEF after

LEMMA IngestFrame ==
    ASSUME IngestInv, NEW seen, NEW conf \in [seen -> Confidences], FrameWithTracks(seen, conf)
    PROVE  IngestInv'
<1> DEFINE after   == Followed(seen, conf, raw').people
           violent == {t \in seen : after[t].violent}
           worst   == CHOOSE t \in violent : \A u \in violent : after[u].conf <= after[t].conf
           row     == [severity |-> RiskTier(Risk(after[worst].conf)), notes |-> "",
                       pass |-> pass, basis |-> Basis(after[worst])]
<1>1. /\ people' = after /\ pass' = pass /\ live' = live
      /\ \/ incidents' = incidents
         \/ timed' /\ violent # {} /\ incidents' = Append(incidents, row)
  BY Zenon DEF FrameWithTracks
<1>2. timed' \in BOOLEAN /\ live \in BOOLEAN /\ (timed' => live)
  <2>1. BindTime /\ live' = live
    BY Zenon DEF FrameWithTracks
  <2> QED BY <2>1 DEF BindTime, IngestInv
<1>3. /\ \A t \in DOMAIN after : Person(after[t], pass, 60)
      /\ \A t \in seen : t \in DOMAIN after /\ after[t].window # <<>>
  BY FollowedIs
<1> HIDE DEF after
<1>4. ASSUME violent # {}
      PROVE  row.severity = "HIGH" /\ row.basis = {row.pass}
  <2> DEFINE c == [t \in violent |-> after[t].conf]
  <2>1. \A t \in violent : /\ Person(after[t], pass, 60) /\ after[t].window # <<>>
                           /\ after[t].conf \in Confs /\ after[t].conf >= 60
    BY <1>3 DEF Person
  <2>2. c \in [violent -> Confs]
    BY <2>1
  <2>3. \E t \in violent : \A u \in violent : c[u] <= c[t]
    <3> HIDE DEF c, violent
    <3> QED BY <1>4, <2>2, WorstIs
  <2>4. \E t \in violent : \A u \in violent : after[u].conf <= after[t].conf
    BY <2>3
  <2> HIDE DEF violent
  <2>5. worst \in violent
    BY ONLY <2>4, Zenon DEF worst
  <2> HIDE DEF worst
  <2>6. RiskTier(Risk(after[worst].conf)) = "HIGH" /\ Basis(after[worst]) = {pass}
    BY <2>1, <2>5, HighRisk, BasisIs
  <2> QED BY <2>6
<1> HIDE DEF row, violent
<1>5. CASE incidents' = incidents
  BY <1>1, <1>2, <1>3, <1>5 DEF IngestInv
<1>6. CASE timed' /\ violent # {} /\ incidents' = Append(incidents, row)
  <2>1. PICK S : incidents \in Seq(S)
    BY DEF IngestInv
  <2> DEFINE T == S \cup {row}
  <2>2. incidents \in Seq(T) /\ row \in T
    <3>1. \A n \in 1..Len(incidents) : incidents[n] \in T
      BY <2>1
    <3> QED BY <2>1, <3>1, IsASeq
  <2> HIDE DEF T
  <2>3. /\ incidents' \in Seq(T)
        /\ \A n \in DOMAIN incidents' : \/ n \in DOMAIN incidents /\ incidents'[n] = incidents[n]
                                        \/ incidents'[n] = row
    BY <1>6, <2>2
  <2>4. live
    BY <1>2, <1>6
  <2>5. \A n \in DOMAIN incidents' : /\ incidents'[n].basis = {incidents'[n].pass}
                                     /\ incidents'[n].severity = "HIGH"
    BY <1>4, <1>6, <2>3 DEF IngestInv
  <2> QED BY <1>1, <1>2, <1>3, <2>3, <2>4, <2>5 DEF IngestInv
<1> QED BY <1>1, <1>5, <1>6

LEMMA IngestSummarized ==
    ASSUME IngestInv, NEW n \in DOMAIN incidents, Summarized(n)
    PROVE  IngestInv'
<1> DEFINE row == [incidents[n] EXCEPT !.notes = "summary"]
<1>1. incidents' = [incidents EXCEPT ![n] = row] /\ UNCHANGED <<people, pass, timed, live>>
  BY Zenon DEF Summarized
<1>2. /\ row.basis = incidents[n].basis /\ row.pass = incidents[n].pass
      /\ row.severity = incidents[n].severity
  OBVIOUS
<1>3. PICK S : incidents \in Seq(S)
  BY DEF IngestInv
<1> DEFINE T == S \cup {row}
<1> HIDE DEF row
<1>4. incidents' \in Seq(T)
  <2>1. incidents \in Seq(T) /\ row \in T /\ n \in 1..Len(incidents)
    <3>1. \A k \in 1..Len(incidents) : incidents[k] \in T
      BY <1>3
    <3> QED BY <1>3, <3>1, IsASeq
  <2> HIDE DEF T
  <2> QED BY <1>1, <2>1, ExceptSeq
<1>5. \A k \in DOMAIN incidents' : /\ k \in DOMAIN incidents
                                   /\ incidents'[k] = IF k = n THEN row ELSE incidents[k]
  BY <1>1
<1> QED BY <1>1, <1>2, <1>4, <1>5 DEF IngestInv

LEMMA IngestStep == IngestInv /\ [IngestNext]_ingest => IngestInv'
<1> SUFFICES ASSUME IngestInv, [IngestNext]_ingest
             PROVE  IngestInv'
  OBVIOUS
<1>1. CASE NoTracks
  BY <1>1 DEF NoTracks, BindTime, IngestInv
<1>2. CASE VideoLoops
  <2>1. people' = <<>> /\ UNCHANGED <<incidents, timed, live>>
    BY <1>2 DEF VideoLoops
  <2>2. DOMAIN people' = {}
    BY <2>1
  <2> QED BY <2>1, <2>2 DEF IngestInv
<1>3. CASE CooldownOver \/ IngestEnds \/ UNCHANGED ingest
  BY <1>3 DEF CooldownOver, IngestEnds, ingest, IngestInv
<1>4. ASSUME NEW seen \in SUBSET Persons, NEW conf \in [seen -> Confidences],
             FrameWithTracks(seen, conf)
      PROVE  IngestInv'
  BY <1>4, IngestFrame
<1>5. ASSUME NEW n \in DOMAIN incidents, Summarized(n)
      PROVE  IngestInv'
  BY <1>5, IngestSummarized
<1> QED BY <1>1, <1>2, <1>3, <1>4, <1>5 DEF IngestNext

-----------------------------------------------------------------------------
(* The demonstration that shows alerts.                                    *)

LiveInv ==
    /\ Person(person, replays, 75)
    /\ AlertsWellFounded
    /\ \E S : eventLog \in Seq(S)

LEMMA LiveInvInit == LiveInit => LiveInv
<1>1. <<>> \in Seq({}) /\ DOMAIN <<>> = {}
  OBVIOUS
<1> QED BY <1>1, NobodyIs DEF LiveInit, LiveInv, AlertsWellFounded

LEMMA SteadiedIs ==
    ASSUME NEW p, Person(p, replays, 75)
    PROVE  Person(Steadied(p), replays, 75) /\ ~Steadied(p).violent
<1> DEFINE votes == Appended(p.votes, [violent |-> FALSE, pass |-> replays], VoteWindow)
<1>1. votes \in Seq(Votes(replays))
  <2>1. \A up \in BOOLEAN :
            Appended(p.votes, [violent |-> up, pass |-> replays], VoteWindow) \in Seq(Votes(replays))
    BY VotedIs
  <2> QED BY <2>1, Zenon
<1>2. Steadied(p) = [p EXCEPT !.votes = votes, !.violent = FALSE]
  BY DEF Steadied
<1> HIDE DEF votes
<1> QED BY <1>1, <1>2 DEF Person

LEMMA LiveOfFrame ==
    ASSUME LiveInv, NEW conf \in Confidences, NEW shaking \in BOOLEAN, LiveFrame(conf, shaking)
    PROVE  LiveInv'
<1> DEFINE p   == WithPose(person, replays)
           row == [pass |-> replays, basis |-> Basis(person'), shaking |-> shaking]
<1>1. /\ person' = LiveVerdict(p, conf, shaking, buffered') /\ replays' = replays
      /\ \/ person'.violent /\ eventLog' = Append(eventLog, row)
         \/ eventLog' = eventLog
  BY Zenon DEF LiveFrame
<1>2. Person(p, replays, 75) /\ p.window # <<>>
  BY PosedIs DEF LiveInv
<1>3. /\ shaking => person' = Steadied(p)
      /\ ~shaking => \/ person' = WithVerdict(p, conf, 74, 75, replays)
                     \/ person' = WithVerdict(p, conf, 50, 75, replays)
                     \/ person' = p
  BY <1>1, Zenon DEF LiveVerdict
<1> HIDE DEF p
<1>4. /\ Person(person', replays, 75)
      /\ shaking => ~person'.violent
      /\ ~shaking => person'.window # <<>>
  <2>1. \A th \in Nat : /\ Person(WithVerdict(p, conf, th, 75, replays), replays, 75)
                        /\ WithVerdict(p, conf, th, 75, replays).window = p.window
    BY <1>2, VerdictIs
  <2>2. CASE shaking
    BY <1>2, <1>3, <2>2, SteadiedIs
  <2>3. CASE ~shaking
    BY <1>2, <1>3, <2>1, <2>3
  <2> QED BY <2>2, <2>3
<1>5. CASE eventLog' = eventLog
  BY <1>1, <1>4, <1>5 DEF LiveInv, AlertsWellFounded
<1>6. CASE person'.violent /\ eventLog' = Append(eventLog, row)
  <2>1. ~shaking
    BY <1>4, <1>6, Zenon
  <2>2. Basis(person') = {replays}
    BY <1>4, <2>1, BasisIs
  <2>3. row.basis = {row.pass} /\ row.shaking = shaking
    BY <2>2
  <2>4. ~row.shaking
    BY ONLY <2>1, <2>3, Zenon
  <2> HIDE DEF row
  <2>5. PICK S : eventLog \in Seq(S)
    BY DEF LiveInv
  <2> DEFINE T == S \cup {row}
  <2>6. eventLog \in Seq(T) /\ row \in T
    <3>1. \A n \in 1..Len(eventLog) : eventLog[n] \in T
      BY <2>5
    <3> QED BY <2>5, <3>1, IsASeq
  <2> HIDE DEF T
  <2>7. /\ eventLog' \in Seq(T)
        /\ \A n \in DOMAIN eventLog' : \/ n \in DOMAIN eventLog /\ eventLog'[n] = eventLog[n]
                                       \/ eventLog'[n] = row
    BY <1>6, <2>6
  <2>8. AlertsWellFounded'
    BY <2>3, <2>4, <2>7 DEF LiveInv, AlertsWellFounded
  <2> QED BY <1>1, <1>4, <2>7, <2>8 DEF LiveInv
<1> QED BY <1>1, <1>5, <1>6

LEMMA LiveStep == LiveInv /\ [LiveNext]_live_demo => LiveInv'
<1> SUFFICES ASSUME LiveInv, [LiveNext]_live_demo
             PROVE  LiveInv'
  OBVIOUS
<1>1. CASE LiveIdle \/ FlashOver \/ TogglePause \/ LiveEnds \/ UNCHANGED live_demo
  <2>1. UNCHANGED <<person, replays, eventLog>>
    BY <1>1 DEF LiveIdle, FlashOver, TogglePause, LiveEnds, live_demo
  <2> QED BY <2>1 DEF LiveInv, AlertsWellFounded
<1>2. CASE Replayed
  BY <1>2, NobodyIs DEF Replayed, LiveInv, AlertsWellFounded
<1>3. ASSUME NEW conf \in Confidences, NEW shaking \in BOOLEAN, LiveFrame(conf, shaking)
      PROVE  LiveInv'
  BY <1>3, LiveOfFrame
<1> QED BY <1>1, <1>2, <1>3 DEF LiveNext

\* An alarm of a demonstration rests on the poses and votes of one pass of the
\* video, for any persons, windows and needed votes: demo_ingest forgets the
\* tracks and demo_live the person when the file starts again.  An incident is
\* HIGH and written with a live frame path only; no alert is of a shaking frame.
THEOREM AlarmsWellFoundedAlways == DemonstrationsSpec => []AlarmsWellFounded
<1> DEFINE Inv == IngestInv /\ LiveInv
<1>1. IngestInit /\ LiveInit => Inv
  BY IngestInvInit, LiveInvInit
<1>2. Inv /\ [DemonstrationsNext]_<<ingest, live_demo>> => Inv'
  BY IngestStep, LiveStep DEF DemonstrationsNext
<1>3. Inv => AlarmsWellFounded
  BY DEF IngestInv, LiveInv, IncidentsWellFounded, AlarmsWellFounded
<1> QED BY <1>1, <1>2, <1>3, PTL DEF DemonstrationsSpec
=============================================================================
