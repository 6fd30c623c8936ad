--------------------------- MODULE Analysis_proofs ---------------------------
(***************************************************************************)
(* The event analysis: the credit of an event, and the stores beside the   *)
(* analyzer, for any keys, windows, tracks, readers and bounds.            *)
(***************************************************************************)
EXTENDS EventAnalysis, AnalysisStores, FunctionTheorems, FiniteSetTheorems,
        SequenceTheorems, TLAPS

-----------------------------------------------------------------------------
(* How many of a sequence's elements are what.                             *)

Places(h, b) == {n \in DOMAIN h : h[n] = b}

LEMMA PlacesFinite ==
    ASSUME NEW S, NEW h \in Seq(S), NEW b
    PROVE  IsFiniteSet(Places(h, b)) /\ Cardinality(Places(h, b)) \in Nat
<1>1. IsFiniteSet(1..Len(h)) /\ DOMAIN h = 1..Len(h)
  BY FS_Interval
<1>2. Places(h, b) \subseteq 1..Len(h)
  BY <1>1 DEF Places
<1> QED BY <1>1, <1>2, FS_Subset, FS_CardinalityType

LEMMA PlacesOfAppend ==
    ASSUME NEW S, NEW h \in Seq(S), NEW up \in S, NEW b
    PROVE  Cardinality(Places(Append(h, up), b))
               = Cardinality(Places(h, b)) + (IF up = b THEN 1 ELSE 0)
<1> DEFINE new == Len(h) + 1
<1>1. /\ DOMAIN Append(h, up) = DOMAIN h \cup {new} /\ new \notin DOMAIN h
      /\ Append(h, up)[new] = up
      /\ \A n \in DOMAIN h : Append(h, up)[n] = h[n]
  OBVIOUS
<1>2. Places(Append(h, up), b) = IF up = b THEN Places(h, b) \cup {new} ELSE Places(h, b)
  BY <1>1 DEF Places
<1>3. new \notin Places(h, b)
  BY <1>1 DEF Places
<1>4. IsFiniteSet(Places(h, b)) /\ Cardinality(Places(h, b)) \in Nat
  BY PlacesFinite
<1>5. Cardinality(Places(h, b) \cup {new}) = Cardinality(Places(h, b)) + 1
  BY <1>3, <1>4, FS_AddElement
<1> QED BY <1>2, <1>4, <1>5

LEMMA PlacesOfTail ==
    ASSUME NEW S, NEW h \in Seq(S), h # <<>>, NEW b
    PROVE  Cardinality(Places(Tail(h), b))
               = Cardinality(Places(h, b)) - (IF Head(h) = b THEN 1 ELSE 0)
<1> DEFINE old == Places(h, b)
           left == Places(Tail(h), b)
           shift == [n \in left |-> n + 1]
<1>1. /\ Tail(h) \in Seq(S) /\ DOMAIN Tail(h) = 1..(Len(h) - 1) /\ DOMAIN h = 1..Len(h)
      /\ Len(h) \in Nat \ {0} /\ Head(h) = h[1]
      /\ \A n \in 1..(Len(h) - 1) : Tail(h)[n] = h[n + 1]
  OBVIOUS
<1>2. IsFiniteSet(old) /\ Cardinality(old) \in Nat /\ IsFiniteSet(left)
  BY <1>1, PlacesFinite
<1>3. shift \in [left -> old \ {1}]
  BY <1>1 DEF Places
<1>4. \A m, n \in left : shift[m] = shift[n] => m = n
  BY <1>1 DEF Places
<1>5. ASSUME NEW n \in old \ {1} PROVE \E m \in left : shift[m] = n
  <2>1. n - 1 \in left
    BY <1>1 DEF Places
  <2>2. shift[n - 1] = n
    BY <1>1, <2>1 DEF Places
  <2> QED BY <2>1, <2>2
<1> HIDE DEF old, left, shift
<1>6. ExistsBijection(left, old \ {1})
  <2>1. shift \in Bijection(left, old \ {1})
    BY <1>3, <1>4, <1>5, Fun_IsBij
  <2> QED BY <2>1 DEF ExistsBijection
<1>7. Cardinality(left) = Cardinality(old \ {1})
  BY <1>2, <1>6, FS_Bijection
<1>8. Cardinality(old \ {1}) = IF 1 \in old THEN Cardinality(old) - 1 ELSE Cardinality(old)
  BY <1>2, FS_RemoveElement
<1>9. 1 \in old <=> Head(h) = b
  BY <1>1 DEF old, Places
<1> QED BY <1>2, <1>7, <1>8, <1>9 DEF left, old

-----------------------------------------------------------------------------
(* The credit of a key.                                                    *)

LEMMA NetIs ==
    ASSUME NEW h \in Seq(BOOLEAN)
    PROVE  Net(h) = Cardinality(Places(h, TRUE)) - Cardinality(Places(h, FALSE))
<1>1. \A n \in DOMAIN h : h[n] \in BOOLEAN
  OBVIOUS
<1>2. {n \in DOMAIN h : h[n]} = Places(h, TRUE) /\ {n \in DOMAIN h : ~h[n]} = Places(h, FALSE)
  BY <1>1, Zenon DEF Places
<1> QED BY <1>2 DEF Net

LEMMA NetOfEmpty == Net(<<>>) = 0
<1>1. {n \in DOMAIN <<>> : <<>>[n]} = {} /\ {n \in DOMAIN <<>> : ~<<>>[n]} = {}
  OBVIOUS
<1>2. Cardinality({}) = 0
  BY FS_EmptySet
<1> QED BY <1>1, <1>2 DEF Net

LEMMA PlacesOfFrame ==
    ASSUME NEW h \in Seq(BOOLEAN), NEW up \in BOOLEAN, NEW b \in BOOLEAN
    PROVE  /\ Cardinality(Places(h, b)) \in Nat
           /\ Cardinality(Places(Append(h, up), b))
                = Cardinality(Places(h, b)) + (IF up = b THEN 1 ELSE 0)
BY PlacesFinite, PlacesOfAppend

LEMMA NetOfAppend ==
    ASSUME NEW h \in Seq(BOOLEAN)
    PROVE  /\ Net(h) \in Int
           /\ Net(Append(h, TRUE)) = Net(h) + 1
           /\ Net(Append(h, FALSE)) = Net(h) - 1
<1>1. Append(h, TRUE) \in Seq(BOOLEAN) /\ Append(h, FALSE) \in Seq(BOOLEAN)
  OBVIOUS
<1>2. /\ Cardinality(Places(h, TRUE)) \in Nat /\ Cardinality(Places(h, FALSE)) \in Nat
      /\ Cardinality(Places(Append(h, TRUE), TRUE)) = Cardinality(Places(h, TRUE)) + 1
      /\ Cardinality(Places(Append(h, TRUE), FALSE)) = Cardinality(Places(h, FALSE)) + 0
      /\ Cardinality(Places(Append(h, FALSE), TRUE)) = Cardinality(Places(h, TRUE)) + 0
      /\ Cardinality(Places(Append(h, FALSE), FALSE)) = Cardinality(Places(h, FALSE)) + 1
  BY PlacesOfFrame
<1>3. /\ Net(h) = Cardinality(Places(h, TRUE)) - Cardinality(Places(h, FALSE))
      /\ Net(Append(h, TRUE)) = Cardinality(Places(Append(h, TRUE), TRUE))
                                 - Cardinality(Places(Append(h, TRUE), FALSE))
      /\ Net(Append(h, FALSE)) = Cardinality(Places(Append(h, FALSE), TRUE))
                                  - Cardinality(Places(Append(h, FALSE), FALSE))
  BY <1>1, NetIs
<1> DEFINE yes == Cardinality(Places(h, TRUE))
           no  == Cardinality(Places(h, FALSE))
           moreYes == Cardinality(Places(Append(h, TRUE), TRUE))
           sameNo  == Cardinality(Places(Append(h, TRUE), FALSE))
           sameYes == Cardinality(Places(Append(h, FALSE), TRUE))
           moreNo  == Cardinality(Places(Append(h, FALSE), FALSE))
           net == Net(h)
           up  == Net(Append(h, TRUE))
           dn  == Net(Append(h, FALSE))
<1> HIDE DEF yes, no, moreYes, sameNo, sameYes, moreNo, net, up, dn
<1>4. /\ yes \in Nat /\ no \in Nat
      /\ moreYes = yes + 1 /\ sameNo = no + 0 /\ sameYes = yes + 0 /\ moreNo = no + 1
  BY ONLY <1>2, Zenon DEF yes, no, moreYes, sameNo, sameYes, moreNo
<1>5. net = yes - no /\ up = moreYes - sameNo /\ dn = sameYes - moreNo
  BY ONLY <1>3, Zenon DEF yes, no, moreYes, sameNo, sameYes, moreNo, net, up, dn
<1>6. net \in Int /\ up = net + 1 /\ dn = net - 1
  BY <1>4, <1>5
<1> QED BY ONLY <1>6, Zenon DEF net, up, dn

LEMMA SuffixesAreRuns ==
    ASSUME NEW S, NEW h \in Seq(S), NEW g \in Suffixes(h)
    PROVE  g \in Seq(S)
<1>1. CASE g = <<>>
  BY <1>1
<1>2. CASE g # <<>>
  <2>1. PICK l \in 1..Len(h) : g = SubSeq(h, l, Len(h))
    BY <1>2 DEF Suffixes
  <2> QED BY <2>1
<1> QED BY <1>1, <1>2

\* The runs that reach to the present after one more frame.
LEMMA SuffixesOfAppend ==
    ASSUME NEW S, NEW h \in Seq(S), NEW up \in S
    PROVE  Suffixes(Append(h, up)) = {Append(g, up) : g \in Suffixes(h)} \cup {<<>>}
<1> DEFINE a == Append(h, up)
<1>1. a \in Seq(S) /\ Len(a) = Len(h) + 1 /\ Len(h) \in Nat
  OBVIOUS
<1>2. ASSUME NEW l \in 1..Len(h)
      PROVE  SubSeq(a, l, Len(a)) = Append(SubSeq(h, l, Len(h)), up)
  <2> DEFINE long == SubSeq(a, l, Len(a))
             short == SubSeq(h, l, Len(h))
  <2>1. /\ \A i \in l..Len(a) : a[i] \in S
        /\ \A i \in l..Len(h) : h[i] \in S
    BY <1>1
  <2>2. /\ long \in Seq(S) /\ Len(long) = Len(a) - l + 1
        /\ \A i \in 1..Len(a)-l+1 : long[i] = a[l+i-1]
    BY <1>1, <2>1, SubSeqProperties
  <2>3. /\ short \in Seq(S) /\ Len(short) = Len(h) - l + 1
        /\ \A i \in 1..Len(h)-l+1 : short[i] = h[l+i-1]
    BY <1>1, <2>1, SubSeqProperties
  <2>4. \A n \in 1..Len(h) : a[n] = h[n]
    OBVIOUS
  <2>5. a[Len(a)] = up
    OBVIOUS
  <2> HIDE DEF a, long, short
  <2>6. /\ Append(short, up) \in Seq(S) /\ Len(Append(short, up)) = Len(short) + 1
        /\ \A i \in 1..Len(short) : Append(short, up)[i] = short[i]
        /\ Append(short, up)[Len(short)+1] = up
    BY <2>3, AppendProperties
  <2>7. ASSUME NEW i \in 1..Len(long) PROVE long[i] = Append(short, up)[i]
    <3>0. /\ Len(h) \in Nat /\ Len(a) = Len(h) + 1
          /\ Len(long) = Len(a) - l + 1 /\ Len(short) = Len(h) - l + 1
          /\ l \in 1..Len(h) /\ i \in 1..Len(long)
      BY <1>1, <2>2, <2>3
    <3>1. CASE i = Len(long)
      <4>1. i = Len(short) + 1 /\ l + i - 1 = Len(a) /\ i \in 1..Len(a)-l+1
        BY ONLY <3>0, <3>1
      <4>2. long[i] = a[Len(a)]
        BY <2>2, <4>1
      <4> QED BY <2>5, <2>6, <4>1, <4>2
    <3>2. CASE i # Len(long)
      <4>1. i \in 1..Len(short) /\ l + i - 1 \in 1..Len(h)
        BY ONLY <3>0, <3>2
      <4>2. long[i] = a[l + i - 1] /\ short[i] = h[l + i - 1]
        BY <1>1, <2>2, <2>3, <4>1
      <4> QED BY <2>4, <2>6, <4>1, <4>2
    <3> QED BY <3>1, <3>2
  <2>8. Len(long) = Len(Append(short, up))
    BY <1>1, <2>2, <2>3, <2>6
  <2>9. long = Append(short, up)
    BY <2>2, <2>6, <2>7, <2>8, SeqEqual
  <2> QED BY <2>9 DEF long, short
<1>3. SubSeq(a, Len(a), Len(a)) = Append(<<>>, up)
  <2>1. a[Len(a)] = up
    OBVIOUS
  <2>2. SubSeq(a, Len(a), Len(a)) = <<a[Len(a)]>>
    <3> HIDE DEF a
    <3>1. /\ SubSeq(a, Len(a), Len(a)) \in Seq(S) /\ Len(SubSeq(a, Len(a), Len(a))) = 1
          /\ SubSeq(a, Len(a), Len(a))[1] = a[Len(a)]
      BY <1>1, SubSeqProperties
    <3>2. <<a[Len(a)]>> \in Seq(S) /\ Len(<<a[Len(a)]>>) = 1 /\ <<a[Len(a)]>>[1] = a[Len(a)]
      BY <1>1
    <3> DEFINE u == SubSeq(a, Len(a), Len(a))
               v == <<a[Len(a)]>>
    <3> HIDE DEF u, v
    <3>3. /\ u \in Seq(S) /\ v \in Seq(S) /\ Len(u) = 1 /\ Len(v) = 1 /\ u[1] = v[1]
      BY <3>1, <3>2 DEF u, v
    <3>4. u = v
      BY <3>3, SeqEqual
    <3> QED BY <3>4 DEF u, v
  <2> QED BY <2>1, <2>2
<1> HIDE DEF a
<1>4. ASSUME NEW g \in Suffixes(a), g # <<>>
      PROVE  \E f \in Suffixes(h) : g = Append(f, up)
  <2>1. PICK l \in 1..Len(a) : g = SubSeq(a, l, Len(a))
    BY <1>4 DEF Suffixes
  <2>2. CASE l = Len(a)
    BY <1>3, <2>1, <2>2 DEF Suffixes
  <2>3. CASE l # Len(a)
    <3>1. l \in 1..Len(h)
      BY <1>1, <2>3
    <3>2. g = Append(SubSeq(h, l, Len(h)), up)
      BY <1>2, <2>1, <3>1
    <3> QED BY <3>1, <3>2 DEF Suffixes
  <2> QED BY <2>2, <2>3
<1>5. ASSUME NEW f \in Suffixes(h)
      PROVE  Append(f, up) \in Suffixes(a)
  <2>1. CASE f = <<>>
    <3>1. Len(a) \in 1..Len(a)
      BY <1>1
    <3>2. Append(f, up) = SubSeq(a, Len(a), Len(a))
      BY ONLY <1>3, <2>1, Zenon
    <3> QED BY <3>1, <3>2 DEF Suffixes
  <2>2. CASE f # <<>>
    <3>1. PICK l \in 1..Len(h) : f = SubSeq(h, l, Len(h))
      BY <2>2 DEF Suffixes
    <3>2. l \in 1..Len(a)
      BY <1>1
    <3>3. Append(f, up) = SubSeq(a, l, Len(a))
      BY <1>2, <3>1, Zenon
    <3> QED BY <3>2, <3>3 DEF Suffixes
  <2> QED BY <2>1, <2>2
<1>6. <<>> \in Suffixes(a)
  BY DEF Suffixes
<1> QED BY <1>4, <1>5, <1>6 DEF a

\* The largest net support of a run that reaches to the present.
Best(f, h) ==
    /\ \A g \in Suffixes(h) : f >= Net(g)
    /\ \E g \in Suffixes(h) : f = Net(g)

LEMMA BestOfFresh == Best(0, <<>>)
<1>1. Suffixes(<<>>) = {<<>>}
  BY DEF Suffixes
<1> QED BY <1>1, NetOfEmpty DEF Best

\* A frame above the threshold adds to every run; one below it takes from every run,
\* and the empty run is always there.
LEMMA BestOfFrame ==
    ASSUME NEW h \in Seq(BOOLEAN), NEW f \in Nat, Best(f, h)
    PROVE  /\ Best(f + 1, Append(h, TRUE))
           /\ Best(IF f > 0 THEN f - 1 ELSE 0, Append(h, FALSE))
<1>0. \A up \in BOOLEAN :
        Suffixes(Append(h, up)) = {Append(e, up) : e \in Suffixes(h)} \cup {<<>>}
  BY SuffixesOfAppend
<1>1. \A g \in Suffixes(h) : /\ Net(g) \in Int
                             /\ Net(Append(g, TRUE)) = Net(g) + 1
                             /\ Net(Append(g, FALSE)) = Net(g) - 1
  BY SuffixesAreRuns, NetOfAppend
<1>2. \A g \in Suffixes(h) : f >= Net(g)
  BY DEF Best
<1>3. PICK g \in Suffixes(h) : f = Net(g)
  BY DEF Best
<1>4. Best(f + 1, Append(h, TRUE))
  <2>1. Suffixes(Append(h, TRUE)) = {Append(e, TRUE) : e \in Suffixes(h)} \cup {<<>>}
    BY ONLY <1>0, Zenon
  <2>2. \A e \in Suffixes(Append(h, TRUE)) : f + 1 >= Net(e)
    <3>1. ASSUME NEW e \in Suffixes(h) PROVE f + 1 >= Net(Append(e, TRUE))
      <4>1. Net(e) \in Int /\ Net(Append(e, TRUE)) = Net(e) + 1 /\ f >= Net(e)
        BY <1>1, <1>2
      <4>2. \A m \in Int : \A n : n = m + 1 /\ f >= m => f + 1 >= n
        OBVIOUS
      <4> QED BY <4>1, <4>2, Zenon
    <3>2. f + 1 >= Net(<<>>)
      BY NetOfEmpty
    <3> QED BY <2>1, <3>1, <3>2
  <2>3. Append(g, TRUE) \in Suffixes(Append(h, TRUE)) /\ f + 1 = Net(Append(g, TRUE))
    BY <1>1, <1>3, <2>1
  <2> QED BY <2>2, <2>3 DEF Best
<1>5. Best(IF f > 0 THEN f - 1 ELSE 0, Append(h, FALSE))
  <2> DEFINE less == IF f > 0 THEN f - 1 ELSE 0
  <2>1. Suffixes(Append(h, FALSE)) = {Append(e, FALSE) : e \in Suffixes(h)} \cup {<<>>}
    BY ONLY <1>0, Zenon
  <2>2. \A e \in Suffixes(Append(h, FALSE)) : less >= Net(e)
    <3>1. ASSUME NEW e \in Suffixes(h) PROVE less >= Net(Append(e, FALSE))
      <4>1. Net(e) \in Int /\ Net(Append(e, FALSE)) = Net(e) - 1 /\ f >= Net(e)
        BY <1>1, <1>2
      <4>2. \A m \in Int : \A n : n = m - 1 /\ f >= m => less >= n
        OBVIOUS
      <4> HIDE DEF less
      <4> QED BY <4>1, <4>2, Zenon
    <3>2. less >= Net(<<>>)
      BY NetOfEmpty
    <3> HIDE DEF less
    <3> QED BY <2>1, <3>1, <3>2
  <2>3. \E e \in Suffixes(Append(h, FALSE)) : less = Net(e)
    <3>1. CASE f > 0
      <4>1. Append(g, FALSE) \in Suffixes(Append(h, FALSE)) /\ less = Net(Append(g, FALSE))
        BY <1>1, <1>3, <2>1, <3>1
      <4> QED BY <4>1
    <3>2. CASE ~(f > 0)
      <4>1. <<>> \in Suffixes(Append(h, FALSE)) /\ less = Net(<<>>)
        BY <2>1, <3>2, NetOfEmpty
      <4> QED BY <4>1
    <3> QED BY <3>1, <3>2
  <2> HIDE DEF less
  <2>4. Best(less, Append(h, FALSE))
    BY <2>2, <2>3 DEF Best
  <2> QED BY <2>4 DEF less
<1> QED BY <1>4, <1>5

Smoothing == [above : BOOLEAN, frames : Nat]

CreditInv ==
    /\ smooth \in [Keys -> Smoothing]
    /\ history \in [Keys -> Seq(BOOLEAN)]
    /\ \A k \in Keys : Best(smooth[k].frames, history[k])
    /\ \A k \in Keys \cap cooling : smooth[k] = Fresh

LEMMA FreshSmoothing == Fresh \in Smoothing /\ Fresh.frames = 0 /\ <<>> \in Seq(BOOLEAN)
BY DEF Fresh, Smoothing

LEMMA CreditInit == Init => CreditInv
<1> SUFFICES ASSUME Init PROVE CreditInv
  OBVIOUS
<1>1. smooth = [k \in Keys |-> Fresh] /\ history = [k \in Keys |-> <<>>] /\ cooling = {}
  BY DEF Init
<1>2. \A k \in Keys : Best(smooth[k].frames, history[k])
  BY <1>1, FreshSmoothing, BestOfFresh
<1> QED BY <1>1, <1>2, FreshSmoothing DEF CreditInv

LEMMA UpdatedSmoothing ==
    ASSUME NEW s \in Smoothing, NEW up \in BOOLEAN
    PROVE  /\ Updated(s, up) \in Smoothing
           /\ Updated(s, TRUE).frames = s.frames + 1
           /\ Updated(s, FALSE).frames = IF s.frames > 0 THEN s.frames - 1 ELSE 0
<1>1. s.frames \in Nat
  BY DEF Smoothing
<1>2. (IF up THEN s.frames + 1 ELSE IF s.frames > 0 THEN s.frames - 1 ELSE 0) \in Nat
  BY <1>1
<1> QED BY <1>1, <1>2 DEF Updated, Smoothing

LEMMA CreditCandidate ==
    ASSUME CreditInv, NEW k \in Keys, NEW strong, NEW sit, HandleCandidate(k, strong, sit)
    PROVE  CreditInv'
<1>1. PICK up \in Smoothed(smooth[k], strong) :
        /\ smooth' = [smooth EXCEPT ![k] = Updated(@, up)]
        /\ history' = [history EXCEPT ![k] = Append(@, up)]
  BY DEF HandleCandidate
<1>2. cooling' = cooling /\ k \notin cooling
  BY DEF HandleCandidate
<1>3. \A j \in Keys \ {k} : smooth'[j] = smooth[j] /\ history'[j] = history[j]
  BY <1>1 DEF CreditInv
<1>4. smooth'[k] = Updated(smooth[k], up) /\ history'[k] = Append(history[k], up)
  BY <1>1 DEF CreditInv
<1>5. /\ smooth[k] \in Smoothing /\ history[k] \in Seq(BOOLEAN)
      /\ Best(smooth[k].frames, history[k])
  BY DEF CreditInv
<1>6. up \in BOOLEAN
  <2>1. smooth[k].above \in BOOLEAN
    BY <1>5 DEF Smoothing
  <2>2. CASE smooth[k].above = strong
    BY <2>1, <2>2 DEF Smoothed
  <2>3. CASE smooth[k].above # strong
    BY <2>3 DEF Smoothed
  <2> QED BY <2>2, <2>3
<1>7. smooth'[k] \in Smoothing /\ history'[k] \in Seq(BOOLEAN)
      /\ Best(smooth'[k].frames, history'[k])
  <2>1. smooth[k].frames \in Nat
    BY <1>5 DEF Smoothing
  <2>2. CASE up = TRUE
    <3>1. smooth'[k] \in Smoothing /\ smooth'[k].frames = smooth[k].frames + 1
      BY <1>4, <1>5, <2>2, UpdatedSmoothing
    <3>2. history'[k] = Append(history[k], TRUE)
      BY <1>4, <2>2, Zenon
    <3>3. Append(history[k], TRUE) \in Seq(BOOLEAN)
      BY <1>5
    <3> QED BY <1>5, <2>1, <3>1, <3>2, <3>3, BestOfFrame
  <2>3. CASE up = FALSE
    <3>1. /\ smooth'[k] \in Smoothing
          /\ smooth'[k].frames = IF smooth[k].frames > 0 THEN smooth[k].frames - 1 ELSE 0
      BY <1>4, <1>5, <2>3, UpdatedSmoothing
    <3>2. history'[k] = Append(history[k], FALSE)
      BY <1>4, <2>3, Zenon
    <3>3. Append(history[k], FALSE) \in Seq(BOOLEAN)
      BY <1>5
    <3> QED BY <1>5, <2>1, <3>1, <3>2, <3>3, BestOfFrame
  <2> QED BY <1>6, <2>2, <2>3
<1>8. smooth' \in [Keys -> Smoothing] /\ history' \in [Keys -> Seq(BOOLEAN)]
  <2>1. /\ smooth' = [j \in Keys |-> smooth'[j]]
        /\ history' = [j \in Keys |-> history'[j]]
    BY <1>1 DEF CreditInv
  <2>2. \A j \in Keys : smooth'[j] \in Smoothing /\ history'[j] \in Seq(BOOLEAN)
    BY <1>3, <1>7 DEF CreditInv
  <2> QED BY <2>1, <2>2
<1> QED BY <1>2, <1>3, <1>7, <1>8 DEF CreditInv

LEMMA CreditCooldown ==
    ASSUME CreditInv, NEW k, SetCooldown(k)
    PROVE  CreditInv'
<1>1. /\ cooling' = cooling \cup {k}
      /\ smooth' = [smooth EXCEPT ![k] = Fresh]
      /\ history' = [history EXCEPT ![k] = <<>>]
  BY DEF SetCooldown
<1>2. smooth' \in [Keys -> Smoothing] /\ history' \in [Keys -> Seq(BOOLEAN)]
  BY <1>1, FreshSmoothing DEF CreditInv
<1>3. ASSUME NEW j \in Keys
      PROVE  /\ Best(smooth'[j].frames, history'[j])
             /\ j \in cooling' => smooth'[j] = Fresh
  <2>1. CASE j = k
    <3>1. smooth'[j] = Fresh /\ history'[j] = <<>>
      BY <1>1, <2>1 DEF CreditInv
    <3> QED BY <3>1, FreshSmoothing, BestOfFresh
  <2>2. CASE j # k
    <3>1. smooth'[j] = smooth[j] /\ history'[j] = history[j]
      BY <1>1, <2>2 DEF CreditInv
    <3> QED BY <1>1, <2>2, <3>1 DEF CreditInv
  <2> QED BY <2>1, <2>2
<1> QED BY <1>2, <1>3 DEF CreditInv
LEMMA CreditStep == CreditInv /\ [Next]_vars => CreditInv'
<1> SUFFICES ASSUME CreditInv, [Next]_vars PROVE CreditInv'
  OBVIOUS
<1>1. ASSUME UNCHANGED <<smooth, history>>, cooling' \subseteq cooling
      PROVE  CreditInv'
  BY <1>1 DEF CreditInv
<1>2. ASSUME NEW k \in Keys, NEW strong \in BOOLEAN, NEW sit \in Situations[k],
             HandleCandidate(k, strong, sit)
      PROVE  CreditInv'
  BY <1>2, CreditCandidate
<1>3. CASE \E k \in Keys : CooldownExpires(k)
  BY <1>1, <1>3 DEF CooldownExpires
<1>4. CASE RiskStep
  BY <1>1, <1>4 DEF RiskStep, RiskTakes, RiskReadsZone, RiskScores
<1>5. CASE DispatchAlarms
  <2>1. SetCooldown(handling["dispatcher"][1].key)
    BY <1>5 DEF DispatchAlarms
  <2> QED BY <2>1, CreditCooldown
<1>6. CASE DispatchSuppresses \/ DispatchRegisters \/ DispatchPersists \/ DispatchEnds
  BY <1>1, <1>6 DEF DispatchSuppresses, DispatchRegisters, DispatchPersists, DispatchEnds
<1>7. CASE \E c \in Consumers : WorkerStarts(c)
  BY <1>1, <1>7 DEF WorkerStarts
<1>8. CASE UNCHANGED vars
  BY <1>1, <1>8 DEF vars
<1> QED BY <1>2, <1>3, <1>4, <1>5, <1>6, <1>7, <1>8 DEF Next, DispatchStep

\* The frames a key is credited with are the largest surplus of frames above the
\* threshold over frames below it, of all runs of frames that reach to the present,
\* and a key in its cooldown has none: however candidates, alarms and cooldowns fall
\* together, and for any number of frames.
THEOREM CreditIsNetSupportAlways == Spec => []CreditIsNetSupport
<1>1. CreditInv => CreditIsNetSupport
  BY DEF CreditInv, Best, CreditIsNetSupport
<1> QED BY CreditInit, CreditStep, <1>1, PTL DEF Spec

-----------------------------------------------------------------------------
(* The merger's windows and the tracks' histories.                         *)

LEMMA MaxIs ==
    ASSUME NEW S, NEW p \in S, S \subseteq Int, \A q \in S : p >= q
    PROVE  Max(S) = p
<1>1. \E x \in S : \A q \in S : x >= q
  OBVIOUS
<1>2. Max(S) \in S /\ \A q \in S : Max(S) >= q
  BY ONLY <1>1, Zenon DEF Max
<1>3. \A x \in S : x >= p => x = p
  OBVIOUS
<1> QED BY <1>2, <1>3, Zenon

\* A window and the scores that went into it.
Peak(w, m) ==
    /\ m \in Seq(Nat) /\ m # <<>>
    /\ w.count = Len(m)
    /\ \E n \in DOMAIN m : m[n] = w.peak
    /\ \A n \in DOMAIN m : w.peak >= m[n]

LEMMA PeakIsMax ==
    ASSUME NEW w, NEW m, Peak(w, m)
    PROVE  w.count = Len(m) /\ w.peak = Max(Range(m))
<1>1. Range(m) \subseteq Int /\ w.peak \in Range(m) /\ \A q \in Range(m) : w.peak >= q
  BY DEF Peak, Range
<1> QED BY <1>1, MaxIs DEF Peak

LEMMA ScoresAreNat == Scores \subseteq Nat
BY DEF Scores

LEMMA PeakOfNew ==
    ASSUME NEW score \in Nat
    PROVE  Peak([seen |-> now, peak |-> score, count |-> 1], <<score>>)
<1>1. <<score>> \in Seq(Nat) /\ DOMAIN <<score>> = {1} /\ <<score>>[1] = score /\ Len(<<score>>) = 1
  OBVIOUS
<1> QED BY <1>1 DEF Peak

LEMMA PeakOfUpdate ==
    ASSUME NEW w, NEW m, Peak(w, m), NEW score \in Nat
    PROVE  Peak(UpdatedWindow(w, score), Append(m, score))
<1>1. PICK n \in DOMAIN m : m[n] = w.peak
  BY DEF Peak
<1>2. m \in Seq(Nat) /\ w.peak \in Nat /\ w.count = Len(m)
  BY <1>1 DEF Peak
<1>3. Max({w.peak, score}) = IF w.peak >= score THEN w.peak ELSE score
  <2> DEFINE both == {w.peak, score}
  <2>0. both \subseteq Int /\ w.peak \in both /\ score \in both
        /\ \A q \in both : q = w.peak \/ q = score
    BY <1>2
  <2> HIDE DEF both
  <2>1. CASE w.peak >= score
    <3>0. \A q \in both : w.peak >= q
      BY <1>2, <2>0, <2>1
    <3>1. Max(both) = w.peak
      BY ONLY <2>0, <3>0, MaxIs
    <3> QED BY <2>1, <3>1 DEF both
  <2>2. CASE ~(w.peak >= score)
    <3>0. \A q \in both : score >= q
      BY <1>2, <2>0, <2>2
    <3>1. Max(both) = score
      BY ONLY <2>0, <3>0, MaxIs
    <3> QED BY <2>2, <3>1 DEF both
  <2> QED BY <2>1, <2>2
<1> DEFINE u == UpdatedWindow(w, score)
           a == Append(m, score)
<1>4. u.count = Len(m) + 1 /\ u.peak = IF w.peak >= score THEN w.peak ELSE score
  BY <1>2, <1>3 DEF UpdatedWindow
<1>5. /\ a \in Seq(Nat) /\ a # <<>> /\ Len(a) = Len(m) + 1
      /\ DOMAIN a = DOMAIN m \cup {Len(m) + 1} /\ a[Len(m) + 1] = score
      /\ \A k \in DOMAIN m : a[k] = m[k] /\ m[k] \in Nat
  BY <1>2
<1> HIDE DEF u, a
<1>6. \E k \in DOMAIN a : a[k] = u.peak
  BY <1>1, <1>4, <1>5
<1>7. \A k \in DOMAIN a : u.peak >= a[k]
  BY <1>2, <1>4, <1>5 DEF Peak
<1>8. Peak(u, a)
  BY <1>4, <1>5, <1>6, <1>7 DEF Peak
<1> QED BY <1>8 DEF u, a

WindowsInv ==
    /\ window = [k \in Windows |-> window[k]]
    /\ merged = [k \in Windows |-> merged[k]]
    /\ \A k \in Windows : window[k] # None => Peak(window[k], merged[k])

LEMMA WindowsKept ==
    ASSUME WindowsInv, UNCHANGED merger
    PROVE  WindowsInv'
BY DEF WindowsInv, merger

LEMMA WindowsMerged ==
    ASSUME WindowsInv, MergerNext
    PROVE  WindowsInv'
<1>1. ASSUME NEW k \in Windows, CloseWindow(k)
      PROVE  WindowsInv'
  BY <1>1 DEF CloseWindow, WindowsInv
<1>2. ASSUME NEW k \in Windows, NEW score \in Scores, Process(k, score)
      PROVE  WindowsInv'
  <2> DEFINE kept(w) == IF Open(w) THEN window[w] ELSE None
             new == [seen |-> now, peak |-> score, count |-> 1]
  <2>1. /\ window' = [w \in Windows |-> IF w # k THEN kept(w)
                                        ELSE IF Open(k) THEN UpdatedWindow(window[k], score)
                                        ELSE new]
        /\ merged' = [merged EXCEPT ![k] = IF Open(k) THEN Append(@, score) ELSE <<score>>]
    BY <1>2 DEF Process
  <2>2. score \in Nat
    BY ScoresAreNat
  <2>3. Peak(window'[k], merged'[k])
    <3>1. CASE Open(k)
      <4>1. window'[k] = UpdatedWindow(window[k], score) /\ merged'[k] = Append(merged[k], score)
        BY <2>1, <3>1 DEF WindowsInv
      <4>2. Peak(window[k], merged[k])
        BY <3>1 DEF Open, WindowsInv
      <4> QED BY <2>2, <4>1, <4>2, PeakOfUpdate
    <3>2. CASE ~Open(k)
      <4>1. window'[k] = new /\ merged'[k] = <<score>>
        BY <2>1, <3>2 DEF WindowsInv
      <4> QED BY <2>2, <4>1, PeakOfNew
    <3> QED BY <3>1, <3>2
  <2>4. ASSUME NEW w \in Windows \ {k}, window'[w] # None
        PROVE  Peak(window'[w], merged'[w])
    <3>1. window'[w] = window[w] /\ merged'[w] = merged[w]
      BY <2>1, <2>4 DEF WindowsInv
    <3> QED BY <2>4, <3>1 DEF WindowsInv
  <2>5. /\ window' = [w \in Windows |-> window'[w]]
        /\ merged' = [w \in Windows |-> merged'[w]]
    BY <2>1 DEF WindowsInv
  <2> QED BY <2>3, <2>4, <2>5 DEF WindowsInv
<1> QED BY <1>1, <1>2 DEF MergerNext

\* A deque of a track, after one more frame.
Rolled(c, b) == Append(IF Len(c) = HistoryLength THEN Tail(c) ELSE c, b)

\* Whether it let an x go, and whether x has come.
Gone(c, x) == IF Len(c) = HistoryLength /\ Head(c) = x THEN 1 ELSE 0
Come(b, x) == IF b = x THEN 1 ELSE 0

LEMMA RolledPlaces ==
    ASSUME NEW S, NEW c \in Seq(S), Len(c) <= HistoryLength, NEW b \in S, NEW x
    PROVE  /\ Rolled(c, b) \in Seq(S) /\ Rolled(c, b) # <<>>
           /\ Len(Rolled(c, b)) <= HistoryLength
           /\ Cardinality(Places(Rolled(c, b), x))
                = Cardinality(Places(c, x)) - Gone(c, x) + Come(b, x)
<1> DEFINE rest == IF Len(c) = HistoryLength THEN Tail(c) ELSE c
<1>1. HistoryLength \in Nat \ {0} /\ Len(c) \in Nat
  BY StoresAssumption
<1>2. rest \in Seq(S) /\ Len(rest) < HistoryLength /\ Len(rest) \in Nat
      /\ Cardinality(Places(rest, x)) = Cardinality(Places(c, x))
            - (IF Len(c) = HistoryLength /\ Head(c) = x THEN 1 ELSE 0)
  <2>1. CASE Len(c) = HistoryLength
    <3>1. c # <<>> /\ rest = Tail(c)
      BY <1>1, <2>1
    <3>2. rest \in Seq(S) /\ Len(rest) = Len(c) - 1
      BY <1>1, <3>1
    <3>3. Cardinality(Places(rest, x)) = Cardinality(Places(c, x)) - (IF Head(c) = x THEN 1 ELSE 0)
      BY <3>1, PlacesOfTail
    <3> QED BY <1>1, <2>1, <3>2, <3>3
  <2>2. CASE Len(c) # HistoryLength
    BY <1>1, <2>2, PlacesFinite
  <2> QED BY <2>1, <2>2
<1>3. Cardinality(Places(Append(rest, b), x))
         = Cardinality(Places(rest, x)) + (IF b = x THEN 1 ELSE 0)
  <2> HIDE DEF rest
  <2> QED BY <1>2, PlacesOfAppend
<1>4. /\ Append(rest, b) \in Seq(S) /\ Append(rest, b) # <<>>
      /\ Len(Append(rest, b)) = Len(rest) + 1
  BY <1>2
<1>5. Rolled(c, b) = Append(rest, b)
  BY DEF Rolled
<1> HIDE DEF rest
<1> QED BY <1>1, <1>2, <1>3, <1>4, <1>5 DEF Gone, Come

\* The two classes share a deque out.
LEMMA PlacesSplit ==
    ASSUME NEW S, NEW c \in Seq(S), NEW x, NEW y, x # y,
           \A s \in S : s = x \/ s = y
    PROVE  /\ Cardinality(Places(c, x)) \in Nat /\ Cardinality(Places(c, y)) \in Nat
           /\ Cardinality(Places(c, x)) + Cardinality(Places(c, y)) = Len(c)
<1> DEFINE X == Places(c, x)
           Y == Places(c, y)
<1>1. IsFiniteSet(X) /\ IsFiniteSet(Y) /\ Cardinality(X) \in Nat /\ Cardinality(Y) \in Nat
  BY PlacesFinite
<1>2. X \cup Y = 1..Len(c) /\ X \cap Y = {} /\ Len(c) \in Nat
  BY DEF Places
<1>3. Cardinality(1..Len(c)) = Len(c)
  <2>1. ASSUME NEW n \in Nat
        PROVE  Cardinality(1..n) = n
    <3>1. Cardinality(1..n) = IF 1 > n THEN 0 ELSE n - 1 + 1
      BY FS_Interval
    <3> QED BY <3>1
  <2> QED BY <1>2, <2>1
<1> HIDE DEF X, Y
<1>4. Cardinality(X \cup Y) = Cardinality(X) + Cardinality(Y)
  <2>1. Cardinality(X \cup Y) = Cardinality(X) + Cardinality(Y) - Cardinality(X \cap Y)
    BY <1>1, FS_Union
  <2>2. Cardinality(X \cap Y) = 0
    BY <1>2, FS_EmptySet
  <2> QED BY <1>1, <2>1, <2>2
<1> QED BY <1>1, <1>2, <1>3, <1>4 DEF X, Y
-----------------------------------------------------------------------------
(* The histories of tracks.                                                *)

\* A history that counts the classes its deque holds.
Counted(h) ==
    /\ h.classes \in Seq(BOOLEAN) /\ Len(h.classes) <= HistoryLength
    /\ h.normal = Cardinality(Places(h.classes, TRUE))
    /\ h.abnormal = Cardinality(Places(h.classes, FALSE))

LEMMA CountedNew == Counted(NoTrack)
<1>1. Places(<<>>, TRUE) = {} /\ Places(<<>>, FALSE) = {}
  BY DEF Places
<1>2. Cardinality({}) = 0
  BY FS_EmptySet
<1>3. <<>> \in Seq(BOOLEAN) /\ Len(<<>>) <= HistoryLength
  BY StoresAssumption
<1>4. NoTrack.classes = <<>> /\ NoTrack.normal = 0 /\ NoTrack.abnormal = 0
  BY DEF NoTrack
<1> QED BY ONLY <1>1, <1>2, <1>3, <1>4, Zenon DEF Counted

LEMMA CountedRecord ==
    ASSUME NEW h, Counted(h), NEW b \in BOOLEAN
    PROVE  Counted(Recorded(h, b)) /\ Recorded(h, b).classes # <<>>
<1> DEFINE c   == h.classes
           new == Rolled(c, b)
           rec == Recorded(h, b)
           yes(s) == Cardinality(Places(s, TRUE))
           no(s)  == Cardinality(Places(s, FALSE))
<1>1. c \in Seq(BOOLEAN) /\ Len(c) <= HistoryLength /\ h.normal = yes(c) /\ h.abnormal = no(c)
  BY DEF Counted
<1>2. \A x : /\ new \in Seq(BOOLEAN) /\ new # <<>> /\ Len(new) <= HistoryLength
             /\ Cardinality(Places(new, x)) = Cardinality(Places(c, x)) - Gone(c, x) + Come(b, x)
  <2>1. \A S, d, e, x : d \in Seq(S) /\ Len(d) <= HistoryLength /\ e \in S =>
           /\ Rolled(d, e) \in Seq(S) /\ Rolled(d, e) # <<>>
           /\ Len(Rolled(d, e)) <= HistoryLength
           /\ Cardinality(Places(Rolled(d, e), x))
                = Cardinality(Places(d, x)) - Gone(d, x) + Come(e, x)
    BY RolledPlaces
  <2> DEFINE Classes == BOOLEAN
  <2>2. c \in Seq(Classes) /\ Len(c) <= HistoryLength /\ b \in Classes
    BY <1>1
  <2> HIDE DEF c, Classes
  <2>3. \A x : /\ new \in Seq(Classes) /\ new # <<>> /\ Len(new) <= HistoryLength
               /\ Cardinality(Places(new, x)) = Cardinality(Places(c, x)) - Gone(c, x) + Come(b, x)
    BY ONLY <2>1, <2>2
  <2> QED BY ONLY <2>3 DEF Classes
<1>3. /\ new \in Seq(BOOLEAN) /\ new # <<>> /\ Len(new) <= HistoryLength
      /\ yes(new) = yes(c) - Gone(c, TRUE) + Come(b, TRUE)
      /\ no(new) = no(c) - Gone(c, FALSE) + Come(b, FALSE)
  BY ONLY <1>2, Zenon
<1>4. /\ Come(b, TRUE) = IF b THEN 1 ELSE 0
      /\ Come(b, FALSE) = IF b THEN 0 ELSE 1
  BY Zenon DEF Come
<1>5. /\ rec.classes = new
      /\ rec.normal = h.normal - Gone(c, TRUE) + (IF b THEN 1 ELSE 0)
      /\ rec.abnormal = h.abnormal - Gone(c, FALSE) + (IF b THEN 0 ELSE 1)
  BY DEF Recorded, Rolled, Gone
<1>6. rec.normal = yes(new) /\ rec.abnormal = no(new)
  BY ONLY <1>1, <1>3, <1>4, <1>5, Zenon
<1> HIDE DEF new, rec
<1>7. Counted(rec) /\ rec.classes # <<>>
  BY ONLY <1>3, <1>5, <1>6, Zenon DEF Counted
<1> QED BY ONLY <1>7 DEF rec

TracksInv ==
    /\ track = [t \in Tracks |-> track[t]]
    /\ \A t \in Tracks : track[t] # None => Counted(track[t]) /\ track[t].classes # <<>>

LEMMA TracksKept ==
    ASSUME TracksInv, UNCHANGED track
    PROVE  TracksInv'
BY DEF TracksInv

LEMMA TracksStep ==
    ASSUME TracksInv, TracksNext
    PROVE  TracksInv'
<1> DEFINE good(h) == Counted(h) /\ h.classes # <<>>
<1>1. track = [t \in Tracks |-> track[t]] /\ \A t \in Tracks : track[t] # None => good(track[t])
  BY DEF TracksInv
<1>2. \A h, b : Counted(h) /\ b \in BOOLEAN => good(Recorded(h, b))
  BY CountedRecord, Zenon
<1>3. \A h : good(h) => Counted(h)
  OBVIOUS
<1> HIDE DEF good
<1>4. ASSUME EvictStale
      PROVE  track' = [t \in Tracks |-> track'[t]]
             /\ \A t \in Tracks : track'[t] # None => good(track'[t])
  BY <1>1, <1>4 DEF EvictStale
<1>5. ASSUME NEW t \in Tracks, RemoveTrack(t)
      PROVE  track' = [u \in Tracks |-> track'[u]]
             /\ \A u \in Tracks : track'[u] # None => good(track'[u])
  BY <1>1, <1>5 DEF RemoveTrack
<1>6. ASSUME NEW t \in Tracks, NEW b \in BOOLEAN, Record(t, b)
      PROVE  track' = [u \in Tracks |-> track'[u]]
             /\ \A u \in Tracks : track'[u] # None => good(track'[u])
  <2> DEFINE old == IF track[t] = None THEN NoTrack ELSE track[t]
             new == Recorded(old, b)
  <2>1. track' = [track EXCEPT ![t] = new]
    BY <1>6 DEF Record
  <2>2. Counted(old)
    BY <1>1, <1>3, CountedNew
  <2>3. good(new)
    BY ONLY <1>2, <2>2, b \in BOOLEAN, Zenon
  <2> HIDE DEF new
  <2> QED BY <1>1, <2>1, <2>3
<1>7. track' = [t \in Tracks |-> track'[t]] /\ \A t \in Tracks : track'[t] # None => good(track'[t])
  BY <1>4, <1>5, <1>6 DEF TracksNext
<1> QED BY <1>7 DEF good, TracksInv

-----------------------------------------------------------------------------
(* All of the stores' counts.                                              *)

CountsInv == WindowsInv /\ TracksInv

LEMMA CountsInit == StoresInit => CountsInv
BY DEF StoresInit, CountsInv, WindowsInv, TracksInv

LEMMA CountsStep == CountsInv /\ [StoresNext]_stores => CountsInv'
<1> SUFFICES ASSUME CountsInv, [StoresNext]_stores
             PROVE  CountsInv'
  OBVIOUS
<1>1. CASE MergerNext
  <2>1. UNCHANGED track
    BY <1>1 DEF MergerNext, Process, CloseWindow
  <2> QED BY <1>1, <2>1, WindowsMerged, TracksKept DEF CountsInv
<1>2. CASE TracksNext
  <2>1. UNCHANGED merger
    BY <1>2 DEF TracksNext, EvictStale, RemoveTrack, Record
  <2> QED BY <1>2, <2>1, TracksStep, WindowsKept DEF CountsInv
<1>3. CASE Tick \/ ZonesNext \/ UNCHANGED stores
  <2>1. UNCHANGED <<merger, track>>
    BY <1>3 DEF Tick, ZonesNext, CacheHit, Invalidate, CacheMiss, Fetch, Store, ChangeZone,
                stores
  <2> QED BY <2>1, TracksKept, WindowsKept DEF CountsInv
<1> QED BY <1>1, <1>2, <1>3 DEF StoresNext

\* 0.5 and 1.5 times a share of the frames.
LEMMA MultiplierBounded ==
    ASSUME NEW n \in Nat, NEW l \in Nat \ {0}, n <= l
    PROVE  50 + (150 * n) \div l \in 50..200
<1> DEFINE q == (150 * n) \div l
           r == (150 * n) % l
<1>1. q \in Int /\ r \in 0..(l - 1) /\ 150 * n = l * q + r
  OBVIOUS
<1> HIDE DEF q, r
<1>2. q >= 0
  BY <1>1
<1>3. q <= 150
  BY <1>1
<1> QED BY <1>1, <1>2, <1>3 DEF q

LEMMA CountsMatch == CountsInv => CountsMatchContents
<1> SUFFICES ASSUME CountsInv
             PROVE  CountsMatchContents
  OBVIOUS
<1>1. ASSUME NEW k \in Windows, window[k] # None
      PROVE  window[k].count = Len(merged[k]) /\ window[k].peak = Max(Range(merged[k]))
  <2>1. Peak(window[k], merged[k])
    BY <1>1 DEF CountsInv, WindowsInv
  <2> QED BY <2>1, PeakIsMax
<1>2. ASSUME NEW t \in Tracks, track[t] # None
      PROVE  /\ track[t].normal = Cardinality({n \in DOMAIN track[t].classes : track[t].classes[n]})
             /\ track[t].normal + track[t].abnormal = Len(track[t].classes)
             /\ Len(track[t].classes) <= HistoryLength
             /\ Multiplier(t) \in 50..200
  <2> DEFINE h   == track[t]
             c   == h.classes
             yes == Cardinality(Places(c, TRUE))
             no  == Cardinality(Places(c, FALSE))
  <2>1. /\ c \in Seq(BOOLEAN) /\ Len(c) <= HistoryLength /\ c # <<>>
        /\ h.normal = yes /\ h.abnormal = no
    BY <1>2, Zenon DEF CountsInv, TracksInv, Counted
  <2>2. {n \in DOMAIN c : c[n]} = Places(c, TRUE)
    <3>1. \A n \in DOMAIN c : c[n] \in BOOLEAN
      BY <2>1
    <3> QED BY <3>1, Zenon DEF Places
  <2>3. yes \in Nat /\ no \in Nat /\ yes + no = Len(c)
    <3> DEFINE Classes == BOOLEAN
               up   == TRUE
               down == FALSE
    <3>1. \A s \in Classes : s = up \/ s = down
      BY Zenon
    <3>2. up # down
      BY Zenon
    <3>3. c \in Seq(Classes)
      BY <2>1
    <3> HIDE DEF c, Classes, up, down
    <3>4. /\ Cardinality(Places(c, up)) \in Nat /\ Cardinality(Places(c, down)) \in Nat
          /\ Cardinality(Places(c, up)) + Cardinality(Places(c, down)) = Len(c)
      BY ONLY <3>1, <3>2, <3>3, PlacesSplit
    <3> QED BY ONLY <3>4, Zenon DEF up, down
  <2>4. Len(c) \in Nat \ {0}
    BY <2>1
  <2>5. Multiplier(t) = 50 + (150 * h.normal) \div Len(c)
    BY <1>2 DEF Multiplier
  <2> HIDE DEF h, c, yes, no
  <2>6. h.normal = yes /\ h.normal + h.abnormal = Len(c) /\ Multiplier(t) \in 50..200
    <3>1. yes <= Len(c)
      BY <2>3, <2>4
    <3> QED BY ONLY <2>1, <2>3, <2>4, <2>5, <3>1, MultiplierBounded
  <2> QED BY ONLY <2>1, <2>2, <2>6, Zenon DEF h, c, yes
<1> QED BY <1>1, <1>2 DEF CountsMatchContents

\* A window's peak and count are those of the events merged into it, and a
\* track's counts are those of the frames its deque still holds, whatever order
\* events, frames, expiry and eviction come in: EventMerger.process and
\* TrackHistory.record keep them by counting.
THEOREM CountsMatchContentsAlways == StoresSpec => []CountsMatchContents
<1> QED BY CountsInit, CountsStep, CountsMatch, PTL DEF StoresSpec

-----------------------------------------------------------------------------
(* The cache of zone configurations.                                       *)

\* z was the camera's zone, at some time from since on.
Within(w, z, since) == \E t \in DOMAIN w : t > since /\ z \in w[t]

Calls == [pc : {"idle", "fetch", "store"}, since : Nat, data : Zones \cup {None}]

ZoneTypes ==
    /\ now \in Nat
    /\ was \in Seq(SUBSET Zones) /\ Len(was) = now + 1
    /\ zone \in Zones /\ zone \in was[now + 1]
    /\ call \in [Readers -> Calls]

\* What a call fetched was the zone since the call began, and what the cache
\* holds since Ttl before it expires.
ZoneInv ==
    /\ ZoneTypes
    /\ \A r \in Readers : call[r].since <= now
    /\ \A r \in Readers : call[r].pc = "store" =>
           call[r].data = None \/ Within(was, call[r].data, call[r].since)
    /\ cache # None => \E since \in Nat :
           /\ cache.expires = since + Ttl
           /\ cache.data = None \/ Within(was, cache.data, since)

LEMMA ZoneInit == StoresInit => ZoneInv
<1> SUFFICES ASSUME StoresInit
             PROVE  ZoneInv
  OBVIOUS
<1>1. now = 0 /\ zone \in Zones /\ was = << {zone} >> /\ cache = None
      /\ call = [r \in Readers |-> NoCall]
  BY DEF StoresInit
<1>2. was \in Seq(SUBSET Zones) /\ Len(was) = 1 /\ was[1] = {zone}
  BY <1>1
<1>3. NoCall \in Calls /\ NoCall.since = 0 /\ NoCall.pc = "idle"
  BY DEF NoCall, Calls
<1> QED BY <1>1, <1>2, <1>3 DEF ZoneInv, ZoneTypes

\* The record of the zones only grows.
LEMMA WasTick ==
    ASSUME ZoneTypes, Tick
    PROVE  ZoneTypes' /\ \A z, since : Within(was, z, since) => Within(was', z, since)
<1>1. /\ was \in Seq(SUBSET Zones) /\ Len(was) = now + 1 /\ now \in Nat /\ zone \in Zones
      /\ was' = Append(was, {zone}) /\ now' = now + 1 /\ zone' = zone /\ call' = call
  BY DEF ZoneTypes, Tick
<1>2. /\ was' \in Seq(SUBSET Zones) /\ Len(was') = now' + 1 /\ was'[now' + 1] = {zone}
      /\ \A t \in DOMAIN was : t \in DOMAIN was' /\ was'[t] = was[t]
  BY <1>1
<1> QED BY <1>1, <1>2 DEF ZoneTypes, Within

LEMMA WasChange ==
    ASSUME ZoneTypes, NEW z \in Zones, ChangeZone(z)
    PROVE  ZoneTypes' /\ \A y, since : Within(was, y, since) => Within(was', y, since)
<1>1. /\ was \in Seq(SUBSET Zones) /\ Len(was) = now + 1 /\ now \in Nat
      /\ was' = [was EXCEPT ![now + 1] = was[now + 1] \cup {z}]
      /\ zone' = z /\ now' = now /\ call' = call
  BY DEF ZoneTypes, ChangeZone
<1>2. now + 1 \in DOMAIN was /\ DOMAIN was = 1..(now + 1)
  BY <1>1
<1>3. /\ DOMAIN was' = DOMAIN was /\ was'[now + 1] = was[now + 1] \cup {z}
      /\ \A t \in DOMAIN was : was[t] \subseteq was'[t]
      /\ \A t \in DOMAIN was : was[t] \in SUBSET Zones /\ was'[t] \in SUBSET Zones
  BY <1>1, <1>2
<1>4. was' \in Seq(SUBSET Zones) /\ Len(was') = now + 1
  BY <1>1, <1>2
<1> QED BY <1>1, <1>2, <1>3, <1>4 DEF ZoneTypes, Within

LEMMA ZoneStep == ZoneInv /\ [StoresNext]_stores => ZoneInv'
<1> SUFFICES ASSUME ZoneInv, [StoresNext]_stores
             PROVE  ZoneInv'
  OBVIOUS
<1>1. CASE Tick
  <2>1. now' >= now /\ UNCHANGED <<cache, call>>
    BY <1>1 DEF Tick, ZoneInv, ZoneTypes
  <2> QED BY <1>1, <2>1, WasTick DEF ZoneInv, ZoneTypes, Calls
<1>2. CASE \E z \in Zones : ChangeZone(z)
  <2>1. PICK z \in Zones : ChangeZone(z)
    BY <1>2
  <2>2. UNCHANGED <<now, cache, call>>
    BY <2>1 DEF ChangeZone
  <2> QED BY <2>1, <2>2, WasChange DEF ZoneInv
<1>3. CASE MergerNext \/ TracksNext \/ CacheHit \/ UNCHANGED stores
  <2>1. UNCHANGED <<now, zone, was, cache, call>>
    BY <1>3 DEF MergerNext, Process, CloseWindow, TracksNext, EvictStale, RemoveTrack, Record,
                CacheHit, stores, zones
  <2> QED BY <2>1 DEF ZoneInv, ZoneTypes
<1>4. CASE Invalidate
  BY <1>4 DEF Invalidate, ZoneInv, ZoneTypes
<1>5. ASSUME NEW r \in Readers, CacheMiss(r)
      PROVE  ZoneInv'
  <2> DEFINE new == [NoCall EXCEPT !.pc = "fetch", !.since = now]
  <2>1. call' = [call EXCEPT ![r] = new] /\ UNCHANGED <<now, zone, was, cache>>
    BY <1>5 DEF CacheMiss
  <2>2. new \in Calls /\ new.since = now /\ new.pc = "fetch"
    BY DEF ZoneInv, ZoneTypes, NoCall, Calls
  <2> HIDE DEF new
  <2> QED BY <2>1, <2>2 DEF ZoneInv, ZoneTypes
<1>6. ASSUME NEW r \in Readers, Fetch(r)
      PROVE  ZoneInv'
  <2>1. PICK z \in {zone, None} : call' = [call EXCEPT ![r].pc = "store", ![r].data = z]
    BY <1>6 DEF Fetch
  <2> DEFINE new == [call[r] EXCEPT !.pc = "store", !.data = z]
  <2>2. call' = [call EXCEPT ![r] = new]
    BY <2>1 DEF ZoneInv, ZoneTypes, Calls
  <2>3. UNCHANGED <<now, zone, was, cache>>
    BY <1>6 DEF Fetch
  <2>4. new \in Calls /\ new.since = call[r].since /\ new.data = z
    BY <2>1 DEF ZoneInv, ZoneTypes, Calls
  <2>5. z = None \/ Within(was, z, call[r].since)
    <3>1. now + 1 \in DOMAIN was /\ now + 1 > call[r].since
      BY DEF ZoneInv, ZoneTypes, Calls
    <3> QED BY <2>1, <3>1 DEF ZoneInv, ZoneTypes, Within
  <2> HIDE DEF new
  <2> QED BY <2>2, <2>3, <2>4, <2>5 DEF ZoneInv, ZoneTypes
<1>7. ASSUME NEW r \in Readers, Store(r)
      PROVE  ZoneInv'
  <2>1. /\ call[r].pc = "store" /\ call' = [call EXCEPT ![r] = NoCall]
        /\ cache' = [data |-> call[r].data, expires |-> call[r].since + Ttl]
        /\ UNCHANGED <<now, zone, was>>
    BY <1>7 DEF Store
  <2>2. NoCall \in Calls /\ NoCall.since = 0 /\ NoCall.pc = "idle"
    BY DEF NoCall, Calls
  <2>3. call[r].since \in Nat
    BY DEF ZoneInv, ZoneTypes, Calls
  <2>4. call[r].data = None \/ Within(was, call[r].data, call[r].since)
    BY <2>1 DEF ZoneInv
  <2> QED BY <2>1, <2>2, <2>3, <2>4 DEF ZoneInv, ZoneTypes
<1> QED BY <1>1, <1>2, <1>3, <1>4, <1>5, <1>6, <1>7 DEF StoresNext, ZonesNext

\* A zone that a hit returns was the camera's zone within the last Ttl units of
\* time, for any number of concurrent calls: _cache's entries expire Ttl after
\* the call began that fetched them.
THEOREM ZoneFreshAlways == StoresSpec => []ZoneFresh
<1>1. ZoneInv => ZoneFresh
  <2> SUFFICES ASSUME ZoneInv, Cached, cache.data # None
               PROVE  \E t \in DOMAIN was : t > now + 1 - Ttl /\ cache.data \in was[t]
    BY DEF ZoneFresh
  <2>1. PICK since \in Nat : /\ cache.expires = since + Ttl
                             /\ Within(was, cache.data, since)
    BY DEF ZoneInv, Cached
  <2>2. PICK t \in DOMAIN was : t > since /\ cache.data \in was[t]
    BY <2>1 DEF Within
  <2>3. t > now + 1 - Ttl
    BY <2>1, <2>2, StoresAssumption DEF Cached, ZoneInv, ZoneTypes
  <2> QED BY <2>2, <2>3
<1> QED BY <1>1, ZoneInit, ZoneStep, PTL DEF StoresSpec

-----------------------------------------------------------------------------
(* The risk score, for every situation and all thresholds.                 *)

\* A sum of the seven factors, in hundredths of a point, and their ranges.
Sum(c, d, p, m, r, z, n) == 30 * c + d + p + m + r + 15 * z + n

PerCent    == 0..100
Fifteen    == 0..1500
Ten        == 0..1000
TimeOfDay  == 150..500
RawScores  == 150..9500
FinalScores == 1..95

\* n points are h hundredths, to within half a point.
Near(n, h) == -50 <= 100 * n - h /\ 100 * n - h <= 50

LEMMA Ranges ==
    PerCent \cup Fifteen \cup Ten \cup TimeOfDay \cup RawScores \cup FinalScores \subseteq Nat
BY DEF PerCent, Fifteen, Ten, TimeOfDay, RawScores, FinalScores

LEMMA SumBounded ==
    ASSUME NEW c \in PerCent, NEW d \in Fifteen, NEW p \in Ten, NEW m \in Ten,
           NEW r \in Ten, NEW z \in PerCent, NEW n \in TimeOfDay
    PROVE  Sum(c, d, p, m, r, z, n) \in RawScores
BY DEF Sum, PerCent, Fifteen, Ten, TimeOfDay, RawScores

LEMMA SumMonotone ==
    ASSUME NEW c \in Nat, NEW d \in Nat, NEW p \in Nat, NEW m \in Nat,
           NEW r \in Nat, NEW z \in Nat, NEW n \in Nat,
           NEW c1 \in Nat, NEW d1 \in Nat, NEW p1 \in Nat, NEW m1 \in Nat,
           NEW r1 \in Nat, NEW z1 \in Nat, NEW n1 \in Nat,
           c <= c1, d <= d1, p <= p1, m <= m1, r <= r1, z <= z1, n <= n1
    PROVE  Sum(c, d, p, m, r, z, n) <= Sum(c1, d1, p1, m1, r1, z1, n1)
BY DEF Sum

Duration(s) == Saturated(s.duration, 30, 50)
People(s)   == Saturated(s.people, 5, 200)
Motion(s)   == Saturated(s.motion, 8, 125)
Recent(s)   == IF s.recent THEN 1000 ELSE 0
Night(s)    == IF s.night THEN 500 ELSE 150

SumOf(s) == Sum(s.confidence, Duration(s), People(s), Motion(s), Recent(s), s.zone, Night(s))

LEMMA RawIsSum == \A s : RawScore(s) = SumOf(s)
BY DEF RawScore, SumOf, Sum, Duration, People, Motion, Recent, Night

LEMMA FactorsTyped ==
    ASSUME NEW s \in Signals
    PROVE  /\ s.confidence \in PerCent /\ s.zone \in PerCent
           /\ Duration(s) \in Fifteen /\ People(s) \in Ten /\ Motion(s) \in Ten
           /\ Recent(s) \in Ten /\ Night(s) \in TimeOfDay
<1>1. /\ s.confidence \in PerCent /\ s.zone \in PerCent
      /\ s.duration \in Nat /\ s.people \in Nat /\ s.motion \in Nat
  BY DEF Signals, PerCent
<1>2. Duration(s) \in Fifteen
  BY <1>1 DEF Saturated, Duration, Fifteen
<1>3. People(s) \in Ten /\ Motion(s) \in Ten
  BY <1>1 DEF Saturated, People, Motion, Ten
<1>4. Recent(s) \in Ten /\ Night(s) \in TimeOfDay
  BY DEF Recent, Night, Ten, TimeOfDay
<1> QED BY <1>1, <1>2, <1>3, <1>4

LEMMA RawTyped ==
    ASSUME NEW s \in Signals
    PROVE  RawScore(s) \in RawScores /\ RawScore(s) \in Nat
<1>1. SumOf(s) \in RawScores
  BY FactorsTyped, SumBounded DEF SumOf
<1> QED BY <1>1, RawIsSum, Ranges

LEMMA RoundedIsNear ==
    ASSUME NEW h \in Nat
    PROVE  Rounded(h) \in Nat /\ Near(Rounded(h), h)
<1> DEFINE q == h \div 100
           r == h % 100
<1>1. q \in Nat /\ r \in 0..99 /\ h = 100 * q + r
  OBVIOUS
<1>2. \/ r > 50 /\ Rounded(h) = q + 1
      \/ r = 50 /\ Rounded(h) \in {q, q + 1}
      \/ r < 50 /\ Rounded(h) = q
  BY <1>1 DEF Rounded
<1> HIDE DEF q, r
<1> QED BY <1>1, <1>2 DEF Near

\* Rounding to the even neighbour turns no order around.
LEMMA RoundedIsMonotone ==
    ASSUME NEW g \in Nat, NEW h \in Nat, g <= h
    PROVE  Rounded(g) <= Rounded(h)
<1>1. \A a, b \in Nat : Near(a, g) /\ Near(b, h) /\ g # h => a <= b
  BY DEF Near
<1>2. \A a \in Nat : a <= a
  OBVIOUS
<1> QED BY <1>1, <1>2, RoundedIsNear, Zenon

\* compute_risk_score: the score is the weighted sum to within half a point, and its
\* clamp to 0..100 never has anything to do.  The weights add up to 100, but a
\* score is at most 95, because nobody sets human_confirmed.
THEOREM ScoreIsExact ==
    ASSUME NEW s \in Signals
    PROVE  Score(s) \in FinalScores /\ Near(Score(s), RawScore(s))
<1>1. ASSUME NEW h \in Nat, NEW n \in Nat, h \in RawScores, Near(n, h)
      PROVE  n \in FinalScores /\ Clamped(n) = n
  <2>1. 150 <= h /\ h <= 9500
    BY <1>1 DEF RawScores
  <2>2. 1 <= n /\ n <= 95
    BY <1>1, <2>1 DEF Near
  <2> QED BY <2>2 DEF Clamped, FinalScores
<1>2. /\ RawScore(s) \in RawScores /\ RawScore(s) \in Nat
      /\ Rounded(RawScore(s)) \in Nat /\ Near(Rounded(RawScore(s)), RawScore(s))
  BY RawTyped, RoundedIsNear, Zenon
<1> QED BY <1>1, <1>2, Zenon DEF Score

\* t is s with nothing less in it.
NoWeaker(t, s) ==
    /\ s.confidence <= t.confidence /\ s.zone <= t.zone
    /\ s.duration <= t.duration /\ s.people <= t.people /\ s.motion <= t.motion
    /\ (s.recent => t.recent) /\ (s.night => t.night)

\* More of any signal never lowers the score, nor the severity score_to_severity
\* gives it, whatever the thresholds.
THEOREM MoreIsNoLessSevere ==
    ASSUME NEW s \in Signals, NEW t \in Signals, NoWeaker(t, s)
    PROVE  /\ Score(s) <= Score(t)
           /\ Severity(Score(s)) = "HIGH" => Severity(Score(t)) = "HIGH"
           /\ Severity(Score(t)) = "LOW" => Severity(Score(s)) = "LOW"
<1>1. ASSUME NEW x \in Signals
      PROVE  /\ x.confidence \in Nat /\ x.zone \in Nat
             /\ x.duration \in Nat /\ x.people \in Nat /\ x.motion \in Nat
             /\ Duration(x) \in Nat /\ People(x) \in Nat /\ Motion(x) \in Nat
             /\ Recent(x) \in Nat /\ Night(x) \in Nat
  <2>1. x.duration \in Nat /\ x.people \in Nat /\ x.motion \in Nat
    BY DEF Signals
  <2> QED BY <2>1, FactorsTyped, Ranges
<1>2. /\ Duration(s) <= Duration(t) /\ People(s) <= People(t) /\ Motion(s) <= Motion(t)
  BY <1>1 DEF NoWeaker, Saturated, Duration, People, Motion
<1>3. Recent(s) <= Recent(t) /\ Night(s) <= Night(t)
  BY DEF NoWeaker, Recent, Night
<1>4. s.confidence <= t.confidence /\ s.zone <= t.zone
  BY DEF NoWeaker
<1>5. SumOf(s) <= SumOf(t)
  BY <1>1, <1>2, <1>3, <1>4, SumMonotone, Zenon DEF SumOf
<1>6. RawScore(s) <= RawScore(t) /\ RawScore(s) \in Nat /\ RawScore(t) \in Nat
  BY <1>5, RawIsSum, RawTyped, Zenon
<1>7. Rounded(RawScore(s)) <= Rounded(RawScore(t))
  BY <1>6, RoundedIsMonotone, Zenon
<1>8. \A m, n \in Nat : m <= n => Clamped(m) <= Clamped(n) /\ Clamped(m) \in Nat /\ Clamped(n) \in Nat
  BY DEF Clamped
<1>9. Score(s) <= Score(t) /\ Score(s) \in Nat /\ Score(t) \in Nat
  BY <1>6, <1>7, <1>8, RoundedIsNear, Zenon DEF Score
<1>10. \A m, n \in Nat : m <= n =>
           /\ Severity(m) = "HIGH" => Severity(n) = "HIGH"
           /\ Severity(n) = "LOW" => Severity(m) = "LOW"
  BY RiskAssumption DEF Severity
<1> QED BY <1>9, <1>10, Zenon
=============================================================================
