------------------------- MODULE Notifications_proofs -------------------------
(***************************************************************************)
(* The tasks that notify people, for any addressees and any number of      *)
(* retries.                                                                *)
(***************************************************************************)
EXTENDS Notifications, SequenceTheorems, TLAPS

\* How many addressees a task has.
Size(t) == Len(Addressees[t])

LEMMA FirstIsList ==
    ASSUME NEW s, IsList(s)
    PROVE  \E S : FirstOf(s) \in Seq(S)
<1>1. CASE s = <<>>
  BY <1>1 DEF FirstOf
<1>2. CASE s # <<>>
  <2>1. FirstOf(s) = <<Head(s)>>
    BY <1>2 DEF FirstOf
  <2>2. <<Head(s)>> \in Seq({Head(s)})
    OBVIOUS
  <2> QED BY <2>1, <2>2
<1> QED BY <1>1, <1>2

LEMMA ConcatIsList ==
    ASSUME NEW s, NEW u, \E S : s \in Seq(S), \E S : u \in Seq(S)
    PROVE  \E S : s \o u \in Seq(S)
<1>1. PICK S : s \in Seq(S)
  OBVIOUS
<1>2. PICK T : u \in Seq(T)
  OBVIOUS
<1> DEFINE U == S \cup T
<1>3. s \in Seq(U) /\ u \in Seq(U)
  <2>1. \A n \in 1..Len(s) : s[n] \in U
    BY <1>1
  <2>2. \A n \in 1..Len(u) : u[n] \in U
    BY <1>2
  <2> QED BY <1>1, <1>2, <2>1, <2>2, IsASeq
<1>4. s \o u \in Seq(U)
  BY <1>3
<1> QED BY <1>4

LEMMA SizeIs ==
    ASSUME NEW t \in Tasks
    PROVE  Size(t) \in Nat /\ DOMAIN Addressees[t] = 1..Size(t)
<1>1. \A s, S : s \in Seq(S) => Len(s) \in Nat /\ DOMAIN s = 1..Len(s)
  OBVIOUS
<1>2. \E S : Addressees[t] \in Seq(S)
  <2>1. CASE t = "webhook"
    BY <2>1, NotificationsAssumption DEF Addressees, IsList
  <2>2. CASE t = "mail"
    BY <2>2, NotificationsAssumption DEF Addressees, IsList
  <2>3. CASE t = "phone"
    BY <2>3, NotificationsAssumption DEF Addressees, IsList
  <2>4. CASE t = "emergency"
    <3> DEFINE a == FirstOf(Phones)
               b == FirstOf(Recipients)
               c == FirstOf(Chats)
    <3>1. (\E S : a \in Seq(S)) /\ (\E S : b \in Seq(S)) /\ (\E S : c \in Seq(S))
      BY NotificationsAssumption, FirstIsList
    <3>2. Addressees[t] = a \o b \o c
      BY <2>4 DEF Addressees
    <3> HIDE DEF a, b, c
    <3>3. \E S : a \o b \in Seq(S)
      BY <3>1, ConcatIsList
    <3>4. \E S : a \o b \o c \in Seq(S)
      BY <3>1, <3>3, ConcatIsList
    <3> QED BY <3>2, <3>4
  <2> QED BY <2>1, <2>2, <2>3, <2>4 DEF Tasks, Addressees
<1> QED BY <1>1, <1>2 DEF Size

LEMMA AttemptsIs ==
    ASSUME NEW t \in Tasks
    PROVE  Attempts(t) \in Nat \ {0}
BY NotificationsAssumption DEF Attempts

-----------------------------------------------------------------------------
(* Where a task is, and whom it has tried.                                 *)

Types ==
    /\ place \in [Tasks -> Nat]
    /\ tries = [t \in Tasks |-> tries[t]] /\ told = [t \in Tasks |-> told[t]]
    /\ \A t \in Tasks : tries[t] \in [1..Size(t) -> Nat] /\ told[t] \in [1..Size(t) -> Nat]

\* Addressees before a task's place are done with, the one there may be tried
\* again, and those after it were not tried.
Done(t, n) ==
    \/ told[t][n] > 0 \/ tries[t][n] = Attempts(t)
    \/ t = "mail" /\ \E k \in 1..(n - 1) : tries[t][k] = Attempts(t)

Progress(t) ==
    \A n \in 1..Size(t) :
        /\ n < place[t] => Done(t, n)
        /\ n = place[t] => tries[t][n] < Attempts(t)
        /\ n > place[t] => tries[t][n] = 0

\* The task was over before it began.
NotStarted(t) ==
    t # "emergency" /\ place[t] = Size(t) + 1 /\ \A n \in 1..Size(t) : tries[t][n] = 0

ApartInv == Types /\ \A t \in Tasks : Progress(t) \/ NotStarted(t)

LEMMA SendingProgresses ==
    ASSUME ApartInv, NEW t \in Tasks, place[t] \in 0..Size(t)
    PROVE  Progress(t)
BY SizeIs DEF ApartInv, NotStarted

LEMMA ApartInit == NotificationsInit => ApartInv
<1> SUFFICES ASSUME NotificationsInit
             PROVE  ApartInv
  OBVIOUS
<1>1. \A t \in Tasks : tries[t] = [n \in 1..Size(t) |-> 0] /\ told[t] = tries[t]
  BY SizeIs DEF NotificationsInit
<1>2. Types
  BY <1>1 DEF NotificationsInit, Types
<1>3. ASSUME NEW t \in Tasks
      PROVE  Progress(t)
  <2>1. place[t] = 0 /\ \A n \in 1..Size(t) : tries[t][n] = 0
    BY <1>1 DEF NotificationsInit
  <2> QED BY <2>1, SizeIs DEF Progress
<1> QED BY <1>2, <1>3 DEF ApartInv

LEMMA ApartCreate ==
    ASSUME ApartInv, NEW tasks, Create(tasks)
    PROVE  ApartInv'
<1>1. /\ \A t \in Tasks : place[t] = 0 /\ place'[t] \in {0, 1}
      /\ place' \in [Tasks -> Nat] /\ tries' = tries /\ told' = told
  BY DEF Create
<1>2. Types'
  BY <1>1 DEF Types, ApartInv
<1>3. ASSUME NEW t \in Tasks
      PROVE  Progress(t)'
  <2>1. \A n \in 1..Size(t) : n > place[t] => tries[t][n] = 0
    BY <1>1, SizeIs, SendingProgresses DEF Progress
  <2>2. \A n \in 1..Size(t) : tries[t][n] = 0 /\ ~(n < place'[t])
    BY <1>1, <2>1, SizeIs
  <2>3. 0 < Attempts(t)
    BY AttemptsIs
  <2> QED BY <1>1, <2>2, <2>3 DEF Progress
<1> QED BY <1>2, <1>3 DEF ApartInv

\* What trying the addressee at hand changes.
LEMMA TriedIs ==
    ASSUME Types, NEW t \in Tasks, Sending(t), NEW gets \in BOOLEAN, Tried(t, gets)
    PROVE  /\ place[t] \in 1..Size(t)
           /\ tries' = [tries EXCEPT ![t] = [tries[t] EXCEPT ![place[t]] = tries[t][place[t]] + 1]]
           /\ \E m \in Nat : /\ m >= told[t][place[t]] /\ (gets => m > 0)
                             /\ told' = [told EXCEPT ![t] = [told[t] EXCEPT ![place[t]] = m]]
<1>1. place[t] \in 1..Size(t)
  BY SizeIs DEF Sending, Finished, Types, Size
<1>2. told[t][place[t]] \in Nat /\ tries[t][place[t]] \in Nat
  BY <1>1 DEF Types
<1>3. tries' = [tries EXCEPT ![t] = [tries[t] EXCEPT ![place[t]] = tries[t][place[t]] + 1]]
  BY DEF Tried, Types
<1> DEFINE m == IF gets THEN told[t][place[t]] + 1 ELSE told[t][place[t]]
<1>4. told' = [told EXCEPT ![t] = [told[t] EXCEPT ![place[t]] = m]]
  BY DEF Tried, Types
<1>5. m \in Nat /\ m >= told[t][place[t]] /\ (gets => m > 0)
  BY <1>2
<1> HIDE DEF m
<1> QED BY <1>1, <1>3, <1>4, <1>5

\* A task goes on at p.
LEMMA ApartMoved ==
    ASSUME ApartInv, NEW t \in Tasks, NEW m \in Nat, NEW p \in Nat, NEW at \in 1..Size(t), at = place[t],
           tries' = [tries EXCEPT ![t] = [tries[t] EXCEPT ![at] = tries[t][at] + 1]],
           told' = [told EXCEPT ![t] = [told[t] EXCEPT ![at] = m]],
           m >= told[t][at],
           place' = [place EXCEPT ![t] = p],
           \/ p = at /\ tries[t][at] + 1 < Attempts(t)
           \/ p = at + 1 /\ (m > 0 \/ tries[t][at] + 1 = Attempts(t))
           \/ p = Size(t) + 1 /\ t = "mail" /\ tries[t][at] + 1 = Attempts(t)
    PROVE  ApartInv'
<1>1. /\ at \in 1..Size(t) /\ Size(t) \in Nat /\ Attempts(t) \in Nat \ {0}
      /\ tries[t] \in [1..Size(t) -> Nat] /\ told[t] \in [1..Size(t) -> Nat]
  BY SizeIs, AttemptsIs DEF ApartInv, Types
<1>2. /\ tries'[t] = [tries[t] EXCEPT ![at] = tries[t][at] + 1]
      /\ told'[t] = [told[t] EXCEPT ![at] = m]
      /\ place'[t] = p
      /\ \A u \in Tasks \ {t} : /\ tries'[u] = tries[u] /\ told'[u] = told[u]
                                /\ place'[u] = place[u]
  BY DEF ApartInv, Types
<1>3. Types'
  <2>1. tries'[t] \in [1..Size(t) -> Nat] /\ told'[t] \in [1..Size(t) -> Nat]
    BY <1>1, <1>2
  <2>2. \A u \in Tasks : tries'[u] \in [1..Size(u) -> Nat] /\ told'[u] \in [1..Size(u) -> Nat]
    BY <1>2, <2>1 DEF ApartInv, Types
  <2>3. /\ place' \in [Tasks -> Nat]
        /\ tries' = [u \in Tasks |-> tries'[u]] /\ told' = [u \in Tasks |-> told'[u]]
    BY DEF ApartInv, Types
  <2> QED BY <2>2, <2>3 DEF Types
<1>4. ASSUME NEW u \in Tasks \ {t}
      PROVE  Progress(u)' \/ NotStarted(u)'
  BY <1>2, SizeIs DEF ApartInv, Progress, Done, NotStarted
<1>5. Progress(t)'
  <2>1. /\ tries'[t][at] = tries[t][at] + 1 /\ told'[t][at] = m
        /\ \A n \in 1..Size(t) : n # at => tries'[t][n] = tries[t][n] /\ told'[t][n] = told[t][n]
        /\ \A n \in 1..Size(t) : tries'[t][n] \in Nat /\ tries[t][n] \in Nat
    BY <1>1, <1>2
  <2>0. Progress(t)
    BY <1>1, SendingProgresses
  <2>2. \A n \in 1..Size(t) : n < at => Done(t, n)
    BY <2>0 DEF Progress
  <2>3. \A n \in 1..Size(t) : n > at => tries[t][n] = 0
    BY <2>0 DEF Progress
  <2>4. ASSUME NEW n \in 1..Size(t), n < at
        PROVE  Done(t, n)'
    <3>1. \A k \in 1..(n - 1) : k \in 1..Size(t) /\ k # at
      BY <1>1, <2>4
    <3>2. tries'[t][n] = tries[t][n] /\ told'[t][n] = told[t][n] /\ Done(t, n)
      BY <1>1, <2>1, <2>2, <2>4
    <3>3. CASE told[t][n] > 0 \/ tries[t][n] = Attempts(t)
      BY <3>2, <3>3 DEF Done
    <3>4. CASE t = "mail" /\ \E k \in 1..(n - 1) : tries[t][k] = Attempts(t)
      <4>1. PICK k \in 1..(n - 1) : tries[t][k] = Attempts(t)
        BY <3>4
      <4>2. tries'[t][k] = Attempts(t)
        BY <2>1, <3>1, <4>1
      <4> QED BY <3>4, <4>2 DEF Done
    <3> QED BY <3>2, <3>3, <3>4 DEF Done
  <2>5. CASE p = at /\ tries[t][at] + 1 < Attempts(t)
    BY <1>1, <1>2, <2>1, <2>3, <2>4, <2>5 DEF Progress
  <2>6. CASE p = at + 1 /\ (m > 0 \/ tries[t][at] + 1 = Attempts(t))
    <3>1. Done(t, at)'
      BY <2>1, <2>6 DEF Done
    <3> QED BY <1>1, <1>2, <2>1, <2>3, <2>4, <2>6, <3>1 DEF Progress
  <2>7. CASE p = Size(t) + 1 /\ t = "mail" /\ tries[t][at] + 1 = Attempts(t)
    <3>1. ASSUME NEW n \in 1..Size(t), n > at
          PROVE  Done(t, n)'
      <4>1. at \in 1..(n - 1)
        BY <1>1, <3>1
      <4> QED BY <2>1, <2>7, <4>1 DEF Done
    <3>2. Done(t, at)'
      BY <2>1, <2>7 DEF Done
    <3>3. \A n \in 1..Size(t) : Done(t, n)'
      BY <1>1, <2>4, <3>1, <3>2
    <3> QED BY <1>1, <1>2, <2>7, <3>3 DEF Progress
  <2> QED BY <2>5, <2>6, <2>7
<1> QED BY <1>3, <1>4, <1>5 DEF ApartInv

LEMMA ApartSucceed ==
    ASSUME ApartInv, NEW t \in Tasks, Succeed(t)
    PROVE  ApartInv'
<1>1. Types /\ Sending(t) /\ Tried(t, TRUE) /\ TRUE \in BOOLEAN
  BY DEF ApartInv, Succeed
<1>2. /\ place[t] \in 1..Size(t)
      /\ tries' = [tries EXCEPT ![t] = [tries[t] EXCEPT ![place[t]] = tries[t][place[t]] + 1]]
      /\ \E m \in Nat : /\ m >= told[t][place[t]] /\ (TRUE => m > 0)
                        /\ told' = [told EXCEPT ![t] = [told[t] EXCEPT ![place[t]] = m]]
  BY ONLY <1>1, t \in Tasks, TriedIs, Zenon
<1>3. place' = [place EXCEPT ![t] = place[t] + 1] /\ place[t] + 1 \in Nat
  BY <1>2, SizeIs DEF Succeed
<1> QED BY <1>2, <1>3, ApartMoved

LEMMA ApartFail ==
    ASSUME ApartInv, NEW t \in Tasks, Fail(t)
    PROVE  ApartInv'
<1>1. Types /\ Sending(t) /\ \E gets \in BOOLEAN : Tried(t, gets)
  BY DEF ApartInv, Fail
<1>2. /\ place[t] \in 1..Size(t)
      /\ tries' = [tries EXCEPT ![t] = [tries[t] EXCEPT ![place[t]] = tries[t][place[t]] + 1]]
      /\ \E m \in Nat : /\ m >= told[t][place[t]]
                        /\ told' = [told EXCEPT ![t] = [told[t] EXCEPT ![place[t]] = m]]
  BY ONLY <1>1, t \in Tasks, TriedIs, Zenon
<1> DEFINE tried == tries[t][place[t]] + 1
           p     == AfterFailure(t)
<1>3. place' = [place EXCEPT ![t] = p]
  BY DEF Fail
<1>4. /\ Size(t) \in Nat /\ Attempts(t) \in Nat /\ tries[t][place[t]] \in Nat
      /\ tries[t][place[t]] < Attempts(t)
  BY <1>2, SizeIs, AttemptsIs, SendingProgresses DEF ApartInv, Types, Progress
<1>5. p = IF tried < Attempts(t) THEN place[t]
          ELSE IF t = "mail" THEN Size(t) + 1 ELSE place[t] + 1
  BY DEF AfterFailure, Size
<1>6. /\ p \in Nat
      /\ \/ p = place[t] /\ tried < Attempts(t)
         \/ p = place[t] + 1 /\ tried = Attempts(t)
         \/ p = Size(t) + 1 /\ t = "mail" /\ tried = Attempts(t)
  <2> HIDE DEF p, tried
  <2>1. place[t] \in Nat
    BY <1>2
  <2> QED BY ONLY <1>4, <1>5, <2>1 DEF tried
<1> HIDE DEF p
<1> QED BY <1>2, <1>3, <1>6, ApartMoved

LEMMA ApartCannotStart ==
    ASSUME ApartInv, NEW t \in Tasks, CannotStart(t)
    PROVE  ApartInv'
<1>1. /\ place \in [Tasks -> Nat] /\ place[t] = 1 /\ tries[t][1] = 0 /\ Size(t) \in Nat /\ 1 <= Size(t)
      /\ t # "emergency"
      /\ place' = [place EXCEPT ![t] = Size(t) + 1] /\ tries' = tries /\ told' = told
  BY SizeIs DEF ApartInv, Types, CannotStart, Sending, Finished, Size
<1>2. Types'
  BY <1>1 DEF ApartInv, Types
<1>3. NotStarted(t)'
  <2>1. \A n \in 1..Size(t) : tries[t][n] = 0
    BY <1>1, SendingProgresses DEF Progress
  <2> QED BY <1>1, <2>1 DEF NotStarted
<1>4. ASSUME NEW u \in Tasks \ {t}
      PROVE  Progress(u)' \/ NotStarted(u)'
  <2>1. place'[u] = place[u]
    BY <1>1
  <2> QED BY <1>1, <2>1 DEF ApartInv, Progress, Done, NotStarted
<1> QED BY <1>2, <1>3, <1>4 DEF ApartInv

LEMMA ApartStep == ApartInv /\ [NotificationsNext]_notifications => ApartInv'
<1> SUFFICES ASSUME ApartInv, [NotificationsNext]_notifications
             PROVE  ApartInv'
  OBVIOUS
<1>1. CASE UNCHANGED notifications
  BY <1>1 DEF notifications, ApartInv, Types, Progress, Done, NotStarted
<1>2. CASE DispatchNotifications \/ Notify \/ PostEscalation \/ EmergencyAlert
  BY <1>2, ApartCreate DEF DispatchNotifications, Notify, PostEscalation, EmergencyAlert
<1>3. ASSUME NEW t \in Tasks, Succeed(t) \/ Fail(t) \/ CannotStart(t)
      PROVE  ApartInv'
  BY <1>3, ApartSucceed, ApartFail, ApartCannotStart
<1> QED BY <1>1, <1>2, <1>3 DEF NotificationsNext

\* Once a task has tried anybody, whoever it is done with was told or was tried as
\* often as can be, for any lists of addressees and any number of retries: one
\* failure ends the mails, but keeps no webhook or telephone from being tried, and
\* each service of an emergency is tried whatever happens to the others.
THEOREM FailuresStayApartAlways == NotificationsSpec => []FailuresStayApart
<1>1. ApartInv => FailuresStayApart
  BY SizeIs DEF ApartInv, Progress, Done, NotStarted, FailuresStayApart
<1> QED BY <1>1, ApartInit, ApartStep, PTL DEF NotificationsSpec
=============================================================================
