----------------------- MODULE EventBusDelivery_proofs -----------------------
(***************************************************************************)
(* The event bus gives each consumer an in-order share of its channel, for *)
(* any channels, consumers, queue size and number of messages.             *)
(*                                                                         *)
(* Ordered is the inductive invariant: what a consumer was given is        *)
(* increasing, what waits for it is increasing, the first lies below the   *)
(* second, and both lie between its subscription and the last publication. *)
(***************************************************************************)
EXTENDS EventBusDelivery, TLAPS

Increasing(s) == \A m, n \in 1..Len(s) : m < n => s[m] < s[n]

Within(s, low, high) == \A m \in 1..Len(s) : low < s[m] /\ s[m] <= high

Below(s, t) == \A m \in 1..Len(s), n \in 1..Len(t) : s[m] < t[n]

OrderedFor(c) ==
    /\ Increasing(taken[c])
    /\ Increasing(queue[c])
    /\ Below(taken[c], queue[c])
    /\ Within(taken[c], since[c], published[ChannelOf[c]])
    /\ Within(queue[c], since[c], published[ChannelOf[c]])
    /\ since[c] <= published[ChannelOf[c]]

Ordered == \A c \in Consumers : OrderedFor(c)

-----------------------------------------------------------------------------
(* Types. *)

LEMMA TypeInit == Init => TypeOK
  <1> SUFFICES ASSUME Init PROVE TypeOK
    OBVIOUS
  <1>1. queue \in [Consumers -> Seq(Messages)]
    BY DEF Init, BusInit
  <1>2. \A c \in Consumers : Len(queue[c]) <= MaxSize
    BY BusAssumption DEF Init, BusInit
  <1>3. taken \in [Consumers -> Seq(Messages)]
    BY DEF Init
  <1> QED
    BY <1>1, <1>2, <1>3, BusAssumption, DeliveryAssumption
    DEF Init, BusInit, TypeOK, BusTypeOK

LEMMA TypePublish ==
    ASSUME TypeOK, NEW ch \in Channels, PublishNext(ch)
    PROVE  TypeOK'
  <1>1. published[ch] + 1 \in Messages
    BY DeliveryAssumption DEF TypeOK, PublishNext
  <1>2. ASSUME NEW c \in Consumers
        PROVE  queue'[c] \in Seq(Messages) /\ Len(queue'[c]) <= MaxSize
    <2>1. queue[c] \in Seq(Messages) /\ Len(queue[c]) <= MaxSize
      BY DEF TypeOK, BusTypeOK
    <2>2. queue'[c] = IF c \in Subscribers(ch) /\ ~Full(c)
                      THEN Append(queue[c], published[ch] + 1) ELSE queue[c]
      BY DEF PublishNext, Publish, Enqueued
    <2>3. CASE c \in Subscribers(ch) /\ ~Full(c)
      <3>1. Append(queue[c], published[ch] + 1) \in Seq(Messages)
        BY <1>1, <2>1
      <3>2. Len(Append(queue[c], published[ch] + 1)) = Len(queue[c]) + 1
        BY <2>1
      <3>3. Len(queue[c]) + 1 <= MaxSize
        BY <2>1, <2>3, BusAssumption DEF Full
      <3> QED
        BY <2>2, <2>3, <3>1, <3>2, <3>3
    <2> QED
      BY <2>1, <2>2, <2>3
  <1>3. queue' = [c \in Consumers |-> queue'[c]]
    BY DEF PublishNext, Publish, Enqueued
  <1>4. queue' \in [Consumers -> Seq(Messages)]
    BY <1>2, <1>3
  <1>5. published' \in [Channels -> 0..MaxPublished]
    BY DeliveryAssumption DEF TypeOK, PublishNext
  <1>6. dropped' \in [Consumers -> SUBSET Messages]
    BY <1>1 DEF TypeOK, PublishNext
  <1> QED
    BY <1>2, <1>4, <1>5, <1>6 DEF TypeOK, BusTypeOK, PublishNext, Publish

LEMMA HeadAndTail ==
    ASSUME NEW q \in Seq(Messages), q # <<>>
    PROVE  /\ Head(q) \in Messages /\ Head(q) = q[1]
           /\ Tail(q) \in Seq(Messages)
           /\ Len(q) \in Nat \ {0}
           /\ Len(Tail(q)) = Len(q) - 1
           /\ \A n \in 1..Len(Tail(q)) : Tail(q)[n] = q[n + 1]
  OBVIOUS

LEMMA TypeConsumer ==
    ASSUME TypeOK, NEW c \in Consumers,
           StartConsumer(c) \/ TakeNext(c) \/ ReturnConsumer(c) \/ CancelConsumer(c)
    PROVE  TypeOK'
  <1> USE BusAssumption DEF TypeOK, BusTypeOK
  <1>1. CASE StartConsumer(c)
    <2>1. published[ChannelOf[c]] \in 0..MaxPublished
      OBVIOUS
    <2>2. <<>> \in Seq(Messages) /\ Len(<<>>) <= MaxSize
      OBVIOUS
    <2> QED
      BY <1>1, <2>1, <2>2 DEF StartConsumer, Start
  <1>2. CASE TakeNext(c)
    <2>1. /\ queue[c] \in Seq(Messages)
          /\ queue[c] # <<>>
          /\ Len(queue[c]) <= MaxSize
      BY <1>2 DEF TakeNext, Take
    <2>2. /\ Head(queue[c]) \in Messages
          /\ Tail(queue[c]) \in Seq(Messages)
          /\ Len(Tail(queue[c])) <= MaxSize
      BY <2>1, HeadAndTail
    <2>3. Append(taken[c], Head(queue[c])) \in Seq(Messages)
      BY <2>2
    <2> QED
      BY <1>2, <2>2, <2>3 DEF TakeNext, Take
  <1>3. CASE ReturnConsumer(c)
    BY <1>3 DEF ReturnConsumer, Return
  <1>4. CASE CancelConsumer(c)
    <2>1. <<>> \in Seq(Messages) /\ Len(<<>>) <= MaxSize
      OBVIOUS
    <2> QED
      BY <1>4, <2>1 DEF CancelConsumer, Cancel
  <1> QED
    BY <1>1, <1>2, <1>3, <1>4

LEMMA TypeStep == TypeOK /\ [Next]_vars => TypeOK'
  <1> SUFFICES ASSUME TypeOK, [Next]_vars PROVE TypeOK'
    OBVIOUS
  <1>1. CASE UNCHANGED vars
    BY <1>1 DEF TypeOK, BusTypeOK, vars, bus
  <1> QED
    BY <1>1, TypePublish, TypeConsumer DEF Next

\* Every variable of the bus has its type, and no queue exceeds its limit, for
\* any number of channels, consumers and messages.
THEOREM BusTypeCorrect == Spec => []TypeOK
  BY TypeInit, TypeStep, PTL DEF Spec

-----------------------------------------------------------------------------
(* Order. *)

LEMMA MessagesAreNumbers == \A m \in Messages : m \in Nat
  BY DeliveryAssumption

LEMMA ItemsAreNumbers ==
    ASSUME NEW s \in Seq(Messages)
    PROVE  Len(s) \in Nat /\ \A n \in 1..Len(s) : s[n] \in Nat /\ s[n] \in Messages
  <1>1. Len(s) \in Nat /\ \A n \in 1..Len(s) : s[n] \in Messages
    OBVIOUS
  <1> QED
    BY <1>1, MessagesAreNumbers

LEMMA ConsumerTypes ==
    ASSUME TypeOK, NEW c \in Consumers
    PROVE  /\ queue[c] \in Seq(Messages)
           /\ taken[c] \in Seq(Messages)
           /\ since[c] \in Nat
           /\ ChannelOf[c] \in Channels
           /\ published[ChannelOf[c]] \in Nat
           /\ Len(queue[c]) \in Nat
           /\ Len(taken[c]) \in Nat
  <1>1. queue[c] \in Seq(Messages) /\ taken[c] \in Seq(Messages)
    BY DEF TypeOK, BusTypeOK
  <1>2. ChannelOf[c] \in Channels
    BY BusAssumption
  <1>3. since[c] \in 0..MaxPublished /\ published[ChannelOf[c]] \in 0..MaxPublished
    BY <1>2 DEF TypeOK
  <1> QED
    BY <1>1, <1>2, <1>3, DeliveryAssumption

LEMMA WithinHigher ==
    ASSUME NEW s \in Seq(Messages), NEW low \in Nat, NEW high \in Nat,
           NEW higher \in Nat, high <= higher, Within(s, low, high)
    PROVE  /\ Within(s, low, higher)
           /\ \A n \in 1..Len(s) : s[n] < high + 1
  BY ItemsAreNumbers DEF Within

LEMMA AppendToIncreasing ==
    ASSUME NEW s \in Seq(Messages), NEW m \in Messages, Increasing(s),
           \A n \in 1..Len(s) : s[n] < m
    PROVE  Increasing(Append(s, m))
  <1>1. /\ Len(Append(s, m)) = Len(s) + 1
        /\ \A n \in 1..Len(s) : Append(s, m)[n] = s[n]
        /\ Append(s, m)[Len(s) + 1] = m
    OBVIOUS
  <1> QED
    BY <1>1 DEF Increasing

LEMMA AppendWithin ==
    ASSUME NEW s \in Seq(Messages), NEW m \in Messages, NEW low \in Nat,
           NEW high \in Nat, Within(s, low, high), low < m, m <= high
    PROVE  Within(Append(s, m), low, high)
  <1>1. /\ Len(Append(s, m)) = Len(s) + 1
        /\ \A n \in 1..Len(s) : Append(s, m)[n] = s[n]
        /\ Append(s, m)[Len(s) + 1] = m
    OBVIOUS
  <1> QED
    BY <1>1 DEF Within

\* A publication appends the newest message of the channel, or nothing.
LEMMA OrderedPublish ==
    ASSUME TypeOK, Ordered, NEW ch \in Channels, PublishNext(ch)
    PROVE  Ordered'
  <1> DEFINE m == published[ch] + 1
  <1>1. m \in Messages /\ published[ch] \in Nat
    BY DeliveryAssumption DEF TypeOK, PublishNext
  <1> SUFFICES ASSUME NEW c \in Consumers PROVE OrderedFor(c)'
    BY DEF Ordered
  <1>2. /\ queue[c] \in Seq(Messages)
        /\ taken[c] \in Seq(Messages)
        /\ since[c] \in Nat
        /\ ChannelOf[c] \in Channels
        /\ published[ChannelOf[c]] \in Nat
        /\ OrderedFor(c)
    BY ConsumerTypes DEF Ordered
  <1>3. taken' = taken /\ since' = since
    BY DEF PublishNext
  <1>4. published'[ChannelOf[c]] = IF ChannelOf[c] = ch THEN m ELSE published[ChannelOf[c]]
    BY <1>2 DEF TypeOK, PublishNext
  <1>5. \/ queue'[c] = queue[c]
        \/ queue'[c] = Append(queue[c], m) /\ ChannelOf[c] = ch
    BY DEF PublishNext, Publish, Enqueued, Subscribers
  <1>6. published'[ChannelOf[c]] \in Nat /\ published[ChannelOf[c]] <= published'[ChannelOf[c]]
    BY <1>1, <1>2, <1>4
  <1>7. Within(taken[c], since[c], published'[ChannelOf[c]])
    BY <1>2, <1>6, WithinHigher DEF OrderedFor
  <1>8. Within(queue[c], since[c], published'[ChannelOf[c]])
    BY <1>2, <1>6, WithinHigher DEF OrderedFor
  <1>0. since[c] <= published'[ChannelOf[c]]
    BY <1>2, <1>6 DEF OrderedFor
  <1>9. CASE queue'[c] = queue[c]
    BY <1>0, <1>2, <1>3, <1>7, <1>8, <1>9 DEF OrderedFor
  <1>10. CASE queue'[c] = Append(queue[c], m) /\ ChannelOf[c] = ch
    <2>1. \A n \in 1..Len(queue[c]) : queue[c][n] < m
      BY <1>2, <1>10, WithinHigher DEF OrderedFor
    <2>2. \A n \in 1..Len(taken[c]) : taken[c][n] < m
      BY <1>2, <1>10, WithinHigher DEF OrderedFor
    <2>3. Increasing(queue'[c])
      BY <1>1, <1>2, <1>10, <2>1, AppendToIncreasing DEF OrderedFor
    <2>4. since[c] < m
      <3>1. since[c] <= published[ChannelOf[c]]
        BY <1>2 DEF OrderedFor
      <3> QED
        BY <1>1, <1>2, <1>10, <3>1
    <2>5. Within(queue'[c], since[c], published'[ChannelOf[c]])
      BY <1>1, <1>2, <1>4, <1>6, <1>8, <1>10, <2>4, AppendWithin
    <2>6. Below(taken[c], queue'[c])
      <3>1. /\ Len(queue'[c]) = Len(queue[c]) + 1
            /\ \A n \in 1..Len(queue[c]) : queue'[c][n] = queue[c][n]
            /\ queue'[c][Len(queue[c]) + 1] = m
        BY <1>1, <1>2, <1>10
      <3> QED
        BY <1>2, <2>2, <3>1 DEF OrderedFor, Below
    <2> QED
      BY <1>0, <1>2, <1>3, <1>7, <2>3, <2>5, <2>6 DEF OrderedFor
  <1> QED
    BY <1>5, <1>9, <1>10

\* A consumer starts afresh, moves the head of its queue, or loses its queue.
LEMMA OrderedConsumer ==
    ASSUME TypeOK, Ordered, NEW d \in Consumers,
           StartConsumer(d) \/ TakeNext(d) \/ ReturnConsumer(d) \/ CancelConsumer(d)
    PROVE  Ordered'
  <1> SUFFICES ASSUME NEW c \in Consumers PROVE OrderedFor(c)'
    BY DEF Ordered
  <1>1. /\ queue[c] \in Seq(Messages)
        /\ taken[c] \in Seq(Messages)
        /\ published[ChannelOf[c]] \in Nat
        /\ OrderedFor(c)
    BY ConsumerTypes DEF Ordered
  <1>2. published' = published
    BY DEF StartConsumer, TakeNext, ReturnConsumer, CancelConsumer
  <1>3. CASE c # d
    <2>1. queue'[c] = queue[c] /\ taken'[c] = taken[c] /\ since'[c] = since[c]
      BY <1>3 DEF StartConsumer, TakeNext, ReturnConsumer, CancelConsumer,
                  Start, Take, Return, Cancel, TypeOK, BusTypeOK
    <2> QED
      BY <1>1, <1>2, <2>1 DEF OrderedFor
  <1>4. CASE c = d /\ StartConsumer(c)
    <2>1. /\ queue'[c] = <<>>
          /\ taken'[c] = <<>>
          /\ since'[c] = published[ChannelOf[c]]
      BY <1>4 DEF StartConsumer, Start, TypeOK, BusTypeOK
    <2> QED
      BY <1>1, <1>2, <2>1 DEF OrderedFor, Increasing, Below, Within
  <1>5. CASE c = d /\ ReturnConsumer(c)
    <2>1. queue' = queue /\ taken' = taken /\ since' = since
      BY <1>5 DEF ReturnConsumer, Return
    <2> QED
      BY <1>1, <1>2, <2>1 DEF OrderedFor
  <1>6. CASE c = d /\ CancelConsumer(c)
    <2>1. queue'[c] = <<>> /\ taken' = taken /\ since' = since
      BY <1>6 DEF CancelConsumer, Cancel, TypeOK, BusTypeOK
    <2> QED
      BY <1>1, <1>2, <2>1 DEF OrderedFor, Increasing, Below, Within
  <1>7. CASE c = d /\ TakeNext(c)
    <2> DEFINE q == queue[c]
               t == taken[c]
               m == Head(q)
    <2>1. /\ q # <<>>
          /\ queue'[c] = Tail(q)
          /\ taken'[c] = Append(t, m)
          /\ since' = since
      BY <1>7 DEF TakeNext, Take, TypeOK, BusTypeOK
    <2>9. /\ m \in Messages /\ m = q[1]
          /\ Len(q) \in Nat \ {0}
          /\ Len(Tail(q)) = Len(q) - 1
          /\ \A n \in 1..Len(Tail(q)) : Tail(q)[n] = q[n + 1]
      BY <1>1, <2>1, HeadAndTail
    <2>2. /\ m \in Messages /\ m = q[1] /\ m \in Nat
          /\ Len(q) \in Nat \ {0} /\ Len(t) \in Nat
          /\ Len(Tail(q)) = Len(q) - 1
          /\ \A n \in 1..Len(Tail(q)) : Tail(q)[n] = q[n + 1]
      BY <2>9, ConsumerTypes, MessagesAreNumbers
    <2>3. /\ Len(Append(t, m)) = Len(t) + 1
          /\ \A n \in 1..Len(t) : Append(t, m)[n] = t[n]
          /\ Append(t, m)[Len(t) + 1] = m
      BY <1>1, <2>2
    <2>4. Increasing(Append(t, m))
      <3>1. \A n \in 1..Len(t) : t[n] < m
        BY <1>1, <2>2 DEF OrderedFor, Below
      <3> QED
        BY <1>1, <2>2, <3>1, AppendToIncreasing DEF OrderedFor
    <2>5. Increasing(Tail(q))
      BY <1>1, <2>2 DEF OrderedFor, Increasing
    <2>6. Below(Append(t, m), Tail(q))
      <3> SUFFICES ASSUME NEW i \in 1..Len(Append(t, m)), NEW j \in 1..Len(Tail(q))
                   PROVE  Append(t, m)[i] < Tail(q)[j]
        BY DEF Below
      <3>1. j + 1 \in 1..Len(q) /\ 1 \in 1..Len(q) /\ 1 < j + 1
        BY <2>2
      <3>2. CASE i \in 1..Len(t)
        BY <1>1, <2>2, <2>3, <3>1, <3>2 DEF OrderedFor, Below
      <3>3. CASE i = Len(t) + 1
        BY <1>1, <2>2, <2>3, <3>1, <3>3 DEF OrderedFor, Increasing
      <3> QED
        BY <2>2, <2>3, <3>2, <3>3
    <2>7. Within(Append(t, m), since[c], published[ChannelOf[c]])
      BY <1>1, <2>2, <2>3 DEF OrderedFor, Within
    <2>8. Within(Tail(q), since[c], published[ChannelOf[c]])
      BY <1>1, <2>2 DEF OrderedFor, Within
    <2> QED
      BY <1>1, <1>2, <2>1, <2>4, <2>5, <2>6, <2>7, <2>8 DEF OrderedFor
  <1> QED
    BY <1>3, <1>4, <1>5, <1>6, <1>7

LEMMA OrderedInit == Init => Ordered
  BY BusAssumption DEF Init, BusInit, Ordered, OrderedFor, Increasing, Below, Within

LEMMA OrderedStep == TypeOK /\ Ordered /\ [Next]_vars => Ordered'
  <1> SUFFICES ASSUME TypeOK, Ordered, [Next]_vars PROVE Ordered'
    OBVIOUS
  <1>1. CASE UNCHANGED vars
    BY <1>1 DEF Ordered, OrderedFor, vars, bus
  <1> QED
    BY <1>1, OrderedPublish, OrderedConsumer DEF Next

LEMMA Concatenation ==
    ASSUME NEW t \in Seq(Messages), NEW q \in Seq(Messages)
    PROVE  /\ Len(t) \in Nat /\ Len(q) \in Nat
           /\ DOMAIN (t \o q) = 1..(Len(t) + Len(q))
           /\ \A n \in 1..Len(t) : (t \o q)[n] = t[n]
           /\ \A n \in 1..Len(q) : (t \o q)[n + Len(t)] = q[n]
  OBVIOUS

\* s is t followed by q, without a concatenation in the provers' sight.
Joined(s, t, q) ==
    /\ Len(t) \in Nat /\ Len(q) \in Nat
    /\ DOMAIN s = 1..(Len(t) + Len(q))
    /\ \A n \in 1..Len(t) : s[n] = t[n]
    /\ \A n \in 1..Len(q) : s[n + Len(t)] = q[n]

Above(s, low) == \A n \in 1..Len(s) : s[n] \in Nat /\ low < s[n]

OrderedAbove(s, low) ==
    /\ \A m, n \in DOMAIN s : m < n => s[m] < s[n]
    /\ \A m \in DOMAIN s : s[m] > low

LEMMA JoinedIsOrdered ==
    ASSUME NEW t, NEW q, NEW s, NEW low \in Nat,
           Joined(s, t, q), Above(t, low), Above(q, low),
           Increasing(t), Increasing(q), Below(t, q)
    PROVE  OrderedAbove(s, low)
  <1> DEFINE k == Len(t)
             l == Len(q)
  <1>0. /\ k \in Nat /\ l \in Nat
        /\ DOMAIN s = 1..(k + l)
        /\ \A n \in 1..k : s[n] = t[n]
        /\ \A n \in 1..l : s[n + k] = q[n]
        /\ \A n \in 1..k : t[n] \in Nat /\ low < t[n]
        /\ \A n \in 1..l : q[n] \in Nat /\ low < q[n]
    BY DEF Joined, Above
  <1>1. ASSUME NEW n \in DOMAIN s, n > k
        PROVE  n - k \in 1..l /\ s[n] = q[n - k] /\ n = (n - k) + k
    <2>1. n - k \in 1..l /\ n = (n - k) + k
      BY <1>0, <1>1
    <2> QED
      BY <1>0, <2>1
  <1>2. ASSUME NEW n \in DOMAIN s, ~(n > k)
        PROVE  n \in 1..k /\ s[n] = t[n]
    BY <1>0, <1>2
  <1>3. ASSUME NEW m \in DOMAIN s, NEW n \in DOMAIN s, m < n
        PROVE  s[m] < s[n]
    <2>1. m \in Nat /\ n \in Nat
      BY <1>0
    <2>2. CASE n > k /\ m > k
      <3>1. m - k < n - k
        BY <1>0, <1>3, <2>1
      <3> QED
        BY <1>0, <1>1, <2>2, <3>1 DEF Increasing
    <2>3. CASE n > k /\ ~(m > k)
      BY <1>0, <1>1, <1>2, <2>3 DEF Below
    <2>4. CASE ~(n > k) /\ ~(m > k)
      BY <1>0, <1>2, <1>3, <2>4 DEF Increasing
    <2> QED
      BY <1>0, <1>3, <2>1, <2>2, <2>3, <2>4
  <1>4. ASSUME NEW m \in DOMAIN s PROVE s[m] > low
    <2>1. CASE m > k
      <3>1. s[m] \in Nat /\ low < s[m]
        BY <1>0, <1>1, <2>1
      <3> QED
        BY <3>1
    <2>2. CASE ~(m > k)
      <3>1. s[m] \in Nat /\ low < s[m]
        BY <1>0, <1>2, <2>2
      <3> QED
        BY <3>1
    <2> QED
      BY <1>0, <2>1, <2>2
  <1> QED
    BY <1>3, <1>4 DEF OrderedAbove

LEMMA OrderedIsInOrder == TypeOK /\ Ordered => InOrder
  <1> SUFFICES ASSUME TypeOK, Ordered, NEW c \in Consumers
               PROVE  LET s == taken[c] \o queue[c] IN
                      /\ \A m, n \in DOMAIN s : m < n => s[m] < s[n]
                      /\ \A m \in DOMAIN s : s[m] > since[c]
    BY DEF InOrder
  <1>1. /\ taken[c] \in Seq(Messages)
        /\ queue[c] \in Seq(Messages)
        /\ since[c] \in Nat
        /\ OrderedFor(c)
    BY ConsumerTypes DEF Ordered
  <1>2. Above(taken[c], since[c])
    BY <1>1, ItemsAreNumbers DEF OrderedFor, Within, Above
  <1>3. Above(queue[c], since[c])
    BY <1>1, ItemsAreNumbers DEF OrderedFor, Within, Above
  <1>4. Increasing(taken[c]) /\ Increasing(queue[c]) /\ Below(taken[c], queue[c])
    BY <1>1 DEF OrderedFor
  <1>5. PICK s : s = taken[c] \o queue[c]
    OBVIOUS
  <1>6. Joined(s, taken[c], queue[c])
    BY <1>1, <1>5, Concatenation DEF Joined
  <1>7. OrderedAbove(s, since[c])
    BY <1>1, <1>2, <1>3, <1>4, <1>6, JoinedIsOrdered
  <1> QED
    BY <1>5, <1>7 DEF OrderedAbove

\* Each consumer is given messages published after it subscribed, each at most
\* once and in the order of publication, and so are those that wait for it.
THEOREM InOrderAlways == Spec => []InOrder
  <1>1. Init => TypeOK /\ Ordered
    BY TypeInit, OrderedInit
  <1>2. TypeOK /\ Ordered /\ [Next]_vars => (TypeOK /\ Ordered)'
    BY TypeStep, OrderedStep
  <1> QED
    BY <1>1, <1>2, OrderedIsInOrder, PTL DEF Spec

-----------------------------------------------------------------------------
(* Refinement. *)

LEMMA InitRefines == Init => Lossy!Init
  BY DEF Init, Lossy!Init

LEMMA TakeRefines ==
    ASSUME TypeOK, Ordered, NEW c \in Consumers, TakeNext(c)
    PROVE  \E n \in 1..published[ChannelOf[c]] : Lossy!Deliver(c, n)
  <1> DEFINE m == Head(queue[c])
  <1>1. /\ queue[c] \in Seq(Messages) /\ queue[c] # <<>>
        /\ taken[c] \in Seq(Messages)
        /\ since[c] \in Nat
        /\ published[ChannelOf[c]] \in Nat
        /\ Len(taken[c]) \in Nat
        /\ OrderedFor(c)
    BY ConsumerTypes DEF Ordered, TakeNext, Take
  <1>2. /\ m = queue[c][1] /\ m \in Messages
        /\ Len(queue[c]) \in Nat \ {0}
    BY <1>1, HeadAndTail
  <1>6. m \in Nat /\ 1 \in 1..Len(queue[c])
    BY <1>2, MessagesAreNumbers
  <1>3. since[c] < m /\ m <= published[ChannelOf[c]]
    BY <1>1, <1>2, <1>6 DEF OrderedFor, Within
  <1>4. m > Lossy!Last(c)
    <2>1. CASE taken[c] = <<>>
      BY <1>1, <1>3, <1>6, <2>1 DEF Lossy!Last
    <2>2. CASE taken[c] # <<>>
      <3>1. Len(taken[c]) \in 1..Len(taken[c])
        <4>1. Len(taken[c]) \in Nat \ {0}
          BY <1>1, <2>2, HeadAndTail
        <4> QED
          BY <4>1
      <3>2. taken[c][Len(taken[c])] < m
        BY <1>1, <1>2, <1>6, <3>1 DEF OrderedFor, Below
      <3>3. taken[c][Len(taken[c])] \in Nat
        BY <1>1, <3>1, ItemsAreNumbers
      <3> QED
        BY <1>6, <2>2, <3>2, <3>3 DEF Lossy!Last
    <2> QED
      BY <2>1, <2>2
  <1>5. m \in 1..published[ChannelOf[c]]
    BY <1>1, <1>3, <1>6
  <1> QED
    BY <1>4, <1>5 DEF Lossy!Deliver, TakeNext

LEMMA StepRefines ==
    TypeOK /\ Ordered /\ [Next]_vars => [Lossy!Next]_<<published, since, taken>>
  <1> SUFFICES ASSUME TypeOK, Ordered, [Next]_vars
               PROVE  Lossy!Next \/ UNCHANGED <<published, since, taken>>
    OBVIOUS
  <1>1. CASE UNCHANGED vars
    BY <1>1 DEF vars
  <1>2. ASSUME NEW ch \in Channels, PublishNext(ch) PROVE Lossy!Next
    BY <1>2 DEF PublishNext, Lossy!Next, Lossy!Send
  <1>3. ASSUME NEW c \in Consumers, StartConsumer(c) PROVE Lossy!Next
    BY <1>3 DEF StartConsumer, Lossy!Next, Lossy!Subscribe
  <1>4. ASSUME NEW c \in Consumers, TakeNext(c) PROVE Lossy!Next
    BY <1>4, TakeRefines DEF Lossy!Next
  <1>5. ASSUME NEW c \in Consumers, ReturnConsumer(c) \/ CancelConsumer(c)
        PROVE  UNCHANGED <<published, since, taken>>
    BY <1>5 DEF ReturnConsumer, CancelConsumer
  <1> QED
    BY <1>1, <1>2, <1>3, <1>4, <1>5 DEF Next

\* The bus implements LossyDelivery: publications map to Send, subscriptions to
\* Subscribe, queue.get to Deliver, everything else to a stutter.
THEOREM BusRefinesLossyDelivery == Spec => DeliversInOrder
  <1>1. Init => TypeOK /\ Ordered
    BY TypeInit, OrderedInit
  <1>2. TypeOK /\ Ordered /\ [Next]_vars => (TypeOK /\ Ordered)'
    BY TypeStep, OrderedStep
  <1> QED
    BY <1>1, <1>2, InitRefines, StepRefines, PTL DEF Spec, DeliversInOrder, Lossy!Spec

-----------------------------------------------------------------------------
(* Nothing is lost silently. *)

LEMMA ItemsOfAppend ==
    ASSUME NEW s \in Seq(Messages), NEW m \in Messages
    PROVE  Items(Append(s, m)) = Items(s) \cup {m}
  <1> DEFINE t == Append(s, m)
  <1>1. /\ Len(s) \in Nat /\ DOMAIN s = 1..Len(s)
        /\ DOMAIN t = 1..(Len(s) + 1)
        /\ \A n \in 1..Len(s) : t[n] = s[n]
        /\ t[Len(s) + 1] = m
    OBVIOUS
  <1> HIDE DEF t
  <1>2. Len(s) + 1 \in DOMAIN t /\ DOMAIN s \subseteq DOMAIN t
    BY <1>1
  <1>3. \A n \in DOMAIN t : n = Len(s) + 1 \/ n \in DOMAIN s
    BY <1>1
  <1>4. Items(t) \subseteq Items(s) \cup {m}
    BY <1>1, <1>3 DEF Items
  <1>5. Items(s) \cup {m} \subseteq Items(t)
    BY <1>1, <1>2 DEF Items
  <1> QED BY <1>4, <1>5 DEF t

LEMMA ItemsOfQueue ==
    ASSUME NEW q \in Seq(Messages), q # <<>>
    PROVE  Items(q) = {Head(q)} \cup Items(Tail(q))
  <1>1. /\ Len(q) \in Nat \ {0} /\ DOMAIN q = 1..Len(q)
        /\ Head(q) = q[1]
        /\ DOMAIN Tail(q) = 1..(Len(q) - 1)
        /\ \A n \in 1..(Len(q) - 1) : Tail(q)[n] = q[n + 1]
    <2>1. Tail(q) \in Seq(Messages) /\ Len(Tail(q)) = Len(q) - 1
          /\ Len(q) \in Nat \ {0} /\ Head(q) = q[1]
          /\ \A n \in 1..Len(Tail(q)) : Tail(q)[n] = q[n + 1]
      BY HeadAndTail
    <2>2. \A s \in Seq(Messages) : DOMAIN s = 1..Len(s)
      OBVIOUS
    <2>3. DOMAIN q = 1..Len(q) /\ DOMAIN Tail(q) = 1..Len(Tail(q))
      BY <2>1, <2>2
    <2> QED BY <2>1, <2>3
  <1>2. ASSUME NEW n \in DOMAIN q
        PROVE  n = 1 \/ (n - 1 \in DOMAIN Tail(q) /\ q[n] = Tail(q)[n - 1])
    BY <1>1
  <1>3. ASSUME NEW n \in DOMAIN Tail(q)
        PROVE  n + 1 \in DOMAIN q /\ Tail(q)[n] = q[n + 1]
    BY <1>1
  <1>4. Items(q) \subseteq {Head(q)} \cup Items(Tail(q))
    <2>1. ASSUME NEW n \in DOMAIN q
          PROVE  q[n] \in {Head(q)} \cup Items(Tail(q))
      BY <1>1, <1>2 DEF Items
    <2> QED BY <2>1 DEF Items
  <1>5. {Head(q)} \cup Items(Tail(q)) \subseteq Items(q)
    <2>1. 1 \in DOMAIN q
      BY <1>1
    <2> QED BY <1>1, <1>3, <2>1 DEF Items
  <1> QED BY <1>4, <1>5

\* The share of consumer c: what it was given or waits for it, and what it lost.
Given(c) == Items(taken[c]) \cup Items(queue[c])

AccountedFor(c) ==
    /\ Given(c) \cup dropped[c] = (since[c] + 1)..published[ChannelOf[c]]
    /\ Given(c) \cap dropped[c] = {}

\* A publication on a consumer's channel adds the new message to one of the two.
LEMMA AccountedPublish ==
    ASSUME TypeOK, Ordered, NEW ch \in Channels, PublishNext(ch),
           NEW c \in subscribed, AccountedFor(c)
    PROVE  AccountedFor(c)'
  <1> DEFINE m == published[ch] + 1
  <1>1. c \in Consumers
    BY DEF TypeOK, BusTypeOK
  <1>2. /\ queue[c] \in Seq(Messages) /\ since[c] \in Nat
        /\ ChannelOf[c] \in Channels
        /\ published[ChannelOf[c]] \in Nat
        /\ since[c] <= published[ChannelOf[c]]
        /\ m \in Messages
    BY <1>1, ConsumerTypes, DeliveryAssumption
       DEF Ordered, OrderedFor, TypeOK, PublishNext
  <1>3. since' = since /\ taken' = taken
        /\ published' = [published EXCEPT ![ch] = m]
    BY DEF PublishNext
  <1>4. queue'[c] = IF ChannelOf[c] = ch /\ ~Full(c) THEN Append(queue[c], m)
                                                     ELSE queue[c]
    BY <1>1 DEF PublishNext, Publish, Enqueued, Subscribers
  <1>5. dropped'[c] = IF ChannelOf[c] = ch /\ Full(c) THEN dropped[c] \cup {m}
                                                      ELSE dropped[c]
    BY <1>1 DEF PublishNext, Subscribers
  <1>6. CASE ChannelOf[c] # ch
    BY <1>2, <1>3, <1>4, <1>5, <1>6 DEF AccountedFor, Given, TypeOK
  <1>7. CASE ChannelOf[c] = ch
    <2>1. published'[ChannelOf[c]] = m /\ m = published[ChannelOf[c]] + 1
      BY <1>2, <1>3, <1>7 DEF TypeOK
    <2>2. (since[c] + 1)..m = ((since[c] + 1)..published[ChannelOf[c]]) \cup {m}
          /\ m \notin (since[c] + 1)..published[ChannelOf[c]]
      BY <1>2, <2>1
    <2>3. Items(queue'[c]) \cup dropped'[c] = Items(queue[c]) \cup dropped[c] \cup {m}
      BY <1>2, <1>4, <1>5, <1>7, ItemsOfAppend
    <2>4. Given(c)' \cap dropped'[c] = {}
      <3>1. m \notin Given(c) /\ m \notin dropped[c] /\ Given(c) \cap dropped[c] = {}
        BY <2>2 DEF AccountedFor
      <3>2. CASE Full(c)
        BY <1>3, <1>4, <1>5, <1>7, <3>1, <3>2 DEF Given
      <3>3. CASE ~Full(c)
        <4>1. Items(queue'[c]) = Items(queue[c]) \cup {m} /\ dropped'[c] = dropped[c]
          BY <1>2, <1>4, <1>5, <1>7, <3>3, ItemsOfAppend
        <4> QED BY <1>3, <3>1, <4>1 DEF Given
      <3> QED BY <3>2, <3>3
    <2>5. Given(c)' \cup dropped'[c] = (since'[c] + 1)..published'[ChannelOf[c]]
      <3>1. Given(c)' \cup dropped'[c] = Given(c) \cup dropped[c] \cup {m}
        BY <1>3, <2>3 DEF Given
      <3>2. Given(c) \cup dropped[c] = (since[c] + 1)..published[ChannelOf[c]]
        BY DEF AccountedFor
      <3> QED BY <1>3, <2>1, <2>2, <3>1, <3>2
    <2> QED BY <2>4, <2>5 DEF AccountedFor
  <1> QED BY <1>6, <1>7

\* A consumer moves a message from its queue to its handler, or starts afresh.
LEMMA AccountedConsumer ==
    ASSUME TypeOK, Ordered, \A c \in subscribed : AccountedFor(c), NEW d \in Consumers,
           StartConsumer(d) \/ TakeNext(d) \/ ReturnConsumer(d) \/ CancelConsumer(d),
           NEW c \in subscribed'
    PROVE  AccountedFor(c)'
  <1> USE DEF TypeOK, BusTypeOK
  <1>1. published' = published /\ (c \in subscribed \/ (c = d /\ StartConsumer(d)))
    BY DEF StartConsumer, TakeNext, ReturnConsumer, CancelConsumer,
           Start, Take, Return, Cancel
  <1>2. c \in Consumers
    BY <1>1
  <1>3. CASE c = d /\ StartConsumer(d)
    <2>1. /\ queue'[c] = <<>> /\ taken'[c] = <<>> /\ dropped'[c] = {}
          /\ since'[c] = published[ChannelOf[c]]
      BY <1>3 DEF StartConsumer, Start
    <2>2. (published[ChannelOf[c]] + 1)..published[ChannelOf[c]] = {}
      BY <1>2, ConsumerTypes
    <2>3. Items(<<>>) = {}
      BY DEF Items
    <2> QED BY <1>1, <2>1, <2>2, <2>3 DEF AccountedFor, Given
  <1>4. CASE c # d
    <2>1. /\ queue'[c] = queue[c] /\ taken'[c] = taken[c] /\ dropped'[c] = dropped[c]
          /\ since'[c] = since[c]
      BY <1>2, <1>4 DEF StartConsumer, TakeNext, ReturnConsumer, CancelConsumer,
                        Start, Take, Return, Cancel
    <2> QED BY <1>1, <1>4, <2>1 DEF AccountedFor, Given
  <1>5. CASE c = d /\ ReturnConsumer(d)
    <2>1. UNCHANGED <<queue, taken, dropped, since, subscribed>>
      BY <1>5 DEF ReturnConsumer, Return
    <2> QED BY <1>1, <2>1 DEF AccountedFor, Given
  <1>6. CASE c = d /\ TakeNext(d)
    <2>1. /\ queue[c] # <<>> /\ queue[c] \in Seq(Messages) /\ taken[c] \in Seq(Messages)
          /\ queue'[c] = Tail(queue[c])
          /\ taken'[c] = Append(taken[c], Head(queue[c]))
          /\ UNCHANGED <<dropped, since, subscribed>>
      BY <1>6 DEF TakeNext, Take
    <2>2. Head(queue[c]) \in Messages
      BY <2>1, HeadAndTail
    <2>3. Given(c)' = Given(c)
      BY <2>1, <2>2, ItemsOfAppend, ItemsOfQueue DEF Given
    <2> QED BY <1>1, <2>1, <2>3 DEF AccountedFor
  <1>7. CASE c = d /\ CancelConsumer(d)
    BY <1>1, <1>7 DEF CancelConsumer, Cancel
  <1> QED BY <1>3, <1>4, <1>5, <1>6, <1>7

AccountedInv == TypeOK /\ Ordered /\ AllAccounted

LEMMA AccountedInvInit == Init => AccountedInv
  BY TypeInit, OrderedInit DEF Init, BusInit, AccountedInv, AllAccounted

LEMMA AccountedInvStep == AccountedInv /\ [Next]_vars => AccountedInv'
  <1> SUFFICES ASSUME AccountedInv, [Next]_vars PROVE AccountedInv'
    OBVIOUS
  <1>1. TypeOK /\ Ordered /\ (TypeOK /\ Ordered)'
    BY TypeStep, OrderedStep DEF AccountedInv
  <1>2. \A c \in subscribed : AccountedFor(c)
    BY DEF AccountedInv, AllAccounted, AccountedFor, Given
  <1>3. ASSUME NEW c \in subscribed' PROVE AccountedFor(c)'
    <2>1. CASE UNCHANGED vars
      BY <1>2, <1>3, <2>1 DEF vars, bus, AccountedFor, Given
    <2>2. CASE \E ch \in Channels : PublishNext(ch)
      <3>1. subscribed' = subscribed
        BY <2>2 DEF PublishNext, Publish
      <3> QED BY <1>1, <1>2, <1>3, <2>2, <3>1, AccountedPublish
    <2>3. CASE \E d \in Consumers : \/ StartConsumer(d) \/ TakeNext(d)
                                    \/ ReturnConsumer(d) \/ CancelConsumer(d)
      BY <1>1, <1>2, <1>3, <2>3, AccountedConsumer
    <2> QED BY <2>1, <2>2, <2>3 DEF Next
  <1> QED BY <1>1, <1>3 DEF AccountedInv, AllAccounted, AccountedFor, Given

\* No message of a subscriber's channel vanishes: it was given to the consumer,
\* waits for it, or was counted as dropped, and never two of these, for any
\* queue size and whatever the other consumers of the channel do.
THEOREM AllAccountedAlways == Spec => []AllAccounted
  BY AccountedInvInit, AccountedInvStep, PTL DEF Spec, AccountedInv
=============================================================================
