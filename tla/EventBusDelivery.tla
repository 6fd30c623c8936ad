-------------------------- MODULE EventBusDelivery --------------------------
(***************************************************************************)
(* The event bus with its history: messages are numbered per channel, and  *)
(* every consumer's share of them is recorded.                             *)
(***************************************************************************)
EXTENDS EventBus

CONSTANT MaxPublished    \* bound on the messages published on a channel

ASSUME DeliveryAssumption == MaxPublished \in Nat /\ Messages = 1..MaxPublished

VARIABLES
    published,    \* channel -> number of its last message
    since,        \* consumer -> last message before its subscription
    taken,        \* consumer -> messages its handler was given, in order
    dropped       \* consumer -> messages that found its queue full

vars == <<bus, published, since, taken, dropped>>

Items(s) == {s[n] : n \in DOMAIN s}

TypeOK ==
    /\ BusTypeOK
    /\ published \in [Channels -> 0..MaxPublished]
    /\ since \in [Consumers -> 0..MaxPublished]
    /\ taken \in [Consumers -> Seq(Messages)]
    /\ dropped \in [Consumers -> SUBSET Messages]

Init ==
    /\ BusInit
    /\ published = [ch \in Channels |-> 0]
    /\ since = [c \in Consumers |-> 0]
    /\ taken = [c \in Consumers |-> <<>>]
    /\ dropped = [c \in Consumers |-> {}]

PublishNext(ch) ==
    LET m == published[ch] + 1 IN
    /\ m <= MaxPublished
    /\ Publish(ch, m)
    /\ published' = [published EXCEPT ![ch] = m]
    /\ dropped' = [c \in Consumers |->
                     IF c \in Subscribers(ch) /\ Full(c) THEN dropped[c] \cup {m}
                                                         ELSE dropped[c]]
    /\ UNCHANGED <<since, taken>>

StartConsumer(c) ==
    /\ Start(c)
    /\ since' = [since EXCEPT ![c] = published[ChannelOf[c]]]
    /\ taken' = [taken EXCEPT ![c] = <<>>]
    /\ dropped' = [dropped EXCEPT ![c] = {}]
    /\ UNCHANGED published

TakeNext(c) ==
    /\ Take(c)
    /\ taken' = [taken EXCEPT ![c] = Append(@, Head(queue[c]))]
    /\ UNCHANGED <<published, since, dropped>>

ReturnConsumer(c) == Return(c) /\ UNCHANGED <<published, since, taken, dropped>>

CancelConsumer(c) == Cancel(c) /\ UNCHANGED <<published, since, taken, dropped>>

Next ==
    \/ \E ch \in Channels : PublishNext(ch)
    \/ \E c \in Consumers :
         StartConsumer(c) \/ TakeNext(c) \/ ReturnConsumer(c) \/ CancelConsumer(c)

Spec == Init /\ [][Next]_vars

\* The event loop runs a consumer that can run, and handlers come to an end.
\* Nothing is assumed of publishers, starts and cancellations.
Fairness == \A c \in Consumers : WF_vars(TakeNext(c)) /\ WF_vars(ReturnConsumer(c))

FairSpec == Spec /\ Fairness

-----------------------------------------------------------------------------
(* Properties. *)

\* What a consumer was given and what waits for it is in order of publication,
\* without repetition, and published after it subscribed.
InOrder ==
    \A c \in Consumers :
        LET s == taken[c] \o queue[c] IN
        /\ \A m, n \in DOMAIN s : m < n => s[m] < s[n]
        /\ \A m \in DOMAIN s : s[m] > since[c]

\* Every message since the subscription was given to the consumer, waits for
\* it, or was dropped: exactly one of the three.  No consumer loses a message
\* because another one's queue is full.
AllAccounted ==
    \A c \in subscribed :
        /\ Items(taken[c]) \cup Items(queue[c]) \cup dropped[c]
             = (since[c] + 1)..published[ChannelOf[c]]
        /\ (Items(taken[c]) \cup Items(queue[c])) \cap dropped[c] = {}

\* A message that waits is handed to its consumer, unless that is cancelled.
WaitingIsTaken ==
    \A c \in Consumers : \A m \in Messages :
        m \in Items(queue[c]) ~> m \in Items(taken[c]) \/ c \notin subscribed

Lossy == INSTANCE LossyDelivery
         WITH Channels <- Channels, Consumers <- Consumers, ChannelOf <- ChannelOf,
              published <- published, since <- since, taken <- taken

\* The bus delivers what LossyDelivery allows.
DeliversInOrder == Lossy!Spec
=============================================================================
