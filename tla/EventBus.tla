------------------------------ MODULE EventBus ------------------------------
(***************************************************************************)
(* The in-process event bus: every consumer of a channel has a bounded     *)
(* queue of its own and handles one message at a time.  publish never      *)
(* waits: a message that finds a queue full is lost for that consumer.     *)
(*                                                                         *)
(* Other modules INSTANCE this one and build their steps from its          *)
(* operators; EventBusDelivery adds what was published and handled.        *)
(***************************************************************************)
EXTENDS Naturals, Sequences

CONSTANTS
    Channels,
    Consumers,    \* calls of bus.consume
    ChannelOf,    \* consumer -> its channel
    Messages,
    MaxSize       \* maxsize of a subscriber's queue

ASSUME BusAssumption ==
    /\ ChannelOf \in [Consumers -> Channels]
    /\ MaxSize \in Nat \ {0}

VARIABLES
    subscribed,   \* consumers whose queue is in _subscribers
    queue,        \* consumer -> its asyncio.Queue
    handling      \* consumer -> the message its handler is at work on, or <<>>

bus == <<subscribed, queue, handling>>

BusTypeOK ==
    /\ subscribed \subseteq Consumers
    /\ queue \in [Consumers -> Seq(Messages)]
    /\ \A c \in Consumers : Len(queue[c]) <= MaxSize
    /\ handling \in [Consumers -> {<<>>} \cup {<<m>> : m \in Messages}]

BusInit ==
    /\ subscribed = {}
    /\ queue = [c \in Consumers |-> <<>>]
    /\ handling = [c \in Consumers |-> <<>>]

\* The queues a publication on channel ch reaches.
Subscribers(ch) == {c \in subscribed : ChannelOf[c] = ch}

Full(c) == Len(queue[c]) >= MaxSize

BugEnqueuedAllOrNone(ch, m) ==
    [c \in Consumers |-> IF c \in Subscribers(ch) /\ ~(\E d \in Subscribers(ch) : Full(d))
                         THEN Append(queue[c], m) ELSE queue[c]]

BugEnqueuedFront(ch, m) ==
    [c \in Consumers |-> IF c \in Subscribers(ch) /\ ~Full(c)
                         THEN <<m>> \o queue[c] ELSE queue[c]]

BugEnqueuedOldestOut(ch, m) ==
    [c \in Consumers |-> IF c \notin Subscribers(ch) THEN queue[c]
                         ELSE IF Full(c) THEN Append(Tail(queue[c]), m)
                         ELSE Append(queue[c], m)]

BugEnqueuedUnbounded(ch, m) ==
    [c \in Consumers |-> IF c \in Subscribers(ch) THEN Append(queue[c], m)
                                                  ELSE queue[c]]

\* The queues after put_nowait to each subscriber of ch; QueueFull is logged.
Enqueued(ch, m) ==
    [c \in Consumers |-> IF c \in Subscribers(ch) /\ ~Full(c)
                         THEN Append(queue[c], m) ELSE queue[c]]

Publish(ch, m) ==
    /\ queue' = Enqueued(ch, m)
    /\ UNCHANGED <<subscribed, handling>>

\* Several publications in a row, with no step of anyone else between them: a
\* queue takes of ms what it has room for.
PublishAll(ch, ms) ==
    /\ queue' = [c \in Consumers |->
                   LET all == queue[c] \o ms IN
                   IF c \notin Subscribers(ch) THEN queue[c]
                   ELSE IF Len(all) <= MaxSize THEN all
                   ELSE SubSeq(all, 1, MaxSize)]
    /\ UNCHANGED <<subscribed, handling>>

\* consume starts: a new queue is subscribed.
Start(c) ==
    /\ c \notin subscribed
    /\ subscribed' = subscribed \cup {c}
    /\ queue' = [queue EXCEPT ![c] = <<>>]
    /\ UNCHANGED handling

\* The consumer's queue.get returns and its handler begins.
Take(c) ==
    /\ c \in subscribed
    /\ handling[c] = <<>>
    /\ queue[c] # <<>>
    /\ handling' = [handling EXCEPT ![c] = <<Head(queue[c])>>]
    /\ queue' = [queue EXCEPT ![c] = Tail(@)]
    /\ UNCHANGED subscribed

\* The consumer takes a message that its handler is done with in the same step.
Serve(c) ==
    /\ c \in subscribed
    /\ handling[c] = <<>>
    /\ queue[c] # <<>>
    /\ queue' = [queue EXCEPT ![c] = Tail(@)]
    /\ UNCHANGED <<subscribed, handling>>

\* The handler returns, or raises: the message is done with either way.
Return(c) ==
    /\ handling[c] # <<>>
    /\ handling' = [handling EXCEPT ![c] = <<>>]
    /\ UNCHANGED <<subscribed, queue>>

\* The consumer is cancelled, waiting or in its handler: its queue is removed
\* from the bus, with what it holds.
Cancel(c) ==
    /\ c \in subscribed
    /\ subscribed' = subscribed \ {c}
    /\ queue' = [queue EXCEPT ![c] = <<>>]
    /\ handling' = [handling EXCEPT ![c] = <<>>]
=============================================================================
