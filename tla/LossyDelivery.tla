--------------------------- MODULE LossyDelivery ---------------------------
(***************************************************************************)
(* What the event bus promises a subscriber: it sees messages of its       *)
(* channel published after it subscribed, each at most once, in the order  *)
(* of publication.  Any of them may be missing.                            *)
(***************************************************************************)
EXTENDS Naturals, Sequences

CONSTANTS Channels, Consumers, ChannelOf

VARIABLES
    published,    \* channel -> number of messages published so far
    since,        \* consumer -> published at its subscription
    taken         \* consumer -> numbers of the messages it was given

Last(c) == IF taken[c] = <<>> THEN since[c] ELSE taken[c][Len(taken[c])]

Init ==
    /\ published = [ch \in Channels |-> 0]
    /\ since = [c \in Consumers |-> 0]
    /\ taken = [c \in Consumers |-> <<>>]

Send(ch) ==
    /\ published' = [published EXCEPT ![ch] = @ + 1]
    /\ UNCHANGED <<since, taken>>

Subscribe(c) ==
    /\ since' = [since EXCEPT ![c] = published[ChannelOf[c]]]
    /\ taken' = [taken EXCEPT ![c] = <<>>]
    /\ UNCHANGED published

Deliver(c, n) ==
    /\ n > Last(c)
    /\ taken' = [taken EXCEPT ![c] = Append(@, n)]
    /\ UNCHANGED <<published, since>>

Next ==
    \/ \E ch \in Channels : Send(ch)
    \/ \E c \in Consumers :
         Subscribe(c) \/ \E n \in 1..published[ChannelOf[c]] : Deliver(c, n)

Spec == Init /\ [][Next]_<<published, since, taken>>
=============================================================================
