---------------------------- MODULE LossyChannel ----------------------------
(***************************************************************************)
(* What publish and the listener promise of a channel: messages are        *)
(* received in the order they were published, each at most once.  A        *)
(* message may be lost; a received one never comes back.                   *)
(***************************************************************************)
EXTENDS Integers, Sequences

VARIABLES
    published,  \* how many messages were published; the n-th one is n
    unread,     \* the messages waiting for the receiver
    received    \* the messages the receiver has taken, in that order

channelVars == <<published, unread, received>>

Init ==
    /\ published = 0
    /\ unread = <<>>
    /\ received = <<>>

Publish ==
    /\ published' = published + 1
    /\ unread' \in {unread, Append(unread, published')}
    /\ UNCHANGED received

Receive ==
    /\ unread # <<>>
    /\ received' = Append(received, Head(unread))
    /\ unread' = Tail(unread)
    /\ UNCHANGED published

Lose ==
    /\ unread' = <<>>
    /\ UNCHANGED <<published, received>>

Next == Publish \/ Receive \/ Lose

Spec == Init /\ [][Next]_channelVars
=============================================================================
