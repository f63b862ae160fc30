---------------------------- MODULE EventChannel ----------------------------
(***************************************************************************)
(* The pub/sub channel event:prediction_ready, between publish of          *)
(* backend/events/publisher.py and EventSubscriber._listen of              *)
(* backend/events/subscriber.py.                                           *)
(*                                                                         *)
(* Redis passes a message on to whoever is subscribed when it arrives and  *)
(* keeps nothing.  A message is its number here; published, handled and    *)
(* since are histories, which the program does not have.                   *)
(***************************************************************************)
EXTENDS Integers, Sequences

VARIABLES
    subscribed, \* Redis: the listener's connection is subscribed
    inbox,      \* what the connection has received and the listener not read
    listen,     \* the await the listener is suspended at
    published,  \* how many messages were published
    handled,    \* the messages passed to the handler, in that order
    since       \* the number published when the connection last lost some

channelVars == <<subscribed, inbox, listen, published, handled, since>>

ChannelInit ==
    /\ subscribed = FALSE
    /\ inbox = <<>>
    /\ listen = "off"
    /\ published = 0
    /\ handled = <<>>
    /\ since = 0

(* publish                                                                 *)
Publish ==
    /\ published' = published + 1
    /\ inbox' = IF subscribed THEN Append(inbox, published') ELSE inbox
    /\ UNCHANGED <<subscribed, listen, handled, since>>

(* start: subscribe to the channels with a handler, then create the task.  *)
Listening ==
    /\ subscribed' = TRUE
    /\ listen' = "get"
    /\ since' = published
    /\ UNCHANGED <<inbox, published, handled>>

(* Mutant: the message is removed when the handler has returned, which it  *)
(* may not do.                                                             *)
ReceiveAndKeep ==
    /\ listen = "get"
    /\ inbox # <<>>
    /\ handled' = Append(handled, Head(inbox))
    /\ listen' = "handle"
    /\ UNCHANGED <<inbox, subscribed, published, since>>

(* Mutant: only the newest message is of interest.                         *)
ReceiveNewest ==
    /\ listen = "get"
    /\ inbox # <<>>
    /\ handled' = Append(handled, inbox[Len(inbox)])
    /\ inbox' = <<>>
    /\ listen' = "handle"
    /\ UNCHANGED <<subscribed, published, since>>

(* get_message has one, and the handler is called with it.                 *)
Receive ==
    /\ listen = "get"
    /\ inbox # <<>>
    /\ handled' = Append(handled, Head(inbox))
    /\ inbox' = Tail(inbox)
    /\ listen' = "handle"
    /\ UNCHANGED <<subscribed, published, since>>

(* The listener goes on to the await named by label.                       *)
ListenAt(label) ==
    /\ listen' = label
    /\ UNCHANGED <<subscribed, inbox, published, handled, since>>

(* Redis or the network drops the connection, with what was unread.        *)
ConnectionLost ==
    /\ subscribed
    /\ subscribed' = FALSE
    /\ inbox' = <<>>
    /\ UNCHANGED <<listen, published, handled, since>>

(* get_message raises, the listener sleeps for a second and the next       *)
(* get_message connects and subscribes again.                              *)
Resubscribed ==
    /\ listen = "get"
    /\ ~subscribed
    /\ subscribed' = TRUE
    /\ since' = published
    /\ UNCHANGED <<inbox, listen, published, handled>>

(* disconnect, or a crash: the task ends wherever it is.                   *)
Disconnected ==
    /\ subscribed' = FALSE
    /\ inbox' = <<>>
    /\ listen' = "off"
    /\ UNCHANGED <<published, handled, since>>
=============================================================================
