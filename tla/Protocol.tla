------------------------------ MODULE Protocol ------------------------------
(***************************************************************************)
(* The sans-I/O protocol state of zeek-websocket: `Binding`, `Inbox` and    *)
(* `Outbox` of src/src/protocol.rs.  The module declares their state and    *)
(* gives one action per method; it has no behaviour of its own.  Binding    *)
(* (any caller) and Service (the event loop of client.rs) each drive it.    *)
(*                                                                         *)
(* A method's return value is the action's parameter r: an action with the  *)
(* wrong r is disabled.                                                     *)
(***************************************************************************)
EXTENDS Naturals, Sequences

CONSTANTS
  Body,    \* what tells two messages apart: topic, event, error code, value
  Subs     \* the subscriptions passed to Binding::new

VARIABLES
  state,   \* Binding.state
  inbox,   \* Binding.inbox: messages accepted and not yet received
  outbox   \* Binding.outbox: data enqueued and not yet sent

protocolVars == <<state, inbox, outbox>>

(***************************************************************************)
(* types::Message.  "event" and "other" are DataMessage with Data::Event    *)
(* and Data::Other; "error" is Message::Error.                              *)
(***************************************************************************)
Message == [kind : {"ack", "event", "other", "error"}, body : Body]

(* Message::new_data(topic, event). *)
DataMessage(b) == [kind |-> "event", body |-> b]

(* The frame Subscriptions serialises to; it is no Message. *)
Subscription == [kind |-> "subscribe", body |-> Subs]

Outgoing == Message \cup {Subscription}

State == {"Subscribing", "Subscribed"}

(* What Option::None is returned as. *)
None == [kind |-> "none"]

-----------------------------------------------------------------------------
(* struct Inbox(VecDeque<Message>) *)

InboxHandle(m) == inbox' = Append(inbox, m)

InboxNextMessage(r) ==
  \/ /\ inbox = <<>>
     /\ r = None
     /\ inbox' = inbox
  \/ /\ inbox # <<>>
     /\ r = Head(inbox)
     /\ inbox' = Tail(inbox)

(* Mutant of InboxNextEvent: what is not an event stays in the inbox. *)
InboxNextEventKeeps(r) ==
  \/ /\ \A i \in DOMAIN inbox : inbox[i].kind # "event"
     /\ r = None
     /\ inbox' = inbox
  \/ \E i \in DOMAIN inbox :
       /\ inbox[i].kind = "event"
       /\ \A j \in 1 .. i - 1 : inbox[j].kind # "event"
       /\ r = inbox[i]
       /\ inbox' = SubSeq(inbox, 1, i - 1) \o SubSeq(inbox, i + 1, Len(inbox))

(***************************************************************************)
(* Inbox::next_event pops until an event comes up: everything in front of   *)
(* the first event is discarded, the whole inbox when it holds none.        *)
(***************************************************************************)
InboxNextEvent(r) ==
  \/ /\ \A i \in DOMAIN inbox : inbox[i].kind # "event"
     /\ r = None
     /\ inbox' = <<>>
  \/ \E i \in DOMAIN inbox :
       /\ inbox[i].kind = "event"
       /\ \A j \in 1 .. i - 1 : inbox[j].kind # "event"
       /\ r = inbox[i]
       /\ inbox' = SubSeq(inbox, i + 1, Len(inbox))

(* struct Outbox(VecDeque<tungstenite::Message>) *)

OutboxNextData(r) ==
  \/ /\ outbox = <<>>
     /\ r = None
     /\ outbox' = outbox
  \/ /\ outbox # <<>>
     /\ r = Head(outbox)
     /\ outbox' = Tail(outbox)

(* Mutant of OutboxEnqueue: push_front for push_back. *)
OutboxPushFront(m) == outbox' = <<m>> \o outbox

OutboxEnqueue(m) == outbox' = Append(outbox, m)

OutboxEnqueueEvent(b) == OutboxEnqueue(DataMessage(b))

-----------------------------------------------------------------------------
(* struct Binding *)

(* Binding::new, as the state it constructs. *)
New ==
  /\ state = "Subscribing"
  /\ inbox = <<>>
  /\ outbox = <<Subscription>>

(* Mutant of BindingHandleIncoming: any payload is forwarded. *)
HandleIncomingForwardsAll(m, r) ==
  /\ outbox' = outbox
  /\ \/ /\ m.kind = "ack" /\ state = "Subscribing"
        /\ r = "Ok"
        /\ state' = "Subscribed"
        /\ inbox' = inbox
     \/ /\ m.kind = "ack" /\ state = "Subscribed"
        /\ r = "AlreadySubscribed"
        /\ UNCHANGED <<state, inbox>>
     \/ /\ m.kind # "ack"
        /\ r = "Ok"
        /\ state' = state
        /\ InboxHandle(m)

(* Mutant of BindingHandleIncoming: every ACK is welcome. *)
HandleIncomingAnyAck(m, r) ==
  /\ outbox' = outbox
  /\ \/ /\ m.kind = "ack"
        /\ r = "Ok"
        /\ state' = "Subscribed"
        /\ inbox' = inbox
     \/ /\ m.kind = "other"
        /\ r = "UnexpectedEventPayload"
        /\ UNCHANGED <<state, inbox>>
     \/ /\ m.kind \in {"event", "error"}
        /\ r = "Ok"
        /\ state' = state
        /\ InboxHandle(m)

BindingHandleIncoming(m, r) ==
  /\ outbox' = outbox
  /\ \/ /\ m.kind = "ack" /\ state = "Subscribing"
        /\ r = "Ok"
        /\ state' = "Subscribed"
        /\ inbox' = inbox
     \/ /\ m.kind = "ack" /\ state = "Subscribed"
        /\ r = "AlreadySubscribed"
        /\ UNCHANGED <<state, inbox>>
     \/ /\ m.kind = "other"
        /\ r = "UnexpectedEventPayload"
        /\ UNCHANGED <<state, inbox>>
     \/ /\ m.kind \in {"event", "error"}
        /\ r = "Ok"
        /\ state' = state
        /\ InboxHandle(m)

BindingOutgoing(r) ==
  /\ OutboxNextData(r)
  /\ UNCHANGED <<state, inbox>>

(***************************************************************************)
(* Binding::receive_event pops one message m and answers by its kind: an    *)
(* event is returned, an error becomes ProtocolError::ZeekError.  The two   *)
(* unreachable!() arms are kept as an outcome of their own.                 *)
(***************************************************************************)
ReceiveResult ==
  [none |-> "None", event |-> "Event", error |-> "ZeekError",
   ack |-> "unreachable", other |-> "unreachable"]

BindingReceiveEvent(m, r) ==
  /\ InboxNextMessage(m)
  /\ r = ReceiveResult[m.kind]
  /\ UNCHANGED <<state, outbox>>

(* Mutant of BindingPublishEvent: the bare payload, not wrapped in a message. *)
PublishEventBare(b) ==
  /\ OutboxEnqueue(b)
  /\ UNCHANGED <<state, inbox>>

(* Binding::publish_event, through the private Binding::enqueue. *)
BindingPublishEvent(b) ==
  /\ OutboxEnqueue(DataMessage(b))
  /\ UNCHANGED <<state, inbox>>
=============================================================================
