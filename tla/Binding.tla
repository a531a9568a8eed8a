------------------------------- MODULE Binding -------------------------------
(***************************************************************************)
(* A caller of the sans-I/O API of protocol.rs: it calls the public methods *)
(* of a `Binding` in any order, feeds it any decoded message, and may       *)
(* `split` it, after which only the methods of `Inbox` and `Outbox` are     *)
(* left.  History variables record what went in and what came out.          *)
(***************************************************************************)
EXTENDS Protocol

CONSTANTS
  MaxIn,   \* bound: messages handed to the binding
  MaxOut   \* bound: messages enqueued by the caller

ASSUME BoundsAssumption == MaxIn \in Nat /\ MaxOut \in Nat

VARIABLES
  split,     \* Binding::split has consumed the binding
  ret,       \* what the last call returned
  handed,    \* history: how many messages were handed in
  acks,      \* history: how many ACKs handle_incoming accepted
  queued,    \* history: the messages handed in that must come out again
  taken,     \* history: every message that left the inbox
  enqueued,  \* history: everything put into the outbox
  wire       \* history: everything the caller took to send

historyVars == <<split, ret, handed, acks, queued, taken, enqueued, wire>>

vars == <<protocolVars, historyVars>>

Results == {"Ok", "None", "Event", "Message", "ZeekError",
            "AlreadySubscribed", "UnexpectedEventPayload", "unreachable"}

Init ==
  /\ New
  /\ split = FALSE
  /\ ret = "Ok"
  /\ handed = 0 /\ acks = 0
  /\ queued = <<>> /\ taken = <<>>
  /\ enqueued = <<Subscription>> /\ wire = <<>>

-----------------------------------------------------------------------------
(* The methods of Binding. *)

HandleIncoming ==
  /\ ~split
  /\ handed < MaxIn
  /\ \E m \in Message, r \in Results :
       /\ BindingHandleIncoming(m, r)
       /\ ret' = r
       /\ acks' = IF m.kind = "ack" /\ r = "Ok" THEN acks + 1 ELSE acks
       /\ queued' = IF m.kind \in {"event", "error"}
                      THEN Append(queued, m) ELSE queued
  /\ handed' = handed + 1
  /\ UNCHANGED <<split, taken, enqueued, wire>>

ReceiveEvent ==
  /\ ~split
  /\ \E m \in {None} \cup Message, r \in Results :
       /\ BindingReceiveEvent(m, r)
       /\ ret' = r
       /\ taken' = IF m = None THEN taken ELSE Append(taken, m)
  /\ UNCHANGED <<split, handed, acks, queued, enqueued, wire>>

PublishEvent ==
  /\ ~split
  /\ Len(enqueued) <= MaxOut
  /\ \E b \in Body :
       /\ BindingPublishEvent(b)
       /\ enqueued' = Append(enqueued, DataMessage(b))
  /\ ret' = "Ok"
  /\ UNCHANGED <<split, handed, acks, queued, taken, wire>>

OutgoingData ==
  /\ ~split
  /\ \E m \in {None} \cup Outgoing :
       /\ BindingOutgoing(m)
       /\ ret' = IF m = None THEN "None" ELSE "Message"
       /\ wire' = IF m = None THEN wire ELSE Append(wire, m)
  /\ UNCHANGED <<split, handed, acks, queued, taken, enqueued>>

Split ==
  /\ ~split
  /\ split' = TRUE
  /\ UNCHANGED <<protocolVars, ret, handed, acks, queued, taken, enqueued, wire>>

-----------------------------------------------------------------------------
(* The methods of the two halves; nothing filters what enters the inbox.    *)

HalfHandle ==
  /\ split
  /\ handed < MaxIn
  /\ \E m \in Message :
       /\ InboxHandle(m)
       /\ queued' = Append(queued, m)
  /\ handed' = handed + 1
  /\ ret' = "Ok"
  /\ UNCHANGED <<state, outbox, split, acks, taken, enqueued, wire>>

HalfNextMessage ==
  /\ split
  /\ \E m \in {None} \cup Message :
       /\ InboxNextMessage(m)
       /\ ret' = IF m = None THEN "None" ELSE "Message"
       /\ taken' = IF m = None THEN taken ELSE Append(taken, m)
  /\ UNCHANGED <<state, outbox, split, handed, acks, queued, enqueued, wire>>

HalfNextEvent ==
  /\ split
  /\ \E m \in {None} \cup Message :
       /\ InboxNextEvent(m)
       /\ ret' = IF m = None THEN "None" ELSE "Event"
       /\ taken' = taken \o SubSeq(inbox, 1, Len(inbox) - Len(inbox'))
  /\ UNCHANGED <<state, outbox, split, handed, acks, queued, enqueued, wire>>

HalfNextData ==
  /\ split
  /\ \E m \in {None} \cup Outgoing :
       /\ OutboxNextData(m)
       /\ ret' = IF m = None THEN "None" ELSE "Message"
       /\ wire' = IF m = None THEN wire ELSE Append(wire, m)
  /\ UNCHANGED <<state, inbox, split, handed, acks, queued, taken, enqueued>>

HalfEnqueue ==
  /\ split
  /\ Len(enqueued) <= MaxOut
  /\ \E m \in Message :
       /\ OutboxEnqueue(m)
       /\ enqueued' = Append(enqueued, m)
  /\ ret' = "Ok"
  /\ UNCHANGED <<state, inbox, split, handed, acks, queued, taken, wire>>

HalfEnqueueEvent ==
  /\ split
  /\ Len(enqueued) <= MaxOut
  /\ \E b \in Body :
       /\ OutboxEnqueueEvent(b)
       /\ enqueued' = Append(enqueued, DataMessage(b))
  /\ ret' = "Ok"
  /\ UNCHANGED <<state, inbox, split, handed, acks, queued, taken, wire>>

Next ==
  \/ HandleIncoming \/ ReceiveEvent \/ PublishEvent \/ OutgoingData \/ Split
  \/ HalfHandle \/ HalfNextMessage \/ HalfNextEvent
  \/ HalfNextData \/ HalfEnqueue \/ HalfEnqueueEvent

Spec == Init /\ [][Next]_vars
-----------------------------------------------------------------------------
(***************************************************************************)
(* Type correctness of the fields of Binding and of the history.            *)
(***************************************************************************)
TypeOK ==
  /\ state \in State
  /\ inbox \in Seq(Message) /\ queued \in Seq(Message) /\ taken \in Seq(Message)
  /\ outbox \in Seq(Outgoing) /\ enqueued \in Seq(Outgoing) /\ wire \in Seq(Outgoing)
  /\ split \in BOOLEAN
  /\ ret \in Results
  /\ handed \in Nat /\ acks \in Nat

(***************************************************************************)
(* The two unreachable!() arms of Binding::receive_event are unreachable:   *)
(* no order of calls makes it pop an ACK or a non-event payload, because    *)
(* Binding::handle_incoming lets neither into the inbox.                    *)
(***************************************************************************)
NeverUnreachable == ret # "unreachable"

(***************************************************************************)
(* Why: as long as the binding has not been split, handle_incoming is the   *)
(* only way into the inbox, and it holds events and errors only.            *)
(***************************************************************************)
InboxFiltered ==
  ~split => \A i \in DOMAIN inbox : inbox[i].kind \in {"event", "error"}

(***************************************************************************)
(* Every event and error handed in comes out once and in order, whichever   *)
(* of receive_event, next_message and next_event takes it and whether or    *)
(* not the binding was split in between; what handle_incoming answers with  *)
(* an error never shows up.                                                 *)
(***************************************************************************)
InboundOrder == queued = taken \o inbox

(***************************************************************************)
(* Everything enqueued leaves through outgoing / next_data once and in      *)
(* order, and the subscription put there by Binding::new leaves first, even *)
(* when events are published before it was sent.                            *)
(***************************************************************************)
OutboundOrder ==
  /\ enqueued = wire \o outbox
  /\ enqueued # <<>> /\ Head(enqueued) = Subscription

(***************************************************************************)
(* handle_incoming accepts one ACK in the life of a binding, and is         *)
(* Subscribed exactly from then on: a second ACK is AlreadySubscribed.      *)
(***************************************************************************)
OneAck ==
  /\ acks <= 1
  /\ state = "Subscribed" <=> acks = 1
=============================================================================
