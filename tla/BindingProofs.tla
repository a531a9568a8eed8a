---------------------------- MODULE BindingProofs ----------------------------
(***************************************************************************)
(* Theorems about Binding, for every set of message bodies and every bound. *)
(***************************************************************************)
EXTENDS Binding, Lemmas

(***************************************************************************)
(* The inductive invariant.  InboxFiltered is what makes NeverUnreachable   *)
(* inductive; the rest is inductive given the types.                        *)
(***************************************************************************)
IInv ==
  /\ TypeOK
  /\ InboxFiltered
  /\ NeverUnreachable
  /\ InboundOrder
  /\ OutboundOrder
  /\ OneAck

(* The constructor Binding::new establishes it. *)
LEMMA InitIInv == Init => IInv
  <1> SUFFICES ASSUME Init PROVE IInv
    OBVIOUS
  <1>1. Subscription \in Outgoing
    BY DEF Outgoing
  <1>2. <<Subscription>> \in Seq(Outgoing) /\ <<>> \in Seq(Outgoing) /\ <<>> \in Seq(Message)
    BY <1>1
  <1>3. TypeOK
    BY <1>2 DEF Init, New, TypeOK, State, Results
  <1>4. InboundOrder
    BY DEF Init, New, InboundOrder
  <1>5. OutboundOrder
    <2>1. <<>> \o <<Subscription>> = <<Subscription>>
      BY <1>2, ConcatEmptySeq
    <2>2. <<Subscription>> # <<>> /\ Head(<<Subscription>>) = Subscription
      OBVIOUS
    <2> QED BY <2>1, <2>2 DEF Init, New, OutboundOrder
  <1>6. InboxFiltered /\ NeverUnreachable /\ OneAck
    BY DEF Init, New, InboxFiltered, NeverUnreachable, OneAck
  <1> QED BY <1>3, <1>4, <1>5, <1>6 DEF IInv

(* Enqueueing keeps the outbox a queue behind the subscription. *)
LEMMA Enqueued ==
  ASSUME TypeOK, OutboundOrder, NEW m \in Outgoing,
         outbox' = Append(outbox, m), enqueued' = Append(enqueued, m), wire' = wire
  PROVE  /\ outbox' \in Seq(Outgoing)
         /\ enqueued' \in Seq(Outgoing)
         /\ OutboundOrder'
  <1>1. outbox \in Seq(Outgoing) /\ enqueued \in Seq(Outgoing) /\ wire \in Seq(Outgoing)
    BY DEF TypeOK
  <1>2. outbox' \in Seq(Outgoing) /\ enqueued' \in Seq(Outgoing)
    BY <1>1, AppendProperties
  <1>3. wire \o Append(outbox, m) = Append(wire \o outbox, m)
    BY <1>1, PushMoves
  <1>4. Append(enqueued, m) # <<>> /\ Head(Append(enqueued, m)) = Subscription
    <2>1. enqueued # <<>> /\ Head(enqueued) = Subscription
      BY DEF OutboundOrder
    <2> QED BY <1>1, <2>1, PushKeepsHead
  <1> QED BY <1>2, <1>3, <1>4 DEF OutboundOrder

(* Taking data out of the outbox only moves it to the wire. *)
LEMMA DataTaken ==
  ASSUME TypeOK, OutboundOrder, NEW m \in {None} \cup Outgoing, OutboxNextData(m),
         wire' = IF m = None THEN wire ELSE Append(wire, m), enqueued' = enqueued
  PROVE  /\ outbox' \in Seq(Outgoing)
         /\ wire' \in Seq(Outgoing)
         /\ OutboundOrder'
  <1>1. CASE outbox = <<>>
    BY <1>1 DEF OutboxNextData, TypeOK, OutboundOrder
  <1>2. CASE outbox # <<>>
    <2>1. m = Head(outbox) /\ outbox' = Tail(outbox)
      BY <1>2 DEF OutboxNextData
    <2>2. m \in Outgoing
      BY <1>2, <2>1, PopMoves DEF TypeOK
    <2>3. m # None
      BY <2>2 DEF None, Outgoing, Message, Subscription
    <2>4. outbox \in Seq(Outgoing) /\ wire \in Seq(Outgoing)
      BY DEF TypeOK
    <2>5. /\ Tail(outbox) \in Seq(Outgoing)
          /\ Append(wire, Head(outbox)) \in Seq(Outgoing)
          /\ Append(wire, Head(outbox)) \o Tail(outbox) = wire \o outbox
      BY <1>2, <2>4, PopMoves
    <2>6. wire' = Append(wire, Head(outbox))
      BY <2>1, <2>3
    <2> QED BY <2>1, <2>5, <2>6 DEF OutboundOrder
  <1> QED BY <1>1, <1>2

(* Receiving the front of the inbox only moves it to what was received. *)
LEMMA MessageTaken ==
  ASSUME TypeOK, InboundOrder, inbox # <<>>,
         inbox' = Tail(inbox), taken' = Append(taken, Head(inbox)), queued' = queued
  PROVE  /\ Head(inbox) \in Message
         /\ inbox' \in Seq(Message)
         /\ taken' \in Seq(Message)
         /\ InboundOrder'
  <1>1. inbox \in Seq(Message) /\ taken \in Seq(Message)
    BY DEF TypeOK
  <1>2. /\ Head(inbox) \in Message
        /\ Tail(inbox) \in Seq(Message)
        /\ Append(taken, Head(inbox)) \in Seq(Message)
        /\ Append(taken, Head(inbox)) \o Tail(inbox) = taken \o inbox
    BY <1>1, PopMoves
  <1>3. InboundOrder'
    BY <1>2 DEF InboundOrder
  <1> QED BY <1>2, <1>3

(* Every method preserves it. *)
LEMMA NextIInv == IInv /\ [Next]_vars => IInv'
  <1> SUFFICES ASSUME IInv, [Next]_vars PROVE IInv'
    OBVIOUS
  <1> USE DEF IInv
  <1>1. CASE HandleIncoming
    <2>1. PICK m \in Message, r \in Results :
            /\ BindingHandleIncoming(m, r)
            /\ ret' = r
            /\ acks' = IF m.kind = "ack" /\ r = "Ok" THEN acks + 1 ELSE acks
            /\ queued' = IF m.kind \in {"event", "error"}
                           THEN Append(queued, m) ELSE queued
      BY <1>1 DEF HandleIncoming
    <2>2. /\ handed' = handed + 1 /\ ~split /\ outbox' = outbox
          /\ UNCHANGED <<split, taken, enqueued, wire>>
      BY <1>1, <2>1 DEF HandleIncoming, BindingHandleIncoming
    <2>3. TypeOK' /\ InboundOrder'
      <3>1. CASE m.kind \in {"event", "error"}
        <4>1. inbox' = Append(inbox, m) /\ queued' = Append(queued, m)
          BY <2>1, <3>1 DEF BindingHandleIncoming, InboxHandle
        <4>2. state' \in State
          BY <2>1 DEF BindingHandleIncoming, TypeOK, State
        <4>3. Append(inbox, m) \in Seq(Message) /\ Append(queued, m) \in Seq(Message)
          BY AppendProperties DEF TypeOK
        <4>4. InboundOrder'
          <5>1. inbox \in Seq(Message) /\ taken \in Seq(Message)
            BY DEF TypeOK
          <5>2. taken \o Append(inbox, m) = Append(taken \o inbox, m)
            BY <5>1, PushMoves
          <5> QED BY <5>2, <4>1, <2>2 DEF InboundOrder
        <4> QED BY <2>1, <2>2, <4>1, <4>2, <4>3, <4>4 DEF TypeOK
      <3>2. CASE m.kind \notin {"event", "error"}
        BY <2>1, <2>2, <3>2 DEF BindingHandleIncoming, TypeOK, State, InboundOrder
      <3> QED BY <3>1, <3>2
    <2>4. InboxFiltered'
      <3>1. CASE inbox' = inbox
        BY <2>2, <3>1 DEF InboxFiltered
      <3>2. CASE inbox' = Append(inbox, m) /\ m.kind \in {"event", "error"}
        BY <2>2, <3>2, AppendProperties DEF InboxFiltered, TypeOK
      <3> QED BY <2>1, <3>1, <3>2 DEF BindingHandleIncoming, InboxHandle
    <2>5. NeverUnreachable'
      BY <2>1 DEF NeverUnreachable, BindingHandleIncoming
    <2>6. OutboundOrder'
      BY <2>2 DEF OutboundOrder
    <2>7. OneAck'
      BY <2>1 DEF OneAck, BindingHandleIncoming, TypeOK
    <2> QED BY <2>3, <2>4, <2>5, <2>6, <2>7
  <1>2. CASE ReceiveEvent
    <2>1. PICK m \in {None} \cup Message, r \in Results :
            /\ BindingReceiveEvent(m, r)
            /\ ret' = r
            /\ taken' = IF m = None THEN taken ELSE Append(taken, m)
      BY <1>2 DEF ReceiveEvent
    <2>2. /\ UNCHANGED <<state, outbox, split, handed, acks, queued, enqueued, wire>>
          /\ ~split
      BY <1>2, <2>1 DEF ReceiveEvent, BindingReceiveEvent
    <2>3. CASE inbox = <<>>
      <3>1. m = None /\ inbox' = inbox /\ r = "None"
        BY <2>1, <2>3 DEF BindingReceiveEvent, InboxNextMessage, ReceiveResult, None
      <3> QED
        BY <2>1, <2>2, <3>1 DEF TypeOK, InboxFiltered, NeverUnreachable,
             InboundOrder, OutboundOrder, OneAck
    <2>4. CASE inbox # <<>>
      <3>1. m = Head(inbox) /\ inbox' = Tail(inbox)
        BY <2>1, <2>4 DEF BindingReceiveEvent, InboxNextMessage
      <3>2. m \in Message /\ m.kind \in {"event", "error"}
        BY <2>2, <2>4, <3>1, PopMoves DEF TypeOK, InboxFiltered
      <3>3. m # None
        BY <3>2 DEF None, Message
      <3>4. r # "unreachable"
        BY <2>1, <3>2 DEF BindingReceiveEvent, ReceiveResult
      <3>5. TypeOK' /\ InboundOrder'
        <4>1. taken' = Append(taken, Head(inbox))
          BY <2>1, <3>1, <3>3
        <4>2. inbox' \in Seq(Message) /\ taken' \in Seq(Message) /\ InboundOrder'
          BY <2>2, <2>4, <3>1, <4>1, MessageTaken
        <4> QED BY <2>1, <2>2, <4>2 DEF TypeOK
      <3>6. InboxFiltered'
        BY <2>2, <2>4, <3>1, HeadTailProperties DEF InboxFiltered, TypeOK
      <3> QED
        BY <2>1, <2>2, <3>4, <3>5, <3>6 DEF NeverUnreachable, OutboundOrder, OneAck
    <2> QED BY <2>3, <2>4
  <1>3. CASE PublishEvent
    <2>1. PICK b \in Body :
            /\ outbox' = Append(outbox, DataMessage(b))
            /\ enqueued' = Append(enqueued, DataMessage(b))
      BY <1>3 DEF PublishEvent, BindingPublishEvent, OutboxEnqueue
    <2>2. ret' = "Ok" /\ UNCHANGED <<state, inbox, split, handed, acks, queued, taken, wire>>
      BY <1>3 DEF PublishEvent, BindingPublishEvent
    <2>3. DataMessage(b) \in Outgoing
      BY DEF Outgoing, Message, DataMessage
    <2> QED
      BY <2>1, <2>2, <2>3, Enqueued DEF TypeOK, Results, InboxFiltered,
           NeverUnreachable, InboundOrder, OneAck
  <1>4. CASE OutgoingData
    <2>1. PICK m \in {None} \cup Outgoing :
            /\ OutboxNextData(m)
            /\ ret' = IF m = None THEN "None" ELSE "Message"
            /\ wire' = IF m = None THEN wire ELSE Append(wire, m)
      BY <1>4 DEF BindingOutgoing, OutgoingData
    <2>2. UNCHANGED <<state, inbox, split, handed, acks, queued, taken, enqueued>>
      BY <1>4 DEF BindingOutgoing, OutgoingData
    <2>3. ret' \in {"None", "Message"}
      BY <2>1
    <2> QED
      BY <2>1, <2>2, <2>3, DataTaken DEF TypeOK, Results, InboxFiltered,
           NeverUnreachable, InboundOrder, OneAck
  <1>5. CASE Split
    BY <1>5 DEF Split, protocolVars, TypeOK, InboxFiltered, NeverUnreachable,
         InboundOrder, OutboundOrder, OneAck
  <1>6. CASE HalfHandle
    <2>1. PICK m \in Message :
            inbox' = Append(inbox, m) /\ queued' = Append(queued, m)
      BY <1>6 DEF HalfHandle, InboxHandle
    <2>2. /\ ret' = "Ok" /\ handed' = handed + 1 /\ split
          /\ UNCHANGED <<state, outbox, split, acks, taken, enqueued, wire>>
      BY <1>6 DEF HalfHandle
    <2>3. TypeOK'
      BY <2>1, <2>2, AppendProperties DEF TypeOK, Results
    <2>4. InboundOrder'
      <3>1. inbox \in Seq(Message) /\ taken \in Seq(Message)
        BY DEF TypeOK
      <3>2. taken \o Append(inbox, m) = Append(taken \o inbox, m)
        BY <3>1, PushMoves
      <3> QED BY <2>1, <2>2, <3>2 DEF InboundOrder
    <2> QED BY <2>2, <2>3, <2>4 DEF InboxFiltered, NeverUnreachable, OutboundOrder, OneAck
  <1>7. CASE HalfNextMessage
    <2>1. PICK m \in {None} \cup Message :
            /\ InboxNextMessage(m)
            /\ ret' = IF m = None THEN "None" ELSE "Message"
            /\ taken' = IF m = None THEN taken ELSE Append(taken, m)
      BY <1>7 DEF HalfNextMessage
    <2>2. split /\ UNCHANGED <<state, outbox, split, handed, acks, queued, enqueued, wire>>
      BY <1>7 DEF HalfNextMessage
    <2>3. ret' \in {"None", "Message"}
      BY <2>1
    <2>4. TypeOK' /\ InboundOrder'
      <3>1. CASE inbox = <<>>
        BY <2>1, <2>2, <2>3, <3>1 DEF InboxNextMessage, TypeOK, InboundOrder, Results
      <3>2. CASE inbox # <<>>
        <4>1. m = Head(inbox) /\ inbox' = Tail(inbox)
          BY <2>1, <3>2 DEF InboxNextMessage
        <4>2. m \in Message
          BY <3>2, <4>1, PopMoves DEF TypeOK
        <4>3. m # None
          BY <4>2 DEF None, Message
        <4>4. taken' = Append(taken, Head(inbox))
          BY <2>1, <4>1, <4>3
        <4>5. inbox' \in Seq(Message) /\ taken' \in Seq(Message) /\ InboundOrder'
          BY <2>2, <3>2, <4>1, <4>4, MessageTaken
        <4> QED BY <2>2, <2>3, <4>5 DEF TypeOK, Results
      <3> QED BY <3>1, <3>2
    <2> QED
      BY <2>2, <2>3, <2>4 DEF InboxFiltered, NeverUnreachable, OutboundOrder, OneAck
  <1>8. CASE HalfNextEvent
    <2>1. PICK m \in {None} \cup Message :
            /\ InboxNextEvent(m)
            /\ ret' = IF m = None THEN "None" ELSE "Event"
            /\ taken' = taken \o SubSeq(inbox, 1, Len(inbox) - Len(inbox'))
      BY <1>8 DEF HalfNextEvent
    <2>2. split /\ UNCHANGED <<state, outbox, split, handed, acks, queued, enqueued, wire>>
      BY <1>8 DEF HalfNextEvent
    <2>3. ret' \in {"None", "Event"}
      BY <2>1
    <2>4. inbox \in Seq(Message) /\ taken \in Seq(Message) /\ Len(inbox) \in Nat
      BY DEF TypeOK
    <2>5. PICK i \in 0 .. Len(inbox) : inbox' = SubSeq(inbox, i + 1, Len(inbox))
      <3>1. CASE inbox' = <<>>
        <4>1. SubSeq(inbox, Len(inbox) + 1, Len(inbox)) = <<>>
          BY <2>4, SubSeqEmpty
        <4> QED BY <2>4, <3>1, <4>1
      <3>2. CASE \E i \in DOMAIN inbox : inbox' = SubSeq(inbox, i + 1, Len(inbox))
        BY <2>4, <3>2
      <3> QED BY <2>1, <3>1, <3>2 DEF InboxNextEvent
    <2>6. Len(inbox) - Len(inbox') = i
      BY <2>4, <2>5, PrefixMoves
    <2>7. /\ inbox' \in Seq(Message) /\ taken' \in Seq(Message)
          /\ taken' \o inbox' = taken \o inbox
      <3> DEFINE a == SubSeq(inbox, 1, i)
                 b == SubSeq(inbox, i + 1, Len(inbox))
      <3>1. a \in Seq(Message) /\ b \in Seq(Message)
        BY <2>4, PrefixMoves
      <3>2. a \o b = inbox
        BY <2>4, PrefixMoves
      <3>3. inbox' = b /\ taken' = taken \o a
        BY <2>1, <2>5, <2>6
      <3> HIDE DEF a, b
      <3>4. (taken \o a) \o b = taken \o (a \o b)
        BY <2>4, <3>1
      <3>5. taken \o a \in Seq(Message)
        BY <2>4, <3>1, ConcatProperties
      <3> QED BY <3>1, <3>2, <3>3, <3>4, <3>5
    <2> QED
      BY <2>2, <2>3, <2>7 DEF TypeOK, Results, InboxFiltered, NeverUnreachable,
           InboundOrder, OutboundOrder, OneAck
  <1>9. CASE HalfNextData
    <2>1. PICK m \in {None} \cup Outgoing :
            /\ OutboxNextData(m)
            /\ ret' = IF m = None THEN "None" ELSE "Message"
            /\ wire' = IF m = None THEN wire ELSE Append(wire, m)
      BY <1>9 DEF HalfNextData
    <2>2. UNCHANGED <<state, inbox, split, handed, acks, queued, taken, enqueued>>
      BY <1>9 DEF HalfNextData
    <2>3. ret' \in {"None", "Message"}
      BY <2>1
    <2> QED
      BY <2>1, <2>2, <2>3, DataTaken DEF TypeOK, Results, InboxFiltered,
           NeverUnreachable, InboundOrder, OneAck
  <1>10. CASE HalfEnqueue
    <2>1. PICK m \in Message :
            /\ outbox' = Append(outbox, m)
            /\ enqueued' = Append(enqueued, m)
      BY <1>10 DEF HalfEnqueue, OutboxEnqueue
    <2>2. ret' = "Ok" /\ UNCHANGED <<state, inbox, split, handed, acks, queued, taken, wire>>
      BY <1>10 DEF HalfEnqueue
    <2>3. m \in Outgoing
      BY DEF Outgoing, Message, DataMessage
    <2> QED
      BY <2>1, <2>2, <2>3, Enqueued DEF TypeOK, Results, InboxFiltered,
           NeverUnreachable, InboundOrder, OneAck
  <1>11. CASE HalfEnqueueEvent
    <2>1. PICK b \in Body :
            /\ outbox' = Append(outbox, DataMessage(b))
            /\ enqueued' = Append(enqueued, DataMessage(b))
      BY <1>11 DEF HalfEnqueueEvent, OutboxEnqueueEvent, OutboxEnqueue
    <2>2. ret' = "Ok" /\ UNCHANGED <<state, inbox, split, handed, acks, queued, taken, wire>>
      BY <1>11 DEF HalfEnqueueEvent
    <2>3. DataMessage(b) \in Outgoing
      BY DEF Outgoing, Message, DataMessage
    <2> QED
      BY <2>1, <2>2, <2>3, Enqueued DEF TypeOK, Results, InboxFiltered,
           NeverUnreachable, InboundOrder, OneAck
  <1>12. CASE UNCHANGED vars
    BY <1>12 DEF vars, protocolVars, historyVars, TypeOK, InboxFiltered,
         NeverUnreachable, InboundOrder, OutboundOrder, OneAck
  <1> QED
    BY <1>1, <1>2, <1>3, <1>4, <1>5, <1>6, <1>7, <1>8, <1>9, <1>10, <1>11, <1>12
      DEF Next

(***************************************************************************)
(* The invariant holds in every reachable state.                            *)
(***************************************************************************)
THEOREM Invariance == Spec => []IInv
  BY InitIInv, NextIInv, PTL DEF Spec

(***************************************************************************)
(* Types: whatever is called in whatever order, the fields of Binding keep  *)
(* their types; in particular only messages enter the inbox and only        *)
(* messages and the subscription enter the outbox.                          *)
(***************************************************************************)
THEOREM TypeCorrect == Spec => []TypeOK
  <1>1. IInv => TypeOK
    BY DEF IInv
  <1> QED BY <1>1, Invariance, PTL

(***************************************************************************)
(* receive_event never runs into one of its unreachable!() arms.            *)
(***************************************************************************)
THEOREM Unreachable == Spec => [](InboxFiltered /\ NeverUnreachable)
  <1>1. IInv => InboxFiltered /\ NeverUnreachable
    BY DEF IInv
  <1> QED BY <1>1, Invariance, PTL

(***************************************************************************)
(* The inbox is a queue: nothing handed in is lost, repeated or reordered,  *)
(* through any mix of the receiving methods and across split.               *)
(***************************************************************************)
THEOREM Inbound == Spec => []InboundOrder
  <1>1. IInv => InboundOrder
    BY DEF IInv
  <1> QED BY <1>1, Invariance, PTL

(***************************************************************************)
(* The outbox is a queue whose first element is the subscription.           *)
(***************************************************************************)
THEOREM Outbound == Spec => []OutboundOrder
  <1>1. IInv => OutboundOrder
    BY DEF IInv
  <1> QED BY <1>1, Invariance, PTL

(***************************************************************************)
(* handle_incoming accepts exactly one ACK and is Subscribed since.         *)
(***************************************************************************)
THEOREM AckOnce == Spec => []OneAck
  <1>1. IInv => OneAck
    BY DEF IInv
  <1> QED BY <1>1, Invariance, PTL
=============================================================================
