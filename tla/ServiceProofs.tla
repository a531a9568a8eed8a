---------------------------- MODULE ServiceProofs ----------------------------
(***************************************************************************)
(* Theorems about Service, for any holders of an Outbox, any size of its    *)
(* channel, any server and every bound: what an Outbox accepted is sent     *)
(* once and in order, a graceful exit loses nothing of it, and nothing is   *)
(* sent before the server acknowledged the subscription.                    *)
(***************************************************************************)
EXTENDS ServiceSession, Lemmas

-----------------------------------------------------------------------------
(* What a step can do to each part of the state.                            *)

(* What leaving serve does to the channel. *)
Leave ==
  /\ pc' = "done" /\ rx' = <<>> /\ holders' = holders \ {Client}
  /\ UNCHANGED <<pending, npub, accepted>>

(* The head of the outbox goes to the stream, *)
SendHead ==
  /\ pc \in {"subscribe", "flush"} /\ pc' = pc
  /\ outbox # <<>> /\ outbox' = Tail(outbox)
  /\ wire' = Append(wire, Head(outbox))
  /\ UNCHANGED <<channelVars, callbacks>>

(* or the Close frame does. *)
SendClose ==
  /\ pc = "closing" /\ Leave /\ result' = "Ok"
  /\ wire' = Append(wire, CloseFrame)
  /\ UNCHANGED <<outbox, callbacks>>

(* A frame reaches the binding. *)
Handled ==
  /\ ReadFrame /\ Frame \in Decodable
  /\ \E r \in {"Ok", "AlreadySubscribed", "UnexpectedEventPayload"} :
       BindingHandleIncoming([kind |-> Frame, body |-> nread + 1], r)

LEMMA PollFootprint ==
  ASSUME Poll
  PROVE  /\ pc \notin {"callback", "done"}
         /\ UNCHANGED channelVars \/ Leave \/ RxEvent
         /\ UNCHANGED serverVars \/ Connect
         /\ nread' = nread \/ ReadFrame
         /\ \/ UNCHANGED protocolVars
            \/ outbox # <<>> /\ outbox' = Tail(outbox) /\ UNCHANGED <<state, inbox>>
            \/ RxEvent \/ Handled
            \/ inbox # <<>> /\ inbox' = Tail(inbox) /\ UNCHANGED <<state, outbox>>
         /\ wire' = wire \/ SendHead \/ SendClose
         /\ \/ UNCHANGED callbacks
            \/ \E cb \in {"connected", "event", "error"} :
                 callbacks' = Append(callbacks, [cb |-> cb, frame |-> nread + 1])
            \/ Drain
BY DEF Poll, Connect, ConnectFails, Subscribe, AwaitPing, AwaitAck, AwaitFails, AwaitEnds,
  RxBranch, RxEvent, RxClosed, StreamBranch, StreamPing, StreamUndecodable, StreamMessage,
  StreamRejected, StreamCloses, Flush, FlushSend, FlushFails, FlushDone, Close, Drain, DrainDone,
  Goto, Return, Callback, Transmit, TransmitFails, Leave, SendHead, SendClose, Handled,
  BindingOutgoing, OutboxNextData, BindingReceiveEvent, InboxNextMessage,
  taskVars, protocolVars, channelVars, serverVars, streamVars, None
-----------------------------------------------------------------------------
(***************************************************************************)
(* Types.  The bounds keep frames and events among the messages; who waits  *)
(* for room has an Outbox, the client only in a callback.                   *)
(***************************************************************************)
TaskType ==
  /\ pc \in PCs /\ resume \in {"select", "drain"}
  /\ result = "none" <=> pc # "done"

ProtocolType ==
  state \in State /\ inbox \in Seq(Message) /\ outbox \in Seq(Outgoing)

(* What is in the inbox are frames that were read. *)
InboxRead == \A i \in DOMAIN inbox : inbox[i].body \in 1 .. nread

ChannelType ==
  /\ rx \in Seq(1 .. npub) /\ Len(rx) <= OutboxSize
  /\ accepted \in Seq(1 .. npub)
  /\ holders \subseteq Holders
  /\ pending \in [Holders -> 0 .. npub]
  /\ npub \in 0 .. MaxPublish

StreamType ==
  /\ served \in Seq(FrameKinds) /\ nread \in 0 .. Len(served)
  /\ link \in {"none", "up", "finished", "broken"}
  /\ \A k \in DOMAIN served : served[k] \in Decodable => k <= MaxFrames

CallbackType ==
  callbacks \in Seq([cb : {"connected", "event", "error"}, frame : Nat \ {0}])

WireType == wire \in Seq(Outgoing \cup {CloseFrame})

Awaited ==
  \A h \in Holders :
    pending[h] # 0 => h \in holders /\ (h = Client => pc = "callback")

Types ==
  /\ TaskType /\ ProtocolType /\ ChannelType /\ StreamType /\ CallbackType /\ WireType
  /\ Awaited /\ InboxRead

LEMMA TypesImplyTypeOK == Types /\ result \in TaskResults => TypeOK
BY ServiceAssumption
  DEF Types, TaskType, ProtocolType, ChannelType, StreamType, CallbackType, WireType, TypeOK

LEMMA InitTypes == Init => Types
<1> SUFFICES ASSUME Init PROVE Types
  OBVIOUS
<1>1. ProtocolType
  <2>1. <<Subscription>> \in Seq(Outgoing)
    BY DEF Outgoing
  <2> QED BY <2>1 DEF Init, New, ProtocolType, State
<1>2. TaskType /\ ChannelType /\ Awaited
  BY ServiceAssumption DEF Init, TaskType, PCs, TaskResults, ChannelType, Awaited
<1>3. StreamType /\ CallbackType /\ WireType /\ InboxRead
  BY DEF Init, New, StreamType, CallbackType, WireType, InboxRead
<1> QED BY <1>1, <1>2, <1>3 DEF Types

LEMMA PollTypes == Types /\ Poll => Types'
<1> SUFFICES ASSUME Types, Poll PROVE Types'
  OBVIOUS
<1> USE DEF Types
<1>1. TaskType'
  BY DEF Poll, Connect, ConnectFails, Subscribe, AwaitPing, AwaitAck, AwaitFails, AwaitEnds,
    RxBranch, RxEvent, RxClosed, StreamBranch, StreamPing, StreamUndecodable, StreamMessage,
    StreamRejected, StreamCloses, Flush, FlushSend, FlushFails, FlushDone, Close, Drain, DrainDone,
    Goto, Return, Callback, taskVars, TaskType, TaskResults, PCs
<1>2. ChannelType'
  <2>1. CASE UNCHANGED channelVars
    BY <2>1 DEF channelVars, ChannelType
  <2>2. CASE Leave
    BY <2>2, ServiceAssumption DEF Leave, ChannelType
  <2>3. CASE RxEvent
    <3>1. rx' \in Seq(1 .. npub) /\ Len(rx') = Len(rx) - 1
      BY <2>3, HeadTailProperties DEF RxEvent, ChannelType
    <3>2. UNCHANGED <<holders, pending, npub, accepted>> /\ Len(rx) \in Nat
      BY <2>3 DEF RxEvent, ChannelType
    <3> QED BY <3>1, <3>2, ServiceAssumption DEF ChannelType
  <2> QED BY <2>1, <2>2, <2>3, PollFootprint
<1>3. ProtocolType'
  <2>1. CASE UNCHANGED protocolVars
    BY <2>1 DEF protocolVars, ProtocolType
  <2>2. CASE outbox # <<>> /\ outbox' = Tail(outbox) /\ UNCHANGED <<state, inbox>>
    BY <2>2, HeadTailProperties DEF ProtocolType
  <2>3. CASE inbox # <<>> /\ inbox' = Tail(inbox) /\ UNCHANGED <<state, outbox>>
    BY <2>3, HeadTailProperties DEF ProtocolType
  <2>4. CASE RxEvent
    <3>1. Head(rx) \in Body
      BY <2>4, HeadTailProperties, ServiceAssumption DEF RxEvent, ChannelType
    <3>2. DataMessage(Head(rx)) \in Outgoing
      BY <3>1 DEF DataMessage, Outgoing, Message
    <3> QED BY <2>4, <3>2, AppendProperties
          DEF RxEvent, BindingPublishEvent, OutboxEnqueue, ProtocolType
  <2>5. CASE Handled
    <3>1. nread + 1 \in Body
      BY <2>5, ServiceAssumption DEF Handled, ReadFrame, Frame, StreamType
    <3>2. [kind |-> Frame, body |-> nread + 1] \in Message
      BY <2>5, <3>1 DEF Handled, Decodable, Message
    <3>3. Append(inbox, [kind |-> Frame, body |-> nread + 1]) \in Seq(Message)
      BY <3>2, AppendProperties DEF ProtocolType
    <3> QED BY <2>5, <3>3 DEF Handled, BindingHandleIncoming, InboxHandle, ProtocolType, State
  <2> QED BY <2>1, <2>2, <2>3, <2>4, <2>5, PollFootprint
<1>4. StreamType'
  BY PollFootprint DEF serverVars, Connect, ReadFrame, StreamType
<1>5. CallbackType'
  <2>1. CASE Drain
    <3>1. PICK cb \in {"event", "error"} :
            callbacks' = Append(callbacks, [cb |-> cb, frame |-> Head(inbox).body])
      BY <2>1 DEF Drain, Callback
    <3>2. Head(inbox).body \in Nat \ {0}
      BY <2>1, HeadTailProperties DEF Drain, ProtocolType, InboxRead, StreamType
    <3> QED BY <3>1, <3>2, AppendProperties DEF CallbackType
  <2>2. ASSUME NEW cb \in {"connected", "event", "error"},
               callbacks' = Append(callbacks, [cb |-> cb, frame |-> nread + 1])
        PROVE  CallbackType'
    <3>1. [cb |-> cb, frame |-> nread + 1] \in [cb : {"connected", "event", "error"}, frame : Nat \ {0}]
      BY DEF StreamType
    <3> QED BY <2>2, <3>1, AppendProperties DEF CallbackType
  <2> QED BY <2>1, <2>2, PollFootprint DEF CallbackType
<1>6. WireType'
  <2>1. CASE SendHead
    <3>1. Head(outbox) \in Outgoing
      BY <2>1, HeadTailProperties DEF SendHead, ProtocolType
    <3> QED BY <2>1, <3>1, AppendProperties DEF SendHead, WireType
  <2>2. CASE SendClose
    BY <2>2, AppendProperties DEF SendClose, WireType
  <2> QED BY <2>1, <2>2, PollFootprint DEF WireType
<1>7. Awaited'
  BY PollFootprint DEF channelVars, Leave, RxEvent, Awaited, Holders, ChannelType
<1>8. InboxRead'
  <2>1. CASE UNCHANGED protocolVars
    BY <2>1, PollFootprint DEF protocolVars, InboxRead, ReadFrame, StreamType
  <2>2. CASE outbox # <<>> /\ outbox' = Tail(outbox) /\ UNCHANGED <<state, inbox>>
    BY <2>2, PollFootprint DEF InboxRead, ReadFrame, StreamType
  <2>3. CASE inbox # <<>> /\ inbox' = Tail(inbox) /\ UNCHANGED <<state, outbox>>
    BY <2>3, PollFootprint, HeadTailProperties DEF ProtocolType, InboxRead, ReadFrame, StreamType
  <2>4. CASE RxEvent
    BY <2>4, PollFootprint DEF RxEvent, BindingPublishEvent, InboxRead, ReadFrame, StreamType
  <2>5. CASE Handled
    <3>1. inbox' = inbox \/ inbox' = Append(inbox, [kind |-> Frame, body |-> nread + 1])
      BY <2>5 DEF Handled, BindingHandleIncoming, InboxHandle
    <3>2. nread' = nread + 1 /\ nread \in Nat
      BY <2>5 DEF Handled, ReadFrame, StreamType
    <3>3. CASE inbox' = inbox
      BY <3>2, <3>3 DEF InboxRead
    <3>4. CASE inbox' = Append(inbox, [kind |-> Frame, body |-> nread + 1])
      <4> DEFINE m == [kind |-> Frame, body |-> nread + 1]
      <4>1. m.body = nread + 1
        OBVIOUS
      <4> HIDE DEF m
      <4>2. /\ Len(Append(inbox, m)) = Len(inbox) + 1
            /\ \A i \in 1 .. Len(inbox) : Append(inbox, m)[i] = inbox[i]
            /\ Append(inbox, m)[Len(inbox) + 1] = m
            /\ DOMAIN inbox = 1 .. Len(inbox) /\ DOMAIN Append(inbox, m) = 1 .. Len(inbox) + 1
            /\ Len(inbox) \in Nat
        BY DEF ProtocolType
      <4>3. inbox' = Append(inbox, m)
        BY <3>4 DEF m
      <4> QED BY <3>2, <4>1, <4>2, <4>3 DEF InboxRead
    <3> QED BY <3>1, <3>3, <3>4
  <2> QED BY <2>1, <2>2, <2>3, <2>4, <2>5, PollFootprint
<1> QED BY <1>1, <1>2, <1>3, <1>4, <1>5, <1>6, <1>7, <1>8

(***************************************************************************)
(* The other steps: callbacks that return, the holders of an Outbox, and    *)
(* the server.                                                              *)
(***************************************************************************)
LEMMA OtherTypes == Types /\ (CallbackReturns \/ Publish \/ Server) => Types'
<1> SUFFICES ASSUME Types, CallbackReturns \/ Publish \/ Server PROVE Types'
  OBVIOUS
<1> USE DEF Types
<1>1. CASE CallbackReturns
  BY <1>1 DEF CallbackReturns, Goto, protocolVars, channelVars, streamVars, serverVars,
    TaskType, PCs, ProtocolType, ChannelType, StreamType, CallbackType, WireType, Awaited, InboxRead
<1>2. CASE Publish
  <2>1. PICK h \in Holders :
          \/ SendStart(h) \/ SendAccepted(h) \/ SendRefused(h) \/ DropOutbox(h)
          \/ \E g \in Publishers : CloneOutbox(h, g)
    BY <1>2 DEF Publish
  <2>2. UNCHANGED <<taskVars, protocolVars, streamVars, callbacks>>
    BY <2>1 DEF SendStart, SendAccepted, SendRefused, DropOutbox, CloneOutbox
  <2>3. /\ TaskType' /\ ProtocolType' /\ StreamType' /\ CallbackType' /\ WireType'
        /\ InboxRead'
    BY <2>2 DEF taskVars, protocolVars, streamVars, serverVars,
      TaskType, ProtocolType, StreamType, CallbackType, WireType, InboxRead
  <2>4. ChannelType' /\ Awaited'
    <3>1. CASE SendStart(h)
      <4>1. npub' = npub + 1 /\ npub < MaxPublish /\ h \in holders /\ (h = Client => pc = "callback")
            /\ pending' = [pending EXCEPT ![h] = npub'] /\ UNCHANGED <<pc, rx, holders, accepted>>
        BY <3>1 DEF SendStart, Running, taskVars
      <4>2. rx \in Seq(1 .. npub') /\ accepted \in Seq(1 .. npub')
        BY <4>1 DEF ChannelType
      <4> QED BY <4>1, <4>2, ServiceAssumption DEF ChannelType, Awaited
    <3>2. CASE SendAccepted(h)
      <4>1. pending[h] \in 1 .. npub
        BY <3>2 DEF SendAccepted, ChannelType
      <4>2. /\ rx' = Append(rx, pending[h]) /\ accepted' = Append(accepted, pending[h])
            /\ pending' = [pending EXCEPT ![h] = 0] /\ Len(rx) < OutboxSize
            /\ UNCHANGED <<pc, holders, npub>>
        BY <3>2 DEF SendAccepted, taskVars
      <4>3. /\ rx' \in Seq(1 .. npub) /\ Len(rx') = Len(rx) + 1
            /\ accepted' \in Seq(1 .. npub) /\ Len(rx) \in Nat
        BY <4>1, <4>2, AppendProperties DEF ChannelType
      <4> QED BY <4>2, <4>3, ServiceAssumption DEF ChannelType, Awaited
    <3>3. CASE SendRefused(h)
      BY <3>3 DEF SendRefused, taskVars, ChannelType, Awaited
    <3>4. CASE DropOutbox(h)
      BY <3>4 DEF DropOutbox, taskVars, ChannelType, Awaited
    <3>5. CASE \E g \in Publishers : CloneOutbox(h, g)
      BY <3>5 DEF CloneOutbox, taskVars, Holders, ChannelType, Awaited
    <3> QED BY <2>1, <3>1, <3>2, <3>3, <3>4, <3>5
  <2> QED BY <2>3, <2>4
<1>3. CASE Server
  <2>1. UNCHANGED <<taskVars, protocolVars, channelVars, nread, wire, callbacks>>
    BY <1>3 DEF Server, ServerSend, ServerClose, Break
  <2>2. /\ TaskType' /\ ProtocolType' /\ ChannelType' /\ CallbackType' /\ WireType'
        /\ Awaited' /\ InboxRead'
    BY <2>1 DEF taskVars, protocolVars, channelVars,
      TaskType, ProtocolType, ChannelType, CallbackType, WireType, Awaited, InboxRead
  <2>3. StreamType'
    <3>1. CASE ServerSend
      <4>1. PICK f \in ServerKinds : served' = Append(served, f) /\ Len(served) < MaxFrames
        BY <3>1 DEF ServerSend
      <4>2. f \in FrameKinds
        BY ServiceAssumption DEF FrameKinds
      <4>3. /\ served' \in Seq(FrameKinds) /\ Len(served') = Len(served) + 1
            /\ \A k \in 1 .. Len(served) : served'[k] = served[k]
            /\ Len(served) \in Nat
        BY <4>1, <4>2, AppendProperties DEF StreamType
      <4>4. \A k \in DOMAIN served' : served'[k] \in Decodable => k <= MaxFrames
        BY <4>1, <4>3, ServiceAssumption DEF StreamType
      <4> QED BY <2>1, <3>1, <4>3, <4>4 DEF ServerSend, StreamType
    <3>2. CASE ServerClose
      BY <2>1, <3>2, AppendProperties DEF ServerClose, StreamType, FrameKinds, Decodable
    <3>3. CASE Break
      <4>1. PICK n \in nread .. Len(served) : served' = SubSeq(served, 1, n)
        BY <3>3 DEF Break
      <4>2. n \in 0 .. Len(served)
        BY DEF StreamType
      <4>3. /\ served' \in Seq(FrameKinds) /\ Len(served') = n
            /\ \A k \in 1 .. n : served'[k] = served[k]
        BY <4>1, <4>2 DEF StreamType
      <4> QED BY <2>1, <3>3, <4>2, <4>3 DEF Break, StreamType
    <3> QED BY <1>3, <3>1, <3>2, <3>3 DEF Server
  <2> QED BY <2>2, <2>3
<1> QED BY <1>1, <1>2, <1>3

(***************************************************************************)
(* The clients of other languages run serve in a task that can be dropped   *)
(* at an await and panic in a callback (C, asyncio), and clone the Outbox   *)
(* for a send they spawn with it (asyncio).  The invariant below is proved  *)
(* of these steps as well, so that it holds of serve in their hands.        *)
(***************************************************************************)
Interrupted ==
  /\ pc \notin {"drain", "done"} /\ pending[Client] = 0
  /\ result' \notin {"none", "Ok"} /\ Return(result')
  /\ UNCHANGED <<protocolVars, nread, wire>>

Spawned(h, g) ==
  /\ Running(h) /\ npub < MaxPublish
  /\ npub' = npub + 1
  /\ holders' = holders \cup {g}
  /\ pending' = [pending EXCEPT ![g] = npub']
  /\ UNCHANGED <<taskVars, protocolVars, rx, accepted, streamVars, callbacks>>

Spawn == \E h \in Holders, g \in Publishers : Spawned(h, g)

Step == [Next]_vars \/ Interrupted \/ Spawn

(* Every step is one of these. *)
LEMMA StepCases ==
  ASSUME Step
  PROVE  \/ Poll \/ CallbackReturns \/ Publish \/ Server \/ UNCHANGED vars
         \/ Interrupted \/ Spawn
BY DEF Step, Next, Task, Finished

LEMMA NextTypes == Types /\ Step => Types'
<1> SUFFICES ASSUME Types, Step PROVE Types'
  OBVIOUS
<1>1. CASE UNCHANGED vars
  BY <1>1 DEF vars, taskVars, protocolVars, channelVars, streamVars, serverVars, Types,
    TaskType, ProtocolType, ChannelType, StreamType, CallbackType, WireType, Awaited, InboxRead
<1>2. CASE Interrupted
  <2>1. /\ pc' = "done" /\ result' # "none" /\ rx' = <<>> /\ holders' = holders \ {Client}
        /\ UNCHANGED <<resume, pending, npub, accepted, protocolVars, streamVars, callbacks>>
        /\ pc # "done"
    BY <1>2 DEF Interrupted, Return, streamVars
  <2>2. TaskType' /\ ProtocolType' /\ StreamType' /\ CallbackType' /\ WireType' /\ InboxRead'
    BY <2>1 DEF Types, protocolVars, streamVars, serverVars, PCs,
      TaskType, ProtocolType, StreamType, CallbackType, WireType, InboxRead
  <2>3. ChannelType'
    BY <2>1, ServiceAssumption DEF Types, ChannelType
  <2>4. Awaited'
    BY <1>2, <2>1 DEF Interrupted, Types, Awaited
  <2> QED BY <2>2, <2>3, <2>4 DEF Types
<1>3. CASE Spawn
  <2>1. PICK h \in Holders, g \in Publishers : Spawned(h, g)
    BY <1>3 DEF Spawn
  <2>2. TaskType' /\ ProtocolType' /\ StreamType' /\ CallbackType' /\ WireType' /\ InboxRead'
    BY <2>1 DEF Spawned, Types, taskVars, protocolVars, streamVars, serverVars,
      TaskType, ProtocolType, StreamType, CallbackType, WireType, InboxRead
  <2>3. /\ npub' = npub + 1 /\ npub < MaxPublish /\ holders' = holders \cup {g}
        /\ pending' = [pending EXCEPT ![g] = npub'] /\ UNCHANGED <<pc, rx, accepted>>
        /\ g \in Holders /\ g # Client
    BY <2>1, ServiceAssumption DEF Spawned, taskVars, Holders
  <2>4. rx \in Seq(1 .. npub') /\ accepted \in Seq(1 .. npub')
    BY <2>3 DEF Types, ChannelType
  <2>5. ChannelType' /\ Awaited'
    BY <2>3, <2>4, ServiceAssumption DEF Types, ChannelType, Awaited
  <2> QED BY <2>2, <2>5 DEF Types
<1> QED BY <1>1, <1>2, <1>3, StepCases, PollTypes, OtherTypes

-----------------------------------------------------------------------------
(* The messages that events are published as.                               *)

(* Events become messages one by one, in the order of the queue. *)
LEMMA PublishedQueue ==
  ASSUME NEW n \in 0 .. MaxPublish, NEW s \in Seq(1 .. n)
  PROVE  /\ Published(s) \in Seq(Outgoing)
         /\ Len(Published(s)) = Len(s)
         /\ \A i \in 1 .. Len(s) : Published(s)[i] = DataMessage(s[i])
<1>1. DOMAIN s = 1 .. Len(s) /\ Len(s) \in Nat
  OBVIOUS
<1>2. \A i \in 1 .. Len(s) : DataMessage(s[i]) \in Outgoing
  BY <1>1, ServiceAssumption DEF DataMessage, Outgoing, Message
<1> QED BY <1>1, <1>2, IsASeq DEF Published

LEMMA PublishedAppend ==
  ASSUME NEW n \in 0 .. MaxPublish, NEW s \in Seq(1 .. n), NEW e \in 1 .. n
  PROVE  Published(Append(s, e)) = Append(Published(s), DataMessage(e))
<1>1. Append(s, e) \in Seq(1 .. n) /\ Len(Append(s, e)) = Len(s) + 1
  BY AppendProperties
<1>2. DataMessage(e) \in Outgoing
  BY ServiceAssumption DEF DataMessage, Outgoing, Message
<1> DEFINE a == Published(Append(s, e))
           b == Append(Published(s), DataMessage(e))
<1>3. /\ a \in Seq(Outgoing) /\ Len(a) = Len(s) + 1
      /\ \A i \in 1 .. Len(s) + 1 : a[i] = DataMessage(Append(s, e)[i])
  BY <1>1, PublishedQueue
<1>4. /\ Published(s) \in Seq(Outgoing) /\ Len(Published(s)) = Len(s)
      /\ \A i \in 1 .. Len(s) : Published(s)[i] = DataMessage(s[i])
  BY PublishedQueue
<1>5. /\ b \in Seq(Outgoing) /\ Len(b) = Len(s) + 1
      /\ \A i \in 1 .. Len(s) : b[i] = Published(s)[i]
      /\ b[Len(s) + 1] = DataMessage(e)
  BY <1>2, <1>4, AppendProperties
<1>6. /\ \A i \in 1 .. Len(s) : Append(s, e)[i] = s[i]
      /\ Append(s, e)[Len(s) + 1] = e
      /\ Len(s) \in Nat
  BY AppendProperties
<1> HIDE DEF a, b
<1>7. \A i \in 1 .. Len(s) + 1 : a[i] = b[i]
  BY <1>3, <1>4, <1>5, <1>6
<1>8. a = b
  BY <1>3, <1>5, <1>6, <1>7, SeqEqual
<1> QED BY <1>8 DEF a, b

LEMMA PublishedTail ==
  ASSUME NEW n \in 0 .. MaxPublish, NEW s \in Seq(1 .. n), s # <<>>
  PROVE  /\ Published(s) # <<>>
         /\ Head(Published(s)) = DataMessage(Head(s))
         /\ Tail(Published(s)) = Published(Tail(s))
<1>1. /\ Len(s) \in Nat /\ Len(s) > 0 /\ Head(s) = s[1]
      /\ Tail(s) \in Seq(1 .. n) /\ Len(Tail(s)) = Len(s) - 1
      /\ \A i \in 1 .. Len(s) - 1 : Tail(s)[i] = s[i + 1]
  BY HeadTailProperties
<1>2. /\ Published(s) \in Seq(Outgoing) /\ Len(Published(s)) = Len(s)
      /\ \A i \in 1 .. Len(s) : Published(s)[i] = DataMessage(s[i])
  BY PublishedQueue
<1>3. Published(s) # <<>> /\ Head(Published(s)) = DataMessage(Head(s))
  BY <1>1, <1>2
<1> DEFINE a == Tail(Published(s))
           b == Published(Tail(s))
<1>4. /\ a \in Seq(Outgoing) /\ Len(a) = Len(s) - 1
      /\ \A i \in 1 .. Len(s) - 1 : a[i] = Published(s)[i + 1]
  BY <1>2, <1>3, HeadTailProperties
<1>5. /\ b \in Seq(Outgoing) /\ Len(b) = Len(s) - 1
      /\ \A i \in 1 .. Len(s) - 1 : b[i] = DataMessage(Tail(s)[i])
  BY <1>1, PublishedQueue
<1> HIDE DEF a, b
<1>6. ASSUME NEW i \in 1 .. Len(s) - 1 PROVE a[i] = b[i]
  <2>1. i + 1 \in 1 .. Len(s)
    BY <1>1
  <2>2. a[i] = DataMessage(s[i + 1])
    BY <1>2, <1>4, <2>1
  <2>3. b[i] = DataMessage(s[i + 1])
    BY <1>1, <1>5
  <2> QED BY <2>2, <2>3
<1>7. a = b
  BY <1>4, <1>5, <1>6, SeqEqual
<1> QED BY <1>3, <1>7 DEF a, b

LEMMA AppendIsNotEmpty ==
  ASSUME NEW T, NEW s \in Seq(T), NEW e
  PROVE  Append(s, e) # <<>>
<1>1. s \in Seq(T \cup {e})
  BY SeqMonotonic
<1> QED BY <1>1, AppendProperties

(* What is in front of a concatenation is a prefix of it. *)
LEMMA PrefixOfConcat ==
  ASSUME NEW T, NEW s \in Seq(T), NEW t \in Seq(T)
  PROVE  IsPrefix(s, s \o t)
<1>1. SubSeq(s \o t, 1, Len(s)) = s
  OBVIOUS
<1>2. SubSeq(s, 1, Len(s)) = s /\ Len(s) <= Len(s \o t)
  OBVIOUS
<1> QED BY <1>1, <1>2 DEF IsPrefix

-----------------------------------------------------------------------------
(***************************************************************************)
(* Events on their way.  Conservation speaks of the outbox wherever it may  *)
(* be filled, but a graceful exit loses nothing only because Close is       *)
(* reached with an empty one; so the invariant says at which await the      *)
(* outbox, the channel and the set of holders are empty, and how far the    *)
(* handshake is.                                                            *)
(***************************************************************************)
Promised == <<Subscription>> \o Published(accepted)

Drained ==
  /\ pc \in {"await_ack", "callback", "select", "closing", "drain"} => outbox = <<>>
  /\ pc = "closing" => rx = <<>> /\ holders = {}

Handshake ==
  /\ pc \in {"connect", "subscribe"} => ~Connected /\ wire \o outbox = <<Subscription>>
  /\ pc = "await_ack" => wire = <<Subscription>>
  /\ pc \in {"callback", "select", "flush", "closing", "drain"} => Connected /\ wire # <<>>

Conserved ==
  pc # "done" => /\ wire \in Seq(Outgoing)
                 /\ Promised = wire \o outbox \o Published(rx)

(***************************************************************************)
(* What a step does to the events on their way: nothing, or it takes the    *)
(* head of one queue to the next, lets an event in, or leaves serve.  Once  *)
(* serve is done it stays so and calls nobody back.                         *)
(***************************************************************************)
LEMMA SendingSteps ==
  ASSUME Types, Step
  PROVE  \/ /\ UNCHANGED <<wire, outbox, rx, accepted>>
            /\ pc = "done" <=> pc' = "done"
            /\ pc = "done" => UNCHANGED <<result, callbacks>>
            /\ holders = {} => holders' = {}
         \/ SendHead \/ SendClose \/ RxEvent
         \/ Leave /\ pc # "done" /\ UNCHANGED <<wire, callbacks>>
         \/ \E h \in Holders : SendAccepted(h)
<1>1. outbox # <<>> => Head(outbox) # None
  BY HeadTailProperties DEF Types, ProtocolType, Outgoing, Message, Subscription, None
<1>2. CASE Poll
  BY <1>1, <1>2 DEF Poll, Connect, ConnectFails, Subscribe, AwaitPing, AwaitAck, AwaitFails,
    AwaitEnds, RxBranch, RxClosed, StreamBranch, StreamPing, StreamUndecodable,
    StreamMessage, StreamRejected, StreamCloses, Flush, FlushSend, FlushFails, FlushDone, Close,
    Drain, DrainDone, Goto, Return, Callback, Transmit, TransmitFails, Leave, SendHead, SendClose,
    BindingOutgoing, OutboxNextData, BindingReceiveEvent, BindingHandleIncoming,
    taskVars, protocolVars, channelVars, serverVars, streamVars
<1>3. CASE CallbackReturns
  BY <1>3 DEF CallbackReturns, Goto, protocolVars, channelVars, streamVars, Types, TaskType
<1>4. CASE Publish
  BY <1>4 DEF Publish, SendStart, SendRefused, DropOutbox, CloneOutbox, Running,
    taskVars, protocolVars, streamVars
<1>5. CASE Server
  BY <1>5 DEF Server, ServerSend, ServerClose, Break, taskVars, protocolVars, channelVars
<1>6. CASE UNCHANGED vars
  BY <1>6 DEF vars, taskVars, protocolVars, channelVars, streamVars
<1>7. CASE Interrupted
  BY <1>7 DEF Interrupted, Return, Leave
<1>8. CASE Spawn
  BY <1>8 DEF Spawn, Spawned, Running, taskVars, protocolVars, streamVars
<1> QED BY <1>2, <1>3, <1>4, <1>5, <1>6, <1>7, <1>8, StepCases

LEMMA NextDrained == Types /\ Drained /\ Step => Drained'
<1> SUFFICES ASSUME Types, Drained, Step PROVE Drained'
  OBVIOUS
<1>1. outbox # <<>> => Head(outbox) # None
  BY HeadTailProperties DEF Types, ProtocolType, Outgoing, Message, Subscription, None
<1>2. CASE Poll
  BY <1>1, <1>2 DEF Poll, Connect, ConnectFails, Subscribe, AwaitPing, AwaitAck, AwaitFails,
    AwaitEnds, RxBranch, RxEvent, RxClosed, StreamBranch, StreamPing, StreamUndecodable,
    StreamMessage, StreamRejected, StreamCloses, Flush, FlushSend, FlushFails, FlushDone, Close,
    Drain, DrainDone, Goto, Return, Callback,
    BindingOutgoing, OutboxNextData, BindingReceiveEvent, BindingHandleIncoming,
    taskVars, protocolVars, channelVars, Drained
<1>3. CASE CallbackReturns
  BY <1>3 DEF CallbackReturns, Goto, protocolVars, channelVars, Types, TaskType, Drained
<1>4. CASE Publish
  BY <1>4 DEF Publish, SendStart, SendAccepted, SendRefused, DropOutbox, CloneOutbox, Running,
    taskVars, protocolVars, Types, Awaited, Drained
<1>5. CASE Server
  BY <1>5 DEF Server, ServerSend, ServerClose, Break, taskVars, protocolVars, channelVars, Drained
<1>6. CASE UNCHANGED vars
  BY <1>6 DEF vars, taskVars, protocolVars, channelVars, Drained
<1>7. CASE Interrupted
  BY <1>7 DEF Interrupted, Return, Drained
<1>8. CASE Spawn
  BY <1>8 DEF Spawn, Spawned, Running, taskVars, protocolVars, Drained
<1> QED BY <1>2, <1>3, <1>4, <1>5, <1>6, <1>7, <1>8, StepCases

LEMMA NextConserved == Types /\ Conserved /\ Step => Conserved'
<1> SUFFICES ASSUME Types, Conserved, Step, pc' # "done" PROVE Conserved'
  BY DEF Conserved
<1> DEFINE P == Published(rx)
<1>1. /\ outbox \in Seq(Outgoing) /\ npub \in 0 .. MaxPublish
      /\ rx \in Seq(1 .. npub) /\ accepted \in Seq(1 .. npub)
  BY DEF Types, ProtocolType, ChannelType
<1>2. P \in Seq(Outgoing) /\ Published(accepted) \in Seq(Outgoing)
  BY <1>1, PublishedQueue
<1>3. pc # "done" => wire \in Seq(Outgoing) /\ Promised = wire \o outbox \o P
  BY DEF Conserved
<1>4. CASE UNCHANGED <<wire, outbox, rx, accepted>> /\ pc # "done"
  BY <1>3, <1>4 DEF Conserved, Promised
<1>5. CASE SendHead
  <2>1. /\ wire' = Append(wire, Head(outbox)) /\ outbox' = Tail(outbox) /\ outbox # <<>>
        /\ rx' = rx /\ accepted' = accepted /\ pc # "done"
    BY <1>5 DEF SendHead, channelVars
  <2>2. wire' \in Seq(Outgoing) /\ wire' \o outbox' = wire \o outbox
    <3>1. wire \in Seq(Outgoing) /\ outbox \in Seq(Outgoing) /\ outbox # <<>>
      BY <1>1, <1>3, <2>1
    <3>2. /\ Append(wire, Head(outbox)) \in Seq(Outgoing)
          /\ Append(wire, Head(outbox)) \o Tail(outbox) = wire \o outbox
      BY ONLY <3>1, PopMoves
    <3> QED BY <2>1, <3>2
  <2> QED BY <1>3, <2>1, <2>2 DEF Conserved, Promised
<1>6. CASE RxEvent
  <2>1. /\ rx # <<>> /\ rx' = Tail(rx) /\ outbox' = Append(outbox, DataMessage(Head(rx)))
        /\ wire' = wire /\ accepted' = accepted /\ pc # "done"
    BY <1>6 DEF RxEvent, BindingPublishEvent, OutboxEnqueue, streamVars
  <2>2. P # <<>> /\ Head(P) = DataMessage(Head(rx)) /\ Tail(P) = Published(rx')
    BY <1>1, <2>1, PublishedTail
  <2>3. wire \in Seq(Outgoing) /\ wire \o outbox \in Seq(Outgoing) /\ Head(P) \in Outgoing
    BY <1>1, <1>2, <1>3, <2>1, <2>2, ConcatProperties, HeadTailProperties
  <2>4. wire \o Append(outbox, Head(P)) = Append(wire \o outbox, Head(P))
    BY <1>1, <2>3, PushMoves
  <2>5. Append(wire \o outbox, Head(P)) \o Tail(P) = wire \o outbox \o P
    <3> DEFINE w == wire \o outbox
    <3> HIDE DEF P, w
    <3>1. w \in Seq(Outgoing)
      BY <2>3 DEF w
    <3>2. Append(w, Head(P)) \o Tail(P) = w \o P
      BY <1>2, <2>2, <3>1, PopMoves
    <3> QED BY <3>2 DEF w
  <2> QED BY <1>3, <2>1, <2>2, <2>3, <2>4, <2>5 DEF Conserved, Promised
<1>7. ASSUME NEW h \in Holders, SendAccepted(h) PROVE Conserved'
  <2> DEFINE e == pending[h]
  <2>1. /\ rx' = Append(rx, e) /\ accepted' = Append(accepted, e)
        /\ wire' = wire /\ outbox' = outbox /\ pc # "done"
    BY <1>7 DEF SendAccepted, taskVars, protocolVars, streamVars
  <2>2. e \in 1 .. npub
    BY <1>7 DEF SendAccepted, Types, ChannelType
  <2>3. DataMessage(e) \in Outgoing
    BY <1>1, <2>2, ServiceAssumption DEF DataMessage, Outgoing, Message
  <2> HIDE DEF e
  <2>4. /\ Published(rx') = Append(P, DataMessage(e))
        /\ Published(accepted') = Append(Published(accepted), DataMessage(e))
    BY <1>1, <2>1, <2>2, PublishedAppend
  <2>5. <<Subscription>> \in Seq(Outgoing) /\ wire \o outbox \in Seq(Outgoing)
    BY <1>1, <1>3, <2>1, ConcatProperties DEF Outgoing
  <2>6. Promised' = Append(Promised, DataMessage(e))
    BY <1>2, <2>3, <2>4, <2>5, PushMoves DEF Promised
  <2>7. wire \o outbox \o Append(P, DataMessage(e)) = Append(wire \o outbox \o P, DataMessage(e))
    BY <1>2, <2>3, <2>5, PushMoves
  <2> QED BY <1>3, <2>1, <2>4, <2>6, <2>7 DEF Conserved
<1>8. CASE SendClose \/ Leave
  BY <1>8 DEF SendClose, Leave
<1> QED BY <1>4, <1>5, <1>6, <1>7, <1>8, SendingSteps

LEMMA NextHandshake ==
  Types /\ Drained /\ Handshake /\ Step => Handshake'
<1> SUFFICES ASSUME Types, Drained, Handshake, Step PROVE Handshake'
  OBVIOUS
<1>1. outbox # <<>> => Head(outbox) # None
  BY HeadTailProperties DEF Types, ProtocolType, Outgoing, Message, Subscription, None
<1>2. callbacks \in Seq([cb : {"connected", "event", "error"}, frame : Nat \ {0}])
  BY DEF Types, CallbackType
<1>3. ASSUME NEW e PROVE Append(callbacks, e) # <<>> /\ Append(wire, e) # <<>>
  BY <1>2, AppendIsNotEmpty DEF Types, WireType
<1>4. CASE SendHead
  <2>1. /\ wire' = Append(wire, Head(outbox)) /\ outbox' = Tail(outbox) /\ outbox # <<>>
        /\ pc \in {"subscribe", "flush"} /\ pc' = pc /\ callbacks' = callbacks
    BY <1>4 DEF SendHead
  <2>2. wire' # <<>>
    BY <1>3, <2>1
  <2>3. wire' \o outbox' = wire \o outbox
    <3>1. outbox \in Seq(Outgoing \cup {CloseFrame}) /\ wire \in Seq(Outgoing \cup {CloseFrame})
      BY DEF Types, ProtocolType, WireType
    <3> QED BY <2>1, <3>1, PopMoves
  <2> QED BY <2>1, <2>2, <2>3 DEF Handshake, Connected
<1>5. CASE Poll /\ wire' = wire /\ ~SendHead
  <2>1. outbox = <<>> => wire \o outbox = wire
    BY ConcatEmptySeq DEF Types, WireType
  <2>2. \/ pc' = "done"
        \/ pc = "connect" /\ pc' = "subscribe" /\ UNCHANGED <<outbox, callbacks>>
        \/ pc = "subscribe" /\ pc' = "await_ack" /\ outbox = <<>>
        \/ pc = "await_ack" /\ pc' = "await_ack"
        \/ /\ pc = "await_ack" /\ pc' = "callback"
           /\ \E e : callbacks' = Append(callbacks, e)
        \/ /\ pc \in {"select", "flush", "drain"}
           /\ pc' \in {"callback", "select", "flush", "closing", "drain"}
           /\ callbacks' = callbacks \/ \E e : callbacks' = Append(callbacks, e)
    BY <1>1, <1>4, <1>5 DEF Poll, Connect, ConnectFails, Subscribe, AwaitPing, AwaitAck, AwaitFails,
      AwaitEnds, RxBranch, RxEvent, RxClosed, StreamBranch, StreamPing, StreamUndecodable,
      StreamMessage, StreamRejected, StreamCloses, Flush, FlushSend, FlushFails, FlushDone, Close,
      Drain, DrainDone, Goto, Return, Callback, Transmit, SendHead,
      BindingOutgoing, OutboxNextData, taskVars, protocolVars, channelVars, streamVars
  <2>3. (\E e : callbacks' = Append(callbacks, e)) => callbacks' # <<>>
    BY <1>3
  <2>4. pc' = "await_ack" => wire' = <<Subscription>>
    BY <1>5, <2>1, <2>2 DEF Handshake
  <2>5. pc' \in {"connect", "subscribe"} =>
          callbacks' = <<>> /\ wire' \o outbox' = <<Subscription>>
    BY <1>5, <2>2 DEF Handshake, Connected
  <2>6. pc' \in {"callback", "select", "flush", "closing", "drain"} => callbacks' # <<>> /\ wire' # <<>>
    <3>1. <<Subscription>> # <<>>
      OBVIOUS
    <3>2. \/ wire = <<Subscription>>
          \/ callbacks # <<>> /\ wire # <<>>
          \/ pc' \notin {"callback", "select", "flush", "closing", "drain"}
      BY <2>2 DEF Handshake, Connected
    <3>3. \/ callbacks' # <<>>
          \/ callbacks' = callbacks /\ callbacks # <<>>
          \/ pc' \notin {"callback", "select", "flush", "closing", "drain"}
      BY <2>2, <2>3 DEF Handshake, Connected
    <3> QED BY <1>5, <3>1, <3>2, <3>3
  <2> QED BY <2>4, <2>5, <2>6 DEF Handshake, Connected
<1>6. CASE SendClose
  BY <1>6 DEF SendClose, Leave, Handshake
<1>7. CASE CallbackReturns
  BY <1>7 DEF CallbackReturns, Goto, protocolVars, streamVars, Types, TaskType, Handshake, Connected
<1>8. CASE Publish
  BY <1>8 DEF Publish, SendStart, SendAccepted, SendRefused, DropOutbox, CloneOutbox,
    taskVars, protocolVars, streamVars, Handshake, Connected
<1>9. CASE Server
  BY <1>9 DEF Server, ServerSend, ServerClose, Break, taskVars, protocolVars, Handshake, Connected
<1>10. CASE UNCHANGED vars
  BY <1>10 DEF vars, taskVars, protocolVars, streamVars, Handshake, Connected
<1>11. CASE Interrupted
  BY <1>11 DEF Interrupted, Return, Handshake
<1>12. CASE Spawn
  BY <1>12 DEF Spawn, Spawned, taskVars, protocolVars, streamVars, Handshake, Connected
<1> QED BY <1>4, <1>5, <1>6, <1>7, <1>8, <1>9, <1>10, <1>11, <1>12, StepCases, PollFootprint

LEMMA NextOutboundConserved ==
  Types /\ Conserved' /\ Types' /\ OutboundConserved /\ Step => OutboundConserved'
<1> SUFFICES ASSUME Types, Types', Conserved', OutboundConserved, Step
             PROVE  OutboundConserved'
  OBVIOUS
<1>1. (pc # "done" => Promised = wire \o outbox \o Published(rx))'
  BY DEF Conserved
<1>2. (~SaidGoodbye => IsPrefix(wire, Promised))'
  <2>1. CASE pc' # "done"
    <3> DEFINE w == wire'
               o == outbox'
               q == Published(rx')
    <3>1. w \in Seq(Outgoing) /\ o \in Seq(Outgoing) /\ q \in Seq(Outgoing)
      BY <2>1, PublishedQueue DEF Types, ProtocolType, ChannelType, Conserved
    <3>2. Promised' = w \o o \o q
      BY <1>1, <2>1
    <3> HIDE DEF w, o, q
    <3>3. w \o o \o q = w \o (o \o q) /\ o \o q \in Seq(Outgoing)
      BY <3>1
    <3>4. IsPrefix(w, w \o (o \o q))
      BY <3>1, <3>3, PrefixOfConcat
    <3> QED BY <3>2, <3>3, <3>4 DEF w
  <2>2. CASE SendClose
    <3>1. wire' = Append(wire, CloseFrame) /\ wire \in Seq(Outgoing \cup {CloseFrame})
      BY <2>2 DEF SendClose, Types, WireType
    <3>2. wire' # <<>> /\ wire'[Len(wire')] = CloseFrame
      BY <3>1, AppendProperties
    <3> QED BY <3>2 DEF SaidGoodbye
  <2>3. CASE UNCHANGED <<wire, accepted>>
    BY <2>3 DEF OutboundConserved, SaidGoodbye, Promised
  <2>4. CASE pc' = "done" /\ ~SendClose
    BY <2>3, <2>4, SendingSteps DEF SendHead, RxEvent, Goto, Leave, SendAccepted, taskVars,
      Types, TaskType
  <2> QED BY <2>1, <2>2, <2>4
<1> QED BY <1>1, <1>2 DEF OutboundConserved, Promised

LEMMA NextGracefulClose ==
  Types /\ Drained /\ Conserved /\ GracefulClose /\ Step => GracefulClose'
<1> SUFFICES ASSUME Types, Drained, Conserved, GracefulClose, Step
             PROVE  GracefulClose'
  OBVIOUS
<1>1. \A m \in Outgoing : m # CloseFrame
  BY DEF Outgoing, Message, Subscription, CloseFrame
<1>2. pc # "done" => /\ wire \in Seq(Outgoing) /\ ~SaidGoodbye
                     /\ \A i \in 1 .. Len(wire) : wire[i] # CloseFrame
  BY <1>1 DEF Conserved, SaidGoodbye
<1>3. CASE UNCHANGED <<wire, accepted>> /\ pc # "done"
  BY <1>2, <1>3 DEF GracefulClose, SaidGoodbye
<1>4. CASE UNCHANGED <<wire, accepted, result>> /\ (holders = {} => holders' = {})
  BY <1>4 DEF GracefulClose, SaidGoodbye
<1>5. CASE SendHead
  <2>1. /\ wire' = Append(wire, Head(outbox)) /\ Head(outbox) \in Outgoing
        /\ wire \in Seq(Outgoing)
    BY <1>2, <1>5, HeadTailProperties DEF SendHead, Types, ProtocolType
  <2>2. /\ Len(wire) \in Nat /\ Len(wire') = Len(wire) + 1 /\ wire'[Len(wire')] = Head(outbox)
        /\ \A i \in 1 .. Len(wire) : wire'[i] = wire[i]
    BY <2>1, AppendProperties
  <2>3. ~SaidGoodbye'
    BY <1>1, <2>1, <2>2 DEF SaidGoodbye
  <2>4. \A i \in 1 .. Len(wire') - 1 : wire'[i] # CloseFrame
    BY <1>2, <1>5, <2>2 DEF SendHead
  <2> QED BY <2>3, <2>4 DEF GracefulClose
<1>6. CASE SendClose
  <2>1. /\ pc = "closing" /\ wire' = Append(wire, CloseFrame) /\ result' = "Ok"
        /\ holders' = holders \ {Client} /\ accepted' = accepted
    BY <1>6 DEF SendClose, Leave
  <2>2. outbox = <<>> /\ rx = <<>> /\ holders = {}
    BY <2>1 DEF Drained
  <2>3. Published(<<>>) = <<>>
    BY DEF Published
  <2>4. wire \in Seq(Outgoing) /\ Promised = wire
    BY <2>1, <2>2, <2>3, ConcatEmptySeq DEF Conserved
  <2>5. wire' = Promised \o <<CloseFrame>>
    BY <2>1, <2>4, AppendIsConcat
  <2>6. /\ Len(wire) \in Nat /\ Len(wire') = Len(wire) + 1
        /\ \A i \in 1 .. Len(wire) : wire'[i] = wire[i]
    BY <2>1, <2>4
  <2>7. \A i \in 1 .. Len(wire') - 1 : wire'[i] # CloseFrame
    BY <1>2, <2>1, <2>6
  <2> QED BY <2>1, <2>2, <2>5, <2>7 DEF GracefulClose, Promised
<1>7. CASE \E h \in Holders : SendAccepted(h)
  BY <1>2, <1>7 DEF SendAccepted, streamVars, GracefulClose, SaidGoodbye
<1>8. CASE RxEvent
  BY <1>2, <1>8 DEF RxEvent, streamVars, GracefulClose, SaidGoodbye
<1>9. CASE Leave /\ pc # "done" /\ wire' = wire
  BY <1>3, <1>9 DEF Leave
<1> QED BY <1>3, <1>4, <1>5, <1>6, <1>7, <1>8, <1>9, SendingSteps

LEMMA NextHandshakeFirst ==
  ASSUME Types, Drained, Handshake, Conserved, HandshakeFirst, Step,
         Types', Handshake', Conserved'
  PROVE  HandshakeFirst'
<1>1. CASE pc' \in {"connect", "subscribe"}
  <2>1. wire' \in Seq(Outgoing) /\ outbox' \in Seq(Outgoing)
    BY <1>1 DEF Conserved, Types, ProtocolType
  <2>2. Len(wire' \o outbox') = Len(wire') + Len(outbox') /\ Len(wire') \in Nat /\ Len(outbox') \in Nat
    BY <2>1
  <2>3. Len(<<Subscription>>) = 1
    OBVIOUS
  <2>4. ~Connected' /\ Len(wire') <= 1
    BY <1>1, <2>2, <2>3 DEF Handshake
  <2> QED BY <2>2, <2>4 DEF HandshakeFirst
<1>2. CASE pc' = "await_ack"
  <2>1. wire' = <<Subscription>>
    BY <1>2 DEF Handshake
  <2> QED BY <2>1 DEF HandshakeFirst
<1>3. CASE pc' \in {"callback", "select", "flush", "closing", "drain"}
  <2> DEFINE w == wire'
             o == outbox'
             a == Published(accepted')
             q == Published(rx')
  <2>1. Connected' /\ w # <<>>
    BY <1>3 DEF Handshake
  <2>2. /\ w \in Seq(Outgoing) /\ o \in Seq(Outgoing)
        /\ a \in Seq(Outgoing) /\ q \in Seq(Outgoing)
    BY <1>3, PublishedQueue DEF Conserved, Types, ProtocolType, ChannelType
  <2>3. <<Subscription>> \o a = w \o o \o q
    BY <1>3 DEF Conserved, Promised
  <2> HIDE DEF w, o, a, q
  <2>4. (w \o o \o q)[1] = w[1]
    <3>1. Len(w) \in Nat /\ Len(w) > 0
      BY <2>1, <2>2
    <3>2. w \o o \in Seq(Outgoing) /\ (w \o o)[1] = w[1] /\ Len(w \o o) > 0
      BY <2>2, <3>1
    <3> QED BY <2>2, <3>2
  <2>5. (<<Subscription>> \o a)[1] = Subscription
    BY <2>2
  <2> QED BY <2>1, <2>3, <2>4, <2>5 DEF HandshakeFirst, w
<1>4. CASE pc' = "done"
  <2>1. CASE UNCHANGED <<wire, callbacks>>
    BY <2>1 DEF HandshakeFirst, Connected
  <2>2. CASE SendClose
    <3>1. /\ wire' = Append(wire, CloseFrame) /\ callbacks' = callbacks
          /\ Connected /\ wire # <<>> /\ wire \in Seq(Outgoing \cup {CloseFrame})
      BY <2>2 DEF SendClose, Handshake, Types, WireType
    <3>2. wire'[1] = wire[1]
      BY <3>1, PushKeepsHead
    <3> QED BY <3>1, <3>2 DEF HandshakeFirst, Connected
  <2> QED BY <1>4, <2>1, <2>2, SendingSteps
        DEF SendHead, RxEvent, Goto, SendAccepted, taskVars, Types, TaskType
<1> QED BY <1>1, <1>2, <1>3, <1>4 DEF Types, TaskType, PCs

LEMMA NextOkMeansClosed ==
  ASSUME Types, Types', OkMeansClosed, Step
  PROVE  OkMeansClosed'
<1>1. CASE Poll
  <2>1. pc # "done" /\ result = "none"
    BY <1>1, PollFootprint DEF Types, TaskType
  <2>2. CASE SendClose
    <3>1. wire' = Append(wire, CloseFrame) /\ wire \in Seq(Outgoing \cup {CloseFrame})
      BY <2>2 DEF SendClose, Types, WireType
    <3>2. wire' # <<>> /\ wire'[Len(wire')] = CloseFrame
      BY <3>1, AppendProperties
    <3> QED BY <3>2 DEF SaidGoodbye, OkMeansClosed
  <2>3. CASE StreamEnds /\ UNCHANGED <<served, nread, link>>
    BY <2>3 DEF StreamEnds, PeerClosed, OkMeansClosed
  <2>4. CASE result' # "Ok"
    BY <2>4 DEF OkMeansClosed
  <2>5. result' = "Ok" => SendClose \/ (StreamEnds /\ UNCHANGED <<served, nread, link>>)
    BY <1>1, <2>1 DEF Poll, Connect, ConnectFails, Subscribe, AwaitPing, AwaitAck, AwaitFails,
      AwaitEnds, RxBranch, RxEvent, RxClosed, StreamBranch, StreamPing, StreamUndecodable,
      StreamMessage, StreamRejected, StreamCloses, Flush, FlushSend, FlushFails, FlushDone, Close,
      Drain, DrainDone, Goto, Return, Callback, Transmit, SendClose, Leave,
      taskVars, protocolVars, serverVars
  <2> QED BY <2>2, <2>3, <2>4, <2>5
<1>2. CASE UNCHANGED <<result, wire, served, nread, link>>
  BY <1>2 DEF OkMeansClosed, SaidGoodbye, PeerClosed
<1>3. CASE pc' # "done"
  BY <1>3 DEF OkMeansClosed, Types, TaskType
<1>4. CASE Publish
  BY <1>2, <1>4 DEF Publish, SendStart, SendAccepted, SendRefused, DropOutbox, CloneOutbox,
    taskVars, streamVars, serverVars
<1>5. CASE CallbackReturns
  BY <1>3, <1>5 DEF CallbackReturns, Goto, Types, TaskType
<1>6. CASE Server
  BY <1>3, <1>6 DEF Server, ServerSend, ServerClose, Break, taskVars
<1>7. CASE UNCHANGED vars
  BY <1>2, <1>7 DEF vars, taskVars, streamVars, serverVars
<1>8. CASE Interrupted
  BY <1>8 DEF Interrupted, OkMeansClosed
<1>9. CASE Spawn
  BY <1>2, <1>9 DEF Spawn, Spawned, taskVars, streamVars, serverVars
<1> QED BY <1>1, <1>4, <1>5, <1>6, <1>7, <1>8, <1>9, StepCases

-----------------------------------------------------------------------------
(***************************************************************************)
(* Frames and callbacks.  The binding's inbox holds a frame only from the   *)
(* await that read it to the callback for it.                               *)
(***************************************************************************)
Incoming ==
  /\ pc # "drain" => inbox = <<>>
  /\ inbox # <<>> =>
       /\ Len(inbox) = 1 /\ inbox[1].body = nread
       /\ inbox[1].kind = served[nread] /\ inbox[1].kind \in {"event", "error"}
       /\ \A i \in DOMAIN callbacks : callbacks[i].frame < nread
  /\ \A i \in DOMAIN callbacks : callbacks[i].frame \in 1 .. nread
  /\ pc \in {"connect", "subscribe"} => nread = 0
  /\ pc = "await_ack" =>
       callbacks = <<>> /\ \A k \in 1 .. nread : served[k] = "ping"

(* Nothing happens to the frames read so far; *)
NothingRead ==
  /\ UNCHANGED <<nread, inbox, callbacks>>
  /\ pc = "drain" /\ pc' # "drain" => inbox = <<>>
  /\ pc' = "await_ack" => pc = "await_ack" \/ pc = "subscribe"
  /\ pc' \in {"connect", "subscribe"} => pc \in {"connect", "subscribe"}
  /\ nread <= Len(served') /\ \A k \in 1 .. nread : served'[k] = served[k]

(* a frame is read that nobody is told of; *)
ReadSilently ==
  /\ ReadFrame /\ UNCHANGED <<served, inbox, callbacks>> /\ pc' # "connect" /\ pc' # "subscribe"
  /\ \/ pc = "await_ack" /\ pc' = "await_ack" /\ Frame = "ping"
     \/ pc = "await_ack" /\ pc' = "done"
     \/ pc = "select" /\ pc' # "await_ack" /\ Frame \notin Reportable

(* a callback is called for the frame that was read, *)
ReadReported ==
  /\ ReadFrame /\ UNCHANGED <<served, inbox>> /\ pc' = "callback"
  /\ \E cb \in {"connected", "event", "error"} :
       /\ callbacks' = Append(callbacks, [cb |-> cb, frame |-> nread + 1])
       /\ \/ pc = "await_ack" /\ Frame = "ack" /\ cb = "connected"
          \/ pc = "select" /\ Frame \in Reportable \ {"event"} /\ cb = "error"

(* or the binding takes the frame, and *)
ReadHandled ==
  /\ ReadFrame /\ UNCHANGED <<served, callbacks>> /\ pc = "select" /\ pc' = "drain"
  /\ Frame \in {"event", "error"}
  /\ inbox' = Append(inbox, [kind |-> Frame, body |-> nread + 1])

(* gives it back for its callback. *)
TakenReported ==
  /\ pc = "drain" /\ inbox # <<>> /\ inbox' = Tail(inbox) /\ pc' = "callback"
  /\ UNCHANGED <<served, nread>>
  /\ callbacks' = Append(callbacks, [cb    |-> IF Head(inbox).kind = "event" THEN "event" ELSE "error",
                                     frame |-> Head(inbox).body])

LEMMA ReadingSteps ==
  ASSUME Types, Step
  PROVE  NothingRead \/ ReadSilently \/ ReadReported \/ ReadHandled \/ TakenReported
<1>1. /\ nread \in Nat /\ nread <= Len(served) /\ Len(served) \in Nat
      /\ served \in Seq(FrameKinds)
  BY DEF Types, StreamType
<1>2. inbox # <<>> => Head(inbox) # None /\ Head(inbox).kind \in {"ack", "event", "other", "error"}
  <2>1. inbox # <<>> => Head(inbox) \in Message
    BY HeadTailProperties DEF Types, ProtocolType
  <2>2. \A m \in Message : m.kind \in {"ack", "event", "other", "error"} /\ m # None
    BY DEF Message, None
  <2> QED BY <2>1, <2>2
<1>3. CASE Poll
  BY <1>1, <1>2, <1>3 DEF Poll, Connect, ConnectFails, Subscribe, AwaitPing, AwaitAck, AwaitFails,
    AwaitEnds, RxBranch, RxEvent, RxClosed, StreamBranch, StreamPing, StreamUndecodable,
    StreamMessage, StreamRejected, StreamCloses, Flush, FlushSend, FlushFails, FlushDone, Close,
    Drain, DrainDone, Goto, Return, Callback, BindingPublishEvent,
    BindingOutgoing, BindingReceiveEvent, InboxNextMessage, ReceiveResult,
    BindingHandleIncoming, InboxHandle, None, Decodable, Reportable,
    taskVars, protocolVars, serverVars, streamVars,
    NothingRead, ReadSilently, ReadReported, ReadHandled, TakenReported
<1>4. CASE CallbackReturns
  BY <1>1, <1>4 DEF CallbackReturns, Goto, protocolVars, streamVars, serverVars, NothingRead,
    Types, TaskType
<1>5. CASE Publish
  BY <1>1, <1>5 DEF Publish, SendStart, SendAccepted, SendRefused, DropOutbox, CloneOutbox,
    taskVars, protocolVars, streamVars, serverVars, NothingRead
<1>6. CASE Server
  <2>1. UNCHANGED <<taskVars, protocolVars, nread, callbacks>>
    BY <1>6 DEF Server, ServerSend, ServerClose, Break
  <2>2. nread <= Len(served') /\ \A k \in 1 .. nread : served'[k] = served[k]
    <3>1. ASSUME NEW f, served' = Append(served, f)
          PROVE  Len(served') = Len(served) + 1 /\ \A k \in 1 .. Len(served) : served'[k] = served[k]
      <4>1. served \in Seq(FrameKinds \cup {f})
        BY <1>1, SeqMonotonic
      <4> QED BY <3>1, <4>1, AppendProperties
    <3>2. ASSUME NEW n \in nread .. Len(served), served' = SubSeq(served, 1, n)
          PROVE  Len(served') = n /\ \A k \in 1 .. n : served'[k] = served[k]
      BY <1>1, <3>2
    <3> QED BY <1>1, <1>6, <3>1, <3>2 DEF Server, ServerSend, ServerClose, Break
  <2> QED BY <2>1, <2>2 DEF taskVars, protocolVars, NothingRead
<1>7. CASE UNCHANGED vars
  BY <1>1, <1>7 DEF vars, taskVars, protocolVars, streamVars, serverVars, NothingRead
<1>8. CASE Interrupted
  BY <1>1, <1>8 DEF Interrupted, Return, protocolVars, serverVars, NothingRead
<1>9. CASE Spawn
  BY <1>1, <1>9 DEF Spawn, Spawned, taskVars, protocolVars, streamVars, serverVars, NothingRead
<1> QED BY <1>3, <1>4, <1>5, <1>6, <1>7, <1>8, <1>9, StepCases

LEMMA NextIncoming ==
  ASSUME Types, Handshake, Incoming, Step
  PROVE  Incoming'
<1>1. /\ nread \in Nat /\ nread <= Len(served) /\ Len(served) \in Nat
      /\ callbacks \in Seq([cb : {"connected", "event", "error"}, frame : Nat \ {0}])
      /\ inbox \in Seq(Message)
  BY DEF Types, StreamType, CallbackType, ProtocolType
<1>2. CASE NothingRead
  <2>1. UNCHANGED <<nread, inbox, callbacks>> /\ \A k \in 1 .. nread : served'[k] = served[k]
    BY <1>2 DEF NothingRead
  <2>2. inbox # <<>> => nread \in 1 .. nread /\ inbox = inbox'
    <3>1. inbox # <<>> => inbox[1].body \in 1 .. nread
      BY <1>1 DEF Types, InboxRead
    <3> QED BY <2>1, <3>1 DEF Incoming
  <2>3. pc' # "drain" => inbox = <<>>
    BY <1>2 DEF NothingRead, Incoming
  <2>4. pc' \in {"connect", "subscribe"} => nread = 0
    BY <1>2 DEF NothingRead, Incoming
  <2>5. pc' = "await_ack" => callbacks = <<>> /\ \A k \in 1 .. nread : served[k] = "ping"
    BY <1>2 DEF NothingRead, Incoming, Handshake, Connected
  <2> QED BY <2>1, <2>2, <2>3, <2>4, <2>5 DEF Incoming
<1>3. CASE ReadSilently
  <2>1. nread' = nread + 1 /\ UNCHANGED <<served, inbox, callbacks>>
    BY <1>3 DEF ReadSilently, ReadFrame
  <2>2. inbox = <<>>
    BY <1>3 DEF ReadSilently, Incoming
  <2>3. pc' = "await_ack" => callbacks = <<>> /\ \A k \in 1 .. nread + 1 : served[k] = "ping"
    BY <1>1, <1>3 DEF ReadSilently, Incoming, Frame
  <2> QED BY <1>1, <1>3, <2>1, <2>2, <2>3 DEF ReadSilently, Incoming
<1>4. CASE ReadReported
  <2>1. PICK cb \in {"connected", "event", "error"} :
          callbacks' = Append(callbacks, [cb |-> cb, frame |-> nread + 1])
    BY <1>4 DEF ReadReported
  <2>2. /\ nread' = nread + 1 /\ UNCHANGED <<served, inbox>> /\ inbox = <<>> /\ pc' = "callback"
    BY <1>4 DEF ReadReported, ReadFrame, Incoming
  <2>3. \A i \in DOMAIN callbacks' : callbacks'[i].frame \in 1 .. nread + 1
    BY <1>1, <2>1, AppendProperties DEF Incoming
  <2> QED BY <2>2, <2>3 DEF Incoming
<1>5. CASE ReadHandled
  <2> DEFINE m == [kind |-> Frame, body |-> nread + 1]
  <2>1. /\ nread' = nread + 1 /\ UNCHANGED <<served, callbacks>> /\ inbox = <<>> /\ pc' = "drain"
        /\ inbox' = Append(inbox, m) /\ Frame \in {"event", "error"}
    BY <1>5 DEF ReadHandled, ReadFrame, Incoming
  <2>2. m.kind = Frame /\ m.body = nread + 1 /\ Frame = served[nread + 1]
    BY DEF Frame
  <2> HIDE DEF m
  <2>3. inbox' = <<m>>
    BY <2>1
  <2>4. \A i \in DOMAIN callbacks : callbacks[i].frame < nread + 1 /\ callbacks[i].frame \in 1 .. nread + 1
    BY <1>1 DEF Incoming
  <2> QED BY <2>1, <2>2, <2>3, <2>4 DEF Incoming
<1>6. CASE TakenReported
  <2> DEFINE c == [cb    |-> IF Head(inbox).kind = "event" THEN "event" ELSE "error",
                   frame |-> Head(inbox).body]
  <2>1. /\ UNCHANGED <<nread, served>> /\ pc' = "callback" /\ inbox' = Tail(inbox) /\ inbox # <<>>
        /\ callbacks' = Append(callbacks, c)
    BY <1>6 DEF TakenReported
  <2>2. Len(inbox) = 1 /\ Head(inbox).body = nread /\ \A i \in DOMAIN callbacks : callbacks[i].frame \in 1 .. nread
    BY <2>1 DEF Incoming
  <2>3. inbox' = <<>>
    BY <1>1, <2>1, <2>2
  <2>4. c \in [cb : {"connected", "event", "error"}, frame : Nat \ {0}] /\ c.frame = nread /\ nread \in 1 .. nread
    <3>1. nread # 0
      BY <2>1, <2>2, HeadTailProperties DEF Types, InboxRead
    <3> QED BY <1>1, <2>2, <3>1
  <2> HIDE DEF c
  <2>5. \A i \in DOMAIN callbacks' : callbacks'[i].frame \in 1 .. nread
    BY <1>1, <2>1, <2>2, <2>4, AppendProperties
  <2> QED BY <2>1, <2>3, <2>5 DEF Incoming
<1> QED BY <1>2, <1>3, <1>4, <1>5, <1>6, ReadingSteps

(* Appending a callback for frame n. *)
LEMMA CallbackAdded ==
  ASSUME Types, NEW cb \in {"connected", "event", "error"}, NEW n \in Nat \ {0},
         callbacks' = Append(callbacks, [cb |-> cb, frame |-> n])
  PROVE  /\ DOMAIN callbacks = 1 .. Len(callbacks) /\ Len(callbacks) \in Nat
         /\ DOMAIN callbacks' = 1 .. Len(callbacks) + 1
         /\ \A i \in DOMAIN callbacks : callbacks'[i] = callbacks[i]
         /\ callbacks'[Len(callbacks) + 1].cb = cb
         /\ callbacks'[Len(callbacks) + 1].frame = n
         /\ \A k : Reported(k)' <=> Reported(k) \/ k = n
         /\ Connected'
<1> DEFINE c == [cb |-> cb, frame |-> n]
<1>1. c \in [cb : {"connected", "event", "error"}, frame : Nat \ {0}] /\ c.cb = cb /\ c.frame = n
  OBVIOUS
<1> HIDE DEF c
<1>2. callbacks' = Append(callbacks, c)
  BY DEF c
<1>3. callbacks \in Seq([cb : {"connected", "event", "error"}, frame : Nat \ {0}])
  BY DEF Types, CallbackType
<1>4. /\ DOMAIN callbacks = 1 .. Len(callbacks) /\ Len(callbacks) \in Nat
      /\ DOMAIN callbacks' = 1 .. Len(callbacks) + 1
      /\ \A i \in DOMAIN callbacks : callbacks'[i] = callbacks[i]
      /\ callbacks'[Len(callbacks) + 1] = c
      /\ callbacks' # <<>>
  BY <1>1, <1>2, <1>3, AppendProperties
<1>5. \A k : Reported(k)' <=> Reported(k) \/ k = n
  <2>1. \A i \in DOMAIN callbacks' : i \in DOMAIN callbacks \/ i = Len(callbacks) + 1
    BY <1>4
  <2> QED BY <1>1, <1>4, <2>1 DEF Reported
<1> QED BY <1>1, <1>4, <1>5 DEF Connected

LEMMA NextCallbacks ==
  ASSUME Types, Handshake, Incoming, CallbacksFollowFrames, Step
  PROVE  CallbacksFollowFrames'
<1> USE DEF CallbacksFollowFrames
<1>1. /\ nread \in Nat /\ nread <= Len(served) /\ Len(served) \in Nat
      /\ callbacks \in Seq([cb : {"connected", "event", "error"}, frame : Nat \ {0}])
      /\ DOMAIN callbacks = 1 .. Len(callbacks) /\ Len(callbacks) \in Nat
      /\ Connected => 1 \in DOMAIN callbacks
  BY DEF Types, StreamType, CallbackType, Connected
<1>2. /\ \A i \in DOMAIN callbacks : callbacks[i].frame \in 1 .. nread
      /\ Connected => callbacks[1].frame \in 1 .. nread
      /\ ~Reported(nread + 1)
  BY <1>1 DEF Incoming, Reported
<1>3. CASE NothingRead
  <2>1. UNCHANGED <<nread, inbox, callbacks>> /\ \A k \in 1 .. nread : served'[k] = served[k]
    BY <1>3 DEF NothingRead
  <2>2. CallbackMatches' /\ CallbackOrder'
    BY <1>2, <2>1 DEF CallbackMatches, CallbackOrder
  <2>3. CallbackComplete'
    <3> SUFFICES ASSUME Connected PROVE CallbackComplete'
      BY <2>1 DEF CallbackComplete, Connected
    <3>1. \A k : Reported(k)' <=> Reported(k)
      BY <2>1 DEF Reported
    <3>2. callbacks[1].frame \in 1 .. nread
      BY <1>2
    <3>3. /\ 1 .. callbacks[1].frame - 1 \subseteq 1 .. nread
          /\ callbacks[1].frame + 1 .. nread \subseteq 1 .. nread
      BY <1>1, <3>2
    <3> QED BY <2>1, <3>1, <3>2, <3>3 DEF CallbackComplete
  <2> QED BY <2>2, <2>3
<1>4. CASE ReadSilently
  <2>1. nread' = nread + 1 /\ UNCHANGED <<served, inbox, callbacks>>
    BY <1>4 DEF ReadSilently, ReadFrame
  <2>2. CallbackMatches' /\ CallbackOrder'
    BY <2>1 DEF CallbackMatches, CallbackOrder
  <2>3. Connected => served[nread + 1] \notin Reportable /\ inbox = <<>>
    BY <1>4 DEF ReadSilently, Incoming, Connected, Frame
  <2>4. \A k : Reported(k)' <=> Reported(k)
    BY <2>1 DEF Reported
  <2>5. CallbackComplete'
    <3> SUFFICES ASSUME Connected PROVE CallbackComplete'
      BY <2>1 DEF CallbackComplete, Connected
    <3>1. callbacks[1].frame \in 1 .. nread /\ served[nread + 1] \notin Reportable
      BY <1>2, <2>3
    <3>2. ASSUME NEW k \in callbacks[1].frame + 1 .. nread + 1
          PROVE  Reported(k) <=>
                   served[k] \in Reportable /\ \A i \in DOMAIN inbox : inbox[i].body # k
      <4>1. CASE k = nread + 1
        BY <1>2, <3>1, <4>1
      <4>2. CASE k \in callbacks[1].frame + 1 .. nread
        BY <4>2 DEF CallbackComplete
      <4> QED BY <1>1, <3>1, <4>1, <4>2
    <3> QED BY <2>1, <2>4, <3>2 DEF CallbackComplete
  <2> QED BY <2>2, <2>5
<1>5. CASE ReadReported
  <2>1. PICK cb \in {"connected", "event", "error"} :
          /\ callbacks' = Append(callbacks, [cb |-> cb, frame |-> nread + 1])
          /\ \/ pc = "await_ack" /\ served[nread + 1] = "ack" /\ cb = "connected"
             \/ /\ pc = "select" /\ served[nread + 1] \in Reportable \ {"event"}
                /\ cb = "error"
    BY <1>5 DEF ReadReported, Frame
  <2>2. nread' = nread + 1 /\ UNCHANGED <<served, inbox>> /\ inbox = <<>> /\ nread + 1 \in Nat \ {0}
    BY <1>1, <1>5 DEF ReadReported, ReadFrame, Incoming
  <2> DEFINE last == Len(callbacks) + 1
  <2>3. /\ DOMAIN callbacks' = 1 .. last
        /\ \A i \in DOMAIN callbacks : callbacks'[i] = callbacks[i]
        /\ callbacks'[last].cb = cb /\ callbacks'[last].frame = nread + 1
        /\ \A k : Reported(k)' <=> Reported(k) \/ k = nread + 1
    BY <2>1, <2>2, CallbackAdded
  <2>4. \A i \in DOMAIN callbacks' : i \in DOMAIN callbacks \/ i = last
    BY <1>1, <2>3
  <2>5. CallbackMatches'
    BY <2>1, <2>2, <2>3, <2>4 DEF CallbackMatches, Reportable
  <2>6. CallbackOrder'
    <3> SUFFICES ASSUME NEW i \in DOMAIN callbacks', NEW j \in DOMAIN callbacks', i < j
                 PROVE  callbacks'[i].frame < callbacks'[j].frame
      BY DEF CallbackOrder
    <3>1. i \in DOMAIN callbacks
      BY <1>1, <2>3
    <3>2. CASE j = last
      BY <1>1, <1>2, <2>3, <3>1, <3>2
    <3>3. CASE j \in DOMAIN callbacks
      BY <2>3, <3>1, <3>3 DEF CallbackOrder
    <3> QED BY <2>4, <3>2, <3>3
  <2>7. CallbackComplete'
    <3>1. CASE callbacks = <<>>
      <4>1. pc = "await_ack" /\ served[nread + 1] = "ack" /\ callbacks'[1].frame = nread + 1
        BY <2>1, <2>3, <3>1 DEF Handshake, Connected
      <4> QED BY <1>1, <2>2, <4>1 DEF CallbackComplete, Incoming
    <3>2. CASE callbacks # <<>>
      <4>1. /\ callbacks'[1] = callbacks[1] /\ callbacks[1].frame \in 1 .. nread
            /\ served[nread + 1] \in Reportable
        BY <1>1, <1>2, <2>1, <2>3, <3>2 DEF Connected, Incoming
      <4> QED BY <1>1, <1>2, <2>2, <2>3, <3>2, <4>1 DEF CallbackComplete, Connected
    <3> QED BY <3>1, <3>2
  <2> QED BY <2>5, <2>6, <2>7
<1>6. CASE ReadHandled
  <2> DEFINE m == [kind |-> Frame, body |-> nread + 1]
  <2>1. /\ nread' = nread + 1 /\ UNCHANGED <<served, callbacks>> /\ inbox = <<>>
        /\ inbox' = Append(inbox, m) /\ Frame \in Reportable
    BY <1>6 DEF ReadHandled, ReadFrame, Incoming, Reportable
  <2>2. m.body = nread + 1 /\ Frame = served[nread + 1]
    BY DEF Frame
  <2> HIDE DEF m
  <2>3. inbox' = <<m>>
    BY <2>1
  <2>4. CallbackMatches' /\ CallbackOrder'
    BY <2>1 DEF CallbackMatches, CallbackOrder
  <2>5. \A k : Reported(k)' <=> Reported(k)
    BY <2>1 DEF Reported
  <2>6. CallbackComplete'
    BY <1>1, <1>2, <2>1, <2>2, <2>3, <2>5 DEF CallbackComplete, Connected
  <2> QED BY <2>4, <2>6
<1>7. CASE TakenReported
  <2>1. /\ UNCHANGED <<nread, served>> /\ inbox # <<>> /\ inbox' = Tail(inbox)
        /\ Len(inbox) = 1 /\ Head(inbox).body = nread /\ Head(inbox).kind = served[nread]
        /\ Head(inbox).kind \in {"event", "error"}
        /\ \A i \in DOMAIN callbacks : callbacks[i].frame < nread
    BY <1>7 DEF TakenReported, Incoming
  <2>2. inbox' = <<>> /\ nread \in Nat \ {0}
    BY <1>1, <2>1, HeadTailProperties DEF Types, InboxRead, ProtocolType
  <2>3. PICK cb \in {"event", "error"} :
          /\ callbacks' = Append(callbacks, [cb |-> cb, frame |-> nread])
          /\ cb = "event" <=> served[nread] = "event"
    BY <1>7, <2>1 DEF TakenReported
  <2> DEFINE last == Len(callbacks) + 1
  <2>4. /\ DOMAIN callbacks' = 1 .. last
        /\ \A i \in DOMAIN callbacks : callbacks'[i] = callbacks[i]
        /\ callbacks'[last].cb = cb /\ callbacks'[last].frame = nread
        /\ \A k : Reported(k)' <=> Reported(k) \/ k = nread
    BY <2>2, <2>3, CallbackAdded
  <2>5. \A i \in DOMAIN callbacks' : i \in DOMAIN callbacks \/ i = last
    BY <1>1, <2>4
  <2>6. CallbackMatches'
    BY <2>1, <2>3, <2>4, <2>5 DEF CallbackMatches
  <2>7. CallbackOrder'
    BY <1>1, <2>1, <2>4, <2>5 DEF CallbackOrder
  <2>8. CallbackComplete'
    <3>1. pc = "drain" /\ Connected
      BY <1>7 DEF TakenReported, Handshake
    <3>2. callbacks'[1] = callbacks[1] /\ callbacks[1].frame < nread
      BY <1>1, <2>1, <2>4, <3>1
    <3>3. inbox[1].body = nread /\ DOMAIN inbox = {1}
      BY <2>1 DEF Types, ProtocolType
    <3>4. \A k \in 1 .. nread : (\A i \in DOMAIN inbox : inbox[i].body # k) <=> k # nread
      BY <3>3
    <3>5. served[nread] \in Reportable
      BY <2>1 DEF Reportable
    <3> QED BY <1>1, <1>2, <2>1, <2>2, <2>4, <3>1, <3>2, <3>4, <3>5 DEF CallbackComplete
  <2> QED BY <2>6, <2>7, <2>8
<1> QED BY <1>3, <1>4, <1>5, <1>6, <1>7, ReadingSteps

-----------------------------------------------------------------------------
(***************************************************************************)
(* The inductive invariant: the properties and what they rest on.  All but  *)
(* the results serve itself returns is kept by every Step.                  *)
(***************************************************************************)
Safe ==
  /\ Types /\ Drained /\ Handshake /\ Conserved /\ Incoming
  /\ OutboundConserved /\ GracefulClose /\ HandshakeFirst /\ OkMeansClosed
  /\ CallbacksFollowFrames

IInv == Safe /\ result \in TaskResults

LEMMA InitSafe == Init => Safe
<1> SUFFICES ASSUME Init PROVE Safe
  OBVIOUS
<1>1. Types
  BY InitTypes
<1>2. /\ pc = "connect" /\ wire = <<>> /\ outbox = <<Subscription>> /\ rx = <<>>
      /\ accepted = <<>> /\ callbacks = <<>> /\ result = "none"
  BY DEF Init, New
<1>3. Published(<<>>) = <<>>
  BY DEF Published
<1>4. <<Subscription>> \in Seq(Outgoing)
  BY DEF Outgoing
<1>5. Promised = <<Subscription>> /\ wire \o outbox = <<Subscription>>
  BY <1>2, <1>3, <1>4, ConcatEmptySeq DEF Promised
<1>6. Drained /\ Handshake
  BY <1>2, <1>5 DEF Drained, Handshake, Connected
<1>7. Conserved
  BY <1>2, <1>3, <1>4, <1>5, ConcatEmptySeq DEF Conserved
<1>8. ~SaidGoodbye
  BY <1>2 DEF SaidGoodbye
<1>9. OutboundConserved
  <2>1. IsPrefix(<<>>, <<Subscription>>)
    <3>1. <<>> \in Seq(Outgoing) /\ <<>> \o <<Subscription>> = <<Subscription>>
      BY <1>4, ConcatEmptySeq
    <3>2. IsPrefix(<<>>, <<>> \o <<Subscription>>)
      BY <1>4, <3>1, PrefixOfConcat
    <3> QED BY <3>1, <3>2
  <2> QED BY <1>2, <1>5, <1>7, <2>1 DEF Conserved, OutboundConserved, Promised
<1>10. GracefulClose /\ HandshakeFirst /\ OkMeansClosed
  BY <1>2, <1>8 DEF GracefulClose, HandshakeFirst, Connected, OkMeansClosed
<1>11. Incoming /\ CallbacksFollowFrames
  BY <1>2 DEF Init, New, Incoming, Connected,
    CallbacksFollowFrames, CallbackMatches, CallbackOrder, CallbackComplete
<1> QED BY <1>1, <1>6, <1>7, <1>9, <1>10, <1>11 DEF Safe

LEMMA StepSafe == Safe /\ Step => Safe'
<1> SUFFICES ASSUME Safe, Step PROVE Safe'
  OBVIOUS
<1> USE DEF Safe
<1>1. Types' /\ Drained' /\ Handshake' /\ Conserved'
  BY NextTypes, NextDrained, NextHandshake, NextConserved
<1>2. Incoming' /\ CallbacksFollowFrames'
  BY NextIncoming, NextCallbacks
<1>3. OutboundConserved' /\ GracefulClose' /\ HandshakeFirst' /\ OkMeansClosed'
  BY <1>1, NextOutboundConserved, NextGracefulClose, NextHandshakeFirst, NextOkMeansClosed
<1> QED BY <1>1, <1>2, <1>3

(* Service::serve returns nothing but these results. *)
LEMMA NextResult ==
  ASSUME [Next]_vars
  PROVE  result' \in TaskResults \cup {result}
<1>1. CASE Poll
  BY <1>1 DEF Poll, Connect, ConnectFails, Subscribe, AwaitPing, AwaitAck, AwaitFails, AwaitEnds,
    RxBranch, RxEvent, RxClosed, StreamBranch, StreamPing, StreamUndecodable, StreamMessage,
    StreamRejected, StreamCloses, Flush, FlushSend, FlushFails, FlushDone, Close, Drain, DrainDone,
    Goto, Return, Callback, taskVars, TaskResults
<1>2. CASE CallbackReturns \/ Publish \/ Server
  BY <1>2 DEF CallbackReturns, Goto, Publish, SendStart, SendAccepted, SendRefused, DropOutbox,
    CloneOutbox, Server, ServerSend, ServerClose, Break, taskVars
<1> QED BY <1>1, <1>2 DEF Next, Task, Finished, vars, taskVars

(***************************************************************************)
(* The inductive invariant holds in every reachable state of Service.       *)
(***************************************************************************)
THEOREM Invariance == Spec => []IInv
<1>1. Init => IInv
  BY InitSafe DEF IInv, Init, TaskResults
<1>2. IInv /\ [Next]_vars => IInv'
  BY StepSafe, NextResult DEF IInv, Step
<1> QED BY <1>1, <1>2, PTL DEF Spec

(***************************************************************************)
(* Types: in particular the channel never holds more than outbox_size       *)
(* events, and serve has a result exactly when it is done.                  *)
(***************************************************************************)
THEOREM TypeCorrect == Spec => []TypeOK
<1>1. IInv => TypeOK
  BY TypesImplyTypeOK DEF IInv, Safe
<1> QED BY <1>1, Invariance, PTL

(***************************************************************************)
(* What Outbox::send answered with Ok is sent once, in order, behind the    *)
(* subscription; what is lost when serve returns is a suffix.               *)
(***************************************************************************)
THEOREM NothingLostOnTheWay == Spec => []OutboundConserved
<1>1. IInv => OutboundConserved
  BY DEF IInv, Safe
<1> QED BY <1>1, Invariance, PTL

(***************************************************************************)
(* The Close frame of the service follows every event any Outbox accepted.  *)
(***************************************************************************)
THEOREM GracefulExit == Spec => []GracefulClose
<1>1. IInv => GracefulClose
  BY DEF IInv, Safe
<1> QED BY <1>1, Invariance, PTL

(***************************************************************************)
(* No event is sent before the ACK, and the subscription is sent first.     *)
(***************************************************************************)
THEOREM SubscribedBeforeEvents == Spec => []HandshakeFirst
<1>1. IInv => HandshakeFirst
  BY DEF IInv, Safe
<1> QED BY <1>1, Invariance, PTL

(***************************************************************************)
(* serve says Ok only of a session closed on purpose.                       *)
(***************************************************************************)
THEOREM OkIsDeliberate == Spec => []OkMeansClosed
<1>1. IInv => OkMeansClosed
  BY DEF IInv, Safe
<1> QED BY <1>1, Invariance, PTL

(***************************************************************************)
(* The client is called once for each frame that calls for it, in order,    *)
(* after the frame that connected it.                                       *)
(***************************************************************************)
THEOREM ClientSeesStream == Spec => []CallbacksFollowFrames
<1>1. IInv => CallbacksFollowFrames
  BY DEF IInv, Safe
<1> QED BY <1>1, Invariance, PTL

-----------------------------------------------------------------------------
(***************************************************************************)
(* Service implements the steps of Session, for every instance: the safety  *)
(* half of ImplementsSession.                                               *)
(***************************************************************************)

(* Where the elements of a concatenation are. *)
LEMMA ConcatIndex ==
  ASSUME NEW T, NEW s \in Seq(T), NEW t \in Seq(T)
  PROVE  /\ s \o t \in Seq(T) /\ Len(s \o t) = Len(s) + Len(t)
         /\ \A i \in 1 .. Len(s) : (s \o t)[i] = s[i]
         /\ t # <<>> => (s \o t)[Len(s) + 1] = Head(t)
OBVIOUS

(* What is on the wire, seen by the session, in a state that has not ended. *)
LEMMA SentIsSeq ==
  ASSUME Safe, pc # "done"
  PROVE  /\ ~SaidGoodbye
         /\ wire \in Seq(Outgoing) /\ Len(wire) \in Nat
         /\ SentEvents = [i \in 1 .. Len(wire) - 1 |-> wire[i + 1].body]
         /\ Len(SentEvents) = IF wire = <<>> THEN 0 ELSE Len(wire) - 1
<1>1. ~SaidGoodbye
  BY DEF Safe, GracefulClose, Types, TaskType
<1>2. wire \in Seq(Outgoing) /\ Len(wire) \in Nat
  BY DEF Safe, Conserved
<1>3. SentEvents = [i \in 1 .. Len(wire) - 1 |-> wire[i + 1].body]
  BY <1>1 DEF SentEvents
<1>4. CASE wire = <<>>
  <2>1. 1 .. Len(wire) - 1 = 1 .. 0
    BY <1>4
  <2>2. SentEvents = [i \in 1 .. 0 |-> wire[i + 1].body]
    BY <1>3, <2>1
  <2>3. Len([i \in 1 .. 0 |-> wire[i + 1].body]) = 0
    OBVIOUS
  <2> QED BY <1>1, <1>2, <1>3, <1>4, <2>2, <2>3
<1>5. CASE wire # <<>>
  <2>1. Len(wire) - 1 \in Nat
    BY <1>2, <1>5
  <2> QED BY <1>1, <1>2, <1>3, <1>5, <2>1
<1> QED BY <1>4, <1>5

(* The frames sent are the subscription and then the events, as accepted. *)
LEMMA SentAsAccepted ==
  ASSUME Safe, pc # "done"
  PROVE  /\ accepted \in Seq(1 .. MaxPublish) /\ Len(accepted) \in Nat
         /\ Len(wire) + Len(outbox) + Len(rx) = Len(accepted) + 1
         /\ \A i \in 2 .. Len(wire) : wire[i].body = accepted[i - 1]
         /\ outbox # <<>> /\ wire # <<>> =>
              Head(outbox).body = accepted[Len(wire)] /\ Len(wire) \in 1 .. Len(accepted)
<1> DEFINE a == Published(accepted)
           q == Published(rx)
<1>1. /\ npub \in 0 .. MaxPublish /\ accepted \in Seq(1 .. npub) /\ rx \in Seq(1 .. npub)
      /\ outbox \in Seq(Outgoing) /\ wire \in Seq(Outgoing)
      /\ <<Subscription>> \o a = wire \o outbox \o q
  BY DEF Safe, Types, ChannelType, ProtocolType, Conserved, Promised
<1>2. /\ a \in Seq(Outgoing) /\ Len(a) = Len(accepted)
      /\ \A i \in 1 .. Len(accepted) : a[i] = DataMessage(accepted[i])
      /\ q \in Seq(Outgoing) /\ Len(q) = Len(rx)
  BY <1>1, PublishedQueue
<1>3. accepted \in Seq(1 .. MaxPublish) /\ Len(accepted) \in Nat
  BY <1>1, ServiceAssumption
<1> HIDE DEF a, q
<1>4. Len(<<Subscription>> \o a) = Len(a) + 1
      /\ \A i \in 2 .. Len(a) + 1 : (<<Subscription>> \o a)[i] = a[i - 1]
  BY <1>2
<1>5. /\ Len(wire \o outbox \o q) = Len(wire) + Len(outbox) + Len(q)
      /\ \A i \in 1 .. Len(wire) : (wire \o outbox \o q)[i] = wire[i]
      /\ outbox # <<>> => (wire \o outbox \o q)[Len(wire) + 1] = Head(outbox)
  <2> DEFINE x == wire \o outbox
  <2>1. /\ x \in Seq(Outgoing) /\ Len(x) = Len(wire) + Len(outbox)
        /\ \A i \in 1 .. Len(wire) : x[i] = wire[i]
        /\ outbox # <<>> => x[Len(wire) + 1] = Head(outbox)
    BY <1>1, ConcatIndex
  <2> HIDE DEF x
  <2>2. /\ Len(x \o q) = Len(x) + Len(q)
        /\ \A i \in 1 .. Len(x) : (x \o q)[i] = x[i]
    <3>1. x \in Seq(Outgoing) /\ q \in Seq(Outgoing)
      BY <1>2, <2>1
    <3> QED BY <3>1, ConcatIndex
  <2>3. /\ 1 .. Len(wire) \subseteq 1 .. Len(x)
        /\ outbox # <<>> => Len(wire) + 1 \in 1 .. Len(x)
    BY <1>1, <2>1
  <2> QED BY <2>1, <2>2, <2>3 DEF x
<1>6. \A e : DataMessage(e).body = e
  BY DEF DataMessage
<1>7. Len(wire) \in Nat /\ Len(outbox) \in Nat /\ Len(rx) \in Nat /\ (outbox # <<>> => Len(outbox) > 0)
      /\ (wire # <<>> => Len(wire) > 0)
  BY <1>1
<1>8. Len(wire) + Len(outbox) + Len(rx) = Len(accepted) + 1
  BY <1>1, <1>2, <1>4, <1>5
<1>9. \A i \in 2 .. Len(wire) : wire[i].body = accepted[i - 1]
  <2> TAKE i \in 2 .. Len(wire)
  <2>1. i \in 2 .. Len(a) + 1 /\ i - 1 \in 1 .. Len(accepted) /\ i \in 1 .. Len(wire)
    BY <1>2, <1>3, <1>7, <1>8
  <2>2. wire[i] = (wire \o outbox \o q)[i]
    BY <1>5, <2>1
  <2>3. wire[i] = a[i - 1]
    BY <1>1, <1>4, <2>1, <2>2
  <2>4. wire[i] = DataMessage(accepted[i - 1])
    BY <1>2, <2>1, <2>3
  <2> QED BY <1>6, <2>4
<1>10. outbox # <<>> /\ wire # <<>> =>
         Head(outbox).body = accepted[Len(wire)] /\ Len(wire) \in 1 .. Len(accepted)
  <2> HAVE outbox # <<>> /\ wire # <<>>
  <2>1. Len(wire) + 1 \in 2 .. Len(a) + 1 /\ Len(wire) \in 1 .. Len(accepted)
    BY <1>2, <1>3, <1>7, <1>8
  <2>2. Head(outbox) = (wire \o outbox \o q)[Len(wire) + 1]
    BY <1>5
  <2>3. (<<Subscription>> \o a)[Len(wire) + 1] = a[(Len(wire) + 1) - 1]
    BY <1>4, <2>1
  <2>4. (Len(wire) + 1) - 1 = Len(wire)
    BY <1>7
  <2>5. Head(outbox) = a[Len(wire)]
    BY <1>1, <2>2, <2>3, <2>4
  <2>6. Head(outbox) = DataMessage(accepted[Len(wire)])
    BY <1>2, <2>1, <2>5
  <2> QED BY <1>6, <2>1, <2>6
<1> QED BY <1>3, <1>8, <1>9, <1>10

(* Steps that leave the wire alone leave what the session sent alone. *)
LEMMA SameWire ==
  ASSUME wire' = wire
  PROVE  SentEvents' = SentEvents /\ SaidGoodbye' = SaidGoodbye
BY DEF SentEvents, SaidGoodbye

(* Each step of Service is a step of Session or changes nothing it shows. *)
LEMMA PublishSimulates ==
  ASSUME Safe, Publish
  PROVE  [S!Next]_(S!vars)
<1>1. PICK h \in Holders :
        \/ SendStart(h) \/ SendAccepted(h) \/ SendRefused(h) \/ DropOutbox(h)
        \/ \E g \in Publishers : CloneOutbox(h, g)
  BY DEF Publish
<1>2. wire' = wire /\ pc' = pc /\ callbacks' = callbacks
  BY <1>1 DEF SendStart, SendAccepted, SendRefused, DropOutbox, CloneOutbox, taskVars, streamVars
<1>3. Phase' = Phase /\ SentEvents' = SentEvents /\ SaidGoodbye' = SaidGoodbye
  BY <1>2, SameWire DEF Phase, Connected
<1>4. CASE SendStart(h) \/ SendRefused(h)
  BY <1>3, <1>4 DEF SendStart, SendRefused, S!vars
<1>5. CASE SendAccepted(h)
  <2>1. pending[h] \in 1 .. MaxPublish /\ h \in holders /\ Phase # "closed"
    BY <1>5, ServiceAssumption DEF SendAccepted, Safe, Types, ChannelType, Awaited, Phase
  <2>2. accepted' = Append(accepted, pending[h]) /\ holders' = holders
    BY <1>5 DEF SendAccepted
  <2> QED BY <1>3, <2>1, <2>2 DEF S!Next, S!Offer
<1>6. CASE DropOutbox(h) \/ \E g \in Publishers : CloneOutbox(h, g)
  <2>1. h \in holders /\ holders' \in SUBSET Holders /\ accepted' = accepted
    BY <1>6 DEF DropOutbox, CloneOutbox, Running, Safe, Types, ChannelType, Holders
  <2> QED BY <1>3, <2>1 DEF S!Next, S!Regroup
<1> QED BY <1>1, <1>4, <1>5, <1>6

LEMMA PollSimulates ==
  ASSUME Safe, Safe', Poll
  PROVE  [S!Next]_(S!vars)
<1>1. pc # "done" /\ pc # "callback"
  BY PollFootprint
<1>2. holders' \subseteq holders /\ accepted' = accepted
  BY PollFootprint DEF channelVars, Leave, RxEvent
<1>3. Connected => Connected'
  <2>1. \A e : Append(callbacks, e) # <<>>
    BY AppendIsNotEmpty DEF Safe, Types, CallbackType
  <2> QED BY PollFootprint, <2>1 DEF Drain, Callback, Connected
<1>4. CASE wire' = wire /\ pc' = "done"
  <2>1. Phase # "closed" /\ Phase' = "closed"
    BY <1>1, <1>4 DEF Phase
  <2> QED BY <1>2, <1>4, <2>1, SameWire DEF S!Next, S!End
<1>5. CASE wire' = wire /\ pc' # "done"
  <2>1. holders' = holders
    BY <1>5, PollFootprint DEF channelVars, Leave, RxEvent
  <2>2. Phase' = Phase \/ (Phase = "opening" /\ Phase' = "open")
    BY <1>1, <1>3, <1>5 DEF Phase
  <2> QED BY <1>2, <1>5, <2>1, <2>2, SameWire DEF S!Next, S!Open, S!vars
<1>6. CASE SendHead
  <2>1. /\ wire' = Append(wire, Head(outbox)) /\ outbox # <<>> /\ pc' = pc
        /\ callbacks' = callbacks /\ holders' = holders
    BY <1>6 DEF SendHead, channelVars
  <2>2. Phase' = Phase /\ ~SaidGoodbye /\ ~SaidGoodbye'
    BY <1>1, <2>1, SentIsSeq DEF Phase, Connected, Safe, GracefulClose, Types, TaskType
  <2>3. /\ wire \in Seq(Outgoing) /\ Len(wire) \in Nat /\ Head(outbox) \in Outgoing
        /\ SentEvents = [i \in 1 .. Len(wire) - 1 |-> wire[i + 1].body]
        /\ Len(SentEvents) = IF wire = <<>> THEN 0 ELSE Len(wire) - 1
    BY <1>1, <2>1, SentIsSeq, HeadTailProperties DEF Safe, Types, ProtocolType
  <2>4. /\ Len(wire') = Len(wire) + 1 /\ \A i \in 1 .. Len(wire) : wire'[i] = wire[i]
        /\ wire'[Len(wire) + 1] = Head(outbox)
    BY <2>1, <2>3, AppendProperties
  <2>5. SentEvents' = [i \in 1 .. Len(wire) |-> wire'[i + 1].body]
    BY <2>2, <2>3, <2>4 DEF SentEvents
  <2>6. SaidGoodbye' = SaidGoodbye
    BY <2>2 DEF SaidGoodbye
  <2>7. CASE wire = <<>>
    <3>1. 1 .. Len(wire) = {} /\ 1 .. Len(wire) - 1 = {}
      BY <2>7
    <3>2. SentEvents' = SentEvents
      BY <2>3, <2>5, <3>1
    <3> QED BY <1>2, <2>1, <2>2, <2>6, <3>2 DEF S!vars
  <2>8. CASE wire # <<>>
    <3>1. Connected
      <4>1. CASE pc = "subscribe"
        <5>1. Len(wire) > 0 /\ Len(outbox) > 0 /\ Len(outbox) \in Nat /\ outbox \in Seq(Outgoing)
          BY <2>1, <2>3, <2>8 DEF Safe, Types, ProtocolType
        <5>2. Len(wire \o outbox) = Len(wire) + Len(outbox)
          BY <2>3, <5>1, ConcatIndex
        <5>3. Len(wire \o outbox) = 1
          BY <4>1 DEF Safe, Handshake
        <5> QED BY <2>3, <5>1, <5>2, <5>3
      <4>2. CASE pc = "flush"
        BY <4>2 DEF Safe, Handshake
      <4> QED BY <1>6, <4>1, <4>2 DEF SendHead
    <3>2. Phase = "open"
      BY <1>1, <3>1 DEF Phase
    <3> DEFINE n == Len(wire)
               e == accepted[n]
               t == Append(SentEvents, e)
               u == SentEvents'
               V == 1 .. MaxPublish
    <3>3. /\ n \in 1 .. Len(accepted) /\ n \in Nat \ {0} /\ e \in V /\ Head(outbox).body = e
          /\ \A i \in 2 .. n : wire[i].body = accepted[i - 1]
          /\ accepted \in Seq(V) /\ Len(accepted) \in Nat
      <4>1. /\ accepted \in Seq(V) /\ Len(accepted) \in Nat /\ Head(outbox).body = e
            /\ n \in 1 .. Len(accepted)
            /\ \A i \in 2 .. n : wire[i].body = accepted[i - 1]
        BY <1>1, <2>1, <2>8, SentAsAccepted
      <4> HIDE DEF V, n
      <4>2. n \in Nat \ {0} /\ e \in V
        BY <4>1
      <4> QED BY <4>1, <4>2
    <3>4. /\ SentEvents = [i \in 1 .. n - 1 |-> wire[i + 1].body] /\ Len(SentEvents) = n - 1
          /\ u = [i \in 1 .. n |-> wire'[i + 1].body]
      BY <2>3, <2>5, <2>8
    <3>5. /\ \A i \in 1 .. n - 1 : wire[i + 1].body = accepted[i] /\ accepted[i] \in V
          /\ \A i \in 1 .. n - 1 : wire'[i + 1] = wire[i + 1]
          /\ wire'[n + 1].body = e
      <4>1. \A i \in 1 .. n - 1 : i + 1 \in 2 .. n /\ i + 1 \in 1 .. n /\ (i + 1) - 1 = i /\ i \in 1 .. Len(accepted)
        BY <3>3
      <4>2. \A i \in 1 .. n - 1 : wire[i + 1].body = accepted[i] /\ accepted[i] \in V
        <5> TAKE i \in 1 .. n - 1
        <5>1. wire[i + 1].body = accepted[(i + 1) - 1] /\ (i + 1) - 1 = i /\ i \in 1 .. Len(accepted)
          BY <3>3, <4>1
        <5>2. accepted[i] \in V
          <6> HIDE DEF V, n, e
          <6> QED BY <3>3, <5>1, ElementOfSeq
        <5>3. accepted[(i + 1) - 1] = accepted[i]
          BY <5>1
        <5> QED BY <5>1, <5>2, <5>3
      <4>3. \A i \in 1 .. n - 1 : wire'[i + 1] = wire[i + 1]
        BY <2>4, <4>1
      <4>4. wire'[n + 1].body = e
        BY <2>4, <3>3
      <4> QED BY <4>2, <4>3, <4>4
    <3> HIDE DEF n, e, V
    <3>6. SentEvents \in Seq(V)
      <4>1. n - 1 \in Nat /\ SentEvents = [i \in 1 .. n - 1 |-> SentEvents[i]]
        BY <3>3, <3>4
      <4>2. \A i \in 1 .. n - 1 : SentEvents[i] \in V
        BY <3>4, <3>5
      <4> QED BY <4>1, <4>2
    <3>7. t \in Seq(V) /\ Len(t) = n /\ t[n] = e /\ \A i \in 1 .. n - 1 : t[i] = accepted[i]
      BY <3>3, <3>4, <3>5, <3>6, AppendProperties
    <3>8. \A i \in 1 .. n : u[i] = t[i] /\ u[i] \in V
      <4> TAKE i \in 1 .. n
      <4>1. u[i] = wire'[i + 1].body
        BY <3>4
      <4>2. i = n \/ i \in 1 .. n - 1
        BY <3>3
      <4> QED BY <3>3, <3>5, <3>7, <4>1, <4>2
    <3>9. u \in Seq(V) /\ Len(u) = n
      <4>1. u = [i \in 1 .. n |-> u[i]] /\ n \in Nat
        BY <3>3, <3>4
      <4> QED BY <3>8, <4>1
    <3> HIDE DEF t, u
    <3>10. u = t
      BY <3>7, <3>8, <3>9, SeqEqual
    <3>11. SentEvents' = Append(SentEvents, accepted[Len(SentEvents) + 1]) /\ Len(SentEvents) < Len(accepted)
      BY <3>3, <3>4, <3>10 DEF n, e, t, u
    <3> QED BY <1>2, <2>1, <2>2, <2>6, <3>2, <3>11 DEF S!Next, S!Send
  <2> QED BY <2>7, <2>8
<1>7. CASE SendClose
  <2>1. /\ pc = "closing" /\ pc' = "done" /\ wire' = Append(wire, CloseFrame)
        /\ holders' = holders \ {Client} /\ accepted' = accepted
    BY <1>7 DEF SendClose, Leave
  <2>2. outbox = <<>> /\ rx = <<>> /\ holders = {} /\ holders' = holders /\ Connected /\ wire # <<>>
    BY <2>1 DEF Safe, Drained, Handshake
  <2>3. Phase = "open" /\ Phase' = "closed"
    BY <2>1, <2>2 DEF Phase
  <2>4. /\ ~SaidGoodbye /\ wire \in Seq(Outgoing) /\ Len(wire) \in Nat \ {0}
        /\ SentEvents = [i \in 1 .. Len(wire) - 1 |-> wire[i + 1].body]
        /\ Len(SentEvents) = Len(wire) - 1
    BY <1>1, <2>2, SentIsSeq
  <2>5. /\ accepted \in Seq(1 .. MaxPublish) /\ Len(wire) = Len(accepted) + 1 /\ Len(accepted) \in Nat
        /\ \A i \in 2 .. Len(wire) : wire[i].body = accepted[i - 1]
    BY <1>1, <2>2, <2>4, SentAsAccepted
  <2>6. /\ wire' # <<>> /\ Len(wire') = Len(wire) + 1 /\ wire'[Len(wire')] = CloseFrame
        /\ \A i \in 1 .. Len(wire) : wire'[i] = wire[i]
    <3>1. wire \in Seq(Outgoing \cup {CloseFrame}) /\ CloseFrame \in Outgoing \cup {CloseFrame}
      BY DEF Safe, Types, WireType
    <3> QED BY <2>1, <3>1, AppendProperties
  <2>7. SaidGoodbye'
    BY <2>6 DEF SaidGoodbye
  <2>8. SentEvents' = [i \in 1 .. Len(wire) - 1 |-> wire'[i + 1].body]
    BY <2>4, <2>6, <2>7 DEF SentEvents
  <2>9. SentEvents' = SentEvents
    BY <2>4, <2>6, <2>8
  <2>10. SentEvents = accepted
    <3>1. SentEvents = [i \in 1 .. Len(accepted) |-> wire[i + 1].body]
      BY <2>4, <2>5
    <3>2. \A i \in 1 .. Len(accepted) : wire[i + 1].body = accepted[i]
      <4>1. \A i \in 1 .. Len(accepted) : i + 1 \in 2 .. Len(wire) /\ (i + 1) - 1 = i
        BY <2>5
      <4> QED BY <2>5, <4>1
    <3>3. accepted = [i \in 1 .. Len(accepted) |-> accepted[i]]
      BY <2>5
    <3> QED BY <3>1, <3>2, <3>3
  <2>11. SaidGoodbye' = TRUE
    BY <2>7 DEF SaidGoodbye
  <2> QED BY <2>1, <2>2, <2>3, <2>9, <2>10, <2>11 DEF S!Next, S!Leave
<1> QED BY <1>4, <1>5, <1>6, <1>7, PollFootprint

LEMMA StepSimulates ==
  ASSUME Safe, Safe', Step
  PROVE  [S!Next]_(S!vars)
<1>1. CASE CallbackReturns
  <2>1. pc = "callback" /\ pc' # "done" /\ UNCHANGED <<callbacks, holders, accepted, wire>>
    BY <1>1 DEF CallbackReturns, Goto, channelVars, streamVars, Safe, Types, TaskType
  <2> QED BY <2>1, SameWire DEF Phase, Connected, S!vars
<1>2. CASE Server
  BY <1>2, SameWire DEF Server, ServerSend, ServerClose, Break, taskVars, channelVars,
    Phase, Connected, S!vars
<1>3. CASE UNCHANGED vars
  BY <1>3, SameWire DEF vars, taskVars, channelVars, streamVars, Phase, Connected, S!vars
<1>4. CASE Interrupted
  <2>1. /\ pc # "done" /\ pc' = "done" /\ holders' = holders \ {Client} /\ wire' = wire
        /\ accepted' = accepted
    BY <1>4 DEF Interrupted, Return
  <2>2. Phase # "closed" /\ Phase' = "closed" /\ SentEvents' = SentEvents /\ SaidGoodbye' = SaidGoodbye
    BY <2>1, SameWire DEF Phase
  <2> QED BY <2>1, <2>2 DEF S!Next, S!End
<1>5. CASE Spawn
  <2>1. PICK h \in Holders, g \in Publishers : Spawned(h, g)
    BY <1>5 DEF Spawn
  <2>2. /\ holders # {} /\ holders' \in SUBSET Holders
        /\ UNCHANGED <<pc, callbacks, accepted, wire>>
    BY <2>1 DEF Spawned, Running, taskVars, streamVars, Safe, Types, ChannelType, Holders
  <2> QED BY <2>2, SameWire DEF Phase, Connected, S!Next, S!Regroup
<1> QED BY <1>1, <1>2, <1>3, <1>4, <1>5, StepCases, PollSimulates, PublishSimulates

(* The refinement mapping takes the initial states to the initial state. *)
LEMMA InitSimulates == Init => S!Init
<1> SUFFICES ASSUME Init PROVE S!Init
  OBVIOUS
<1>1. /\ pc = "connect" /\ wire = <<>> /\ accepted = <<>> /\ callbacks = <<>>
      /\ holders \in SUBSET Holders
  BY DEF Init
<1>2. ~SaidGoodbye
  BY <1>1 DEF SaidGoodbye
<1>3. SentEvents = <<>>
  <2>1. SentEvents = [i \in {} |-> wire[i + 1].body]
    BY <1>1, <1>2 DEF SentEvents
  <2> QED BY <2>1
<1>4. SaidGoodbye = FALSE
  BY <1>2 DEF SaidGoodbye
<1> QED BY <1>1, <1>3, <1>4 DEF S!Init, Phase, Connected

(***************************************************************************)
(* The safety half of ImplementsSession: serve starts as a session does and *)
(* each of its steps is one of the session or invisible to it.  So events   *)
(* are sent in the order Outbox::send accepted them and only while the      *)
(* session is open, and it is left in good order only by nobody, with       *)
(* everything sent.                                                         *)
(***************************************************************************)
THEOREM SessionSteps == Spec => S!Init /\ [][S!Next]_(S!vars)
<1>1. IInv /\ IInv' /\ [Next]_vars => [S!Next]_(S!vars)
  BY StepSimulates DEF IInv, Step
<1> QED BY <1>1, InitSimulates, Invariance, PTL DEF Spec

=============================================================================
