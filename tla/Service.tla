------------------------------ MODULE Service ------------------------------
(***************************************************************************)
(* `Service::serve` of src/src/client.rs: the task that runs a ZeekClient   *)
(* against a WebSocket server.  It composes                                 *)
(*   - the task itself, from one await point to the next (pc),              *)
(*   - the protocol state it drives (Protocol),                             *)
(*   - the bounded channel behind `Outbox`, with the tasks that hold a      *)
(*     clone of it and may be waiting for room in it,                       *)
(*   - the WebSocket stream and the server (external, nondeterministic).    *)
(***************************************************************************)
EXTENDS Protocol, SequencesExt

CONSTANTS
  Client,         \* the Outbox held by the ZeekClient, used in its callbacks
  Publishers,     \* the other tasks that may hold a clone of it
  OutboxSize,     \* ServiceConfig.outbox_size
  CallbackSends,  \* do the client's callbacks await Outbox::send?
  ServerKinds,    \* the frames the server may send
  EndModes,       \* how it ends the stream: "frame" (Close), "bare"
  MaxFrames,      \* bound: frames the server sends
  MaxPublish      \* bound: calls of Outbox::send

Decodable == {"ack", "event", "error", "other"}

ASSUME ServiceAssumption ==
  /\ Client \notin Publishers
  /\ OutboxSize \in Nat \ {0}
  /\ CallbackSends \in BOOLEAN
  /\ ServerKinds \subseteq Decodable \cup {"garbage", "ping", "pong"}
  /\ EndModes \subseteq {"frame", "bare"}
  /\ MaxFrames \in Nat /\ MaxPublish \in Nat
  /\ 1 .. MaxFrames \subseteq Body    \* frames are told apart by position,
  /\ 1 .. MaxPublish \subseteq Body   \* events published by number

VARIABLES
  pc,         \* where serve is suspended
  resume,     \* where it continues when the callback returns
  result,     \* what serve returned
  rx,         \* the channel: events accepted and not yet received
  holders,    \* who holds a clone of the Outbox
  pending,    \* pending[h]: the event h awaits room for, 0 if none
  npub,       \* calls of Outbox::send so far, which number the events
  served,     \* the frames the server sent, in order
  nread,      \* how many of them the service has read
  link,       \* "none", "up", "finished" (by the server) or "broken"
  wire,       \* history: what stream.send accepted, in order
  accepted,   \* history: the events the channel accepted, in order
  callbacks   \* history: the callbacks of the client, in order

taskVars    == <<pc, resume, result>>
channelVars == <<rx, holders, pending, npub, accepted>>
serverVars  == <<served, link>>
streamVars  == <<serverVars, nread, wire>>
vars == <<taskVars, protocolVars, channelVars, streamVars, callbacks>>

Holders == Publishers \cup {Client}

CloseFrame == [kind |-> "close", body |-> Subs]

Init ==
  /\ pc = "connect" /\ resume = "select" /\ result = "none"
  /\ New     \* constructed once connected; nothing looks at it before
  /\ rx = <<>> /\ accepted = <<>>
  /\ holders \in SUBSET Holders      \* what the init closure made of it
  /\ pending = [h \in Holders |-> 0]
  /\ npub = 0
  /\ served = <<>> /\ nread = 0 /\ link = "none" /\ wire = <<>>
  /\ callbacks = <<>>

-----------------------------------------------------------------------------
(* The stream, as the service uses tokio-tungstenite.                       *)

Frame == served[nread + 1]

(* stream.next() yields a frame. *)
ReadFrame == nread < Len(served) /\ nread' = nread + 1

(* The server's Close frame has been read: the stream is over. *)
PeerClosed == nread > 0 /\ served[nread] = "close"

StreamEnds == nread = Len(served) /\ (PeerClosed \/ link = "finished")

StreamFails == nread = Len(served) /\ ~PeerClosed /\ link = "broken"

(* stream.send(x) returns Ok; a dead connection need not be noticed yet. *)
Transmit(x) == ~PeerClosed /\ wire' = Append(wire, x)

TransmitFails == (PeerClosed \/ link # "up") /\ wire' = wire

-----------------------------------------------------------------------------
(* The task.                                                                *)

Goto(to) == pc' = to /\ UNCHANGED <<resume, result>>

(***************************************************************************)
(* serve returns: the receiver, what is queued in it and the client with    *)
(* its Outbox are dropped.                                                  *)
(***************************************************************************)
Return(res) ==
  /\ pc' = "done" /\ result' = res /\ resume' = resume
  /\ rx' = <<>>
  /\ holders' = holders \ {Client}
  /\ UNCHANGED <<pending, npub, accepted, serverVars, callbacks>>

(* A callback of the client is invoked for frame f and awaited. *)
Callback(cb, f, then) ==
  /\ callbacks' = Append(callbacks, [cb |-> cb, frame |-> f])
  /\ pc' = "callback" /\ resume' = then
  /\ result' = result

Connect ==
  /\ pc = "connect"
  /\ link' = "up"
  /\ Goto("subscribe")
  /\ UNCHANGED <<protocolVars, channelVars, served, nread, wire, callbacks>>

ConnectFails ==
  /\ pc = "connect"
  /\ Return("Transport")
  /\ UNCHANGED <<protocolVars, nread, wire>>

(***************************************************************************)
(* while let Some(x) = binding.outgoing() { stream.send(x).await?; }        *)
(* The frame is gone from the outbox when the send fails.                   *)
(***************************************************************************)
FlushSend(at) ==
  /\ pc = at
  /\ outbox # <<>>
  /\ BindingOutgoing(Head(outbox))
  /\ Transmit(Head(outbox))
  /\ UNCHANGED <<taskVars, channelVars, serverVars, nread, callbacks>>

(* Mutant of FlushFails: the error of a send is ignored. *)
FlushFailsIgnored(at) ==
  /\ pc = at
  /\ outbox # <<>>
  /\ BindingOutgoing(Head(outbox))
  /\ TransmitFails
  /\ UNCHANGED <<taskVars, channelVars, serverVars, nread, callbacks>>

FlushFails(at) ==
  /\ pc = at
  /\ outbox # <<>>
  /\ BindingOutgoing(Head(outbox))
  /\ TransmitFails
  /\ Return("Transport")
  /\ UNCHANGED nread

FlushDone(at, then) ==
  /\ pc = at
  /\ BindingOutgoing(None)
  /\ Goto(then)
  /\ UNCHANGED <<channelVars, streamVars, callbacks>>

(* Mutant of Subscribe: the handshake loop is skipped. *)
SubscribeOnly ==
  \/ FlushSend("subscribe")
  \/ FlushFails("subscribe")
  \/ FlushDone("subscribe", "select")

Subscribe ==
  \/ FlushSend("subscribe")
  \/ FlushFails("subscribe")
  \/ FlushDone("subscribe", "await_ack")

-----------------------------------------------------------------------------
(* The loop that waits for the ACK.  The ACK is not handed to the binding.  *)

AwaitPing ==
  /\ pc = "await_ack" /\ ReadFrame
  /\ Frame = "ping"
  /\ UNCHANGED <<taskVars, protocolVars, channelVars, serverVars, wire, callbacks>>

(* Mutant of AwaitAck: the break out of the handshake loop is missing. *)
AwaitAckLoops ==
  /\ pc = "await_ack" /\ ReadFrame
  /\ Frame = "ack"
  /\ Callback("connected", nread + 1, "await_ack")
  /\ UNCHANGED <<protocolVars, channelVars, serverVars, wire>>

AwaitAck ==
  /\ pc = "await_ack" /\ ReadFrame
  /\ Frame = "ack"
  /\ Callback("connected", nread + 1, "select")
  /\ UNCHANGED <<protocolVars, channelVars, serverVars, wire>>

AwaitFails ==
  /\ pc = "await_ack" /\ ReadFrame
  /\ \/ Frame \in {"garbage", "pong", "close"} /\ Return("ProtocolError")
     \/ Frame \in Decodable \ {"ack"} /\ Return("Transport")
  /\ UNCHANGED <<protocolVars, wire>>

AwaitEnds ==
  /\ pc = "await_ack"
  /\ \/ StreamEnds /\ Return("Ok")
     \/ StreamFails /\ Return("Transport")
  /\ UNCHANGED <<protocolVars, nread, wire>>

-----------------------------------------------------------------------------
(* tokio::select!, branch self.rx.recv().                                   *)

RxEvent ==
  /\ pc = "select"
  /\ rx # <<>>
  /\ rx' = Tail(rx)
  /\ BindingPublishEvent(Head(rx))
  /\ Goto("flush")
  /\ UNCHANGED <<holders, pending, npub, accepted, streamVars, callbacks>>

(* Mutant of RxClosed: closes once the Outboxes are dropped, queue or not. *)
RxClosedEarly ==
  /\ pc = "select"
  /\ holders = {}
  /\ Goto("closing")
  /\ UNCHANGED <<protocolVars, channelVars, streamVars, callbacks>>

(* Mutant of RxClosed: a closed channel is skipped instead of ending serve. *)
RxClosedContinues ==
  /\ pc = "select"
  /\ rx = <<>> /\ holders = {}
  /\ Goto("flush")
  /\ UNCHANGED <<protocolVars, channelVars, streamVars, callbacks>>

RxClosed ==
  /\ pc = "select"
  /\ rx = <<>> /\ holders = {}
  /\ Goto("closing")
  /\ UNCHANGED <<protocolVars, channelVars, streamVars, callbacks>>

RxBranch == RxEvent \/ RxClosed

Flush ==
  \/ FlushSend("flush")
  \/ FlushFails("flush")
  \/ FlushDone("flush", "select")

Close ==
  /\ pc = "closing"
  /\ \/ Transmit(CloseFrame) /\ Return("Ok")
     \/ TransmitFails /\ Return("Transport")
  /\ UNCHANGED <<protocolVars, nread>>

-----------------------------------------------------------------------------
(* tokio::select!, branch stream.next().                                    *)

StreamPing ==
  /\ pc = "select" /\ ReadFrame
  /\ Frame = "ping"
  /\ UNCHANGED <<taskVars, protocolVars, channelVars, serverVars, wire, callbacks>>

(* Mutant of StreamUndecodable: what does not decode is skipped silently. *)
StreamUndecodableSkipped ==
  /\ pc = "select" /\ ReadFrame
  /\ Frame \in {"garbage", "pong", "close"}
  /\ UNCHANGED <<taskVars, protocolVars, channelVars, serverVars, wire, callbacks>>

StreamUndecodable ==
  /\ pc = "select" /\ ReadFrame
  /\ Frame \in {"garbage", "pong", "close"}
  /\ Callback("error", nread + 1, "select")
  /\ UNCHANGED <<protocolVars, channelVars, serverVars, wire>>

StreamMessage ==
  /\ pc = "select" /\ ReadFrame
  /\ Frame \in Decodable
  /\ BindingHandleIncoming([kind |-> Frame, body |-> nread + 1], "Ok")
  /\ Goto("drain")
  /\ UNCHANGED <<channelVars, serverVars, wire, callbacks>>

StreamRejected ==
  /\ pc = "select" /\ ReadFrame
  /\ Frame \in Decodable
  /\ \E r \in {"AlreadySubscribed", "UnexpectedEventPayload"} :
       BindingHandleIncoming([kind |-> Frame, body |-> nread + 1], r)
  /\ Return("ProtocolError")
  /\ UNCHANGED wire

(* Mutant of StreamCloses: while let Some(Ok(r)), a broken stream is an end. *)
StreamClosesOk ==
  /\ pc = "select"
  /\ StreamEnds \/ StreamFails
  /\ Return("Ok")
  /\ UNCHANGED <<protocolVars, nread, wire>>

(* Mutant of StreamCloses: the end of the stream is skipped. *)
StreamClosesContinues ==
  /\ pc = "select"
  /\ \/ StreamEnds /\ Goto("drain") /\ UNCHANGED <<channelVars, serverVars, callbacks>>
     \/ StreamFails /\ Return("Transport")
  /\ UNCHANGED <<protocolVars, nread, wire>>

StreamCloses ==
  /\ pc = "select"
  /\ \/ StreamEnds /\ Return("Ok")
     \/ StreamFails /\ Return("Transport")
  /\ UNCHANGED <<protocolVars, nread, wire>>

StreamBranch ==
  StreamPing \/ StreamUndecodable \/ StreamMessage \/ StreamRejected \/ StreamCloses

(* Mutant of Drain: while let Ok(Some(event)), an error from Zeek is dropped. *)
DrainEventsOnly ==
  /\ pc = "drain"
  /\ inbox # <<>>
  /\ \/ /\ BindingReceiveEvent(Head(inbox), "Event")
        /\ Callback("event", Head(inbox).body, "drain")
     \/ /\ BindingReceiveEvent(Head(inbox), "ZeekError")
        /\ Goto("select") /\ callbacks' = callbacks
  /\ UNCHANGED <<channelVars, streamVars>>

(* while let Some(received) = binding.receive_event().transpose() { ... } *)
Drain ==
  /\ pc = "drain"
  /\ inbox # <<>>
  /\ \/ /\ BindingReceiveEvent(Head(inbox), "Event")
        /\ Callback("event", Head(inbox).body, "drain")
     \/ /\ BindingReceiveEvent(Head(inbox), "ZeekError")
        /\ Callback("error", Head(inbox).body, "drain")
  /\ UNCHANGED <<channelVars, streamVars>>

DrainDone ==
  /\ pc = "drain"
  /\ BindingReceiveEvent(None, "None")
  /\ Goto("select")
  /\ UNCHANGED <<channelVars, streamVars, callbacks>>

(* The callback cannot return while it awaits Outbox::send. *)
CallbackReturns ==
  /\ pc = "callback"
  /\ pending[Client] = 0
  /\ Goto(resume)
  /\ UNCHANGED <<protocolVars, channelVars, streamVars, callbacks>>

-----------------------------------------------------------------------------
(* The holders of an Outbox.  The client's own is only used in a callback.  *)

Running(h) == h \in holders /\ (h # Client \/ pc = "callback")

(* Outbox::send(event).await: the call, *)
SendStart(h) ==
  /\ Running(h) /\ (h # Client \/ CallbackSends)
  /\ pending[h] = 0
  /\ npub < MaxPublish
  /\ npub' = npub + 1
  /\ pending' = [pending EXCEPT ![h] = npub']
  /\ UNCHANGED <<taskVars, protocolVars, rx, holders, accepted, streamVars, callbacks>>

(* Mutant of SendAccepted: a channel without bound. *)
SendAcceptedUnbounded(h) ==
  /\ pending[h] # 0
  /\ pc # "done"
  /\ rx' = Append(rx, pending[h])
  /\ accepted' = Append(accepted, pending[h])
  /\ pending' = [pending EXCEPT ![h] = 0]
  /\ UNCHANGED <<taskVars, protocolVars, holders, npub, streamVars, callbacks>>

(* its return with Ok, once there is room in the channel, *)
SendAccepted(h) ==
  /\ pending[h] # 0
  /\ pc # "done" /\ Len(rx) < OutboxSize
  /\ rx' = Append(rx, pending[h])
  /\ accepted' = Append(accepted, pending[h])
  /\ pending' = [pending EXCEPT ![h] = 0]
  /\ UNCHANGED <<taskVars, protocolVars, holders, npub, streamVars, callbacks>>

(* and its return with the event, once the receiver is gone. *)
SendRefused(h) ==
  /\ pending[h] # 0
  /\ pc = "done"
  /\ pending' = [pending EXCEPT ![h] = 0]
  /\ UNCHANGED <<taskVars, protocolVars, rx, holders, npub, accepted, streamVars, callbacks>>

CloneOutbox(h, g) ==
  /\ Running(h)
  /\ g \in Publishers \ holders
  /\ holders' = holders \cup {g}
  /\ UNCHANGED <<taskVars, protocolVars, rx, pending, npub, accepted, streamVars, callbacks>>

DropOutbox(h) ==
  /\ Running(h)
  /\ pending[h] = 0
  /\ holders' = holders \ {h}
  /\ UNCHANGED <<taskVars, protocolVars, rx, pending, npub, accepted, streamVars, callbacks>>

-----------------------------------------------------------------------------
(* The server and the network.                                              *)

ServerSend ==
  /\ link = "up"
  /\ Len(served) < MaxFrames
  /\ \E f \in ServerKinds : served' = Append(served, f)
  /\ UNCHANGED <<taskVars, protocolVars, channelVars, link, nread, wire, callbacks>>

ServerClose ==
  /\ link = "up"
  /\ link' = "finished"
  /\ \/ "frame" \in EndModes /\ served' = Append(served, "close")
     \/ "bare" \in EndModes /\ served' = served
  /\ UNCHANGED <<taskVars, protocolVars, channelVars, nread, wire, callbacks>>

(* The connection breaks; frames sent and not yet read may be lost. *)
Break ==
  /\ link \in {"up", "finished"}
  /\ link' = "broken"
  /\ \E n \in nread .. Len(served) : served' = SubSeq(served, 1, n)
  /\ UNCHANGED <<taskVars, protocolVars, channelVars, nread, wire, callbacks>>

-----------------------------------------------------------------------------
(* Nothing is left to do: serve returned and no send waits for an answer. *)
Finished ==
  /\ pc = "done"
  /\ \A h \in Holders : pending[h] = 0
  /\ UNCHANGED vars

(* What serve does between one await and the next. *)
Poll ==
  \/ Connect \/ ConnectFails \/ Subscribe
  \/ AwaitPing \/ AwaitAck \/ AwaitFails \/ AwaitEnds
  \/ RxBranch \/ StreamBranch
  \/ Flush \/ Close \/ Drain \/ DrainDone

Task == Poll \/ CallbackReturns

Publish ==
  \E h \in Holders :
    \/ SendStart(h) \/ SendAccepted(h) \/ SendRefused(h) \/ DropOutbox(h)
    \/ \E g \in Publishers : CloneOutbox(h, g)

(* The stream is gone with serve. *)
Server == pc # "done" /\ (ServerSend \/ ServerClose \/ Break)

Next == Task \/ Publish \/ Server \/ Finished

Spec == Init /\ [][Next]_vars

-----------------------------------------------------------------------------
PCs == {"connect", "subscribe", "await_ack", "callback", "select", "flush",
        "closing", "drain", "done"}

TaskResults == {"none", "Ok", "Transport", "ProtocolError"}

FrameKinds == Decodable \cup {"garbage", "ping", "pong", "close"}

(***************************************************************************)
(* Type correctness of the task, the binding, the channel and the stream;   *)
(* in particular the channel never holds more than outbox_size events and   *)
(* serve has a result exactly once it is done.                              *)
(***************************************************************************)
TypeOK ==
  /\ pc \in PCs /\ resume \in {"select", "drain"}
  /\ result \in TaskResults /\ (result = "none" <=> pc # "done")
  /\ state \in State
  /\ inbox \in Seq(Message) /\ outbox \in Seq(Outgoing)
  /\ rx \in Seq(1 .. npub) /\ Len(rx) <= OutboxSize
  /\ accepted \in Seq(1 .. npub)
  /\ holders \subseteq Holders
  /\ pending \in [Holders -> 0 .. npub]
  /\ npub \in Nat
  /\ served \in Seq(FrameKinds) /\ nread \in 0 .. Len(served)
  /\ link \in {"none", "up", "finished", "broken"}
  /\ wire \in Seq(Outgoing \cup {CloseFrame})
  /\ callbacks \in
       Seq([cb : {"connected", "event", "error"}, frame : Nat \ {0}])

Published(s) == [i \in DOMAIN s |-> DataMessage(s[i])]

Connected == callbacks # <<>>

SaidGoodbye == wire # <<>> /\ wire[Len(wire)] = CloseFrame

(***************************************************************************)
(* While serve runs, what Outbox::send answered with Ok is on the wire, in  *)
(* the binding's outbox or in the channel: once, in the order of the        *)
(* answers, and behind the subscription.  What is lost when serve returns   *)
(* is a suffix.                                                             *)
(***************************************************************************)
OutboundConserved ==
  LET promised == <<Subscription>> \o Published(accepted) IN
  /\ pc # "done" => promised = wire \o outbox \o Published(rx)
  /\ ~SaidGoodbye => IsPrefix(wire, promised)

(***************************************************************************)
(* A graceful exit loses nothing: when the service sends its Close frame,   *)
(* every event any Outbox accepted was sent before it, nothing follows it,  *)
(* and no event can be accepted any more.                                   *)
(***************************************************************************)
GracefulClose ==
  /\ SaidGoodbye => /\ wire = <<Subscription>> \o Published(accepted) \o <<CloseFrame>>
                    /\ holders = {} /\ result = "Ok"
  /\ \A i \in 1 .. Len(wire) - 1 : wire[i] # CloseFrame

(***************************************************************************)
(* No event is sent before the server acknowledged the subscription and the *)
(* client's connected callback was called, although an Outbox accepts       *)
(* events from the moment Service::new returns.                             *)
(***************************************************************************)
HandshakeFirst ==
  /\ Len(wire) > 1 => Connected
  /\ Connected => wire[1] = Subscription

(* Each callback is the one for its frame; *)
CallbackMatches ==
  \A i \in DOMAIN callbacks :
    LET frame == served[callbacks[i].frame] IN
    /\ callbacks[i].cb = "connected" <=> frame = "ack"
    /\ callbacks[i].cb = "event" <=> frame = "event"

(* the frames come in their order; *)
CallbackOrder ==
  \A i, j \in DOMAIN callbacks : i < j => callbacks[i].frame < callbacks[j].frame

Reported(k) == \E i \in DOMAIN callbacks : callbacks[i].frame = k

Reportable == {"event", "error", "garbage", "pong", "close"}

(* and none is left out. *)
CallbackComplete ==
  Connected =>
    LET first == callbacks[1].frame IN
    /\ served[first] = "ack"
    /\ \A k \in 1 .. first - 1 : served[k] = "ping"
    /\ \A k \in first + 1 .. nread :
         Reported(k) <=>
           served[k] \in Reportable /\ \A i \in DOMAIN inbox : inbox[i].body # k

(***************************************************************************)
(* The client sees the stream as it was: connected first, for the first     *)
(* frame that is no ping; then one callback per event, error and            *)
(* undecodable frame read since, in the order of the frames, with at most   *)
(* the frames still in the inbox missing.                                   *)
(***************************************************************************)
CallbacksFollowFrames == CallbackMatches /\ CallbackOrder /\ CallbackComplete

(***************************************************************************)
(* serve says Ok only when the session was closed on purpose: by the        *)
(* service, after every Outbox was dropped, or by the server.               *)
(***************************************************************************)
OkMeansClosed ==
  result = "Ok" => SaidGoodbye \/ PeerClosed \/ link = "finished"

-----------------------------------------------------------------------------
(* Liveness, under the fairness of BusyService.                             *)

(***************************************************************************)
(* Once connected, serve returns after every Outbox was dropped: the events *)
(* still queued are sent and the connection is closed, however busy the     *)
(* server is.                                                               *)
(***************************************************************************)
HangUp == Connected /\ holders = {} ~> pc = "done"

(***************************************************************************)
(* serve returns once the server closed the stream or the connection broke  *)
(* (client.rs: "either due to connection shutdown or a fatal error").       *)
(***************************************************************************)
ClosedLinkEndsServe == link \in {"finished", "broken"} ~> pc = "done"

(***************************************************************************)
(* Of a client whose callbacks do not send (one that awaits Outbox::send on *)
(* a full channel blocks the task that would make room, and all senders     *)
(* with it): once it is connected, the waiting send of another task is      *)
(* accepted, or refused because serve returned.                             *)
(***************************************************************************)
SendsAnswered ==
  \A p \in Publishers :
    ~CallbackSends /\ pending[p] # 0 /\ (Connected \/ pc = "done") ~> pending[p] = 0

(***************************************************************************)
(* A frame that calls for a callback gets it, however busy publishers are:  *)
(* it can only be lost with the connection or when serve ends.              *)
(***************************************************************************)
FramesReported ==
  \A k \in 1 .. MaxFrames :
    /\ Connected /\ Len(served) >= k
    /\ served[k] \in {"event", "error", "garbage", "pong"}
    ~> Reported(k) \/ pc = "done" \/ Len(served) < k

-----------------------------------------------------------------------------
(* What the sources say of serve and the code does not do: each is refuted  *)
(* by a run of its own.                                                     *)

(***************************************************************************)
(* protocol.rs:95 and its test duplicate_ack: an ACK seen while already     *)
(* subscribed is an error.  serve keeps the first ACK from its binding,     *)
(* which takes the second one for the first.                                *)
(***************************************************************************)
SecondAckRejected ==
  pc = "select" =>
    \A j, k \in 1 .. nread : served[j] = "ack" /\ served[k] = "ack" => j = k

=============================================================================
