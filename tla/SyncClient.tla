----------------------------- MODULE SyncClient -----------------------------
(***************************************************************************)
(* The synchronous Python client (bindings/python/zeek_websocket/           *)
(* __init__.py): the constructor connects, sends the subscription and       *)
(* hands the first message to the binding, taking it for the ACK; publish   *)
(* flushes the outbox; receive reads ONE message, hands it to the binding   *)
(* and returns what the binding has next.  The connection is external.      *)
(***************************************************************************)
EXTENDS Protocol

CONSTANTS
  MaxFrames,   \* bound: frames the server sends
  MaxPublish   \* bound: calls of publish

ASSUME SyncAssumption ==
  /\ MaxFrames \in Nat /\ MaxPublish \in Nat
  /\ 1 .. MaxFrames \subseteq Body /\ 1 .. MaxPublish \subseteq Body

VARIABLES
  pc,        \* "init", "recv_ack", "ready", "flush", "raised" (no client)
  outcome,   \* what the last call returned or raised
  served,    \* the frames the server sent: kinds of messages, or "garbage"
  nread,     \* how many of them were read
  link,      \* "up" or "closed"
  published, \* history: calls of publish
  wire,      \* history: what was sent
  got        \* history: the frames receive returned or raised an error for

clientVars == <<pc, outcome>>
streamVars == <<served, nread, link>>
historyVars == <<published, wire, got>>
vars == <<protocolVars, clientVars, streamVars, historyVars>>

Outcomes == {"None", "Event", "ZeekError", "Ok", "TimeoutError", "ConnectionClosed",
             "AlreadySubscribed", "UnexpectedEventPayload", "undecodable"}

Init ==
  /\ New
  /\ pc = "init" /\ outcome = "None"
  /\ served = <<>> /\ nread = 0 /\ link = "up"
  /\ published = 0 /\ wire = <<>> /\ got = <<>>

Frame == served[nread + 1]

(* self._conn.recv(...) returns a frame; it raises on a closed connection. *)
Recv == nread < Len(served) /\ nread' = nread + 1 /\ UNCHANGED <<served, link>>

RecvRaises == nread = Len(served) /\ link = "closed" /\ UNCHANGED streamVars

(* Mutant of HandleFrame: a payload that is no event is forwarded too. *)
HandleFrameForwards(r) ==
  \/ Frame = "garbage" /\ r = "undecodable" /\ UNCHANGED protocolVars
  \/ /\ Frame = "other" /\ r = "Ok"
     /\ InboxHandle([kind |-> Frame, body |-> nread + 1])
     /\ UNCHANGED <<state, outbox>>
  \/ /\ Frame \notin {"garbage", "other"}
     /\ BindingHandleIncoming([kind |-> Frame, body |-> nread + 1], r)

(* ProtocolBinding.handle_incoming: parse, then Binding::handle_incoming. *)
HandleFrame(r) ==
  \/ Frame = "garbage" /\ r = "undecodable" /\ UNCHANGED protocolVars
  \/ Frame # "garbage" /\ BindingHandleIncoming([kind |-> Frame, body |-> nread + 1], r)

-----------------------------------------------------------------------------
(* while data := self._binding.outgoing(): self._conn.send(data)            *)

FlushSend(at) ==
  /\ pc = at /\ outbox # <<>>
  /\ BindingOutgoing(Head(outbox))
  /\ wire' = Append(wire, Head(outbox))
  /\ UNCHANGED <<clientVars, streamVars, published, got>>

FlushRaises(at, then) ==
  /\ pc = at /\ outbox # <<>> /\ link = "closed"
  /\ BindingOutgoing(Head(outbox))
  /\ pc' = then /\ outcome' = "ConnectionClosed"
  /\ UNCHANGED <<streamVars, historyVars>>

FlushDone(at, then) ==
  /\ pc = at
  /\ BindingOutgoing(None)
  /\ pc' = then /\ outcome' = "None"
  /\ UNCHANGED <<streamVars, historyVars>>

(* Client.__init__ *)
Subscribe ==
  \/ FlushSend("init")
  \/ FlushRaises("init", "raised")
  \/ FlushDone("init", "recv_ack")

ReceiveAck ==
  /\ pc = "recv_ack"
  /\ Recv
  /\ \E r \in Outcomes :
       /\ HandleFrame(r)
       /\ pc' = IF r = "Ok" THEN "ready" ELSE "raised"
       /\ outcome' = r
  /\ UNCHANGED historyVars

AckRaises ==
  /\ pc = "recv_ack"
  /\ RecvRaises
  /\ pc' = "raised" /\ outcome' = "ConnectionClosed"
  /\ UNCHANGED <<protocolVars, historyVars>>

(* Mutant of PublishCall: the flush is forgotten. *)
PublishCallOnly ==
  /\ pc = "ready"
  /\ published < MaxPublish
  /\ published' = published + 1
  /\ BindingPublishEvent(published')
  /\ UNCHANGED <<clientVars, streamVars, wire, got>>

(* Client.publish *)
PublishCall ==
  /\ pc = "ready"
  /\ published < MaxPublish
  /\ published' = published + 1
  /\ BindingPublishEvent(published')
  /\ pc' = "flush" /\ outcome' = outcome
  /\ UNCHANGED <<streamVars, wire, got>>

Publish ==
  \/ PublishCall
  \/ FlushSend("flush")
  \/ FlushRaises("flush", "ready")
  \/ FlushDone("flush", "ready")

(* Mutant of ReceiveFrame: an ACK is taken for the whole answer to a call. *)
ReceiveFrameAckOnly ==
  /\ pc = "ready"
  /\ Recv
  /\ \E r \in Outcomes :
       /\ HandleFrame(r)
       /\ IF r = "Ok" /\ Frame # "ack" THEN pc' = "receive" /\ outcome' = outcome
                                       ELSE pc' = "ready" /\ outcome' = r
  /\ UNCHANGED historyVars

(***************************************************************************)
(* Client.receive: recv and handle_incoming may raise; otherwise            *)
(* receive_event is called once.  A panic of the binding would show as the  *)
(* outcome "unreachable", which is none of Outcomes.                        *)
(***************************************************************************)
ReceiveFrame ==
  /\ pc = "ready"
  /\ Recv
  /\ \E r \in Outcomes :
       /\ HandleFrame(r)
       /\ IF r = "Ok" THEN pc' = "receive" /\ outcome' = outcome
                     ELSE pc' = "ready" /\ outcome' = r
  /\ UNCHANGED historyVars

(* Mutant of ReceiveEvent: Inbox::next_event, which drops errors. *)
ReceiveNextEvent ==
  /\ pc = "receive"
  /\ \E m \in {None} \cup Message :
       /\ InboxNextEvent(m)
       /\ got' = IF m = None THEN got ELSE Append(got, m.body)
       /\ outcome' = IF m = None THEN "None" ELSE "Event"
  /\ pc' = "ready"
  /\ UNCHANGED <<state, outbox, streamVars, published, wire>>

ReceiveEvent ==
  /\ pc = "receive"
  /\ \E m \in {None} \cup Message, r \in Outcomes \cup {"unreachable"} :
       /\ BindingReceiveEvent(m, r)
       /\ got' = IF m = None THEN got ELSE Append(got, m.body)
       /\ outcome' = r
  /\ pc' = "ready"
  /\ UNCHANGED <<streamVars, published, wire>>

(* recv(timeout) finds no frame in time. *)
ReceiveTimesOut ==
  /\ pc = "ready"
  /\ nread = Len(served) /\ link = "up"
  /\ outcome' = "TimeoutError"
  /\ UNCHANGED <<protocolVars, pc, streamVars, historyVars>>

ReceiveRaises ==
  /\ pc = "ready"
  /\ RecvRaises
  /\ outcome' = "ConnectionClosed"
  /\ UNCHANGED <<protocolVars, pc, historyVars>>

-----------------------------------------------------------------------------
Server ==
  /\ link = "up"
  /\ \/ /\ Len(served) < MaxFrames
        /\ \E f \in {"ack", "event", "error", "other", "garbage"} :
             served' = Append(served, f)
        /\ link' = link
     \/ served' = served /\ link' = "closed"
  /\ UNCHANGED <<protocolVars, clientVars, nread, historyVars>>

(* The constructor raised: there is no client to call. *)
NoClient == pc = "raised" /\ UNCHANGED vars

Next ==
  \/ Subscribe \/ ReceiveAck \/ AckRaises
  \/ Publish
  \/ ReceiveFrame \/ ReceiveEvent \/ ReceiveTimesOut \/ ReceiveRaises
  \/ Server \/ NoClient

Spec == Init /\ [][Next]_vars

-----------------------------------------------------------------------------
(* Type correctness of the client, its binding and its history. *)
TypeOK ==
  /\ pc \in {"init", "recv_ack", "ready", "flush", "receive", "raised"}
  /\ outcome \in Outcomes
  /\ state \in State
  /\ inbox \in Seq(Message) /\ outbox \in Seq(Outgoing) /\ wire \in Seq(Outgoing)
  /\ served \in Seq({"ack", "event", "error", "other", "garbage"})
  /\ nread \in 0 .. Len(served) /\ link \in {"up", "closed"}
  /\ published \in 0 .. MaxPublish
  /\ got \in Seq(1 .. MaxFrames)

(***************************************************************************)
(* receive hands out every event and error read, in order, each once; the   *)
(* messages still in the inbox are the last ones read.  A call that raised  *)
(* for one frame costs no other frame.                                      *)
(***************************************************************************)
ReceivesInOrder ==
  LET seen == got \o [i \in DOMAIN inbox |-> inbox[i].body] IN
  /\ \A i, j \in DOMAIN seen : i < j => seen[i] < seen[j]
  /\ \A k \in 1 .. nread :
       served[k] \in {"event", "error"} <=> \E i \in DOMAIN seen : seen[i] = k

(***************************************************************************)
(* Once the ACK came, whether it was the first message or a later one, no   *)
(* call leaves a message behind: what receive read it handed out, so that   *)
(* it waits for the connection only when there is nothing to return.        *)
(***************************************************************************)
CaughtUpOnceSubscribed ==
  pc \in {"ready", "flush"} /\ state = "Subscribed" => inbox = <<>>

(***************************************************************************)
(* Between calls nothing waits to be sent, and what was sent is the         *)
(* subscription and then the published events in order; an event is lost    *)
(* only when the connection was closed.                                     *)
(***************************************************************************)
PublishFlushes ==
  /\ pc = "ready" => outbox = <<>>
  /\ wire # <<>> => wire[1] = Subscription
  /\ \A i, j \in 2 .. Len(wire) : i < j => wire[i].body < wire[j].body
  /\ pc = "ready" /\ link = "up" => Len(wire) = published + 1

-----------------------------------------------------------------------------
(***************************************************************************)
(* __init__.py:84-88: a receive that raises TimeoutError found no message   *)
(* received already.  Refuted: recv waits for another frame although the    *)
(* constructor put a first message that was no ACK into the inbox.          *)
(***************************************************************************)
TimeoutMeansNothingReceived ==
  pc = "ready" /\ outcome = "TimeoutError" => inbox = <<>>

=============================================================================
