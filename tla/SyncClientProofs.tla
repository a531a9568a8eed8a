--------------------------- MODULE SyncClientProofs ---------------------------
(***************************************************************************)
(* Theorems about SyncClient, for every server, every number of frames and  *)
(* every number of published events: receive hands out what arrives once    *)
(* and in order and, once the ACK came, leaves nothing behind; publish      *)
(* leaves nothing unsent.                                                   *)
(***************************************************************************)
EXTENDS SyncClient, Lemmas

FrameKinds == {"ack", "event", "error", "other", "garbage"}

(* Everything accepted so far, handed out or still in the inbox. *)
Bodies(s) == [i \in DOMAIN s |-> s[i].body]
Seen == got \o Bodies(inbox)

(* The messages of a valid client are events and errors of frames it read. *)
InboxFiltered ==
  \A i \in DOMAIN inbox : inbox[i].kind \in {"event", "error"} /\ inbox[i].body \in 1 .. nread

(* What was accepted are frames that were read, in their order. *)
Received ==
  /\ Len(served) <= MaxFrames
  /\ got \in Seq(1 .. nread)
  /\ \A i, j \in DOMAIN Seen : i < j => Seen[i] < Seen[j]
  /\ \A k \in 1 .. nread :
       served[k] \in {"event", "error"} <=> \E i \in DOMAIN Seen : Seen[i] = k

(***************************************************************************)
(* The message taken for the ACK stays ahead of those received later; while *)
(* receive is at work there is one more.                                    *)
(***************************************************************************)
Lag ==
  /\ pc \in {"init", "recv_ack"} => state = "Subscribing" /\ inbox = <<>>
  /\ pc \in {"ready", "flush"} => Len(inbox) = IF state = "Subscribing" THEN 1 ELSE 0
  /\ pc = "receive" => Len(inbox) = IF state = "Subscribing" THEN 2 ELSE 1

(***************************************************************************)
(* The outbox holds at most what the current call enqueued, which is        *)
(* younger than everything sent.                                            *)
(***************************************************************************)
Sending ==
  /\ outbox # <<>> =>
       \/ pc = "init" /\ outbox = <<Subscription>> /\ wire = <<>>
       \/ pc = "flush" /\ outbox = <<DataMessage(published)>> /\ published # 0
  /\ pc \in {"init", "recv_ack"} => published = 0
  /\ wire = <<>> => pc = "raised" \/ (pc = "init" /\ outbox # <<>>)
  /\ wire # <<>> => wire[1] = Subscription
  /\ \A i \in 2 .. Len(wire) :
       wire[i].body \in 1 .. published /\ (outbox # <<>> => wire[i].body < published)
  /\ \A i, j \in 2 .. Len(wire) : i < j => wire[i].body < wire[j].body
  /\ link = "up" /\ pc # "raised" => Len(wire) + Len(outbox) = published + 1

IInv == TypeOK /\ InboxFiltered /\ Received /\ Lag /\ Sending

-----------------------------------------------------------------------------
LEMMA BodiesQueue ==
  ASSUME NEW s \in Seq(Message)
  PROVE  /\ Bodies(s) \in Seq(Body) /\ Len(Bodies(s)) = Len(s)
         /\ \A i \in 1 .. Len(s) : Bodies(s)[i] = s[i].body
<1>1. DOMAIN s = 1 .. Len(s) /\ Len(s) \in Nat /\ \A i \in 1 .. Len(s) : s[i].body \in Body
  <2>1. DOMAIN s = 1 .. Len(s) /\ Len(s) \in Nat /\ \A i \in 1 .. Len(s) : s[i] \in Message
    OBVIOUS
  <2> QED BY <2>1 DEF Message
<1>2. Bodies(s) = [i \in 1 .. Len(s) |-> s[i].body]
  BY <1>1 DEF Bodies
<1> HIDE DEF Bodies
<1>3. Bodies(s) \in Seq(Body)
  BY <1>1, <1>2, IsASeq
<1> QED BY <1>1, <1>2, <1>3

LEMMA BodiesIn ==
  ASSUME NEW S, NEW s \in Seq(Message), \A i \in DOMAIN s : s[i].body \in S
  PROVE  Bodies(s) \in Seq(S)
<1>1. DOMAIN s = 1 .. Len(s) /\ Len(s) \in Nat
  OBVIOUS
<1>2. Bodies(s) = [i \in 1 .. Len(s) |-> s[i].body] /\ \A i \in 1 .. Len(s) : s[i].body \in S
  BY <1>1 DEF Bodies
<1> QED BY <1>1, <1>2, IsASeq

(* A message that joins the inbox joins what was accepted, at its end; *)
LEMMA SeenGrows ==
  ASSUME TypeOK, NEW m \in Message, inbox' = Append(inbox, m), got' = got,
         got \in Seq(Body)
  PROVE  Seen' = Append(Seen, m.body)
<1>1. inbox \in Seq(Message) /\ inbox' \in Seq(Message) /\ m.body \in Body
  BY AppendProperties DEF TypeOK, Message
<1>2. Bodies(inbox') = Append(Bodies(inbox), m.body)
  <2>1. /\ Len(inbox') = Len(inbox) + 1 /\ Len(inbox) \in Nat
        /\ \A i \in 1 .. Len(inbox) : inbox'[i] = inbox[i]
        /\ inbox'[Len(inbox) + 1] = m
    BY <1>1
  <2>2. /\ Bodies(inbox) \in Seq(Body) /\ Len(Bodies(inbox)) = Len(inbox)
        /\ \A i \in 1 .. Len(inbox) : Bodies(inbox)[i] = inbox[i].body
    BY <1>1, BodiesQueue
  <2>3. /\ Bodies(inbox') \in Seq(Body) /\ Len(Bodies(inbox')) = Len(inbox')
        /\ \A i \in 1 .. Len(inbox') : Bodies(inbox')[i] = inbox'[i].body
    BY <1>1, BodiesQueue
  <2>4. /\ Append(Bodies(inbox), m.body) \in Seq(Body)
        /\ Len(Append(Bodies(inbox), m.body)) = Len(inbox) + 1
        /\ \A i \in 1 .. Len(inbox) : Append(Bodies(inbox), m.body)[i] = inbox[i].body
        /\ Append(Bodies(inbox), m.body)[Len(inbox) + 1] = m.body
    BY <1>1, <2>2, AppendProperties
  <2> QED BY <2>1, <2>3, <2>4, SeqEqual
<1>3. Bodies(inbox) \in Seq(Body)
  BY <1>1, BodiesQueue
<1>4. got \o Append(Bodies(inbox), m.body) = Append(got \o Bodies(inbox), m.body)
  BY <1>1, <1>3, PushMoves
<1> QED BY <1>2, <1>4 DEF Seen, Bodies

(* one that is handed out only moves within it. *)
LEMMA SeenStays ==
  ASSUME TypeOK, inbox # <<>>, inbox' = Tail(inbox), got' = Append(got, Head(inbox).body),
         got \in Seq(Body)
  PROVE  Seen' = Seen
<1>1. inbox \in Seq(Message) /\ inbox' \in Seq(Message) /\ Head(inbox) \in Message
  BY HeadTailProperties DEF TypeOK
<1>2. /\ Len(inbox') = Len(inbox) - 1 /\ Len(inbox) \in Nat \ {0}
      /\ \A i \in 1 .. Len(inbox) - 1 : inbox'[i] = inbox[i + 1]
      /\ Head(inbox) = inbox[1]
  BY <1>1
<1>3. Bodies(inbox) \in Seq(Body) /\ Bodies(inbox') \in Seq(Body) /\ Bodies(inbox) # <<>>
  BY <1>1, <1>2, BodiesQueue
<1>4. Head(Bodies(inbox)) = Head(inbox).body
  BY <1>1, <1>2, <1>3, BodiesQueue
<1>5. Tail(Bodies(inbox)) = Bodies(inbox')
  <2>1. Tail(Bodies(inbox)) \in Seq(Body) /\ Len(Tail(Bodies(inbox))) = Len(inbox) - 1
    BY <1>1, <1>2, <1>3, BodiesQueue, HeadTailProperties
  <2>2. Len(Bodies(inbox)) = Len(inbox) /\ \A i \in 1 .. Len(inbox) : Bodies(inbox)[i] = inbox[i].body
    BY <1>1, BodiesQueue
  <2>3. /\ Len(Bodies(inbox')) = Len(inbox')
        /\ \A i \in 1 .. Len(inbox') : Bodies(inbox')[i] = inbox'[i].body
    BY <1>1, BodiesQueue
  <2>4. \A i \in 1 .. Len(inbox) - 1 : Tail(Bodies(inbox))[i] = Bodies(inbox)[i + 1]
    BY <1>2, <1>3, <2>2
  <2>5. \A i \in 1 .. Len(inbox) - 1 : Tail(Bodies(inbox))[i] = Bodies(inbox')[i]
    BY <1>2, <2>2, <2>3, <2>4
  <2> QED BY <1>2, <1>3, <2>1, <2>3, <2>5, SeqEqual
<1>6. Append(got, Head(Bodies(inbox))) \o Tail(Bodies(inbox)) = got \o Bodies(inbox)
  BY <1>3, PopMoves
<1> QED BY <1>4, <1>5, <1>6 DEF Seen, Bodies

-----------------------------------------------------------------------------
LEMMA InitIInv == Init => IInv
<1> SUFFICES ASSUME Init PROVE IInv
  OBVIOUS
<1>1. <<Subscription>> \in Seq(Outgoing)
  BY DEF Outgoing
<1>2. TypeOK
  BY <1>1, SyncAssumption DEF Init, New, TypeOK, State, Outcomes
<1>3. Seen = <<>>
  <2>1. inbox = <<>> /\ got = <<>> /\ inbox \in Seq(Message)
    BY DEF Init, New
  <2>2. Bodies(inbox) = <<>>
    <3>1. Bodies(inbox) \in Seq(Body) /\ Len(Bodies(inbox)) = 0
      BY <2>1, BodiesQueue
    <3> QED BY <3>1
  <2> QED BY <2>1, <2>2, ConcatEmptySeq DEF Seen
<1>4. InboxFiltered /\ Received
  BY <1>3, SyncAssumption DEF Init, New, InboxFiltered, Received
<1>5. Lag /\ Sending
  BY DEF Init, New, Lag, Sending
<1> QED BY <1>2, <1>4, <1>5 DEF IInv

(***************************************************************************)
(* What handing a frame to the binding does: it is refused, it is the first *)
(* ACK, or it is a message for the inbox.                                   *)
(***************************************************************************)
FrameMessage == [kind |-> Frame, body |-> nread + 1]

LEMMA FrameHandled ==
  ASSUME IInv, Recv, NEW r, HandleFrame(r)
  PROVE  /\ UNCHANGED <<served, link, outbox>>
         /\ nread' = nread + 1 /\ nread + 1 \in 1 .. Len(served)
         /\ \/ /\ r # "Ok" /\ Frame \notin {"event", "error"}
               /\ UNCHANGED <<state, inbox>>
            \/ /\ r = "Ok" /\ Frame = "ack"
               /\ state = "Subscribing" /\ state' = "Subscribed" /\ inbox' = inbox
            \/ /\ r = "Ok" /\ Frame \in {"event", "error"}
               /\ FrameMessage \in Message
               /\ state' = state /\ inbox' = Append(inbox, FrameMessage)
<1>1. UNCHANGED <<served, link, outbox>>
  BY DEF Recv, HandleFrame, BindingHandleIncoming, protocolVars
<1>2. nread' = nread + 1 /\ nread + 1 \in 1 .. Len(served)
  BY DEF IInv, TypeOK, Recv
<1>3. nread + 1 \in Body
  BY <1>2, SyncAssumption DEF IInv, TypeOK, Received
<1>4. Frame \in {"event", "error"} => FrameMessage \in Message
  BY <1>3 DEF FrameMessage, Message
<1> QED BY <1>1, <1>2, <1>4
      DEF HandleFrame, BindingHandleIncoming, InboxHandle, protocolVars, FrameMessage

(* Every frame read is accepted at the end of what was accepted, or not at all. *)
LEMMA FrameReceived ==
  ASSUME IInv, Recv, NEW r, HandleFrame(r), got' = got
  PROVE  inbox' \in Seq(Message) /\ InboxFiltered' /\ Received'
<1>1. /\ nread \in Nat /\ nread + 1 \in 1 .. Len(served) /\ inbox \in Seq(Message)
      /\ got \in Seq(1 .. nread) /\ nread <= MaxFrames /\ Len(served) <= MaxFrames
  BY FrameHandled, SyncAssumption DEF IInv, TypeOK, Received
<1>2. nread' = nread + 1 /\ served' = served
  BY FrameHandled
<1>3. got \in Seq(1 .. nread + 1) /\ got \in Seq(Body)
  BY <1>1, SyncAssumption
<1>4. Seen \in Seq(1 .. nread)
  <2>1. Bodies(inbox) \in Seq(1 .. nread)
    BY <1>1, BodiesIn DEF IInv, InboxFiltered
  <2> QED BY <1>1, <2>1, ConcatProperties DEF Seen
<1>5. CASE inbox' = inbox /\ Frame \notin {"event", "error"}
  <2>1. Seen' = Seen
    BY <1>5 DEF Seen, Bodies
  <2>2. InboxFiltered'
    BY <1>1, <1>2, <1>5 DEF IInv, InboxFiltered
  <2>3. \A i \in DOMAIN Seen : Seen[i] # nread + 1
    BY <1>1, <1>4
  <2>4. Received'
    <3>1. \A k \in 1 .. nread + 1 :
            served[k] \in {"event", "error"} <=> \E i \in DOMAIN Seen : Seen[i] = k
      BY <1>1, <1>5, <2>3 DEF IInv, Received, Frame
    <3> QED BY <1>1, <1>2, <1>3, <2>1, <3>1 DEF IInv, Received
  <2> QED BY <1>1, <1>5, <2>2, <2>4
<1>6. CASE /\ inbox' = Append(inbox, FrameMessage) /\ FrameMessage \in Message
           /\ Frame \in {"event", "error"}
  <2>1. FrameMessage.kind \in {"event", "error"} /\ FrameMessage.body = nread + 1
    BY <1>6 DEF FrameMessage
  <2>2. /\ inbox' \in Seq(Message) /\ Len(inbox') = Len(inbox) + 1 /\ Len(inbox) \in Nat
        /\ \A i \in 1 .. Len(inbox) : inbox'[i] = inbox[i]
        /\ inbox'[Len(inbox) + 1] = FrameMessage
    BY <1>1, <1>6, AppendProperties
  <2>3. InboxFiltered'
    BY <1>1, <1>2, <2>1, <2>2 DEF IInv, InboxFiltered
  <2>4. Seen' = Append(Seen, nread + 1)
    BY <1>3, <1>6, <2>1, SeenGrows DEF IInv
  <2>5. /\ Len(Seen') = Len(Seen) + 1 /\ Len(Seen) \in Nat
        /\ \A i \in 1 .. Len(Seen) : Seen'[i] = Seen[i] /\ Seen[i] \in 1 .. nread
        /\ Seen'[Len(Seen) + 1] = nread + 1
        /\ DOMAIN Seen = 1 .. Len(Seen) /\ DOMAIN Seen' = 1 .. Len(Seen) + 1
    BY <1>1, <1>4, <2>4
  <2>6. \A i, j \in DOMAIN Seen' : i < j => Seen'[i] < Seen'[j]
    BY <1>1, <2>5 DEF IInv, Received
  <2>7. \A k \in 1 .. nread + 1 :
          served[k] \in {"event", "error"} <=> \E i \in DOMAIN Seen' : Seen'[i] = k
    <3>1. ASSUME NEW k \in 1 .. nread
          PROVE  served[k] \in {"event", "error"} <=> \E i \in DOMAIN Seen' : Seen'[i] = k
      <4>1. served[k] \in {"event", "error"} <=> \E i \in DOMAIN Seen : Seen[i] = k
        BY DEF IInv, Received
      <4> QED BY <1>1, <2>5, <4>1
    <3>2. served[nread + 1] \in {"event", "error"} /\ \E i \in DOMAIN Seen' : Seen'[i] = nread + 1
      BY <1>6, <2>5 DEF Frame
    <3> QED BY <1>1, <3>1, <3>2
  <2>8. Received'
    BY <1>1, <1>2, <1>3, <2>6, <2>7 DEF Received
  <2> QED BY <2>2, <2>3, <2>8
<1> QED BY <1>5, <1>6, FrameHandled

(* A message handed out leaves what was accepted as it was. *)
LEMMA MessageReceived ==
  ASSUME IInv, inbox # <<>>, inbox' = Tail(inbox), got' = Append(got, Head(inbox).body),
         UNCHANGED <<served, nread>>
  PROVE  /\ inbox' \in Seq(Message) /\ got' \in Seq(1 .. MaxFrames)
         /\ InboxFiltered' /\ Received'
<1>1. /\ nread \in Nat /\ inbox \in Seq(Message) /\ got \in Seq(1 .. nread)
      /\ nread <= MaxFrames /\ MaxFrames \in Nat
  BY SyncAssumption DEF IInv, TypeOK, Received
<1>2. /\ inbox' \in Seq(Message) /\ Len(inbox') = Len(inbox) - 1 /\ Len(inbox) \in Nat \ {0}
      /\ \A i \in 1 .. Len(inbox) - 1 : inbox'[i] = inbox[i + 1]
      /\ Head(inbox) = inbox[1]
  BY <1>1, HeadTailProperties
<1>3. Head(inbox).body \in 1 .. nread
  <2>1. 1 \in DOMAIN inbox
    BY <1>1, <1>2
  <2> QED BY <1>2, <2>1 DEF IInv, InboxFiltered
<1>4. got' \in Seq(1 .. nread) /\ got \in Seq(Body)
  BY <1>1, <1>3, SyncAssumption, AppendProperties
<1>5. got' \in Seq(1 .. MaxFrames)
  BY <1>1, <1>4
<1>6. InboxFiltered'
  BY <1>1, <1>2 DEF IInv, InboxFiltered
<1>7. Seen' = Seen
  BY <1>2, <1>4, SeenStays DEF IInv
<1> QED BY <1>2, <1>4, <1>5, <1>6, <1>7 DEF IInv, Received

(* A step that reads and hands out nothing, whatever the server adds. *)
LEMMA NothingReceived ==
  ASSUME IInv, UNCHANGED <<inbox, got, nread>>,
         \/ served' = served
         \/ \E f \in FrameKinds : served' = Append(served, f) /\ Len(served) < MaxFrames
  PROVE  served' \in Seq(FrameKinds) /\ nread \in 0 .. Len(served') /\ InboxFiltered' /\ Received'
<1>1. Seen' = Seen /\ InboxFiltered'
  BY DEF Seen, Bodies, InboxFiltered, IInv
<1>2. served \in Seq(FrameKinds) /\ nread \in 0 .. Len(served)
  BY DEF IInv, TypeOK, FrameKinds
<1>3. /\ served' \in Seq(FrameKinds) /\ Len(served') <= MaxFrames /\ nread \in 0 .. Len(served')
      /\ \A k \in 1 .. nread : served'[k] = served[k]
  <2>1. CASE served' = served
    BY <1>2, <2>1 DEF IInv, Received
  <2>2. ASSUME NEW f \in FrameKinds, served' = Append(served, f), Len(served) < MaxFrames
        PROVE  /\ served' \in Seq(FrameKinds) /\ Len(served') <= MaxFrames
               /\ nread \in 0 .. Len(served')
               /\ \A k \in 1 .. nread : served'[k] = served[k]
    <3>1. /\ served' \in Seq(FrameKinds) /\ Len(served') = Len(served) + 1 /\ Len(served) \in Nat
          /\ \A k \in 1 .. Len(served) : served'[k] = served[k]
      BY <1>2, <2>2, AppendProperties
    <3> QED BY <1>2, <2>2, <3>1, SyncAssumption
  <2> QED BY <2>1, <2>2
<1> QED BY <1>1, <1>3 DEF IInv, Received

-----------------------------------------------------------------------------
(* The loop that empties the outbox, one send at a time. *)
LEMMA FlushSendKeepsIInv ==
  ASSUME IInv, NEW at \in {"init", "flush"}, FlushSend(at)
  PROVE  IInv'
<1>1. /\ pc = at /\ outbox # <<>> /\ outbox' = Tail(outbox)
      /\ wire' = Append(wire, Head(outbox))
      /\ UNCHANGED <<pc, outcome, state, inbox, served, nread, link, published, got>>
  BY DEF FlushSend, BindingOutgoing, OutboxNextData, clientVars, streamVars, None
<1>2. wire \in Seq(Outgoing) /\ published \in Nat
  BY DEF IInv, TypeOK
<1>3. /\ pc = "init" => outbox = <<Subscription>> /\ wire = <<>>
      /\ pc = "flush" => /\ outbox = <<DataMessage(published)>> /\ published # 0 /\ wire # <<>>
  BY <1>1 DEF IInv, Sending
<1>4. PICK m \in Outgoing : outbox = <<m>> /\ Head(outbox) = m
  <2>1. outbox = <<Head(outbox)>>
    BY <1>1, <1>3
  <2>2. Head(outbox) \in Outgoing
    BY <1>1, HeadTailProperties DEF IInv, TypeOK
  <2> QED BY <2>1, <2>2
<1>5. outbox' = <<>> /\ wire' \in Seq(Outgoing)
  BY <1>1, <1>2, <1>4, AppendProperties
<1>6. /\ Len(wire') = Len(wire) + 1 /\ Len(wire) \in Nat /\ wire'[Len(wire) + 1] = m
      /\ \A i \in 1 .. Len(wire) : wire'[i] = wire[i]
  BY <1>1, <1>2, <1>4
<1>7. TypeOK'
  BY <1>1, <1>5 DEF IInv, TypeOK
<1>8. InboxFiltered' /\ Received' /\ Lag'
  BY <1>1, NothingReceived DEF IInv, Lag
<1>9. Sending'
  <2>1. CASE pc = "init"
    <3>1. Len(wire) = 0 /\ m = Subscription /\ published = 0
      BY <1>2, <1>3, <1>4, <2>1 DEF IInv, Sending
    <3>2. wire' # <<>> /\ wire'[1] = Subscription /\ Len(wire') = 1
      BY <1>6, <3>1
    <3> QED BY <1>1, <1>5, <2>1, <3>1, <3>2 DEF Sending
  <2>2. CASE pc = "flush"
    <3>1. m.body = published /\ published # 0 /\ wire # <<>> /\ Len(wire) > 0
      BY <1>2, <1>3, <1>4, <2>2 DEF DataMessage
    <3>2. wire' # <<>> /\ wire'[1] = Subscription
      BY <1>5, <1>6, <3>1 DEF IInv, Sending
    <3>3. \A i \in 2 .. Len(wire) : wire[i].body \in 1 .. published /\ wire[i].body < published
      BY <1>1 DEF IInv, Sending
    <3>4. \A i \in 2 .. Len(wire') : wire'[i].body \in 1 .. published
      BY <1>2, <1>6, <3>1, <3>3
    <3>5. \A i, j \in 2 .. Len(wire') : i < j => wire'[i].body < wire'[j].body
      <4>1. TAKE i, j \in 2 .. Len(wire')
      <4>2. CASE j = Len(wire')
        BY <1>2, <1>6, <3>1, <3>3, <4>2
      <4>3. CASE j # Len(wire') /\ i < j
        <5>1. i \in 2 .. Len(wire) /\ j \in 2 .. Len(wire)
          BY <1>6, <4>3
        <5>2. wire[i].body < wire[j].body
          BY <4>3, <5>1 DEF IInv, Sending
        <5> QED BY <1>6, <5>1, <5>2
      <4> QED BY <4>2, <4>3
    <3>6. link' = "up" /\ pc' # "raised" => Len(wire') + Len(outbox') = published' + 1
      BY <1>1, <1>4, <1>5, <1>6 DEF IInv, Sending
    <3> QED BY <1>1, <1>5, <2>2, <3>2, <3>4, <3>5, <3>6 DEF Sending
  <2> QED BY <1>1, <2>1, <2>2
<1> QED BY <1>7, <1>8, <1>9 DEF IInv

(* The end of that loop, by an exception or because nothing is left. *)
LEMMA FlushEndsKeepsIInv ==
  ASSUME IInv,
         NEW at \in {"init", "flush"}, NEW then \in {"recv_ack", "ready", "raised"},
         \/ FlushRaises(at, then) /\ then = (IF at = "init" THEN "raised" ELSE "ready")
         \/ FlushDone(at, then) /\ then = (IF at = "init" THEN "recv_ack" ELSE "ready")
  PROVE  IInv'
<1>1. /\ pc = at /\ pc' = then /\ outcome' \in Outcomes
      /\ UNCHANGED <<state, inbox, served, nread, link, published, wire, got>>
  BY DEF FlushRaises, FlushDone, BindingOutgoing, streamVars, historyVars, Outcomes
<1>2. \/ /\ outbox # <<>> /\ outbox' = Tail(outbox) /\ link = "closed"
         /\ then = IF at = "init" THEN "raised" ELSE "ready"
      \/ /\ outbox = <<>> /\ outbox' = <<>>
         /\ then = IF at = "init" THEN "recv_ack" ELSE "ready"
  <2>1. outbox # <<>> => Head(outbox) # None
    <3>1. outbox # <<>> => Head(outbox) \in Outgoing
      BY HeadTailProperties DEF IInv, TypeOK
    <3> QED BY <3>1 DEF None, Outgoing, Message, Subscription
  <2> QED BY <2>1 DEF FlushRaises, FlushDone, BindingOutgoing, OutboxNextData
<1>3. outbox' = <<>>
  <2>1. \A x : Tail(<<x>>) = <<>>
    OBVIOUS
  <2>2. outbox # <<>> => \E x : outbox = <<x>>
    BY DEF IInv, Sending
  <2> QED BY <1>2, <2>1, <2>2
<1>4. TypeOK'
  BY <1>1, <1>3 DEF IInv, TypeOK
<1>5. InboxFiltered' /\ Received'
  BY <1>1, NothingReceived
<1>6. Lag'
  BY <1>1, <1>2 DEF IInv, Lag
<1>7. Sending'
  <2>1. CASE outbox # <<>>
    <3>1. pc' \in {"raised", "ready"} /\ link' = "closed" /\ (pc' = "ready" => wire # <<>>)
      BY <1>1, <1>2, <2>1 DEF IInv, Sending
    <3> QED BY <1>1, <1>3, <3>1 DEF IInv, Sending
  <2>2. CASE outbox = <<>>
    <3>1. pc' \in {"recv_ack", "ready"} /\ pc # "raised" /\ (pc' = "recv_ack" => pc = "init")
      BY <1>1, <1>2, <2>2
    <3>2. wire # <<>> /\ UNCHANGED <<outbox, wire, published, link>>
      BY <1>1, <1>3, <2>2, <3>1 DEF IInv, Sending
    <3>3. published' = 0 \/ pc' = "ready"
      BY <1>1, <3>1 DEF IInv, Sending
    <3>4. link' = "up" => Len(wire') + Len(outbox') = published' + 1
      BY <3>1, <3>2 DEF IInv, Sending
    <3>5. /\ wire' # <<>> /\ wire'[1] = Subscription
          /\ \A i \in 2 .. Len(wire') : wire'[i].body \in 1 .. published'
          /\ \A i, j \in 2 .. Len(wire') : i < j => wire'[i].body < wire'[j].body
      BY <3>2 DEF IInv, Sending
    <3> QED BY <1>3, <3>1, <3>3, <3>4, <3>5 DEF Sending
  <2> QED BY <2>1, <2>2
<1> QED BY <1>4, <1>5, <1>6, <1>7 DEF IInv

(* Client.publish hands its event to the binding. *)
LEMMA PublishCallKeepsIInv ==
  ASSUME IInv, PublishCall
  PROVE  IInv'
<1>1. /\ pc = "ready" /\ pc' = "flush" /\ published < MaxPublish /\ published' = published + 1
      /\ outbox' = Append(outbox, DataMessage(published + 1))
      /\ UNCHANGED <<outcome, state, inbox, served, nread, link, wire, got>>
  BY DEF PublishCall, BindingPublishEvent, OutboxEnqueue, streamVars
<1>2. outbox = <<>> /\ published \in Nat /\ published' \in 0 .. MaxPublish /\ published' # 0
  BY <1>1, SyncAssumption DEF IInv, TypeOK, Sending
<1>3. DataMessage(published + 1) \in Outgoing
  BY <1>1, <1>2, SyncAssumption DEF DataMessage, Outgoing, Message
<1>4. outbox' = <<DataMessage(published')>> /\ outbox' \in Seq(Outgoing) /\ Len(outbox') = 1
  BY <1>1, <1>2, <1>3
<1>5. TypeOK'
  BY <1>1, <1>2, <1>4 DEF IInv, TypeOK
<1>6. InboxFiltered' /\ Received' /\ Lag'
  BY <1>1, NothingReceived DEF IInv, Lag
<1>7. Sending'
  <2>1. \A i \in 2 .. Len(wire) : wire[i].body \in 1 .. published' /\ wire[i].body < published'
    BY <1>1, <1>2 DEF IInv, Sending
  <2>2. link' = "up" => Len(wire) + Len(outbox') = published' + 1
    BY <1>1, <1>2, <1>4 DEF IInv, TypeOK, Sending
  <2> QED BY <1>1, <1>2, <1>4, <2>1, <2>2 DEF IInv, Sending
<1> QED BY <1>5, <1>6, <1>7 DEF IInv

(* A frame reaches the binding, from the constructor or from receive. *)
LEMMA FrameKeepsIInv ==
  ASSUME IInv, ReceiveAck \/ ReceiveFrame
  PROVE  IInv'
<1>1. PICK r \in Outcomes : HandleFrame(r) /\ IF pc = "recv_ack"
        THEN pc' = (IF r = "Ok" THEN "ready" ELSE "raised") /\ outcome' = r
        ELSE IF r = "Ok" THEN pc' = "receive" /\ outcome' = outcome
                         ELSE pc' = "ready" /\ outcome' = r
  BY DEF ReceiveAck, ReceiveFrame
<1>2. pc \in {"recv_ack", "ready"} /\ Recv /\ UNCHANGED <<published, wire, got>>
  BY DEF ReceiveAck, ReceiveFrame, historyVars
<1>3. inbox' \in Seq(Message) /\ InboxFiltered' /\ Received'
  BY <1>1, <1>2, FrameReceived
<1>4. /\ UNCHANGED <<served, link, outbox>> /\ nread' = nread + 1 /\ nread + 1 \in 1 .. Len(served)
      /\ state' \in State
  BY <1>1, <1>2, FrameHandled DEF IInv, TypeOK, State
<1>5. TypeOK'
  BY <1>1, <1>2, <1>3, <1>4 DEF IInv, TypeOK
<1>6. Lag'
  <2>1. \/ r # "Ok" /\ UNCHANGED <<state, inbox>>
        \/ r = "Ok" /\ state = "Subscribing" /\ state' = "Subscribed" /\ inbox' = inbox
        \/ r = "Ok" /\ state' = state /\ Len(inbox') = Len(inbox) + 1
    <3>1. FrameMessage \in Message => Len(Append(inbox, FrameMessage)) = Len(inbox) + 1
      BY DEF IInv, TypeOK
    <3> QED BY <1>1, <1>2, <3>1, FrameHandled
  <2>2. Len(inbox) \in Nat /\ (inbox = <<>> => Len(inbox) = 0)
    BY DEF IInv, TypeOK
  <2>3. CASE r # "Ok"
    BY <1>1, <1>2, <2>1, <2>3 DEF IInv, Lag
  <2>4. CASE r = "Ok" /\ pc = "recv_ack"
    <3>1. state = "Subscribing" /\ Len(inbox) = 0 /\ pc' = "ready"
      BY <1>1, <2>2, <2>4 DEF IInv, Lag
    <3> QED BY <2>1, <2>4, <3>1 DEF Lag
  <2>5. CASE r = "Ok" /\ pc = "ready"
    <3>1. Len(inbox) = (IF state = "Subscribing" THEN 1 ELSE 0) /\ pc' = "receive"
      BY <1>1, <2>5 DEF IInv, Lag
    <3> QED BY <2>1, <2>5, <3>1 DEF Lag
  <2> QED BY <1>2, <2>3, <2>4, <2>5
<1>7. Sending'
  BY <1>1, <1>2, <1>4 DEF IInv, Sending
<1> QED BY <1>3, <1>5, <1>6, <1>7 DEF IInv

(* receive returns what the binding has next. *)
LEMMA ReceiveEventKeepsIInv ==
  ASSUME IInv, ReceiveEvent
  PROVE  IInv'
<1>1. PICK m \in {None} \cup Message, r \in Outcomes \cup {"unreachable"} :
        /\ BindingReceiveEvent(m, r) /\ outcome' = r
        /\ got' = IF m = None THEN got ELSE Append(got, m.body)
  BY DEF ReceiveEvent
<1>2. /\ pc = "receive" /\ pc' = "ready"
      /\ UNCHANGED <<state, outbox, served, nread, link, published, wire>>
  BY <1>1 DEF ReceiveEvent, BindingReceiveEvent, streamVars
<1>3. /\ Len(inbox) \in Nat \ {0} /\ inbox # <<>> /\ inbox \in Seq(Message)
      /\ Len(inbox) = IF state = "Subscribing" THEN 2 ELSE 1
  <2>1. Len(inbox) = IF state = "Subscribing" THEN 2 ELSE 1
    BY <1>2 DEF IInv, Lag
  <2>2. inbox \in Seq(Message)
    BY DEF IInv, TypeOK
  <2> QED BY <2>1, <2>2
<1>4. /\ m = Head(inbox) /\ m = inbox[1] /\ inbox' = Tail(inbox) /\ m \in Message
      /\ Len(inbox') = Len(inbox) - 1
  <2>1. m = Head(inbox) /\ inbox' = Tail(inbox)
    BY <1>1, <1>3 DEF BindingReceiveEvent, InboxNextMessage
  <2>2. Head(inbox) = inbox[1] /\ Head(inbox) \in Message /\ Len(Tail(inbox)) = Len(inbox) - 1
    BY <1>3, HeadTailProperties
  <2> QED BY <2>1, <2>2
<1>5. m # None
  BY <1>4 DEF Message, None
<1>6. m.kind \in {"event", "error"}
  <2>1. 1 \in DOMAIN inbox
    BY <1>3
  <2> QED BY <1>4, <2>1 DEF IInv, InboxFiltered
<1>7. r \in Outcomes
  BY <1>1, <1>6 DEF BindingReceiveEvent, ReceiveResult, Outcomes
<1>8. /\ inbox' \in Seq(Message) /\ got' \in Seq(1 .. MaxFrames)
      /\ InboxFiltered' /\ Received'
  BY <1>1, <1>2, <1>3, <1>4, <1>5, MessageReceived
<1>9. TypeOK'
  BY <1>1, <1>2, <1>7, <1>8 DEF IInv, TypeOK
<1>10. Lag' /\ Sending'
  BY <1>2, <1>3, <1>4 DEF IInv, Lag, Sending
<1> QED BY <1>8, <1>9, <1>10 DEF IInv

(* Calls that raise before they change anything, and the server. *)
LEMMA OthersKeepIInv ==
  ASSUME IInv, AckRaises \/ ReceiveTimesOut \/ ReceiveRaises \/ Server \/ UNCHANGED vars
  PROVE  IInv'
<1>1. /\ UNCHANGED <<state, inbox, outbox, nread, published, wire, got>>
      /\ outcome' \in Outcomes
      /\ pc' = pc \/ (pc' = "raised" /\ pc = "recv_ack")
      /\ link' \in {"up", "closed"} /\ (link' = "up" => link = "up")
      /\ \/ served' = served
         \/ \E f \in FrameKinds : served' = Append(served, f) /\ Len(served) < MaxFrames
  BY DEF AckRaises, ReceiveTimesOut, ReceiveRaises, RecvRaises, Server, vars, protocolVars,
    clientVars, streamVars, historyVars, FrameKinds, Outcomes, IInv, TypeOK
<1>2. InboxFiltered' /\ Received' /\ served' \in Seq(FrameKinds) /\ nread \in 0 .. Len(served')
  BY <1>1, NothingReceived
<1>3. TypeOK'
  BY <1>1, <1>2 DEF IInv, TypeOK, FrameKinds
<1>4. Lag'
  BY <1>1 DEF IInv, Lag
<1>5. Sending'
  <2>1. pc' = "raised" => outbox = <<>>
    BY <1>1 DEF IInv, Sending
  <2>2. UNCHANGED <<outbox, wire, published>>
    BY <1>1
  <2> QED BY <1>1, <2>1, <2>2 DEF IInv, Sending
<1> QED BY <1>2, <1>3, <1>4, <1>5 DEF IInv

LEMMA NextIInv == IInv /\ [Next]_vars => IInv'
<1> SUFFICES ASSUME IInv, [Next]_vars PROVE IInv'
  OBVIOUS
<1>1. CASE Subscribe
  BY <1>1, FlushSendKeepsIInv, FlushEndsKeepsIInv DEF Subscribe
<1>2. CASE Publish
  BY <1>2, PublishCallKeepsIInv, FlushSendKeepsIInv, FlushEndsKeepsIInv DEF Publish
<1>3. CASE ReceiveAck \/ ReceiveFrame
  BY <1>3, FrameKeepsIInv
<1>4. CASE ReceiveEvent
  BY <1>4, ReceiveEventKeepsIInv
<1>5. CASE AckRaises \/ ReceiveTimesOut \/ ReceiveRaises \/ Server \/ NoClient \/ UNCHANGED vars
  BY <1>5, OthersKeepIInv DEF NoClient
<1> QED BY <1>1, <1>2, <1>3, <1>4, <1>5 DEF Next

-----------------------------------------------------------------------------
(* The inductive invariant holds whatever the server sends and the program  *)
(* calls.                                                                   *)
THEOREM Invariance == Spec => []IInv
BY InitIInv, NextIInv, PTL DEF Spec

(***************************************************************************)
(* The client, its binding and its history keep their types; in particular  *)
(* no call reaches the unreachable!() of Binding::receive_event.            *)
(***************************************************************************)
THEOREM TypeCorrect == Spec => []TypeOK
<1>1. IInv => TypeOK
  BY DEF IInv
<1> QED BY <1>1, Invariance, PTL

(* receive hands out every event and error read, once and in order. *)
THEOREM InOrder == Spec => []ReceivesInOrder
<1>1. IInv => ReceivesInOrder
  BY DEF IInv, Received, ReceivesInOrder, Seen, Bodies
<1> QED BY <1>1, Invariance, PTL

(***************************************************************************)
(* Once the ACK came no call of receive leaves a message behind, even if    *)
(* the constructor took another message for the ACK.                        *)
(***************************************************************************)
THEOREM CaughtUp == Spec => []CaughtUpOnceSubscribed
<1>1. IInv => CaughtUpOnceSubscribed
  BY DEF IInv, TypeOK, Lag, CaughtUpOnceSubscribed
<1> QED BY <1>1, Invariance, PTL

(***************************************************************************)
(* Between calls nothing waits to be sent; the subscription was sent first  *)
(* and then every published event in order, all of them while the           *)
(* connection is up.                                                        *)
(***************************************************************************)
THEOREM NothingUnsent == Spec => []PublishFlushes
<1>1. IInv => PublishFlushes
  <2> SUFFICES ASSUME IInv PROVE PublishFlushes
    OBVIOUS
  <2>1. pc = "ready" => outbox = <<>>
    BY DEF IInv, Sending
  <2>2. pc = "ready" /\ link = "up" => Len(wire) = published + 1
    <3> SUFFICES ASSUME pc = "ready", link = "up" PROVE Len(wire) = published + 1
      OBVIOUS
    <3>1. Len(wire) + Len(outbox) = published + 1
      BY DEF IInv, Sending
    <3>2. Len(wire) \in Nat /\ Len(outbox) = 0
      BY <2>1 DEF IInv, TypeOK
    <3> QED BY <3>1, <3>2
  <2> QED BY <2>1, <2>2 DEF IInv, Sending, PublishFlushes
<1> QED BY <1>1, Invariance, PTL

=============================================================================
