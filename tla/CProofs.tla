------------------------------- MODULE CProofs -------------------------------
(***************************************************************************)
(* Theorems about the C bindings.  About CClient, for every channel size,   *)
(* server and bound: serve keeps what ServiceProofs proves of it although   *)
(* its task is cancelled and its callbacks are C functions; it never sees   *)
(* the Outbox dropped; and the C program is left alone once its client is   *)
(* gone.  About CValues, for any set of boxes and arrays of any length: a   *)
(* program that keeps to the comments leaks only the values that a comment  *)
(* wrongly says it passes on, and never uses what is gone.                  *)
(***************************************************************************)
EXTENDS CClient, CValues, ServiceProofs

-----------------------------------------------------------------------------
(* The client *)

(* Who holds the Outbox, and what the C thread is doing, agree. *)
Thread ==
  /\ api \in {"idle", "publish", "shutdown", "free", "gone"}
  /\ holders = IF api = "gone" THEN {} ELSE {Api}
  /\ pending[Api] # 0 <=> api = "publish"
  /\ timedOut \in BOOLEAN /\ (timedOut => api = "gone")

(* Whoever waited for the runtime to stop saw the task end. *)
Stopped == api = "gone" /\ ~timedOut => TaskOver

CInv == Safe /\ Thread /\ Stopped /\ NoGoodbye

LEMMA InitCInv == CInit => CInv
<1> SUFFICES ASSUME CInit PROVE CInv
  OBVIOUS
<1>1. Safe
  BY InitSafe DEF CInit
<1>2. Thread
  BY ApiAssumption DEF CInit, Init, Thread, Holders
<1>3. Stopped /\ NoGoodbye
  BY DEF CInit, Init, Stopped, NoGoodbye, SaidGoodbye
<1> QED BY <1>1, <1>2, <1>3 DEF CInv

(* The C client has the one Outbox, the callbacks none. *)
LEMMA ApiAlone ==
  ASSUME CInv
  PROVE  /\ Api \in Holders /\ Client \in Holders /\ Api # Client
         /\ Client \notin holders /\ pending[Client] = 0
         /\ \A h \in Holders : h = Api \/ h = Client
<1>1. Api \in Holders /\ Client \in Holders /\ Api # Client /\ \A h \in Holders : h = Api \/ h = Client
  BY ApiAssumption, ServiceAssumption DEF Holders
<1>2. Client \notin holders
  BY <1>1 DEF CInv, Thread
<1> QED BY <1>1, <1>2 DEF CInv, Safe, Types, Awaited

(***************************************************************************)
(* Each step of the C client is one of serve, of its server or of its one   *)
(* Outbox; the task that is dropped is interrupted.                         *)
(***************************************************************************)
LEMMA CStepIsStep ==
  ASSUME CInv, [CNext]_cVars
  PROVE  Step
<1> USE DEF Step
<1>1. CASE ServeStep \/ NetworkStep
  BY <1>1 DEF ServeStep, NetworkStep, Next
<1>2. CASE Cancel
  BY <1>2, ApiAlone DEF Cancel, AwaitPoints, Return, Interrupted
<1>3. CASE PublishCall \/ PublishReturns
  BY <1>3, ApiAlone DEF PublishCall, PublishReturns, Publish, Next
<1>4. CASE StopReturns \/ ShutdownTimesOut
  <2>1. DropClient /\ api \in {"shutdown", "free"}
    BY <1>4 DEF StopReturns, ShutdownTimesOut
  <2>2. holders = {Api} /\ pending[Api] = 0
    BY <2>1 DEF CInv, Thread
  <2>3. DropOutbox(Api)
    BY <2>1, <2>2, ApiAlone DEF DropClient, DropOutbox, Running
  <2> QED BY <2>3, ApiAlone DEF Publish, Next
<1>5. CASE UNCHANGED vars
  BY <1>5
<1>6. CASE ReportError \/ ShutdownCall \/ FreeCall \/ CFinished \/ UNCHANGED cVars
  BY <1>5, <1>6 DEF ReportError, ShutdownCall, FreeCall, CFinished, cVars
<1> QED BY <1>1, <1>2, <1>3, <1>4, <1>6 DEF CNext

(* serve leaves the Outbox of the C client alone. *)
LEMMA ServeLeavesOutbox ==
  ASSUME CInv, Task \/ Server \/ Cancel
  PROVE  holders' = holders /\ pending' = pending
<1>1. Client \notin holders
  BY ApiAlone
<1>2. CASE Poll
  BY <1>1, <1>2, PollFootprint DEF channelVars, Leave, RxEvent
<1>3. CASE CallbackReturns \/ Server \/ Cancel
  BY <1>1, <1>3 DEF CallbackReturns, Server, ServerSend, ServerClose, Break, Cancel, Return,
    channelVars
<1> QED BY <1>2, <1>3 DEF Task

LEMMA NextThread == CInv /\ [CNext]_cVars => Thread'
<1> SUFFICES ASSUME CInv, [CNext]_cVars PROVE Thread'
  OBVIOUS
<1> USE DEF CInv
<1>1. CASE ServeStep \/ NetworkStep \/ Cancel
  <2>1. holders' = holders /\ pending' = pending
    BY <1>1, ServeLeavesOutbox DEF ServeStep, NetworkStep
  <2> QED BY <1>1, <2>1 DEF ServeStep, NetworkStep, Cancel, apiVars, Thread
<1>2. CASE PublishCall
  <2>1. /\ pending' = [pending EXCEPT ![Api] = npub + 1] /\ holders' = holders /\ npub \in Nat
        /\ pending \in [Holders -> 0 .. npub]
    BY <1>2, ServiceAssumption DEF PublishCall, SendStart, Safe, Types, ChannelType
  <2> QED BY <1>2, <2>1, ApiAlone DEF PublishCall, Thread
<1>3. CASE PublishReturns
  <2>1. /\ pending' = [pending EXCEPT ![Api] = 0] /\ holders' = holders
        /\ pending \in [Holders -> 0 .. npub]
    BY <1>3 DEF PublishReturns, SendAccepted, SendRefused, Safe, Types, ChannelType
  <2> QED BY <1>3, <2>1, ApiAlone DEF PublishReturns, Thread
<1>4. CASE StopReturns \/ ShutdownTimesOut
  BY <1>4 DEF StopReturns, ShutdownTimesOut, DropClient, Thread
<1>5. CASE ReportError \/ ShutdownCall \/ FreeCall \/ CFinished \/ UNCHANGED cVars
  BY <1>5 DEF ReportError, ShutdownCall, FreeCall, CFinished, cVars, apiVars, vars, channelVars, Thread
<1> QED BY <1>1, <1>2, <1>3, <1>4, <1>5 DEF CNext

(***************************************************************************)
(* Once the task is over, it stays so, and what the C program and the       *)
(* server see of it stays as it is.                                         *)
(***************************************************************************)
LEMMA OverStaysOver ==
  ASSUME TaskOver, [CNext]_cVars
  PROVE  TaskOver' /\ UNCHANGED <<callbacks, told, wire>>
<1>1. CASE ServeStep \/ NetworkStep \/ Cancel \/ ReportError
  BY <1>1, PollFootprint DEF ServeStep, Task, CallbackReturns, NetworkStep, Server, Cancel, AwaitPoints,
    ReportError, TaskOver
<1>2. CASE PublishCall \/ PublishReturns
  BY <1>2 DEF PublishCall, PublishReturns, SendStart, SendAccepted, SendRefused, TaskOver, Failed,
    taskVars, streamVars
<1>3. CASE StopReturns \/ ShutdownTimesOut
  BY <1>3 DEF StopReturns, ShutdownTimesOut, DropClient, TaskOver, Failed, taskVars, streamVars
<1>4. CASE ShutdownCall \/ FreeCall \/ CFinished \/ UNCHANGED cVars
  BY <1>4 DEF ShutdownCall, FreeCall, CFinished, cVars, vars, apiVars, TaskOver, Failed, taskVars, streamVars
<1> QED BY <1>1, <1>2, <1>3, <1>4 DEF CNext

LEMMA NextStopped == CInv /\ [CNext]_cVars => Stopped'
<1> SUFFICES ASSUME CInv, [CNext]_cVars, api' = "gone", ~timedOut' PROVE TaskOver'
  BY DEF Stopped
<1>1. TaskOver
  <2>1. CASE api = "gone" /\ ~timedOut
    BY <2>1 DEF CInv, Stopped
  <2>2. CASE StopReturns
    BY <2>2 DEF StopReturns
  <2>3. CASE api' = api /\ timedOut' = timedOut
    BY <2>1, <2>3
  <2> QED BY <2>2, <2>3 DEF CNext, ServeStep, ReportError, Cancel, PublishCall, PublishReturns, ShutdownCall,
        FreeCall, ShutdownTimesOut, NetworkStep, CFinished, cVars, apiVars
<1> QED BY <1>1, OverStaysOver


(***************************************************************************)
(* serve closes the connection only when no Outbox is left (GracefulClose), *)
(* and while it runs the C client drops its own only in a shutdown that     *)
(* timed out.                                                               *)
(***************************************************************************)
LEMMA NextNoGoodbye ==
  ASSUME CInv, [CNext]_cVars, Safe', Thread'
  PROVE  NoGoodbye'
<1> SUFFICES ASSUME SaidGoodbye', ~timedOut' PROVE FALSE
  BY DEF NoGoodbye
<1>1. api' = "gone"
  BY DEF Safe, GracefulClose, Thread
<1>2. api # "gone" => holders # {} /\ ~SaidGoodbye
  BY DEF CInv, Safe, GracefulClose, Thread
<1>3. CASE StopReturns
  <2>1. api # "gone" /\ wire' = wire
    BY <1>3 DEF StopReturns, DropClient, streamVars
  <2> QED BY <1>2, <2>1 DEF SaidGoodbye
<1>4. CASE api = "gone" /\ ~timedOut
  <2>1. TaskOver /\ ~SaidGoodbye
    BY <1>4 DEF CInv, Stopped, NoGoodbye
  <2> QED BY <2>1, OverStaysOver DEF SaidGoodbye
<1>5. CASE api' = api /\ timedOut' = timedOut
  BY <1>1, <1>4, <1>5
<1> QED BY <1>1, <1>3, <1>5 DEF CNext, ServeStep, ReportError, Cancel, PublishCall, PublishReturns,
      ShutdownCall, FreeCall, ShutdownTimesOut, NetworkStep, CFinished, cVars, apiVars

LEMMA NextCInv == CInv /\ [CNext]_cVars => CInv'
<1> SUFFICES ASSUME CInv, [CNext]_cVars PROVE CInv'
  OBVIOUS
<1>1. Safe'
  BY CStepIsStep, StepSafe DEF CInv
<1>2. Thread' /\ Stopped'
  BY NextThread, NextStopped
<1> QED BY <1>1, <1>2, NextNoGoodbye DEF CInv

(***************************************************************************)
(* The inductive invariant holds in every reachable state of the C client.  *)
(***************************************************************************)
THEOREM CInvariance == CSpec => []CInv
BY InitCInv, NextCInv, PTL DEF CSpec

(***************************************************************************)
(* What ServiceProofs proves of serve holds of it in the C client: however  *)
(* its task is cancelled, nothing accepted is lost on the way, a graceful   *)
(* exit loses nothing, nothing is sent before the ACK, Ok is deliberate and *)
(* the C callbacks are called once for each frame that calls for it.        *)
(***************************************************************************)
THEOREM CServeSafe ==
  CSpec => [](/\ OutboundConserved /\ GracefulClose /\ HandshakeFirst
              /\ OkMeansClosed /\ CallbacksFollowFrames)
<1>1. CInv => /\ OutboundConserved /\ GracefulClose /\ HandshakeFirst
              /\ OkMeansClosed /\ CallbacksFollowFrames
  BY DEF CInv, Safe
<1> QED BY <1>1, CInvariance, PTL

(***************************************************************************)
(* The C client takes the steps of a Session too: cancelling the task is    *)
(* one of the ways a session ends.                                          *)
(***************************************************************************)
THEOREM CSessionSteps == CSpec => S!Init /\ [][S!Next]_(S!vars)
<1>1. CInit => S!Init
  BY InitSimulates DEF CInit
<1>2. CInv /\ CInv' /\ [CNext]_cVars => [S!Next]_(S!vars)
  BY CStepIsStep, StepSimulates DEF CInv
<1> QED BY <1>1, <1>2, CInvariance, PTL DEF CSpec

(***************************************************************************)
(* serve never closes a connection of a C client with a Close frame, except *)
(* after a zws_client_shutdown that timed out.                              *)
(***************************************************************************)
THEOREM CutNotClosed == CSpec => []NoGoodbye
<1>1. CInv => NoGoodbye
  BY DEF CInv
<1> QED BY <1>1, CInvariance, PTL

(***************************************************************************)
(* Of a server that ends its stream with a Close frame: serve returns Ok    *)
(* only after its own Close frame or, once connected, after reading that    *)
(* of the server.                                                           *)
(***************************************************************************)
CloseFrames ==
  "bare" \notin EndModes =>
    /\ link = "finished" => served # <<>> /\ served[Len(served)] = "close"
    /\ result = "Ok" => SaidGoodbye \/ (PeerClosed /\ Connected)

LEMMA NextFinished ==
  ASSUME Types, Step, "bare" \notin EndModes,
         link = "finished" => served # <<>> /\ served[Len(served)] = "close",
         link' = "finished"
  PROVE  served' # <<>> /\ served'[Len(served')] = "close"
<1>1. served \in Seq(FrameKinds) /\ "close" \in FrameKinds
  BY DEF Types, StreamType, FrameKinds
<1>2. CASE served' = served /\ link' = link
  BY <1>2
<1>3. CASE Server
  <2>1. CASE served' = Append(served, "close")
    BY <1>1, <2>1, AppendProperties
  <2> QED BY <1>3, <2>1 DEF Server, ServerSend, ServerClose, Break
<1>4. CASE Poll
  BY <1>2, <1>4, PollFootprint DEF Connect, serverVars
<1> QED BY <1>2, <1>3, <1>4, StepCases DEF CallbackReturns, Publish, SendStart, SendAccepted,
      SendRefused, DropOutbox, CloneOutbox, Interrupted, Return, Spawn, Spawned, vars, streamVars,
      serverVars

LEMMA NextCloseFrames ==
  ASSUME Safe, Safe', CloseFrames, Step
  PROVE  CloseFrames'
<1> SUFFICES ASSUME "bare" \notin EndModes
             PROVE  /\ link' = "finished" => served' # <<>> /\ served'[Len(served')] = "close"
                    /\ result' = "Ok" => SaidGoodbye' \/ (PeerClosed' /\ Connected')
  BY DEF CloseFrames
<1>1. link' = "finished" => served' # <<>> /\ served'[Len(served')] = "close"
  BY NextFinished DEF CloseFrames, Safe
<1>2. ASSUME result' = "Ok" PROVE SaidGoodbye' \/ (PeerClosed' /\ Connected')
  <2>1. CASE UNCHANGED <<result, wire, served, nread, callbacks>>
    BY <1>2, <2>1 DEF CloseFrames, SaidGoodbye, PeerClosed, Connected
  <2>2. CASE Poll
    <3>1. pc # "done" /\ result = "none"
      BY <2>2, PollFootprint DEF Safe, Types, TaskType
    <3>2. CASE SendClose
      <4>1. wire' = Append(wire, CloseFrame) /\ wire \in Seq(Outgoing \cup {CloseFrame})
        BY <3>2 DEF SendClose, Safe, Types, WireType
      <4>2. wire' # <<>> /\ wire'[Len(wire')] = CloseFrame
        BY <4>1, AppendProperties
      <4> QED BY <4>2 DEF SaidGoodbye
    <3>3. CASE (AwaitEnds \/ StreamCloses) /\ StreamEnds
      <4>1. UNCHANGED <<served, nread, callbacks>> /\ pc \in {"await_ack", "select"}
        BY <3>3 DEF AwaitEnds, StreamCloses, Return, serverVars
      <4>2. served \in Seq(FrameKinds) /\ nread \in 0 .. Len(served)
        BY DEF Safe, Types, StreamType
      <4>3. PeerClosed
        BY <3>3, <4>2 DEF StreamEnds, PeerClosed, CloseFrames
      <4>4. pc # "await_ack"
        BY <4>2, <4>3 DEF PeerClosed, Safe, Incoming
      <4>5. Connected
        BY <4>1, <4>4 DEF Safe, Handshake, Connected
      <4> QED BY <4>1, <4>3, <4>5 DEF PeerClosed, Connected
    <3> QED BY <1>2, <2>2, <3>1, <3>2, <3>3 DEF Poll, Connect, ConnectFails, Subscribe, AwaitPing,
          AwaitAck, AwaitFails, AwaitEnds, RxBranch, RxEvent, RxClosed, StreamBranch, StreamPing,
          StreamUndecodable, StreamMessage, StreamRejected, StreamCloses, Flush, FlushSend,
          FlushFails, FlushDone, Close, Drain, DrainDone, Goto, Return, Callback, Transmit,
          SendClose, Leave, taskVars, protocolVars
  <2>3. CASE pc' # "done"
    BY <1>2, <2>3 DEF Safe, Types, TaskType
  <2>4. CASE CallbackReturns \/ Server
    BY <1>2, <2>3, <2>4 DEF CallbackReturns, Goto, Server, ServerSend, ServerClose, Break, taskVars,
      Safe, Types, TaskType
  <2>5. CASE Publish \/ Spawn
    BY <2>1, <2>5 DEF Publish, SendStart, SendAccepted, SendRefused, DropOutbox, CloneOutbox, Spawn,
      Spawned, taskVars, streamVars, serverVars
  <2>6. CASE UNCHANGED vars
    BY <2>1, <2>6 DEF vars, taskVars, streamVars, serverVars
  <2>7. CASE Interrupted
    BY <1>2, <2>7 DEF Interrupted
  <2> QED BY <2>2, <2>4, <2>5, <2>6, <2>7, StepCases
<1> QED BY <1>1, <1>2

(* The Close frame of the server was reported to error_callback. *)
LEMMA CloseReported ==
  ASSUME Safe, PeerClosed, Connected
  PROVE  \E i \in DOMAIN callbacks : callbacks[i].cb = "error"
<1>1. /\ nread \in 0 .. Len(served) /\ served[nread] = "close" /\ nread \in Nat \ {0}
      /\ callbacks \in Seq([cb : {"connected", "event", "error"}, frame : Nat \ {0}])
  BY DEF Safe, Types, StreamType, CallbackType, PeerClosed
<1>2. inbox = <<>>
  BY <1>1 DEF Safe, Incoming
<1>3. 1 \in DOMAIN callbacks
  BY <1>1 DEF Connected
<1>4. callbacks[1].frame \in 1 .. nread /\ served[callbacks[1].frame] = "ack"
  BY <1>3 DEF Safe, Incoming, CallbacksFollowFrames, CallbackComplete
<1>5. nread \in callbacks[1].frame + 1 .. nread
  BY <1>1, <1>4
<1>6. Reported(nread)
  BY <1>1, <1>2, <1>5 DEF Safe, CallbacksFollowFrames, CallbackComplete, Reportable
<1>7. PICK i \in DOMAIN callbacks : callbacks[i].frame = nread
  BY <1>6 DEF Reported
<1>8. callbacks[i].cb \in {"connected", "event", "error"}
  <2> DEFINE R == [cb : {"connected", "event", "error"}, frame : Nat \ {0}]
  <2>1. \A r \in R : r.cb \in {"connected", "event", "error"}
    OBVIOUS
  <2>2. callbacks \in Seq(R)
    BY <1>1
  <2> HIDE DEF R
  <2>3. i \in 1 .. Len(callbacks)
    BY <1>7, <2>2
  <2>4. callbacks[i] \in R
    BY <2>2, <2>3, ElementOfSeq
  <2> QED BY <2>1, <2>4
<1>9. callbacks[i].cb \notin {"connected", "event"}
  BY <1>1, <1>7 DEF Safe, CallbacksFollowFrames, CallbackMatches
<1> QED BY <1>8, <1>9

(* serve returns its results or is cancelled. *)
LEMMA CResult ==
  ASSUME [CNext]_cVars
  PROVE  result' \in TaskResults \cup {result, "Cancelled"}
<1>1. CASE ServeStep \/ NetworkStep
  BY <1>1, NextResult DEF ServeStep, NetworkStep, Next
<1>2. CASE Cancel
  BY <1>2 DEF Cancel, Return
<1> QED BY <1>1, <1>2 DEF CNext, ReportError, PublishCall, PublishReturns, SendStart, SendAccepted,
      SendRefused, ShutdownCall, FreeCall, StopReturns, ShutdownTimesOut, DropClient, CFinished,
      cVars, vars, taskVars

(***************************************************************************)
(* When a stop of a C client returned in time, serve was cut short or       *)
(* error_callback was told why it had ended.                                *)
(***************************************************************************)
THEOREM Explained == CSpec => []ExplainedBeforeStop
<1> DEFINE Results == result \in TaskResults \cup {"Cancelled"}
           I == CInv /\ CloseFrames /\ Results
<1>1. CInit => I
  <2> SUFFICES ASSUME CInit PROVE CloseFrames /\ Results
    BY InitCInv
  <2> QED BY DEF CInit, Init, CloseFrames, TaskResults
<1>2. I /\ [CNext]_cVars => I'
  <2> SUFFICES ASSUME I, [CNext]_cVars PROVE CloseFrames' /\ Results'
    BY NextCInv
  <2>1. Step /\ Safe /\ Safe'
    BY CStepIsStep, NextCInv DEF CInv
  <2>2. CloseFrames'
    BY <2>1, NextCloseFrames
  <2>3. Results'
    BY CResult
  <2> QED BY <2>2, <2>3
<1>3. I => ExplainedBeforeStop
  <2> SUFFICES ASSUME I, api = "gone", ~timedOut, "bare" \notin EndModes, result # "Cancelled"
               PROVE  told \/ \E i \in DOMAIN callbacks : callbacks[i].cb = "error"
    BY DEF ExplainedBeforeStop
  <2>1. pc = "done" /\ (Failed => told) /\ ~SaidGoodbye
    BY DEF CInv, Stopped, TaskOver, NoGoodbye
  <2>2. result \in {"Ok", "Transport", "ProtocolError"}
    BY <2>1 DEF CInv, Safe, Types, TaskType, TaskResults
  <2>3. CASE result = "Ok"
    BY <2>1, <2>3, CloseReported DEF CloseFrames, CInv
  <2> QED BY <2>1, <2>2, <2>3 DEF Failed
<1> QED BY <1>1, <1>2, <1>3, PTL DEF CSpec

(***************************************************************************)
(* Once zws_client_free returned, or zws_client_shutdown within its time,   *)
(* C code is not called back and nothing is sent.                           *)
(***************************************************************************)
THEOREM LeftAlone == CSpec => QuietWhenGone
<1>1. CInv /\ [CNext]_cVars =>
        [api = "gone" /\ ~timedOut => UNCHANGED <<callbacks, told, wire>>]_cVars
  BY OverStaysOver DEF CInv, Stopped
<1> QED BY <1>1, CInvariance, PTL DEF CSpec, QuietWhenGone

-----------------------------------------------------------------------------
(* Who owns what *)

(* The types of what the proofs speak of. *)
BoxTypes ==
  /\ heap \in [Box -> Kind \cup {"free"}]
  /\ owned \subseteq Box /\ received \subseteq Box
  /\ intact \subseteq Box /\ abandoned \subseteq Box

(* What was abandoned is never handed to the program again. *)
Forgotten == abandoned \cap (owned \cup received) = {}

(* The inductive invariant: each part alone needs the others. *)
Ownership == BoxTypes /\ LeaksOnlyAbandoned /\ Forgotten /\ NoDangling

(***************************************************************************)
(* The code and the program stay in step when the program gives up the      *)
(* boxes that the code drops, all of them its own, and gets those made; a   *)
(* value it gives up besides is the only one that is lost.                  *)
(***************************************************************************)
LEMMA CallKeepsOwnership ==
  ASSUME Ownership,
         NEW gone, gone \subseteq owned,
         NEW lost, lost \subseteq owned \ gone, \A b \in lost : heap[b] \in Value,
         NEW made, made \subseteq Box,
         NEW kind \in Kind,
         Heap(gone, made, kind),
         Passes(gone \cup lost, made), abandoned' = abandoned \cup lost
  PROVE  Ownership'
<1> USE DEF Ownership
<1> DEFINE Cell(b) == IF b \in made THEN kind ELSE IF b \in gone THEN "free" ELSE heap[b]
<1>1. /\ \A b \in made : heap[b] = "free"
      /\ heap' = [b \in Box |-> Cell(b)]
      /\ intact' = intact \ gone
      /\ owned' = (owned \ (gone \cup lost)) \cup made
      /\ views' = views \ (gone \cup lost)
      /\ received' = received
      /\ abandoned' = abandoned \cup lost
  BY DEF Heap, Passes
<1>2. "free" \notin Kind /\ "free" \notin Value
  BY DEF Kind, Value
<1>3. BoxTypes'
  BY <1>1 DEF BoxTypes
<1> HIDE DEF Cell
<1>4. \A b \in Box : heap'[b] = Cell(b)
  BY <1>1
<1>5. owned \cap made = {} /\ received \cap made = {} /\ gone \cap made = {}
  BY <1>1, <1>2 DEF NoDangling
<1>6. \A b \in intact : b \notin made
  BY <1>1 DEF NoDangling
<1>7. \A b \in abandoned \cup lost : heap[b] \in Value /\ b \notin gone /\ b \notin made
  BY <1>1, <1>2 DEF LeaksOnlyAbandoned, Forgotten
<1>8. abandoned \cup lost \subseteq Box
  <2>1. lost \subseteq Box
    BY DEF BoxTypes
  <2> QED BY <2>1 DEF BoxTypes
<1>9. LeaksOnlyAbandoned'
  <2>1. ASSUME NEW b \in Box, heap'[b] # "free" PROVE b \in owned' \cup received' \cup abandoned'
    BY <2>1, <1>1, <1>4 DEF LeaksOnlyAbandoned, Cell
  <2>2. ASSUME NEW b \in abandoned' PROVE heap'[b] \in Value
    BY <2>2, <1>1, <1>4, <1>7, <1>8 DEF Cell
  <2> QED BY <2>1, <2>2 DEF LeaksOnlyAbandoned
<1>10. Forgotten'
  BY <1>1, <1>7 DEF Forgotten, NoDangling
<1>11. \A b \in owned' \cup received' : heap'[b] \in Kind
  BY <1>1, <1>4, <1>5 DEF NoDangling, BoxTypes, Cell
<1>12. owned' \cap received' = {}
  BY <1>1, <1>5 DEF NoDangling
<1>13. views' \subseteq intact'
  BY <1>1 DEF NoDangling
<1>14. \A b \in intact' : heap'[b] # "free"
  <2> SUFFICES ASSUME NEW b \in intact' PROVE heap'[b] # "free"
    OBVIOUS
  <2>1. b \in Box /\ b \in intact /\ b \notin gone /\ b \notin made
    BY <1>1, <1>6 DEF BoxTypes
  <2> QED BY <2>1, <1>4 DEF NoDangling, Cell
<1> QED BY <1>3, <1>9, <1>10, <1>11, <1>12, <1>13, <1>14 DEF NoDangling

(* A call in which the program gives up only what the code drops. *)
LEMMA PlainCallKeepsOwnership ==
  ASSUME Ownership,
         NEW gone, gone \subseteq owned,
         NEW made, made \subseteq Box,
         NEW kind \in Kind,
         Heap(gone, made, kind), Program(gone, made)
  PROVE  Ownership'
<1>1. gone \cup {} = gone /\ abandoned' = abandoned \cup {}
  BY DEF Program
<1>2. Passes(gone \cup {}, made)
  BY <1>1 DEF Program
<1> QED BY <1>1, <1>2, CallKeepsOwnership

(* The accessors that copy, whichever of comment and signature is followed. *)
LEMMA CopiesKeepOwnership ==
  ASSUME Ownership,
         NEW b, NEW gone, gone \subseteq owned, b \notin gone,
         NEW made, made \subseteq Box,
         Copies(b, gone, made)
  PROVE  Ownership'
<1>1. b \in owned /\ heap[b] \in Value /\ Heap(gone, made, "address")
  BY DEF Copies, Owns
<1>2. "address" \in Kind
  BY DEF Kind
<1>3. CASE Program(gone, made)
  BY <1>1, <1>2, <1>3, PlainCallKeepsOwnership
<1>4. CASE Abandon(b, gone, made)
  BY <1>1, <1>2, <1>4, CallKeepsOwnership DEF Abandon
<1> QED BY <1>3, <1>4 DEF Copies

(* What the program holds, and what it was lent, is allocated. *)
LEMMA HoldsAllocated ==
  ASSUME Ownership
  PROVE  /\ owned \subseteq Box
         /\ Events \subseteq owned \cup received
         /\ \A b \in owned \cup received : b \in Box /\ heap[b] \in Kind /\ heap[b] # "free"
         /\ \A vs \in Arrays : vs \subseteq owned
<1>1. "free" \notin Kind
  BY DEF Kind, Value
<1> QED BY <1>1 DEF Ownership, BoxTypes, NoDangling, Events, Arrays

(* A pointer into an allocated box changes neither side's boxes. *)
LEMMA ViewKeepsOwnership ==
  ASSUME Ownership, NEW b \in owned \cup received, View(b)
  PROVE  Ownership'
<1>1. b \in Box /\ heap[b] # "free"
  BY HoldsAllocated
<1> QED BY <1>1 DEF View, Ownership, BoxTypes, LeaksOnlyAbandoned, Forgotten, NoDangling

LEMMA AsListKeepsOwnership ==
  ASSUME Ownership, NEW b \in Box, NEW list \in Box, AsList(b, list)
  PROVE  Ownership'
<1>1. /\ b \in owned
      /\ heap' = [heap EXCEPT ![b] = "free"]
      /\ owned' = owned \ {b} /\ received' = received /\ abandoned' = abandoned
  BY DEF AsList, Owns
<1>2. /\ intact' \subseteq intact \ {b}
      /\ views' \subseteq intact'
  BY DEF AsList, Ownership, NoDangling
<1>3. /\ heap \in [Box -> Kind \cup {"free"}]
      /\ owned \subseteq Box /\ received \subseteq Box /\ intact \subseteq Box
      /\ abandoned \subseteq Box
  BY DEF Ownership, BoxTypes
<1>4. heap'[b] = "free" /\ \A c \in Box \ {b} : heap'[c] = heap[c]
  BY <1>1, <1>3
<1>5. BoxTypes'
  BY <1>1, <1>2, <1>3 DEF BoxTypes
<1>6. LeaksOnlyAbandoned' /\ Forgotten'
  BY <1>1, <1>4 DEF Ownership, BoxTypes, LeaksOnlyAbandoned, Forgotten, NoDangling, Value, Kind
<1>7. b \notin received
  BY <1>1 DEF Ownership, NoDangling
<1>8. NoDangling'
  BY <1>1, <1>2, <1>3, <1>4, <1>7 DEF Ownership, NoDangling
<1> QED BY <1>5, <1>6, <1>8 DEF Ownership

LEMMA ReceiveStartKeepsOwnership ==
  ASSUME Ownership, NEW e \in Box, ReceiveStart(e)
  PROVE  Ownership'
<1>1. /\ heap[e] = "free" /\ received = {} /\ received' = {e}
      /\ heap' = [c \in Box |-> IF c \in {e} THEN "event"
                                ELSE IF c \in {} THEN "free" ELSE heap[c]]
      /\ intact' = intact /\ owned' = owned /\ views' = views /\ abandoned' = abandoned
  BY DEF ReceiveStart, Heap
<1>2. /\ heap \in [Box -> Kind \cup {"free"}]
      /\ owned \subseteq Box /\ intact \subseteq Box /\ abandoned \subseteq Box
  BY DEF Ownership, BoxTypes
<1>3. heap'[e] = "event" /\ \A c \in Box \ {e} : heap'[c] = heap[c]
  BY <1>1
<1>4. "event" \in Kind /\ "free" \notin Kind
  BY DEF Kind, Value
<1>5. e \notin owned /\ e \notin intact
  BY <1>1, <1>4 DEF Ownership, NoDangling
<1>6. BoxTypes'
  BY <1>1, <1>2, <1>4 DEF BoxTypes
<1>7. e \notin abandoned
  BY <1>1 DEF Ownership, LeaksOnlyAbandoned, Value
<1>8. LeaksOnlyAbandoned'
  BY <1>1, <1>2, <1>3, <1>7 DEF Ownership, BoxTypes, LeaksOnlyAbandoned
<1>9. Forgotten'
  BY <1>1, <1>7 DEF Ownership, Forgotten
<1>10. NoDangling'
  BY <1>1, <1>2, <1>3, <1>4, <1>5 DEF Ownership, NoDangling
<1> QED BY <1>6, <1>8, <1>9, <1>10 DEF Ownership

LEMMA ReceiveEndKeepsOwnership ==
  ASSUME Ownership, ReceiveEnd
  PROVE  Ownership'
<1>1. /\ heap' = [c \in Box |-> IF c \in {} THEN "event"
                                ELSE IF c \in received THEN "free" ELSE heap[c]]
      /\ intact' = intact \ received /\ received' = {}
      /\ owned' = owned /\ views' = views \ received /\ abandoned' = abandoned
  BY DEF ReceiveEnd, Heap
<1>2. /\ heap \in [Box -> Kind \cup {"free"}]
      /\ owned \subseteq Box /\ intact \subseteq Box /\ abandoned \subseteq Box
  BY DEF Ownership, BoxTypes
<1>3. \A c \in Box : heap'[c] = IF c \in received THEN "free" ELSE heap[c]
  BY <1>1
<1>4. BoxTypes'
  BY <1>1, <1>2 DEF BoxTypes
<1>5. \A b \in abandoned : b \notin received /\ b \in Box
  BY <1>2 DEF Ownership, Forgotten
<1>6. LeaksOnlyAbandoned'
  BY <1>1, <1>3, <1>5 DEF Ownership, LeaksOnlyAbandoned
<1>7. Forgotten'
  BY <1>1 DEF Ownership, Forgotten
<1>8. NoDangling'
  BY <1>1, <1>2, <1>3 DEF Ownership, NoDangling
<1> QED BY <1>4, <1>6, <1>7, <1>8 DEF Ownership

LEMMA NextKeepsOwnership ==
  ASSUME Ownership, CVNext
  PROVE  Ownership'
<1>1. "scalar" \in Kind /\ "list" \in Kind /\ "event" \in Kind /\ "address" \in Kind
      /\ Value \subseteq Kind
  BY DEF Kind, Value
<1>2. CASE ReceiveEnd
  BY <1>2, ReceiveEndKeepsOwnership
<1>3. ASSUME NEW b \in Box,
             ValueNew(b) \/ AddressNew(b) \/ PointInto(b) \/ ListEntry(b)
               \/ AsAddress(b) \/ EventPublish(b) \/ FreeBox(b) \/ ReceiveStart(b)
      PROVE  Ownership'
  <2>1. CASE ValueNew(b)
    BY <2>1, <1>1, PlainCallKeepsOwnership DEF ValueNew
  <2>2. CASE AddressNew(b)
    BY <2>2, <1>1, PlainCallKeepsOwnership DEF AddressNew
  <2>3. CASE PointInto(b)
    BY <2>3, HoldsAllocated, ViewKeepsOwnership DEF PointInto, Owns
  <2>4. CASE ListEntry(b)
    BY <2>4, ViewKeepsOwnership DEF ListEntry, Owns
  <2>5. CASE EventPublish(b)
    BY <2>5, <1>1, PlainCallKeepsOwnership DEF EventPublish, Owns
  <2>6. CASE FreeBox(b)
    BY <2>6, HoldsAllocated, PlainCallKeepsOwnership DEF FreeBox
  <2>7. CASE ReceiveStart(b)
    BY <2>7, ReceiveStartKeepsOwnership
  <2>8. CASE AsAddress(b)
    BY <2>8, CopiesKeepOwnership DEF AsAddress
  <2> QED BY <1>3, <2>1, <2>2, <2>3, <2>4, <2>5, <2>6, <2>7, <2>8
<1>4. ASSUME NEW b \in Box, NEW vs \in Arrays, Aggregate(vs, b) \/ ListNew(vs, b)
      PROVE  Ownership'
  <2>1. vs \subseteq owned
    BY HoldsAllocated
  <2>2. CASE Aggregate(vs, b)
    BY <2>2, <1>1, PlainCallKeepsOwnership DEF Aggregate
  <2>3. CASE ListNew(vs, b)
    BY <2>1, <2>3, <1>1, PlainCallKeepsOwnership DEF ListNew
  <2> QED BY <1>4, <2>2, <2>3
<1>5. ASSUME NEW a \in Box, NEW b \in Box,
             ValueOfAddress(a, b) \/ ValueOfSubnet(a, b) \/ AsList(a, b) \/ EventPart(a, b)
      PROVE  Ownership'
  <2>1. CASE ValueOfAddress(a, b)
    BY <2>1, <1>1, PlainCallKeepsOwnership DEF ValueOfAddress, Owns
  <2>2. CASE ValueOfSubnet(a, b)
    <3>1. PICK made \in {{b}, {}} : Heap({a}, made, "scalar") /\ Program({a}, made)
      BY <2>2 DEF ValueOfSubnet
    <3>2. {a} \subseteq owned /\ made \subseteq Box
      BY <2>2 DEF ValueOfSubnet, Owns
    <3> QED BY <3>1, <3>2, <1>1, PlainCallKeepsOwnership
  <2>3. CASE AsList(a, b)
    BY <2>3, AsListKeepsOwnership
  <2>4. CASE EventPart(a, b)
    BY <2>4, <1>1, PlainCallKeepsOwnership DEF EventPart
  <2> QED BY <1>5, <2>1, <2>2, <2>3, <2>4
<1>6. ASSUME NEW a \in Box, NEW b \in Box, NEW metadata \in SUBSET owned,
             EventNew(a, metadata, b)
      PROVE  Ownership'
  <2>1. PICK made \in {{b}, {}} :
          Heap({a} \cup metadata, made, "event") /\ Program({a} \cup metadata, made)
    BY <1>6 DEF EventNew
  <2>2. {a} \cup metadata \subseteq owned /\ made \subseteq Box
    BY <1>6 DEF EventNew, Owns
  <2> QED BY <2>1, <2>2, <1>1, PlainCallKeepsOwnership
<1>7. ASSUME NEW a \in Box, NEW b \in Box, NEW value \in owned, AsSubnet(value, a, b)
      PROVE  Ownership'
  <2>1. {a} \subseteq owned /\ {b} \subseteq Box /\ value \notin {a} /\ Copies(value, {a}, {b})
    BY <1>7 DEF AsSubnet, Owns
  <2> QED BY <2>1, CopiesKeepOwnership
<1> QED BY <1>2, <1>3, <1>4, <1>5, <1>6, <1>7 DEF CVNext

(***************************************************************************)
(* The inductive invariant holds in every reachable state, for every set of *)
(* boxes and arrays of every length.                                        *)
(***************************************************************************)
THEOREM OwnershipInvariance == CVSpec => []Ownership
<1>1. CVInit => Ownership
  BY DEF CVInit, Ownership, BoxTypes, LeaksOnlyAbandoned, Forgotten, NoDangling
<1>2. Ownership /\ [CVNext]_cvVars => Ownership'
  <2>1. CASE UNCHANGED cvVars
    BY <2>1 DEF cvVars, Ownership, BoxTypes, LeaksOnlyAbandoned, Forgotten, NoDangling
  <2> QED BY <2>1, NextKeepsOwnership
<1> QED BY <1>1, <1>2, PTL DEF CVSpec

(***************************************************************************)
(* A C program that frees exactly what the comments of the API tell it to   *)
(* free leaks nothing, whatever it calls and whichever calls fail, but the  *)
(* values it handed to zws_value_as_address, _subnet or _port in the belief *)
(* that these take them.                                                    *)
(***************************************************************************)
THEOREM LeaksOnlyMisled == CVSpec => []LeaksOnlyAbandoned
<1>1. Ownership => LeaksOnlyAbandoned
  BY DEF Ownership
<1> QED BY <1>1, OwnershipInvariance, PTL

(***************************************************************************)
(* Nor does it ever free twice or follow a pointer to what is gone.         *)
(***************************************************************************)
THEOREM DanglingFree == CVSpec => []NoDangling
<1>1. Ownership => NoDangling
  BY DEF Ownership
<1> QED BY <1>1, OwnershipInvariance, PTL

=============================================================================
