------------------------- MODULE PyAsyncClientProofs -------------------------
(***************************************************************************)
(* Theorems about PyAsyncClient, for every set of asyncio tasks, every      *)
(* derived class, channel size, server and bound: events leave in the order *)
(* in which publish was called unless one was cancelled, and serve keeps    *)
(* what ServiceProofs proves of it although its task may panic.             *)
(***************************************************************************)
EXTENDS PyAsyncClient, ServiceProofs

(* The adapter holds no Outbox: the client is the Python object. *)
NoOutboxInAdapter == Client \notin holders

(***************************************************************************)
(* The exclusive borrow: a send that is alive is the last one spawned and   *)
(* its publish waits for it, so nobody else can call publish; and while it  *)
(* waits for room, only older events were accepted.                         *)
(***************************************************************************)
OneSend ==
  ~cancelled =>
    \A n \in Sends \cap holders : n = npub /\ \E t \in PyTasks : call[t] = n

NoneOvertaken ==
  ~cancelled =>
    \A n \in Sends : pending[n] # 0 => \A i \in DOMAIN accepted : accepted[i] < n

PyInv ==
  Safe /\ NoOutboxInAdapter /\ PyTypeOK /\ OneSend /\ NoneOvertaken /\ PublishOrder

LEMMA InitPyInv == PyInit => PyInv
<1> SUFFICES ASSUME PyInit PROVE PyInv
  OBVIOUS
<1>1. Safe
  BY InitSafe DEF PyInit
<1>2. /\ holders = {Obj} /\ Obj # Client /\ Obj \notin Sends /\ Sends \subseteq Holders
      /\ accepted = <<>> /\ npub = 0 /\ pc = "connect" /\ result = "none"
      /\ pending = [h \in Holders |-> 0] /\ call = [t \in PyTasks |-> 0]
      /\ run = "running" /\ loop = "running" /\ cb = "none"
  BY PyAssumption, ServiceAssumption DEF PyInit, Init, Holders
<1>3. NoOutboxInAdapter /\ OneSend /\ NoneOvertaken /\ PublishOrder
  BY <1>2 DEF NoOutboxInAdapter, OneSend, NoneOvertaken, PublishOrder
<1>4. PyTypeOK
  BY <1>2 DEF PyTypeOK, TaskResults, PyTasks
<1> QED BY <1>1, <1>3, <1>4 DEF PyInv

LEMMA TheHolders ==
  /\ Obj \in Holders /\ Obj \in Publishers /\ Client \in Holders /\ Obj # Client
  /\ Sends \subseteq Publishers /\ Sends \subseteq Holders /\ Client \notin Sends
  /\ Obj \notin Sends
BY PyAssumption, ServiceAssumption DEF Holders

(***************************************************************************)
(* Each step of the asyncio client is one of serve, of its server or of an  *)
(* Outbox; a publish clones the Outbox and starts a send at once, and a     *)
(* panic interrupts the task.                                               *)
(***************************************************************************)
LEMMA PyStepIsStep ==
  ASSUME PyInv, [PyNext]_allVars
  PROVE  Step
<1> USE DEF Step
<1>1. CASE ServeStep \/ ServerStep \/ CallbackEnds
  BY <1>1 DEF ServeStep, ServerStep, CallbackEnds, Task, Next
<1>2. CASE CallbackPanics
  <2>1. pending[Client] = 0
    BY TheHolders DEF PyInv, NoOutboxInAdapter, Safe, Types, Awaited
  <2> QED BY <1>2, <2>1 DEF CallbackPanics, Return, Interrupted
<1>3. CASE \E n \in Sends : SendStep(n)
  BY <1>3, TheHolders DEF SendStep, Publish, Next
<1>4. ASSUME NEW t \in PyTasks, PublishCall(t) PROVE Spawn
  <2>1. npub + 1 \in Sends
    BY <1>4, ServiceAssumption DEF PublishCall, PyInv, Safe, Types, ChannelType, Sends
  <2>2. Spawned(Obj, npub + 1)
    BY <1>4, TheHolders DEF PublishCall, Spawned, Running
  <2> QED BY <2>1, <2>2, TheHolders DEF Spawn
<1>5. ASSUME NEW t \in PyTasks, Disconnect(t) PROVE Next
  BY <1>5, TheHolders DEF Disconnect, Publish, Next
<1>6. CASE UNCHANGED vars
  BY <1>6
<1>7. CASE \/ CallbackInvoked \/ RunReturns \/ RunCancelled \/ LoopCloses \/ PyFinished
           \/ \E t \in PyTasks : PublishReturns(t) \/ CancelPublish(t)
           \/ UNCHANGED allVars
  BY <1>6, <1>7 DEF CallbackInvoked, RunReturns, RunCancelled, LoopCloses, PyFinished, Finished,
    PublishReturns, CancelPublish, allVars
<1> QED BY <1>1, <1>2, <1>3, <1>4, <1>5, <1>7 DEF PyNext

(***************************************************************************)
(* What a step does to the sends and to what was accepted of them: nothing, *)
(* or one is spawned, takes a step of its own, or loses its publish; or the *)
(* Python object gives up its Outbox.                                       *)
(***************************************************************************)
LEMMA SendsFootprint ==
  ASSUME PyInv, [PyNext]_allVars
  PROVE  \/ UNCHANGED <<holders, pending, npub, accepted, call, cancelled>>
         \/ \E n \in Sends : SendStep(n)
         \/ \E t \in PyTasks : PublishCall(t) \/ PublishReturns(t) \/ CancelPublish(t) \/ Disconnect(t)
<1>1. holders \ {Client} = holders
  BY DEF PyInv, NoOutboxInAdapter
<1>2. CASE ServeStep
  BY <1>1, <1>2, PollFootprint DEF ServeStep, pyVars, channelVars, Leave, RxEvent
<1>3. CASE ServerStep \/ CallbackInvoked \/ CallbackPanics \/ CallbackEnds
  BY <1>1, <1>3 DEF ServerStep, Server, ServerSend, ServerClose, Break, CallbackInvoked, CallbackPanics,
    Return, CallbackEnds, CallbackReturns, pyVars, vars, channelVars
<1>4. CASE RunReturns \/ RunCancelled \/ LoopCloses \/ PyFinished \/ UNCHANGED allVars
  BY <1>4 DEF RunReturns, RunCancelled, LoopCloses, PyFinished, Finished, allVars, pyVars, vars, channelVars
<1> QED BY <1>2, <1>3, <1>4 DEF PyNext

(* The types the following lemmas need, taken out of the invariant. *)
LEMMA SendTypes ==
  ASSUME PyInv
  PROVE  /\ npub \in Nat /\ npub \in 0 .. MaxPublish
         /\ accepted \in Seq(Nat) /\ DOMAIN accepted = 1 .. Len(accepted) /\ Len(accepted) \in Nat
         /\ \A i \in DOMAIN accepted : accepted[i] \in 1 .. npub
         /\ pending \in [Holders -> 0 .. npub]
         /\ call \in [PyTasks -> 0 .. npub]
         /\ \A n \in Sends : n \in Nat \ {0} /\ (pending[n] # 0 => pending[n] = n /\ n \in holders)
<1>1. /\ npub \in 0 .. MaxPublish /\ accepted \in Seq(1 .. npub) /\ pending \in [Holders -> 0 .. npub]
  BY DEF PyInv, Safe, Types, ChannelType
<1>2. npub \in Nat
  BY <1>1, ServiceAssumption
<1>3. /\ accepted \in Seq(Nat) /\ DOMAIN accepted = 1 .. Len(accepted) /\ Len(accepted) \in Nat
      /\ \A i \in DOMAIN accepted : accepted[i] \in 1 .. npub
  BY <1>1, <1>2
<1>4. \A n \in Sends : n \in Nat \ {0}
  BY ServiceAssumption DEF Sends
<1> QED BY <1>1, <1>2, <1>3, <1>4 DEF PyInv, PyTypeOK

(* Appending n to what was accepted. *)
LEMMA AcceptedNext ==
  ASSUME PyInv, NEW n \in Sends, SendAccepted(n)
  PROVE  /\ pending[n] = n /\ n \in holders
         /\ pending' = [pending EXCEPT ![n] = 0] /\ UNCHANGED <<holders, npub>>
         /\ DOMAIN accepted' = 1 .. Len(accepted) + 1
         /\ \A i \in DOMAIN accepted : accepted'[i] = accepted[i]
         /\ accepted'[Len(accepted) + 1] = n
<1>1. pending[n] = n /\ n \in holders
  BY SendTypes DEF SendAccepted
<1>2. /\ accepted' = Append(accepted, n) /\ pending' = [pending EXCEPT ![n] = 0]
      /\ UNCHANGED <<holders, npub>>
  BY <1>1 DEF SendAccepted
<1>3. accepted \in Seq(Nat) /\ n \in Nat
  BY SendTypes
<1> QED BY <1>1, <1>2, <1>3, AppendProperties

LEMMA NextOneSend ==
  ASSUME PyInv, [PyNext]_allVars
  PROVE  NoOutboxInAdapter' /\ OneSend'
<1> USE DEF PyInv
<1>1. CASE UNCHANGED <<holders, pending, npub, accepted, call, cancelled>>
  BY <1>1 DEF NoOutboxInAdapter, OneSend
<1>2. ASSUME NEW n \in Sends, SendStep(n) PROVE NoOutboxInAdapter' /\ OneSend'
  BY <1>2 DEF SendStep, SendAccepted, SendRefused, DropOutbox, pyVars, NoOutboxInAdapter, OneSend
<1>3. ASSUME NEW t \in PyTasks, PublishCall(t) PROVE NoOutboxInAdapter' /\ OneSend'
  <2>1. /\ npub' = npub + 1 /\ holders' = holders \cup {npub + 1} /\ cancelled' = cancelled
        /\ call' = [call EXCEPT ![t] = npub + 1] /\ npub < MaxPublish
        /\ \A u \in PyTasks : call[u] = 0
    BY <1>3 DEF PublishCall, Borrowed, Publishing
  <2>2. npub + 1 \in Sends /\ npub + 1 # Client
    BY <2>1, SendTypes, ServiceAssumption, TheHolders DEF Sends
  <2>3. ~cancelled => Sends \cap holders = {}
    BY <2>1, SendTypes DEF OneSend
  <2>4. call'[t] = npub + 1
    BY <2>1, SendTypes
  <2> QED BY <2>1, <2>2, <2>3, <2>4 DEF NoOutboxInAdapter, OneSend
<1>4. ASSUME NEW t \in PyTasks, PublishReturns(t) PROVE NoOutboxInAdapter' /\ OneSend'
  <2>1. /\ call[t] \notin holders /\ call' = [call EXCEPT ![t] = 0]
        /\ UNCHANGED <<holders, npub, cancelled>>
    BY <1>4 DEF PublishReturns, vars, channelVars
  <2>2. \A n \in holders, u \in PyTasks : call[u] = n => call'[u] = n
    BY <2>1, SendTypes
  <2> QED BY <2>1, <2>2 DEF NoOutboxInAdapter, OneSend
<1>5. ASSUME NEW t \in PyTasks, CancelPublish(t) PROVE NoOutboxInAdapter' /\ OneSend'
  BY <1>5 DEF CancelPublish, vars, channelVars, NoOutboxInAdapter, OneSend
<1>6. ASSUME NEW t \in PyTasks, Disconnect(t) PROVE NoOutboxInAdapter' /\ OneSend'
  BY <1>6, TheHolders DEF Disconnect, DropOutbox, pyVars, NoOutboxInAdapter, OneSend
<1> QED BY <1>1, <1>2, <1>3, <1>4, <1>5, <1>6, SendsFootprint

LEMMA NextNoneOvertaken ==
  ASSUME PyInv, [PyNext]_allVars
  PROVE  NoneOvertaken' /\ PublishOrder'
<1> USE DEF PyInv
<1>1. CASE UNCHANGED <<pending, accepted, cancelled>>
  BY <1>1 DEF NoneOvertaken, PublishOrder
<1>2. ASSUME NEW n \in Sends, SendAccepted(n), cancelled' = cancelled, ~cancelled
      PROVE  NoneOvertaken' /\ PublishOrder'
  <2>1. \A i \in DOMAIN accepted : accepted[i] < n
    BY <1>2, AcceptedNext, SendTypes DEF NoneOvertaken
  <2>2. \A m \in Sends : pending'[m] = 0
    <3> TAKE m \in Sends
    <3>1. pending[m] # 0 => m = npub
      BY <1>2, SendTypes DEF OneSend
    <3>2. n = npub
      BY <1>2, AcceptedNext DEF OneSend
    <3>3. m \in Holders /\ n \in Holders
      BY TheHolders
    <3> QED BY <1>2, <3>1, <3>2, <3>3, AcceptedNext, SendTypes
  <2>3. PublishOrder'
    <3> SUFFICES ASSUME NEW i \in DOMAIN accepted', NEW j \in DOMAIN accepted', i < j
                 PROVE  accepted'[i] < accepted'[j]
      BY DEF PublishOrder
    <3>1. i \in DOMAIN accepted
      BY <1>2, AcceptedNext, SendTypes
    <3>2. CASE j \in DOMAIN accepted
      BY <1>2, <3>1, <3>2, AcceptedNext DEF PublishOrder
    <3>3. CASE j = Len(accepted) + 1
      BY <1>2, <2>1, <3>1, <3>3, AcceptedNext
    <3> QED BY <1>2, <3>2, <3>3, AcceptedNext, SendTypes
  <2> QED BY <2>2, <2>3 DEF NoneOvertaken
<1>3. ASSUME NEW n \in Sends, SendStep(n) PROVE NoneOvertaken' /\ PublishOrder'
  <2>1. cancelled' = cancelled
    BY <1>3 DEF SendStep, pyVars
  <2>2. CASE SendAccepted(n)
    BY <1>2, <2>1, <2>2 DEF NoneOvertaken, PublishOrder
  <2>3. CASE SendRefused(n)
    <3>1. pending' = [pending EXCEPT ![n] = 0] /\ accepted' = accepted
      BY <2>3 DEF SendRefused
    <3>2. \A m \in Sends : pending'[m] # 0 => pending[m] # 0
      BY <3>1, SendTypes, TheHolders
    <3> QED BY <2>1, <3>1, <3>2 DEF NoneOvertaken, PublishOrder
  <2>4. CASE DropOutbox(n)
    BY <1>1, <2>1, <2>4 DEF DropOutbox
  <2> QED BY <1>3, <2>2, <2>3, <2>4 DEF SendStep
<1>4. ASSUME NEW t \in PyTasks, PublishCall(t) PROVE NoneOvertaken' /\ PublishOrder'
  <2>1. /\ pending' = [pending EXCEPT ![npub + 1] = npub + 1] /\ accepted' = accepted
        /\ cancelled' = cancelled /\ \A u \in PyTasks : call[u] = 0
    BY <1>4 DEF PublishCall, Borrowed, Publishing
  <2>2. ~cancelled => \A m \in Sends : pending[m] = 0
    BY <2>1, SendTypes DEF OneSend
  <2>3. ~cancelled => \A m \in Sends : pending'[m] # 0 => m = npub + 1
    BY <2>1, <2>2, SendTypes, TheHolders
  <2>4. \A i \in DOMAIN accepted : accepted[i] < npub + 1
    BY SendTypes
  <2> QED BY <2>1, <2>3, <2>4 DEF NoneOvertaken, PublishOrder
<1>5. ASSUME NEW t \in PyTasks, PublishReturns(t) \/ CancelPublish(t) \/ Disconnect(t)
      PROVE  NoneOvertaken' /\ PublishOrder'
  <2>1. UNCHANGED <<pending, accepted>> /\ (cancelled' = cancelled \/ cancelled')
    BY <1>5 DEF PublishReturns, CancelPublish, Disconnect, DropOutbox, vars, channelVars, pyVars
  <2> QED BY <1>1, <2>1 DEF NoneOvertaken, PublishOrder
<1> QED BY <1>1, <1>3, <1>4, <1>5, SendsFootprint

-----------------------------------------------------------------------------
(* The types of the Python side, one part of PyTypeOK at a time. *)

(* The task: its result, its end, and the callback it awaits. *)
LEMMA NextTask ==
  ASSUME PyInv, [PyNext]_allVars
  PROVE  /\ result' \in TaskResults \cup {"Panicked"}
         /\ pc = "done" => pc' = "done" /\ UNCHANGED <<callbacks, wire, accepted>>
         /\ cb' # "none" => pc' = "callback"
<1> USE DEF PyInv, PyTypeOK
<1>1. CASE ServeStep \/ ServerStep
  <2>1. result' \in TaskResults \cup {"Panicked"}
    BY <1>1, NextResult DEF ServeStep, ServerStep, Task, Next
  <2>2. ServeStep => pc \notin {"callback", "done"} /\ cb' = cb
    BY PollFootprint DEF ServeStep, pyVars
  <2>3. ServerStep => pc # "done" /\ pc' = pc /\ cb' = cb
    BY DEF ServerStep, Server, ServerSend, ServerClose, Break, taskVars, pyVars
  <2>4. pc # "done" /\ (cb' # "none" => pc' = "callback")
    BY <1>1, <2>2, <2>3
  <2> QED BY <2>1, <2>4
<1>2. CASE CallbackPanics \/ CallbackEnds
  BY <1>2 DEF CallbackPanics, Return, CallbackEnds, CallbackReturns, Goto, pyVars
<1>3. CASE \E n \in Sends : SendStep(n)
  BY <1>3 DEF SendStep, SendAccepted, SendRefused, DropOutbox, taskVars, streamVars, pyVars
<1>4. CASE \E t \in PyTasks : PublishCall(t) \/ PublishReturns(t) \/ CancelPublish(t) \/ Disconnect(t)
  BY <1>4 DEF PublishCall, PublishReturns, CancelPublish, Disconnect, DropOutbox, taskVars, streamVars,
    channelVars, pyVars, vars
<1>5. CASE \/ CallbackInvoked \/ RunReturns \/ RunCancelled \/ LoopCloses \/ PyFinished
           \/ UNCHANGED allVars
  BY <1>5 DEF CallbackInvoked, RunReturns, RunCancelled, LoopCloses, PyFinished, Finished,
    taskVars, streamVars, channelVars, pyVars, vars, allVars
<1> QED BY <1>1, <1>2, <1>3, <1>4, <1>5 DEF PyNext

(* Service.run and the event loop. *)
LEMMA NextRun ==
  ASSUME PyInv, [PyNext]_allVars
  PROVE  /\ run' \in {"running", "returned", "raised", "cancelled"}
         /\ loop' \in {"running", "closed"} /\ (loop' = "closed" => run' # "running")
         /\ run' \in {"returned", "raised"} => pc' = "done"
<1> USE DEF PyInv, PyTypeOK
<1>1. pc = "done" => pc' = "done"
  BY NextTask
<1>2. CASE UNCHANGED <<run, loop>>
  BY <1>1, <1>2
<1>3. CASE RunReturns
  BY <1>1, <1>3 DEF RunReturns
<1>4. CASE RunCancelled \/ LoopCloses
  BY <1>1, <1>4 DEF RunCancelled, LoopCloses
<1> QED BY <1>2, <1>3, <1>4 DEF PyNext, ServeStep, ServerStep, CallbackInvoked, CallbackPanics,
      CallbackEnds, SendStep, PublishCall, PublishReturns, CancelPublish, Disconnect, PyFinished,
      pyVars, allVars

(* The calls of publish and the callback's coroutine. *)
LEMMA NextCalls ==
  ASSUME PyInv, [PyNext]_allVars
  PROVE  /\ cb' \in {"none", "method", "base"}
         /\ call' \in [PyTasks -> 0 .. npub'] /\ (call'[CallbackTask] # 0 => cb' = "method")
<1> USE DEF PyInv, PyTypeOK
<1>1. npub \in Nat /\ call \in [PyTasks -> 0 .. npub] /\ CallbackTask \in PyTasks
  BY SendTypes DEF PyTasks
<1>2. CASE UNCHANGED <<call, npub>> /\ cb' = cb
  BY <1>2
<1>3. npub' = npub \/ \E t \in PyTasks : PublishCall(t)
  BY SendsFootprint DEF SendStep, SendAccepted, SendRefused, DropOutbox, PublishReturns, CancelPublish,
    Disconnect, vars, channelVars
<1>4. CASE CallbackInvoked \/ CallbackEnds
  <2>1. npub' = npub /\ call' = call
    BY <1>4 DEF CallbackInvoked, CallbackEnds, CallbackReturns, vars, channelVars
  <2> QED BY <1>1, <1>4, <2>1 DEF CallbackInvoked, CallbackEnds, Publishing
<1>5. ASSUME NEW t \in PyTasks, PublishCall(t)
      PROVE  /\ cb' = cb /\ call' \in [PyTasks -> 0 .. npub']
             /\ call'[CallbackTask] # 0 => cb' = "method"
  <2>1. /\ npub' = npub + 1 /\ call' = [call EXCEPT ![t] = npub + 1] /\ cb' = cb
        /\ t = CallbackTask => cb = "method"
    BY <1>5 DEF PublishCall, Active
  <2>2. call' \in [PyTasks -> 0 .. npub']
    BY <1>1, <2>1
  <2>3. call'[CallbackTask] # 0 => t = CallbackTask \/ call[CallbackTask] # 0
    BY <1>1, <2>1
  <2> QED BY <2>1, <2>2, <2>3
<1>6. ASSUME NEW t \in PyTasks, PublishReturns(t) \/ CancelPublish(t)
      PROVE  /\ cb' = cb /\ call' \in [PyTasks -> 0 .. npub']
             /\ call'[CallbackTask] # 0 => cb' = "method"
  <2>1. call' = [call EXCEPT ![t] = 0] /\ cb' = cb /\ npub' = npub
    BY <1>6 DEF PublishReturns, CancelPublish, vars, channelVars
  <2>2. call' \in [PyTasks -> 0 .. npub']
    BY <1>1, <2>1
  <2>3. call'[CallbackTask] # 0 => call[CallbackTask] # 0
    BY <1>1, <2>1
  <2> QED BY <2>1, <2>2, <2>3
<1>7. \/ UNCHANGED <<call, npub>> /\ cb' = cb
      \/ CallbackInvoked \/ CallbackEnds
      \/ \E t \in PyTasks : PublishCall(t) \/ PublishReturns(t) \/ CancelPublish(t)
  BY <1>3 DEF PyNext, ServeStep, ServerStep, CallbackPanics, SendStep, RunReturns, RunCancelled,
    LoopCloses, Disconnect, PyFinished, PublishCall, pyVars, allVars
<1> QED BY <1>2, <1>4, <1>5, <1>6, <1>7

(* A send that waits for room waits with its own event. *)
LEMMA NextPending ==
  ASSUME PyInv, [PyNext]_allVars, Safe'
  PROVE  \A n \in Sends : pending'[n] # 0 => pending'[n] = n /\ n \in holders'
<1> SUFFICES ASSUME NEW n \in Sends, pending'[n] # 0 PROVE pending'[n] = n
  BY TheHolders DEF Safe, Types, Awaited
<1>1. pending[n] # 0 => pending[n] = n
  BY SendTypes
<1>2. CASE pending' = pending
  BY <1>1, <1>2
<1>3. CASE \E m \in Sends : SendStep(m)
  BY <1>1, <1>3, SendTypes, TheHolders DEF SendStep, SendAccepted, SendRefused, DropOutbox
<1>4. CASE \E t \in PyTasks : PublishCall(t)
  BY <1>1, <1>4, SendTypes, TheHolders DEF PublishCall
<1>5. CASE \E t \in PyTasks : PublishReturns(t) \/ CancelPublish(t) \/ Disconnect(t)
  BY <1>2, <1>5 DEF PublishReturns, CancelPublish, Disconnect, DropOutbox, vars, channelVars
<1> QED BY <1>2, <1>3, <1>4, <1>5, SendsFootprint

LEMMA NextPyInv == PyInv /\ [PyNext]_allVars => PyInv'
<1> SUFFICES ASSUME PyInv, [PyNext]_allVars PROVE PyInv'
  OBVIOUS
<1>1. Safe'
  BY PyStepIsStep, StepSafe DEF PyInv
<1>2. PyTypeOK'
  BY <1>1, NextTask, NextRun, NextCalls, NextPending DEF PyTypeOK
<1> QED BY <1>1, <1>2, NextOneSend, NextNoneOvertaken DEF PyInv

(***************************************************************************)
(* The inductive invariant holds in every reachable state of the asyncio    *)
(* client.                                                                  *)
(***************************************************************************)
THEOREM PyInvariance == PySpec => []PyInv
BY InitPyInv, NextPyInv, PTL DEF PySpec

(***************************************************************************)
(* Types: in particular a callback is in progress only while serve awaits   *)
(* it, and run tells the result only of a serve that is over.               *)
(***************************************************************************)
THEOREM PyTypeCorrect == PySpec => []PyTypeOK
<1>1. PyInv => PyTypeOK
  BY DEF PyInv
<1> QED BY <1>1, PyInvariance, PTL

(***************************************************************************)
(* As long as no publish is cancelled, events leave in the order in which   *)
(* publish was called, by however many tasks.                               *)
(***************************************************************************)
THEOREM CallOrder == PySpec => []PublishOrder
<1>1. PyInv => PublishOrder
  BY DEF PyInv
<1> QED BY <1>1, PyInvariance, PTL

(***************************************************************************)
(* What ServiceProofs proves of serve holds of it in the asyncio client,    *)
(* though its task may panic in a callback and its sends are spawned.       *)
(***************************************************************************)
THEOREM PyServeSafe ==
  PySpec => [](/\ OutboundConserved /\ GracefulClose /\ HandshakeFirst
               /\ OkMeansClosed /\ CallbacksFollowFrames)
<1>1. PyInv => /\ OutboundConserved /\ GracefulClose /\ HandshakeFirst
               /\ OkMeansClosed /\ CallbacksFollowFrames
  BY DEF PyInv, Safe
<1> QED BY <1>1, PyInvariance, PTL

(***************************************************************************)
(* The asyncio client takes the steps of a Session too: spawning a send     *)
(* invites one more user, and a panic is one of the ways a session ends.    *)
(***************************************************************************)
THEOREM PySessionSteps == PySpec => S!Init /\ [][S!Next]_(S!vars)
<1>1. PyInit => S!Init
  BY InitSimulates DEF PyInit
<1>2. PyInv /\ PyInv' /\ [PyNext]_allVars => [S!Next]_(S!vars)
  BY PyStepIsStep, StepSimulates DEF PyInv
<1> QED BY <1>1, <1>2, PyInvariance, PTL DEF PySpec

RunOver == run = "returned" \/ run = "raised"

(***************************************************************************)
(* Once run returned or raised, no callback is called, nothing is sent and  *)
(* no event is accepted any more; run that was cancelled promises nothing.  *)
(***************************************************************************)
QuietOnceReturned ==
  [][RunOver => UNCHANGED <<callbacks, wire, accepted>>]_allVars

THEOREM QuietAfterRun == PySpec => QuietOnceReturned
<1>1. PyInv /\ [PyNext]_allVars =>
        [RunOver => UNCHANGED <<callbacks, wire, accepted>>]_allVars
  BY NextTask DEF PyInv, PyTypeOK, RunOver
<1> QED BY <1>1, PyInvariance, PTL DEF PySpec, QuietOnceReturned

=============================================================================
