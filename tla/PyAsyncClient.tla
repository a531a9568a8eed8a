--------------------------- MODULE PyAsyncClient ---------------------------
(***************************************************************************)
(* The asyncio client for Python (src/src/python/asyncio.rs): Service.run   *)
(* spawns Service::serve on the tokio runtime and awaits it, the adapter    *)
(* runs the callbacks as coroutines of the Python event loop, and           *)
(* ZeekClient.publish spawns a send on the runtime and awaits that.         *)
(*                                                                         *)
(* PyO3 borrows the Python object for as long as a coroutine of one of its  *)
(* methods lives: publish (&mut self) exclusively, the callbacks of the     *)
(* base class (&self) shared.  A call that cannot borrow raises and changes *)
(* nothing; so does publish on a client without Outbox.                     *)
(*                                                                         *)
(* Publishers are the Python object (Obj), which is where the one Outbox    *)
(* is, and the sends spawned by publish, told apart by their event.         *)
(***************************************************************************)
EXTENDS Service

CONSTANTS
  Obj,           \* the Python object: ZeekClient.outbox
  UserTasks,     \* the asyncio tasks of the program
  CallbackTask,  \* the coroutine of a callback
  Implemented    \* the callbacks the derived class implements

Sends == 1 .. MaxPublish

PyTasks == UserTasks \cup {CallbackTask}

ASSUME PyAssumption ==
  /\ Publishers = {Obj} \cup Sends /\ Obj \notin Sends
  /\ ~CallbackSends
  /\ CallbackTask \notin UserTasks
  /\ Implemented \subseteq {"connected", "event", "error"}

VARIABLES
  run,       \* Service.run: "running", "returned", "raised" or "cancelled"
  loop,      \* the Python event loop: "running" or "closed"
  cb,        \* the callback's coroutine: "none", "method" of the derived
             \* class or "base" class
  call,      \* call[t]: the send that the publish of t awaits, 0 if none
  cancelled  \* history: was a publish cancelled?

pyVars == <<run, loop, cb, call, cancelled>>
allVars == <<vars, pyVars>>

PyInit ==
  /\ Init
  /\ holders = {Obj}
  /\ run = "running" /\ loop = "running" /\ cb = "none"
  /\ call = [t \in PyTasks |-> 0] /\ cancelled = FALSE

Publishing == \E t \in PyTasks : call[t] # 0

Borrowed == Publishing \/ cb = "base"

Active(t) == loop = "running" /\ (t = CallbackTask => cb = "method")

-----------------------------------------------------------------------------
(* ZeekClient.publish: the send is spawned with a clone of the Outbox, *)

(* Mutant of PublishCall: publish takes &self. *)
PublishCallShared(t) ==
  /\ Active(t) /\ call[t] = 0
  /\ Obj \in holders
  /\ npub < MaxPublish
  /\ npub' = npub + 1
  /\ holders' = holders \cup {npub'}
  /\ pending' = [pending EXCEPT ![npub'] = npub']
  /\ call' = [call EXCEPT ![t] = npub']
  /\ UNCHANGED <<taskVars, protocolVars, rx, accepted, streamVars, callbacks,
                 run, loop, cb, cancelled>>

PublishCall(t) ==
  /\ Active(t) /\ ~Borrowed
  /\ Obj \in holders
  /\ npub < MaxPublish
  /\ npub' = npub + 1
  /\ holders' = holders \cup {npub'}
  /\ pending' = [pending EXCEPT ![npub'] = npub']
  /\ call' = [call EXCEPT ![t] = npub']
  /\ UNCHANGED <<taskVars, protocolVars, rx, accepted, streamVars, callbacks,
                 run, loop, cb, cancelled>>

(* accepted or refused, and ends, which drops the clone; *)
SendStep(n) ==
  /\ SendAccepted(n) \/ SendRefused(n) \/ DropOutbox(n)
  /\ UNCHANGED pyVars

(* publish returns or raises when it has ended, *)
PublishReturns(t) ==
  /\ call[t] # 0 /\ call[t] \notin holders
  /\ call' = [call EXCEPT ![t] = 0]
  /\ UNCHANGED <<vars, run, loop, cb, cancelled>>

(* or it is cancelled, which leaves the send to itself. *)
CancelPublish(t) ==
  /\ call[t] # 0
  /\ call' = [call EXCEPT ![t] = 0]
  /\ cancelled' = TRUE
  /\ UNCHANGED <<vars, run, loop, cb>>

(* Mutant of Disconnect: disconnect takes &self. *)
DisconnectShared(t) ==
  /\ Active(t)
  /\ Obj \in holders
  /\ DropOutbox(Obj)
  /\ UNCHANGED pyVars

(* ZeekClient.disconnect *)
Disconnect(t) ==
  /\ Active(t) /\ ~Borrowed
  /\ Obj \in holders
  /\ DropOutbox(Obj)
  /\ UNCHANGED pyVars

-----------------------------------------------------------------------------
(* The adapter: call_async!                                                 *)

Method == callbacks[Len(callbacks)].cb

CallbackInvoked ==
  /\ pc = "callback" /\ cb = "none" /\ loop = "running"
  /\ \/ Method \in Implemented /\ cb' = "method"
     \/ Method \notin Implemented /\ ~Publishing /\ cb' = "base"
  /\ UNCHANGED <<vars, run, loop, call, cancelled>>

(* Mutant of CallbackPanics: a borrowed object is waited for. *)
CallbackWaits ==
  /\ pc = "callback" /\ cb = "none"
  /\ loop = "closed"
  /\ Return("Panicked")
  /\ UNCHANGED <<protocolVars, nread, wire, pyVars>>

(***************************************************************************)
(* The method cannot be called, because its object is borrowed by publish,  *)
(* or its coroutine cannot be scheduled: the task that runs serve panics.   *)
(***************************************************************************)
CallbackPanics ==
  /\ pc = "callback" /\ cb = "none"
  /\ loop = "closed" \/ (Method \notin Implemented /\ Publishing)
  /\ Return("Panicked")
  /\ UNCHANGED <<protocolVars, nread, wire, pyVars>>

(***************************************************************************)
(* The coroutine ends.  Its exception is discarded, be it of the derived    *)
(* class or the panic of the base class.                                    *)
(***************************************************************************)
CallbackEnds ==
  /\ cb # "none" /\ call[CallbackTask] = 0
  /\ CallbackReturns
  /\ cb' = "none"
  /\ UNCHANGED <<run, loop, call, cancelled>>

-----------------------------------------------------------------------------
(* Service.run                                                              *)

ServeStep ==
  /\ Poll
  /\ UNCHANGED pyVars

(* Mutant of RunReturns: run returns as soon as the client is disconnected. *)
RunReturnsEarly ==
  /\ run = "running" /\ (pc = "done" \/ Obj \notin holders)
  /\ run' = IF result = "Ok" THEN "returned" ELSE "raised"
  /\ UNCHANGED <<vars, loop, cb, call, cancelled>>

RunReturns ==
  /\ run = "running" /\ pc = "done"
  /\ run' = IF result = "Ok" THEN "returned" ELSE "raised"
  /\ UNCHANGED <<vars, loop, cb, call, cancelled>>

(* The task that runs serve goes on. *)
RunCancelled ==
  /\ run = "running"
  /\ run' = "cancelled"
  /\ UNCHANGED <<vars, loop, cb, call, cancelled>>

(* asyncio.run closes its loop when no task is left. *)
LoopCloses ==
  /\ run # "running" /\ loop = "running"
  /\ cb = "none" /\ ~Publishing
  /\ loop' = "closed"
  /\ UNCHANGED <<vars, run, cb, call, cancelled>>

ServerStep ==
  /\ Server
  /\ UNCHANGED pyVars

PyFinished ==
  /\ run # "running" /\ ~Publishing
  /\ Finished
  /\ UNCHANGED pyVars

PyNext ==
  \/ ServeStep \/ ServerStep
  \/ CallbackInvoked \/ CallbackPanics \/ CallbackEnds
  \/ RunReturns \/ RunCancelled \/ LoopCloses
  \/ \E n \in Sends : SendStep(n)
  \/ \E t \in PyTasks :
       PublishCall(t) \/ PublishReturns(t) \/ CancelPublish(t) \/ Disconnect(t)
  \/ PyFinished

(***************************************************************************)
(* As for Service; callbacks come back unless they await a publish, and the *)
(* loop runs whoever can go on.  Nothing is assumed of what the program     *)
(* publishes, cancels or disconnects.                                       *)
(***************************************************************************)
PyFairness ==
  /\ WF_allVars(ServeStep)
  /\ SF_allVars(RxBranch /\ UNCHANGED pyVars)
  /\ SF_allVars(StreamBranch /\ UNCHANGED pyVars)
  /\ WF_allVars(CallbackInvoked) /\ WF_allVars(CallbackPanics)
  /\ WF_allVars(CallbackEnds)
  /\ WF_allVars(RunReturns)
  /\ \A n \in Sends : SF_allVars(SendStep(n))
  /\ \A t \in PyTasks : WF_allVars(PublishReturns(t))

PySpec == PyInit /\ [][PyNext]_allVars /\ PyFairness

-----------------------------------------------------------------------------
(***************************************************************************)
(* Type correctness of the Python side and what ties it to the task: a      *)
(* callback is in progress only while serve awaits it, a publish only in a  *)
(* live coroutine, its send is one the client spawned, and run tells the    *)
(* result of a serve that is over.                                          *)
(***************************************************************************)
PyTypeOK ==
  /\ result \in TaskResults \cup {"Panicked"}
  /\ run \in {"running", "returned", "raised", "cancelled"}
  /\ loop \in {"running", "closed"} /\ (loop = "closed" => run # "running")
  /\ cb \in {"none", "method", "base"} /\ (cb # "none" => pc = "callback")
  /\ call \in [PyTasks -> 0 .. npub] /\ (call[CallbackTask] # 0 => cb = "method")
  /\ \A n \in Sends : pending[n] # 0 => pending[n] = n /\ n \in holders
  /\ run \in {"returned", "raised"} => pc = "done"

(***************************************************************************)
(* Events leave in the order in which publish was called, whichever tasks   *)
(* call it, as long as no publish is cancelled: the sends are spawned on    *)
(* the threads of the runtime, and only the exclusive borrow keeps one from *)
(* overtaking another.                                                      *)
(***************************************************************************)
PublishOrder ==
  ~cancelled => \A i, j \in DOMAIN accepted : i < j => accepted[i] < accepted[j]

(***************************************************************************)
(* README.md:50, "Run the client until it either explicitly disconnects, or *)
(* hits a fatal error": once a connected client is disconnected, by a       *)
(* callback or by another task, serve and run end, whatever sends were left *)
(* behind and whatever the server sends meanwhile.                          *)
(***************************************************************************)
DisconnectEndsRun ==
  Connected /\ Obj \notin holders ~> pc = "done" /\ run # "running"

(***************************************************************************)
(* A publish outside of the callbacks comes back once the client is         *)
(* connected.  It cannot wait for a callback that itself waits for room in  *)
(* the channel, for that one would hold the client; and a callback of the   *)
(* base class that finds the client held panics instead of waiting for it.  *)
(***************************************************************************)
PublishComesBack ==
  \A t \in UserTasks :
    call[t] # 0 /\ (Connected \/ pc = "done") ~> call[t] = 0

=============================================================================
