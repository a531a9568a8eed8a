------------------------------ MODULE CClient ------------------------------
(***************************************************************************)
(* The C API (bindings/c/zeek-websocket-c/src/lib.rs): one thread of C code *)
(* calls zws_client_publish, zws_client_shutdown and zws_client_free while  *)
(* a tokio runtime runs Service::serve in a spawned task, calls back into C *)
(* and is stopped together with the client.                                 *)
(*                                                                         *)
(* The one Outbox is held by the C client (Publishers = {Api}), none by the *)
(* callbacks.  Stopping a runtime cancels a task where it awaits; the C     *)
(* callbacks do not await, so a task inside one runs on until they return.  *)
(***************************************************************************)
EXTENDS Service

CONSTANT Api

ASSUME ApiAssumption == Publishers = {Api} /\ ~CallbackSends

VARIABLES
  api,       \* what the C thread is doing
  answer,    \* what the last zws_client_publish returned, "none" before
  told,      \* error_callback was invoked for the error serve returned
  timedOut   \* zws_client_shutdown gave up waiting

apiVars == <<api, answer, told, timedOut>>
cVars == <<vars, apiVars>>

CInit ==
  /\ Init
  /\ holders = {Api}
  /\ api = "idle" /\ answer = "none" /\ told = FALSE /\ timedOut = FALSE

(* Where the task may be dropped: everywhere it awaits the network. *)
AwaitPoints == {"connect", "subscribe", "await_ack", "select", "flush", "closing"}

Failed == result \in {"Transport", "ProtocolError"}

(* Mutant of TaskOver: the task is over as soon as serve is. *)
ServeOver == pc = "done"

TaskOver == pc = "done" /\ (Failed => told)

ServeStep ==
  /\ Task
  /\ UNCHANGED apiVars

(* The spawned task passes the error of serve on to error_callback. *)
ReportError ==
  /\ pc = "done" /\ Failed /\ ~told
  /\ told' = TRUE
  /\ UNCHANGED <<vars, api, answer, timedOut>>

(* Mutant of Cancel: stopping waits for the task to finish by itself. *)
CancelLate ==
  /\ api = "gone"
  /\ pc \in AwaitPoints
  /\ Return("Cancelled")
  /\ UNCHANGED <<protocolVars, nread, wire, apiVars>>

Cancel ==
  /\ api \in {"shutdown", "free", "gone"}
  /\ pc \in AwaitPoints
  /\ Return("Cancelled")
  /\ UNCHANGED <<protocolVars, nread, wire, apiVars>>

PublishCall ==
  /\ api = "idle"
  /\ SendStart(Api)
  /\ api' = "publish"
  /\ UNCHANGED <<answer, told, timedOut>>

PublishReturns ==
  /\ api = "publish"
  /\ api' = "idle"
  /\ \/ SendAccepted(Api) /\ answer' = "true"
     \/ SendRefused(Api) /\ answer' = "false"
  /\ UNCHANGED <<told, timedOut>>

ShutdownCall ==
  /\ api = "idle"
  /\ api' = "shutdown"
  /\ UNCHANGED <<vars, answer, told, timedOut>>

(* Mutant of FreeCall: the Outbox is dropped before the runtime. *)
FreeCallOutboxFirst ==
  /\ api = "idle"
  /\ api' = "free"
  /\ holders' = {}
  /\ UNCHANGED <<taskVars, protocolVars, rx, pending, npub, accepted,
                 streamVars, callbacks, answer, told, timedOut>>

FreeCall ==
  /\ api = "idle"
  /\ api' = "free"
  /\ UNCHANGED <<vars, answer, told, timedOut>>

(* The remaining fields of the client, the Outbox among them, are dropped. *)
DropClient ==
  /\ api' = "gone"
  /\ holders' = {}
  /\ UNCHANGED <<taskVars, protocolVars, rx, pending, npub, accepted,
                 streamVars, callbacks, answer, told>>

(* Mutant of StopReturns: the runtime is left to stop in the background. *)
StopReturnsAtOnce ==
  /\ api \in {"shutdown", "free"}
  /\ DropClient
  /\ timedOut' = timedOut

(* Both wait until the runtime's threads have stopped, *)
StopReturns ==
  /\ api \in {"shutdown", "free"}
  /\ TaskOver
  /\ DropClient
  /\ timedOut' = timedOut

(* zws_client_shutdown no longer than its timeout. *)
ShutdownTimesOut ==
  /\ api = "shutdown"
  /\ ~TaskOver
  /\ DropClient
  /\ timedOut' = TRUE

NetworkStep == Server /\ UNCHANGED apiVars

CFinished == api = "gone" /\ TaskOver /\ UNCHANGED cVars

CNext ==
  \/ ServeStep \/ ReportError \/ Cancel
  \/ PublishCall \/ PublishReturns \/ ShutdownCall \/ FreeCall
  \/ StopReturns \/ ShutdownTimesOut
  \/ NetworkStep \/ CFinished

CSpec == CInit /\ [][CNext]_cVars

(***************************************************************************)
(* The runtime polls the task and, when stopped, drops it where it awaits;  *)
(* the calls return once they can.  C code need not call anything.          *)
(***************************************************************************)
CFairness ==
  /\ WF_cVars(ServeStep)
  /\ SF_cVars(RxBranch /\ UNCHANGED apiVars)
  /\ SF_cVars(StreamBranch /\ UNCHANGED apiVars)
  /\ SF_cVars(Cancel)
  /\ WF_cVars(ReportError)
  /\ SF_cVars(PublishReturns)
  /\ WF_cVars(StopReturns)

CFairSpec == CSpec /\ CFairness

-----------------------------------------------------------------------------
(***************************************************************************)
(* Once zws_client_free returned, or zws_client_shutdown without running    *)
(* into its timeout, C code is not called back any more, and nothing more   *)
(* is sent.                                                                 *)
(***************************************************************************)
QuietWhenGone ==
  [][api = "gone" /\ ~timedOut => UNCHANGED <<callbacks, told, wire>>]_cVars

(***************************************************************************)
(* The Outbox outlives the runtime, so the service of a C client never sees *)
(* it dropped: the connection is cut, never closed with a Close frame,      *)
(* except after a shutdown that timed out.                                  *)
(***************************************************************************)
NoGoodbye == SaidGoodbye => timedOut

(***************************************************************************)
(* zws_client_free and zws_client_shutdown return, whatever the server      *)
(* does, as long as the callbacks do.                                       *)
(***************************************************************************)
StopTerminates == api \in {"shutdown", "free"} ~> api = "gone"

(***************************************************************************)
(* When zws_client_free, or zws_client_shutdown in time, returns, either it *)
(* cut serve short or error_callback was told why serve had ended: the      *)
(* error it returned, even if only after the call, or the Close frame, if   *)
(* the server never ends its stream without one.                            *)
(***************************************************************************)
ExplainedBeforeStop ==
  api = "gone" /\ ~timedOut /\ "bare" \notin EndModes =>
    \/ result = "Cancelled"
    \/ told \/ \E i \in DOMAIN callbacks : callbacks[i].cb = "error"

(***************************************************************************)
(* A publish that was refused is explained to error_callback in the end:    *)
(* by the error serve returned, or by the Close frame it reported.          *)
(***************************************************************************)
RefusalExplained ==
  answer = "false" ~> \/ told
                      \/ \E i \in DOMAIN callbacks : callbacks[i].cb = "error"

=============================================================================
