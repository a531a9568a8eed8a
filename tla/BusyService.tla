---------------------------- MODULE BusyService ----------------------------
(***************************************************************************)
(* Service under a load that never ends.  The histories of Service are      *)
(* bounded, so that neither the server nor the publishers can keep serve    *)
(* busy for long; here both can, with traffic of which nothing is recorded: *)
(* pings whenever serve looks at the stream, and events of further holders  *)
(* of the Outbox whenever it looks at the channel.                          *)
(***************************************************************************)
EXTENDS Service

VARIABLE beat   \* changes with every ping and event that is not recorded

busyVars == <<vars, beat>>

BusyInit == Init /\ beat = FALSE

Recorded(A) == A /\ beat' = FALSE

Unrecorded == beat' = ~beat /\ UNCHANGED vars

(* tokio::select!, branch stream.next(): a ping is all there is to read. *)
PingTraffic ==
  /\ pc = "select" /\ link = "up" /\ nread = Len(served)
  /\ Unrecorded

(* tokio::select!, branch rx.recv(): another event is received and sent. *)
EventTraffic ==
  /\ pc = "select" /\ rx = <<>> /\ holders \cap Publishers # {}
  /\ ~PeerClosed
  /\ Unrecorded

BusyTask == Recorded(Task) \/ PingTraffic \/ EventTraffic

BusyNext == BusyTask \/ Recorded(Publish \/ Server \/ Finished)

(* Mutant of Fairness: biased, the branches are polled in their order. *)
FairnessBiased ==
  /\ WF_busyVars(BusyTask)
  /\ SF_busyVars(Recorded(RxBranch) \/ EventTraffic)
  /\ \A h \in Holders : SF_busyVars(Recorded(SendAccepted(h))) /\ WF_busyVars(Recorded(SendRefused(h)))

(***************************************************************************)
(* The runtime keeps polling the task; tokio::select! picks at random among *)
(* the ready branches, so neither is passed over forever; the channel       *)
(* serves waiting senders in order.  WF(BusyTask) takes it that stream.send *)
(* completes or fails, that is, that the server or the network reads on.    *)
(* What the server sends, and when, and what publishers do is left open.    *)
(***************************************************************************)
Fairness ==
  /\ WF_busyVars(BusyTask)
  /\ SF_busyVars(Recorded(RxBranch) \/ EventTraffic)
  /\ SF_busyVars(Recorded(StreamBranch) \/ PingTraffic)
  /\ \A h \in Holders : SF_busyVars(Recorded(SendAccepted(h))) /\ WF_busyVars(Recorded(SendRefused(h)))

BusySpec == BusyInit /\ [][BusyNext]_busyVars /\ Fairness
=============================================================================
