--------------------------- MODULE ServiceSession ---------------------------
(***************************************************************************)
(* Service implements Session: the refinement mapping.                      *)
(***************************************************************************)
EXTENDS Service

Phase ==
  IF pc = "done" THEN "closed" ELSE IF Connected THEN "open" ELSE "opening"

(* The events among the frames on the wire: neither the subscription, which *)
(* is the first frame, nor the Close frame, which is the last.              *)
SentEvents ==
  LET n == IF SaidGoodbye THEN Len(wire) - 1 ELSE Len(wire)
  IN  [i \in 1 .. n - 1 |-> wire[i + 1].body]

S == INSTANCE Session WITH
       User <- Holders, Event <- 1 .. MaxPublish,
       phase <- Phase, users <- holders, offered <- accepted,
       sent <- SentEvents, goodbye <- SaidGoodbye

(***************************************************************************)
(* serve implements the session: events go out in the order Outbox::send    *)
(* accepted them and only between the ACK and the end, an open session goes *)
(* on sending, and the Close frame is sent once every Outbox was dropped    *)
(* and everything accepted was sent.                                        *)
(***************************************************************************)
ImplementsSession == S!Spec
=============================================================================
