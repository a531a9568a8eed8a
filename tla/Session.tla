------------------------------- MODULE Session -------------------------------
(***************************************************************************)
(* What a session of a ZeekClient with Zeek promises on its publishing      *)
(* side, without the task, the binding and the stream behind it: events are *)
(* offered at any time, go out in the order they were offered and only      *)
(* while the session is open, and leaving it in good order means that       *)
(* everything offered went out first.                                       *)
(***************************************************************************)
EXTENDS Naturals, Sequences

CONSTANTS User, Event

VARIABLES
  phase,    \* "opening", "open", "closed"
  users,    \* who may still offer events
  offered,  \* the events offered, in order
  sent,     \* the events sent, in order
  goodbye   \* the session was closed in good order

vars == <<phase, users, offered, sent, goodbye>>

Init ==
  /\ phase = "opening"
  /\ users \in SUBSET User
  /\ offered = <<>> /\ sent = <<>>
  /\ goodbye = FALSE

Open ==
  /\ phase = "opening"
  /\ phase' = "open"
  /\ UNCHANGED <<users, offered, sent, goodbye>>

Offer ==
  /\ phase # "closed"
  /\ users # {}
  /\ \E e \in Event : offered' = Append(offered, e)
  /\ UNCHANGED <<phase, users, sent, goodbye>>

(* Users invite others and leave; when nobody is left nobody can join. *)
Regroup ==
  /\ users # {}
  /\ users' \in SUBSET User
  /\ UNCHANGED <<phase, offered, sent, goodbye>>

Send ==
  /\ phase = "open"
  /\ Len(sent) < Len(offered)
  /\ sent' = Append(sent, offered[Len(sent) + 1])
  /\ UNCHANGED <<phase, users, offered, goodbye>>

Leave ==
  /\ phase = "open"
  /\ users = {} /\ sent = offered
  /\ phase' = "closed" /\ goodbye' = TRUE
  /\ UNCHANGED <<users, offered, sent>>

(* Refused, closed by the server, or broken. *)
End ==
  /\ phase # "closed"
  /\ phase' = "closed"
  /\ users' \in SUBSET users
  /\ UNCHANGED <<offered, sent, goodbye>>

Next == Open \/ Offer \/ Regroup \/ Send \/ Leave \/ End

(* An open session keeps sending, and ends when all users have left. *)
Spec == Init /\ [][Next]_vars /\ WF_vars(Send \/ Leave)
=============================================================================
