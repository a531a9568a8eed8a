------------------------------ MODULE CValues ------------------------------
(***************************************************************************)
(* Who owns what the C API hands out (bindings/c/zeek-websocket-c/          *)
(* src/lib.rs, Event to Address): values, lists, events and addresses are   *)
(* boxes whose pointers cross the API.  heap is what the code allocates and *)
(* drops; owned is what the comments on its functions tell a C program it   *)
(* has to free, the program keeping to them.  Three functions contradict    *)
(* themselves (zws_value_as_address, _subnet and _port): the comment says   *)
(* that self is passed, the signature takes a const pointer.  A program     *)
(* goes by either, and abandons the value when it goes by the comment.      *)
(*                                                                         *)
(* A container owns its elements, which are not boxes of their own.         *)
(***************************************************************************)
EXTENDS Naturals, FiniteSets

CONSTANTS
  Box,          \* bound: the boxes that can exist
  MaxArray,     \* bound: values in an array passed to the API
  MaxAbandoned  \* bound: values a program abandons

ASSUME BoxAssumption == MaxArray \in Nat /\ MaxAbandoned \in Nat

VARIABLES
  heap,     \* heap[b]: what b holds, "free" if it is not allocated
  intact,   \* boxes whose content is where pointers into it were taken
  owned,    \* the boxes the C program has to free
  abandoned, \* values it took for passed on, which the code kept
  views,    \* the boxes into which it still has pointers
  received  \* the event lent to the receive callback, in a set, while it runs

cvVars == <<heap, intact, owned, abandoned, views, received>>

Value == {"scalar", "vector", "set"}   \* "scalar": neither of the others

Kind == Value \cup {"list", "event", "address"}

CVInit ==
  /\ heap = [b \in Box |-> "free"]
  /\ intact = {} /\ owned = {} /\ abandoned = {} /\ views = {} /\ received = {}

Owns(b, kinds) == b \in owned /\ heap[b] \in kinds

Events == {b \in owned : heap[b] = "event"} \cup received

Arrays ==
  {vs \in SUBSET owned : Cardinality(vs) <= MaxArray /\ \A v \in vs : heap[v] \in Value}

(* The code: it drops the boxes in gone and makes those in made. *)
Heap(gone, made, kind) ==
  /\ \A b \in made : heap[b] = "free"
  /\ heap' = [b \in Box |-> IF b \in made THEN kind
                            ELSE IF b \in gone THEN "free" ELSE heap[b]]
  /\ intact' = intact \ gone

(* The program: it passes boxes on, with its pointers into them, and gets some. *)
Passes(passed, got) ==
  /\ owned' = (owned \ passed) \cup got
  /\ views' = views \ passed
  /\ UNCHANGED received

Program(passed, got) == Passes(passed, got) /\ UNCHANGED abandoned

(* It takes the value b for passed on as well. *)
Abandon(b, passed, got) ==
  /\ Cardinality(abandoned) < MaxAbandoned
  /\ Passes(passed \cup {b}, got)
  /\ abandoned' = abandoned \cup {b}

(* It gets a pointer into b. *)
View(b) ==
  /\ intact' = intact \cup {b} /\ views' = views \cup {b}
  /\ UNCHANGED <<heap, owned, abandoned, received>>

-----------------------------------------------------------------------------
(* Values and addresses.                                                    *)

(* zws_value_new_none, .., zws_value_new_enum, zws_value_new_port *)
ValueNew(b) == Heap({}, {b}, "scalar") /\ Program({}, {b})

(* zws_address_new_v4, zws_address_new_v6 *)
AddressNew(b) == Heap({}, {b}, "address") /\ Program({}, {b})

(* zws_value_new_address *)
ValueOfAddress(a, b) ==
  /\ Owns(a, {"address"})
  /\ Heap({a}, {b}, "scalar") /\ Program({a}, {b})

(* zws_value_new_subnet: None for a bad prefix, the address is gone anyway. *)
ValueOfSubnet(a, b) ==
  /\ Owns(a, {"address"})
  /\ \E made \in {{b}, {}} :
       Heap({a}, made, "scalar") /\ Program({a}, made)

(* Mutant of Aggregate: the values are moved, as zws_list_new does. *)
AggregateMoves(vs, b) ==
  \E kind \in Value : Heap(vs, {b}, kind) /\ Program({}, {b})

(* zws_value_new_vector, zws_value_new_set, zws_value_new_table (a scalar *)
(* here) clone the values they are given.                                 *)
Aggregate(vs, b) ==
  \E kind \in Value : Heap({}, {b}, kind) /\ Program({}, {b})

(* zws_value_as_string, zws_value_as_enumvalue, zws_event_name *)
PointInto(b) ==
  /\ Owns(b, {"scalar"}) \/ b \in Events
  /\ View(b)

(***************************************************************************)
(* zws_value_as_vector, zws_value_as_set: the value is gone whether it is   *)
(* of that kind or not; if it is, the former content of the list is, too.   *)
(***************************************************************************)
AsList(b, list) ==
  /\ Owns(b, Value) /\ Owns(list, {"list"})
  /\ heap' = [heap EXCEPT ![b] = "free"]
  /\ \/ intact' = intact \ {b} /\ views' = views \ {b}
     \/ /\ heap[b] \in {"vector", "set"}
        /\ intact' = intact \ {b, list} /\ views' = views \ {b, list}
  /\ owned' = owned \ {b}
  /\ UNCHANGED <<abandoned, received>>

(* Mutant of Copies: the value is dropped, as the comments say. *)
CopiesAndDrops(b, gone, made) ==
  /\ Owns(b, Value)
  /\ Heap(gone \cup {b}, made, "address")
  /\ Program(gone, made) \/ Abandon(b, gone, made)

(* What is inside is copied out of the value, which is borrowed (&self). *)
Copies(b, gone, made) ==
  /\ Owns(b, Value)
  /\ Heap(gone, made, "address")
  /\ \/ Program(gone, made)     \* by the signature
     \/ Abandon(b, gone, made)  \* by the comment

(* zws_value_as_address, zws_value_as_port; zws_value_as_subnet of another kind *)
AsAddress(b) == Copies(b, {}, {})

(* zws_value_as_subnet: a new address takes the place of the one in the Subnet. *)
AsSubnet(b, target, addr) ==
  /\ heap[b] = "scalar" /\ Owns(target, {"address"})
  /\ Copies(b, {target}, {addr})

-----------------------------------------------------------------------------
(* Lists and events.                                                        *)

(* Mutant of ListNew: the values are cloned, as zws_value_new_vector does. *)
ListNewClones(vs, b) == Heap({}, {b}, "list") /\ Program(vs, {b})

(* zws_list_new *)
ListNew(vs, b) == Heap(vs, {b}, "list") /\ Program(vs, {b})

(* zws_list_entry *)
ListEntry(list) == Owns(list, {"list"}) /\ View(list)

(* zws_event_new: None for a bad name, the lists are gone anyway. *)
EventNew(args, metadata, b) ==
  /\ Owns(args, {"list"})
  /\ metadata = {} \/ \E m \in owned \ {args} : heap[m] = "list" /\ metadata = {m}
  /\ \E made \in {{b}, {}} :
       /\ Heap({args} \cup metadata, made, "event")
       /\ Program({args} \cup metadata, made)

(* zws_event_args, zws_event_metadata: a new list of clones. *)
EventPart(e, b) ==
  /\ e \in Events
  /\ Heap({}, {b}, "list") /\ Program({}, {b})

(* zws_client_publish: the event is gone, sent or not. *)
EventPublish(e) ==
  /\ Owns(e, {"event"})
  /\ Heap({e}, {}, "event") /\ Program({e}, {})

(* zws_value_free, zws_list_free, zws_event_free, zws_address_free *)
FreeBox(b) ==
  /\ b \in owned
  /\ Heap({b}, {}, heap[b]) /\ Program({b}, {})

-----------------------------------------------------------------------------
(* The receive callback borrows an event of the service while it runs.      *)

ReceiveStart(e) ==
  /\ received = {}
  /\ Heap({}, {e}, "event")
  /\ received' = {e}
  /\ UNCHANGED <<owned, abandoned, views>>

ReceiveEnd ==
  /\ received # {}
  /\ Heap(received, {}, "event")
  /\ received' = {}
  /\ views' = views \ received
  /\ UNCHANGED <<owned, abandoned>>

CVNext ==
  \/ \E b \in Box :
       \/ ValueNew(b) \/ AddressNew(b) \/ PointInto(b) \/ ListEntry(b)
       \/ AsAddress(b) \/ EventPublish(b) \/ FreeBox(b) \/ ReceiveStart(b)
       \/ \E vs \in Arrays : Aggregate(vs, b) \/ ListNew(vs, b)
       \/ \E a \in Box :
            \/ ValueOfAddress(a, b) \/ ValueOfSubnet(a, b)
            \/ AsList(a, b) \/ EventPart(a, b)
            \/ \E metadata \in SUBSET owned : EventNew(a, metadata, b)
            \/ \E value \in owned : AsSubnet(value, a, b)
  \/ ReceiveEnd

CVSpec == CVInit /\ [][CVNext]_cvVars

-----------------------------------------------------------------------------
(***************************************************************************)
(* A program that frees what the comments tell it to free leaks nothing     *)
(* but the values it abandoned: every other box is one it has to free or    *)
(* the event lent to its callback, whichever calls failed in between.  So   *)
(* a program leaks nothing if it goes by the signatures of                  *)
(* zws_value_as_address, _subnet and _port (lib.rs:638, 652, 669), and one  *)
(* that goes by their comments leaks each value it hands to them.           *)
(***************************************************************************)
LeaksOnlyAbandoned ==
  /\ \A b \in Box : heap[b] # "free" => b \in owned \cup received \cup abandoned
  /\ \A b \in abandoned : heap[b] \in Value

(***************************************************************************)
(* It never holds a dangling pointer: what it has to free exists, once, and *)
(* the places its other pointers lead to were neither dropped nor moved.    *)
(***************************************************************************)
NoDangling ==
  /\ \A b \in owned \cup received : heap[b] \in Kind
  /\ owned \cap received = {}
  /\ views \subseteq intact /\ \A b \in intact : heap[b] # "free"

=============================================================================
