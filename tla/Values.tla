------------------------------- MODULE Values -------------------------------
(***************************************************************************)
(* The part of the wire data model (crates/zeek-websocket-types/src/lib.rs) *)
(* that decides what a message is: values, and the two readings of one as   *)
(* Data.  A value is its kind, a payload for the scalars and the elements   *)
(* of a vector.                                                             *)
(***************************************************************************)
EXTENDS Naturals, Sequences

Scalar(kind, num) == [kind |-> kind, num |-> num, items |-> <<>>]

Vector(items) == [kind |-> "vector", num |-> 0, items |-> items]

Unset == Scalar("none", 0)

EventType == Scalar("count", 1)
FormatNr  == Scalar("count", 1)

Event(name, args, metadata) ==
  [type |-> "event", name |-> name, args |-> args, metadata |-> metadata]

Other(value) == [type |-> "other", value |-> value]

HasEventShape(v) ==
  /\ v.kind = "vector" /\ Len(v.items) >= 3
  /\ v.items[2] = EventType
  /\ v.items[3].kind = "vector" /\ Len(v.items[3].items) >= 2
  /\ v.items[3].items[1].kind = "string"
  /\ v.items[3].items[2].kind = "vector"

(* Metadata may be missing, or be a value that is no vector. *)
MetadataOf(data) ==
  IF Len(data) < 3 THEN <<>>
  ELSE IF data[3].kind = "vector" THEN data[3].items
  ELSE <<data[3]>>

(* Mutant of DataFrom: the metadata is taken for granted. *)
DataFromWantsMetadata(v) ==
  IF HasEventShape(v) /\ Len(v.items[3].items) >= 3
    THEN LET data == v.items[3].items
         IN  Event(data[1].num, data[2].items, MetadataOf(data))
    ELSE Other(v)

(* impl From<Value> for Data *)
DataFrom(v) ==
  IF HasEventShape(v)
    THEN LET data == v.items[3].items
         IN  Event(data[1].num, data[2].items, MetadataOf(data))
    ELSE Other(v)

(* impl From<Data> for Value *)
ValueFrom(d) ==
  IF d.type = "event"
    THEN Vector(<<FormatNr, EventType,
                  Vector(<<Scalar("string", d.name), Vector(d.args), Vector(d.metadata)>>)>>)
    ELSE d.value
=============================================================================
