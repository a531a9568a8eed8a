------------------------------ MODULE Records ------------------------------
(***************************************************************************)
(* A record on its way from one program to another: written by a Rust       *)
(* struct that derives ZeekType (crates/zeek-websocket-derive/src/lib.rs)   *)
(* or by a Python object (src/python.rs), sent as the argument of an event, *)
(* and read by either into a type of its own.  A record on the wire is a    *)
(* vector: the schema is not part of it, and the programs may know          *)
(* different versions.  A Python value can also be read where it was made.  *)
(***************************************************************************)
EXTENDS Values, SequencesExt

CONSTANTS
  Field,      \* names of fields: numbers, in the order of the names' text
  NameField,  \* the one called "name"
  Languages,
  MaxFields,  \* bound: fields of a schema
  MaxRelays   \* bound: how often the event is passed on

ASSUME RecordsAssumption ==
  /\ Field \subseteq Nat /\ NameField \in Field
  /\ Languages \subseteq {"rust", "python"}
  /\ MaxFields \in Nat /\ MaxRelays \in Nat

VARIABLES
  pc,      \* "object", "value", "wire", "received", "done"
  writer,  \* language and declared fields of the writer
  reader,  \* the same of the reader
  object,  \* the record written: what each field of the writer holds
  value,   \* what the writer makes of it: a Value of Rust or of Python
  wire,    \* the event on the wire, as a value
  relays,  \* how often it was passed on
  result   \* what the reader made of it

vars == <<pc, writer, reader, object, value, wire, relays, result>>

-----------------------------------------------------------------------------
(* A field that is optional is an Option in Rust, and a T | None with the   *)
(* default None in Python.                                                  *)
Declared == [name : Field, kind : {"count", "string"}, optional : BOOLEAN]

Schema ==
  {s \in UNION {[1 .. n -> Declared] : n \in 0 .. MaxFields} :
     \A i, j \in DOMAIN s : s[i].name = s[j].name => i = j}

(***************************************************************************)
(* What a program puts into a field.  In Python that may be a Value or a    *)
(* plain int, and a str may be one that reads as an IP address ("ip").  No  *)
(* other str reads as anything, none is a number.  Fields are told apart by *)
(* their names.                                                             *)
(***************************************************************************)
PythonKinds == [count |-> {"count", "int"}, string |-> {"string", "ip"}]

ValuesOf(language, f) ==
  {Scalar(k, f.name) : k \in IF language = "python" THEN PythonKinds[f.kind] ELSE {f.kind}}
    \cup (IF f.optional THEN {Unset} ELSE {})

ObjectsOf(language, s) ==
  {o \in [DOMAIN s -> UNION {ValuesOf(language, s[i]) : i \in DOMAIN s}] :
     \A i \in DOMAIN s : o[i] \in ValuesOf(language, s[i])}

Failed == [ok |-> FALSE, fields |-> <<>>]
Read(fields) == [ok |-> TRUE, fields |-> fields]

-----------------------------------------------------------------------------
(* ZeekType: From<Record> for Value and TryFrom<Value> for Record.          *)

RustWrite(o) == Vector(o)

(* A value missing at the end is taken for an unset one. *)
Received(items, i) == IF i <= Len(items) THEN items[i] ELSE Unset

Accepts(f, v) == v.kind = f.kind \/ (f.optional /\ v = Unset)

(* Mutant of RustRead: fewer values than fields are an error. *)
RustReadAll(v, s) ==
  IF v.kind = "vector" /\ Len(v.items) >= Len(s)
       /\ \A i \in DOMAIN s : Accepts(s[i], Received(v.items, i))
    THEN Read([i \in DOMAIN s |-> Received(v.items, i)])
    ELSE Failed

RustRead(v, s) ==
  IF v.kind = "vector" /\ \A i \in DOMAIN s : Accepts(s[i], Received(v.items, i))
    THEN Read([i \in DOMAIN s |-> Received(v.items, i)])
    ELSE Failed

-----------------------------------------------------------------------------
(* Python: a Value::Record is a map from names to values.                   *)

PyRecord(fields) == [kind |-> "record", fields |-> fields]
PyVector(items)  == [kind |-> "vector", items |-> items]
PyEnum(num)      == [kind |-> "enum", num |-> num]

AttributeIndex(s, name) == {i \in DOMAIN s : s[i].name = name}

(***************************************************************************)
(* Value::extract of an attribute: a plain int is taken for a Real, a str   *)
(* that reads as an address for an Address.                                 *)
(***************************************************************************)
ExtractKind ==
  [count |-> "count", int |-> "real", string |-> "string", ip |-> "address", none |-> "none"]

ExtractAttribute(a) == Scalar(ExtractKind[a.kind], a.num)

(***************************************************************************)
(* Value::extract of an object: an attribute `name` that holds a str makes  *)
(* it an Enum, whatever its class (the result of is_instance is discarded); *)
(* otherwise its __dict__ makes it a Record.                                *)
(***************************************************************************)
Extract(o, s) ==
  IF \E i \in AttributeIndex(s, NameField) : o[i].kind \in {"string", "ip"}
    THEN PyEnum(NameField)
    ELSE PyRecord([n \in {s[i].name : i \in DOMAIN s} |->
                     ExtractAttribute(o[CHOOSE i \in AttributeIndex(s, n) : TRUE])])

(* The keys of a BTreeMap in their order *)
InOrder(names) ==
  CHOOSE f \in [1 .. Cardinality(names) -> names] :
    \A i, j \in DOMAIN f : i < j => f[i] < f[j]

(* Mutant of FieldsInOrder: the entries of the map from the last name on. *)
FieldsReversed(fields) ==
  LET names == Reverse(InOrder(DOMAIN fields))
  IN  [i \in DOMAIN names |-> fields[names[i]]]

(* BTreeMap::into_values: in the order of the names. *)
FieldsInOrder(fields) ==
  LET names == InOrder(DOMAIN fields)
  IN  [i \in DOMAIN names |-> fields[names[i]]]

(* TryFrom<Value> for zeek_websocket_types::Value *)
PyToRust(v) ==
  IF v.kind = "record" THEN Vector(FieldsInOrder(v.fields))
  ELSE IF v.kind = "enum" THEN Scalar("enum", v.num)
  ELSE Vector(v.items)

(* From<zeek_websocket_types::Value> for Value *)
PyFromRust(v) == IF v.kind = "vector" THEN PyVector(v.items) ELSE PyEnum(v.num)

(***************************************************************************)
(* The keyword arguments as_record finds for the fields of the target type: *)
(* by position in a vector, by name in a record.                            *)
(***************************************************************************)
(* Mutant of Keywords: a record is read by position, too. *)
KeywordsByPosition(v, s) ==
  LET items == IF v.kind = "vector" THEN v.items ELSE FieldsInOrder(v.fields)
  IN  [i \in {j \in DOMAIN s : j <= Len(items)} |-> items[i]]

Keywords(v, s) ==
  IF v.kind = "vector"
    THEN [i \in {j \in DOMAIN s : j <= Len(v.items)} |-> v.items[i]]
    ELSE [i \in {j \in DOMAIN s : s[j].name \in DOMAIN v.fields} |->
            v.fields[s[i].name]]

(***************************************************************************)
(* convert_field: an optional field takes an unset value for None; all else *)
(* is made an object of Python, the unset value a (), and the declared type *)
(* is called with it.  str makes its text of anything; int truncates floats *)
(* and takes the number of an address, and what it refuses, a str or a (),  *)
(* is passed as it is.                                                      *)
(***************************************************************************)
TextOf ==
  [count |-> "digits", real |-> "decimal", string |-> "string", address |-> "ip", none |-> "()"]

IntOf ==
  [count |-> "int", real |-> "int", string |-> "string", address |-> "packed", none |-> "tuple"]

ConvertField(v, f) ==
  IF f.optional /\ v = Unset THEN Unset
  ELSE Scalar(IF f.kind = "string" THEN TextOf[v.kind] ELSE IntOf[v.kind], v.num)

(***************************************************************************)
(* as_record: the constructor fails when a field without default is         *)
(* missing.                                                                 *)
(***************************************************************************)
PythonRead(v, s) ==
  IF v.kind = "enum" THEN Failed
  ELSE LET given == Keywords(v, s) IN
       IF \E i \in DOMAIN s : i \notin DOMAIN given /\ ~s[i].optional
         THEN Failed
         ELSE Read([i \in DOMAIN s |->
                      IF i \in DOMAIN given THEN ConvertField(given[i], s[i]) ELSE Unset])

-----------------------------------------------------------------------------
Nothing == Unset

(***************************************************************************)
(* The reader knows the writer's schema, a version of it with fields added  *)
(* or removed at the end or made optional or mandatory, or the same fields  *)
(* in another order.                                                        *)
(***************************************************************************)
SameField(f, g) == f.name = g.name /\ f.kind = g.kind

Versions(s) ==
  {r \in Schema :
     \/ \A i \in DOMAIN r \cap DOMAIN s : SameField(r[i], s[i])
     \/ ToSet(r) = ToSet(s)}

Init ==
  /\ pc = "object" /\ value = Nothing /\ wire = Nothing
  /\ relays = 0 /\ result = Failed
  /\ \E s \in Schema, w, l \in Languages :
       \E r \in Versions(s) :
         /\ writer = [language |-> w, schema |-> s]
         /\ reader = [language |-> l, schema |-> r]
  /\ object \in ObjectsOf(writer.language, writer.schema)

Make ==
  /\ pc = "object"
  /\ value' = IF writer.language = "rust" THEN RustWrite(object)
                                          ELSE Extract(object, writer.schema)
  /\ pc' = "value"
  /\ UNCHANGED <<writer, reader, object, wire, relays, result>>

(* value.as_record(X) where the value was made *)
ReadHere ==
  /\ pc = "value"
  /\ writer.language = "python" /\ reader.language = "python"
  /\ result' = PythonRead(value, reader.schema)
  /\ pc' = "done"
  /\ UNCHANGED <<writer, reader, object, value, wire, relays>>

Argument == IF writer.language = "rust" THEN value ELSE PyToRust(value)

Metadata == {<<>>, <<Scalar("count", 7)>>}

EventSent(m) == Event(0, <<Argument>>, m)

Send ==
  /\ pc = "value"
  /\ \E m \in Metadata : wire' = ValueFrom(EventSent(m))
  /\ pc' = "wire"
  /\ UNCHANGED <<writer, reader, object, value, relays, result>>

(* Passed on by a program that uses this library, *)
Relay ==
  /\ pc = "wire" /\ relays < MaxRelays
  /\ wire' = ValueFrom(DataFrom(wire))
  /\ relays' = relays + 1
  /\ UNCHANGED <<pc, writer, reader, object, value, result>>

(* or by a Zeek node, with or without the metadata. *)
ZeekRelay ==
  /\ pc = "wire" /\ relays < MaxRelays
  /\ LET data == wire.items[3].items IN
       wire' = [wire EXCEPT !.items[3].items = SubSeq(data, 1, 2)]
  /\ relays' = relays + 1
  /\ UNCHANGED <<pc, writer, reader, object, value, result>>

Arrived == DataFrom(wire)

Receive ==
  /\ pc = "wire"
  /\ Arrived.type = "event"
  /\ LET v == Arrived.args[1] IN
       result' = IF reader.language = "rust" THEN RustRead(v, reader.schema)
                                             ELSE PythonRead(PyFromRust(v), reader.schema)
  /\ pc' = "done"
  /\ UNCHANGED <<writer, reader, object, value, wire, relays>>

Done == pc = "done" /\ UNCHANGED vars

Next == Make \/ ReadHere \/ Send \/ Relay \/ ZeekRelay \/ Receive \/ Done

Spec == Init /\ [][Next]_vars

-----------------------------------------------------------------------------
(***************************************************************************)
(* An event stays an event with the same name and arguments however often   *)
(* and by whomever it is passed on; only its metadata may get lost.         *)
(***************************************************************************)
EventSurvives ==
  pc = "wire" =>
    \E m \in Metadata : Arrived = EventSent(m)

Overlap == 1 .. (IF Len(writer.schema) < Len(reader.schema)
                   THEN Len(writer.schema) ELSE Len(reader.schema))

SameUpToOptional(f, g) == f.kind = g.kind /\ (f.optional => g.optional)

(***************************************************************************)
(* ZeekType lets records evolve: a reader that declares the writer's        *)
(* fields, fewer of them, or more that are optional, reads each field as it *)
(* was written and the rest as unset; a reader never accepts a value that   *)
(* does not fit its declaration.                                            *)
(***************************************************************************)
RecordEvolution ==
  pc = "done" /\ writer.language = "rust" /\ reader.language = "rust" =>
    LET w == writer.schema  r == reader.schema IN
    /\ (/\ \A i \in Overlap : SameUpToOptional(w[i], r[i])
        /\ \A i \in DOMAIN r \ Overlap : r[i].optional)
         => result = Read([i \in DOMAIN r |-> Received(object, i)])
    /\ result.ok => \A i \in DOMAIN r : Accepts(r[i], result.fields[i])

(* What a Python program sees of what was put into a field *)
Plain(a) == IF a.kind = "count" THEN Scalar("int", a.num) ELSE a

(***************************************************************************)
(* Where it was made a Python record is matched by name, not by position    *)
(* (test_as_record_matches_fields_by_name): the reader gets each of its     *)
(* fields the writer has, in whatever order either declares them, and as    *)
(* what was put into it, although the int was a Real and the str may have   *)
(* been an Address in between.  (Not for None read into a mandatory field,  *)
(* which becomes the text "()" or a () instead of an error.)                *)
(***************************************************************************)
MatchesByName ==
  pc = "done" /\ wire = Nothing /\ value.kind = "record" =>
    \A i \in DOMAIN writer.schema, j \in DOMAIN reader.schema :
      /\ writer.schema[i].name = reader.schema[j].name /\ result.ok
      /\ object[i] # Unset \/ reader.schema[j].optional
      => result.fields[j] = Plain(object[i])

InNameOrder(s) == \A i, j \in DOMAIN s : i < j => s[i].name < s[j].name

(* No int that becomes a Real and no str that becomes an Address *)
Explicit(o) == \A i \in DOMAIN o : o[i].kind \notin {"int", "ip"}

(***************************************************************************)
(* Over the wire the names are gone, and a Python record that declares its  *)
(* fields in the order of their names still arrives as it was written: in   *)
(* Python always, in Rust if its ints were put into Values and no str reads *)
(* as an address.  Otherwise Rust refuses the record as a whole, and takes  *)
(* nothing for something else.                                              *)
(***************************************************************************)
SortedRecordsArrive ==
  /\ pc = "done" /\ wire # Nothing
  /\ writer.language = "python" /\ value.kind = "record"
  /\ reader.schema = writer.schema /\ InNameOrder(writer.schema)
  => result = IF reader.language = "python" THEN Read([i \in DOMAIN object |-> Plain(object[i])])
              ELSE IF Explicit(object) THEN Read(object)
              ELSE Failed

-----------------------------------------------------------------------------
(***************************************************************************)
(* README.md:150: "we support constructing a `Value` from any Python        *)
(* class", and python.rs:121: any class that is no Enum becomes a Record.   *)
(* One with a str attribute called "name" becomes an Enum and loses the     *)
(* rest of its fields.                                                      *)
(***************************************************************************)
AnyClassMakesRecord ==
  pc = "value" /\ writer.language = "python" => value.kind = "record"
=============================================================================
