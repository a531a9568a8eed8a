---------------------------- MODULE RecordsProofs ----------------------------
(***************************************************************************)
(* Theorems about Records, for any names and kinds of fields, any number of *)
(* them, any versions of a record and any number of programs it passes.     *)
(***************************************************************************)
EXTENDS Records, Lemmas

(* The event as Send and Relay pack it, and as a Zeek node leaves it. *)
Packed(data) == Vector(<<FormatNr, EventType, Vector(data)>>)

Bare(items) == Packed(<<Scalar("string", 0), Vector(items)>>)

OnItsWay ==
  \/ \E m \in Metadata : wire = ValueFrom(EventSent(m))
  \/ wire = Bare(<<Argument>>)

(* What the writer makes of the record, and what the reader makes of it. *)
Written == IF writer.language = "rust" THEN RustWrite(object)
                                       ELSE Extract(object, writer.schema)

ReadArgument ==
  IF reader.language = "rust" THEN RustRead(Argument, reader.schema)
                              ELSE PythonRead(PyFromRust(Argument), reader.schema)

(* What a field holds is known from its name. *)
NamesTellKinds ==
  \A i \in DOMAIN writer.schema, j \in DOMAIN reader.schema :
    writer.schema[i].name = reader.schema[j].name =>
      writer.schema[i].kind = reader.schema[j].kind

Types ==
  /\ writer \in [language : Languages, schema : Schema]
  /\ reader \in [language : Languages, schema : Schema]
  /\ object \in ObjectsOf(writer.language, writer.schema)
  /\ NamesTellKinds

(***************************************************************************)
(* The inductive invariant: at each stage of its life the record is known   *)
(* from the object it was written from; the wire holds it in one of the     *)
(* shapes above; and it was read either where it was made, by a Python      *)
(* program, or off the wire.                                                *)
(***************************************************************************)
Life ==
  /\ pc \in {"object", "value", "wire", "done"}
  /\ pc # "object" => value = Written
  /\ pc \in {"object", "value"} => wire = Nothing
  /\ pc = "wire" => OnItsWay
  /\ pc = "done" =>
       \/ /\ wire = Nothing
          /\ writer.language = "python" /\ reader.language = "python"
          /\ result = PythonRead(value, reader.schema)
       \/ OnItsWay /\ result = ReadArgument

RInv == Types /\ Life

-----------------------------------------------------------------------------
(* The data model: what unpacking makes of what was packed.                 *)

(* An event comes back from its value as it went in (DataFrom, ValueFrom). *)
LEMMA EventRoundTrip ==
  ASSUME NEW name, NEW items, NEW m
  PROVE  /\ HasEventShape(ValueFrom(Event(name, items, m)))
         /\ DataFrom(ValueFrom(Event(name, items, m))) = Event(name, items, m)
<1> DEFINE data == <<Scalar("string", name), Vector(items), Vector(m)>>
           v == Packed(data)
<1>1. ValueFrom(Event(name, items, m)) = v
  BY DEF ValueFrom, Event, Packed
<1>2. /\ Len(data) = 3
      /\ data[1] = Scalar("string", name)
      /\ data[2] = Vector(items) /\ data[3] = Vector(m)
  OBVIOUS
<1> HIDE DEF data
<1>3. /\ v.kind = "vector" /\ Len(v.items) = 3
      /\ v.items[2] = EventType /\ v.items[3] = Vector(data)
  BY DEF Packed, Vector
<1>4. HasEventShape(v)
  BY <1>2, <1>3 DEF HasEventShape, Vector, Scalar
<1>5. MetadataOf(data) = m
  BY <1>2 DEF MetadataOf, Vector
<1>6. v.items[3].items = data
  BY <1>3 DEF Vector
<1> HIDE DEF v
<1>7. DataFrom(v) = Event(data[1].num, data[2].items, MetadataOf(data))
  BY <1>4, <1>6 DEF DataFrom
<1>8. data[1].num = name /\ data[2].items = items
  BY <1>2 DEF Scalar, Vector
<1> QED BY <1>1, <1>4, <1>5, <1>7, <1>8

(* Without metadata it comes back without metadata (MetadataOf). *)
LEMMA BareRoundTrip ==
  ASSUME NEW items
  PROVE  HasEventShape(Bare(items)) /\ DataFrom(Bare(items)) = Event(0, items, <<>>)
<1> DEFINE data == <<Scalar("string", 0), Vector(items)>>
           v == Packed(data)
<1>1. Bare(items) = v
  BY DEF Bare
<1>2. /\ Len(data) = 2
      /\ data[1] = Scalar("string", 0) /\ data[2] = Vector(items)
  OBVIOUS
<1> HIDE DEF data
<1>3. /\ v.kind = "vector" /\ Len(v.items) = 3
      /\ v.items[2] = EventType /\ v.items[3] = Vector(data)
  BY DEF Packed, Vector
<1>4. HasEventShape(v)
  BY <1>2, <1>3 DEF HasEventShape, Vector, Scalar
<1>5. MetadataOf(data) = <<>>
  BY <1>2 DEF MetadataOf
<1>6. v.items[3].items = data
  BY <1>3 DEF Vector
<1> HIDE DEF v
<1>7. DataFrom(v) = Event(data[1].num, data[2].items, MetadataOf(data))
  BY <1>4, <1>6 DEF DataFrom
<1>8. data[1].num = 0 /\ data[2].items = items
  BY <1>2 DEF Scalar, Vector
<1> QED BY <1>1, <1>4, <1>5, <1>7, <1>8

(* The first two elements of a pair, and of a triple *)
LEMMA FirstTwo ==
  ASSUME NEW a, NEW b, NEW t, t = <<a, b>> \/ \E c : t = <<a, b, c>>
  PROVE  SubSeq(t, 1, 2) = <<a, b>>
<1> DEFINE u == <<a, b>>
<1>1. PICK S : t \in Seq(S) /\ u \in Seq(S)
  <2>1. CASE t = <<a, b>>
    <3>1. t \in Seq({a, b}) /\ u \in Seq({a, b})
      BY <2>1
    <3> QED BY <3>1
  <2>2. ASSUME NEW c, t = <<a, b, c>>
        PROVE  \E S : t \in Seq(S) /\ u \in Seq(S)
    <3>1. t \in Seq({a, b, c}) /\ u \in Seq({a, b, c})
      BY <2>2
    <3> QED BY <3>1
  <2> QED BY <2>1, <2>2
<1>2. Len(t) \in Nat /\ Len(t) >= 2 /\ t[1] = a /\ t[2] = b
  OBVIOUS
<1>3. Len(u) = 2 /\ u[1] = a /\ u[2] = b
  OBVIOUS
<1> HIDE DEF u
<1>4. /\ SubSeq(t, 1, 2) \in Seq(S) /\ Len(SubSeq(t, 1, 2)) = 2
      /\ \A i \in 1 .. 2 : SubSeq(t, 1, 2)[i] = t[i]
  BY <1>1, <1>2
<1>5. SubSeq(t, 1, 2) = u
  BY <1>1, <1>2, <1>3, <1>4, SeqEqual
<1> QED BY <1>5 DEF u

(* What a Zeek node makes of a packed event: its name and arguments. *)
LEMMA ZeekLeavesBare ==
  ASSUME NEW items, NEW w,
         \/ \E m : w = ValueFrom(Event(0, items, m))
         \/ w = Bare(items)
  PROVE  [w EXCEPT !.items[3].items = SubSeq(w.items[3].items, 1, 2)] = Bare(items)
<1> DEFINE two == <<Scalar("string", 0), Vector(items)>>
<1>1. PICK data : /\ w = Packed(data)
                  /\ SubSeq(data, 1, 2) = two
  <2>1. CASE w = Bare(items)
    <3>1. SubSeq(two, 1, 2) = two
      BY FirstTwo
    <3> QED BY <2>1, <3>1 DEF Bare
  <2>2. ASSUME NEW m, w = ValueFrom(Event(0, items, m))
        PROVE  \E data : w = Packed(data) /\ SubSeq(data, 1, 2) = two
    <3>1. w = Packed(<<Scalar("string", 0), Vector(items), Vector(m)>>)
      BY <2>2 DEF ValueFrom, Event, Packed
    <3> QED BY <3>1, FirstTwo
  <2> QED BY <2>1, <2>2
<1> HIDE DEF two
<1>2. w.items[3].items = data
  BY <1>1 DEF Packed, Vector
<1>3. ASSUME NEW a, NEW b, NEW c, NEW d
      PROVE  [<<a, b, c>> EXCEPT ![3] = d] = <<a, b, d>>
  OBVIOUS
<1>4. [Vector(data) EXCEPT !.items = two] = Vector(two)
  BY DEF Vector
<1>5. [w EXCEPT !.items[3].items = two] = Packed(two)
  BY <1>1, <1>3, <1>4 DEF Packed, Vector
<1> QED BY <1>1, <1>2, <1>5 DEF Bare, two

(***************************************************************************)
(* On the wire the event is the one sent, but for its metadata: the         *)
(* properties EventSurvives and Receive rest on this.                       *)
(***************************************************************************)
LEMMA WireIsEvent ==
  ASSUME OnItsWay
  PROVE  /\ \E m \in Metadata : Arrived = EventSent(m)
         /\ Arrived.type = "event" /\ Arrived.args[1] = Argument
         /\ wire # Nothing
<1>1. \E m \in Metadata : Arrived = EventSent(m)
  <2>1. <<>> \in Metadata
    BY DEF Metadata
  <2> QED BY <2>1, EventRoundTrip, BareRoundTrip DEF OnItsWay, Arrived, EventSent
<1>2. Arrived.type = "event" /\ Arrived.args[1] = Argument
  BY <1>1 DEF EventSent, Event
<1>3. wire.kind = "vector"
  BY EventRoundTrip, BareRoundTrip DEF OnItsWay, HasEventShape, EventSent
<1> QED BY <1>1, <1>2, <1>3 DEF Nothing, Unset, Scalar

-----------------------------------------------------------------------------
(* A schema is a sequence of fields, told apart by their names. *)
LEMMA SchemaTypes ==
  ASSUME NEW s \in Schema
  PROVE  /\ Len(s) \in Nat /\ DOMAIN s = 1 .. Len(s)
         /\ \A i \in DOMAIN s : s[i] \in Declared
         /\ \A i, j \in DOMAIN s : s[i].name = s[j].name => i = j
<1>1. PICK n \in 0 .. MaxFields : s \in [1 .. n -> Declared]
  BY DEF Schema
<1>2. n \in Nat
  BY RecordsAssumption
<1>3. \A i, j \in DOMAIN s : s[i].name = s[j].name => i = j
  BY DEF Schema
<1> QED BY <1>1, <1>2, <1>3

(* A field that two versions share has one kind, wherever each declares it. *)
LEMMA VersionsTellKinds ==
  ASSUME NEW s \in Schema, NEW r \in Versions(s),
         NEW i \in DOMAIN s, NEW j \in DOMAIN r, s[i].name = r[j].name
  PROVE  s[i].kind = r[j].kind
<1>1. r \in Schema
  BY DEF Versions
<1>2. /\ DOMAIN s = 1 .. Len(s) /\ Len(s) \in Nat
      /\ DOMAIN r = 1 .. Len(r) /\ Len(r) \in Nat
      /\ \A k, m \in DOMAIN s : s[k].name = s[m].name => k = m
      /\ \A k, m \in DOMAIN r : r[k].name = r[m].name => k = m
  BY <1>1, SchemaTypes
<1>3. CASE \A k \in DOMAIN r \cap DOMAIN s : SameField(r[k], s[k])
  <2>1. i \in DOMAIN r \/ j \in DOMAIN s
    BY <1>2
  <2> QED BY <1>2, <1>3, <2>1 DEF SameField
<1>4. CASE ToSet(r) = ToSet(s)
  <2>1. r[j] \in ToSet(s)
    BY <1>4 DEF ToSet
  <2>2. PICK k \in DOMAIN s : s[k] = r[j]
    BY <2>1 DEF ToSet
  <2> QED BY <1>2, <2>2
<1> QED BY <1>3, <1>4 DEF Versions

-----------------------------------------------------------------------------
(* The invariant at the start and after each step *)

LEMMA InitRInv == Init => RInv
<1> SUFFICES ASSUME Init PROVE RInv
  OBVIOUS
<1>1. PICK s \in Schema, w \in Languages, l \in Languages :
        \E r \in Versions(s) :
          /\ writer = [language |-> w, schema |-> s]
          /\ reader = [language |-> l, schema |-> r]
  BY DEF Init
<1>2. PICK r \in Versions(s) :
        /\ writer = [language |-> w, schema |-> s]
        /\ reader = [language |-> l, schema |-> r]
  BY <1>1
<1>3. r \in Schema
  BY DEF Versions
<1>4. ASSUME NEW i \in DOMAIN s, NEW j \in DOMAIN r, s[i].name = r[j].name
      PROVE  s[i].kind = r[j].kind
  BY <1>4, VersionsTellKinds
<1>5. Types
  BY <1>2, <1>3, <1>4 DEF Init, Types, NamesTellKinds
<1> QED BY <1>5 DEF Init, RInv, Life

LEMMA StepRInv == RInv /\ [Next]_vars => RInv'
<1> SUFFICES ASSUME RInv, [Next]_vars PROVE RInv'
  OBVIOUS
<1> USE DEF RInv
<1>1. UNCHANGED <<writer, reader, object>>
  BY DEF Next, Make, ReadHere, Send, Relay, ZeekRelay, Receive, Done, vars
<1>2. Types'
  BY <1>1 DEF Types, NamesTellKinds
<1>3. Written' = Written
  BY <1>1 DEF Written
<1>4. ASSUME value' = value
      PROVE  /\ Argument' = Argument /\ ReadArgument' = ReadArgument
             /\ \A m : EventSent(m)' = EventSent(m)
  BY <1>1, <1>4 DEF Argument, ReadArgument, EventSent
<1>5. ASSUME value' = value, wire' = wire PROVE OnItsWay' <=> OnItsWay
  BY <1>4, <1>5 DEF OnItsWay
<1>6. CASE Make
  BY <1>2, <1>3, <1>6 DEF Make, Life, Written
<1>7. CASE ReadHere
  BY <1>1, <1>2, <1>3, <1>7 DEF ReadHere, Life
<1>8. CASE Send
  <2>1. value' = value /\ pc' = "wire"
    BY <1>8 DEF Send
  <2>2. OnItsWay'
    BY <1>4, <1>8, <2>1 DEF Send, OnItsWay
  <2> QED BY <1>2, <1>3, <1>8, <2>1, <2>2 DEF Send, Life
<1>9. CASE Relay
  <2>1. value' = value /\ pc' = "wire" /\ pc = "wire"
    BY <1>9 DEF Relay
  <2>2. wire' = ValueFrom(Arrived)
    BY <1>9 DEF Relay, Arrived
  <2>3. OnItsWay'
    BY <1>4, <2>1, <2>2, WireIsEvent DEF Life, OnItsWay
  <2> QED BY <1>2, <1>3, <2>1, <2>3 DEF Life
<1>10. CASE ZeekRelay
  <2>1. value' = value /\ pc' = "wire" /\ pc = "wire"
    BY <1>10 DEF ZeekRelay
  <2>2. wire' = Bare(<<Argument>>)
    BY <1>10, <2>1, ZeekLeavesBare DEF ZeekRelay, Life, OnItsWay, EventSent
  <2>3. OnItsWay'
    BY <1>4, <2>1, <2>2 DEF OnItsWay
  <2> QED BY <1>2, <1>3, <2>1, <2>3 DEF Life
<1>11. CASE Receive
  <2>1. /\ value' = value /\ wire' = wire /\ pc' = "done" /\ pc = "wire"
        /\ OnItsWay
    BY <1>11 DEF Receive, Life
  <2>2. result' = ReadArgument
    BY <1>11, <2>1, WireIsEvent DEF Receive, ReadArgument
  <2> QED BY <1>2, <1>3, <1>4, <1>5, <2>1, <2>2 DEF Life
<1>12. CASE Done \/ UNCHANGED vars
  <2>1. UNCHANGED vars
    BY <1>12 DEF Done
  <2> QED BY <1>2, <1>3, <1>4, <1>5, <2>1 DEF Life, vars
<1> QED BY <1>6, <1>7, <1>8, <1>9, <1>10, <1>11, <1>12 DEF Next

(* At every moment the record is what its stage says. *)
THEOREM RecordsInvariance == Spec => []RInv
<1> QED BY InitRInv, StepRInv, PTL DEF Spec

(***************************************************************************)
(* An event stays the event that was sent, but for its metadata, however    *)
(* often it is passed on (DataFrom and ValueFrom, types/src/lib.rs).        *)
(***************************************************************************)
THEOREM EventsSurvive == Spec => []EventSurvives
<1>1. RInv => EventSurvives
  BY WireIsEvent DEF RInv, Life, EventSurvives
<1> QED BY <1>1, RecordsInvariance, PTL

-----------------------------------------------------------------------------
(* What the reader makes of it *)

(* An object has a value for each field of its schema. *)
LEMMA ObjectTypes ==
  ASSUME NEW s \in Schema, NEW language, NEW o \in ObjectsOf(language, s)
  PROVE  /\ Len(o) = Len(s) /\ DOMAIN o = DOMAIN s
         /\ o = [i \in DOMAIN s |-> o[i]]
         /\ \A i \in DOMAIN s : o[i] \in ValuesOf(language, s[i])
<1>1. /\ DOMAIN o = DOMAIN s
      /\ o = [i \in DOMAIN s |-> o[i]]
      /\ \A i \in DOMAIN s : o[i] \in ValuesOf(language, s[i])
  BY DEF ObjectsOf
<1>2. Len(o) = Len(s)
  BY <1>1, SchemaTypes
<1> QED BY <1>1, <1>2

(***************************************************************************)
(* A reader whose fields are the writer's, but for optional ones, accepts   *)
(* what was written (Received, and the match of TryFrom in ZeekType).       *)
(***************************************************************************)
LEMMA CompatibleAccepts ==
  ASSUME NEW s \in Schema, NEW o \in ObjectsOf("rust", s), NEW r \in Schema,
         \A i \in DOMAIN r : i <= Len(s) => SameUpToOptional(s[i], r[i]),
         \A i \in DOMAIN r : i > Len(s) => r[i].optional
  PROVE  \A i \in DOMAIN r : Accepts(r[i], Received(o, i))
<1> TAKE i \in DOMAIN r
<1>1. i \in Nat /\ i >= 1 /\ Len(s) \in Nat /\ Len(o) = Len(s) /\ DOMAIN s = 1 .. Len(s)
  BY SchemaTypes, ObjectTypes
<1>2. CASE i <= Len(s)
  <2>1. o[i] \in ValuesOf("rust", s[i]) /\ s[i] \in Declared /\ r[i] \in Declared
    BY <1>1, <1>2, SchemaTypes, ObjectTypes
  <2>2. o[i].kind = s[i].kind \/ (s[i].optional /\ o[i] = Unset)
    BY <2>1 DEF ValuesOf, Scalar
  <2> QED BY <1>1, <1>2, <2>2 DEF Accepts, Received, SameUpToOptional
<1>3. CASE i > Len(s)
  BY <1>1, <1>3 DEF Accepts, Received
<1> QED BY <1>1, <1>2, <1>3

(***************************************************************************)
(* Records of ZeekType evolve: a reader with the writer's fields, fewer, or *)
(* more that are optional reads each as it was written, and no reader       *)
(* accepts what its declaration does not allow.                             *)
(***************************************************************************)
THEOREM RecordsEvolve == Spec => []RecordEvolution
<1>1. RInv => RecordEvolution
  <2> SUFFICES ASSUME RInv, pc = "done", writer.language = "rust", reader.language = "rust"
               PROVE  RecordEvolution
    BY DEF RecordEvolution
  <2> DEFINE s == writer.schema
             r == reader.schema
             Fits == \A i \in DOMAIN r : Accepts(r[i], Received(object, i))
             Read1 == Read([i \in DOMAIN r |-> Received(object, i)])
  <2>1. s \in Schema /\ r \in Schema /\ object \in ObjectsOf("rust", s)
    BY DEF RInv, Types
  <2>2. value = Vector(object) /\ result = RustRead(Vector(object), r)
    BY DEF RInv, Life, Written, RustWrite, ReadArgument, Argument
  <2>3. result = IF Fits THEN Read1 ELSE Failed
    BY <2>2 DEF RustRead, Vector
  <2>4. ASSUME \A i \in Overlap : SameUpToOptional(s[i], r[i]),
               \A i \in DOMAIN r \ Overlap : r[i].optional
        PROVE  result = Read1
    <3>1. Overlap = {i \in DOMAIN r : i <= Len(s)}
      BY <2>1, SchemaTypes DEF Overlap
    <3>2. \A i \in DOMAIN r : i > Len(s) => i \notin Overlap
      BY <2>1, <3>1, SchemaTypes
    <3>3. Fits
      BY <2>1, <2>4, <3>1, <3>2, CompatibleAccepts
    <3> QED BY <2>3, <3>3
  <2>5. ASSUME result.ok PROVE \A i \in DOMAIN r : Accepts(r[i], result.fields[i])
    <3>1. Fits /\ result = Read1
      BY <2>3, <2>5 DEF Failed
    <3> QED BY <3>1 DEF Read
  <2> QED BY <2>4, <2>5 DEF RecordEvolution
<1> QED BY <1>1, RecordsInvariance, PTL

(***************************************************************************)
(* What becomes of one attribute (Value::extract, convert_field): Python    *)
(* gets back what was put in, through a Real or an Address too; Rust takes  *)
(* what was put in as a Value of its kind, and nothing else.                *)
(***************************************************************************)
LEMMA AttributeComesBack ==
  ASSUME NEW f \in Declared, NEW g \in Declared, f.kind = g.kind,
         NEW a \in ValuesOf("python", f), a # Unset \/ g.optional
  PROVE  ConvertField(ExtractAttribute(a), g) = Plain(a)
<1>1. f.kind \in {"count", "string"}
  BY DEF Declared
<1>2. PICK k : (a = Scalar(k, f.name) /\ k \in PythonKinds[f.kind]) \/ a = Unset
  BY DEF ValuesOf
<1>3. CASE a = Unset
  <2>1. ExtractAttribute(a) = Unset
    BY <1>3 DEF ExtractAttribute, ExtractKind, Unset, Scalar
  <2> QED BY <1>3, <2>1 DEF ConvertField, Plain, Unset, Scalar
<1>4. CASE a # Unset /\ f.kind = "count"
  <2>1. a = Scalar("count", f.name) \/ a = Scalar("int", f.name)
    BY <1>2, <1>4 DEF PythonKinds
  <2> QED BY <1>4, <2>1 DEF ExtractAttribute, ExtractKind, ConvertField, IntOf, Plain, Unset, Scalar
<1>5. CASE a # Unset /\ f.kind = "string"
  <2>1. a = Scalar("string", f.name) \/ a = Scalar("ip", f.name)
    BY <1>2, <1>5 DEF PythonKinds
  <2> QED BY <1>5, <2>1 DEF ExtractAttribute, ExtractKind, ConvertField, TextOf, Plain, Unset, Scalar
<1> QED BY <1>1, <1>3, <1>4, <1>5

(* Only an optional field holds no value. *)
LEMMA UnsetIsOptional ==
  ASSUME NEW f \in Declared, NEW a \in ValuesOf("python", f), a = Unset
  PROVE  f.optional
<1>1. f.kind \in {"count", "string"}
  BY DEF Declared
<1>2. PythonKinds[f.kind] \subseteq {"count", "int", "string", "ip"}
  BY <1>1 DEF PythonKinds
<1> QED BY <1>2 DEF ValuesOf, Unset, Scalar

LEMMA AttributeInRust ==
  ASSUME NEW f \in Declared, NEW a \in ValuesOf("python", f)
  PROVE  /\ a.kind \notin {"int", "ip"} => ExtractAttribute(a) = a /\ Accepts(f, a)
         /\ a.kind \in {"int", "ip"} => ~Accepts(f, ExtractAttribute(a))
<1>1. f.kind \in {"count", "string"}
  BY DEF Declared
<1>2. \/ a = Unset /\ f.optional
      \/ f.kind = "count" /\ (a = Scalar("count", f.name) \/ a = Scalar("int", f.name))
      \/ f.kind = "string" /\ (a = Scalar("string", f.name) \/ a = Scalar("ip", f.name))
  BY <1>1 DEF ValuesOf, PythonKinds
<1> QED BY <1>2 DEF ExtractAttribute, ExtractKind, Accepts, Unset, Scalar

(* Extract makes a map from each field's name to its value. *)
LEMMA ExtractByName ==
  ASSUME NEW s \in Schema, NEW o \in ObjectsOf("python", s), Extract(o, s).kind = "record"
  PROVE  /\ Extract(o, s) = PyRecord(Extract(o, s).fields)
         /\ DOMAIN Extract(o, s).fields = {s[i].name : i \in DOMAIN s}
         /\ \A i \in DOMAIN s : Extract(o, s).fields[s[i].name] = ExtractAttribute(o[i])
<1> DEFINE fields == [n \in {s[i].name : i \in DOMAIN s} |->
                        ExtractAttribute(o[CHOOSE i \in AttributeIndex(s, n) : TRUE])]
<1>1. Extract(o, s) = PyRecord(fields)
  BY DEF Extract, PyEnum
<1>2. Extract(o, s).fields = fields
  BY <1>1 DEF PyRecord
<1>3. ASSUME NEW i \in DOMAIN s PROVE fields[s[i].name] = ExtractAttribute(o[i])
  <2>1. AttributeIndex(s, s[i].name) = {i}
    BY SchemaTypes DEF AttributeIndex
  <2>2. (CHOOSE j \in {i} : TRUE) = i
    OBVIOUS
  <2> QED BY <2>1, <2>2
<1> HIDE DEF fields
<1>4. DOMAIN fields = {s[i].name : i \in DOMAIN s}
  BY DEF fields
<1> QED BY <1>1, <1>2, <1>3, <1>4

(***************************************************************************)
(* Where it was made a Python record is read by name: each field of the     *)
(* reader that the writer has gets what the writer put in, whatever kind of *)
(* Value it was in between (Value::extract, as_record, convert_field).      *)
(***************************************************************************)
THEOREM ReadByName == Spec => []MatchesByName
<1>1. RInv => MatchesByName
  <2> SUFFICES ASSUME RInv, pc = "done", wire = Nothing, value.kind = "record",
                      NEW i \in DOMAIN writer.schema, NEW j \in DOMAIN reader.schema,
                      writer.schema[i].name = reader.schema[j].name, result.ok,
                      object[i] # Unset \/ reader.schema[j].optional
               PROVE  result.fields[j] = Plain(object[i])
    BY DEF MatchesByName
  <2> DEFINE s == writer.schema
             r == reader.schema
             given == Keywords(value, r)
  <2>1. writer.language = "python" /\ result = PythonRead(value, r)
    BY WireIsEvent DEF RInv, Life
  <2>2. /\ s \in Schema /\ r \in Schema /\ object \in ObjectsOf("python", s)
        /\ value = Extract(object, s) /\ s[i].kind = r[j].kind
    BY <2>1 DEF RInv, Life, Types, NamesTellKinds, Written
  <2>3. /\ s[i].name \in DOMAIN value.fields
        /\ value.fields[s[i].name] = ExtractAttribute(object[i])
    BY <2>2, ExtractByName
  <2>4. result.fields = [k \in DOMAIN r |->
                           IF k \in DOMAIN given THEN ConvertField(given[k], r[k]) ELSE Unset]
    BY <2>1 DEF PythonRead, Read, Failed
  <2>5. j \in DOMAIN given /\ given[j] = value.fields[r[j].name]
    BY <2>3 DEF Keywords
  <2>6. result.fields[j] = ConvertField(ExtractAttribute(object[i]), r[j])
    BY <2>3, <2>4, <2>5
  <2>7. s[i] \in Declared /\ r[j] \in Declared /\ object[i] \in ValuesOf("python", s[i])
    BY <2>2, SchemaTypes, ObjectTypes
  <2> QED BY <2>2, <2>6, <2>7, AttributeComesBack
<1> QED BY <1>1, RecordsInvariance, PTL

-----------------------------------------------------------------------------
(* The order of a map's entries *)

Ascending(f) == \A i, j \in DOMAIN f : i < j => f[i] < f[j]

Below(S, m) == {k \in S : k < m}

(* An element of a set of numbers listed in ascending order is preceded by  *)
(* as many smaller elements as its place says.                              *)
LEMMA PlaceIsRank ==
  ASSUME NEW S, S \subseteq Nat, NEW n \in Nat, NEW f \in Surjection(1 .. n, S),
         Ascending(f), NEW i \in 1 .. n
  PROVE  IsFiniteSet(Below(S, f[i])) /\ Cardinality(Below(S, f[i])) = i - 1
<1> DEFINE B == {k \in S : k < f[i]}
           g == [j \in 1 .. i - 1 |-> f[j]]
<1>1. f \in [1 .. n -> S] /\ \A x \in S : \E j \in 1 .. n : f[j] = x
  BY DEF Surjection
<1>2. \A j \in 1 .. n : f[j] \in Nat
  BY <1>1
<1>3. \A j \in 1 .. n : f[j] < f[i] <=> j < i
  BY <1>1, <1>2 DEF Ascending
<1>4. g \in [1 .. i - 1 -> B]
  BY <1>1, <1>3
<1>5. ASSUME NEW x \in B PROVE \E j \in 1 .. i - 1 : g[j] = x
  <2>1. PICK j \in 1 .. n : f[j] = x
    BY <1>1
  <2>2. j \in 1 .. i - 1
    BY <1>3, <2>1
  <2> QED BY <2>1, <2>2
<1>6. ASSUME NEW j \in 1 .. i - 1, NEW k \in 1 .. i - 1, j < k PROVE g[j] # g[k]
  BY <1>1, <1>2, <1>6 DEF Ascending
<1>7. ASSUME NEW j \in 1 .. i - 1, NEW k \in 1 .. i - 1, g[j] = g[k] PROVE j = k
  BY <1>6, <1>7
<1>8. g \in Bijection(1 .. i - 1, B)
  <2> HIDE DEF g, B
  <2> QED BY <1>4, <1>5, <1>7 DEF Bijection, Injection, Surjection, IsInjective
<1>9. IsFiniteSet(1 .. i - 1) /\ Cardinality(1 .. i - 1) = i - 1
  BY FS_Interval
<1>10. ExistsBijection(1 .. i - 1, B)
  BY <1>8 DEF ExistsBijection
<1> HIDE DEF B
<1>11. IsFiniteSet(B) /\ Cardinality(B) = i - 1
  BY <1>9, <1>10, FS_Bijection
<1> QED BY <1>11 DEF B, Below

(* A set of numbers is listed in ascending order in one way only. *)
LEMMA OneOrder ==
  ASSUME NEW S, S \subseteq Nat, NEW n \in Nat,
         NEW f \in Surjection(1 .. n, S), Ascending(f),
         NEW g \in Surjection(1 .. n, S), Ascending(g)
  PROVE  f = g
<1>1. /\ f \in [1 .. n -> S] /\ g \in [1 .. n -> S]
      /\ \A i \in 1 .. n : f[i] \in Nat /\ g[i] \in Nat
  BY DEF Surjection
<1>2. ASSUME NEW i \in 1 .. n PROVE f[i] = g[i]
  <2>1. /\ IsFiniteSet(Below(S, f[i])) /\ IsFiniteSet(Below(S, g[i]))
        /\ Cardinality(Below(S, f[i])) = Cardinality(Below(S, g[i]))
    <3>1. IsFiniteSet(Below(S, f[i])) /\ Cardinality(Below(S, f[i])) = i - 1
      BY PlaceIsRank
    <3>2. IsFiniteSet(Below(S, g[i])) /\ Cardinality(Below(S, g[i])) = i - 1
      BY PlaceIsRank
    <3> QED BY <3>1, <3>2
  <2>2. ASSUME NEW k \in S, NEW m \in S, k < m,
               IsFiniteSet(Below(S, k)), IsFiniteSet(Below(S, m)),
               Cardinality(Below(S, k)) = Cardinality(Below(S, m))
        PROVE  FALSE
    <3>1. Below(S, k) \in SUBSET Below(S, m)
      <4>1. \A x \in S : x < k => x < m
        BY <2>2
      <4> QED BY <4>1 DEF Below
    <3>2. k \in Below(S, m) /\ k \notin Below(S, k)
      BY <2>2 DEF Below
    <3>3. Below(S, m) = Below(S, k)
      BY <2>2, <3>1, FS_Subset
    <3> QED BY <3>2, <3>3
  <2>3. f[i] \in S /\ g[i] \in S /\ ~(f[i] < g[i]) /\ ~(g[i] < f[i])
    BY <1>1, <2>1, <2>2
  <2> QED BY <1>1, <2>3
<1> QED BY <1>1, <1>2

(***************************************************************************)
(* InOrder finds the ascending list of a set that has one: it is the order  *)
(* in which a BTreeMap gives away its entries.                              *)
(***************************************************************************)
LEMMA InOrderAscends ==
  ASSUME NEW S, S \subseteq Nat, NEW n \in Nat,
         NEW f \in Bijection(1 .. n, S), Ascending(f)
  PROVE  InOrder(S) = f
<1> DEFINE g == InOrder(S)
<1>1. IsFiniteSet(1 .. n) /\ Cardinality(1 .. n) = n
  BY FS_Interval
<1>2. IsFiniteSet(S) /\ Cardinality(S) = n
  BY <1>1, FS_Bijection DEF ExistsBijection
<1>3. f \in [1 .. n -> S] /\ f \in Surjection(1 .. n, S)
  BY DEF Bijection, Injection, Surjection
<1>4. g \in [1 .. n -> S] /\ Ascending(g)
  BY <1>2, <1>3 DEF InOrder, Ascending
<1> HIDE DEF g
<1>5. ASSUME NEW i \in 1 .. n, NEW j \in 1 .. n, g[i] = g[j] PROVE i = j
  <2>1. g[i] \in Nat /\ g[j] \in Nat
    BY <1>4
  <2>2. ~(i < j) /\ ~(j < i)
    BY <1>4, <1>5, <2>1 DEF Ascending
  <2> QED BY <2>2
<1>6. g \in Injection(1 .. n, S)
  BY <1>4, <1>5 DEF Injection, IsInjective
<1>7. g \in Surjection(1 .. n, S)
  BY <1>1, <1>2, <1>6, FS_Injection
<1>8. g = f
  BY <1>3, <1>4, <1>7, OneOrder
<1> QED BY <1>8 DEF g

Names(s) == {s[i].name : i \in DOMAIN s}

(* Fields declared in the order of their names are taken from the map in    *)
(* the order in which they were declared (into_values).                     *)
LEMMA SortedFields ==
  ASSUME NEW s \in Schema, InNameOrder(s), NEW T, NEW t \in [DOMAIN s -> T],
         NEW fields, DOMAIN fields = Names(s),
         \A i \in DOMAIN s : fields[s[i].name] = t[i]
  PROVE  FieldsInOrder(fields) = t
<1> DEFINE S == Names(s)
           n == Len(s)
           f == [i \in 1 .. n |-> s[i].name]
<1>1. /\ n \in Nat /\ DOMAIN s = 1 .. n
      /\ \A i \in DOMAIN s : s[i].name \in Nat
      /\ \A i, j \in DOMAIN s : s[i].name = s[j].name => i = j
  BY SchemaTypes, RecordsAssumption DEF Declared
<1>2. S \subseteq Nat
  BY <1>1 DEF Names
<1>3. f \in [1 .. n -> S]
  BY <1>1 DEF Names
<1>4. \A i, j \in 1 .. n : f[i] = f[j] => i = j
  BY <1>1
<1>5. \A x \in S : \E i \in 1 .. n : f[i] = x
  BY <1>1 DEF Names
<1>6. Ascending(f)
  BY <1>1 DEF Ascending, InNameOrder
<1>7. /\ t = [i \in 1 .. n |-> t[i]]
      /\ \A i \in 1 .. n : fields[f[i]] = t[i]
      /\ DOMAIN fields = S
  BY <1>1
<1> HIDE DEF S, f, n
<1>8. f \in Bijection(1 .. n, S)
  BY <1>3, <1>4, <1>5 DEF Bijection, Injection, Surjection, IsInjective
<1>9. InOrder(S) = f
  BY <1>1, <1>2, <1>6, <1>8, InOrderAscends
<1>10. FieldsInOrder(fields) = [i \in 1 .. n |-> fields[f[i]]]
  BY <1>3, <1>7, <1>9 DEF FieldsInOrder
<1> QED BY <1>7, <1>10

(***************************************************************************)
(* A Python record that declares its fields in the order of their names     *)
(* arrives as it was written: in Python always, in Rust if its numbers were *)
(* put into Values of their kind and no str reads as an address; otherwise  *)
(* Rust refuses it.                                                         *)
(***************************************************************************)
THEOREM SortedArrive == Spec => []SortedRecordsArrive
<1>1. RInv => SortedRecordsArrive
  <2> SUFFICES ASSUME RInv, pc = "done", wire # Nothing,
                      writer.language = "python", value.kind = "record",
                      reader.schema = writer.schema, InNameOrder(writer.schema)
               PROVE  result = IF reader.language = "python"
                                 THEN Read([i \in DOMAIN object |-> Plain(object[i])])
                               ELSE IF Explicit(object) THEN Read(object)
                               ELSE Failed
    BY DEF SortedRecordsArrive
  <2> DEFINE s == writer.schema
             sent == [i \in DOMAIN s |-> ExtractAttribute(object[i])]
  <2>1. /\ s \in Schema /\ object \in ObjectsOf("python", s)
        /\ value = Extract(object, s) /\ result = ReadArgument
        /\ reader.language \in {"rust", "python"}
    BY RecordsAssumption DEF RInv, Life, Types, Written
  <2>2. Argument = Vector(sent)
    <3>1. /\ DOMAIN value.fields = Names(s)
          /\ \A i \in DOMAIN s : value.fields[s[i].name] = sent[i]
      BY <2>1, ExtractByName DEF Names
    <3>2. PICK T : sent \in [DOMAIN s -> T]
      <4>1. sent \in [DOMAIN s -> {ExtractAttribute(object[i]) : i \in DOMAIN s}]
        OBVIOUS
      <4> QED BY <4>1
    <3>3. InNameOrder(s)
      OBVIOUS
    <3> HIDE DEF sent, s
    <3>4. FieldsInOrder(value.fields) = sent
      BY <2>1, <3>1, <3>2, <3>3, SortedFields
    <3> QED BY <3>4 DEF Argument, PyToRust
  <2>3. /\ Len(s) \in Nat /\ DOMAIN s = 1 .. Len(s)
        /\ DOMAIN object = DOMAIN s
        /\ object = [i \in DOMAIN s |-> object[i]]
        /\ \A i \in DOMAIN s : s[i] \in Declared /\ object[i] \in ValuesOf("python", s[i])
    BY <2>1, SchemaTypes, ObjectTypes
  <2>4. /\ Len(sent) = Len(s) /\ DOMAIN sent = DOMAIN s
        /\ sent = [i \in DOMAIN s |-> sent[i]]
        /\ \A i \in DOMAIN s : sent[i] = ExtractAttribute(object[i])
    BY <2>3
  <2>5. CASE reader.language = "rust"
    <3>1. result = RustRead(Vector(sent), s)
      BY <2>1, <2>2, <2>5 DEF ReadArgument
    <3> HIDE DEF sent, s
    <3>2. \A i \in DOMAIN s : Received(sent, i) = sent[i]
      BY <2>3, <2>4 DEF Received
    <3>3. result = IF \A i \in DOMAIN s : Accepts(s[i], sent[i]) THEN Read(sent) ELSE Failed
      BY <2>4, <3>1, <3>2 DEF RustRead, Vector
    <3>4. CASE Explicit(object)
      <4>1. \A i \in DOMAIN s : sent[i] = object[i] /\ Accepts(s[i], sent[i])
        BY <2>3, <2>4, <3>4, AttributeInRust DEF Explicit
      <4>2. sent = object
        BY <2>3, <2>4, <4>1
      <4> QED BY <2>5, <3>3, <3>4, <4>1, <4>2
    <3>5. CASE ~Explicit(object)
      <4>1. PICK i \in DOMAIN s : object[i].kind \in {"int", "ip"}
        BY <2>3, <3>5 DEF Explicit
      <4>2. ~Accepts(s[i], sent[i])
        BY <2>3, <2>4, <4>1, AttributeInRust
      <4> QED BY <2>5, <3>3, <3>5, <4>2
    <3> QED BY <3>4, <3>5
  <2>6. CASE reader.language = "python"
    <3>1. result = PythonRead(PyVector(sent), s)
      BY <2>1, <2>2, <2>6 DEF ReadArgument, PyFromRust, Vector
    <3> HIDE DEF sent, s
    <3>2. Keywords(PyVector(sent), s) = sent
      <4>1. {j \in DOMAIN s : j <= Len(sent)} = DOMAIN s
        BY <2>3, <2>4
      <4>2. Keywords(PyVector(sent), s)
              = [i \in {j \in DOMAIN s : j <= Len(sent)} |-> sent[i]]
        BY DEF Keywords, PyVector
      <4> QED BY <2>4, <4>1, <4>2
    <3>3. result = Read([i \in DOMAIN s |-> ConvertField(sent[i], s[i])])
      <4>1. PyVector(sent).kind # "enum"
        BY DEF PyVector
      <4> QED BY <2>4, <3>1, <3>2, <4>1 DEF PythonRead
    <3>4. \A i \in DOMAIN s : ConvertField(sent[i], s[i]) = Plain(object[i])
      <4>1. \A i \in DOMAIN s : object[i] # Unset \/ s[i].optional
        BY <2>3, UnsetIsOptional
      <4> QED BY <2>3, <2>4, <4>1, AttributeComesBack
    <3> QED BY <2>3, <2>6, <3>3, <3>4
  <2> QED BY <2>1, <2>5, <2>6
<1> QED BY <1>1, RecordsInvariance, PTL

=============================================================================
