------------------------------- MODULE Numbers -------------------------------
(***************************************************************************)
(* Numbers between programs: made from the types of Rust, C, Python or      *)
(* Node.js, sent as an argument of an event in the JSON text of Zeek's      *)
(* WebSocket API, passed on, and read into the types of any of them.        *)
(* Numbers are counted in halves, so that floats have a fraction; Float     *)
(* rounds halves as it rounds integers.                                     *)
(***************************************************************************)
EXTENDS Floats, Journey, FiniteSets, Sequences

CONSTANT NarrowBits \* width of u8, u16, u32 and their signed relatives

ASSUME NumbersAssumption == NarrowBits \in 1 .. IntBits /\ MaxHops \in Nat

(***************************************************************************)
(* pc is "host", "value", "wire", "read", or why not: "refused",            *)
(* "undecodable"; origin says as what the number is made, result as what it *)
(* is read.                                                                 *)
(***************************************************************************)
VARIABLES
  args,    \* the arguments of the event: the number and another one
  wire     \* the text of the arguments

vars == <<kind, pc, origin, args, wire, hops, result>>

-----------------------------------------------------------------------------
Value(type, num) == [kind |-> type, num |-> num, finite |-> TRUE]

(* Real holds an f64, which may be a NaN or an infinity. *)
NotFinite == [kind |-> "real", num |-> 0, finite |-> FALSE]

(* The integers of a type of Rust: Count is unsigned, Integer is not. *)
IntegersOf(type, bits) ==
  {2 * n : n \in IF type = "count" THEN 0 .. 2 ^ bits - 1
                 ELSE -(2 ^ (bits - 1)) .. 2 ^ (bits - 1) - 1}

(* The int of Python and the BigInt of JavaScript are wider. *)
Wide == {2 * n : n \in -(2 ^ IntBits) .. 2 ^ (IntBits + 1)}

Finite == {h \in -(2 ^ (IntBits + 2)) .. 2 ^ (IntBits + 2) : JsNumber(h) = h}

Magnitude(h) == IF h < 0 THEN -h ELSE h

(***************************************************************************)
(* serde_json, built without float_roundtrip, reads a float exactly when    *)
(* its decimal digits, here with one after the point, fit a mantissa; any   *)
(* other may come out as one of the floats next to it.                      *)
(***************************************************************************)
Exact(h) == 5 * Magnitude(h) <= 2 ^ FloatBits

Between(g, h) == {x \in Finite : (g < x /\ x < h) \/ (h < x /\ x < g)}

Parsed == [h \in Finite |-> IF Exact(h) THEN {h} ELSE {g \in Finite : Between(g, h) = {}}]

-----------------------------------------------------------------------------
(* What the programs make numbers from.  How napi hands out the BigInt 0    *)
(* is not known from the source.                                            *)
Sources ==
  [rust   |-> {"count", "integer", "real"},
   c      |-> {"count", "integer", "real"},
   node   |-> {"count", "integer", "real"},
   zeek   |-> {"count", "integer", "real"},
   python |-> {"count", "integer", "real", "int"}]

Written(program, as) ==
  IF as = "real" THEN Finite
  ELSE IF program = "python" THEN Wide
  ELSE IF program = "node" /\ as = "count" THEN Wide \ {0}
  ELSE IF program = "node" THEN IntegersOf(as, IntBits) \cap Finite
  ELSE IntegersOf(as, IntBits)

Fits(v) == v.kind = "real" \/ v.num \in IntegersOf(v.kind, IntBits)

(***************************************************************************)
(* The Value made of a number, which has to fit.  An int of Python that is  *)
(* not put into a Value explicitly is a Real; the Node.js bindings take the *)
(* magnitude of a BigInt, and not its sign.                                 *)
(***************************************************************************)
Made(program, as, num) ==
  IF program = "python" /\ as = "int" THEN Value("real", JsNumber(num))
  ELSE IF program = "node" /\ as = "count" THEN Value(as, Magnitude(num))
  ELSE Value(as, num)

(* Mutant of Text: floats are written without their fraction. *)
TextWhole(v) == IF v.finite THEN [kind |-> v.kind, num |-> 2 * Trunc(v.num, 2), null |-> FALSE]
                            ELSE [kind |-> v.kind, num |-> 0, null |-> TRUE]

(* Serialize: serde_json writes null for a float that is not finite. *)
Text(v) == IF v.finite THEN [kind |-> v.kind, num |-> v.num, null |-> FALSE]
                       ELSE [kind |-> v.kind, num |-> 0, null |-> TRUE]

(* Mutant of Decodable: a null is read as a number. *)
DecodableNull(texts) == texts # <<>>

(* Deserialize of Value: no number is null, and the message is read as a whole. *)
Decodable(texts) == \A i \in DOMAIN texts : ~texts[i].null

ValuesOf(x) ==
  IF x.null THEN {NotFinite}
  ELSE {Value(x.kind, h) : h \in IF x.kind = "real" THEN Parsed[x.num] ELSE {x.num}}

-----------------------------------------------------------------------------
(* What a reader asks for.                                                  *)
Asks ==
  [program : {"rust"}, kind : {"count", "integer", "real"}, bits : {NarrowBits, IntBits}]
    \cup [program : {"c"}, kind : {"count", "integer", "real"}, bits : {IntBits}]
    \cup [program : {"node"}, kind : {"any"}, bits : {IntBits}]
    \cup [program : {"python"}, kind : {"any", "int", "float"}, bits : {IntBits}]

Nothing == [ok |-> FALSE, num |-> 0, finite |-> TRUE]
Got(num, finite) == [ok |-> TRUE, num |-> num, finite |-> finite]

(* Mutant of RustRead: `as` instead of try_into. *)
RustReadWraps(v, type, bits) ==
  IF v.kind # type THEN Nothing
  ELSE IF type = "real" \/ v.num \in IntegersOf(type, bits) THEN Got(v.num, v.finite)
  ELSE Got(v.num % 2 ^ (bits + 1), TRUE)

(* TryFrom<Value>: another kind mismatches, and the number has to fit. *)
RustRead(v, type, bits) ==
  IF v.kind = type /\ (type = "real" \/ v.num \in IntegersOf(type, bits))
    THEN Got(v.num, v.finite)
    ELSE Nothing

(* zws_value_as_count, zws_value_as_integer, zws_value_as_real *)
CRead(v, type) == IF v.kind = type THEN Got(v.num, v.finite) ELSE Nothing

(* TryFrom<zeek_websocket::Value>: an Integer becomes a number of JavaScript. *)
NodeRead(v) == IF v.kind = "integer" THEN Got(JsNumber(v.num), TRUE) ELSE Got(v.num, v.finite)

(***************************************************************************)
(* Value.value, or as_record with a field declared int or float: the type   *)
(* is called with the value.  int truncates and takes no NaN, which is then *)
(* passed as it is; float rounds.                                           *)
(***************************************************************************)
PythonRead(v, hint) ==
  IF hint = "int" /\ v.finite THEN Got(2 * Trunc(v.num, 2), TRUE)
  ELSE IF hint = "float" THEN Got(JsNumber(v.num), v.finite)
  ELSE Got(v.num, v.finite)

-----------------------------------------------------------------------------
OriginsOf(p) ==
  UNION {[program : {p}, as : {a}, num : Written(p, a), finite : {TRUE}] : a \in Sources[p]}

Origins ==
  (UNION {OriginsOf(p) : p \in DOMAIN Sources})
    \cup [program : DOMAIN Sources \ {"zeek"}, as : {"real"}, num : {0}, finite : {FALSE}]

Init ==
  /\ kind = "number"
  /\ pc = "host" /\ origin \in Origins
  /\ args = <<>> /\ wire = <<>> /\ hops = 0
  /\ result = [ask |-> Nothing, got |-> Nothing]

Number ==
  IF origin.finite THEN Made(origin.program, origin.as, origin.num) ELSE NotFinite

Make ==
  /\ pc = "host"
  /\ IF Fits(Number)
       THEN /\ pc' = "value"
            /\ \E other \in {Value("count", 2)} \cup
                            (IF origin.program = "zeek" THEN {} ELSE {NotFinite}) :
                 args' = <<Number, other>>
       ELSE pc' = "refused" /\ args' = args
  /\ UNCHANGED <<kind, origin, wire, hops, result>>

Send ==
  /\ pc = "value" /\ hops < MaxHops
  /\ wire' = [i \in DOMAIN args |-> Text(args[i])]
  /\ pc' = "wire"
  /\ UNCHANGED <<kind, origin, args, hops, result>>

Arrive ==
  /\ pc = "wire"
  /\ IF Decodable(wire)
       THEN /\ pc' = "value"
            /\ \E v \in ValuesOf(wire[1]), w \in ValuesOf(wire[2]) : args' = <<v, w>>
       ELSE pc' = "undecodable" /\ args' = args
  /\ hops' = hops + 1
  /\ UNCHANGED <<kind, origin, wire, result>>

(* A value is read where it arrived; in Rust, C and Python also where it was made. *)
ReadBy(ask, got) ==
  /\ pc = "value"
  /\ hops > 0 \/ ask.program = origin.program
  /\ pc' = "read" /\ result' = [ask |-> ask, got |-> got]
  /\ UNCHANGED <<kind, origin, args, wire, hops>>

Read ==
  \E ask \in Asks :
    \/ ask.program = "rust" /\ ReadBy(ask, RustRead(args[1], ask.kind, ask.bits))
    \/ ask.program = "c" /\ ReadBy(ask, CRead(args[1], ask.kind))
    \/ ask.program = "node" /\ hops > 0 /\ ReadBy(ask, NodeRead(args[1]))
    \/ ask.program = "python" /\ ReadBy(ask, PythonRead(args[1], ask.kind))

Done == pc \in {"read", "refused", "undecodable"} /\ UNCHANGED vars

Next == Make \/ Send \/ Arrive \/ Read \/ Done

Spec == Init /\ [][Next]_vars

-----------------------------------------------------------------------------
Asked == result.ask
Answer == result.got

(* What of the number fits what was asked for. *)
Acceptable ==
  \/ Asked.kind \in {"any", "int", "float"}
  \/ Asked.kind = origin.as /\ origin.num \in IntegersOf(Asked.kind, Asked.bits)

ThroughFloat ==
  (Asked.program = "node" /\ origin.as = "integer") \/ Asked.kind = "float"

(***************************************************************************)
(* A Count or an Integer is read as the number that was written, wherever   *)
(* it goes, rounded once at the end by a reader whose numbers are floats;   *)
(* or not at all, when it is of another kind or does not fit.  It is        *)
(* refused where it is made only if no reader could have it.  (Not for a    *)
(* negative BigInt made a Count, which loses its sign.)                     *)
(***************************************************************************)
WholeNumbersExact ==
  /\ kind = "number" /\ origin.as \in {"count", "integer"}
  /\ origin.program = "node" => Fits(Value(origin.as, origin.num))
  =>
    /\ pc = "read" =>
         Answer = IF Acceptable
                    THEN Got(IF ThroughFloat THEN JsNumber(origin.num) ELSE origin.num, TRUE)
                    ELSE Nothing
    /\ pc = "refused" => ~Fits(Value(origin.as, origin.num))

(***************************************************************************)
(* A Real, which an int that Python puts into a Value always is             *)
(* (README.md:105), is read as the float that was written, or by `int`      *)
(* truncated, as long as its digits fit a mantissa; any other is off by at  *)
(* most one float for every time it was sent.                               *)
(***************************************************************************)
RealsDrift ==
  kind = "number" /\ pc = "read" /\ Answer.ok /\ origin.finite /\ Number.kind = "real" =>
    IF Asked.kind = "int"
      THEN Exact(Number.num) => Answer.num = 2 * Trunc(Number.num, 2)
      ELSE \/ Answer.num = Number.num
           \/ ~Exact(Number.num) /\ Cardinality(Between(Answer.num, Number.num)) < hops

(***************************************************************************)
(* One argument that is a NaN or an infinity makes the whole event          *)
(* undecodable for the first program it is sent to; no other number does.   *)
(***************************************************************************)
OnlyFiniteArrive ==
  kind = "number" =>
    /\ hops > 0 /\ pc # "undecodable" =>
         origin.finite /\ \A i \in DOMAIN args : args[i].finite
    /\ pc = "undecodable" => hops = 1 /\ \E i \in DOMAIN args : ~args[i].finite

=============================================================================
