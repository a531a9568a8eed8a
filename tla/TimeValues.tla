----------------------------- MODULE TimeValues -----------------------------
(***************************************************************************)
(* Timespans and timestamps between programs: made from integers by the C   *)
(* and the Node.js API, written to and read from the JSON text of Zeek's    *)
(* WebSocket API (mod timespan and mod timestamp of zeek-websocket-types),  *)
(* passed on, and read back.  All quantities are in nanoseconds, and the    *)
(* scale is small: a second has Second of them, an i64 has IntBits bits and *)
(* an f64 a mantissa of FloatBits.                                          *)
(***************************************************************************)
EXTENDS Floats, Journey

CONSTANTS
  Second,    \* nanoseconds of a second
  Units,     \* nanoseconds of every unit of the text
  Hosts, Offsets,  \* programs run on hosts, whose local time has an offset
  MaxChanges \* bound: how often an offset changes (daylight saving time)

ASSUME TimeValuesAssumption ==
  /\ Second \in Nat \ {0} /\ {1, Second} \subseteq Units
  /\ \A u \in Units : u \in Nat \ {0} /\ (Second % u = 0 \/ u % Second = 0)
  /\ Offsets \subseteq Int /\ MaxHops \in Nat /\ MaxChanges \in Nat

(***************************************************************************)
(* pc is "value", "text", "read", or the panics "refused", "overflow" and   *)
(* the errors "undecodable", "unreadable"; origin has the host, too.        *)
(***************************************************************************)
VARIABLES
  host,     \* where the value is now
  value,    \* a Duration, or an OffsetDateTime
  text,     \* the JSON text
  offset,   \* the local offset of every host
  changes   \* of an offset

tvVars == <<kind, pc, origin, host, value, text, offset, hops, changes, result>>

-----------------------------------------------------------------------------
MaxInt == 2 ^ (IntBits - 1) - 1
MinInt == -(2 ^ (IntBits - 1))
I64    == MinInt .. MaxInt

(* Durations: whole seconds in an i64, and nanoseconds of the same sign. *)
Durations == (MinInt * Second - (Second - 1)) .. (MaxInt * Second + (Second - 1))

-----------------------------------------------------------------------------
WrittenAs(program, k) ==
  CASE program = "rust" /\ k = "span" -> Durations
    [] program = "node"               -> {JsNumber(n) : n \in I64} \cap I64
    [] OTHER                          -> I64

(* TryFrom<Value> of the Node.js bindings: the seconds are split off in f64. *)
NodeSpan(nanos) ==
  LET f    == Float(nanos, 1)
      secs == Float(f, Second)
      rest == Float(f - Float(secs * Second, 1), 1)
  IN  secs * Second + rest

Moment(utc, zone) == [utc |-> utc, offset |-> zone]

(* What the constructors make of a number; the C API takes UTC. *)
ValueOf(program, k, n) ==
  IF k = "stamp" THEN Moment(n, 0)
  ELSE IF program = "node" THEN NodeSpan(n) ELSE n

-----------------------------------------------------------------------------
Refused == [num |-> 0, unit |-> 0]

(* Mutant of SpanText: the range is checked on the magnitude. *)
SpanTextMagnitude(d) ==
  IF d % Second = 0 THEN [num |-> d \div Second, unit |-> Second]
  ELSE IF d \in -MaxInt .. MaxInt THEN [num |-> d, unit |-> 1]
  ELSE Refused

(* timespan::serialize *)
SpanText(d) ==
  IF d % Second = 0 THEN [num |-> d \div Second, unit |-> Second]
  ELSE IF d \in I64 THEN [num |-> d, unit |-> 1]
  ELSE Refused

(* Mutant of StampText: the time of day as the value has it. *)
StampTextAsIs(t, zone) == [num |-> t.utc + t.offset, unit |-> 1]

(* timestamp::serialize: local time, without its offset *)
StampText(t, zone) == [num |-> t.utc + zone, unit |-> 1]

(* timespan::deserialize: Duration counts seconds in an i64 *)
SpanOf(x) == x.num * x.unit

(* timestamp::deserialize: taken for local time *)
StampOf(x, zone) == Moment(x.num - zone, zone)

(* Node.js: the time of day in the local offset of now *)
NodeStamp(t, zone) == t.utc + t.offset - zone

-----------------------------------------------------------------------------
TVInit ==
  /\ kind \in {"span", "stamp"}
  /\ offset \in [Hosts -> Offsets]
  /\ hops = 0 /\ changes = 0
  /\ result = [by |-> "nobody", ok |-> FALSE, num |-> 0]
  /\ \E program \in {"rust", "c", "node", "zeek"}, h \in Hosts :
       \E n \in WrittenAs(program, kind) :
         /\ host = h
         /\ origin = [program |-> program, host |-> h, num |-> n]
         /\ value = ValueOf(program, kind, n)
         /\ IF program = "zeek"
              THEN /\ pc = "text"
                   /\ IF kind = "stamp" THEN text = StampText(value, offset[h])
                      ELSE \E u \in Units : text = [num |-> n, unit |-> u]
              ELSE pc = "value" /\ text = Refused

(* Message to tungstenite::Message: an error of the conversion is a panic. *)
Serialize ==
  /\ pc = "value" /\ hops < MaxHops
  /\ text' = IF kind = "span" THEN SpanText(value) ELSE StampText(value, offset[host])
  /\ pc' = IF text' = Refused THEN "refused" ELSE "text"
  /\ UNCHANGED <<kind, origin, host, value, offset, hops, changes, result>>

(* Another program takes the value off the wire. *)
Deserialize ==
  /\ pc = "text" /\ hops < MaxHops
  /\ \E h \in Hosts :
       /\ host' = h
       /\ value' = IF kind = "span" THEN SpanOf(text) ELSE StampOf(text, offset[h])
  /\ hops' = hops + 1
  /\ pc' = IF kind = "span" /\ value' \notin Durations THEN "overflow" ELSE "value"
  /\ UNCHANGED <<kind, origin, text, offset, changes, result>>

(* A number that is no i64 is not returned. *)
ReturnTo(program, n) ==
  /\ result' = IF n \notin I64 THEN [by |-> program, ok |-> FALSE, num |-> 0]
               ELSE [by  |-> program, ok |-> TRUE,
                     num |-> IF program = "node" THEN JsNumber(n) ELSE n]
  /\ pc' = "read"
  /\ UNCHANGED <<kind, origin, host, value, text, offset, hops, changes>>

(* zws_value_as_timespan and zws_value_as_timestamp *)
ReadC ==
  /\ pc = "value" /\ (origin.program = "c" \/ hops > 0)
  /\ ReturnTo("c", IF kind = "span" THEN value ELSE value.utc)

(* TryFrom<Value> of the Node.js bindings, for what was received *)
ReadNode ==
  /\ pc = "value" /\ hops > 0
  /\ ReturnTo("node", IF kind = "span" THEN value ELSE NodeStamp(value, offset[host]))

(***************************************************************************)
(* UtcOffset::current_local_offset fails: a panic of the sender, an error   *)
(* of the receiver, and of Node.js when it reads.                           *)
(***************************************************************************)
OffsetUnknown ==
  /\ kind = "stamp"
  /\ \/ pc = "value" /\ hops < MaxHops /\ pc' = "refused"
     \/ pc = "text" /\ hops < MaxHops /\ pc' = "undecodable"
     \/ pc = "value" /\ hops > 0 /\ pc' = "unreadable"
  /\ UNCHANGED <<kind, origin, host, value, text, offset, hops, changes, result>>

(* Local time changes. *)
OffsetChanges ==
  /\ pc \in {"value", "text"} /\ changes < MaxChanges
  /\ \E h \in Hosts, z \in Offsets : offset' = [offset EXCEPT ![h] = z]
  /\ changes' = changes + 1
  /\ UNCHANGED <<pc, kind, origin, host, value, text, hops, result>>

TVDone ==
  /\ pc \in {"read", "refused", "overflow", "undecodable", "unreadable"}
  /\ UNCHANGED tvVars

TVNext ==
  \/ Serialize \/ Deserialize
  \/ ReadC \/ ReadNode
  \/ OffsetUnknown \/ OffsetChanges
  \/ TVDone

TVSpec == TVInit /\ [][TVNext]_tvVars

-----------------------------------------------------------------------------
(* What a program gets to see of n *)
Seen(n) == IF result.by = "node" THEN JsNumber(n) ELSE n

(***************************************************************************)
(* A timespan written without floats is exact wherever it goes and in       *)
(* whichever unit it travels; one that is no i64 of nanoseconds is not      *)
(* returned.  One that is, is never refused on the way.  The Node.js        *)
(* bindings split a timespan into seconds and nanoseconds with floats, of   *)
(* which each step may round: up to 2 ^ FloatBits nanoseconds (104 days)    *)
(* the result is exact nevertheless, in C as in Node.js.                    *)
(***************************************************************************)
SpansExact ==
  kind = "span" =>
    /\ origin.program \in {"rust", "c"} =>
         /\ pc = "read" => IF origin.num \in I64
                             THEN result.ok /\ result.num = Seen(origin.num)
                             ELSE ~result.ok
         /\ origin.num \in I64 => pc \notin {"refused", "overflow"}
    /\ (/\ origin.program = "node" /\ pc = "read"
        /\ origin.num \in -(2 ^ FloatBits) .. 2 ^ FloatBits)
         => result.ok /\ result.num = origin.num

(***************************************************************************)
(* A timestamp travels as local time without its offset.  As long as no     *)
(* offset changes it arrives shifted by exactly the difference of the local *)
(* offsets of the first host and the last, whatever hosts it passed in      *)
(* between and whichever API reads it.                                      *)
(***************************************************************************)
StampsShiftByOffsets ==
  kind = "stamp" /\ pc = "read" /\ changes = 0 /\ result.ok =>
    result.num = Seen(origin.num + offset[origin.host] - offset[host])

=============================================================================
