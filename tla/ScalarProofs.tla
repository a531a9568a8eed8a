---------------------------- MODULE ScalarProofs ----------------------------
(***************************************************************************)
(* Theorems about Numbers and TimeValues, for any width of the integers and *)
(* of the mantissa of a float, any number of hops, any second, units, hosts *)
(* and offsets; and what they need to know of Floats.                       *)
(***************************************************************************)
EXTENDS Numbers, TimeValues, Lemmas

-----------------------------------------------------------------------------
(* Timestamps *)

StampTypes ==
  /\ offset \in [Hosts -> Int]
  /\ origin.host \in Hosts /\ host \in Hosts /\ origin.num \in Int
  /\ hops \in Nat /\ changes \in Nat

(* What is seen of the timestamp on a host, while no offset changes *)
SeenOn(h) == origin.num + offset[origin.host] - offset[h]

(***************************************************************************)
(* The inductive invariant: the text is the local time of the first host;   *)
(* what is read from it is the moment at which the last host's clock shows  *)
(* that time, kept with the last host's offset.                             *)
(***************************************************************************)
StampInv ==
  kind = "stamp" =>
    /\ StampTypes
    /\ hops = 0 => host = origin.host
    /\ changes = 0 =>
         /\ pc = "value" => value = Moment(SeenOn(host), IF hops = 0 THEN 0 ELSE offset[host])
         /\ pc = "text" => text = [num |-> origin.num + offset[origin.host], unit |-> 1]
         /\ pc = "read" /\ result.ok => result.num = Seen(SeenOn(host))

LEMMA StampInit == TVInit => StampInv
<1> SUFFICES ASSUME TVInit, kind = "stamp" PROVE StampInv
  BY DEF StampInv
<1>1. PICK program \in {"rust", "c", "node", "zeek"}, h \in Hosts :
        \E n \in WrittenAs(program, kind) :
          /\ host = h
          /\ origin = [program |-> program, host |-> h, num |-> n]
          /\ value = ValueOf(program, kind, n)
          /\ IF program = "zeek"
               THEN pc = "text" /\ text = StampText(value, offset[h])
               ELSE pc = "value"
  BY DEF TVInit
<1>2. PICK n \in WrittenAs(program, kind) :
        /\ host = h
        /\ origin = [program |-> program, host |-> h, num |-> n]
        /\ value = ValueOf(program, kind, n)
        /\ IF program = "zeek"
             THEN pc = "text" /\ text = StampText(value, offset[h])
             ELSE pc = "value"
  BY <1>1
<1>3. n \in Int
  BY DEF WrittenAs, I64
<1>4. StampTypes
  BY <1>2, <1>3, TimeValuesAssumption DEF TVInit, StampTypes
<1>5. value = Moment(n, 0) /\ hops = 0 /\ SeenOn(h) = n
  BY <1>2, <1>3, <1>4 DEF ValueOf, TVInit, SeenOn, StampTypes
<1>6. pc = "text" => text = [num |-> n + offset[h], unit |-> 1]
  BY <1>2, <1>5 DEF StampText, Moment
<1> QED BY <1>2, <1>4, <1>5, <1>6 DEF StampInv

LEMMA StampStep == StampInv /\ [TVNext]_(tvVars) => StampInv'
<1> SUFFICES ASSUME StampInv, [TVNext]_(tvVars), kind = "stamp"
             PROVE  StampInv'
  <2>1. ASSUME TVNext PROVE kind' = kind
    <3>1. CASE Serialize \/ Deserialize \/ OffsetUnknown \/ OffsetChanges
      BY <3>1 DEF Serialize, Deserialize, OffsetUnknown, OffsetChanges
    <3>2. CASE ReadC \/ ReadNode
      BY <3>2 DEF ReadC, ReadNode, ReturnTo
    <3>3. CASE TVDone
      BY <3>3 DEF TVDone, tvVars
    <3> QED BY <2>1, <3>1, <3>2, <3>3 DEF TVNext
  <2>2. ASSUME UNCHANGED tvVars PROVE kind' = kind
    BY <2>2 DEF tvVars
  <2> QED BY <2>1, <2>2 DEF StampInv
<1>1. StampTypes /\ (hops = 0 => host = origin.host)
  BY DEF StampInv
<1>2. ASSUME UNCHANGED <<origin, offset>> PROVE \A h : SeenOn(h)' = SeenOn(h)
  BY <1>2 DEF SeenOn
<1>3. CASE Serialize
  <2>1. /\ UNCHANGED <<kind, origin, host, value, offset, hops, changes, result>>
        /\ pc = "value" /\ pc' \in {"refused", "text"}
        /\ text' = StampText(value, offset[host])
    BY <1>3 DEF Serialize
  <2>2. StampTypes'
    BY <1>1, <2>1 DEF StampTypes
  <2>3. changes = 0 => value.utc + offset[host] = origin.num + offset[origin.host]
    BY <1>1, <2>1 DEF StampInv, Moment, SeenOn, StampTypes
  <2>4. changes = 0 => text' = [num |-> origin.num + offset[origin.host], unit |-> 1]
    BY <2>1, <2>3 DEF StampText
  <2> QED BY <1>1, <2>1, <2>2, <2>4 DEF StampInv
<1>4. CASE Deserialize
  <2>1. PICK h \in Hosts :
          /\ UNCHANGED <<kind, origin, text, offset, changes, result>>
          /\ pc = "text" /\ pc' = "value"
          /\ host' = h /\ hops' = hops + 1
          /\ value' = StampOf(text, offset[h])
    BY <1>4 DEF Deserialize
  <2>2. StampTypes' /\ hops' # 0
    BY <1>1, <2>1 DEF StampTypes
  <2>3. changes = 0 => value' = Moment(SeenOn(h), offset[h])
    BY <1>1, <2>1 DEF StampInv, StampOf, SeenOn, StampTypes
  <2> QED BY <1>1, <1>2, <2>1, <2>2, <2>3 DEF StampInv
<1>5. CASE ReadC \/ ReadNode
  <2>1. /\ UNCHANGED <<kind, origin, host, value, text, offset, hops, changes>>
        /\ pc = "value" /\ pc' = "read"
    BY <1>5 DEF ReadC, ReadNode, ReturnTo
  <2>2. StampTypes'
    BY <1>1, <2>1 DEF StampTypes
  <2>3. ASSUME changes = 0, result'.ok PROVE result'.num = Seen(SeenOn(host))'
    <3>1. SeenOn(host)' = SeenOn(host) /\ SeenOn(host) \in Int
      BY <1>1, <2>1 DEF SeenOn, StampTypes
    <3>2. CASE ReadC
      <4>1. value.utc = SeenOn(host)
        BY <2>1, <2>3 DEF StampInv, Moment
      <4> QED BY <2>3, <3>1, <3>2, <4>1 DEF ReadC, ReturnTo, Seen
    <3>3. CASE ReadNode
      <4>1. NodeStamp(value, offset[host]) = SeenOn(host)
        <5>1. hops # 0
          BY <1>1, <3>3 DEF ReadNode, StampTypes
        <5>2. value = Moment(SeenOn(host), offset[host])
          BY <2>1, <2>3, <5>1 DEF StampInv
        <5> QED BY <1>1, <3>1, <5>2 DEF NodeStamp, Moment, StampTypes
      <4> QED BY <2>3, <3>1, <3>3, <4>1 DEF ReadNode, ReturnTo, Seen
    <3> QED BY <1>5, <3>2, <3>3
  <2> QED BY <1>1, <2>1, <2>2, <2>3 DEF StampInv
<1>6. CASE OffsetChanges
  <2>1. /\ UNCHANGED <<kind, origin, host, hops>>
        /\ \E h \in Hosts, z \in Offsets : offset' = [offset EXCEPT ![h] = z]
        /\ changes' = changes + 1
    BY <1>6 DEF OffsetChanges
  <2>2. StampTypes' /\ changes' # 0
    BY <1>1, <2>1, TimeValuesAssumption DEF StampTypes
  <2> QED BY <1>1, <2>1, <2>2 DEF StampInv
<1>7. CASE TVDone \/ UNCHANGED tvVars
  <2>1. UNCHANGED <<pc, kind, origin, host, value, text, offset, hops, changes, result>>
    BY <1>7 DEF TVDone, tvVars
  <2>2. UNCHANGED StampInv
    BY <2>1 DEF StampInv, StampTypes, SeenOn, Seen
  <2> QED BY <2>2
<1>8. CASE OffsetUnknown
  <2>1. /\ UNCHANGED <<kind, origin, host, value, text, offset, hops, changes, result>>
        /\ pc' \notin {"value", "text", "read"}
    BY <1>8 DEF OffsetUnknown
  <2>2. StampTypes'
    BY <1>1, <2>1 DEF StampTypes
  <2> QED BY <1>1, <2>1, <2>2 DEF StampInv
<1> QED BY <1>3, <1>4, <1>5, <1>6, <1>7, <1>8 DEF TVNext

(***************************************************************************)
(* A timestamp arrives shifted by the difference of the local offsets of    *)
(* its first host and its last, whatever lies in between (mod timestamp and *)
(* the readers of the C and the Node.js API).                               *)
(***************************************************************************)
THEOREM StampsShift == TVSpec => []StampsShiftByOffsets
<1>1. TVInit => StampInv
  BY StampInit
<1>2. StampInv /\ [TVNext]_(tvVars) => StampInv'
  BY StampStep
<1>3. StampInv => StampsShiftByOffsets
  BY DEF StampInv, StampsShiftByOffsets, SeenOn
<1> QED BY <1>1, <1>2, <1>3, PTL DEF TVSpec

-----------------------------------------------------------------------------
(* Floats *)

LEMMA RoundExact ==
  ASSUME NEW q \in Int, NEW b \in Nat \ {0}
  PROVE  RoundEven(q * b, b) = q
<1>1. (q * b) \div b = q /\ (q * b) % b = 0
  BY DivExact
<1> QED BY <1>1 DEF RoundEven

LEMMA RoundScale ==
  ASSUME NEW x \in Int, NEW y \in Nat \ {0}, NEW d \in Nat \ {0}
  PROVE  RoundEven(x * d, y * d) = RoundEven(x, y)
<1>1. (x * d) \div (y * d) = x \div y /\ (x * d) % (y * d) = (x % y) * d
  BY DivScale
<1>2. x % y \in Int
  OBVIOUS
<1>3. ASSUME NEW r \in Int
      PROVE  (2 * (r * d) < y * d <=> 2 * r < y) /\ (2 * (r * d) = y * d <=> 2 * r = y)
  OBVIOUS
<1> QED BY <1>1, <1>2, <1>3 DEF RoundEven

LEMMA RoundBounds ==
  ASSUME NEW x \in Nat, NEW b \in Nat \ {0}, NEW hi \in Nat, x <= hi * b
  PROVE  RoundEven(x, b) \in 0 .. hi
<1> DEFINE q == x \div b
           r == x % b
<1>1. q \in Int /\ r \in 0 .. b - 1 /\ x = b * q + r
  OBVIOUS
<1> HIDE DEF q, r
<1>2. 0 <= q
  <2> SUFFICES ASSUME q < 0 PROVE FALSE
    BY <1>1
  <2>1. b * q <= -b
    BY <1>1
  <2> QED BY <1>1, <2>1
<1>3. q <= hi /\ (q = hi => r = 0)
  <2>1. ASSUME q >= hi PROVE q = hi /\ r = 0
    <3>1. hi * b <= q * b
      BY <1>1, <2>1
    <3>2. r = 0 /\ q * b = hi * b
      BY <1>1, <3>1
    <3> QED BY <1>1, <2>1, <3>2
  <2> QED BY <1>1, <2>1
<1>4. RoundEven(x, b) = q \/ (r # 0 /\ RoundEven(x, b) = q + 1)
  BY <1>1 DEF RoundEven, q, r
<1> QED BY <1>1, <1>2, <1>3, <1>4

(* The digits of a mantissa *)
F == FloatBits

LEMMA FloatTypes == F \in Nat /\ F >= 1 /\ IntBits \in Nat /\ F <= IntBits
  BY FloatsAssumption DEF F

LEMMA DigitsOf ==
  ASSUME NEW a \in Nat, NEW u \in Nat \ {0}, NEW k \in 0 .. IntBits + 3, IsDigits(a, k)
  PROVE  Digits(a * u, u) = k
<1> DEFINE Q(j) == a * u < u * 2 ^ j /\ (j > 0 => a * u >= u * 2 ^ (j - 1))
<1>1. ASSUME NEW j \in 0 .. IntBits + 3 PROVE Q(j) <=> IsDigits(a, j)
  <2>1. j \in Nat /\ 2 ^ j \in Nat /\ (j > 0 => j - 1 \in Nat /\ 2 ^ (j - 1) \in Nat)
    BY FloatTypes, PowerTwo
  <2>2. ASSUME NEW p \in Nat PROVE (a * u < u * p <=> a < p) /\ (a * u >= u * p <=> a >= p)
    OBVIOUS
  <2> QED BY <2>1, <2>2 DEF IsDigits
<1>2. \A j \in 0 .. IntBits + 3 : Q(j) <=> j = k
  <2>1. \A j \in 0 .. IntBits + 3 : j \in Nat
    BY FloatTypes
  <2> HIDE DEF Q
  <2> QED BY <1>1, <2>1, DigitsUnique
<1>3. Digits(a * u, u) = CHOOSE j \in 0 .. IntBits + 3 : Q(j)
  BY DEF Digits
<1> HIDE DEF Q
<1> QED BY <1>2, <1>3

(* The float next to a number of k digits *)
LEMMA FloatByDigits ==
  ASSUME NEW a \in Nat, NEW k \in 0 .. IntBits + 3, IsDigits(a, k)
  PROVE  LET n == (RoundEven(a * 2 ^ F, 2 ^ k) * 2 ^ k) \div 2 ^ F
         IN  n \in Nat /\ JsNumber(a) = n /\ JsNumber(-a) = -n
<1> DEFINE u == 2 ^ F
           p == 2 ^ k
           near == RoundEven(a * u, p) * p
<1>1. u \in Nat \ {0} /\ p \in Nat \ {0}
  BY FloatTypes, PowerTwo
<1>2. Digits(a * u, u) = k
  BY <1>1, DigitsOf
<1>3. near \in Nat
  <2> HIDE DEF u, p
  <2>1. a * u <= (a * u) * p /\ a * u \in Nat
    BY <1>1
  <2>2. RoundEven(a * u, p) \in Nat
    <3> DEFINE x == a * u
    <3>1. x \in Nat /\ x <= x * p
      BY <2>1
    <3> HIDE DEF x
    <3>2. RoundEven(x, p) \in Nat
      BY <1>1, <3>1, RoundBounds
    <3> QED BY <3>2 DEF x
  <2> QED BY <1>1, <2>2
<1>4. 1 * u = u /\ 1 * p = p
  BY <1>1
<1>5. Nearest(F, a, 1) = near /\ Nearest(F, -a, 1) = -near
  <2>1. ASSUME NEW x, x = a \/ (x = -a /\ a > 0)
        PROVE  Nearest(F, x, 1) = IF x < 0 THEN -near ELSE near
    <3>1. (IF x < 0 THEN -x ELSE x) = a
      BY <2>1
    <3> HIDE DEF near, p, u
    <3> DEFINE s == (IF x < 0 THEN -x ELSE x) * 2 ^ F
               d == Digits(s, 1 * 2 ^ F)
    <3>2. s = a * u
      BY <3>1 DEF u
    <3>3. d = k
      BY <1>2, <1>4, <3>2 DEF u
    <3>4. Nearest(F, x, 1) = IF x < 0 THEN -(RoundEven(s, 1 * 2 ^ d) * 2 ^ d)
                                      ELSE RoundEven(s, 1 * 2 ^ d) * 2 ^ d
      BY DEF Nearest
    <3> HIDE DEF s, d
    <3>5. RoundEven(s, 1 * 2 ^ d) * 2 ^ d = near
      BY <1>4, <3>2, <3>3 DEF near, p
    <3> QED BY <3>4, <3>5
  <2>2. CASE a > 0
    <3>1. ~(a < 0) /\ -a < 0
      BY <2>2
    <3> HIDE DEF near
    <3> QED BY <2>1, <2>2, <3>1
  <2>3. CASE a = 0
    <3>1. -a = a /\ ~(a < 0)
      <4>1. a \in Int /\ ~(a < 0)
        OBVIOUS
      <4> QED BY <2>3, <4>1, MinusZero, Zenon
    <3>2. near = 0
      <4>1. RoundEven(0 * p, p) = 0
        BY <1>1, RoundExact
      <4>2. a * u = 0 * p
        BY <1>1, <2>3
      <4> QED BY <1>1, <4>1, <4>2
    <3> HIDE DEF near
    <3> QED BY <2>1, <3>1, <3>2
  <2> QED BY <2>2, <2>3
<1>6. near \div u \in Nat
  <2> HIDE DEF near, u
  <2> QED BY <1>1, <1>3
<1>7. JsNumber(a) = near \div u /\ JsNumber(-a) = -(near \div u)
  <2>1. \A x : Float(x, 1) = Trunc(Nearest(F, x, 1), u)
    BY DEF Float, F
  <2>2. Trunc(near, u) = near \div u
    <3> HIDE DEF near, u
    <3> QED BY <1>3 DEF Trunc
  <2>3. Trunc(-near, u) = -(near \div u)
    <3> HIDE DEF near, u
    <3>1. CASE near = 0
      <4>1. -near = near /\ ~(near < 0) /\ -(near \div u) = near \div u
        <5>1. near \div u \in Int /\ near \div u = 0 /\ near \in Int /\ ~(near < 0)
          BY <1>1, <1>3, <3>1
        <5> QED BY <3>1, <5>1, MinusZero, Zenon
      <4> QED BY <4>1 DEF Trunc
    <3>2. CASE near > 0
      <4>1. -near < 0 /\ -(-near) = near
        BY <1>3, <3>2
      <4> QED BY <4>1 DEF Trunc
    <3> QED BY <1>3, <3>1, <3>2
  <2> HIDE DEF near, u
  <2> QED BY <1>5, <2>1, <2>2, <2>3 DEF JsNumber
<1> QED BY <1>6, <1>7

(* A multiple of the last digit that a mantissa has room for is a float. *)
LEMMA FloatExact ==
  ASSUME NEW a \in Nat, NEW k \in 0 .. IntBits + 3, IsDigits(a, k),
         NEW q \in Int, a * 2 ^ F = q * 2 ^ k
  PROVE  JsNumber(a) = a /\ JsNumber(-a) = -a
<1> DEFINE u == 2 ^ F
           p == 2 ^ k
<1>1. u \in Nat \ {0} /\ p \in Nat \ {0}
  BY FloatTypes, PowerTwo
<1>2. RoundEven(a * u, p) * p = a * u
  <2> HIDE DEF u, p
  <2>1. RoundEven(q * p, p) = q
    BY <1>1, RoundExact
  <2> QED BY <2>1 DEF u, p
<1>3. (RoundEven(a * u, p) * p) \div u = a
  <2> HIDE DEF u, p
  <2>1. (a * u) \div u = a
    BY <1>1, DivExact
  <2> QED BY <1>2, <2>1
<1> QED BY <1>3, FloatByDigits

(* Powers of two, and a few digits followed by zeros, are floats. *)
LEMMA FewDigitsExact ==
  ASSUME NEW m \in 0 .. 2 ^ F, NEW j \in Nat, m * 2 ^ j <= 2 ^ (IntBits + 2)
  PROVE  /\ m * 2 ^ j \in Nat
         /\ JsNumber(m * 2 ^ j) = m * 2 ^ j /\ JsNumber(-(m * 2 ^ j)) = -(m * 2 ^ j)
<1> DEFINE a == m * 2 ^ j
<1>1. 2 ^ F \in Nat \ {0} /\ 2 ^ j \in Nat \ {0} /\ m \in Nat
  BY FloatTypes, PowerTwo
<1>2. a \in Nat
  BY <1>1
<1>3. PICK k \in 0 .. IntBits + 3 : IsDigits(a, k)
  <2>1. IntBits + 2 \in Nat /\ IntBits + 3 \in Nat /\ IntBits + 3 = (IntBits + 2) + 1
    BY FloatTypes
  <2>2. 2 ^ (IntBits + 3) = 2 * 2 ^ (IntBits + 2) /\ 2 ^ (IntBits + 2) \in Nat \ {0}
    BY <2>1, PowerTwo
  <2>3. a < 2 ^ (IntBits + 3)
    BY <1>2, <2>2
  <2> HIDE DEF a
  <2> QED BY <1>2, <2>1, <2>3, DigitsExist
<1>4. k \in Nat /\ F \in Nat /\ F >= 1
  BY FloatTypes
<1>5. \E q \in Int : a * 2 ^ F = q * 2 ^ k
  <2>1. CASE k <= F
    <3>1. F - k \in Nat /\ 2 ^ F = 2 ^ k * 2 ^ (F - k)
      BY <1>4, <2>1, PowerGrows
    <3>2. 2 ^ k \in Nat /\ 2 ^ (F - k) \in Nat
      BY <1>4, <3>1, PowerTwo
    <3>3. ASSUME NEW x \in Nat, NEW y \in Nat, NEW z \in Nat
          PROVE  x * (y * z) = (x * z) * y /\ x * z \in Int
      OBVIOUS
    <3> HIDE DEF a
    <3>4. a * (2 ^ k * 2 ^ (F - k)) = (a * 2 ^ (F - k)) * 2 ^ k /\ a * 2 ^ (F - k) \in Int
      BY <1>2, <3>2, <3>3
    <3> QED BY <3>1, <3>4
  <2>2. CASE k > F /\ j >= k - F
    <3> DEFINE i == k - F
    <3>1. i \in Nat /\ j - i \in Nat /\ k = F + i /\ i <= j
      BY <1>4, <2>2
    <3> HIDE DEF i
    <3>2. 2 ^ j = 2 ^ i * 2 ^ (j - i) /\ 2 ^ k = 2 ^ F * 2 ^ i
      BY <1>4, <3>1, PowerGrows, PowerSum
    <3>3. 2 ^ i \in Nat /\ 2 ^ (j - i) \in Nat
      BY <3>1, PowerTwo
    <3>4. ASSUME NEW w \in Nat, NEW x \in Nat, NEW y \in Nat, NEW z \in Nat
          PROVE  (w * (x * y)) * z = (w * y) * (z * x) /\ w * y \in Int
      OBVIOUS
    <3>5. (m * (2 ^ i * 2 ^ (j - i))) * 2 ^ F = (m * 2 ^ (j - i)) * (2 ^ F * 2 ^ i)
          /\ m * 2 ^ (j - i) \in Int
      BY <1>1, <3>3, <3>4
    <3> QED BY <3>2, <3>5
  <2>3. CASE k > F /\ j < k - F
    <3>1. k - 1 \in Nat /\ F + j \in Nat /\ F + j <= k - 1 /\ F - 1 \in Nat /\ k > 0
      BY <1>4, <2>3
    <3>2. 2 ^ (k - 1) \in Nat /\ 2 ^ (F - 1) \in Nat /\ 2 ^ (F + j) \in Nat
      BY <3>1, PowerTwo
    <3>3. a <= 2 ^ (F + j)
      <4>1. 2 ^ (F + j) = 2 ^ F * 2 ^ j
        BY <1>4, PowerSum
      <4>2. ASSUME NEW x \in Nat, NEW y \in Nat, NEW z \in Nat, x <= y PROVE x * z <= y * z
        BY <4>2
      <4> QED BY <1>1, <4>1, <4>2
    <3>4. 2 ^ (F + j) <= 2 ^ (k - 1)
      BY <3>1, PowerGrows
    <3>5. a >= 2 ^ (k - 1)
      BY <1>3, <3>1 DEF IsDigits
    <3>6. a = 2 ^ (k - 1)
      <4> HIDE DEF a
      <4> QED BY <1>2, <3>2, <3>3, <3>4, <3>5
    <3>7. 2 ^ F = 2 * 2 ^ (F - 1) /\ 2 ^ k = 2 * 2 ^ (k - 1)
      <4>1. F = (F - 1) + 1 /\ k = (k - 1) + 1
        BY <1>4
      <4> QED BY <3>1, <4>1, PowerTwo
    <3>8. ASSUME NEW x \in Nat, NEW y \in Nat PROVE x * (2 * y) = y * (2 * x) /\ y \in Int
      OBVIOUS
    <3>9. 2 ^ (k - 1) * (2 * 2 ^ (F - 1)) = 2 ^ (F - 1) * (2 * 2 ^ (k - 1)) /\ 2 ^ (F - 1) \in Int
      BY <3>2, <3>8
    <3> HIDE DEF a
    <3> QED BY <3>6, <3>7, <3>9
  <2> QED BY <1>4, <2>1, <2>2, <2>3
<1> HIDE DEF a
<1>6. JsNumber(a) = a /\ JsNumber(-a) = -a
  BY <1>2, <1>3, <1>5, FloatExact
<1> QED BY <1>2, <1>6 DEF a

(* A float is a few digits followed by zeros. *)
LEMMA FloatHasFewDigits ==
  ASSUME NEW a \in Nat, a <= 2 ^ (IntBits + 2)
  PROVE  \E m \in 0 .. 2 ^ F, j \in Nat :
           /\ m * 2 ^ j <= 2 ^ (IntBits + 2)
           /\ JsNumber(a) = m * 2 ^ j /\ JsNumber(-a) = -(m * 2 ^ j)
<1>1. /\ IntBits + 2 \in Nat /\ 2 ^ (IntBits + 2) \in Nat
      /\ IntBits \in Nat /\ F \in Nat /\ F <= IntBits + 2 /\ 2 ^ F \in Nat \ {0}
  BY FloatTypes, PowerTwo
<1>2. CASE a = 2 ^ (IntBits + 2)
  <2>1. 1 \in 0 .. 2 ^ F /\ 1 * 2 ^ (IntBits + 2) = a
    BY <1>1, <1>2
  <2>2. JsNumber(a) = 1 * 2 ^ (IntBits + 2) /\ JsNumber(-a) = -(1 * 2 ^ (IntBits + 2))
    BY <1>1, <1>2, <2>1, FewDigitsExact
  <2> QED BY <1>1, <1>2, <2>1, <2>2
<1>3. CASE a < 2 ^ (IntBits + 2)
  <2>1. PICK k \in 0 .. IntBits + 2 : IsDigits(a, k)
    BY <1>1, <1>3, DigitsExist
  <2>2. k \in Nat /\ k \in 0 .. IntBits + 3 /\ k <= IntBits + 2 /\ 2 ^ k \in Nat \ {0}
    BY <1>1, PowerTwo
  <2>3. 2 ^ k <= 2 ^ (IntBits + 2) /\ a < 2 ^ k
    BY <1>1, <2>1, <2>2, PowerGrows DEF IsDigits
  <2>4. CASE k <= F
    <3>1. 2 ^ k <= 2 ^ F
      BY <1>1, <2>2, <2>4, PowerGrows
    <3>2. a \in 0 .. 2 ^ F /\ a * 2 ^ 0 = a
      <4>1. a \in 0 .. 2 ^ F
        BY <1>1, <2>2, <2>3, <3>1
      <4>2. 2 ^ 0 = 1
        OBVIOUS
      <4> QED BY <4>1, <4>2
    <3>3. JsNumber(a) = a /\ JsNumber(-a) = -a
      BY <3>2, FewDigitsExact
    <3> QED BY <3>2, <3>3
  <2>5. CASE k > F
    <3> DEFINE j == k - F
               c == 2 ^ j
               u == 2 ^ F
               m == RoundEven(a, c)
    <3>1. j \in Nat /\ k = F + j
      BY <1>1, <2>2, <2>5
    <3>2. c \in Nat \ {0} /\ 2 ^ k = u * c /\ u \in Nat \ {0}
      BY <1>1, <3>1, PowerTwo, PowerSum
    <3> HIDE DEF c, u, j
    <3>3. m \in 0 .. u
      <4>1. a <= u * c
        BY <2>3, <3>2
      <4> QED BY <3>2, <4>1, RoundBounds
    <3>4. RoundEven(a * u, 2 ^ k) = m
      <4>1. u * c = c * u
        BY <3>2
      <4>2. RoundEven(a * u, c * u) = m
        <5>1. a \in Int
          OBVIOUS
        <5> QED BY <3>2, <5>1, RoundScale, Zenon
      <4> HIDE DEF m
      <4> QED BY <3>2, <4>1, <4>2
    <3> HIDE DEF m
    <3>5. (m * 2 ^ k) \div u = m * c
      <4>1. m * (u * c) = (m * c) * u /\ m * c \in Int
        BY <3>2, <3>3
      <4>2. ((m * c) * u) \div u = m * c
        BY <3>2, <4>1, DivExact
      <4> QED BY <3>2, <4>1, <4>2
    <3>6. JsNumber(a) = m * c /\ JsNumber(-a) = -(m * c)
      BY <2>1, <2>2, <3>4, <3>5, FloatByDigits DEF u
    <3>7. m * c <= 2 ^ (IntBits + 2)
      <4>1. m * c <= u * c /\ m * c \in Int /\ u * c \in Int
        BY <3>2, <3>3
      <4> QED BY <1>1, <2>3, <3>2, <4>1
    <3> QED BY <3>1, <3>3, <3>6, <3>7 DEF c, u
  <2> QED BY <1>1, <2>2, <2>4, <2>5
<1> QED BY <1>1, <1>2, <1>3

(* Rounding a float leaves it as it is. *)
LEMMA RoundedOnce ==
  ASSUME NEW x \in -(2 ^ (IntBits + 2)) .. 2 ^ (IntBits + 2)
  PROVE  /\ JsNumber(x) \in -(2 ^ (IntBits + 2)) .. 2 ^ (IntBits + 2)
         /\ JsNumber(JsNumber(x)) = JsNumber(x)
<1>1. 2 ^ (IntBits + 2) \in Nat
  BY FloatTypes, PowerTwo
<1>2. PICK a \in Nat : a <= 2 ^ (IntBits + 2) /\ (x = a \/ x = -a)
  <2>1. CASE x >= 0
    BY <1>1, <2>1
  <2>2. CASE x < 0
    <3>1. -x \in Nat /\ -x <= 2 ^ (IntBits + 2) /\ x = -(-x)
      BY <1>1, <2>2
    <3> QED BY <3>1
  <2> QED BY <1>1, <2>1, <2>2
<1>3. PICK m \in 0 .. 2 ^ F, j \in Nat :
        /\ m * 2 ^ j <= 2 ^ (IntBits + 2)
        /\ JsNumber(a) = m * 2 ^ j /\ JsNumber(-a) = -(m * 2 ^ j)
  BY <1>2, FloatHasFewDigits
<1> DEFINE b == m * 2 ^ j
<1>4. b \in Nat /\ b <= 2 ^ (IntBits + 2) /\ JsNumber(b) = b /\ JsNumber(-b) = -b
  BY <1>3, FewDigitsExact
<1>5. JsNumber(x) = b \/ JsNumber(x) = -b
  BY <1>2, <1>3
<1> HIDE DEF b
<1>6. b \in -(2 ^ (IntBits + 2)) .. 2 ^ (IntBits + 2)
      /\ -b \in -(2 ^ (IntBits + 2)) .. 2 ^ (IntBits + 2)
  BY <1>1, <1>4
<1> QED BY <1>4, <1>5, <1>6

-----------------------------------------------------------------------------
(* Whole numbers, and numbers that are not finite *)

(* The numbers WholeNumbersExact is about *)
Whole ==
  /\ origin.as \in {"count", "integer"}
  /\ origin.program = "node" => Fits(Value(origin.as, origin.num))

WholeValue == Value(origin.as, origin.num)

(***************************************************************************)
(* The inductive invariant: from the moment it is made the first argument   *)
(* is finite as the number was, and a whole number is itself; the text is   *)
(* that of the arguments; and what has arrived once is finite.              *)
(***************************************************************************)
InTransit ==
  pc \in {"value", "wire", "read", "undecodable"} =>
    /\ DOMAIN args = {1, 2}
    /\ args[1].finite <=> origin.finite
    /\ Whole => args[1] = WholeValue /\ Fits(WholeValue)
    /\ hops > 0 /\ pc # "undecodable" => args[1].finite /\ args[2].finite
    /\ pc = "wire" => wire = [i \in DOMAIN args |-> Text(args[i])]

NumberInv ==
  /\ origin \in Origins /\ hops \in Nat
  /\ pc \in {"host", "value", "wire", "read", "refused", "undecodable"}
  /\ pc \in {"host", "refused"} => hops = 0
  /\ pc = "refused" /\ Whole => ~Fits(WholeValue)
  /\ pc = "undecodable" => hops = 1 /\ \E i \in DOMAIN args : ~args[i].finite
  /\ InTransit
  /\ WholeNumbersExact

(* A whole number is finite, and an even number of halves. *)
LEMMA WholeOrigin ==
  ASSUME origin \in Origins, Whole
  PROVE  /\ origin.finite /\ Number = WholeValue
         /\ origin.program \in {"rust", "c", "node", "zeek", "python"}
         /\ \E n \in Int : origin.num = 2 * n
<1>1. origin.as # "real"
  BY DEF Whole
<1>2. PICK p \in DOMAIN Sources : origin \in OriginsOf(p)
  BY <1>1 DEF Origins
<1>3. PICK a \in Sources[p] :
        origin \in [program : {p}, as : {a}, num : Written(p, a), finite : {TRUE}]
  BY <1>2 DEF OriginsOf
<1>4. /\ origin.finite /\ origin.program = p /\ origin.as = a
      /\ a \in {"count", "integer"} /\ origin.num \in Written(p, a)
  BY <1>3 DEF Whole
<1>5. \E n \in Int : origin.num = 2 * n
  BY <1>4 DEF Written, Wide, IntegersOf
<1>6. Number = WholeValue
  <2>1. CASE p = "node" /\ a = "count"
    <3>1. origin.num \in IntegersOf("count", IntBits)
      BY <1>4, <2>1 DEF Whole, Fits, Value
    <3>2. origin.num >= 0
      BY <3>1 DEF IntegersOf
    <3> QED BY <1>4, <1>5, <2>1, <3>2 DEF Number, Made, Magnitude, WholeValue
  <2> QED BY <1>4, <2>1 DEF Number, Made, WholeValue
<1>7. p \in {"rust", "c", "node", "zeek", "python"}
  BY DEF Sources
<1> QED BY <1>4, <1>5, <1>6, <1>7

LEMMA NumberInit == Init => NumberInv
  BY DEF Init, NumberInv, InTransit, WholeNumbersExact

(* Whole numbers are written and parsed as they are (Text, ValuesOf). *)
LEMMA WholeTravels ==
  ASSUME NEW v, v = WholeValue, Whole, NEW w \in ValuesOf(Text(v))
  PROVE  w = v
<1>1. v = [kind |-> origin.as, num |-> origin.num, finite |-> TRUE]
  BY DEF WholeValue, Value
<1>2. Text(v) = [kind |-> origin.as, num |-> origin.num, null |-> FALSE]
  BY <1>1 DEF Text
<1>3. w \in {Value(origin.as, h) : h \in {origin.num}}
  BY <1>2 DEF ValuesOf, Whole
<1> QED BY <1>3 DEF WholeValue

(* What is parsed is finite, since a null is not (Decodable). *)
LEMMA ParsedFinite ==
  ASSUME NEW v, ~Text(v).null, NEW w \in ValuesOf(Text(v))
  PROVE  v.finite /\ w.finite
<1>1. v.finite
  BY DEF Text
<1>2. w.finite
  BY DEF ValuesOf, Value
<1> QED BY <1>1, <1>2

(***************************************************************************)
(* Every reader gets the whole number it asks for, or nothing: the kinds    *)
(* are compared, and so is the range (TryFrom<Value>, zws_value_as_count).      *)
(***************************************************************************)
LEMMA WholeRead ==
  ASSUME origin \in Origins, Whole, NEW v, v = WholeValue, Fits(v), NEW ask \in Asks,
         NEW got,
         \/ ask.program = "rust" /\ got = RustRead(v, ask.kind, ask.bits)
         \/ ask.program = "c" /\ got = CRead(v, ask.kind)
         \/ ask.program = "node" /\ got = NodeRead(v)
         \/ ask.program = "python" /\ got = PythonRead(v, ask.kind),
         result' = [ask |-> ask, got |-> got],
         origin' = origin
  PROVE  Answer' = (IF Acceptable
                        THEN Got(IF ThroughFloat THEN JsNumber(origin.num)
                                                     ELSE origin.num, TRUE)
                        ELSE Nothing)'
<1>1. /\ v.kind = origin.as /\ v.num = origin.num /\ v.finite
      /\ origin.as \in {"count", "integer"}
  BY DEF WholeValue, Value, Whole
<1>2. Answer' = got /\ Asked' = ask
  BY DEF Answer, Asked
<1> DEFINE Ok == \/ ask.kind \in {"any", "int", "float"}
                 \/ ask.kind = origin.as /\ origin.num \in IntegersOf(ask.kind, ask.bits)
           Js == (ask.program = "node" /\ origin.as = "integer") \/ ask.kind = "float"
           Right == IF Ok THEN Got(IF Js THEN JsNumber(origin.num) ELSE origin.num, TRUE)
                          ELSE Nothing
<1>3. Acceptable' = Ok /\ ThroughFloat' = Js
  BY <1>2 DEF Acceptable, ThroughFloat
<1>4. CASE ask.program = "rust" /\ got = RustRead(v, ask.kind, ask.bits)
  <2>1. ask.kind \in {"count", "integer", "real"}
    BY <1>4 DEF Asks
  <2> QED BY <1>1, <1>2, <1>3, <1>4, <2>1 DEF RustRead
<1>5. CASE ask.program = "c" /\ got = CRead(v, ask.kind)
  <2>1. ask.kind \in {"count", "integer", "real"} /\ ask.bits = IntBits
    BY <1>5 DEF Asks
  <2>2. origin.num \in IntegersOf(origin.as, IntBits)
    BY <1>1 DEF Fits
  <2> QED BY <1>1, <1>2, <1>3, <1>5, <2>1, <2>2 DEF CRead
<1>6. CASE ask.program = "node" /\ got = NodeRead(v)
  <2>1. ask.kind = "any"
    BY <1>6 DEF Asks
  <2> QED BY <1>1, <1>2, <1>3, <1>6, <2>1 DEF NodeRead
<1>7. CASE ask.program = "python" /\ got = PythonRead(v, ask.kind)
  <2>1. ask.kind \in {"any", "int", "float"}
    BY <1>7 DEF Asks
  <2>2. 2 * Trunc(origin.num, 2) = origin.num
    <3>1. PICK n \in Int : origin.num = 2 * n
      BY WholeOrigin
    <3>2. (2 * n) \div 2 = n /\ (-(2 * n)) \div 2 = -n
      OBVIOUS
    <3> QED BY <3>1, <3>2 DEF Trunc
  <2> QED BY <1>1, <1>2, <1>3, <1>7, <2>1, <2>2 DEF PythonRead
<1> QED BY <1>4, <1>5, <1>6, <1>7

LEMMA NumberStep == NumberInv /\ [Next]_(vars) => NumberInv'
<1> SUFFICES ASSUME NumberInv, [Next]_(vars) PROVE NumberInv'
  OBVIOUS
<1> USE DEF NumberInv
<1>1. ASSUME origin' = origin PROVE (Whole' <=> Whole) /\ WholeValue' = WholeValue
  BY <1>1 DEF Whole, WholeValue
<1>2. CASE Make
  <2>1. /\ UNCHANGED <<origin, wire, hops, result>> /\ pc = "host" /\ hops = 0
    BY <1>2 DEF Make
  <2>2. Number.finite <=> origin.finite
    BY DEF Number, NotFinite, Made, Value
  <2>3. Whole => Number = WholeValue
    BY WholeOrigin
  <2>4. CASE Fits(Number)
    <3>1. PICK other : args' = <<Number, other>>
      BY <1>2, <2>4 DEF Make
    <3>2. pc' = "value" /\ DOMAIN args' = {1, 2} /\ args'[1] = Number
      BY <1>2, <2>4, <3>1 DEF Make
    <3> QED BY <1>1, <2>1, <2>2, <2>3, <2>4, <3>2 DEF InTransit, WholeNumbersExact
  <2>5. CASE ~Fits(Number)
    <3>1. pc' = "refused"
      BY <1>2, <2>5 DEF Make
    <3> QED BY <1>1, <2>1, <2>3, <2>5, <3>1 DEF InTransit, WholeNumbersExact, Whole, WholeValue
  <2> QED BY <2>4, <2>5
<1>3. CASE Send
  BY <1>1, <1>3 DEF Send, InTransit, WholeNumbersExact
<1>4. CASE Arrive
  <2>1. /\ UNCHANGED <<origin, wire, result>> /\ pc = "wire" /\ hops' = hops + 1
        /\ wire = [i \in DOMAIN args |-> Text(args[i])] /\ DOMAIN args = {1, 2}
    BY <1>4 DEF Arrive, InTransit
  <2>2. CASE Decodable(wire)
    <3>1. PICK v \in ValuesOf(wire[1]), w \in ValuesOf(wire[2]) : args' = <<v, w>>
      BY <1>4, <2>2 DEF Arrive
    <3>2. pc' = "value" /\ DOMAIN args' = {1, 2} /\ args'[1] = v /\ args'[2] = w
      BY <1>4, <2>2, <3>1 DEF Arrive
    <3>3. v.finite /\ w.finite /\ args[1].finite
      BY <2>1, <2>2, <3>1, ParsedFinite DEF Decodable
    <3>4. Whole => v = WholeValue
      BY <2>1, <3>1, WholeTravels DEF InTransit
    <3> QED BY <1>1, <2>1, <3>2, <3>3, <3>4 DEF InTransit, WholeNumbersExact
  <2>3. CASE ~Decodable(wire)
    <3>1. pc' = "undecodable" /\ args' = args
      BY <1>4, <2>3 DEF Arrive
    <3>2. PICK i \in DOMAIN args : Text(args[i]).null
      BY <2>1, <2>3 DEF Decodable
    <3>3. ~args[i].finite
      BY <3>2 DEF Text
    <3>4. hops = 0
      BY <2>1, <3>2, <3>3 DEF InTransit
    <3> QED BY <1>1, <2>1, <3>1, <3>3, <3>4 DEF InTransit, WholeNumbersExact
  <2> QED BY <2>2, <2>3
<1>5. CASE Read
  <2> DEFINE By(ask, got) ==
        /\ \/ ask.program = "rust" /\ got = RustRead(args[1], ask.kind, ask.bits)
           \/ ask.program = "c" /\ got = CRead(args[1], ask.kind)
           \/ ask.program = "node" /\ got = NodeRead(args[1])
           \/ ask.program = "python" /\ got = PythonRead(args[1], ask.kind)
        /\ ReadBy(ask, got)
  <2>0. PICK ask \in Asks : \E got : By(ask, got)
    BY <1>5 DEF Read
  <2>1. PICK got : By(ask, got)
    BY <2>0
  <2>2. /\ UNCHANGED <<origin, args, wire, hops>>
        /\ pc = "value" /\ pc' = "read" /\ result' = [ask |-> ask, got |-> got]
    BY <2>1 DEF ReadBy
  <2>3. InTransit'
    BY <1>1, <2>2 DEF InTransit
  <2>4. WholeNumbersExact'
    <3>1. CASE Whole
      <4>1. args[1] = WholeValue /\ Fits(WholeValue)
        BY <2>2, <3>1 DEF InTransit
      <4> QED BY <2>1, <2>2, <3>1, <4>1, WholeRead DEF WholeNumbersExact
    <3>2. CASE ~Whole
      BY <2>2, <3>2 DEF WholeNumbersExact, Whole
    <3> QED BY <3>1, <3>2
  <2> QED BY <2>2, <2>3, <2>4
<1>6. CASE Done \/ UNCHANGED vars
  <2>1. UNCHANGED <<kind, pc, origin, args, wire, hops, result>>
    BY <1>6 DEF Done, vars
  <2>2. UNCHANGED <<InTransit, WholeNumbersExact>>
    BY <1>1, <2>1 DEF InTransit, WholeNumbersExact, Answer, Asked, Acceptable,
                      ThroughFloat
  <2> QED BY <1>1, <2>1, <2>2
<1> QED BY <1>2, <1>3, <1>4, <1>5, <1>6 DEF Next

THEOREM NumbersInvariance == Spec => []NumberInv
<1> QED BY NumberInit, NumberStep, PTL DEF Spec

(***************************************************************************)
(* A whole number arrives exactly or not at all (From<i64> and the readers  *)
(* of all languages).                                                       *)
(***************************************************************************)
THEOREM WholeNumbersArrive == Spec => []WholeNumbersExact
<1>1. NumberInv => WholeNumbersExact
  BY DEF NumberInv
<1> QED BY <1>1, NumbersInvariance, PTL

(***************************************************************************)
(* Numbers that are not finite, and no others, keep an event from being     *)
(* decoded, by the first program it is sent to (Serialize, Deserialize).    *)
(***************************************************************************)
THEOREM FiniteArrive == Spec => []OnlyFiniteArrive
<1>1. NumberInv => OnlyFiniteArrive
  BY DEF NumberInv, InTransit, OnlyFiniteArrive
<1> QED BY <1>1, NumbersInvariance, PTL

-----------------------------------------------------------------------------
(* Reals *)

LEMMA FiniteTypes ==
  /\ Finite \subseteq Int /\ IsFiniteSet(Finite)
  /\ \A h \in Finite : JsNumber(h) = h
<1> DEFINE M == 2 ^ (IntBits + 2)
<1>1. M \in Nat
  BY FloatTypes, PowerTwo
<1>2. Finite = {h \in -M .. M : JsNumber(h) = h}
  BY DEF Finite
<1> HIDE DEF M
<1>3. IsFiniteSet(-M .. M)
  BY <1>1, FS_Interval
<1>4. IsFiniteSet(Finite)
  BY <1>2, <1>3, FS_Subset
<1> QED BY <1>1, <1>2, <1>4

(* Of a finite number a Real is made that is a float. *)
LEMMA RealOrigin ==
  ASSUME origin \in Origins, origin.finite, Number.kind = "real"
  PROVE  Number.num \in Finite /\ Number = Value("real", Number.num)
<1>1. PICK p \in DOMAIN Sources : origin \in OriginsOf(p)
  <2>1. origin \notin [program : DOMAIN Sources \ {"zeek"}, as : {"real"},
                       num : {0}, finite : {FALSE}]
    OBVIOUS
  <2> QED BY <2>1 DEF Origins
<1>2. PICK a \in Sources[p] :
        origin \in [program : {p}, as : {a}, num : Written(p, a), finite : {TRUE}]
  BY <1>1 DEF OriginsOf
<1>3. /\ origin.program = p /\ origin.as = a /\ origin.num \in Written(p, a)
      /\ Number = Made(p, a, origin.num)
  BY <1>2 DEF Number
<1>4. CASE a = "real"
  BY <1>3, <1>4 DEF Made, Value, Written
<1>5. CASE p = "python" /\ a = "int"
  <2>1. Number = Value("real", JsNumber(origin.num)) /\ origin.num \in Wide
    BY <1>3, <1>5 DEF Made, Written
  <2>2. JsNumber(origin.num) \in Finite
    <3>1. PICK n \in -(2 ^ IntBits) .. 2 ^ (IntBits + 1) : origin.num = 2 * n
      BY <2>1 DEF Wide
    <3>2. /\ 2 ^ IntBits \in Nat /\ 2 ^ (IntBits + 1) = 2 * 2 ^ IntBits
          /\ 2 ^ (IntBits + 2) = 2 * 2 ^ (IntBits + 1)
      <4>1. IntBits + 1 \in Nat /\ IntBits + 2 = (IntBits + 1) + 1
        BY FloatTypes
      <4> QED BY <4>1, FloatTypes, PowerTwo
    <3>3. origin.num \in -(2 ^ (IntBits + 2)) .. 2 ^ (IntBits + 2)
      BY <3>1, <3>2
    <3>4. /\ JsNumber(origin.num) \in -(2 ^ (IntBits + 2)) .. 2 ^ (IntBits + 2)
          /\ JsNumber(JsNumber(origin.num)) = JsNumber(origin.num)
      BY <3>3, RoundedOnce
    <3> QED BY <3>4 DEF Finite
  <2> QED BY <2>1, <2>2 DEF Value
<1>6. CASE a # "real" /\ ~(p = "python" /\ a = "int")
  <2>1. a \in {"count", "integer"}
    BY <1>6 DEF Sources
  <2> QED BY <1>3, <1>6, <2>1 DEF Made, Value
<1> QED BY <1>4, <1>5, <1>6

(***************************************************************************)
(* How far a Real may have drifted after h hops: not at all as long as its  *)
(* digits fit a mantissa, and by less than one float for every hop.         *)
(***************************************************************************)
Near(g, h) ==
  \/ g = Number.num
  \/ ~Exact(Number.num) /\ Cardinality(Between(g, Number.num)) < h

Drifting ==
  Number.kind = "real" /\ origin.finite =>
    /\ pc \in {"value", "wire", "read"} =>
         \E g \in Finite : args[1] = Value("real", g) /\ Near(g, hops)
    /\ RealsDrift

LEMMA BetweenFinite ==
  ASSUME NEW g, NEW h
  PROVE  IsFiniteSet(Between(g, h)) /\ Cardinality(Between(g, h)) \in Nat
<1>1. Between(g, h) \in SUBSET Finite
  BY DEF Between
<1> QED BY <1>1, FiniteTypes, FS_Subset, FS_CardinalityType

(* One more parsing adds at most the float it started from. *)
LEMMA OneHopDrift ==
  ASSUME Number.num \in Finite, NEW h \in Nat,
         NEW g \in Finite, Near(g, h), NEW v \in Parsed[g]
  PROVE  v \in Finite /\ Near(v, h + 1)
<1> DEFINE n == Number.num
           B == Between(g, n)
           C == Between(v, n)
<1>1. Parsed[g] = IF Exact(g) THEN {g} ELSE {x \in Finite : Between(x, g) = {}}
  BY DEF Parsed
<1>2. CASE v = g
  BY <1>2, BetweenFinite DEF Near
<1>3. CASE v # g
  <2>1. ~Exact(g) /\ v \in Finite /\ Between(v, g) = {}
    BY <1>1, <1>3
  <2>2. ~Exact(n)
    BY <2>1 DEF Near
  <2>3. CASE g = n
    <3>1. Cardinality(C) = 0
      BY <2>1, <2>3, FS_EmptySet
    <3> HIDE DEF C
    <3> QED BY <2>1, <2>2, <3>1 DEF Near, C
  <2>4. CASE g # n
    <3>1. Cardinality(B) < h /\ IsFiniteSet(B) /\ Cardinality(B) \in Nat
      BY <2>4, BetweenFinite DEF Near
    <3>2. C \in SUBSET (B \cup {g})
      <4> SUFFICES ASSUME NEW x \in C, x # g PROVE x \in B
        OBVIOUS
      <4>1. x \in Finite /\ x \in Int /\ v \in Int /\ g \in Int /\ n \in Int
        BY <2>1, FiniteTypes DEF Between
      <4>2. (v < x /\ x < n) \/ (n < x /\ x < v)
        BY DEF Between
      <4>3. ~((v < x /\ x < g) \/ (g < x /\ x < v))
        BY <2>1, <4>1 DEF Between
      <4>4. (g < x /\ x < n) \/ (n < x /\ x < g)
        BY <4>1, <4>2, <4>3
      <4> QED BY <4>1, <4>4 DEF Between
    <3> HIDE DEF B
    <3>3. IsFiniteSet(B \cup {g}) /\ Cardinality(B \cup {g}) <= Cardinality(B) + 1
      <4>1. /\ IsFiniteSet(B \cup {g})
            /\ Cardinality(B \cup {g}) = IF g \in B THEN Cardinality(B) ELSE Cardinality(B) + 1
        BY <3>1, FS_AddElement, Zenon
      <4> QED BY <3>1, <4>1
    <3>4. Cardinality(C) <= Cardinality(B \cup {g}) /\ Cardinality(C) \in Nat
          /\ Cardinality(B \cup {g}) \in Nat
      <4>1. Cardinality(C) <= Cardinality(B \cup {g})
        <5> HIDE DEF C
        <5> QED BY <3>2, <3>3, FS_Subset
      <4> QED BY <3>3, <4>1, BetweenFinite, FS_CardinalityType
    <3> HIDE DEF C
    <3>5. Cardinality(C) < h + 1
      BY <3>1, <3>3, <3>4
    <3> QED BY <2>1, <2>2, <3>5 DEF Near, C
  <2> QED BY <2>3, <2>4
<1> QED BY <1>2, <1>3

LEMMA DriftStep == NumberInv /\ Drifting /\ [Next]_(vars) => Drifting'
<1> SUFFICES ASSUME NumberInv, Drifting, [Next]_(vars),
                    (Number.kind = "real")', (origin.finite)'
             PROVE  Drifting'
  BY DEF Drifting
<1> DEFINE n == Number.num
<1>1. origin' = origin /\ Number' = Number
  <2>1. origin' = origin
    BY DEF Next, Make, Send, Arrive, Read, ReadBy, Done, vars
  <2> QED BY <2>1 DEF Number
<1>2. /\ origin \in Origins /\ origin.finite /\ Number.kind = "real" /\ hops \in Nat
      /\ n \in Finite /\ Number = Value("real", n)
  BY <1>1, RealOrigin DEF NumberInv
<1>3. ASSUME hops' = hops PROVE \A g : Near(g, hops)' <=> Near(g, hops)
  BY <1>1, <1>3 DEF Near
<1>4. CASE Make
  <2>1. /\ pc' = "value" /\ args'[1] = Number
    <3>1. Fits(Number)
      BY <1>2 DEF Fits
    <3>2. PICK other : args' = <<Number, other>>
      BY <1>4, <3>1 DEF Make
    <3> QED BY <1>4, <3>1, <3>2 DEF Make
  <2> QED BY <1>1, <1>2, <2>1 DEF Drifting, Near, RealsDrift
<1>5. CASE Send
  <2>1. hops' = hops /\ args' = args /\ pc = "value" /\ pc' = "wire"
    BY <1>5 DEF Send
  <2> QED BY <1>2, <1>3, <2>1 DEF Drifting, RealsDrift
<1>6. CASE Arrive
  <2>1. /\ pc = "wire" /\ hops' = hops + 1
        /\ wire = [i \in DOMAIN args |-> Text(args[i])] /\ DOMAIN args = {1, 2}
    BY <1>6 DEF Arrive, NumberInv, InTransit
  <2>2. PICK g \in Finite : args[1] = Value("real", g) /\ Near(g, hops)
    BY <1>2, <2>1 DEF Drifting
  <2>3. CASE Decodable(wire)
    <3>1. PICK v \in ValuesOf(wire[1]), w \in ValuesOf(wire[2]) : args' = <<v, w>>
      BY <1>6, <2>3 DEF Arrive
    <3>2. pc' = "value" /\ args'[1] = v
      BY <1>6, <2>3, <3>1 DEF Arrive
    <3>3. wire[1] = [kind |-> "real", num |-> g, null |-> FALSE]
      <4>1. wire[1] = Text(args[1])
        BY <2>1
      <4> QED BY <2>2, <4>1 DEF Text, Value
    <3>4. PICK x \in Parsed[g] : v = Value("real", x)
      BY <3>3 DEF ValuesOf
    <3>5. x \in Finite /\ Near(x, hops + 1)
      BY <1>2, <2>2, OneHopDrift
    <3>6. Near(x, hops)'
      BY <1>1, <2>1, <3>5 DEF Near
    <3> QED BY <3>2, <3>4, <3>5, <3>6 DEF Drifting, RealsDrift
  <2>4. CASE ~Decodable(wire)
    <3>1. pc' = "undecodable"
      BY <1>6, <2>4 DEF Arrive
    <3> QED BY <3>1 DEF Drifting, RealsDrift
  <2> QED BY <2>3, <2>4
<1>7. CASE Read
  <2> DEFINE By(ask, got) ==
        /\ \/ ask.program = "rust" /\ got = RustRead(args[1], ask.kind, ask.bits)
           \/ ask.program = "c" /\ got = CRead(args[1], ask.kind)
           \/ ask.program = "node" /\ got = NodeRead(args[1])
           \/ ask.program = "python" /\ got = PythonRead(args[1], ask.kind)
        /\ ReadBy(ask, got)
  <2>1. PICK ask \in Asks : \E got : By(ask, got)
    BY <1>7 DEF Read
  <2>2. PICK got : By(ask, got)
    BY <2>1
  <2>3. /\ UNCHANGED <<origin, args, wire, hops>>
        /\ pc = "value" /\ pc' = "read" /\ result' = [ask |-> ask, got |-> got]
    BY <2>2 DEF ReadBy
  <2>4. PICK g \in Finite : args[1] = Value("real", g) /\ Near(g, hops)
    BY <1>2, <2>3 DEF Drifting
  <2>5. got.ok => IF ask.kind = "int" THEN got.num = 2 * Trunc(g, 2) ELSE got.num = g
    <3>1. args[1].kind = "real" /\ args[1].num = g /\ args[1].finite
      BY <2>4 DEF Value
    <3>2. CASE ask.program = "rust" /\ got = RustRead(args[1], ask.kind, ask.bits)
      <4>1. ask.kind # "int"
        BY <3>2 DEF Asks
      <4> QED BY <3>1, <3>2, <4>1 DEF RustRead, Got, Nothing
    <3>3. CASE ask.program = "c" /\ got = CRead(args[1], ask.kind)
      <4>1. ask.kind # "int"
        BY <3>3 DEF Asks
      <4> QED BY <3>1, <3>3, <4>1 DEF CRead, Got, Nothing
    <3>4. CASE ask.program = "node" /\ got = NodeRead(args[1])
      <4>1. ask.kind # "int"
        BY <3>4 DEF Asks
      <4> QED BY <3>1, <3>4, <4>1 DEF NodeRead, Got
    <3>5. CASE ask.program = "python" /\ got = PythonRead(args[1], ask.kind)
      <4>1. JsNumber(g) = g
        BY FiniteTypes
      <4> QED BY <3>1, <3>5, <4>1 DEF PythonRead, Got
    <3> QED BY <2>2, <3>2, <3>3, <3>4, <3>5
  <2>6. Answer' = got /\ Asked' = ask
    BY <2>3 DEF Answer, Asked
  <2>7. RealsDrift'
    <3>1. SUFFICES ASSUME got.ok
                   PROVE  IF ask.kind = "int"
                            THEN Exact(n) => got.num = 2 * Trunc(n, 2)
                            ELSE \/ got.num = n
                                 \/ ~Exact(n) /\ Cardinality(Between(got.num, n)) < hops
      <4>1. /\ Answer'.ok <=> got.ok
            /\ Answer'.num = got.num
            /\ Asked'.kind = ask.kind
            /\ Number'.num = n
            /\ hops' = hops
        BY <1>1, <2>3, <2>6
      <4> QED BY <4>1 DEF RealsDrift
    <3> QED BY <2>4, <2>5, <3>1 DEF Near
  <2> QED BY <1>3, <2>3, <2>4, <2>7 DEF Drifting
<1>8. CASE Done \/ UNCHANGED vars
  <2>1. UNCHANGED <<kind, pc, origin, args, wire, hops, result>>
    BY <1>8 DEF Done, vars
  <2>2. RealsDrift' <=> RealsDrift
    BY <1>1, <2>1 DEF RealsDrift, Answer, Asked
  <2> QED BY <1>2, <1>3, <2>1, <2>2 DEF Drifting
<1> QED BY <1>4, <1>5, <1>6, <1>7, <1>8 DEF Next

(***************************************************************************)
(* A Real is exact while its digits fit a mantissa, and drifts by at most   *)
(* one float for every time it is sent (serde_json without float_roundtrip).*)
(***************************************************************************)
THEOREM RealsDriftSlowly == Spec => []RealsDrift
<1>1. Init => Drifting
  BY DEF Init, Drifting, RealsDrift
<1>2. NumberInv /\ Drifting => RealsDrift
  <2> SUFFICES ASSUME NumberInv, Drifting PROVE RealsDrift
    OBVIOUS
  <2> QED BY DEF Drifting, RealsDrift
<1> QED BY <1>1, <1>2, NumbersInvariance, DriftStep, PTL DEF Spec

-----------------------------------------------------------------------------
(* Timespans *)

(* How far rounding moves a quotient: by half at most. *)
LEMMA RoundError ==
  ASSUME NEW x \in Nat, NEW b \in Nat \ {0}
  PROVE  /\ RoundEven(x, b) \in Nat
         /\ 2 * (RoundEven(x, b) * b) <= 2 * x + b
         /\ 2 * x <= 2 * (RoundEven(x, b) * b) + b
<1> DEFINE q == x \div b
           r == x % b
           m == RoundEven(x, b)
<1>1. q \in Int /\ r \in 0 .. b - 1 /\ x = b * q + r
  OBVIOUS
<1>2. (m = q /\ 2 * r <= b) \/ (m = q + 1 /\ 2 * r >= b)
  <2> HIDE DEF q, r
  <2>1. m = IF 2 * r < b \/ (2 * r = b /\ q % 2 = 0) THEN q ELSE q + 1
    BY DEF RoundEven, q, r
  <2> QED BY <1>1, <2>1
<1>3. 0 <= m
  <2>1. x <= x * b
    OBVIOUS
  <2>2. m \in 0 .. x
    BY <2>1, RoundBounds
  <2> QED BY <2>2
<1> HIDE DEF q, r, m
<1>4. m * b = b * q \/ m * b = b * q + b
  BY <1>1, <1>2
<1>5. (m = q => m * b = b * q) /\ (m = q + 1 => m * b = b * q + b)
  BY <1>1
<1>6. m \in Nat /\ m * b \in Int /\ b * q \in Int
  BY <1>1, <1>2, <1>3
<1>7. 2 * (m * b) <= 2 * x + b /\ 2 * x <= 2 * (m * b) + b
  <2> DEFINE y == b * q
             z == m * b
  <2>1. y \in Int /\ z \in Int /\ x = y + r /\ (m = q => z = y) /\ (m = q + 1 => z = y + b)
    BY <1>1, <1>5, <1>6
  <2> HIDE DEF y, z
  <2>2. 2 * z <= 2 * x + b /\ 2 * x <= 2 * z + b
    BY <1>1, <1>2, <2>1
  <2> QED BY <2>2 DEF z
<1> QED BY <1>6, <1>7 DEF m

(***************************************************************************)
(* A quotient of k digits, rounded to F digits of which F - k come after    *)
(* the point (w is 2 ^ (F - k)), keeps its integer part: it could be        *)
(* rounded up to the next integer only from more than 2 ^ F units.          *)
(***************************************************************************)
LEMMA RoundKeepsFloor ==
  ASSUME NEW q \in Nat, NEW s \in Nat \ {0}, NEW r \in 0 .. s - 1, NEW w \in Nat \ {0},
         r = 0 \/ 2 * w > s \/ (q = 0 /\ w > 1 /\ r <= w)
  PROVE  RoundEven((q * s + r) * w, s) \div w = q
<1> DEFINE m == RoundEven((q * s + r) * w, s)
<1>1. CASE r = 0
  <2>1. (q * s + r) * w = (q * w) * s /\ q * w \in Int
    BY <1>1
  <2>2. m = q * w
    BY <2>1, RoundExact
  <2> QED BY <2>2, DivExact
<1>2. CASE r # 0
  <2> DEFINE x == (q * s + r) * w
             a == q * w
             c == a * s
             d == r * w
             e == w * s
  <2>1. x \in Nat /\ a \in Nat /\ x = c + d /\ c \in Nat /\ d \in Nat /\ e \in Nat
    OBVIOUS
  <2>2. m \in Nat /\ 2 * (m * s) <= 2 * x + s /\ 2 * x <= 2 * (m * s) + s
    <3> HIDE DEF x
    <3> QED BY <2>1, RoundError DEF x
  <2>3. d <= e - w
    <3>1. r <= s - 1 /\ (s - 1) * w = e - w /\ (s - 1) \in Int
      OBVIOUS
    <3>2. r * w <= (s - 1) * w
      BY <3>1
    <3> QED BY <3>1, <3>2
  <2> HIDE DEF m, x
  <2>4. m >= a
    <3> SUFFICES ASSUME m <= a - 1 PROVE FALSE
      BY <2>1, <2>2
    <3>1. m * s <= c - s
      <4>1. m * s <= (a - 1) * s /\ (a - 1) * s = c - s
        BY <2>1, <2>2
      <4> QED BY <4>1
    <3>2. m * s \in Int
      BY <2>2
    <3> HIDE DEF c, d, e
    <3> QED BY <2>1, <2>2, <3>1, <3>2
  <2>5. m < a + w
    <3> SUFFICES ASSUME m >= a + w PROVE FALSE
      BY <2>1, <2>2
    <3>1. m * s >= c + e
      <4>1. m * s >= (a + w) * s /\ (a + w) * s = c + e
        BY <2>1, <2>2
      <4> QED BY <4>1
    <3>2. m * s \in Int
      BY <2>2
    <3>3. 2 * e <= 2 * d + s
      <4> HIDE DEF c, d, e
      <4> QED BY <2>1, <2>2, <3>1, <3>2
    <3>4. CASE 2 * w > s
      <4> HIDE DEF c, d, e
      <4> QED BY <2>1, <2>3, <3>3, <3>4
    <3>5. CASE 2 * w <= s /\ r <= w /\ w > 1
      <4>1. 2 * d <= w * s
        <5>1. 2 * d = (2 * r) * w /\ 2 * r <= s
          BY <3>5
        <5>2. ASSUME NEW y \in Nat, y <= s PROVE y * w <= w * s
          BY <5>2
        <5>3. 2 * r \in Nat
          OBVIOUS
        <5> QED BY <5>1, <5>2, <5>3
      <4>2. e >= 2 * s
        BY <3>5
      <4> HIDE DEF c, d
      <4>3. 2 * d <= e
        BY <4>1
      <4> HIDE DEF e
      <4> QED BY <2>1, <3>3, <4>2, <4>3
    <3> QED BY <1>2, <3>4, <3>5
  <2>6. m = q * w + (m - a) /\ m - a \in 0 .. w - 1
    BY <2>1, <2>2, <2>4, <2>5
  <2> QED BY <2>2, <2>6, DivUnique DEF m
<1> QED BY <1>1, <1>2

(* Up to 2 ^ F, whole numbers are floats. *)
LEMMA SmallExact ==
  ASSUME NEW n \in 0 .. 2 ^ F
  PROVE  JsNumber(n) = n /\ JsNumber(-n) = -n
<1>1. 2 ^ F \in Nat /\ n \in Nat
  BY FloatTypes, PowerTwo
<1>2. n * 2 ^ 0 = n
  <2>1. 2 ^ 0 = 1
    OBVIOUS
  <2> QED BY <1>1, <2>1
<1>3. n <= 2 ^ (IntBits + 2)
  <2>1. F \in Nat /\ IntBits + 2 \in Nat /\ F <= IntBits + 2
    BY FloatTypes
  <2>2. 2 ^ F <= 2 ^ (IntBits + 2) /\ 2 ^ (IntBits + 2) \in Nat
    BY <2>1, PowerGrows, PowerTwo
  <2> QED BY <1>1, <2>2
<1> QED BY <1>2, <1>3, FewDigitsExact

(* Up to 2 ^ F, a float is divided by a whole number exactly, to its integer part. *)
LEMMA QuotientFloors ==
  ASSUME NEW n \in 0 .. 2 ^ F, NEW s \in Nat \ {0}
  PROVE  /\ n \div s \in Nat /\ (n \div s) * s <= n
         /\ Float(n, s) = n \div s /\ Float(-n, s) = -(n \div s)
<1> DEFINE q == n \div s
           r == n % s
           u == 2 ^ F
<1>1. u \in Nat \ {0} /\ n \in Nat /\ n <= u
  BY FloatTypes, PowerTwo
<1>2. q \in Int /\ r \in 0 .. s - 1 /\ n = q * s + r
  <2> HIDE DEF u
  <2> QED BY <1>1
<1> HIDE DEF q, r, u
<1>3. 0 <= q /\ q * s <= n /\ q <= n
  <2>1. 0 <= q
    <3> SUFFICES ASSUME q <= -1 PROVE FALSE
      BY <1>2
    <3>1. q * s <= (-1) * s
      BY <1>2
    <3> QED BY <1>1, <1>2, <3>1
  <2>2. q <= q * s
    BY <1>2, <2>1
  <2> QED BY <1>1, <1>2, <2>1, <2>2
<1>4. Float(n, s) = q /\ Float(-n, s) = -q
  <2>1. CASE s = 1
    <3>1. q = n
      BY <1>1, <1>2, <2>1
    <3>2. JsNumber(n) = n /\ JsNumber(-n) = -n
      BY <1>1, SmallExact DEF u
    <3> QED BY <2>1, <3>1, <3>2 DEF JsNumber
  <2>2. CASE s # 1
    <3>1. 2 * q <= n
      <4>1. 2 * q <= q * s
        BY <1>2, <1>3, <2>2
      <4> QED BY <1>1, <1>2, <1>3, <4>1
    <3>2. q < u
      BY <1>1, <1>2, <3>1
    <3>3. PICK k \in 0 .. F : IsDigits(q, k)
      BY <1>2, <1>3, <3>2, FloatTypes, DigitsExist DEF u
    <3> DEFINE p == 2 ^ k
               w == 2 ^ (F - k)
    <3>4. /\ k \in Nat /\ F - k \in Nat /\ k \in 0 .. IntBits + 3
          /\ p \in Nat \ {0} /\ w \in Nat \ {0} /\ u = p * w
      <4>1. k \in Nat /\ F - k \in Nat /\ k \in 0 .. IntBits + 3 /\ F \in Nat /\ k <= F
        BY FloatTypes
      <4> QED BY <4>1, PowerTwo, PowerGrows DEF u
    <3>5. r = 0 \/ 2 * w > s \/ (q = 0 /\ w > 1 /\ r <= w)
      <4>1. CASE k = 0
        <5>1. p = 1 /\ q < p
          <6>1. 2 ^ 0 = 1
            OBVIOUS
          <6> QED BY <3>3, <4>1, <6>1 DEF IsDigits
        <5> HIDE DEF p, w
        <5>2. q = 0 /\ w = u
          BY <1>2, <1>3, <3>4, <5>1
        <5>3. u > 1
          <6>1. F - 1 \in Nat /\ F = (F - 1) + 1
            BY FloatTypes
          <6>2. u = 2 * 2 ^ (F - 1) /\ 2 ^ (F - 1) \in Nat \ {0}
            BY <6>1, PowerTwo DEF u
          <6> QED BY <6>2
        <5> QED BY <1>1, <1>2, <5>2, <5>3
      <4>2. CASE k > 0
        <5> SUFFICES ASSUME r # 0, 2 * w <= s PROVE FALSE
          BY <1>2, <3>4
        <5> DEFINE h == 2 ^ (k - 1)
        <5>1. h \in Nat \ {0} /\ p = 2 * h /\ q >= h
          <6>1. k - 1 \in Nat /\ k = (k - 1) + 1
            BY <3>4, <4>2
          <6> QED BY <3>3, <4>2, <6>1, PowerTwo DEF IsDigits
        <5> HIDE DEF p, w, h
        <5>2. h * s <= q * s /\ h * (2 * w) <= h * s
          BY <1>2, <3>4, <5>1
        <5>3. h * (2 * w) = p * w
          BY <3>4, <5>1
        <5>4. p * w <= q * s
          <6>1. h * s \in Int /\ q * s \in Int /\ p * w \in Int
            BY <1>2, <3>4, <5>1
          <6> QED BY <5>2, <5>3, <6>1
        <5> QED BY <1>1, <1>2, <1>3, <3>4, <5>4
      <4> QED BY <3>4, <4>1, <4>2
    <3> DEFINE m == RoundEven(n * w, s)
               near == m * p
    <3>6. m \div w = q /\ m \in Nat
      <4> HIDE DEF p, w
      <4>1. m \div w = q
        BY <1>2, <1>3, <3>4, <3>5, RoundKeepsFloor
      <4>2. m \in Nat
        <5> DEFINE x == n * w
        <5>1. x \in Nat
          BY <1>1, <3>4
        <5> HIDE DEF x
        <5>2. RoundEven(x, s) \in Nat
          BY <5>1, RoundError
        <5> QED BY <5>2 DEF x
      <4> QED BY <4>1, <4>2
    <3>7. Digits(n * u, s * u) = k
      <4> DEFINE Q(j) == n * u < (s * u) * 2 ^ j /\ (j > 0 => n * u >= (s * u) * 2 ^ (j - 1))
      <4>1. ASSUME NEW j \in 0 .. IntBits + 3 PROVE Q(j) <=> IsDigits(q, j)
        <5>1. j \in Nat /\ 2 ^ j \in Nat /\ (j > 0 => j - 1 \in Nat /\ 2 ^ (j - 1) \in Nat)
          BY FloatTypes, PowerTwo
        <5>2. ASSUME NEW y \in Nat
              PROVE  (n * u < (s * u) * y <=> q < y) /\ (n * u >= (s * u) * y <=> q >= y)
          <6>1. n * u < (s * u) * y <=> n < s * y
            <7>1. (s * u) * y = (s * y) * u /\ s * y \in Int
              BY <1>1
            <7>2. ASSUME NEW z \in Int PROVE n * u < z * u <=> n < z
              BY <1>1
            <7> QED BY <7>1, <7>2
          <6>2. n < s * y <=> q < y
            <7>1. ASSUME q < y PROVE n < s * y
              <8>1. (q + 1) * s <= y * s /\ (q + 1) * s = q * s + s
                BY <1>2, <7>1
              <8>2. q * s \in Int /\ y * s = s * y /\ s * y \in Int
                BY <1>2
              <8> QED BY <1>2, <8>1, <8>2
            <7>2. ASSUME q >= y PROVE n >= s * y
              <8>1. q * s >= y * s
                BY <1>2, <7>2
              <8>2. q * s \in Int /\ y * s = s * y /\ s * y \in Int
                BY <1>2
              <8> QED BY <1>1, <1>2, <8>1, <8>2
            <7> QED BY <1>1, <1>2, <7>1, <7>2
          <6>3. n * u \in Int /\ (s * u) * y \in Int
            BY <1>1
          <6> QED BY <1>2, <6>1, <6>2, <6>3
        <5> QED BY <5>1, <5>2 DEF IsDigits
      <4>2. \A j \in 0 .. IntBits + 3 : Q(j) <=> j = k
        <5>1. \A j \in 0 .. IntBits + 3 : j \in Nat
          BY FloatTypes
        <5> HIDE DEF Q
        <5> QED BY <1>2, <1>3, <3>3, <3>4, <4>1, <5>1, DigitsUnique
      <4>3. Digits(n * u, s * u) = CHOOSE j \in 0 .. IntBits + 3 : Q(j)
        BY DEF Digits
      <4> HIDE DEF Q
      <4> QED BY <3>4, <4>2, <4>3
    <3>8. RoundEven(n * u, s * p) = m
      <4> HIDE DEF p, w
      <4>1. n * u = (n * w) * p /\ n * w \in Int
        BY <1>1, <3>4
      <4>2. RoundEven((n * w) * p, s * p) = m
        <5> DEFINE x == n * w
        <5>1. x \in Int
          BY <4>1
        <5> HIDE DEF x
        <5>2. RoundEven(x * p, s * p) = RoundEven(x, s)
          BY <3>4, <5>1, RoundScale
        <5> QED BY <5>2 DEF x
      <4> HIDE DEF m
      <4> QED BY <4>1, <4>2
    <3>9. ASSUME NEW x, x = n \/ (x = -n /\ n > 0)
          PROVE  Nearest(F, x, s) = IF x < 0 THEN -near ELSE near
      <4>1. (IF x < 0 THEN -x ELSE x) = n
        BY <1>1, <3>9
      <4> DEFINE c == (IF x < 0 THEN -x ELSE x) * 2 ^ F
                 d == Digits(c, s * 2 ^ F)
      <4>2. c = n * u
        BY <4>1 DEF u
      <4> HIDE DEF c
      <4>3. d = k
        BY <3>7, <4>2 DEF u
      <4> HIDE DEF d, m
      <4>4. Nearest(F, x, s) = IF x < 0 THEN -(RoundEven(c, s * 2 ^ d) * 2 ^ d)
                                        ELSE RoundEven(c, s * 2 ^ d) * 2 ^ d
        BY DEF Nearest, c, d
      <4> QED BY <3>8, <4>2, <4>3, <4>4
    <3>10. near \in Nat /\ near \div u = q
      <4> HIDE DEF p, w, m
      <4>1. near = m * p /\ u = w * p
        BY <3>4
      <4>2. (m * p) \div (w * p) = m \div w
        BY <3>4, <3>6, DivScale
      <4>3. m * p \in Nat
        BY <3>4, <3>6
      <4> QED BY <3>6, <4>1, <4>2, <4>3
    <3> HIDE DEF near
    <3>11. \A x : Float(x, s) = Trunc(Nearest(F, x, s), u)
      BY DEF Float, F, u
    <3>12. Trunc(near, u) = q
      BY <3>10 DEF Trunc
    <3>13. CASE n = 0
      <4>1. -n = n /\ -q = q /\ ~(n < 0)
        <5>1. n \in Int /\ q \in Int /\ q = 0 /\ ~(n < 0)
          BY <1>1, <1>2, <1>3, <3>13
        <5> QED BY <3>13, <5>1, MinusZero, Zenon
      <4> QED BY <3>9, <3>11, <3>12, <4>1
    <3>14. CASE n > 0
      <4>1. -n < 0 /\ ~(n < 0)
        BY <1>1, <3>14
      <4>2. Trunc(-near, u) = -q
        <5>1. CASE near = 0
          <6>1. -near = near /\ ~(near < 0) /\ -q = q
            <7>1. near \in Int /\ q \in Int /\ q = 0 /\ ~(near < 0)
              BY <1>1, <1>2, <3>10, <5>1
            <7> QED BY <5>1, <7>1, MinusZero, Zenon
          <6> QED BY <3>10, <6>1 DEF Trunc
        <5>2. CASE near > 0
          <6>1. -near < 0 /\ -(-near) = near
            BY <3>10, <5>2
          <6> QED BY <3>10, <6>1 DEF Trunc
        <5> QED BY <3>10, <5>1, <5>2
      <4> QED BY <3>9, <3>11, <3>12, <3>14, <4>1, <4>2
    <3> QED BY <1>1, <3>13, <3>14
  <2> QED BY <2>1, <2>2
<1> QED BY <1>2, <1>3, <1>4 DEF q

Small == -(2 ^ F) .. 2 ^ F

(* The seconds of a number of nanoseconds, and what they leave, are exact. *)
LEMMA NodeSpanExact ==
  ASSUME NEW n \in Small, Second \in Nat \ {0}
  PROVE  NodeSpan(n) = n /\ JsNumber(n) = n
<1> DEFINE u == 2 ^ F
           a == IF n < 0 THEN -n ELSE n
           q == a \div Second
           b == q * Second
           Signed(x) == IF n < 0 THEN -x ELSE x
<1>1. u \in Nat /\ n \in Int /\ a \in 0 .. u /\ n = Signed(a)
  BY FloatTypes, PowerTwo DEF Small
<1>2. q \in Nat /\ b <= a /\ Float(a, Second) = q /\ Float(-a, Second) = -q
  BY <1>1, QuotientFloors
<1> HIDE DEF u, a, q
<1>3. b \in 0 .. u /\ a - b \in 0 .. u
  BY <1>1, <1>2
<1>4. Signed(q) * Second = Signed(b)
  BY <1>2
<1> HIDE DEF b
<1>5. \A x \in 0 .. u : Float(Signed(x), 1) = Signed(x)
  BY SmallExact DEF u, JsNumber
<1>6. Signed(a) - Signed(b) = Signed(a - b)
  BY <1>1, <1>3
<1>7. Float(n, 1) = n
  BY <1>1, <1>5
<1>8. Float(n, Second) = Signed(q)
  BY <1>1, <1>2
<1>9. Float(Signed(b), 1) = Signed(b) /\ Float(Signed(a - b), 1) = Signed(a - b)
  BY <1>3, <1>5
<1>10. Signed(b) + Signed(a - b) = n
  BY <1>1, <1>3
<1>11. NodeSpan(n) = Signed(b) + Signed(a - b)
  <2>1. NodeSpan(n) =
          Float(Float(n, 1), Second) * Second
            + Float(Float(n, 1) - Float(Float(Float(n, 1), Second) * Second, 1), 1)
    BY DEF NodeSpan
  <2> HIDE DEF Signed
  <2>2. n = Signed(a)
    BY <1>1
  <2> QED BY <1>4, <1>6, <1>7, <1>8, <1>9, <2>1, <2>2
<1> QED BY <1>7, <1>10, <1>11 DEF JsNumber

(* A timespan that no float has rounded *)
Unrounded ==
  origin.program \in {"rust", "c"} \/ (origin.program = "node" /\ origin.num \in Small)

(***************************************************************************)
(* The inductive invariant: the value, and what the text stands for, is the *)
(* number that was written.                                                 *)
(***************************************************************************)
SpanInv ==
  kind = "span" =>
    /\ origin.program \in {"rust", "c", "node", "zeek"}
    /\ Unrounded =>
         /\ origin.num \in Durations
         /\ origin.program = "node" => origin.num \in I64
         /\ pc = "value" => value = origin.num
         /\ pc = "text" => SpanOf(text) = origin.num
         /\ pc = "read" => IF origin.num \in I64
                             THEN result.ok /\ result.num = Seen(origin.num)
                             ELSE ~result.ok
         /\ pc = "refused" => origin.num \notin I64
         /\ pc # "overflow"

LEMMA I64Types ==
  ASSUME Second \in Nat \ {0}
  PROVE  I64 \subseteq Durations /\ Durations \subseteq Int
<1>1. 2 ^ (IntBits - 1) \in Nat \ {0}
  <2>1. IntBits - 1 \in Nat
    BY FloatsAssumption
  <2> QED BY <2>1, PowerTwo
<1>2. MaxInt \in Nat /\ MinInt \in Int /\ MinInt < 0
  BY <1>1 DEF MaxInt, MinInt
<1>3. MinInt * Second <= MinInt /\ MaxInt * Second >= MaxInt
  BY <1>2
<1>4. MinInt * Second \in Int /\ MaxInt * Second \in Int
  BY <1>2
<1> QED BY <1>2, <1>3, <1>4 DEF I64, Durations

LEMMA SpanInit == TVInit => SpanInv
<1> SUFFICES ASSUME TVInit, kind = "span" PROVE SpanInv
  BY DEF SpanInv
<1>1. PICK program \in {"rust", "c", "node", "zeek"}, h \in Hosts :
        \E n \in WrittenAs(program, kind) :
          /\ origin = [program |-> program, host |-> h, num |-> n]
          /\ value = ValueOf(program, kind, n)
          /\ pc = IF program = "zeek" THEN "text" ELSE "value"
  BY DEF TVInit
<1>2. PICK n \in WrittenAs(program, kind) :
        /\ origin = [program |-> program, host |-> h, num |-> n]
        /\ value = ValueOf(program, kind, n)
        /\ pc = IF program = "zeek" THEN "text" ELSE "value"
  BY <1>1
<1>3. Second \in Nat \ {0} /\ I64 \subseteq Durations
  BY I64Types, TimeValuesAssumption
<1>4. CASE program \in {"rust", "c"}
  <2>1. n \in Durations
    BY <1>3, <1>4 DEF WrittenAs
  <2>2. value = n
    BY <1>2, <1>4 DEF ValueOf
  <2> QED BY <1>2, <1>4, <2>1, <2>2 DEF SpanInv
<1>5. CASE program = "node"
  <2>1. n \in I64
    BY <1>5 DEF WrittenAs
  <2>2. n \in Small => value = n
    BY <1>2, <1>3, <1>5, NodeSpanExact DEF ValueOf
  <2> QED BY <1>2, <1>3, <1>5, <2>1, <2>2 DEF SpanInv, Unrounded
<1>6. CASE program = "zeek"
  BY <1>2, <1>6 DEF SpanInv, Unrounded
<1> QED BY <1>4, <1>5, <1>6

LEMMA SpanTextRead ==
  ASSUME Second \in Nat \ {0}, NEW d \in Int
  PROVE  /\ SpanText(d) # Refused => SpanOf(SpanText(d)) = d
         /\ SpanText(d) = Refused => d \notin I64
<1>1. CASE d % Second = 0
  <2>1. (d \div Second) * Second = d
    BY <1>1
  <2> QED BY <1>1, <2>1 DEF SpanText, SpanOf, Refused
<1>2. CASE d % Second # 0
  <2>1. d * 1 = d
    OBVIOUS
  <2> QED BY <1>2, <2>1 DEF SpanText, SpanOf, Refused
<1> QED BY <1>1, <1>2

LEMMA SpanStep == SpanInv /\ [TVNext]_(tvVars) => SpanInv'
<1> SUFFICES ASSUME SpanInv, [TVNext]_(tvVars), kind = "span",
                    kind' = kind, origin' = origin, Unrounded
             PROVE  SpanInv'
  <2>1. ASSUME TVNext PROVE UNCHANGED <<kind, origin>>
    <3>1. CASE Serialize \/ Deserialize \/ OffsetUnknown \/ OffsetChanges
      BY <3>1 DEF Serialize, Deserialize, OffsetUnknown, OffsetChanges
    <3>2. CASE ReadC \/ ReadNode
      BY <3>2 DEF ReadC, ReadNode, ReturnTo
    <3>3. CASE TVDone
      BY <3>3 DEF TVDone, tvVars
    <3> QED BY <2>1, <3>1, <3>2, <3>3 DEF TVNext
  <2>2. ASSUME UNCHANGED tvVars PROVE UNCHANGED <<kind, origin>>
    BY <2>2 DEF tvVars
  <2> QED BY <2>1, <2>2 DEF SpanInv, Unrounded
<1>1. /\ origin.num \in Durations /\ origin.num \in Int
      /\ Second \in Nat \ {0} /\ Unrounded'
      /\ origin.program \in {"rust", "c", "node", "zeek"}
      /\ origin.program = "node" => origin.num \in I64
  BY I64Types, TimeValuesAssumption DEF SpanInv, Unrounded
<1>2. CASE Serialize
  <2>1. /\ value = origin.num /\ text' = SpanText(value)
        /\ pc' = IF text' = Refused THEN "refused" ELSE "text"
    BY <1>2 DEF Serialize, SpanInv
  <2>2. /\ pc' \in {"refused", "text"}
        /\ pc' = "text" => SpanOf(text') = origin.num
        /\ pc' = "refused" => origin.num \notin I64
    BY <1>1, <2>1, SpanTextRead
  <2> QED BY <1>1, <2>2 DEF SpanInv, SpanOf
<1>3. CASE Deserialize
  <2>1. value' = SpanOf(text) /\ pc = "text"
        /\ pc' = IF value' \notin Durations THEN "overflow" ELSE "value"
    BY <1>3 DEF Deserialize
  <2>2. value' = origin.num /\ pc' = "value"
    BY <1>1, <2>1 DEF SpanInv
  <2> QED BY <1>1, <2>2 DEF SpanInv
<1>4. CASE ReadC \/ ReadNode
  <2>1. PICK program : pc = "value" /\ ReturnTo(program, value)
    BY <1>4 DEF ReadC, ReadNode
  <2>2. value = origin.num /\ pc' = "read"
    BY <2>1 DEF SpanInv, ReturnTo
  <2>3. IF origin.num \in I64
          THEN result'.ok /\ result'.num = Seen(origin.num)'
          ELSE ~result'.ok
    BY <2>1, <2>2 DEF ReturnTo, Seen
  <2> QED BY <1>1, <2>2, <2>3 DEF SpanInv
<1>5. CASE OffsetChanges
  <2>1. UNCHANGED <<pc, value, text, result>>
    BY <1>5 DEF OffsetChanges
  <2> QED BY <1>1, <2>1 DEF SpanInv, Seen, SpanOf
<1>6. CASE TVDone \/ UNCHANGED tvVars
  <2>1. UNCHANGED <<pc, value, text, result>>
    BY <1>6 DEF TVDone, tvVars
  <2> QED BY <1>1, <2>1 DEF SpanInv, Seen, SpanOf
<1>7. CASE OffsetUnknown
  BY <1>7 DEF OffsetUnknown
<1> QED BY <1>2, <1>3, <1>4, <1>5, <1>6, <1>7 DEF TVNext

(***************************************************************************)
(* A timespan arrives exactly, in whichever unit it travels, or is refused  *)
(* because it is no i64 of nanoseconds; so does one the Node.js API made,   *)
(* of up to 2 ^ FloatBits nanoseconds (mod timespan and the APIs' readers). *)
(***************************************************************************)
THEOREM SpansArrive == TVSpec => []SpansExact
<1>1. TVInit => SpanInv
  BY SpanInit
<1>2. SpanInv /\ [TVNext]_(tvVars) => SpanInv'
  BY SpanStep
<1>3. SpanInv => SpansExact
  <2> SUFFICES ASSUME SpanInv, kind = "span" PROVE SpansExact
    BY DEF SpansExact
  <2>1. ASSUME origin.num \in Small PROVE Seen(origin.num) = origin.num
    <3>1. JsNumber(origin.num) = origin.num
      BY <2>1, NodeSpanExact, TimeValuesAssumption
    <3> QED BY <3>1 DEF Seen
  <2>2. Small = -(2 ^ FloatBits) .. 2 ^ FloatBits
    BY DEF Small, F
  <2> QED BY <2>1, <2>2 DEF SpanInv, Unrounded, SpansExact
<1> QED BY <1>1, <1>2, <1>3, PTL DEF TVSpec

=============================================================================
