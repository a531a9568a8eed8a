------------------------------- MODULE Lemmas -------------------------------
(***************************************************************************)
(* Facts that the proofs of several components rest on: about queues as     *)
(* sequences, for the queues of Inbox and Outbox (src/src/protocol.rs) and  *)
(* the channel of Service (src/src/client.rs), and about powers of two and  *)
(* division, for the widths of the numbers a Value holds.                   *)
(***************************************************************************)
EXTENDS Integers, Sequences, SequenceTheorems, FiniteSetTheorems, WellFoundedInduction, TLAPS

-----------------------------------------------------------------------------
(* Queues *)

(***************************************************************************)
(* Taking the head of a queue and appending it to what was taken before     *)
(* leaves the concatenation of the two as it was (the pop_front of Inbox    *)
(* and Outbox).                                                             *)
(***************************************************************************)
LEMMA PopMoves ==
  ASSUME NEW S, NEW s \in Seq(S), NEW t \in Seq(S), t # <<>>
  PROVE  /\ Head(t) \in S
         /\ Tail(t) \in Seq(S)
         /\ Append(s, Head(t)) \in Seq(S)
         /\ Append(s, Head(t)) \o Tail(t) = s \o t
  <1>1. Head(t) \in S /\ Tail(t) \in Seq(S)
    BY HeadTailProperties
  <1>2. Append(s, Head(t)) \in Seq(S)
    BY <1>1, AppendProperties
  <1>3. Append(s, Head(t)) \o Tail(t) = s \o t
    BY <1>1, <1>2
  <1> QED BY <1>1, <1>2, <1>3

(***************************************************************************)
(* Appending to a queue appends to the concatenation of what left it and    *)
(* what is still in it (push_back).                                         *)
(***************************************************************************)
LEMMA PushMoves ==
  ASSUME NEW S, NEW s \in Seq(S), NEW t \in Seq(S), NEW e \in S
  PROVE  s \o Append(t, e) = Append(s \o t, e)
  OBVIOUS

(* Appending to a queue that is not empty leaves its head alone. *)
LEMMA PushKeepsHead ==
  ASSUME NEW S, NEW t \in Seq(S), t # <<>>, NEW e \in S
  PROVE  Append(t, e) # <<>> /\ Head(Append(t, e)) = Head(t)
  <1>1. Len(t) \in Nat /\ Len(t) > 0
    OBVIOUS
  <1>2. Len(Append(t, e)) = Len(t) + 1 /\ Append(t, e)[1] = t[1]
    BY <1>1
  <1> QED BY <1>1, <1>2

(***************************************************************************)
(* What the loop of Inbox::next_event drops from the queue and what it      *)
(* leaves there are together the queue it started from.                     *)
(***************************************************************************)
LEMMA PrefixMoves ==
  ASSUME NEW S, NEW t \in Seq(S), NEW i \in 0 .. Len(t)
  PROVE  /\ SubSeq(t, 1, i) \in Seq(S)
         /\ SubSeq(t, i + 1, Len(t)) \in Seq(S)
         /\ Len(SubSeq(t, i + 1, Len(t))) = Len(t) - i
         /\ SubSeq(t, 1, i) \o SubSeq(t, i + 1, Len(t)) = t
  <1>1. SubSeq(t, 1, i) \in Seq(S) /\ SubSeq(t, i + 1, Len(t)) \in Seq(S)
    OBVIOUS
  <1>2. Len(SubSeq(t, i + 1, Len(t))) = Len(t) - i
    OBVIOUS
  <1>3. SubSeq(t, 1, i) \o SubSeq(t, i + 1, Len(t)) = t
    <2>1. /\ 1 \in 1 .. Len(t) + 1
          /\ i \in 1 - 1 .. Len(t)
          /\ Len(t) \in i .. Len(t)
      OBVIOUS
    <2>2. SubSeq(t, 1, i) \o SubSeq(t, i + 1, Len(t)) = SubSeq(t, 1, Len(t))
      BY <2>1, ConcatAdjacentSubSeq
    <2> QED BY <2>2, SubSeqFull
  <1> QED BY <1>1, <1>2, <1>3

-----------------------------------------------------------------------------
(* Numbers *)

LEMMA MinusZero ==
  ASSUME NEW x \in Int, x = 0
  PROVE  -x = x
<1> DEFINE y == -x
<1>1. y \in Int /\ x + y = 0
  OBVIOUS
<1> HIDE DEF y
<1>2. y = x
  BY <1>1
<1> QED BY <1>2 DEF y

(* A set of numbers that is not empty has a least element. *)
LEMMA LeastNumber ==
  ASSUME NEW C, C \subseteq Nat, C # {}
  PROVE  \E n \in C : \A m \in C : n <= m
<1>1. IsWellFoundedOn(OpToRel(<, Nat), Nat)
  BY NatLessThanWellFounded
<1>2. PICK n \in C : \A m \in C : ~(<<m, n>> \in OpToRel(<, Nat))
  BY <1>1, WFMin
<1>3. ASSUME NEW m \in C PROVE n <= m
  <2>1. m \in Nat /\ n \in Nat
    OBVIOUS
  <2>2. ~(m < n)
    BY <1>2, <2>1 DEF OpToRel
  <2> QED BY <2>1, <2>2
<1> QED BY <1>3

(* A power of two is the number of the sets of that many things. *)
LEMMA PowerTwo ==
  ASSUME NEW n \in Nat
  PROVE  2 ^ n \in Nat \ {0} /\ 2 ^ (n + 1) = 2 * 2 ^ n
<1> DEFINE S == 1 .. n
           A == SUBSET S
           B == {X \cup {n + 1} : X \in A}
           f == [X \in A |-> X \cup {n + 1}]
<1>1. IsFiniteSet(S) /\ Cardinality(S) = n /\ n + 1 \notin S
  BY FS_Interval
<1>2. IsFiniteSet(1 .. n + 1) /\ Cardinality(1 .. n + 1) = n + 1
  BY FS_Interval
<1>3. IsFiniteSet(A) /\ Cardinality(A) = 2 ^ n
  BY <1>1, FS_SUBSET
<1>4. Cardinality(SUBSET (1 .. n + 1)) = 2 ^ (n + 1)
  BY <1>2, FS_SUBSET
<1>5. f \in Bijection(A, B)
  <2>1. f \in [A -> B]
    OBVIOUS
  <2>2. ASSUME NEW X \in A, NEW Y \in A, f[X] = f[Y] PROVE X = Y
    <3>1. X \cup {n + 1} = Y \cup {n + 1} /\ n + 1 \notin X /\ n + 1 \notin Y
      BY <1>1, <2>2
    <3> QED BY <3>1
  <2>3. \A y \in B : \E X \in A : f[X] = y
    OBVIOUS
  <2> HIDE DEF f, A, B
  <2> QED BY <2>1, <2>2, <2>3 DEF Bijection, Injection, Surjection, IsInjective
<1>6. IsFiniteSet(B) /\ Cardinality(B) = 2 ^ n
  <2> HIDE DEF f, A, B
  <2> QED BY <1>3, <1>5, FS_Bijection DEF ExistsBijection
<1>7. A \cap B = {}
  <2>1. \A X \in A : n + 1 \notin X
    BY <1>1
  <2> QED BY <2>1
<1>8. A \cup B = SUBSET (1 .. n + 1)
  <2>1. 1 .. n + 1 = S \cup {n + 1}
    OBVIOUS
  <2>2. ASSUME NEW Z \in SUBSET (1 .. n + 1) PROVE Z \in A \cup B
    <3>1. CASE n + 1 \in Z
      <4>1. Z \ {n + 1} \in A /\ Z = (Z \ {n + 1}) \cup {n + 1}
        BY <2>1, <3>1
      <4> QED BY <4>1
    <3>2. CASE n + 1 \notin Z
      BY <2>1, <3>2
    <3> QED BY <3>1, <3>2
  <2>3. ASSUME NEW Z \in A \cup B PROVE Z \in SUBSET (1 .. n + 1)
    BY <2>1, <2>3
  <2> QED BY <2>2, <2>3
<1>9. 2 ^ n \in Nat
  BY <1>3, FS_CardinalityType
<1>10. 2 ^ n # 0
  <2>1. {} \in A /\ A # {}
    OBVIOUS
  <2> HIDE DEF A
  <2> QED BY <1>3, <2>1, FS_EmptySet
<1>11. 2 ^ (n + 1) = 2 ^ n + 2 ^ n
  <2> HIDE DEF A, B
  <2>1. Cardinality(A \cup B) = Cardinality(A) + Cardinality(B) - Cardinality(A \cap B)
    BY <1>3, <1>6, FS_Union
  <2>2. Cardinality(A \cap B) = 0
    BY <1>7, FS_EmptySet, Zenon
  <2>3. Cardinality(A \cup B) = 2 ^ n + 2 ^ n
    BY <1>3, <1>6, <1>9, <2>1, <2>2
  <2>4. Cardinality(A \cup B) = 2 ^ (n + 1)
    BY <1>4, <1>8, Zenon
  <2> QED BY <2>3, <2>4
<1> QED BY <1>9, <1>10, <1>11

(* The laws of powers *)
LEMMA PowerSum ==
  ASSUME NEW m \in Nat, NEW n \in Nat
  PROVE  2 ^ (m + n) = 2 ^ m * 2 ^ n
<1> DEFINE C == {k \in Nat : 2 ^ (m + k) # 2 ^ m * 2 ^ k}
<1> SUFFICES C = {}
  OBVIOUS
<1> SUFFICES ASSUME C # {} PROVE FALSE
  OBVIOUS
<1>1. PICK k \in C : \A j \in C : k <= j
  BY LeastNumber
<1>2. k \in Nat /\ 2 ^ (m + k) # 2 ^ m * 2 ^ k
  OBVIOUS
<1>3. CASE k = 0
  <2>1. m + 0 = m /\ 2 ^ 0 = 1 /\ 2 ^ m * 1 = 2 ^ m
    BY PowerTwo
  <2> QED BY <1>2, <1>3, <2>1
<1>4. CASE k # 0
  <2>1. PICK j \in Nat : k = j + 1
    <3>1. k - 1 \in Nat /\ k = (k - 1) + 1
      BY <1>2, <1>4
    <3> QED BY <3>1
  <2>2. j \notin C
    BY <1>1, <2>1
  <2>3. 2 ^ (m + j) = 2 ^ m * 2 ^ j
    BY <2>2
  <2>4. 2 ^ k = 2 * 2 ^ j
    BY <2>1, PowerTwo
  <2>5. 2 ^ (m + k) = 2 * 2 ^ (m + j)
    <3>1. m + k = (m + j) + 1 /\ m + j \in Nat
      BY <2>1
    <3> QED BY <3>1, PowerTwo
  <2>6. 2 ^ m \in Nat /\ 2 ^ j \in Nat
    BY PowerTwo
  <2>7. ASSUME NEW x \in Nat, NEW y \in Nat PROVE 2 * (x * y) = x * (2 * y)
    OBVIOUS
  <2> QED BY <1>2, <2>3, <2>4, <2>5, <2>6, <2>7
<1> QED BY <1>3, <1>4

LEMMA PowerGrows ==
  ASSUME NEW m \in Nat, NEW n \in Nat, m <= n
  PROVE  2 ^ n = 2 ^ m * 2 ^ (n - m) /\ 2 ^ m <= 2 ^ n
<1>1. n - m \in Nat /\ n = m + (n - m)
  OBVIOUS
<1>2. 2 ^ n = 2 ^ m * 2 ^ (n - m)
  BY <1>1, PowerSum
<1>3. 2 ^ m \in Nat /\ 2 ^ (n - m) \in Nat \ {0}
  BY <1>1, PowerTwo
<1>4. ASSUME NEW x \in Nat, NEW y \in Nat \ {0} PROVE x <= x * y
  OBVIOUS
<1> QED BY <1>2, <1>3, <1>4

(* The number of binary digits *)
IsDigits(a, k) == a < 2 ^ k /\ (k > 0 => a >= 2 ^ (k - 1))

(* Every number has one number of digits. *)
LEMMA DigitsExist ==
  ASSUME NEW a \in Nat, NEW n \in Nat, a < 2 ^ n
  PROVE  \E k \in 0 .. n : IsDigits(a, k)
<1> DEFINE C == {k \in 0 .. n : a < 2 ^ k}
<1>1. C \subseteq Nat /\ n \in C
  OBVIOUS
<1>2. PICK k \in C : \A j \in C : k <= j
  BY <1>1, LeastNumber
<1>3. k \in 0 .. n /\ a < 2 ^ k
  OBVIOUS
<1>4. ASSUME k > 0 PROVE a >= 2 ^ (k - 1)
  <2>1. k - 1 \notin C /\ k - 1 \in 0 .. n
    BY <1>1, <1>2, <1>3, <1>4
  <2>2. ~(a < 2 ^ (k - 1))
    BY <2>1
  <2>3. 2 ^ (k - 1) \in Nat
    BY <2>1, PowerTwo
  <2> QED BY <2>2, <2>3
<1> QED BY <1>3, <1>4 DEF IsDigits

LEMMA DigitsUnique ==
  ASSUME NEW a \in Nat, NEW k \in Nat, NEW j \in Nat, IsDigits(a, k), IsDigits(a, j)
  PROVE  k = j
<1>1. ASSUME NEW x \in Nat, NEW y \in Nat, IsDigits(a, x), IsDigits(a, y) PROVE ~(x < y)
  <2> SUFFICES ASSUME x < y PROVE FALSE
    OBVIOUS
  <2>1. y - 1 \in Nat /\ x <= y - 1
    OBVIOUS
  <2>2. 2 ^ x <= 2 ^ (y - 1) /\ 2 ^ x \in Nat /\ 2 ^ (y - 1) \in Nat
    BY <2>1, PowerGrows, PowerTwo
  <2>3. a < 2 ^ x /\ a >= 2 ^ (y - 1)
    BY <1>1, <2>1 DEF IsDigits
  <2> QED BY <2>2, <2>3
<1> QED BY <1>1
(* Quotient and remainder are unique; both are scaled with a product. *)
LEMMA DivUnique ==
  ASSUME NEW x \in Int, NEW y \in Nat \ {0}, NEW q \in Int, NEW r \in 0 .. y - 1,
         x = q * y + r
  PROVE  x \div y = q /\ x % y = r
<1> DEFINE p == x \div y
           s == x % y
<1>1. p \in Int /\ s \in 0 .. y - 1 /\ x = y * p + s
  OBVIOUS
<1> HIDE DEF p, s
<1>2. ~(p < q)
  <2> SUFFICES ASSUME p < q PROVE FALSE
    OBVIOUS
  <2>1. p + 1 <= q
    BY <1>1
  <2>2. (p + 1) * y <= q * y
    BY <1>1, <2>1
  <2> QED BY <1>1, <2>2
<1>3. ~(q < p)
  <2> SUFFICES ASSUME q < p PROVE FALSE
    OBVIOUS
  <2>1. q + 1 <= p
    BY <1>1
  <2>2. (q + 1) * y <= p * y
    BY <1>1, <2>1
  <2> QED BY <1>1, <2>2
<1>4. p = q
  BY <1>1, <1>2, <1>3
<1>5. s = r
  BY <1>1, <1>4
<1> QED BY <1>4, <1>5 DEF p, s

LEMMA DivExact ==
  ASSUME NEW q \in Int, NEW b \in Nat \ {0}
  PROVE  (q * b) \div b = q /\ (q * b) % b = 0
<1>1. q * b \in Int /\ q * b = q * b + 0 /\ 0 \in 0 .. b - 1
  OBVIOUS
<1> QED BY <1>1, DivUnique

LEMMA DivScale ==
  ASSUME NEW x \in Int, NEW y \in Nat \ {0}, NEW d \in Nat \ {0}
  PROVE  (x * d) \div (y * d) = x \div y /\ (x * d) % (y * d) = (x % y) * d
<1> DEFINE q == x \div y
           r == x % y
<1>1. q \in Int /\ r \in 0 .. y - 1 /\ x = y * q + r
  OBVIOUS
<1> HIDE DEF q, r
<1>2. x * d = q * (y * d) + r * d
  BY <1>1
<1>3. r * d \in 0 .. y * d - 1
  <2>1. r * d <= (y - 1) * d
    BY <1>1
  <2> QED BY <1>1, <2>1
<1> DEFINE X == x * d
           Y == y * d
           R == r * d
<1>4. X \in Int /\ Y \in Nat \ {0} /\ R \in 0 .. Y - 1 /\ X = q * Y + R
  BY <1>1, <1>2, <1>3
<1> HIDE DEF X, Y, R
<1>5. X \div Y = q /\ X % Y = R
  BY <1>1, <1>4, DivUnique
<1> QED BY <1>5 DEF q, r, X, Y, R

=============================================================================
