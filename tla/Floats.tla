-------------------------------- MODULE Floats --------------------------------
(***************************************************************************)
(* The f64 that numbers pass through between programs, on a small scale: an *)
(* i64 or u64 has IntBits bits and an f64 a mantissa of FloatBits.          *)
(***************************************************************************)
EXTENDS Integers

CONSTANTS IntBits, FloatBits

ASSUME FloatsAssumption == IntBits \in Nat \ {0} /\ FloatBits \in 1 .. IntBits

Trunc(a, b) == IF a < 0 THEN -((-a) \div b) ELSE a \div b

(* a / b to the nearest integer, ties to even *)
RoundEven(a, b) ==
  LET q == a \div b  r == a % b
  IN  IF 2 * r < b \/ (2 * r = b /\ q % 2 = 0) THEN q ELSE q + 1

(* The binary digits of n / unit before the point *)
Digits(n, unit) ==
  CHOOSE k \in 0 .. IntBits + 3 :
    n < unit * 2 ^ k /\ (k > 0 => n >= unit * 2 ^ (k - 1))

(***************************************************************************)
(* The float next to a / b with a mantissa of `bits`, in units of           *)
(* 1 / 2 ^ bits.  Below 1/2 it is taken with a fixed precision, which       *)
(* nothing below depends on.                                                *)
(***************************************************************************)
Nearest(bits, a, b) ==
  LET scaled == (IF a < 0 THEN -a ELSE a) * 2 ^ bits
      ulp    == 2 ^ Digits(scaled, b * 2 ^ bits)
      near   == RoundEven(scaled, b * ulp) * ulp
  IN  IF a < 0 THEN -near ELSE near

(* The integer part of the float next to a / b *)
Float(a, b) == Trunc(Nearest(FloatBits, a, b), 2 ^ FloatBits)

(* Numbers of JavaScript are floats. *)
JsNumber(n) == Float(n, 1)

=============================================================================
