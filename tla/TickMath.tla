----------------------------- MODULE TickMath -----------------------------
(***************************************************************************)
(* The arithmetic on prices and quantities that the risk engine and the    *)
(* Python programs do in floating point, on exact fractions.  Roundings    *)
(* inside the floating-point numbers themselves are left out.              *)
(***************************************************************************)
EXTENDS Integers, Sequences

Abs(n)    == IF n < 0 THEN -n ELSE n
Signum(n) == IF n > 0 THEN 1 ELSE IF n < 0 THEN -1 ELSE 0
Lesser(m, n) == IF m < n THEN m ELSE n

(* The sum of a sequence of integers.                                      *)
Total(quantities) ==
    LET Sum[i \in 0..Len(quantities)] == IF i = 0 THEN 0 ELSE Sum[i - 1] + quantities[i]
    IN  Sum[Len(quantities)]

(* A fraction in lowest terms, with a positive denominator.                *)
Fraction(n, d) ==
    LET g == CHOOSE k \in 1..d : /\ n % k = 0 /\ d % k = 0
                                 /\ \A j \in (k + 1)..d : n % j # 0 \/ d % j # 0
    IN  [num |-> n \div g, den |-> d \div g]

(* `as i64': truncation toward zero.                                       *)
AsI64(f) == Signum(f.num) * (Abs(f.num) \div f.den)

(* Python's round(): to the nearest integer, a half to the even one.       *)
Round(f) ==
    LET floor == f.num \div f.den
        rest  == 2 * (f.num - floor * f.den)
    IN  IF rest < f.den \/ (rest = f.den /\ floor % 2 = 0) THEN floor ELSE floor + 1

(* Slip: the conversion truncates.                                         *)
truncate_to_ticks(price) == AsI64([num |-> 4 * price.num, den |-> price.den])

(* price_to_ticks: a tick is a quarter of a point.                         *)
price_to_ticks(price) == Round([num |-> 4 * price.num, den |-> price.den])

(* Twice the distance of a tick from a price, in the price's denominator.  *)
OffBy(price, tick) == 2 * Abs(4 * price.num - tick * price.den)
=============================================================================
