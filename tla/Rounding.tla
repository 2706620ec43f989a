------------------------------ MODULE Rounding ------------------------------
(***************************************************************************)
(* Rounding (app/utils/rounding.py, and Python's round).  A number is the  *)
(* quotient of two integers, the first of them not negative: nothing is    *)
(* rounded where the code does not round.                                  *)
(***************************************************************************)
EXTENDS Integers

Ratio(num, den) == [num |-> num, den |-> den]

Greater(r, s) == r.num * s.den > s.num * r.den

\* Mutant: int().
RoundDown(num, den) == num \div den

RoundHalfUp(num, den) == (2 * num + den) \div (2 * den)

\* round(): a tie goes to the even neighbour.
RoundHalfEven(num, den) ==
    LET floor == num \div den
        rest == num % den
    IN IF 2 * rest > den \/ (2 * rest = den /\ floor % 2 = 1) THEN floor + 1 ELSE floor

\* In units of the fourth decimal.
Normalize(ratio) == RoundHalfUp(10000 * ratio.num, ratio.den)

Least(a, b) == IF a <= b THEN a ELSE b
Greatest(a, b) == IF a >= b THEN a ELSE b
=============================================================================
