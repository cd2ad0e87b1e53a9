----------------------------- MODULE Arithmetic -----------------------------
(***************************************************************************)
(* Arithmetic of the three controllers, on integers.                       *)
(***************************************************************************)
EXTENDS Integers

Least(a, b)    == IF a <= b THEN a ELSE b
Greatest(a, b) == IF a >= b THEN a ELSE b
Clamp(x, low, high) == IF x < low THEN low ELSE IF x > high THEN high ELSE x

Distance(a, b) == IF a <= b THEN b - a ELSE a - b

\* Integer division of C: the quotient is truncated toward zero.
Quotient(a, b) ==
  LET n == IF b < 0 THEN -a ELSE a
      d == IF b < 0 THEN -b ELSE b
  IN  IF n >= 0 THEN n \div d ELSE -((-n) \div d)

\* (a * b) \div c, without a product that leaves the integers of TLC.
Scaled(a, b, c) == (a \div c) * b + ((a % c) * b) \div c
=============================================================================
