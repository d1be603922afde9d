------------------------------- MODULE Numerals -------------------------------
(***************************************************************************)
(* What numbers digits stand for.                                          *)
(***************************************************************************)
EXTENDS Integers, Sequences

Power(b, k) ==
  LET p[i \in 0..k] == IF i = 0 THEN 1 ELSE b * p[i - 1]
  IN  p[k]

(* The number that the digits up to each one stand for, and all of them.   *)
Values(digits, base) ==
  LET v[i \in 0..Len(digits)] ==
        IF i = 0 THEN 0 ELSE v[i - 1] * base + digits[i]
  IN  v
Value(digits, base) == Values(digits, base)[Len(digits)]

===============================================================================
