-------------------------------- MODULE LargeNat --------------------------------
(***************************************************************************)
(* Natural numbers below 10^48, which TLC's integers cannot hold, for the  *)
(* references that compare decimal and binary fractions exactly: ten limbs *)
(* of five decimal digits, the least significant first.                    *)
(***************************************************************************)
EXTENDS Integers

Base == 100000
Limb == 1 .. 10
Large == [Limb -> 0 .. Base - 1]

TenPower(k) == [i \in Limb |-> IF i = k \div 5 + 1 THEN 10 ^ (k % 5) ELSE 0]

\* a * n + b, where n is at most 20000.
MultiplyAdd(a, n, b) ==
  LET carry[i \in 0 .. 10] ==
        IF i = 0 THEN 0 ELSE (a[i] * n + b[i] + carry[i - 1]) \div Base
  IN [i \in Limb |-> (a[i] * n + b[i] + carry[i - 1]) % Base]

Times(a, n) == MultiplyAdd(a, n, [i \in Limb |-> 0])
Plus(a, b) == MultiplyAdd(a, 1, b)

Below(a, b) == \E i \in Limb : a[i] < b[i] /\ \A j \in i + 1 .. 10 : a[j] = b[j]

================================================================================
