------------------------------ MODULE FloatScaling ------------------------------
(***************************************************************************)
(* A bound of the interval of a float times a power of ten, in the words   *)
(* of the table of package jcsfloat: mult128bitPow10 and what it relies    *)
(* on.  The code is the instance 52, 11, 64, 55, 24.                       *)
(***************************************************************************)
EXTENDS Integers, BinaryFormat

CONSTANTS
  WordBits,               \* of the integers the products are made of
  ExactPower,             \* 55, the greatest power of five the table holds exactly
  DivisiblePower,         \* 24, the greatest that may divide a bound
  pow10Table              \* [powers of ten -> <<low, high>> words, truncated]

bias == 2 ^ (ExpBits - 1) - 1
Spare == WordBits - MantBits - 3   \* the 9 bits the bounds leave in a word

mulByLog2Log10(x) == (x * 78913) \div 2 ^ 18
mulByLog10Log2(x) == (x * 108853) \div 2 ^ 15

\* The power of ten larger than 2^-e.
scalingPower(e) == mulByLog2Log10(-e) + 1

\* The power as two words, rounded up where the table truncates.
Power(n) ==
  LET entry == pow10Table[n] IN
  [low |-> IF n < 0 THEN (entry[1] + 1) % 2 ^ WordBits ELSE entry[1], high |-> entry[2]]

\* The high words of a product of three, m times the power.
Upper(m, n) == m * Power(n).high + (m * Power(n).low) \div 2 ^ WordBits

mult128bitPow10(m, n) ==
  IF n = 0 THEN [value |-> m * 2 ^ (Spare - 1), exact |-> TRUE]
  ELSE IF n \notin DOMAIN pow10Table THEN [value |-> 0, exact |-> FALSE]
  ELSE [value |-> (Upper(m, n) \div 2 ^ (WordBits - Spare)) % 2 ^ WordBits,
        exact |-> /\ Upper(m, n) % 2 ^ (WordBits - Spare) = 0
                  /\ (m * Power(n).low) % 2 ^ WordBits = 0]

scaledExponent(e, n) ==
  IF n \in DOMAIN pow10Table \cup {0} THEN e + mulByLog10Log2(n) - (Spare - 1) ELSE 0

divisibleByPower5(m, k) == m % 5 ^ k = 0

\* Whether m * 10^n was computed exactly: a power of five is in the table, or
\* divides m.
isExact(m, n) ==
  \/ n <= ExactPower /\ mult128bitPow10(m, n).exact
  \/ n < 0 /\ -n <= DivisiblePower /\ divisibleByPower5(m, -n)

--------------------------------------------------------------------------------
(* What the constants of the code satisfy. *)

\* The exponents of the bounds of a finite float.
BoundExponents == -bias - MantBits .. 2 ^ ExpBits - 3 - bias - MantBits

ASSUME WidthAssumption ==
  /\ MantBits \in Nat \ {0} /\ ExpBits \in Nat \ {0, 1} /\ WordBits \in Nat
  /\ MantBits + ExpBits <= WordBits
  /\ Spare >= 2

\* Laws of the powers of two, which the provers take for an unknown function.
ASSUME PowerAssumption ==
  /\ 2 ^ 1 = 2
  /\ \A j \in 0 .. WordBits : 2 ^ j \in Nat \ {0}
  /\ \A j, k \in 0 .. WordBits : j + k <= WordBits => 2 ^ (j + k) = 2 ^ j * 2 ^ k

\* The table holds normalized words.
ASSUME TableAssumption ==
  \A n \in DOMAIN pow10Table :
    /\ pow10Table[n][1] \in 0 .. 2 ^ WordBits - 1
    /\ pow10Table[n][2] \in 2 ^ (WordBits - 1) .. 2 ^ WordBits - 1

\* Every float's power is in the table, and scaling by it leaves bits of a fraction.
ASSUME ScaleAssumption ==
  \A e \in BoundExponents :
    /\ scalingPower(e) \in DOMAIN pow10Table \cup {0}
    /\ scaledExponent(e, scalingPower(e)) \in 1 - Spare .. -1

================================================================================
