----------------------------- MODULE NumberToString -----------------------------
(***************************************************************************)
(* What formatting a double promises: the text Number::toString of         *)
(* ECMA-262 gives a finite number, and no text for what JSON cannot say.   *)
(* The abstract system judges a float in one step.                         *)
(***************************************************************************)
EXTENDS Integers, Sequences

CONSTANTS
  FiniteBits,    \* the bits of the finite numbers, see ShortestDecimal
  Shortest,      \* the digits of each
  FixedDigits,   \* 21, the most digits before the point without an exponent
  SmallZeros     \* 6, the zeros after the point that ask for one

VARIABLES
  float,         \* [negative, bits]
  verdict, text

toStringVars == <<float, verdict, text>>

--------------------------------------------------------------------------------

Numeral == [d \in 0 .. 9 |-> <<"0", "1", "2", "3", "4", "5", "6", "7", "8", "9">>[d + 1]]

\* The digits of s * 10^(n - k), from its first place or the units down to its
\* last place or the units.
Positional(s, k, n) ==
  LET Show(power) ==
        IF power \in n - k .. n - 1 THEN Numeral[(s \div 10 ^ (power - n + k)) % 10]
        ELSE "0"
      top == IF n < 1 THEN 0 ELSE n - 1
  IN [i \in 1 .. top + 1 |-> Show(top + 1 - i)]
       \o (IF k > n THEN <<".">> ELSE <<>>)
       \o [i \in 1 .. IF k > n THEN k - n ELSE 0 |-> Show(-i)]

Width(v) == CHOOSE k \in 1 .. 10 : v < 10 ^ k /\ (k = 1 \/ v >= 10 ^ (k - 1))

Spelled(d) ==
  IF -SmallZeros < d.n /\ d.n <= FixedDigits THEN Positional(d.s, d.k, d.n)
  ELSE LET e == IF d.n > 0 THEN d.n - 1 ELSE 1 - d.n IN
       Positional(d.s, d.k, 1) \o <<"e", IF d.n > 0 THEN "+" ELSE "-">>
         \o Positional(e, Width(e), Width(e))

ToText(f) ==
  IF f.bits = 0 THEN <<"0">>
  ELSE (IF f.negative THEN <<"-">> ELSE <<>>) \o Spelled(Shortest[f.bits])

--------------------------------------------------------------------------------

Init == verdict \in {"none", "pending"} /\ text = <<>>

\* A caller asks for the text of a number.
Ask ==
  /\ verdict = "none"
  /\ verdict' = "pending"
  /\ float' \in [negative : BOOLEAN, bits : Nat]
  /\ UNCHANGED text

Format ==
  /\ verdict = "pending"
  /\ float.bits \in FiniteBits
  /\ verdict' = "ok"
  /\ text' = ToText(float)
  /\ UNCHANGED float

\* NaN and the infinities.
Refuse ==
  /\ verdict = "pending"
  /\ float.bits \notin FiniteBits
  /\ verdict' = "INVALID_GRAMMAR"
  /\ UNCHANGED <<float, text>>

Spec == Init /\ [][Ask \/ Format \/ Refuse]_toStringVars

================================================================================
