----------------------------- MODULE ShortestDecimal -----------------------------
(***************************************************************************)
(* What the digits of a float are worth: the decimals that read as it when *)
(* rounded to nearest, ties to even, and the one ECMA-262, Section         *)
(* 6.1.6.1.20, picks among them with the choices of its Note 2.  Stated    *)
(* with exact arithmetic, on a binary format of any width; nothing here is *)
(* about how the digits are found.                                         *)
(***************************************************************************)
EXTENDS LargeNat, FiniteSetsExt, BinaryFormat

\* A positive float is the natural number its bits spell, and so are in order.
Infinity == (2 ^ ExpBits - 1) * 2 ^ MantBits   \* greater bits are not a number
FiniteBits == 0 .. Infinity - 1

--------------------------------------------------------------------------------
(* Worth: in units of 10^-36, of which every number here is a multiple.    *)

Ten == [power \in -36 .. 11 |-> TenPower(power + 36)]

\* 2^-36 is 5^36 units.
FivePower == <<40625, 18066, 36685, 15228, 45519, 1, 0, 0, 0, 0>>
Doubled(x, k) ==
  Times(Times(Times(x, 2 ^ (k \div 3)), 2 ^ ((k + 1) \div 3)), 2 ^ ((k + 2) \div 3))
Two ==
  [power \in -36 .. 36 |->
     IF power < 0 THEN Doubled(FivePower, power + 36) ELSE Doubled(Ten[0], power)]

\* The exponent of the last place, and the mantissa that multiplies it.
Binade(bits) == bits \div 2 ^ MantBits
Place(bits) ==
  (IF Binade(bits) = 0 THEN 1 ELSE Binade(bits)) - (2 ^ (ExpBits - 1) - 1) - MantBits
Mantissa(bits) == (bits % 2 ^ MantBits) + (IF Binade(bits) = 0 THEN 0 ELSE 2 ^ MantBits)

ASSUME UnitAssumption ==
  MantBits \in 1 .. 5 /\ Place(0) > -36 /\ Place(Infinity - 1) + MantBits < 36

Worth == [bits \in FiniteBits |-> Times(Two[Place(bits)], Mantissa(bits))]

\* Half way to the next float, which for the largest would have its place.
Middle == [bits \in FiniteBits |-> Times(Two[Place(bits) - 1], 2 * Mantissa(bits) + 1)]

ReadsAs[x \in Large, bits \in FiniteBits] ==
  /\ bits > 0 => Below(Middle[bits - 1], x) \/ (bits % 2 = 0 /\ x = Middle[bits - 1])
  /\ Below(x, Middle[bits]) \/ (bits % 2 = 0 /\ x = Middle[bits])

\* The bits a decimal reads as.
Nearest[x \in Large] ==
  LET least(binade) == binade * 2 ^ MantBits
      above == {binade \in 1 .. 2 ^ ExpBits - 1 : ~Below(x, Middle[least(binade) - 1])}
      binade == Max({0} \cup above)
  IN IF least(binade) = Infinity THEN Infinity
     ELSE CHOOSE bits \in least(binade) .. least(binade + 1) - 1 : ReadsAs[x, bits]

--------------------------------------------------------------------------------
(* The decimals s * 10^(n - k) with 10^(k - 1) <= s < 10^k. *)

Amount(d) == Times(Ten[d.n - d.k], d.s)

\* Those that read as a positive float, near which 10^(n - 1) or 10^n must be.
Decimals(bits, k) ==
  LET near == {n \in -12 .. 11 : /\ ~Below(Middle[bits], Ten[n - 1])
                                 /\ ~Below(Ten[n], Middle[bits - 1])}
  IN {d \in [s : 10 ^ (k - 1) .. 10 ^ k - 1, n : near, k : {k}] : ReadsAs[Amount(d), bits]}

\* x is no farther from v than y.
NoFarther(x, y, v) ==
  IF Below(v, x)
    THEN IF Below(v, y) THEN ~Below(y, x) ELSE ~Below(Plus(v, v), Plus(x, y))
    ELSE IF Below(v, y) THEN ~Below(Plus(x, y), Plus(v, v)) ELSE ~Below(x, y)

\* Three digits are always enough.
\* Of the decimals with the fewest digits the closest, of two as close the even one.
Shortest ==
  [bits \in FiniteBits \ {0} |->
     LET one == Decimals(bits, 1)
         two == Decimals(bits, 2)
         readings == IF one # {} THEN one ELSE IF two # {} THEN two ELSE Decimals(bits, 3)
         closest == {d \in readings : \A other \in readings :
                       NoFarther(Amount(d), Amount(other), Worth[bits])}
     IN CHOOSE d \in closest : Cardinality(closest) = 1 \/ d.s % 2 = 0]

================================================================================
