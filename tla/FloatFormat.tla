------------------------------- MODULE FloatFormat -------------------------------
(***************************************************************************)
(* FormatDouble of package jcsfloat, on a binary format of any width: the  *)
(* interval of decimals that read back as the float, scaled by a power of  *)
(* ten, the digits trimmed while the interval allows, the last one         *)
(* rounded, and the layout of formatECMA.                                  *)
(***************************************************************************)
EXTENDS FloatScaling, Sequences

CONSTANTS
  FixedDigits,            \* 21
  SmallZeros              \* 6

\* Every pattern of bits of the format: the sign, and the rest of the word.
Floats == [negative : BOOLEAN, bits : 0 .. 2 ^ (MantBits + ExpBits) - 1]

VARIABLES
  float,                  \* [negative, bits]
  step,
  dl, dc, du,             \* lower, central and upper, once scaled
  e2, q,                  \* their binary and decimal exponents
  exact,                  \* dl0, dc0 and du0: nothing was lost in scaling
  c0, cup,                \* dc is exact; it is to be rounded up
  trimmed, cNextDigit,    \* the digits dropped, and the last of them
  digits, dp,             \* what shortestDecimal returns
  verdict, text

scaling == <<dl, dc, du, e2, q, exact>>
trimming == <<c0, cup, trimmed, cNextDigit>>
results == <<digits, dp, verdict, text>>
formatVars == <<float, step, scaling, trimming, results>>

--------------------------------------------------------------------------------
(* The float as an integer and its exponent. *)

rawExp == float.bits \div 2 ^ MantBits
rawMant == float.bits % 2 ^ MantBits

IsNaN == rawExp = 2 ^ ExpBits - 1 /\ rawMant # 0
IsInf == rawExp = 2 ^ ExpBits - 1 /\ rawMant = 0

mant == IF rawExp = 0 THEN rawMant ELSE 2 ^ MantBits + rawMant
exp == (IF rawExp = 0 THEN 1 ELSE rawExp) - bias - MantBits

\* Its bits below the units are zero.
IsInteger == -MantBits <= exp /\ exp <= 0 /\ mant % 2 ^ (-exp) = 0

computeBounds_Symmetric ==
  [lower |-> 2 * mant - 1, central |-> 2 * mant, upper |-> 2 * mant + 1, e2 |-> exp - 1]

\* A power of two is nearer to the float below it.
computeBounds ==
  IF mant # 2 ^ MantBits \/ exp = 1 - bias - MantBits THEN computeBounds_Symmetric
  ELSE [lower |-> 4 * mant - 1, central |-> 4 * mant, upper |-> 4 * mant + 2, e2 |-> exp - 2]

--------------------------------------------------------------------------------
(* Digits *)

Numeral == [d \in 0 .. 9 |-> <<"0", "1", "2", "3", "4", "5", "6", "7", "8", "9">>[d + 1]]

\* The decimal digits of a natural number, least significant last.
Decimal[v \in Nat] ==
  IF v < 10 THEN <<Numeral[v]>> ELSE Append(Decimal[v \div 10], Numeral[v % 10])

\* Without the zeros at its end, but for a first digit.
Stripped(s) ==
  LET end == CHOOSE n \in 1 .. Len(s) :
               /\ n = 1 \/ s[n] # "0"
               /\ \A i \in n + 1 .. Len(s) : s[i] = "0"
  IN SubSeq(s, 1, end)

--------------------------------------------------------------------------------

\* The state in which a float is to be formatted.
Begin(first) ==
  /\ step = first
  /\ dl = 0 /\ dc = 0 /\ du = 0 /\ e2 = 0 /\ q = 0
  /\ exact = [lower |-> FALSE, central |-> FALSE, upper |-> FALSE]
  /\ c0 = FALSE /\ cup = FALSE /\ trimmed = 0 /\ cNextDigit = 0
  /\ digits = <<>> /\ dp = 0
  /\ verdict = "pending" /\ text = <<>>

FormatInit == float \in Floats /\ Begin("format")

Finish(class, s) ==
  /\ step' = "done"
  /\ verdict' = class
  /\ text' = s
  /\ UNCHANGED <<float, scaling, trimming, digits, dp>>

FormatDouble ==
  /\ step = "format"
  /\ IF IsNaN \/ IsInf THEN Finish("INVALID_GRAMMAR", <<>>)
     ELSE IF float.bits = 0 THEN Finish("ok", <<"0">>)
     ELSE step' = "decimal" /\ UNCHANGED <<float, scaling, trimming, results>>

Deliver(s, n) ==
  /\ step' = "layout"
  /\ digits' = s
  /\ dp' = n
  /\ UNCHANGED <<float, scaling, trimming, verdict, text>>

\* An integer of no more bits than the mantissa: its neighbours do not read as it.
ExactInteger ==
  /\ step = "decimal"
  /\ IsInteger
  /\ LET m == mant \div 2 ^ (-exp) IN Deliver(Stripped(Decimal[m]), Len(Decimal[m]))

\* No scaling is needed where the bounds are integers as they are.
Unscaled ==
  /\ step = "decimal"
  /\ ~IsInteger /\ computeBounds.e2 = 0
  /\ dl' = computeBounds.lower /\ dc' = computeBounds.central /\ du' = computeBounds.upper
  /\ c0' = TRUE /\ cup' = FALSE
  /\ q' = 0
  /\ step' = "trim"
  /\ UNCHANGED <<float, e2, exact, trimmed, cNextDigit, results>>

Scale ==
  /\ step = "decimal"
  /\ ~IsInteger /\ computeBounds.e2 # 0
  /\ LET b == computeBounds
         n == scalingPower(b.e2)
     IN IF scaledExponent(b.e2, n) >= 0 THEN Deliver(<<"0">>, 0)
        ELSE /\ dl' = mult128bitPow10(b.lower, n).value
             /\ dc' = mult128bitPow10(b.central, n).value
             /\ du' = mult128bitPow10(b.upper, n).value
             /\ exact' = [bound \in {"lower", "central", "upper"} |-> isExact(b[bound], n)]
             /\ e2' = scaledExponent(b.e2, n)
             /\ q' = n
             /\ step' = "settle"
             /\ UNCHANGED <<float, trimming, results>>

extra == -e2
Whole(d) == d \div 2 ^ extra
Fraction(d) == d % 2 ^ extra
Half == 2 ^ (extra - 1)

\* A bound itself reads as the float when the mantissa is even.
allowed(bound, d) == exact[bound] /\ Fraction(d) = 0 /\ mant % 2 = 0

\* The fraction bits go; what they say of the bounds and of the center stays.
Settle ==
  /\ step = "settle"
  /\ dl' = Whole(dl) + (IF allowed("lower", dl) THEN 0 ELSE 1)
  /\ dc' = Whole(dc)
  /\ du' = Whole(du) - (IF ~exact.upper \/ Fraction(du) > 0 \/ allowed("upper", du) THEN 0 ELSE 1)
  /\ cup' = IF exact.central
              THEN Fraction(dc) > Half \/ (Fraction(dc) = Half /\ Whole(dc) % 2 = 1)
              ELSE Fraction(dc) >= Half
  /\ c0' = (exact.central /\ Fraction(dc) = 0)
  /\ step' = "trim"
  /\ UNCHANGED <<float, e2, q, exact, trimmed, cNextDigit, results>>

--------------------------------------------------------------------------------
(* ryuShortest *)

Trimmable_Strict == (dl + 9) \div 10 < du \div 10

Trimmable == du > 0 /\ (dl + 9) \div 10 <= du \div 10

\* One turn of the loop: a digit is dropped.  When the center would fall below
\* the lower bound it moves up to it.
Trim ==
  /\ step = "trim"
  /\ Trimmable
  /\ LET l == (dl + 9) \div 10
         c == dc \div 10
         u == du \div 10
         moves == l = c + 1 /\ c < u
     IN /\ dl' = l
        /\ dc' = IF moves THEN c + 1 ELSE c
        /\ du' = u
        /\ cNextDigit' = IF moves THEN 0 ELSE dc % 10
        /\ cup' = (cup /\ ~moves)
  /\ c0' = (c0 /\ cNextDigit = 0)
  /\ trimmed' = trimmed + 1
  /\ UNCHANGED <<float, step, e2, q, exact, results>>

RoundsUp_HalfUp ==
  IF trimmed = 0 THEN cup ELSE cNextDigit >= 5

\* Ties go to the even digit.
RoundsUp ==
  IF trimmed = 0 THEN cup
  ELSE \/ cNextDigit > 5
       \/ cNextDigit = 5 /\ ~c0
       \/ cNextDigit = 5 /\ c0 /\ dc % 2 = 1

Rounded == IF dc < du /\ RoundsUp THEN dc + 1 ELSE dc

\* The zeros at the end are dropped, and counted a second time.
Render ==
  /\ step = "trim"
  /\ ~Trimmable
  /\ LET s == Decimal[Rounded]
         zeros == Len(s) - Len(Stripped(s))
     IN Deliver(Stripped(s), Len(s) + trimmed + zeros - q)

--------------------------------------------------------------------------------
(* formatECMA *)

Zeros(n) == [i \in 1 .. n |-> "0"]

appendExponential(s, n) ==
  <<s[1]>> \o (IF Len(s) > 1 THEN <<".">> \o Tail(s) ELSE <<>>)
    \o (IF n - 1 >= 0 THEN <<"e", "+">> \o Decimal[n - 1] ELSE <<"e", "-">> \o Decimal[1 - n])

formatECMA(negative, s, n) ==
  LET k == Len(s) IN
  (IF negative THEN <<"-">> ELSE <<>>) \o
  (IF k <= n /\ n <= FixedDigits THEN s \o Zeros(n - k)
   ELSE IF 0 < n /\ n <= FixedDigits THEN SubSeq(s, 1, n) \o <<".">> \o SubSeq(s, n + 1, k)
   ELSE IF -SmallZeros < n /\ n <= 0 THEN <<"0", ".">> \o Zeros(-n) \o s
   ELSE appendExponential(s, n))

Layout ==
  /\ step = "layout"
  /\ Finish("ok", formatECMA(float.negative, digits, dp))

FormatNext ==
  \/ FormatDouble \/ ExactInteger \/ Unscaled \/ Scale \/ Settle \/ Trim \/ Render \/ Layout

FormatSpec == FormatInit /\ [][FormatNext]_formatVars

--------------------------------------------------------------------------------
(* Properties *)

\* What is left of the center where the loop ends does not end in zero: rendering
\* it would count that zero twice, as trimmed and as a digit, and move the point.
NoTrailingZeros == step = "trim" /\ ~Trimmable => Rounded % 10 # 0

================================================================================
