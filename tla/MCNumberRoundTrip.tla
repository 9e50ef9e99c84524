---------------------------- MODULE MCNumberRoundTrip ----------------------------
(***************************************************************************)
(* NumberRoundTrip on a format of 4 and 6 bits in words of 12, where the   *)
(* algorithm takes every branch it takes on doubles: on every float, NaN   *)
(* and infinity of it, on every token of up to five characters and on      *)
(* longer ones of every shape, broken ones among them; with exact decimal  *)
(* arithmetic to judge its digits by.                                      *)
(***************************************************************************)
EXTENDS NumberRoundTrip

IntegerParts == {<<"0">>, <<"7">>, <<"1", "0">>}
FractionParts == {<<>>, <<".", "0">>, <<".", "0", "9">>, <<".", "0", "0", "0", "0", "0", "9">>}
ExponentParts ==
  {<<>>, <<"e", "1">>, <<"e", "+", "1", "1">>, <<"e", "-", "0", "1">>, <<"e", "-", "1", "1">>}

MCInputs ==
  UNION {[1 .. n -> {"-", "+", ".", "e", "x", "0", "1"}] : n \in 0 .. 5}
    \cup {s \o i \o f \o e \o <<"x">> :
            s \in {<<>>, <<"-">>}, i \in IntegerParts, f \in FractionParts,
            e \in ExponentParts \cup {<<"e", "-">>}}

--------------------------------------------------------------------------------
(* The reference: what the digits of a number are worth. *)

Natural(s) ==
  ReduceSet(LAMBDA i, n : n + (CHOOSE d \in 0 .. 9 : Numeral[d] = s[i]) * 10 ^ (Len(s) - i),
            DOMAIN s, 0)

Exponent10(e) ==
  IF e = <<>> THEN 0
  ELSE IF e[2] = "-" THEN -Natural(SubSeq(e, 3, Len(e)))
  ELSE IF e[2] = "+" THEN Natural(SubSeq(e, 3, Len(e)))
  ELSE Natural(Tail(e))

\* The bits nearest to a magnitude: its digits without the point, and the power
\* of ten of the last of them.
MCParseFloat(t) ==
  LET split == CHOOSE s \in Splits(t) : TRUE
      figures == SelectSeq(SubSeq(t, 1, split[2]), isDigit)
      last == split[1] - signLength(t) - Len(figures)
                + Exponent10(SubSeq(t, split[2] + 1, Len(t)))
      m == Natural(figures)
      top == last + Len(Decimal[m])
  IN IF m = 0 \/ top < -12 THEN 0
     ELSE IF top > 11 THEN Infinity
     ELSE Nearest[Plus(Times(Times(Ten[last], 1000), m \div 1000), Times(Ten[last], m % 1000))]

MCFinite(t) == MCParseFloat(t) # Infinity
MCNonzero(t) == MCParseFloat(t) # 0

\* The powers of ten from -7 to 11, to 24 bits.
MCPow10Table ==
  [n \in -7 .. 11 |->
     <<<<3988, 3435>>, <<1981, 2147>>, <<1452, 2684>>, <<1815, 3355>>, <<622, 2097>>,
       <<1802, 2621>>, <<3276, 3276>>, <<0, 2048>>, <<0, 2560>>, <<0, 3200>>, <<0, 4000>>,
       <<0, 2500>>, <<0, 3125>>, <<1024, 3906>>, <<1664, 2441>>, <<3104, 3051>>,
       <<2856, 3814>>, <<761, 2384>>, <<951, 2980>>>>[n + 8]]

--------------------------------------------------------------------------------
(* Properties *)

Reference == INSTANCE NumberToString WITH
  verdict <- CASE step = "idle" -> "none" [] step = "done" -> verdict [] OTHER -> "pending"

\* FormatDouble implements Number::toString: the one text it ever ends with is
\* what ECMA-262 gives the float, the shortest decimal that reads back, the
\* closest of those and the even one of two as close; what is not finite it
\* refuses (ECMA-FMT-001 to ECMA-FMT-009).
ImplementsToString == Reference!Spec

================================================================================
