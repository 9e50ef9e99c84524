------------------------------ MODULE NumberProofs ------------------------------
(***************************************************************************)
(* How numbers are read and written, for every input, limit and width of   *)
(* the floats.                                                             *)
(*                                                                         *)
(* Reading: the types of JsonNumber, the bound on how far it scans, and    *)
(* that where it stops is the end of the longest text that begins a number *)
(* of RFC 8259, judged as its grammar and its value say.  The last rests   *)
(* on lemmas about texts alone: where the parts of any number that begins  *)
(* as the input does have to end, and so where no number goes on.          *)
(*                                                                         *)
(* Writing: the scaled bounds of a float stay apart by a unit of what is   *)
(* left of the fraction, so that the interval the digits are trimmed in is *)
(* never empty and never reaches zero; and the digits that remain do not   *)
(* end in one.                                                             *)
(***************************************************************************)
EXTENDS JsonNumber, FloatFormat, SequenceTheorems, WellFoundedInduction, TLAPS

--------------------------------------------------------------------------------
(* Reading: the types, and how far the scan goes. *)

\* Within k characters of the limit, or of a -0.
Near(p, k) == p <= k + 2 \/ p <= k + maxNumberChars

\* Where the scan may stand in each part.  A loop over digits may start past
\* the limit, by what was consumed unchecked before it; but then a digit is
\* there, so that the loop does not end without checking.
PlaceInv ==
  /\ pc = "sign" => pos = 0
  /\ pc = "integer" => pos <= 1
  /\ pc \in {"integerDigits", "fraction", "exponent", "value"} => Near(pos, 0)
  /\ pc = "fractionDigits" => Near(pos, 0) \/ (Near(pos, 1) /\ Sees(pos, Digit))
  /\ pc = "exponentDigits" => Near(pos, 0) \/ (Near(pos, 2) /\ Sees(pos, Digit))
  /\ Near(pos, 3)

ScanInv == TypeOK /\ PlaceInv

--------------------------------------------------------------------------------

\* The length of every input is a number, and what is seen is within it.
LEMMA InputLength ==
  ASSUME TypeOK
  PROVE  /\ Len(data) \in Nat
         /\ pos \in Nat
         /\ maxNumberChars \in Nat
         /\ \A p, c : Sees(p, c) => p < Len(data)
<1>1. data \in Seq(Character)
  BY NumberAssumption DEF TypeOK
<1>2. Len(data) \in Nat
  BY <1>1
<1>3. \A p, c : Sees(p, c) => p < Len(data)
  BY Zenon DEF Sees
<1>4. maxNumberChars \in Nat
  BY NumberAssumption
<1>5. pos \in Nat
  BY <1>2 DEF TypeOK
<1> QED
  BY <1>2, <1>3, <1>4, <1>5

\* A part of the scan is over, and the next begins at p.
LEMMA GoInv ==
  ASSUME ScanInv, NEW next, NEW p \in 0 .. Len(data), Go(next, p),
         \/ next = "integer" /\ p <= 1
         \/ /\ next \in {"integerDigits", "fraction", "fractionDigits",
                         "exponent", "exponentDigits", "value"}
            /\ Near(p, 0)
         \/ next = "fractionDigits" /\ Near(p, 1) /\ Sees(p, Digit)
         \/ next = "exponentDigits" /\ Near(p, 2) /\ Sees(p, Digit)
  PROVE  ScanInv'
<1>1. pc' = next /\ pos' = p /\ (Sees(p, Digit) => Sees(pos, Digit)')
  BY DEF Go, Sees
<1>2. TypeOK'
  BY DEF ScanInv, TypeOK, Go
<1>3. p \in Nat /\ maxNumberChars \in Nat
  BY InputLength DEF ScanInv
<1>4. PlaceInv'
  <2>1. CASE next = "integer" /\ p <= 1
    BY <1>1, <1>3, <2>1 DEF PlaceInv, Near
  <2>2. CASE /\ next \in {"integerDigits", "fraction", "fractionDigits",
                          "exponent", "exponentDigits", "value"}
             /\ Near(p, 0)
    BY <1>1, <1>3, <2>2 DEF PlaceInv, Near
  <2>3. CASE next = "fractionDigits" /\ Near(p, 1) /\ Sees(p, Digit)
    BY <1>1, <1>3, <2>3 DEF PlaceInv, Near
  <2>4. CASE next = "exponentDigits" /\ Near(p, 2) /\ Sees(p, Digit)
    BY <1>1, <1>3, <2>4 DEF PlaceInv, Near
  <2> QED
    BY <2>1, <2>2, <2>3, <2>4
<1> QED
  BY <1>2, <1>4 DEF ScanInv

\* The scan is over.
LEMMA ConcludeInv ==
  ASSUME ScanInv, NEW class \in InputClass \cup {"ok"}, NEW offset \in 0 .. Len(data),
         NEW p \in 0 .. Len(data), Near(p, 3), Conclude(class, offset, p)
  PROVE  ScanInv'
  BY DEF ScanInv, TypeOK, PlaceInv, Conclude, Near

\* A fault where the scan stands.
LEMMA ExpectedInv ==
  ASSUME ScanInv, NEW p \in 0 .. Len(data), Near(p, 3), Expected(p)
  PROVE  ScanInv'
  BY ConcludeInv DEF Expected, InputClass

\* The numbers the arithmetic below is about, and what seeing a character means.
LEMMA Bounds ==
  ASSUME ScanInv
  PROVE  /\ pos \in 0 .. Len(data) /\ pos \in Nat /\ Len(data) \in Nat
         /\ maxNumberChars \in Nat
         /\ \A c : Sees(pos, c) => pos + 1 \in 0 .. Len(data)
         /\ \A c : Sees(pos + 1, c) => pos + 2 \in 0 .. Len(data)
<1>1. pos \in 0 .. Len(data) /\ pos \in Nat /\ Len(data) \in Nat /\ maxNumberChars \in Nat
  BY InputLength DEF ScanInv, TypeOK
<1>2. \A c : Sees(pos, c) => pos < Len(data)
  BY InputLength DEF ScanInv
<1>3. \A c : Sees(pos + 1, c) => pos + 1 < Len(data)
  BY InputLength DEF ScanInv
<1> QED
  BY <1>1, <1>2, <1>3

--------------------------------------------------------------------------------
(* One lemma for each action. *)

LEMMA SignInv ==
  ASSUME ScanInv, Sign
  PROVE  ScanInv'
<1> DEFINE p == IF Sees(0, {"-"}) THEN 1 ELSE 0
<1>1. p \in 0 .. Len(data) /\ p <= 1 /\ Go("integer", p)
  BY InputLength DEF ScanInv, TypeOK, Sign
<1> QED
  BY <1>1, GoInv

LEMMA IntegerPartInv ==
  ASSUME ScanInv, IntegerPart
  PROVE  ScanInv'
<1>1. pos <= 1
  BY DEF ScanInv, PlaceInv, IntegerPart
<1>2. Near(pos, 0) /\ Near(pos + 1, 0) /\ Near(pos, 3) /\ Near(pos + 1, 3)
  BY <1>1, Bounds DEF Near
<1>3. CASE Sees(pos, NonzeroDigit) /\ Go("integerDigits", pos)
  BY <1>2, <1>3, Bounds, GoInv
<1>4. CASE Sees(pos, {"0"}) /\ Sees(pos + 1, Digit) /\ Expected(pos + 1)
  BY <1>2, <1>4, Bounds, ExpectedInv
<1>5. CASE Sees(pos, {"0"}) /\ ~Sees(pos + 1, Digit) /\ Go("fraction", pos + 1)
  BY <1>2, <1>5, Bounds, GoInv
<1>6. CASE ~Sees(pos, Digit) /\ Expected(pos)
  BY <1>2, <1>6, Bounds, ExpectedInv
<1> QED
  BY <1>3, <1>4, <1>5, <1>6 DEF IntegerPart

LEMMA FractionPartInv ==
  ASSUME ScanInv, FractionPart
  PROVE  ScanInv'
<1>1. Near(pos, 0)
  BY DEF ScanInv, PlaceInv, FractionPart
<1>2. Near(pos + 1, 1) /\ Near(pos + 1, 3)
  BY <1>1, Bounds DEF Near
<1>3. CASE ~Sees(pos, {"."}) /\ Go("exponent", pos)
  BY <1>1, <1>3, Bounds, GoInv
<1>4. CASE Sees(pos, {"."}) /\ Sees(pos + 1, Digit) /\ Go("fractionDigits", pos + 1)
  BY <1>2, <1>4, Bounds, GoInv
<1>5. CASE Sees(pos, {"."}) /\ ~Sees(pos + 1, Digit) /\ Expected(pos + 1)
  BY <1>2, <1>5, Bounds, ExpectedInv
<1> QED
  BY <1>3, <1>4, <1>5 DEF FractionPart

LEMMA ExponentPartInv ==
  ASSUME ScanInv, ExponentPart
  PROVE  ScanInv'
<1>1. Near(pos, 0)
  BY DEF ScanInv, PlaceInv, ExponentPart
<1>2. CASE ~Sees(pos, {"e"}) /\ Go("value", pos)
  BY <1>1, <1>2, Bounds, GoInv
<1>3. CASE Sees(pos, {"e"})
  <2> DEFINE p == afterSign(pos + 1)
  <2>1. p \in 0 .. Len(data) /\ p \in {pos + 1, pos + 2}
    <3>1. CASE Sees(pos + 1, {"+", "-"})
      BY <3>1, Bounds DEF afterSign
    <3>2. CASE ~Sees(pos + 1, {"+", "-"})
      BY <1>3, <3>2, Bounds DEF afterSign
    <3> QED
      BY <3>1, <3>2
  <2> HIDE DEF p
  <2>2. Near(p, 2) /\ Near(p, 3)
    BY <1>1, <2>1, Bounds DEF Near
  <2>3. CASE Sees(p, Digit) /\ Go("exponentDigits", p)
    BY <2>1, <2>2, <2>3, GoInv
  <2>4. CASE ~Sees(p, Digit) /\ Expected(p)
    BY <2>1, <2>2, <2>4, ExpectedInv
  <2> QED
    BY <1>3, <2>3, <2>4 DEF ExponentPart, p
<1> QED
  BY <1>2, <1>3 DEF ExponentPart

LEMMA ScanDigitInv ==
  ASSUME ScanInv, ScanDigit
  PROVE  ScanInv'
<1>1. pos + 1 \in 0 .. Len(data)
  BY Bounds DEF ScanDigit
<1>2. Near(pos, 0) \/ Near(pos, 1) \/ Near(pos, 2)
  BY DEF ScanInv, PlaceInv, ScanDigit, AfterDigits
<1>3. CASE pos + 1 > maxNumberChars
  <2>1. Near(pos + 1, 3)
    BY <1>2, Bounds DEF Near
  <2>2. 0 \in 0 .. Len(data)
    BY Bounds
  <2> QED
    BY <1>1, <1>3, <2>1, <2>2, ConcludeInv DEF ScanDigit, InputClass
<1>4. CASE ~(pos + 1 > maxNumberChars)
  <2>1. Near(pos + 1, 0)
    BY <1>4, Bounds DEF Near
  <2>2. Go(pc, pos + 1) /\ pc \in {"integerDigits", "fractionDigits", "exponentDigits"}
    BY <1>4 DEF ScanDigit, AfterDigits
  <2> QED
    BY <1>1, <2>1, <2>2, GoInv
<1> QED
  BY <1>3, <1>4

LEMMA EndDigitsInv ==
  ASSUME ScanInv, EndDigits
  PROVE  ScanInv'
<1>1. /\ Near(pos, 0)
      /\ AfterDigits[pc] \in {"fraction", "exponent", "value"}
      /\ Go(AfterDigits[pc], pos)
  BY DEF ScanInv, PlaceInv, EndDigits, AfterDigits
<1> QED
  BY <1>1, Bounds, GoInv

LEMMA ValueInv ==
  ASSUME ScanInv, Value
  PROVE  ScanInv'
<1>1. Near(pos, 3)
  BY DEF ScanInv, PlaceInv
<1>2. PICK class \in InputClass \cup {"ok"} : Conclude(class, 0, pos)
  BY DEF Value, buildNumberValue, InputClass
<1>3. 0 \in 0 .. Len(data)
  BY Bounds
<1> QED
  BY <1>1, <1>2, <1>3, Bounds, ConcludeInv

LEMMA ScanInvariance == Spec => []ScanInv
<1>1. Init => ScanInv
  BY InputLength, NumberAssumption
  DEF Init, ScanInv, TypeOK, PlaceInv, Near, InputClass
<1>2. ScanInv /\ [Next]_vars => ScanInv'
  <2> SUFFICES ASSUME ScanInv, [Next]_vars PROVE ScanInv'
    OBVIOUS
  <2>1. CASE Stop \/ UNCHANGED vars
    BY <2>1 DEF Stop, vars, ScanInv, TypeOK, PlaceInv, Near, Sees
  <2> QED
    BY <2>1, SignInv, IntegerPartInv, FractionPartInv, ExponentPartInv, ScanDigitInv,
       EndDigitsInv, ValueInv DEF Next
<1> QED
  BY <1>1, <1>2, PTL DEF Spec

\* The scan stays inside the input, and every verdict is one of the classes of
\* the parser at an offset of the input.
THEOREM TypeCorrect == Spec => []TypeOK
<1>1. ScanInv => TypeOK
  BY DEF ScanInv
<1> QED
  BY <1>1, ScanInvariance, PTL

\* The bound on the length of a number bounds the scan, although a leading
\* zero, a point, an exponent mark and its sign are consumed unchecked.
THEOREM StopsNearLimit == Spec => []FailsFast
<1>1. ASSUME ScanInv PROVE FailsFast
  <2>1. pos \in Nat /\ maxNumberChars \in Nat /\ Near(pos, 3)
    BY <1>1, InputLength DEF ScanInv, PlaceInv
  <2> QED
    BY <2>1 DEF Near, FailsFast
<1> QED
  BY <1>1, ScanInvariance, PTL

--------------------------------------------------------------------------------
(* How a number splits, and how a text that begins as another does. *)

\* What a split of a text says.
LEMMA NumberSplits ==
  ASSUME NEW t
  PROVE  IsNumber(t) <=>
           \E i, j \in 0 .. Len(t) :
             /\ i <= j
             /\ IsIntegerPart(t, signLength(t), i)
             /\ IsFractionPart(t, i, j)
             /\ IsExponentPart(t, j, Len(t))
<1>1. ASSUME IsNumber(t)
      PROVE  \E i, j \in 0 .. Len(t) : /\ i <= j
                                       /\ IsIntegerPart(t, signLength(t), i)
                                       /\ IsFractionPart(t, i, j)
                                       /\ IsExponentPart(t, j, Len(t))
  <2>1. PICK s \in (0 .. Len(t)) \X (0 .. Len(t)) :
               /\ s[1] <= s[2]
               /\ IsIntegerPart(t, signLength(t), s[1])
               /\ IsFractionPart(t, s[1], s[2])
               /\ IsExponentPart(t, s[2], Len(t))
    BY <1>1 DEF IsNumber, Splits
  <2>2. s[1] \in 0 .. Len(t) /\ s[2] \in 0 .. Len(t)
    OBVIOUS
  <2> QED
    BY <2>1, <2>2
<1>2. ASSUME NEW i \in 0 .. Len(t), NEW j \in 0 .. Len(t), i <= j,
             IsIntegerPart(t, signLength(t), i), IsFractionPart(t, i, j),
             IsExponentPart(t, j, Len(t))
      PROVE  IsNumber(t)
  <2> DEFINE s == <<i, j>>
  <2>1. s \in (0 .. Len(t)) \X (0 .. Len(t)) /\ s[1] = i /\ s[2] = j
    OBVIOUS
  <2>2. s \in Splits(t)
    BY <1>2, <2>1 DEF Splits
  <2> QED
    BY <2>2 DEF IsNumber
<1> QED
  BY <1>1, <1>2

\* Text t begins as d does up to place e, and goes on, if it does, as d does.
Follows(t, d, e) ==
  /\ t \in Seq(Character) /\ e \in 0 .. Len(d) /\ Len(t) >= e
  /\ \A m \in 1 .. e : t[m] = d[m]
  /\ Len(t) > e => e < Len(d) /\ t[e + 1] = d[e + 1]

\* The character of d after place p is one of these: Sees, of any text.
After(d, p, characters) == p < Len(d) /\ d[p + 1] \in characters

\* The sign of a text is that of what it begins as.
LEMMA SameSign ==
  ASSUME NEW d \in Seq(Character), NEW t, NEW e, Follows(t, d, e), signLength(d) <= e
  PROVE  signLength(t) = signLength(d) /\ signLength(d) \in {0, 1}
<1>1. t \in Seq(Character) /\ e \in Nat /\ Len(t) \in Nat /\ Len(d) \in Nat /\ Len(t) >= e
  BY DEF Follows
<1>2. t # <<>> <=> Len(t) > 0
  BY <1>1, EmptySeq
<1>3. d # <<>> <=> Len(d) > 0
  BY EmptySeq
<1>4. CASE e = 0
  BY <1>1, <1>2, <1>3, <1>4 DEF Follows, signLength
<1>5. CASE e # 0
  <2>1. 1 \in 1 .. e /\ e <= Len(d)
    BY <1>1, <1>5 DEF Follows
  <2>2. t[1] = d[1]
    BY <2>1 DEF Follows
  <2> QED
    BY <1>1, <1>2, <1>3, <2>1, <2>2 DEF signLength
<1> QED
  BY <1>4, <1>5

\* The integer part of a text ends where d has one that no digit follows.
LEMMA IntegerEnds ==
  ASSUME NEW d \in Seq(Character), NEW t \in Seq(Character),
         NEW s \in Nat, NEW i \in Nat, IsIntegerPart(d, s, i), Len(t) >= i,
         \A m \in 1 .. i : t[m] = d[m],
         Len(t) > i => t[i + 1] \notin Digit,
         NEW a \in Nat, NEW b \in Nat, a <= b, b <= Len(t),
         IsIntegerPart(t, s, a), IsFractionPart(t, a, b), IsExponentPart(t, b, Len(t))
  PROVE  a = i
<1>1. /\ Len(t) \in Nat /\ s < i /\ s < a
      /\ \A m \in s + 1 .. i : d[m] \in Digit
      /\ \A m \in s + 1 .. a : t[m] \in Digit
      /\ d[s + 1] = "0" => i = s + 1
  BY DEF IsIntegerPart, AreDigits, isDigit
<1>2. ASSUME a < i PROVE FALSE
  <2>1. a + 1 \in s + 1 .. i /\ a + 1 \in 1 .. i /\ a < Len(t)
    BY <1>1, <1>2
  <2>2. t[a + 1] \in Digit
    BY <1>1, <2>1
  <2>3. t[a + 1] # "." /\ t[a + 1] # "e"
    BY <2>2 DEF Digit, NonzeroDigit
  <2>4. b = a
    BY <2>3 DEF IsFractionPart
  <2>5. t[a + 1] = "e"
    BY <2>1, <2>4 DEF IsExponentPart
  <2> QED
    BY <2>3, <2>5
<1>3. ASSUME i < a PROVE FALSE
  <2>1. i + 1 \in s + 1 .. a /\ i < Len(t)
    BY <1>1, <1>3
  <2> QED
    BY <1>1, <2>1
<1> QED
  BY <1>2, <1>3

\* So does the fraction.
LEMMA FractionEnds ==
  ASSUME NEW d \in Seq(Character), NEW t \in Seq(Character),
         NEW i \in Nat, NEW j \in Nat, i <= j, IsFractionPart(d, i, j), Len(t) >= j,
         \A m \in 1 .. j : t[m] = d[m],
         Len(t) > j => t[j + 1] \notin Digit,
         Len(t) > i /\ i = j => t[i + 1] # ".",
         NEW b \in Nat, i <= b, b <= Len(t),
         IsFractionPart(t, i, b), IsExponentPart(t, b, Len(t))
  PROVE  b = j
<1>1. Len(t) \in Nat
  OBVIOUS
<1>2. CASE i = j
  <2> SUFFICES ASSUME b # i PROVE FALSE
    BY <1>2
  <2>1. i < Len(t) /\ t[i + 1] = "."
    BY <1>1 DEF IsFractionPart
  <2> QED
    BY <1>2, <2>1
<1>3. CASE i # j
  <2>1. /\ d[i + 1] = "." /\ i + 1 < j
        /\ \A m \in i + 2 .. j : d[m] \in Digit
    BY <1>3 DEF IsFractionPart, AreDigits, isDigit
  <2>2. t[i + 1] = "." /\ i < Len(t)
    BY <1>1, <2>1
  <2>3. b # i
    BY <2>2 DEF IsExponentPart
  <2>4. i + 1 < b /\ \A m \in i + 2 .. b : t[m] \in Digit
    BY <2>3 DEF IsFractionPart, AreDigits, isDigit
  <2>5. ASSUME b < j PROVE FALSE
    <3>1. b + 1 \in i + 2 .. j /\ b + 1 \in 1 .. j /\ b < Len(t)
      BY <1>1, <2>4, <2>5
    <3>2. t[b + 1] \in Digit
      BY <2>1, <3>1
    <3>3. t[b + 1] = "e"
      BY <3>1 DEF IsExponentPart
    <3> QED
      BY <3>2, <3>3 DEF Digit, NonzeroDigit
  <2>6. ASSUME j < b PROVE FALSE
    <3>1. j + 1 \in i + 2 .. b /\ j < Len(t)
      BY <1>1, <2>1, <2>6
    <3> QED
      BY <2>4, <3>1
  <2> QED
    BY <2>5, <2>6
<1> QED
  BY <1>2, <1>3

--------------------------------------------------------------------------------
(* Where no number goes on. *)

\* No number begins as d does up to e and the character after.
DeadEnd(d, e) == \A t : Follows(t, d, e) /\ Len(t) > e => ~IsNumber(t)

\* Nor is d up to e a number itself.
Stuck(d, e) == \A t : Follows(t, d, e) => ~IsNumber(t)

\* The integer part of d ends at i.
IntegerDone(d, i) ==
  /\ i \in 0 .. Len(d)
  /\ IsIntegerPart(d, signLength(d), i)
  /\ ~After(d, i, Digit)

\* The integer part of d ends at i, and the fraction at j.
MantissaDone(d, i, j) ==
  /\ IntegerDone(d, i)
  /\ j \in 0 .. Len(d) /\ i <= j
  /\ IsFractionPart(d, i, j)
  /\ ~After(d, j, Digit)
  /\ i = j => ~After(d, i, {"."})

\* What follows a text: the same characters up to e, and the same one after.
LEMMA FollowsFacts ==
  ASSUME NEW d \in Seq(Character), NEW t, NEW e, Follows(t, d, e)
  PROVE  /\ t \in Seq(Character) /\ e \in Nat /\ e \in 0 .. Len(d) /\ Len(t) \in Nat
         /\ Len(d) \in Nat /\ Len(t) >= e
         /\ \A m \in 1 .. e : t[m] = d[m]
         /\ \A c : Len(t) > e /\ ~After(d, e, c) => t[e + 1] \notin c
         /\ Len(t) > e => e < Len(d) /\ t[e + 1] = d[e + 1]
  BY DEF Follows, After

\* An integer part is after the sign.
LEMMA SignOfInteger ==
  ASSUME NEW d \in Seq(Character), NEW i \in Nat, IsIntegerPart(d, signLength(d), i)
  PROVE  signLength(d) \in {0, 1} /\ signLength(d) < i
  BY DEF IsIntegerPart, AreDigits, signLength

\* A text that begins as d and is a number has its integer part where d has it.
LEMMA SplitAtInteger ==
  ASSUME NEW d \in Seq(Character), NEW i, IntegerDone(d, i),
         NEW e, i <= e, NEW t, Follows(t, d, e), IsNumber(t)
  PROVE  \E j \in 0 .. Len(t) : i <= j /\ IsFractionPart(t, i, j) /\ IsExponentPart(t, j, Len(t))
<1>1. /\ t \in Seq(Character) /\ e \in Nat /\ Len(t) \in Nat /\ Len(d) \in Nat /\ Len(t) >= e
      /\ \A m \in 1 .. e : t[m] = d[m]
      /\ Len(t) > e => e < Len(d) /\ t[e + 1] = d[e + 1]
  BY FollowsFacts
<1>2. i \in Nat /\ IsIntegerPart(d, signLength(d), i) /\ (i < Len(d) => d[i + 1] \notin Digit)
  BY <1>1 DEF IntegerDone, After
<1>3. signLength(d) \in {0, 1} /\ signLength(d) < i
  BY <1>2, SignOfInteger
<1>4. signLength(t) = signLength(d)
  BY <1>1, <1>2, <1>3, SameSign
<1>5. PICK a \in 0 .. Len(t), b \in 0 .. Len(t) :
        /\ a <= b
        /\ IsIntegerPart(t, signLength(t), a)
        /\ IsFractionPart(t, a, b)
        /\ IsExponentPart(t, b, Len(t))
  BY NumberSplits
<1>6. \A m \in 1 .. i : t[m] = d[m]
  BY <1>1, <1>2
<1>7. Len(t) > i => t[i + 1] \notin Digit
  <2>1. CASE i < e
    <3>1. i + 1 \in 1 .. e
      BY <1>1, <1>2, <2>1
    <3>2. e <= Len(d)
      BY <1>1, FollowsFacts
    <3> QED
      BY <1>1, <1>2, <2>1, <3>1, <3>2
  <2>2. CASE i = e
    BY <1>1, <1>2, <2>2
  <2> QED
    BY <1>1, <1>2, <2>1, <2>2
<1>8. a = i
  <2>1. a \in Nat /\ b \in Nat /\ b <= Len(t) /\ Len(t) >= i /\ signLength(d) \in Nat
    BY <1>1, <1>2, <1>3
  <2>2. IsIntegerPart(t, signLength(d), a)
    BY <1>4, <1>5
  <2> QED
    BY <1>1, <1>2, <1>5, <1>6, <1>7, <2>1, <2>2, IntegerEnds
<1> QED
  BY <1>5, <1>8

\* And its fraction.
LEMMA SplitAtFraction ==
  ASSUME NEW d \in Seq(Character), NEW i, NEW j, MantissaDone(d, i, j),
         NEW e, j <= e, NEW t, Follows(t, d, e), IsNumber(t)
  PROVE  IsExponentPart(t, j, Len(t))
<1>1. /\ t \in Seq(Character) /\ e \in Nat /\ Len(t) \in Nat /\ Len(d) \in Nat /\ Len(t) >= e
      /\ \A m \in 1 .. e : t[m] = d[m]
      /\ Len(t) > e => e < Len(d) /\ t[e + 1] = d[e + 1]
  BY FollowsFacts
<1>2. /\ IntegerDone(d, i) /\ i \in Nat /\ j \in Nat /\ i <= j /\ IsFractionPart(d, i, j)
      /\ j < Len(d) => d[j + 1] \notin Digit
      /\ i = j => (i < Len(d) => d[i + 1] # ".")
  BY <1>1 DEF MantissaDone, IntegerDone, After
<1>3. PICK b \in 0 .. Len(t) : i <= b /\ IsFractionPart(t, i, b) /\ IsExponentPart(t, b, Len(t))
  <2>1. i <= e
    BY <1>1, <1>2
  <2> QED
    BY <1>2, <2>1, SplitAtInteger
<1>4. \A m \in 1 .. j : t[m] = d[m]
  BY <1>1, <1>2
<1>5. Len(t) > j => j < Len(d) /\ t[j + 1] = d[j + 1]
  <2>1. CASE j < e
    <3>1. j + 1 \in 1 .. e /\ j + 1 <= Len(t)
      BY <1>1, <1>2, <2>1
    <3>2. e <= Len(d)
      BY <1>1, FollowsFacts
    <3> QED
      BY <1>1, <1>2, <2>1, <3>1, <3>2
  <2>2. CASE j = e
    BY <1>1, <1>2, <2>2
  <2> QED
    BY <1>1, <1>2, <2>1, <2>2
<1>6. Len(t) > j => t[j + 1] \notin Digit
  BY <1>2, <1>5
<1>7. Len(t) > i /\ i = j => t[i + 1] # "."
  BY <1>2, <1>5
<1>8. b = j
  <2>1. b \in Nat /\ b <= Len(t) /\ Len(t) >= j
    BY <1>1, <1>2
  <2> QED
    BY <1>1, <1>2, <1>3, <1>4, <1>6, <1>7, <2>1, FractionEnds
<1> QED
  BY <1>3, <1>8

\* No digit where the integer part should begin.
LEMMA StuckAtInteger ==
  ASSUME NEW d \in Seq(Character), ~After(d, signLength(d), Digit), signLength(d) \in 0 .. Len(d)
  PROVE  Stuck(d, signLength(d))
<1> SUFFICES ASSUME NEW t, Follows(t, d, signLength(d)), IsNumber(t) PROVE FALSE
  BY DEF Stuck
<1>1. PICK a \in 0 .. Len(t), b \in 0 .. Len(t) : IsIntegerPart(t, signLength(t), a)
  BY NumberSplits
<1>2. signLength(t) = signLength(d) /\ signLength(d) \in Nat
  BY SameSign
<1>3. Len(t) \in Nat /\ (Len(t) > signLength(d) => t[signLength(d) + 1] \notin Digit)
  BY FollowsFacts
<1>4. signLength(d) < a /\ t[signLength(d) + 1] \in Digit
  BY <1>1, <1>2, <1>3 DEF IsIntegerPart, AreDigits, isDigit
<1> QED
  BY <1>2, <1>3, <1>4

\* A digit after a leading zero.
LEMMA DeadAfterZero ==
  ASSUME NEW d \in Seq(Character), After(d, signLength(d), {"0"}), NEW e, e = signLength(d) + 1,
         After(d, e, Digit)
  PROVE  DeadEnd(d, e)
<1> SUFFICES ASSUME NEW t, Follows(t, d, e), Len(t) > e, IsNumber(t) PROVE FALSE
  BY DEF DeadEnd
<1>1. /\ t \in Seq(Character) /\ e \in Nat /\ Len(t) \in Nat /\ Len(d) \in Nat
      /\ \A m \in 1 .. e : t[m] = d[m]
      /\ t[e + 1] = d[e + 1] /\ signLength(d) \in Nat
  BY FollowsFacts DEF signLength
<1>2. signLength(t) = signLength(d)
  BY <1>1, SameSign
<1>3. PICK a \in 0 .. Len(t), b \in 0 .. Len(t) :
        /\ a <= b
        /\ IsIntegerPart(t, signLength(t), a)
        /\ IsFractionPart(t, a, b)
        /\ IsExponentPart(t, b, Len(t))
  BY NumberSplits
<1>4. t[e] = "0" /\ t[e + 1] \in Digit
  BY <1>1 DEF After
<1>5. a = e
  BY <1>1, <1>2, <1>3, <1>4 DEF IsIntegerPart
<1>6. t[e + 1] # "." /\ t[e + 1] # "e"
  BY <1>4 DEF Digit, NonzeroDigit
<1> QED
  BY <1>3, <1>5, <1>6 DEF IsFractionPart, IsExponentPart

\* No digit after the point.
LEMMA StuckAtFraction ==
  ASSUME NEW d \in Seq(Character), NEW i, IntegerDone(d, i), After(d, i, {"."}),
         NEW e, e = i + 1, ~After(d, e, Digit)
  PROVE  Stuck(d, e)
<1> SUFFICES ASSUME NEW t, Follows(t, d, e), IsNumber(t) PROVE FALSE
  BY DEF Stuck
<1>1. /\ t \in Seq(Character) /\ e \in Nat /\ Len(t) \in Nat /\ Len(d) \in Nat /\ Len(t) >= e
      /\ \A m \in 1 .. e : t[m] = d[m]
      /\ Len(t) > e => t[e + 1] \notin Digit
  BY FollowsFacts
<1>2. i \in Nat /\ i <= e
  BY DEF IntegerDone
<1>3. PICK j \in 0 .. Len(t) : i <= j /\ IsFractionPart(t, i, j) /\ IsExponentPart(t, j, Len(t))
  BY <1>2, SplitAtInteger
<1>4. t[i + 1] = "." /\ i < Len(t)
  BY <1>1, <1>2 DEF After
<1>5. j # i
  BY <1>3, <1>4 DEF IsExponentPart
<1>6. i + 1 < j /\ t[i + 2] \in Digit
  BY <1>2, <1>3, <1>5 DEF IsFractionPart, AreDigits, isDigit
<1> QED
  BY <1>1, <1>2, <1>6

\* No digit after the exponent mark and its sign.
LEMMA StuckAtExponent ==
  ASSUME NEW d \in Seq(Character), NEW i, NEW j, MantissaDone(d, i, j), After(d, j, {"e"}),
         NEW e, \/ e = j + 1 /\ ~After(d, e, {"+", "-"})
                \/ e = j + 2 /\ After(d, j + 1, {"+", "-"}),
         ~After(d, e, Digit)
  PROVE  Stuck(d, e)
<1> SUFFICES ASSUME NEW t, Follows(t, d, e), IsNumber(t) PROVE FALSE
  BY DEF Stuck
<1>1. /\ t \in Seq(Character) /\ e \in Nat /\ Len(t) \in Nat /\ Len(d) \in Nat /\ Len(t) >= e
      /\ \A m \in 1 .. e : t[m] = d[m]
      /\ Len(t) > e => t[e + 1] \notin Digit
      /\ e = j + 1 /\ Len(t) > e => t[e + 1] \notin {"+", "-"}
  <2>1. ~(j + 2 = j + 1)
    BY FollowsFacts DEF MantissaDone
  <2>2. \A c : Len(t) > e /\ ~After(d, e, c) => t[e + 1] \notin c
    BY FollowsFacts
  <2>3. e = j + 1 => ~After(d, e, {"+", "-"})
    BY <2>1
  <2> QED
    BY <2>2, <2>3, FollowsFacts
<1>2. j \in Nat /\ j <= e
  BY DEF MantissaDone
<1>3. IsExponentPart(t, j, Len(t))
  BY <1>2, SplitAtFraction
<1>4. j < Len(t)
  BY <1>1, <1>2
<1>5. \/ j + 1 < Len(t) /\ t[j + 2] \in Digit
      \/ j + 2 < Len(t) /\ t[j + 3] \in Digit /\ t[j + 2] \in {"+", "-"}
  BY <1>1, <1>2, <1>3, <1>4 DEF IsExponentPart, AreDigits, isDigit
<1>6. CASE e = j + 1
  BY <1>1, <1>2, <1>5, <1>6
<1>7. CASE e = j + 2 /\ After(d, j + 1, {"+", "-"})
  <2>1. t[j + 2] \in {"+", "-"}
    BY <1>1, <1>2, <1>7 DEF After
  <2>2. t[j + 2] \notin Digit
    BY <2>1 DEF Digit, NonzeroDigit
  <2> QED
    BY <1>1, <1>2, <1>5, <1>7, <2>2
<1> QED
  BY <1>6, <1>7

\* Neither a digit nor an exponent mark after the digits of the mantissa.
LEMMA DeadAfterMantissa ==
  ASSUME NEW d \in Seq(Character), NEW i, NEW j, MantissaDone(d, i, j), ~After(d, j, {"e"})
  PROVE  DeadEnd(d, j)
<1> SUFFICES ASSUME NEW t, Follows(t, d, j), Len(t) > j, IsNumber(t) PROVE FALSE
  BY DEF DeadEnd
<1>1. j \in Nat /\ t[j + 1] # "e" /\ Len(t) \in Nat
  BY FollowsFacts
<1>2. IsExponentPart(t, j, Len(t))
  <2>1. j <= j
    BY <1>1
  <2> QED
    BY <2>1, SplitAtFraction
<1> QED
  BY <1>1, <1>2 DEF IsExponentPart

\* No digit after the digits of the exponent.
LEMMA DeadAfterExponent ==
  ASSUME NEW d \in Seq(Character), NEW i, NEW j, MantissaDone(d, i, j),
         NEW first \in {j + 1, j + 2}, NEW e \in 0 .. Len(d),
         AreDigits(d, first, e), ~After(d, e, Digit)
  PROVE  DeadEnd(d, e)
<1> SUFFICES ASSUME NEW t, Follows(t, d, e), Len(t) > e, IsNumber(t) PROVE FALSE
  BY DEF DeadEnd
<1>1. e \in Nat /\ t[e + 1] \notin Digit /\ Len(t) \in Nat
  BY FollowsFacts
<1>2. j \in Nat /\ first < e /\ j <= e /\ j + 1 < e
  BY DEF MantissaDone, AreDigits
<1>3. IsExponentPart(t, j, Len(t))
  BY <1>2, SplitAtFraction
<1>4. AreDigits(t, j + 1, Len(t)) \/ AreDigits(t, j + 2, Len(t))
  BY <1>1, <1>2, <1>3 DEF IsExponentPart
<1>5. e + 1 \in j + 2 .. Len(t) /\ e + 1 \in j + 3 .. Len(t)
  BY <1>1, <1>2
<1> QED
  BY <1>1, <1>2, <1>4, <1>5 DEF AreDigits, isDigit

--------------------------------------------------------------------------------
(* What a text begins with. *)

\* What d begins with, up to p.
Prefix(d, p) == SubSeq(d, 1, p)

\* The characters of a prefix, and of one with a zero after it.
LEMMA PrefixFacts ==
  ASSUME NEW d \in Seq(Character), NEW p \in 0 .. Len(d)
  PROVE  /\ Prefix(d, p) \in Seq(Character) /\ Len(Prefix(d, p)) = p
         /\ \A m \in 1 .. p : Prefix(d, p)[m] = d[m]
         /\ Append(Prefix(d, p), "0") \in Seq(Character)
         /\ Len(Append(Prefix(d, p), "0")) = p + 1
         /\ \A m \in 1 .. p : Append(Prefix(d, p), "0")[m] = d[m]
         /\ Append(Prefix(d, p), "0")[p + 1] = "0"
<1>1. Len(d) \in Nat /\ p \in Nat /\ p <= Len(d)
  OBVIOUS
<1>2. \A m \in 1 .. p : m \in 1 .. Len(d) /\ d[m] \in Character
  BY <1>1
<1>3. /\ Prefix(d, p) \in Seq(Character) /\ Len(Prefix(d, p)) = p
      /\ \A m \in 1 .. p : Prefix(d, p)[m] = d[m]
  BY <1>1, <1>2, SubSeqProperties DEF Prefix
<1>4. "0" \in Character
  BY DEF Character, Digit
<1> HIDE DEF Prefix
<1>5. /\ Append(Prefix(d, p), "0") \in Seq(Character)
      /\ Len(Append(Prefix(d, p), "0")) = p + 1
      /\ \A m \in 1 .. p : Append(Prefix(d, p), "0")[m] = Prefix(d, p)[m]
      /\ Append(Prefix(d, p), "0")[p + 1] = "0"
  BY <1>3, <1>4, <1>1
<1> QED
  BY <1>3, <1>5

\* The parts of d are those of a text that begins as d does.
LEMMA SameParts ==
  ASSUME NEW d, NEW t, NEW n \in Nat, \A m \in 1 .. n : t[m] = d[m],
         NEW a \in Nat, NEW b \in 0 .. n
  PROVE  /\ AreDigits(d, a, b) => AreDigits(t, a, b)
         /\ IsIntegerPart(d, a, b) => IsIntegerPart(t, a, b)
         /\ IsFractionPart(d, a, b) => IsFractionPart(t, a, b)
         /\ IsExponentPart(d, a, b) => IsExponentPart(t, a, b)
<1>1. \A c \in Nat : AreDigits(d, c, b) => c < b /\ c + 1 \in 1 .. n /\ AreDigits(t, c, b)
  BY DEF AreDigits, isDigit
<1>2. a + 1 \in Nat /\ a + 2 \in Nat
  OBVIOUS
<1>3. IsIntegerPart(d, a, b) => IsIntegerPart(t, a, b)
  BY <1>1 DEF IsIntegerPart
<1>4. ASSUME IsFractionPart(d, a, b), a # b PROVE IsFractionPart(t, a, b)
  <2>1. d[a + 1] = "." /\ AreDigits(d, a + 1, b)
    BY <1>4 DEF IsFractionPart
  <2>2. a + 1 < b /\ AreDigits(t, a + 1, b)
    BY <1>1, <1>2, <2>1
  <2>3. a + 1 \in 1 .. n
    BY <2>2
  <2> QED
    BY <2>1, <2>2, <2>3 DEF IsFractionPart
<1>5. ASSUME IsExponentPart(d, a, b), a # b PROVE IsExponentPart(t, a, b)
  <2>1. /\ d[a + 1] = "e"
        /\ \/ AreDigits(d, a + 1, b)
           \/ AreDigits(d, a + 2, b) /\ d[a + 2] \in {"+", "-"}
    BY <1>5 DEF IsExponentPart
  <2>2. CASE AreDigits(d, a + 1, b)
    <3>1. a + 1 < b /\ AreDigits(t, a + 1, b)
      BY <1>1, <1>2, <2>2
    <3>2. a + 1 \in 1 .. n
      BY <3>1
    <3> QED
      BY <2>1, <3>1, <3>2 DEF IsExponentPart
  <2>3. CASE AreDigits(d, a + 2, b) /\ d[a + 2] \in {"+", "-"}
    <3>1. a + 2 < b /\ AreDigits(t, a + 2, b)
      BY <1>1, <1>2, <2>3
    <3>2. a + 1 \in 1 .. n /\ a + 2 \in 1 .. n
      BY <3>1
    <3> QED
      BY <2>1, <2>3, <3>1, <3>2 DEF IsExponentPart
  <2> QED
    BY <2>1, <2>2, <2>3
<1> QED
  BY <1>1, <1>3, <1>4, <1>5 DEF IsFractionPart, IsExponentPart

\* d up to p is a number when it splits like one.
LEMMA PrefixIsNumber ==
  ASSUME NEW d \in Seq(Character), NEW p \in 0 .. Len(d),
         NEW i \in Nat, NEW j \in Nat, i <= j, j <= p,
         IsIntegerPart(d, signLength(d), i), IsFractionPart(d, i, j), IsExponentPart(d, j, p)
  PROVE  IsNumber(Prefix(d, p))
<1> DEFINE t == Prefix(d, p)
<1>1. /\ t \in Seq(Character) /\ Len(t) = p /\ p \in Nat /\ p <= Len(d)
      /\ \A m \in 1 .. p : t[m] = d[m]
  <2> HIDE DEF t
  <2>1. p \in Nat /\ p <= Len(d)
    OBVIOUS
  <2> QED
    BY <2>1, PrefixFacts DEF t
<1> HIDE DEF t
<1>2. signLength(d) \in {0, 1} /\ signLength(d) < i
  BY SignOfInteger
<1>3. Follows(t, d, p)
  BY <1>1 DEF Follows
<1>4. signLength(t) = signLength(d)
  BY <1>1, <1>2, <1>3, SameSign
<1>5. i \in 0 .. p /\ j \in 0 .. p /\ p \in 0 .. p /\ signLength(d) \in Nat
  BY <1>1, <1>2
<1>6. IsIntegerPart(t, signLength(d), i) /\ IsFractionPart(t, i, j) /\ IsExponentPart(t, j, p)
  BY <1>1, <1>5, SameParts
<1>7. IsNumber(t)
  BY <1>1, <1>4, <1>5, <1>6, NumberSplits
<1> QED
  BY <1>7 DEF t

\* d up to p and a zero is a number when it splits like one.
LEMMA PrefixMayGoOn ==
  ASSUME NEW d \in Seq(Character), NEW p \in 0 .. Len(d), signLength(d) <= p,
         NEW t, t = Append(Prefix(d, p), "0"),
         NEW i \in Nat, NEW j \in Nat, i <= j, j <= p + 1,
         IsIntegerPart(t, signLength(d), i), IsFractionPart(t, i, j), IsExponentPart(t, j, p + 1)
  PROVE  IsViable(Prefix(d, p))
<1>1. /\ t \in Seq(Character) /\ Len(t) = p + 1 /\ p \in Nat /\ p <= Len(d)
      /\ \A m \in 1 .. p : t[m] = d[m]
      /\ t[p + 1] = "0"
  BY PrefixFacts
<1>2. signLength(t) = signLength(d)
  <2>1. CASE p = 0
    <3>1. signLength(d) = 0
      BY <2>1 DEF signLength
    <3>2. t[1] # "-"
      BY <1>1, <2>1
    <3> QED
      BY <3>1, <3>2 DEF signLength
  <2>2. CASE p # 0
    <3>1. t # <<>> /\ d # <<>> /\ t[1] = d[1]
      BY <1>1, <2>2
    <3> QED
      BY <3>1 DEF signLength
  <2> QED
    BY <2>1, <2>2
<1>3. i \in 0 .. Len(t) /\ j \in 0 .. Len(t)
  BY <1>1
<1>4. IsNumber(t)
  BY <1>1, <1>2, <1>3, NumberSplits
<1> QED
  BY <1>4 DEF IsViable

--------------------------------------------------------------------------------
(* The longest text that begins a number. *)

\* A prefix that may become a number, when none beyond it may, is the longest.
LEMMA LongestIs ==
  ASSUME NEW d \in Seq(Character), NEW e \in 0 .. Len(d), IsViable(Prefix(d, e)),
         \A p \in 0 .. Len(d) : p > e => ~IsViable(Prefix(d, p))
  PROVE  Longest(d) = e
<1> DEFINE S == {p \in 0 .. Len(d) : IsViable(Prefix(d, p))}
<1>1. e \in S /\ \A p \in S : e >= p /\ p \in Nat
  OBVIOUS
<1>2. Max(S) = e
  <2> HIDE DEF S
  <2>1. e \in S /\ \A p \in S : e >= p
    BY <1>1
  <2>2. Max(S) \in S /\ \A p \in S : Max(S) >= p
    BY <2>1 DEF Max
  <2>3. Max(S) \in Nat /\ e \in Nat
    BY <1>1, <2>2
  <2>4. e >= Max(S) /\ Max(S) >= e
    BY <2>1, <2>2
  <2> QED
    BY <2>3, <2>4
<1> QED
  BY <1>2 DEF Longest, Prefix

\* The longest is there whenever one is, and no shorter.
LEMMA LongestAtLeast ==
  ASSUME NEW d \in Seq(Character), NEW e \in 0 .. Len(d), IsViable(Prefix(d, e))
  PROVE  Longest(d) \in 0 .. Len(d) /\ Longest(d) >= e
<1> DEFINE S == {p \in 0 .. Len(d) : IsViable(Prefix(d, p))}
<1>1. S \in SUBSET Int /\ S \subseteq 0 .. Len(d) /\ e \in S /\ \A p \in S : p <= Len(d) /\ p \in Nat
  OBVIOUS
<1>2. \E m \in S : \A p \in S : m >= p
  <2> DEFINE Bound(k) == k \in Nat /\ \A p \in S : p <= k
             K == {k \in Nat : Bound(k)}
  <2>1. Len(d) \in K
    BY <1>1
  <2>2. PICK k \in K : \A l \in K : k <= l
    <3> HIDE DEF K
    <3>1. K \subseteq Nat
      BY DEF K
    <3>2. PICK k \in K : \A l \in K : ~(<<l, k>> \in OpToRel(<, Nat))
      BY <2>1, <3>1, WFMin, NatLessThanWellFounded
    <3>3. \A l \in K : ~(l < k)
      BY <3>1, <3>2 DEF OpToRel
    <3> QED
      BY <3>1, <3>3
  <2>3. k \in S
    <3> SUFFICES ASSUME k \notin S PROVE FALSE
      OBVIOUS
    <3>1. \A p \in S : p < k
      BY <1>1, <2>2
    <3>2. k > 0 /\ k - 1 \in Nat
      BY <1>1, <2>2, <3>1
    <3>3. k - 1 \in K
      BY <1>1, <3>1, <3>2
    <3> QED
      BY <2>2, <3>3
  <2> QED
    BY <1>1, <2>2, <2>3
<1>3. Max(S) \in S /\ \A p \in S : Max(S) >= p
  <2> HIDE DEF S
  <2> QED
    BY <1>2 DEF Max
<1>4. Longest(d) = Max(S)
  BY DEF Longest, Prefix
<1> HIDE DEF S
<1> QED
  BY <1>1, <1>3, <1>4

\* Nothing longer than a dead end begins a number.
LEMMA NothingBeyond ==
  ASSUME NEW d \in Seq(Character), NEW e \in 0 .. Len(d), DeadEnd(d, e),
         NEW p \in 0 .. Len(d), p > e
  PROVE  ~IsViable(Prefix(d, p))
<1>1. /\ Prefix(d, p) \in Seq(Character) /\ Len(Prefix(d, p)) = p
      /\ \A m \in 1 .. p : Prefix(d, p)[m] = d[m]
      /\ Append(Prefix(d, p), "0") \in Seq(Character)
      /\ Len(Append(Prefix(d, p), "0")) = p + 1
      /\ \A m \in 1 .. p : Append(Prefix(d, p), "0")[m] = d[m]
  BY PrefixFacts
<1>2. Len(d) \in Nat /\ e < Len(d) /\ e + 1 \in 1 .. p /\ \A m \in 1 .. e : m \in 1 .. p
  OBVIOUS
<1>3. Follows(Prefix(d, p), d, e)
  BY <1>1, <1>2 DEF Follows
<1>4. Follows(Append(Prefix(d, p), "0"), d, e)
  BY <1>1, <1>2 DEF Follows
<1>5. Len(Prefix(d, p)) > e /\ Len(Append(Prefix(d, p), "0")) > e
  BY <1>1, <1>2
<1>6. ~IsNumber(Prefix(d, p)) /\ ~IsNumber(Append(Prefix(d, p), "0"))
  BY <1>3, <1>4, <1>5 DEF DeadEnd
<1> QED
  BY <1>6 DEF IsViable

\* Where d is stuck it goes nowhere, and is no number so far.
LEMMA StuckIsDead ==
  ASSUME NEW d \in Seq(Character), NEW e \in 0 .. Len(d), Stuck(d, e)
  PROVE  DeadEnd(d, e) /\ ~IsNumber(Prefix(d, e))
<1>1. /\ Prefix(d, e) \in Seq(Character) /\ Len(Prefix(d, e)) = e
      /\ \A m \in 1 .. e : Prefix(d, e)[m] = d[m]
  BY PrefixFacts
<1>2. Follows(Prefix(d, e), d, e)
  BY <1>1 DEF Follows
<1> QED
  BY <1>2 DEF Stuck, DeadEnd

--------------------------------------------------------------------------------
(* The scan, part by part. *)

\* The digits of the exponent begin at first.
ExponentBegins(d, i, j, first) ==
  /\ MantissaDone(d, i, j)
  /\ After(d, j, {"e"})
  /\ \/ first = j + 1 /\ ~After(d, first, {"+", "-"})
     \/ first = j + 2 /\ After(d, j + 1, {"+", "-"})

\* d up to p is a number, and goes on neither with a digit nor otherwise.
NumberEnds(d, p) ==
  /\ IsNumber(Prefix(d, p))
  /\ ~After(d, p, Digit)
  /\ DeadEnd(d, p)

\* d up to p may go on as a number, does not, and is none that may end there.
FaultAt(d, p) ==
  /\ p \in 0 .. Len(d)
  /\ IsViable(Prefix(d, p))
  /\ DeadEnd(d, p)
  /\ ~(IsNumber(Prefix(d, p)) /\ ~After(d, p, Digit))

\* What d has up to p when the scan of a part stands there.
Scanned(d, part, p) ==
  /\ p \in 0 .. Len(d)
  /\ part = "integer" => p = signLength(d)
  /\ part = "integerDigits" =>
       /\ After(d, signLength(d), NonzeroDigit)
       /\ p = signLength(d) \/ IsIntegerPart(d, signLength(d), p)
  /\ part = "fraction" => IntegerDone(d, p)
  /\ part = "fractionDigits" =>
       \E i \in Nat :
         /\ IntegerDone(d, i) /\ After(d, i, {"."}) /\ i < p
         /\ (p = i + 1 /\ After(d, p, Digit)) \/ IsFractionPart(d, i, p)
  /\ part = "exponent" => \E i \in Nat : MantissaDone(d, i, p)
  /\ part = "exponentDigits" =>
       \E i, j, first \in Nat :
         /\ ExponentBegins(d, i, j, first)
         /\ (p = first /\ After(d, p, Digit)) \/ AreDigits(d, first, p)
  /\ part = "value" => NumberEnds(d, p)

\* Places and characters of a text.
LEMMA Places ==
  ASSUME NEW d \in Seq(Character)
  PROVE  /\ Len(d) \in Nat
         /\ signLength(d) \in {0, 1} /\ signLength(d) \in 0 .. Len(d)
         /\ signLength(d) = 1 => d[1] = "-"
         /\ \A p, c : After(d, p, c) => p < Len(d)
  BY EmptySeq DEF signLength, After

\* One digit more.
LEMMA MoreDigits ==
  ASSUME NEW d, NEW a \in Nat, NEW p \in Nat, AreDigits(d, a, p) \/ p = a, After(d, p, Digit)
  PROVE  AreDigits(d, a, p + 1)
<1>1. d[p + 1] \in Digit
  BY DEF After
<1>2. a < p + 1 /\ \A m \in a + 1 .. p + 1 : m \in a + 1 .. p \/ m = p + 1
  BY DEF AreDigits
<1>3. \A m \in a + 1 .. p : d[m] \in Digit
  BY DEF AreDigits, isDigit
<1> QED
  BY <1>1, <1>2, <1>3 DEF AreDigits, isDigit

--------------------------------------------------------------------------------
(* What each part of the scan leaves. *)

\* A digit other than zero begins the digits of the integer part.
LEMMA LeadingDigit ==
  ASSUME NEW d \in Seq(Character), NEW p, Scanned(d, "integer", p), After(d, p, NonzeroDigit)
  PROVE  Scanned(d, "integerDigits", p)
  BY DEF Scanned

\* A zero is an integer part.
LEMMA LeadingZero ==
  ASSUME NEW d \in Seq(Character), NEW p, Scanned(d, "integer", p), After(d, p, {"0"})
  PROVE  p + 1 \in 0 .. Len(d) /\ IsIntegerPart(d, signLength(d), p + 1)
<1>1. p = signLength(d) /\ p \in Nat /\ Len(d) \in Nat /\ p < Len(d)
  BY Places DEF Scanned
<1>2. d[p + 1] = "0" /\ After(d, p, Digit)
  BY DEF After, Digit
<1>3. AreDigits(d, p, p + 1)
  BY <1>1, <1>2, MoreDigits
<1> QED
  BY <1>1, <1>3 DEF IsIntegerPart

\* A digit after it is a fault where it is.
LEMMA DigitAfterZero ==
  ASSUME NEW d \in Seq(Character), NEW p, Scanned(d, "integer", p), After(d, p, {"0"}),
         After(d, p + 1, Digit)
  PROVE  FaultAt(d, p + 1)
<1>1. p = signLength(d) /\ p \in Nat /\ Len(d) \in Nat
  BY Places DEF Scanned
<1>2. p + 1 \in 0 .. Len(d) /\ IsIntegerPart(d, signLength(d), p + 1)
  BY LeadingZero
<1>3. DeadEnd(d, p + 1)
  BY <1>1, DeadAfterZero
<1>4. IsFractionPart(d, p + 1, p + 1) /\ IsExponentPart(d, p + 1, p + 1)
  BY DEF IsFractionPart, IsExponentPart
<1>5. IsNumber(Prefix(d, p + 1))
  <2>1. p + 1 \in Nat /\ p + 1 <= p + 1
    BY <1>1
  <2> QED
    BY <1>2, <1>4, <2>1, PrefixIsNumber
<1> QED
  BY <1>2, <1>3, <1>5 DEF FaultAt, IsViable

\* With no digit after it the integer part is done.
LEMMA ZeroAlone ==
  ASSUME NEW d \in Seq(Character), NEW p, Scanned(d, "integer", p), After(d, p, {"0"}),
         ~After(d, p + 1, Digit)
  PROVE  Scanned(d, "fraction", p + 1)
  BY LeadingZero DEF Scanned, IntegerDone

\* A number without an integer part is a fault after its sign.
LEMMA NoInteger ==
  ASSUME NEW d \in Seq(Character), NEW p, Scanned(d, "integer", p), ~After(d, p, Digit)
  PROVE  FaultAt(d, p)
<1>1. p = signLength(d) /\ p \in Nat /\ p \in 0 .. Len(d)
  BY Places DEF Scanned
<1>2. DeadEnd(d, p) /\ ~IsNumber(Prefix(d, p))
  BY <1>1, StuckAtInteger, StuckIsDead
<1> DEFINE t == Append(Prefix(d, p), "0")
<1>3. t[p + 1] = "0"
  BY <1>1, PrefixFacts
<1> HIDE DEF t
<1>4. "0" \in Digit
  BY DEF Digit
<1>5. IsIntegerPart(t, p, p + 1)
  BY <1>1, <1>3, <1>4 DEF IsIntegerPart, AreDigits, isDigit
<1>6. IsFractionPart(t, p + 1, p + 1) /\ IsExponentPart(t, p + 1, p + 1)
  BY DEF IsFractionPart, IsExponentPart
<1>7. IsViable(Prefix(d, p))
  <2>1. p + 1 \in Nat /\ p + 1 <= p + 1 /\ signLength(d) <= p
    BY <1>1
  <2>2. t = Append(Prefix(d, p), "0") /\ IsIntegerPart(t, signLength(d), p + 1)
    BY <1>1, <1>5 DEF t
  <2> QED
    BY <1>1, <1>6, <2>1, <2>2, PrefixMayGoOn
<1> QED
  BY <1>1, <1>2, <1>7 DEF FaultAt

\* Without a point the mantissa is the integer part.
LEMMA NoFraction ==
  ASSUME NEW d \in Seq(Character), NEW p, Scanned(d, "fraction", p), ~After(d, p, {"."})
  PROVE  Scanned(d, "exponent", p)
<1>1. p \in 0 .. Len(d) /\ p \in Nat /\ p <= p /\ IntegerDone(d, p)
  BY DEF Scanned
<1>2. MantissaDone(d, p, p)
  BY <1>1 DEF MantissaDone, IntegerDone, IsFractionPart
<1> QED
  BY <1>1, <1>2 DEF Scanned

\* A point and a digit begin a fraction.
LEMMA PointAndDigit ==
  ASSUME NEW d \in Seq(Character), NEW p, Scanned(d, "fraction", p), After(d, p, {"."}),
         After(d, p + 1, Digit)
  PROVE  Scanned(d, "fractionDigits", p + 1)
<1>1. p \in Nat /\ IntegerDone(d, p) /\ p + 1 \in 0 .. Len(d) /\ p < p + 1
  BY Places DEF Scanned
<1> QED
  BY <1>1 DEF Scanned

\* A point without a digit is a fault after the point.
LEMMA PointAlone ==
  ASSUME NEW d \in Seq(Character), NEW p, Scanned(d, "fraction", p), After(d, p, {"."}),
         ~After(d, p + 1, Digit)
  PROVE  FaultAt(d, p + 1)
<1>1. p \in Nat /\ IntegerDone(d, p) /\ p + 1 \in 0 .. Len(d) /\ p + 1 \in Nat
  BY Places DEF Scanned
<1>2. DeadEnd(d, p + 1) /\ ~IsNumber(Prefix(d, p + 1))
  BY <1>1, StuckAtFraction, StuckIsDead
<1> DEFINE t == Append(Prefix(d, p + 1), "0")
<1>3. t[p + 2] = "0" /\ \A m \in 1 .. p + 1 : t[m] = d[m]
  <2> DEFINE e == p + 1
  <2>1. e \in 0 .. Len(d) /\ e + 1 = p + 2
    BY <1>1
  <2> HIDE DEF e
  <2>2. /\ \A m \in 1 .. e : Append(Prefix(d, e), "0")[m] = d[m]
        /\ Append(Prefix(d, e), "0")[e + 1] = "0"
    BY <2>1, PrefixFacts
  <2> QED
    BY <2>1, <2>2 DEF e
<1> HIDE DEF t
<1>4. signLength(d) \in Nat /\ signLength(d) < p /\ IsIntegerPart(d, signLength(d), p)
  BY <1>1, SignOfInteger DEF IntegerDone
<1>5. IsIntegerPart(t, signLength(d), p)
  <2>1. p \in 0 .. p + 1
    BY <1>1
  <2> QED
    BY <1>1, <1>3, <1>4, <2>1, SameParts
<1>6. IsFractionPart(t, p, p + 2)
  <2>1. p + 1 \in 1 .. p + 1 /\ d[p + 1] = "."
    BY <1>1 DEF After
  <2>2. t[p + 1] = "." /\ "0" \in Digit
    BY <1>3, <2>1 DEF Digit
  <2>3. AreDigits(t, p + 1, p + 2)
    BY <1>1, <1>3, <2>2 DEF AreDigits, isDigit
  <2> QED
    BY <2>2, <2>3 DEF IsFractionPart
<1>7. IsExponentPart(t, p + 2, p + 2)
  BY DEF IsExponentPart
<1>8. IsViable(Prefix(d, p + 1))
  <2>1. /\ p + 2 \in Nat /\ p <= p + 2 /\ p + 2 <= (p + 1) + 1 /\ signLength(d) <= p + 1
        /\ (p + 1) + 1 = p + 2
    BY <1>1, <1>4
  <2>2. t = Append(Prefix(d, p + 1), "0")
    BY DEF t
  <2> QED
    BY <1>1, <1>5, <1>6, <1>7, <2>1, <2>2, PrefixMayGoOn
<1> QED
  BY <1>1, <1>2, <1>8 DEF FaultAt

\* Without an exponent the number is the mantissa.
LEMMA NoExponent ==
  ASSUME NEW d \in Seq(Character), NEW p, Scanned(d, "exponent", p), ~After(d, p, {"e"})
  PROVE  Scanned(d, "value", p)
<1>1. PICK i \in Nat : MantissaDone(d, i, p)
  BY DEF Scanned
<1>2. p \in 0 .. Len(d) /\ p \in Nat
  BY DEF Scanned
<1>3. DeadEnd(d, p)
  BY <1>1, DeadAfterMantissa
<1>4. IsNumber(Prefix(d, p))
  <2>1. /\ IsIntegerPart(d, signLength(d), i) /\ IsFractionPart(d, i, p) /\ i <= p /\ p <= p
        /\ IsExponentPart(d, p, p)
    BY <1>1, <1>2 DEF MantissaDone, IntegerDone, IsExponentPart
  <2> QED
    BY <1>1, <1>2, <2>1, PrefixIsNumber
<1>5. NumberEnds(d, p)
  BY <1>1, <1>3, <1>4 DEF NumberEnds, MantissaDone
<1> QED
  BY <1>2, <1>5 DEF Scanned

\* The exponent begins after its mark and its sign.
LEMMA MarkSeen ==
  ASSUME NEW d \in Seq(Character), NEW p, Scanned(d, "exponent", p), After(d, p, {"e"}),
         NEW first, first = IF After(d, p + 1, {"+", "-"}) THEN p + 2 ELSE p + 1
  PROVE  /\ p \in Nat /\ first \in Nat /\ first \in 0 .. Len(d) /\ p < first
         /\ \E i \in Nat : ExponentBegins(d, i, p, first)
<1>1. PICK i \in Nat : MantissaDone(d, i, p)
  BY DEF Scanned
<1>2. p \in Nat /\ p + 1 \in 0 .. Len(d)
  BY Places DEF Scanned
<1>3. CASE After(d, p + 1, {"+", "-"})
  <2>1. p + 1 < Len(d)
    BY <1>3, Places
  <2> QED
    BY <1>1, <1>2, <1>3, <2>1, Places DEF ExponentBegins
<1>4. CASE ~After(d, p + 1, {"+", "-"})
  BY <1>1, <1>2, <1>4 DEF ExponentBegins
<1> QED
  BY <1>3, <1>4

\* A digit there begins the exponent.
LEMMA MarkAndDigit ==
  ASSUME NEW d \in Seq(Character), NEW p, Scanned(d, "exponent", p), After(d, p, {"e"}),
         NEW first, first = IF After(d, p + 1, {"+", "-"}) THEN p + 2 ELSE p + 1,
         After(d, first, Digit)
  PROVE  Scanned(d, "exponentDigits", first)
<1>1. p \in Nat /\ first \in Nat /\ first \in 0 .. Len(d)
  BY MarkSeen
<1>2. PICK i \in Nat : ExponentBegins(d, i, p, first)
  BY MarkSeen
<1> QED
  BY <1>1, <1>2 DEF Scanned

\* No digit there is a fault there.
LEMMA MarkAlone ==
  ASSUME NEW d \in Seq(Character), NEW p, Scanned(d, "exponent", p), After(d, p, {"e"}),
         NEW first, first = IF After(d, p + 1, {"+", "-"}) THEN p + 2 ELSE p + 1,
         ~After(d, first, Digit)
  PROVE  FaultAt(d, first)
<1>1. p \in Nat /\ first \in Nat /\ first \in 0 .. Len(d) /\ p < first
  BY MarkSeen
<1>2. PICK i \in Nat : ExponentBegins(d, i, p, first)
  BY MarkSeen
<1>3. MantissaDone(d, i, p) /\ i <= p
  BY <1>2 DEF ExponentBegins, MantissaDone
<1>4. DeadEnd(d, first) /\ ~IsNumber(Prefix(d, first))
  <2>1. \/ first = p + 1 /\ ~After(d, first, {"+", "-"})
        \/ first = p + 2 /\ After(d, p + 1, {"+", "-"})
    BY <1>2 DEF ExponentBegins
  <2>2. Stuck(d, first)
    BY <1>3, <2>1, StuckAtExponent
  <2> QED
    BY <1>1, <2>2, StuckIsDead
<1> DEFINE t == Append(Prefix(d, first), "0")
<1>5. t[first + 1] = "0" /\ \A m \in 1 .. first : t[m] = d[m]
  BY <1>1, PrefixFacts
<1> HIDE DEF t
<1>6. signLength(d) \in Nat /\ signLength(d) < i /\ IsIntegerPart(d, signLength(d), i)
  BY <1>3, SignOfInteger DEF MantissaDone, IntegerDone
<1>7. IsIntegerPart(t, signLength(d), i) /\ IsFractionPart(t, i, p)
  <2>1. i \in 0 .. first /\ p \in 0 .. first /\ IsFractionPart(d, i, p)
    BY <1>1, <1>3 DEF MantissaDone
  <2> QED
    BY <1>1, <1>5, <1>6, <2>1, SameParts
<1>8. IsExponentPart(t, p, first + 1)
  <2>1. p + 1 \in 1 .. first /\ d[p + 1] = "e"
    BY <1>1 DEF After
  <2>2. t[p + 1] = "e" /\ "0" \in Digit
    BY <1>5, <2>1 DEF Digit
  <2>3. AreDigits(t, first, first + 1)
    BY <1>1, <1>5, <2>2 DEF AreDigits, isDigit
  <2>4. CASE first = p + 1
    BY <2>2, <2>3, <2>4 DEF IsExponentPart
  <2>5. CASE first = p + 2 /\ After(d, p + 1, {"+", "-"})
    <3>1. p + 2 \in 1 .. first /\ (p + 1) + 1 = p + 2
      BY <1>1, <2>5
    <3>2. t[p + 2] \in {"+", "-"}
      BY <1>5, <2>5, <3>1 DEF After
    <3> QED
      BY <2>2, <2>3, <2>5, <3>2 DEF IsExponentPart
  <2> QED
    BY <2>4, <2>5
<1>9. IsViable(Prefix(d, first))
  <2>1. p <= first + 1 /\ signLength(d) <= first /\ t = Append(Prefix(d, first), "0")
    BY <1>1, <1>3, <1>6 DEF t
  <2> QED
    BY <1>1, <1>3, <1>7, <1>8, <2>1, PrefixMayGoOn
<1> QED
  BY <1>1, <1>4, <1>9 DEF FaultAt

--------------------------------------------------------------------------------
(* The loops over digits. *)

\* What a digit more leaves is a number.
LEMMA DigitScanned ==
  ASSUME NEW d \in Seq(Character), NEW p, After(d, p, Digit),
         NEW part \in {"integerDigits", "fractionDigits", "exponentDigits"}, Scanned(d, part, p)
  PROVE  Scanned(d, part, p + 1) /\ IsNumber(Prefix(d, p + 1))
<1>1. /\ p \in Nat /\ p + 1 \in 0 .. Len(d) /\ p + 1 \in Nat
      /\ signLength(d) \in Nat /\ p + 1 <= p + 1
  BY Places DEF Scanned
<1>2. IsExponentPart(d, p + 1, p + 1)
  BY DEF IsExponentPart
<1>3. CASE part = "integerDigits"
  <2> DEFINE s == signLength(d)
  <2>1. After(d, s, NonzeroDigit) /\ (p = s \/ IsIntegerPart(d, s, p))
    BY <1>3 DEF Scanned
  <2>2. d[s + 1] # "0"
    BY <2>1 DEF After, NonzeroDigit
  <2> HIDE DEF s
  <2>3. s \in Nat
    BY <1>1 DEF s
  <2>4. AreDigits(d, s, p + 1)
    BY <1>1, <2>1, <2>3, MoreDigits DEF IsIntegerPart
  <2>5. IsIntegerPart(d, s, p + 1)
    BY <2>2, <2>4 DEF IsIntegerPart
  <2>6. Scanned(d, part, p + 1)
    BY <1>1, <1>3, <2>1, <2>5 DEF Scanned, s
  <2>7. IsFractionPart(d, p + 1, p + 1)
    BY DEF IsFractionPart
  <2>8. IsNumber(Prefix(d, p + 1))
    BY <1>1, <1>2, <2>5, <2>7, PrefixIsNumber DEF s
  <2> QED
    BY <2>6, <2>8
<1>4. CASE part = "fractionDigits"
  <2>1. PICK i \in Nat :
          /\ IntegerDone(d, i) /\ After(d, i, {"."}) /\ i < p
          /\ (p = i + 1 /\ After(d, p, Digit)) \/ IsFractionPart(d, i, p)
    BY <1>4 DEF Scanned
  <2>2. d[i + 1] = "."
    BY <2>1 DEF After
  <2>3. AreDigits(d, i + 1, p) \/ p = i + 1
    BY <2>1 DEF IsFractionPart
  <2>4. AreDigits(d, i + 1, p + 1)
    BY <1>1, <2>3, MoreDigits
  <2>5. IsFractionPart(d, i, p + 1)
    BY <2>2, <2>4 DEF IsFractionPart
  <2>6. i < p + 1
    BY <1>1, <2>1
  <2>7. Scanned(d, part, p + 1)
    BY <1>1, <1>4, <2>1, <2>5, <2>6 DEF Scanned
  <2>8. IsNumber(Prefix(d, p + 1))
    <3>1. IsIntegerPart(d, signLength(d), i) /\ i <= p + 1
      BY <1>1, <2>1, <2>6 DEF IntegerDone
    <3> QED
      BY <1>1, <1>2, <2>5, <3>1, PrefixIsNumber
  <2> QED
    BY <2>7, <2>8
<1>5. CASE part = "exponentDigits"
  <2>1. PICK i \in Nat, j \in Nat, first \in Nat :
          /\ ExponentBegins(d, i, j, first)
          /\ (p = first /\ After(d, p, Digit)) \/ AreDigits(d, first, p)
    BY <1>5 DEF Scanned
  <2>2. AreDigits(d, first, p + 1)
    BY <1>1, <2>1, MoreDigits
  <2>3. Scanned(d, part, p + 1)
    BY <1>1, <1>5, <2>1, <2>2 DEF Scanned
  <2>4. IsExponentPart(d, j, p + 1) /\ j < p + 1
    <3>1. d[j + 1] = "e" /\ first < p + 1
      BY <2>1, <2>2 DEF ExponentBegins, After, AreDigits
    <3>2. CASE first = j + 1
      BY <1>1, <2>2, <3>1, <3>2 DEF IsExponentPart
    <3>3. CASE first = j + 2 /\ After(d, j + 1, {"+", "-"})
      <4>1. d[j + 2] \in {"+", "-"}
        BY <3>3 DEF After
      <4> QED
        BY <1>1, <2>2, <3>1, <3>3, <4>1 DEF IsExponentPart
    <3> QED
      BY <2>1, <3>2, <3>3 DEF ExponentBegins
  <2>5. IsNumber(Prefix(d, p + 1))
    <3>1. /\ IsIntegerPart(d, signLength(d), i) /\ IsFractionPart(d, i, j)
          /\ i <= j /\ j <= p + 1
      BY <1>1, <2>1, <2>4 DEF ExponentBegins, MantissaDone, IntegerDone
    <3> QED
      BY <1>1, <2>4, <3>1, PrefixIsNumber
  <2> QED
    BY <2>3, <2>5
<1> QED
  BY <1>3, <1>4, <1>5

\* After their last digit, the integer part is done.
LEMMA IntegerScanned ==
  ASSUME NEW d \in Seq(Character), NEW p, ~After(d, p, Digit), Scanned(d, "integerDigits", p)
  PROVE  Scanned(d, "fraction", p)
<1>1. After(d, signLength(d), Digit)
  BY DEF Scanned, After, Digit
<1>2. IsIntegerPart(d, signLength(d), p)
  BY <1>1 DEF Scanned
<1> QED
  BY <1>2 DEF Scanned, IntegerDone

\* And the mantissa.
LEMMA FractionScanned ==
  ASSUME NEW d \in Seq(Character), NEW p, ~After(d, p, Digit), Scanned(d, "fractionDigits", p)
  PROVE  Scanned(d, "exponent", p)
<1>1. PICK i \in Nat :
        /\ IntegerDone(d, i) /\ After(d, i, {"."}) /\ i < p
        /\ (p = i + 1 /\ After(d, p, Digit)) \/ IsFractionPart(d, i, p)
  BY DEF Scanned
<1>2. p \in 0 .. Len(d) /\ i <= p /\ i # p
  BY <1>1 DEF Scanned
<1>3. MantissaDone(d, i, p)
  BY <1>1, <1>2 DEF MantissaDone
<1> QED
  BY <1>2, <1>3 DEF Scanned

\* And the number.
LEMMA ExponentScanned ==
  ASSUME NEW d \in Seq(Character), NEW p, ~After(d, p, Digit), Scanned(d, "exponentDigits", p)
  PROVE  Scanned(d, "value", p)
<1>1. PICK i \in Nat, j \in Nat, first \in Nat :
        ExponentBegins(d, i, j, first) /\ AreDigits(d, first, p)
  BY DEF Scanned
<1>2. p \in 0 .. Len(d) /\ p \in Nat /\ Len(d) \in Nat
  BY DEF Scanned
<1>3. MantissaDone(d, i, j) /\ first \in {j + 1, j + 2} /\ d[j + 1] = "e"
  BY <1>1 DEF ExponentBegins, After
<1>4. DeadEnd(d, p)
  BY <1>1, <1>2, <1>3, DeadAfterExponent
<1>5. IsExponentPart(d, j, p)
  <2>1. CASE first = j + 1
    BY <1>1, <1>3, <2>1 DEF IsExponentPart
  <2>2. CASE first = j + 2 /\ After(d, j + 1, {"+", "-"})
    <3>1. d[j + 2] \in {"+", "-"}
      BY <2>2 DEF After
    <3> QED
      BY <1>1, <1>3, <2>2, <3>1 DEF IsExponentPart
  <2> QED
    BY <1>1, <2>1, <2>2 DEF ExponentBegins
<1>6. IsNumber(Prefix(d, p))
  <2>1. /\ IsIntegerPart(d, signLength(d), i) /\ IsFractionPart(d, i, j) /\ i <= j
        /\ first < p
    BY <1>1, <1>3 DEF MantissaDone, IntegerDone, AreDigits
  <2>2. j <= p
    BY <1>2, <1>3, <2>1
  <2> QED
    BY <1>2, <1>5, <2>1, <2>2, PrefixIsNumber
<1>7. NumberEnds(d, p)
  BY <1>4, <1>6 DEF NumberEnds
<1> QED
  BY <1>2, <1>7 DEF Scanned

--------------------------------------------------------------------------------
(* The verdicts. *)

\* A verdict on d, reached at p, is the one on the longest text that begins a number.
Judged(d, p, class, offset) ==
  LET end == Longest(d)
      Ends == IsNumber(Prefix(d, end)) /\ ~After(d, end, Digit)
  IN /\ class = IF IsCut(Prefix(d, end)) THEN "BOUND_EXCEEDED"
                ELSE IF ~Ends THEN "INVALID_GRAMMAR"
                ELSE IF end > maxNumberChars THEN "BOUND_EXCEEDED"
                ELSE Verdict(Prefix(d, end))
     /\ offset = IF class = "INVALID_GRAMMAR" THEN end ELSE 0
     /\ class # "BOUND_EXCEEDED" => p = end

\* What holds of the scan in every state: while it runs, what it has taken is the
\* part of a number it stands in; then its verdict is right.
LongestInv ==
  /\ data \in Seq(Character)
  /\ data \in Inputs
  /\ pc # "done" => Scanned(data, pc, pos) /\ ~IsCut(Prefix(data, pos))
  /\ pc = "done" => Judged(data, pos, outcome.class, outcome.offset)

\* The invariant gives the property.
LEMMA JudgedIsLongest ==
  ASSUME LongestInv
  PROVE  TakesLongest
<1> SUFFICES ASSUME pc = "done" PROVE TakesLongest
  BY DEF TakesLongest
<1>1. Judged(data, pos, outcome.class, outcome.offset)
  BY DEF LongestInv
<1>2. \A p, c : Sees(p, c) <=> After(data, p, c)
  BY Zenon DEF Sees, After
<1> QED
  BY <1>1, <1>2 DEF TakesLongest, Judged, Prefix

\* A loop over digits cuts the text at p + 1 exactly when it counts what is there.
LEMMA CutGrows ==
  ASSUME NEW d \in Seq(Character), NEW p \in Nat, p < Len(d), ~IsCut(Prefix(d, p))
  PROVE  IsCut(Prefix(d, p + 1)) <=> p + 1 > maxNumberChars /\ IsCounted(d, p + 1)
<1>0. Len(d) \in Nat /\ p \in 0 .. Len(d) /\ p + 1 \in 0 .. Len(d)
  OBVIOUS
<1>1. /\ Prefix(d, p) \in Seq(Character) /\ Len(Prefix(d, p)) = p
      /\ \A m \in 1 .. p : Prefix(d, p)[m] = d[m]
  BY <1>0, PrefixFacts
<1>2. /\ Prefix(d, p + 1) \in Seq(Character) /\ Len(Prefix(d, p + 1)) = p + 1
      /\ \A m \in 1 .. p + 1 : Prefix(d, p + 1)[m] = d[m]
  BY <1>0, PrefixFacts
<1>3. \A m \in 1 .. p : IsCounted(Prefix(d, p), m) <=> IsCounted(d, m)
  <2> TAKE m \in 1 .. p
  <2>1. signLength(Prefix(d, p)) = signLength(d)
    BY <1>1, EmptySeq DEF signLength
  <2> QED
    BY <1>1, <2>1 DEF IsCounted
<1>4. \A m \in 1 .. p + 1 : IsCounted(Prefix(d, p + 1), m) <=> IsCounted(d, m)
  <2> TAKE m \in 1 .. p + 1
  <2>1. signLength(Prefix(d, p + 1)) = signLength(d)
    BY <1>2, EmptySeq DEF signLength
  <2> QED
    BY <1>2, <2>1 DEF IsCounted
<1>5. \A m \in 1 .. p : ~(m > maxNumberChars /\ IsCounted(d, m))
  BY <1>1, <1>3 DEF IsCut
<1>6. \A m \in 1 .. p + 1 : m \in 1 .. p \/ m = p + 1
  OBVIOUS
<1> QED
  BY <1>2, <1>4, <1>5, <1>6 DEF IsCut

\* A text that is cut stays so when more of it is read.
LEMMA CutStays ==
  ASSUME NEW d \in Seq(Character), NEW end \in 0 .. Len(d), NEW p \in 0 .. end,
         IsCut(Prefix(d, p))
  PROVE  IsCut(Prefix(d, end))
<1>0. Len(d) \in Nat /\ p \in 0 .. Len(d)
  OBVIOUS
<1>1. /\ Prefix(d, p) \in Seq(Character) /\ Len(Prefix(d, p)) = p
      /\ \A m \in 1 .. p : Prefix(d, p)[m] = d[m]
  BY <1>0, PrefixFacts
<1>2. /\ Prefix(d, end) \in Seq(Character) /\ Len(Prefix(d, end)) = end
      /\ \A m \in 1 .. end : Prefix(d, end)[m] = d[m]
  BY PrefixFacts
<1>3. PICK m \in 1 .. p : m > maxNumberChars /\ IsCounted(Prefix(d, p), m)
  BY <1>1 DEF IsCut
<1>4. m \in 1 .. end /\ Prefix(d, end)[m] = Prefix(d, p)[m] /\ Prefix(d, end)[1] = Prefix(d, p)[1]
  BY <1>1, <1>2, <1>3
<1>5. signLength(Prefix(d, end)) = signLength(Prefix(d, p))
  BY <1>1, <1>2, <1>3, <1>4, EmptySeq DEF signLength
<1>6. IsCounted(Prefix(d, end), m)
  BY <1>3, <1>4, <1>5 DEF IsCounted
<1> QED
  BY <1>2, <1>3, <1>4, <1>6 DEF IsCut

\* Nothing is cut before anything is read.
LEMMA NotCutYet == \A d \in Seq(Character) : ~IsCut(Prefix(d, 0))
<1> SUFFICES ASSUME NEW d \in Seq(Character) PROVE ~IsCut(Prefix(d, 0))
  OBVIOUS
<1>1. Len(Prefix(d, 0)) = 0
  BY PrefixFacts
<1> QED
  BY <1>1 DEF IsCut

\* A fault of the grammar is reported where the longest text ends.
LEMMA FaultJudged ==
  ASSUME NEW d \in Seq(Character), NEW p, FaultAt(d, p), ~IsCut(Prefix(d, p))
  PROVE  Judged(d, p, "INVALID_GRAMMAR", p)
<1>1. p \in 0 .. Len(d) /\ IsViable(Prefix(d, p)) /\ DeadEnd(d, p)
  BY DEF FaultAt
<1>2. Longest(d) = p
  BY <1>1, NothingBeyond, LongestIs
<1> QED
  BY <1>2 DEF Judged, FaultAt

\* A digit over the limit, in whatever text.
LEMMA CutJudged ==
  ASSUME NEW d \in Seq(Character), NEW p \in 0 .. Len(d), IsViable(Prefix(d, p)),
         IsCut(Prefix(d, p))
  PROVE  Judged(d, p, "BOUND_EXCEEDED", 0)
<1>1. Longest(d) \in 0 .. Len(d) /\ Longest(d) >= p
  BY LongestAtLeast
<1>2. IsCut(Prefix(d, Longest(d)))
  <2>1. Len(d) \in Nat /\ p \in 0 .. Longest(d)
    BY <1>1
  <2> QED
    BY <1>1, <2>1, CutStays
<1> QED
  BY <1>2 DEF Judged

\* The two ways of telling that the digits before the exponent are zeros agree.
LEMMA ZeroSeen ==
  ASSUME NEW raw
  PROVE  tokenRepresentsZero(raw) <=> IsZero(raw)
  BY DEF tokenRepresentsZero, mantissa, IsZero

\* The verdict on the value is what the token and its float say.
LEMMA ValueVerdict ==
  ASSUME NEW d \in Inputs, NEW p \in 1 .. Len(d), IsNumber(Prefix(d, p))
  PROVE  buildNumberValue(Prefix(d, p)) = Verdict(Prefix(d, p))
<1> DEFINE raw == Prefix(d, p)
<1>1. IsZero(raw) => Finite(raw)
  BY ParseFloatAssumption DEF Prefix
<1> HIDE DEF raw
<1>2. buildNumberValue(raw) = Verdict(raw)
  BY <1>1, ZeroSeen DEF buildNumberValue, Verdict
<1> QED
  BY <1>2 DEF raw

\* So the verdict on a number that has ended is right.
LEMMA ValueJudged ==
  ASSUME NEW d \in Inputs, NEW p, Scanned(d, "value", p), ~IsCut(Prefix(d, p)),
         NEW class,
         class = IF p > maxNumberChars THEN "BOUND_EXCEEDED"
                 ELSE buildNumberValue(SubSeq(d, 1, p))
  PROVE  Judged(d, p, class, 0)
<1>1. d \in Seq(Character) /\ p \in 0 .. Len(d) /\ NumberEnds(d, p)
  BY NumberAssumption DEF Scanned
<1>2. IsViable(Prefix(d, p)) /\ Longest(d) = p
  BY <1>1, NothingBeyond, LongestIs DEF NumberEnds, IsViable
<1>3. CASE p > maxNumberChars
  BY <1>1, <1>2, <1>3 DEF Judged, NumberEnds
<1>4. CASE ~(p > maxNumberChars)
  <2>1. p \in Nat /\ maxNumberChars \in Nat
    BY <1>1, NumberAssumption
  <2>2. p \in 1 .. Len(d)
    <3> SUFFICES ASSUME p = 0 PROVE FALSE
      BY <1>1
    <3>1. Len(Prefix(d, p)) = 0
      BY <1>1, PrefixFacts
    <3>2. PICK i \in 0 .. 0 : IsIntegerPart(Prefix(d, p), signLength(Prefix(d, p)), i)
      BY <1>1, <3>1, NumberSplits DEF NumberEnds
    <3>3. signLength(Prefix(d, p)) < 0
      BY <3>2 DEF IsIntegerPart, AreDigits
    <3> QED
      BY <3>3 DEF signLength
  <2>3. class = Verdict(Prefix(d, p))
    BY <1>1, <1>4, <2>2, ValueVerdict DEF NumberEnds, Prefix
  <2>4. class \notin {"INVALID_GRAMMAR", "BOUND_EXCEEDED"}
    BY <1>4 DEF buildNumberValue
  <2>5. p <= maxNumberChars
    BY <1>4, <2>1
  <2> QED
    BY <1>1, <1>2, <2>3, <2>4, <2>5 DEF Judged, NumberEnds
<1> QED
  BY <1>3, <1>4

--------------------------------------------------------------------------------
(* The steps of the scan. *)

\* A step that goes on keeps the invariant when the next part begins as it should.
LEMMA GoOn ==
  ASSUME LongestInv, NEW next, NEW p, Go(next, p), next # "done", Scanned(data, next, p),
         ~IsCut(Prefix(data, p))
  PROVE  LongestInv'
  BY DEF LongestInv, Go

\* One that concludes, when its verdict is right.
LEMMA Judge ==
  ASSUME LongestInv, NEW class, NEW offset, NEW p, Conclude(class, offset, p),
         Judged(data, p, class, offset)
  PROVE  LongestInv'
  BY DEF LongestInv, Conclude

\* One that faults, when there is a fault there.
LEMMA Fault ==
  ASSUME LongestInv, NEW p, Expected(p), FaultAt(data, p), ~IsCut(Prefix(data, p))
  PROVE  LongestInv'
<1>1. Judged(data, p, "INVALID_GRAMMAR", p)
  BY FaultJudged DEF LongestInv
<1> QED
  BY <1>1, Judge DEF Expected

\* What the scan sees is the character after its place.
LEMMA SeesAfter == \A p, c : Sees(p, c) <=> After(data, p, c)
  BY Zenon DEF Sees, After

\* A character that is no digit cuts nothing.
LEMMA PastMark ==
  ASSUME LongestInv, pc # "done", NEW c, After(data, pos, c), c \cap Digit = {}
  PROVE  pos \in Nat /\ pos < Len(data) /\ ~IsCut(Prefix(data, pos + 1))
<1>1. data \in Seq(Character) /\ pos \in Nat /\ pos < Len(data)
  BY Places DEF LongestInv, Scanned
<1>2. ~IsCounted(data, pos + 1)
  BY DEF After, IsCounted, isDigit
<1> QED
  BY <1>1, <1>2, CutGrows DEF LongestInv

\* Nor does the zero of an integer part.
LEMMA PastZero ==
  ASSUME LongestInv, pc = "integer", After(data, pos, {"0"})
  PROVE  ~IsCut(Prefix(data, pos + 1))
<1>1. data \in Seq(Character) /\ pos \in Nat /\ pos < Len(data) /\ pos = signLength(data)
  BY Places DEF LongestInv, Scanned
<1>2. ~IsCounted(data, pos + 1)
  BY <1>1 DEF After, IsCounted
<1> QED
  BY <1>1, <1>2, CutGrows DEF LongestInv

\* Every digit of a loop is counted.
LEMMA LoopCounts ==
  ASSUME NEW d \in Seq(Character), NEW p \in Nat,
         NEW part \in {"integerDigits", "fractionDigits", "exponentDigits"},
         Scanned(d, part, p), After(d, p, Digit)
  PROVE  IsCounted(d, p + 1)
<1>1. d[p + 1] \in Digit /\ signLength(d) \in Nat
  BY Places DEF After
<1>2. ASSUME p = signLength(d) PROVE d[p + 1] # "0"
  <2>1. CASE part = "integerDigits"
    BY <1>2, <2>1 DEF Scanned, After, NonzeroDigit
  <2>2. CASE part = "fractionDigits"
    <3>1. PICK i \in Nat : IntegerDone(d, i) /\ i < p
      BY <2>2 DEF Scanned
    <3>2. signLength(d) < i
      BY <3>1, <1>1 DEF IntegerDone, IsIntegerPart, AreDigits
    <3> QED
      BY <1>1, <1>2, <3>1, <3>2
  <2>3. CASE part = "exponentDigits"
    <3>1. PICK i \in Nat, j \in Nat, first \in Nat :
            /\ ExponentBegins(d, i, j, first)
            /\ p = first \/ AreDigits(d, first, p)
      BY <2>3 DEF Scanned
    <3>2. signLength(d) < i /\ i <= j /\ j < first /\ first <= p
      BY <1>1, <3>1 DEF ExponentBegins, MantissaDone, IntegerDone, IsIntegerPart,
         IsFractionPart, AreDigits
    <3> QED
      BY <1>1, <1>2, <3>1, <3>2
  <2> QED
    BY <2>1, <2>2, <2>3
<1> QED
  BY <1>1, <1>2 DEF IsCounted, isDigit

\* One lemma for each action.
LEMMA LongestSign ==
  ASSUME LongestInv, Sign
  PROVE  LongestInv'
<1> DEFINE p == IF Sees(0, {"-"}) THEN 1 ELSE 0
<1>1. Go("integer", p)
  BY DEF Sign
<1>2. data \in Seq(Character) /\ Len(data) \in Nat
  BY DEF LongestInv
<1>3. p = signLength(data)
  BY <1>2, EmptySeq DEF Sees, signLength
<1>4. Scanned(data, "integer", p)
  BY <1>2, <1>3, Places DEF Scanned
<1>5. ~IsCut(Prefix(data, p))
  <2>1. ~IsCut(Prefix(data, 0))
    BY <1>2, NotCutYet
  <2>2. CASE Sees(0, {"-"})
    <3>1. 0 < Len(data) /\ ~IsCounted(data, 0 + 1)
      BY <2>2 DEF Sees, IsCounted, isDigit, Digit, NonzeroDigit
    <3>2. ~IsCut(Prefix(data, 0 + 1))
      BY <1>2, <2>1, <3>1, CutGrows
    <3> QED
      BY <2>2, <3>2
  <2>3. CASE ~Sees(0, {"-"})
    BY <2>1, <2>3
  <2> QED
    BY <2>2, <2>3
<1> QED
  BY <1>1, <1>4, <1>5, GoOn

LEMMA LongestInteger ==
  ASSUME LongestInv, IntegerPart
  PROVE  LongestInv'
<1>1. /\ data \in Seq(Character) /\ Scanned(data, "integer", pos)
      /\ pc = "integer" /\ ~IsCut(Prefix(data, pos))
  BY DEF LongestInv, IntegerPart
<1>2. CASE Sees(pos, NonzeroDigit) /\ Go("integerDigits", pos)
  BY <1>1, <1>2, SeesAfter, LeadingDigit, GoOn
<1>3. CASE Sees(pos, {"0"}) /\ Sees(pos + 1, Digit) /\ Expected(pos + 1)
  BY <1>1, <1>3, SeesAfter, DigitAfterZero, PastZero, Fault
<1>4. CASE Sees(pos, {"0"}) /\ ~Sees(pos + 1, Digit) /\ Go("fraction", pos + 1)
  BY <1>1, <1>4, SeesAfter, ZeroAlone, PastZero, GoOn
<1>5. CASE ~Sees(pos, Digit) /\ Expected(pos)
  BY <1>1, <1>5, SeesAfter, NoInteger, Fault
<1> QED
  BY <1>2, <1>3, <1>4, <1>5 DEF IntegerPart

LEMMA LongestFraction ==
  ASSUME LongestInv, FractionPart
  PROVE  LongestInv'
<1>1. /\ data \in Seq(Character) /\ Scanned(data, "fraction", pos)
      /\ pc # "done" /\ ~IsCut(Prefix(data, pos))
  BY DEF LongestInv, FractionPart
<1> DEFINE Point == {"."}
<1>0. After(data, pos, Point) => ~IsCut(Prefix(data, pos + 1))
  BY <1>1, PastMark DEF Digit, NonzeroDigit
<1>2. CASE ~Sees(pos, {"."}) /\ Go("exponent", pos)
  BY <1>1, <1>2, SeesAfter, NoFraction, GoOn
<1>3. CASE Sees(pos, {"."}) /\ Sees(pos + 1, Digit) /\ Go("fractionDigits", pos + 1)
  BY <1>0, <1>1, <1>3, SeesAfter, PointAndDigit, GoOn
<1>4. CASE Sees(pos, {"."}) /\ ~Sees(pos + 1, Digit) /\ Expected(pos + 1)
  BY <1>0, <1>1, <1>4, SeesAfter, PointAlone, Fault
<1> QED
  BY <1>2, <1>3, <1>4 DEF FractionPart

LEMMA LongestExponent ==
  ASSUME LongestInv, ExponentPart
  PROVE  LongestInv'
<1>1. /\ data \in Seq(Character) /\ Scanned(data, "exponent", pos) /\ pos \in Nat
      /\ pc # "done" /\ ~IsCut(Prefix(data, pos))
  BY DEF LongestInv, ExponentPart, Scanned
<1>2. CASE ~Sees(pos, {"e"}) /\ Go("value", pos)
  BY <1>1, <1>2, SeesAfter, NoExponent, GoOn
<1>3. CASE Sees(pos, {"e"})
  <2> DEFINE first == afterSign(pos + 1)
  <2>1. first = IF After(data, pos + 1, {"+", "-"}) THEN pos + 2 ELSE pos + 1
    BY <1>1, SeesAfter DEF afterSign
  <2>2. \/ Sees(first, Digit) /\ Go("exponentDigits", first)
        \/ ~Sees(first, Digit) /\ Expected(first)
    BY <1>3 DEF ExponentPart
  <2> HIDE DEF first
  <2>5. ~IsCut(Prefix(data, first))
    <3>1. After(data, pos, {"e"}) /\ {"e"} \cap Digit = {}
      BY <1>3, SeesAfter DEF Digit, NonzeroDigit
    <3>2. pos < Len(data) /\ ~IsCut(Prefix(data, pos + 1))
      BY <1>1, <3>1, PastMark
    <3>3. ASSUME After(data, pos + 1, {"+", "-"})
          PROVE  ~IsCut(Prefix(data, (pos + 1) + 1))
      <4>1. pos + 1 < Len(data) /\ ~IsCounted(data, (pos + 1) + 1)
        BY <1>1, <3>3 DEF After, IsCounted, isDigit, Digit, NonzeroDigit
      <4> QED
        BY <1>1, <3>2, <4>1, CutGrows
    <3>4. (pos + 1) + 1 = pos + 2
      BY <1>1
    <3> QED
      BY <2>1, <3>2, <3>3, <3>4
  <2>3. CASE Sees(first, Digit) /\ Go("exponentDigits", first)
    BY <1>1, <1>3, <2>1, <2>3, <2>5, SeesAfter, MarkAndDigit, GoOn
  <2>4. CASE ~Sees(first, Digit) /\ Expected(first)
    BY <1>1, <1>3, <2>1, <2>4, <2>5, SeesAfter, MarkAlone, Fault
  <2> QED
    BY <2>2, <2>3, <2>4
<1> QED
  BY <1>2, <1>3 DEF ExponentPart

LEMMA LongestDigit ==
  ASSUME LongestInv, ScanDigit
  PROVE  LongestInv'
<1>1. /\ data \in Seq(Character) /\ After(data, pos, Digit)
      /\ pc \in {"integerDigits", "fractionDigits", "exponentDigits"} /\ Scanned(data, pc, pos)
  BY SeesAfter DEF LongestInv, ScanDigit, AfterDigits
<1>2. Scanned(data, pc, pos + 1) /\ IsNumber(Prefix(data, pos + 1))
  BY <1>1, DigitScanned
<1>3. pos + 1 \in 0 .. Len(data) /\ pos \in Nat /\ pos < Len(data)
  BY <1>1, <1>2 DEF Scanned, After
<1>6. IsCut(Prefix(data, pos + 1)) <=> pos + 1 > maxNumberChars
  BY <1>1, <1>3, LoopCounts, CutGrows DEF LongestInv
<1>4. CASE pos + 1 > maxNumberChars
  <2>1. Judged(data, pos + 1, "BOUND_EXCEEDED", 0)
    BY <1>1, <1>2, <1>3, <1>4, <1>6, CutJudged DEF IsViable
  <2> QED
    BY <1>4, <2>1, Judge DEF ScanDigit
<1>5. CASE ~(pos + 1 > maxNumberChars)
  <2>1. Go(pc, pos + 1) /\ pc # "done"
    BY <1>1, <1>5 DEF ScanDigit
  <2> QED
    BY <1>2, <1>5, <1>6, <2>1, GoOn
<1> QED
  BY <1>4, <1>5

LEMMA LongestDigits ==
  ASSUME LongestInv, EndDigits
  PROVE  LongestInv'
<1>1. /\ data \in Seq(Character) /\ ~After(data, pos, Digit)
      /\ pc \in {"integerDigits", "fractionDigits", "exponentDigits"} /\ Scanned(data, pc, pos)
      /\ Go(AfterDigits[pc], pos) /\ ~IsCut(Prefix(data, pos))
  BY SeesAfter DEF LongestInv, EndDigits, AfterDigits
<1>2. CASE pc = "integerDigits"
  <2>1. Go("fraction", pos) /\ Scanned(data, "fraction", pos)
    BY <1>1, <1>2, IntegerScanned DEF AfterDigits
  <2> QED
    BY <1>1, <2>1, GoOn
<1>3. CASE pc = "fractionDigits"
  <2>1. Go("exponent", pos) /\ Scanned(data, "exponent", pos)
    BY <1>1, <1>3, FractionScanned DEF AfterDigits
  <2> QED
    BY <1>1, <2>1, GoOn
<1>4. CASE pc = "exponentDigits"
  <2>1. Go("value", pos) /\ Scanned(data, "value", pos)
    BY <1>1, <1>4, ExponentScanned DEF AfterDigits
  <2> QED
    BY <1>1, <2>1, GoOn
<1> QED
  BY <1>1, <1>2, <1>3, <1>4

LEMMA LongestValue ==
  ASSUME LongestInv, Value
  PROVE  LongestInv'
<1> DEFINE class == IF pos > maxNumberChars THEN "BOUND_EXCEEDED"
                    ELSE buildNumberValue(SubSeq(data, 1, pos))
<1>1. /\ data \in Inputs /\ Scanned(data, "value", pos) /\ Conclude(class, 0, pos)
      /\ ~IsCut(Prefix(data, pos))
  BY DEF LongestInv, Value
<1>2. class = IF pos > maxNumberChars THEN "BOUND_EXCEEDED"
              ELSE buildNumberValue(SubSeq(data, 1, pos))
  OBVIOUS
<1> HIDE DEF class
<1>3. Judged(data, pos, class, 0)
  BY <1>1, <1>2, ValueJudged
<1> QED
  BY <1>1, <1>3, Judge

\* The strengthened invariant holds in every state.
LEMMA LongestInvariance == Spec => []LongestInv
<1>1. Init => LongestInv
  BY NumberAssumption, NotCutYet DEF Init, LongestInv, Scanned
<1>2. LongestInv /\ [Next]_vars => LongestInv'
  <2> SUFFICES ASSUME LongestInv, [Next]_vars PROVE LongestInv'
    OBVIOUS
  <2>1. CASE Stop \/ UNCHANGED vars
    BY <2>1 DEF Stop, vars, LongestInv
  <2> QED
    BY <2>1, LongestSign, LongestInteger, LongestFraction, LongestExponent, LongestDigit,
       LongestDigits, LongestValue DEF Next
<1> QED
  BY <1>1, <1>2, PTL DEF Spec

\* parseNumber takes the longest text that begins a number of RFC 8259, whatever
\* the input and the limit, and judges it by its grammar, its length and its
\* value; a fault of the grammar is reported where that text ends.
THEOREM LongestTaken == Spec => []TakesLongest
<1>1. LongestInv => TakesLongest
  BY JudgedIsLongest
<1> QED
  BY <1>1, LongestInvariance, PTL

--------------------------------------------------------------------------------
(* Formatting: arithmetic. *)

\* A quotient and its remainder.
LEMMA Quotient ==
  ASSUME NEW a \in Nat, NEW d \in Nat \ {0}
  PROVE  /\ a \div d \in Nat
         /\ a % d \in 0 .. d - 1
         /\ a = d * (a \div d) + (a % d)
         /\ d * (a \div d) <= a
  OBVIOUS

\* A product grows with its factors.
LEMMA ProductGrows ==
  ASSUME NEW d \in Nat, NEW a \in Nat, NEW b \in Nat, a <= b
  PROVE  d * a <= d * b
  OBVIOUS

\* A quotient is the greatest multiple.
LEMMA QuotientGreatest ==
  ASSUME NEW b \in Nat, NEW d \in Nat \ {0}, NEW k \in Nat, d * k <= b
  PROVE  k <= b \div d
<1> DEFINE quotient == b \div d
<1>1. quotient \in Nat /\ b < d * quotient + d
  BY Quotient
<1> HIDE DEF quotient
<1>2. ASSUME quotient < k PROVE FALSE
  <2>1. d * (quotient + 1) <= d * k
    BY <1>1, <1>2, ProductGrows
  <2>2. d * (quotient + 1) = d * quotient + d
    BY <1>1
  <2> QED
    BY <1>1, <2>1, <2>2
<1> QED
  BY <1>1, <1>2 DEF quotient

\* Numbers k divisors apart have quotients k apart.
LEMMA QuotientsApart ==
  ASSUME NEW a \in Nat, NEW b \in Nat, NEW d \in Nat \ {0}, NEW k \in Nat, a + d * k <= b
  PROVE  a \div d + k <= b \div d
<1> DEFINE quotient == a \div d
<1>1. quotient \in Nat /\ d * quotient <= a
  BY Quotient
<1> HIDE DEF quotient
<1>2. d * (quotient + k) = d * quotient + d * k
  BY <1>1
<1>3. d * (quotient + k) <= b
  BY <1>1, <1>2
<1>4. quotient + k \in Nat
  BY <1>1
<1> QED
  BY <1>3, <1>4, QuotientGreatest DEF quotient

--------------------------------------------------------------------------------
(* Words *)

\* The powers of two the scaling is made of.
LEMMA Widths ==
  /\ MantBits \in Nat \ {0} /\ ExpBits \in Nat \ {0, 1}
  /\ WordBits \in Nat /\ Spare \in Nat /\ WordBits = MantBits + 3 + Spare
  /\ Spare >= 2 /\ MantBits + ExpBits <= WordBits
  BY WidthAssumption DEF Spare

LEMMA Powers ==
  /\ \A j \in 0 .. WordBits : 2 ^ j \in Nat \ {0}
  /\ 2 ^ (MantBits + 1) = 2 * 2 ^ MantBits
  /\ 2 ^ (MantBits + 3) >= 8 * 2 ^ MantBits
  /\ 2 ^ WordBits = 2 ^ (MantBits + 3) * 2 ^ Spare
  /\ 2 ^ WordBits = 2 ^ (WordBits - Spare) * 2 ^ Spare
  /\ 2 ^ (WordBits - 1) = 2 ^ (WordBits - Spare) * 2 ^ (Spare - 1)
  /\ 2 ^ (MantBits + ExpBits) = 2 ^ MantBits * 2 ^ ExpBits
  /\ \A x \in 1 .. Spare - 1 : 2 ^ (Spare - 1) = 2 ^ x * 2 ^ (Spare - 1 - x)
<1>1. \A j \in 0 .. WordBits : 2 ^ j \in Nat \ {0}
  BY PowerAssumption
<1>2. 2 ^ 1 = 2
  BY PowerAssumption
<1>3. \A j, k \in 0 .. WordBits : j + k <= WordBits => 2 ^ (j + k) = 2 ^ j * 2 ^ k
  BY PowerAssumption
<1>4. 2 ^ (MantBits + 1) = 2 ^ MantBits * 2 ^ 1
  <2>1. MantBits \in 0 .. WordBits /\ 1 \in 0 .. WordBits /\ MantBits + 1 <= WordBits
    BY Widths
  <2> QED
    BY <1>3, <2>1
<1>5. 2 ^ (MantBits + 2) = 2 ^ (MantBits + 1) * 2 ^ 1
  <2>1. MantBits + 1 \in 0 .. WordBits /\ 1 \in 0 .. WordBits /\ (MantBits + 1) + 1 <= WordBits
    BY Widths
  <2>2. (MantBits + 1) + 1 = MantBits + 2
    BY Widths
  <2> QED
    BY <1>3, <2>1, <2>2
<1>6. 2 ^ (MantBits + 3) = 2 ^ (MantBits + 2) * 2 ^ 1
  <2>1. MantBits + 2 \in 0 .. WordBits /\ 1 \in 0 .. WordBits /\ (MantBits + 2) + 1 <= WordBits
    BY Widths
  <2>2. (MantBits + 2) + 1 = MantBits + 3
    BY Widths
  <2> QED
    BY <1>3, <2>1, <2>2
<1>7. /\ 2 ^ WordBits = 2 ^ (MantBits + 3) * 2 ^ Spare
      /\ 2 ^ WordBits = 2 ^ (WordBits - Spare) * 2 ^ Spare
  <2>1. /\ MantBits + 3 \in 0 .. WordBits /\ Spare \in 0 .. WordBits
        /\ (MantBits + 3) + Spare = WordBits /\ WordBits - Spare = MantBits + 3
    BY Widths
  <2> QED
    BY <1>3, <2>1
<1>8. 2 ^ (WordBits - 1) = 2 ^ (WordBits - Spare) * 2 ^ (Spare - 1)
  <2>1. /\ WordBits - Spare \in 0 .. WordBits /\ Spare - 1 \in 0 .. WordBits
        /\ (WordBits - Spare) + (Spare - 1) = WordBits - 1 /\ WordBits - 1 <= WordBits
    BY Widths
  <2> QED
    BY <1>3, <2>1
<1>9. 2 ^ (MantBits + ExpBits) = 2 ^ MantBits * 2 ^ ExpBits
  <2>1. MantBits \in 0 .. WordBits /\ ExpBits \in 0 .. WordBits
    BY Widths
  <2> QED
    BY <1>3, <2>1, Widths
<1>10. ASSUME NEW x \in 1 .. Spare - 1 PROVE 2 ^ (Spare - 1) = 2 ^ x * 2 ^ (Spare - 1 - x)
  <2>1. /\ x \in 0 .. WordBits /\ Spare - 1 - x \in 0 .. WordBits
        /\ x + (Spare - 1 - x) = Spare - 1 /\ Spare - 1 <= WordBits
    BY Widths
  <2> QED
    BY <1>3, <2>1
<1>11. 2 ^ MantBits \in Nat
  BY <1>1, Widths
<1> QED
  BY <1>1, <1>2, <1>4, <1>5, <1>6, <1>7, <1>8, <1>9, <1>10, <1>11

LEMMA PowerWords ==
  ASSUME NEW n \in DOMAIN pow10Table
  PROVE  /\ Power(n).low \in 0 .. 2 ^ WordBits - 1
         /\ Power(n).high \in 2 ^ (WordBits - 1) .. 2 ^ WordBits - 1
<1>1. /\ pow10Table[n][1] \in 0 .. 2 ^ WordBits - 1
      /\ pow10Table[n][2] \in 2 ^ (WordBits - 1) .. 2 ^ WordBits - 1
  BY TableAssumption
<1>2. 2 ^ WordBits \in Nat \ {0}
  BY Powers, Widths
<1>3. (pow10Table[n][1] + 1) % 2 ^ WordBits \in 0 .. 2 ^ WordBits - 1
  <2>1. pow10Table[n][1] + 1 \in Nat
    BY <1>1, <1>2
  <2> QED
    BY <1>2, <2>1, Quotient
<1> QED
  BY <1>1, <1>3 DEF Power

\* The product of a bound keeps within its words.
LEMMA UpperRange ==
  ASSUME NEW n \in DOMAIN pow10Table, NEW m \in Nat, m < 2 ^ (WordBits - Spare)
  PROVE  Upper(m, n) \in Nat /\ Upper(m, n) < 2 ^ (WordBits - Spare) * 2 ^ WordBits
<1> DEFINE word == 2 ^ WordBits
           divisor == 2 ^ (WordBits - Spare)
           high == Power(n).high
           low == Power(n).low
           carry == (m * low) \div word
<1>1. word \in Nat \ {0} /\ divisor \in Nat
  BY Powers, Widths
<1>2. high \in Nat /\ high <= word - 1 /\ low \in Nat /\ low <= word
  BY PowerWords, Powers, Widths
<1>3. Upper(m, n) = m * high + carry
  BY DEF Upper
<1>4. m < divisor
  OBVIOUS
<1> HIDE DEF word, divisor, high, low
<1>5. m * low \in Nat
  BY <1>2
<1>6. carry \in Nat /\ word * carry <= m * low
  BY <1>1, <1>5, Quotient
<1> HIDE DEF carry
<1>7. carry <= m
  <2>1. ASSUME m < carry PROVE FALSE
    <3>1. word * (m + 1) <= word * carry
      BY <1>1, <1>6, <2>1, ProductGrows
    <3>2. m * low <= m * word
      BY <1>1, <1>2, ProductGrows
    <3>3. word * (m + 1) = m * word + word
      BY <1>1
    <3> QED
      BY <1>1, <1>2, <1>5, <1>6, <3>1, <3>2, <3>3
  <2> QED
    BY <1>6, <2>1
<1>8. m * high <= m * (word - 1)
  BY <1>1, <1>2, ProductGrows
<1>9. m * (word - 1) = m * word - m
  BY <1>1
<1>10. m * high \in Nat /\ m * word \in Nat
  BY <1>1, <1>2
<1>11. m * high + carry <= m * word
  BY <1>6, <1>7, <1>8, <1>9, <1>10
<1>12. word * (m + 1) <= word * divisor /\ word * (m + 1) = m * word + word
  BY <1>1, <1>4, ProductGrows
<1>13. word * divisor = divisor * word
  BY <1>1
<1>14. m * high + carry < divisor * word
  BY <1>1, <1>6, <1>10, <1>11, <1>12, <1>13
<1> QED
  BY <1>3, <1>6, <1>10, <1>14 DEF word, divisor

\* A greater bound has a product greater by half a word at least.
LEMMA UpperApart ==
  ASSUME NEW n \in DOMAIN pow10Table, NEW a \in Nat, NEW b \in Nat, a < b
  PROVE  Upper(a, n) + 2 ^ (WordBits - 1) <= Upper(b, n)
<1> DEFINE word == 2 ^ WordBits
           half == 2 ^ (WordBits - 1)
           high == Power(n).high
           low == Power(n).low
<1>1. word \in Nat \ {0} /\ half \in Nat
  BY Powers, Widths
<1>2. high \in Nat /\ half <= high /\ low \in Nat
  BY PowerWords, Powers, Widths
<1>3. /\ Upper(a, n) = a * high + (a * low) \div word
      /\ Upper(b, n) = b * high + (b * low) \div word
  BY DEF Upper
<1> HIDE DEF word, half, high, low
<1>4. a * low \in Nat /\ b * low \in Nat /\ word * 0 = 0
  BY <1>1, <1>2
<1>5. low * a <= low * b /\ low * a = a * low /\ low * b = b * low
  BY <1>2, ProductGrows
<1>6. (a * low) \div word + 0 <= (b * low) \div word
  BY <1>1, <1>4, <1>5, QuotientsApart
<1>7. (a * low) \div word \in Nat /\ (b * low) \div word \in Nat
  BY <1>1, <1>4, Quotient
<1>8. high * (a + 1) <= high * b /\ high * (a + 1) = a * high + high /\ high * b = b * high
  BY <1>2, ProductGrows
<1>9. a * high \in Nat /\ b * high \in Nat
  BY <1>2
<1> QED
  BY <1>1, <1>2, <1>3, <1>6, <1>7, <1>8, <1>9 DEF half

\* So the scaled bounds are apart by half of what is left of the fraction.
LEMMA ScaledApart ==
  ASSUME NEW n \in DOMAIN pow10Table \cup {0}, NEW a \in Nat, NEW b \in Nat,
         a < b, b < 2 ^ (MantBits + 3)
  PROVE  /\ mult128bitPow10(a, n).value \in Nat
         /\ mult128bitPow10(b, n).value \in Nat
         /\ mult128bitPow10(a, n).value + 2 ^ (Spare - 1) <= mult128bitPow10(b, n).value
<1> DEFINE unit == 2 ^ (Spare - 1)
           divisor == 2 ^ (WordBits - Spare)
           word == 2 ^ WordBits
<1>1. /\ unit \in Nat /\ divisor \in Nat \ {0} /\ word \in Nat \ {0}
      /\ 2 ^ (WordBits - 1) = divisor * unit
      /\ MantBits + 3 = WordBits - Spare
  <2>1. Spare - 1 \in 0 .. WordBits /\ WordBits - Spare \in 0 .. WordBits /\ WordBits \in 0 .. WordBits
    BY Widths
  <2> QED
    BY <2>1, Powers, Widths
<1>2. CASE n = 0
  <2>1. /\ mult128bitPow10(a, n).value = a * unit
        /\ mult128bitPow10(b, n).value = b * unit
    BY <1>2 DEF mult128bitPow10
  <2> HIDE DEF unit
  <2>2. unit * (a + 1) <= unit * b /\ unit * (a + 1) = a * unit + unit /\ unit * b = b * unit
    BY <1>1, ProductGrows
  <2>3. a * unit \in Nat /\ b * unit \in Nat
    BY <1>1
  <2> QED
    BY <2>1, <2>2, <2>3 DEF unit
<1>3. CASE n # 0
  <2>1. n \in DOMAIN pow10Table /\ a < divisor /\ b < divisor
    BY <1>1, <1>3
  <2>2. /\ Upper(a, n) \in Nat /\ Upper(a, n) < divisor * word
        /\ Upper(b, n) \in Nat /\ Upper(b, n) < divisor * word
    BY <2>1, UpperRange
  <2>3. Upper(a, n) + divisor * unit <= Upper(b, n)
    BY <1>1, <2>1, UpperApart
  <2>4. \A u \in Nat : u < divisor * word => u \div divisor \in Nat /\ (u \div divisor) % word = u \div divisor
    <3> SUFFICES ASSUME NEW u \in Nat, u < divisor * word
                 PROVE  u \div divisor \in Nat /\ (u \div divisor) % word = u \div divisor
      OBVIOUS
    <3> DEFINE quotient == u \div divisor
    <3> HIDE DEF divisor, word
    <3>1. quotient \in Nat /\ divisor * quotient <= u
      BY <1>1, Quotient
    <3> HIDE DEF quotient
    <3>2. ASSUME word <= quotient PROVE FALSE
      <4>1. divisor * word <= divisor * quotient
        BY <1>1, <3>1, <3>2, ProductGrows
      <4> QED
        BY <1>1, <3>1, <4>1
    <3>3. quotient < word
      BY <1>1, <3>1, <3>2
    <3>4. quotient % word = quotient
      BY <1>1, <3>1, <3>3
    <3> QED
      BY <3>1, <3>4 DEF quotient
  <2>5. /\ mult128bitPow10(a, n).value = Upper(a, n) \div divisor
        /\ mult128bitPow10(b, n).value = Upper(b, n) \div divisor
    BY <1>3, <2>1, <2>2, <2>4 DEF mult128bitPow10
  <2>6. Upper(a, n) \div divisor + unit <= Upper(b, n) \div divisor
    BY <1>1, <2>2, <2>3, QuotientsApart
  <2> QED
    BY <2>2, <2>4, <2>5, <2>6
<1> QED
  BY <1>2, <1>3

--------------------------------------------------------------------------------
(* The interval *)

Positive == float \in Floats /\ float.bits # 0 /\ rawExp # 2 ^ ExpBits - 1

\* The mantissa of a positive finite float has a bit set, and one more than are stored.
LEMMA MantissaRange ==
  ASSUME Positive
  PROVE  /\ mant \in Nat /\ 1 <= mant /\ mant < 2 * 2 ^ MantBits
         /\ bias \in Int
         /\ exp \in 1 - bias - MantBits .. 2 ^ ExpBits - 2 - bias - MantBits
<1> DEFINE fraction == 2 ^ MantBits
           exponents == 2 ^ ExpBits
<1>1. /\ MantBits \in 0 .. WordBits /\ ExpBits \in 0 .. WordBits
      /\ ExpBits - 1 \in 0 .. WordBits /\ MantBits \in Nat
  BY Widths
<1>2. fraction \in Nat \ {0} /\ exponents \in Nat \ {0} /\ 2 ^ (ExpBits - 1) \in Nat \ {0}
  BY <1>1, Powers
<1>3. bias \in Int
  BY <1>2 DEF bias
<1>4. float.bits \in Nat /\ float.bits <= 2 ^ (MantBits + ExpBits) - 1 /\ float.bits # 0
  <2>1. 2 ^ (MantBits + ExpBits) = fraction * exponents
    BY Powers
  <2>2. fraction * exponents \in Nat
    BY <1>2
  <2> HIDE DEF fraction, exponents
  <2> QED
    BY <2>1, <2>2 DEF Positive, Floats
<1>5. 2 ^ (MantBits + ExpBits) = fraction * exponents
  BY Powers
<1>6. /\ rawExp = float.bits \div fraction /\ rawMant = float.bits % fraction
      /\ rawExp # exponents - 1
  BY DEF rawExp, rawMant, Positive
<1>7. mant = IF rawExp = 0 THEN rawMant ELSE fraction + rawMant
  BY DEF mant
<1>8. exp = (IF rawExp = 0 THEN 1 ELSE rawExp) - bias - MantBits
  BY DEF exp
<1> HIDE DEF fraction, exponents
<1>9. /\ rawExp \in Nat /\ rawMant \in 0 .. fraction - 1
      /\ float.bits = fraction * rawExp + rawMant
      /\ fraction * rawExp <= float.bits
  BY <1>2, <1>4, <1>6, Quotient
<1>10. rawExp <= exponents - 2
  <2>1. ASSUME exponents <= rawExp PROVE FALSE
    <3>1. fraction * exponents <= fraction * rawExp
      BY <1>2, <1>9, <2>1, ProductGrows
    <3>2. fraction * exponents \in Nat /\ fraction * rawExp \in Nat
      BY <1>2, <1>9
    <3> QED
      BY <1>4, <1>5, <1>9, <3>1, <3>2
  <2> QED
    BY <1>2, <1>6, <1>9, <2>1
<1>11. mant \in Nat /\ 1 <= mant /\ mant < 2 * fraction
  <2>1. CASE rawExp = 0
    <3>1. fraction * rawExp = 0
      BY <1>2, <2>1
    <3> QED
      BY <1>2, <1>4, <1>7, <1>9, <2>1, <3>1
  <2>2. CASE rawExp # 0
    BY <1>2, <1>7, <1>9, <2>2
  <2> QED
    BY <2>1, <2>2
<1>12. exp \in 1 - bias - MantBits .. exponents - 2 - bias - MantBits
  <2>1. exponents >= 4
    <3>1. /\ 1 \in 0 .. WordBits /\ ExpBits - 2 \in 0 .. WordBits /\ ExpBits - 1 \in 0 .. WordBits
          /\ 1 + (ExpBits - 2) = ExpBits - 1 /\ 1 + (ExpBits - 1) = ExpBits
          /\ ExpBits - 1 <= WordBits /\ ExpBits <= WordBits
      BY Widths
    <3>2. /\ 2 ^ (ExpBits - 1) = 2 ^ 1 * 2 ^ (ExpBits - 2) /\ 2 ^ ExpBits = 2 ^ 1 * 2 ^ (ExpBits - 1)
          /\ 2 ^ 1 = 2 /\ 2 ^ (ExpBits - 2) \in Nat \ {0} /\ 2 ^ (ExpBits - 1) \in Nat \ {0}
      BY <3>1, PowerAssumption
    <3> QED
      BY <3>2 DEF exponents
  <2> QED
    BY <1>1, <1>2, <1>3, <1>8, <1>9, <1>10, <2>1
<1> QED
  BY <1>3, <1>11, <1>12 DEF fraction, exponents

\* The bounds are below and above the float, and within the words.
LEMMA BoundsOrdered ==
  ASSUME Positive
  PROVE  /\ computeBounds.lower \in Nat /\ computeBounds.central \in Nat
         /\ computeBounds.upper \in Nat
         /\ 1 <= computeBounds.lower /\ computeBounds.lower < computeBounds.central
         /\ computeBounds.central < computeBounds.upper
         /\ computeBounds.upper < 2 ^ (MantBits + 3)
         /\ computeBounds.e2 \in BoundExponents
<1> DEFINE fraction == 2 ^ MantBits
           exponents == 2 ^ ExpBits
           word == 2 ^ (MantBits + 3)
<1>1. /\ mant \in Nat /\ 1 <= mant /\ mant < 2 * fraction
      /\ bias \in Int
      /\ exp \in 1 - bias - MantBits .. exponents - 2 - bias - MantBits
  BY MantissaRange
<1>2. /\ fraction \in Nat \ {0} /\ exponents \in Nat \ {0} /\ word \in Nat
      /\ word >= 8 * fraction /\ MantBits \in Nat
  <2>1. MantBits \in 0 .. WordBits /\ ExpBits \in 0 .. WordBits /\ MantBits + 3 \in 0 .. WordBits
    BY Widths
  <2> QED
    BY <2>1, Powers, Widths
<1>3. BoundExponents = -bias - MantBits .. exponents - 3 - bias - MantBits
  BY DEF BoundExponents
<1>4. mant # fraction \/ exp = 1 - bias - MantBits
        => computeBounds = [lower |-> 2 * mant - 1, central |-> 2 * mant,
                            upper |-> 2 * mant + 1, e2 |-> exp - 1]
  BY DEF computeBounds, computeBounds_Symmetric
<1>5. ~(mant # fraction \/ exp = 1 - bias - MantBits)
        => computeBounds = [lower |-> 4 * mant - 1, central |-> 4 * mant,
                            upper |-> 4 * mant + 2, e2 |-> exp - 2]
  BY DEF computeBounds
<1> HIDE DEF fraction, exponents, word
<1>6. CASE mant # fraction \/ exp = 1 - bias - MantBits
  <2>1. /\ computeBounds.lower = 2 * mant - 1 /\ computeBounds.central = 2 * mant
        /\ computeBounds.upper = 2 * mant + 1 /\ computeBounds.e2 = exp - 1
    BY <1>4, <1>6
  <2>2. computeBounds.e2 \in BoundExponents
    BY <1>1, <1>2, <1>3, <2>1
  <2>3. /\ computeBounds.lower \in Nat /\ computeBounds.central \in Nat
        /\ computeBounds.upper \in Nat
        /\ 1 <= computeBounds.lower /\ computeBounds.lower < computeBounds.central
        /\ computeBounds.central < computeBounds.upper /\ computeBounds.upper < word
    BY <1>1, <1>2, <2>1
  <2> QED
    BY <2>2, <2>3, Zenon DEF word
<1>7. CASE ~(mant # fraction \/ exp = 1 - bias - MantBits)
  <2>1. /\ computeBounds.lower = 4 * mant - 1 /\ computeBounds.central = 4 * mant
        /\ computeBounds.upper = 4 * mant + 2 /\ computeBounds.e2 = exp - 2
    BY <1>5, <1>7
  <2>2. computeBounds.e2 \in BoundExponents
    BY <1>1, <1>2, <1>3, <1>7, <2>1
  <2>3. /\ computeBounds.lower \in Nat /\ computeBounds.central \in Nat
        /\ computeBounds.upper \in Nat
        /\ 1 <= computeBounds.lower /\ computeBounds.lower < computeBounds.central
        /\ computeBounds.central < computeBounds.upper /\ computeBounds.upper < word
    BY <1>1, <1>2, <1>7, <2>1
  <2> QED
    BY <2>2, <2>3, Zenon DEF word
<1> QED
  BY <1>6, <1>7

\* What is left of the interval at each step: apart by the units the fraction
\* may take once scaled, and never empty while the digits are trimmed.
Interval ==
  /\ float \in Floats
  /\ step = "decimal" => Positive
  /\ step = "settle" =>
       /\ dl \in Nat /\ dc \in Nat /\ du \in Nat
       /\ extra \in 1 .. Spare - 1
       /\ 2 ^ (Spare - 1) <= dl
       /\ dl + 2 ^ (Spare - 1) <= dc
       /\ dc + 2 ^ (Spare - 1) <= du
  /\ step = "trim" =>
       /\ dl \in Nat /\ dc \in Nat /\ du \in Nat
       /\ 1 <= dl /\ dl <= dc /\ dc <= du

--------------------------------------------------------------------------------
(* One lemma for each action that sets the interval. *)

LEMMA FormatDoubleKeeps ==
  ASSUME Interval, FormatDouble
  PROVE  Interval'
<1>1. float' = float /\ float \in Floats
  BY DEF Interval, FormatDouble, Finish
<1>2. CASE step' = "decimal"
  <2>1. float.bits # 0 /\ ~(IsNaN \/ IsInf)
    BY <1>2 DEF FormatDouble, Finish
  <2>2. rawExp # 2 ^ ExpBits - 1
    BY <2>1 DEF IsNaN, IsInf
  <2>3. Positive'
    BY <1>1, <2>1, <2>2 DEF Positive, rawExp
  <2> QED
    BY <1>1, <1>2, <2>3 DEF Interval
<1>3. CASE step' = "done"
  BY <1>1, <1>3 DEF Interval
<1> QED
  BY <1>2, <1>3 DEF FormatDouble, Finish

LEMMA UnscaledKeeps ==
  ASSUME Interval, Unscaled
  PROVE  Interval'
<1>1. Positive /\ step' = "trim" /\ float' = float /\ float \in Floats
  BY DEF Interval, Unscaled
<1>2. dl' = computeBounds.lower /\ dc' = computeBounds.central /\ du' = computeBounds.upper
  BY DEF Unscaled
<1> QED
  BY <1>1, <1>2, BoundsOrdered DEF Interval

LEMMA ScaleKeeps ==
  ASSUME Interval, Scale
  PROVE  Interval'
<1> DEFINE b == computeBounds
           n == scalingPower(b.e2)
           unit == 2 ^ (Spare - 1)
           Scaled(m) == mult128bitPow10(m, n).value
<1>1. Positive /\ float' = float /\ float \in Floats
  BY DEF Interval, Scale, Deliver
<1>2. /\ b.lower \in Nat /\ b.central \in Nat /\ b.upper \in Nat
      /\ 1 <= b.lower /\ b.lower < b.central /\ b.central < b.upper
      /\ b.upper < 2 ^ (MantBits + 3)
      /\ b.e2 \in BoundExponents
  BY <1>1, BoundsOrdered
<1>3. n \in DOMAIN pow10Table \cup {0} /\ scaledExponent(b.e2, n) \in 1 - Spare .. -1
  BY <1>2, ScaleAssumption
<1>4. ~(scaledExponent(b.e2, n) >= 0)
  BY <1>3, Widths
<1>5. /\ dl' = Scaled(b.lower) /\ dc' = Scaled(b.central) /\ du' = Scaled(b.upper)
      /\ e2' = scaledExponent(b.e2, n) /\ step' = "settle"
  BY <1>4, Zenon DEF Scale, scalingPower
<1>6. extra' \in 1 .. Spare - 1
  BY <1>3, <1>5, Widths DEF extra
<1>7. /\ unit \in Nat
      /\ Scaled(b.lower) \in Nat /\ Scaled(b.central) \in Nat /\ Scaled(b.upper) \in Nat
      /\ unit <= Scaled(b.lower)
      /\ Scaled(b.lower) + unit <= Scaled(b.central)
      /\ Scaled(b.central) + unit <= Scaled(b.upper)
  <2>1. Spare - 1 \in 0 .. WordBits
    BY Widths
  <2>2. unit \in Nat
    BY <2>1, Powers
  <2>3. 2 ^ (MantBits + 3) \in Nat
    BY Powers, Widths
  <2>4. /\ 0 < b.lower /\ b.lower < 2 ^ (MantBits + 3) /\ b.central < 2 ^ (MantBits + 3)
    BY <1>2, <2>3
  <2> HIDE DEF b, n, unit
  <2>5. Scaled(0) \in Nat /\ Scaled(b.lower) \in Nat /\ Scaled(0) + unit <= Scaled(b.lower)
    BY <1>2, <1>3, <2>4, ScaledApart DEF unit
  <2>6. Scaled(b.central) \in Nat /\ Scaled(b.lower) + unit <= Scaled(b.central)
    BY <1>2, <1>3, <2>4, ScaledApart DEF unit
  <2>7. Scaled(b.upper) \in Nat /\ Scaled(b.central) + unit <= Scaled(b.upper)
    BY <1>2, <1>3, <2>4, ScaledApart DEF unit
  <2> QED
    BY <2>2, <2>5, <2>6, <2>7
<1>8. step' # "decimal" /\ step' # "trim"
  BY <1>5
<1> HIDE DEF b, n, Scaled
<1> QED
  BY <1>1, <1>5, <1>6, <1>7, <1>8 DEF Interval

LEMMA SettleKeeps ==
  ASSUME Interval, Settle
  PROVE  Interval'
<1> DEFINE unit == 2 ^ (Spare - 1)
           place == 2 ^ extra
           rest == 2 ^ (Spare - 1 - extra)
<1>1. /\ dl \in Nat /\ dc \in Nat /\ du \in Nat /\ extra \in 1 .. Spare - 1
      /\ unit <= dl /\ dl + unit <= dc /\ dc + unit <= du
      /\ float' = float /\ float \in Floats /\ step' = "trim"
  BY DEF Interval, Settle
<1>2. place \in Nat \ {0} /\ rest \in Nat \ {0} /\ unit = place * rest
  <2>1. extra \in 0 .. WordBits /\ Spare - 1 - extra \in 0 .. WordBits
    BY <1>1, Widths
  <2> QED
    BY <1>1, <2>1, Powers
<1>3. /\ Whole(dl) = dl \div place /\ Whole(dc) = dc \div place /\ Whole(du) = du \div place
  BY DEF Whole
<1>4. /\ dl' \in {Whole(dl), Whole(dl) + 1} /\ dc' = Whole(dc)
      /\ du' \in {Whole(du), Whole(du) - 1}
  <2>1. dl' = Whole(dl) + (IF allowed("lower", dl) THEN 0 ELSE 1) /\ dc' = Whole(dc)
    BY DEF Settle
  <2>2. du' = Whole(du) - (IF ~exact.upper \/ Fraction(du) > 0 \/ allowed("upper", du)
                             THEN 0 ELSE 1)
    BY DEF Settle
  <2> HIDE DEF place
  <2>3. Whole(dl) \in Nat /\ Whole(du) \in Nat
    BY <1>1, <1>2, <1>3, Quotient
  <2> QED
    BY <2>1, <2>2, <2>3
<1> HIDE DEF place, rest, unit
<1>5. place * 1 <= unit
  BY <1>2, ProductGrows
<1>6. /\ dl \div place \in Nat /\ dc \div place \in Nat /\ du \div place \in Nat
  BY <1>1, <1>2, Quotient
<1>7. 1 <= dl \div place
  <2>1. place * 1 <= dl
    BY <1>1, <1>2, <1>5
  <2> QED
    BY <1>1, <1>2, <2>1, QuotientGreatest
<1>8. dl \div place + 1 <= dc \div place
  <2>1. dl + place * 1 <= dc
    BY <1>1, <1>2, <1>5
  <2> QED
    BY <1>1, <1>2, <2>1, QuotientsApart
<1>9. dc \div place + 1 <= du \div place
  <2>1. dc + place * 1 <= du
    BY <1>1, <1>2, <1>5
  <2> QED
    BY <1>1, <1>2, <2>1, QuotientsApart
<1>10. dl' \in Nat /\ dc' \in Nat /\ du' \in Nat /\ 1 <= dl' /\ dl' <= dc' /\ dc' <= du'
  BY <1>3, <1>4, <1>6, <1>7, <1>8, <1>9
<1> QED
  BY <1>1, <1>10 DEF Interval

LEMMA TrimKeeps ==
  ASSUME Interval, Trim
  PROVE  Interval'
<1>1. /\ dl \in Nat /\ dc \in Nat /\ du \in Nat /\ 1 <= dl /\ dl <= dc /\ dc <= du
      /\ float \in Floats /\ float' = float /\ step' = "trim" /\ step = "trim"
  BY DEF Interval, Trim
<1>2. (dl + 9) \div 10 <= du \div 10
  BY DEF Trim, Trimmable
<1>3. PICK moves \in BOOLEAN :
        /\ moves <=> (dl + 9) \div 10 = dc \div 10 + 1 /\ dc \div 10 < du \div 10
        /\ dl' = (dl + 9) \div 10 /\ du' = du \div 10
        /\ dc' = IF moves THEN dc \div 10 + 1 ELSE dc \div 10
  BY DEF Trim
<1>4. dl' \in Nat /\ dc' \in Nat /\ du' \in Nat /\ 1 <= dl' /\ dl' <= dc' /\ dc' <= du'
  BY <1>1, <1>2, <1>3
<1> QED
  BY <1>1, <1>4 DEF Interval

--------------------------------------------------------------------------------

LEMMA IntervalInvariance == FormatSpec => []Interval
<1>1. FormatInit => Interval
  BY DEF FormatInit, Begin, Interval
<1>2. Interval /\ [FormatNext]_formatVars => Interval'
  <2> SUFFICES ASSUME Interval, [FormatNext]_formatVars PROVE Interval'
    OBVIOUS
  <2>1. CASE ExactInteger \/ Render \/ Layout
    BY <2>1 DEF Interval, ExactInteger, Render, Layout, Deliver, Finish
  <2>2. CASE UNCHANGED formatVars
    BY <2>2 DEF Interval, formatVars, scaling, Positive, rawExp, extra
  <2> QED
    BY <2>1, <2>2, FormatDoubleKeeps, UnscaledKeeps, ScaleKeeps, SettleKeeps, TrimKeeps
    DEF FormatNext
<1> QED
  BY <1>1, <1>2, PTL DEF FormatSpec

\* No zero of a float is counted twice: the center is rounded within an interval
\* that no multiple of ten is left in.
THEOREM DigitsEndNonzero == FormatSpec => []NoTrailingZeros
<1>1. ASSUME Interval PROVE NoTrailingZeros
  <2> SUFFICES ASSUME step = "trim", ~Trimmable PROVE Rounded % 10 # 0
    BY DEF NoTrailingZeros
  <2>1. dl \in Nat /\ dc \in Nat /\ du \in Nat /\ 1 <= dl /\ dl <= dc /\ dc <= du
    BY <1>1 DEF Interval
  <2>2. du \div 10 < (dl + 9) \div 10
    BY <2>1 DEF Trimmable
  <2>3. Rounded \in Nat /\ dl <= Rounded /\ Rounded <= du
    BY <2>1 DEF Rounded
  <2> QED
    BY <2>1, <2>2, <2>3
<1> QED
  BY <1>1, IntervalInvariance, PTL

\* The interval the digits are trimmed in is not empty and does not reach zero,
\* for any float: no word wraps when its bounds are moved in by one.
THEOREM IntervalKept == FormatSpec => [](step = "trim" => 1 <= dl /\ dl <= dc /\ dc <= du)
<1>1. Interval => (step = "trim" => 1 <= dl /\ dl <= dc /\ dc <= du)
  BY DEF Interval
<1> QED
  BY <1>1, IntervalInvariance, PTL

================================================================================
