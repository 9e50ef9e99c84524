------------------------------- MODULE JsonNumber -------------------------------
(***************************************************************************)
(* parseNumber of jcstoken, on an input that starts with the number: the   *)
(* scan of its three parts, the bound on its length, which the loops over  *)
(* digits check as they go, and the verdict on its value.  The character e *)
(* stands for both its cases, and x for any byte no number contains.       *)
(***************************************************************************)
EXTENDS Integers, Sequences, FiniteSetsExt, JcsErrors

CONSTANTS
  Inputs,
  maxNumberChars,
  Finite(_),   \* strconv.ParseFloat does not overflow on the token
  Nonzero(_)   \* nor give zero

NonzeroDigit == {"1", "2", "3", "4", "5", "6", "7", "8", "9"}
Digit == {"0"} \cup NonzeroDigit
Character == {"-", "+", ".", "e", "x"} \cup Digit
isDigit(c) == c \in Digit

ASSUME NumberAssumption ==
  /\ maxNumberChars \in Nat \ {0}
  /\ Inputs \subseteq Seq(Character)

VARIABLES
  data,
  pos,      \* p.pos, the number starting at zero
  pc,       \* the part being scanned; its digits once one has been seen
  outcome

vars == <<data, pos, pc, outcome>>

TypeOK ==
  /\ data \in Inputs
  /\ pos \in 0 .. Len(data)
  /\ pc \in {"sign", "integer", "integerDigits", "fraction", "fractionDigits",
             "exponent", "exponentDigits", "value", "done"}
  /\ outcome.class \in InputClass \cup {"pending", "ok"} /\ outcome.offset \in 0 .. Len(data)

--------------------------------------------------------------------------------

Init ==
  /\ data \in Inputs
  /\ pos = 0
  /\ pc = "sign"
  /\ outcome = [class |-> "pending", offset |-> 0]

\* Whether the character at p is one of these.
Sees(p, characters) == p < Len(data) /\ data[p + 1] \in characters

Go(next, p) == pc' = next /\ pos' = p /\ UNCHANGED <<data, outcome>>

Conclude(class, offset, p) ==
  /\ pc' = "done"
  /\ pos' = p
  /\ outcome' = [class |-> class, offset |-> offset]
  /\ UNCHANGED data

Expected(p) == Conclude("INVALID_GRAMMAR", p, p)

Sign ==
  /\ pc = "sign"
  /\ Go("integer", IF Sees(0, {"-"}) THEN 1 ELSE 0)

\* A zero is the whole integer part, and its length is not checked here.
IntegerPart ==
  /\ pc = "integer"
  /\ \/ Sees(pos, NonzeroDigit) /\ Go("integerDigits", pos)
     \/ Sees(pos, {"0"}) /\ Sees(pos + 1, Digit) /\ Expected(pos + 1)
     \/ Sees(pos, {"0"}) /\ ~Sees(pos + 1, Digit) /\ Go("fraction", pos + 1)
     \/ ~Sees(pos, Digit) /\ Expected(pos)

FractionPart ==
  /\ pc = "fraction"
  /\ \/ ~Sees(pos, {"."}) /\ Go("exponent", pos)
     \/ Sees(pos, {"."}) /\ Sees(pos + 1, Digit) /\ Go("fractionDigits", pos + 1)
     \/ Sees(pos, {"."}) /\ ~Sees(pos + 1, Digit) /\ Expected(pos + 1)

afterSign(p) == IF Sees(p, {"+", "-"}) THEN p + 1 ELSE p

ExponentPart ==
  /\ pc = "exponent"
  /\ \/ ~Sees(pos, {"e"}) /\ Go("value", pos)
     \/ /\ Sees(pos, {"e"})
        /\ LET p == afterSign(pos + 1) IN
             IF Sees(p, Digit) THEN Go("exponentDigits", p) ELSE Expected(p)

AfterDigits ==
  [part \in {"integerDigits", "fractionDigits", "exponentDigits"} |->
     CASE part = "integerDigits" -> "fraction"
       [] part = "fractionDigits" -> "exponent"
       [] part = "exponentDigits" -> "value"]

ScanDigit_Unbounded ==
  /\ pc \in DOMAIN AfterDigits
  /\ Sees(pos, Digit)
  /\ Go(pc, pos + 1)

\* One turn of a loop over digits: the digit is consumed, then the length checked.
ScanDigit ==
  /\ pc \in DOMAIN AfterDigits
  /\ Sees(pos, Digit)
  /\ IF pos + 1 > maxNumberChars
       THEN Conclude("BOUND_EXCEEDED", 0, pos + 1)
       ELSE Go(pc, pos + 1)

EndDigits ==
  /\ pc \in DOMAIN AfterDigits
  /\ ~Sees(pos, Digit)
  /\ Go(AfterDigits[pc], pos)

--------------------------------------------------------------------------------
(* buildNumberValue *)

\* The places before the exponent.
mantissa(raw) ==
  {i \in DOMAIN raw : \A j \in 1 .. i : raw[j] # "e"}

tokenRepresentsZero_WithExponent(raw) == \A i \in DOMAIN raw : raw[i] \notin NonzeroDigit

tokenRepresentsZero(raw) == \A i \in mantissa(raw) : raw[i] \notin NonzeroDigit

buildNumberValue(raw) ==
  IF ~Finite(raw) THEN "NUMBER_OVERFLOW"
  ELSE IF raw[1] = "-" /\ tokenRepresentsZero(raw) THEN "NUMBER_NEGZERO"
  ELSE IF ~Nonzero(raw) /\ ~tokenRepresentsZero(raw) THEN "NUMBER_UNDERFLOW"
  ELSE "ok"

Value ==
  /\ pc = "value"
  /\ Conclude(IF pos > maxNumberChars THEN "BOUND_EXCEEDED"
          ELSE buildNumberValue(SubSeq(data, 1, pos)), 0, pos)

Stop == pc = "done" /\ UNCHANGED vars

Next ==
  \/ Sign \/ IntegerPart \/ FractionPart \/ ExponentPart
  \/ ScanDigit \/ EndDigits \/ Value
  \/ Stop

Spec == Init /\ [][Next]_vars

--------------------------------------------------------------------------------
(* RFC 8259, Section 6: a part of text t is what is after place a, up to b. *)

AreDigits(t, a, b) == a < b /\ \A i \in a + 1 .. b : isDigit(t[i])

IsIntegerPart(t, a, b) == AreDigits(t, a, b) /\ (t[a + 1] = "0" => b = a + 1)

IsFractionPart(t, a, b) == a = b \/ (t[a + 1] = "." /\ AreDigits(t, a + 1, b))

IsExponentPart(t, a, b) ==
  \/ a = b
  \/ /\ t[a + 1] = "e"
     /\ \/ AreDigits(t, a + 1, b)
        \/ AreDigits(t, a + 2, b) /\ t[a + 2] \in {"+", "-"}

signLength(t) == IF t # <<>> /\ t[1] = "-" THEN 1 ELSE 0

\* Where the integer part and the fraction of a number end.
Splits(t) ==
  {s \in (0 .. Len(t)) \X (0 .. Len(t)) :
     /\ s[1] <= s[2]
     /\ IsIntegerPart(t, signLength(t), s[1])
     /\ IsFractionPart(t, s[1], s[2])
     /\ IsExponentPart(t, s[2], Len(t))}

IsNumber(t) == Splits(t) # {}

\* A number, or what one may begin with.
IsViable(t) == IsNumber(t) \/ IsNumber(Append(t, "0"))

Longest(s) == Max({p \in 0 .. Len(s) : IsViable(SubSeq(s, 1, p))})

IsZero(t) ==
  \A i \in DOMAIN t : t[i] \notin NonzeroDigit \/ (\E j \in 1 .. i : t[j] = "e")

\* A zero is read exactly, whatever its exponent.
ASSUME ParseFloatAssumption ==
  \A s \in Inputs : \A p \in 1 .. Len(s) :
    LET t == SubSeq(s, 1, p) IN IsNumber(t) /\ IsZero(t) => Finite(t)

--------------------------------------------------------------------------------
(* Properties *)

Verdict(t) ==
  CASE IsZero(t) -> IF t[1] = "-" THEN "NUMBER_NEGZERO" ELSE "ok"
    [] ~IsZero(t) /\ ~Finite(t) -> "NUMBER_OVERFLOW"
    [] ~IsZero(t) /\ Finite(t) -> IF Nonzero(t) THEN "ok" ELSE "NUMBER_UNDERFLOW"

\* The loops over digits count each digit; the zero of an integer part is in none.
IsCounted(t, p) == isDigit(t[p]) /\ ~(t[p] = "0" /\ p = signLength(t) + 1)

IsCut(t) == \E p \in 1 .. Len(t) : p > maxNumberChars /\ IsCounted(t, p)

\* parseNumber takes the longest text that begins a number and judges it in this
\* order: a digit past the length limit, however the text ends; the grammar; the
\* length of a number, whose last characters may be no digits; its value.  Only a
\* fault of the grammar is reported where the text ends, all others at its start
\* (PARSE-GRAM-001, PARSE-GRAM-009, PROF-NEGZ-001, PROF-OFLOW-001,
\* PROF-UFLOW-001, BOUND-NUMCHARS-001).
TakesLongest ==
  pc = "done" =>
    LET end == Longest(data)
        token == SubSeq(data, 1, end)
        Ends(t) == IsNumber(t) /\ ~Sees(end, Digit)   \* no digit follows a leading zero
        is == outcome.class
    IN /\ is = IF IsCut(token) THEN "BOUND_EXCEEDED"
               ELSE IF ~Ends(token) THEN "INVALID_GRAMMAR"
               ELSE IF end > maxNumberChars THEN "BOUND_EXCEEDED"
               ELSE Verdict(token)
       /\ outcome.offset = IF is = "INVALID_GRAMMAR" THEN end ELSE 0
       /\ is # "BOUND_EXCEEDED" => pos = end

\* However long the input, the scan stops within three characters of the limit,
\* or of an unchecked -0: an exponent mark, its sign and one digit.
FailsFast == pos <= 5 \/ pos <= maxNumberChars + 3

================================================================================
