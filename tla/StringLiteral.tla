----------------------------- MODULE StringLiteral -----------------------------
(***************************************************************************)
(* What a string literal of JSON spells: the grammar of RFC 8259, Section  *)
(* 7, and the limits RFC 7493, Section 2.1, sets on it.  The literal is    *)
(* cut into elements, each of which spells one code point; which cuts are  *)
(* possible is left to the grammar.  The reference for JsonString.         *)
(*                                                                         *)
(* An offset counts the code points before a place, as p.pos does: the     *)
(* code point at offset p of s is s[p + 1].                                *)
(***************************************************************************)
EXTENDS Unicode, Sequences

HexDigits == (48 .. 57) \cup (65 .. 70) \cup (97 .. 102)
DigitValue(c) == IF c <= 57 THEN c - 48 ELSE (c % 32) + 9

\* Letter and code point of the escapes of two characters.
ShortEscapes ==
  {<<34, 34>>, <<92, 92>>, <<47, 47>>, <<98, 8>>, <<102, 12>>, <<110, 10>>, <<114, 13>>, <<116, 9>>}

IsShortEscape(s, p) ==
  p + 2 <= Len(s) /\ s[p + 1] = 92 /\ \E e \in ShortEscapes : e[1] = s[p + 2]

\* A backslash and a u, with the four digits after them or without.
IsMarked(s, p) == p + 2 <= Len(s) /\ s[p + 1] = 92 /\ s[p + 2] = 117
IsUnit(s, p) == IsMarked(s, p) /\ p + 6 <= Len(s) /\ \A i \in p + 3 .. p + 6 : s[i] \in HexDigits
UnitAt(s, p) ==
  4096 * DigitValue(s[p + 3]) + 256 * DigitValue(s[p + 4]) + 16 * DigitValue(s[p + 5])
    + DigitValue(s[p + 6])

HighUnits == 55296 .. 56319
LowUnits == 56320 .. 57343

IsCharacter(s, p) == p + 1 <= Len(s) /\ s[p + 1] >= 32 /\ s[p + 1] \notin {34, 92}
IsPair(s, p) ==
  /\ IsUnit(s, p) /\ UnitAt(s, p) \in HighUnits
  /\ IsUnit(s, p + 6) /\ UnitAt(s, p + 6) \in LowUnits

\* The part of s between offsets p and r is an element.
IsElement(s, p, r) ==
  \/ r = p + 1 /\ IsCharacter(s, p)
  \/ r = p + 2 /\ IsShortEscape(s, p)
  \/ r = p + 6 /\ IsUnit(s, p) /\ UnitAt(s, p) \notin HighUnits \cup LowUnits
  \/ r = p + 12 /\ IsPair(s, p)

\* The code point it spells.
Spelled(s, p, r) ==
  CASE r = p + 1 -> s[r]
    [] r = p + 2 -> (CHOOSE e \in ShortEscapes : e[1] = s[r])[2]
    [] r = p + 6 -> UnitAt(s, p)
    [] r = p + 12 -> 65536 + 1024 * (UnitAt(s, p) - 55296) + (UnitAt(s, p + 6) - 56320)

\* The texts that end at offset r, when f has those of the offsets before.
TextsFrom(s, f, r) ==
  IF r = 1 THEN {<<>>}
  ELSE UNION {{Append(t, Spelled(s, p, r)) : t \in f[p]} : p \in {p \in 1 .. r - 1 : IsElement(s, p, r)}}

\* The texts s may spell from the opening quote to each offset.
Texts(s) == LET texts[r \in 1 .. Len(s)] == TextsFrom(s, texts, r) IN texts

\* The literals s may begin with: a text, and the offset after the closing quote.
Literals(s) ==
  IF s = <<>> \/ s[1] # 34 THEN {}
  ELSE UNION {{[text |-> t, end |-> r] : t \in Texts(s)[r - 1]} : r \in {r \in 2 .. Len(s) : s[r] = 34}}

HasNoncharacter(text) ==
  \E i \in DOMAIN text : text[i] \in 64976 .. 65007 \/ (text[i] + 2) % 65536 < 2

\* s is sound from the opening quote up to offset p, or awaits a low surrogate there.
IsSound(s, p) == p \in 1 .. Len(s) /\ \E t \in Texts(s)[p] : ~HasNoncharacter(t)
AwaitsLow(s, p) == IsSound(s, p - 6) /\ IsUnit(s, p - 6) /\ UnitAt(s, p - 6) \in HighUnits

================================================================================
