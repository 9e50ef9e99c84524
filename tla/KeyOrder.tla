------------------------------- MODULE KeyOrder -------------------------------
(***************************************************************************)
(* The order in which serializeObject sorts keys: by UTF-16 code units,    *)
(* with a shortcut on bytes when both keys are ASCII.  A string is the     *)
(* sequence of its code points.                                            *)
(***************************************************************************)
EXTENDS Integers, Sequences, SequencesExt

\* utf16.Encode, code point by code point.
Units(c) ==
  IF c < 65536 THEN <<c>>
  ELSE <<55296 + (c - 65536) \div 1024, 56320 + ((c - 65536) % 1024)>>

Encode16(text) == FlattenSeq([i \in 1 .. Len(text) |-> Units(text[i])])

isASCII(text) == \A i \in 1 .. Len(text) : text[i] < 128

Shorter(m, n) == IF m < n THEN m ELSE n

\* i is the first place, within both sequences, where they differ.
DifferAt(ua, ub, i) ==
  /\ i \in 1 .. Shorter(Len(ua), Len(ub))
  /\ ua[i] # ub[i]
  /\ \A j \in 1 .. i - 1 : ua[j] = ub[j]

compareUTF16Units_PrefixEqual(ua, ub) ==
  IF \E i \in 1 .. Len(ua) : DifferAt(ua, ub, i) /\ ua[i] < ub[i] THEN -1
  ELSE IF \E i \in 1 .. Len(ua) : DifferAt(ua, ub, i) /\ ua[i] > ub[i] THEN 1
  ELSE 0

compareUTF16Units(ua, ub) ==
  IF \E i \in 1 .. Len(ua) : DifferAt(ua, ub, i) /\ ua[i] < ub[i] THEN -1
  ELSE IF \E i \in 1 .. Len(ua) : DifferAt(ua, ub, i) /\ ua[i] > ub[i] THEN 1
  ELSE IF Len(ua) < Len(ub) THEN -1
  ELSE IF Len(ua) > Len(ub) THEN 1
  ELSE 0

compareSortKeys_CodePoints(a, b) == compareUTF16Units(a, b)

\* The bytes of an ASCII key are its code points, and Go compares strings by
\* bytes the way compareUTF16Units compares units.
compareSortKeys(a, b) ==
  IF isASCII(a) /\ isASCII(b)
    THEN compareUTF16Units(a, b)
    ELSE compareUTF16Units(Encode16(a), Encode16(b))

================================================================================
