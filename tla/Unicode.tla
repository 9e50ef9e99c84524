-------------------------------- MODULE Unicode --------------------------------
(***************************************************************************)
(* Code points as the parser and the serializer both see them.             *)
(***************************************************************************)
EXTENDS Integers, SequencesExt

\* The bytes of one code point in UTF-8.
Utf8Width(c) == IF c < 128 THEN 1 ELSE IF c < 2048 THEN 2 ELSE IF c < 65536 THEN 3 ELSE 4

Bytes(text) ==
  LET bytes[n \in 0 .. Len(text)] == IF n = 0 THEN 0 ELSE bytes[n - 1] + Utf8Width(text[n])
  IN bytes[Len(text)]

IsNoncharacter(c) == (64976 <= c /\ c <= 65007) \/ c % 65536 \in {65534, 65535}

================================================================================
