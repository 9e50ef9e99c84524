------------------------------ MODULE MCJsonString ------------------------------
(***************************************************************************)
(* JsonString on every string put together from up to MaxPieces pieces,    *)
(* each a whole or a broken escape or one character of a different width.  *)
(***************************************************************************)
EXTENDS JsonString

CONSTANT MaxPieces

Escaped(h) == <<Backslash, LowerU>> \o h

\* Four hexadecimal digits: D83d, dE00, 0041, FDd0, fffF and 000b.
Digits ==
  {<<68, 56, 51, 100>>, <<100, 69, 48, 48>>, <<48, 48, 52, 49>>, <<70, 68, 100, 48>>,
   <<102, 102, 102, 70>>, <<48, 48, 48, 98>>}

\* A quote, a lone backslash, a lone \u, \n, a newline, x, U+E9, U+FFFF, U+1F600.
Pieces ==
  {<<Quote>>, <<Backslash>>, <<Backslash, LowerU>>, <<Backslash, 110>>, <<10>>, <<120>>,
   <<233>>, <<65535>>, <<128512>>} \cup {Escaped(h) : h \in Digits}

\* Strings that are closed, and some that are not or do not begin.
MCInputs ==
  {<<Quote>> \o FlattenSeq(f) \o <<Quote>> : f \in UNION {[1 .. n -> Pieces] : n \in 0 .. MaxPieces}}
    \cup {<<Quote>> \o FlattenSeq(f) : f \in UNION {[1 .. n -> Pieces] : n \in 0 .. 2}}
    \cup {<<>>, <<120>>}
    \cup {<<Quote>> \o [i \in 1 .. n |-> 120] \o p \o <<Quote>> : n \in 4 .. 7, p \in Pieces}

================================================================================
