------------------------------ MODULE MCSerializer ------------------------------
(***************************************************************************)
(* Serializer on trees a caller can build: every object of up to three     *)
(* keys over texts that tell the orders apart, every scalar, and nested    *)
(* containers around each limit.                                           *)
(***************************************************************************)
EXTENDS Serializer

Leaf(kind, lit, str) == [kind |-> kind, lit |-> lit, str |-> str, keys |-> <<>>, kids |-> <<>>]
Null == Leaf("null", "null", <<>>)
Array(kids) == [Null EXCEPT !.kind = "array", !.lit = "", !.kids = kids]
Object(keys, kids) == [Array(kids) EXCEPT !.kind = "object", !.keys = keys]

\* "a", "b" and "", U+00E9, U+E000, U+10000 (D800 DC00 in UTF-16), U+10FFFD.
Sound ==
  {<<>>, <<97>>, <<97, 98>>, <<233>>, <<57344>>, <<65536>>, <<97, 1114109>>}

\* A noncharacter of the last plane and of the BMP block, bytes that are not
\* UTF-8, and a text of three characters but six bytes.
Unsound == {<<1114110>>, <<97, 64976>>, <<-1>>, <<233, 97, 57344>>}

Flat(keys) ==
  Append([i \in 1 .. Len(keys) |-> Null], Object(keys, [i \in 1 .. Len(keys) |-> i]))

FlatObjects ==
  {Flat(keys) : keys \in UNION {[1 .. n -> Sound] : n \in 1 .. 3}}
    \cup {Flat(keys) : keys \in {<<k>> : k \in Unsound} \cup {<<<<97>>, k>> : k \in Unsound}}

Scalar == {<<Null>>, <<Leaf("unknown", "", <<>>)>>}
  \cup {<<Leaf("bool", lit, <<>>)>> : lit \in {"true", "false", "maybe"}}
  \cup {<<Leaf("number", lit, <<>>)>> : lit \in {"1e30", "inf"}}
  \cup {<<Leaf("string", "", s)>> : s \in Sound \cup Unsound}

Zero(n) == [i \in 1 .. n |-> i]

\* Chains of arrays around the depth limit, wide and empty containers, and
\* objects in both orders at two levels.
Nested ==
  {[i \in 1 .. n |-> IF i = 1 THEN x ELSE Array(<<i - 1>>)] :
     n \in 2 .. 4, x \in {Null, Array(<<>>), Leaf("unknown", "", <<>>)}}
  \cup {Append([i \in 1 .. n |-> Null], Array(Zero(n))) : n \in 1 .. 4}
  \cup {Flat(<<<<97>>, <<98>>, <<99>>, <<100>>>>)}
  \cup {<<Null, Object(<<k>>, <<1>>), Null, Array(<<3>>), Object(<<m, k>>, <<2, 4>>)>> :
          k, m \in Sound}
  \cup {<<Null, Null, Object(<<k, m>>, <<1, 2>>), Null, Object(<<<<98>>, m>>, <<3, 4>>)>> :
          k, m \in Sound}
  \cup {<<Null, Null, Object(<<<<97>>, <<98>>>>, <<1, 2>>), Null, Null, Array(<<4, 5>>),
          Array(<<3, 6>>)>>}

MCTrees == {<<>>} \cup Scalar \cup FlatObjects \cup Nested

MCOptions ==
  [maxDepth |-> 2, maxValues |-> 0, maxObjectMembers |-> 3, maxArrayElements |-> -1,
   maxStringBytes |-> 5]

MCDefaults ==
  [maxDepth |-> 9, maxValues |-> 6, maxObjectMembers |-> 9, maxArrayElements |-> 3,
   maxStringBytes |-> 9]

Form == INSTANCE CanonicalForm WITH
  verdict <- result,
  text <- IF pc = "done" THEN out ELSE <<>>,
  Depth <- 2, Values <- 6, Members <- 3, Elements <- 3, StringBytes <- 5

\* The serializer implements its abstract specification: it stops, returns the
\* canonical form of exactly the valid trees, and of any other nothing but the
\* class of one of its faults.
ImplementsCanonicalForm == Form!Spec

================================================================================
