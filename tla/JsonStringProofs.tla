---------------------------- MODULE JsonStringProofs ----------------------------
(***************************************************************************)
(* JsonString against the grammar of StringLiteral, for every input and    *)
(* every limit: the strings accepted are the literals of the grammar, each *)
(* decoded to the one text it spells, every error stands where the string  *)
(* first goes wrong, and what serializeString writes reads as its text.    *)
(*                                                                         *)
(* The texts of the grammar and the bytes of a text are recursive          *)
(* functions.  That they exist, and what is proved of them by induction,   *)
(* rests on the least element of a set of natural numbers.                 *)
(***************************************************************************)
EXTENDS JsonString, WellFoundedInduction, TLAPS

\* The text decoded so far has no code point that I-JSON excludes.
DecodedIsIJson ==
  /\ IsText(buf)
  /\ \A i \in DOMAIN buf : ~IsNoncharacter(buf[i])

IInv == TypeOK /\ DecodedIsIJson

--------------------------------------------------------------------------------
(* The input and its escapes. *)

\* The numbers the arithmetic below is about, and what the input holds.
LEMMA Bounds ==
  ASSUME TypeOK
  PROVE  /\ pos \in 0 .. Len(data) /\ pos \in Nat /\ Len(data) \in Nat
         /\ \A p \in Nat : ~AtEnd(p) => At(p) \in Scalar /\ p + 1 \in 0 .. Len(data)
<1>1. data \in Seq(Scalar) /\ pos \in 0 .. Len(data)
  BY DEF TypeOK, IsText
<1>2. Len(data) \in Nat
  BY <1>1
<1>3. ASSUME NEW p \in Nat, ~AtEnd(p) PROVE At(p) \in Scalar /\ p + 1 \in 0 .. Len(data)
  <2>1. p + 1 \in 1 .. Len(data)
    BY <1>2, <1>3 DEF AtEnd
  <2> QED
    BY <1>1, <1>2, <2>1 DEF At
<1> QED
  BY <1>1, <1>2, <1>3

LEMMA HexDigit == \A c \in Scalar : hexVal(c) \in -1 .. 15
  BY DEF hexVal, Scalar

\* Sixteen bits.
Unit == {u \in Nat : u <= 65535}

\* Four digits have a value of sixteen bits, and end inside the input.
LEMMA FourDigits ==
  ASSUME TypeOK, NEW p \in Nat
  PROVE  /\ readHex4(p) \in Unit \cup {-1}
         /\ readHex4(p) # -1 => p + 4 \in 0 .. Len(data)
<1>1. CASE p + 4 > Len(data) \/ \E i \in 0 .. 3 : hexVal(At(p + i)) = -1
  BY <1>1 DEF readHex4
<1>2. CASE ~(p + 4 > Len(data) \/ \E i \in 0 .. 3 : hexVal(At(p + i)) = -1)
  <2>1. p + 4 \in 0 .. Len(data) /\ Len(data) \in Nat
    BY <1>2, Bounds
  <2>2. ASSUME NEW i \in 0 .. 3 PROVE hexVal(At(p + i)) \in 0 .. 15
    <3>1. p + i \in Nat /\ ~AtEnd(p + i)
      BY <2>1 DEF AtEnd
    <3>2. hexVal(At(p + i)) \in -1 .. 15
      BY <3>1, Bounds, HexDigit
    <3>3. hexVal(At(p + i)) # -1
      BY <1>2
    <3>4. \A v \in -1 .. 15 : v # -1 => v \in 0 .. 15
      OBVIOUS
    <3> QED
      BY <3>2, <3>3, <3>4
  <2>3. /\ hexVal(At(p)) \in 0 .. 15 /\ hexVal(At(p + 1)) \in 0 .. 15
        /\ hexVal(At(p + 2)) \in 0 .. 15 /\ hexVal(At(p + 3)) \in 0 .. 15
    <3>1. p + 0 = p
      OBVIOUS
    <3> QED
      BY <2>2, <3>1
  <2>4. readHex4(p) = 4096 * hexVal(At(p)) + 256 * hexVal(At(p + 1))
                        + 16 * hexVal(At(p + 2)) + hexVal(At(p + 3))
    BY <1>2 DEF readHex4
  <2> QED
    <3> DEFINE a == hexVal(At(p))
               b == hexVal(At(p + 1))
               c == hexVal(At(p + 2))
               d == hexVal(At(p + 3))
    <3>1. a \in 0 .. 15 /\ b \in 0 .. 15 /\ c \in 0 .. 15 /\ d \in 0 .. 15
      BY <2>3
    <3>2. readHex4(p) = 4096 * a + 256 * b + 16 * c + d
      BY <2>4
    <3> HIDE DEF a, b, c, d
    <3>3. 4096 * a + 256 * b + 16 * c + d \in Unit
      BY <3>1 DEF Unit
    <3>4. readHex4(p) \in Unit
      BY <3>2, <3>3
    <3> QED
      BY <2>1, <3>4
<1> QED
  BY <1>1, <1>2

\* What an escape may result in: a scalar value, or an error inside the input.
EscapeSound(e) ==
  /\ e.class \in InputClass \cup {"ok"}
  /\ e.next \in 0 .. Len(data)
  /\ e.class = "ok" => e.rune \in Scalar

LEMMA RuneSound ==
  ASSUME NEW c \in Scalar, NEW next \in 0 .. Len(data)
  PROVE  EscapeSound(Rune(c, next))
  BY DEF EscapeSound, Rune

LEMMA EscapeErrorSound ==
  ASSUME NEW class \in InputClass, class # "ok", NEW offset \in 0 .. Len(data)
  PROVE  EscapeSound(EscapeError(class, offset))
  BY DEF EscapeSound, EscapeError

\* A pair of surrogates is a code point above the surrogates.
LEMMA PairIsScalar ==
  ASSUME NEW high \in Unit, IsHigh(high), NEW low \in Unit, IsLow(low)
  PROVE  Pair(high, low) \in Scalar
  BY DEF Pair, Scalar, Unit, IsHigh, IsLow

LEMMA LowSurrogateSound ==
  ASSUME TypeOK, NEW high \in Unit, IsHigh(high), NEW p \in 0 .. Len(data),
         NEW source \in 0 .. Len(data)
  PROVE  EscapeSound(lowSurrogate(high, p, source))
<1> DEFINE r == readHex4(p + 2)
<1>1. p \in Nat /\ p + 2 \in Nat
  BY Bounds
<1>2. CASE AtEnd(p + 1) \/ At(p) # Backslash \/ At(p + 1) # LowerU
  BY <1>2, EscapeErrorSound DEF lowSurrogate, InputClass
<1>3. CASE ~(AtEnd(p + 1) \/ At(p) # Backslash \/ At(p + 1) # LowerU)
  <2>1. CASE r = -1
    BY <1>3, <2>1, EscapeErrorSound DEF lowSurrogate, InputClass
  <2>2. CASE r # -1 /\ ~IsLow(r)
    BY <1>3, <2>2, EscapeErrorSound DEF lowSurrogate, InputClass
  <2>3. CASE r # -1 /\ IsLow(r)
    <3>1. Pair(high, r) \in Scalar
      BY <1>1, <2>3, FourDigits, PairIsScalar
    <3>2. p + 6 \in 0 .. Len(data)
      BY <1>1, <2>3, FourDigits, Bounds
    <3>3. lowSurrogate(high, p, source) = Rune(Pair(high, r), p + 6)
      BY <1>3, <2>3 DEF lowSurrogate
    <3> QED
      BY <3>1, <3>2, <3>3, RuneSound
  <2> QED
    BY <2>1, <2>2, <2>3
<1> QED
  BY <1>2, <1>3

LEMMA UnicodeEscapeSound ==
  ASSUME TypeOK, NEW p \in Nat, NEW source \in 0 .. Len(data)
  PROVE  EscapeSound(parseUnicodeEscape(p, source))
<1> DEFINE r == readHex4(p)
<1>1. CASE r = -1
  BY <1>1, EscapeErrorSound DEF parseUnicodeEscape, InputClass
<1>2. CASE r # -1 /\ IsLow(r)
  BY <1>2, EscapeErrorSound DEF parseUnicodeEscape, InputClass
<1>3. CASE r # -1 /\ ~IsLow(r) /\ ~IsHigh(r)
  <2>1. r \in Scalar /\ p + 4 \in 0 .. Len(data)
    BY <1>3, FourDigits DEF IsLow, IsHigh, Scalar, Unit
  <2>2. parseUnicodeEscape(p, source) = Rune(r, p + 4)
    BY <1>3 DEF parseUnicodeEscape
  <2> QED
    BY <2>1, <2>2, RuneSound
<1>4. CASE r # -1 /\ ~IsLow(r) /\ IsHigh(r)
  <2>1. p + 4 \in 0 .. Len(data) /\ r \in Unit
    BY <1>4, FourDigits
  <2>2. parseUnicodeEscape(p, source) = lowSurrogate(r, p + 4, source)
    BY <1>4 DEF parseUnicodeEscape
  <2> QED
    BY <1>4, <2>1, <2>2, LowSurrogateSound
<1> QED
  BY <1>1, <1>2, <1>3, <1>4

LEMMA ParseEscapeSound ==
  ASSUME TypeOK, NEW p \in 1 .. Len(data)
  PROVE  EscapeSound(parseEscape(p))
<1>1. p \in Nat /\ p - 1 \in 0 .. Len(data) /\ p + 1 \in Nat
  BY Bounds
<1>2. CASE AtEnd(p)
  BY <1>1, <1>2, EscapeErrorSound DEF parseEscape, InputClass
<1>3. CASE ~AtEnd(p) /\ At(p) = LowerU
  BY <1>1, <1>3, UnicodeEscapeSound DEF parseEscape
<1>4. CASE ~AtEnd(p) /\ At(p) # LowerU /\ escapedRune(At(p)) = -1
  BY <1>1, <1>4, EscapeErrorSound DEF parseEscape, InputClass
<1>5. CASE ~AtEnd(p) /\ At(p) # LowerU /\ escapedRune(At(p)) # -1
  <2>1. p + 1 \in 0 .. Len(data)
    BY <1>1, <1>5, Bounds
  <2>2. escapedRune(At(p)) \in Scalar
    BY <1>5 DEF escapedRune, Scalar, Quote, Backslash
  <2>3. parseEscape(p) = Rune(escapedRune(At(p)), p + 1)
    BY <1>5 DEF parseEscape
  <2> QED
    BY <2>1, <2>2, <2>3, RuneSound
<1> QED
  BY <1>2, <1>3, <1>4, <1>5

--------------------------------------------------------------------------------
(* Recursive functions: they satisfy their equations. *)

\* A set of natural numbers has a least element.
LEMMA LeastOf ==
  ASSUME NEW S, S \subseteq Nat, S # {}
  PROVE  \E n \in S : \A m \in S : n <= m
<1>1. PICK n \in S : \A m \in S : ~(<<m, n>> \in OpToRel(<, Nat))
  BY WFMin, NatLessThanWellFounded
<1>2. \A m \in S : ~(m < n)
  BY <1>1 DEF OpToRel
<1> QED
  BY <1>2

\* The texts that end at an offset depend only on those of the offsets before.
LEMMA TextsFromBefore ==
  ASSUME NEW s, NEW r \in Nat, NEW f, NEW g, \A p \in 1 .. r - 1 : f[p] = g[p]
  PROVE  TextsFrom(s, f, r) = TextsFrom(s, g, r)
<1> DEFINE P == {p \in 1 .. r - 1 : IsElement(s, p, r)}
           F(p) == {Append(t, Spelled(s, p, r)) : t \in f[p]}
           G(p) == {Append(t, Spelled(s, p, r)) : t \in g[p]}
<1>1. \A p \in P : F(p) = G(p)
  OBVIOUS
<1>2. UNION {F(p) : p \in P} = UNION {G(p) : p \in P}
  <2> HIDE DEF F, G, P
  <2> QED
    BY <1>1
<1> QED
  BY <1>2 DEF TextsFrom

IsTexts(s, f, n) == f = [r \in 1 .. n |-> TextsFrom(s, f, r)]

LEMMA TextsExist ==
  ASSUME NEW s, NEW n \in Nat
  PROVE  \E f : IsTexts(s, f, n)
<1> DEFINE Bad == {k \in Nat : ~\E f : IsTexts(s, f, k)}
<1> SUFFICES ASSUME Bad # {} PROVE FALSE
  OBVIOUS
<1>1. PICK k \in Bad : \A m \in Bad : k <= m
  <2> HIDE DEF Bad
  <2>1. Bad \subseteq Nat
    BY DEF Bad
  <2> QED
    BY <2>1, LeastOf
<1>2. CASE k = 0
  <2> DEFINE f == [r \in 1 .. 0 |-> {}]
  <2>1. f = [r \in 1 .. 0 |-> TextsFrom(s, f, r)]
    OBVIOUS
  <2> QED
    BY <1>1, <1>2, <2>1 DEF IsTexts
<1>3. CASE k # 0
  <2>1. k \in Nat /\ k - 1 \in Nat /\ k - 1 \notin Bad
    BY <1>1, <1>3
  <2>2. PICK g : IsTexts(s, g, k - 1)
    BY <2>1
  <2> DEFINE f == [r \in 1 .. k |-> IF r < k THEN g[r] ELSE TextsFrom(s, g, k)]
  <2>3. \A p \in 1 .. k - 1 : f[p] = g[p]
    BY <2>1
  <2>4. ASSUME NEW r \in 1 .. k PROVE f[r] = TextsFrom(s, f, r)
    <3>1. r \in Nat /\ \A p \in 1 .. r - 1 : f[p] = g[p]
      BY <2>1, <2>3
    <3>2. TextsFrom(s, f, r) = TextsFrom(s, g, r)
      <4> HIDE DEF f
      <4> QED
        BY <3>1, TextsFromBefore
    <3>3. CASE r < k
      <4>1. r \in 1 .. k - 1
        BY <2>1, <3>3
      <4>2. g[r] = TextsFrom(s, g, r)
        BY <2>2, <4>1 DEF IsTexts
      <4> QED
        BY <3>2, <4>1, <4>2, <2>3
    <3>4. CASE r = k
      <4>1. f[r] = TextsFrom(s, g, r)
        BY <2>1, <3>4
      <4> QED
        BY <3>2, <4>1
    <3> QED
      BY <2>1, <3>3, <3>4
  <2>5. IsTexts(s, f, k)
    <3>1. f = [r \in 1 .. k |-> f[r]]
      OBVIOUS
    <3> HIDE DEF f
    <3>2. [r \in 1 .. k |-> f[r]] = [r \in 1 .. k |-> TextsFrom(s, f, r)]
      BY <2>4
    <3> QED
      BY <3>1, <3>2 DEF IsTexts
  <2> QED
    BY <1>1, <2>5
<1> QED
  BY <1>1, <1>2, <1>3

LEMMA TextsAt ==
  ASSUME NEW s, Len(s) \in Nat, NEW r \in 1 .. Len(s)
  PROVE  Texts(s)[r] = TextsFrom(s, Texts(s), r)
<1> DEFINE n == Len(s)
<1>1. PICK f : f = [q \in 1 .. n |-> TextsFrom(s, f, q)]
  BY TextsExist DEF IsTexts
<1>2. Texts(s) = CHOOSE g : g = [q \in 1 .. n |-> TextsFrom(s, g, q)]
  BY DEF Texts
<1>3. Texts(s) = [q \in 1 .. n |-> TextsFrom(s, Texts(s), q)]
  <2> DEFINE D(g) == g = [q \in 1 .. n |-> TextsFrom(s, g, q)]
  <2>1. D(f)
    BY <1>1
  <2>2. Texts(s) = CHOOSE g : D(g)
    BY <1>2
  <2> HIDE DEF D
  <2>3. D(Texts(s))
    BY <2>1, <2>2
  <2> QED
    BY <2>3 DEF D
<1> HIDE DEF n
<1> QED
  BY <1>3 DEF n

--------------------------------------------------------------------------------
(* The bytes of a text. *)

IsBytes(t, f, n) == f = [k \in 0 .. n |-> IF k = 0 THEN 0 ELSE f[k - 1] + Utf8Width(t[k])]

LEMMA BytesExist ==
  ASSUME NEW t, NEW n \in Nat
  PROVE  \E f : IsBytes(t, f, n)
<1> DEFINE Bad == {k \in Nat : ~\E f : IsBytes(t, f, k)}
<1> SUFFICES ASSUME Bad # {} PROVE FALSE
  OBVIOUS
<1>1. PICK k \in Bad : \A m \in Bad : k <= m
  <2> HIDE DEF Bad
  <2>1. Bad \subseteq Nat
    BY DEF Bad
  <2> QED
    BY <2>1, LeastOf
<1>2. CASE k = 0
  <2> DEFINE f == [i \in 0 .. 0 |-> 0]
  <2>1. f = [i \in 0 .. 0 |-> IF i = 0 THEN 0 ELSE f[i - 1] + Utf8Width(t[i])]
    OBVIOUS
  <2> QED
    BY <1>1, <1>2, <2>1 DEF IsBytes
<1>3. CASE k # 0
  <2>1. k \in Nat /\ k - 1 \in Nat /\ k - 1 \notin Bad
    BY <1>1, <1>3
  <2>2. PICK g : IsBytes(t, g, k - 1)
    BY <2>1
  <2> DEFINE f == [i \in 0 .. k |-> IF i < k THEN g[i] ELSE g[k - 1] + Utf8Width(t[k])]
  <2>3. \A i \in 0 .. k - 1 : f[i] = g[i]
    BY <2>1
  <2>4. ASSUME NEW i \in 0 .. k PROVE f[i] = IF i = 0 THEN 0 ELSE f[i - 1] + Utf8Width(t[i])
    <3>1. CASE i < k
      <4>1. i \in 0 .. k - 1
        BY <2>1, <3>1
      <4>2. g[i] = IF i = 0 THEN 0 ELSE g[i - 1] + Utf8Width(t[i])
        BY <2>2, <4>1 DEF IsBytes
      <4>3. i # 0 => i - 1 \in 0 .. k - 1
        BY <2>1, <4>1
      <4> HIDE DEF f
      <4> QED
        BY <4>1, <4>2, <4>3, <2>3
    <3>2. CASE i = k
      <4>1. f[i] = g[k - 1] + Utf8Width(t[k]) /\ k - 1 \in 0 .. k - 1
        BY <2>1, <3>2
      <4> HIDE DEF f
      <4> QED
        BY <1>3, <3>2, <4>1, <2>3
    <3> QED
      BY <2>1, <3>1, <3>2
  <2>5. IsBytes(t, f, k)
    <3>1. f = [i \in 0 .. k |-> f[i]]
      OBVIOUS
    <3> HIDE DEF f
    <3>2. [i \in 0 .. k |-> f[i]] = [i \in 0 .. k |-> IF i = 0 THEN 0 ELSE f[i - 1] + Utf8Width(t[i])]
      BY <2>4
    <3> QED
      BY <3>1, <3>2 DEF IsBytes
  <2> QED
    BY <1>1, <2>5
<1> QED
  BY <1>1, <1>2, <1>3

\* The bytes of every beginning of a text, from one function.
LEMMA BytesOf ==
  ASSUME NEW t, Len(t) \in Nat
  PROVE  \E f : IsBytes(t, f, Len(t)) /\ Bytes(t) = f[Len(t)]
<1> DEFINE n == Len(t)
           D(g) == g = [k \in 0 .. n |-> IF k = 0 THEN 0 ELSE g[k - 1] + Utf8Width(t[k])]
           b == CHOOSE g : D(g)
<1>1. PICK f : D(f)
  BY BytesExist DEF IsBytes
<1>2. Bytes(t) = b[n]
  BY DEF Bytes
<1> HIDE DEF D
<1>3. D(b)
  BY <1>1
<1> QED
  BY <1>2, <1>3 DEF D, IsBytes

LEMMA WidthType == \A c : Utf8Width(c) \in 1 .. 4
  BY DEF Utf8Width

LEMMA BytesEmpty == Bytes(<<>>) = 0
<1>1. Len(<<>>) = 0
  OBVIOUS
<1>2. PICK f : IsBytes(<<>>, f, 0) /\ Bytes(<<>>) = f[0]
  BY <1>1, BytesOf
<1> QED
  BY <1>2 DEF IsBytes

\* Two functions of bytes agree where their texts do.
LEMMA BytesAgree ==
  ASSUME NEW t, NEW u, NEW m \in Nat, NEW n \in Nat, NEW f, NEW g,
         IsBytes(t, f, m), IsBytes(u, g, n), NEW k \in Nat, k <= m, k <= n,
         \A i \in 1 .. k : t[i] = u[i]
  PROVE  f[k] = g[k] /\ f[k] \in Nat
<1> DEFINE Bad == {i \in 0 .. k : ~(f[i] = g[i] /\ f[i] \in Nat)}
<1>0. \A i \in 0 .. k : /\ f[i] = IF i = 0 THEN 0 ELSE f[i - 1] + Utf8Width(t[i])
                        /\ g[i] = IF i = 0 THEN 0 ELSE g[i - 1] + Utf8Width(u[i])
  <2>1. \A i \in 0 .. k : i \in 0 .. m /\ i \in 0 .. n
    OBVIOUS
  <2> QED
    BY <2>1 DEF IsBytes
<1> SUFFICES ASSUME Bad # {} PROVE FALSE
  OBVIOUS
<1>1. PICK i \in Bad : \A j \in Bad : i <= j
  <2>1. Bad \subseteq Nat
    OBVIOUS
  <2> HIDE DEF Bad
  <2> QED
    BY <2>1, LeastOf
<1>2. i # 0
  BY <1>0, <1>1
<1>3. i - 1 \in 0 .. k /\ i - 1 \notin Bad /\ i \in 1 .. k
  BY <1>1, <1>2
<1>4. f[i - 1] = g[i - 1] /\ f[i - 1] \in Nat /\ t[i] = u[i]
  BY <1>3
<1>5. f[i] = f[i - 1] + Utf8Width(t[i]) /\ g[i] = g[i - 1] + Utf8Width(u[i])
  BY <1>0, <1>2, <1>3
<1>6. Utf8Width(t[i]) \in 1 .. 4
  BY WidthType
<1> QED
  BY <1>1, <1>3, <1>4, <1>5, <1>6

LEMMA BytesAppend ==
  ASSUME NEW S, NEW t \in Seq(S), NEW c \in S
  PROVE  /\ Bytes(t) \in Nat
         /\ Bytes(Append(t, c)) = Bytes(t) + Utf8Width(c)
<1> DEFINE u == Append(t, c)
           n == Len(t)
<1>1. n \in Nat /\ Len(u) = n + 1 /\ u[n + 1] = c /\ \A i \in 1 .. n : t[i] = u[i]
  OBVIOUS
<1>2. PICK f : IsBytes(t, f, n) /\ Bytes(t) = f[n]
  BY <1>1, BytesOf
<1>3. PICK g : IsBytes(u, g, n + 1) /\ Bytes(u) = g[n + 1]
  <2>1. Len(u) = n + 1 /\ Len(u) \in Nat
    BY <1>1
  <2> HIDE DEF u, n
  <2>2. \E g : IsBytes(u, g, Len(u)) /\ Bytes(u) = g[Len(u)]
    BY <2>1, BytesOf
  <2> QED
    BY <2>1, <2>2
<1> HIDE DEF u, n
<1>4. f[n] = g[n] /\ f[n] \in Nat
  <2>1. n <= n /\ n <= n + 1 /\ n + 1 \in Nat
    BY <1>1
  <2> QED
    BY <1>1, <1>2, <1>3, <2>1, BytesAgree
<1>5. g[n + 1] = g[n] + Utf8Width(u[n + 1])
  <2>1. n + 1 \in 0 .. n + 1 /\ n + 1 # 0 /\ (n + 1) - 1 = n
    BY <1>1
  <2> QED
    BY <1>3, <2>1 DEF IsBytes
<1>6. Bytes(u) = Bytes(t) + Utf8Width(c)
  BY <1>1, <1>2, <1>3, <1>4, <1>5
<1> QED
  BY <1>2, <1>4, <1>6 DEF u

--------------------------------------------------------------------------------
(* The grammar: an element ends in one place, so a literal has one cut. *)

LEMMA ElementInside ==
  ASSUME NEW s, Len(s) \in Nat, NEW p \in Nat, NEW r, IsElement(s, p, r)
  PROVE  r \in p + 1 .. Len(s) /\ r \in Nat
  BY DEF IsElement, IsCharacter, IsShortEscape, IsUnit, IsPair

LEMMA ElementUnique ==
  ASSUME NEW s, NEW p \in Nat, NEW r, NEW q, IsElement(s, p, r), IsElement(s, p, q)
  PROVE  r = q /\ s[p + 1] # 34
<1>1. ~(IsCharacter(s, p) /\ (IsShortEscape(s, p) \/ IsUnit(s, p)))
  BY DEF IsCharacter, IsShortEscape, IsUnit, IsMarked
<1>2. ~(IsShortEscape(s, p) /\ IsUnit(s, p))
  BY DEF IsShortEscape, IsUnit, IsMarked, ShortEscapes
<1>3. IsPair(s, p) => IsUnit(s, p) /\ UnitAt(s, p) \in HighUnits
  BY DEF IsPair
<1>4. r = q
  BY <1>1, <1>2, <1>3 DEF IsElement
<1>5. s[p + 1] # 34
  BY <1>3 DEF IsElement, IsCharacter, IsShortEscape, IsUnit, IsMarked
<1> QED
  BY <1>4, <1>5

LEMMA TextsStart ==
  ASSUME NEW s, Len(s) \in Nat, 1 <= Len(s)
  PROVE  Texts(s)[1] = {<<>>}
<1>1. 1 \in 1 .. Len(s)
  OBVIOUS
<1> QED
  BY <1>1, TextsAt DEF TextsFrom

LEMMA TextsMember ==
  ASSUME NEW s, Len(s) \in Nat, NEW r \in 2 .. Len(s), NEW t
  PROVE  t \in Texts(s)[r] <=>
           \E p \in 1 .. r - 1 : \E u \in Texts(s)[p] :
             IsElement(s, p, r) /\ t = Append(u, Spelled(s, p, r))
<1>1. r \in 1 .. Len(s) /\ r # 1
  OBVIOUS
<1>2. Texts(s)[r] =
        UNION {{Append(u, Spelled(s, p, r)) : u \in Texts(s)[p]} : p \in {p \in 1 .. r - 1 : IsElement(s, p, r)}}
  <2>1. Texts(s)[r] = TextsFrom(s, Texts(s), r)
    BY <1>1, TextsAt
  <2> QED
    BY <1>1, <2>1, Zenon DEF TextsFrom
<1> QED
  BY <1>2

\* The beginning of s up to offset a is cut in one way, which spells t: no element
\* before a goes on beyond it, and no earlier quote closes the literal.
Cut(s, a, t) ==
  /\ a \in 1 .. Len(s)
  /\ Texts(s)[a] = {t}
  /\ \A p \in 1 .. a - 1 : Texts(s)[p] # {} =>
       s[p + 1] # 34 /\ \A r : IsElement(s, p, r) => r <= a

LEMMA CutStart ==
  ASSUME NEW s, Len(s) \in Nat, 1 <= Len(s)
  PROVE  Cut(s, 1, <<>>)
  BY TextsStart DEF Cut

\* Whatever holds of the texts that go on from a cut, and survives another code
\* point, holds of all texts beyond the cut.
LEMMA Beyond ==
  ASSUME NEW s, Len(s) \in Nat, NEW a, NEW t, Cut(s, a, t), NEW e \in Nat, NEW K,
         \A r : IsElement(s, a, r) => r > e \/ Append(t, Spelled(s, a, r)) \in K,
         \A u \in K : \A p \in 1 .. Len(s), r \in 1 .. Len(s) :
           IsElement(s, p, r) => Append(u, Spelled(s, p, r)) \in K
  PROVE  \A r \in a + 1 .. Len(s) : r <= e => Texts(s)[r] \subseteq K
<1> DEFINE Bad == {r \in a + 1 .. Len(s) : r <= e /\ ~(Texts(s)[r] \subseteq K)}
<1>0. a \in Nat /\ a >= 1 /\ a <= Len(s)
  BY DEF Cut
<1> SUFFICES ASSUME Bad # {} PROVE FALSE
  OBVIOUS
<1>1. PICK r \in Bad : \A q \in Bad : r <= q
  <2>1. Bad \subseteq Nat
    BY <1>0
  <2> HIDE DEF Bad
  <2> QED
    BY <2>1, LeastOf
<1>2. r \in 2 .. Len(s) /\ r > a /\ r \in Nat /\ r <= e /\ r \in 1 .. Len(s)
  BY <1>0, <1>1
<1>3. PICK w \in Texts(s)[r] : w \notin K
  BY <1>1
<1>4. PICK p \in 1 .. r - 1 : \E u \in Texts(s)[p] :
        IsElement(s, p, r) /\ w = Append(u, Spelled(s, p, r))
  BY <1>2, <1>3, TextsMember
<1>5. PICK u \in Texts(s)[p] : IsElement(s, p, r) /\ w = Append(u, Spelled(s, p, r))
  BY <1>4
<1>6. p \in Nat /\ p < r /\ p \in 1 .. Len(s)
  BY <1>2, <1>4
<1>7. CASE p < a
  <2>1. p \in 1 .. a - 1 /\ Texts(s)[p] # {}
    BY <1>0, <1>5, <1>6, <1>7
  <2> QED
    BY <1>0, <1>2, <1>5, <2>1 DEF Cut
<1>8. CASE p = a
  <2>1. u = t
    BY <1>5, <1>8 DEF Cut
  <2> QED
    BY <1>2, <1>3, <1>5, <1>8, <2>1
<1>9. CASE p > a
  <2>1. p \in a + 1 .. Len(s) /\ p <= e /\ p \notin Bad
    BY <1>0, <1>1, <1>2, <1>6, <1>9
  <2>2. u \in K
    BY <1>5, <2>1
  <2> QED
    BY <1>2, <1>3, <1>5, <1>6, <2>2
<1> QED
  BY <1>0, <1>6, <1>7, <1>8, <1>9

\* The next element moves the cut.
LEMMA CutStep ==
  ASSUME NEW s, Len(s) \in Nat, NEW a, NEW t, Cut(s, a, t), NEW r, IsElement(s, a, r)
  PROVE  Cut(s, r, Append(t, Spelled(s, a, r)))
<1>0. a \in Nat /\ a >= 1 /\ a <= Len(s) /\ Texts(s)[a] = {t}
  BY DEF Cut
<1>1. r \in a + 1 .. Len(s) /\ r \in Nat /\ r \in 2 .. Len(s) /\ r \in 1 .. Len(s)
  BY <1>0, ElementInside
<1>2. \A q : IsElement(s, a, q) => q = r
  BY <1>0, ElementUnique
<1>3. \A p \in a + 1 .. Len(s) : p <= r - 1 => Texts(s)[p] = {}
  <2>1. r - 1 \in Nat /\ \A q : IsElement(s, a, q) => q > r - 1 \/ Append(t, Spelled(s, a, q)) \in {}
    BY <1>1, <1>2
  <2>2. \A u \in {} : \A p \in 1 .. Len(s), q \in 1 .. Len(s) :
          IsElement(s, p, q) => Append(u, Spelled(s, p, q)) \in {}
    OBVIOUS
  <2> DEFINE e == r - 1
             K == {}
  <2> HIDE DEF e, K
  <2>3. e \in Nat /\ \A q : IsElement(s, a, q) => q > e \/ Append(t, Spelled(s, a, q)) \in K
    BY <2>1 DEF e, K
  <2>4. \A u \in K : \A p \in 1 .. Len(s), q \in 1 .. Len(s) :
          IsElement(s, p, q) => Append(u, Spelled(s, p, q)) \in K
    BY <2>2 DEF K
  <2>5. \A p \in a + 1 .. Len(s) : p <= e => Texts(s)[p] \subseteq K
    BY <2>3, <2>4, Beyond
  <2> QED
    BY <2>5 DEF e, K
<1>4. ASSUME NEW p \in 1 .. r - 1, Texts(s)[p] # {}
      PROVE  p = a \/ p \in 1 .. a - 1
  <2>1. CASE p > a
    <3>1. p \in a + 1 .. Len(s) /\ p <= r - 1
      BY <1>0, <1>1, <2>1
    <3> QED
      BY <1>3, <1>4, <3>1
  <2> QED
    BY <1>0, <1>1, <2>1
<1>5. \A p \in 1 .. a - 1 : Texts(s)[p] # {} =>
        s[p + 1] # 34 /\ \A q : IsElement(s, p, q) => q <= a
  BY DEF Cut
<1>6. \A w : w \in Texts(s)[r] <=> w = Append(t, Spelled(s, a, r))
  <2> TAKE w
  <2>1. ASSUME w \in Texts(s)[r] PROVE w = Append(t, Spelled(s, a, r))
    <3>1. PICK p \in 1 .. r - 1 : \E u \in Texts(s)[p] :
            IsElement(s, p, r) /\ w = Append(u, Spelled(s, p, r))
      BY <1>1, <2>1, TextsMember
    <3>2. p = a
      <4>1. CASE p \in 1 .. a - 1
        BY <1>0, <1>1, <1>5, <3>1, <4>1
      <4> QED
        BY <1>4, <3>1, <4>1
    <3> QED
      BY <1>0, <3>1, <3>2
  <2>2. a \in 1 .. r - 1 /\ t \in Texts(s)[a]
    BY <1>0, <1>1
  <2> QED
    BY <1>1, <2>1, <2>2, TextsMember
<1>7. Texts(s)[r] = {Append(t, Spelled(s, a, r))}
  BY <1>6
<1>8. ASSUME NEW p \in 1 .. r - 1, Texts(s)[p] # {}
      PROVE  s[p + 1] # 34 /\ \A q : IsElement(s, p, q) => q <= r
  <2>1. CASE p = a
    BY <1>0, <1>1, <1>2, <2>1, ElementUnique
  <2>2. CASE p \in 1 .. a - 1
    <3>1. \A q : IsElement(s, p, q) => q \in Nat /\ q <= a
      BY <1>0, <1>5, <1>8, <2>2, ElementInside
    <3> QED
      BY <1>0, <1>1, <1>5, <1>8, <2>2, <3>1
  <2> QED
    BY <1>4, <1>8, <2>1, <2>2
<1> QED
  BY <1>1, <1>7, <1>8 DEF Cut

LEMMA LiteralsMember ==
  ASSUME NEW s, NEW l
  PROVE  l \in Literals(s) <=>
           /\ s # <<>> /\ s[1] = 34
           /\ \E r \in 2 .. Len(s) : s[r] = 34 /\ \E t \in Texts(s)[r - 1] : l = [text |-> t, end |-> r]
<1>1. CASE s = <<>> \/ s[1] # 34
  BY <1>1, Zenon DEF Literals
<1>2. CASE ~(s = <<>> \/ s[1] # 34)
  <2>1. Literals(s) =
          UNION {{[text |-> t, end |-> r] : t \in Texts(s)[r - 1]} : r \in {r \in 2 .. Len(s) : s[r] = 34}}
    BY <1>2, Zenon DEF Literals
  <2> QED
    BY <1>2, <2>1
<1> QED
  BY <1>1, <1>2

\* A quote at the cut closes the literal, which can be read in no other way.
LEMMA LiteralsClosed ==
  ASSUME NEW S, NEW s \in Seq(S), NEW a, NEW t, Cut(s, a, t), a < Len(s), s[1] = 34, s[a + 1] = 34
  PROVE  Literals(s) = {[text |-> t, end |-> a + 1]}
<1>0. a \in Nat /\ a >= 1 /\ a <= Len(s) /\ Len(s) \in Nat /\ Texts(s)[a] = {t} /\ s # <<>>
  BY DEF Cut
<1> DEFINE n == Len(s)
           K == {}
<1>1. \A p \in a + 1 .. n : Texts(s)[p] = {}
  <2>1. \A q : ~IsElement(s, a, q)
    BY <1>0, ElementUnique
  <2>2. \A u \in K : \A p \in 1 .. n, q \in 1 .. n : IsElement(s, p, q) => Append(u, Spelled(s, p, q)) \in K
    OBVIOUS
  <2> HIDE DEF K
  <2>3. \A p \in a + 1 .. n : p <= n => Texts(s)[p] \subseteq K
    BY <1>0, <2>1, <2>2, Beyond
  <2> QED
    BY <1>0, <2>3 DEF K
<1>2. ASSUME NEW r \in 2 .. n, s[r] = 34, NEW u \in Texts(s)[r - 1]
      PROVE  r = a + 1 /\ u = t
  <2>1. r - 1 \in Nat /\ r - 1 >= 1 /\ r - 1 < n
    BY <1>0
  <2>2. CASE r - 1 < a
    <3>1. r - 1 \in 1 .. a - 1 /\ (r - 1) + 1 = r
      BY <1>0, <2>1, <2>2
    <3> QED
      BY <1>2, <3>1 DEF Cut
  <2>3. CASE r - 1 = a
    BY <1>0, <1>2, <2>3
  <2>4. CASE r - 1 > a
    <3>1. r - 1 \in a + 1 .. n
      BY <1>0, <2>1, <2>4
    <3> QED
      BY <1>1, <1>2, <3>1
  <2> QED
    BY <1>0, <2>1, <2>2, <2>3, <2>4
<1>3. a + 1 \in 2 .. n /\ (a + 1) - 1 = a /\ t \in Texts(s)[a]
  BY <1>0
<1>4. ASSUME NEW l PROVE l \in Literals(s) <=> l = [text |-> t, end |-> a + 1]
  BY <1>0, <1>2, <1>3, LiteralsMember
<1> QED
  BY <1>4

\* What cannot be lost beyond a cut holds of every literal.
LEMMA LiteralsBeyond ==
  ASSUME NEW S, NEW s \in Seq(S), NEW a, NEW t, Cut(s, a, t), a = Len(s) \/ s[a + 1] # 34, NEW K,
         \A r : IsElement(s, a, r) => Append(t, Spelled(s, a, r)) \in K,
         \A u \in K : \A p \in 1 .. Len(s), r \in 1 .. Len(s) :
           IsElement(s, p, r) => Append(u, Spelled(s, p, r)) \in K
  PROVE  \A l \in Literals(s) : l.text \in K
<1>0. a \in Nat /\ a >= 1 /\ a <= Len(s) /\ Len(s) \in Nat
  BY DEF Cut
<1> DEFINE n == Len(s)
<1>1. \A p \in a + 1 .. n : Texts(s)[p] \subseteq K
  <2>1. \A p \in a + 1 .. n : p <= n => Texts(s)[p] \subseteq K
    BY <1>0, Beyond
  <2> QED
    BY <1>0, <2>1
<1>2. ASSUME NEW r \in 2 .. n, s[r] = 34, NEW u \in Texts(s)[r - 1]
      PROVE  u \in K
  <2>1. r - 1 \in Nat /\ r - 1 >= 1 /\ r - 1 < n
    BY <1>0
  <2>2. CASE r - 1 < a
    <3>1. r - 1 \in 1 .. a - 1 /\ (r - 1) + 1 = r
      BY <1>0, <2>1, <2>2
    <3> QED
      BY <1>2, <3>1 DEF Cut
  <2>3. CASE r - 1 = a
    BY <1>0, <1>2, <2>1, <2>3
  <2>4. CASE r - 1 > a
    <3>1. r - 1 \in a + 1 .. n
      BY <1>0, <2>1, <2>4
    <3> QED
      BY <1>1, <1>2, <3>1
  <2> QED
    BY <1>0, <2>1, <2>2, <2>3, <2>4
<1>3. ASSUME NEW l \in Literals(s) PROVE l.text \in K
  <2>1. PICK r \in 2 .. n : s[r] = 34 /\ \E u \in Texts(s)[r - 1] : l = [text |-> u, end |-> r]
    BY LiteralsMember
  <2>2. PICK u \in Texts(s)[r - 1] : l = [text |-> u, end |-> r]
    BY <2>1
  <2> QED
    BY <1>2, <2>1, <2>2
<1> QED
  BY <1>3

--------------------------------------------------------------------------------
(* The escapes of the code are the escapes of the grammar. *)

LEMMA NoncharacterOf ==
  ASSUME NEW c \in Nat
  PROVE  IsNoncharacter(c) <=> (c \in 64976 .. 65007 \/ (c + 2) % 65536 < 2)
<1>1. c % 65536 \in {65534, 65535} <=> (c + 2) % 65536 < 2
  OBVIOUS
<1> QED
  BY <1>1 DEF IsNoncharacter

LEMMA NoncharacterIn ==
  ASSUME NEW t \in Seq(Scalar)
  PROVE  HasNoncharacter(t) <=> \E i \in DOMAIN t : IsNoncharacter(t[i])
<1>1. \A i \in DOMAIN t : t[i] \in Nat
  BY DEF Scalar
<1>2. \A i \in DOMAIN t :
        IsNoncharacter(t[i]) <=> (t[i] \in 64976 .. 65007 \/ (t[i] + 2) % 65536 < 2)
  <2>1. \A c \in Nat : IsNoncharacter(c) <=> (c \in 64976 .. 65007 \/ (c + 2) % 65536 < 2)
    BY NoncharacterOf
  <2> TAKE i \in DOMAIN t
  <2> DEFINE c == t[i]
  <2>2. c \in Nat
    BY <1>1
  <2> HIDE DEF c
  <2>3. IsNoncharacter(c) <=> (c \in 64976 .. 65007 \/ (c + 2) % 65536 < 2)
    BY <2>1, <2>2
  <2> QED
    BY <2>3 DEF c
<1>3. HasNoncharacter(t) <=> \E i \in DOMAIN t : (t[i] \in 64976 .. 65007 \/ (t[i] + 2) % 65536 < 2)
  BY DEF HasNoncharacter
<1> QED
  <2>1. ASSUME HasNoncharacter(t) PROVE \E i \in DOMAIN t : IsNoncharacter(t[i])
    BY <1>2, <1>3, <2>1
  <2>2. ASSUME NEW i \in DOMAIN t, IsNoncharacter(t[i]) PROVE HasNoncharacter(t)
    BY <1>2, <1>3, <2>2
  <2> QED
    BY <2>1, <2>2

LEMMA NoncharacterAppend ==
  ASSUME NEW t \in Seq(Scalar), NEW c \in Scalar
  PROVE  HasNoncharacter(Append(t, c)) <=> HasNoncharacter(t) \/ IsNoncharacter(c)
<1>1. Append(t, c) \in Seq(Scalar) /\ Len(Append(t, c)) = Len(t) + 1 /\ Len(t) \in Nat
  OBVIOUS
<1>2. \A i \in 1 .. Len(t) : Append(t, c)[i] = t[i]
  OBVIOUS
<1>3. Append(t, c)[Len(t) + 1] = c
  OBVIOUS
<1>4. DOMAIN t = 1 .. Len(t) /\ DOMAIN Append(t, c) = 1 .. Len(t) + 1
  OBVIOUS
<1>5. \A i \in 1 .. Len(t) + 1 : i \in 1 .. Len(t) \/ i = Len(t) + 1
  BY <1>1
<1>6. Len(t) + 1 \in 1 .. Len(t) + 1 /\ \A i \in 1 .. Len(t) : i \in 1 .. Len(t) + 1
  BY <1>1
<1>7. HasNoncharacter(Append(t, c)) <=> \E i \in 1 .. Len(t) + 1 : IsNoncharacter(Append(t, c)[i])
  BY <1>1, <1>4, NoncharacterIn
<1>8. HasNoncharacter(t) <=> \E i \in 1 .. Len(t) : IsNoncharacter(t[i])
  BY <1>4, NoncharacterIn
<1> QED
  BY <1>2, <1>3, <1>5, <1>6, <1>7, <1>8, Zenon

LEMMA HexAgrees ==
  ASSUME NEW c \in Nat
  PROVE  /\ c \in HexDigits <=> hexVal(c) # -1
         /\ c \in HexDigits => DigitValue(c) = hexVal(c)
  BY DEF HexDigits, hexVal, DigitValue

\* At an offset of the input, At is the code point after it.
LEMMA AtOffset ==
  ASSUME TypeOK, NEW p \in Nat, p < Len(data)
  PROVE  At(p) = data[p + 1] /\ ~AtEnd(p) /\ data[p + 1] \in Scalar /\ data[p + 1] \in Nat
<1>1. Len(data) \in Nat /\ ~AtEnd(p)
  BY Bounds DEF AtEnd
<1> QED
  BY <1>1, Bounds DEF At, Scalar

LEMMA UnitRead ==
  ASSUME TypeOK, NEW p \in Nat, IsMarked(data, p)
  PROVE  /\ IsUnit(data, p) <=> readHex4(p + 2) # -1
         /\ IsUnit(data, p) => UnitAt(data, p) = readHex4(p + 2) /\ UnitAt(data, p) \in Unit
<1> DEFINE n == Len(data)
           q == p + 2
<1>0. n \in Nat /\ q \in Nat
  BY Bounds
<1>1. CASE q + 4 > n
  <2>1. ~(p + 6 <= n)
    BY <1>0, <1>1
  <2> QED
    BY <1>1, <2>1 DEF readHex4, IsUnit
<1>2. CASE q + 4 <= n
  <2>1. \A i \in 0 .. 3 : q + i \in Nat /\ q + i < n /\ (q + i) + 1 = (p + 3) + i
    BY <1>0, <1>2
  <2>2. ASSUME NEW i \in 0 .. 3
        PROVE  /\ data[(p + 3) + i] \in HexDigits <=> hexVal(At(q + i)) # -1
               /\ data[(p + 3) + i] \in HexDigits => DigitValue(data[(p + 3) + i]) = hexVal(At(q + i))
    <3>1. At(q + i) = data[(p + 3) + i] /\ data[(p + 3) + i] \in Nat
      <4>1. At(q + i) = data[(q + i) + 1] /\ data[(q + i) + 1] \in Nat
        BY <2>1, AtOffset
      <4> QED
        BY <2>1, <4>1
    <3> QED
      BY <3>1, HexAgrees
  <2>3. (\A i \in p + 3 .. p + 6 : data[i] \in HexDigits) <=> \A i \in 0 .. 3 : hexVal(At(q + i)) # -1
    <3>1. ASSUME \A i \in p + 3 .. p + 6 : data[i] \in HexDigits, NEW i \in 0 .. 3
          PROVE  hexVal(At(q + i)) # -1
      <4>1. (p + 3) + i \in p + 3 .. p + 6
        OBVIOUS
      <4> QED
        BY <2>2, <3>1, <4>1
    <3>2. ASSUME \A i \in 0 .. 3 : hexVal(At(q + i)) # -1, NEW j \in p + 3 .. p + 6
          PROVE  data[j] \in HexDigits
      <4>1. j - (p + 3) \in 0 .. 3 /\ (p + 3) + (j - (p + 3)) = j
        OBVIOUS
      <4> QED
        BY <2>2, <3>2, <4>1
    <3> QED
      BY <3>1, <3>2
  <2>4. p + 6 <= n /\ ~(q + 4 > n)
    BY <1>0, <1>2
  <2>5. IsUnit(data, p) <=> \A i \in 0 .. 3 : hexVal(At(q + i)) # -1
    BY <2>3, <2>4 DEF IsUnit
  <2>6. CASE ~IsUnit(data, p)
    <3>1. readHex4(q) = -1
      BY <2>5, <2>6 DEF readHex4
    <3> QED
      BY <2>6, <3>1
  <2>7. CASE IsUnit(data, p)
    <3>1. \A i \in 0 .. 3 : hexVal(At(q + i)) # -1
      BY <2>5, <2>7
    <3>2. readHex4(q) = 4096 * hexVal(At(q)) + 256 * hexVal(At(q + 1)) + 16 * hexVal(At(q + 2))
                          + hexVal(At(q + 3))
      BY <2>4, <3>1 DEF readHex4
    <3>3. /\ DigitValue(data[p + 3]) = hexVal(At(q)) /\ DigitValue(data[p + 4]) = hexVal(At(q + 1))
          /\ DigitValue(data[p + 5]) = hexVal(At(q + 2)) /\ DigitValue(data[p + 6]) = hexVal(At(q + 3))
      <4>1. \A i \in 0 .. 3 : DigitValue(data[(p + 3) + i]) = hexVal(At(q + i))
        BY <2>2, <3>1
      <4>2. /\ (p + 3) + 0 = p + 3 /\ (p + 3) + 1 = p + 4 /\ (p + 3) + 2 = p + 5 /\ (p + 3) + 3 = p + 6
            /\ q + 0 = q
        BY <1>0
      <4>3. 0 \in 0 .. 3 /\ 1 \in 0 .. 3 /\ 2 \in 0 .. 3 /\ 3 \in 0 .. 3
        OBVIOUS
      <4> HIDE DEF q
      <4>4. /\ DigitValue(data[(p + 3) + 0]) = hexVal(At(q + 0))
            /\ DigitValue(data[(p + 3) + 1]) = hexVal(At(q + 1))
            /\ DigitValue(data[(p + 3) + 2]) = hexVal(At(q + 2))
            /\ DigitValue(data[(p + 3) + 3]) = hexVal(At(q + 3))
        BY <4>1, <4>3, Zenon
      <4> QED
        BY <4>2, <4>4, Zenon
    <3>4. UnitAt(data, p) = readHex4(q)
      <4>1. UnitAt(data, p) = 4096 * DigitValue(data[p + 3]) + 256 * DigitValue(data[p + 4])
                                + 16 * DigitValue(data[p + 5]) + DigitValue(data[p + 6])
        BY DEF UnitAt
      <4> HIDE DEF q
      <4> QED
        BY <3>2, <3>3, <4>1
    <3>5. readHex4(q) \in Unit
      <4>1. ~(\E i \in 0 .. 3 : hexVal(At(q + i)) = -1)
        BY <3>1
      <4>2. readHex4(q) # -1
        <5>1. \A i \in 0 .. 3 : hexVal(At(q + i)) \in 0 .. 15
          <6> SUFFICES ASSUME NEW i \in 0 .. 3 PROVE hexVal(At(q + i)) \in 0 .. 15
            OBVIOUS
          <6>1. At(q + i) \in Scalar
            BY <2>1, AtOffset
          <6>2. hexVal(At(q + i)) \in -1 .. 15 /\ hexVal(At(q + i)) # -1
            BY <3>1, <6>1, HexDigit
          <6>3. \A v \in -1 .. 15 : v # -1 => v \in 0 .. 15
            OBVIOUS
          <6> QED
            BY <6>2, <6>3
        <5>2. /\ hexVal(At(q)) \in 0 .. 15 /\ hexVal(At(q + 1)) \in 0 .. 15
              /\ hexVal(At(q + 2)) \in 0 .. 15 /\ hexVal(At(q + 3)) \in 0 .. 15
          <6>1. q + 0 = q
            BY <1>0
          <6> HIDE DEF q
          <6> QED
            BY <5>1, <6>1
        <5>3. \A a, b, c, d \in 0 .. 15 : 4096 * a + 256 * b + 16 * c + d # -1
          OBVIOUS
        <5> HIDE DEF q
        <5>4. PICK a, b, c, d \in 0 .. 15 :
                /\ a = hexVal(At(q)) /\ b = hexVal(At(q + 1))
                /\ c = hexVal(At(q + 2)) /\ d = hexVal(At(q + 3))
          BY <5>2, Zenon
        <5>5. 4096 * a + 256 * b + 16 * c + d # -1
          BY <5>3
        <5> QED
          BY <3>2, <5>4, <5>5
      <4> HIDE DEF q
      <4> QED
        BY <1>0, <4>2, FourDigits
    <3>6. readHex4(q) # -1
      BY <3>5 DEF Unit
    <3> QED
      BY <2>7, <3>4, <3>5, <3>6
  <2> QED
    BY <2>6, <2>7
<1> QED
  BY <1>0, <1>1, <1>2

IsHighAt(p) == IsUnit(data, p) /\ UnitAt(data, p) \in HighUnits

\* What is wrong with the escape at p, as ErrorLocated has it.
FaultAt(p, class, offset) ==
  \/ class = "INVALID_GRAMMAR" /\ offset = p /\ IsMalformed(p)
  \/ /\ class = "INVALID_GRAMMAR" /\ offset = p + 6
     /\ IsHighAt(p) /\ IsMarked(data, p + 6) /\ IsMalformed(p + 6)
  \/ /\ class = "LONE_SURROGATE" /\ offset = p /\ IsUnit(data, p)
     /\ \/ UnitAt(data, p) \in LowUnits
        \/ UnitAt(data, p) \in HighUnits /\ ~IsMarked(data, p + 6)
  \/ /\ class = "LONE_SURROGATE" /\ offset = p + 6
     /\ IsHighAt(p) /\ IsUnit(data, p + 6) /\ UnitAt(data, p + 6) \notin LowUnits

\* The code reads the element at p, or finds that there is none.
Reads(p, e) ==
  /\ e.class = "ok" => IsElement(data, p, e.next) /\ Spelled(data, p, e.next) = e.rune
  /\ e.class # "ok" => (\A r : ~IsElement(data, p, r)) /\ FaultAt(p, e.class, e.next)

LEMMA ReadsRune ==
  ASSUME NEW p, NEW c, NEW next, IsElement(data, p, next), Spelled(data, p, next) = c
  PROVE  Reads(p, Rune(c, next))
  BY DEF Reads, Rune

LEMMA ReadsError ==
  ASSUME NEW p, NEW class, class # "ok", NEW offset, \A r : ~IsElement(data, p, r),
         FaultAt(p, class, offset)
  PROVE  Reads(p, EscapeError(class, offset))
  BY DEF Reads, EscapeError

LEMMA UnitRange ==
  ASSUME NEW r \in Unit
  PROVE  (IsLow(r) <=> r \in LowUnits) /\ (IsHigh(r) <=> r \in HighUnits)
  BY DEF Unit, IsLow, IsHigh, LowUnits, HighUnits

LEMMA MarkedIsNoShort ==
  ASSUME NEW p, IsMarked(data, p)
  PROVE  ~IsCharacter(data, p) /\ ~IsShortEscape(data, p)
  BY DEF IsMarked, IsCharacter, IsShortEscape, ShortEscapes

\* A unit alone is an element; a high one is one with the low one after it.
LEMMA MarkedElements ==
  ASSUME NEW p, IsMarked(data, p), NEW r
  PROVE  IsElement(data, p, r) <=>
           \/ r = p + 6 /\ IsUnit(data, p) /\ UnitAt(data, p) \notin HighUnits \cup LowUnits
           \/ r = p + 12 /\ IsPair(data, p)
  BY MarkedIsNoShort DEF IsElement

LEMMA SpelledUnit ==
  ASSUME NEW s, NEW p \in Nat
  PROVE  /\ Spelled(s, p, p + 6) = UnitAt(s, p)
         /\ Spelled(s, p, p + 12) = 65536 + 1024 * (UnitAt(s, p) - 55296) + (UnitAt(s, p + 6) - 56320)
<1>1. /\ p + 6 # p + 1 /\ p + 6 # p + 2
      /\ p + 12 # p + 1 /\ p + 12 # p + 2 /\ p + 12 # p + 6
  OBVIOUS
<1>2. Spelled(s, p, p + 6) = UnitAt(s, p)
  BY <1>1, SMT DEF Spelled
<1>3. Spelled(s, p, p + 12) = 65536 + 1024 * (UnitAt(s, p) - 55296) + (UnitAt(s, p + 6) - 56320)
  BY <1>1, SMT DEF Spelled
<1> QED
  BY <1>2, <1>3

LEMMA LowSurrogateReads ==
  ASSUME TypeOK, NEW p \in Nat, IsHighAt(p), NEW high, high = UnitAt(data, p)
  PROVE  Reads(p, lowSurrogate(high, p + 6, p))
<1> DEFINE q == p + 6
           r == readHex4(q + 2)
           n == Len(data)
<1>0. n \in Nat /\ q \in Nat /\ q <= n /\ IsMarked(data, p) /\ q + 1 \in Nat /\ (q + 1) + 1 = q + 2
  BY Bounds DEF IsHighAt, IsUnit
<1>1. HighUnits \cap LowUnits = {} /\ UnitAt(data, p) \in HighUnits /\ IsUnit(data, p)
  BY DEF HighUnits, LowUnits, IsHighAt
<1>2. (AtEnd(q + 1) \/ At(q) # Backslash \/ At(q + 1) # LowerU) <=> ~IsMarked(data, q)
  <2>1. CASE q + 1 >= n
    BY <1>0, <2>1 DEF AtEnd, IsMarked
  <2>2. CASE q + 1 < n
    <3>1. At(q) = data[q + 1] /\ At(q + 1) = data[(q + 1) + 1] /\ ~AtEnd(q + 1)
      <4>1. q < n
        BY <1>0, <2>2
      <4> HIDE DEF q
      <4> QED
        BY <1>0, <2>2, <4>1, AtOffset
    <3>2. q + 2 <= n
      BY <1>0, <2>2
    <3> QED
      BY <1>0, <3>1, <3>2 DEF IsMarked, Backslash, LowerU
  <2> QED
    BY <1>0, <2>1, <2>2
<1>3. IsPair(data, p) <=> IsUnit(data, q) /\ UnitAt(data, q) \in LowUnits
  BY <1>1 DEF IsPair
<1>4. \A x : IsElement(data, p, x) <=> x = p + 12 /\ IsPair(data, p)
  <2>1. \A x : IsElement(data, p, x) <=>
           \/ x = p + 6 /\ IsUnit(data, p) /\ UnitAt(data, p) \notin HighUnits \cup LowUnits
           \/ x = p + 12 /\ IsPair(data, p)
    BY <1>0, MarkedElements
  <2> QED
    BY <1>1, <2>1
<1>5. CASE ~IsMarked(data, q)
  <2>1. lowSurrogate(high, q, p) = EscapeError("LONE_SURROGATE", p)
    BY <1>2, <1>5 DEF lowSurrogate
  <2>2. ~IsUnit(data, q)
    BY <1>5 DEF IsUnit
  <2>3. FaultAt(p, "LONE_SURROGATE", p)
    BY <1>1, <1>5 DEF FaultAt
  <2> QED
    BY <1>3, <1>4, <2>1, <2>2, <2>3, ReadsError
<1>6. CASE IsMarked(data, q)
  <2>0. /\ IsUnit(data, q) <=> r # -1
        /\ IsUnit(data, q) => UnitAt(data, q) = r /\ r \in Unit
    <3> HIDE DEF q
    <3> QED
      BY <1>0, <1>6, UnitRead
  <2>1. CASE r = -1
    <3>1. lowSurrogate(high, q, p) = EscapeError("INVALID_GRAMMAR", q)
      BY <1>2, <1>6, <2>1 DEF lowSurrogate
    <3>2. IsMalformed(q)
      <4>1. At(q) = Backslash /\ Backslash # Quote
        BY <1>2, <1>6 DEF Backslash, Quote
      <4>2. ~IsCharacter(data, q) /\ ~IsShortEscape(data, q)
        BY <1>6, MarkedIsNoShort
      <4> HIDE DEF q
      <4> QED
        BY <2>0, <2>1, <4>1, <4>2 DEF IsMalformed
    <3>3. FaultAt(p, "INVALID_GRAMMAR", q)
      BY <1>6, <3>2 DEF FaultAt
    <3> QED
      BY <1>3, <1>4, <2>0, <2>1, <3>1, <3>3, ReadsError
  <2>2. CASE r # -1 /\ ~IsLow(r)
    <3>1. lowSurrogate(high, q, p) = EscapeError("LONE_SURROGATE", q)
      BY <1>2, <1>6, <2>2 DEF lowSurrogate
    <3>2. UnitAt(data, q) \notin LowUnits /\ IsUnit(data, q)
      BY <2>0, <2>2, UnitRange
    <3>3. FaultAt(p, "LONE_SURROGATE", q)
      BY <3>2 DEF FaultAt
    <3> QED
      BY <1>3, <1>4, <3>1, <3>2, <3>3, ReadsError
  <2>3. CASE r # -1 /\ IsLow(r)
    <3>1. lowSurrogate(high, q, p) = Rune(Pair(high, r), q + 6)
      BY <1>2, <1>6, <2>3 DEF lowSurrogate
    <3>2. UnitAt(data, q) \in LowUnits /\ IsUnit(data, q) /\ UnitAt(data, q) = r /\ r \in Unit
      BY <2>0, <2>3, UnitRange
    <3>3. q + 6 = p + 12
      OBVIOUS
    <3>4. IsElement(data, p, q + 6)
      BY <1>3, <1>4, <3>2, <3>3
    <3>5. Spelled(data, p, q + 6) = Pair(high, r)
      <4>1. Spelled(data, p, p + 12) = 65536 + 1024 * (UnitAt(data, p) - 55296) + (UnitAt(data, q) - 56320)
        BY SpelledUnit
      <4>2. high \in Int
        BY <1>1 DEF HighUnits
      <4>3. 65536 + 1024 * (high - 55296) + (r - 56320) = Pair(high, r)
        <5> HIDE DEF r
        <5> QED
          BY <3>2, <4>2 DEF Pair, Unit
      <4> QED
        BY <3>2, <3>3, <4>1, <4>3
    <3> QED
      BY <3>1, <3>4, <3>5, ReadsRune
  <2> QED
    BY <2>1, <2>2, <2>3
<1> QED
  BY <1>5, <1>6

LEMMA UnicodeEscapeReads ==
  ASSUME TypeOK, NEW p \in Nat, IsMarked(data, p)
  PROVE  Reads(p, parseUnicodeEscape(p + 2, p))
<1> DEFINE r == readHex4(p + 2)
<1>0. /\ IsUnit(data, p) <=> r # -1
      /\ IsUnit(data, p) => UnitAt(data, p) = r /\ r \in Unit
  BY UnitRead
<1>1. /\ p < Len(data) /\ At(p) = Backslash /\ Backslash # Quote
      /\ ~IsCharacter(data, p) /\ ~IsShortEscape(data, p)
  <2>1. p < Len(data)
    BY Bounds DEF IsMarked
  <2>2. At(p) = Backslash /\ Backslash # Quote
    BY <2>1, AtOffset DEF IsMarked, Backslash, Quote
  <2> QED
    BY <2>1, <2>2, MarkedIsNoShort
<1>2. HighUnits \cap LowUnits = {}
  BY DEF HighUnits, LowUnits
<1>3. \A x : IsElement(data, p, x) <=>
           \/ x = p + 6 /\ IsUnit(data, p) /\ UnitAt(data, p) \notin HighUnits \cup LowUnits
           \/ x = p + 12 /\ IsPair(data, p)
  BY MarkedElements
<1>4. IsPair(data, p) => IsUnit(data, p) /\ UnitAt(data, p) \in HighUnits
  BY DEF IsPair
<1>5. CASE r = -1
  <2>1. parseUnicodeEscape(p + 2, p) = EscapeError("INVALID_GRAMMAR", p)
    BY <1>5 DEF parseUnicodeEscape
  <2>2. FaultAt(p, "INVALID_GRAMMAR", p)
    BY <1>0, <1>1, <1>5 DEF FaultAt, IsMalformed
  <2>3. \A x : ~IsElement(data, p, x)
    BY <1>0, <1>3, <1>4, <1>5
  <2> QED
    BY <2>1, <2>2, <2>3, ReadsError
<1>6. CASE r # -1 /\ IsLow(r)
  <2>1. parseUnicodeEscape(p + 2, p) = EscapeError("LONE_SURROGATE", p)
    BY <1>6 DEF parseUnicodeEscape
  <2>2. IsUnit(data, p) /\ UnitAt(data, p) \in LowUnits
    BY <1>0, <1>6, UnitRange
  <2>3. FaultAt(p, "LONE_SURROGATE", p)
    BY <2>2 DEF FaultAt
  <2>4. \A x : ~IsElement(data, p, x)
    BY <1>2, <1>3, <1>4, <2>2
  <2> QED
    BY <2>1, <2>3, <2>4, ReadsError
<1>7. CASE r # -1 /\ ~IsLow(r) /\ ~IsHigh(r)
  <2>1. parseUnicodeEscape(p + 2, p) = Rune(r, p + 6)
    <3>1. (p + 2) + 4 = p + 6
      OBVIOUS
    <3> QED
      BY <1>7, <3>1 DEF parseUnicodeEscape
  <2>2. IsUnit(data, p) /\ UnitAt(data, p) = r /\ r \notin HighUnits \cup LowUnits
    BY <1>0, <1>7, UnitRange
  <2>3. IsElement(data, p, p + 6) /\ Spelled(data, p, p + 6) = r
    BY <1>3, <2>2, SpelledUnit
  <2> QED
    BY <2>1, <2>3, ReadsRune
<1>8. CASE r # -1 /\ ~IsLow(r) /\ IsHigh(r)
  <2>1. parseUnicodeEscape(p + 2, p) = lowSurrogate(r, p + 6, p)
    <3>1. (p + 2) + 4 = p + 6
      OBVIOUS
    <3> QED
      BY <1>8, <3>1 DEF parseUnicodeEscape
  <2>2. IsHighAt(p) /\ r = UnitAt(data, p)
    BY <1>0, <1>8, UnitRange DEF IsHighAt
  <2> HIDE DEF r
  <2>3. Reads(p, lowSurrogate(r, p + 6, p))
    BY <2>2, LowSurrogateReads
  <2> QED
    BY <2>1, <2>3
<1> QED
  BY <1>5, <1>6, <1>7, <1>8

LEMMA ShortEscape ==
  ASSUME NEW c \in Nat
  PROVE  /\ (\E e \in ShortEscapes : e[1] = c) <=> escapedRune(c) # -1
         /\ escapedRune(c) # -1 => (CHOOSE e \in ShortEscapes : e[1] = c)[2] = escapedRune(c)
<1>1. (\E e \in ShortEscapes : e[1] = c) <=> c \in {34, 92, 47, 98, 102, 110, 114, 116}
  BY DEF ShortEscapes
<1>2. escapedRune(c) # -1 <=> c \in {34, 92, 47, 98, 102, 110, 114, 116}
  BY DEF escapedRune, Quote, Backslash
<1>3. \A e \in ShortEscapes : e[2] = escapedRune(e[1])
  BY DEF ShortEscapes, escapedRune, Quote, Backslash
<1>4. ASSUME escapedRune(c) # -1
      PROVE  (CHOOSE e \in ShortEscapes : e[1] = c)[2] = escapedRune(c)
  <2> DEFINE e == CHOOSE e \in ShortEscapes : e[1] = c
  <2>1. \E x \in ShortEscapes : x[1] = c
    BY <1>1, <1>2, <1>4
  <2>2. e \in ShortEscapes /\ e[1] = c
    BY <2>1
  <2> HIDE DEF e
  <2>3. e[2] = escapedRune(c)
    BY <1>3, <2>2
  <2> QED
    BY <2>3 DEF e
<1> QED
  BY <1>1, <1>2, <1>4

LEMMA EscapeReads ==
  ASSUME TypeOK, NEW p \in Nat, p < Len(data), At(p) = Backslash
  PROVE  Reads(p, parseEscape(p + 1))
<1> DEFINE n == Len(data)
           q == p + 1
<1>0. n \in Nat /\ q \in Nat /\ q - 1 = p /\ q + 1 = p + 2 /\ data[p + 1] = 92 /\ Backslash # Quote
  BY Bounds, AtOffset DEF Backslash, Quote
<1>1. ~IsCharacter(data, p)
  BY <1>0 DEF IsCharacter
<1>2. CASE AtEnd(q)
  <2>1. parseEscape(q) = EscapeError("INVALID_GRAMMAR", p)
    BY <1>0, <1>2 DEF parseEscape
  <2>2. ~(p + 2 <= n)
    BY <1>0, <1>2 DEF AtEnd
  <2>3. ~IsShortEscape(data, p) /\ ~IsUnit(data, p) /\ ~IsPair(data, p)
    BY <2>2 DEF IsShortEscape, IsUnit, IsMarked, IsPair
  <2>4. FaultAt(p, "INVALID_GRAMMAR", p)
    BY <1>0, <1>1, <2>3 DEF FaultAt, IsMalformed
  <2>5. \A x : ~IsElement(data, p, x)
    BY <1>1, <2>3 DEF IsElement
  <2> QED
    BY <2>1, <2>4, <2>5, ReadsError
<1>3. CASE ~AtEnd(q)
  <2>1. q < n /\ p + 2 <= n
    BY <1>0, <1>3 DEF AtEnd
  <2>2. At(q) = data[p + 2] /\ data[p + 2] \in Nat
    <3> HIDE DEF q
    <3> QED
      BY <1>0, <2>1, AtOffset
  <2>3. IsMarked(data, p) <=> At(q) = LowerU
    BY <1>0, <2>1, <2>2 DEF IsMarked, LowerU
  <2>4. IsShortEscape(data, p) <=> escapedRune(At(q)) # -1
    <3>1. IsShortEscape(data, p) <=> \E e \in ShortEscapes : e[1] = data[p + 2]
      BY <1>0, <2>1 DEF IsShortEscape
    <3> QED
      BY <2>2, <3>1, ShortEscape
  <2>5. CASE At(q) = LowerU
    <3>1. parseEscape(q) = parseUnicodeEscape(p + 2, p)
      BY <1>0, <1>3, <2>5 DEF parseEscape
    <3>2. Reads(p, parseUnicodeEscape(p + 2, p))
      BY <2>3, <2>5, UnicodeEscapeReads
    <3> QED
      BY <3>1, <3>2
  <2>6. CASE At(q) # LowerU /\ escapedRune(At(q)) = -1
    <3>1. parseEscape(q) = EscapeError("INVALID_GRAMMAR", p)
      BY <1>0, <1>3, <2>6 DEF parseEscape
    <3>2. ~IsShortEscape(data, p) /\ ~IsUnit(data, p) /\ ~IsPair(data, p)
      BY <2>3, <2>4, <2>6 DEF IsUnit, IsPair
    <3>3. FaultAt(p, "INVALID_GRAMMAR", p)
      BY <1>0, <1>1, <3>2 DEF FaultAt, IsMalformed
    <3>4. \A x : ~IsElement(data, p, x)
      BY <1>1, <3>2 DEF IsElement
    <3> QED
      BY <3>1, <3>3, <3>4, ReadsError
  <2>7. CASE At(q) # LowerU /\ escapedRune(At(q)) # -1
    <3>1. parseEscape(q) = Rune(escapedRune(At(q)), p + 2)
      BY <1>0, <1>3, <2>7 DEF parseEscape
    <3>2. IsElement(data, p, p + 2)
      BY <2>4, <2>7 DEF IsElement
    <3>3. Spelled(data, p, p + 2) = escapedRune(At(q))
      <4>1. Spelled(data, p, p + 2) = (CHOOSE e \in ShortEscapes : e[1] = data[p + 2])[2]
        <5>1. p + 2 # p + 1
          OBVIOUS
        <5> QED
          BY <5>1, SMT DEF Spelled
      <4> QED
        BY <2>2, <2>7, <4>1, ShortEscape
    <3> QED
      BY <3>1, <3>2, <3>3, ReadsRune
  <2> QED
    BY <2>5, <2>6, <2>7
<1> QED
  BY <1>2, <1>3

--------------------------------------------------------------------------------
(* What an element spells, and what a text that is not fit cannot lose. *)

LEMMA SpelledIsScalar ==
  ASSUME TypeOK, NEW p \in Nat, NEW r, IsElement(data, p, r)
  PROVE  Spelled(data, p, r) \in Scalar
<1>0. Len(data) \in Nat
  BY Bounds
<1>1. CASE r = p + 1 /\ IsCharacter(data, p)
  <2>1. p < Len(data) /\ Spelled(data, p, r) = data[r]
    BY <1>0, <1>1, SMT DEF IsCharacter, Spelled
  <2> QED
    BY <1>1, <2>1, AtOffset
<1>2. CASE r = p + 2 /\ IsShortEscape(data, p)
  <2>1. p + 2 # p + 1 /\ (p + 1) + 1 = p + 2 /\ p + 1 < Len(data) /\ p + 1 \in Nat
    BY <1>0, <1>2 DEF IsShortEscape
  <2>2. Spelled(data, p, r) = (CHOOSE e \in ShortEscapes : e[1] = data[p + 2])[2]
    BY <1>2, <2>1, SMT DEF Spelled
  <2>3. data[p + 2] \in Nat
    BY <2>1, AtOffset
  <2>4. escapedRune(data[p + 2]) # -1
    BY <1>2, <2>3, ShortEscape DEF IsShortEscape
  <2>5. Spelled(data, p, r) = escapedRune(data[p + 2])
    BY <2>2, <2>3, <2>4, ShortEscape
  <2> QED
    BY <2>4, <2>5 DEF escapedRune, Scalar, Quote, Backslash
<1>3. CASE r = p + 6 /\ IsUnit(data, p) /\ UnitAt(data, p) \notin HighUnits \cup LowUnits
  <2>1. UnitAt(data, p) \in Unit
    BY <1>3, UnitRead DEF IsUnit
  <2>2. Spelled(data, p, r) = UnitAt(data, p)
    BY <1>3, SpelledUnit
  <2> QED
    BY <1>3, <2>1, <2>2 DEF Unit, HighUnits, LowUnits, Scalar
<1>4. CASE r = p + 12 /\ IsPair(data, p)
  <2>1. UnitAt(data, p) \in HighUnits /\ UnitAt(data, p + 6) \in LowUnits
    BY <1>4 DEF IsPair
  <2>2. Spelled(data, p, r) = 65536 + 1024 * (UnitAt(data, p) - 55296) + (UnitAt(data, p + 6) - 56320)
    BY <1>4, SpelledUnit
  <2>3. \A h \in HighUnits, l \in LowUnits : 65536 + 1024 * (h - 55296) + (l - 56320) \in Scalar
    BY DEF HighUnits, LowUnits, Scalar
  <2> QED
    BY <2>1, <2>2, <2>3
<1> QED
  BY <1>1, <1>2, <1>3, <1>4 DEF IsElement

Unfit == {t \in Seq(Scalar) : ~IsFit(t)}

LEMMA MaxType == maxStringBytes \in Nat
  BY InputAssumption

LEMMA UnfitAppend ==
  ASSUME NEW t \in Unfit, NEW c \in Scalar
  PROVE  Append(t, c) \in Unfit
<1>1. t \in Seq(Scalar) /\ ~IsFit(t) /\ Append(t, c) \in Seq(Scalar)
  BY DEF Unfit
<1>2. HasNoncharacter(t) => HasNoncharacter(Append(t, c))
  BY <1>1, NoncharacterAppend
<1>3. Bytes(t) \in Nat /\ Bytes(Append(t, c)) = Bytes(t) + Utf8Width(c) /\ Utf8Width(c) \in 1 .. 4
  BY <1>1, BytesAppend, WidthType
<1>4. ~(Bytes(t) <= maxStringBytes) => ~(Bytes(Append(t, c)) <= maxStringBytes)
  BY <1>3, MaxType
<1> QED
  BY <1>1, <1>2, <1>4 DEF Unfit, IsFit

\* When no element at the cut leaves the text fit, no literal is.
LEMMA NoneFits ==
  ASSUME IInv, Cut(data, pos, buf), pos = Len(data) \/ data[pos + 1] # 34,
         \A r : IsElement(data, pos, r) => ~IsFit(Append(buf, Spelled(data, pos, r)))
  PROVE  \A l \in Literals(data) : ~IsFit(l.text)
<1>0. TypeOK /\ pos \in Nat /\ Len(data) \in Nat /\ data \in Seq(Scalar) /\ buf \in Seq(Scalar)
  BY Bounds DEF IInv, TypeOK, IsText
<1>1. ASSUME NEW r, IsElement(data, pos, r) PROVE Append(buf, Spelled(data, pos, r)) \in Unfit
  <2>1. Spelled(data, pos, r) \in Scalar
    BY <1>0, <1>1, SpelledIsScalar
  <2>2. Append(buf, Spelled(data, pos, r)) \in Seq(Scalar)
    BY <1>0, <2>1
  <2> QED
    BY <1>1, <2>2 DEF Unfit
<1>2. ASSUME NEW u \in Unfit, NEW p \in 1 .. Len(data), NEW r \in 1 .. Len(data), IsElement(data, p, r)
      PROVE  Append(u, Spelled(data, p, r)) \in Unfit
  <2>1. Spelled(data, p, r) \in Scalar
    BY <1>0, <1>2, SpelledIsScalar
  <2> QED
    BY <1>2, <2>1, UnfitAppend
<1>3. \A l \in Literals(data) : l.text \in Unfit
  BY <1>0, <1>1, <1>2, LiteralsBeyond
<1> QED
  BY <1>3 DEF Unfit

\* What has been read is sound.
LEMMA SoundHere ==
  ASSUME IInv, Cut(data, pos, buf)
  PROVE  IsSound(data, pos) /\ ~HasNoncharacter(buf)
<1>1. buf \in Seq(Scalar) /\ ~HasNoncharacter(buf)
  BY NoncharacterIn DEF IInv, TypeOK, IsText, DecodedIsIJson
<1> QED
  BY <1>1 DEF Cut, IsSound

--------------------------------------------------------------------------------
(* The inductive invariant. *)

\* Where the reader stands, until it is done.
Progress ==
  /\ pc = "open" => pos = 0 /\ buf = <<>>
  /\ pc # "done" => outcome.class = "pending"
  /\ pc \in {"fast", "general"} => data # <<>> /\ data[1] = 34 /\ Cut(data, pos, buf)
  /\ pc = "fast" => Bytes(buf) = Len(buf)
  /\ (pc = "general" /\ pos < Len(data) /\ data[pos + 1] = 34) => Bytes(buf) <= maxStringBytes

RInv == IInv /\ Progress /\ AcceptsStrings /\ ErrorLocated /\ BoundJustified

\* The place of an error, for the input as it is.
LocatedAt(d, class, p) ==
  CASE class = "INVALID_GRAMMAR" ->
         /\ IsSound(d, p) \/ (AwaitsLow(d, p) /\ IsMarked(d, p))
         /\ \/ p = Len(d)
            \/ d[p + 1] # 34 /\ ~IsCharacter(d, p) /\ ~IsShortEscape(d, p) /\ ~IsUnit(d, p)
    [] class = "LONE_SURROGATE" ->
         /\ IsUnit(d, p)
         /\ \/ AwaitsLow(d, p) /\ UnitAt(d, p) \notin LowUnits
            \/ IsSound(d, p) /\ UnitAt(d, p) \in LowUnits
            \/ IsSound(d, p) /\ UnitAt(d, p) \in HighUnits /\ ~IsMarked(d, p + 6)
    [] OTHER ->
         /\ IsSound(d, p)
         /\ \E r \in p + 1 .. Len(d) : IsElement(d, p, r) /\ HasNoncharacter(<<Spelled(d, p, r)>>)

LEMMA ErrorAt ==
  ErrorLocated <=>
    ((outcome.class \in {"LONE_SURROGATE", "NONCHARACTER", "INVALID_GRAMMAR"} /\ data # <<>>
        /\ data[1] = 34) => LocatedAt(data, outcome.class, outcome.offset))
BY Zenon DEF ErrorLocated, LocatedAt, IsMalformed, At, Quote

BoundAt(d, q) ==
  \E p \in {q, q + 1} : IsSound(d, p) /\ \A t \in Texts(d)[p] : Bytes(t) > maxStringBytes

\* A failing call leaves the invariant when its error is the right one.
LEMMA FailReads ==
  ASSUME RInv, IInv', NEW class \in InputClass, NEW offset, Fail(class, offset),
         \A l \in Literals(data) : ~IsFit(l.text),
         class = "BOUND_EXCEEDED" => BoundAt(data, offset),
         (class # "BOUND_EXCEEDED" /\ data # <<>> /\ data[1] = 34) => LocatedAt(data, class, offset)
  PROVE  RInv'
<1>1. pc' = "done" /\ outcome' = [class |-> class, offset |-> offset] /\ data' = data /\ buf' = buf
  BY DEF Fail
<1>2. outcome'.class = class /\ outcome'.offset = offset /\ class # "ok"
  BY <1>1 DEF InputClass
<1>3. Progress'
  BY <1>1 DEF Progress
<1>4. AcceptsStrings'
  BY <1>1, <1>2 DEF AcceptsStrings, IsFit
<1>5. BoundJustified'
  BY <1>1, <1>2 DEF BoundJustified, BoundAt
<1>6. ErrorLocated'
  <2>1. ErrorLocated' <=>
          ((outcome'.class \in {"LONE_SURROGATE", "NONCHARACTER", "INVALID_GRAMMAR"} /\ data' # <<>>
              /\ data'[1] = 34) => LocatedAt(data', outcome'.class, outcome'.offset))
    BY Zenon DEF ErrorLocated, LocatedAt, IsMalformed, At, Quote
  <2> QED
    BY <1>1, <1>2, <2>1
<1> QED
  BY <1>3, <1>4, <1>5, <1>6 DEF RInv

\* A call that ends at the closing quote.
LEMMA SucceedReads ==
  ASSUME RInv, IInv', Succeed, pc \in {"fast", "general"}, pos < Len(data), data[pos + 1] = 34,
         Bytes(buf) <= maxStringBytes
  PROVE  RInv'
<1>0. Cut(data, pos, buf) /\ data[1] = 34 /\ data \in Seq(Scalar) /\ IInv
  BY DEF RInv, Progress, IInv, TypeOK, IsText
<1>1. /\ pc' = "done" /\ outcome' = [class |-> "ok", offset |-> 0] /\ data' = data /\ buf' = buf
      /\ pos' = pos + 1 /\ outcome'.class = "ok"
  BY DEF Succeed
<1>2. Literals(data) = {[text |-> buf, end |-> pos + 1]}
  BY <1>0, LiteralsClosed
<1>3. IsFit(buf)
  BY <1>0, SoundHere DEF IsFit
<1>4. AcceptsStrings'
  BY <1>1, <1>2, <1>3 DEF AcceptsStrings, IsFit
<1>5. Progress' /\ ErrorLocated' /\ BoundJustified'
  BY <1>1 DEF Progress, ErrorLocated, BoundJustified
<1> QED
  BY <1>4, <1>5 DEF RInv

LEMMA PendingReads ==
  ASSUME RInv, IInv', Progress', pc' # "done", outcome' = outcome
  PROVE  RInv'
<1>1. outcome'.class = "pending"
  BY DEF Progress
<1> QED
  BY <1>1 DEF RInv, AcceptsStrings, ErrorLocated, BoundJustified

--------------------------------------------------------------------------------
(* The steps. *)

\* The call returns an error.
LEMMA FailInv ==
  ASSUME IInv, NEW class \in InputClass, NEW offset \in 0 .. Len(data),
         Fail(class, offset), pos' \in 0 .. Len(data)
  PROVE  IInv'
  BY DEF IInv, TypeOK, DecodedIsIJson, Fail

\* The call returns at a closing quote.
LEMMA SucceedInv ==
  ASSUME IInv, ~AtEnd(pos), Succeed
  PROVE  IInv'
<1>1. pos' \in 0 .. Len(data) /\ 0 \in 0 .. Len(data)
  BY Bounds DEF IInv, Succeed
<1> QED
  BY <1>1 DEF IInv, TypeOK, DecodedIsIJson, Succeed

\* A code point joins the text.
LEMMA AppendInv ==
  ASSUME IInv, NEW c \in Scalar, ~IsNoncharacter(c), buf' = Append(buf, c),
         pos' \in 0 .. Len(data), UNCHANGED <<data, pc, outcome>>
  PROVE  IInv'
<1>1. buf \in Seq(Scalar)
  BY DEF IInv, TypeOK, IsText
<1>2. buf' \in Seq(Scalar)
  BY <1>1
<1>3. \A i \in DOMAIN buf' : ~IsNoncharacter(buf'[i])
  BY <1>1 DEF IInv, DecodedIsIJson
<1>4. TypeOK'
  BY <1>2 DEF IInv, TypeOK, IsText
<1> QED
  BY <1>2, <1>3, <1>4 DEF IInv, DecodedIsIJson, IsText

LEMMA OpenInv ==
  ASSUME IInv, Open
  PROVE  IInv'
<1>1. CASE More /\ At(pos) = Quote
  <2>1. pos' \in 0 .. Len(data)
    BY <1>1, Bounds DEF IInv, Open, More
  <2> QED
    BY <1>1, <2>1 DEF IInv, TypeOK, DecodedIsIJson, Open
<1>2. CASE ~(More /\ At(pos) = Quote)
  <2>1. pos' \in 0 .. Len(data)
    BY <1>2, Bounds DEF IInv, Open, More
  <2>2. Fail("INVALID_GRAMMAR", pos')
    BY <1>2 DEF Open
  <2> QED
    BY <2>1, <2>2, FailInv DEF InputClass
<1> QED
  BY <1>1, <1>2

\* A plain character is no noncharacter: it is ASCII.
LEMMA FastCharInv ==
  ASSUME IInv, FastChar
  PROVE  IInv'
<1>1. At(pos) \in Scalar /\ pos' \in 0 .. Len(data)
  BY Bounds DEF IInv, FastChar, More
<1>2. ~IsNoncharacter(At(pos))
  <2>1. At(pos) \in Nat /\ At(pos) < 128
    BY <1>1 DEF FastChar, Plain, Scalar
  <2>2. \A c \in Nat : c < 128 => ~(64976 <= c) /\ c % 65536 # 65534 /\ c % 65536 # 65535
    OBVIOUS
  <2> QED
    BY <2>1, <2>2 DEF IsNoncharacter
<1> QED
  BY <1>1, <1>2, AppendInv DEF FastChar

LEMMA FastCloseInv ==
  ASSUME IInv, FastClose
  PROVE  IInv'
<1>1. CASE Len(buf) > maxStringBytes
  BY <1>1, FailInv, Bounds DEF FastClose, IInv, InputClass
<1>2. CASE ~(Len(buf) > maxStringBytes)
  BY <1>2, SucceedInv DEF FastClose, More
<1> QED
  BY <1>1, <1>2

\* A decoded code point is accepted, or refused as a noncharacter or for its size.
LEMMA AcceptInv ==
  ASSUME IInv, NEW c \in Scalar, NEW next \in 0 .. Len(data),
         NEW source \in 0 .. Len(data), NEW errorAt \in 0 .. Len(data),
         Accept(c, next, source, errorAt)
  PROVE  IInv'
<1>1. pos \in 0 .. Len(data)
  BY Bounds DEF IInv
<1>2. CASE IsNoncharacter(c)
  BY <1>1, <1>2, FailInv DEF Accept, InputClass
<1>3. CASE ~IsNoncharacter(c)
  <2>1. CASE Bytes(buf) + Utf8Width(c) > maxStringBytes
    BY <1>1, <1>3, <2>1, FailInv DEF Accept, Add, InputClass
  <2>2. CASE ~(Bytes(buf) + Utf8Width(c) > maxStringBytes)
    BY <1>3, <2>2, AppendInv DEF Accept, Add
  <2> QED
    BY <2>1, <2>2
<1> QED
  BY <1>2, <1>3

LEMMA EscapeInv ==
  ASSUME IInv, Escape
  PROVE  IInv'
<1> DEFINE e == parseEscape(pos + 1)
<1>1. pos \in 0 .. Len(data) /\ pos + 1 \in 1 .. Len(data)
  BY Bounds DEF IInv, Escape, More
<1>2. EscapeSound(e)
  BY <1>1, ParseEscapeSound DEF IInv
<1> HIDE DEF e
<1>3. CASE e.class # "ok"
  BY <1>1, <1>2, <1>3, FailInv DEF Escape, EscapeSound, e
<1>4. CASE e.class = "ok"
  BY <1>1, <1>2, <1>4, AcceptInv DEF Escape, EscapeSound, e
<1> QED
  BY <1>3, <1>4

LEMMA CharInv ==
  ASSUME IInv, Char
  PROVE  IInv'
<1>1. At(pos) \in Scalar /\ pos + 1 \in 0 .. Len(data) /\ pos \in 0 .. Len(data)
  BY Bounds DEF IInv, Char, More
<1> QED
  BY <1>1, AcceptInv DEF Char

LEMMA StepInv ==
  ASSUME IInv, [Next]_vars
  PROVE  IInv'
<1>1. CASE Unterminated \/ RejectControl
  BY <1>1, FailInv, Bounds DEF Unterminated, RejectControl, IInv, InputClass
<1>2. CASE Close
  BY <1>2, SucceedInv DEF Close, More
<1>3. CASE LeaveFast
  BY <1>3 DEF LeaveFast, IInv, TypeOK, DecodedIsIJson
<1>4. CASE Stop \/ UNCHANGED vars
  BY <1>4 DEF Stop, vars, IInv, TypeOK, DecodedIsIJson
<1> QED
  BY <1>1, <1>2, <1>3, <1>4, OpenInv, FastCharInv, FastCloseInv, EscapeInv, CharInv DEF Next

--------------------------------------------------------------------------------
(* The steps against the grammar. *)

LEMMA OpenReads ==
  ASSUME RInv, IInv', Open
  PROVE  RInv'
<1>0. pos = 0 /\ buf = <<>> /\ data \in Seq(Scalar) /\ Len(data) \in Nat /\ TypeOK /\ pc = "open"
  BY Bounds DEF Open, RInv, Progress, IInv, TypeOK, IsText
<1>1. CASE More /\ At(pos) = Quote
  <2>1. 0 < Len(data)
    BY <1>0, <1>1 DEF More, AtEnd
  <2>2. data[1] = 34 /\ data # <<>> /\ 1 <= Len(data)
    BY <1>0, <1>1, <2>1 DEF At, Quote
  <2>3. Cut(data, 1, buf)
    BY <1>0, <2>2, CutStart
  <2>4. pos' = 1 /\ pc' = "fast" /\ data' = data /\ buf' = buf /\ outcome' = outcome
    BY <1>0, <1>1 DEF Open
  <2>5. Bytes(buf) = Len(buf)
    BY <1>0, BytesEmpty
  <2>6. Progress'
    BY <1>0, <2>2, <2>3, <2>4, <2>5 DEF Progress, RInv
  <2> QED
    BY <2>4, <2>6, PendingReads
<1>2. CASE ~(More /\ At(pos) = Quote)
  <2>1. ~(data # <<>> /\ data[1] = 34)
    <3>1. data # <<>> => 0 < Len(data)
      BY <1>0
    <3> QED
      BY <1>0, <1>2, <3>1 DEF More, AtEnd, At, Quote
  <2>2. Literals(data) = {}
    BY <2>1 DEF Literals
  <2>3. Fail("INVALID_GRAMMAR", pos') /\ "INVALID_GRAMMAR" \in InputClass
        /\ "INVALID_GRAMMAR" # "BOUND_EXCEEDED"
    BY <1>2 DEF Open, InputClass
  <2> QED
    BY <2>1, <2>2, <2>3, FailReads
<1> QED
  BY <1>1, <1>2

\* The facts every step inside the literal starts from.
LEMMA Inside ==
  ASSUME RInv, pc \in {"fast", "general"}
  PROVE  /\ IInv /\ TypeOK /\ pos \in Nat /\ Len(data) \in Nat /\ pos <= Len(data) /\ pos >= 1
         /\ data \in Seq(Scalar) /\ buf \in Seq(Scalar) /\ data # <<>> /\ data[1] = 34
         /\ Cut(data, pos, buf) /\ Texts(data)[pos] = {buf}
         /\ IsSound(data, pos) /\ ~HasNoncharacter(buf)
         /\ Bytes(buf) \in Nat /\ Len(buf) \in Nat
         /\ outcome.class = "pending"
<1>1. /\ IInv /\ TypeOK /\ data # <<>> /\ data[1] = 34 /\ Cut(data, pos, buf)
      /\ outcome.class = "pending"
  BY DEF RInv, Progress, IInv
<1>2. data \in Seq(Scalar) /\ buf \in Seq(Scalar) /\ Len(buf) \in Nat
  BY <1>1 DEF TypeOK, IsText
<1>3. pos \in Nat /\ Len(data) \in Nat /\ pos <= Len(data) /\ pos >= 1 /\ Texts(data)[pos] = {buf}
  BY <1>1, Bounds DEF Cut
<1>4. Bytes(buf) \in Nat
  <2>1. 0 \in Scalar
    BY DEF Scalar
  <2> QED
    BY <1>2, <2>1, BytesAppend
<1> QED
  BY <1>1, <1>2, <1>3, <1>4, SoundHere

\* A character of the input is an element that spells itself.
LEMMA CharacterReads ==
  ASSUME TypeOK, NEW p \in Nat, p < Len(data), data[p + 1] >= 32, data[p + 1] \notin {34, 92}
  PROVE  IsElement(data, p, p + 1) /\ Spelled(data, p, p + 1) = data[p + 1]
<1>1. p + 1 <= Len(data)
  BY Bounds
<1>2. IsElement(data, p, p + 1)
  BY <1>1 DEF IsElement, IsCharacter
<1>3. Spelled(data, p, p + 1) = data[p + 1]
  <2>1. p + 1 # p + 2 /\ p + 1 # p + 6 /\ p + 1 # p + 12
    OBVIOUS
  <2> QED
    BY <2>1, SMT DEF Spelled
<1> QED
  BY <1>2, <1>3

LEMMA FastCharReads ==
  ASSUME RInv, IInv', FastChar
  PROVE  RInv'
<1> DEFINE c == data[pos + 1]
<1>0. pc = "fast" /\ TypeOK /\ Cut(data, pos, buf) /\ pos \in Nat /\ Len(data) \in Nat
      /\ buf \in Seq(Scalar) /\ data # <<>> /\ data[1] = 34 /\ Len(buf) \in Nat /\ Bytes(buf) = Len(buf)
  BY Inside DEF FastChar, RInv, Progress
<1>1. pos < Len(data)
  BY <1>0 DEF FastChar, More, AtEnd
<1>2. At(pos) = c /\ c \in Scalar /\ c \in Nat
  BY <1>0, <1>1, AtOffset
<1>3. c >= 32 /\ c < 128 /\ c \notin {34, 92}
  BY <1>2 DEF FastChar, Plain, Quote, Backslash
<1> HIDE DEF c
<1>4. IsElement(data, pos, pos + 1) /\ Spelled(data, pos, pos + 1) = c
  BY <1>0, <1>1, <1>3, CharacterReads DEF c
<1>5. buf' = Append(buf, c) /\ pos' = pos + 1 /\ data' = data /\ pc' = pc /\ outcome' = outcome
  BY <1>2 DEF FastChar
<1>6. Cut(data, pos + 1, Append(buf, c))
  BY <1>0, <1>4, CutStep
<1>7. Bytes(Append(buf, c)) = Len(Append(buf, c))
  <2>1. Utf8Width(c) = 1
    BY <1>2, <1>3 DEF Utf8Width
  <2>2. Len(Append(buf, c)) = Len(buf) + 1
    BY <1>0, <1>2
  <2> QED
    BY <1>0, <1>2, <2>1, <2>2, BytesAppend
<1>8. Progress'
  BY <1>0, <1>5, <1>6, <1>7 DEF Progress, RInv
<1> QED
  BY <1>0, <1>5, <1>8, PendingReads

LEMMA FastCloseReads ==
  ASSUME RInv, IInv', FastClose
  PROVE  RInv'
<1>0. pc = "fast" /\ IInv /\ TypeOK /\ Cut(data, pos, buf) /\ pos \in Nat /\ Len(data) \in Nat
      /\ data \in Seq(Scalar) /\ data[1] = 34 /\ Bytes(buf) = Len(buf) /\ Len(buf) \in Nat
      /\ IsSound(data, pos) /\ Texts(data)[pos] = {buf}
  BY Inside DEF FastClose, RInv, Progress
<1>1. pos < Len(data)
  BY <1>0 DEF FastClose, More, AtEnd
<1>2. data[pos + 1] = 34
  BY <1>0, <1>1, AtOffset DEF FastClose, Quote
<1>3. CASE Len(buf) > maxStringBytes
  <2>1. ~IsFit(buf) /\ Bytes(buf) > maxStringBytes
    BY <1>0, <1>3, MaxType DEF IsFit
  <2>2. Literals(data) = {[text |-> buf, end |-> pos + 1]}
    BY <1>0, <1>1, <1>2, LiteralsClosed
  <2>3. BoundAt(data, pos)
    BY <1>0, <2>1 DEF BoundAt
  <2>4. Fail("BOUND_EXCEEDED", pos) /\ "BOUND_EXCEEDED" \in InputClass
    BY <1>3 DEF FastClose, InputClass
  <2> QED
    BY <2>1, <2>2, <2>3, <2>4, FailReads
<1>4. CASE ~(Len(buf) > maxStringBytes)
  <2>1. Bytes(buf) <= maxStringBytes
    BY <1>0, <1>4, MaxType
  <2> QED
    BY <1>0, <1>1, <1>2, <1>4, <2>1, SucceedReads DEF FastClose
<1> QED
  BY <1>3, <1>4

LEMMA LeaveFastReads ==
  ASSUME RInv, IInv', LeaveFast
  PROVE  RInv'
<1>0. pc = "fast" /\ TypeOK /\ pos \in Nat /\ Len(data) \in Nat
  BY Inside DEF LeaveFast
<1>1. pos < Len(data) => data[pos + 1] # 34
  <2> SUFFICES ASSUME pos < Len(data) PROVE data[pos + 1] # 34
    OBVIOUS
  <2>1. More
    BY <1>0 DEF More, AtEnd
  <2> QED
    BY <1>0, <2>1, AtOffset DEF LeaveFast, Quote
<1>2. pc' = "general" /\ data' = data /\ pos' = pos /\ buf' = buf /\ outcome' = outcome
  BY DEF LeaveFast
<1>3. Progress'
  BY <1>0, <1>1, <1>2 DEF Progress, RInv
<1> QED
  BY <1>2, <1>3, PendingReads

LEMMA CloseReads ==
  ASSUME RInv, IInv', Close
  PROVE  RInv'
<1>0. pc = "general" /\ TypeOK /\ pos \in Nat /\ Len(data) \in Nat
  BY Inside DEF Close, General
<1>1. pos < Len(data)
  BY <1>0 DEF Close, More, AtEnd
<1>2. data[pos + 1] = 34
  BY <1>0, <1>1, AtOffset DEF Close, Quote
<1>3. Bytes(buf) <= maxStringBytes
  BY <1>0, <1>1, <1>2 DEF RInv, Progress
<1> QED
  BY <1>0, <1>1, <1>2, <1>3, SucceedReads DEF Close

LEMMA UnterminatedReads ==
  ASSUME RInv, IInv', Unterminated
  PROVE  RInv'
<1>0. pc = "general" /\ IInv /\ pos \in Nat /\ Len(data) \in Nat /\ pos <= Len(data)
      /\ Cut(data, pos, buf) /\ IsSound(data, pos)
  BY Inside DEF Unterminated, General
<1>1. pos = Len(data)
  BY <1>0 DEF Unterminated, AtEnd
<1>2. \A r : ~IsElement(data, pos, r)
  BY <1>0, <1>1, ElementInside
<1>3. \A l \in Literals(data) : ~IsFit(l.text)
  BY <1>0, <1>1, <1>2, NoneFits
<1>4. LocatedAt(data, "INVALID_GRAMMAR", pos)
  BY <1>0, <1>1 DEF LocatedAt
<1>5. Fail("INVALID_GRAMMAR", pos) /\ "INVALID_GRAMMAR" \in InputClass
      /\ "INVALID_GRAMMAR" # "BOUND_EXCEEDED"
  BY DEF Unterminated, InputClass
<1> QED
  BY <1>3, <1>4, <1>5, FailReads

LEMMA RejectControlReads ==
  ASSUME RInv, IInv', RejectControl
  PROVE  RInv'
<1>0. pc = "general" /\ IInv /\ TypeOK /\ pos \in Nat /\ Len(data) \in Nat
      /\ Cut(data, pos, buf) /\ IsSound(data, pos)
  BY Inside DEF RejectControl, General
<1>1. pos < Len(data)
  BY <1>0 DEF RejectControl, More, AtEnd
<1>2. data[pos + 1] < 32 /\ data[pos + 1] \in Nat
  BY <1>0, <1>1, AtOffset DEF RejectControl
<1>3. /\ data[pos + 1] # 34 /\ ~IsCharacter(data, pos)
      /\ ~IsShortEscape(data, pos) /\ ~IsUnit(data, pos)
  BY <1>2 DEF IsCharacter, IsShortEscape, IsUnit, IsMarked
<1>4. \A r : ~IsElement(data, pos, r)
  BY <1>3 DEF IsElement, IsPair
<1>5. \A l \in Literals(data) : ~IsFit(l.text)
  BY <1>0, <1>3, <1>4, NoneFits
<1>6. LocatedAt(data, "INVALID_GRAMMAR", pos)
  BY <1>0, <1>3 DEF LocatedAt
<1>7. Fail("INVALID_GRAMMAR", pos) /\ "INVALID_GRAMMAR" \in InputClass
      /\ "INVALID_GRAMMAR" # "BOUND_EXCEEDED"
  BY DEF RejectControl, InputClass
<1> QED
  BY <1>5, <1>6, <1>7, FailReads

\* The element at pos is accepted, or refused for what it spells.
LEMMA AcceptReads ==
  ASSUME RInv, IInv', pc = "general", NEW next, IsElement(data, pos, next),
         NEW c, c = Spelled(data, pos, next), NEW errorAt, errorAt \in {next, next - 1},
         Accept(c, next, pos, errorAt)
  PROVE  RInv'
<1>0. IInv /\ TypeOK /\ pos \in Nat /\ Len(data) \in Nat /\ Cut(data, pos, buf) /\ buf \in Seq(Scalar)
      /\ IsSound(data, pos) /\ ~HasNoncharacter(buf) /\ Bytes(buf) \in Nat
      /\ data # <<>> /\ data[1] = 34
  BY Inside
<1>1. c \in Scalar /\ next \in pos + 1 .. Len(data) /\ next \in Nat
  BY <1>0, SpelledIsScalar, ElementInside
<1>2. data[pos + 1] # 34 /\ \A r : IsElement(data, pos, r) => r = next
  BY <1>0, ElementUnique
<1>3. Cut(data, next, Append(buf, c))
  BY <1>0, CutStep
<1>4. /\ HasNoncharacter(Append(buf, c)) <=> IsNoncharacter(c)
      /\ Bytes(Append(buf, c)) = Bytes(buf) + Utf8Width(c)
  BY <1>0, <1>1, NoncharacterAppend, BytesAppend
<1>5. ~IsFit(Append(buf, c)) => \A l \in Literals(data) : ~IsFit(l.text)
  BY <1>0, <1>2, NoneFits
<1>6. CASE IsNoncharacter(c)
  <2>1. \A l \in Literals(data) : ~IsFit(l.text)
    BY <1>4, <1>5, <1>6 DEF IsFit
  <2>2. HasNoncharacter(<<c>>)
    <3>1. <<c>> \in Seq(Scalar) /\ 1 \in DOMAIN <<c>> /\ <<c>>[1] = c
      BY <1>1
    <3> QED
      BY <1>6, <3>1, NoncharacterIn
  <2>3. LocatedAt(data, "NONCHARACTER", pos)
    BY <1>0, <1>1, <2>2 DEF LocatedAt
  <2>4. Fail("NONCHARACTER", pos) /\ "NONCHARACTER" \in InputClass /\ "NONCHARACTER" # "BOUND_EXCEEDED"
    BY <1>6 DEF Accept, InputClass
  <2> QED
    BY <2>1, <2>3, <2>4, FailReads
<1>7. CASE ~IsNoncharacter(c) /\ Bytes(buf) + Utf8Width(c) > maxStringBytes
  <2>1. Utf8Width(c) \in 1 .. 4
    BY WidthType
  <2>2. Bytes(Append(buf, c)) > maxStringBytes /\ ~IsFit(Append(buf, c))
    BY <1>0, <1>4, <1>7, <2>1, MaxType DEF IsFit
  <2>3. IsSound(data, next)
    BY <1>3, <1>4, <1>7 DEF IsSound, Cut
  <2>4. \A t \in Texts(data)[next] : Bytes(t) > maxStringBytes
    BY <1>3, <2>2 DEF Cut
  <2>5. next \in {errorAt, errorAt + 1}
    BY <1>1
  <2>6. BoundAt(data, errorAt)
    BY <2>3, <2>4, <2>5 DEF BoundAt
  <2>7. Fail("BOUND_EXCEEDED", errorAt) /\ "BOUND_EXCEEDED" \in InputClass
    BY <1>7 DEF Accept, Add, InputClass
  <2> QED
    BY <1>5, <2>2, <2>6, <2>7, FailReads
<1>8. CASE ~IsNoncharacter(c) /\ ~(Bytes(buf) + Utf8Width(c) > maxStringBytes)
  <2>1. buf' = Append(buf, c) /\ pos' = next /\ data' = data /\ pc' = pc /\ outcome' = outcome
    BY <1>8 DEF Accept, Add
  <2>2. Bytes(Append(buf, c)) <= maxStringBytes
    <3>1. Utf8Width(c) \in 1 .. 4
      BY WidthType
    <3> QED
      BY <1>0, <1>4, <1>8, <3>1, MaxType
  <2>3. Progress'
    BY <1>0, <1>3, <2>1, <2>2 DEF Progress, RInv
  <2> QED
    BY <2>1, <2>3, PendingReads
<1> QED
  BY <1>6, <1>7, <1>8

LEMMA EscapeStepReads ==
  ASSUME RInv, IInv', Escape
  PROVE  RInv'
<1> DEFINE e == parseEscape(pos + 1)
<1>0. pc = "general" /\ IInv /\ TypeOK /\ pos \in Nat /\ Len(data) \in Nat /\ Cut(data, pos, buf)
      /\ IsSound(data, pos)
  BY Inside DEF Escape, General
<1>1. pos < Len(data) /\ At(pos) = Backslash
  BY <1>0 DEF Escape, More, AtEnd
<1>2. data[pos + 1] = 92
  BY <1>0, <1>1, AtOffset DEF Backslash
<1>3. Reads(pos, e) /\ EscapeSound(e)
  <2>1. pos + 1 \in 1 .. Len(data)
    BY <1>0, <1>1
  <2> QED
    BY <1>0, <1>1, <2>1, EscapeReads, ParseEscapeSound
<1> HIDE DEF e
<1>4. CASE e.class = "ok"
  <2>1. Accept(e.rune, e.next, pos, e.next)
    BY <1>4 DEF Escape, e
  <2>2. IsElement(data, pos, e.next) /\ e.rune = Spelled(data, pos, e.next)
    BY <1>3, <1>4 DEF Reads
  <2> QED
    BY <1>0, <2>1, <2>2, AcceptReads
<1>5. CASE e.class # "ok"
  <2>1. (\A r : ~IsElement(data, pos, r)) /\ FaultAt(pos, e.class, e.next)
    BY <1>3, <1>5 DEF Reads
  <2>2. \A l \in Literals(data) : ~IsFit(l.text)
    BY <1>0, <1>2, <2>1, NoneFits
  <2>3. Fail(e.class, e.next) /\ e.class \in InputClass
    BY <1>3, <1>5 DEF Escape, e, EscapeSound
  <2>4. IsHighAt(pos) => AwaitsLow(data, pos + 6)
    <3>1. (pos + 6) - 6 = pos
      BY <1>0
    <3> QED
      BY <1>0, <3>1 DEF IsHighAt, AwaitsLow
  <2>5. IsUnit(data, pos + 6) => IsMarked(data, pos + 6)
    BY DEF IsUnit
  <2>6. \A p : IsMalformed(p) =>
          \/ p = Len(data)
          \/ At(p) # 34 /\ ~IsCharacter(data, p) /\ ~IsShortEscape(data, p) /\ ~IsUnit(data, p)
    BY DEF IsMalformed, Quote
  <2>7. LocatedAt(data, e.class, e.next) /\ e.class # "BOUND_EXCEEDED"
    BY <1>0, <2>1, <2>4, <2>5, <2>6 DEF FaultAt, LocatedAt, At
  <2> QED
    BY <2>2, <2>3, <2>7, FailReads
<1> QED
  BY <1>4, <1>5

LEMMA CharReads ==
  ASSUME RInv, IInv', Char
  PROVE  RInv'
<1>0. pc = "general" /\ TypeOK /\ pos \in Nat /\ Len(data) \in Nat
  BY Inside DEF Char, General
<1>1. pos < Len(data)
  BY <1>0 DEF Char, More, AtEnd
<1>2. At(pos) = data[pos + 1] /\ data[pos + 1] >= 32 /\ data[pos + 1] \notin {34, 92}
  BY <1>0, <1>1, AtOffset DEF Char, Quote, Backslash
<1>3. IsElement(data, pos, pos + 1) /\ Spelled(data, pos, pos + 1) = At(pos)
  BY <1>0, <1>1, <1>2, CharacterReads
<1>4. Accept(At(pos), pos + 1, pos, pos) /\ pos \in {pos + 1, (pos + 1) - 1}
  BY <1>0 DEF Char
<1> QED
  BY <1>0, <1>3, <1>4, AcceptReads

LEMMA Invariance == Spec => []IInv
<1>1. Init => IInv
  <2> SUFFICES ASSUME Init PROVE IInv
    OBVIOUS
  <2>1. IsText(data) /\ Len(data) \in Nat
    BY InputAssumption DEF Init, IsText
  <2> QED
    BY <2>1 DEF Init, IInv, TypeOK, DecodedIsIJson, IsText
<1>2. IInv /\ [Next]_vars => IInv'
  BY StepInv
<1> QED
  BY <1>1, <1>2, PTL DEF Spec

LEMMA ReadsInvariance == Spec => []RInv
<1>1. Init => RInv
  <2> SUFFICES ASSUME Init PROVE RInv
    OBVIOUS
  <2>1. IsText(data) /\ Len(data) \in Nat
    BY InputAssumption DEF Init, IsText
  <2>2. IInv
    BY <2>1 DEF Init, IInv, TypeOK, DecodedIsIJson, IsText
  <2> QED
    BY <2>2 DEF Init, RInv, Progress, AcceptsStrings, ErrorLocated, BoundJustified
<1>2. RInv /\ [Next]_vars => RInv'
  <2> SUFFICES ASSUME RInv, [Next]_vars PROVE RInv'
    OBVIOUS
  <2>1. IInv'
    BY StepInv DEF RInv
  <2>2. CASE Stop \/ UNCHANGED vars
    <3>1. UNCHANGED <<data, pos, buf, pc, outcome>>
      BY <2>2 DEF Stop, vars
    <3>2. Progress'
      BY <3>1 DEF RInv, Progress
    <3>3. AcceptsStrings' /\ BoundJustified'
      BY <3>1 DEF RInv, AcceptsStrings, BoundJustified
    <3>4. ErrorLocated'
      BY <3>1, Zenon DEF RInv, ErrorLocated, IsMalformed, At
    <3> QED
      BY <2>1, <3>2, <3>3, <3>4 DEF RInv
  <2> QED
    BY <2>1, <2>2, OpenReads, FastCharReads, FastCloseReads, LeaveFastReads, UnterminatedReads,
       CloseReads, RejectControlReads, EscapeStepReads, CharReads DEF Next
<1> QED
  BY <1>1, <1>2, PTL DEF Spec

\* For every input and every bound, parseString accepts exactly the literals of the
\* grammar that are free of noncharacters and fit the bound, whichever of its two
\* paths it takes, and returns the one text that the grammar reads there.
THEOREM AcceptsExactly == Spec => []AcceptsStrings
<1>1. RInv => AcceptsStrings
  BY DEF RInv
<1> QED
  BY <1>1, ReadsInvariance, PTL

\* For every input and every bound, a surrogate, noncharacter or grammar error of
\* parseString names the offset where the string first goes wrong, and the fault
\* it names is the one that stands there.
THEOREM ErrorsAreLocated == Spec => []ErrorLocated
<1>1. RInv => ErrorLocated
  BY DEF RInv
<1> QED
  BY <1>1, ReadsInvariance, PTL

\* For every input and every bound, parseString reports BOUND_EXCEEDED only for what
\* is sound so far and whose every reading is too long already.
THEOREM BoundIsJustified == Spec => []BoundJustified
<1>1. RInv => BoundJustified
  BY DEF RInv
<1> QED
  BY <1>1, ReadsInvariance, PTL

--------------------------------------------------------------------------------
(* What serializeString writes. *)

IsFlat(w, f, n) == f = [i \in 1 .. n |-> IF i = 1 THEN w[i] ELSE f[i - 1] \o w[i]]

LEMMA FlatExists ==
  ASSUME NEW w, NEW n \in Nat
  PROVE  \E f : IsFlat(w, f, n)
<1> DEFINE Bad == {k \in Nat : ~\E f : IsFlat(w, f, k)}
<1> SUFFICES ASSUME Bad # {} PROVE FALSE
  OBVIOUS
<1>1. PICK k \in Bad : \A m \in Bad : k <= m
  <2> HIDE DEF Bad
  <2>1. Bad \subseteq Nat
    BY DEF Bad
  <2> QED
    BY <2>1, LeastOf
<1>2. CASE k = 0
  <2> DEFINE f == [i \in 1 .. 0 |-> {}]
  <2>1. f = [i \in 1 .. 0 |-> IF i = 1 THEN w[i] ELSE f[i - 1] \o w[i]]
    OBVIOUS
  <2> QED
    BY <1>1, <1>2, <2>1 DEF IsFlat
<1>3. CASE k # 0
  <2>1. k \in Nat /\ k - 1 \in Nat /\ k - 1 \notin Bad
    BY <1>1, <1>3
  <2>2. PICK g : IsFlat(w, g, k - 1)
    BY <2>1
  <2> DEFINE f == [i \in 1 .. k |-> IF i < k THEN g[i] ELSE IF i = 1 THEN w[i] ELSE g[i - 1] \o w[i]]
  <2>3. \A i \in 1 .. k - 1 : f[i] = g[i]
    BY <2>1
  <2>4. ASSUME NEW i \in 1 .. k PROVE f[i] = IF i = 1 THEN w[i] ELSE f[i - 1] \o w[i]
    <3>1. i # 1 => i - 1 \in 1 .. k - 1
      BY <2>1
    <3>2. CASE i < k
      <4>1. i \in 1 .. k - 1
        BY <2>1, <3>2
      <4>2. g[i] = IF i = 1 THEN w[i] ELSE g[i - 1] \o w[i]
        BY <2>2, <4>1 DEF IsFlat
      <4> HIDE DEF f
      <4> QED
        BY <3>1, <4>1, <4>2, <2>3
    <3>3. CASE i = k
      <4>1. f[i] = IF i = 1 THEN w[i] ELSE g[i - 1] \o w[i]
        BY <2>1, <3>3
      <4> HIDE DEF f
      <4> QED
        BY <3>1, <4>1, <2>3
    <3> QED
      BY <2>1, <3>2, <3>3
  <2>5. IsFlat(w, f, k)
    <3>1. f = [i \in 1 .. k |-> f[i]]
      OBVIOUS
    <3> HIDE DEF f
    <3>2. [i \in 1 .. k |-> f[i]] = [i \in 1 .. k |-> IF i = 1 THEN w[i] ELSE f[i - 1] \o w[i]]
      BY <2>4
    <3> QED
      BY <3>1, <3>2 DEF IsFlat
  <2> QED
    BY <1>1, <2>5
<1> QED
  BY <1>1, <1>2, <1>3

LEMMA FlatOf ==
  ASSUME NEW w, Len(w) \in Nat, Len(w) # 0
  PROVE  \E f : IsFlat(w, f, Len(w)) /\ FlattenSeq(w) = f[Len(w)]
<1> DEFINE n == Len(w)
           D(g) == g = [i \in 1 .. n |-> IF i = 1 THEN w[i] ELSE g[i - 1] \o w[i]]
           b == CHOOSE g : D(g)
<1>1. PICK f : D(f)
  BY FlatExists DEF IsFlat
<1>2. FlattenSeq(w) = b[n]
  BY DEF FlattenSeq
<1> HIDE DEF D
<1>3. D(b)
  BY <1>1
<1> QED
  BY <1>2, <1>3 DEF D, IsFlat

LEMMA EscapedForm ==
  ASSUME NEW c \in Scalar
  PROVE  /\ c \in Nat
         /\ \/ \E d \in Nat : appendEscaped(c) = <<92, d>> /\ <<d, c>> \in ShortEscapes
            \/ /\ c < 32
               /\ appendEscaped(c) = <<92, 117, 48, 48, hexDigit(c \div 16), hexDigit(c % 16)>>
            \/ c >= 32 /\ c \notin {34, 92} /\ appendEscaped(c) = <<c>>
<1>0. c \in Nat
  BY DEF Scalar
<1>1. CASE c \in {Quote, Backslash}
  BY <1>1 DEF appendEscaped, Quote, Backslash, ShortEscapes
<1>2. CASE c \in {8, 9, 10, 12, 13}
  BY <1>2 DEF appendEscaped, Quote, Backslash, ShortEscapes
<1>3. CASE c < 32 /\ c \notin {8, 9, 10, 12, 13}
  BY <1>0, <1>3 DEF appendEscaped, Quote, Backslash, LowerU
<1>4. CASE c >= 32 /\ c \notin {Quote, Backslash}
  BY <1>0, <1>4 DEF appendEscaped, Quote, Backslash
<1> QED
  BY <1>0, <1>1, <1>2, <1>3, <1>4

LEMMA EscapedType ==
  ASSUME NEW c \in Scalar
  PROVE  /\ appendEscaped(c) \in Seq(Nat)
         /\ \A i \in 1 .. Len(appendEscaped(c)) : appendEscaped(c)[i] >= 32
<1>1. ASSUME NEW d \in Nat, appendEscaped(c) = <<92, d>>, <<d, c>> \in ShortEscapes
      PROVE  /\ appendEscaped(c) \in Seq(Nat)
             /\ \A i \in 1 .. Len(appendEscaped(c)) : appendEscaped(c)[i] >= 32
  <2>1. \A e \in ShortEscapes : e[1] >= 32
    BY DEF ShortEscapes
  <2>2. <<d, c>>[1] = d
    OBVIOUS
  <2>3. d >= 32
    BY <1>1, <2>1, <2>2
  <2> QED
    BY <1>1, <2>3
<1>2. ASSUME c \in Nat, c < 32,
             appendEscaped(c) = <<92, 117, 48, 48, hexDigit(c \div 16), hexDigit(c % 16)>>
      PROVE  /\ appendEscaped(c) \in Seq(Nat)
             /\ \A i \in 1 .. Len(appendEscaped(c)) : appendEscaped(c)[i] >= 32
  <2>1. /\ hexDigit(c \div 16) \in Nat /\ hexDigit(c \div 16) >= 32
        /\ hexDigit(c % 16) \in Nat /\ hexDigit(c % 16) >= 32
    BY <1>2 DEF hexDigit
  <2> QED
    BY <1>2, <2>1
<1>3. CASE c \in Nat /\ c >= 32 /\ appendEscaped(c) = <<c>>
  BY <1>3
<1> QED
  BY <1>1, <1>2, <1>3, EscapedForm

\* w stands in s after offset a.
StandsAt(s, a, w) == a + Len(w) <= Len(s) /\ \A i \in 1 .. Len(w) : s[a + i] = w[i]

\* One code point as it is written is one element, which spells it.
LEMMA EscapedReads ==
  ASSUME NEW c \in Scalar, NEW s, Len(s) \in Nat, NEW a \in Nat, NEW w, w = appendEscaped(c),
         StandsAt(s, a, w)
  PROVE  IsElement(s, a, a + Len(w)) /\ Spelled(s, a, a + Len(w)) = c
<1>1. ASSUME NEW d \in Nat, w = <<92, d>>, <<d, c>> \in ShortEscapes
      PROVE  IsElement(s, a, a + Len(w)) /\ Spelled(s, a, a + Len(w)) = c
  <2>1. Len(w) = 2 /\ s[a + 1] = 92 /\ s[a + 2] = d /\ a + 2 <= Len(s) /\ a + 2 # a + 1
    BY <1>1 DEF StandsAt
  <2>2. IsElement(s, a, a + 2)
    BY <1>1, <2>1 DEF IsElement, IsShortEscape
  <2>3. Spelled(s, a, a + 2) = (CHOOSE e \in ShortEscapes : e[1] = d)[2]
    BY <2>1, SMT DEF Spelled
  <2>4. (CHOOSE e \in ShortEscapes : e[1] = d)[2] = c
    <3> DEFINE e == CHOOSE e \in ShortEscapes : e[1] = d
    <3>1. e \in ShortEscapes /\ e[1] = d
      BY <1>1
    <3> HIDE DEF e
    <3>2. \A x, y \in ShortEscapes : x[1] = y[1] => x[2] = y[2]
      BY DEF ShortEscapes
    <3>3. <<d, c>>[1] = d /\ <<d, c>>[2] = c
      OBVIOUS
    <3>4. e[2] = c
      BY <1>1, <3>1, <3>2, <3>3
    <3> QED
      BY <3>4 DEF e
  <2> QED
    BY <2>1, <2>2, <2>3, <2>4
<1>2. ASSUME c \in Nat, c < 32, w = <<92, 117, 48, 48, hexDigit(c \div 16), hexDigit(c % 16)>>
      PROVE  IsElement(s, a, a + Len(w)) /\ Spelled(s, a, a + Len(w)) = c
  <2> DEFINE x == hexDigit(c \div 16)
             y == hexDigit(c % 16)
  <2>1. /\ x \in HexDigits /\ y \in HexDigits
        /\ DigitValue(x) = c \div 16 /\ DigitValue(y) = c % 16
    <3>1. c \div 16 \in 0 .. 15 /\ c % 16 \in 0 .. 15
      BY <1>2
    <3>2. \A d \in 0 .. 15 : hexDigit(d) \in HexDigits /\ DigitValue(hexDigit(d)) = d
      BY DEF hexDigit, HexDigits, DigitValue
    <3> QED
      BY <3>1, <3>2, Zenon
  <2>2. 48 \in HexDigits /\ DigitValue(48) = 0
    BY DEF HexDigits, DigitValue
  <2> HIDE DEF x, y
  <2>3. w = <<92, 117, 48, 48, x, y>>
    BY <1>2 DEF x, y
  <2>4. /\ Len(w) = 6 /\ s[a + 1] = 92 /\ s[a + 2] = 117 /\ s[a + 3] = 48 /\ s[a + 4] = 48
        /\ s[a + 5] = x /\ s[a + 6] = y /\ a + 6 <= Len(s)
    BY <2>3 DEF StandsAt
  <2>5. IsUnit(s, a)
    <3>1. \A i \in a + 3 .. a + 6 : i = a + 3 \/ i = a + 4 \/ i = a + 5 \/ i = a + 6
      OBVIOUS
    <3>2. IsMarked(s, a)
      BY <2>4 DEF IsMarked
    <3> QED
      BY <2>1, <2>2, <2>4, <3>1, <3>2 DEF IsUnit
  <2>6. UnitAt(s, a) = c
    <3>1. UnitAt(s, a) = 4096 * 0 + 256 * 0 + 16 * (c \div 16) + (c % 16)
      BY <2>1, <2>2, <2>4 DEF UnitAt
    <3> QED
      BY <1>2, <3>1
  <2>7. c \notin HighUnits \cup LowUnits
    <3>1. \A u \in Nat : u < 32 => u \notin HighUnits \cup LowUnits
      BY DEF HighUnits, LowUnits
    <3> QED
      BY <1>2, <3>1, Zenon
  <2> QED
    BY <2>4, <2>5, <2>6, <2>7, SpelledUnit DEF IsElement
<1>3. CASE c \in Nat /\ c >= 32 /\ c \notin {34, 92} /\ w = <<c>>
  <2>1. Len(w) = 1 /\ s[a + 1] = c /\ a + 1 <= Len(s)
    BY <1>3 DEF StandsAt
  <2>2. IsElement(s, a, a + 1)
    BY <1>3, <2>1 DEF IsElement, IsCharacter
  <2>3. Spelled(s, a, a + 1) = c
    <3>1. a + 1 # a + 2 /\ a + 1 # a + 6 /\ a + 1 # a + 12
      OBVIOUS
    <3> QED
      BY <2>1, <3>1, SMT DEF Spelled
  <2> QED
    BY <2>1, <2>2, <2>3
<1> QED
  BY <1>1, <1>2, <1>3, EscapedForm

\* What is written between the quotes, code point by code point.
Pieces(text) == [i \in DOMAIN text |-> appendEscaped(text[i])]

LEMMA FlatStep ==
  ASSUME NEW w, NEW n \in Nat, NEW f, IsFlat(w, f, n), NEW i \in 1 .. n
  PROVE  f[i] = IF i = 1 THEN w[i] ELSE f[i - 1] \o w[i]
  BY DEF IsFlat

\* The beginnings of what is written, each before the next piece.
LEMMA FlatPrefix ==
  ASSUME NEW w, NEW n \in Nat, NEW f, IsFlat(w, f, n), \A i \in 1 .. n : w[i] \in Seq(Nat)
  PROVE  \A j \in 1 .. n :
           /\ f[j] \in Seq(Nat)
           /\ \A i \in 1 .. j : Len(f[i]) <= Len(f[j]) /\ \A k \in 1 .. Len(f[i]) : f[j][k] = f[i][k]
<1> DEFINE Good(j) == /\ f[j] \in Seq(Nat)
                      /\ \A i \in 1 .. j : /\ Len(f[i]) <= Len(f[j])
                                           /\ \A k \in 1 .. Len(f[i]) : f[j][k] = f[i][k]
           Bad == {j \in 1 .. n : ~Good(j)}
<1> SUFFICES ASSUME Bad # {} PROVE FALSE
  OBVIOUS
<1>1. PICK j \in Bad : \A m \in Bad : j <= m
  <2>1. Bad \subseteq Nat
    OBVIOUS
  <2> HIDE DEF Bad
  <2> QED
    BY <2>1, LeastOf
<1>2. j \in 1 .. n /\ ~Good(j)
  BY <1>1
<1>3. CASE j = 1
  <2>1. f[1] = w[1]
    BY <1>2, <1>3, FlatStep
  <2>2. f[1] \in Seq(Nat) /\ Len(f[1]) \in Nat
    BY <1>2, <1>3, <2>1
  <2>3. \A i \in 1 .. 1 : i = 1
    OBVIOUS
  <2>4. Good(1)
    BY <2>2, <2>3
  <2> QED
    BY <1>2, <1>3, <2>4
<1>4. CASE j # 1
  <2>1. j - 1 \in 1 .. n /\ j - 1 \notin Bad /\ j \in Nat
    BY <1>1, <1>2, <1>4
  <2>2. Good(j - 1)
    BY <2>1
  <2>3. f[j] = f[j - 1] \o w[j]
    <3>1. \A i \in 1 .. n : f[i] = IF i = 1 THEN w[i] ELSE f[i - 1] \o w[i]
      BY FlatStep
    <3>2. j \in 1 .. n
      BY <1>2
    <3> HIDE DEF Good, Bad
    <3> QED
      BY <1>4, <3>1, <3>2
  <2> DEFINE u == f[j - 1]
             v == w[j]
  <2>4. u \in Seq(Nat) /\ v \in Seq(Nat) /\ f[j] = u \o v
    BY <1>2, <2>2, <2>3
  <2>5. \A i \in 1 .. j - 1 : Len(f[i]) <= Len(u) /\ \A k \in 1 .. Len(f[i]) : u[k] = f[i][k]
    BY <2>2
  <2> HIDE DEF u, v
  <2>6. f[j] \in Seq(Nat) /\ Len(u) <= Len(f[j]) /\ Len(f[j]) \in Nat /\ Len(u) \in Nat
    BY <2>4
  <2>7. \A k \in 1 .. Len(u) : f[j][k] = u[k]
    BY <2>4
  <2>8. ASSUME NEW i \in 1 .. j
        PROVE  Len(f[i]) <= Len(f[j]) /\ \A k \in 1 .. Len(f[i]) : f[j][k] = f[i][k]
    <3>1. CASE i = j
      BY <2>6, <3>1
    <3>2. CASE i # j
      <4>1. i \in 1 .. j - 1
        BY <2>1, <3>2
      <4>2. Len(f[i]) <= Len(u) /\ \A k \in 1 .. Len(f[i]) : u[k] = f[i][k]
        BY <2>5, <4>1
      <4>3. f[i] \in Seq(Nat)
        <5>1. i \in 1 .. n /\ i < j
          BY <1>2, <4>1
        <5>2. i \notin Bad
          BY <1>1, <1>2, <5>1
        <5> QED
          BY <5>1, <5>2
      <4>4. Len(f[i]) \in Nat
        BY <4>3
      <4>5. Len(f[i]) <= Len(f[j])
        BY <2>6, <4>2, <4>4
      <4>6. ASSUME NEW k \in 1 .. Len(f[i]) PROVE f[j][k] = f[i][k]
        <5>1. k \in 1 .. Len(u)
          BY <2>6, <4>2, <4>4
        <5> QED
          BY <2>7, <4>2, <5>1
      <4> QED
        BY <4>5, <4>6
    <3> QED
      BY <3>1, <3>2
  <2>9. Good(j)
    BY <2>6, <2>8
  <2> QED
    BY <1>2, <2>9
<1> QED
  BY <1>3, <1>4

\* s is b between two quotes.
Quoted(s, b) ==
  /\ b \in Seq(Nat) /\ s \in Seq(Nat) /\ Len(s) = Len(b) + 2
  /\ s[1] = 34 /\ s[Len(s)] = 34
  /\ \A k \in 1 .. Len(b) : s[1 + k] = b[k]

\* The literal serializeString writes, laid out around the pieces.
LEMMA WrittenLayout ==
  ASSUME NEW text \in Seq(Scalar), NEW s, s = serializeString(text), Len(text) # 0
  PROVE  \E f : IsFlat(Pieces(text), f, Len(text)) /\ Quoted(s, f[Len(text)])
<1> DEFINE n == Len(text)
           w == Pieces(text)
<1>1. n \in Nat /\ n # 0 /\ DOMAIN text = 1 .. n /\ n \in 1 .. n
  OBVIOUS
<1>2. DOMAIN w = 1 .. n /\ \A i \in 1 .. n : w[i] = appendEscaped(text[i]) /\ w[i] \in Seq(Nat)
  <2>1. \A i \in 1 .. n : text[i] \in Scalar
    BY <1>1
  <2> QED
    BY <1>1, <2>1, EscapedType DEF Pieces
<1>3. Len(w) = n
  <2>1. w \in Seq(Seq(Nat))
    <3>1. w = [i \in 1 .. n |-> w[i]]
      BY <1>1 DEF Pieces
    <3> HIDE DEF w
    <3> QED
      BY <1>1, <1>2, <3>1
  <2> HIDE DEF w
  <2> QED
    BY <1>1, <1>2, <2>1
<1> HIDE DEF w
<1>4. PICK f : IsFlat(w, f, n) /\ FlattenSeq(w) = f[n]
  BY <1>1, <1>3, FlatOf
<1> DEFINE b == f[n]
<1>5. b \in Seq(Nat)
  BY <1>1, <1>2, <1>4, FlatPrefix
<1>6. s = <<34>> \o b \o <<34>>
  BY <1>4 DEF serializeString, Quote, w, Pieces
<1> HIDE DEF b, n
<1>7. s \in Seq(Nat) /\ Len(s) = Len(b) + 2 /\ s[1] = 34 /\ s[Len(s)] = 34
      /\ \A k \in 1 .. Len(b) : s[1 + k] = b[k]
  BY <1>5, <1>6
<1>8. Quoted(s, b)
  BY <1>5, <1>7 DEF Quoted
<1> QED
  BY <1>4, <1>8 DEF b, n, w

\* Where the pieces end in s: offset 1 is after the opening quote.
EndOf(f, i) == IF i = 0 THEN 1 ELSE 1 + Len(f[i])

\* Piece i stands between the ends of piece i - 1 and its own.
LEMMA PieceStands ==
  ASSUME NEW w, NEW n \in Nat, NEW f, IsFlat(w, f, n), \A i \in 1 .. n : w[i] \in Seq(Nat),
         NEW s, Quoted(s, f[n]), NEW i \in 1 .. n
  PROVE  /\ EndOf(f, i - 1) \in Nat /\ EndOf(f, i) = EndOf(f, i - 1) + Len(w[i])
         /\ EndOf(f, i) < Len(s) /\ StandsAt(s, EndOf(f, i - 1), w[i])
<1>0. n \in 1 .. n /\ i \in Nat /\ i >= 1
  OBVIOUS
<1>1. /\ f[i] \in Seq(Nat) /\ f[n] \in Seq(Nat) /\ Len(f[i]) <= Len(f[n])
      /\ \A k \in 1 .. Len(f[i]) : f[n][k] = f[i][k]
  <2>1. \A j \in 1 .. n :
           /\ f[j] \in Seq(Nat)
           /\ \A h \in 1 .. j : Len(f[h]) <= Len(f[j]) /\ \A k \in 1 .. Len(f[h]) : f[j][k] = f[h][k]
    BY FlatPrefix
  <2> QED
    BY <1>0, <2>1
<1>2. w[i] \in Seq(Nat) /\ Len(w[i]) \in Nat /\ Len(f[i]) \in Nat /\ Len(f[n]) \in Nat
  BY <1>1
<1>3. \A k \in 1 .. Len(f[i]) : s[1 + k] = f[i][k]
  <2>1. \A k \in 1 .. Len(f[n]) : s[1 + k] = f[n][k]
    BY DEF Quoted
  <2> QED
    BY <1>1, <1>2, <2>1
<1>9. Len(s) = Len(f[n]) + 2
  BY DEF Quoted
<1>4. f[i] = IF i = 1 THEN w[i] ELSE f[i - 1] \o w[i]
  BY FlatStep
<1>5. CASE i = 1
  <2>1. EndOf(f, i - 1) = 1 /\ EndOf(f, i) = 1 + Len(w[i]) /\ f[i] = w[i]
    BY <1>4, <1>5 DEF EndOf
  <2>2. StandsAt(s, 1, w[i])
    <3>1. 1 + Len(w[i]) <= Len(s)
      BY <1>1, <1>2, <1>9, <2>1
    <3> QED
      BY <1>3, <2>1, <3>1, Zenon DEF StandsAt
  <2> QED
    BY <1>1, <1>2, <1>9, <2>1, <2>2
<1>6. CASE i # 1
  <2> DEFINE u == f[i - 1]
             v == w[i]
  <2>1. i - 1 \in 1 .. n /\ i - 1 # 0
    BY <1>0, <1>6
  <2>2. u \in Seq(Nat)
    BY <2>1, FlatPrefix
  <2>3. f[i] = u \o v
    BY <1>4, <1>6
  <2>4. EndOf(f, i - 1) = 1 + Len(u) /\ EndOf(f, i) = 1 + Len(f[i])
    BY <1>0, <2>1 DEF EndOf
  <2>5. v \in Seq(Nat)
    BY <1>2
  <2> HIDE DEF u, v
  <2>6. Len(f[i]) = Len(u) + Len(v) /\ \A k \in 1 .. Len(v) : f[i][Len(u) + k] = v[k]
    BY <2>2, <2>3, <2>5
  <2>7. Len(u) \in Nat /\ Len(v) \in Nat
    BY <2>2, <2>5
  <2>8. \A k \in 1 .. Len(v) : s[(1 + Len(u)) + k] = v[k]
    <3> SUFFICES ASSUME NEW k \in 1 .. Len(v) PROVE s[(1 + Len(u)) + k] = v[k]
      OBVIOUS
    <3>1. Len(u) + k \in 1 .. Len(f[i]) /\ (1 + Len(u)) + k = 1 + (Len(u) + k)
      BY <2>6, <2>7
    <3> QED
      BY <1>3, <2>6, <3>1
  <2>9. StandsAt(s, 1 + Len(u), v)
    <3>1. (1 + Len(u)) + Len(v) <= Len(s)
      BY <1>1, <1>2, <1>9, <2>6, <2>7
    <3> QED
      BY <2>8, <3>1, Zenon DEF StandsAt
  <2>10. EndOf(f, i - 1) \in Nat /\ EndOf(f, i) = EndOf(f, i - 1) + Len(v) /\ EndOf(f, i) < Len(s)
    <3>1. Len(f[i]) = Len(u) + Len(v) /\ Len(f[i]) <= Len(f[n])
      BY <1>1, <2>6
    <3> QED
      BY <1>2, <1>9, <2>4, <2>7, <3>1
  <2> QED
    BY <2>4, <2>9, <2>10 DEF v
<1> QED
  BY <1>5, <1>6

LEMMA BeginningStep ==
  ASSUME NEW S, NEW text \in Seq(S), NEW i \in 1 .. Len(text)
  PROVE  SubSeq(text, 1, i) = Append(SubSeq(text, 1, i - 1), text[i])
<1> DEFINE u == SubSeq(text, 1, i - 1)
           v == SubSeq(text, 1, i)
<1>1. u \in Seq(S) /\ Len(u) = i - 1 /\ \A k \in 1 .. i - 1 : u[k] = text[k]
  OBVIOUS
<1>2. v \in Seq(S) /\ Len(v) = i /\ \A k \in 1 .. i : v[k] = text[k]
  OBVIOUS
<1> HIDE DEF u, v
<1>3. Append(u, text[i]) \in Seq(S) /\ Len(Append(u, text[i])) = i
  BY <1>1
<1>4. \A k \in 1 .. i : Append(u, text[i])[k] = v[k]
  BY <1>1, <1>2
<1>5. v = Append(u, text[i])
  BY <1>2, <1>3, <1>4
<1> QED
  BY <1>5 DEF u, v

\* The end of each piece is a cut, and the text so far is what it spells.
LEMMA WrittenCuts ==
  ASSUME NEW text \in Seq(Scalar), NEW w, w = Pieces(text), NEW n, n = Len(text), NEW f, IsFlat(w, f, n),
         NEW s, Quoted(s, f[n]), n # 0
  PROVE  \A i \in 0 .. n : Cut(s, EndOf(f, i), SubSeq(text, 1, i))
<1> DEFINE Bad == {i \in 0 .. n : ~Cut(s, EndOf(f, i), SubSeq(text, 1, i))}
<1>0. n \in Nat /\ Len(s) \in Nat
  BY DEF Quoted
<1>1. \A i \in 1 .. n : text[i] \in Scalar /\ w[i] = appendEscaped(text[i]) /\ w[i] \in Seq(Nat)
  <2>1. \A i \in 1 .. n : text[i] \in Scalar /\ i \in DOMAIN text
    OBVIOUS
  <2> QED
    BY <2>1, EscapedType DEF Pieces
<1>2. \A i \in 1 .. n :
         /\ EndOf(f, i - 1) \in Nat /\ EndOf(f, i) = EndOf(f, i - 1) + Len(w[i])
         /\ EndOf(f, i) < Len(s) /\ StandsAt(s, EndOf(f, i - 1), w[i])
  BY <1>0, <1>1, PieceStands
<1> SUFFICES ASSUME Bad # {} PROVE FALSE
  OBVIOUS
<1>3. PICK i \in Bad : \A m \in Bad : i <= m
  <2>1. Bad \subseteq Nat
    BY <1>0
  <2> HIDE DEF Bad
  <2> QED
    BY <2>1, LeastOf
<1>4. i \in 0 .. n /\ ~Cut(s, EndOf(f, i), SubSeq(text, 1, i))
  BY <1>3
<1>5. CASE i = 0
  <2>1. SubSeq(text, 1, 0) = <<>> /\ EndOf(f, 0) = 1
    BY DEF EndOf
  <2>2. 1 <= Len(s)
    <3>1. 1 \in 1 .. n
      BY <1>0
    <3>2. EndOf(f, 1) < Len(s) /\ EndOf(f, 1) = EndOf(f, 1 - 1) + Len(w[1]) /\ EndOf(f, 1 - 1) \in Nat
      BY <1>2, <3>1
    <3>3. Len(w[1]) \in Nat
      BY <1>1, <3>1
    <3> QED
      BY <1>0, <3>2, <3>3
  <2>3. Cut(s, 1, <<>>)
    BY <1>0, <2>2, CutStart
  <2> QED
    BY <1>4, <1>5, <2>1, <2>3
<1>6. CASE i # 0
  <2>1. i \in 1 .. n /\ i - 1 \in 0 .. n /\ i - 1 \notin Bad
    BY <1>3, <1>4, <1>6
  <2> DEFINE a == EndOf(f, i - 1)
             t == SubSeq(text, 1, i - 1)
  <2>2. Cut(s, a, t)
    BY <2>1
  <2>3. a \in Nat /\ EndOf(f, i) = a + Len(w[i]) /\ StandsAt(s, a, w[i])
    BY <1>2, <2>1
  <2>4. text[i] \in Scalar /\ w[i] = appendEscaped(text[i])
    BY <1>1, <2>1
  <2>5. SubSeq(text, 1, i) = Append(t, text[i])
    BY <2>1, BeginningStep
  <2> HIDE DEF a, t
  <2>6. IsElement(s, a, a + Len(w[i])) /\ Spelled(s, a, a + Len(w[i])) = text[i]
    <3>1. \A c \in Scalar, b \in Nat : StandsAt(s, b, appendEscaped(c)) =>
            /\ IsElement(s, b, b + Len(appendEscaped(c)))
            /\ Spelled(s, b, b + Len(appendEscaped(c))) = c
      BY <1>0, EscapedReads
    <3> QED
      BY <2>3, <2>4, <3>1
  <2>7. Cut(s, a + Len(w[i]), Append(t, text[i]))
    BY <1>0, <2>2, <2>6, CutStep
  <2> QED
    BY <1>4, <2>3, <2>5, <2>7
<1> QED
  BY <1>5, <1>6

\* For every text: what is written for it reads as that text, and as nothing else.
LEMMA WrittenReads ==
  ASSUME NEW text \in Seq(Scalar)
  PROVE  /\ Literals(serializeString(text)) = {[text |-> text, end |-> Len(serializeString(text))]}
         /\ \A i \in DOMAIN serializeString(text) : serializeString(text)[i] >= 32
<1> DEFINE n == Len(text)
           s == serializeString(text)
<1>0. n \in Nat
  OBVIOUS
<1>1. CASE n = 0
  <2>1. text = <<>>
    BY <1>1
  <2> DEFINE b == <<>>
  <2>2. s = <<34>> \o b \o <<34>> /\ b \in Seq(Nat) /\ Len(b) = 0
    <3>1. [i \in DOMAIN text |-> appendEscaped(text[i])] = <<>>
      BY <2>1
    <3>2. FlattenSeq(<<>>) = <<>>
      BY DEF FlattenSeq
    <3>3. s = <<34>> \o <<>> \o <<34>>
      BY <3>1, <3>2, Zenon DEF serializeString, Quote
    <3>4. <<>> \in Seq(Nat) /\ Len(<<>>) = 0
      OBVIOUS
    <3> HIDE DEF s
    <3> QED
      BY <3>3, <3>4, Zenon
  <2> HIDE DEF b, s
  <2>3. Len(s) = 2 /\ s[1] = 34 /\ s[2] = 34 /\ s \in Seq(Nat) /\ DOMAIN s = 1 .. 2
    <3>1. s \in Seq(Nat) /\ Len(s) = Len(b) + 2 /\ s[1] = 34 /\ s[Len(s)] = 34
      BY <2>2
    <3> QED
      BY <2>2, <3>1
  <2>4. Cut(s, 1, <<>>)
    <3>1. Len(s) \in Nat /\ 1 <= Len(s)
      BY <2>3
    <3> QED
      BY <3>1, CutStart
  <2>5. Literals(s) = {[text |-> <<>>, end |-> 1 + 1]}
    BY <2>3, <2>4, LiteralsClosed
  <2>6. \A i \in DOMAIN s : s[i] >= 32
    BY <2>3
  <2> QED
    BY <2>1, <2>3, <2>5, <2>6 DEF s
<1>2. CASE n # 0
  <2> DEFINE w == Pieces(text)
  <2>0. PICK f : IsFlat(w, f, n) /\ Quoted(s, f[n])
    BY <1>2, WrittenLayout
  <2>1. /\ f[n] \in Seq(Nat) /\ s \in Seq(Nat)
        /\ Len(s) = Len(f[n]) + 2 /\ Len(f[n]) \in Nat
        /\ s[1] = 34 /\ s[Len(s)] = 34
        /\ \A k \in 1 .. Len(f[n]) : s[1 + k] = f[n][k]
    BY <2>0 DEF Quoted
  <2> HIDE DEF s, n
  <2>2. \A i \in 0 .. n : Cut(s, EndOf(f, i), SubSeq(text, 1, i))
    <3>1. w = Pieces(text) /\ n = Len(text)
      BY DEF n
    <3> HIDE DEF w
    <3> QED
      BY <1>2, <2>0, <3>1, WrittenCuts
  <2>3. n \in 0 .. n /\ EndOf(f, n) = 1 + Len(f[n]) /\ SubSeq(text, 1, n) = text
    BY <1>0, <1>2 DEF EndOf, n
  <2>4. Len(s) \in Nat /\ EndOf(f, n) + 1 = Len(s) /\ EndOf(f, n) < Len(s)
    BY <2>1, <2>3
  <2>5. Literals(s) = {[text |-> text, end |-> Len(s)]}
    <3>1. Cut(s, EndOf(f, n), text)
      BY <2>2, <2>3
    <3>2. s[EndOf(f, n) + 1] = 34
      BY <2>1, <2>4
    <3>3. Literals(s) = {[text |-> text, end |-> EndOf(f, n) + 1]}
      BY <2>1, <2>4, <3>1, <3>2, LiteralsClosed
    <3> QED
      BY <2>4, <3>3
  <2>6. ASSUME NEW j \in DOMAIN s PROVE s[j] >= 32
    <3>1. \A i \in 1 .. n : text[i] \in Scalar /\ w[i] = appendEscaped(text[i]) /\ w[i] \in Seq(Nat)
      <4>1. \A i \in 1 .. n : text[i] \in Scalar /\ i \in DOMAIN text
        BY DEF n
      <4> QED
        BY <4>1, EscapedType DEF Pieces
    <3>2. \A i \in 1 .. n : \A k \in 1 .. Len(f[i]) : f[i][k] >= 32
      <4> DEFINE Bad == {i \in 1 .. n : ~(\A k \in 1 .. Len(f[i]) : f[i][k] >= 32)}
      <4> SUFFICES ASSUME Bad # {} PROVE FALSE
        OBVIOUS
      <4>1. PICK i \in Bad : \A m \in Bad : i <= m
        <5>1. Bad \subseteq Nat
          BY <1>0
        <5> HIDE DEF Bad
        <5> QED
          BY <5>1, LeastOf
      <4>2. i \in 1 .. n /\ ~(\A k \in 1 .. Len(f[i]) : f[i][k] >= 32)
        BY <4>1
      <4>3. f[i] = IF i = 1 THEN w[i] ELSE f[i - 1] \o w[i]
        <5>1. \A h \in 1 .. n : f[h] = IF h = 1 THEN w[h] ELSE f[h - 1] \o w[h]
          BY <1>0, <2>0, FlatStep
        <5>2. i \in 1 .. n
          BY <4>2
        <5> HIDE DEF Bad, w
        <5> QED
          BY <5>1, <5>2
      <4>4. w[i] \in Seq(Nat) /\ \A k \in 1 .. Len(w[i]) : w[i][k] >= 32
        BY <3>1, <4>2, EscapedType
      <4>5. CASE i = 1
        BY <4>2, <4>3, <4>4, <4>5
      <4>6. CASE i # 1
        <5>1. i - 1 \in 1 .. n /\ i - 1 \notin Bad
          BY <1>0, <4>1, <4>2, <4>6
        <5>2. f[i - 1] \in Seq(Nat) /\ \A k \in 1 .. Len(f[i - 1]) : f[i - 1][k] >= 32
          BY <1>0, <2>0, <3>1, <5>1, FlatPrefix
        <5> DEFINE u == f[i - 1]
                   v == w[i]
        <5>3. u \in Seq(Nat) /\ v \in Seq(Nat) /\ f[i] = u \o v
              /\ (\A k \in 1 .. Len(u) : u[k] >= 32) /\ \A k \in 1 .. Len(v) : v[k] >= 32
          BY <4>3, <4>4, <4>6, <5>2
        <5> HIDE DEF u, v
        <5>4. \A k \in 1 .. Len(u \o v) : (u \o v)[k] >= 32
          BY <5>3
        <5> QED
          BY <4>2, <5>3, <5>4
      <4> QED
        BY <4>5, <4>6
    <3>3. CASE j = 1 \/ j = Len(s)
      BY <2>1, <3>3
    <3>4. CASE j # 1 /\ j # Len(s)
      <4>1. j - 1 \in 1 .. Len(f[n]) /\ 1 + (j - 1) = j
        <5>1. j \in 1 .. Len(s)
          BY <2>1
        <5>2. j \in Nat /\ 1 < j /\ j < Len(f[n]) + 2
          BY <2>1, <3>4, <5>1
        <5>3. \A m \in Nat, x \in Nat : (1 < x /\ x < m + 2) => x - 1 \in 1 .. m /\ 1 + (x - 1) = x
          OBVIOUS
        <5>4. Len(f[n]) \in Nat
          BY <2>1
        <5> QED
          BY <5>2, <5>3, <5>4
      <4>2. s[j] = f[n][j - 1]
        BY <2>1, <4>1
      <4>3. n \in 1 .. n
        BY <1>0, <1>2
      <4> QED
        BY <3>2, <4>1, <4>2, <4>3
    <3> QED
      BY <3>3, <3>4
  <2> QED
    BY <2>5, <2>6 DEF s
<1> QED
  BY <1>1, <1>2

\* For every text that parseString may accept, the grammar reads what serializeString
\* writes as that text and as no other, and no control character is in it.
THEOREM WrittenIsRead == Spec => []WrittenReadsBack
<1>1. IInv => WrittenReadsBack
  <2> SUFFICES ASSUME IInv PROVE WrittenReadsBack
    OBVIOUS
  <2>1. buf \in Seq(Scalar)
    BY DEF IInv, TypeOK, IsText
  <2> QED
    BY <2>1, WrittenReads DEF WrittenReadsBack
<1> QED
  BY <1>1, Invariance, PTL

\* The parser stays inside the string, and every verdict is one of its classes
\* at an offset of the input.
THEOREM TypeCorrect == Spec => []TypeOK
<1>1. IInv => TypeOK
  BY DEF IInv
<1> QED
  BY <1>1, Invariance, PTL

\* Whatever escapes and surrogate pairs the input holds, what parseString decodes
\* is a sequence of Unicode scalar values without noncharacters.
THEOREM DecodesIJson == Spec => []DecodedIsIJson
<1>1. IInv => DecodedIsIJson
  BY DEF IInv
<1> QED
  BY <1>1, Invariance, PTL

================================================================================
