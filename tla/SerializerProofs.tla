---------------------------- MODULE SerializerProofs ----------------------------
(***************************************************************************)
(* What the serializer guarantees for any tree and limits: the comparison  *)
(* of keys is a strict total order in both of its branches, a tree that is *)
(* emitted is valid in every one of its values, and so the unstable sort   *)
(* has no choice.                                                          *)
(***************************************************************************)
EXTENDS Serializer, SequenceTheorems, FunctionTheorems, FiniteSetTheorems,
        WellFoundedInduction, TLAPS

--------------------------------------------------------------------------------
(* compareUTF16Units *)

\* Two sequences that differ within both have a first place where they do.
LEMMA FirstDifference ==
  ASSUME NEW ua \in Seq(Nat), NEW ub \in Seq(Nat),
         NEW k \in 1 .. Shorter(Len(ua), Len(ub)), ua[k] # ub[k]
  PROVE  \E i \in 1 .. Len(ua) : DifferAt(ua, ub, i)
<1> DEFINE T == {i \in 1 .. Shorter(Len(ua), Len(ub)) : ua[i] # ub[i]}
<1>1. T \subseteq Nat /\ T # {}
  <2>1. T # {}
    OBVIOUS
  <2>2. 1 .. Shorter(Len(ua), Len(ub)) \subseteq Nat
    BY DEF Shorter
  <2>3. QED
    BY Zenon, <2>1, <2>2
<1>2. PICK i \in T : \A j \in T : <<j, i>> \notin OpToRel(<, Nat)
  BY <1>1, WFMin, NatLessThanWellFounded
<1>3. \A j \in T : ~(j < i)
  BY <1>1, <1>2 DEF OpToRel
<1>4. \A j \in 1 .. i - 1 : ua[j] = ub[j]
  BY <1>3 DEF Shorter
<1>5. QED
  BY <1>4 DEF DifferAt, Shorter

\* What the comparison decides, by first difference and by length.
Before(ua, ub) ==
  \/ \E i \in 1 .. Len(ua) : DifferAt(ua, ub, i) /\ ua[i] < ub[i]
  \/ /\ \A i \in 1 .. Shorter(Len(ua), Len(ub)) : ua[i] = ub[i]
     /\ Len(ua) < Len(ub)

\* No two places are both the first difference.
LEMMA DifferenceUnique ==
  ASSUME NEW ua \in Seq(Nat), NEW ub \in Seq(Nat), NEW i, NEW j,
         DifferAt(ua, ub, i), DifferAt(ua, ub, j)
  PROVE  i = j
<1>1. Shorter(Len(ua), Len(ub)) \in Nat
  BY DEF Shorter
<1>2. ASSUME NEW h, DifferAt(ua, ub, h)
      PROVE  /\ h \in Nat /\ 1 <= h /\ ua[h] # ub[h]
             /\ \A m \in 1 .. h - 1 : ua[m] = ub[m]
  BY SMTT(30), <1>1, <1>2 DEF DifferAt
<1>3. ASSUME NEW h, NEW g, DifferAt(ua, ub, h), DifferAt(ua, ub, g) PROVE ~(h < g)
  <2>1. h \in Nat /\ g \in Nat /\ 1 <= h /\ ua[h] # ub[h]
    BY <1>2, <1>3
  <2>2. h < g => h \in 1 .. g - 1
    BY <2>1
  <2>3. QED
    BY <1>2, <1>3, <2>1, <2>2
<1>4. i \in Nat /\ j \in Nat /\ ~(i < j) /\ ~(j < i)
  BY <1>2, <1>3
<1>5. QED
  BY <1>4

\* The three results exclude each other, and each has its meaning.
LEMMA CompareMeaning ==
  ASSUME NEW ua \in Seq(Nat), NEW ub \in Seq(Nat)
  PROVE  /\ compareUTF16Units(ua, ub) = -1 <=> Before(ua, ub)
         /\ compareUTF16Units(ua, ub) = 1 <=> Before(ub, ua)
         /\ compareUTF16Units(ua, ub) = 0 <=> ua = ub
<1> DEFINE n == Shorter(Len(ua), Len(ub))
           Below == \E i \in 1 .. Len(ua) : DifferAt(ua, ub, i) /\ ua[i] < ub[i]
           Above == \E i \in 1 .. Len(ua) : DifferAt(ua, ub, i) /\ ua[i] > ub[i]
           Same == \A i \in 1 .. n : ua[i] = ub[i]
<1>1. /\ n \in Nat /\ n <= Len(ua) /\ n <= Len(ub) /\ n = Shorter(Len(ub), Len(ua))
      /\ Len(ua) \in Nat /\ Len(ub) \in Nat
  BY DEF Shorter
<1>2. \A i : DifferAt(ua, ub, i) => i \in 1 .. n /\ ua[i] \in Nat /\ ub[i] \in Nat /\ ua[i] # ub[i]
  BY <1>1 DEF DifferAt
<1>3. \A i : DifferAt(ua, ub, i) <=> DifferAt(ub, ua, i)
  BY <1>1 DEF DifferAt
<1>4. ~Below /\ ~Above <=> Same
  <2>1. ASSUME ~Same PROVE Below \/ Above
    <3>1. PICK k \in 1 .. n : ua[k] # ub[k]
      BY <2>1
    <3>2. PICK i \in 1 .. Len(ua) : DifferAt(ua, ub, i)
      BY <3>1, FirstDifference
    <3>3. ua[i] < ub[i] \/ ua[i] > ub[i]
      BY <1>2, <3>2
    <3>4. QED
      BY <3>2, <3>3
  <2>2. ASSUME Same PROVE ~Below /\ ~Above
    BY <1>2, <2>2
  <2>3. QED
    BY <2>1, <2>2
<1>5. ~(Below /\ Above)
  <2>1. SUFFICES ASSUME NEW i \in 1 .. Len(ua), DifferAt(ua, ub, i), ua[i] < ub[i],
                        NEW j \in 1 .. Len(ua), DifferAt(ua, ub, j), ua[j] > ub[j]
                 PROVE  FALSE
    OBVIOUS
  <2>2. i = j
    BY <2>1, DifferenceUnique
  <2>3. QED
    BY <1>2, <2>1, <2>2
<1>6. Before(ua, ub) <=> Below \/ (Same /\ Len(ua) < Len(ub))
  BY DEF Before
<1>7. Before(ub, ua) <=> Above \/ (Same /\ Len(ub) < Len(ua))
  <2>1. Above <=> \E i \in 1 .. Len(ub) : DifferAt(ub, ua, i) /\ ub[i] < ua[i]
    BY <1>1, <1>2, <1>3
  <2>2. Same <=> \A i \in 1 .. Shorter(Len(ub), Len(ua)) : ub[i] = ua[i]
    BY <1>1
  <2>3. QED
    BY <2>1, <2>2 DEF Before
<1>8. Same /\ Len(ua) = Len(ub) <=> ua = ub
  BY <1>1, SeqEqual DEF Shorter
<1>9. compareUTF16Units(ua, ub) =
        IF Below THEN -1 ELSE IF Above THEN 1
        ELSE IF Len(ua) < Len(ub) THEN -1 ELSE IF Len(ua) > Len(ub) THEN 1 ELSE 0
  BY DEF compareUTF16Units
<1> HIDE DEF n, Below, Above, Same
<1>10. QED
  BY <1>1, <1>4, <1>5, <1>6, <1>7, <1>8, <1>9

\* Place i decides that a comes before b: they agree up to it, and there a is
\* the smaller or has ended.
DecidedAt(a, b, i) ==
  /\ i \in 1 .. Len(b)
  /\ i <= Len(a) + 1
  /\ \A j \in 1 .. i - 1 : a[j] = b[j]
  /\ i <= Len(a) => a[i] < b[i]

LEMMA BeforeIsDecided ==
  ASSUME NEW a \in Seq(Nat), NEW b \in Seq(Nat)
  PROVE  Before(a, b) <=> \E i \in Nat : DecidedAt(a, b, i)
<1>1. /\ Len(a) \in Nat /\ Len(b) \in Nat
      /\ Shorter(Len(a), Len(b)) \in Nat
      /\ Shorter(Len(a), Len(b)) <= Len(a) /\ Shorter(Len(a), Len(b)) <= Len(b)
  BY DEF Shorter
<1>2. ASSUME NEW i \in 1 .. Len(a), DifferAt(a, b, i), a[i] < b[i]
      PROVE  DecidedAt(a, b, i) /\ i \in Nat
  BY <1>1, <1>2 DEF DifferAt, DecidedAt
<1>3. ASSUME \A i \in 1 .. Shorter(Len(a), Len(b)) : a[i] = b[i], Len(a) < Len(b)
      PROVE  DecidedAt(a, b, Len(a) + 1) /\ Len(a) + 1 \in Nat
  BY <1>1, <1>3 DEF Shorter, DecidedAt
<1>4. ASSUME NEW i \in Nat, DecidedAt(a, b, i)
      PROVE  Before(a, b)
  <2>1. CASE i <= Len(a)
    <3>1. i \in 1 .. Shorter(Len(a), Len(b))
      BY <1>1, <1>4, <2>1 DEF DecidedAt, Shorter
    <3>2. a[i] \in Nat /\ b[i] \in Nat
      BY <1>1, <3>1
    <3>3. DifferAt(a, b, i) /\ a[i] < b[i]
      BY <1>4, <2>1, <3>1, <3>2 DEF DecidedAt, DifferAt
    <3>4. QED
      BY <1>1, <3>1, <3>3 DEF Before
  <2>2. CASE i = Len(a) + 1
    <3>1. Len(a) < Len(b) /\ \A j \in 1 .. Len(a) : a[j] = b[j]
      BY <1>1, <1>4, <2>2 DEF DecidedAt
    <3>2. Shorter(Len(a), Len(b)) = Len(a)
      BY <1>1, <3>1 DEF Shorter
    <3>3. QED
      BY <3>1, <3>2 DEF Before
  <2>3. i <= Len(a) \/ i = Len(a) + 1
    <3>1. i \in Nat /\ i <= Len(a) + 1
      BY <1>4 DEF DecidedAt
    <3>2. QED
      BY <1>1, <3>1
  <2>4. QED
    BY <2>1, <2>2, <2>3
<1>5. QED
  BY <1>2, <1>3, <1>4 DEF Before

\* Of two deciding places, the earlier decides for the chain.
LEMMA BeforeTransitive ==
  ASSUME NEW a \in Seq(Nat), NEW b \in Seq(Nat), NEW c \in Seq(Nat),
         Before(a, b), Before(b, c)
  PROVE  Before(a, c)
<1>1. PICK i \in Nat : DecidedAt(a, b, i)
  BY BeforeIsDecided
<1>2. PICK k \in Nat : DecidedAt(b, c, k)
  BY BeforeIsDecided
<1>3. Len(a) \in Nat /\ Len(b) \in Nat /\ Len(c) \in Nat
  OBVIOUS
<1>4. CASE i <= k
  <2>1. i \in 1 .. Len(b) /\ i \in 1 .. Len(c) /\ i <= Len(a) + 1
    BY <1>1, <1>2, <1>3, <1>4 DEF DecidedAt
  <2>2. \A j \in 1 .. i - 1 : a[j] = c[j]
    BY <1>1, <1>2, <1>4 DEF DecidedAt
  <2>3. b[i] \in Nat /\ c[i] \in Nat /\ (i < k => b[i] = c[i]) /\ (i = k => b[i] < c[i])
    <3>1. b[i] \in Nat /\ c[i] \in Nat
      BY SMTT(30), <1>3, <2>1
    <3>2. i < k => i \in 1 .. k - 1
      BY <1>3, <2>1
    <3>3. (i < k => b[i] = c[i])
      BY <1>2, <3>2 DEF DecidedAt
    <3>4. k <= Len(b) => b[k] < c[k]
      BY <1>2 DEF DecidedAt
    <3>5. i = k => b[i] < c[i]
      BY <1>3, <2>1, <3>4
    <3>6. QED
      BY <3>1, <3>3, <3>5
  <2>4. ASSUME i <= Len(a) PROVE a[i] < c[i]
    <3>1. a[i] \in Nat /\ a[i] < b[i]
      BY SMTT(30), <1>1, <1>3, <2>1, <2>4 DEF DecidedAt
    <3>2. QED
      BY <1>4, <2>3, <3>1
  <2>5. QED
    BY <2>1, <2>2, <2>4, BeforeIsDecided DEF DecidedAt
<1>5. CASE k < i
  <2>1. k \in 1 .. Len(a) /\ k \in 1 .. Len(b) /\ k \in 1 .. Len(c)
    <3>1. i \in 1 .. Len(b) /\ i <= Len(a) + 1
      BY <1>1 DEF DecidedAt
    <3>2. k \in 1 .. Len(c)
      BY <1>2 DEF DecidedAt
    <3>3. QED
      BY <1>3, <1>5, <3>1, <3>2
  <2>2. \A j \in 1 .. k - 1 : a[j] = c[j]
    BY <1>1, <1>2, <1>5 DEF DecidedAt
  <2>3. a[k] = b[k] /\ b[k] < c[k]
    BY <1>1, <1>2, <1>3, <1>5, <2>1 DEF DecidedAt
  <2>4. DecidedAt(a, c, k)
    BY <1>3, <2>1, <2>2, <2>3 DEF DecidedAt
  <2>5. QED
    BY <2>4, BeforeIsDecided
<1>6. QED
  BY <1>4, <1>5

\* compareUTF16Units (serialize.go) orders all sequences of code units totally:
\* it is antisymmetric, gives zero to equal sequences alone, and is transitive.
\* So sort.Slice, though not stable, can leave distinct keys in one order only.
THEOREM CompareIsTotalOrder ==
  ASSUME NEW a \in Seq(Nat), NEW b \in Seq(Nat), NEW c \in Seq(Nat)
  PROVE  /\ compareUTF16Units(a, b) = -compareUTF16Units(b, a)
         /\ compareUTF16Units(a, b) = 0 => a = b
         /\ compareUTF16Units(a, b) = -1 /\ compareUTF16Units(b, c) = -1
              => compareUTF16Units(a, c) = -1
<1>1. compareUTF16Units(a, b) \in {-1, 0, 1} /\ compareUTF16Units(b, a) \in {-1, 0, 1}
  BY DEF compareUTF16Units
<1>2. compareUTF16Units(a, b) = -compareUTF16Units(b, a)
  BY <1>1, CompareMeaning
<1>3. compareUTF16Units(a, b) = 0 => a = b
  BY CompareMeaning
<1>4. compareUTF16Units(a, b) = -1 /\ compareUTF16Units(b, c) = -1
        => compareUTF16Units(a, c) = -1
  BY CompareMeaning, BeforeTransitive
<1>5. QED
  BY <1>2, <1>3, <1>4

--------------------------------------------------------------------------------
(* utf16.Encode *)

\* Induction, for a property that is a set of numbers.
LEMMA SetInduction ==
  ASSUME NEW T \in SUBSET Nat, 0 \in T, \A n \in T : n + 1 \in T
  PROVE  T = Nat
<1> DEFINE Rest == Nat \ T
<1>1. ASSUME Rest # {} PROVE FALSE
  <2>1. PICK n \in Rest : \A m \in Rest : <<m, n>> \notin OpToRel(<, Nat)
    BY <1>1, WFMin, NatLessThanWellFounded
  <2>2. n \in Nat /\ n # 0 /\ n - 1 \in Nat
    OBVIOUS
  <2>3. \A m \in Rest : ~(m < n)
    BY <2>1 DEF OpToRel
  <2>4. n - 1 \in T
    BY <2>2, <2>3
  <2>5. (n - 1) + 1 \in T
    BY <2>4
  <2> QED
    BY <2>2, <2>5
<1>2. QED
  BY <1>1

\* The parts of a flattened sequence, one after the other.
Joined(parts, g, n) ==
  g = [i \in 1 .. n |-> IF i = 1 THEN parts[1] ELSE g[i - 1] \o parts[i]]

LEMMA JoinedExists ==
  ASSUME NEW parts
  PROVE  \A n \in Nat : \E g : Joined(parts, g, n)
<1> DEFINE T == {n \in Nat : \E g : Joined(parts, g, n)}
<1>1. 0 \in T
  <2>1. Joined(parts, [i \in 1 .. 0 |-> 0], 0)
    BY DEF Joined
  <2>2. QED
    BY <2>1
<1>2. ASSUME NEW n \in T PROVE n + 1 \in T
  <2>1. PICK g : Joined(parts, g, n)
    OBVIOUS
  <2> DEFINE h == [i \in 1 .. n + 1 |-> IF i <= n THEN g[i]
                     ELSE IF i = 1 THEN parts[1] ELSE g[i - 1] \o parts[i]]
  <2>2. \A i \in 1 .. n : g[i] = IF i = 1 THEN parts[1] ELSE g[i - 1] \o parts[i]
    BY <2>1 DEF Joined
  <2>3. \A i \in 1 .. n + 1 : i # 1 => h[i - 1] = g[i - 1]
    OBVIOUS
  <2>4. \A i \in 1 .. n + 1 : h[i] = IF i = 1 THEN parts[1] ELSE h[i - 1] \o parts[i]
    BY <2>2, <2>3
  <2>5. Joined(parts, h, n + 1)
    BY <2>4 DEF Joined
  <2>6. QED
    BY <2>5
<1>3. T = Nat
  BY <1>1, <1>2, SetInduction
<1>4. QED
  BY <1>3

LEMMA FlattenJoins ==
  ASSUME NEW parts, Len(parts) \in Nat \ {0}
  PROVE  \E g : Joined(parts, g, Len(parts)) /\ FlattenSeq(parts) = g[Len(parts)]
<1> DEFINE g == CHOOSE f : Joined(parts, f, Len(parts))
<1>1. Joined(parts, g, Len(parts))
  BY JoinedExists
<1>2. FlattenSeq(parts) = g[Len(parts)]
  BY DEF FlattenSeq, Joined
<1>3. QED
  BY <1>1, <1>2

\* Unicode scalar values, and what a valid key is made of.
CodePoint == {c \in Nat : c <= 1114111 /\ (c < 55296 \/ 57343 < c)}

\* code[i] is the encoding of the first i characters.
Encoding(text, code) ==
  /\ code \in [0 .. Len(text) -> Seq(Nat)]
  /\ code[0] = <<>>
  /\ \A i \in 1 .. Len(text) : code[i] = code[i - 1] \o Units(text[i])

LEMMA UnitsOf ==
  ASSUME NEW c \in CodePoint
  PROVE  /\ Units(c) \in Seq(Nat)
         /\ c < 65536 => Units(c) = <<c>> /\ ~(56320 <= c /\ c <= 57343)
         /\ ~(c < 65536) =>
              \E h, l \in Nat : /\ Units(c) = <<h, l>>
                                /\ 56320 <= l /\ l <= 57343
                                /\ c = 65536 + 1024 * (h - 55296) + (l - 56320)
<1>1. CASE c < 65536
  BY SMT, <1>1 DEF Units, CodePoint
<1>2. CASE ~(c < 65536)
  <2> DEFINE d == c - 65536
             high == d \div 1024
             low == d % 1024
  <2>1. d \in Nat
    BY SMT, <1>2 DEF CodePoint
  <2>2. high \in Nat /\ low \in Nat /\ low < 1024 /\ d = 1024 * high + low
    BY SMT, <2>1
  <2>3. Units(c) = <<55296 + high, 56320 + low>>
    BY SMT, <1>2 DEF Units
  <2> HIDE DEF high, low
  <2>4. /\ 55296 + high \in Nat /\ 56320 + low \in Nat
        /\ 56320 <= 56320 + low /\ 56320 + low <= 57343
        /\ c = 65536 + 1024 * ((55296 + high) - 55296) + ((56320 + low) - 56320)
    BY SMT, <2>1, <2>2 DEF CodePoint
  <2>5. Units(c) \in Seq(Nat)
    BY SMT, <2>3, <2>4
  <2> QED
    BY SMT, <1>2, <2>3, <2>4, <2>5
<1> QED
  BY SMT, <1>1, <1>2

LEMMA EncodingExists ==
  ASSUME NEW text \in Seq(CodePoint)
  PROVE  \E code : Encoding(text, code) /\ Encode16(text) = code[Len(text)]
<1> DEFINE n == Len(text)
           parts == [i \in 1 .. n |-> Units(text[i])]
<1>1. n \in Nat /\ \A i \in 1 .. n : text[i] \in CodePoint /\ parts[i] \in Seq(Nat)
  BY SMT, UnitsOf
<1>2. parts \in Seq(Seq(Nat)) /\ Len(parts) = n
  BY <1>1
<1>3. CASE n = 0
  <2>1. Encode16(text) = <<>>
    <3>1. Len(parts) = 0 /\ parts = <<>>
      BY <1>2, <1>3
    <3> QED
      BY <3>1 DEF Encode16, FlattenSeq
  <2>2. Encoding(text, [i \in 0 .. 0 |-> <<>>])
    BY <1>3 DEF Encoding
  <2> QED
    BY <1>3, <2>1, <2>2
<1>4. CASE n # 0
  <2>1. PICK g : Joined(parts, g, n) /\ FlattenSeq(parts) = g[n]
    BY <1>1, <1>2, <1>4, FlattenJoins
  <2> DEFINE code == [i \in 0 .. n |-> IF i = 0 THEN <<>> ELSE g[i]]
  <2>2. \A i \in 1 .. n : g[i] = IF i = 1 THEN parts[1] ELSE g[i - 1] \o parts[i]
    BY <2>1 DEF Joined
  <2>3. \A i \in 1 .. n : code[i] = code[i - 1] \o parts[i]
    <3>1. ASSUME NEW i \in 1 .. n PROVE code[i] = code[i - 1] \o parts[i]
      <4>1. CASE i = 1
        <5>1. code[i] = parts[i] /\ code[i - 1] = <<>>
          BY <2>2, <4>1
        <5> QED
          BY <1>1, <5>1, ConcatEmptySeq
      <4>2. CASE i # 1
        <5>1. code[i] = g[i] /\ code[i - 1] = g[i - 1]
          BY <4>2
        <5> QED
          BY <2>2, <4>2, <5>1
      <4> QED
        BY <4>1, <4>2
    <3> QED
      BY <3>1
  <2>4. \A i \in 0 .. n : code[i] \in Seq(Nat)
    <3> DEFINE T == {i \in Nat : i <= n => code[i] \in Seq(Nat)}
    <3>1. 0 \in T
      <4>1. code[0] = <<>> /\ <<>> \in Seq(Nat)
        OBVIOUS
      <4> QED
        BY <4>1
    <3>2. ASSUME NEW i \in T PROVE i + 1 \in T
      <4> HIDE DEF code, parts
      <4>1. SUFFICES ASSUME i + 1 <= n PROVE code[i + 1] \in Seq(Nat)
        OBVIOUS
      <4>2. i \in Nat /\ i + 1 \in 1 .. n /\ (i + 1) - 1 = i /\ code[i] \in Seq(Nat)
        BY <1>1, <4>1
      <4>3. code[i + 1] = code[i] \o parts[i + 1] /\ parts[i + 1] \in Seq(Nat)
        BY <1>1, <2>3, <4>2
      <4> QED
        BY <4>2, <4>3, ConcatProperties
    <3> HIDE DEF code
    <3>3. T = Nat
      BY <3>1, <3>2, SetInduction
    <3> QED
      BY <3>3
  <2>5. Encoding(text, code)
    <3>1. code \in [0 .. n -> Seq(Nat)]
      BY <2>4
    <3>2. code[0] = <<>>
      BY <1>1
    <3> QED
      BY <2>3, <3>1, <3>2 DEF Encoding
  <2>6. Encode16(text) = code[n]
    BY <1>1, <1>4, <2>1 DEF Encode16
  <2> QED
    BY <2>5, <2>6
<1> QED
  BY <1>3, <1>4

IsLow(v) == 56320 <= v /\ v <= 57343

\* The last units of u encode c, after the first m.
EndsWith(u, c, m) ==
  /\ u \in Seq(Nat) /\ u # <<>>
  /\ ~IsLow(u[Len(u)]) => c = u[Len(u)] /\ m = Len(u) - 1
  /\ IsLow(u[Len(u)]) =>
       c = 65536 + 1024 * (u[Len(u) - 1] - 55296) + (u[Len(u)] - 56320) /\ m = Len(u) - 2

LEMMA LastUnit ==
  ASSUME NEW s \in Seq(Nat), NEW c \in CodePoint
  PROVE  /\ EndsWith(s \o Units(c), c, Len(s))
         /\ \A i \in 1 .. Len(s) : (s \o Units(c))[i] = s[i]
<1>1. Units(c) \in Seq(Nat) /\ Len(s) \in Nat
  BY SMT, UnitsOf
<1>2. \A i \in 1 .. Len(s) : (s \o Units(c))[i] = s[i]
  BY SMT, <1>1
<1>3. CASE c < 65536
  <2>1. Units(c) = <<c>> /\ ~IsLow(c) /\ c \in Nat
    BY SMT, <1>3, UnitsOf DEF CodePoint, IsLow
  <2> DEFINE u == s \o <<c>>
  <2>2. u \in Seq(Nat) /\ Len(u) = Len(s) + 1 /\ u[Len(u)] = c
    BY SMT, <1>1, <2>1
  <2> HIDE DEF u
  <2>3. EndsWith(u, c, Len(s))
    BY SMT, <1>1, <2>1, <2>2 DEF EndsWith
  <2> QED
    BY SMT, <1>2, <2>1, <2>3 DEF u
<1>4. CASE ~(c < 65536)
  <2>1. PICK h \in Nat, l \in Nat : /\ Units(c) = <<h, l>>
                                /\ IsLow(l)
                                /\ c = 65536 + 1024 * (h - 55296) + (l - 56320)
    BY SMT, <1>4, UnitsOf DEF IsLow
  <2> DEFINE u == s \o <<h, l>>
  <2>2. u \in Seq(Nat) /\ Len(u) = Len(s) + 2 /\ u[Len(u)] = l /\ u[Len(u) - 1] = h
    BY SMT, <1>1
  <2> HIDE DEF u
  <2>3. EndsWith(u, c, Len(s))
    BY SMT, <1>1, <2>1, <2>2 DEF EndsWith
  <2> QED
    BY SMT, <1>2, <2>1, <2>3 DEF u
<1> QED
  BY SMT, <1>3, <1>4

\* The end of an encoding determines the character and what is before it.
LEMMA EndDetermined ==
  ASSUME NEW s \in Seq(Nat), NEW c \in CodePoint, NEW t \in Seq(Nat), NEW d \in CodePoint,
         s \o Units(c) = t \o Units(d)
  PROVE  s = t /\ c = d
<1> DEFINE u == s \o Units(c)
<1>1. EndsWith(u, c, Len(s)) /\ EndsWith(u, d, Len(t))
  BY Zenon, LastUnit
<1>2. \A i \in 1 .. Len(s) : u[i] = s[i]
  BY SMT, LastUnit
<1>3. \A i \in 1 .. Len(t) : u[i] = t[i]
  BY SMT, LastUnit
<1> HIDE DEF u
<1>4. c = d /\ Len(s) = Len(t)
  BY SMT, <1>1 DEF EndsWith
<1> QED
  BY SMT, <1>2, <1>3, <1>4, SeqEqual

\* The encoding can be read from its end: no two texts share one.
LEMMA EncodeInjective ==
  ASSUME NEW a \in Seq(CodePoint), NEW b \in Seq(CodePoint), Encode16(a) = Encode16(b)
  PROVE  a = b
<1>1. PICK ca : Encoding(a, ca) /\ Encode16(a) = ca[Len(a)]
  BY EncodingExists
<1>2. PICK cb : Encoding(b, cb) /\ Encode16(b) = cb[Len(b)]
  BY EncodingExists
<1>3. Len(a) \in Nat /\ Len(b) \in Nat
  OBVIOUS
<1> DEFINE Agrees(i) ==
             \A j \in 0 .. Len(b) :
               i <= Len(a) /\ ca[i] = cb[j] => i = j /\ \A k \in 1 .. i : a[k] = b[k]
           T == {i \in Nat : Agrees(i)}
<1>4. \A i \in 0 .. Len(a) : ca[i] \in Seq(Nat)
  BY <1>1 DEF Encoding
<1>5. \A j \in 0 .. Len(b) : cb[j] \in Seq(Nat)
  BY <1>2 DEF Encoding
<1>6. ASSUME NEW i \in 1 .. Len(a) PROVE ca[i] = ca[i - 1] \o Units(a[i]) /\ a[i] \in CodePoint
  BY <1>1 DEF Encoding
<1>7. ASSUME NEW j \in 1 .. Len(b) PROVE cb[j] = cb[j - 1] \o Units(b[j]) /\ b[j] \in CodePoint
  <2>1. cb[j] = cb[j - 1] \o Units(b[j])
    BY <1>2 DEF Encoding
  <2> QED
    BY <2>1
<1>8. 0 \in T
  <2> SUFFICES ASSUME NEW j \in 0 .. Len(b), ca[0] = cb[j] PROVE j = 0
    OBVIOUS
  <2>1. CASE j # 0
    <3>1. j \in 1 .. Len(b) /\ j - 1 \in 0 .. Len(b)
      BY <1>3, <2>1
    <3>2. EndsWith(cb[j - 1] \o Units(b[j]), b[j], Len(cb[j - 1]))
      BY <1>5, <1>7, <3>1, LastUnit
    <3>3. cb[j - 1] \o Units(b[j]) # <<>>
      BY SMT, <3>2 DEF EndsWith
    <3>4. cb[j] # <<>>
      BY Zenon, <1>7, <3>1, <3>3
    <3> QED
      BY <1>1, <3>4 DEF Encoding
  <2> QED
    BY <2>1
<1>9. ASSUME NEW i \in T PROVE i + 1 \in T
  <2> SUFFICES ASSUME NEW j \in 0 .. Len(b), i + 1 <= Len(a), ca[i + 1] = cb[j]
               PROVE  i + 1 = j /\ \A k \in 1 .. i + 1 : a[k] = b[k]
    OBVIOUS
  <2>1. i \in Nat /\ i + 1 \in 1 .. Len(a) /\ i \in 0 .. Len(a) /\ (i + 1) - 1 = i
    BY <1>3
  <2>2. ca[i + 1] = ca[i] \o Units(a[i + 1]) /\ a[i + 1] \in CodePoint /\ ca[i] \in Seq(Nat)
    BY <1>4, <1>6, <2>1
  <2>3. cb[j] # <<>>
    <3>1. EndsWith(ca[i] \o Units(a[i + 1]), a[i + 1], Len(ca[i]))
      BY <2>2, LastUnit
    <3> QED
      BY SMT, <2>2, <3>1 DEF EndsWith
  <2>4. j \in 1 .. Len(b) /\ j - 1 \in 0 .. Len(b)
    BY <1>2, <1>3, <2>3 DEF Encoding
  <2>5. cb[j] = cb[j - 1] \o Units(b[j]) /\ b[j] \in CodePoint /\ cb[j - 1] \in Seq(Nat)
    BY <1>5, <1>7, <2>4
  <2>6. a[i + 1] = b[j] /\ ca[i] = cb[j - 1]
    <3>1. ca[i] \o Units(a[i + 1]) = cb[j - 1] \o Units(b[j])
      BY <2>2, <2>5
    <3>2. ca[i] = cb[j - 1] /\ a[i + 1] = b[j]
      <4> DEFINE s == ca[i]
                 c == a[i + 1]
                 t == cb[j - 1]
                 d == b[j]
      <4>1. s \in Seq(Nat) /\ c \in CodePoint /\ t \in Seq(Nat) /\ d \in CodePoint
        BY <2>2, <2>5
      <4>2. s \o Units(c) = t \o Units(d)
        BY <3>1
      <4> HIDE DEF Agrees, T, s, c, t, d
      <4>3. s = t /\ c = d
        BY ZenonT(60), <4>1, <4>2, EndDetermined
      <4> QED
        BY <4>3 DEF s, c, t, d
    <3> QED
      BY <3>2
  <2>7. i = j - 1 /\ \A k \in 1 .. i : a[k] = b[k]
    BY <2>1, <2>4, <2>6
  <2> QED
    BY <2>1, <2>4, <2>6, <2>7
<1>10. T = Nat
  <2> HIDE DEF Agrees
  <2> QED
    BY <1>8, <1>9, SetInduction
<1>11. Len(a) = Len(b) /\ \A k \in 1 .. Len(a) : a[k] = b[k]
  <2>1. Agrees(Len(a))
    BY <1>3, <1>10
  <2>2. Len(b) \in 0 .. Len(b) /\ Len(a) <= Len(a)
    BY <1>3
  <2>3. ca[Len(a)] = cb[Len(b)]
    BY Zenon, <1>1, <1>2
  <2> QED
    BY <2>1, <2>2, <2>3
<1> QED
  BY <1>11, SeqEqual

\* An ASCII text is its own encoding.
LEMMA EncodeASCII ==
  ASSUME NEW a \in Seq(CodePoint), isASCII(a)
  PROVE  Encode16(a) = a
<1>1. PICK code : Encoding(a, code) /\ Encode16(a) = code[Len(a)]
  BY EncodingExists
<1>2. Len(a) \in Nat /\ \A i \in 1 .. Len(a) : a[i] \in Nat /\ Units(a[i]) = <<a[i]>>
  <2>1. \A i \in 1 .. Len(a) : a[i] \in CodePoint /\ a[i] < 128
    BY DEF isASCII
  <2>2. \A c \in CodePoint : c \in Nat /\ (c < 128 => Units(c) = <<c>>)
    BY SMT DEF Units, CodePoint
  <2>3. Len(a) \in Nat
    OBVIOUS
  <2> QED
    BY <2>1, <2>2, <2>3
<1> DEFINE Same(i) ==
             i <= Len(a) => /\ code[i] \in Seq(Nat) /\ Len(code[i]) = i
                            /\ \A k \in 1 .. i : code[i][k] = a[k]
           T == {i \in Nat : Same(i)}
<1>3. 0 \in T
  BY <1>1, <1>2 DEF Encoding
<1>4. ASSUME NEW i \in T PROVE i + 1 \in T
  <2> SUFFICES ASSUME i + 1 <= Len(a)
               PROVE  /\ code[i + 1] \in Seq(Nat) /\ Len(code[i + 1]) = i + 1
                      /\ \A k \in 1 .. i + 1 : code[i + 1][k] = a[k]
    OBVIOUS
  <2>1. i \in Nat /\ i + 1 \in 1 .. Len(a) /\ (i + 1) - 1 = i /\ i <= Len(a)
    BY <1>2
  <2>2. code[i + 1] = code[i] \o <<a[i + 1]>> /\ a[i + 1] \in Nat
    BY <1>1, <1>2, <2>1 DEF Encoding
  <2>3. /\ code[i] \in Seq(Nat) /\ Len(code[i]) = i
        /\ \A k \in 1 .. i : code[i][k] = a[k]
    BY <2>1
  <2> QED
    BY <2>1, <2>2, <2>3
<1>5. T = Nat
  <2> HIDE DEF Same
  <2> QED
    BY <1>3, <1>4, SetInduction
<1>6. Same(Len(a))
  BY <1>2, <1>5
<1>7. a \in Seq(Nat)
  BY <1>2
<1> QED
  BY <1>1, <1>2, <1>6, <1>7, SeqEqual

EncodingInNat ==
  \A a \in Seq(CodePoint) : Encode16(a) \in Seq(Nat)

LEMMA EncodingTyped == EncodingInNat
<1> SUFFICES ASSUME NEW a \in Seq(CodePoint) PROVE Encode16(a) \in Seq(Nat)
  BY DEF EncodingInNat
<1>1. PICK code : Encoding(a, code) /\ Encode16(a) = code[Len(a)]
  BY EncodingExists
<1>2. Len(a) \in 0 .. Len(a)
  OBVIOUS
<1> QED
  BY <1>1, <1>2 DEF Encoding

\* The shortcut on bytes decides as the comparison of the encodings does.
LEMMA ShortcutAgrees ==
  ASSUME NEW a \in Seq(CodePoint), NEW b \in Seq(CodePoint)
  PROVE  compareSortKeys(a, b) = compareUTF16Units(Encode16(a), Encode16(b))
<1>1. isASCII(a) /\ isASCII(b) => Encode16(a) = a /\ Encode16(b) = b
  BY EncodeASCII
<1> QED
  BY Zenon, <1>1 DEF compareSortKeys

\* compareSortKeys (serialize.go) orders all valid keys totally, whichever of
\* them are ASCII: it is antisymmetric, calls only equal keys equal, and is
\* transitive across its two branches.
THEOREM SortKeysTotalOrder ==
  ASSUME NEW a \in Seq(CodePoint), NEW b \in Seq(CodePoint), NEW c \in Seq(CodePoint)
  PROVE  /\ compareSortKeys(a, b) \in {-1, 0, 1}
         /\ compareSortKeys(a, b) = -compareSortKeys(b, a)
         /\ compareSortKeys(a, b) = 0 => a = b
         /\ compareSortKeys(a, b) < 0 /\ compareSortKeys(b, c) < 0 => compareSortKeys(a, c) < 0
<1> DEFINE ua == Encode16(a)
           ub == Encode16(b)
           uc == Encode16(c)
<1>1. ua \in Seq(Nat) /\ ub \in Seq(Nat) /\ uc \in Seq(Nat)
  BY EncodingTyped DEF EncodingInNat
<1>2. /\ compareSortKeys(a, b) = compareUTF16Units(ua, ub)
      /\ compareSortKeys(b, a) = compareUTF16Units(ub, ua)
      /\ compareSortKeys(b, c) = compareUTF16Units(ub, uc)
      /\ compareSortKeys(a, c) = compareUTF16Units(ua, uc)
  BY ShortcutAgrees
<1>3. ua = ub => a = b
  BY EncodeInjective
<1> HIDE DEF ua, ub, uc
<1>4. /\ compareUTF16Units(ua, ub) = -compareUTF16Units(ub, ua)
      /\ compareUTF16Units(ua, ub) = 0 => ua = ub
      /\ compareUTF16Units(ua, ub) = -1 /\ compareUTF16Units(ub, uc) = -1
           => compareUTF16Units(ua, uc) = -1
  BY <1>1, CompareIsTotalOrder
<1>5. \A u, v : compareUTF16Units(u, v) \in {-1, 0, 1}
  BY DEF compareUTF16Units
<1>6. compareUTF16Units(ua, ub) \in {-1, 0, 1} /\ compareUTF16Units(ub, uc) \in {-1, 0, 1}
  BY <1>5
<1> QED
  BY <1>2, <1>3, <1>4, <1>6

--------------------------------------------------------------------------------
(* The keys of a tree *)

\* A key without invalid bytes.
ValidKey(key) == IsText(key) /\ -1 \notin ToSet(key)

LEMMA CharacterIsCodePoint ==
  ASSUME NEW c \in Character, ~Surrogate(c), c # -1
  PROVE  c \in CodePoint
<1>1. MaxRune \in Nat
  BY SMT DEF MaxRune
<1>2. c \in Nat /\ c <= MaxRune
  BY SMT, <1>1 DEF Character
<1> QED
  BY SMT, <1>2 DEF CodePoint, Surrogate, MaxRune

LEMMA ValidKeyIsText ==
  ASSUME NEW key, ValidKey(key)
  PROVE  key \in Seq(CodePoint)
<1>1. key \in Seq(Character) /\ Len(key) \in Nat /\ DOMAIN key = 1 .. Len(key)
  BY DEF ValidKey, IsText
<1>2. ASSUME NEW i \in 1 .. Len(key) PROVE key[i] \in CodePoint
  <2>1. key[i] \in Character /\ ~Surrogate(key[i])
    BY <1>1 DEF ValidKey, IsText
  <2>2. key[i] # -1
    BY <1>1 DEF ValidKey, ToSet
  <2> QED
    BY <2>1, <2>2, CharacterIsCodePoint
<1> QED
  BY <1>1, <1>2

--------------------------------------------------------------------------------
(* Sorting by a strict total order *)

\* L orders 1 .. n strictly and totally.
Ordering(L, n) ==
  /\ \A i \in 1 .. n : <<i, i>> \notin L
  /\ \A i, j \in 1 .. n : i # j => <<i, j>> \in L \/ <<j, i>> \in L
  /\ \A i, j, k \in 1 .. n : <<i, j>> \in L /\ <<j, k>> \in L => <<i, k>> \in L

\* The permutations of 1 .. n that L does not contradict.
Sortings(L, n) ==
  {q \in SetToSeqs(1 .. n) : \A i, j \in 1 .. n : i < j => <<q[j], q[i]>> \notin L}

LEMMA PermutationsOf ==
  ASSUME NEW n \in Nat
  PROVE  /\ IsFiniteSet(1 .. n) /\ Cardinality(1 .. n) = n
         /\ \A q : q \in SetToSeqs(1 .. n) <=>
              q \in [1 .. n -> 1 .. n] /\ \A i, j \in 1 .. n : i # j => q[i] # q[j]
<1>1. IsFiniteSet(1 .. n) /\ Cardinality(1 .. n) = n
  BY FS_Interval
<1> QED
  BY <1>1 DEF SetToSeqs

\* An injection of 1 .. n into itself reaches every place.
LEMMA Reaches ==
  ASSUME NEW n \in Nat, NEW f \in [1 .. n -> 1 .. n],
         \A i, j \in 1 .. n : i # j => f[i] # f[j]
  PROVE  \A k \in 1 .. n : \E i \in 1 .. n : f[i] = k
<1>1. f \in Injection(1 .. n, 1 .. n)
  BY Fun_IsInj
<1>2. f \in Surjection(1 .. n, 1 .. n)
  BY <1>1, PermutationsOf, FS_Injection
<1> QED
  BY <1>2 DEF Surjection

\* Two sortings cannot first differ anywhere.
LEMMA AtMostOneSorting ==
  ASSUME NEW n \in Nat, NEW L, Ordering(L, n),
         NEW p \in Sortings(L, n), NEW q \in Sortings(L, n)
  PROVE  p = q
<1> DEFINE T == {i \in 1 .. n : p[i] # q[i]}
<1>1. /\ p \in [1 .. n -> 1 .. n] /\ \A i, j \in 1 .. n : i # j => p[i] # p[j]
      /\ q \in [1 .. n -> 1 .. n] /\ \A i, j \in 1 .. n : i # j => q[i] # q[j]
  BY PermutationsOf DEF Sortings
<1>2. /\ \A i, j \in 1 .. n : i < j => <<p[j], p[i]>> \notin L
      /\ \A i, j \in 1 .. n : i < j => <<q[j], q[i]>> \notin L
  BY DEF Sortings
<1>3. ASSUME T # {} PROVE FALSE
  <2>1. T \subseteq Nat
    OBVIOUS
  <2>2. PICK i \in T : \A j \in T : <<j, i>> \notin OpToRel(<, Nat)
    BY <1>3, <2>1, WFMin, NatLessThanWellFounded
  <2>3. \A j \in T : ~(j < i)
    BY <2>1, <2>2 DEF OpToRel
  <2>4. i \in 1 .. n /\ p[i] # q[i] /\ \A j \in 1 .. n : j < i => p[j] = q[j]
    BY <2>3
  <2>5. p[i] \in 1 .. n /\ q[i] \in 1 .. n
    BY <1>1, <2>4
  <2>6. PICK j \in 1 .. n : p[j] = q[i]
    <3>1. \A v \in 1 .. n : \E j \in 1 .. n : p[j] = v
      BY <1>1, Reaches
    <3> QED
      BY <2>5, <3>1
  <2>7. PICK k \in 1 .. n : q[k] = p[i]
    <3>1. \A v \in 1 .. n : \E k \in 1 .. n : q[k] = v
      BY <1>1, Reaches
    <3> QED
      BY <2>5, <3>1
  <2> HIDE DEF T
  <2>8. i < j
    <3>1. j # i
      BY <2>4, <2>6
    <3>2. ~(j < i)
      BY <1>1, <2>4, <2>6
    <3> QED
      BY <2>4, <3>1, <3>2
  <2>10. i < k
    <3>1. k # i
      BY <2>4, <2>7
    <3>2. ~(k < i)
      BY <1>1, <2>4, <2>7
    <3> QED
      BY <2>4, <3>1, <3>2
  <2>9. <<q[i], p[i]>> \notin L /\ <<p[i], q[i]>> \notin L
    BY <1>2, <2>4, <2>6, <2>7, <2>8, <2>10
  <2> QED
    BY <2>4, <2>5, <2>9 DEF Ordering
<1>4. \A i \in 1 .. n : p[i] = q[i]
  BY <1>3
<1> QED
  BY <1>1, <1>4

\* The place of each index in the order: one more than how many precede it.
LEMMA SortingExists ==
  ASSUME NEW n \in Nat, NEW L, Ordering(L, n)
  PROVE  \E p : p \in Sortings(L, n)
<1> DEFINE Under(i) == {j \in 1 .. n : <<j, i>> \in L}
           rank == [i \in 1 .. n |-> Cardinality(Under(i)) + 1]
<1>0. IsFiniteSet(1 .. n) /\ Cardinality(1 .. n) = n
  BY PermutationsOf
<1>1. ASSUME NEW i \in 1 .. n
      PROVE  /\ IsFiniteSet(Under(i)) /\ Cardinality(Under(i)) \in Nat
             /\ Cardinality(Under(i)) < n
  <2>1. Under(i) \in SUBSET (1 .. n) /\ i \notin Under(i)
    BY DEF Ordering
  <2>2. Under(i) # 1 .. n
    BY <2>1
  <2> HIDE DEF Under
  <2>3. /\ IsFiniteSet(Under(i)) /\ Cardinality(Under(i)) <= n
        /\ Cardinality(Under(i)) # n
    BY <1>0, <2>1, <2>2, FS_Subset
  <2>4. Cardinality(Under(i)) \in Nat
    BY <2>3, FS_CardinalityType
  <2> QED
    BY <2>3, <2>4
<1>2. ASSUME NEW i \in 1 .. n, NEW j \in 1 .. n, <<i, j>> \in L
      PROVE  Cardinality(Under(i)) < Cardinality(Under(j))
  <2>1. Under(i) \in SUBSET Under(j)
    BY <1>2 DEF Ordering
  <2>2. i \in Under(j) /\ i \notin Under(i)
    BY <1>2 DEF Ordering
  <2> HIDE DEF Under
  <2>3. /\ Cardinality(Under(i)) <= Cardinality(Under(j))
        /\ Cardinality(Under(i)) # Cardinality(Under(j))
    BY <1>1, <2>1, <2>2, FS_Subset
  <2> QED
    BY <1>1, <2>3
<1> HIDE DEF Under
<1>3. rank \in [1 .. n -> 1 .. n]
  BY <1>1
<1>4. \A i, j \in 1 .. n : <<i, j>> \in L => rank[i] < rank[j]
  BY <1>1, <1>2
<1> HIDE DEF rank
<1>5. ASSUME NEW i \in 1 .. n, NEW j \in 1 .. n, i # j PROVE rank[i] # rank[j]
  <2>1. rank[i] < rank[j] \/ rank[j] < rank[i]
    BY <1>4, <1>5 DEF Ordering
  <2>2. rank[i] \in Nat /\ rank[j] \in Nat
    BY <1>3
  <2> QED
    BY <2>1, <2>2
<1>6. \A k \in 1 .. n : \E i \in 1 .. n : rank[i] = k
  BY <1>3, <1>5, Reaches
<1> DEFINE p == [k \in 1 .. n |-> CHOOSE i \in 1 .. n : rank[i] = k]
<1>7. \A k \in 1 .. n : p[k] \in 1 .. n /\ rank[p[k]] = k
  BY <1>6
<1> HIDE DEF p
<1>8. p \in [1 .. n -> 1 .. n]
  BY <1>7 DEF p
<1>9. \A i, j \in 1 .. n : i # j => p[i] # p[j]
  BY <1>7
<1>10. \A i, j \in 1 .. n : i < j => <<p[j], p[i]>> \notin L
  <2> SUFFICES ASSUME NEW i \in 1 .. n, NEW j \in 1 .. n, i < j, <<p[j], p[i]>> \in L
               PROVE  FALSE
    OBVIOUS
  <2>1. rank[p[j]] < rank[p[i]]
    BY <1>4, <1>7
  <2> QED
    BY <1>7, <2>1
<1>11. p \in SetToSeqs(1 .. n)
  BY <1>8, <1>9, PermutationsOf
<1> QED
  BY <1>10, <1>11 DEF Sortings

--------------------------------------------------------------------------------
(* The values of a tree *)

\* What validateValueTree asks of a value apart from its children.
LocallyValid(node) ==
  /\ node.kind \notin Container => validateLeaf(node) = "ok"
  /\ node.kind \in Container => Len(node.kids) <= maxChildren(node.kind)
  /\ node.kind = "object" =>
       /\ \A i \in DOMAIN node.keys : validateString(node.keys[i]) = "ok"
       /\ \A i, j \in DOMAIN node.keys : node.keys[i] = node.keys[j] => i = j

Children(node) == IF node.kind \in Container THEN ToSet(node.kids) ELSE {}

\* A set of valid values of tree t that holds the children of its members.
Closed(t, S) ==
  /\ S \subseteq DOMAIN t
  /\ \A n \in S : LocallyValid(t[n]) /\ Children(t[n]) \subseteq S

\* The values that are valid with everything under them.
Valid(t) == {n \in DOMAIN t : \E S \in SUBSET DOMAIN t : Closed(t, S) /\ n \in S}

LEMMA ValidIsClosed ==
  ASSUME NEW t
  PROVE  Closed(t, Valid(t))
<1> SUFFICES ASSUME NEW n \in Valid(t)
             PROVE  LocallyValid(t[n]) /\ Children(t[n]) \subseteq Valid(t)
  BY DEF Closed, Valid
<1>1. PICK S \in SUBSET DOMAIN t : Closed(t, S) /\ n \in S
  BY DEF Valid
<1>2. S \subseteq Valid(t)
  BY <1>1 DEF Valid
<1> QED
  BY <1>1, <1>2 DEF Closed

LEMMA ValidExtends ==
  ASSUME NEW t, NEW n \in DOMAIN t, LocallyValid(t[n]), Children(t[n]) \subseteq Valid(t)
  PROVE  n \in Valid(t)
<1> DEFINE S == Valid(t) \cup {n}
<1>1. S \in SUBSET DOMAIN t /\ n \in S
  BY DEF Valid
<1>2. Closed(t, S)
  BY <1>1, ValidIsClosed DEF Closed
<1> QED
  BY <1>1, <1>2 DEF Valid

--------------------------------------------------------------------------------

Frame == [node : Nat, order : Seq(Nat), called : Nat, seen : SUBSET Seq(Character)]

TypeInv ==
  /\ tree \in Trees
  /\ pc \in {"validate", "emit", "done"}
  /\ at \in 0 .. Root
  /\ walk \in Seq(Frame)

\* An open container is one, and no more of its children were called on than
\* it has.
Walked(t, f) ==
  /\ f.node \in DOMAIN t
  /\ t[f.node].kind \in Container
  /\ f.called <= Len(f.order)

\* While validating, the children are taken in order, and what was taken of an
\* object is without faults or repetitions.
Checked(t, f) ==
  /\ f.order = [i \in 1 .. Len(t[f.node].kids) |-> i]
  /\ Len(t[f.node].kids) <= maxChildren(t[f.node].kind)
  /\ t[f.node].kind = "object" =>
       /\ \A i \in 1 .. f.called : /\ validateString(t[f.node].keys[i]) = "ok"
                                   /\ t[f.node].keys[i] \in f.seen
       /\ \A i, j \in 1 .. f.called : t[f.node].keys[i] = t[f.node].keys[j] => i = j

\* The call that the k-th open container waits for; the 0-th is the caller.
Pending(w, a, k) == IF k < Len(w) THEN w[k + 1].node ELSE a

\* Every child already taken is valid, or is the one being validated.
Taken(t, w, a, k) ==
  \A i \in 1 .. w[k].called :
    \/ t[w[k].node].kids[i] \in Valid(t)
    \/ i = w[k].called /\ t[w[k].node].kids[i] = Pending(w, a, k)

Validating(t, w, a) ==
  /\ \A k \in 1 .. Len(w) : Walked(t, w[k]) /\ Checked(t, w[k]) /\ Taken(t, w, a, k)
  /\ Len(t) \in Valid(t) \/ Len(t) = Pending(w, a, 0)

Emitted(t, w, a) ==
  /\ Len(t) \in Valid(t)
  /\ a # 0 => a \in Valid(t)
  /\ \A k \in 1 .. Len(w) : /\ Walked(t, w[k])
                            /\ w[k].node \in Valid(t)
                            /\ w[k].order \in SortedOrders(t[w[k].node])

IInv ==
  /\ TypeInv
  /\ pc = "validate" => result = "pending" /\ Validating(tree, walk, at)
  /\ pc = "emit" => Emitted(tree, walk, at)
  /\ result = "ok" => Root \in Valid(tree)

LEMMA TreeType ==
  ASSUME NEW t \in Trees
  PROVE  /\ t \in Seq(ValueRecord) /\ Len(t) \in Nat /\ DOMAIN t = 1 .. Len(t)
         /\ \A n \in DOMAIN t :
              /\ t[n].kind \in Kind
              /\ t[n].kids \in Seq(Nat) /\ Len(t[n].kids) \in Nat
              /\ \A i \in 1 .. Len(t[n].kids) :
                   /\ t[n].kids[i] \in DOMAIN t /\ t[n].kids[i] # 0
                   /\ t[n].kind \in Container => t[n].kids[i] \in Children(t[n])
              /\ t[n].keys \in Seq(Seq(Character))
              /\ t[n].kind = "object" => Len(t[n].keys) = Len(t[n].kids)
<1>1. t \in Seq(ValueRecord)
  BY TreeAssumption
<1>2. Len(t) \in Nat /\ DOMAIN t = 1 .. Len(t)
  BY <1>1
<1> SUFFICES ASSUME NEW n \in DOMAIN t
             PROVE  /\ t[n].kind \in Kind
                    /\ t[n].kids \in Seq(Nat) /\ Len(t[n].kids) \in Nat
                    /\ \A i \in 1 .. Len(t[n].kids) :
                         /\ t[n].kids[i] \in DOMAIN t /\ t[n].kids[i] # 0
                         /\ t[n].kind \in Container => t[n].kids[i] \in Children(t[n])
                    /\ t[n].keys \in Seq(Seq(Character))
                    /\ t[n].kind = "object" => Len(t[n].keys) = Len(t[n].kids)
  BY <1>1, <1>2
<1>3. t[n] \in ValueRecord
  BY <1>1, <1>2
<1>4. t[n].kind \in Kind /\ t[n].kids \in Seq(Nat) /\ t[n].keys \in Seq(Seq(Character))
  BY <1>3 DEF ValueRecord
<1>5. /\ \A i \in DOMAIN t[n].kids : t[n].kids[i] \in 1 .. n - 1
      /\ t[n].kind = "object" => Len(t[n].keys) = Len(t[n].kids)
  BY TreeAssumption
<1>6. DOMAIN t[n].kids = 1 .. Len(t[n].kids) /\ Len(t[n].kids) \in Nat
  BY <1>4
<1>7. ASSUME NEW i \in 1 .. Len(t[n].kids)
      PROVE  /\ t[n].kids[i] \in DOMAIN t /\ t[n].kids[i] # 0
             /\ t[n].kind \in Container => t[n].kids[i] \in Children(t[n])
  <2>1. t[n].kids[i] \in 1 .. n - 1
    BY <1>5, <1>6
  <2>2. t[n].kids[i] \in ToSet(t[n].kids)
    BY <1>6 DEF ToSet
  <2> QED
    BY <1>2, <2>1, <2>2 DEF Children
<1> QED
  BY <1>4, <1>5, <1>6, <1>7

LEMMA ValidInTree ==
  ASSUME NEW t \in Trees, NEW n \in Valid(t)
  PROVE  n \in 1 .. Len(t) /\ n # 0 /\ LocallyValid(t[n]) /\ Children(t[n]) \subseteq Valid(t)
<1>1. n \in DOMAIN t
  BY DEF Valid
<1> QED
  BY <1>1, TreeType, ValidIsClosed DEF Closed

\* The value being validated turns out valid.
LEMMA ValueDone ==
  ASSUME NEW t \in Trees, NEW w \in Seq(Frame), NEW a \in Valid(t), Validating(t, w, a)
  PROVE  Validating(t, w, 0)
<1>1. Len(w) \in Nat
  OBVIOUS
<1>2. \A k \in 0 .. Len(w) : Pending(w, a, k) = Pending(w, 0, k) \/ Pending(w, a, k) = a
  BY DEF Pending
<1>3. \A k \in 1 .. Len(w) : Taken(t, w, 0, k)
  BY <1>2 DEF Validating, Taken
<1>4. Len(t) \in Valid(t) \/ Len(t) = Pending(w, 0, 0)
  BY <1>1, <1>2 DEF Validating
<1> QED
  BY <1>3, <1>4 DEF Validating

\* The value being validated is a container, now open.
LEMMA Opened ==
  ASSUME NEW t \in Trees, NEW w \in Seq(Frame), NEW a \in DOMAIN t, Validating(t, w, a),
         t[a].kind \in Container, Len(t[a].kids) <= maxChildren(t[a].kind),
         NEW f \in Frame, f.node = a, f.called = 0,
         f.order = [i \in 1 .. Len(t[a].kids) |-> i]
  PROVE  Validating(t, Append(w, f), 0)
<1> DEFINE v == Append(w, f)
<1>1. /\ Len(w) \in Nat /\ v \in Seq(Frame) /\ Len(v) = Len(w) + 1
      /\ \A k \in 1 .. Len(w) : v[k] = w[k]
      /\ v[Len(w) + 1] = f
  BY AppendProperties
<1> HIDE DEF v
<1>2. Len(t[a].kids) \in Nat
  BY TreeType
<1>3. Walked(t, f)
  <2>1. Len(f.order) = Len(t[a].kids)
    BY <1>2
  <2> QED
    BY <1>2, <2>1 DEF Walked
<1>4. Checked(t, f)
  BY DEF Checked
<1>5. \A k \in 0 .. Len(w) : Pending(v, 0, k) = Pending(w, a, k)
  BY <1>1 DEF Pending
<1>6. ASSUME NEW k \in 1 .. Len(w) PROVE Walked(t, v[k]) /\ Checked(t, v[k]) /\ Taken(t, v, 0, k)
  <2>1. Walked(t, w[k]) /\ Checked(t, w[k]) /\ Taken(t, w, a, k)
    BY DEF Validating
  <2>2. v[k] = w[k] /\ Pending(v, 0, k) = Pending(w, a, k)
    BY <1>1, <1>5
  <2> QED
    BY <2>1, <2>2 DEF Taken
<1>7. Taken(t, v, 0, Len(w) + 1)
  BY <1>1 DEF Taken
<1>8. Len(t) \in Valid(t) \/ Len(t) = Pending(v, 0, 0)
  BY <1>1, <1>5 DEF Validating
<1>9. \A k \in 1 .. Len(v) : Walked(t, v[k]) /\ Checked(t, v[k]) /\ Taken(t, v, 0, k)
  BY <1>1, <1>3, <1>4, <1>6, <1>7
<1> QED
  BY <1>8, <1>9 DEF Validating, v

\* v is w with one more child of the innermost container called on.
Advanced(w, v) ==
  /\ v \in Seq(Frame) /\ Len(v) = Len(w)
  /\ \A k \in 1 .. Len(w) - 1 : v[k] = w[k]
  /\ v[Len(w)].node = w[Len(w)].node
  /\ v[Len(w)].order = w[Len(w)].order
  /\ v[Len(w)].called = w[Len(w)].called + 1

LEMMA NextTaken ==
  ASSUME NEW t \in Trees, NEW w \in Seq(Frame), w # <<>>, Validating(t, w, 0),
         NEW v, Advanced(w, v), w[Len(w)].called < Len(w[Len(w)].order),
         Checked(t, v[Len(w)])
  PROVE  /\ Validating(t, v, t[w[Len(w)].node].kids[w[Len(w)].called + 1])
         /\ t[w[Len(w)].node].kids[w[Len(w)].called + 1] \in 1 .. Len(t)
<1> DEFINE n == Len(w)
           c == w[n].called
           a == t[w[n].node].kids[c + 1]
<1>1. n \in Nat /\ n \in 1 .. n /\ w[n] \in Frame /\ n # 0
  BY EmptySeq
<1>2. c \in Nat /\ Len(w[n].order) \in Nat
  BY <1>1 DEF Frame
<1>3. Walked(t, w[n]) /\ Checked(t, w[n]) /\ Taken(t, w, 0, n)
  BY <1>1 DEF Validating
<1>4. Len(w[n].order) = Len(t[w[n].node].kids) /\ w[n].node \in DOMAIN t
  <2>1. w[n].node \in DOMAIN t
    BY <1>3 DEF Walked
  <2>2. Len(t[w[n].node].kids) \in Nat
    BY <2>1, TreeType
  <2>3. w[n].order = [i \in 1 .. Len(t[w[n].node].kids) |-> i]
    BY <1>3 DEF Checked
  <2> QED
    BY <2>1, <2>2, <2>3
<1>5. a \in DOMAIN t /\ DOMAIN t = 1 .. Len(t)
  <2>1. c < Len(t[w[n].node].kids)
    BY <1>4
  <2>2. Len(t[w[n].node].kids) \in Nat
    BY <1>4, TreeType
  <2>3. c + 1 \in 1 .. Len(t[w[n].node].kids)
    BY <1>2, <2>1, <2>2
  <2> QED
    BY <1>4, <2>3, TreeType
<1>6. \A k \in 0 .. n - 1 : Pending(v, a, k) = Pending(w, 0, k)
  BY <1>1 DEF Pending, Advanced
<1>7. ASSUME NEW k \in 1 .. n - 1
      PROVE  Walked(t, v[k]) /\ Checked(t, v[k]) /\ Taken(t, v, a, k)
  <2>1. Walked(t, w[k]) /\ Checked(t, w[k]) /\ Taken(t, w, 0, k)
    BY <1>1 DEF Validating
  <2>2. v[k] = w[k] /\ Pending(v, a, k) = Pending(w, 0, k)
    BY <1>1, <1>6 DEF Advanced
  <2> QED
    BY <2>1, <2>2 DEF Taken
<1>8. Walked(t, v[n])
  BY <1>2, <1>3 DEF Walked, Advanced
<1>9. Taken(t, v, a, n)
  <2>1. \A i \in 1 .. c : t[w[n].node].kids[i] \in Valid(t)
    <3>1. Pending(w, 0, n) = 0
      BY <1>1 DEF Pending
    <3>2. \A i \in 1 .. c : t[w[n].node].kids[i] # 0
      BY SMTT(30), <1>2, <1>4, TreeType
    <3> QED
      BY <1>3, <3>1, <3>2 DEF Taken
  <2>2. Pending(v, a, n) = a /\ v[n].called = c + 1 /\ v[n].node = w[n].node
    BY <1>1 DEF Pending, Advanced
  <2> QED
    BY <1>2, <2>1, <2>2 DEF Taken
<1>10. \A k \in 1 .. Len(v) : Walked(t, v[k]) /\ Checked(t, v[k]) /\ Taken(t, v, a, k)
  <2>1. Len(v) = n
    BY DEF Advanced
  <2> HIDE DEF n, a
  <2> QED
    BY <1>1, <1>7, <1>8, <1>9, <2>1 DEF n
<1>11. Len(t) \in Valid(t) \/ Len(t) = Pending(v, a, 0)
  BY <1>1, <1>6 DEF Validating
<1> QED
  BY <1>5, <1>10, <1>11 DEF Validating

\* All children of the innermost container were taken: it is valid.
LEMMA Returned ==
  ASSUME NEW t \in Trees, NEW w \in Seq(Frame), w # <<>>, Validating(t, w, 0),
         ~(w[Len(w)].called < Len(w[Len(w)].order)),
         NEW v \in Seq(Frame), Len(v) = Len(w) - 1, \A k \in 1 .. Len(v) : v[k] = w[k]
  PROVE  Validating(t, v, 0)
<1> DEFINE n == Len(w)
           c == w[n].called
           m == w[n].node
<1>1. n \in Nat /\ n \in 1 .. n /\ w[n] \in Frame /\ n # 0
  BY EmptySeq
<1>2. c \in Nat /\ Len(w[n].order) \in Nat
  BY <1>1 DEF Frame
<1>3. Walked(t, w[n]) /\ Checked(t, w[n]) /\ Taken(t, w, 0, n)
  BY <1>1 DEF Validating
<1>4. c = Len(t[m].kids) /\ m \in DOMAIN t /\ t[m].kind \in Container
  <2>1. m \in DOMAIN t /\ t[m].kind \in Container /\ c <= Len(w[n].order)
    BY <1>3 DEF Walked
  <2>2. Len(t[m].kids) \in Nat
    BY <2>1, TreeType
  <2>3. w[n].order = [i \in 1 .. Len(t[m].kids) |-> i]
    BY <1>3 DEF Checked
  <2>4. Len(w[n].order) = Len(t[m].kids)
    BY <2>2, <2>3
  <2> QED
    BY <1>2, <2>1, <2>4
<1>5. m \in Valid(t)
  <2>1. Children(t[m]) \subseteq Valid(t)
    <3> SUFFICES ASSUME NEW i \in 1 .. c PROVE t[m].kids[i] \in Valid(t)
      BY <1>4, TreeType DEF Children, ToSet
    <3>1. Pending(w, 0, n) = 0
      BY <1>1 DEF Pending
    <3>2. t[m].kids[i] # 0
      BY <1>4, TreeType
    <3> QED
      BY <1>3, <3>1, <3>2 DEF Taken
  <2>2. LocallyValid(t[m])
    <3>1. Len(t[m].kids) <= maxChildren(t[m].kind)
      BY <1>3 DEF Checked
    <3>2. ASSUME t[m].kind = "object"
          PROVE  /\ \A i \in DOMAIN t[m].keys : validateString(t[m].keys[i]) = "ok"
                 /\ \A i, j \in DOMAIN t[m].keys : t[m].keys[i] = t[m].keys[j] => i = j
      <4>1. DOMAIN t[m].keys = 1 .. c
        BY <1>4, <3>2, TreeType
      <4> QED
        BY <1>3, <3>2, <4>1 DEF Checked
    <3> QED
      BY <1>4, <3>1, <3>2 DEF LocallyValid
  <2> QED
    BY <1>4, <2>1, <2>2, ValidExtends
<1>6. \A k \in 0 .. n - 1 : Pending(w, 0, k) = Pending(v, 0, k) \/ Pending(w, 0, k) \in Valid(t)
  BY <1>1, <1>5 DEF Pending
<1>7. ASSUME NEW k \in 1 .. Len(v)
      PROVE  Walked(t, v[k]) /\ Checked(t, v[k]) /\ Taken(t, v, 0, k)
  <2>1. k \in 1 .. n /\ k \in 0 .. n - 1 /\ v[k] = w[k]
    BY <1>1
  <2>2. Walked(t, w[k]) /\ Checked(t, w[k]) /\ Taken(t, w, 0, k)
    BY <2>1 DEF Validating
  <2> HIDE DEF n
  <2> QED
    BY <1>6, <2>1, <2>2 DEF Taken
<1>8. Len(t) \in Valid(t) \/ Len(t) = Pending(v, 0, 0)
  BY <1>1, <1>6 DEF Validating
<1> QED
  BY <1>7, <1>8 DEF Validating

--------------------------------------------------------------------------------
(* The steps of the walk *)

LEMMA OpenedWalk ==
  ASSUME NEW n \in Nat, NEW order \in Seq(Nat), TypeInv
  PROVE  Open(n, order) \in Seq(Frame)
<1>1. [node |-> n, order |-> order, called |-> 0, seen |-> {}] \in Frame
  BY DEF Frame
<1> QED
  BY <1>1, AppendProperties DEF Open, TypeInv

LEMMA ReplacedFrame ==
  ASSUME NEW w \in Seq(Frame), NEW g \in Frame, NEW n, n = Len(w), n \in 1 .. Len(w)
  PROVE  /\ [w EXCEPT ![n] = g] \in Seq(Frame)
         /\ Len([w EXCEPT ![n] = g]) = n
         /\ [w EXCEPT ![n] = g][n] = g
         /\ \A k \in 1 .. n - 1 : [w EXCEPT ![n] = g][k] = w[k]
  OBVIOUS

LEMMA StepAdvances ==
  ASSUME TypeInv, walk # <<>>
  PROVE  Advanced(walk, Step) /\ Step[Len(walk)].seen = walk[Len(walk)].seen
<1>1. walk \in Seq(Frame) /\ Len(walk) \in Nat /\ Len(walk) \in 1 .. Len(walk)
  BY EmptySeq DEF TypeInv
<1> DEFINE f == walk[Len(walk)]
           g == [f EXCEPT !.called = @ + 1]
<1>2. f \in Frame
  BY <1>1
<1>3. g \in Frame /\ g.node = f.node /\ g.order = f.order /\ g.called = f.called + 1
      /\ g.seen = f.seen
  <2>1. f = [node |-> f.node, order |-> f.order, called |-> f.called, seen |-> f.seen]
        /\ f.node \in Nat /\ f.order \in Seq(Nat) /\ f.called + 1 \in Nat
        /\ f.seen \in SUBSET Seq(Character)
    BY <1>2 DEF Frame
  <2>2. g = [node |-> f.node, order |-> f.order, called |-> f.called + 1, seen |-> f.seen]
    BY <2>1
  <2> HIDE DEF f, g
  <2> QED
    BY <2>1, <2>2 DEF Frame
<1>4. Step = [walk EXCEPT ![Len(walk)] = g]
  BY DEF Step
<1> HIDE DEF f, g
<1> QED
  BY <1>1, <1>3, <1>4 DEF Advanced, f

LEMMA SeenAdvances ==
  ASSUME TypeInv, walk # <<>>, NEW key \in Seq(Character),
         NEW v, v = [Step EXCEPT ![Len(walk)].seen = @ \cup {key}]
  PROVE  /\ Advanced(walk, v)
         /\ v[Len(walk)].seen = walk[Len(walk)].seen \cup {key}
<1>1. walk \in Seq(Frame) /\ Len(walk) \in Nat /\ Len(walk) \in 1 .. Len(walk)
  BY EmptySeq DEF TypeInv
<1>2. Advanced(walk, Step) /\ Step[Len(walk)].seen = walk[Len(walk)].seen
  BY StepAdvances
<1>3. Step \in Seq(Frame) /\ Len(Step) = Len(walk)
  BY <1>2 DEF Advanced
<1> DEFINE f == Step[Len(walk)]
           g == [f EXCEPT !.seen = @ \cup {key}]
<1>4. f \in Frame
  BY <1>1, <1>3
<1>5. g \in Frame /\ g.node = f.node /\ g.order = f.order /\ g.called = f.called
      /\ g.seen = f.seen \cup {key}
  BY <1>4 DEF Frame
<1>6. v = [Step EXCEPT ![Len(walk)] = g]
  OBVIOUS
<1> HIDE DEF g
<1>7. v \in Seq(Frame) /\ Len(v) = Len(walk) /\ v[Len(walk)] = g
      /\ \A k \in 1 .. Len(walk) - 1 : v[k] = Step[k]
  <2> HIDE DEF f
  <2>1. Len(walk) \in 1 .. Len(Step) /\ g \in Frame
    BY <1>1, <1>3, <1>5
  <2> DEFINE s == Step
             n == Len(walk)
             u == [s EXCEPT ![n] = g]
  <2>2. s \in Seq(Frame) /\ n = Len(s) /\ n \in 1 .. Len(s) /\ g \in Frame /\ v = u
    BY <1>3, <1>6, <2>1
  <2> HIDE DEF s, n
  <2>3. u \in Seq(Frame) /\ Len(u) = n /\ u[n] = g /\ \A k \in 1 .. n - 1 : u[k] = s[k]
    BY <2>2, ReplacedFrame
  <2> HIDE DEF u
  <2> QED
    BY Zenon, <2>2, <2>3 DEF s, n
<1> QED
  BY <1>2, <1>5, <1>7 DEF Advanced

LEMMA FrontWalk ==
  ASSUME TypeInv, walk # <<>>
  PROVE  /\ Front(walk) \in Seq(Frame) /\ Len(Front(walk)) = Len(walk) - 1
         /\ \A k \in 1 .. Len(Front(walk)) : Front(walk)[k] = walk[k]
<1>1. walk \in Seq(Frame) /\ Len(walk) \in Nat /\ Len(walk) # 0
  BY EmptySeq DEF TypeInv
<1> DEFINE n == Len(walk) - 1
           v == SubSeq(walk, 1, n)
<1>2. n \in Nat /\ \A i \in 1 .. n : walk[i] \in Frame
  BY <1>1
<1> HIDE DEF n
<1>3. v \in Seq(Frame) /\ Len(v) = n
  BY <1>2, SubSeqProperties
<1>4. \A i \in 1 .. n : v[i] = walk[i]
  <2>1. \A i \in 1 .. n - 1 + 1 : v[i] = walk[1 + i - 1]
    BY <1>2, SubSeqProperties
  <2> QED
    BY <1>2, <2>1
<1> QED
  BY <1>3, <1>4 DEF Front, n

--------------------------------------------------------------------------------

LEMMA InitIInv == Init => IInv
<1> SUFFICES ASSUME Init PROVE IInv
  OBVIOUS
<1>1. Len(tree) \in Nat
  BY TreeType DEF Init
<1>2. TypeInv
  BY <1>1 DEF Init, TypeInv, Root
<1>3. Validating(tree, walk, at)
  BY DEF Init, Validating, Pending, Root
<1> QED
  BY <1>2, <1>3 DEF IInv, Init

LEMMA FailIInv ==
  ASSUME IInv, NEW class, class # "ok", Fail(class)
  PROVE  IInv'
<1>1. TypeInv'
  BY TreeType DEF Fail, IInv, TypeInv, Root
<1> QED
  BY <1>1 DEF Fail, IInv

LEMMA ValidateLeafIInv ==
  ASSUME IInv, ValidateLeaf
  PROVE  IInv'
<1>1. /\ tree \in Trees /\ walk \in Seq(Frame) /\ Len(tree) \in Nat
      /\ pc = "validate" /\ result = "pending"
      /\ Validating(tree, walk, at) /\ at \in DOMAIN tree
  <2>1. tree \in Trees /\ at \in 0 .. Len(tree) /\ at # 0
    BY DEF ValidateLeaf, WithinBounds, Called, IInv, TypeInv, Root
  <2> QED
    BY <2>1, TreeType DEF ValidateLeaf, WithinBounds, Called, IInv, TypeInv
<1>2. CASE validateLeaf(tree[at]) = "ok"
  <2>1. at' = 0 /\ UNCHANGED <<tree, pc, walk, out, result>>
    BY <1>2 DEF ValidateLeaf
  <2>2. at \in Valid(tree)
    <3>1. LocallyValid(tree[at]) /\ Children(tree[at]) = {}
      BY <1>2 DEF ValidateLeaf, LocallyValid, Children, Container
    <3> QED
      BY <1>1, <3>1, ValidExtends
  <2>3. Validating(tree, walk, 0)
    BY <1>1, <2>2, ValueDone
  <2>4. TypeInv'
    BY <1>1, <2>1 DEF IInv, TypeInv, Root
  <2> QED
    BY <1>1, <2>1, <2>3, <2>4 DEF IInv
<1>3. CASE validateLeaf(tree[at]) # "ok"
  BY <1>3, FailIInv DEF ValidateLeaf
<1> QED
  BY <1>2, <1>3

LEMMA ValidateContainerIInv ==
  ASSUME IInv, ValidateContainer
  PROVE  IInv'
<1> DEFINE order == [i \in 1 .. Len(tree[at].kids) |-> i]
           f == [node |-> at, order |-> order, called |-> 0, seen |-> {}]
<1>1. /\ tree \in Trees /\ walk \in Seq(Frame) /\ Len(tree) \in Nat
      /\ pc = "validate" /\ result = "pending"
      /\ Validating(tree, walk, at) /\ at \in DOMAIN tree /\ at \in Nat
  <2>1. tree \in Trees /\ at \in 0 .. Len(tree) /\ at # 0
    BY DEF ValidateContainer, WithinBounds, Called, IInv, TypeInv, Root
  <2> QED
    BY <2>1, TreeType DEF ValidateContainer, WithinBounds, Called, IInv, TypeInv
<1>2. /\ tree[at].kind \in Container /\ Len(tree[at].kids) <= maxChildren(tree[at].kind)
      /\ walk' = Append(walk, f) /\ at' = 0 /\ UNCHANGED <<tree, pc, out, result>>
  BY DEF ValidateContainer, Open
<1>3. order \in Seq(Nat)
  BY <1>1, TreeType
<1>4. f \in Frame
  BY <1>1, <1>3 DEF Frame
<1>5. f.node = at /\ f.called = 0 /\ f.order = order
  OBVIOUS
<1> HIDE DEF f
<1>6. Validating(tree, Append(walk, f), 0)
  BY <1>1, <1>2, <1>4, <1>5, Opened
<1>7. Append(walk, f) \in Seq(Frame)
  BY <1>1, <1>4, AppendProperties
<1>8. TypeInv'
  BY <1>1, <1>2, <1>7 DEF IInv, TypeInv, Root
<1> QED
  BY <1>1, <1>2, <1>6, <1>8 DEF IInv

\* What the loop over the children of the innermost container knows.
LEMMA LoopingFacts ==
  ASSUME IInv, Looping
  PROVE  /\ tree \in Trees /\ walk \in Seq(Frame) /\ Len(tree) \in Nat
         /\ pc = "validate" /\ result = "pending" /\ walk # <<>>
         /\ Validating(tree, walk, 0) /\ at = 0
         /\ Top = walk[Len(walk)] /\ Top \in Frame /\ Len(walk) \in 1 .. Len(walk)
         /\ Walked(tree, Top) /\ Checked(tree, Top)
         /\ Top.called \in Nat /\ Len(Top.order) \in Nat
<1>1. /\ tree \in Trees /\ walk \in Seq(Frame) /\ walk # <<>>
      /\ pc = "validate" /\ result = "pending" /\ Validating(tree, walk, 0) /\ at = 0
  BY DEF IInv, TypeInv, Looping
<1>2. Len(walk) \in 1 .. Len(walk) /\ Top = walk[Len(walk)]
  BY <1>1, EmptySeq DEF Top
<1>3. Top \in Frame
  BY <1>1, <1>2
<1> QED
  BY <1>1, <1>2, <1>3, TreeType DEF Frame, Validating

LEMMA ValidateElementIInv ==
  ASSUME IInv, ValidateElement
  PROVE  IInv'
<1>1. Looping /\ MoreChildren /\ tree[Top.node].kind = "array"
  BY DEF ValidateElement
<1>2. /\ walk' = Step /\ UNCHANGED <<tree, pc, out, result>>
      /\ at' = tree[Top.node].kids[Top.called + 1]
  BY DEF ValidateElement
<1>3. Advanced(walk, Step) /\ Step[Len(walk)].seen = walk[Len(walk)].seen
  BY <1>1, LoopingFacts, StepAdvances DEF IInv
<1>4. Checked(tree, Step[Len(walk)])
  <2>1. Step[Len(walk)].node = Top.node /\ Step[Len(walk)].order = Top.order
    BY <1>1, <1>3, LoopingFacts DEF Advanced
  <2> QED
    BY <1>1, <2>1, LoopingFacts DEF Checked
<1>5. Validating(tree, Step, at') /\ at' \in 1 .. Len(tree)
  BY <1>1, <1>2, <1>3, <1>4, LoopingFacts, NextTaken DEF MoreChildren
<1>6. TypeInv'
  BY <1>1, <1>2, <1>3, <1>5, LoopingFacts DEF IInv, TypeInv, Root, Advanced
<1> QED
  BY <1>1, <1>2, <1>5, <1>6, LoopingFacts DEF IInv

LEMMA ValidateMemberIInv ==
  ASSUME IInv, ValidateMember
  PROVE  IInv'
<1> DEFINE node == tree[Top.node]
           c == Top.called
           n == Len(walk)
<1>1. /\ Looping /\ MoreChildren /\ node.kind = "object"
      /\ validateString(nextKey) = "ok" /\ nextKey \notin Top.seen
      /\ nextKey = node.keys[c + 1]
  BY DEF ValidateMember, ObjectNext, nextKey
<1>2. /\ walk' = [Step EXCEPT ![n].seen = @ \cup {nextKey}]
      /\ UNCHANGED <<tree, pc, out, result>> /\ at' = node.kids[c + 1]
  BY DEF ValidateMember
<1>3. c + 1 \in 1 .. Len(node.keys) /\ node.keys \in Seq(Seq(Character)) /\ c \in Nat
  <2>1. Len(Top.order) = Len(node.kids) /\ Top.node \in DOMAIN tree
    BY <1>1, LoopingFacts, TreeType DEF Checked, Walked
  <2>2. Len(node.keys) = Len(node.kids) /\ node.keys \in Seq(Seq(Character))
    BY <1>1, <2>1, LoopingFacts, TreeType
  <2> QED
    BY <1>1, <2>1, <2>2, LoopingFacts DEF MoreChildren
<1>4. nextKey \in Seq(Character)
  BY <1>1, <1>3
<1>5. Advanced(walk, walk') /\ walk'[n].seen = walk[n].seen \cup {nextKey}
  BY <1>1, <1>2, <1>4, LoopingFacts, SeenAdvances DEF IInv
<1>6. Checked(tree, walk'[n])
  <2>1. /\ walk'[n].node = Top.node /\ walk'[n].order = Top.order
        /\ walk'[n].called = c + 1 /\ walk'[n].seen = Top.seen \cup {nextKey}
    BY <1>1, <1>5, LoopingFacts DEF Advanced
  <2>2. /\ Top.order = [i \in 1 .. Len(node.kids) |-> i]
        /\ Len(node.kids) <= maxChildren(node.kind)
        /\ \A i \in 1 .. c : validateString(node.keys[i]) = "ok" /\ node.keys[i] \in Top.seen
        /\ \A i, j \in 1 .. c : node.keys[i] = node.keys[j] => i = j
    BY <1>1, LoopingFacts DEF Checked
  <2>3. \A i \in 1 .. c + 1 : i \in 1 .. c \/ i = c + 1
    BY <1>3
  <2>4. \A i \in 1 .. c + 1 : /\ validateString(node.keys[i]) = "ok"
                              /\ node.keys[i] \in Top.seen \cup {nextKey}
    BY <1>1, <2>2, <2>3
  <2>5. \A i, j \in 1 .. c + 1 : node.keys[i] = node.keys[j] => i = j
    BY <1>1, <2>2, <2>3
  <2> QED
    BY <2>1, <2>2, <2>4, <2>5 DEF Checked
<1>7. Validating(tree, walk', at') /\ at' \in 1 .. Len(tree)
  <2>1. /\ tree \in Trees /\ walk \in Seq(Frame) /\ walk # <<>> /\ Validating(tree, walk, 0)
        /\ walk[n] = Top
    BY <1>1, LoopingFacts
  <2>2. walk[n].called < Len(walk[n].order)
    BY <1>1, <2>1 DEF MoreChildren
  <2>3. at' = tree[walk[n].node].kids[walk[n].called + 1]
    BY <1>2, <2>1
  <2> HIDE DEF node, c
  <2>4. /\ Validating(tree, walk', tree[walk[n].node].kids[walk[n].called + 1])
        /\ tree[walk[n].node].kids[walk[n].called + 1] \in 1 .. Len(tree)
    BY ZenonT(60), <1>5, <1>6, <2>1, <2>2, NextTaken
  <2> QED
    BY Zenon, <2>3, <2>4
<1>8. TypeInv'
  <2>1. /\ tree \in Trees /\ pc \in {"validate", "emit", "done"}
        /\ walk' \in Seq(Frame) /\ at' \in 1 .. Len(tree) /\ Len(tree) \in Nat
    BY Zenon, <1>1, <1>5, <1>7, LoopingFacts DEF IInv, TypeInv, Advanced
  <2>2. tree' = tree /\ pc' = pc
    BY <1>2
  <2> HIDE DEF node, c
  <2> QED
    BY <2>1, <2>2 DEF TypeInv, Root
<1> QED
  BY <1>1, <1>2, <1>7, <1>8, LoopingFacts DEF IInv

LEMMA ValidateReturnIInv ==
  ASSUME IInv, ValidateReturn
  PROVE  IInv'
<1>1. Looping /\ ~(Top.called < Len(Top.order))
  BY DEF ValidateReturn, MoreChildren
<1>2. walk' = Front(walk) /\ UNCHANGED <<tree, pc, at, out, result>>
  BY DEF ValidateReturn
<1>3. /\ Front(walk) \in Seq(Frame) /\ Len(Front(walk)) = Len(walk) - 1
      /\ \A k \in 1 .. Len(Front(walk)) : Front(walk)[k] = walk[k]
  BY <1>1, LoopingFacts, FrontWalk DEF IInv
<1>4. Validating(tree, Front(walk), 0)
  BY <1>1, <1>3, LoopingFacts, Returned
<1>5. TypeInv'
  BY <1>2, <1>3 DEF IInv, TypeInv, Root
<1> QED
  BY <1>1, <1>2, <1>4, <1>5, LoopingFacts DEF IInv

LEMMA BeginEmitIInv ==
  ASSUME IInv, BeginEmit
  PROVE  IInv'
<1>1. /\ tree \in Trees /\ tree # <<>> /\ at = 0 /\ walk = <<>> /\ result = "pending"
      /\ Validating(tree, <<>>, 0)
      /\ pc' = "emit" /\ at' = Root /\ UNCHANGED <<tree, walk, values, out, result>>
  BY DEF BeginEmit, IInv, TypeInv
<1>2. Len(tree) \in Nat /\ Len(tree) # 0
  BY <1>1, TreeType, EmptySeq
<1>3. Len(tree) \in Valid(tree)
  BY <1>1, <1>2 DEF Validating, Pending
<1>4. Emitted(tree, <<>>, Len(tree))
  BY <1>3 DEF Emitted
<1>5. TypeInv'
  BY <1>1, <1>2 DEF IInv, TypeInv, Root
<1> QED
  BY <1>1, <1>3, <1>4, <1>5 DEF IInv, Root

\* An order of the children is a sequence of them.
LEMMA SortedOrdersType ==
  ASSUME NEW t \in Trees, NEW n \in DOMAIN t, t[n].kind \in Container,
         NEW order \in SortedOrders(t[n])
  PROVE  /\ order \in Seq(Nat) /\ Len(order) \in Nat
         /\ \A i \in 1 .. Len(order) : order[i] \in 1 .. Len(t[n].kids)
<1> DEFINE m == Len(t[n].kids)
<1>1. m \in Nat /\ (t[n].kind = "object" => Len(t[n].keys) = m)
  BY TreeType
<1>2. order \in [1 .. m -> 1 .. m]
  <2>1. CASE t[n].kind = "array"
    BY <1>1, <2>1 DEF SortedOrders
  <2>2. CASE t[n].kind = "object"
    <3>1. order \in SetToSeqs(1 .. m)
      BY <1>1, <2>2 DEF SortedOrders
    <3> QED
      BY <1>1, <3>1, PermutationsOf
  <2> QED
    BY <2>1, <2>2 DEF Container
<1> HIDE DEF m
<1>3. order \in Seq(1 .. m) /\ Len(order) = m
  BY <1>1, <1>2
<1> QED
  BY <1>1, <1>2, <1>3 DEF m

\* What holds wherever emission is called on a value or resumes.
LEMMA EmittingFacts ==
  ASSUME IInv, pc = "emit"
  PROVE  /\ tree \in Trees /\ walk \in Seq(Frame) /\ Len(tree) \in Nat
         /\ Len(tree) \in Valid(tree)
         /\ at # 0 => at \in Valid(tree) /\ at \in DOMAIN tree /\ at \in Nat
         /\ \A k \in 1 .. Len(walk) : /\ Walked(tree, walk[k])
                                      /\ walk[k].node \in Valid(tree)
                                      /\ walk[k].order \in SortedOrders(tree[walk[k].node])
  BY TreeType, ValidInTree DEF IInv, TypeInv, Emitted

LEMMA EmitLeafIInv ==
  ASSUME IInv, EmitLeaf
  PROVE  IInv'
<1>1. pc = "emit" /\ at' = 0 /\ UNCHANGED <<tree, pc, walk, values, result>>
  BY DEF EmitLeaf
<1>2. Emitted(tree, walk, 0)
  BY <1>1 DEF IInv, Emitted
<1>3. TypeInv'
  BY <1>1, EmittingFacts DEF IInv, TypeInv, Root
<1> QED
  BY <1>1, <1>2, <1>3 DEF IInv, Root

LEMMA EmitOpenIInv ==
  ASSUME IInv, EmitOpen
  PROVE  IInv'
<1>1. pc = "emit" /\ at # 0 /\ at' = 0 /\ tree[at].kind \in Container
      /\ UNCHANGED <<tree, pc, values, result>>
  BY DEF EmitOpen
<1>2. PICK order \in SortedOrders(tree[at]) : walk' = Open(at, order)
  BY DEF EmitOpen
<1> DEFINE f == [node |-> at, order |-> order, called |-> 0, seen |-> {}]
<1>3. order \in Seq(Nat) /\ Len(order) \in Nat
  BY <1>1, <1>2, EmittingFacts, SortedOrdersType
<1>4. f \in Frame /\ f.node = at /\ f.order = order /\ f.called = 0
  BY <1>1, <1>3, EmittingFacts DEF Frame
<1>5. walk' = Append(walk, f)
  BY <1>2 DEF Open
<1> HIDE DEF f
<1>6. /\ walk' \in Seq(Frame) /\ Len(walk') = Len(walk) + 1 /\ Len(walk) \in Nat
      /\ \A k \in 1 .. Len(walk) : walk'[k] = walk[k]
      /\ walk'[Len(walk) + 1] = f
  BY <1>1, <1>4, <1>5, EmittingFacts, AppendProperties
<1>7. Walked(tree, f) /\ f.node \in Valid(tree) /\ f.order \in SortedOrders(tree[f.node])
  BY <1>1, <1>2, <1>3, <1>4, EmittingFacts DEF Walked
<1>8. \A k \in 1 .. Len(walk') : /\ Walked(tree, walk'[k])
                                 /\ walk'[k].node \in Valid(tree)
                                 /\ walk'[k].order \in SortedOrders(tree[walk'[k].node])
  <2>1. ASSUME NEW k \in 1 .. Len(walk')
        PROVE  (k \in 1 .. Len(walk) /\ walk'[k] = walk[k]) \/ walk'[k] = f
    BY <1>6
  <2> QED
    BY Zenon, <1>1, <1>7, <2>1, EmittingFacts
<1>9. Emitted(tree, walk', 0)
  BY <1>1, <1>8, EmittingFacts DEF Emitted
<1>10. TypeInv'
  BY <1>1, <1>6, EmittingFacts DEF IInv, TypeInv, Root
<1> QED
  BY <1>1, <1>9, <1>10 DEF IInv, Root

\* What the loop over the innermost container knows.
LEMMA EmitLoopFacts ==
  ASSUME IInv, Emitting
  PROVE  /\ pc = "emit" /\ at = 0 /\ walk # <<>>
         /\ Len(walk) \in 1 .. Len(walk) /\ Top = walk[Len(walk)] /\ Top \in Frame
         /\ Top.node \in DOMAIN tree /\ tree[Top.node].kind \in Container
         /\ Top.node \in Valid(tree) /\ Top.order \in SortedOrders(tree[Top.node])
         /\ Top.called \in Nat /\ Len(Top.order) \in Nat
<1>1. pc = "emit" /\ at = 0 /\ walk # <<>> /\ walk \in Seq(Frame)
  BY DEF Emitting, IInv, TypeInv
<1>2. Len(walk) \in 1 .. Len(walk) /\ Top = walk[Len(walk)]
  BY <1>1, EmptySeq DEF Top
<1>3. Top \in Frame
  BY <1>1, <1>2
<1>4. Walked(tree, Top) /\ Top.node \in Valid(tree) /\ Top.order \in SortedOrders(tree[Top.node])
  BY <1>1, <1>2, EmittingFacts
<1> QED
  BY <1>1, <1>2, <1>3, <1>4 DEF Frame, Walked

LEMMA EmitChildIInv ==
  ASSUME IInv, EmitChild
  PROVE  IInv'
<1> DEFINE child == Top.order[Top.called + 1]
           a == tree[Top.node].kids[child]
<1>1. Emitting /\ Top.called < Len(Top.order)
  BY DEF EmitChild, MoreChildren
<1>2. walk' = Step /\ at' = a /\ UNCHANGED <<tree, pc, values, result>>
  BY DEF EmitChild, Emitting
<1>3. Advanced(walk, Step)
  BY <1>1, EmitLoopFacts, StepAdvances DEF IInv
<1>4. a \in Valid(tree) /\ a \in 1 .. Len(tree)
  <2>1. Top.called + 1 \in 1 .. Len(Top.order) /\ tree \in Trees
    BY <1>1, EmitLoopFacts, EmittingFacts
  <2>2. child \in 1 .. Len(tree[Top.node].kids)
    BY <1>1, <2>1, EmitLoopFacts, SortedOrdersType
  <2> HIDE DEF child
  <2>3. a \in Children(tree[Top.node])
    BY <1>1, <2>1, <2>2, EmitLoopFacts, TreeType
  <2>4. a \in Valid(tree)
    BY <1>1, <2>1, <2>3, EmitLoopFacts, ValidInTree
  <2> QED
    BY <2>1, <2>4, ValidInTree
<1> HIDE DEF a
<1>5. ASSUME NEW k \in 1 .. Len(Step)
      PROVE  /\ Walked(tree, Step[k])
             /\ Step[k].node \in Valid(tree)
             /\ Step[k].order \in SortedOrders(tree[Step[k].node])
  <2>1. Len(Step) = Len(walk) /\ k \in 1 .. Len(walk)
    BY <1>3 DEF Advanced
  <2>2. /\ Walked(tree, walk[k]) /\ walk[k].node \in Valid(tree)
        /\ walk[k].order \in SortedOrders(tree[walk[k].node])
    BY <1>1, <2>1, EmitLoopFacts, EmittingFacts
  <2>3. CASE k = Len(walk)
    <3>1. Step[k].node = walk[k].node /\ Step[k].order = walk[k].order
          /\ Step[k].called = Top.called + 1 /\ walk[k] = Top
      BY <1>1, <1>3, <2>3, EmitLoopFacts DEF Advanced
    <3> QED
      BY <1>1, <2>2, <3>1, EmitLoopFacts DEF Walked
  <2>4. CASE k # Len(walk)
    <3>1. Step[k] = walk[k]
      BY <1>1, <1>3, <2>1, <2>4, EmitLoopFacts DEF Advanced
    <3> QED
      BY <2>2, <3>1
  <2> QED
    BY <2>3, <2>4
<1>6. Emitted(tree, Step, a)
  BY <1>1, <1>4, <1>5, EmitLoopFacts, EmittingFacts DEF Emitted
<1>7. TypeInv'
  BY <1>1, <1>2, <1>3, <1>4 DEF IInv, TypeInv, Root, Advanced
<1> QED
  BY <1>1, <1>2, <1>6, <1>7, EmitLoopFacts DEF IInv, Root

LEMMA EmitCloseIInv ==
  ASSUME IInv, EmitClose
  PROVE  IInv'
<1>1. Emitting /\ walk' = Front(walk) /\ UNCHANGED <<tree, pc, at, values, result>>
  BY DEF EmitClose, Emitting
<1>2. /\ Front(walk) \in Seq(Frame) /\ Len(Front(walk)) = Len(walk) - 1
      /\ \A k \in 1 .. Len(Front(walk)) : Front(walk)[k] = walk[k]
  BY <1>1, EmitLoopFacts, FrontWalk DEF IInv
<1>3. ASSUME NEW k \in 1 .. Len(Front(walk))
      PROVE  /\ Walked(tree, Front(walk)[k])
             /\ Front(walk)[k].node \in Valid(tree)
             /\ Front(walk)[k].order \in SortedOrders(tree[Front(walk)[k].node])
  <2>1. k \in 1 .. Len(walk) /\ Front(walk)[k] = walk[k]
    BY <1>1, <1>2, EmitLoopFacts
  <2> QED
    BY <1>1, <2>1, EmitLoopFacts, EmittingFacts
<1>4. Emitted(tree, Front(walk), 0)
  BY <1>1, <1>3, EmitLoopFacts, EmittingFacts DEF Emitted
<1>5. TypeInv'
  BY <1>1, <1>2 DEF IInv, TypeInv, Root
<1> QED
  BY <1>1, <1>4, <1>5, EmitLoopFacts DEF IInv, Root

LEMMA ReturnIInv ==
  ASSUME IInv, Return
  PROVE  IInv'
<1>1. pc = "emit" /\ pc' = "done" /\ UNCHANGED <<tree, at, walk, values, out>>
  BY DEF Return
<1>2. TypeInv'
  BY <1>1 DEF IInv, TypeInv, Root
<1> QED
  BY <1>1, <1>2, EmittingFacts DEF IInv, Root

--------------------------------------------------------------------------------

THEOREM Invariance == Spec => []IInv
<1>1. Init => IInv
  BY InitIInv
<1>2. IInv /\ [Next]_vars => IInv'
  <2> SUFFICES ASSUME IInv, [Next]_vars PROVE IInv'
    OBVIOUS
  <2>1. CASE NilValue
    BY <2>1, FailIInv DEF NilValue
  <2>2. CASE RejectBound
    BY <2>2, FailIInv DEF RejectBound
  <2>3. CASE ValidateLeaf
    BY <2>3, ValidateLeafIInv
  <2>4. CASE RejectChildren
    BY <2>4, FailIInv DEF RejectChildren
  <2>5. CASE ValidateContainer
    BY <2>5, ValidateContainerIInv
  <2>6. CASE RejectKey
    BY <2>6, FailIInv DEF RejectKey
  <2>7. CASE RejectDuplicate
    BY <2>7, FailIInv DEF RejectDuplicate
  <2>8. CASE ValidateMember
    BY <2>8, ValidateMemberIInv
  <2>9. CASE ValidateElement
    BY <2>9, ValidateElementIInv
  <2>10. CASE ValidateReturn
    BY <2>10, ValidateReturnIInv
  <2>11. CASE BeginEmit
    BY <2>11, BeginEmitIInv
  <2>12. CASE EmitLeaf
    BY <2>12, EmitLeafIInv
  <2>13. CASE EmitOpen
    BY <2>13, EmitOpenIInv
  <2>14. CASE EmitChild
    BY <2>14, EmitChildIInv
  <2>15. CASE EmitClose
    BY <2>15, EmitCloseIInv
  <2>16. CASE Return
    BY <2>16, ReturnIInv
  <2>17. CASE UNCHANGED vars
    BY <2>17 DEF vars, IInv, TypeInv, Root
  <2>18. Stop => UNCHANGED vars
    BY DEF Stop
  <2> QED
    BY Zenon, <2>1, <2>2, <2>3, <2>4, <2>5, <2>6, <2>7, <2>8, <2>9, <2>10, <2>11, <2>12, <2>13,
       <2>14, <2>15, <2>16, <2>17, <2>18 DEF Next
<1> QED
  BY <1>1, <1>2, PTL DEF Spec

--------------------------------------------------------------------------------
(* What the serializer guarantees *)

\* Of any object of any tree, compareSortKeys (serialize.go) orders the valid
\* keys totally, so that sort.Slice has a strict order to sort by.
THEOREM OrderTotal == Spec => []OrderIsTotal
<1>1. IInv => OrderIsTotal
  <2> SUFFICES ASSUME tree \in Trees, NEW n \in DOMAIN tree, tree[n].kind = "object",
                      NEW a \in {key \in ToSet(tree[n].keys) : -1 \notin ToSet(key)},
                      NEW b \in {key \in ToSet(tree[n].keys) : -1 \notin ToSet(key)},
                      NEW c \in {key \in ToSet(tree[n].keys) : -1 \notin ToSet(key)}
               PROVE  /\ compareSortKeys(a, b) = -compareSortKeys(b, a)
                      /\ compareSortKeys(a, b) = 0 => a = b
                      /\ compareSortKeys(a, b) < 0 /\ compareSortKeys(b, c) < 0
                           => compareSortKeys(a, c) < 0
    BY Zenon DEF OrderIsTotal, IInv, TypeInv
  <2>1. \A i \in DOMAIN tree[n].keys : IsText(tree[n].keys[i])
    BY TreeAssumption
  <2>2. ValidKey(a) /\ ValidKey(b) /\ ValidKey(c)
    BY <2>1 DEF ValidKey, ToSet
  <2>3. a \in Seq(CodePoint) /\ b \in Seq(CodePoint) /\ c \in Seq(CodePoint)
    BY <2>2, ValidKeyIsText
  <2> QED
    BY <2>3, SortKeysTotalOrder
<1> QED
  BY <1>1, Invariance, PTL

\* Success, or emission begun, means that the root is valid with all under it.
AcceptsOnlyValid == result = "ok" \/ pc = "emit" => Root \in Valid(tree)

\* serializeInto (serialize.go) returns bytes only for a tree in which every
\* value reachable from the root passed: no unknown kind, no infinite number,
\* no string or key that is invalid, no container too wide and no key repeated
\* in its object, wherever it is and in whatever order the walk met it.
THEOREM OnlyValidAccepted == Spec => []AcceptsOnlyValid
<1>1. IInv => AcceptsOnlyValid
  BY DEF IInv, AcceptsOnlyValid, Emitted, Root
<1> QED
  BY <1>1, Invariance, PTL

LEMMA ValidKeys ==
  ASSUME NEW t \in Trees, NEW n \in Valid(t), t[n].kind = "object"
  PROVE  /\ Len(t[n].keys) \in Nat /\ DOMAIN t[n].keys = 1 .. Len(t[n].keys)
         /\ \A i \in 1 .. Len(t[n].keys) : t[n].keys[i] \in Seq(CodePoint)
         /\ \A i, j \in 1 .. Len(t[n].keys) : t[n].keys[i] = t[n].keys[j] => i = j
<1>1. n \in DOMAIN t /\ LocallyValid(t[n])
  BY ValidInTree, TreeType
<1>2. Len(t[n].keys) \in Nat /\ DOMAIN t[n].keys = 1 .. Len(t[n].keys)
  BY <1>1, TreeType
<1>3. ASSUME NEW i \in 1 .. Len(t[n].keys) PROVE t[n].keys[i] \in Seq(CodePoint)
  <2>1. IsText(t[n].keys[i])
    BY <1>1, <1>2, TreeAssumption
  <2>2. validateString(t[n].keys[i]) = "ok"
    BY <1>1, <1>2 DEF LocallyValid
  <2>3. -1 \notin ToSet(t[n].keys[i])
    BY <2>2 DEF validateString, ToSet
  <2> QED
    BY <2>1, <2>3, ValidKeyIsText DEF ValidKey
<1>4. \A i, j \in 1 .. Len(t[n].keys) : t[n].keys[i] = t[n].keys[j] => i = j
  BY <1>1, <1>2 DEF LocallyValid
<1> QED
  BY <1>2, <1>3, <1>4

\* The order of the members of a valid object is determined.
LEMMA OneSortedOrder ==
  ASSUME NEW t \in Trees, NEW n \in Valid(t), t[n].kind \in Container
  PROVE  \E order : SortedOrders(t[n]) = {order}
<1>1. CASE t[n].kind = "array"
  BY <1>1 DEF SortedOrders
<1>2. CASE t[n].kind = "object"
  <2> DEFINE keys == t[n].keys
             m == Len(keys)
             L == {e \in (1 .. m) \X (1 .. m) : compareSortKeys(keys[e[1]], keys[e[2]]) < 0}
  <2>1. m \in Nat /\ \A i, j \in 1 .. m : keys[i] = keys[j] => i = j
    BY <1>2, ValidKeys
  <2>2. \A i \in 1 .. m : keys[i] \in Seq(CodePoint)
    BY <1>2, ValidKeys
  <2> HIDE DEF keys, m
  <2>3. \A i, j \in 1 .. m : <<i, j>> \in L <=> compareSortKeys(keys[i], keys[j]) < 0
    OBVIOUS
  <2>4. \A i, j \in 1 .. m :
          /\ compareSortKeys(keys[i], keys[j]) \in {-1, 0, 1}
          /\ compareSortKeys(keys[i], keys[j]) = -compareSortKeys(keys[j], keys[i])
          /\ compareSortKeys(keys[i], keys[j]) = 0 => keys[i] = keys[j]
    BY <2>2, SortKeysTotalOrder
  <2>5. \A i, j, k \in 1 .. m :
          compareSortKeys(keys[i], keys[j]) < 0 /\ compareSortKeys(keys[j], keys[k]) < 0
            => compareSortKeys(keys[i], keys[k]) < 0
    BY <2>2, SortKeysTotalOrder
  <2> HIDE DEF L
  <2>6. Ordering(L, m)
    <3>1. \A i \in 1 .. m : <<i, i>> \notin L
      BY <2>3, <2>4
    <3>2. ASSUME NEW i \in 1 .. m, NEW j \in 1 .. m, i # j
          PROVE  <<i, j>> \in L \/ <<j, i>> \in L
      <4>1. compareSortKeys(keys[i], keys[j]) # 0
        BY <2>1, <2>4, <3>2
      <4> QED
        BY <2>3, <2>4, <4>1
    <3>3. \A i, j, k \in 1 .. m : <<i, j>> \in L /\ <<j, k>> \in L => <<i, k>> \in L
      BY <2>3, <2>5
    <3> QED
      BY <3>1, <3>2, <3>3 DEF Ordering
  <2>7. SortedOrders(t[n]) = Sortings(L, m)
    <3>1. SortedOrders(t[n]) =
            {order \in SetToSeqs(1 .. m) :
               \A i, j \in 1 .. Len(order) :
                 i < j => compareSortKeys(keys[order[j]], keys[order[i]]) >= 0}
      BY <1>2 DEF SortedOrders, keys, m
    <3>2. ASSUME NEW q \in SetToSeqs(1 .. m)
          PROVE  (\A i, j \in 1 .. Len(q) :
                    i < j => compareSortKeys(keys[q[j]], keys[q[i]]) >= 0)
                 <=> \A i, j \in 1 .. m : i < j => <<q[j], q[i]>> \notin L
      <4>1. q \in [1 .. m -> 1 .. m]
        BY <2>1, PermutationsOf
      <4>2. Len(q) = m
        BY <2>1, <4>1
      <4>3. \A i, j \in 1 .. m : compareSortKeys(keys[q[j]], keys[q[i]]) >= 0
                                   <=> <<q[j], q[i]>> \notin L
        BY <2>3, <2>4, <4>1
      <4> QED
        BY <4>2, <4>3
    <3> QED
      BY <3>1, <3>2 DEF Sortings
  <2>8. PICK p : p \in Sortings(L, m)
    BY <2>1, <2>6, SortingExists
  <2>9. \A q \in Sortings(L, m) : q = p
    BY <2>1, <2>6, <2>8, AtMostOneSorting
  <2> QED
    BY <2>7, <2>8, <2>9
<1> QED
  BY <1>1, <1>2 DEF Container

\* When a container is emitted there is exactly one order to emit it in.
EmitsOneOrder ==
  pc = "emit" /\ at # 0 /\ tree[at].kind \in Container
    => \E order : SortedOrders(tree[at]) = {order}

\* Though sort.Slice (serialize.go) is not stable and a caller may give members
\* in any order, serializeObject has exactly one way to emit each object: the
\* keys that reach it were all validated and told apart, and the comparison
\* orders them strictly.
THEOREM EmissionDetermined == Spec => []EmitsOneOrder
<1>1. IInv => EmitsOneOrder
  BY EmittingFacts, OneSortedOrder DEF EmitsOneOrder
<1> QED
  BY <1>1, Invariance, PTL

================================================================================
