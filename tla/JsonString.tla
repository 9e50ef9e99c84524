------------------------------- MODULE JsonString -------------------------------
(***************************************************************************)
(* parseString of jcstoken over code points, the input being valid UTF-8   *)
(* by the time it is called: the fast path over plain ASCII, the general   *)
(* path with escapes and surrogate pairs, and the bound on the bytes of    *)
(* the decoded text, which the two paths check at different places.  And   *)
(* serializeString of jcs, which writes a text back.                       *)
(***************************************************************************)
EXTENDS StringLiteral, JcsErrors

CONSTANTS
  Inputs,         \* inputs, each from the opening quote on
  maxStringBytes

\* Unicode scalar values.
Scalar == {c \in Nat : c <= 1114111 /\ (c < 55296 \/ 57343 < c)}
IsText(s) == s \in Seq(Scalar)

ASSUME InputAssumption ==
  /\ maxStringBytes \in Nat \ {0}
  /\ \A s \in Inputs : IsText(s)

Quote == 34
Backslash == 92
LowerU == 117

VARIABLES
  data,
  pos,     \* p.pos, in code points
  buf,     \* the text decoded so far
  pc,      \* where parseString is
  outcome

vars == <<data, pos, buf, pc, outcome>>

TypeOK ==
  /\ IsText(data) /\ IsText(buf)
  /\ pos \in 0 .. Len(data)
  /\ pc \in {"open", "fast", "general", "done"}
  /\ outcome.class \in InputClass \cup {"pending", "ok"} /\ outcome.offset \in 0 .. Len(data)

--------------------------------------------------------------------------------

Init ==
  /\ data \in Inputs
  /\ pos = 0
  /\ buf = <<>>
  /\ pc = "open"
  /\ outcome = [class |-> "pending", offset |-> 0]

AtEnd(p) == p >= Len(data)
At(p) == data[p + 1]
More == ~AtEnd(pos)

Fail(class, offset) ==
  /\ pc' = "done"
  /\ outcome' = [class |-> class, offset |-> offset]
  /\ UNCHANGED <<data, buf>>

Succeed ==
  /\ pc' = "done"
  /\ outcome' = [class |-> "ok", offset |-> 0]
  /\ pos' = pos + 1
  /\ UNCHANGED <<data, buf>>

Open ==
  /\ pc = "open"
  /\ IF More /\ At(pos) = Quote
       THEN pos' = pos + 1 /\ pc' = "fast" /\ UNCHANGED <<data, buf, outcome>>
       ELSE /\ pos' = IF More THEN pos + 1 ELSE pos
            /\ Fail("INVALID_GRAMMAR", pos')

--------------------------------------------------------------------------------
(* The fast path: buf is the input from the opening quote to pos. *)

Plain(c) == c >= 32 /\ c < 128 /\ c \notin {Quote, Backslash}

FastChar ==
  /\ pc = "fast"
  /\ More /\ Plain(At(pos))
  /\ buf' = Append(buf, At(pos))
  /\ pos' = pos + 1
  /\ UNCHANGED <<data, pc, outcome>>

FastClose_Unbounded ==
  /\ pc = "fast"
  /\ More /\ At(pos) = Quote
  /\ Succeed

\* The bound is checked only here.
FastClose ==
  /\ pc = "fast"
  /\ More /\ At(pos) = Quote
  /\ IF Len(buf) > maxStringBytes
       THEN Fail("BOUND_EXCEEDED", pos) /\ UNCHANGED pos
       ELSE Succeed

LeaveFast ==
  /\ pc = "fast"
  /\ ~(More /\ (Plain(At(pos)) \/ At(pos) = Quote))
  /\ pc' = "general"
  /\ UNCHANGED <<data, pos, buf, outcome>>

--------------------------------------------------------------------------------
(* Escapes: a result has a rune and the place after it, or a class and the *)
(* offset it is reported at.                                               *)

Rune(c, next) == [class |-> "ok", rune |-> c, next |-> next]
EscapeError(class, offset) == [class |-> class, rune |-> 0, next |-> offset]

escapedRune(c) ==
  CASE c \in {Quote, Backslash, 47} -> c
    [] c = 98 -> 8 [] c = 102 -> 12 [] c = 110 -> 10 [] c = 114 -> 13 [] c = 116 -> 9
    [] OTHER -> -1

hexVal(c) ==
  CASE c \in 48 .. 57 -> c - 48
    [] c \in 97 .. 102 -> c - 87
    [] c \in 65 .. 70 -> c - 55
    [] OTHER -> -1

\* readHex4: the value of the four digits at p, or -1.
readHex4(p) ==
  IF p + 4 > Len(data) \/ \E i \in 0 .. 3 : hexVal(At(p + i)) = -1 THEN -1
  ELSE 4096 * hexVal(At(p)) + 256 * hexVal(At(p + 1)) + 16 * hexVal(At(p + 2)) + hexVal(At(p + 3))

IsHigh(r) == 55296 <= r /\ r <= 56319
IsLow(r) == 56320 <= r /\ r <= 57343

\* utf16.DecodeRune
Pair(high, low) == 65536 + (high - 55296) * 1024 + (low - 56320)

\* The part of parseUnicodeEscape after a high surrogate, which ends at p.
lowSurrogate(high, p, source) ==
  IF AtEnd(p + 1) \/ At(p) # Backslash \/ At(p + 1) # LowerU
    THEN EscapeError("LONE_SURROGATE", source)
  ELSE IF readHex4(p + 2) = -1 THEN EscapeError("INVALID_GRAMMAR", p)
  ELSE IF ~IsLow(readHex4(p + 2)) THEN EscapeError("LONE_SURROGATE", p)
  ELSE Rune(Pair(high, readHex4(p + 2)), p + 6)

parseUnicodeEscape(p, source) ==
  LET r == readHex4(p) IN
  IF r = -1 THEN EscapeError("INVALID_GRAMMAR", source)
  ELSE IF IsLow(r) THEN EscapeError("LONE_SURROGATE", source)
  ELSE IF ~IsHigh(r) THEN Rune(r, p + 4)
  ELSE lowSurrogate(r, p + 4, source)

parseEscape_OffsetAfter(p) ==
  IF AtEnd(p) THEN EscapeError("INVALID_GRAMMAR", p)
  ELSE IF At(p) = LowerU THEN parseUnicodeEscape(p + 1, p)
  ELSE IF escapedRune(At(p)) = -1 THEN EscapeError("INVALID_GRAMMAR", p)
  ELSE Rune(escapedRune(At(p)), p + 1)

\* p is the offset after the backslash.
parseEscape(p) ==
  IF AtEnd(p) THEN EscapeError("INVALID_GRAMMAR", p - 1)
  ELSE IF At(p) = LowerU THEN parseUnicodeEscape(p + 1, p - 1)
  ELSE IF escapedRune(At(p)) = -1 THEN EscapeError("INVALID_GRAMMAR", p - 1)
  ELSE Rune(escapedRune(At(p)), p + 1)

--------------------------------------------------------------------------------
(* The general path. *)

General == pc = "general"

Unterminated ==
  /\ General
  /\ AtEnd(pos)
  /\ Fail("INVALID_GRAMMAR", pos)
  /\ UNCHANGED pos

Close ==
  /\ General
  /\ More /\ At(pos) = Quote
  /\ Succeed

RejectControl ==
  /\ General
  /\ More /\ At(pos) < 32
  /\ Fail("INVALID_GRAMMAR", pos)
  /\ UNCHANGED pos

Add_SourceBytes(c, next, errorAt) ==
  IF next > maxStringBytes + 1
    THEN Fail("BOUND_EXCEEDED", errorAt) /\ UNCHANGED pos
    ELSE /\ buf' = Append(buf, c)
         /\ pos' = next
         /\ UNCHANGED <<data, pc, outcome>>

\* One decoded code point joins the text, unless it would exceed the bound.
Add(c, next, errorAt) ==
  IF Bytes(buf) + Utf8Width(c) > maxStringBytes
    THEN Fail("BOUND_EXCEEDED", errorAt) /\ UNCHANGED pos
    ELSE /\ buf' = Append(buf, c)
         /\ pos' = next
         /\ UNCHANGED <<data, pc, outcome>>

\* validateStringRune, then the bound.
Accept(c, next, source, errorAt) ==
  IF IsNoncharacter(c)
    THEN Fail("NONCHARACTER", source) /\ UNCHANGED pos
    ELSE Add(c, next, errorAt)

\* The bound is reported after an escape that has been consumed.
Escape ==
  /\ General
  /\ More /\ At(pos) = Backslash
  /\ LET e == parseEscape(pos + 1) IN
       IF e.class # "ok" THEN Fail(e.class, e.next) /\ UNCHANGED pos
       ELSE Accept(e.rune, e.next, pos, e.next)

Char ==
  /\ General
  /\ More /\ At(pos) >= 32 /\ At(pos) \notin {Quote, Backslash}
  /\ Accept(At(pos), pos + 1, pos, pos)

Stop == pc = "done" /\ UNCHANGED vars

Next ==
  \/ Open \/ FastChar \/ FastClose \/ LeaveFast
  \/ Unterminated \/ Close \/ RejectControl \/ Escape \/ Char
  \/ Stop

Spec == Init /\ [][Next]_vars

--------------------------------------------------------------------------------
(* serializeString *)

hexDigit(d) == IF d < 10 THEN 48 + d ELSE 97 + (d - 10)

appendEscaped_QuoteOnly(c) ==
  IF c = Quote THEN <<Backslash, c>> ELSE <<c>>

appendEscaped(c) ==
  CASE c \in {Quote, Backslash} -> <<Backslash, c>>
    [] c = 8 -> <<Backslash, 98>>
    [] c = 9 -> <<Backslash, 116>>
    [] c = 10 -> <<Backslash, 110>>
    [] c = 12 -> <<Backslash, 102>>
    [] c = 13 -> <<Backslash, 114>>
    [] c < 32 /\ c \notin {8, 9, 10, 12, 13} ->
         <<Backslash, LowerU, 48, 48, hexDigit(c \div 16), hexDigit(c % 16)>>
    [] OTHER -> <<c>>

serializeString(text) ==
  <<Quote>> \o FlattenSeq([i \in DOMAIN text |-> appendEscaped(text[i])]) \o <<Quote>>

--------------------------------------------------------------------------------
(* Properties *)

IsFit(text) == ~HasNoncharacter(text) /\ Bytes(text) <= maxStringBytes

\* A string is accepted exactly when it is a literal of the grammar, free of
\* noncharacters and not too long, by either path; and then there is no other way
\* to read it: its text is the one decoded, and it ends where the parser stands.
AcceptsStrings ==
  pc = "done" =>
    IF outcome.class = "ok"
      THEN Literals(data) = {[text |-> buf, end |-> pos]} /\ IsFit(buf)
      ELSE \A l \in Literals(data) : ~IsFit(l.text)

\* Nothing that the grammar knows stands at offset p.
IsMalformed(p) ==
  \/ p = Len(data)
  \/ /\ At(p) # Quote
     /\ ~IsCharacter(data, p) /\ ~IsShortEscape(data, p) /\ ~IsUnit(data, p)

\* An error is reported where the string first goes wrong: what precedes it is
\* sound, perhaps awaiting a low surrogate, and what stands there has the fault
\* reported.
ErrorLocated ==
  (outcome.class \in {"LONE_SURROGATE", "NONCHARACTER", "INVALID_GRAMMAR"} /\ data # <<>>
      /\ data[1] = Quote) =>
    LET p == outcome.offset IN
    CASE outcome.class = "INVALID_GRAMMAR" ->
           (IsSound(data, p) \/ (AwaitsLow(data, p) /\ IsMarked(data, p))) /\ IsMalformed(p)
      [] outcome.class = "LONE_SURROGATE" ->
           /\ IsUnit(data, p)
           /\ \/ AwaitsLow(data, p) /\ UnitAt(data, p) \notin LowUnits
              \/ IsSound(data, p) /\ UnitAt(data, p) \in LowUnits
              \/ IsSound(data, p) /\ UnitAt(data, p) \in HighUnits /\ ~IsMarked(data, p + 6)
      [] OTHER ->
           /\ IsSound(data, p)
           /\ \E r \in p + 1 .. Len(data) :
                IsElement(data, p, r) /\ HasNoncharacter(<<Spelled(data, p, r)>>)

\* The bound is reported for a text that is too long already, at the quote that
\* closes it, before the character that exceeds it or after the escape that does.
BoundJustified ==
  outcome.class = "BOUND_EXCEEDED" =>
    \E p \in {outcome.offset, outcome.offset + 1} :
      /\ IsSound(data, p)
      /\ \A t \in Texts(data)[p] : Bytes(t) > maxStringBytes

\* What serializeString writes is read back as the text it was given and as
\* nothing else, and holds no control character (CANON-STR-001 to CANON-STR-010).
WrittenReadsBack ==
  outcome.class = "ok" =>
    LET s == serializeString(buf) IN
    /\ Literals(s) = {[text |-> buf, end |-> Len(s)]}
    /\ \A i \in DOMAIN s : s[i] >= 32

================================================================================
