------------------------------ MODULE Canonicalize ------------------------------
(***************************************************************************)
(* CanonicalizeWithOptions, the parser followed by the serializer under    *)
(* the same options, applied to an input and then to its own output.       *)
(***************************************************************************)
EXTENDS JsonParser

CONSTANTS
  KeyText,      \* [Keys -> sequences of code points], the decoded strings
  ScalarKind,   \* [Scalars -> {"null", "bool", "number"}]
  Literal,      \* [Scalars -> STRING], what each is written as canonically
  PlainString,  \* [Keys -> Strings], the spelling serializeString gives
  PlainScalar   \* [STRING -> Scalars \cup BadScalars], the lexeme of a canonical literal

VARIABLES
  round,   \* the first or the second call
  first,   \* the output of the first call
  tree, phase, at, walk, values, out, result   \* the serializer's state

serializer == <<tree, phase, at, walk, values, out, result>>
allVars == <<vars, round, first, serializer>>

\* The limits the serializer takes from the same options.
SerializerLimits(limits) ==
  [name \in LimitName \ {"maxInputSize", "maxNumberChars"} |-> limits[name]]

\* The bound parseNumber puts on the text of a number, in every call.
maxNumberChars == resolveOption("maxNumberChars")

\* What is written of a scalar is read as what it was written of.
ReadsBack(s, lexeme) ==
  lexeme \in Scalars /\ Literal[lexeme] = Literal[s] /\ ScalarKind[lexeme] = ScalarKind[s]

\* Or, when formatting made a number longer than the bound, refused for that.
TooLong(lexeme) ==
  lexeme \in BadScalars /\ Width[lexeme] > maxNumberChars /\ Fault[lexeme] = "BOUND_EXCEEDED"

S == INSTANCE Serializer WITH
  pc <- phase, Trees <- {},
  Options <- SerializerLimits(Options), Defaults <- SerializerLimits(Defaults)

\* What parseString and parseNumber make: texts that are I-JSON and within the
\* bound, different for different keys, and read back from the spelling written;
\* literals of finite numbers, spelled within the bound on their length, which
\* the literal written may exceed.
ASSUME TextAssumption ==
  /\ \A k \in Keys :
       /\ S!IsText(KeyText[k]) /\ S!validateString(KeyText[k]) = "ok"
       /\ PlainString[k] \in Strings /\ Decode[PlainString[k]] = k
  /\ \A k, m \in Keys : KeyText[k] = KeyText[m] => k = m
  /\ \A s \in Scalars :
       /\ ScalarKind[s] \in {"null", "bool", "number"}
       /\ ScalarKind[s] = "null" => Literal[s] = "null"
       /\ ScalarKind[s] = "bool" => Literal[s] \in {"true", "false"}
       /\ ScalarKind[s] = "number" => Literal[s] # "inf"
       /\ Literal[s] \notin Structural \cup {"string"}
       /\ ScalarKind[s] = "number" => Width[s] <= maxNumberChars
       /\ \/ ReadsBack(s, PlainScalar[Literal[s]])
          \/ ScalarKind[s] = "number" /\ TooLong(PlainScalar[Literal[s]])

--------------------------------------------------------------------------------

\* The value Parse returned.
Parsed ==
  [n \in 1 .. Len(nodes) |->
     [kind |-> IF nodes[n].kind = "scalar" THEN ScalarKind[nodes[n].text] ELSE nodes[n].kind,
      lit |-> IF nodes[n].kind = "scalar" THEN Literal[nodes[n].text] ELSE "",
      str |-> IF nodes[n].kind = "string" THEN KeyText[nodes[n].text] ELSE <<>>,
      keys |-> [i \in DOMAIN nodes[n].keys |-> KeyText[nodes[n].keys[i]]],
      kids |-> nodes[n].kids]]

\* The output read back as lexemes.
Lexed(tokens) ==
  [i \in DOMAIN tokens |->
     IF tokens[i].sort = "string"
       THEN PlainString[CHOOSE k \in Keys : KeyText[k] = tokens[i].text]
     ELSE IF tokens[i].sort \in Structural THEN tokens[i].sort
     ELSE PlainScalar[tokens[i].sort]]

Start ==
  /\ Init
  /\ round = 1
  /\ first = <<>>
  /\ tree = <<>> /\ phase = "idle" /\ at = 0 /\ walk = <<>> /\ values = 0
  /\ out = <<>> /\ result = "pending"

Parse ==
  /\ pc # "done"
  /\ Next
  /\ UNCHANGED <<round, first, serializer>>

\* serializeInto is called on the value parsed.
Hand ==
  /\ pc = "done" /\ outcome = Accepted
  /\ phase = "idle"
  /\ tree' = Parsed
  /\ phase' = "validate"
  /\ at' = Len(nodes)
  /\ walk' = <<>> /\ values' = 0 /\ out' = <<>> /\ result' = "pending"
  /\ UNCHANGED <<vars, round, first>>

Serialize ==
  /\ phase \in {"validate", "emit"}
  /\ S!Next
  /\ UNCHANGED <<vars, round, first>>

\* The caller canonicalizes the output.
Again ==
  /\ round = 1
  /\ phase = "done" /\ result = "ok"
  /\ round' = 2
  /\ first' = out
  /\ input' = Lexed(out)
  /\ pos' = 0 /\ depth' = 0 /\ valueCount' = 0 /\ stack' = <<>> /\ nodes' = <<>>
  /\ pc' = "start" /\ outcome' = Pending
  /\ phase' = "idle"
  /\ UNCHANGED <<tree, at, walk, values, out, result>>

Refused == pc = "done" /\ outcome # Accepted
Ended == Refused \/ (phase = "done" /\ (round = 2 \/ result # "ok"))

Halt == Ended /\ UNCHANGED allVars

Step == Parse \/ Hand \/ Serialize \/ Again \/ Halt

CallTwice == Start /\ [][Step]_allVars

--------------------------------------------------------------------------------
(* Properties *)

\* The two walks over a value agree on the limits: whatever Parse accepts, at
\* any limit exactly, serializeInto accepts under the same options, although
\* one counts depth in containers from one and the other in levels from zero.
ParsedIsSerializable == phase = "done" => result = "ok"

\* A second call accepts the output of the first unless formatting or escaping
\* made the text larger than the limit on inputs, or a number longer than the
\* limit on numbers; the error then says so, where the number is.  The output is
\* never refused for its grammar, its keys, its nesting or its counts.
OutputIsAccepted ==
  round = 2 /\ Refused =>
    /\ outcome.class = "BOUND_EXCEEDED"
    /\ \/ Size(input) > maxInputSize /\ outcome.offset = 0
       \/ Size(input) <= maxInputSize /\ TooLong(peek(outcome.offset))

\* Canonicalizing a canonical text changes nothing (DET-IDEMPOTENT-001).
Idempotent == round = 2 /\ phase = "done" => out = first

\* c takes the nodes of s to nodes of t that stand for the same JSON value, objects
\* for sets of members.
Corresponds(s, t, c) ==
  /\ c[Len(s)] = Len(t)
  /\ \A n \in 1 .. Len(s) :
       LET r == s[n]
           q == t[c[n]] IN
       /\ r.kind = q.kind
       /\ r.kind \in Container => Len(r.kids) = Len(q.kids)
       /\ CASE r.kind = "object" ->
                 {<<r.keys[i], c[r.kids[i]]>> : i \in 1 .. Len(r.kids)} =
                   {<<q.keys[i], q.kids[i]>> : i \in 1 .. Len(q.kids)}
            [] r.kind = "array" -> \A i \in 1 .. Len(r.kids) : c[r.kids[i]] = q.kids[i]
            [] r.kind = "string" -> r.str = q.str
            [] OTHER -> r.lit = q.lit

\* The output stands for the value of the input: reading it back gives the same
\* members with the same values in every object, and the same elements in order.
OutputMeansInput ==
  round = 2 /\ outcome = Accepted /\ phase = "idle" =>
    \E c \in [1 .. Len(nodes) -> 1 .. Len(tree)] : Corresponds(Parsed, tree, c)

================================================================================
