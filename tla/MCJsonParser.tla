----------------------------- MODULE MCJsonParser -----------------------------
(***************************************************************************)
(* JsonParser on small inputs: every sequence of up to MaxShort lexemes,   *)
(* and the texts one edit away from a few longer valid ones.               *)
(***************************************************************************)
EXTENDS JsonParser, SequencesExt

CONSTANTS
  MaxShort,   \* bound on the length of the exhaustive inputs
  Limits      \* the limits the caller's options should resolve to

MCScalars == {"null"}
MCStrings == {"qa", "qa_escaped", "qb", "qc"}   \* "a", "\u0061", "b", "c"
MCBadScalars == {"-0"}
MCBadStrings == {"qlone"}                    \* "\uD800"
MCKeys == {"a", "b", "c"}

MCDecode == [s \in MCStrings |-> CASE s = "qb" -> "b" [] s = "qc" -> "c" [] OTHER -> "a"]

MCFault ==
  [s \in MCBadScalars \cup MCBadStrings |->
     IF s = "-0" THEN "NUMBER_NEGZERO" ELSE "LONE_SURROGATE"]

MCLexeme ==
  {"lbrace", "rbrace", "lbrack", "rbrack", "colon", "comma", "ws", "badutf8"}
    \cup MCScalars \cup MCStrings \cup MCBadScalars \cup MCBadStrings

\* An escaped spelling is longer than a plain one.
MCWidth == [x \in MCLexeme |-> IF x = "qa_escaped" THEN 2 ELSE 1]

\* {"a":null,"b":{}} , [{"a":[]},null] , [ [null] ] , {"a":[null,null],"b":"b"} ,
\* and with one child more than allowed: [null,null,null] , {"a":null,"b":null,"c":null}
Seeds ==
  {<<"lbrace", "qa", "colon", "null", "comma", "ws", "qb", "colon", "lbrace",
     "rbrace", "rbrace">>,
   <<"lbrack", "lbrace", "qa", "colon", "lbrack", "rbrack", "rbrace", "comma",
     "null", "rbrack", "ws">>,
   <<"lbrack", "ws", "lbrack", "null", "ws", "rbrack", "ws", "rbrack">>,
   <<"lbrace", "qa", "colon", "lbrack", "null", "comma", "null", "rbrack",
     "comma", "qb", "ws", "colon", "qb", "rbrace">>,
   <<"lbrack", "null", "comma", "null", "comma", "null", "rbrack">>,
   <<"lbrace", "qa", "colon", "null", "comma", "qb", "colon", "null", "comma", "qc",
     "colon", "null", "rbrace">>}

Edits(s) ==
  {s} \cup {RemoveAt(s, i) : i \in 1 .. Len(s)}
      \cup {InsertAt(s, i, x) : i \in 1 .. Len(s) + 1, x \in MCLexeme}
      \cup {[s EXCEPT ![i] = x] : i \in 1 .. Len(s), x \in MCLexeme}
      \cup {SubSeq(s, 1, i) : i \in 1 .. Len(s)}

MCInputs ==
  (UNION {[1 .. n -> MCLexeme \ {"qc"}] : n \in 0 .. MaxShort}) \cup UNION {Edits(s) : s \in Seeds}

\* Limits tight enough that every one of them is exceeded by some input.  The
\* caller leaves three of them to their defaults.
MCLimits ==
  [maxDepth |-> 2, maxInputSize |-> 14, maxValues |-> 5,
   maxObjectMembers |-> 2, maxArrayElements |-> 2, maxStringBytes |-> 1, maxNumberChars |-> 2]

MCOptions ==
  [maxDepth |-> 2, maxInputSize |-> 0, maxValues |-> -1,
   maxObjectMembers |-> 2, maxArrayElements |-> 0, maxStringBytes |-> 0, maxNumberChars |-> 2]

MCDefaults ==
  [maxDepth |-> 3, maxInputSize |-> 14, maxValues |-> 5,
   maxObjectMembers |-> 3, maxArrayElements |-> 2, maxStringBytes |-> 1, maxNumberChars |-> 9]

--------------------------------------------------------------------------------

Domain == INSTANCE JsonDomain WITH
  verdict <- IF pc # "done" THEN "pending"
             ELSE IF outcome = Accepted THEN "accept" ELSE "reject",
  InputSize <- Limits.maxInputSize, Depth <- Limits.maxDepth,
  Values <- Limits.maxValues, Members <- Limits.maxObjectMembers,
  Elements <- Limits.maxArrayElements

\* The parser implements its abstract specification: it stops, and accepts
\* exactly the JSON texts of RFC 8259 that are within the I-JSON restrictions
\* and the limits in force.
ImplementsDomain == Domain!Spec

--------------------------------------------------------------------------------
(* Where an error is reported, and why. *)

\* The first p lexemes, any faulty token replaced by a sound one.
Prefix(p) ==
  [i \in 1 .. p |-> IF input[i] \in BadScalars THEN "null"
                    ELSE IF input[i] \in BadStrings THEN "qa" ELSE input[i]]

\* The closers, innermost first, of the containers s leaves open.
Closers(s) ==
  LET Step(open, x) ==
        CASE x = "lbrace" -> <<"rbrace">> \o open
          [] x = "lbrack" -> <<"rbrack">> \o open
          [] x \in {"rbrace", "rbrack"} /\ open # <<>> -> Tail(open)
          [] OTHER -> open
  IN FoldLeft(Step, <<>>, s)

\* Texts that begin with s, with at most one more value or member.
Completions(s) ==
  {s \o middle \o Closers(s) :
     middle \in {<<>>, <<"null">>, <<"lbrack", "rbrack">>, <<"colon", "null">>,
                <<"qa", "colon", "null">>}}

Viable(s) == \E t \in Completions(s) : Domain!IsValue(Domain!Tokens(t))

\* After s only a key or a colon may follow.
NameDue(s) ==
  \E middle \in {<<"colon", "null">>, <<"qa", "colon", "null">>} :
    Domain!IsValue(Domain!Tokens(s \o middle \o Closers(s)))

\* A grammar error is reported where the text first goes wrong: what precedes
\* can be continued to a JSON text and the next lexeme, or the end of the
\* input, rules that out.  Where expect wanted a key or a colon it has consumed
\* that lexeme, and the offset is one past it.
GrammarErrorLocated ==
  outcome.class = "INVALID_GRAMMAR" =>
    \E p \in 0 .. Len(input) :
      /\ Viable(Prefix(p))
      /\ IF p = Len(input) THEN ~Domain!IsValue(Domain!Tokens(input))
                            ELSE ~Viable(Prefix(p + 1))
      /\ outcome.offset = IF p < Len(input) /\ NameDue(Prefix(p)) THEN p + 1 ELSE p

\* A bound is reported only for a text that begins like this one and exceeds
\* a limit; in particular the value count may be exceeded by a value that is
\* not there, for it is counted before the input is looked at.
BoundErrorJustified ==
  outcome.class = "BOUND_EXCEEDED" =>
    \/ Size(input) > Limits.maxInputSize
    \/ \E t \in Completions(Prefix(outcome.offset)) :
         Domain!IsValue(Domain!Tokens(t)) /\ ~Domain!WithinLimits(Domain!Tokens(t))

\* A duplicate is reported at the second of two keys of one object that decode
\* to the same text, and at the first such place of the input.
DuplicateLocated ==
  LET Repeats(p) == ~Domain!KeysDistinct(
        Domain!Tokens(Prefix(p) \o <<"colon", "null">> \o Closers(Prefix(p))))
  IN outcome.class = "DUPLICATE_KEY" =>
       Repeats(outcome.offset + 1) /\ ~Repeats(outcome.offset)

================================================================================
