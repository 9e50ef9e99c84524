----------------------------- MODULE MCCanonicalize -----------------------------
(***************************************************************************)
(* Canonicalize on valid texts of up to two levels of containers, whose    *)
(* keys sort differently by code point and by UTF-16 unit, around limits   *)
(* that some of them meet exactly.                                         *)
(***************************************************************************)
EXTENDS Canonicalize

\* -1e4 is written -10000, and -1e5 a character longer than the limit on numbers.
MCScalars == {"null", "-1e4", "-10000", "-1e5"}
MCBadScalars == {"-100000"}
MCStrings == {"qa", "qa_escaped", "q_e000", "q_10000"}
MCKeys == {"a", "e000", "10000"}

MCDecode ==
  [s \in MCStrings |-> CASE s \in {"qa", "qa_escaped"} -> "a"
                         [] s = "q_e000" -> "e000" [] s = "q_10000" -> "10000"]
MCFault == [s \in MCBadScalars |-> "BOUND_EXCEEDED"]

MCKeyText ==
  [k \in MCKeys |-> CASE k = "a" -> <<97>> [] k = "e000" -> <<57344>> [] k = "10000" -> <<65536>>]
MCScalarKind == [s \in MCScalars |-> IF s = "null" THEN "null" ELSE "number"]
MCLiteral ==
  [s \in MCScalars |->
     CASE s = "null" -> "null" [] s = "-1e5" -> "-100000" [] OTHER -> "-10000"]
MCPlainString == [k \in MCKeys |-> CASE k = "a" -> "qa" [] k = "e000" -> "q_e000"
                                     [] k = "10000" -> "q_10000"]
MCPlainScalar == [lit \in {"null", "-10000", "-100000"} |-> lit]

MCWidth ==
  [x \in Structural \cup {"ws", "badutf8"} \cup MCScalars \cup MCBadScalars \cup MCStrings |->
     CASE x \in Structural \cup {"ws", "badutf8"} -> 1
       [] x \in {"null", "-1e4", "-1e5"} -> 4
       [] x = "-10000" -> 6 [] x = "-100000" -> 7
       [] x = "qa" -> 3 [] x = "qa_escaped" -> 8
       [] x = "q_e000" -> 5 [] x = "q_10000" -> 6]

Leaves == {<<"null">>, <<"-1e4">>, <<"-1e5">>, <<"qa_escaped">>}

ArrayOf(v) == <<"lbrack">> \o v \o <<"rbrack">>
Arrays(one, other) ==
  {ArrayOf(<<>>)} \cup {ArrayOf(v) : v \in one}
    \cup {ArrayOf(v \o <<"comma", "ws">> \o w) : v \in one, w \in other}

Member(k, v) == <<k, "colon">> \o v
ObjectOf(m) == <<"lbrace">> \o m \o <<"rbrace">>
Objects(one, other) ==
  {ObjectOf(<<>>)} \cup {ObjectOf(Member(k, v)) : k \in MCStrings, v \in one}
    \cup {ObjectOf(Member(k, v) \o <<"comma">> \o Member(m, w)) :
            k, m \in MCStrings, v \in one, w \in other}

Level1 == Arrays(Leaves, Leaves) \cup Objects(Leaves, Leaves)

\* Three members, and containers inside containers.
Level2 ==
  {ObjectOf(Member(k, <<"null">>) \o <<"comma">> \o Member(m, v) \o <<"comma">>
              \o Member(n, <<"lbrack", "rbrack">>)) :
     k, m, n \in MCStrings, v \in {<<"-1e4">>, <<"-1e5">>}}
  \cup Arrays(Level1, {<<"null">>})
  \cup Objects({v \in Level1 : Len(v) \in {2, 3, 9}}, {<<"-1e4">>})

MCInputs == Leaves \cup Level1 \cup Level2 \cup {ArrayOf(ArrayOf(ArrayOf(<<"null">>)))}

MCOptions ==
  [maxDepth |-> 2, maxInputSize |-> 36, maxValues |-> 4, maxObjectMembers |-> 0,
   maxArrayElements |-> 1, maxStringBytes |-> 4, maxNumberChars |-> 6]

MCDefaults ==
  [maxDepth |-> 9, maxInputSize |-> 99, maxValues |-> 9, maxObjectMembers |-> 2,
   maxArrayElements |-> 9, maxStringBytes |-> 9, maxNumberChars |-> 9]

================================================================================
