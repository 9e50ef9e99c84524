------------------------------ MODULE JsonDomain ------------------------------
(***************************************************************************)
(* What the parser promises, stated on the text alone: an input is         *)
(* accepted exactly when it is one JSON text of RFC 8259 (Section 2) with  *)
(* no faulty token, no object with two equal decoded keys (RFC 7493,       *)
(* Section 2.3), and every structural measure within its limit.  The       *)
(* abstract system judges the whole input in one step.                     *)
(***************************************************************************)
EXTENDS Integers, Sequences, FiniteSets, Functions

CONSTANTS Scalars, Strings, Decode, Width,
          InputSize, Depth, Values, Members, Elements   \* the limits in force

VARIABLES input, verdict

domainVars == <<input, verdict>>

--------------------------------------------------------------------------------

\* No two lexemes merge, so whitespace may be dropped anywhere between them.
Tokens(text) == SelectSeq(text, LAMBDA lexeme : lexeme # "ws")

Before(s, k) == SubSeq(s, 1, k - 1)
After(s, k) == SubSeq(s, k + 1, Len(s))
Enclosed(s, open, close) == Len(s) >= 2 /\ s[1] = open /\ s[Len(s)] = close
Inside(s) == SubSeq(s, 2, Len(s) - 1)

RECURSIVE IsValue(_), IsElements(_), IsMembers(_)

IsMember(s) ==
  Len(s) >= 3 /\ s[1] \in Strings /\ s[2] = "colon" /\ IsValue(After(s, 2))

IsElements(s) ==
  \/ IsValue(s)
  \/ \E k \in 1 .. Len(s) :
       s[k] = "comma" /\ IsValue(Before(s, k)) /\ IsElements(After(s, k))

IsMembers(s) ==
  \/ IsMember(s)
  \/ \E k \in 1 .. Len(s) :
       s[k] = "comma" /\ IsMember(Before(s, k)) /\ IsMembers(After(s, k))

IsValue(s) ==
  \/ Len(s) = 1 /\ s[1] \in Scalars \cup Strings
  \/ Enclosed(s, "lbrack", "rbrack") /\ (Inside(s) = <<>> \/ IsElements(Inside(s)))
  \/ Enclosed(s, "lbrace", "rbrace") /\ (Inside(s) = <<>> \/ IsMembers(Inside(s)))

--------------------------------------------------------------------------------
(* Measures of a token sequence that is a JSON text. *)

Where(s, lexemes) == {i \in 1 .. Len(s) : s[i] \in lexemes}

\* How many containers are open just after token i.
Level(s, i) ==
  Cardinality({k \in Where(s, {"lbrace", "lbrack"}) : k <= i})
    - Cardinality({k \in Where(s, {"rbrace", "rbrack"}) : k <= i})

KeyTokens(s) == {i \in Where(s, Strings) : i < Len(s) /\ s[i + 1] = "colon"}

ValueTokens(s) ==
  Where(s, Scalars \cup Strings \cup {"lbrace", "lbrack"}) \ KeyTokens(s)

\* The tokens directly inside the container opened at i.
Content(s, i) ==
  {k \in i + 1 .. Len(s) :
     Level(s, k) = Level(s, i) /\ \A m \in i .. k : Level(s, m) >= Level(s, i)}

Children(s, i) ==
  IF s[i + 1] \in {"rbrace", "rbrack"} THEN 0
  ELSE 1 + Cardinality(Content(s, i) \cap Where(s, {"comma"}))

WithinLimits(s) ==
  /\ \A i \in 1 .. Len(s) : Level(s, i) <= Depth
  /\ Cardinality(ValueTokens(s)) <= Values
  /\ \A i \in Where(s, {"lbrack"}) : Children(s, i) <= Elements
  /\ \A i \in Where(s, {"lbrace"}) : Children(s, i) <= Members

KeysDistinct(s) ==
  \A i \in Where(s, {"lbrace"}) :
    \A j, k \in Content(s, i) \cap KeyTokens(s) : Decode[s[j]] = Decode[s[k]] => j = k

InDomain(text) ==
  /\ SumFunction([i \in DOMAIN text |-> Width[text[i]]]) <= InputSize
  /\ IsValue(Tokens(text))
  /\ WithinLimits(Tokens(text))
  /\ KeysDistinct(Tokens(text))

Init == verdict = "pending"

Judge ==
  /\ verdict = "pending"
  /\ verdict' = IF InDomain(input) THEN "accept" ELSE "reject"
  /\ UNCHANGED input

Spec == Init /\ [][Judge]_domainVars /\ WF_domainVars(Judge)

================================================================================
