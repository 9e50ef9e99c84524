------------------------------ MODULE CanonicalForm ------------------------------
(***************************************************************************)
(* What the serializer promises of a value tree: the canonical form of     *)
(* RFC 8785 when the tree is I-JSON data within the limits, and otherwise  *)
(* no output and the class of something that is wrong with it.             *)
(***************************************************************************)
EXTENDS Integers, Sequences, FiniteSets, SequencesExt

CONSTANTS Depth, Values, Members, Elements, StringBytes   \* the limits in force

VARIABLES tree, verdict, text

formVars == <<tree, verdict, text>>

--------------------------------------------------------------------------------
(* Order: RFC 8785, Section 3.2.3, by code point.  In UTF-16 the code      *)
(* points above U+FFFF start with a surrogate, below U+E000.               *)

Rank(c) ==
  CASE c < 55296 -> c
    [] c >= 65536 -> 55296 + (c - 65536)
    [] OTHER -> 1114112 + c

Precedes(a, b) ==
  \E i \in 1 .. Len(b) :
    /\ i <= Len(a) + 1
    /\ \A j \in 1 .. i - 1 : a[j] = b[j]
    /\ i <= Len(a) => Rank(a[i]) < Rank(b[i])

--------------------------------------------------------------------------------

Tok(sort) == [sort |-> sort, text |-> <<>>]
Str(s) == [sort |-> "string", text |-> s]

Bracketed(open, parts, close) ==
  <<Tok(open)>>
    \o FlattenSeq([i \in DOMAIN parts |-> IF i = 1 THEN parts[i] ELSE <<Tok("comma")>> \o parts[i]])
    \o <<Tok(close)>>

RECURSIVE Canon(_)

Canon(n) ==
  LET node == tree[n] IN
  CASE node.kind = "string" -> <<Str(node.str)>>
    [] node.kind \in {"null", "bool", "number"} -> <<Tok(node.lit)>>
    [] node.kind = "array" ->
         Bracketed("lbrack", [i \in DOMAIN node.kids |-> Canon(node.kids[i])], "rbrack")
    [] node.kind = "object" ->
         LET order == SetToSortSeq(DOMAIN node.keys,
                                   LAMBDA i, j : Precedes(node.keys[i], node.keys[j]))
             Member(i) == <<Str(node.keys[i]), Tok("colon")>> \o Canon(node.kids[i])
         IN Bracketed("lbrace", [i \in DOMAIN order |-> Member(order[i])], "rbrace")

--------------------------------------------------------------------------------
(* Everything that is wrong with a tree. *)

Utf8Length(s) ==
  Len(s) + Cardinality({i \in DOMAIN s : s[i] >= 128})
         + Cardinality({i \in DOMAIN s : s[i] >= 2048})
         + Cardinality({i \in DOMAIN s : s[i] >= 65536})

Noncharacters ==
  (64976 .. 65007) \cup {65536 * plane + last : plane \in 0 .. 16, last \in {65534, 65535}}

StringFaults(s) ==
  {class \in {"INVALID_UTF8", "BOUND_EXCEEDED", "NONCHARACTER"} :
     CASE class = "INVALID_UTF8" -> -1 \in ToSet(s)
       [] class = "BOUND_EXCEEDED" -> Utf8Length(s) > StringBytes
       [] class = "NONCHARACTER" -> ToSet(s) \cap Noncharacters # {}}

NodeFaults(node) ==
  CASE node.kind = "string" -> StringFaults(node.str)
    [] node.kind = "unknown" -> {"INTERNAL_ERROR"}
    [] node.kind = "bool" -> IF node.lit \in {"true", "false"} THEN {} ELSE {"INVALID_GRAMMAR"}
    [] node.kind = "number" -> IF node.lit = "inf" THEN {"INVALID_GRAMMAR"} ELSE {}
    [] node.kind = "array" -> IF Len(node.kids) > Elements THEN {"BOUND_EXCEEDED"} ELSE {}
    [] node.kind = "object" ->
         (IF Len(node.kids) > Members THEN {"BOUND_EXCEEDED"} ELSE {})
           \cup UNION {StringFaults(key) : key \in ToSet(node.keys)}
           \cup (IF IsInjective(node.keys) THEN {} ELSE {"DUPLICATE_KEY"})
    [] node.kind = "null" -> {}

RECURSIVE Height(_)
Height(n) ==
  IF tree[n].kids = <<>> THEN 0
  ELSE 1 + Max({Height(kid) : kid \in ToSet(tree[n].kids)})

Faults ==
  IF tree = <<>> THEN {"INTERNAL_ERROR"}
  ELSE UNION {NodeFaults(tree[n]) : n \in DOMAIN tree}
         \cup (IF Len(tree) > Values \/ Height(Len(tree)) > Depth
                 THEN {"BOUND_EXCEEDED"} ELSE {})

--------------------------------------------------------------------------------

Init == verdict = "pending" /\ text = <<>>

Accept ==
  /\ verdict = "pending"
  /\ Faults = {}
  /\ verdict' = "ok"
  /\ text' = Canon(Len(tree))
  /\ UNCHANGED tree

Refuse ==
  /\ verdict = "pending"
  /\ verdict' \in Faults
  /\ UNCHANGED <<tree, text>>

Spec == Init /\ [][Accept \/ Refuse]_formVars /\ WF_formVars(Accept \/ Refuse)

================================================================================
