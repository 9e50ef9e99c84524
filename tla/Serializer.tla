------------------------------- MODULE Serializer -------------------------------
(***************************************************************************)
(* serializeInto of package jcs: the walk that validates a value tree,     *)
(* counting values and bounding depth, width and strings, then the walk    *)
(* that emits it with the members of every object sorted.                  *)
(*                                                                         *)
(* A tree is the sequence of its nodes, children before their parents and  *)
(* the root last; the empty sequence stands for the nil value.  A caller   *)
(* may have built any tree, so every field can hold what no parser makes.  *)
(* The recursion of both walks is the explicit stack of open containers.   *)
(***************************************************************************)
EXTENDS KeyOrder, Unicode, FiniteSets, JcsErrors

CONSTANTS
  Trees,     \* the trees considered
  Options,   \* the caller's limits; zero or less asks for the default
  Defaults   \* the built-in limits

LimitName ==
  {"maxDepth", "maxValues", "maxObjectMembers", "maxArrayElements", "maxStringBytes"}

ASSUME LimitAssumption ==
  /\ Options \in [LimitName -> Int]
  /\ Defaults \in [LimitName -> Nat \ {0}]

resolveSerializeLimit(name) == IF Options[name] > 0 THEN Options[name] ELSE Defaults[name]

maxChildren(kind) ==
  resolveSerializeLimit(IF kind = "object" THEN "maxObjectMembers" ELSE "maxArrayElements")

\* lit is the text of a boolean or number ("inf" where it is not finite), str
\* that of a string; in a string, -1 is a byte that is not valid UTF-8.
Kind == {"null", "bool", "number", "string", "array", "object", "unknown"}
MaxRune == 1114111
Character == -1 .. MaxRune
Surrogate(c) == 55296 <= c /\ c <= 57343
IsText(s) == s \in Seq(Character) /\ \A i \in DOMAIN s : ~Surrogate(s[i])

ValueRecord ==
  [kind : Kind, lit : STRING, str : Seq(Character), keys : Seq(Seq(Character)), kids : Seq(Nat)]

ASSUME TreeAssumption ==
  /\ Trees \subseteq Seq(ValueRecord)
  /\ \A tree \in Trees : \A n \in DOMAIN tree :
       /\ IsText(tree[n].str)
       /\ \A i \in DOMAIN tree[n].kids : tree[n].kids[i] \in 1 .. n - 1
       /\ tree[n].kind = "object" =>
            /\ \A i \in DOMAIN tree[n].keys : IsText(tree[n].keys[i])
            /\ Len(tree[n].keys) = Len(tree[n].kids)

VARIABLES
  tree,
  pc,      \* validating, emitting or done
  at,      \* the node a call was just made on, or 0
  walk,    \* the containers open on the Go call stack, innermost last
  values,  \* state.values
  out,     \* buf, as a sequence of tokens
  result   \* the class returned, or ok

vars == <<tree, pc, at, walk, values, out, result>>

Root == Len(tree)
Container == {"array", "object"}

--------------------------------------------------------------------------------
(* validateString *)

validateString(text) ==
  IF \E i \in DOMAIN text : text[i] = -1 THEN "INVALID_UTF8"
  ELSE IF Bytes(text) > resolveSerializeLimit("maxStringBytes") THEN "BOUND_EXCEEDED"
  ELSE IF \E i \in DOMAIN text : IsNoncharacter(text[i]) THEN "NONCHARACTER"
  ELSE "ok"

\* validateValueTree on anything but a container.
validateLeaf(node) ==
  CASE node.kind = "null" -> "ok"
    [] node.kind = "bool" ->
         IF node.lit \in {"true", "false"} THEN "ok" ELSE "INVALID_GRAMMAR"
    [] node.kind = "number" -> IF node.lit = "inf" THEN "INVALID_GRAMMAR" ELSE "ok"
    [] node.kind = "string" -> validateString(node.str)
    [] node.kind = "unknown" -> "INTERNAL_ERROR"

--------------------------------------------------------------------------------

Init ==
  /\ tree \in Trees
  /\ pc = "validate"
  /\ at = Root
  /\ walk = <<>>
  /\ values = 0
  /\ out = <<>>
  /\ result = "pending"

\* An error unwinds both recursions, and no buffer is returned.
Fail(class) ==
  /\ pc' = "done"
  /\ result' = class
  /\ at' = 0
  /\ walk' = <<>>
  /\ out' = <<>>
  /\ UNCHANGED tree

NilValue ==
  /\ pc = "validate" /\ tree = <<>>
  /\ Fail("INTERNAL_ERROR")
  /\ UNCHANGED values

Top == walk[Len(walk)]
Step == [walk EXCEPT ![Len(walk)].called = @ + 1]

\* A container being walked: the children in the order of the walk, how many
\* have been called on, and the keys of the seen map.
Open(n, order) == Append(walk, [node |-> n, order |-> order, called |-> 0, seen |-> {}])

--------------------------------------------------------------------------------
(* validateValueTree *)

\* The entry of the call: the value is counted first.
Called ==
  /\ pc = "validate"
  /\ at # 0
  /\ values' = values + 1

TooMany == values + 1 > resolveSerializeLimit("maxValues")

TooDeep_OffByOne == Len(walk) >= resolveSerializeLimit("maxDepth")

\* The root is at depth zero.
TooDeep == Len(walk) > resolveSerializeLimit("maxDepth")

RejectBound ==
  /\ Called
  /\ TooMany \/ TooDeep
  /\ Fail("BOUND_EXCEEDED")

WithinBounds == Called /\ ~TooMany /\ ~TooDeep

ValidateLeaf ==
  /\ WithinBounds
  /\ tree[at].kind \notin Container
  /\ LET class == validateLeaf(tree[at]) IN
       IF class = "ok" THEN at' = 0 /\ UNCHANGED <<tree, pc, walk, out, result>>
                       ELSE Fail(class)

RejectChildren ==
  /\ WithinBounds
  /\ tree[at].kind \in Container
  /\ Len(tree[at].kids) > maxChildren(tree[at].kind)
  /\ Fail("BOUND_EXCEEDED")

ValidateContainer ==
  /\ WithinBounds
  /\ tree[at].kind \in Container
  /\ Len(tree[at].kids) <= maxChildren(tree[at].kind)
  /\ walk' = Open(at, [i \in 1 .. Len(tree[at].kids) |-> i])
  /\ at' = 0
  /\ UNCHANGED <<tree, pc, out, result>>

\* The loop over the children of the innermost container.
Looping == pc = "validate" /\ at = 0 /\ walk # <<>> /\ UNCHANGED values

nextKey == tree[Top.node].keys[Top.called + 1]
MoreChildren == Top.called < Len(Top.order)
ObjectNext == Looping /\ MoreChildren /\ tree[Top.node].kind = "object"

RejectKey ==
  /\ ObjectNext
  /\ validateString(nextKey) # "ok"
  /\ Fail(validateString(nextKey))

RejectDuplicate ==
  /\ ObjectNext
  /\ validateString(nextKey) = "ok"
  /\ nextKey \in Top.seen
  /\ Fail("DUPLICATE_KEY")

ValidateMember ==
  /\ ObjectNext
  /\ validateString(nextKey) = "ok"
  /\ nextKey \notin Top.seen
  /\ walk' = [Step EXCEPT ![Len(walk)].seen = @ \cup {nextKey}]
  /\ at' = tree[Top.node].kids[Top.called + 1]
  /\ UNCHANGED <<tree, pc, out, result>>

ValidateElement ==
  /\ Looping
  /\ MoreChildren
  /\ tree[Top.node].kind = "array"
  /\ walk' = Step
  /\ at' = tree[Top.node].kids[Top.called + 1]
  /\ UNCHANGED <<tree, pc, out, result>>

ValidateReturn ==
  /\ Looping
  /\ ~MoreChildren
  /\ walk' = Front(walk)
  /\ UNCHANGED <<tree, pc, at, out, result>>

\* The whole tree is valid: emission starts at the root.
BeginEmit ==
  /\ pc = "validate" /\ tree # <<>> /\ at = 0 /\ walk = <<>>
  /\ pc' = "emit"
  /\ at' = Root
  /\ UNCHANGED <<tree, walk, values, out, result>>

--------------------------------------------------------------------------------
(* serializeValue *)

Tok(sort) == [sort |-> sort, text |-> <<>>]
Str(text) == [sort |-> "string", text |-> text]

Spelled(node) ==
  CASE node.kind = "null" -> Tok("null")
    [] node.kind \in {"bool", "number"} -> Tok(node.lit)
    [] node.kind = "string" -> Str(node.str)

SortedOrders_MapOrder(node) ==
  IF node.kind = "array" THEN {[i \in 1 .. Len(node.kids) |-> i]}
  ELSE SetToSeqs(1 .. Len(node.keys))

\* What sort.Slice, which is not stable, may leave: any order of the members
\* that the comparison does not contradict.
SortedOrders(node) ==
  IF node.kind = "array" THEN {[i \in 1 .. Len(node.kids) |-> i]}
  ELSE {order \in SetToSeqs(1 .. Len(node.keys)) :
          \A i, j \in 1 .. Len(order) :
            i < j => compareSortKeys(node.keys[order[j]], node.keys[order[i]]) >= 0}

EmitLeaf ==
  /\ pc = "emit" /\ at # 0
  /\ tree[at].kind \notin Container
  /\ out' = Append(out, Spelled(tree[at]))
  /\ at' = 0
  /\ UNCHANGED <<tree, pc, walk, values, result>>

EmitOpen ==
  /\ pc = "emit" /\ at # 0
  /\ tree[at].kind \in Container
  /\ \E order \in SortedOrders(tree[at]) : walk' = Open(at, order)
  /\ out' = Append(out, Tok(IF tree[at].kind = "object" THEN "lbrace" ELSE "lbrack"))
  /\ at' = 0
  /\ UNCHANGED <<tree, pc, values, result>>

Emitting == pc = "emit" /\ at = 0 /\ walk # <<>> /\ UNCHANGED <<tree, pc, values, result>>

Separator_Always == <<Tok("comma")>>

Separator == IF Top.called = 0 THEN <<>> ELSE <<Tok("comma")>>

Prefixed(node, child) ==
  IF node.kind = "array" THEN Separator
  ELSE Separator \o <<Str(node.keys[child]), Tok("colon")>>

EmitChild_ValuesUnsorted ==
  /\ Emitting
  /\ MoreChildren
  /\ out' = out \o Prefixed(tree[Top.node], Top.order[Top.called + 1])
  /\ at' = tree[Top.node].kids[Top.called + 1]
  /\ walk' = Step

EmitChild ==
  /\ Emitting
  /\ MoreChildren
  /\ LET child == Top.order[Top.called + 1] IN
       /\ out' = out \o Prefixed(tree[Top.node], child)
       /\ at' = tree[Top.node].kids[child]
  /\ walk' = Step

EmitClose ==
  /\ Emitting
  /\ ~MoreChildren
  /\ out' = Append(out, Tok(IF tree[Top.node].kind = "object" THEN "rbrace" ELSE "rbrack"))
  /\ walk' = Front(walk)
  /\ UNCHANGED at

Return ==
  /\ pc = "emit" /\ at = 0 /\ walk = <<>>
  /\ pc' = "done"
  /\ result' = "ok"
  /\ UNCHANGED <<tree, at, walk, values, out>>

Stop == pc = "done" /\ UNCHANGED vars

Next ==
  \/ NilValue \/ RejectBound \/ ValidateLeaf \/ RejectChildren \/ ValidateContainer
  \/ RejectKey \/ RejectDuplicate \/ ValidateMember \/ ValidateElement \/ ValidateReturn
  \/ BeginEmit \/ EmitLeaf \/ EmitOpen \/ EmitChild \/ EmitClose \/ Return
  \/ Stop

Spec == Init /\ [][Next]_vars

\* The serializer is a terminating sequential function: it takes its next step.
FairSpec == Spec /\ WF_vars(Next)

--------------------------------------------------------------------------------
(* Properties *)

\* The comparison is the order of RFC 8785 in both of its branches: on any two
\* keys of the tree that are valid UTF-8, as all keys are when they are sorted,
\* it is antisymmetric, and on any three transitive, whichever of them are ASCII.
OrderIsTotal ==
  \A n \in DOMAIN tree : tree[n].kind = "object" =>
    \A a, b, c \in {key \in ToSet(tree[n].keys) : -1 \notin ToSet(key)} :
      LET Cmp(x, y) == compareSortKeys(x, y) IN
      /\ Cmp(a, b) = -Cmp(b, a)
      /\ Cmp(a, b) = 0 => a = b
      /\ Cmp(a, b) < 0 /\ Cmp(b, c) < 0 => Cmp(a, c) < 0

================================================================================
