-------------------------- MODULE CanonicalizeProofs --------------------------
(***************************************************************************)
(* The parser, and the pipeline it is the first half of, for every input   *)
(* set and all limits.                                                     *)
(*                                                                         *)
(* First the safety of JsonParser.  The inductive invariant adds to the    *)
(* checked invariants what they rest on: the keys of an open object are    *)
(* distinct and all in its seen map, and every object whose member value   *)
(* is being parsed remembers a key that is new to it.                      *)
(*                                                                         *)
(* Next that the tree is that of the text.  The invariant gives every node *)
(* a first and a last place in the input and every open container that of  *)
(* its bracket, and each step extends the places it was given.             *)
(* With it, every error is where the text read so far goes wrong.          *)
(*                                                                         *)
(* Then Canonicalize: whatever is parsed can be serialized.  The parser    *)
(* completes its nodes in postorder, so the values that the serializer has *)
(* counted are the nodes before a place and the containers open there, and *)
(* its depth is the one the parser had at that node.                       *)
(*                                                                         *)
(* Last the two calls together: the output is accepted when it is read     *)
(* again, it has the meaning of the tree it was written of, and it is      *)
(* written again as it was.  W gives the place of each node in the text;   *)
(* the parser that reads it completes a node made of each, in the order    *)
(* in which they were written, and the sort leaves them in that order.     *)
(***************************************************************************)
EXTENDS Canonicalize, SequenceTheorems, FiniteSetTheorems, WellFoundedInduction, TLAPS

DistinctKeys(r) ==
  \A i, j \in 1 .. Len(r.keys) : r.keys[i] = r.keys[j] => i = j

Paired(r) == r.kind = "object" => Len(r.keys) = Len(r.kids)

LeafText(r) ==
  /\ r.kind = "scalar" => r.text \in Scalars
  /\ r.kind = "string" => r.text \in Keys

NodeInv(r) ==
  /\ DistinctKeys(r)
  /\ Paired(r)
  /\ LeafText(r)
  /\ r.kind \in Container => Len(r.kids) <= maxChildren(r.kind)

\* A key that was read and is in the seen map, but is none of the members yet.
KeyPending(f) ==
  /\ f.key \in f.seen
  /\ \A i \in 1 .. Len(f.keys) : f.keys[i] # f.key

FrameInv(f) ==
  /\ NodeInv(f)
  /\ \A i \in 1 .. Len(f.keys) : f.keys[i] \in f.seen

NodesInv == \A n \in 1 .. Len(nodes) : NodeInv(nodes[n])

\* The object an open container is a member of waits for that member's value.
StackInv ==
  \A i \in 1 .. Len(stack) :
    /\ FrameInv(stack[i])
    /\ (i < Len(stack) \/ pc \in {"value", "return"}) /\ stack[i].kind = "object"
         => KeyPending(stack[i])

ControlInv ==
  /\ outcome = Pending <=> pc # "done"
  /\ pc = "start" => stack = <<>>
  /\ pc = "key" => stack # <<>> /\ Top.kind = "object"

IInv ==
  TypeOK /\ ControlInv /\ DepthBalanced /\ ValueCountExact /\ NodesInv /\ StackInv

--------------------------------------------------------------------------------
(* The operators. *)

LEMMA LimitsPositive ==
  /\ maxDepth \in Nat \ {0} /\ maxValues \in Nat \ {0}
  /\ \A kind \in Container : maxChildren(kind) \in Nat \ {0}
BY LimitAssumption DEF LimitName, resolveOption, maxDepth, maxValues, maxChildren

LEMMA WhitespaceOffset ==
  ASSUME TypeOK, NEW p \in Nat, NEW q \in skipWhitespace(p)
  PROVE  q \in Nat /\ p <= q
BY DEF TypeOK, skipWhitespace

LEMMA PeekType ==
  ASSUME TypeOK, NEW p \in Nat
  PROVE  peek(p) \in Lexeme \cup {"eof"}
BY DEF TypeOK, peek

LEMMA ReplaceTopIs ==
  ASSUME TypeOK, stack # <<>>, NEW f \in Frame
  PROVE  /\ ReplaceTop(f) \in Seq(Frame)
         /\ Len(ReplaceTop(f)) = Len(stack)
         /\ ReplaceTop(f)[Len(stack)] = f
         /\ \A i \in 1 .. Len(stack) - 1 : ReplaceTop(f)[i] = stack[i]
BY DEF TypeOK, ReplaceTop

LEMMA PopIs ==
  ASSUME TypeOK, stack # <<>>
  PROVE  /\ Pop \in Seq(Frame)
         /\ Len(Pop) = Len(stack) - 1
         /\ \A i \in 1 .. Len(stack) - 1 : Pop[i] = stack[i]
BY DEF TypeOK, Pop

LEMMA TopType ==
  ASSUME TypeOK, stack # <<>>
  PROVE  Top \in Frame /\ Len(stack) \in 1 .. Len(stack)
BY DEF TypeOK, Top

LEMMA NewFrameInv ==
  ASSUME NEW kind \in Container
  PROVE  /\ NewFrame(kind) \in Frame
         /\ FrameInv(NewFrame(kind))
         /\ Closed(NewFrame(kind)) \in Node
         /\ NodeInv(Closed(NewFrame(kind)))
<1>1. NewFrame(kind) \in Frame /\ Closed(NewFrame(kind)) \in Node
  BY DEF NewFrame, Closed, Frame, Node, Container
<1>2. /\ NewFrame(kind).kind \in Container /\ Closed(NewFrame(kind)).kind \in Container
      /\ \A r : r.kind \in Container => LeafText(r)
  BY DEF NewFrame, Closed, Container, LeafText
<1>3. LeafText(NewFrame(kind)) /\ LeafText(Closed(NewFrame(kind)))
  BY <1>2
<1>4. ASSUME NEW r, r.keys = <<>>, r.kids = <<>>, r.kind \in Container, LeafText(r)
      PROVE  NodeInv(r)
  BY <1>4, LimitsPositive DEF NodeInv, DistinctKeys, Paired
<1>5. /\ NewFrame(kind).keys = <<>> /\ NewFrame(kind).kids = <<>>
      /\ Closed(NewFrame(kind)).keys = <<>> /\ Closed(NewFrame(kind)).kids = <<>>
  BY DEF NewFrame, Closed
<1>6. NodeInv(NewFrame(kind)) /\ NodeInv(Closed(NewFrame(kind)))
  BY <1>2, <1>3, <1>4, <1>5
<1> QED
  BY <1>1, <1>5, <1>6 DEF FrameInv

LEMMA LeafInv ==
  ASSUME NEW x \in Scalars \cup Strings
  PROVE  Leaf(x) \in Node /\ NodeInv(Leaf(x))
<1> DEFINE node == Leaf(x)
<1>1. /\ node.keys = <<>> /\ node.kids = <<>>
      /\ node.kind \in {"scalar", "string"}
      /\ node.text \in Scalars \cup Keys /\ LeafText(node)
      /\ node = [kind |-> node.kind, text |-> node.text,
                 keys |-> node.keys, kids |-> node.kids]
  BY DecodeAssumption DEF Leaf, LeafText
<1>2. node \in Node
  BY <1>1, EmptySeq DEF Node
<1>3. NodeInv(node)
  BY <1>1, EmptySeq DEF Container, NodeInv, DistinctKeys, Paired
<1>4. QED
  BY <1>2, <1>3

\* The value returned joins its parent: the member's key is new to it.
LEMMA AdoptInv ==
  ASSUME NEW f \in Frame, FrameInv(f), Len(nodes) \in Nat,
         f.kind = "object" => KeyPending(f),
         Len(f.kids) < maxChildren(f.kind)
  PROVE  /\ Adopt(f) \in Frame
         /\ FrameInv(Adopt(f))
         /\ Adopt(f).kind = f.kind
         /\ Closed(Adopt(f)) \in Node
         /\ NodeInv(Closed(Adopt(f)))
<1>1. /\ Adopt(f).kind = f.kind /\ Adopt(f).seen = f.seen /\ Adopt(f).key = NoKey
      /\ Adopt(f).keys = IF f.kind = "object" THEN Append(f.keys, f.key) ELSE f.keys
      /\ Adopt(f).kids = Append(f.kids, Len(nodes))
  BY DEF Adopt
<1>2. f.kind = "object" => f.key \in Keys
  BY DEF KeyPending, Frame
<1> DEFINE keys == Adopt(f).keys
           kids == Adopt(f).kids
<1>3. /\ kids \in Seq(Nat) /\ Len(kids) = Len(f.kids) + 1
      /\ keys \in Seq(Keys)
      /\ f.kind = "object" => Len(keys) = Len(f.keys) + 1
  BY <1>1, <1>2 DEF Frame
<1>4. /\ \A i, j \in 1 .. Len(keys) : keys[i] = keys[j] => i = j
      /\ \A i \in 1 .. Len(keys) : keys[i] \in f.seen
  <2>1. CASE f.kind # "object"
    BY <1>1, <2>1 DEF FrameInv, NodeInv, DistinctKeys
  <2>2. CASE f.kind = "object"
    BY <1>1, <1>2, <2>2 DEF Frame, FrameInv, NodeInv, DistinctKeys, KeyPending
  <2>3. QED
    BY <2>1, <2>2
<1>5. Adopt(f) \in Frame /\ Closed(Adopt(f)) \in Node
  BY <1>1, <1>3 DEF Adopt, Closed, Frame, Node
<1>6. Len(kids) <= maxChildren(f.kind)
  BY <1>3, LimitsPositive DEF Frame
<1>7. f.kind = "object" => Len(keys) = Len(kids)
  BY <1>3 DEF Frame, FrameInv, NodeInv, Paired
<1>8. LeafText(Adopt(f)) /\ LeafText(Closed(Adopt(f)))
  BY <1>1 DEF Closed, Frame, Container, LeafText
<1>9. FrameInv(Adopt(f))
  BY <1>1, <1>4, <1>6, <1>7, <1>8 DEF FrameInv, NodeInv, DistinctKeys, Paired
<1>10. QED
  BY <1>1, <1>5, <1>8, <1>9 DEF Closed, FrameInv, NodeInv, DistinctKeys, Paired

--------------------------------------------------------------------------------
(* What the common shapes of a step preserve. *)

LEMMA UnwindInv ==
  ASSUME IInv, NEW class \in InputClass, NEW offset \in Nat, NEW reached \in Nat,
         Unwind(class, offset, reached), input' = input, valueCount' \in Nat
  PROVE  IInv'
<1>1. outcome' # Pending /\ outcome' # Accepted
  BY DEF Unwind, Pending, Accepted, InputClass
<1>2. TypeOK'
  BY EmptySeq DEF IInv, TypeOK, Unwind, Outcome
<1>3. ControlInv' /\ DepthBalanced' /\ NodesInv'
  BY <1>1 DEF IInv, ControlInv, DepthBalanced, NodesInv, Unwind
<1>4. ValueCountExact' /\ StackInv'
  BY <1>1, EmptySeq, LimitsPositive DEF IInv, TypeOK, ValueCountExact, StackInv, Unwind
<1>5. QED
  BY <1>2, <1>3, <1>4 DEF IInv

LEMMA CompleteInv ==
  ASSUME IInv, pc # "done", NEW node \in Node, NodeInv(node), NEW p \in Nat,
         Complete(node, p), input' = input, stack' \in Seq(Frame),
         depth' = Len(stack'), depth' <= maxDepth,
         valueCount' = Len(nodes) + 1 + Len(stack'), valueCount' <= maxValues,
         \A i \in 1 .. Len(stack') :
           FrameInv(stack'[i]) /\ (stack'[i].kind = "object" => KeyPending(stack'[i]))
  PROVE  IInv'
<1>1. nodes' \in Seq(Node) /\ Len(nodes') = Len(nodes) + 1 /\ Len(nodes) \in Nat
  BY DEF IInv, TypeOK, Complete
<1>2. TypeOK'
  BY <1>1 DEF IInv, TypeOK, Complete
<1>3. ControlInv' /\ DepthBalanced' /\ ValueCountExact'
  BY <1>1 DEF IInv, ControlInv, DepthBalanced, ValueCountExact, Complete, Pending, Accepted
<1>4. NodesInv'
  <2>1. \A n \in 1 .. Len(nodes) : nodes'[n] = nodes[n]
    BY <1>1 DEF IInv, TypeOK, Complete
  <2>2. nodes'[Len(nodes) + 1] = node
    BY <1>1 DEF IInv, TypeOK, Complete
  <2>3. QED
    BY <1>1, <2>1, <2>2 DEF IInv, NodesInv
<1>5. StackInv'
  BY DEF StackInv
<1>6. QED
  BY <1>2, <1>3, <1>4, <1>5 DEF IInv

\* A step that completes no value and stays inside the text.
LEMMA ContinueInv ==
  ASSUME IInv, pc # "done", input' = input, UNCHANGED <<nodes, outcome>>,
         pos' \in Nat, pc' \in {"value", "key"}, stack' \in Seq(Frame),
         depth' = Len(stack'), depth' <= maxDepth,
         valueCount' = Len(nodes) + Len(stack'), valueCount' <= maxValues,
         pc' = "key" => stack' # <<>> /\ Top'.kind = "object",
         StackInv'
  PROVE  IInv'
<1>1. TypeOK'
  BY DEF IInv, TypeOK
<1>2. ControlInv' /\ DepthBalanced' /\ ValueCountExact' /\ NodesInv'
  BY <1>1 DEF IInv, TypeOK, ControlInv, DepthBalanced, ValueCountExact, NodesInv, Pending, Accepted
<1>3. QED
  BY <1>1, <1>2 DEF IInv

--------------------------------------------------------------------------------
(* One lemma per action. *)

LEMMA RejectInputInv ==
  ASSUME IInv, RejectOversize \/ RejectInvalidUTF8
  PROVE  IInv'
<1>1. CASE RejectOversize
  BY <1>1, UnwindInv DEF RejectOversize, IInv, TypeOK, InputClass
<1>2. CASE RejectInvalidUTF8
  <2>1. PICK bad \in 0 .. Len(input) - 1 : Unwind("INVALID_UTF8", bad, pos)
    BY <1>2 DEF RejectInvalidUTF8
  <2>2. bad \in Nat
    BY DEF IInv, TypeOK
  <2>3. QED
    BY <1>2, <2>1, <2>2, UnwindInv DEF RejectInvalidUTF8, IInv, TypeOK, InputClass
<1>3. QED
  BY <1>1, <1>2

LEMMA BeginInv ==
  ASSUME IInv, Begin
  PROVE  IInv'
<1>1. pos' \in Nat
  BY WhitespaceOffset DEF IInv, TypeOK, Begin
<1>2. stack' = stack /\ pc' = "value" /\ pc = "start"
  BY DEF Begin
<1>3. stack = <<>>
  BY <1>2 DEF IInv, ControlInv
<1>4. StackInv'
  BY <1>2, <1>3, EmptySeq DEF StackInv
<1>5. /\ depth = Len(stack) /\ depth <= maxDepth /\ stack \in Seq(Frame)
      /\ valueCount = Len(nodes) + Len(stack) /\ valueCount <= maxValues
  BY <1>2 DEF IInv, TypeOK, DepthBalanced, ValueCountExact
<1>6. QED
  BY <1>1, <1>2, <1>4, <1>5, ContinueInv DEF Begin

LEMMA RejectValueInv ==
  ASSUME IInv, RejectValueCount \/ RejectLeaf \/ RejectNonValue
  PROVE  IInv'
<1>1. pos \in Nat /\ valueCount' \in Nat /\ input' = input
  BY DEF IInv, TypeOK, RejectValueCount, RejectLeaf, RejectNonValue, ValueAt, CountValue
<1>2. PICK class \in InputClass : Unwind(class, pos, pos)
  <2>1. CASE RejectLeaf
    BY <2>1, DecodeAssumption DEF RejectLeaf, ValueAt, newError
  <2>2. CASE RejectValueCount \/ RejectNonValue
    BY <2>2 DEF RejectValueCount, RejectNonValue, newError, InputClass
  <2>3. QED
    BY <2>1, <2>2
<1>3. QED
  BY <1>1, <1>2, UnwindInv

LEMMA ParseLeafInv ==
  ASSUME IInv, ParseLeaf
  PROVE  IInv'
<1> DEFINE node == Leaf(peek(pos))
<1>1. pc = "value" /\ pos \in Nat /\ pos + 1 \in Nat
  BY DEF IInv, TypeOK, ParseLeaf, ValueAt, CountValue
<1>2. node \in Node /\ NodeInv(node)
  BY LeafInv DEF ParseLeaf, ValueAt
<1>3. Complete(node, pos + 1) /\ input' = input /\ stack' = stack /\ depth' = depth
  BY DEF ParseLeaf, ValueAt, CountValue
<1>4. /\ depth = Len(stack) /\ depth <= maxDepth /\ stack \in Seq(Frame)
      /\ valueCount' = Len(nodes) + 1 + Len(stack) /\ valueCount' <= maxValues
  BY <1>1 DEF IInv, TypeOK, DepthBalanced, ValueCountExact, ParseLeaf, ValueAt, CountValue
<1>5. \A i \in 1 .. Len(stack) :
        FrameInv(stack[i]) /\ (stack[i].kind = "object" => KeyPending(stack[i]))
  BY <1>1 DEF IInv, StackInv
<1> HIDE DEF node
<1>6. QED
  BY <1>1, <1>2, <1>3, <1>4, <1>5, CompleteInv

LEMMA RejectDepthInv ==
  ASSUME IInv, RejectDepth
  PROVE  IInv'
<1>1. outcome' # Pending /\ outcome' # Accepted /\ outcome' \in Outcome
  BY DEF RejectDepth, Pending, Accepted, Outcome, InputClass, IInv, TypeOK
<1>2. TypeOK'
  BY <1>1, EmptySeq DEF IInv, TypeOK, RejectDepth, ValueAt, CountValue
<1>3. ControlInv' /\ DepthBalanced' /\ NodesInv' /\ StackInv'
  BY <1>1, EmptySeq
  DEF IInv, ControlInv, DepthBalanced, NodesInv, StackInv, RejectDepth
<1>4. ValueCountExact'
  BY <1>1, EmptySeq, LimitsPositive
  DEF IInv, TypeOK, ValueCountExact, RejectDepth
<1>5. QED
  BY <1>2, <1>3, <1>4 DEF IInv

LEMMA EnterInv ==
  ASSUME IInv, NEW kind \in Container, Enter(kind)
  PROVE  IInv'
<1> DEFINE f == NewFrame(kind)
<1>1. /\ pc = "value" /\ pos + 1 \in Nat /\ input' = input
      /\ valueCount' = valueCount + 1 /\ valueCount + 1 <= maxValues
  BY DEF IInv, TypeOK, Enter, ValueAt, CountValue
<1>2. /\ depth = Len(stack) /\ depth + 1 <= maxDepth /\ stack \in Seq(Frame)
      /\ depth <= maxDepth /\ Len(stack) \in Nat /\ maxDepth \in Nat
      /\ valueCount = Len(nodes) + Len(stack) /\ Len(nodes) \in Nat
      /\ valueCount' \in Nat
  BY <1>1, LimitsPositive DEF IInv, TypeOK, DepthBalanced, ValueCountExact, Enter, TooDeep
<1>3. f \in Frame /\ FrameInv(f) /\ Closed(f) \in Node /\ NodeInv(Closed(f))
      /\ f.kind = kind
  BY NewFrameInv DEF NewFrame
<1>4. \A i \in 1 .. Len(stack) :
        FrameInv(stack[i]) /\ (stack[i].kind = "object" => KeyPending(stack[i]))
  BY <1>1 DEF IInv, StackInv
<1>5. PICK q \in skipWhitespace(pos + 1) :
        \/ newError("INVALID_GRAMMAR", q)
        \/ Complete(Closed(f), q + 1) /\ UNCHANGED <<depth, stack>>
        \/ /\ depth' = depth + 1
           /\ stack' = Append(stack, f)
           /\ pos' = q
           /\ pc' = IF kind = "object" THEN "key" ELSE "value"
           /\ UNCHANGED <<nodes, outcome>>
  BY DEF Enter
<1>6. q \in Nat /\ q + 1 \in Nat
  BY <1>1, WhitespaceOffset DEF IInv
<1> HIDE DEF f
<1>7. CASE newError("INVALID_GRAMMAR", q)
  BY <1>1, <1>2, <1>6, <1>7, UnwindInv DEF newError, InputClass
<1>8. CASE Complete(Closed(f), q + 1) /\ UNCHANGED <<depth, stack>>
  BY <1>1, <1>2, <1>3, <1>4, <1>6, <1>8, CompleteInv
<1>9. CASE /\ depth' = depth + 1
           /\ stack' = Append(stack, f)
           /\ pos' = q
           /\ pc' = IF kind = "object" THEN "key" ELSE "value"
           /\ UNCHANGED <<nodes, outcome>>
  <2>1. /\ stack' \in Seq(Frame) /\ Len(stack') = Len(stack) + 1 /\ stack' # <<>>
        /\ stack'[Len(stack) + 1] = f
        /\ \A i \in 1 .. Len(stack) : stack'[i] = stack[i]
    BY <1>2, <1>3, <1>9, AppendProperties
  <2>2. StackInv'
    <3> SUFFICES ASSUME NEW i \in 1 .. Len(stack')
                 PROVE  /\ FrameInv(stack'[i])
                        /\ (i < Len(stack') \/ pc' \in {"value", "return"})
                             /\ stack'[i].kind = "object" => KeyPending(stack'[i])
      BY DEF StackInv
    <3>1. CASE i \in 1 .. Len(stack)
      BY <1>4, <2>1, <3>1
    <3>2. CASE i = Len(stack) + 1
      BY <1>2, <1>3, <1>9, <2>1, <3>2 DEF Container
    <3>3. QED
      BY <1>2, <2>1, <3>1, <3>2
  <2>3. pc' = "key" => Top'.kind = "object"
    BY <1>3, <1>9, <2>1 DEF Top
  <2>4. QED
    BY <1>1, <1>2, <1>6, <1>9, <2>1, <2>2, <2>3, ContinueInv
<1>10. QED
  BY <1>5, <1>7, <1>8, <1>9

LEMMA RejectMemberInv ==
  ASSUME IInv, RejectNonKey \/ RejectKey \/ RejectDuplicate \/ RejectNoColon
  PROVE  IInv'
<1>1. input' = input /\ valueCount' \in Nat /\ pos \in Nat
  BY DEF IInv, TypeOK, RejectNonKey, RejectKey, RejectDuplicate, RejectNoColon, ReadKey
<1>2. \A q \in skipWhitespace(pos) : q \in Nat /\ q + 1 \in Nat
  BY <1>1, WhitespaceOffset DEF IInv
<1>3. CASE RejectNonKey
  <2>1. PICK q \in skipWhitespace(pos) : expectFails(q)
    BY <1>3 DEF RejectNonKey
  <2>2. QED
    BY <1>1, <1>2, <2>1, UnwindInv DEF expectFails, newError, InputClass
<1>4. CASE RejectKey
  <2>1. PICK q \in skipWhitespace(pos) : newError(Fault[peek(q)], q) /\ peek(q) \in BadStrings
    BY <1>4 DEF RejectKey
  <2>2. Fault[peek(q)] \in InputClass
    BY <2>1, DecodeAssumption
  <2>3. QED
    BY <1>1, <1>2, <2>1, <2>2, UnwindInv DEF newError
<1>5. CASE RejectDuplicate
  <2>1. PICK q \in skipWhitespace(pos) : Unwind("DUPLICATE_KEY", q, q + 1)
    BY <1>5 DEF RejectDuplicate
  <2>2. QED
    BY <1>1, <1>2, <2>1, UnwindInv DEF InputClass
<1>6. CASE RejectNoColon
  <2>1. PICK q \in skipWhitespace(pos) : \E r \in skipWhitespace(q + 1) : expectFails(r)
    BY <1>6 DEF RejectNoColon
  <2>2. PICK r \in skipWhitespace(q + 1) : expectFails(r)
    BY <2>1
  <2>3. r \in Nat /\ r + 1 \in Nat
    BY <1>2, <2>2, WhitespaceOffset DEF IInv
  <2>4. QED
    BY <1>1, <2>2, <2>3, UnwindInv DEF expectFails, newError, InputClass
<1>7. QED
  BY <1>3, <1>4, <1>5, <1>6

LEMMA ParseKeyInv ==
  ASSUME IInv, ParseKey
  PROVE  IInv'
<1>1. PICK q \in skipWhitespace(pos) :
        /\ NewKey(q)
        /\ \E r \in skipWhitespace(q + 1) : pos' \in skipWhitespace(r + 1)
        /\ stack' = ReplaceTop([Top EXCEPT !.seen = @ \cup {Decode[peek(q)]},
                                           !.key = Decode[peek(q)]])
  BY DEF ParseKey
<1> DEFINE k == Decode[peek(q)]
           f == [Top EXCEPT !.seen = @ \cup {k}, !.key = k]
<1>2. k \in Keys /\ k \notin Top.seen
  BY <1>1, DecodeAssumption DEF NewKey
<1>3. pc = "key" /\ pc' = "value" /\ stack # <<>> /\ pos' \in Nat
  <2>1. pc = "key" /\ pc' = "value" /\ stack # <<>> /\ pos \in Nat
    BY DEF IInv, TypeOK, ControlInv, ParseKey, ReadKey
  <2>2. q + 1 \in Nat
    BY <2>1, WhitespaceOffset DEF IInv
  <2>3. PICK r \in skipWhitespace(q + 1) : pos' \in skipWhitespace(r + 1)
    BY <1>1
  <2>4. r + 1 \in Nat
    BY <2>2, WhitespaceOffset DEF IInv
  <2>5. QED
    BY <2>1, <2>3, <2>4, WhitespaceOffset DEF IInv
<1>4. Top \in Frame /\ FrameInv(Top) /\ Len(stack) \in 1 .. Len(stack)
  BY <1>3, TopType DEF IInv, StackInv, Top
<1>5. /\ f \in Frame /\ f.kind = Top.kind /\ f.keys = Top.keys /\ f.kids = Top.kids
      /\ f.key = k /\ f.seen = Top.seen \cup {k}
  BY <1>2, <1>4 DEF Frame
<1>6. FrameInv(f) /\ KeyPending(f)
  BY <1>2, <1>4, <1>5 DEF FrameInv, NodeInv, DistinctKeys, Paired, LeafText, KeyPending
<1>7. stack' = ReplaceTop(f)
  BY <1>1
<1> HIDE DEF f
<1>8. /\ stack' \in Seq(Frame) /\ Len(stack') = Len(stack) /\ stack'[Len(stack)] = f
      /\ \A i \in 1 .. Len(stack) - 1 : stack'[i] = stack[i]
  BY <1>3, <1>5, <1>7, ReplaceTopIs DEF IInv
<1>9. StackInv'
  <2> SUFFICES ASSUME NEW i \in 1 .. Len(stack)
               PROVE  /\ FrameInv(stack'[i])
                      /\ stack'[i].kind = "object" => KeyPending(stack'[i])
    BY <1>8 DEF StackInv
  <2>1. CASE i < Len(stack)
    BY <1>8, <2>1 DEF IInv, StackInv
  <2>2. CASE i = Len(stack)
    BY <1>6, <1>8, <2>2
  <2>3. QED
    BY <1>4, <2>1, <2>2
<1>10. /\ depth = Len(stack) /\ depth <= maxDepth
       /\ valueCount = Len(nodes) + Len(stack) /\ valueCount <= maxValues
  BY <1>3 DEF IInv, TypeOK, DepthBalanced, ValueCountExact
<1>11. QED
  BY <1>3, <1>8, <1>9, <1>10, ContinueInv DEF ParseKey, ReadKey

LEMMA RejectChildInv ==
  ASSUME IInv, RejectChild
  PROVE  IInv'
BY UnwindInv
DEF RejectChild, Returning, newError, IInv, TypeOK, InputClass, Container

LEMMA ResumeInv ==
  ASSUME IInv, NEW kind \in Container, Resume(kind)
  PROVE  IInv'
<1> DEFINE f == Adopt(Top)
<1>1. /\ pc = "return" /\ stack # <<>> /\ Top.kind = kind /\ pos \in Nat
      /\ input' = input /\ valueCount' = valueCount
      /\ ~Full(Top)
  BY DEF IInv, TypeOK, Resume, ReturnTo, Returning
<1>2. /\ depth = Len(stack) /\ depth <= maxDepth /\ stack \in Seq(Frame)
      /\ Len(stack) \in Nat /\ maxDepth \in Nat
      /\ valueCount = Len(nodes) + Len(stack) /\ Len(nodes) \in Nat
      /\ valueCount \in Nat /\ valueCount <= maxValues
  BY <1>1, LimitsPositive DEF IInv, TypeOK, DepthBalanced, ValueCountExact
<1>3. /\ Top \in Frame /\ Len(stack) \in 1 .. Len(stack)
      /\ Len(Top.kids) < maxChildren(kind)
  <2>1. Top \in Frame /\ Len(stack) \in 1 .. Len(stack)
    BY <1>1, TopType DEF IInv
  <2>2. Len(Top.kids) \in Nat /\ maxChildren(kind) \in Nat
    BY <2>1, LimitsPositive DEF Frame
  <2>3. QED
    BY <1>1, <2>1, <2>2 DEF Full
<1>4. FrameInv(Top) /\ (Top.kind = "object" => KeyPending(Top))
  BY <1>1, <1>3 DEF IInv, StackInv, Top
<1>5. /\ f \in Frame /\ FrameInv(f) /\ f.kind = kind
      /\ Closed(f) \in Node /\ NodeInv(Closed(f))
  BY <1>1, <1>2, <1>3, <1>4, AdoptInv
<1>6. \A i \in 1 .. Len(stack) :
        FrameInv(stack[i]) /\ (stack[i].kind = "object" => KeyPending(stack[i]))
  BY <1>1 DEF IInv, StackInv
<1>7. PICK q \in skipWhitespace(pos) :
        \/ /\ Complete(Closed(f), q + 1)
           /\ stack' = Pop
           /\ depth' = depth - 1
        \/ /\ stack' = ReplaceTop(f)
           /\ IF kind = "object"
                THEN pos' = q + 1 /\ pc' = "key"
                ELSE pos' \in skipWhitespace(q + 1) /\ pc' = "value"
           /\ UNCHANGED <<depth, nodes, outcome>>
        \/ newError("INVALID_GRAMMAR", q)
  BY DEF Resume, Leave
<1>8. q \in Nat /\ q + 1 \in Nat
  BY <1>1, WhitespaceOffset DEF IInv
<1> HIDE DEF f
<1>9. CASE Complete(Closed(f), q + 1) /\ stack' = Pop /\ depth' = depth - 1
  <2>1. /\ stack' \in Seq(Frame) /\ Len(stack') = Len(stack) - 1
        /\ \A i \in 1 .. Len(stack) - 1 : stack'[i] = stack[i]
    BY <1>1, <1>9, PopIs DEF IInv
  <2>2. \A i \in 1 .. Len(stack') :
          FrameInv(stack'[i]) /\ (stack'[i].kind = "object" => KeyPending(stack'[i]))
    BY <1>2, <1>6, <2>1
  <2>3. /\ depth' = Len(stack') /\ depth' <= maxDepth
        /\ valueCount' = Len(nodes) + 1 + Len(stack') /\ valueCount' <= maxValues
    BY <1>1, <1>2, <1>9, <2>1
  <2>4. QED
    BY <1>1, <1>5, <1>8, <1>9, <2>1, <2>2, <2>3, CompleteInv
<1>10. CASE /\ stack' = ReplaceTop(f)
            /\ IF kind = "object"
                 THEN pos' = q + 1 /\ pc' = "key"
                 ELSE pos' \in skipWhitespace(q + 1) /\ pc' = "value"
            /\ UNCHANGED <<depth, nodes, outcome>>
  <2>1. /\ stack' \in Seq(Frame) /\ Len(stack') = Len(stack) /\ stack'[Len(stack)] = f
        /\ \A i \in 1 .. Len(stack) - 1 : stack'[i] = stack[i]
    BY <1>1, <1>5, <1>10, ReplaceTopIs DEF IInv
  <2>2. pos' \in Nat /\ pc' \in {"value", "key"} /\ (pc' = "value" => kind # "object")
    BY <1>8, <1>10, WhitespaceOffset DEF IInv
  <2>3. StackInv'
    <3> SUFFICES ASSUME NEW i \in 1 .. Len(stack)
                 PROVE  /\ FrameInv(stack'[i])
                        /\ (i < Len(stack) \/ pc' = "value")
                             /\ stack'[i].kind = "object" => KeyPending(stack'[i])
      BY <2>1, <2>2 DEF StackInv
    <3>1. CASE i < Len(stack)
      BY <1>6, <2>1, <3>1
    <3>2. CASE i = Len(stack)
      BY <1>5, <2>1, <2>2, <3>2
    <3>3. QED
      BY <1>2, <3>1, <3>2
  <2>4. pc' = "key" => stack' # <<>> /\ Top'.kind = "object"
    BY <1>2, <1>3, <1>5, <1>10, <2>1 DEF Top
  <2>5. depth' = Len(stack') /\ depth' <= maxDepth /\ valueCount' = Len(nodes) + Len(stack')
    BY <1>1, <1>2, <1>10, <2>1
  <2>6. QED
    BY <1>1, <1>2, <1>10, <2>1, <2>2, <2>3, <2>4, <2>5, ContinueInv
<1>11. CASE newError("INVALID_GRAMMAR", q)
  BY <1>1, <1>2, <1>8, <1>11, UnwindInv DEF newError, InputClass
<1>12. QED
  BY <1>7, <1>9, <1>10, <1>11

LEMMA FinishInv ==
  ASSUME IInv, Finish
  PROVE  IInv'
<1>1. input' = input /\ valueCount' = valueCount /\ pc = "return" /\ stack = <<>>
      /\ pos \in Nat
  BY DEF IInv, TypeOK, Finish, Returning
<1>2. PICK q \in skipWhitespace(pos) :
        \/ /\ outcome' = Accepted /\ pc' = "done" /\ pos' = q
           /\ UNCHANGED <<depth, stack, nodes>>
        \/ newError("INVALID_GRAMMAR", q)
  BY DEF Finish
<1>3. q \in Nat
  BY <1>1, WhitespaceOffset DEF IInv
<1>4. CASE newError("INVALID_GRAMMAR", q)
  BY <1>1, <1>3, <1>4, UnwindInv DEF newError, InputClass, IInv, TypeOK
<1>5. CASE /\ outcome' = Accepted /\ pc' = "done" /\ pos' = q
           /\ UNCHANGED <<depth, stack, nodes>>
  <2>1. TypeOK'
    BY <1>1, <1>3, <1>5 DEF IInv, TypeOK, Accepted, Outcome
  <2>2. ControlInv' /\ NodesInv' /\ StackInv'
    BY <1>1, <1>5, EmptySeq
    DEF IInv, ControlInv, NodesInv, StackInv, Accepted, Pending
  <2>3. DepthBalanced' /\ ValueCountExact'
    BY <1>1, <1>5, EmptySeq
    DEF IInv, TypeOK, DepthBalanced, ValueCountExact
  <2>4. QED
    BY <2>1, <2>2, <2>3 DEF IInv
<1>6. QED
  BY <1>2, <1>4, <1>5

LEMMA InitInv == Init => IInv
<1> SUFFICES ASSUME Init PROVE IInv
  OBVIOUS
<1>1. TypeOK
  BY LexemeAssumption, EmptySeq DEF Init, TypeOK, Pending, Outcome
<1>2. ControlInv /\ DepthBalanced /\ ValueCountExact /\ NodesInv /\ StackInv
  BY EmptySeq, LimitsPositive
  DEF Init, ControlInv, DepthBalanced, ValueCountExact, NodesInv, StackInv, Pending, Accepted
<1>3. QED
  BY <1>1, <1>2 DEF IInv

LEMMA NextInv == IInv /\ [Next]_vars => IInv'
<1> SUFFICES ASSUME IInv, [Next]_vars PROVE IInv'
  OBVIOUS
<1>1. CASE RejectOversize \/ RejectInvalidUTF8
  BY <1>1, RejectInputInv
<1>2. CASE Begin
  BY <1>2, BeginInv
<1>3. CASE RejectValueCount \/ RejectLeaf \/ RejectNonValue
  BY <1>3, RejectValueInv
<1>4. CASE ParseLeaf
  BY <1>4, ParseLeafInv
<1>5. CASE RejectDepth
  BY <1>5, RejectDepthInv
<1>6. CASE EnterObject \/ EnterArray
  BY <1>6, EnterInv DEF EnterObject, EnterArray, Container
<1>7. CASE RejectNonKey \/ RejectKey \/ RejectDuplicate \/ RejectNoColon
  BY <1>7, RejectMemberInv
<1>8. CASE ParseKey
  BY <1>8, ParseKeyInv
<1>9. CASE RejectChild
  BY <1>9, RejectChildInv
<1>10. CASE ResumeObject \/ ResumeArray
  BY <1>10, ResumeInv DEF ResumeObject, ResumeArray, Container
<1>11. CASE Finish
  BY <1>11, FinishInv
<1>12. CASE Stop \/ UNCHANGED vars
  BY <1>12
  DEF Stop, vars, IInv, TypeOK, ControlInv, DepthBalanced, ValueCountExact, NodesInv,
      StackInv, Top, peek
<1>13. QED
  BY <1>1, <1>2, <1>3, <1>4, <1>5, <1>6, <1>7, <1>8, <1>9, <1>10, <1>11, <1>12 DEF Next

\* The invariant holds in every state of every run of the parser.
THEOREM Invariance == Spec => []IInv
BY InitInv, NextInv, PTL DEF Spec

--------------------------------------------------------------------------------

\* The parser's variables keep their types.
THEOREM TypeCorrect == Spec => []TypeOK
<1>1. IInv => TypeOK
  BY DEF IInv
<1>2. QED
  BY <1>1, Invariance, PTL

\* No value the parser completes has an object with two equal decoded keys.
THEOREM KeysUnique == Spec => []UniqueKeys
<1>1. IInv => UniqueKeys
  BY DEF IInv, NodesInv, NodeInv, DistinctKeys, UniqueKeys
<1>2. QED
  BY <1>1, Invariance, PTL

\* depth counts the open containers, never exceeds its limit, and is back to
\* zero when the parse succeeds.
THEOREM DepthIsBalanced == Spec => []DepthBalanced
<1>1. IInv => DepthBalanced
  BY DEF IInv
<1>2. QED
  BY <1>1, Invariance, PTL

\* valueCount is the exact number of values begun, and within its limit for
\* every accepted text.
THEOREM ValueCountIsExact == Spec => []ValueCountExact
<1>1. IInv => ValueCountExact
  BY DEF IInv
<1>2. QED
  BY <1>1, Invariance, PTL

\* No container ever has more children than its limit, and members are pairs.
THEOREM ChildrenAreBounded == Spec => []ChildrenBounded
<1>1. IInv => ChildrenBounded
  <2> SUFFICES ASSUME IInv PROVE ChildrenBounded
    OBVIOUS
  <2>1. \A i \in 1 .. Len(stack) : stack[i].kind \in Container
    <3>1. \A i \in 1 .. Len(stack) : stack[i] \in Frame
      BY ElementOfSeq DEF IInv, TypeOK
    <3>2. \A f \in Frame : f.kind \in Container
      BY DEF Frame
    <3>3. QED
      BY <3>1, <3>2
  <2>2. QED
    BY <2>1 DEF IInv, NodesInv, StackInv, FrameInv, NodeInv, Paired, ChildrenBounded
<1>2. QED
  BY <1>1, Invariance, PTL

--------------------------------------------------------------------------------
(* The shape of what the parser builds. *)

\* The place at which the i-th of kids begins, the first at from, when each
\* begins after the one before; one more than their number is where they end.
Begins(kids, from, i) == IF i = 1 THEN from ELSE kids[i - 1] + 1

\* kids lie one after the other between from and top, at one level.  lo is the
\* first node of the subtree of each node, and lv how many containers are around it.
Chain(kids, lo, lv, from, level, top) ==
  /\ Len(kids) \in Nat
  /\ \A i \in 1 .. Len(kids) :
       /\ kids[i] \in 1 .. top
       /\ lo[kids[i]] = Begins(kids, from, i)
       /\ lv[kids[i]] = level

\* The nodes are trees in postorder, no deeper than allowed.
NodeFits(r, n, lo, lv) ==
  /\ lo[n] \in 1 .. n /\ lv[n] \in 0 .. maxDepth
  /\ IF r.kind \in Container
       THEN /\ lv[n] < maxDepth
            /\ Chain(r.kids, lo, lv, lo[n], lv[n] + 1, n - 1)
            /\ n = Begins(r.kids, lo[n], Len(r.kids) + 1)
       ELSE n = lo[n]

Forest(ns, lo, lv) == \A n \in 1 .. Len(ns) : NodeFits(ns[n], n, lo, lv)

\* The open containers take up the nodes one after the other: b is where the
\* children of each begin, and where the next value begins.
Stacked(st, lo, lv, b, top) ==
  /\ b[1] = 1
  /\ \A k \in 1 .. Len(st) :
       /\ b[k] \in Nat \ {0}
       /\ Chain(st[k].kids, lo, lv, b[k], k, top)
       /\ b[k + 1] = Begins(st[k].kids, b[k], Len(st[k].kids) + 1)

\* returned: the last node is the value that a call just returned.
Grown(ns, st, returned, lo, lv, b) ==
  /\ Forest(ns, lo, lv)
  /\ Stacked(st, lo, lv, b, Len(ns))
  /\ IF returned
       THEN Len(ns) # 0 /\ lo[Len(ns)] = b[Len(st) + 1] /\ lv[Len(ns)] = Len(st)
       ELSE b[Len(st) + 1] = Len(ns) + 1

\* Between two calls the next value has not begun; after one, and when the
\* text is accepted, the last node is its value.
ShapeInv ==
  /\ pc \notin {"return", "done"} => \E lo, lv, b : Grown(nodes, stack, FALSE, lo, lv, b)
  /\ pc = "done" /\ outcome = Accepted => stack = <<>>
  /\ pc = "return" \/ (pc = "done" /\ outcome = Accepted) =>
       \E lo, lv, b : Grown(nodes, stack, TRUE, lo, lv, b)

\* f with one more value.
With(f, n, x) == [i \in 1 .. n |-> IF i = n THEN x ELSE f[i]]

\* What is known of the nodes so far does not change with a new one.
LEMMA ChainKept ==
  ASSUME NEW kids, NEW lo, NEW lv, NEW from, NEW level, NEW top \in Nat,
         Chain(kids, lo, lv, from, level, top), NEW x, NEW y
  PROVE  Chain(kids, With(lo, top + 1, x), With(lv, top + 1, y), from, level, top)
<1>1. /\ \A i \in 1 .. top : With(lo, top + 1, x)[i] = lo[i]
      /\ \A i \in 1 .. top : With(lv, top + 1, y)[i] = lv[i]
  BY DEF With
<1> QED
  BY <1>1 DEF Chain

LEMMA ChainWider ==
  ASSUME NEW kids, NEW lo, NEW lv, NEW from, NEW level, NEW top \in Nat,
         Chain(kids, lo, lv, from, level, top), NEW up \in Nat, top <= up
  PROVE  Chain(kids, lo, lv, from, level, up)
  BY DEF Chain

LEMMA NodeKept ==
  ASSUME NEW r, NEW n \in Nat \ {0}, NEW lo, NEW lv, NodeFits(r, n, lo, lv),
         NEW top \in Nat, n <= top, NEW x, NEW y
  PROVE  NodeFits(r, n, With(lo, top + 1, x), With(lv, top + 1, y))
<1> DEFINE lo2 == With(lo, top + 1, x)
           lv2 == With(lv, top + 1, y)
<1>1. /\ \A i \in 1 .. top : lo2[i] = lo[i]
      /\ \A i \in 1 .. top : lv2[i] = lv[i]
  BY DEF With
<1> HIDE DEF lo2, lv2
<1>2. lo2[n] = lo[n] /\ lv2[n] = lv[n]
  BY <1>1
<1>3. Chain(r.kids, lo, lv, lo[n], lv[n] + 1, n - 1)
        => Chain(r.kids, lo2, lv2, lo[n], lv[n] + 1, n - 1)
  BY <1>1 DEF Chain
<1>4. NodeFits(r, n, lo2, lv2)
  BY <1>2, <1>3 DEF NodeFits
<1> QED
  BY <1>4 DEF lo2, lv2

\* A new node that fits joins the trees.
LEMMA ForestGrows ==
  ASSUME NEW ns, NEW more, Len(ns) \in Nat, Len(more) = Len(ns) + 1,
         \A n \in 1 .. Len(ns) : more[n] = ns[n],
         NEW lo, NEW lv, Forest(ns, lo, lv), NEW x, NEW y,
         NodeFits(more[Len(ns) + 1], Len(ns) + 1,
                  With(lo, Len(ns) + 1, x), With(lv, Len(ns) + 1, y))
  PROVE  Forest(more, With(lo, Len(ns) + 1, x), With(lv, Len(ns) + 1, y))
<1> DEFINE lo2 == With(lo, Len(ns) + 1, x)
           lv2 == With(lv, Len(ns) + 1, y)
<1>1. \A n \in 1 .. Len(ns) : NodeFits(ns[n], n, lo2, lv2)
  BY NodeKept DEF Forest
<1> HIDE DEF lo2, lv2
<1>2. \A n \in 1 .. Len(more) : NodeFits(more[n], n, lo2, lv2)
  <2> SUFFICES ASSUME NEW n \in 1 .. Len(more) PROVE NodeFits(more[n], n, lo2, lv2)
    OBVIOUS
  <2>1. CASE n = Len(ns) + 1
    BY <2>1 DEF lo2, lv2
  <2>2. CASE n # Len(ns) + 1
    <3>1. n \in 1 .. Len(ns)
      BY <2>2
    <3> QED
      BY <1>1, <3>1
  <2> QED
    BY <2>1, <2>2
<1> QED
  BY <1>2 DEF Forest, lo2, lv2

\* more has the nodes of ns and one more.
OneMore(more, ns) ==
  /\ Len(ns) \in Nat /\ Len(more) = Len(ns) + 1
  /\ \A n \in 1 .. Len(ns) : more[n] = ns[n]

\* A value without children is returned.
LEMMA LeafGrows ==
  ASSUME NEW ns, NEW st, NEW lo, NEW lv, NEW b, Grown(ns, st, FALSE, lo, lv, b),
         NEW more, OneMore(more, ns), Len(st) \in 0 .. maxDepth,
         more[Len(ns) + 1].kind \in Container =>
           more[Len(ns) + 1].kids = <<>> /\ Len(st) < maxDepth
  PROVE  \E lo2, lv2 : Grown(more, st, TRUE, lo2, lv2, b)
<1> DEFINE n == Len(ns) + 1
           lo2 == With(lo, n, n)
           lv2 == With(lv, n, Len(st))
<1>1. n \in Nat \ {0} /\ Len(more) = n /\ Len(ns) \in Nat
  BY DEF OneMore
<1>2. lo2[n] = n /\ lv2[n] = Len(st)
  BY <1>1 DEF With
<1>3. NodeFits(more[n], n, lo2, lv2)
  <2> HIDE DEF lo2, lv2
  <2>1. CASE more[n].kind \in Container
    <3>1. more[n].kids = <<>> /\ Len(more[n].kids) = 0
      BY <2>1
    <3>2. Chain(more[n].kids, lo2, lv2, lo2[n], lv2[n] + 1, n - 1)
      BY <3>1 DEF Chain
    <3>3. n = Begins(more[n].kids, lo2[n], Len(more[n].kids) + 1)
      BY <1>2, <3>1 DEF Begins
    <3> QED
      BY <1>1, <1>2, <2>1, <3>2, <3>3 DEF NodeFits
  <2>2. CASE more[n].kind \notin Container
    BY <1>1, <1>2, <2>2 DEF NodeFits
  <2> QED
    BY <2>1, <2>2
<1>4. Forest(more, lo2, lv2)
  BY <1>3, ForestGrows DEF Grown, OneMore
<1>5. Stacked(st, lo2, lv2, b, n)
  <2> SUFFICES ASSUME NEW k \in 1 .. Len(st) PROVE Chain(st[k].kids, lo2, lv2, b[k], k, n)
    BY DEF Grown, Stacked
  <2>1. Chain(st[k].kids, lo, lv, b[k], k, Len(ns))
    BY DEF Grown, Stacked
  <2>2. Chain(st[k].kids, lo2, lv2, b[k], k, Len(ns))
    BY <1>1, <2>1, ChainKept
  <2> HIDE DEF lo2, lv2
  <2> QED
    BY <1>1, <2>2, ChainWider
<1>6. lo2[n] = b[Len(st) + 1]
  BY <1>2 DEF Grown
<1>7. Grown(more, st, TRUE, lo2, lv2, b)
  <2> HIDE DEF lo2, lv2
  <2> QED
    BY <1>1, <1>2, <1>4, <1>5, <1>6 DEF Grown
<1> QED
  BY <1>7

\* A container is opened.
LEMMA PushGrows ==
  ASSUME NEW ns, NEW st, NEW lo, NEW lv, NEW b, Grown(ns, st, FALSE, lo, lv, b),
         Len(ns) \in Nat, NEW st2, OneMore(st2, st), st2[Len(st) + 1].kids = <<>>
  PROVE  \E b2 : Grown(ns, st2, FALSE, lo, lv, b2)
<1> DEFINE n == Len(st) + 1
           b2 == With(b, n + 1, Len(ns) + 1)
<1>1. n \in Nat \ {0} /\ Len(st2) = n /\ Len(st) \in Nat /\ 1 \in 1 .. n /\ n \in 1 .. n
  BY DEF OneMore
<1>2. b2[n + 1] = Len(ns) + 1 /\ \A i \in 1 .. n : b2[i] = b[i]
  BY <1>1 DEF With
<1> HIDE DEF b2
<1>3. b[1] = 1 /\ b[n] = Len(ns) + 1
  BY DEF Grown, Stacked
<1>4. ASSUME NEW k \in 1 .. n
      PROVE  /\ b2[k] \in Nat \ {0}
             /\ Chain(st2[k].kids, lo, lv, b2[k], k, Len(ns))
             /\ b2[k + 1] = Begins(st2[k].kids, b2[k], Len(st2[k].kids) + 1)
  <2>1. CASE k = n
    <3>1. st2[k].kids = <<>> /\ Len(st2[k].kids) = 0
      BY <2>1
    <3>2. Chain(st2[k].kids, lo, lv, b2[k], k, Len(ns))
      BY <3>1 DEF Chain
    <3>3. b2[k] = Len(ns) + 1 /\ b2[k + 1] = Len(ns) + 1
      BY <1>1, <1>2, <1>3, <2>1
    <3> QED
      BY <3>1, <3>2, <3>3 DEF Begins
  <2>2. CASE k # n
    <3>1. k \in 1 .. Len(st) /\ k \in 1 .. n /\ k + 1 \in 1 .. n
      BY <1>1, <2>2
    <3>2. st2[k] = st[k] /\ b2[k] = b[k] /\ b2[k + 1] = b[k + 1]
      BY <1>2, <3>1 DEF OneMore
    <3> QED
      BY <3>1, <3>2 DEF Grown, Stacked
  <2> QED
    BY <2>1, <2>2
<1>5. Stacked(st2, lo, lv, b2, Len(ns))
  BY <1>1, <1>2, <1>3, <1>4 DEF Stacked
<1>6. Grown(ns, st2, FALSE, lo, lv, b2)
  BY <1>1, <1>2, <1>5 DEF Grown
<1> QED
  BY <1>6

\* kids lie from `from` up to n.
Fills(kids, lo, lv, from, level, n) ==
  /\ Chain(kids, lo, lv, from, level, n)
  /\ Begins(kids, from, Len(kids) + 1) = n + 1

\* The children of the innermost container with the value just returned.
LEMMA ChainLonger ==
  ASSUME NEW ns, NEW st, NEW lo, NEW lv, NEW b, Grown(ns, st, TRUE, lo, lv, b),
         Len(ns) \in Nat, Len(st) \in Nat \ {0}, st[Len(st)].kids \in Seq(Nat)
  PROVE  Fills(Append(st[Len(st)].kids, Len(ns)), lo, lv, b[Len(st)], Len(st), Len(ns))
<1> DEFINE kids == Append(st[Len(st)].kids, Len(ns))
           l == Len(st)
           old == st[l].kids
           n == Len(ns)
<1>1. /\ Chain(old, lo, lv, b[l], l, n)
      /\ b[l + 1] = Begins(old, b[l], Len(old) + 1)
      /\ n # 0 /\ lo[n] = b[l + 1] /\ lv[n] = l
  BY DEF Grown, Stacked
<1>2. /\ Len(old) \in Nat /\ Len(kids) = Len(old) + 1 /\ kids[Len(old) + 1] = n
      /\ \A i \in 1 .. Len(old) : kids[i] = old[i]
  OBVIOUS
<1> HIDE DEF old, kids, l, n
<1>3. \A i \in 1 .. Len(old) + 1 : Begins(kids, b[l], i) = Begins(old, b[l], i)
  <2> SUFFICES ASSUME NEW i \in 1 .. Len(old) + 1, i # 1 PROVE kids[i - 1] = old[i - 1]
    BY DEF Begins
  <2>1. i - 1 \in 1 .. Len(old)
    BY <1>2
  <2> QED
    BY <1>2, <2>1
<1>4. ASSUME NEW i \in 1 .. Len(kids)
      PROVE  kids[i] \in 1 .. n /\ lo[kids[i]] = Begins(kids, b[l], i) /\ lv[kids[i]] = l
  <2>1. CASE i = Len(old) + 1
    <3>1. n \in 1 .. n
      BY <1>1 DEF n
    <3> QED
      BY <1>1, <1>2, <1>3, <2>1, <3>1
  <2>2. CASE i # Len(old) + 1
    <3>1. i \in 1 .. Len(old) /\ i \in 1 .. Len(old) + 1
      BY <1>2, <2>2
    <3> QED
      BY <1>1, <1>2, <1>3, <3>1 DEF Chain
  <2> QED
    BY <2>1, <2>2
<1>5. Chain(kids, lo, lv, b[l], l, n)
  BY <1>2, <1>4 DEF Chain
<1>6. Begins(kids, b[l], Len(kids) + 1) = n + 1
  <2>1. Len(kids) + 1 # 1 /\ (Len(kids) + 1) - 1 = Len(old) + 1
    BY <1>2
  <2> QED
    BY <1>2, <2>1 DEF Begins
<1> QED
  BY <1>5, <1>6 DEF l, n, kids, Fills

\* The value returned joins the innermost container, which stays open.
LEMMA AdoptGrows ==
  ASSUME NEW ns, NEW st, NEW lo, NEW lv, NEW b, Grown(ns, st, TRUE, lo, lv, b),
         Len(ns) \in Nat, Len(st) \in Nat \ {0}, st[Len(st)].kids \in Seq(Nat),
         NEW st2, Len(st2) = Len(st), \A k \in 1 .. Len(st) - 1 : st2[k] = st[k],
         st2[Len(st)].kids = Append(st[Len(st)].kids, Len(ns))
  PROVE  \E b2 : Grown(ns, st2, FALSE, lo, lv, b2)
<1> DEFINE l == Len(st)
           b2 == With(b, l + 1, Len(ns) + 1)
           kids == Append(st[l].kids, Len(ns))
<1>1. /\ Chain(kids, lo, lv, b[l], l, Len(ns))
      /\ Begins(kids, b[l], Len(kids) + 1) = Len(ns) + 1
  BY ChainLonger DEF Fills
<1> HIDE DEF kids
<1>2. b2[l + 1] = Len(ns) + 1 /\ \A i \in 1 .. l : b2[i] = b[i]
  BY DEF With
<1> HIDE DEF b2
<1>3. ASSUME NEW k \in 1 .. l
      PROVE  /\ b2[k] \in Nat \ {0}
             /\ Chain(st2[k].kids, lo, lv, b2[k], k, Len(ns))
             /\ b2[k + 1] = Begins(st2[k].kids, b2[k], Len(st2[k].kids) + 1)
  <2>1. CASE k = l
    BY <1>1, <1>2, <2>1 DEF kids, Grown, Stacked
  <2>2. CASE k # l
    <3>1. k \in 1 .. l - 1 /\ k + 1 \in 1 .. l
      BY <2>2
    <3>2. st2[k] = st[k] /\ b2[k] = b[k] /\ b2[k + 1] = b[k + 1]
      BY <1>2, <3>1
    <3> QED
      BY <3>2 DEF Grown, Stacked
  <2> QED
    BY <2>1, <2>2
<1>4. b2[1] = 1
  BY <1>2 DEF Grown, Stacked
<1>5. Stacked(st2, lo, lv, b2, Len(ns))
  BY <1>3, <1>4 DEF Stacked
<1>6. Grown(ns, st2, FALSE, lo, lv, b2)
  BY <1>2, <1>5 DEF Grown
<1> QED
  BY <1>6

\* The innermost container is closed with the value returned, and is returned.
LEMMA LeaveGrows ==
  ASSUME NEW ns, NEW st, NEW lo, NEW lv, NEW b, Grown(ns, st, TRUE, lo, lv, b),
         Len(st) \in Nat \ {0}, Len(st) <= maxDepth, st[Len(st)].kids \in Seq(Nat),
         NEW st2, Len(st2) = Len(st) - 1, \A k \in 1 .. Len(st) - 1 : st2[k] = st[k],
         NEW more, OneMore(more, ns), more[Len(ns) + 1].kind \in Container,
         more[Len(ns) + 1].kids = Append(st[Len(st)].kids, Len(ns))
  PROVE  \E lo2, lv2 : Grown(more, st2, TRUE, lo2, lv2, b)
<1> DEFINE l == Len(st)
           n == Len(ns) + 1
           lo2 == With(lo, n, b[l])
           lv2 == With(lv, n, l - 1)
           kids == more[n].kids
<1>1. n \in Nat \ {0} /\ Len(more) = n /\ Len(ns) \in Nat /\ n - 1 = Len(ns)
  BY DEF OneMore
<1>2. lo2[n] = b[l] /\ lv2[n] = l - 1
  BY <1>1 DEF With
<1>3. Chain(kids, lo, lv, b[l], l, Len(ns)) /\ Begins(kids, b[l], Len(kids) + 1) = n
  BY <1>1, ChainLonger DEF Fills
<1>4. Chain(kids, lo2, lv2, b[l], l, Len(ns))
  <2> HIDE DEF kids
  <2> QED
    BY <1>1, <1>3, ChainKept
<1>5. b[l] \in 1 .. n
  <2>1. kids \in Seq(Nat) /\ Len(kids) # 0
    BY <1>1
  <2>2. kids[1] \in 1 .. Len(ns) /\ lo[kids[1]] = b[l]
    <3>1. 1 \in 1 .. Len(kids) /\ Begins(kids, b[l], 1) = b[l]
      BY <2>1 DEF Begins
    <3> HIDE DEF kids
    <3> QED
      BY <1>3, <3>1 DEF Chain
  <2>3. lo[kids[1]] \in 1 .. kids[1]
    BY <2>2 DEF Grown, Forest, NodeFits
  <2> HIDE DEF kids
  <2> QED
    BY <1>1, <2>2, <2>3
<1> HIDE DEF lo2, lv2, kids
<1>6. NodeFits(more[n], n, lo2, lv2)
  <2>1. lv2[n] + 1 = l /\ lv2[n] \in 0 .. maxDepth /\ lv2[n] < maxDepth
    BY <1>2, LimitsPositive
  <2> QED
    BY <1>1, <1>2, <1>3, <1>4, <1>5, <2>1 DEF NodeFits, kids
<1>7. Forest(more, lo2, lv2)
  BY <1>6, ForestGrows DEF Grown, OneMore, lo2, lv2
<1>8. Stacked(st2, lo2, lv2, b, n)
  <2>0. \A k \in 1 .. Len(st2) :
          /\ k \in 1 .. Len(st) /\ st2[k] = st[k]
          /\ b[k] \in Nat \ {0} /\ b[k + 1] = Begins(st[k].kids, b[k], Len(st[k].kids) + 1)
          /\ Chain(st[k].kids, lo, lv, b[k], k, Len(ns))
    BY DEF Grown, Stacked
  <2> SUFFICES ASSUME NEW k \in 1 .. Len(st2) PROVE Chain(st2[k].kids, lo2, lv2, b[k], k, n)
    BY <2>0 DEF Grown, Stacked
  <2>1. Chain(st[k].kids, lo, lv, b[k], k, Len(ns)) /\ st2[k] = st[k]
    BY <2>0
  <2>2. Chain(st2[k].kids, lo2, lv2, b[k], k, Len(ns))
    BY <1>1, <2>1, ChainKept DEF lo2, lv2
  <2> QED
    BY <1>1, <2>2, ChainWider
<1>9. Grown(more, st2, TRUE, lo2, lv2, b)
  <2>1. Len(st2) + 1 = l
    OBVIOUS
  <2> QED
    BY <1>1, <1>2, <1>7, <1>8, <2>1 DEF Grown
<1> QED
  BY <1>9

\* A step that ends in an error leaves nothing to say.
LEMMA RejectShape ==
  ASSUME NEW class \in InputClass, NEW offset, NEW reached, Unwind(class, offset, reached)
  PROVE  ShapeInv'
BY DEF Unwind, ShapeInv, Accepted, InputClass

\* A value was completed: a node more.
LEMMA CompleteAdds ==
  ASSUME IInv, NEW node \in Node, NEW p, Complete(node, p)
  PROVE  OneMore(nodes', nodes) /\ nodes'[Len(nodes) + 1] = node
BY DEF IInv, TypeOK, Complete, OneMore

LEMMA LeafShape ==
  ASSUME IInv, ShapeInv, pc = "value", NEW node \in Node, NEW p, Complete(node, p),
         node.kind \in Container => node.kids = <<>> /\ Len(stack) < maxDepth, stack' = stack
  PROVE  ShapeInv'
<1>1. OneMore(nodes', nodes) /\ nodes'[Len(nodes) + 1] = node
  BY CompleteAdds
<1>2. PICK lo, lv, b : Grown(nodes, stack, FALSE, lo, lv, b)
  BY DEF ShapeInv
<1>3. Len(stack) \in 0 .. maxDepth
  BY LimitsPositive DEF IInv, TypeOK, DepthBalanced
<1>4. \E lo2, lv2 : Grown(nodes', stack, TRUE, lo2, lv2, b)
  BY <1>1, <1>2, <1>3, LeafGrows
<1>5. pc' = "return"
  BY DEF Complete
<1> QED
  BY <1>4, <1>5 DEF ShapeInv

LEMMA EnterShape ==
  ASSUME IInv, ShapeInv, NEW kind \in Container, Enter(kind)
  PROVE  ShapeInv'
<1> DEFINE f == NewFrame(kind)
<1>1. pc = "value"
  BY DEF Enter, ValueAt, CountValue
<1>2. PICK q \in skipWhitespace(pos + 1) :
        \/ newError("INVALID_GRAMMAR", q)
        \/ Complete(Closed(f), q + 1) /\ UNCHANGED <<depth, stack>>
        \/ /\ stack' = Append(stack, f)
           /\ pc' = IF kind = "object" THEN "key" ELSE "value"
           /\ UNCHANGED <<nodes, outcome>>
  BY DEF Enter
<1>3. CASE newError("INVALID_GRAMMAR", q)
  BY <1>3, RejectShape DEF newError, InputClass
<1>4. CASE Complete(Closed(f), q + 1) /\ UNCHANGED <<depth, stack>>
  <2>1. Closed(f) \in Node /\ Closed(f).kids = <<>>
    BY NewFrameInv DEF Closed, NewFrame
  <2>2. Len(stack) < maxDepth
    <3>1. depth = Len(stack) /\ ~(depth + 1 > maxDepth) /\ Len(stack) \in Nat /\ maxDepth \in Nat
      BY <1>1, LimitsPositive DEF IInv, TypeOK, DepthBalanced, Enter, TooDeep
    <3> QED
      BY <3>1
  <2> HIDE DEF f
  <2> QED
    BY <1>1, <1>4, <2>1, <2>2, LeafShape
<1>5. CASE /\ stack' = Append(stack, f)
           /\ pc' = IF kind = "object" THEN "key" ELSE "value"
           /\ UNCHANGED <<nodes, outcome>>
  <2>1. f \in Frame /\ f.kids = <<>>
    BY NewFrameInv DEF NewFrame
  <2> HIDE DEF f
  <2>2. OneMore(stack', stack) /\ stack'[Len(stack) + 1].kids = <<>>
    BY <1>5, <2>1 DEF OneMore, IInv, TypeOK
  <2>3. PICK lo, lv, b : Grown(nodes, stack, FALSE, lo, lv, b)
    BY <1>1 DEF ShapeInv
  <2>4. Len(nodes) \in Nat
    BY DEF IInv, TypeOK
  <2>5. \E b2 : Grown(nodes, stack', FALSE, lo, lv, b2)
    BY <2>2, <2>3, <2>4, PushGrows
  <2>6. nodes' = nodes /\ pc' \notin {"return", "done"}
    BY <1>5
  <2> QED
    BY <2>5, <2>6 DEF ShapeInv
<1> QED
  BY <1>2, <1>3, <1>4, <1>5

LEMMA ParseKeyShape ==
  ASSUME IInv, ShapeInv, ParseKey
  PROVE  ShapeInv'
<1>1. PICK q \in skipWhitespace(pos) :
        /\ NewKey(q)
        /\ stack' = ReplaceTop([Top EXCEPT !.seen = @ \cup {Decode[peek(q)]},
                                           !.key = Decode[peek(q)]])
  BY DEF ParseKey
<1> DEFINE k == Decode[peek(q)]
           f == [Top EXCEPT !.seen = @ \cup {k}, !.key = k]
<1>2. pc = "key" /\ pc' = "value" /\ stack # <<>> /\ nodes' = nodes
  BY DEF IInv, ControlInv, ParseKey, ReadKey
<1>3. Top \in Frame /\ Len(stack) \in 1 .. Len(stack)
  BY <1>2, TopType DEF IInv
<1>4. k \in Keys
  BY <1>1, DecodeAssumption DEF NewKey
<1>5. f \in Frame /\ f.kids = Top.kids
  BY <1>3, <1>4 DEF Frame
<1>6. stack' = ReplaceTop(f)
  BY <1>1
<1> HIDE DEF f
<1>7. Len(stack') = Len(stack) /\ \A i \in 1 .. Len(stack) : stack'[i].kids = stack[i].kids
  BY <1>2, <1>3, <1>5, <1>6, ReplaceTopIs DEF IInv, Top
<1>8. PICK lo, lv, b : Grown(nodes, stack, FALSE, lo, lv, b)
  BY <1>2 DEF ShapeInv
<1>9. Grown(nodes, stack', FALSE, lo, lv, b)
  BY <1>7, <1>8 DEF Grown, Stacked
<1> QED
  BY <1>2, <1>9 DEF ShapeInv

LEMMA ResumeShape ==
  ASSUME IInv, ShapeInv, NEW kind \in Container, Resume(kind)
  PROVE  ShapeInv'
<1> DEFINE f == Adopt(Top)
<1>1. /\ pc = "return" /\ stack # <<>> /\ Top.kind = kind
      /\ ~Full(Top)
  BY DEF Resume, ReturnTo, Returning
<1>2. /\ Top \in Frame /\ Len(stack) \in 1 .. Len(stack) /\ Len(stack) \in Nat \ {0}
      /\ Len(stack) <= maxDepth /\ Len(nodes) \in Nat /\ Top = stack[Len(stack)]
  BY <1>1, TopType DEF IInv, TypeOK, DepthBalanced, Top
<1>3. Len(Top.kids) < maxChildren(kind)
  <2>1. Len(Top.kids) \in Nat /\ maxChildren(kind) \in Nat
    BY <1>2, LimitsPositive DEF Frame
  <2> QED
    BY <1>1, <2>1 DEF Full
<1>4. FrameInv(Top) /\ (Top.kind = "object" => KeyPending(Top))
  BY <1>1, <1>2 DEF IInv, StackInv
<1>5. f \in Frame /\ f.kind = kind /\ Closed(f) \in Node
  BY <1>1, <1>2, <1>3, <1>4, AdoptInv
<1>6. /\ Top.kids \in Seq(Nat) /\ f.kids = Append(Top.kids, Len(nodes))
      /\ Closed(f).kids = f.kids /\ Closed(f).kind = kind
  BY <1>2, <1>5 DEF Frame, Adopt, Closed
<1>7. PICK q \in skipWhitespace(pos) :
        \/ Complete(Closed(f), q + 1) /\ stack' = Pop
        \/ /\ stack' = ReplaceTop(f)
           /\ pc' \in {"key", "value"}
           /\ UNCHANGED <<nodes, outcome>>
        \/ newError("INVALID_GRAMMAR", q)
  BY DEF Resume, Leave
<1> HIDE DEF f
<1>8. PICK lo, lv, b : Grown(nodes, stack, TRUE, lo, lv, b)
  BY <1>1 DEF ShapeInv
<1>9. CASE Complete(Closed(f), q + 1) /\ stack' = Pop
  <2>1. OneMore(nodes', nodes) /\ nodes'[Len(nodes) + 1] = Closed(f)
    BY <1>5, <1>9, CompleteAdds
  <2>2. Len(stack') = Len(stack) - 1 /\ \A k \in 1 .. Len(stack) - 1 : stack'[k] = stack[k]
    BY <1>1, <1>9, PopIs DEF IInv
  <2>3. \E lo2, lv2 : Grown(nodes', stack', TRUE, lo2, lv2, b)
    BY <1>2, <1>6, <1>8, <2>1, <2>2, LeaveGrows
  <2>4. pc' = "return"
    BY <1>9 DEF Complete
  <2> QED
    BY <2>3, <2>4 DEF ShapeInv
<1>10. CASE /\ stack' = ReplaceTop(f)
            /\ pc' \in {"key", "value"}
            /\ UNCHANGED <<nodes, outcome>>
  <2>1. /\ Len(stack') = Len(stack) /\ stack'[Len(stack)] = f
        /\ \A k \in 1 .. Len(stack) - 1 : stack'[k] = stack[k]
    BY <1>1, <1>5, <1>10, ReplaceTopIs DEF IInv
  <2>2. \E b2 : Grown(nodes, stack', FALSE, lo, lv, b2)
    BY <1>2, <1>6, <1>8, <2>1, AdoptGrows
  <2>3. nodes' = nodes /\ pc' \notin {"return", "done"}
    BY <1>10
  <2> QED
    BY <2>2, <2>3 DEF ShapeInv
<1>11. CASE newError("INVALID_GRAMMAR", q)
  BY <1>11, RejectShape DEF newError, InputClass
<1> QED
  BY <1>7, <1>9, <1>10, <1>11

\* A step that rejects ends in an error.
LEMMA Rejected ==
  ASSUME \/ RejectOversize \/ RejectInvalidUTF8 \/ RejectValueCount \/ RejectLeaf
         \/ RejectNonValue \/ RejectDepth \/ RejectNonKey \/ RejectKey \/ RejectDuplicate
         \/ RejectNoColon \/ RejectChild
  PROVE  pc' = "done" /\ outcome' # Accepted
<1>1. ASSUME NEW class \in InputClass, NEW offset, NEW reached, Unwind(class, offset, reached)
      PROVE  pc' = "done" /\ outcome' # Accepted
  BY <1>1 DEF Unwind, Accepted, InputClass
<1>2. CASE RejectOversize \/ RejectInvalidUTF8 \/ RejectValueCount \/ RejectNonValue
           \/ RejectDuplicate \/ RejectChild
  BY <1>1, <1>2 DEF RejectOversize, RejectInvalidUTF8, RejectValueCount,
     RejectNonValue, RejectDuplicate, RejectChild, newError, InputClass
<1>3. CASE RejectNonKey \/ RejectNoColon
  BY <1>1, <1>3 DEF RejectNonKey, RejectNoColon, expectFails, newError, InputClass
<1>4. CASE RejectLeaf
  BY <1>1, <1>4, DecodeAssumption DEF RejectLeaf, ValueAt, newError
<1>5. CASE RejectKey
  <2>1. PICK q \in skipWhitespace(pos) : peek(q) \in BadStrings /\ newError(Fault[peek(q)], q)
    BY <1>5 DEF RejectKey
  <2> QED
    BY <1>1, <2>1, DecodeAssumption DEF newError
<1>6. CASE RejectDepth
  BY <1>6 DEF RejectDepth, Accepted
<1> QED
  BY <1>2, <1>3, <1>4, <1>5, <1>6

\* Every other step returns the last value, changes no node, or rejects.
LEMMA OtherShape ==
  ASSUME IInv, ShapeInv,
         \/ RejectOversize \/ RejectInvalidUTF8 \/ Begin \/ RejectValueCount \/ RejectLeaf
         \/ RejectNonValue \/ RejectDepth \/ RejectNonKey \/ RejectKey \/ RejectDuplicate
         \/ RejectNoColon \/ RejectChild \/ Finish \/ Stop \/ UNCHANGED vars
  PROVE  ShapeInv'
<1>1. CASE RejectOversize \/ RejectInvalidUTF8 \/ RejectValueCount \/ RejectLeaf
           \/ RejectNonValue \/ RejectDepth \/ RejectNonKey \/ RejectKey \/ RejectDuplicate
           \/ RejectNoColon \/ RejectChild
  BY <1>1, Rejected DEF ShapeInv
<1>2. CASE Begin
  BY <1>2 DEF Begin, ShapeInv
<1>3. CASE Finish
  <2>1. pc = "return" /\ stack = <<>>
    BY <1>3 DEF Finish, Returning
  <2>2. PICK q \in skipWhitespace(pos) :
          (pc' = "done" /\ UNCHANGED <<stack, nodes>>) \/ newError("INVALID_GRAMMAR", q)
    BY <1>3 DEF Finish
  <2>3. CASE newError("INVALID_GRAMMAR", q)
    BY <2>3, RejectShape DEF newError, InputClass
  <2>4. CASE pc' = "done" /\ UNCHANGED <<stack, nodes>>
    BY <2>1, <2>4 DEF ShapeInv
  <2> QED
    BY <2>2, <2>3, <2>4
<1>4. CASE Stop \/ UNCHANGED vars
  BY <1>4 DEF Stop, vars, ShapeInv
<1> QED
  BY <1>1, <1>2, <1>3, <1>4

LEMMA InitShape == Init => ShapeInv
<1> SUFFICES ASSUME Init PROVE ShapeInv
  OBVIOUS
<1>1. stack = <<>> /\ nodes = <<>> /\ pc = "start" /\ Len(stack) = 0 /\ Len(nodes) = 0
  BY DEF Init
<1> DEFINE b == [i \in 1 .. 1 |-> 1]
<1>2. b[1] = 1
  OBVIOUS
<1> HIDE DEF b
<1>3. Grown(nodes, stack, FALSE, <<>>, <<>>, b)
  BY <1>1, <1>2 DEF Grown, Forest, Stacked
<1> QED
  BY <1>1, <1>3 DEF ShapeInv

LEMMA NextShape ==
  ASSUME IInv, ShapeInv, [Next]_vars
  PROVE  ShapeInv'
<1>1. CASE ParseLeaf
  <2>1. /\ Leaf(peek(pos)) \in Node /\ Leaf(peek(pos)).kind \notin Container
        /\ Complete(Leaf(peek(pos)), pos + 1) /\ stack' = stack /\ pc = "value"
    BY <1>1, LeafInv DEF ParseLeaf, ValueAt, CountValue, Leaf, Container
  <2> QED
    BY <2>1, LeafShape
<1>2. CASE EnterObject \/ EnterArray
  BY <1>2, EnterShape DEF EnterObject, EnterArray, Container
<1>3. CASE ParseKey
  BY <1>3, ParseKeyShape
<1>4. CASE ResumeObject \/ ResumeArray
  BY <1>4, ResumeShape DEF ResumeObject, ResumeArray, Container
<1> QED
  BY <1>1, <1>2, <1>3, <1>4, OtherShape DEF Next

--------------------------------------------------------------------------------
(* What the tree says of the input. *)

\* The children of r are among the first n nodes.
KidsIn(r, n) ==
  /\ Len(r.kids) \in Nat
  /\ \A i \in 1 .. Len(r.kids) : r.kids[i] \in 1 .. n

KidsKnown(ns, st) ==
  /\ Len(ns) \in Nat /\ Len(st) \in Nat
  /\ \A n \in 1 .. Len(ns) : ns[n].kind \in Container => KidsIn(ns[n], Len(ns))
  /\ \A k \in 1 .. Len(st) : KidsIn(st[k], Len(ns))

\* f and g are the same on the first n places.
Agree(f, g, n) == \A i \in 1 .. n : f[i] = g[i]

\* The text of every value ends behind its first lexeme.
Located(ns, st, from, to, op) ==
  /\ \A n \in 1 .. Len(ns) : from[n] \in Nat /\ to[n] \in Nat \ {0}
  /\ \A k \in 1 .. Len(st) + 1 : op[k] \in Nat

Text(ns, st, mode, p) ==
  \E from, to, op :
    Located(ns, st, from, to, op) /\ Consumed(ns, st, mode, p, from, to, op)

\* The places of the values so far do not depend on what comes later.
LEMMA EndKept ==
  ASSUME NEW r, NEW n, KidsIn(r, n), NEW to, NEW to2, Agree(to2, to, n), NEW o,
         NEW i \in 0 .. Len(r.kids)
  PROVE  EndOf(r.kids, o, i, to2) = EndOf(r.kids, o, i, to)
BY DEF KidsIn, Agree, EndOf

LEMMA DueKept ==
  ASSUME NEW r, NEW n, KidsIn(r, n), NEW to, NEW to2, Agree(to2, to, n), NEW o,
         NEW i \in 1 .. Len(r.kids) + 1, NEW p, Due(r.kids, o, i, p, to)
  PROVE  Due(r.kids, o, i, p, to2)
<1>1. CASE i = 1
  BY <1>1 DEF Due
<1>2. CASE i # 1
  <2>1. i - 1 \in 0 .. Len(r.kids)
    BY <1>2 DEF KidsIn
  <2>2. EndOf(r.kids, o, i - 1, to2) = EndOf(r.kids, o, i - 1, to)
    BY <2>1, EndKept
  <2> QED
    BY <1>2, <2>2 DEF Due
<1> QED
  BY <1>1, <1>2

LEMMA HoldsKept ==
  ASSUME NEW r, NEW n, KidsIn(r, n), NEW from, NEW to, NEW from2, NEW to2,
         Agree(from2, from, n), Agree(to2, to, n), NEW o, Holds(r, o, from, to)
  PROVE  Holds(r, o, from2, to2)
<1> SUFFICES ASSUME NEW i \in 1 .. Len(r.kids)
             PROVE  \E p \in 1 .. Len(input) :
                      /\ Due(r.kids, o, i, p, to2)
                      /\ Leads(r.kind, r.keys[i], p, from2[r.kids[i]])
  BY DEF Holds
<1>1. PICK p \in 1 .. Len(input) : /\ Due(r.kids, o, i, p, to)
                                   /\ Leads(r.kind, r.keys[i], p, from[r.kids[i]])
  BY DEF Holds
<1>2. from2[r.kids[i]] = from[r.kids[i]]
  BY DEF KidsIn, Agree
<1>3. i \in 1 .. Len(r.kids) + 1
  BY DEF KidsIn
<1>4. Due(r.kids, o, i, p, to2)
  BY <1>1, <1>3, DueKept
<1> QED
  BY <1>1, <1>2, <1>4

LEMMA ContinuesKept ==
  ASSUME NEW r, NEW n, KidsIn(r, n), NEW to, NEW to2, Agree(to2, to, n),
         NEW o, NEW q, NEW mode, Continues(r, o, q, mode, to)
  PROVE  Continues(r, o, q, mode, to2)
<1>1. Len(r.kids) + 1 \in 1 .. Len(r.kids) + 1
  BY DEF KidsIn
<1>2. PICK p \in 1 .. Len(input) :
        /\ Due(r.kids, o, Len(r.kids) + 1, p, to)
        /\ IF mode = "key" THEN Blank(p, q) ELSE Leads(r.kind, r.key, p, q)
  BY DEF Continues
<1>3. Due(r.kids, o, Len(r.kids) + 1, p, to2)
  BY <1>1, <1>2, DueKept
<1> QED
  BY <1>2, <1>3 DEF Continues

LEMMA SpelledKept ==
  ASSUME NEW r, NEW n, r.kind \in Container => KidsIn(r, n), NEW from, NEW to, NEW from2, NEW to2,
         Agree(from2, from, n), Agree(to2, to, n), NEW o, NEW e,
         Spelled(r, o, e, from, to)
  PROVE  Spelled(r, o, e, from2, to2)
<1>1. CASE r.kind \in Container
  <2>1. /\ Holds(r, o, from, to) /\ peek(e - 1) = Closer(r.kind)
        /\ Blank(EndOf(r.kids, o, Len(r.kids), to), e - 1) /\ KidsIn(r, n)
    BY <1>1 DEF Spelled
  <2>2. Holds(r, o, from2, to2)
    BY <2>1, HoldsKept
  <2>3. EndOf(r.kids, o, Len(r.kids), to2) = EndOf(r.kids, o, Len(r.kids), to)
    BY <2>1 DEF KidsIn, Agree, EndOf
  <2> QED
    BY <1>1, <2>1, <2>2, <2>3 DEF Spelled
<1>2. CASE r.kind \notin Container
  BY <1>2 DEF Spelled
<1> QED
  BY <1>1, <1>2

\* What was read is also said with other places, if they agree so far.
LEMMA ConsumedKept ==
  ASSUME NEW ns, NEW st, KidsKnown(ns, st), NEW mode, NEW p,
         NEW from, NEW to, NEW op, Consumed(ns, st, mode, p, from, to, op),
         NEW from2, NEW to2, NEW op2, Agree(from2, from, Len(ns)),
         Agree(to2, to, Len(ns)), Agree(op2, op, Len(st) + 1),
         mode \in {"value", "key"} \/ Len(ns) # 0
  PROVE  Consumed(ns, st, mode, p, from2, to2, op2)
<1>1. /\ Len(ns) \in Nat /\ Len(st) \in Nat
      /\ \A n \in 1 .. Len(ns) : ns[n].kind \in Container => KidsIn(ns[n], Len(ns))
      /\ \A k \in 1 .. Len(st) : KidsIn(st[k], Len(ns))
  BY DEF KidsKnown
<1>2. \A n \in 1 .. Len(ns) : Spelled(ns[n], from2[n], to2[n], from2, to2)
  <2> SUFFICES ASSUME NEW n \in 1 .. Len(ns)
               PROVE  Spelled(ns[n], from2[n], to2[n], from2, to2)
    OBVIOUS
  <2>1. /\ Spelled(ns[n], from[n], to[n], from, to)
        /\ ns[n].kind \in Container => KidsIn(ns[n], Len(ns))
    BY <1>1 DEF Consumed
  <2>2. from2[n] = from[n] /\ to2[n] = to[n]
    BY DEF Agree
  <2>3. Spelled(ns[n], from[n], to[n], from2, to2)
    BY <2>1, SpelledKept
  <2> QED
    BY <2>2, <2>3
<1>3. ASSUME NEW k \in 1 .. Len(st)
      PROVE  /\ Holds(st[k], op2[k], from2, to2)
             /\ Continues(st[k], op2[k], op2[k + 1],
                          IF k = Len(st) THEN mode ELSE "value", to2)
  <2> DEFINE m == IF k = Len(st) THEN mode ELSE "value"
  <2>1. /\ Holds(st[k], op[k], from, to) /\ Continues(st[k], op[k], op[k + 1], m, to)
        /\ KidsIn(st[k], Len(ns))
    BY <1>1 DEF Consumed
  <2>2. op2[k] = op[k] /\ op2[k + 1] = op[k + 1]
    <3>1. k \in 1 .. Len(st) + 1 /\ k + 1 \in 1 .. Len(st) + 1
      BY <1>1
    <3> QED
      BY <3>1 DEF Agree
  <2> HIDE DEF m
  <2>3. Holds(st[k], op[k], from2, to2)
    BY <2>1, HoldsKept
  <2>4. Continues(st[k], op[k], op[k + 1], m, to2)
    BY <2>1, ContinuesKept
  <2>5. Continues(st[k], op2[k], op2[k + 1], m, to2)
    BY <2>2, <2>4
  <2> QED
    BY <2>2, <2>3, <2>5 DEF m
<1>4. op2[1] = op[1] /\ op2[Len(st) + 1] = op[Len(st) + 1]
  <2>1. 1 \in 1 .. Len(st) + 1 /\ Len(st) + 1 \in 1 .. Len(st) + 1
    BY <1>1
  <2> QED
    BY <2>1 DEF Agree
<1>5. mode \notin {"value", "key"} =>
        from2[Len(ns)] = from[Len(ns)] /\ to2[Len(ns)] = to[Len(ns)]
  <2> SUFFICES ASSUME mode \notin {"value", "key"}
               PROVE  from2[Len(ns)] = from[Len(ns)] /\ to2[Len(ns)] = to[Len(ns)]
    OBVIOUS
  <2>1. Len(ns) \in 1 .. Len(ns)
    BY <1>1
  <2> QED
    BY <2>1 DEF Agree
<1> QED
  BY <1>2, <1>3, <1>4, <1>5 DEF Consumed

LEMMA BlankJoins ==
  ASSUME NEW p \in Nat, NEW q \in Nat, NEW r \in Nat, Blank(p, q), Blank(q, r)
  PROVE  Blank(p, r)
<1>1. p <= q /\ q <= r /\ (\A i \in p .. q - 1 : peek(i) = "ws")
      /\ (\A i \in q .. r - 1 : peek(i) = "ws")
  BY DEF Blank
<1>2. ASSUME NEW i \in p .. r - 1 PROVE peek(i) = "ws"
  <2>1. i \in p .. q - 1 \/ i \in q .. r - 1
    OBVIOUS
  <2> QED
    BY <1>1, <2>1
<1> QED
  BY <1>1, <1>2 DEF Blank

LEMMA BlankNone == \A p \in Nat : Blank(p, p)
BY DEF Blank

LEMMA BlankSkipped ==
  ASSUME NEW p \in Nat, NEW q \in skipWhitespace(p)
  PROVE  Blank(p, q)
BY DEF skipWhitespace, Blank

LEMMA PeekInside ==
  ASSUME NEW p \in Nat, peek(p) # "eof", TypeOK
  PROVE  p + 1 \in 1 .. Len(input)
BY DEF peek, TypeOK

\* A container that stays as it is goes on to be said.
LEMMA FrameKept ==
  ASSUME NEW f, NEW n, KidsIn(f, n), NEW from, NEW to, NEW from2, NEW to2,
         Agree(from2, from, n), Agree(to2, to, n), NEW o, NEW q, NEW mode, NEW mode2,
         mode = "key" <=> mode2 = "key",
         Holds(f, o, from, to), Continues(f, o, q, mode, to)
  PROVE  Holds(f, o, from2, to2) /\ Continues(f, o, q, mode2, to2)
<1>1. Holds(f, o, from2, to2)
  BY HoldsKept
<1>2. Continues(f, o, q, mode, to2)
  BY ContinuesKept
<1>3. Continues(f, o, q, mode2, to2)
  BY <1>2 DEF Continues
<1> QED
  BY <1>1, <1>3

\* A node more, with its places.
LEMMA NodesSaid ==
  ASSUME NEW ns, NEW st, KidsKnown(ns, st), NEW from, NEW to,
         \A n \in 1 .. Len(ns) : Spelled(ns[n], from[n], to[n], from, to),
         NEW more, OneMore(more, ns), NEW from2, NEW to2,
         Agree(from2, from, Len(ns)), Agree(to2, to, Len(ns)), NEW o, NEW e,
         from2[Len(ns) + 1] = o, to2[Len(ns) + 1] = e,
         Spelled(more[Len(ns) + 1], o, e, from2, to2)
  PROVE  \A n \in 1 .. Len(more) : Spelled(more[n], from2[n], to2[n], from2, to2)
<1> SUFFICES ASSUME NEW n \in 1 .. Len(more)
             PROVE  Spelled(more[n], from2[n], to2[n], from2, to2)
  OBVIOUS
<1>1. CASE n = Len(ns) + 1
  BY <1>1
<1>2. CASE n # Len(ns) + 1
  <2>1. n \in 1 .. Len(ns) /\ more[n] = ns[n]
    BY <1>2 DEF OneMore
  <2>2. /\ Spelled(ns[n], from[n], to[n], from, to)
        /\ ns[n].kind \in Container => KidsIn(ns[n], Len(ns))
    BY <2>1 DEF KidsKnown
  <2>3. from2[n] = from[n] /\ to2[n] = to[n]
    BY <2>1 DEF Agree
  <2>4. Spelled(ns[n], from[n], to[n], from2, to2)
    BY <2>2, SpelledKept
  <2> QED
    BY <2>1, <2>3, <2>4
<1> QED
  BY <1>1, <1>2

LEMMA WithAgrees ==
  ASSUME NEW n \in Nat, NEW f, NEW x
  PROVE  Agree(With(f, n + 1, x), f, n) /\ With(f, n + 1, x)[n + 1] = x
BY DEF With, Agree

\* The text of the value r is the same wherever its children are: it has none.
SpelledAlone(r, o, e) == \A from, to : Spelled(r, o, e, from, to)

\* A value without children is returned.
LEMMA TextComplete ==
  ASSUME NEW ns, NEW st, NEW p \in Nat, KidsKnown(ns, st), Text(ns, st, "value", p),
         NEW more, OneMore(more, ns), NEW e \in Nat \ {0},
         SpelledAlone(more[Len(ns) + 1], p, e)
  PROVE  Text(more, st, "return", e)
<1>1. PICK from, to, op :
        Located(ns, st, from, to, op) /\ Consumed(ns, st, "value", p, from, to, op)
  BY DEF Text
<1> DEFINE n == Len(ns) + 1
           from2 == With(from, n, p)
           to2 == With(to, n, e)
<1>2. Len(ns) \in Nat /\ Len(st) \in Nat /\ Len(more) = n
  BY DEF KidsKnown, OneMore
<1>3. /\ Agree(from2, from, Len(ns)) /\ Agree(to2, to, Len(ns))
      /\ from2[n] = p /\ to2[n] = e
  BY <1>2, WithAgrees
<1> HIDE DEF from2, to2
<1>4. \A i \in 1 .. Len(more) : Spelled(more[i], from2[i], to2[i], from2, to2)
  <2>1. Spelled(more[n], p, e, from2, to2)
    BY DEF SpelledAlone
  <2>2. \A i \in 1 .. Len(ns) : Spelled(ns[i], from[i], to[i], from, to)
    BY <1>1 DEF Consumed
  <2> QED
    BY <1>3, <2>1, <2>2, NodesSaid
<1>5. ASSUME NEW k \in 1 .. Len(st)
      PROVE  /\ Holds(st[k], op[k], from2, to2)
             /\ Continues(st[k], op[k], op[k + 1],
                          IF k = Len(st) THEN "return" ELSE "value", to2)
  <2> DEFINE m == IF k = Len(st) THEN "value" ELSE "value"
             m2 == IF k = Len(st) THEN "return" ELSE "value"
  <2>1. /\ Holds(st[k], op[k], from, to) /\ Continues(st[k], op[k], op[k + 1], m, to)
        /\ KidsIn(st[k], Len(ns))
    BY <1>1 DEF Consumed, KidsKnown
  <2>2. m = "key" <=> m2 = "key"
    OBVIOUS
  <2> HIDE DEF m, m2
  <2>3. Holds(st[k], op[k], from2, to2) /\ Continues(st[k], op[k], op[k + 1], m2, to2)
    BY <1>3, <2>1, <2>2, FrameKept
  <2> QED
    BY <2>3 DEF m2
<1>6. Blank(0, op[1]) /\ op[Len(st) + 1] = p
  BY <1>1 DEF Consumed
<1>7. Blank(to2[n], e)
  BY <1>3, BlankNone
<1>8. Consumed(more, st, "return", e, from2, to2, op)
  BY <1>2, <1>3, <1>4, <1>5, <1>6, <1>7 DEF Consumed
<1>9. Located(more, st, from2, to2, op)
  <2>1. \A i \in 1 .. Len(ns) : from2[i] \in Nat /\ to2[i] \in Nat \ {0}
    BY <1>1, <1>3 DEF Located, Agree
  <2>2. \A i \in 1 .. n : from2[i] \in Nat /\ to2[i] \in Nat \ {0}
    <3>1. \A i \in 1 .. n : i \in 1 .. Len(ns) \/ i = n
      BY <1>2
    <3> QED
      BY <1>3, <2>1, <3>1
  <2> QED
    BY <1>1, <1>2, <2>2 DEF Located
<1> QED
  BY <1>8, <1>9 DEF Text

\* A container is opened at p: its first child is due behind the bracket.
LEMMA TextPush ==
  ASSUME TypeOK, NEW ns, NEW st, NEW p \in Nat, KidsKnown(ns, st), Text(ns, st, "value", p),
         NEW kind \in Container, peek(p) = Opener(kind), NEW q \in Nat, Blank(p + 1, q),
         NEW more, OneMore(more, st), NEW f, more[Len(st) + 1] = f,
         f.kind = kind, f.kids = <<>>
  PROVE  Text(ns, more, IF kind = "object" THEN "key" ELSE "value", q)
<1>1. PICK from, to, op :
        Located(ns, st, from, to, op) /\ Consumed(ns, st, "value", p, from, to, op)
  BY DEF Text
<1> DEFINE l == Len(st) + 1
           op2 == With(op, l + 1, q)
           mode == IF kind = "object" THEN "key" ELSE "value"
<1>2. Len(ns) \in Nat /\ Len(st) \in Nat /\ Len(more) = l /\ l \in Nat
  BY DEF KidsKnown, OneMore
<1>3. op2[l + 1] = q /\ \A i \in 1 .. l : op2[i] = op[i]
  BY <1>2 DEF With
<1> HIDE DEF op2
<1>4. op[l] = p /\ Blank(0, op[1])
  BY <1>1 DEF Consumed
<1>5. ASSUME NEW k \in 1 .. Len(more)
      PROVE  /\ Holds(more[k], op2[k], from, to)
             /\ Continues(more[k], op2[k], op2[k + 1],
                          IF k = Len(more) THEN mode ELSE "value", to)
  <2>1. CASE k = l
    <3>1. more[k] = f /\ op2[k] = p /\ op2[k + 1] = q
      BY <1>2, <1>3, <1>4, <2>1
    <3>2. Holds(f, p, from, to)
      BY DEF Holds
    <3>3. p + 1 \in 1 .. Len(input)
      <4>1. peek(p) # "eof"
        BY DEF Opener
      <4> QED
        BY <4>1, PeekInside
    <3>4. Due(f.kids, p, Len(f.kids) + 1, p + 1, to)
      BY DEF Due
    <3>5. IF mode = "key" THEN Blank(p + 1, q) ELSE Leads(f.kind, f.key, p + 1, q)
      BY DEF Leads, Container
    <3> HIDE DEF mode
    <3>6. Continues(f, p, q, mode, to)
      BY <3>3, <3>4, <3>5 DEF Continues
    <3> QED
      BY <1>2, <2>1, <3>1, <3>2, <3>6
  <2>2. CASE k # l
    <3>1. k \in 1 .. Len(st) /\ more[k] = st[k]
      BY <1>2, <2>2 DEF OneMore
    <3>2. op2[k] = op[k] /\ op2[k + 1] = op[k + 1]
      BY <1>2, <1>3, <3>1
    <3>3. Holds(st[k], op[k], from, to) /\ Continues(st[k], op[k], op[k + 1], "value", to)
      BY <1>1, <3>1 DEF Consumed
    <3> QED
      BY <1>2, <2>2, <3>1, <3>2, <3>3
  <2> QED
    BY <2>1, <2>2
<1>6. Blank(0, op2[1])
  BY <1>2, <1>3, <1>4
<1>7. mode \in {"value", "key"}
  OBVIOUS
<1> HIDE DEF mode
<1>8. Consumed(ns, more, mode, q, from, to, op2)
  BY <1>1, <1>2, <1>3, <1>5, <1>6, <1>7 DEF Consumed
<1>9. Located(ns, more, from, to, op2)
  <2>1. \A k \in 1 .. l : op[k] \in Nat
    BY <1>1 DEF Located
  <2>2. \A k \in 1 .. l + 1 : op2[k] \in Nat
    BY <1>2, <1>3, <2>1
  <2> QED
    BY <1>1, <1>2, <2>2 DEF Located
<1>10. Text(ns, more, mode, q)
  BY <1>8, <1>9 DEF Text
<1> QED
  BY <1>10 DEF mode

\* The innermost container is another, which goes on from there.
LEMMA TextTop ==
  ASSUME NEW ns, NEW st, Len(st) \in Nat \ {0}, NEW from, NEW to, NEW op, NEW old, NEW p,
         Located(ns, st, from, to, op), Consumed(ns, st, old, p, from, to, op),
         NEW st2, Len(st2) = Len(st), \A k \in 1 .. Len(st) - 1 : st2[k] = st[k],
         NEW f, st2[Len(st)] = f, NEW mode \in {"value", "key"}, NEW q \in Nat,
         Holds(f, op[Len(st)], from, to), Continues(f, op[Len(st)], q, mode, to)
  PROVE  Text(ns, st2, mode, q)
<1> DEFINE l == Len(st)
           op2 == With(op, l + 1, q)
<1>1. op2[l + 1] = q /\ \A i \in 1 .. l : op2[i] = op[i]
  BY DEF With
<1> HIDE DEF op2
<1>2. ASSUME NEW k \in 1 .. Len(st2)
      PROVE  /\ Holds(st2[k], op2[k], from, to)
             /\ Continues(st2[k], op2[k], op2[k + 1],
                          IF k = Len(st2) THEN mode ELSE "value", to)
  <2>1. CASE k = l
    BY <1>1, <2>1
  <2>2. CASE k # l
    <3>1. k \in 1 .. Len(st) - 1 /\ k \in 1 .. Len(st) /\ st2[k] = st[k]
      BY <2>2
    <3>2. op2[k] = op[k] /\ op2[k + 1] = op[k + 1]
      BY <1>1, <3>1
    <3>3. Holds(st[k], op[k], from, to) /\ Continues(st[k], op[k], op[k + 1], "value", to)
      BY <2>2, <3>1 DEF Consumed
    <3> QED
      BY <2>2, <3>1, <3>2, <3>3
  <2> QED
    BY <2>1, <2>2
<1>3. Blank(0, op2[1])
  BY <1>1 DEF Consumed
<1>4. Consumed(ns, st2, mode, q, from, to, op2)
  BY <1>1, <1>2, <1>3 DEF Consumed
<1>5. Located(ns, st2, from, to, op2)
  <2>1. \A k \in 1 .. l + 1 : op[k] \in Nat
    BY DEF Located
  <2>2. \A k \in 1 .. l + 1 : op2[k] \in Nat
    BY <1>1, <2>1
  <2> QED
    BY <2>2 DEF Located
<1> QED
  BY <1>4, <1>5 DEF Text

\* The key of a member and its colon are read.
LEMMA TextKey ==
  ASSUME TypeOK, NEW ns, NEW st, NEW p \in Nat, Len(st) \in Nat \ {0},
         Text(ns, st, "key", p), st[Len(st)].kind = "object",
         NEW k \in Nat, Blank(p, k), peek(k) \in Strings,
         NEW c \in Nat, Blank(k + 1, c), peek(c) = "colon",
         NEW q \in Nat, Blank(c + 1, q),
         NEW st2, Len(st2) = Len(st), \A i \in 1 .. Len(st) - 1 : st2[i] = st[i],
         NEW f, st2[Len(st)] = f, f.kind = "object", f.kids = st[Len(st)].kids,
         f.keys = st[Len(st)].keys, f.key = Decode[peek(k)]
  PROVE  Text(ns, st2, "value", q)
<1>1. PICK from, to, op :
        Located(ns, st, from, to, op) /\ Consumed(ns, st, "key", p, from, to, op)
  BY DEF Text
<1> DEFINE l == Len(st)
<1>2. Holds(st[l], op[l], from, to) /\ Continues(st[l], op[l], p, "key", to)
  BY <1>1 DEF Consumed
<1>3. Holds(f, op[l], from, to)
  BY <1>2 DEF Holds
<1>4. PICK p0 \in 1 .. Len(input) :
        Due(f.kids, op[l], Len(f.kids) + 1, p0, to) /\ Blank(p0, p)
  <2>1. PICK p0 \in 1 .. Len(input) :
          Due(st[l].kids, op[l], Len(st[l].kids) + 1, p0, to) /\ Blank(p0, p)
    BY <1>2 DEF Continues
  <2>2. Due(f.kids, op[l], Len(f.kids) + 1, p0, to)
    BY <2>1
  <2> QED
    BY <2>1, <2>2
<1>5. Leads(f.kind, f.key, p0, q)
  <2>1. p0 \in Nat /\ Blank(p0, k)
    <3>1. p0 \in Nat /\ Blank(p0, p)
      BY <1>4
    <3> QED
      BY <3>1, BlankJoins
  <2>2. p0 <= k /\ k + 1 <= c /\ c + 1 <= q
    BY <2>1 DEF Blank
  <2>3. k \in p0 .. q /\ c \in p0 .. q
    BY <2>1, <2>2
  <2> QED
    BY <2>1, <2>3 DEF Leads
<1>6. Continues(f, op[l], q, "value", to)
  BY <1>4, <1>5 DEF Continues
<1> QED
  BY <1>1, <1>3, <1>6, TextTop

\* f2 is f with the value of node n appended.
Takes(f2, f, n) ==
  /\ f.kind \in Container /\ f2.kind = f.kind
  /\ f.kids \in Seq(Nat) /\ f2.kids = Append(f.kids, n)
  /\ f.kind = "object" => /\ f.keys \in Seq(Keys) /\ Len(f.keys) = Len(f.kids)
                          /\ f2.keys = Append(f.keys, f.key)

LEMMA TakesIs ==
  ASSUME NEW f2, NEW f, NEW n, Takes(f2, f, n)
  PROVE  /\ Len(f.kids) \in Nat /\ Len(f2.kids) = Len(f.kids) + 1
         /\ f2.kids[Len(f.kids) + 1] = n
         /\ \A i \in 1 .. Len(f.kids) : f2.kids[i] = f.kids[i]
         /\ f.kind \in Container /\ f2.kind = f.kind
BY DEF Takes

LEMMA LeadsAlike ==
  ASSUME NEW kind \in Container, NEW key, NEW key2, NEW p, NEW q, Leads(kind, key, p, q),
         kind = "object" => key = key2
  PROVE  Leads(kind, key2, p, q)
<1>1. CASE kind = "object"
  BY <1>1
<1>2. CASE kind # "object"
  BY <1>2 DEF Leads, Container
<1> QED
  BY <1>1, <1>2

\* The value returned is what the container was waiting for.
LEMMA AdoptHolds ==
  ASSUME NEW f, NEW f2, NEW n, Takes(f2, f, n), NEW o, NEW from, NEW to, NEW mode,
         mode # "key", Holds(f, o, from, to), Continues(f, o, from[n], mode, to)
  PROVE  Holds(f2, o, from, to)
<1> DEFINE l == Len(f.kids)
<1>1. /\ l \in Nat /\ Len(f2.kids) = l + 1 /\ f2.kids[l + 1] = n
      /\ \A i \in 1 .. l : f2.kids[i] = f.kids[i]
      /\ f.kind \in Container /\ f2.kind = f.kind
  BY TakesIs
<1>2. f.kind = "object" => /\ f2.keys[l + 1] = f.key
                           /\ \A i \in 1 .. l : f2.keys[i] = f.keys[i]
  BY DEF Takes
<1> HIDE DEF l
<1>3. ASSUME NEW i \in 1 .. l + 1, NEW p, Due(f.kids, o, i, p, to)
      PROVE  Due(f2.kids, o, i, p, to)
  <2>1. CASE i = 1
    BY <1>3, <2>1 DEF Due
  <2>2. CASE i # 1
    <3>1. i - 1 \in 1 .. l
      BY <1>1, <2>2
    <3>2. EndOf(f2.kids, o, i - 1, to) = EndOf(f.kids, o, i - 1, to)
      BY <1>1, <3>1 DEF EndOf
    <3> QED
      BY <1>3, <2>2, <3>2 DEF Due
  <2> QED
    BY <2>1, <2>2
<1>4. ASSUME NEW i \in 1 .. Len(f2.kids)
      PROVE  \E p \in 1 .. Len(input) :
               /\ Due(f2.kids, o, i, p, to)
               /\ Leads(f2.kind, f2.keys[i], p, from[f2.kids[i]])
  <2>1. i \in 1 .. l + 1
    BY <1>1
  <2>2. CASE i = l + 1
    <3>1. PICK p \in 1 .. Len(input) :
            Due(f.kids, o, l + 1, p, to) /\ Leads(f.kind, f.key, p, from[n])
      BY DEF Continues, l
    <3>2. Leads(f.kind, f2.keys[l + 1], p, from[n])
      BY <1>1, <1>2, <3>1, LeadsAlike
    <3> QED
      BY <1>1, <1>3, <2>1, <2>2, <3>1, <3>2
  <2>3. CASE i # l + 1
    <3>1. i \in 1 .. l
      BY <1>1, <2>1, <2>3
    <3>2. PICK p \in 1 .. Len(input) :
            Due(f.kids, o, i, p, to) /\ Leads(f.kind, f.keys[i], p, from[f.kids[i]])
      BY <3>1 DEF Holds, l
    <3>3. Leads(f.kind, f2.keys[i], p, from[f.kids[i]])
      <4>1. f.kind = "object" => f.keys[i] = f2.keys[i]
        BY <1>2, <3>1
      <4> QED
        BY <1>1, <3>2, <4>1, LeadsAlike
    <3>4. f2.kids[i] = f.kids[i] /\ Due(f2.kids, o, i, p, to)
      BY <1>1, <1>3, <2>1, <3>1, <3>2
    <3> QED
      BY <1>1, <3>3, <3>4
  <2> QED
    BY <2>2, <2>3
<1>5. peek(o) = Opener(f2.kind)
  BY <1>1 DEF Holds
<1> QED
  BY <1>4, <1>5 DEF Holds

\* A comma follows: the next child is due behind it.
LEMMA TextComma ==
  ASSUME TypeOK, NEW ns, NEW st, NEW p \in Nat, Len(st) \in Nat \ {0}, KidsKnown(ns, st),
         Text(ns, st, "return", p), NEW f, Takes(f, st[Len(st)], Len(ns)),
         NEW q \in Nat, Blank(p, q), peek(q) = "comma", NEW r \in Nat, Blank(q + 1, r),
         NEW st2, Len(st2) = Len(st), \A k \in 1 .. Len(st) - 1 : st2[k] = st[k],
         st2[Len(st)] = f
  PROVE  Text(ns, st2, IF f.kind = "object" THEN "key" ELSE "value", r)
<1>1. PICK from, to, op :
        Located(ns, st, from, to, op) /\ Consumed(ns, st, "return", p, from, to, op)
  BY DEF Text
<1> DEFINE l == Len(st)
           o == op[l]
           c == Len(f.kids) + 1
           mode == IF f.kind = "object" THEN "key" ELSE "value"
<1>2. /\ Holds(st[l], o, from, to) /\ Continues(st[l], o, from[Len(ns)], "return", to)
      /\ to[Len(ns)] = p
  <2>1. /\ Holds(st[l], o, from, to) /\ Continues(st[l], o, op[l + 1], "return", to)
        /\ op[l + 1] = from[Len(ns)] /\ to[Len(ns)] = p
    BY <1>1 DEF Consumed
  <2> QED
    BY <2>1
<1>3. Holds(f, o, from, to)
  <2> HIDE DEF l, o
  <2> QED
    BY <1>2, AdoptHolds DEF l
<1>4. /\ Len(f.kids) \in Nat \ {0} /\ f.kids[Len(f.kids)] = Len(ns)
      /\ f.kind \in Container
  <2> DEFINE g == st[Len(st)]
  <2>1. Takes(f, g, Len(ns))
    OBVIOUS
  <2> HIDE DEF g
  <2>2. /\ Len(g.kids) \in Nat /\ Len(f.kids) = Len(g.kids) + 1
        /\ f.kids[Len(g.kids) + 1] = Len(ns) /\ g.kind \in Container /\ f.kind = g.kind
    BY <2>1, TakesIs
  <2> QED
    BY <2>2
<1>5. q + 1 \in 1 .. Len(input)
  BY PeekInside
<1>6. Due(f.kids, o, c, q + 1, to)
  <2>1. EndOf(f.kids, o, c - 1, to) = p
    BY <1>2, <1>4 DEF EndOf
  <2>2. c # 1 /\ q + 1 - 1 = q
    BY <1>4
  <2> HIDE DEF c, o
  <2> QED
    BY <2>1, <2>2 DEF Due
<1>7. IF mode = "key" THEN Blank(q + 1, r) ELSE Leads(f.kind, f.key, q + 1, r)
  BY <1>4 DEF Leads, Container
<1> HIDE DEF mode
<1>8. Continues(f, o, r, mode, to)
  BY <1>5, <1>6, <1>7 DEF Continues
<1>9. mode \in {"value", "key"}
  BY DEF mode
<1>10. Text(ns, st2, mode, r)
  BY <1>1, <1>3, <1>8, <1>9, TextTop
<1> QED
  BY <1>10 DEF mode

\* The closing bracket follows: the container's own text is complete.
LEMMA TextLeave ==
  ASSUME NEW ns, NEW st, NEW p \in Nat, Len(st) \in Nat \ {0}, KidsKnown(ns, st),
         Len(ns) # 0, Text(ns, st, "return", p),
         NEW f, Takes(f, st[Len(st)], Len(ns)),
         NEW q \in Nat, Blank(p, q), peek(q) = Closer(f.kind),
         NEW st2, Len(st2) = Len(st) - 1, \A k \in 1 .. Len(st) - 1 : st2[k] = st[k],
         NEW more, OneMore(more, ns), NEW r, more[Len(ns) + 1] = r,
         r.kind = f.kind, r.keys = f.keys, r.kids = f.kids
  PROVE  Text(more, st2, "return", q + 1)
<1>1. PICK from, to, op :
        Located(ns, st, from, to, op) /\ Consumed(ns, st, "return", p, from, to, op)
  BY DEF Text
<1> DEFINE l == Len(st)
           n == Len(ns) + 1
           o == op[l]
           from2 == With(from, n, o)
           to2 == With(to, n, q + 1)
<1>2. Len(ns) \in Nat /\ l \in Nat \ {0} /\ Len(more) = n /\ o \in Nat
  BY <1>1 DEF KidsKnown, OneMore, Located
<1>3. /\ Agree(from2, from, Len(ns)) /\ Agree(to2, to, Len(ns))
      /\ from2[n] = o /\ to2[n] = q + 1
  <2> HIDE DEF o
  <2> QED
    BY <1>2, WithAgrees
<1> HIDE DEF from2, to2
<1>4. /\ Holds(st[l], o, from, to) /\ Continues(st[l], o, from[Len(ns)], "return", to)
      /\ to[Len(ns)] = p
  <2>1. /\ Holds(st[l], o, from, to) /\ Continues(st[l], o, op[l + 1], "return", to)
        /\ op[l + 1] = from[Len(ns)] /\ to[Len(ns)] = p
    BY <1>1, <1>2 DEF Consumed
  <2> QED
    BY <2>1
<1>5. Holds(f, o, from, to)
  <2> HIDE DEF l, o
  <2> QED
    BY <1>4, AdoptHolds DEF l
<1>6. /\ Len(f.kids) \in Nat \ {0} /\ f.kids[Len(f.kids)] = Len(ns)
      /\ f.kind \in Container /\ KidsIn(f, Len(ns))
  <2> DEFINE g == st[Len(st)]
  <2>1. Takes(f, g, Len(ns))
    OBVIOUS
  <2>2. Len(ns) \in 1 .. Len(ns)
    BY <1>2
  <2>3. \A i \in 1 .. Len(g.kids) : g.kids[i] \in 1 .. Len(ns)
    BY <1>2 DEF KidsKnown, KidsIn
  <2> HIDE DEF g
  <2>4. /\ Len(g.kids) \in Nat /\ Len(f.kids) = Len(g.kids) + 1
        /\ f.kids[Len(g.kids) + 1] = Len(ns) /\ g.kind \in Container /\ f.kind = g.kind
        /\ \A i \in 1 .. Len(g.kids) : f.kids[i] = g.kids[i]
    BY <2>1, TakesIs
  <2>5. ASSUME NEW i \in 1 .. Len(f.kids) PROVE f.kids[i] \in 1 .. Len(ns)
    <3>1. i = Len(g.kids) + 1 \/ i \in 1 .. Len(g.kids)
      BY <2>4
    <3> QED
      BY <2>2, <2>3, <2>4, <3>1
  <2> QED
    BY <2>4, <2>5 DEF KidsIn
<1>7. Spelled(r, o, q + 1, from2, to2)
  <2>1. Holds(r, o, from, to) /\ KidsIn(r, Len(ns))
    <3> HIDE DEF o
    <3> QED
      BY <1>5, <1>6 DEF Holds, KidsIn
  <2>2. Holds(r, o, from2, to2)
    <3> HIDE DEF o
    <3> QED
      BY <1>3, <2>1, HoldsKept
  <2>3. EndOf(r.kids, o, Len(r.kids), to2) = p
    <3>1. Len(ns) \in 1 .. Len(ns)
      BY <1>2
    <3>2. to2[Len(ns)] = p
      BY <1>3, <1>4, <3>1 DEF Agree
    <3> HIDE DEF o
    <3> QED
      BY <1>6, <3>2 DEF EndOf
  <2>4. q + 1 - 1 = q
    OBVIOUS
  <2> HIDE DEF o
  <2> QED
    BY <1>6, <2>2, <2>3, <2>4 DEF Spelled
<1>8. \A i \in 1 .. Len(more) : Spelled(more[i], from2[i], to2[i], from2, to2)
  <2>1. \A i \in 1 .. Len(ns) : Spelled(ns[i], from[i], to[i], from, to)
    BY <1>1 DEF Consumed
  <2>2. Spelled(more[n], o, q + 1, from2, to2)
    BY <1>7
  <2> HIDE DEF o
  <2> QED
    BY <1>3, <2>1, <2>2, NodesSaid
<1>9. ASSUME NEW k \in 1 .. Len(st2)
      PROVE  /\ Holds(st2[k], op[k], from2, to2)
             /\ Continues(st2[k], op[k], op[k + 1],
                          IF k = Len(st2) THEN "return" ELSE "value", to2)
  <2> DEFINE m2 == IF k = Len(st2) THEN "return" ELSE "value"
  <2>1. k \in 1 .. Len(st) - 1 /\ k \in 1 .. Len(st) /\ st2[k] = st[k] /\ k # Len(st)
    BY <1>2
  <2>2. /\ Holds(st[k], op[k], from, to) /\ Continues(st[k], op[k], op[k + 1], "value", to)
        /\ KidsIn(st[k], Len(ns))
    BY <1>1, <2>1 DEF Consumed, KidsKnown
  <2>3. "value" = "key" <=> m2 = "key"
    OBVIOUS
  <2> HIDE DEF m2
  <2>4. Holds(st[k], op[k], from2, to2) /\ Continues(st[k], op[k], op[k + 1], m2, to2)
    BY <1>3, <2>2, <2>3, FrameKept
  <2> QED
    BY <2>1, <2>4 DEF m2
<1>10. Blank(0, op[1]) /\ op[Len(st2) + 1] = o /\ Len(st2) + 1 = l
  BY <1>1 DEF Consumed
<1>11. Blank(q + 1, q + 1)
  BY BlankNone
<1>12. Consumed(more, st2, "return", q + 1, from2, to2, op)
  BY <1>2, <1>3, <1>8, <1>9, <1>10, <1>11 DEF Consumed
<1>13. Located(more, st2, from2, to2, op)
  <2>1. \A i \in 1 .. Len(ns) : from2[i] \in Nat /\ to2[i] \in Nat \ {0}
    BY <1>1, <1>3 DEF Located, Agree
  <2>2. \A i \in 1 .. n : i \in 1 .. Len(ns) \/ i = n
    BY <1>2
  <2>3. q + 1 \in Nat \ {0}
    OBVIOUS
  <2>4. \A i \in 1 .. n : from2[i] \in Nat /\ to2[i] \in Nat \ {0}
    BY <1>2, <1>3, <2>1, <2>2, <2>3
  <2>5. \A k \in 1 .. Len(st2) + 1 : op[k] \in Nat
    BY <1>1, <1>10 DEF Located
  <2> QED
    BY <1>2, <2>4, <2>5 DEF Located
<1> QED
  BY <1>12, <1>13 DEF Text

\* Only whitespace is left.
LEMMA TextEnds ==
  ASSUME TypeOK, NEW ns, Len(ns) \in Nat \ {0}, NEW p \in Nat, Text(ns, <<>>, "return", p),
         Blank(p, Len(input))
  PROVE  Text(ns, <<>>, "done", Len(input))
<1>1. PICK from, to, op :
        Located(ns, <<>>, from, to, op) /\ Consumed(ns, <<>>, "return", p, from, to, op)
  BY DEF Text
<1>2. Consumed(ns, <<>>, "done", Len(input), from, to, op)
  BY <1>1 DEF Consumed
<1> QED
  BY <1>1, <1>2 DEF Text

LEMMA TextBegins ==
  ASSUME NEW q \in Nat, Blank(0, q)
  PROVE  Text(<<>>, <<>>, "value", q)
<1> DEFINE op == [i \in 1 .. 1 |-> q]
<1>1. op[1] = q /\ Len(<<>>) = 0
  OBVIOUS
<1> HIDE DEF op
<1>2. Consumed(<<>>, <<>>, "value", q, <<>>, <<>>, op)
  BY <1>1 DEF Consumed
<1>3. Located(<<>>, <<>>, <<>>, <<>>, op)
  BY <1>1 DEF Located
<1> QED
  BY <1>2, <1>3 DEF Text

\* The input stays what it was.
LEMMA TextNow ==
  ASSUME input' = input, Text(nodes', stack', pc', pos')
  PROVE  Text(nodes, stack, pc, pos)'
<1>1. PICK from, to, op :
        /\ Located(nodes', stack', from, to, op)
        /\ Consumed(nodes', stack', pc', pos', from, to, op)
  BY DEF Text
<1>2. Consumed(nodes, stack, pc, pos, from, to, op)'
  BY <1>1, SMTT(60) DEF Consumed, Holds, Spelled, Continues, Due, Leads, Blank, peek, EndOf
<1>3. Located(nodes, stack, from, to, op)'
  BY <1>1 DEF Located
<1> QED
  BY <1>2, <1>3 DEF Text

\* Before the first value nothing is there; from then on the tree so far says
\* what was read.
SpellInv ==
  /\ pc = "start" => pos = 0 /\ nodes = <<>> /\ stack = <<>>
  /\ pc \in {"value", "key", "return"} \/ outcome = Accepted => Text(nodes, stack, pc, pos)

LEMMA KidsAreKnown ==
  ASSUME IInv, ShapeInv, pc \in {"value", "key", "return"} \/ outcome = Accepted
  PROVE  KidsKnown(nodes, stack) /\ (pc \in {"return", "done"} => Len(nodes) # 0)
<1>1. pc \notin {"return", "done"} \/ pc = "return" \/ (pc = "done" /\ outcome = Accepted)
  BY DEF IInv, ControlInv, Accepted, Pending
<1>2. PICK lo, lv, b :
        /\ Forest(nodes, lo, lv) /\ Stacked(stack, lo, lv, b, Len(nodes))
        /\ pc \in {"return", "done"} => Len(nodes) # 0
  <2>1. CASE pc \notin {"return", "done"}
    BY <2>1 DEF ShapeInv, Grown
  <2>2. CASE pc = "return" \/ (pc = "done" /\ outcome = Accepted)
    BY <2>2 DEF ShapeInv, Grown
  <2> QED
    BY <1>1, <2>1, <2>2
<1>3. /\ Len(nodes) \in Nat /\ Len(stack) \in Nat /\ nodes \in Seq(Node)
  BY DEF IInv, TypeOK
<1>4. ASSUME NEW n \in 1 .. Len(nodes), nodes[n].kind \in Container
      PROVE  KidsIn(nodes[n], Len(nodes))
  BY <1>2, <1>3, <1>4 DEF Forest, NodeFits, Chain, KidsIn
<1>5. ASSUME NEW k \in 1 .. Len(stack) PROVE KidsIn(stack[k], Len(nodes))
  BY <1>2 DEF Stacked, Chain, KidsIn
<1> QED
  BY <1>2, <1>3, <1>4, <1>5 DEF KidsKnown

\* The places lie within the input, where the property looks for them.
LEMMA SpelledWithin ==
  ASSUME TypeOK, NEW r, NEW o \in Nat, NEW e \in Nat \ {0}, NEW from, NEW to,
         Spelled(r, o, e, from, to)
  PROVE  /\ e - 1 \in Offsets(Scalars \cup Strings \cup {"rbrace", "rbrack"})
         /\ IF r.kind \in Container THEN o \in Offsets({"lbrace", "lbrack"}) ELSE o = e - 1
<1>1. "eof" \notin Scalars /\ "eof" \notin Strings
  BY LexemeAssumption
<1>2. CASE r.kind \in Container
  <2>1. /\ peek(e - 1) \in {"rbrace", "rbrack"} /\ peek(o) \in {"lbrace", "lbrack"}
        /\ e - 1 \in Nat
    BY <1>2 DEF Spelled, Holds, Closer, Opener
  <2>2. e - 1 + 1 \in 1 .. Len(input) /\ o + 1 \in 1 .. Len(input)
    BY <2>1, PeekInside
  <2>3. e - 1 \in 0 .. Len(input) - 1 /\ o \in 0 .. Len(input) - 1
    BY <2>1, <2>2 DEF TypeOK
  <2> QED
    BY <1>2, <2>1, <2>3 DEF Offsets
<1>3. CASE r.kind \notin Container
  <2>1. e = o + 1 /\ peek(o) \in Scalars \cup Strings
    BY <1>3 DEF Spelled
  <2>2. o + 1 \in 1 .. Len(input)
    BY <1>1, <2>1, PeekInside
  <2>3. e - 1 = o /\ o \in 0 .. Len(input) - 1
    BY <2>1, <2>2 DEF TypeOK
  <2> QED
    BY <1>3, <2>1, <2>3 DEF Offsets
<1> QED
  BY <1>2, <1>3

LEMMA TextSpells ==
  ASSUME IInv, ShapeInv, Text(nodes, stack, pc, pos)
  PROVE  TreeSpellsInput
<1> SUFFICES ASSUME pc \in {"value", "key", "return"} \/ outcome = Accepted
             PROVE  TreeSpellsInput
  BY DEF TreeSpellsInput
<1>1. /\ KidsKnown(nodes, stack) /\ (pc \in {"return", "done"} => Len(nodes) # 0)
      /\ pc \in {"value", "key", "return", "done"} /\ TypeOK
  <2>1. outcome = Accepted => pc = "done"
    BY DEF IInv, ControlInv, Accepted, Pending
  <2> QED
    BY <2>1, KidsAreKnown DEF IInv
<1>2. PICK f, g, h :
        Located(nodes, stack, f, g, h) /\ Consumed(nodes, stack, pc, pos, f, g, h)
  BY DEF Text
<1> DEFINE Containers == {n \in 1 .. Len(nodes) : nodes[n].kind \in Container}
           Ends == {p + 1 : p \in Offsets(Scalars \cup Strings \cup {"rbrace", "rbrack"})}
           Openers == Offsets({"lbrace", "lbrack"})
           to == [n \in 1 .. Len(nodes) |-> g[n]]
           start == [n \in Containers |-> f[n]]
           opens == [k \in 1 .. Len(stack) |-> h[k]]
           from == [n \in 1 .. Len(nodes) |->
                      IF n \in Containers THEN start[n] ELSE to[n] - 1]
           op == [k \in 1 .. Len(stack) + 1 |->
                    IF k <= Len(stack) THEN opens[k]
                    ELSE IF pc \in {"value", "key"} THEN pos ELSE from[Len(nodes)]]
<1>3. ASSUME NEW n \in 1 .. Len(nodes)
      PROVE  /\ g[n] \in Ends
             /\ IF nodes[n].kind \in Container THEN f[n] \in Openers ELSE f[n] = g[n] - 1
  <2>1. f[n] \in Nat /\ g[n] \in Nat \ {0} /\ Spelled(nodes[n], f[n], g[n], f, g)
    BY <1>2 DEF Located, Consumed
  <2>2. /\ g[n] - 1 \in Offsets(Scalars \cup Strings \cup {"rbrace", "rbrack"})
        /\ IF nodes[n].kind \in Container THEN f[n] \in Openers ELSE f[n] = g[n] - 1
    BY <1>1, <2>1, SpelledWithin
  <2>3. g[n] = g[n] - 1 + 1
    BY <2>1
  <2> QED
    BY <2>2, <2>3
<1>4. ASSUME NEW k \in 1 .. Len(stack) PROVE h[k] \in Openers
  <2>1. h[k] \in Nat /\ peek(h[k]) \in {"lbrace", "lbrack"}
    BY <1>1, <1>2 DEF Located, Consumed, Holds, Opener, KidsKnown
  <2>2. h[k] + 1 \in 1 .. Len(input)
    BY <1>1, <2>1, PeekInside
  <2>3. h[k] \in 0 .. Len(input) - 1
    BY <1>1, <2>1, <2>2 DEF TypeOK
  <2> QED
    BY <2>1, <2>3 DEF Offsets
<1>5. /\ to \in [1 .. Len(nodes) -> Ends] /\ start \in [Containers -> Openers]
      /\ opens \in [1 .. Len(stack) -> Openers]
  <2> HIDE DEF Ends, Openers
  <2> QED
    BY <1>3, <1>4
<1>6. Agree(to, g, Len(nodes)) /\ Agree(from, f, Len(nodes))
  <2>1. Agree(to, g, Len(nodes))
    BY DEF Agree
  <2>2. ASSUME NEW n \in 1 .. Len(nodes) PROVE from[n] = f[n]
    BY <1>3
  <2> HIDE DEF from
  <2> QED
    BY <2>1, <2>2 DEF Agree
<1>7. Agree(op, h, Len(stack) + 1)
  <2>1. /\ Len(stack) \in Nat /\ Len(nodes) \in Nat
        /\ h[Len(stack) + 1] = IF pc \in {"value", "key"} THEN pos ELSE f[Len(nodes)]
    BY <1>1, <1>2 DEF Consumed, KidsKnown
  <2>2. pc \notin {"value", "key"} => from[Len(nodes)] = f[Len(nodes)]
    <3> HIDE DEF from
    <3> QED
      BY <1>1, <1>6, <2>1 DEF Agree
  <2> HIDE DEF from
  <2>3. ASSUME NEW k \in 1 .. Len(stack) + 1 PROVE op[k] = h[k]
    <3>1. CASE k \in 1 .. Len(stack)
      BY <2>1, <3>1
    <3>2. CASE k = Len(stack) + 1
      BY <2>1, <2>2, <3>2
    <3> QED
      BY <2>1, <3>1, <3>2
  <2> HIDE DEF op
  <2> QED
    BY <2>3 DEF Agree
<1>8. Consumed(nodes, stack, pc, pos, from, to, op)
  <2> HIDE DEF from, to, op
  <2> QED
    BY <1>1, <1>2, <1>6, <1>7, ConsumedKept
<1> HIDE DEF Ends, Openers
<1> QED
  BY <1>5, <1>8, Zenon DEF TreeSpellsInput, Ends, Openers

\* A step that keeps the parser going, or ends it well.
LEMMA TextStep ==
  ASSUME input' = input, Text(nodes', stack', pc', pos'), pc' # "start"
  PROVE  SpellInv'
<1>1. Text(nodes, stack, pc, pos)'
  BY TextNow
<1> QED
  BY <1>1 DEF SpellInv

LEMMA LeafSpell ==
  ASSUME IInv, ShapeInv, SpellInv, ParseLeaf
  PROVE  SpellInv'
<1> DEFINE r == Leaf(peek(pos))
<1>1. /\ pc = "value" /\ pos \in Nat /\ peek(pos) \in Scalars \cup Strings /\ input' = input
      /\ Complete(r, pos + 1) /\ stack' = stack /\ r \in Node
  BY LeafInv DEF IInv, TypeOK, ParseLeaf, ValueAt, CountValue
<1>2. OneMore(nodes', nodes) /\ nodes'[Len(nodes) + 1] = r
  BY <1>1, CompleteAdds
<1>3. SpelledAlone(r, pos, pos + 1)
  BY <1>1 DEF SpelledAlone, Spelled, Leaf, Container
<1>4. Text(nodes, stack, "value", pos) /\ KidsKnown(nodes, stack)
  BY <1>1, KidsAreKnown DEF SpellInv
<1> HIDE DEF r
<1>5. pos + 1 \in Nat \ {0}
  BY <1>1
<1>6. Text(nodes', stack, "return", pos + 1)
  BY <1>1, <1>2, <1>3, <1>4, <1>5, TextComplete
<1>7. pc' = "return" /\ pos' = pos + 1
  BY <1>1 DEF Complete
<1> QED
  BY <1>1, <1>6, <1>7, TextStep

LEMMA EnterSpell ==
  ASSUME IInv, ShapeInv, SpellInv, NEW kind \in Container, Enter(kind)
  PROVE  SpellInv'
<1> DEFINE f == NewFrame(kind)
           r == Closed(f)
           mode == IF kind = "object" THEN "key" ELSE "value"
<1>1. /\ pc = "value" /\ pos \in Nat /\ peek(pos) = Opener(kind) /\ input' = input
      /\ TypeOK
  BY DEF IInv, TypeOK, Enter, ValueAt, CountValue
<1>2. PICK q \in skipWhitespace(pos + 1) :
        \/ newError("INVALID_GRAMMAR", q)
        \/ peek(q) = Closer(kind) /\ Complete(r, q + 1) /\ UNCHANGED <<depth, stack>>
        \/ /\ stack' = Append(stack, f)
           /\ pos' = q /\ pc' = mode
           /\ UNCHANGED <<nodes, outcome>>
  BY DEF Enter
<1>3. q \in Nat /\ pos + 1 \in Nat /\ Blank(pos + 1, q)
  BY <1>1, WhitespaceOffset, BlankSkipped
<1>4. Text(nodes, stack, "value", pos) /\ KidsKnown(nodes, stack)
  BY <1>1, KidsAreKnown DEF SpellInv
<1>5. /\ f \in Frame /\ f.kids = <<>> /\ f.kind = kind /\ r \in Node /\ r.kind = kind
      /\ r.kids = <<>>
  BY NewFrameInv DEF Closed, NewFrame
<1> HIDE DEF f, r, mode
<1>6. CASE newError("INVALID_GRAMMAR", q)
  BY <1>6 DEF newError, Unwind, SpellInv, Accepted
<1>7. CASE peek(q) = Closer(kind) /\ Complete(r, q + 1) /\ UNCHANGED <<depth, stack>>
  <2>1. OneMore(nodes', nodes) /\ nodes'[Len(nodes) + 1] = r
    BY <1>5, <1>7, CompleteAdds
  <2>2. ASSUME NEW from, NEW to PROVE Spelled(r, pos, q + 1, from, to)
    <3>1. EndOf(r.kids, pos, Len(r.kids), to) = pos + 1 /\ q + 1 - 1 = q
      BY <1>3, <1>5 DEF EndOf
    <3>2. Holds(r, pos, from, to)
      BY <1>1, <1>5 DEF Holds
    <3> QED
      BY <1>3, <1>5, <1>7, <3>1, <3>2 DEF Spelled
  <2>3. SpelledAlone(r, pos, q + 1)
    BY <2>2 DEF SpelledAlone
  <2>4. q + 1 \in Nat \ {0}
    BY <1>3
  <2>5. Text(nodes', stack, "return", q + 1)
    BY <1>1, <1>4, <2>1, <2>3, <2>4, TextComplete
  <2>6. pc' = "return" /\ pos' = q + 1 /\ stack' = stack
    BY <1>7 DEF Complete
  <2> QED
    BY <1>1, <2>5, <2>6, TextStep
<1>8. CASE /\ stack' = Append(stack, f)
           /\ pos' = q /\ pc' = mode
           /\ UNCHANGED <<nodes, outcome>>
  <2>1. OneMore(stack', stack) /\ stack'[Len(stack) + 1] = f
    BY <1>5, <1>8 DEF OneMore, IInv, TypeOK
  <2>2. Text(nodes, stack', mode, q)
    BY <1>1, <1>3, <1>4, <1>5, <2>1, TextPush DEF mode
  <2>3. nodes' = nodes /\ pc' = mode /\ pos' = q /\ mode # "start"
    BY <1>8 DEF mode
  <2> QED
    BY <1>1, <2>2, <2>3, TextStep
<1> QED
  BY <1>2, <1>6, <1>7, <1>8

LEMMA ParseKeySpell ==
  ASSUME IInv, ShapeInv, SpellInv, ParseKey
  PROVE  SpellInv'
<1>1. /\ pc = "key" /\ pc' = "value" /\ pos \in Nat /\ stack # <<>> /\ Top.kind = "object"
      /\ input' = input /\ nodes' = nodes /\ TypeOK
  BY DEF IInv, TypeOK, ControlInv, ParseKey, ReadKey
<1>2. PICK k \in skipWhitespace(pos) :
        /\ NewKey(k)
        /\ \E c \in skipWhitespace(k + 1) :
             peek(c) = "colon" /\ pos' \in skipWhitespace(c + 1)
        /\ stack' = ReplaceTop([Top EXCEPT !.seen = @ \cup {Decode[peek(k)]},
                                           !.key = Decode[peek(k)]])
  BY DEF ParseKey
<1> DEFINE d == Decode[peek(k)]
           f == [Top EXCEPT !.seen = @ \cup {d}, !.key = d]
<1>3. PICK c \in skipWhitespace(k + 1) : peek(c) = "colon" /\ pos' \in skipWhitespace(c + 1)
  BY <1>2
<1>4. PICK q \in skipWhitespace(c + 1) : pos' = q
  BY <1>3
<1>5. /\ k \in Nat /\ c \in Nat /\ q \in Nat
      /\ Blank(pos, k) /\ Blank(k + 1, c) /\ Blank(c + 1, q)
  <2>1. k \in Nat /\ Blank(pos, k)
    BY <1>1, WhitespaceOffset, BlankSkipped
  <2>2. c \in Nat /\ Blank(k + 1, c)
    <3>1. k + 1 \in Nat
      BY <2>1
    <3> QED
      BY <1>1, <3>1, WhitespaceOffset, BlankSkipped
  <2>3. q \in Nat /\ Blank(c + 1, q)
    <3>1. c + 1 \in Nat
      BY <2>2
    <3> QED
      BY <1>1, <3>1, WhitespaceOffset, BlankSkipped
  <2> QED
    BY <2>1, <2>2, <2>3
<1>6. Top \in Frame /\ Len(stack) \in Nat \ {0} /\ Top = stack[Len(stack)]
  BY <1>1, TopType DEF Top, TypeOK
<1>7. peek(k) \in Strings /\ d \in Keys
  BY <1>2, DecodeAssumption DEF NewKey
<1>8. /\ f \in Frame /\ f.kind = "object" /\ f.kids = Top.kids /\ f.keys = Top.keys
      /\ f.key = d
  BY <1>1, <1>6, <1>7 DEF Frame
<1>9. stack' = ReplaceTop(f)
  BY <1>2
<1> HIDE DEF f, d
<1>10. /\ Len(stack') = Len(stack) /\ stack'[Len(stack)] = f
       /\ \A i \in 1 .. Len(stack) - 1 : stack'[i] = stack[i]
  BY <1>1, <1>8, <1>9, ReplaceTopIs
<1>11. Text(nodes, stack, "key", pos)
  BY <1>1 DEF SpellInv
<1>12. Text(nodes, stack', "value", q)
  BY <1>1, <1>3, <1>5, <1>6, <1>7, <1>8, <1>10, <1>11, TextKey DEF d
<1> QED
  BY <1>1, <1>4, <1>12, TextStep

LEMMA ResumeSpell ==
  ASSUME IInv, ShapeInv, SpellInv, NEW kind \in Container, Resume(kind)
  PROVE  SpellInv'
<1> DEFINE f == Adopt(Top)
           r == Closed(f)
           mode == IF kind = "object" THEN "key" ELSE "value"
<1>1. /\ pc = "return" /\ stack # <<>> /\ Top.kind = kind /\ ~Full(Top) /\ pos \in Nat
      /\ input' = input /\ TypeOK
  BY DEF IInv, TypeOK, Resume, ReturnTo, Returning
<1>2. /\ Top \in Frame /\ Len(stack) \in Nat \ {0} /\ Top = stack[Len(stack)]
      /\ FrameInv(Top) /\ (Top.kind = "object" => KeyPending(Top))
  BY <1>1, TopType DEF IInv, TypeOK, StackInv, Top
<1>3. Len(Top.kids) < maxChildren(kind)
  <2>1. Len(Top.kids) \in Nat /\ maxChildren(kind) \in Nat
    BY <1>2, LimitsPositive DEF Frame
  <2> QED
    BY <1>1, <2>1 DEF Full
<1>4. f \in Frame /\ f.kind = kind /\ r \in Node
  BY <1>1, <1>2, <1>3, AdoptInv DEF IInv
<1>5. r.kind = f.kind /\ r.keys = f.keys /\ r.kids = f.kids
  BY DEF Closed
<1>6. Takes(f, stack[Len(stack)], Len(nodes))
  BY <1>1, <1>2 DEF Takes, Adopt, Frame, FrameInv, NodeInv, Paired
<1>7. PICK q \in skipWhitespace(pos) :
        \/ peek(q) = Closer(kind) /\ Complete(r, q + 1) /\ stack' = Pop
        \/ /\ peek(q) = "comma" /\ stack' = ReplaceTop(f)
           /\ IF kind = "object" THEN pos' = q + 1 /\ pc' = "key"
              ELSE pos' \in skipWhitespace(q + 1) /\ pc' = "value"
           /\ UNCHANGED nodes
        \/ newError("INVALID_GRAMMAR", q)
  BY DEF Resume, Leave
<1> HIDE DEF f, r
<1>8. q \in Nat /\ Blank(pos, q)
  BY <1>1, WhitespaceOffset, BlankSkipped
<1>9. Text(nodes, stack, "return", pos) /\ KidsKnown(nodes, stack) /\ Len(nodes) # 0
  BY <1>1, KidsAreKnown DEF SpellInv
<1>10. CASE peek(q) = Closer(kind) /\ Complete(r, q + 1) /\ stack' = Pop
  <2>1. OneMore(nodes', nodes) /\ nodes'[Len(nodes) + 1] = r
    BY <1>4, <1>10, CompleteAdds
  <2>2. Len(stack') = Len(stack) - 1 /\ \A k \in 1 .. Len(stack) - 1 : stack'[k] = stack[k]
    BY <1>1, <1>10, PopIs
  <2>3. peek(q) = Closer(f.kind)
    BY <1>4, <1>10
  <2>4. Text(nodes', stack', "return", q + 1)
    BY <1>1, <1>2, <1>5, <1>6, <1>8, <1>9, <2>1, <2>2, <2>3, TextLeave
  <2>5. pc' = "return" /\ pos' = q + 1
    BY <1>10 DEF Complete
  <2> QED
    BY <1>1, <2>4, <2>5, TextStep
<1>11. CASE /\ peek(q) = "comma" /\ stack' = ReplaceTop(f)
            /\ IF kind = "object" THEN pos' = q + 1 /\ pc' = "key"
               ELSE pos' \in skipWhitespace(q + 1) /\ pc' = "value"
            /\ UNCHANGED nodes
  <2>1. /\ Len(stack') = Len(stack) /\ stack'[Len(stack)] = f
        /\ \A k \in 1 .. Len(stack) - 1 : stack'[k] = stack[k]
    BY <1>1, <1>4, <1>11, ReplaceTopIs
  <2>2. pc' = mode /\ nodes' = nodes /\ mode # "start"
    BY <1>11
  <2>3. q + 1 \in Nat
    BY <1>8
  <2>4. PICK x \in Nat : pos' = x /\ Blank(q + 1, x)
    <3>1. CASE kind = "object"
      BY <1>11, <2>3, <3>1, BlankNone
    <3>2. CASE kind # "object"
      <4>1. pos' \in skipWhitespace(q + 1)
        BY <1>11, <3>2
      <4> QED
        BY <1>1, <2>3, <4>1, WhitespaceOffset, BlankSkipped
    <3> QED
      BY <3>1, <3>2
  <2>5. mode = IF f.kind = "object" THEN "key" ELSE "value"
    BY <1>4
  <2> HIDE DEF mode
  <2>6. Text(nodes, stack', mode, x)
    BY <1>1, <1>2, <1>6, <1>8, <1>9, <1>11, <2>1, <2>4, <2>5, TextComma
  <2> QED
    BY <1>1, <2>2, <2>4, <2>6, TextStep
<1>12. CASE newError("INVALID_GRAMMAR", q)
  BY <1>12 DEF newError, Unwind, SpellInv, Accepted
<1> QED
  BY <1>7, <1>10, <1>11, <1>12

LEMMA FinishSpell ==
  ASSUME IInv, ShapeInv, SpellInv, Finish
  PROVE  SpellInv'
<1>1. pc = "return" /\ stack = <<>> /\ pos \in Nat /\ input' = input /\ TypeOK
  BY DEF IInv, TypeOK, Finish, Returning
<1>2. PICK q \in skipWhitespace(pos) :
        \/ peek(q) = "eof" /\ pc' = "done" /\ pos' = q /\ UNCHANGED <<stack, nodes>>
        \/ newError("INVALID_GRAMMAR", q)
  BY DEF Finish
<1>3. CASE newError("INVALID_GRAMMAR", q)
  BY <1>3 DEF newError, Unwind, SpellInv, Accepted
<1>4. CASE peek(q) = "eof" /\ pc' = "done" /\ pos' = q /\ UNCHANGED <<stack, nodes>>
  <2>1. q = Len(input)
    <3>1. q \in pos .. Len(input) /\ Len(input) \in Nat
      BY <1>1 DEF skipWhitespace, TypeOK
    <3>2. q < Len(input) => input[q + 1] \in Lexeme
      BY <1>1, <3>1 DEF TypeOK
    <3>3. "eof" \notin Lexeme
      BY LexemeAssumption DEF Lexeme, Structural
    <3> QED
      BY <1>4, <3>1, <3>2, <3>3 DEF peek
  <2>2. Blank(pos, Len(input))
    BY <1>1, <2>1, BlankSkipped
  <2>3. Text(nodes, <<>>, "return", pos) /\ Len(nodes) \in Nat \ {0}
    BY <1>1, KidsAreKnown DEF SpellInv, KidsKnown
  <2>4. Text(nodes, <<>>, "done", Len(input))
    BY <1>1, <2>2, <2>3, TextEnds
  <2> QED
    BY <1>1, <1>4, <2>1, <2>4, TextStep
<1> QED
  BY <1>2, <1>3, <1>4

LEMMA BeginSpell ==
  ASSUME IInv, SpellInv, Begin
  PROVE  SpellInv'
<1>1. /\ pos = 0 /\ nodes = <<>> /\ stack = <<>> /\ pos' \in skipWhitespace(0)
      /\ pc' = "value" /\ UNCHANGED <<input, stack, nodes>> /\ TypeOK
  BY DEF IInv, SpellInv, Begin
<1>2. PICK q \in skipWhitespace(0) : pos' = q
  BY <1>1
<1>3. q \in Nat /\ Blank(0, q)
  BY <1>1, WhitespaceOffset, BlankSkipped
<1>4. Text(<<>>, <<>>, "value", q)
  BY <1>3, TextBegins
<1> QED
  BY <1>1, <1>2, <1>4, TextStep

LEMMA NextSpell ==
  ASSUME IInv, ShapeInv, SpellInv, [Next]_vars
  PROVE  SpellInv'
<1>1. CASE EnterObject \/ EnterArray
  BY <1>1, EnterSpell DEF EnterObject, EnterArray, Container
<1>2. CASE ResumeObject \/ ResumeArray
  BY <1>2, ResumeSpell DEF ResumeObject, ResumeArray, Container
<1>3. CASE RejectOversize \/ RejectInvalidUTF8 \/ RejectValueCount \/ RejectLeaf
           \/ RejectNonValue \/ RejectDepth \/ RejectNonKey \/ RejectKey \/ RejectDuplicate
           \/ RejectNoColon \/ RejectChild
  BY <1>3, Rejected DEF SpellInv
<1>4. CASE Stop \/ UNCHANGED vars
  <2>1. UNCHANGED vars
    BY <1>4 DEF Stop
  <2>2. CASE pc \in {"value", "key", "return"} \/ outcome = Accepted
    <3>1. Text(nodes', stack', pc', pos') /\ input' = input /\ pc' # "start"
      BY <2>1, <2>2 DEF SpellInv, vars, IInv, ControlInv, Accepted, Pending
    <3> QED
      BY <3>1, TextStep
  <2>3. CASE ~(pc \in {"value", "key", "return"} \/ outcome = Accepted)
    BY <2>1, <2>3 DEF SpellInv, vars, Accepted
  <2> QED
    BY <2>2, <2>3
<1> QED
  BY <1>1, <1>2, <1>3, <1>4, LeafSpell, ParseKeySpell, FinishSpell, BeginSpell DEF Next

LEMMA InitSpell == Init => IInv /\ ShapeInv /\ SpellInv
<1> SUFFICES ASSUME Init PROVE IInv /\ ShapeInv /\ SpellInv
  OBVIOUS
<1>1. ShapeInv
  BY InitShape
<1>2. SpellInv
  BY DEF Init, SpellInv, Pending, Accepted
<1> QED
  BY <1>1, <1>2, InitInv

\* Nothing is lost, invented, reordered or attached to the wrong container: the
\* tree that parseValue, parseObject and parseArray build is the text consumed,
\* at every point of every parse, and all of the input when it is accepted.
THEOREM TreeSpelled == Spec => []TreeSpellsInput
<1> DEFINE Inv == IInv /\ ShapeInv /\ SpellInv
<1>1. Init => Inv
  BY InitSpell
<1>2. Inv /\ [Next]_vars => Inv'
  BY NextInv, NextShape, NextSpell
<1>3. Inv => TreeSpellsInput
  BY TextSpells DEF SpellInv, TreeSpellsInput
<1> QED
  BY <1>1, <1>2, <1>3, PTL DEF Spec

--------------------------------------------------------------------------------
(* Where an error is reported, and why. *)

\* The text up to q has been read: st are its open containers, and what comes
\* next is a value, a key, a colon, or what may follow a value.
ReadTo(st, mode, q) ==
  CASE mode \in {"value", "key"} -> Text(nodes, st, mode, q)
    [] mode = "colon" ->
         \E k \in Nat :
           Text(nodes, st, "key", k) /\ peek(k) \in Strings /\ Blank(k + 1, q)
    [] mode = "return" -> \E p \in Nat : Text(nodes, st, "return", p) /\ Blank(p, q)

\* What the grammar allows next. A container may close at once, or behind a child.
Awaited(st, mode) ==
  LET inner == st[Len(st)]
      close(kind) == IF st # <<>> /\ inner.kind = kind /\ inner.kids = <<>>
                       THEN {Closer(kind)} ELSE {}
  IN CASE mode = "value" ->
            Scalars \cup Strings \cup BadScalars \cup BadStrings
              \cup {"lbrace", "lbrack"} \cup close("array")
       [] mode = "key" -> Strings \cup BadStrings \cup close("object")
       [] mode = "colon" -> {"colon"}
       [] mode = "return" -> IF st = <<>> THEN {"eof"} ELSE {"comma", Closer(inner.kind)}

\* The text is read up to q and what is there cannot follow. The error stands there,
\* or behind it where expect has consumed it.
GrammarAt(offset) ==
  \E mode \in {"value", "key", "colon", "return"}, q \in Nat :
    /\ \E st \in {stack} \cup {Append(stack, NewFrame(kind)) : kind \in Container} :
         ReadTo(st, mode, q) /\ peek(q) \notin Awaited(st, mode)
    /\ offset = IF mode \in {"key", "colon"} /\ peek(q) # "eof" THEN q + 1 ELSE q

\* No key is repeated so far, the keys whose values are being read included.
Unrepeated ==
  /\ UniqueKeys
  /\ \A k \in 1 .. Len(stack) :
       DistinctKeys(stack[k]) /\ \A i \in 1 .. Len(stack[k].keys) :
                                   stack[k].keys[i] # stack[k].key

\* A key is due and the one that stands there is that of a member already read.
DuplicateAt(q) ==
  /\ stack # <<>> /\ Top.kind = "object" /\ ReadTo(stack, "key", q)
  /\ peek(q) \in Strings /\ \E i \in 1 .. Len(Top.keys) : Top.keys[i] = Decode[peek(q)]
  /\ Unrepeated

\* The input is too large; or so many values have been read that the one due is
\* one too many, present or not; or it would be opened too deep; or the value just
\* read is one too many for its container.
BoundAt(p) ==
  \/ Size(input) > maxInputSize /\ p = 0
  \/ ReadTo(stack, "value", p) /\ Len(nodes) + Len(stack) = maxValues
  \/ ReadTo(stack, "value", p) /\ peek(p) \in {"lbrace", "lbrack"} /\ Len(stack) = maxDepth
  \/ /\ Text(nodes, stack, "return", p) /\ stack # <<>>
     /\ Len(Top.kids) = maxChildren(Top.kind)

\* A token that is faulty in itself is where a value or a key is due.
TokenAt(class, p) ==
  /\ \E mode \in {"value", "key"} : ReadTo(stack, mode, p)
  /\ peek(p) \in BadScalars \cup BadStrings /\ class = Fault[peek(p)]

Justified(class, p) ==
  \/ TokenAt(class, p)
  \/ class = "INVALID_GRAMMAR" /\ GrammarAt(p)
  \/ class = "DUPLICATE_KEY" /\ DuplicateAt(p)
  \/ class = "BOUND_EXCEEDED" /\ BoundAt(p)
  \/ class = "INVALID_UTF8" /\ peek(p) = "badutf8" /\ \A i \in 0 .. p - 1 : peek(i) # "badutf8"

\* The seen map of an open object holds its keys and the one being read, no more.
KeysSeen(f) ==
  IF f.kind = "object"
    THEN \A key \in f.seen : key = f.key \/ \E i \in 1 .. Len(f.keys) : f.keys[i] = key
    ELSE f.keys = <<>>

\* What a container begins with was seen not to close it.
SeenInv ==
  /\ pc # "done" => \A k \in 1 .. Len(stack) : KeysSeen(stack[k])
  /\ pc = "key" => Top.key = NoKey
  /\ pc = "key" \/ (pc = "value" /\ stack # <<>> /\ Top.kind = "array") =>
       (Top.kids = <<>> => peek(pos) \notin {"ws", Closer(Top.kind)})

LEMMA SkippedTo ==
  ASSUME TypeOK, NEW p \in Nat, NEW q \in skipWhitespace(p)
  PROVE  q \in Nat /\ Blank(p, q) /\ peek(q) # "ws"
BY WhitespaceOffset, BlankSkipped DEF skipWhitespace

\* Where a key is due it is also due behind whitespace.
LEMMA KeySkips ==
  ASSUME NEW ns, NEW st, Len(st) \in Nat \ {0}, NEW p \in Nat, Text(ns, st, "key", p),
         NEW q \in Nat, Blank(p, q)
  PROVE  Text(ns, st, "key", q)
<1>1. PICK from, to, op :
        Located(ns, st, from, to, op) /\ Consumed(ns, st, "key", p, from, to, op)
  BY DEF Text
<1> DEFINE l == Len(st)
           f == st[l]
<1>2. /\ Holds(f, op[l], from, to) /\ Continues(f, op[l], p, "key", to)
  BY <1>1 DEF Consumed
<1>3. PICK p0 \in 1 .. Len(input) :
        Due(f.kids, op[l], Len(f.kids) + 1, p0, to) /\ Blank(p0, p)
  BY <1>2 DEF Continues
<1>4. p0 \in Nat /\ Blank(p0, p)
  BY <1>3
<1>5. Blank(p0, q)
  BY <1>4, BlankJoins
<1>6. Continues(f, op[l], q, "key", to)
  BY <1>3, <1>5 DEF Continues
<1> QED
  BY <1>1, <1>2, <1>6, TextTop

\* The innermost container is another.
LEMMA SeenTop ==
  ASSUME IInv, SeenInv, pc # "done", stack # <<>>, NEW f \in Frame, KeysSeen(f),
         Len(stack') = Len(stack), stack'[Len(stack)] = f,
         \A k \in 1 .. Len(stack) - 1 : stack'[k] = stack[k],
         pc' = "key" => f.key = NoKey,
         pc' = "key" \/ (pc' = "value" /\ f.kind = "array") => f.kids # <<>>
  PROVE  SeenInv'
<1>1. Len(stack) \in Nat \ {0} /\ Top' = f
  BY TopType DEF IInv, TypeOK, Top
<1>2. ASSUME NEW k \in 1 .. Len(stack') PROVE KeysSeen(stack'[k])
  <2>1. CASE k = Len(stack)
    BY <2>1
  <2>2. CASE k # Len(stack)
    <3>1. k \in 1 .. Len(stack) - 1 /\ k \in 1 .. Len(stack)
      BY <1>1, <2>2
    <3> QED
      BY <3>1 DEF SeenInv
  <2> QED
    BY <2>1, <2>2
<1> QED
  BY <1>1, <1>2, Zenon DEF SeenInv, KeysSeen

LEMMA EnterSeen ==
  ASSUME IInv, SeenInv, NEW kind \in Container, Enter(kind)
  PROVE  SeenInv'
<1> DEFINE f == NewFrame(kind)
           mode == IF kind = "object" THEN "key" ELSE "value"
<1>1. pc = "value" /\ pos \in Nat /\ input' = input /\ TypeOK
  BY DEF IInv, TypeOK, Enter, ValueAt, CountValue
<1>2. PICK q \in skipWhitespace(pos + 1) :
        \/ newError("INVALID_GRAMMAR", q)
        \/ Complete(Closed(f), q + 1) /\ UNCHANGED <<depth, stack>>
        \/ /\ peek(q) \notin {"eof", Closer(kind)} /\ stack' = Append(stack, f)
           /\ pos' = q /\ pc' = mode
  BY DEF Enter
<1>3. q \in Nat /\ peek(q) # "ws"
  BY <1>1, SkippedTo
<1>4. f.kids = <<>> /\ f.kind = kind /\ f.key = NoKey /\ KeysSeen(f) /\ f \in Frame
  BY NewFrameInv DEF NewFrame, KeysSeen
<1> HIDE DEF f
<1>5. CASE newError("INVALID_GRAMMAR", q)
  BY <1>5 DEF newError, Unwind, SeenInv
<1>6. CASE Complete(Closed(f), q + 1) /\ UNCHANGED <<depth, stack>>
  BY <1>1, <1>6 DEF Complete, SeenInv
<1>7. CASE /\ peek(q) \notin {"eof", Closer(kind)} /\ stack' = Append(stack, f)
           /\ pos' = q /\ pc' = mode
  <2>1. OneMore(stack', stack) /\ stack'[Len(stack) + 1] = f
    BY <1>4, <1>7 DEF OneMore, IInv, TypeOK
  <2>2. Top' = f
    BY <2>1 DEF OneMore, Top
  <2>3. ASSUME NEW k \in 1 .. Len(stack') PROVE KeysSeen(stack'[k])
    <3>1. CASE k = Len(stack) + 1
      BY <1>4, <2>1, <3>1
    <3>2. CASE k # Len(stack) + 1
      <4>1. k \in 1 .. Len(stack) /\ stack'[k] = stack[k]
        BY <2>1, <3>2 DEF OneMore
      <4> QED
        BY <1>1, <4>1 DEF SeenInv
    <3> QED
      BY <3>1, <3>2
  <2>4. peek(pos)' = peek(q)
    BY <1>1, <1>7 DEF peek
  <2> QED
    BY <1>3, <1>4, <1>7, <2>2, <2>3, <2>4 DEF SeenInv, KeysSeen
<1> QED
  BY <1>2, <1>5, <1>6, <1>7

LEMMA ParseKeySeen ==
  ASSUME IInv, SeenInv, ParseKey
  PROVE  SeenInv'
<1>1. /\ pc = "key" /\ pc' = "value" /\ stack # <<>> /\ Top.kind = "object" /\ TypeOK
  BY DEF IInv, ControlInv, ParseKey, ReadKey
<1>2. PICK k \in skipWhitespace(pos) :
        /\ NewKey(k)
        /\ stack' = ReplaceTop([Top EXCEPT !.seen = @ \cup {Decode[peek(k)]},
                                           !.key = Decode[peek(k)]])
  BY DEF ParseKey
<1> DEFINE d == Decode[peek(k)]
           f == [Top EXCEPT !.seen = @ \cup {d}, !.key = d]
<1>3. Top \in Frame /\ Len(stack) \in 1 .. Len(stack) /\ Top = stack[Len(stack)]
  BY <1>1, TopType DEF Top
<1>4. d \in Keys
  BY <1>2, DecodeAssumption DEF NewKey
<1>5. /\ f \in Frame /\ f.kind = "object" /\ f.keys = Top.keys /\ f.key = d
      /\ f.seen = Top.seen \cup {d}
  BY <1>1, <1>3, <1>4 DEF Frame
<1>6. stack' = ReplaceTop(f)
  BY <1>2
<1> HIDE DEF f, d
<1>7. KeysSeen(f)
  <2>1. KeysSeen(Top) /\ Top.key = NoKey /\ Top.seen \subseteq Keys
    BY <1>1, <1>3 DEF SeenInv, Frame
  <2> QED
    BY <1>1, <1>5, <2>1, DecodeAssumption DEF KeysSeen
<1>8. /\ Len(stack') = Len(stack) /\ stack'[Len(stack)] = f
      /\ \A i \in 1 .. Len(stack) - 1 : stack'[i] = stack[i]
  BY <1>1, <1>5, <1>6, ReplaceTopIs
<1>9. f.kind # "array" /\ pc' # "key" /\ pc # "done"
  BY <1>1, <1>5
<1> QED
  BY <1>1, <1>5, <1>7, <1>8, <1>9, SeenTop

LEMMA ResumeSeen ==
  ASSUME IInv, SeenInv, NEW kind \in Container, Resume(kind)
  PROVE  SeenInv'
<1> DEFINE f == Adopt(Top)
<1>1. /\ pc = "return" /\ stack # <<>> /\ Top.kind = kind /\ ~Full(Top) /\ TypeOK
  BY DEF IInv, Resume, ReturnTo, Returning
<1>2. /\ Top \in Frame /\ Len(stack) \in 1 .. Len(stack) /\ Top = stack[Len(stack)]
      /\ FrameInv(Top) /\ (Top.kind = "object" => KeyPending(Top)) /\ KeysSeen(Top)
  BY <1>1, TopType DEF IInv, StackInv, Top, SeenInv
<1>3. Len(Top.kids) < maxChildren(kind)
  <2>1. Len(Top.kids) \in Nat /\ maxChildren(kind) \in Nat
    BY <1>2, LimitsPositive DEF Frame
  <2> QED
    BY <1>1, <2>1 DEF Full
<1>4. f \in Frame /\ f.kind = kind /\ f.key = NoKey
  <2>1. f \in Frame /\ f.kind = kind
    BY <1>1, <1>2, <1>3, AdoptInv DEF IInv
  <2> QED
    BY <2>1 DEF Adopt
<1>5. f.kids # <<>>
  <2>1. f.kids = Append(Top.kids, Len(nodes)) /\ Top.kids \in Seq(Nat)
    BY <1>2 DEF Adopt, Frame
  <2> HIDE DEF f
  <2> QED
    BY <2>1
<1>6. KeysSeen(f)
  <2>1. CASE kind = "object"
    <3>1. /\ f.keys = Append(Top.keys, Top.key) /\ f.seen = Top.seen
          /\ Top.keys \in Seq(Keys) /\ f.kind = "object" /\ Top.kind = "object"
      BY <1>1, <1>2, <2>1 DEF Adopt, Frame
    <3> HIDE DEF f
    <3>2. /\ Len(f.keys) = Len(Top.keys) + 1 /\ f.keys[Len(Top.keys) + 1] = Top.key
          /\ \A i \in 1 .. Len(Top.keys) : f.keys[i] = Top.keys[i]
          /\ Len(Top.keys) \in Nat
      BY <3>1
    <3>3. ASSUME NEW key \in f.seen PROVE \E i \in 1 .. Len(f.keys) : f.keys[i] = key
      <4>1. key = Top.key \/ \E i \in 1 .. Len(Top.keys) : Top.keys[i] = key
        BY <1>2, <3>1 DEF KeysSeen
      <4>2. Len(Top.keys) + 1 \in 1 .. Len(f.keys)
        BY <3>2
      <4>3. CASE key = Top.key
        BY <3>2, <4>2, <4>3
      <4>4. ASSUME NEW i \in 1 .. Len(Top.keys), Top.keys[i] = key
            PROVE  f.keys[i] = key /\ i \in 1 .. Len(f.keys)
        BY <3>2, <4>4
      <4> QED
        BY <4>1, <4>3, <4>4
    <3> QED
      BY <3>1, <3>3 DEF KeysSeen
  <2>2. CASE kind # "object"
    BY <1>1, <1>2, <2>2 DEF Adopt, KeysSeen
  <2> QED
    BY <2>1, <2>2
<1>7. PICK q \in skipWhitespace(pos) :
        \/ Complete(Closed(f), q + 1) /\ stack' = Pop
        \/ stack' = ReplaceTop(f) /\ pc' \in {"key", "value"}
        \/ newError("INVALID_GRAMMAR", q)
  BY DEF Resume, Leave
<1> HIDE DEF f
<1>8. CASE Complete(Closed(f), q + 1) /\ stack' = Pop
  <2>1. Len(stack') = Len(stack) - 1 /\ \A k \in 1 .. Len(stack) - 1 : stack'[k] = stack[k]
    BY <1>1, <1>8, PopIs
  <2>2. ASSUME NEW k \in 1 .. Len(stack') PROVE KeysSeen(stack'[k])
    <3>1. k \in 1 .. Len(stack) - 1 /\ k \in 1 .. Len(stack)
      BY <1>2, <2>1
    <3> QED
      BY <1>1, <2>1, <3>1 DEF SeenInv
  <2> QED
    BY <1>8, <2>2 DEF SeenInv, Complete, KeysSeen
<1>9. CASE stack' = ReplaceTop(f) /\ pc' \in {"key", "value"}
  <2>1. /\ Len(stack') = Len(stack) /\ stack'[Len(stack)] = f
        /\ \A i \in 1 .. Len(stack) - 1 : stack'[i] = stack[i]
    BY <1>1, <1>4, <1>9, ReplaceTopIs
  <2> QED
    BY <1>1, <1>4, <1>5, <1>6, <2>1, SeenTop
<1>10. CASE newError("INVALID_GRAMMAR", q)
  BY <1>10 DEF newError, Unwind, SeenInv
<1> QED
  BY <1>7, <1>8, <1>9, <1>10

LEMMA NextSeen ==
  ASSUME IInv, SpellInv, SeenInv, [Next]_vars
  PROVE  SeenInv'
<1>1. CASE EnterObject \/ EnterArray
  BY <1>1, EnterSeen DEF EnterObject, EnterArray, Container
<1>2. CASE ResumeObject \/ ResumeArray
  BY <1>2, ResumeSeen DEF ResumeObject, ResumeArray, Container
<1>3. CASE RejectOversize \/ RejectInvalidUTF8 \/ RejectValueCount \/ RejectLeaf
           \/ RejectNonValue \/ RejectDepth \/ RejectNonKey \/ RejectKey \/ RejectDuplicate
           \/ RejectNoColon \/ RejectChild
  BY <1>3, Rejected DEF SeenInv
<1>4. CASE Finish
  <2>1. pc' = "done"
    BY <1>4 DEF Finish, newError, Unwind
  <2> QED
    BY <2>1 DEF SeenInv
<1>5. CASE Begin
  <2>1. stack' = <<>> /\ pc' = "value"
    BY <1>5 DEF Begin, SpellInv
  <2> QED
    BY <2>1 DEF SeenInv
<1>6. CASE ParseLeaf
  BY <1>6 DEF ParseLeaf, ValueAt, CountValue, Complete, SeenInv, KeysSeen
<1>7. CASE Stop \/ UNCHANGED vars
  <2>1. UNCHANGED vars
    BY <1>7 DEF Stop
  <2> QED
    BY <2>1 DEF SeenInv, vars, KeysSeen, Top, peek
<1> QED
  BY <1>1, <1>2, <1>3, <1>4, <1>5, <1>6, <1>7, ParseKeySeen DEF Next

\* The invariant of the rest.
ReadInv == IInv /\ ShapeInv /\ SpellInv /\ SeenInv

LEMMA InnermostIs ==
  ASSUME IInv, stack # <<>>
  PROVE  /\ Len(stack) \in Nat \ {0} /\ Top = stack[Len(stack)] /\ Top \in Frame
         /\ Top.kind \in Container
BY TopType DEF IInv, TypeOK, Top, Frame

LEMMA KeysUnrepeated ==
  ASSUME ReadInv, pc # "done"
  PROVE  Unrepeated
<1>1. UniqueKeys
  BY DEF ReadInv, IInv, NodesInv, NodeInv, DistinctKeys, UniqueKeys
<1>2. ASSUME NEW k \in 1 .. Len(stack)
      PROVE  DistinctKeys(stack[k]) /\ \A i \in 1 .. Len(stack[k].keys) :
                                         stack[k].keys[i] # stack[k].key
  <2>1. FrameInv(stack[k]) /\ stack[k] \in Frame /\ KeysSeen(stack[k])
    BY DEF ReadInv, IInv, TypeOK, StackInv, SeenInv
  <2>2. DistinctKeys(stack[k])
    BY <2>1 DEF FrameInv, NodeInv
  <2>3. CASE stack[k].kind = "object" /\ KeyPending(stack[k])
    BY <2>2, <2>3 DEF KeyPending
  <2>4. CASE stack[k].kind # "object"
    BY <2>1, <2>2, <2>4 DEF KeysSeen
  <2>5. CASE stack[k].kind = "object" /\ ~KeyPending(stack[k])
    <3>1. k = Len(stack) /\ pc \in {"key", "start"}
      BY <2>5 DEF ReadInv, IInv, TypeOK, StackInv
    <3>2. pc = "key"
      BY <3>1 DEF ReadInv, IInv, ControlInv
    <3>3. stack[k].key = NoKey
      BY <3>1, <3>2 DEF ReadInv, SeenInv, Top
    <3> QED
      BY <2>1, <2>2, <3>3, DecodeAssumption DEF Frame
  <2> QED
    BY <2>3, <2>4, <2>5
<1> QED
  BY <1>1, <1>2 DEF Unrepeated

\* What a step reports in a state where a value, or a key, is due.
LEMMA ValueErrors ==
  ASSUME ReadInv,
         RejectValueCount \/ RejectLeaf \/ RejectNonValue \/ RejectDepth
  PROVE  Justified(outcome'.class, outcome'.offset)
<1>1. pc = "value" /\ pos \in Nat /\ TypeOK /\ Text(nodes, stack, "value", pos)
  BY DEF ReadInv, IInv, TypeOK, SpellInv, RejectValueCount, RejectLeaf, RejectNonValue,
         RejectDepth, ValueAt, CountValue
<1>2. ReadTo(stack, "value", pos)
  BY <1>1 DEF ReadTo
<1>3. CASE RejectValueCount
  <2>1. outcome'.class = "BOUND_EXCEEDED" /\ outcome'.offset = pos
    BY <1>3 DEF RejectValueCount, newError, Unwind
  <2>2. Len(nodes) + Len(stack) = maxValues
    <3>1. /\ valueCount = Len(nodes) + Len(stack) /\ Len(nodes) + Len(stack) <= maxValues
          /\ valueCount + 1 > maxValues /\ valueCount \in Nat /\ maxValues \in Nat
      BY <1>1, <1>3, LimitsPositive
      DEF ReadInv, IInv, TypeOK, ValueCountExact, RejectValueCount
    <3> QED
      BY <3>1
  <2> QED
    BY <1>2, <2>1, <2>2 DEF Justified, BoundAt
<1>4. CASE RejectLeaf
  <2>1. /\ outcome'.class = Fault[peek(pos)] /\ outcome'.offset = pos
        /\ peek(pos) \in BadScalars \cup BadStrings
    BY <1>4 DEF RejectLeaf, ValueAt, newError, Unwind
  <2> QED
    BY <1>2, <2>1 DEF Justified, TokenAt
<1>5. CASE RejectNonValue
  <2>1. /\ outcome'.class = "INVALID_GRAMMAR" /\ outcome'.offset = pos
        /\ peek(pos) \in (Structural \ {"lbrace", "lbrack"}) \cup {"eof", "ws", "badutf8"}
    BY <1>5 DEF RejectNonValue, ValueAt, newError, Unwind
  <2>2. peek(pos) \notin Scalars \cup Strings \cup BadScalars \cup BadStrings
                           \cup {"lbrace", "lbrack"}
    BY <2>1, LexemeAssumption DEF Structural
  <2>3. ASSUME stack # <<>>, Top.kind = "array", Top.kids = <<>>
        PROVE  peek(pos) # Closer("array")
    BY <1>1, <2>3 DEF ReadInv, SeenInv
  <2>4. peek(pos) \notin Awaited(stack, "value")
    BY <2>2, <2>3 DEF Awaited, Top
  <2>5. GrammarAt(pos)
    BY <1>1, <1>2, <2>4 DEF GrammarAt
  <2> QED
    BY <2>1, <2>5 DEF Justified
<1>6. CASE RejectDepth
  <2>1. /\ outcome'.class = "BOUND_EXCEEDED" /\ outcome'.offset = pos
        /\ peek(pos) \in {"lbrace", "lbrack"}
    BY <1>6 DEF RejectDepth, ValueAt
  <2>2. Len(stack) = maxDepth
    <3>1. /\ depth = Len(stack) /\ depth <= maxDepth /\ depth + 1 > maxDepth
          /\ depth \in Int /\ maxDepth \in Nat
      BY <1>1, <1>6, LimitsPositive
      DEF ReadInv, IInv, TypeOK, DepthBalanced, RejectDepth, TooDeep
    <3> QED
      BY <3>1
  <2> QED
    BY <1>2, <2>1, <2>2 DEF Justified, BoundAt
<1> QED
  BY <1>3, <1>4, <1>5, <1>6

LEMMA EnterErrors ==
  ASSUME ReadInv, NEW kind \in Container, Enter(kind), outcome' # outcome
  PROVE  Justified(outcome'.class, outcome'.offset)
<1> DEFINE f == NewFrame(kind)
           mode == IF kind = "object" THEN "key" ELSE "value"
           st == Append(stack, f)
<1>1. /\ pc = "value" /\ pos \in Nat /\ peek(pos) = Opener(kind) /\ TypeOK
      /\ Text(nodes, stack, "value", pos)
  BY DEF ReadInv, IInv, TypeOK, SpellInv, Enter, ValueAt, CountValue
<1>2. PICK q \in skipWhitespace(pos + 1) : peek(q) = "eof" /\ newError("INVALID_GRAMMAR", q)
  BY DEF Enter, Complete
<1>3. q \in Nat /\ pos + 1 \in Nat /\ Blank(pos + 1, q)
  BY <1>1, SkippedTo
<1>4. f \in Frame /\ f.kids = <<>> /\ f.kind = kind /\ KidsKnown(nodes, stack)
  BY <1>1, NewFrameInv, KidsAreKnown DEF NewFrame, ReadInv
<1> HIDE DEF f
<1>5. OneMore(st, stack) /\ st[Len(stack) + 1] = f
  BY <1>1, <1>4 DEF OneMore, TypeOK
<1> HIDE DEF st
<1>6. Text(nodes, st, mode, q)
  BY <1>1, <1>3, <1>4, <1>5, TextPush
<1>7. mode \in {"value", "key"}
  OBVIOUS
<1> HIDE DEF mode
<1>8. ReadTo(st, mode, q)
  BY <1>6, <1>7 DEF ReadTo
<1>9. peek(q) \notin Awaited(st, mode)
  BY <1>2, <1>7, LexemeAssumption DEF Awaited, Closer
<1>10. GrammarAt(q)
  <2>1. st \in {Append(stack, NewFrame(k)) : k \in Container}
    BY DEF st, f
  <2>2. q = IF mode \in {"key", "colon"} /\ peek(q) # "eof" THEN q + 1 ELSE q
    BY <1>2
  <2>3. mode \in {"value", "key", "colon", "return"}
    BY <1>7
  <2> QED
    BY <1>3, <1>8, <1>9, <2>1, <2>2, <2>3 DEF GrammarAt
<1>11. outcome'.class = "INVALID_GRAMMAR" /\ outcome'.offset = q
  BY <1>2 DEF newError, Unwind
<1> QED
  BY <1>10, <1>11 DEF Justified

LEMMA KeyDue ==
  ASSUME ReadInv, pc = "key", NEW q \in skipWhitespace(pos)
  PROVE  /\ q \in Nat /\ Text(nodes, stack, "key", q) /\ stack # <<>>
         /\ Top.kind = "object" /\ TypeOK
         /\ Top.kids = <<>> => peek(q) # Closer("object")
<1>1. /\ stack # <<>> /\ Top.kind = "object" /\ TypeOK /\ pos \in Nat
      /\ Text(nodes, stack, "key", pos)
  BY DEF ReadInv, IInv, TypeOK, ControlInv, SpellInv
<1>2. q \in Nat /\ Blank(pos, q)
  BY <1>1, SkippedTo
<1>3. Text(nodes, stack, "key", q)
  BY <1>1, <1>2, InnermostIs, KeySkips DEF ReadInv
<1>4. ASSUME Top.kids = <<>> PROVE peek(q) # Closer("object")
  <2>1. peek(pos) \notin {"ws", Closer("object")}
    BY <1>1, <1>4 DEF ReadInv, SeenInv
  <2>2. q = pos
    BY <1>1, <1>2, <2>1 DEF Blank
  <2> QED
    BY <2>1, <2>2
<1> QED
  BY <1>1, <1>2, <1>3, <1>4

LEMMA KeyErrors ==
  ASSUME ReadInv, RejectNonKey \/ RejectKey \/ RejectDuplicate \/ RejectNoColon
  PROVE  Justified(outcome'.class, outcome'.offset)
<1>1. pc = "key"
  BY DEF RejectNonKey, RejectKey, RejectDuplicate, RejectNoColon, ReadKey
<1>2. CASE RejectNonKey
  <2>1. PICK q \in skipWhitespace(pos) :
          peek(q) \notin Strings \cup BadStrings /\ expectFails(q)
    BY <1>2 DEF RejectNonKey
  <2>2. /\ outcome'.class = "INVALID_GRAMMAR"
        /\ outcome'.offset = IF peek(q) # "eof" THEN q + 1 ELSE q
    BY <2>1 DEF expectFails, newError, Unwind
  <2>3. /\ q \in Nat /\ Text(nodes, stack, "key", q)
        /\ Top.kids = <<>> => peek(q) # Closer("object")
    BY <1>1, KeyDue
  <2>4. ReadTo(stack, "key", q)
    BY <2>3 DEF ReadTo
  <2>5. peek(q) \notin Awaited(stack, "key")
    BY <2>1, <2>3 DEF Awaited, Top
  <2>6. GrammarAt(outcome'.offset)
    BY <2>2, <2>3, <2>4, <2>5 DEF GrammarAt
  <2> QED
    BY <2>2, <2>6 DEF Justified
<1>3. CASE RejectKey
  <2>1. PICK q \in skipWhitespace(pos) : peek(q) \in BadStrings /\ newError(Fault[peek(q)], q)
    BY <1>3 DEF RejectKey
  <2>2. outcome'.class = Fault[peek(q)] /\ outcome'.offset = q
    BY <2>1 DEF newError, Unwind
  <2>3. ReadTo(stack, "key", q)
    BY <1>1, KeyDue DEF ReadTo
  <2> QED
    BY <2>1, <2>2, <2>3 DEF Justified, TokenAt
<1>4. CASE RejectDuplicate
  <2>1. PICK q \in skipWhitespace(pos) :
          /\ peek(q) \in Strings /\ Decode[peek(q)] \in Top.seen
          /\ Unwind("DUPLICATE_KEY", q, q + 1)
    BY <1>4 DEF RejectDuplicate
  <2>2. outcome'.class = "DUPLICATE_KEY" /\ outcome'.offset = q
    BY <2>1 DEF Unwind
  <2>3. ReadTo(stack, "key", q) /\ stack # <<>> /\ Top.kind = "object"
    BY <1>1, KeyDue DEF ReadTo
  <2>4. \E i \in 1 .. Len(Top.keys) : Top.keys[i] = Decode[peek(q)]
    <3>1. KeysSeen(Top) /\ Top.key = NoKey
      BY <1>1, <2>3, InnermostIs DEF ReadInv, SeenInv
    <3>2. Decode[peek(q)] # NoKey
      BY <2>1, DecodeAssumption
    <3> QED
      BY <2>1, <2>3, <3>1, <3>2 DEF KeysSeen
  <2>5. Unrepeated
    BY <1>1, KeysUnrepeated
  <2> QED
    BY <2>1, <2>2, <2>3, <2>4, <2>5 DEF Justified, DuplicateAt
<1>5. CASE RejectNoColon
  <2>1. PICK q \in skipWhitespace(pos) :
          NewKey(q) /\ \E r \in skipWhitespace(q + 1) : peek(r) # "colon" /\ expectFails(r)
    BY <1>5 DEF RejectNoColon
  <2>2. PICK r \in skipWhitespace(q + 1) : peek(r) # "colon" /\ expectFails(r)
    BY <2>1
  <2>3. q \in Nat /\ q + 1 \in Nat /\ Text(nodes, stack, "key", q) /\ TypeOK
    BY <1>1, KeyDue
  <2>4. r \in Nat /\ Blank(q + 1, r)
    BY <2>3, SkippedTo
  <2>5. ReadTo(stack, "colon", r)
    BY <2>1, <2>3, <2>4 DEF ReadTo, NewKey
  <2>6. /\ outcome'.class = "INVALID_GRAMMAR"
        /\ outcome'.offset = IF peek(r) # "eof" THEN r + 1 ELSE r
    BY <2>2 DEF expectFails, newError, Unwind
  <2>7. peek(r) \notin Awaited(stack, "colon")
    BY <2>2 DEF Awaited
  <2>8. GrammarAt(outcome'.offset)
    BY <2>4, <2>5, <2>6, <2>7 DEF GrammarAt
  <2> QED
    BY <2>6, <2>8 DEF Justified
<1> QED
  BY <1>2, <1>3, <1>4, <1>5

LEMMA ReturnErrors ==
  ASSUME ReadInv, outcome' \notin {outcome, Accepted},
         RejectChild \/ ResumeObject \/ ResumeArray \/ Finish
  PROVE  Justified(outcome'.class, outcome'.offset)
<1>1. /\ pc = "return" /\ pos \in Nat /\ TypeOK /\ Text(nodes, stack, "return", pos)
  BY DEF ReadInv, IInv, TypeOK, SpellInv, RejectChild, ResumeObject, ResumeArray, Resume,
         ReturnTo, Returning, Finish
<1>2. CASE RejectChild
  <2>1. outcome'.class = "BOUND_EXCEEDED" /\ outcome'.offset = pos /\ stack # <<>> /\ Full(Top)
    BY <1>2 DEF RejectChild, newError, Unwind
  <2>2. Len(Top.kids) = maxChildren(Top.kind)
    <3>1. /\ Top \in Frame /\ Top.kind \in Container /\ Top = stack[Len(stack)]
          /\ Len(stack) \in 1 .. Len(stack)
      BY <2>1, InnermostIs DEF ReadInv
    <3>2. Len(Top.kids) <= maxChildren(Top.kind)
      BY <3>1 DEF ReadInv, IInv, StackInv, FrameInv, NodeInv
    <3>3. Len(Top.kids) \in Nat /\ maxChildren(Top.kind) \in Nat
      BY <3>1, LimitsPositive DEF Frame
    <3> QED
      BY <2>1, <3>2, <3>3 DEF Full
  <2> QED
    BY <1>1, <2>1, <2>2 DEF Justified, BoundAt
<1>3. ASSUME NEW q \in skipWhitespace(pos), newError("INVALID_GRAMMAR", q),
             peek(q) \notin Awaited(stack, "return")
      PROVE  Justified(outcome'.class, outcome'.offset)
  <2>1. q \in Nat /\ Blank(pos, q)
    BY <1>1, SkippedTo
  <2>2. ReadTo(stack, "return", q)
    BY <1>1, <2>1 DEF ReadTo
  <2>3. outcome'.class = "INVALID_GRAMMAR" /\ outcome'.offset = q
    BY <1>3 DEF newError, Unwind
  <2>4. GrammarAt(q)
    BY <1>3, <2>1, <2>2 DEF GrammarAt
  <2> QED
    BY <2>3, <2>4 DEF Justified
<1>4. ASSUME NEW kind \in Container, Resume(kind)
      PROVE  Justified(outcome'.class, outcome'.offset)
  <2>1. PICK q \in skipWhitespace(pos) :
          peek(q) \notin {Closer(kind), "comma"} /\ newError("INVALID_GRAMMAR", q)
    BY <1>4 DEF Resume, Leave, Complete
  <2>2. stack # <<>> /\ Top.kind = kind
    BY <1>4 DEF Resume, ReturnTo
  <2>3. peek(q) \notin Awaited(stack, "return")
    BY <2>1, <2>2 DEF Awaited, Top
  <2> QED
    BY <1>3, <2>1, <2>3
<1>5. CASE Finish
  <2>1. PICK q \in skipWhitespace(pos) : peek(q) # "eof" /\ newError("INVALID_GRAMMAR", q)
    BY <1>5 DEF Finish
  <2>2. stack = <<>>
    BY <1>5 DEF Finish
  <2>3. peek(q) \notin Awaited(stack, "return")
    BY <2>1, <2>2 DEF Awaited
  <2> QED
    BY <1>3, <2>1, <2>3
<1>6. CASE ResumeObject \/ ResumeArray
  BY <1>4, <1>6 DEF ResumeObject, ResumeArray, Container
<1> QED
  BY <1>2, <1>5, <1>6

LEMMA StartErrors ==
  ASSUME RejectOversize \/ RejectInvalidUTF8
  PROVE  Justified(outcome'.class, outcome'.offset)
<1>1. CASE RejectOversize
  BY <1>1 DEF RejectOversize, Unwind, Justified, BoundAt
<1>2. CASE RejectInvalidUTF8
  <2>1. PICK p \in 0 .. Len(input) - 1 :
          /\ peek(p) = "badutf8" /\ \A i \in 0 .. p - 1 : peek(i) # "badutf8"
          /\ Unwind("INVALID_UTF8", p, pos)
    BY <1>2 DEF RejectInvalidUTF8
  <2>2. outcome'.class = "INVALID_UTF8" /\ outcome'.offset = p
    BY <2>1 DEF Unwind
  <2> QED
    BY <2>1, <2>2 DEF Justified
<1> QED
  BY <1>1, <1>2

LEMMA NextErrors ==
  ASSUME ReadInv, [Next]_vars, outcome' \notin {outcome, Accepted}
  PROVE  Justified(outcome'.class, outcome'.offset)
<1>1. CASE EnterObject \/ EnterArray
  BY <1>1, EnterErrors DEF EnterObject, EnterArray, Container
<1>2. CASE Begin \/ ParseLeaf \/ ParseKey \/ Stop \/ UNCHANGED vars
  BY <1>2 DEF Begin, ParseLeaf, Complete, ParseKey, Stop, vars
<1> QED
  BY <1>1, <1>2, StartErrors, ValueErrors, KeyErrors, ReturnErrors DEF Next

\* Every error is reported where the text first goes wrong, and is the one that is
\* there: the text is read up to that place, with the containers open and the values
\* complete that it spells, and what stands there is a faulty token, cannot follow,
\* repeats a key of its object although none was repeated before, or exceeds a limit
\* that was not exceeded before.
THEOREM ErrorsAreJustified ==
  Spec => [][outcome' \notin {outcome, Accepted}
               => Justified(outcome'.class, outcome'.offset)]_vars
<1> DEFINE A == outcome' \notin {outcome, Accepted}
                  => Justified(outcome'.class, outcome'.offset)
<1>1. Init => ReadInv
  BY InitSpell DEF ReadInv, SeenInv, Init
<1>2. ReadInv /\ [Next]_vars => ReadInv'
  BY NextInv, NextShape, NextSpell, NextSeen DEF ReadInv
<1>3. ReadInv /\ [Next]_vars => [A]_vars
  BY NextErrors
<1> QED
  BY <1>1, <1>2, <1>3, PTL DEF Spec

--------------------------------------------------------------------------------
(* What is handed to the serializer. *)

\* The tokens that the canonical text of a parsed value is made of.
Token ==
  {S!Tok(sort) : sort \in Structural \cup {Literal[s] : s \in Scalars}}
    \cup {S!Str(KeyText[k]) : k \in Keys}

\* A leaf as parseString, parseNumber and the literals make it.
LeafOf(r) ==
  IF r.kind = "string" THEN \E k \in Keys : r.str = KeyText[k]
  ELSE \E s \in Scalars : r.kind = ScalarKind[s] /\ r.lit = Literal[s]

\* A node that validateValueTree finds no fault with, at any place within its limits.
Valid(r) ==
  /\ r.kind \in Container => Len(r.kids) <= maxChildren(r.kind)
  /\ r.kind \notin Container =>
       S!validateLeaf(r) = "ok" /\ S!Spelled(r) \in Token /\ LeafOf(r)
  /\ r.kind = "object" =>
       /\ Len(r.keys) = Len(r.kids)
       /\ \A i \in 1 .. Len(r.keys) : r.keys[i] \in {KeyText[k] : k \in Keys}
       /\ DistinctKeys(r)

\* A tree with the shape the parser builds, whose root is around all of it.
Sound(t, lo, lv) ==
  /\ Len(t) \in 1 .. maxValues
  /\ Forest(t, lo, lv)
  /\ \A n \in 1 .. Len(t) : Valid(t[n])
  /\ lo[Len(t)] = 1 /\ lv[Len(t)] = 0

\* Both walks resolve the limits they share to the same numbers.
LEMMA LimitsAgree ==
  /\ S!resolveSerializeLimit("maxDepth") = maxDepth
  /\ S!resolveSerializeLimit("maxValues") = maxValues
  /\ \A kind : S!maxChildren(kind) = maxChildren(kind)
BY DEF S!resolveSerializeLimit, S!maxChildren, SerializerLimits, LimitName,
   resolveOption, maxDepth, maxValues, maxChildren

LEMMA LeafValid ==
  ASSUME NEW n \in 1 .. Len(nodes), nodes[n] \in Node, NodeInv(nodes[n]),
         nodes[n].kind \notin Container
  PROVE  Parsed[n].kind \notin Container /\ Valid(Parsed[n])
<1> DEFINE r == Parsed[n]
           x == nodes[n].text
<1>1. CASE nodes[n].kind = "scalar"
  <2>1. x \in Scalars /\ r.kind = ScalarKind[x] /\ r.lit = Literal[x]
    BY <1>1 DEF Parsed, NodeInv, LeafText
  <2>2. S!Tok(Literal[x]) \in Token
    BY <2>1 DEF Token
  <2> HIDE DEF r, x
  <2>3. r.kind \in {"null", "bool", "number"}
    BY <2>1, TextAssumption
  <2>4. S!validateLeaf(r) = "ok"
    BY <2>1, <2>3, TextAssumption DEF S!validateLeaf
  <2>5. S!Spelled(r) = S!Tok(Literal[x])
    BY <2>1, <2>3, TextAssumption DEF S!Spelled
  <2> QED
    BY <2>1, <2>2, <2>3, <2>4, <2>5 DEF Valid, LeafOf, Container, r
<1>2. CASE nodes[n].kind = "string"
  <2>1. x \in Keys /\ r.kind = "string" /\ r.str = KeyText[x]
    BY <1>2 DEF Parsed, NodeInv, LeafText
  <2>2. S!Str(KeyText[x]) \in Token
    BY <2>1 DEF Token
  <2> HIDE DEF r, x
  <2>3. S!validateLeaf(r) = "ok" /\ S!Spelled(r) = S!Str(KeyText[x])
    BY <2>1, TextAssumption DEF S!validateLeaf, S!Spelled
  <2> QED
    BY <2>1, <2>2, <2>3 DEF Valid, LeafOf, Container, r
<1> QED
  BY <1>1, <1>2 DEF Node

LEMMA ContainerValid ==
  ASSUME NEW n \in 1 .. Len(nodes), nodes[n] \in Node, NodeInv(nodes[n]),
         nodes[n].kind \in Container
  PROVE  Parsed[n].kind = nodes[n].kind /\ Valid(Parsed[n])
<1> DEFINE r == Parsed[n]
           old == nodes[n].keys
<1>1. /\ r.kind = nodes[n].kind /\ r.kids = nodes[n].kids
      /\ r.keys = [i \in DOMAIN old |-> KeyText[old[i]]]
  BY DEF Parsed, Container
<1>2. old \in Seq(Keys)
  BY DEF Node
<1> HIDE DEF old
<1>3. /\ DOMAIN old = 1 .. Len(old) /\ Len(old) \in Nat
      /\ \A i \in 1 .. Len(old) : old[i] \in Keys
  BY <1>2
<1>4. Len(r.keys) = Len(old) /\ \A i \in 1 .. Len(old) : r.keys[i] = KeyText[old[i]]
  BY <1>1, <1>3
<1>5. DistinctKeys(r)
  <2> SUFFICES ASSUME NEW i \in 1 .. Len(old), NEW j \in 1 .. Len(old), r.keys[i] = r.keys[j]
               PROVE  i = j
    BY <1>4 DEF DistinctKeys
  <2>1. old[i] \in Keys /\ old[j] \in Keys /\ KeyText[old[i]] = KeyText[old[j]]
    BY <1>3, <1>4
  <2>2. old[i] = old[j]
    BY <2>1, TextAssumption
  <2> QED
    BY <2>2 DEF NodeInv, DistinctKeys, old
<1>6. \A i \in 1 .. Len(r.keys) : r.keys[i] \in {KeyText[k] : k \in Keys}
  BY <1>3, <1>4
<1>7. r.kind = "object" => Len(r.keys) = Len(r.kids)
  BY <1>1, <1>4 DEF NodeInv, Paired, old
<1> HIDE DEF r
<1>8. Valid(r)
  BY <1>1, <1>5, <1>6, <1>7 DEF NodeInv, Valid
<1> QED
  BY <1>1, <1>8 DEF r

\* What Parse returns can be serialized.
LEMMA ParsedIsSound ==
  ASSUME IInv, ShapeInv, pc = "done", outcome = Accepted
  PROVE  \E lo, lv : Sound(Parsed, lo, lv)
<1>1. stack = <<>> /\ Len(stack) = 0
  BY DEF ShapeInv
<1>2. PICK lo, lv, b : Grown(nodes, stack, TRUE, lo, lv, b)
  BY DEF ShapeInv
<1>3. Len(nodes) \in Nat /\ Len(Parsed) = Len(nodes)
  BY DEF IInv, TypeOK, Parsed
<1>4. Len(nodes) \in 1 .. maxValues
  BY <1>1, <1>2, <1>3, LimitsPositive DEF IInv, ValueCountExact, Grown
<1>5. lo[Len(nodes)] = 1 /\ lv[Len(nodes)] = 0
  BY <1>1, <1>2 DEF Grown, Stacked
<1>6. ASSUME NEW n \in 1 .. Len(nodes)
      PROVE  Valid(Parsed[n]) /\ NodeFits(Parsed[n], n, lo, lv)
  <2>1. nodes[n] \in Node /\ NodeInv(nodes[n])
    BY DEF IInv, TypeOK, NodesInv
  <2>2. NodeFits(nodes[n], n, lo, lv)
    BY <1>2 DEF Grown, Forest
  <2>3. Parsed[n].kids = nodes[n].kids
    BY DEF Parsed
  <2>4. CASE nodes[n].kind \in Container
    <3>1. Parsed[n].kind = nodes[n].kind /\ Valid(Parsed[n])
      BY <2>1, <2>4, ContainerValid
    <3> QED
      BY <2>2, <2>3, <3>1 DEF NodeFits
  <2>5. CASE nodes[n].kind \notin Container
    <3>1. Parsed[n].kind \notin Container /\ Valid(Parsed[n])
      BY <2>1, <2>5, LeafValid
    <3> QED
      BY <2>2, <2>5, <3>1 DEF NodeFits
  <2> QED
    BY <2>4, <2>5
<1>7. Sound(Parsed, lo, lv)
  BY <1>3, <1>4, <1>5, <1>6 DEF Sound, Forest
<1> QED
  BY <1>7

\* The output of the serializer is a text for the parser.
LEMMA LexedType ==
  ASSUME NEW text \in Seq(Token)
  PROVE  Lexed(text) \in Seq(Lexeme)
<1> SUFFICES ASSUME NEW i \in 1 .. Len(text) PROVE Lexed(text)[i] \in Lexeme
  <2>1. Len(text) \in Nat /\ DOMAIN text = 1 .. Len(text)
    OBVIOUS
  <2>2. Lexed(text) = [i \in 1 .. Len(text) |-> Lexed(text)[i]]
    BY <2>1 DEF Lexed
  <2>3. Lexed(text) \in [1 .. Len(text) -> Lexeme]
    BY <2>2
  <2> QED
    BY <2>1, <2>3, SeqDef
<1> DEFINE token == text[i]
<1>0. i \in DOMAIN text /\ token \in Token
  OBVIOUS
<1>1. Lexed(text)[i] =
        IF token.sort = "string"
          THEN PlainString[CHOOSE k \in Keys : KeyText[k] = token.text]
        ELSE IF token.sort \in Structural THEN token.sort
        ELSE PlainScalar[token.sort]
  BY <1>0 DEF Lexed
<1> HIDE DEF token
<1>2. CASE \E k \in Keys : token = S!Str(KeyText[k])
  <2>1. token.sort = "string" /\ \E k \in Keys : KeyText[k] = token.text
    BY <1>2 DEF S!Str
  <2>2. (CHOOSE k \in Keys : KeyText[k] = token.text) \in Keys
    BY <2>1
  <2>3. Lexed(text)[i] \in Strings
    BY <1>1, <2>1, <2>2, TextAssumption
  <2> QED
    BY <2>3 DEF Lexeme
<1>3. CASE \E sort \in Structural : token = S!Tok(sort)
  <2>1. token.sort \in Structural /\ token.sort # "string"
    BY <1>3 DEF S!Tok, Structural
  <2> QED
    BY <1>1, <2>1 DEF Lexeme
<1>4. CASE \E s \in Scalars : token = S!Tok(Literal[s])
  <2>1. PICK s \in Scalars : token.sort = Literal[s]
    BY <1>4 DEF S!Tok
  <2>2. token.sort \notin Structural /\ token.sort # "string"
    BY <2>1, TextAssumption
  <2>3. Lexed(text)[i] \in Scalars \cup BadScalars
    BY <1>1, <2>1, <2>2, TextAssumption DEF ReadsBack, TooLong
  <2> QED
    BY <2>3 DEF Lexeme
<1> QED
  BY <1>0, <1>2, <1>3, <1>4 DEF Token

--------------------------------------------------------------------------------
(* The validating walk. *)

\* An open container f at depth level - 1 of the walk over t.
Entered(t, lv, f, level) ==
  /\ f.node \in 1 .. Len(t)
  /\ t[f.node].kind \in Container
  /\ lv[f.node] = level - 1
  /\ f.node + level - 1 <= Len(t)
  /\ Len(f.order) = Len(t[f.node].kids)
  /\ f.called \in 0 .. Len(t[f.node].kids)
  /\ t[f.node].kind = "object" =>
       \A key \in f.seen : \E i \in 1 .. f.called : key = t[f.node].keys[i]

\* The child the container f made its last call on.
LastCalled(t, f, n) == f.called # 0 /\ n = t[f.node].kids[f.called]

\* The root, or the child that the innermost of the containers w called on.
CalledFrom(t, w, n) == IF w = <<>> THEN n = Len(t) ELSE LastCalled(t, w[Len(w)], n)

\* The containers open on the walk, each the child called on by the one before.
Descent(t, lv, w) ==
  /\ Len(w) \in Nat
  /\ w # <<>> => Len(w) # 0 /\ w[1].node = Len(t)
  /\ \A k \in 1 .. Len(w) : Entered(t, lv, w[k], k)
  /\ \A k \in 2 .. Len(w) : LastCalled(t, w[k - 1], w[k].node)

\* The values counted so far are the nodes before the place the walk has
\* reached and the containers open there.
Counted(t, lo, w, a, v) ==
  LET f == w[Len(w)] IN
  /\ a # 0 => CalledFrom(t, w, a) /\ v = lo[a] - 1 + Len(w)
  /\ a = 0 /\ w # <<>> => v = Begins(t[f.node].kids, lo[f.node], f.called + 1) - 1 + Len(w)

Validating(t, lo, lv, w, a, v) ==
  a \in Nat /\ v \in Nat /\ Descent(t, lv, w) /\ Counted(t, lo, w, a, v)

\* A call is made on a node of the tree, within both limits.
LEMMA CallWithin ==
  ASSUME NEW t, NEW lo, NEW lv, NEW w, NEW a, NEW v, Sound(t, lo, lv),
         Validating(t, lo, lv, w, a, v), a # 0
  PROVE  /\ a \in 1 .. Len(t) /\ lo[a] \in 1 .. a
         /\ lv[a] = Len(w) /\ Len(w) <= maxDepth
         /\ a + Len(w) <= Len(t) /\ v = lo[a] - 1 + Len(w) /\ v + 1 <= maxValues
<1>1. Len(w) \in Nat /\ Len(t) \in 1 .. maxValues /\ maxValues \in Nat /\ maxDepth \in Nat
  BY LimitsPositive DEF Sound, Validating, Descent
<1>2. a \in 1 .. Len(t) /\ lv[a] = Len(w) /\ a + Len(w) <= Len(t)
  <2>1. CASE w = <<>>
    BY <1>1, <2>1 DEF Sound, Validating, Counted, CalledFrom
  <2>2. CASE w # <<>>
    <3> DEFINE f == w[Len(w)]
    <3>1. Len(w) \in 1 .. Len(w) /\ Entered(t, lv, f, Len(w)) /\ LastCalled(t, f, a)
      BY <2>2 DEF Validating, Descent, Counted, CalledFrom
    <3> HIDE DEF f
    <3>2. f.called \in 1 .. Len(t[f.node].kids) /\ f.node \in 1 .. Len(t)
      BY <3>1 DEF Entered, LastCalled
    <3>3. NodeFits(t[f.node], f.node, lo, lv)
      BY <3>2 DEF Sound, Forest
    <3>4. Chain(t[f.node].kids, lo, lv, lo[f.node], lv[f.node] + 1, f.node - 1)
      BY <3>1, <3>3 DEF Entered, NodeFits
    <3>5. a \in 1 .. f.node - 1 /\ lv[a] = lv[f.node] + 1
      BY <3>1, <3>2, <3>4 DEF Chain, LastCalled
    <3> QED
      BY <1>1, <3>1, <3>2, <3>5 DEF Entered
  <2> QED
    BY <2>1, <2>2
<1>3. lo[a] \in 1 .. a /\ lv[a] \in 0 .. maxDepth
  BY <1>2 DEF Sound, Forest, NodeFits
<1>4. v = lo[a] - 1 + Len(w)
  BY DEF Validating, Counted
<1> QED
  BY <1>1, <1>2, <1>3, <1>4

\* A call on a leaf returns.
LEMMA LeafReturns ==
  ASSUME NEW t, NEW lo, NEW lv, NEW w, NEW a, NEW v, Sound(t, lo, lv),
         Validating(t, lo, lv, w, a, v), a # 0, t[a].kind \notin Container
  PROVE  Validating(t, lo, lv, w, 0, v + 1)
<1>1. a \in 1 .. Len(t) /\ v = lo[a] - 1 + Len(w) /\ Len(w) \in Nat /\ v \in Nat
  BY CallWithin DEF Validating, Descent
<1>2. lo[a] = a
  BY <1>1 DEF Sound, Forest, NodeFits
<1>3. CASE w # <<>>
  <2> DEFINE f == w[Len(w)]
             kids == t[f.node].kids
  <2>1. Entered(t, lv, f, Len(w)) /\ LastCalled(t, f, a)
    BY <1>3 DEF Validating, Descent, Counted, CalledFrom
  <2>2. f.called \in Nat \ {0} /\ (f.called + 1) - 1 = f.called /\ kids[f.called] = a
    <3> HIDE DEF f
    <3> QED
      BY <2>1 DEF Entered, LastCalled
  <2>3. Begins(kids, lo[f.node], f.called + 1) = a + 1
    <3> HIDE DEF f, kids
    <3> QED
      BY <2>2 DEF Begins
  <2>4. v + 1 = Begins(kids, lo[f.node], f.called + 1) - 1 + Len(w)
    BY <1>1, <1>2, <2>3
  <2> QED
    BY <1>1, <2>4 DEF Validating, Counted
<1>4. CASE w = <<>>
  BY <1>1, <1>4 DEF Validating, Counted
<1> QED
  BY <1>3, <1>4

\* A call on a container opens it.
LEMMA ContainerOpens ==
  ASSUME NEW t, NEW lo, NEW lv, NEW w, NEW a, NEW v, Sound(t, lo, lv),
         Validating(t, lo, lv, w, a, v), a # 0, t[a].kind \in Container,
         NEW w2, Len(w2) = Len(w) + 1, \A k \in 1 .. Len(w) : w2[k] = w[k],
         w2[Len(w) + 1].node = a, w2[Len(w) + 1].called = 0, w2[Len(w) + 1].seen = {},
         Len(w2[Len(w) + 1].order) = Len(t[a].kids)
  PROVE  Validating(t, lo, lv, w2, 0, v + 1)
<1> DEFINE l == Len(w)
           f == w2[l + 1]
<1>1. /\ a \in 1 .. Len(t) /\ lv[a] = l /\ a + l <= Len(t) /\ v = lo[a] - 1 + l
      /\ l \in Nat /\ v \in Nat /\ lo[a] \in Nat /\ Len(t) \in Nat
  BY CallWithin DEF Validating, Descent, Sound
<1>2. Len(t[a].kids) \in Nat
  BY <1>1 DEF Sound, Forest, NodeFits, Chain
<1>3. Entered(t, lv, f, l + 1)
  <2> HIDE DEF f, l
  <2>1. f.node = a /\ f.called = 0 /\ f.seen = {} /\ Len(f.order) = Len(t[a].kids)
    BY DEF f, l
  <2>2. (l + 1) - 1 = l /\ a + (l + 1) - 1 <= Len(t)
    BY <1>1
  <2> QED
    BY <1>1, <1>2, <2>1, <2>2 DEF Entered
<1>4. ASSUME NEW k \in 1 .. l + 1 PROVE Entered(t, lv, w2[k], k)
  <2>1. CASE k = l + 1
    BY <1>3, <2>1
  <2>2. CASE k # l + 1
    <3>1. k \in 1 .. l
      BY <1>1, <2>2
    <3> QED
      BY <3>1 DEF Validating, Descent
  <2> QED
    BY <2>1, <2>2
<1>5. CalledFrom(t, w, a)
  BY DEF Validating, Counted
<1>6. ASSUME NEW k \in 2 .. l + 1 PROVE LastCalled(t, w2[k - 1], w2[k].node)
  <2>1. CASE k = l + 1
    <3>1. k - 1 = l /\ l \in 1 .. l /\ w # <<>>
      BY <1>1, <2>1
    <3> QED
      BY <1>5, <2>1, <3>1 DEF CalledFrom
  <2>2. CASE k # l + 1
    <3>1. k \in 2 .. l /\ k \in 1 .. l /\ k - 1 \in 1 .. l
      BY <1>1, <2>2
    <3> QED
      BY <3>1 DEF Validating, Descent
  <2> QED
    BY <2>1, <2>2
<1>7. w2[1].node = Len(t)
  <2>1. CASE w = <<>>
    BY <1>5, <2>1 DEF CalledFrom
  <2>2. CASE w # <<>>
    <3>1. 1 \in 1 .. l /\ w[1].node = Len(t)
      BY <2>2, <1>1 DEF Validating, Descent
    <3> QED
      BY <3>1
  <2> QED
    BY <2>1, <2>2
<1>8. Descent(t, lv, w2)
  BY <1>1, <1>4, <1>6, <1>7 DEF Descent
<1>9. Counted(t, lo, w2, 0, v + 1)
  <2>1. Begins(t[a].kids, lo[a], 1) = lo[a]
    BY DEF Begins
  <2>2. v + 1 = lo[a] - 1 + (l + 1)
    BY <1>1
  <2> QED
    BY <2>1, <2>2 DEF Counted
<1>10. v + 1 \in Nat
  BY <1>1
<1> HIDE DEF f, l
<1> QED
  BY <1>8, <1>9, <1>10 DEF Validating

\* The innermost container calls on its next child.
LEMMA ChildCalled ==
  ASSUME NEW t, NEW lo, NEW lv, NEW w, NEW v, Sound(t, lo, lv),
         Validating(t, lo, lv, w, 0, v), w # <<>>,
         w[Len(w)].called < Len(w[Len(w)].order),
         NEW w2, Len(w2) = Len(w), \A k \in 1 .. Len(w) - 1 : w2[k] = w[k],
         Entered(t, lv, w2[Len(w)], Len(w)),
         w2[Len(w)].node = w[Len(w)].node, w2[Len(w)].called = w[Len(w)].called + 1,
         NEW a, a = t[w[Len(w)].node].kids[w[Len(w)].called + 1]
  PROVE  Validating(t, lo, lv, w2, a, v)
<1> DEFINE l == Len(w)
           f == w[l]
           g == w2[l]
           kids == t[f.node].kids
<1>1. /\ l \in Nat \ {0} /\ v \in Nat /\ Entered(t, lv, f, l)
      /\ v = Begins(kids, lo[f.node], f.called + 1) - 1 + l
  BY DEF Validating, Descent, Counted
<1>2. f.node \in 1 .. Len(t) /\ f.called + 1 \in 1 .. Len(kids) /\ f.called \in Nat
  <2> DEFINE c == f.called
             m == Len(kids)
  <2>1. f.node \in 1 .. Len(t) /\ c \in 0 .. m /\ Len(f.order) = m /\ m \in Nat
    BY <1>1 DEF Entered, Sound, Forest, NodeFits, Chain
  <2>2. c < m
    BY <2>1
  <2> HIDE DEF c, m
  <2>3. c + 1 \in 1 .. m /\ c \in Nat
    BY <2>1, <2>2
  <2> QED
    BY <2>1, <2>3 DEF c, m
<1>3. Chain(kids, lo, lv, lo[f.node], lv[f.node] + 1, f.node - 1)
  BY <1>1, <1>2 DEF Sound, Forest, NodeFits, Entered
<1>4. a \in 1 .. f.node - 1 /\ lo[a] = Begins(kids, lo[f.node], f.called + 1)
  BY <1>2, <1>3 DEF Chain
<1>5. a \in Nat /\ a # 0 /\ v = lo[a] - 1 + l
  <2>1. Len(t) \in Nat
    BY DEF Sound
  <2>2. f.node \in Nat
    BY <1>2, <2>1
  <2> HIDE DEF f, kids, l
  <2> QED
    BY <1>1, <1>4, <2>2
<1>6. LastCalled(t, g, a) /\ g.node = f.node
  BY <1>2 DEF LastCalled
<1>7. ASSUME NEW k \in 1 .. l PROVE Entered(t, lv, w2[k], k) /\ w2[k].node = w[k].node
  <2>1. CASE k = l
    BY <2>1
  <2>2. CASE k # l
    <3>1. k \in 1 .. l - 1
      BY <1>1, <2>2
    <3> QED
      BY <3>1 DEF Validating, Descent
  <2> QED
    BY <2>1, <2>2
<1>8. ASSUME NEW k \in 2 .. l PROVE LastCalled(t, w2[k - 1], w2[k].node)
  <2>1. k - 1 \in 1 .. l - 1 /\ k \in 1 .. l
    OBVIOUS
  <2>2. w2[k - 1] = w[k - 1] /\ w2[k].node = w[k].node
    BY <1>7, <2>1
  <2> QED
    BY <2>2 DEF Validating, Descent
<1>9. w2[1].node = Len(t)
  <2>1. 1 \in 1 .. l
    BY <1>1
  <2> QED
    BY <1>7, <2>1 DEF Validating, Descent
<1>10. Descent(t, lv, w2)
  BY <1>1, <1>7, <1>8, <1>9 DEF Descent
<1>11. w2 # <<>>
  BY <1>1
<1>12. Counted(t, lo, w2, a, v)
  BY <1>5, <1>6, <1>11 DEF Counted, CalledFrom
<1> QED
  BY <1>1, <1>5, <1>10, <1>12 DEF Validating

\* The innermost container has called on all its children and returns.
LEMMA ContainerReturns ==
  ASSUME NEW t, NEW lo, NEW lv, NEW w, NEW v, Sound(t, lo, lv),
         Validating(t, lo, lv, w, 0, v), w # <<>>,
         ~(w[Len(w)].called < Len(w[Len(w)].order)),
         NEW w2, Len(w2) = Len(w) - 1, \A k \in 1 .. Len(w) - 1 : w2[k] = w[k]
  PROVE  Validating(t, lo, lv, w2, 0, v)
<1> DEFINE l == Len(w)
           f == w[l]
           n == f.node
           kids == t[n].kids
<1>1. /\ l \in Nat \ {0} /\ v \in Nat /\ Entered(t, lv, f, l)
      /\ v = Begins(kids, lo[n], f.called + 1) - 1 + l
  BY DEF Validating, Descent, Counted
<1>2. n \in 1 .. Len(t) /\ t[n].kind \in Container /\ f.called = Len(kids) /\ n \in Nat
  BY <1>1 DEF Entered, Sound
<1>3. n = Begins(kids, lo[n], Len(kids) + 1)
  BY <1>2 DEF Sound, Forest, NodeFits
<1>4. v = n - 1 + l
  BY <1>1, <1>2, <1>3
<1>5. Descent(t, lv, w2)
  <2>1. \A k \in 1 .. l - 1 : k \in 1 .. l
    BY <1>1
  <2>2. \A k \in 2 .. l - 1 : k \in 2 .. l /\ k \in 1 .. l - 1 /\ k - 1 \in 1 .. l - 1
    BY <1>1
  <2>3. w2 # <<>> => Len(w2) # 0 /\ 1 \in 1 .. l - 1
    BY <1>1
  <2>4. \A k \in 1 .. l - 1 : Entered(t, lv, w2[k], k)
    BY <2>1 DEF Validating, Descent
  <2>5. \A k \in 2 .. l - 1 : LastCalled(t, w2[k - 1], w2[k].node)
    BY <2>2 DEF Validating, Descent
  <2>6. w2 # <<>> => Len(w2) # 0 /\ w2[1].node = Len(t)
    BY <2>3 DEF Validating, Descent
  <2>7. Len(w2) = l - 1 /\ l - 1 \in Nat
    BY <1>1
  <2> HIDE DEF l
  <2> QED
    BY <2>4, <2>5, <2>6, <2>7 DEF Descent
<1>6. CASE l = 1
  BY <1>1, <1>5, <1>6 DEF Validating, Counted
<1>7. CASE l # 1
  <2> DEFINE g == w[l - 1]
  <2>1. l - 1 \in 1 .. l /\ l - 1 \in 1 .. l - 1 /\ l \in 2 .. l
    BY <1>1, <1>7
  <2>2. Entered(t, lv, g, l - 1) /\ LastCalled(t, g, n) /\ w2[l - 1] = g
    BY <2>1 DEF Validating, Descent
  <2> HIDE DEF g
  <2>3. g.called \in Nat \ {0} /\ (g.called + 1) - 1 = g.called /\ n = t[g.node].kids[g.called]
    BY <2>2 DEF Entered, LastCalled
  <2>4. Begins(t[g.node].kids, lo[g.node], g.called + 1) = n + 1
    BY <2>3 DEF Begins
  <2> HIDE DEF f, n, kids
  <2>5. v = (n + 1) - 1 + (l - 1)
    <3>1. l \in Nat \ {0}
      BY <1>1
    <3> HIDE DEF l
    <3> QED
      BY <1>2, <1>4, <3>1
  <2>6. Counted(t, lo, w2, 0, v)
    BY <2>2, <2>4, <2>5 DEF Counted
  <2> QED
    BY <1>1, <1>5, <2>6 DEF Validating
<1> QED
  BY <1>6, <1>7

--------------------------------------------------------------------------------
(* The steps of the serializer. *)

KeyTexts == {KeyText[k] : k \in Keys}

OpenContainer ==
  [node : Nat, order : Seq(Nat), called : Nat, seen : SUBSET KeyTexts]

\* The emitting walk stays inside the tree.
Emitting(t, w, a) ==
  /\ a \in 0 .. Len(t)
  /\ \A k \in 1 .. Len(w) :
       /\ w[k].node \in 1 .. Len(t) /\ t[w[k].node].kind \in Container
       /\ \A i \in 1 .. Len(w[k].order) : w[k].order[i] \in 1 .. Len(t[w[k].node].kids)

SerializerInv ==
  /\ phase \in {"idle", "validate", "emit", "done"}
  /\ phase \in {"validate", "emit"} => walk \in Seq(OpenContainer)
  /\ phase = "validate" =>
       /\ out = <<>>
       /\ \E lo, lv : Sound(tree, lo, lv) /\ Validating(tree, lo, lv, walk, at, values)
  /\ phase = "emit" =>
       (\E lo, lv : Sound(tree, lo, lv)) /\ Emitting(tree, walk, at) /\ out \in Seq(Token)
  /\ phase = "done" => result = "ok" /\ out \in Seq(Token)

LEMMA SameContainers == S!Container = Container
BY DEF S!Container, Container

LEMMA SameCardinality == \A set : S!Cardinality(set) = Cardinality(set)
BY DEF S!Cardinality, Cardinality

LEMMA FrontIs ==
  ASSUME NEW T, NEW s \in Seq(T), s # <<>>
  PROVE  /\ S!Front(s) \in Seq(T) /\ Len(S!Front(s)) = Len(s) - 1
         /\ \A i \in 1 .. Len(s) - 1 : S!Front(s)[i] = s[i]
<1> DEFINE m == Len(s) - 1
<1>1. S!Front(s) = SubSeq(s, 1, m)
  BY DEF S!Front
<1>2. m \in Nat /\ 1 \in Int /\ m \in Int
  OBVIOUS
<1>3. \A i \in 1 .. m : s[i] \in T
  OBVIOUS
<1> HIDE DEF m
<1>4. /\ SubSeq(s, 1, m) \in Seq(T)
      /\ Len(SubSeq(s, 1, m)) = IF 1 <= m THEN m - 1 + 1 ELSE 0
      /\ \A i \in 1 .. m - 1 + 1 : SubSeq(s, 1, m)[i] = s[1 + i - 1]
  BY <1>2, <1>3, SubSeqProperties
<1>5. /\ (IF 1 <= m THEN m - 1 + 1 ELSE 0) = m /\ m - 1 + 1 = m
      /\ \A i \in 1 .. m : 1 + i - 1 = i
  BY <1>2
<1>6. \A i \in 1 .. m : SubSeq(s, 1, m)[i] = s[i]
  BY <1>4, <1>5
<1> QED
  BY <1>1, <1>4, <1>5, <1>6 DEF m

\* An order in which the children of a container are emitted consists of them.
LEMMA OrderIs ==
  ASSUME NEW r, r.kind \in Container, Len(r.kids) \in Nat,
         r.kind = "object" => Len(r.keys) = Len(r.kids),
         NEW order \in S!SortedOrders(r)
  PROVE  order \in Seq(1 .. Len(r.kids))
<1> DEFINE n == Len(r.kids)
<1>1. CASE r.kind = "array"
  BY <1>1 DEF S!SortedOrders
<1>2. CASE r.kind # "array"
  <2>1. order \in S!SetToSeqs(1 .. n)
    BY <1>2 DEF S!SortedOrders, Container
  <2>2. S!Cardinality(1 .. n) = n
    BY FS_Interval, SameCardinality
  <2>3. order \in [1 .. n -> 1 .. n]
    BY <2>1, <2>2 DEF S!SetToSeqs
  <2> QED
    BY <2>3, SeqDef
<1> QED
  BY <1>1, <1>2

\* w2 is w with the frame f in place of the innermost.
Replaced(w2, w, f) ==
  /\ w2 \in Seq(OpenContainer) /\ Len(w2) = Len(w) /\ w2[Len(w)] = f
  /\ \A k \in 1 .. Len(w) - 1 : w2[k] = w[k]

LEMMA WalkTop ==
  ASSUME walk \in Seq(OpenContainer), walk # <<>>
  PROVE  /\ Len(walk) \in Nat \ {0} /\ Len(walk) \in 1 .. Len(walk)
         /\ S!Top = walk[Len(walk)] /\ S!Top \in OpenContainer
BY DEF S!Top

LEMMA OpenIs ==
  ASSUME walk \in Seq(OpenContainer), NEW n \in Nat, NEW order \in Seq(Nat)
  PROVE  /\ S!Open(n, order) \in Seq(OpenContainer)
         /\ Len(S!Open(n, order)) = Len(walk) + 1
         /\ \A k \in 1 .. Len(walk) : S!Open(n, order)[k] = walk[k]
         /\ S!Open(n, order)[Len(walk) + 1]
              = [node |-> n, order |-> order, called |-> 0, seen |-> {}]
<1> DEFINE f == [node |-> n, order |-> order, called |-> 0, seen |-> {}]
<1>1. f \in OpenContainer
  BY DEF OpenContainer
<1>2. S!Open(n, order) = Append(walk, f)
  BY DEF S!Open
<1> HIDE DEF f
<1>3. /\ Append(walk, f) \in Seq(OpenContainer)
      /\ Len(Append(walk, f)) = Len(walk) + 1
      /\ \A k \in 1 .. Len(walk) : Append(walk, f)[k] = walk[k]
      /\ Append(walk, f)[Len(walk) + 1] = f
  BY <1>1
<1> QED
  BY <1>2, <1>3 DEF f

LEMMA StepIs ==
  ASSUME walk \in Seq(OpenContainer), walk # <<>>
  PROVE  Replaced(S!Step, walk, [S!Top EXCEPT !.called = @ + 1])
<1> DEFINE f == [S!Top EXCEPT !.called = @ + 1]
<1>1. f \in OpenContainer
  <2>1. ASSUME NEW g \in OpenContainer, NEW n \in Nat
        PROVE  [g EXCEPT !.called = n] \in OpenContainer
    BY DEF OpenContainer
  <2>2. S!Top \in OpenContainer
    BY WalkTop
  <2>3. S!Top.called + 1 \in Nat
    BY <2>2 DEF OpenContainer
  <2> QED
    BY <2>1, <2>2, <2>3
<1>2. S!Step = [walk EXCEPT ![Len(walk)] = f]
  BY DEF S!Step, S!Top
<1> HIDE DEF f
<1>3. Replaced([walk EXCEPT ![Len(walk)] = f], walk, f)
  BY <1>1, WalkTop DEF Replaced
<1> QED
  BY <1>2, <1>3 DEF f

LEMMA SeenIs ==
  ASSUME NEW w \in Seq(OpenContainer), w # <<>>, NEW key \in KeyTexts
  PROVE  Replaced([w EXCEPT ![Len(w)].seen = @ \cup {key}], w,
                  [w[Len(w)] EXCEPT !.seen = @ \cup {key}])
<1> DEFINE f == [w[Len(w)] EXCEPT !.seen = @ \cup {key}]
           w2 == [w EXCEPT ![Len(w)] = f]
<1>1. w[Len(w)] \in OpenContainer /\ Len(w) \in 1 .. Len(w) /\ Len(w) \in Nat
  OBVIOUS
<1>2. f \in OpenContainer
  BY <1>1 DEF OpenContainer
<1>3. w2 = [w EXCEPT ![Len(w)].seen = @ \cup {key}]
  OBVIOUS
<1> HIDE DEF f
<1>4. Replaced(w2, w, f)
  BY <1>1, <1>2 DEF Replaced
<1> QED
  BY <1>3, <1>4 DEF f

LEMMA WalkContinues ==
  ASSUME SerializerInv, phase = "validate", UNCHANGED <<tree, phase, out>>,
         NEW lo, NEW lv, Sound(tree, lo, lv), walk' \in Seq(OpenContainer),
         Validating(tree, lo, lv, walk', at', values')
  PROVE  SerializerInv'
BY DEF SerializerInv

\* No call is refused for the number of values or for the depth.
LEMMA NoBoundRejects ==
  ASSUME NEW lo, NEW lv, Sound(tree, lo, lv),
         Validating(tree, lo, lv, walk, at, values), at # 0
  PROVE  ~S!TooMany /\ ~S!TooDeep
<1>1. values + 1 <= maxValues /\ Len(walk) <= maxDepth
  BY CallWithin
<1>2. values + 1 \in Int /\ Len(walk) \in Int /\ maxValues \in Int /\ maxDepth \in Int
  BY LimitsPositive DEF Validating, Descent
<1> QED
  BY <1>1, <1>2, LimitsAgree DEF S!TooMany, S!TooDeep

\* A call of validateValueTree on a node.
LEMMA CallStep ==
  ASSUME SerializerInv, phase = "validate", at # 0,
         NEW lo, NEW lv, Sound(tree, lo, lv),
         Validating(tree, lo, lv, walk, at, values),
         S!RejectBound \/ S!ValidateLeaf \/ S!RejectChildren \/ S!ValidateContainer
  PROVE  SerializerInv'
<1>1. /\ at \in 1 .. Len(tree) /\ walk \in Seq(OpenContainer) /\ Len(walk) \in Nat
      /\ at \in Nat
  BY CallWithin DEF SerializerInv, Validating, Descent
<1>2. Valid(tree[at])
  BY <1>1 DEF Sound
<1>3. CASE S!RejectBound
  BY <1>3, NoBoundRejects DEF S!RejectBound
<1>4. CASE S!ValidateLeaf
  <2>1. /\ tree[at].kind \notin Container /\ values' = values + 1
        /\ S!validateLeaf(tree[at]) = "ok"
    BY <1>2, <1>4, SameContainers DEF S!ValidateLeaf, S!WithinBounds, S!Called, Valid
  <2>2. at' = 0 /\ UNCHANGED <<tree, phase, walk, out>>
    BY <1>4, <2>1 DEF S!ValidateLeaf
  <2>3. Validating(tree, lo, lv, walk, 0, values + 1)
    BY <2>1, LeafReturns
  <2> QED
    BY <1>1, <2>1, <2>2, <2>3, WalkContinues
<1>5. CASE S!RejectChildren
  <2>1. /\ tree[at].kind \in Container
        /\ Len(tree[at].kids) > maxChildren(tree[at].kind)
    BY <1>5, SameContainers, LimitsAgree DEF S!RejectChildren
  <2>2. Len(tree[at].kids) <= maxChildren(tree[at].kind)
    BY <1>2, <2>1 DEF Valid
  <2>3. Len(tree[at].kids) \in Nat /\ maxChildren(tree[at].kind) \in Nat
    BY <1>1, <2>1, LimitsPositive DEF Sound, Forest, NodeFits, Chain
  <2> QED
    BY <2>1, <2>2, <2>3
<1>6. CASE S!ValidateContainer
  <2> DEFINE order == [i \in 1 .. Len(tree[at].kids) |-> i]
  <2>1. /\ tree[at].kind \in Container /\ values' = values + 1 /\ at' = 0
        /\ walk' = S!Open(at, order) /\ UNCHANGED <<tree, phase, out>>
    BY <1>6, SameContainers DEF S!ValidateContainer, S!WithinBounds, S!Called
  <2>2. Len(tree[at].kids) \in Nat
    BY <1>1, <2>1 DEF Sound, Forest, NodeFits, Chain
  <2>3. order \in Seq(Nat) /\ Len(order) = Len(tree[at].kids)
    BY <2>2
  <2> HIDE DEF order
  <2>4. /\ walk' \in Seq(OpenContainer) /\ Len(walk') = Len(walk) + 1
        /\ \A k \in 1 .. Len(walk) : walk'[k] = walk[k]
        /\ walk'[Len(walk) + 1] = [node |-> at, order |-> order, called |-> 0, seen |-> {}]
    BY <1>1, <2>1, <2>3, OpenIs
  <2>5. /\ walk'[Len(walk) + 1].node = at /\ walk'[Len(walk) + 1].called = 0
        /\ walk'[Len(walk) + 1].seen = {}
        /\ Len(walk'[Len(walk) + 1].order) = Len(tree[at].kids)
    BY <2>3, <2>4
  <2>6. Validating(tree, lo, lv, walk', 0, values + 1)
    BY <2>1, <2>4, <2>5, ContainerOpens
  <2> QED
    BY <2>1, <2>4, <2>6, WalkContinues
<1> QED
  BY <1>3, <1>4, <1>5, <1>6

\* The key of the next member of the innermost object is a good one.
LEMMA NextKeyIs ==
  ASSUME NEW lo, NEW lv, Sound(tree, lo, lv),
         Validating(tree, lo, lv, walk, 0, values), walk \in Seq(OpenContainer), walk # <<>>,
         tree[S!Top.node].kind = "object", S!MoreChildren
  PROVE  /\ S!nextKey \in KeyTexts /\ S!validateString(S!nextKey) = "ok"
         /\ S!nextKey \notin S!Top.seen
<1> DEFINE f == S!Top
           r == tree[f.node]
           i == f.called + 1
<1>1. Entered(tree, lv, f, Len(walk))
  BY WalkTop DEF Validating, Descent
<1>2. r.kind = "object" /\ f.called < Len(f.order) /\ S!nextKey = r.keys[i]
  BY DEF S!MoreChildren, S!nextKey
<1> HIDE DEF f
<1>3. f.node \in 1 .. Len(tree) /\ Valid(r)
  BY <1>1 DEF Entered, Sound
<1> HIDE DEF r
<1>4. /\ Len(r.keys) = Len(r.kids) /\ DistinctKeys(r)
      /\ \A j \in 1 .. Len(r.keys) : r.keys[j] \in KeyTexts
  BY <1>2, <1>3 DEF Valid, KeyTexts
<1>5. /\ f.called \in Nat /\ f.called < Len(r.kids) /\ Len(r.kids) \in Nat
      /\ \A key \in f.seen : \E j \in 1 .. f.called : key = r.keys[j]
  <2>1. /\ f.called \in 0 .. Len(r.kids) /\ Len(f.order) = Len(r.kids)
        /\ \A key \in f.seen : \E j \in 1 .. f.called : key = r.keys[j]
    BY <1>1, <1>2 DEF Entered, r
  <2>2. Len(r.kids) \in Nat
    BY <1>2, <1>3 DEF Sound, Forest, NodeFits, Chain, Container, r
  <2> QED
    BY <1>2, <2>1, <2>2
<1>6. i \in 1 .. Len(r.keys) /\ \A j \in 1 .. f.called : j \in 1 .. Len(r.keys) /\ j # i
  BY <1>4, <1>5
<1>7. r.keys[i] \notin f.seen
  BY <1>4, <1>5, <1>6 DEF DistinctKeys
<1>8. r.keys[i] \in KeyTexts
  BY <1>4, <1>6
<1>9. \A text \in KeyTexts : S!validateString(text) = "ok"
  BY TextAssumption DEF KeyTexts
<1> QED
  BY <1>2, <1>7, <1>8, <1>9 DEF f

\* A step of the loop over the children of the innermost container.
LEMMA LoopStep ==
  ASSUME SerializerInv, phase = "validate", at = 0, walk # <<>>,
         NEW lo, NEW lv, Sound(tree, lo, lv),
         Validating(tree, lo, lv, walk, 0, values),
         \/ S!RejectKey \/ S!RejectDuplicate \/ S!ValidateMember
         \/ S!ValidateElement \/ S!ValidateReturn
  PROVE  SerializerInv'
<1> DEFINE l == Len(walk)
           f == S!Top
           g == walk'[l]
<1>1. /\ walk \in Seq(OpenContainer) /\ l \in Nat \ {0} /\ f = walk[l] /\ f \in OpenContainer
      /\ Entered(tree, lv, f, l)
  BY WalkTop DEF SerializerInv, Validating, Descent
<1>2. CASE S!RejectKey \/ S!RejectDuplicate
  BY <1>1, <1>2, NextKeyIs DEF S!RejectKey, S!RejectDuplicate, S!ObjectNext
<1>3. CASE S!ValidateMember
  <2> DEFINE h == [f EXCEPT !.called = @ + 1]
             key == S!nextKey
  <2>1. /\ S!MoreChildren /\ tree[f.node].kind = "object" /\ values' = values
        /\ walk' = [S!Step EXCEPT ![Len(walk)].seen = @ \cup {key}]
        /\ at' = tree[f.node].kids[f.called + 1] /\ UNCHANGED <<tree, phase, out>>
    BY <1>3 DEF S!ValidateMember, S!ObjectNext, S!Looping
  <2>2. key \in KeyTexts /\ key = tree[f.node].keys[f.called + 1]
    BY <1>1, <2>1, NextKeyIs DEF S!nextKey
  <2>3. Replaced(S!Step, walk, h)
    BY <1>1, StepIs
  <2>4. h.node = f.node /\ h.called = f.called + 1 /\ h.seen = f.seen /\ h.order = f.order
    BY <1>1 DEF OpenContainer
  <2> HIDE DEF h, key, f
  <2>5. S!Step \in Seq(OpenContainer) /\ Len(S!Step) = l /\ S!Step # <<>> /\ S!Step[l] = h
    BY <1>1, <2>3 DEF Replaced
  <2>6. Replaced(walk', S!Step, [h EXCEPT !.seen = @ \cup {key}])
    BY <2>1, <2>2, <2>5, SeenIs
  <2>7. /\ Len(walk') = l /\ walk' \in Seq(OpenContainer)
        /\ \A k \in 1 .. l - 1 : walk'[k] = walk[k]
        /\ g = [h EXCEPT !.seen = @ \cup {key}]
    BY <2>3, <2>5, <2>6 DEF Replaced
  <2>8. h \in OpenContainer
    BY <1>1, <2>5
  <2>9. /\ g.node = f.node /\ g.called = f.called + 1
        /\ g.seen = f.seen \cup {key} /\ g.order = f.order
    BY <2>4, <2>7, <2>8 DEF OpenContainer
  <2>10. f.called < Len(f.order)
    BY <2>1 DEF S!MoreChildren, f
  <2> HIDE DEF g
  <2>11. Entered(tree, lv, g, l)
    <3>1. Len(tree[f.node].kids) \in Nat
      BY <1>1, <2>1, <2>10 DEF Entered, Sound, Forest, NodeFits, Chain
    <3>2. f.called + 1 \in 0 .. Len(tree[f.node].kids) /\ f.called \in Nat
      <4>1. /\ f.called \in 0 .. Len(tree[f.node].kids)
            /\ Len(f.order) = Len(tree[f.node].kids)
        BY <1>1 DEF Entered
      <4> QED
        BY <2>10, <3>1, <4>1
    <3>3. \A x \in g.seen : \E i \in 1 .. g.called : x = tree[f.node].keys[i]
      <4> SUFFICES ASSUME NEW x \in g.seen
                   PROVE  \E i \in 1 .. f.called + 1 : x = tree[f.node].keys[i]
        BY <2>9
      <4>1. CASE x = key
        <5>1. f.called + 1 \in 1 .. f.called + 1
          BY <3>2
        <5> QED
          BY <2>2, <4>1, <5>1
      <4>2. CASE x \in f.seen
        <5>1. PICK i \in 1 .. f.called : x = tree[f.node].keys[i]
          BY <1>1, <2>1, <4>2 DEF Entered
        <5>2. i \in 1 .. f.called + 1
          BY <3>2
        <5> QED
          BY <5>1, <5>2
      <4> QED
        BY <2>9, <4>1, <4>2
    <3>4. /\ f.node \in 1 .. Len(tree) /\ tree[f.node].kind \in Container
          /\ lv[f.node] = l - 1 /\ f.node + l - 1 <= Len(tree)
          /\ Len(f.order) = Len(tree[f.node].kids)
      BY <1>1 DEF Entered
    <3> HIDE DEF l
    <3>5. /\ g.node \in 1 .. Len(tree) /\ tree[g.node].kind \in Container
          /\ lv[g.node] = l - 1 /\ g.node + l - 1 <= Len(tree)
          /\ Len(g.order) = Len(tree[g.node].kids)
          /\ g.called \in 0 .. Len(tree[g.node].kids)
      BY <2>9, <3>2, <3>4
    <3>6. \A x \in g.seen : \E i \in 1 .. g.called : x = tree[g.node].keys[i]
      BY <2>9, <3>3
    <3> QED
      BY <3>5, <3>6 DEF Entered
  <2>12. Validating(tree, lo, lv, walk', at', values)
    <3>1. /\ Entered(tree, lv, walk'[l], l) /\ walk'[l].node = walk[l].node
          /\ walk'[l].called = walk[l].called + 1 /\ walk[l].called < Len(walk[l].order)
          /\ at' = tree[walk[l].node].kids[walk[l].called + 1]
      BY <1>1, <2>1, <2>9, <2>10, <2>11 DEF g
    <3>2. Validating(tree, lo, lv, walk', at', values)
      BY <2>7, <3>1, ChildCalled
    <3> QED
      BY <2>1, <3>2
  <2> QED
    BY <2>1, <2>7, <2>12, WalkContinues
<1>4. CASE S!ValidateElement
  <2> DEFINE h == [f EXCEPT !.called = @ + 1]
  <2>1. /\ f.called < Len(f.order) /\ tree[f.node].kind = "array" /\ values' = values
        /\ walk' = S!Step
        /\ at' = tree[f.node].kids[f.called + 1] /\ UNCHANGED <<tree, phase, out>>
    BY <1>4 DEF S!ValidateElement, S!Looping, S!MoreChildren
  <2>2. Replaced(walk', walk, h)
    BY <1>1, <2>1, StepIs
  <2>3. h.node = f.node /\ h.called = f.called + 1 /\ h.seen = f.seen /\ h.order = f.order
    BY <1>1 DEF OpenContainer
  <2> HIDE DEF h, f
  <2>4. /\ Len(walk') = l /\ walk' \in Seq(OpenContainer) /\ g = h
        /\ \A k \in 1 .. l - 1 : walk'[k] = walk[k]
    BY <2>2 DEF Replaced
  <2>5. Entered(tree, lv, g, l)
    <3>1. Len(tree[f.node].kids) \in Nat
      BY <1>1 DEF Entered, Sound, Forest, NodeFits, Chain
    <3>2. f.called + 1 \in 0 .. Len(tree[f.node].kids)
      BY <1>1, <2>1, <3>1 DEF Entered
    <3> HIDE DEF g, l
    <3> QED
      BY <1>1, <2>1, <2>3, <2>4, <3>2 DEF Entered
  <2>6. Validating(tree, lo, lv, walk', at', values)
    BY <1>1, <2>1, <2>3, <2>4, <2>5, ChildCalled
  <2> QED
    BY <2>1, <2>4, <2>6, WalkContinues
<1>5. CASE S!ValidateReturn
  <2>1. /\ ~(f.called < Len(f.order)) /\ walk' = S!Front(walk)
        /\ at' = 0 /\ values' = values /\ UNCHANGED <<tree, phase, out>>
    BY <1>5 DEF S!ValidateReturn, S!Looping, S!MoreChildren
  <2>2. /\ walk' \in Seq(OpenContainer) /\ Len(walk') = Len(walk) - 1
        /\ \A k \in 1 .. Len(walk) - 1 : walk'[k] = walk[k]
    BY <1>1, <2>1, FrontIs
  <2> HIDE DEF f
  <2>3. Validating(tree, lo, lv, walk', 0, values)
    BY <1>1, <2>1, <2>2, ContainerReturns
  <2> QED
    BY <2>1, <2>2, <2>3, WalkContinues
<1> QED
  BY <1>2, <1>3, <1>4, <1>5

LEMMA ValidateStep ==
  ASSUME SerializerInv, phase = "validate", S!Next
  PROVE  SerializerInv'
<1>1. PICK lo, lv : Sound(tree, lo, lv) /\ Validating(tree, lo, lv, walk, at, values)
  BY DEF SerializerInv
<1>2. tree # <<>>
  BY <1>1 DEF Sound
<1>3. CASE S!RejectBound \/ S!ValidateLeaf \/ S!RejectChildren \/ S!ValidateContainer
  <2>1. at # 0
    BY <1>3 DEF S!RejectBound, S!ValidateLeaf, S!RejectChildren, S!ValidateContainer,
       S!WithinBounds, S!Called
  <2> QED
    BY <1>1, <1>3, <2>1, CallStep
<1>4. CASE \/ S!RejectKey \/ S!RejectDuplicate \/ S!ValidateMember
           \/ S!ValidateElement \/ S!ValidateReturn
  <2>1. at = 0 /\ walk # <<>>
    BY <1>4 DEF S!RejectKey, S!RejectDuplicate, S!ValidateMember, S!ValidateElement,
       S!ValidateReturn, S!ObjectNext, S!Looping
  <2> QED
    BY <1>1, <1>4, <2>1, LoopStep
<1>5. CASE S!BeginEmit
  <2>1. /\ walk = <<>> /\ phase' = "emit" /\ at' = Len(tree)
        /\ UNCHANGED <<tree, walk, out>> /\ out = <<>>
    BY <1>5 DEF S!BeginEmit, S!Root, SerializerInv
  <2>2. Len(tree) \in 0 .. Len(tree)
    BY <1>1 DEF Sound
  <2>3. Emitting(tree, <<>>, Len(tree))
    BY <2>2 DEF Emitting
  <2>4. <<>> \in Seq(OpenContainer) /\ <<>> \in Seq(Token)
    OBVIOUS
  <2> QED
    BY <1>1, <2>1, <2>3, <2>4 DEF SerializerInv
<1> QED
  BY <1>2, <1>3, <1>4, <1>5
  DEF S!Next, S!NilValue, S!EmitLeaf, S!EmitOpen, S!EmitChild, S!EmitClose, S!Emitting,
      S!Return, S!Stop

LEMMA EmissionContinues ==
  ASSUME SerializerInv, phase = "emit", UNCHANGED <<tree, phase>>,
         walk' \in Seq(OpenContainer), Emitting(tree, walk', at'), out' \in Seq(Token)
  PROVE  SerializerInv'
BY DEF SerializerInv

LEMMA Brackets ==
  /\ \A sort \in Structural : S!Tok(sort) \in Token
  /\ \A key \in KeyTexts : S!Str(key) \in Token
BY DEF Token, KeyTexts

LEMMA EmitStep ==
  ASSUME SerializerInv, phase = "emit", S!Next
  PROVE  SerializerInv'
<1>1. PICK lo, lv : Sound(tree, lo, lv)
  BY DEF SerializerInv
<1>2. /\ walk \in Seq(OpenContainer) /\ out \in Seq(Token) /\ Emitting(tree, walk, at)
      /\ at \in 0 .. Len(tree) /\ Len(tree) \in Nat
  BY <1>1 DEF SerializerInv, Emitting, Sound
<1>3. CASE S!EmitLeaf
  <2>1. /\ at # 0 /\ tree[at].kind \notin Container /\ at' = 0
        /\ out' = Append(out, S!Spelled(tree[at])) /\ UNCHANGED <<tree, phase, walk>>
    BY <1>3, SameContainers DEF S!EmitLeaf
  <2>2. at \in 1 .. Len(tree)
    BY <1>2, <2>1
  <2>3. S!Spelled(tree[at]) \in Token
    BY <1>1, <2>1, <2>2 DEF Sound, Valid
  <2>4. out' \in Seq(Token)
    BY <1>2, <2>1, <2>3
  <2>5. Emitting(tree, walk, 0)
    BY <1>2 DEF Emitting
  <2> QED
    BY <1>2, <2>1, <2>4, <2>5, EmissionContinues
<1>4. CASE S!EmitOpen
  <2> DEFINE r == tree[at]
             l == Len(walk)
  <2>1. /\ at # 0 /\ r.kind \in Container /\ at' = 0 /\ UNCHANGED <<tree, phase>>
        /\ out' = Append(out, S!Tok(IF r.kind = "object" THEN "lbrace" ELSE "lbrack"))
    BY <1>4, SameContainers DEF S!EmitOpen
  <2>2. PICK order \in S!SortedOrders(r) : walk' = S!Open(at, order)
    BY <1>4 DEF S!EmitOpen
  <2>3. at \in 1 .. Len(tree) /\ at \in Nat
    BY <1>2, <2>1
  <2>4. Valid(r) /\ Len(r.kids) \in Nat
    BY <1>1, <2>1, <2>3 DEF Sound, Forest, NodeFits, Chain
  <2>5. order \in Seq(1 .. Len(r.kids))
    BY <2>1, <2>4, OrderIs DEF Valid
  <2>6. order \in Seq(Nat) /\ \A i \in 1 .. Len(order) : order[i] \in 1 .. Len(r.kids)
    BY <2>5
  <2>7. /\ walk' \in Seq(OpenContainer) /\ Len(walk') = l + 1
        /\ \A k \in 1 .. l : walk'[k] = walk[k]
        /\ walk'[l + 1] = [node |-> at, order |-> order, called |-> 0, seen |-> {}]
    BY <1>2, <2>2, <2>3, <2>6, OpenIs
  <2>8. walk'[l + 1].node = at /\ walk'[l + 1].order = order
    BY <2>7
  <2>9. Emitting(tree, walk', 0)
    <3> SUFFICES ASSUME NEW k \in 1 .. l + 1
                 PROVE  /\ walk'[k].node \in 1 .. Len(tree)
                        /\ tree[walk'[k].node].kind \in Container
                        /\ \A i \in 1 .. Len(walk'[k].order) :
                             walk'[k].order[i] \in 1 .. Len(tree[walk'[k].node].kids)
      BY <1>2, <2>7 DEF Emitting
    <3>1. CASE k = l + 1
      BY <2>1, <2>3, <2>6, <2>8, <3>1
    <3>2. CASE k # l + 1
      <4>1. k \in 1 .. l
        BY <1>2, <3>2
      <4> QED
        BY <1>2, <2>7, <4>1 DEF Emitting
    <3> QED
      BY <3>1, <3>2
  <2>10. out' \in Seq(Token)
    <3>1. S!Tok(IF r.kind = "object" THEN "lbrace" ELSE "lbrack") \in Token
      BY Brackets DEF Structural
    <3> QED
      BY <1>2, <2>1, <3>1
  <2> QED
    BY <2>1, <2>7, <2>9, <2>10, EmissionContinues
<1>5. CASE S!EmitChild
  <2> DEFINE l == Len(walk)
             f == S!Top
             r == tree[f.node]
             child == f.order[f.called + 1]
  <2>1. /\ walk # <<>> /\ f.called < Len(f.order) /\ UNCHANGED <<tree, phase>>
        /\ out' = out \o S!Prefixed(r, child) /\ at' = r.kids[child] /\ walk' = S!Step
    BY <1>5 DEF S!EmitChild, S!Emitting, S!MoreChildren
  <2>2. f \in OpenContainer /\ f = walk[l] /\ l \in 1 .. l /\ l \in Nat
    BY <1>2, <2>1, WalkTop
  <2>3. Replaced(walk', walk, [f EXCEPT !.called = @ + 1])
    BY <1>2, <2>1, StepIs
  <2> HIDE DEF f
  <2>4. /\ f.node \in 1 .. Len(tree) /\ r.kind \in Container
        /\ \A i \in 1 .. Len(f.order) : f.order[i] \in 1 .. Len(r.kids)
    BY <1>2, <2>2 DEF Emitting
  <2>5. f.called + 1 \in 1 .. Len(f.order)
    <3>1. f.called \in Nat /\ Len(f.order) \in Nat
      BY <2>2 DEF OpenContainer
    <3> QED
      BY <2>1, <3>1
  <2>6. child \in 1 .. Len(r.kids)
    BY <2>4, <2>5
  <2>7. Valid(r) /\ Chain(r.kids, lo, lv, lo[f.node], lv[f.node] + 1, f.node - 1)
    BY <1>1, <2>4 DEF Sound, Forest, NodeFits
  <2>8. at' \in 0 .. Len(tree)
    <3>1. r.kids[child] \in 1 .. f.node - 1
      BY <2>6, <2>7 DEF Chain
    <3> HIDE DEF r, child
    <3> QED
      BY <1>2, <2>1, <2>4, <3>1
  <2>9. S!Prefixed(r, child) \in Seq(Token)
    <3>1. S!Tok("comma") \in Token /\ S!Tok("colon") \in Token
      BY Brackets DEF Structural
    <3>2. S!Separator \in Seq(Token)
      BY <3>1 DEF S!Separator
    <3>3. CASE r.kind = "array"
      BY <3>2, <3>3 DEF S!Prefixed
    <3>4. CASE r.kind # "array"
      <4>1. r.keys[child] \in KeyTexts
        BY <2>4, <2>6, <2>7, <3>4 DEF Valid, Container, KeyTexts
      <4>2. S!Str(r.keys[child]) \in Token
        BY <4>1, Brackets
      <4>3. S!Prefixed(r, child) = S!Separator \o <<S!Str(r.keys[child]), S!Tok("colon")>>
        BY <3>4 DEF S!Prefixed
      <4> HIDE DEF r, child
      <4> QED
        BY <3>1, <3>2, <4>2, <4>3
    <3> QED
      BY <3>3, <3>4
  <2>10. out' \in Seq(Token)
    BY <1>2, <2>1, <2>9
  <2>11. Emitting(tree, walk', at')
    <3> DEFINE g == [f EXCEPT !.called = @ + 1]
    <3>1. g.node = f.node /\ g.order = f.order
      BY <2>2 DEF OpenContainer
    <3> HIDE DEF g
    <3>2. /\ Len(walk') = l
          /\ \A k \in 1 .. l : walk'[k].node = walk[k].node /\ walk'[k].order = walk[k].order
      <4>1. Len(walk') = l /\ walk'[l] = g /\ \A k \in 1 .. l - 1 : walk'[k] = walk[k]
        BY <2>3 DEF Replaced, g
      <4>2. \A k \in 1 .. l : k = l \/ k \in 1 .. l - 1
        BY <2>2
      <4> QED
        BY <2>2, <3>1, <4>1, <4>2
    <3> QED
      BY <1>2, <2>8, <3>2 DEF Emitting
  <2>12. walk' \in Seq(OpenContainer)
    BY <2>3 DEF Replaced
  <2> QED
    BY <2>1, <2>10, <2>11, <2>12, EmissionContinues
<1>6. CASE S!EmitClose
  <2>1. /\ walk # <<>> /\ walk' = S!Front(walk) /\ UNCHANGED <<tree, phase, at>>
        /\ out' = Append(out,
                    S!Tok(IF tree[S!Top.node].kind = "object" THEN "rbrace" ELSE "rbrack"))
    BY <1>6 DEF S!EmitClose, S!Emitting
  <2>2. /\ walk' \in Seq(OpenContainer) /\ Len(walk') = Len(walk) - 1 /\ Len(walk) \in Nat
        /\ \A k \in 1 .. Len(walk) - 1 : walk'[k] = walk[k]
    BY <1>2, <2>1, FrontIs
  <2>3. Emitting(tree, walk', at)
    <3>1. \A k \in 1 .. Len(walk') : k \in 1 .. Len(walk) /\ walk'[k] = walk[k]
      BY <2>2
    <3> QED
      BY <1>2, <3>1 DEF Emitting
  <2>4. S!Tok(IF tree[S!Top.node].kind = "object" THEN "rbrace" ELSE "rbrack") \in Token
    BY Brackets DEF Structural
  <2>5. out' \in Seq(Token)
    BY <1>2, <2>1, <2>4
  <2> QED
    BY <2>1, <2>2, <2>3, <2>5, EmissionContinues
<1>7. CASE S!Return
  BY <1>2, <1>7 DEF S!Return, SerializerInv
<1> QED
  BY <1>3, <1>4, <1>5, <1>6, <1>7
  DEF S!Next, S!NilValue, S!RejectBound, S!ValidateLeaf, S!RejectChildren,
      S!ValidateContainer, S!WithinBounds, S!Called, S!RejectKey, S!RejectDuplicate,
      S!ValidateMember, S!ValidateElement, S!ValidateReturn, S!ObjectNext, S!Looping,
      S!BeginEmit, S!Stop

--------------------------------------------------------------------------------
(* The pipeline. *)

PipelineInv == IInv /\ ShapeInv /\ SerializerInv

\* The root is called on first.
LEMMA WalkBegins ==
  ASSUME NEW t, NEW lo, NEW lv, Sound(t, lo, lv)
  PROVE  Validating(t, lo, lv, <<>>, Len(t), 0)
<1>1. Len(t) \in Nat \ {0} /\ lo[Len(t)] - 1 + 0 = 0
  BY LimitsPositive DEF Sound
<1>2. Descent(t, lv, <<>>)
  BY DEF Descent
<1> QED
  BY <1>1, <1>2 DEF Validating, Counted, CalledFrom

LEMMA StartInv == Start => PipelineInv
<1> SUFFICES ASSUME Start PROVE PipelineInv
  OBVIOUS
<1>1. IInv
  BY InitInv DEF Start
<1>2. ShapeInv
  BY InitShape DEF Start
<1>3. SerializerInv
  BY DEF Start, SerializerInv
<1> QED
  BY <1>1, <1>2, <1>3 DEF PipelineInv

LEMMA StepInv == PipelineInv /\ [Step]_allVars => PipelineInv'
<1> SUFFICES ASSUME PipelineInv, [Step]_allVars PROVE PipelineInv'
  OBVIOUS
<1>1. IInv /\ ShapeInv /\ SerializerInv
  BY DEF PipelineInv
<1>2. ASSUME UNCHANGED serializer PROVE SerializerInv'
  BY <1>1, <1>2 DEF serializer, SerializerInv
<1>3. ASSUME UNCHANGED vars PROVE IInv' /\ ShapeInv'
  BY <1>1, <1>3, NextInv, NextShape
<1>4. CASE Parse
  BY <1>1, <1>2, <1>4, NextInv, NextShape DEF Parse, PipelineInv
<1>5. CASE Hand
  <2>1. /\ tree' = Parsed /\ phase' = "validate" /\ at' = Len(nodes) /\ walk' = <<>>
        /\ values' = 0 /\ out' = <<>> /\ UNCHANGED vars
    BY <1>5 DEF Hand
  <2>2. PICK lo, lv : Sound(Parsed, lo, lv)
    BY <1>1, <1>5, ParsedIsSound DEF Hand
  <2>3. Len(Parsed) = Len(nodes)
    BY <1>1 DEF IInv, TypeOK, Parsed
  <2>4. Validating(Parsed, lo, lv, <<>>, Len(nodes), 0)
    BY <2>2, <2>3, WalkBegins
  <2>5. <<>> \in Seq(OpenContainer)
    OBVIOUS
  <2>6. SerializerInv'
    BY <2>1, <2>2, <2>4, <2>5 DEF SerializerInv
  <2> QED
    BY <1>3, <2>1, <2>6 DEF PipelineInv
<1>6. CASE Serialize
  <2>1. SerializerInv'
    BY <1>1, <1>6, ValidateStep, EmitStep DEF Serialize
  <2> QED
    BY <1>3, <1>6, <2>1 DEF Serialize, PipelineInv
<1>7. CASE Again
  <2>1. /\ input' = Lexed(out) /\ pos' = 0 /\ depth' = 0 /\ valueCount' = 0
        /\ stack' = <<>> /\ nodes' = <<>> /\ pc' = "start" /\ outcome' = Pending
        /\ phase' = "idle" /\ phase = "done"
    BY <1>7 DEF Again
  <2>2. Lexed(out) \in Seq(Lexeme)
    BY <1>1, <2>1, LexedType DEF SerializerInv
  <2>3. TypeOK'
    BY <2>1, <2>2, EmptySeq DEF TypeOK, Pending, Outcome
  <2>4. (ControlInv /\ DepthBalanced /\ ValueCountExact /\ NodesInv /\ StackInv)'
    BY <2>1, EmptySeq, LimitsPositive
    DEF ControlInv, DepthBalanced, ValueCountExact, NodesInv, StackInv, Pending, Accepted
  <2>5. ShapeInv'
    <3> DEFINE b == [i \in 1 .. 1 |-> 1]
    <3>1. b[1] = 1
      OBVIOUS
    <3> HIDE DEF b
    <3>2. Len(stack') = 0 /\ Len(nodes') = 0
      BY <2>1
    <3>3. Grown(nodes', stack', FALSE, <<>>, <<>>, b)
      BY <3>1, <3>2 DEF Grown, Forest, Stacked
    <3> QED
      BY <2>1, <3>3 DEF ShapeInv
  <2>6. SerializerInv'
    BY <2>1 DEF SerializerInv
  <2> QED
    BY <2>3, <2>4, <2>5, <2>6 DEF PipelineInv, IInv
<1>8. CASE Halt \/ UNCHANGED allVars
  BY <1>2, <1>3, <1>8 DEF Halt, allVars, PipelineInv
<1> QED
  BY <1>4, <1>5, <1>6, <1>7, <1>8 DEF Step

\* Whatever Parse accepts, at its limits or below, serializeInto accepts under
\* the same options, in the first call and in the second: for every input and
\* all limits, no walk over a parsed value ever ends in an error.
THEOREM ParsedSerializable == CallTwice => []ParsedIsSerializable
<1>1. PipelineInv => ParsedIsSerializable
  BY DEF PipelineInv, SerializerInv, ParsedIsSerializable
<1> QED
  BY <1>1, StartInv, StepInv, PTL DEF CallTwice

--------------------------------------------------------------------------------
(* The nodes below a node. *)

LEMMA LeastOf ==
  ASSUME NEW T, T \subseteq Nat, T # {}
  PROVE  \E n \in T : \A m \in T : n <= m
<1>1. PICK n \in T : \A m \in T : ~(<<m, n>> \in OpToRel(<, Nat))
  BY WFMin, NatLessThanWellFounded
<1>2. \A m \in T : ~(m < n)
  BY <1>1 DEF OpToRel
<1> QED
  BY <1>2

\* The nodes of the subtree of n.
Sub(lo, n) == lo[n] .. n

\* The children of a container take up its subtree one after the other.
LEMMA KidsAscend ==
  ASSUME NEW t, NEW lo, NEW lv, Len(t) \in Nat, Forest(t, lo, lv), NEW n \in 1 .. Len(t),
         t[n].kind \in Container
  PROVE  LET kids == t[n].kids IN
         /\ Len(kids) \in Nat
         /\ \A i \in 1 .. Len(kids) :
              /\ kids[i] \in 1 .. n - 1 /\ lo[kids[i]] \in lo[n] .. kids[i]
              /\ lv[kids[i]] = lv[n] + 1
         /\ \A i, j \in 1 .. Len(kids) : i < j => kids[i] < lo[kids[j]]
<1> DEFINE kids == t[n].kids
           m == Len(kids)
           Bad == {j \in Nat : j \in 1 .. m /\ ~(/\ lo[n] <= lo[kids[j]]
                                   /\ \A i \in 1 .. m : i < j => kids[i] < lo[kids[j]])}
<1>0. /\ n \in Nat /\ lo[n] \in 1 .. n /\ lv[n] \in Nat
      /\ Chain(kids, lo, lv, lo[n], lv[n] + 1, n - 1)
  BY DEF Forest, NodeFits
<1>1. m \in Nat
  BY <1>0 DEF Chain
<1>2. ASSUME NEW i \in 1 .. m
      PROVE  /\ kids[i] \in 1 .. n - 1 /\ lo[kids[i]] = Begins(kids, lo[n], i)
             /\ lv[kids[i]] = lv[n] + 1 /\ lo[kids[i]] \in 1 .. kids[i]
  <2>1. kids[i] \in 1 .. n - 1 /\ lo[kids[i]] = Begins(kids, lo[n], i) /\ lv[kids[i]] = lv[n] + 1
    BY <1>0 DEF Chain
  <2>2. kids[i] \in 1 .. Len(t)
    BY <1>0, <2>1
  <2> HIDE DEF kids
  <2> QED
    BY <2>1, <2>2 DEF Forest, NodeFits
<1>3. Bad = {}
  <2> SUFFICES ASSUME Bad # {} PROVE FALSE
    OBVIOUS
  <2>1. PICK j \in Bad : \A i \in Bad : j <= i
    <3>1. Bad \subseteq Nat
      OBVIOUS
    <3> HIDE DEF Bad
    <3> QED
      BY <3>1, LeastOf
  <2>2. j \in 1 .. m
    OBVIOUS
  <2> HIDE DEF kids
  <2>3. CASE j = 1
    <3>1. lo[kids[j]] = lo[n]
      BY <1>2, <2>2, <2>3 DEF Begins
    <3>2. \A i \in 1 .. m : ~(i < j)
      BY <2>3
    <3> QED
      BY <1>0, <3>1, <3>2
  <2>4. CASE j # 1
    <3>1. j - 1 \in 1 .. m /\ j - 1 \in Nat /\ j - 1 < j
      BY <1>1, <2>2, <2>4
    <3>2. j - 1 \notin Bad
      BY <2>1, <3>1
    <3>3. /\ lo[n] <= lo[kids[j - 1]]
          /\ \A i \in 1 .. m : i < j - 1 => kids[i] < lo[kids[j - 1]]
      BY <3>1, <3>2
    <3>4. lo[kids[j]] = kids[j - 1] + 1
      BY <1>2, <2>2, <2>4 DEF Begins
    <3>5. kids[j - 1] \in Nat /\ lo[kids[j - 1]] \in 1 .. kids[j - 1] /\ lo[n] \in Nat
      BY <1>0, <1>2, <3>1, SMTT(30)
    <3>6. lo[n] <= lo[kids[j]]
      BY <3>3, <3>4, <3>5
    <3>7. ASSUME NEW i \in 1 .. m, i < j PROVE kids[i] < lo[kids[j]]
      <4>1. CASE i = j - 1
        BY <3>4, <3>5, <4>1
      <4>2. CASE i # j - 1
        <5>1. i < j - 1
          BY <1>1, <2>2, <3>7, <4>2
        <5>2. kids[i] < lo[kids[j - 1]] /\ kids[i] \in Nat
          BY <1>2, <3>3, <5>1
        <5> QED
          BY <3>4, <3>5, <5>2
      <4> QED
        BY <4>1, <4>2
    <3> QED
      BY <3>6, <3>7
  <2> QED
    BY <2>3, <2>4
<1>4. ASSUME NEW j \in 1 .. m
      PROVE  lo[n] <= lo[kids[j]] /\ \A i \in 1 .. m : i < j => kids[i] < lo[kids[j]]
  <2>1. j \in Nat /\ j \notin Bad
    BY <1>1, <1>3
  <2> QED
    BY <2>1
<1> HIDE DEF Bad, kids
<1>5. \A i \in 1 .. m : lo[kids[i]] \in lo[n] .. kids[i]
  BY <1>0, <1>2, <1>4
<1> QED
  BY <1>1, <1>2, <1>4, <1>5 DEF kids

\* Two children have no node in common.
LEMMA SubsApart ==
  ASSUME NEW t, NEW lo, NEW lv, Len(t) \in Nat, Forest(t, lo, lv), NEW n \in 1 .. Len(t),
         t[n].kind \in Container, NEW i \in 1 .. Len(t[n].kids), NEW x \in Sub(lo, t[n].kids[i]),
         NEW j \in 1 .. Len(t[n].kids), x \in Sub(lo, t[n].kids[j])
  PROVE  i = j
<1>1. CASE i < j
  BY <1>1, KidsAscend DEF Sub
<1>2. CASE j < i
  BY <1>2, KidsAscend DEF Sub
<1>3. i \in Int /\ j \in Int
  BY KidsAscend
<1> QED
  BY <1>1, <1>2, <1>3

\* An order in which the children of a container are emitted has each of them once.
LEMMA OrderOnce ==
  ASSUME NEW r, r.kind \in Container, Len(r.kids) \in Nat,
         r.kind = "object" => Len(r.keys) = Len(r.kids),
         NEW order \in S!SortedOrders(r)
  PROVE  /\ Len(order) = Len(r.kids) /\ order \in Seq(Nat)
         /\ \A i \in 1 .. Len(r.kids) : order[i] \in 1 .. Len(r.kids)
         /\ \A i, j \in 1 .. Len(r.kids) : order[i] = order[j] => i = j
<1> DEFINE n == Len(r.kids)
<1>1. CASE r.kind = "array"
  BY <1>1 DEF S!SortedOrders
<1>2. CASE r.kind # "array"
  <2>1. order \in S!SetToSeqs(1 .. n)
    BY <1>2 DEF S!SortedOrders, Container
  <2>2. S!Cardinality(1 .. n) = n
    BY FS_Interval, SameCardinality
  <2>3. /\ order \in [1 .. n -> 1 .. n]
        /\ \A i, j \in 1 .. n : i # j => order[i] # order[j]
    BY <2>1, <2>2 DEF S!SetToSeqs
  <2>4. \A i, j \in 1 .. n : order[i] = order[j] => i = j
    BY <2>3
  <2> QED
    BY <2>3, <2>4
<1> QED
  BY <1>1, <1>2

--------------------------------------------------------------------------------
(* Where the text of a tree lies. *)

Has(toks, p, x) == p \in 1 .. Len(toks) /\ toks[p] = x

Longer(more, toks) == Len(toks) <= Len(more) /\ \A p \in 1 .. Len(toks) : more[p] = toks[p]

OpenTok(r) == S!Tok(IF r.kind = "object" THEN "lbrace" ELSE "lbrack")
CloseTok(r) == S!Tok(IF r.kind = "object" THEN "rbrace" ELSE "rbrack")

\* The child of r that is written as the i-th.
Kid(r, order, i) == r.kids[order[i]]

\* W says of the nodes in W.done, whose text is complete, that the text of n is
\* the tokens after W.st[n] up to W.en[n], its children in the order W.ord[n].
\* Where the comma before the i-th child is, or the text of the first begins.
Edge(r, order, W, n, i) ==
  IF i = 1 THEN W.st[n] + 1 ELSE W.en[Kid(r, order, i - 1)]

\* The place behind the comma that follows a child which ends at e.
Behind(e, i) == IF i = 1 THEN e ELSE e + 1

\* The i-th child of n has its separator and its name, and begins behind them.
Joined(r, order, W, toks, n, i) ==
  LET e == Edge(r, order, W, n, i)
      b == Behind(e, i)
      x == Kid(r, order, i) IN
  /\ i # 1 => Has(toks, e + 1, S!Tok("comma"))
  /\ IF r.kind = "object"
       THEN /\ Has(toks, b + 1, S!Str(r.keys[order[i]]))
            /\ Has(toks, b + 2, S!Tok("colon"))
            /\ W.st[x] = b + 2
       ELSE W.st[x] = b

\* The text of n up to where its m-th child begins.
Run(r, order, W, toks, n, m) ==
  /\ W.st[n] \in Nat /\ Has(toks, W.st[n] + 1, OpenTok(r))
  /\ \A i \in 1 .. m : Joined(r, order, W, toks, n, i)
  /\ \A i \in 1 .. m : i # m => Kid(r, order, i) \in W.done

\* The whole text of n.
Placed(r, W, toks, n) ==
  /\ W.st[n] \in Nat /\ W.en[n] \in 1 .. Len(toks) /\ W.st[n] < W.en[n]
  /\ IF r.kind \in Container
       THEN /\ W.ord[n] \in S!SortedOrders(r)
            /\ Run(r, W.ord[n], W, toks, n, Len(r.kids))
            /\ \A i \in 1 .. Len(r.kids) :
                 LET x == Kid(r, W.ord[n], i) IN x \in W.done /\ W.en[x] < W.en[n]
            /\ W.en[n] = Edge(r, W.ord[n], W, n, Len(r.kids) + 1) + 1
            /\ Has(toks, W.en[n], CloseTok(r))
       ELSE Has(toks, W.en[n], S!Spelled(r)) /\ W.en[n] = W.st[n] + 1

\* What W says of the nodes that are done still holds of W2, and the nodes of
\* stay begin where they did.
Later(W2, W, stay) ==
  /\ W.done \subseteq W2.done
  /\ \A n \in W.done : W2.en[n] = W.en[n] /\ W2.ord[n] = W.ord[n]
  /\ \A n \in W.done \cup stay : W2.st[n] = W.st[n]

LEMMA RunKept ==
  ASSUME NEW r, NEW order, NEW W, NEW W2, NEW toks, NEW more, NEW n, NEW m \in Nat, NEW stay,
         Run(r, order, W, toks, n, m), Longer(more, toks), Len(toks) \in Nat, Len(more) \in Nat,
         Later(W2, W, stay), n \in W.done \cup stay,
         m # 0 => Kid(r, order, m) \in W.done \cup stay
  PROVE  Run(r, order, W2, more, n, m)
<1>1. \A p, x : Has(toks, p, x) => Has(more, p, x)
  BY DEF Has, Longer
<1>2. W2.st[n] = W.st[n] /\ \A i \in 1 .. m : i # m => Kid(r, order, i) \in W2.done
  BY DEF Later, Run
<1>3. ASSUME NEW i \in 1 .. m PROVE Joined(r, order, W2, more, n, i)
  <2> DEFINE e == Edge(r, order, W, n, i)
             x == Kid(r, order, i)
  <2>1. Edge(r, order, W2, n, i) = e
    <3>1. CASE i = 1
      BY <1>2, <3>1 DEF Edge
    <3>2. CASE i # 1
      <4>1. i - 1 \in 1 .. m /\ i - 1 # m
        BY <3>2
      <4>2. Kid(r, order, i - 1) \in W.done
        BY <4>1 DEF Run
      <4> QED
        BY <3>2, <4>2 DEF Edge, Later
    <3> QED
      BY <3>1, <3>2
  <2>2. W2.st[x] = W.st[x]
    <3>1. x \in W.done \cup stay
      BY DEF Run
    <3> HIDE DEF x
    <3> QED
      BY <3>1 DEF Later
  <2>3. Joined(r, order, W, toks, n, i)
    BY DEF Run
  <2> QED
    BY <1>1, <2>1, <2>2, <2>3 DEF Joined
<1> QED
  BY <1>1, <1>2, <1>3 DEF Run

LEMMA PlacedKept ==
  ASSUME NEW r, NEW W, NEW W2, NEW toks, NEW more, NEW n \in W.done, NEW stay,
         Placed(r, W, toks, n), Longer(more, toks), Len(toks) \in Nat, Len(more) \in Nat,
         Later(W2, W, stay), r.kind \in Container => Len(r.kids) \in Nat
  PROVE  Placed(r, W2, more, n)
<1>1. \A p, x : Has(toks, p, x) => Has(more, p, x)
  BY DEF Has, Longer
<1>2. W2.st[n] = W.st[n] /\ W2.en[n] = W.en[n] /\ W2.ord[n] = W.ord[n]
  BY DEF Later
<1>3. W2.st[n] \in Nat /\ W2.en[n] \in 1 .. Len(more) /\ W2.st[n] < W2.en[n]
  BY <1>2 DEF Placed, Longer
<1>4. CASE r.kind \in Container
  <2> DEFINE m == Len(r.kids)
             order == W.ord[n]
  <2>1. /\ order \in S!SortedOrders(r)
        /\ Run(r, order, W, toks, n, m)
        /\ \A i \in 1 .. m : Kid(r, order, i) \in W.done /\ W.en[Kid(r, order, i)] < W.en[n]
        /\ W.en[n] = Edge(r, order, W, n, m + 1) + 1
        /\ Has(toks, W.en[n], CloseTok(r))
    BY <1>4 DEF Placed
  <2> HIDE DEF order
  <2>2. \A i \in 1 .. m : Kid(r, order, i) \in W2.done /\ W2.en[Kid(r, order, i)] < W2.en[n]
    BY <1>2, <2>1 DEF Later
  <2>3. m \in Nat
    BY <1>4
  <2>4. Run(r, order, W2, more, n, m)
    <3>1. m # 0 => Kid(r, order, m) \in W.done \cup stay
      BY <2>1, <2>3
    <3> QED
      BY <2>1, <2>3, <3>1, RunKept
  <2>5. Edge(r, order, W2, n, m + 1) = Edge(r, order, W, n, m + 1)
    <3>1. CASE m = 0
      BY <1>2, <3>1 DEF Edge
    <3>2. CASE m # 0
      <4>1. (m + 1) - 1 = m /\ m \in 1 .. m /\ m + 1 # 1
        BY <2>3, <3>2
      <4>2. W2.en[Kid(r, order, m)] = W.en[Kid(r, order, m)]
        BY <2>1, <4>1 DEF Later
      <4> QED
        BY <4>1, <4>2 DEF Edge
    <3> QED
      BY <3>1, <3>2
  <2> QED
    BY <1>1, <1>2, <1>3, <1>4, <2>1, <2>2, <2>4, <2>5 DEF Placed, order
<1>5. CASE r.kind \notin Container
  BY <1>1, <1>2, <1>3, <1>5 DEF Placed
<1> QED
  BY <1>4, <1>5

--------------------------------------------------------------------------------
(* The place an emitting walk has reached. *)

LEMMA KidIs ==
  ASSUME NEW t, NEW lo, NEW lv, Sound(t, lo, lv), NEW n \in 1 .. Len(t),
         t[n].kind \in Container, NEW order \in S!SortedOrders(t[n])
  PROVE  /\ Len(t[n].kids) \in Nat /\ n \in Nat /\ lo[n] \in 1 .. n
         /\ Len(order) = Len(t[n].kids)
         /\ \A i \in 1 .. Len(t[n].kids) :
              /\ order[i] \in 1 .. Len(t[n].kids)
              /\ Kid(t[n], order, i) \in 1 .. n - 1 /\ Kid(t[n], order, i) \in 1 .. Len(t)
              /\ lo[Kid(t[n], order, i)] \in lo[n] .. Kid(t[n], order, i)
              /\ lv[Kid(t[n], order, i)] = lv[n] + 1
<1> DEFINE r == t[n]
           m == Len(r.kids)
<1>1. Len(t) \in Nat /\ Forest(t, lo, lv) /\ Valid(r)
  BY LimitsPositive DEF Sound
<1>2. n \in Nat /\ lo[n] \in 1 .. n
  BY <1>1 DEF Forest, NodeFits
<1>3. /\ m \in Nat
      /\ \A i \in 1 .. m :
           r.kids[i] \in 1 .. n - 1 /\ lo[r.kids[i]] \in lo[n] .. r.kids[i]
             /\ lv[r.kids[i]] = lv[n] + 1
  BY <1>1, KidsAscend
<1>4. Len(order) = m /\ \A i \in 1 .. m : order[i] \in 1 .. m
  BY <1>1, <1>3, OrderOnce DEF Valid
<1> SUFFICES ASSUME NEW i \in 1 .. m
             PROVE  /\ Kid(r, order, i) \in 1 .. n - 1 /\ Kid(r, order, i) \in 1 .. Len(t)
                    /\ lo[Kid(r, order, i)] \in lo[n] .. Kid(r, order, i)
                    /\ lv[Kid(r, order, i)] = lv[n] + 1
  BY <1>2, <1>3, <1>4
<1> HIDE DEF r, m
<1>6. Kid(r, order, i) = r.kids[order[i]] /\ order[i] \in 1 .. m
  BY <1>4 DEF Kid
<1>7. Kid(r, order, i) \in 1 .. n - 1 /\ Kid(r, order, i) \in 1 .. Len(t)
  BY <1>1, <1>2, <1>3, <1>6
<1>8. lo[Kid(r, order, i)] \in lo[n] .. Kid(r, order, i) /\ lv[Kid(r, order, i)] = lv[n] + 1
  BY <1>3, <1>6
<1> QED
  BY <1>7, <1>8

LEMMA KidsApart ==
  ASSUME NEW t, NEW lo, NEW lv, Sound(t, lo, lv), NEW n \in 1 .. Len(t),
         t[n].kind \in Container, NEW order \in S!SortedOrders(t[n]),
         NEW i \in 1 .. Len(t[n].kids), NEW j \in 1 .. Len(t[n].kids),
         NEW x \in Sub(lo, Kid(t[n], order, i)), x \in Sub(lo, Kid(t[n], order, j))
  PROVE  i = j
<1> DEFINE r == t[n]
           m == Len(r.kids)
<1>1. Len(t) \in Nat /\ Forest(t, lo, lv) /\ Valid(r)
  BY LimitsPositive DEF Sound
<1>2. m \in Nat
  BY <1>1, KidsAscend
<1>3. /\ \A k \in 1 .. m : order[k] \in 1 .. m
      /\ \A k, l \in 1 .. m : order[k] = order[l] => k = l
  BY <1>1, <1>2, OrderOnce DEF Valid
<1>4. order[i] \in 1 .. m /\ order[j] \in 1 .. m
  BY <1>3
<1>5. x \in Sub(lo, t[n].kids[order[i]]) /\ x \in Sub(lo, t[n].kids[order[j]])
  BY DEF Kid
<1>6. order[i] = order[j]
  BY <1>1, <1>4, <1>5, SubsApart
<1> QED
  BY <1>3, <1>6

\* The child that the container f made its last call on.
Cur(t, f) == Kid(t[f.node], f.order, f.called)

Inside(lo, x, n) == lo[n] <= lo[x] /\ x <= n

\* The containers w are open, each inside the child called on by the one before,
\* and so is the node a that a call was just made on.
Path(t, lo, w, a) ==
  /\ Len(w) \in Nat /\ a \in 0 .. Len(t)
  /\ \A k \in 1 .. Len(w) :
       /\ w[k].node \in 1 .. Len(t) /\ t[w[k].node].kind \in Container
       /\ w[k].order \in S!SortedOrders(t[w[k].node])
       /\ w[k].called \in 0 .. Len(t[w[k].node].kids)
       /\ k < Len(w) => w[k].called # 0 /\ Cur(t, w[k]) = w[k + 1].node
       /\ \A j \in 1 .. k - 1 : Inside(lo, w[k].node, Cur(t, w[j]))
       /\ a # 0 => Inside(lo, a, Cur(t, w[k]))
  /\ Len(w) # 0 => w[1].node = Len(t)
  /\ a # 0 => IF Len(w) = 0 THEN a = Len(t)
              ELSE w[Len(w)].called # 0 /\ a = Cur(t, w[Len(w)])

\* None of the nodes of set are below n, or n.
Apart(lo, set, n) == \A x \in set : x \notin Sub(lo, n)

\* toks is what the walk has written so far.
Writing(t, lo, w, a, toks, W) ==
  /\ W.done \subseteq 1 .. Len(t)
  /\ \A n \in W.done : Placed(t[n], W, toks, n)
  /\ \A k \in 1 .. Len(w) :
       /\ w[k].node \notin W.done
       /\ Run(t[w[k].node], w[k].order, W, toks, w[k].node, w[k].called)
       /\ \A i \in 1 .. Len(t[w[k].node].kids) :
            w[k].called < i => Apart(lo, W.done, Kid(t[w[k].node], w[k].order, i))
  /\ Len(w) # 0 => W.st[w[1].node] = 0
  /\ a # 0 =>
       /\ Apart(lo, W.done, a) /\ W.st[a] = Len(toks)
       /\ Len(w) = 0 => Len(toks) = 0
  /\ a = 0 =>
       IF Len(w) = 0
         THEN Len(t) \in W.done /\ W.st[Len(t)] = 0 /\ W.en[Len(t)] = Len(toks)
         ELSE LET f == w[Len(w)] IN
              /\ f.called # 0 => Cur(t, f) \in W.done
              /\ Len(toks) = Edge(t[f.node], f.order, W, f.node, f.called + 1)

\* A node inside the child an open container called on is in none of those it
\* has not called on.
LEMMA InsideCalled ==
  ASSUME NEW t, NEW lo, NEW lv, Sound(t, lo, lv), NEW w, NEW a, Path(t, lo, w, a),
         NEW k \in 1 .. Len(w), w[k].called # 0, NEW x \in 1 .. Len(t), lo[x] <= x,
         lo[x] \in Nat, Inside(lo, x, Cur(t, w[k]))
  PROVE  /\ x < w[k].node
         /\ \A i \in 1 .. Len(t[w[k].node].kids) :
              w[k].called < i => x \notin Sub(lo, Kid(t[w[k].node], w[k].order, i))
<1> DEFINE n == w[k].node
           r == t[n]
           order == w[k].order
           c == w[k].called
<1>1. n \in 1 .. Len(t) /\ r.kind \in Container /\ order \in S!SortedOrders(r)
      /\ c \in 0 .. Len(r.kids) /\ Cur(t, w[k]) = Kid(r, order, c)
  BY DEF Path, Cur
<1>2. /\ Len(r.kids) \in Nat /\ n \in Nat
      /\ \A i \in 1 .. Len(r.kids) :
           Kid(r, order, i) \in 1 .. n - 1 /\ lo[Kid(r, order, i)] \in lo[n] .. Kid(r, order, i)
      /\ lo[n] \in 1 .. n
  BY <1>1, KidIs
<1>3. c \in 1 .. Len(r.kids)
  BY <1>1, <1>2
<1> HIDE DEF n, r, order, c
<1>4. /\ x \in Nat /\ Kid(r, order, c) \in 1 .. n - 1
      /\ lo[Kid(r, order, c)] \in lo[n] .. Kid(r, order, c)
  BY <1>2, <1>3
<1>5. x \in Sub(lo, Kid(r, order, c)) /\ x < n
  BY <1>1, <1>2, <1>4 DEF Sub, Inside
<1>6. ASSUME NEW i \in 1 .. Len(r.kids), c < i PROVE x \notin Sub(lo, Kid(r, order, i))
  <2>1. c # i
    BY <1>3, <1>6
  <2>2. \A y \in Sub(lo, Kid(r, order, c)) : y \in Sub(lo, Kid(r, order, i)) => c = i
    BY <1>1, <1>3, KidsApart DEF r
  <2> QED
    BY <1>5, <2>1, <2>2
<1> QED
  BY <1>5, <1>6 DEF n, r, order, c

Set(f, n, x, v) == [i \in 1 .. n |-> IF i = x THEN v ELSE f[i]]

\* The node n is done as well: its text is up to e, its children in this order.
Ends(W, n, top, e, order) ==
  [st |-> W.st, en |-> Set(W.en, top, n, e), ord |-> Set(W.ord, top, n, order),
   done |-> W.done \cup {n}]

LEMMA SoundNode ==
  ASSUME NEW t, NEW lo, NEW lv, Sound(t, lo, lv), NEW n \in 1 .. Len(t)
  PROVE  /\ Len(t) \in Nat \ {0} /\ n \in Nat /\ lo[n] \in 1 .. n
         /\ t[n].kind \in Container => Len(t[n].kids) \in Nat
BY LimitsPositive DEF Sound, Forest, NodeFits, Chain

\* A node inside the children called on last is complete: the others are as before.
LEMMA Completes ==
  ASSUME NEW t, NEW lo, NEW lv, Sound(t, lo, lv), NEW w, NEW a, Path(t, lo, w, a),
         NEW toks, NEW W, Writing(t, lo, w, a, toks, W),
         NEW w2, Len(w2) \in 0 .. Len(w), \A k \in 1 .. Len(w2) : w2[k] = w[k],
         NEW y \in 1 .. Len(t), y \notin W.done,
         \A k \in 1 .. Len(w2) : w[k].called # 0 /\ Inside(lo, y, Cur(t, w[k])),
         IF Len(w2) = 0 THEN y = Len(t) /\ W.st[y] = 0 ELSE y = Cur(t, w[Len(w2)]),
         NEW more, Longer(more, toks), Len(toks) \in Nat, Len(more) \in Nat,
         NEW W2, \A stay : Later(W2, W, stay), W2.done = W.done \cup {y}, W2.st = W.st,
         W2.en[y] = Len(more), Placed(t[y], W2, more, y)
  PROVE  Path(t, lo, w2, 0) /\ Writing(t, lo, w2, 0, more, W2)
<1>1. Len(w) \in Nat /\ Len(w2) \in Nat /\ \A k \in 1 .. Len(w2) : k \in 1 .. Len(w)
  BY DEF Path
<1>2. Path(t, lo, w2, 0)
  <2>0. 0 \in 0 .. Len(t)
    BY SoundNode
  <2>1. ASSUME NEW k \in 1 .. Len(w2)
        PROVE  /\ w2[k].node \in 1 .. Len(t) /\ t[w2[k].node].kind \in Container
               /\ w2[k].order \in S!SortedOrders(t[w2[k].node])
               /\ w2[k].called \in 0 .. Len(t[w2[k].node].kids)
               /\ k < Len(w2) => w2[k].called # 0 /\ Cur(t, w2[k]) = w2[k + 1].node
               /\ \A j \in 1 .. k - 1 : Inside(lo, w2[k].node, Cur(t, w2[j]))
    <3>1. k \in 1 .. Len(w) /\ w2[k] = w[k]
      BY <1>1
    <3>2. k < Len(w2) => k < Len(w) /\ k + 1 \in 1 .. Len(w2)
      BY <1>1
    <3>3. \A j \in 1 .. k - 1 : j \in 1 .. Len(w2) /\ w2[j] = w[j]
      BY <1>1
    <3> QED
      BY <3>1, <3>2, <3>3 DEF Path
  <2>2. Len(w2) # 0 => w2[1].node = Len(t)
    BY <1>1 DEF Path
  <2> QED
    BY <1>1, <2>0, <2>1, <2>2 DEF Path
<1>3. \A n \in W2.done : Placed(t[n], W2, more, n)
  <2> SUFFICES ASSUME NEW n \in W.done PROVE Placed(t[n], W2, more, n)
    OBVIOUS
  <2>1. n \in 1 .. Len(t) /\ Placed(t[n], W, toks, n)
    BY DEF Writing
  <2>2. t[n].kind \in Container => Len(t[n].kids) \in Nat
    BY <2>1, SoundNode
  <2> QED
    BY <2>1, <2>2, PlacedKept
<1>4. ASSUME NEW k \in 1 .. Len(w2)
      PROVE  /\ w[k].node \notin W2.done
             /\ Run(t[w[k].node], w[k].order, W2, more, w[k].node, w[k].called)
             /\ \A i \in 1 .. Len(t[w[k].node].kids) :
                  w[k].called < i => Apart(lo, W2.done, Kid(t[w[k].node], w[k].order, i))
  <2> DEFINE n == w[k].node
             r == t[n]
             order == w[k].order
             m == w[k].called
  <2>1. k \in 1 .. Len(w) /\ m # 0 /\ Inside(lo, y, Cur(t, w[k]))
    BY <1>1
  <2>2. lo[y] \in Nat /\ lo[y] <= y
    BY SoundNode
  <2>3. /\ y < n
        /\ \A i \in 1 .. Len(r.kids) : m < i => y \notin Sub(lo, Kid(r, order, i))
    BY <2>1, <2>2, InsideCalled
  <2>4. /\ n \notin W.done
        /\ Run(r, order, W, toks, n, m)
        /\ \A i \in 1 .. Len(r.kids) : m < i => Apart(lo, W.done, Kid(r, order, i))
    BY <2>1 DEF Writing
  <2>5. m \in Nat
    <3>1. m \in 0 .. Len(r.kids)
      BY <2>1 DEF Path
    <3> HIDE DEF m
    <3> QED
      BY <3>1
  <2> HIDE DEF n, r, order, m
  <2>6. Run(r, order, W2, more, n, m)
    <3> DEFINE stay == {n, Kid(r, order, m)}
    <3>1. n \in W.done \cup stay /\ Kid(r, order, m) \in W.done \cup stay
      OBVIOUS
    <3>2. Later(W2, W, stay)
      OBVIOUS
    <3> HIDE DEF stay
    <3> QED
      BY <2>4, <2>5, <3>1, <3>2, RunKept
  <2>7. n \notin W2.done
    BY <2>3, <2>4
  <2>8. \A i \in 1 .. Len(r.kids) : m < i => Apart(lo, W2.done, Kid(r, order, i))
    BY <2>3, <2>4 DEF Apart
  <2> QED
    BY <2>6, <2>7, <2>8 DEF n, r, order, m
<1>5. Len(w2) # 0 => W2.st[w2[1].node] = 0
  BY <1>1 DEF Writing
<1>8. W2.done \subseteq 1 .. Len(t)
  BY DEF Writing
<1> DEFINE Frames ==
      \A k \in 1 .. Len(w2) :
        /\ w2[k].node \notin W2.done
        /\ Run(t[w2[k].node], w2[k].order, W2, more, w2[k].node, w2[k].called)
        /\ \A i \in 1 .. Len(t[w2[k].node].kids) :
             w2[k].called < i => Apart(lo, W2.done, Kid(t[w2[k].node], w2[k].order, i))
<1>9. Frames
  BY <1>4
<1>10. ASSUME IF Len(w2) = 0
                THEN Len(t) \in W2.done /\ W2.st[Len(t)] = 0 /\ W2.en[Len(t)] = Len(more)
                ELSE LET f == w2[Len(w2)] IN
                     /\ f.called # 0 => Cur(t, f) \in W2.done
                     /\ Len(more) = Edge(t[f.node], f.order, W2, f.node, f.called + 1)
       PROVE  Writing(t, lo, w2, 0, more, W2)
  BY <1>3, <1>5, <1>8, <1>9, <1>10, Zenon DEF Writing
<1> HIDE DEF Frames
<1>6. CASE Len(w2) = 0
  <2>1. Len(t) \in W2.done /\ W2.st[Len(t)] = 0 /\ W2.en[Len(t)] = Len(more)
    BY <1>6
  <2> QED
    BY <1>2, <1>6, <1>10, <2>1
<1>7. CASE Len(w2) # 0
  <2> DEFINE f == w[Len(w2)]
  <2>1. Len(w2) \in 1 .. Len(w2) /\ w2[Len(w2)] = f /\ y = Cur(t, f) /\ f.called # 0
    BY <1>1, <1>7
  <2>2. f.called \in Nat
    <3>1. f.called \in 0 .. Len(t[f.node].kids)
      BY <1>1, <2>1 DEF Path
    <3> HIDE DEF f
    <3> QED
      BY <3>1
  <2> HIDE DEF f
  <2>3. (f.called + 1) - 1 = f.called /\ f.called + 1 # 1
    BY <2>1, <2>2
  <2>4. Len(more) = Edge(t[f.node], f.order, W2, f.node, f.called + 1)
    BY <2>1, <2>3 DEF Edge, Cur
  <2>5. Cur(t, f) \in W2.done
    BY <2>1
  <2> QED
    BY <1>2, <1>7, <1>10, <2>1, <2>4, <2>5
<1> QED
  BY <1>2, <1>6, <1>7

LEMMA AppendLonger ==
  ASSUME NEW T, NEW toks \in Seq(T), NEW x \in T
  PROVE  /\ Append(toks, x) \in Seq(T) /\ Len(toks) \in Nat
         /\ Len(Append(toks, x)) = Len(toks) + 1 /\ Len(Append(toks, x)) \in Nat
         /\ Longer(Append(toks, x), toks) /\ Has(Append(toks, x), Len(toks) + 1, x)
BY DEF Longer, Has

\* A leaf is written.
LEMMA WriteLeaf ==
  ASSUME NEW t, NEW lo, NEW lv, Sound(t, lo, lv), NEW w, NEW a, Path(t, lo, w, a),
         NEW toks \in Seq(Token), NEW W, Writing(t, lo, w, a, toks, W),
         a # 0, t[a].kind \notin Container
  PROVE  /\ Path(t, lo, w, 0)
         /\ \E W2 : Writing(t, lo, w, 0, Append(toks, S!Spelled(t[a])), W2)
<1> DEFINE more == Append(toks, S!Spelled(t[a]))
           W2 == Ends(W, a, Len(t), Len(toks) + 1, <<>>)
<1>1. a \in 1 .. Len(t) /\ Len(w) \in Nat
  BY SoundNode DEF Path
<1>2. S!Spelled(t[a]) \in Token
  BY <1>1 DEF Sound, Valid
<1>3. /\ Longer(more, toks) /\ Len(toks) \in Nat /\ Len(more) \in Nat
      /\ Len(more) = Len(toks) + 1 /\ Has(more, Len(toks) + 1, S!Spelled(t[a]))
  BY <1>2, AppendLonger
<1>4. lo[a] \in 1 .. a /\ a \in Nat
  BY <1>1, SoundNode
<1>5. a \notin W.done /\ W.done \subseteq 1 .. Len(t) /\ W.st[a] = Len(toks)
  BY <1>4 DEF Writing, Apart, Sub
<1>6. \A k \in 1 .. Len(w) : w[k].called # 0 /\ Inside(lo, a, Cur(t, w[k]))
  BY <1>1 DEF Path
<1>7. IF Len(w) = 0 THEN a = Len(t) /\ W.st[a] = 0 ELSE a = Cur(t, w[Len(w)])
  BY <1>5 DEF Path, Writing
<1>8. /\ \A stay : Later(W2, W, stay)
      /\ W2.done = W.done \cup {a} /\ W2.st = W.st /\ W2.en[a] = Len(toks) + 1
  BY <1>1, <1>5 DEF Ends, Set, Later
<1> HIDE DEF W2, more
<1>9. Placed(t[a], W2, more, a)
  BY <1>3, <1>5, <1>8 DEF Placed
<1>10. Len(w) \in 0 .. Len(w)
  BY <1>1
<1>11. Path(t, lo, w, 0) /\ Writing(t, lo, w, 0, more, W2)
  BY <1>1, <1>3, <1>5, <1>6, <1>7, <1>8, <1>9, <1>10, Completes
<1> QED
  BY <1>11 DEF more

\* The innermost container is closed.
LEMMA WriteClose ==
  ASSUME NEW t, NEW lo, NEW lv, Sound(t, lo, lv), NEW w, Path(t, lo, w, 0),
         NEW toks \in Seq(Token), NEW W, Writing(t, lo, w, 0, toks, W),
         Len(w) # 0, w[Len(w)].called = Len(t[w[Len(w)].node].kids),
         NEW w2, Len(w2) = Len(w) - 1, \A k \in 1 .. Len(w) - 1 : w2[k] = w[k]
  PROVE  /\ Path(t, lo, w2, 0)
         /\ \E W2 : Writing(t, lo, w2, 0, Append(toks, CloseTok(t[w[Len(w)].node])), W2)
<1> DEFINE l == Len(w)
           f == w[l]
           y == f.node
           r == t[y]
           m == Len(r.kids)
           e == Len(toks) + 1
           more == Append(toks, CloseTok(r))
           W2 == Ends(W, y, Len(t), e, f.order)
<1>1. l \in Nat \ {0} /\ l \in 1 .. l
  BY DEF Path
<1>2. /\ y \in 1 .. Len(t) /\ r.kind \in Container /\ f.order \in S!SortedOrders(r)
      /\ f.called = m
  BY <1>1 DEF Path
<1>3. m \in Nat /\ y \in Nat
  BY <1>2, SoundNode
<1>4. CloseTok(r) \in Token
  BY Brackets DEF CloseTok, Structural
<1>5. /\ Longer(more, toks) /\ Len(toks) \in Nat /\ Len(more) \in Nat
      /\ Len(more) = e /\ Has(more, e, CloseTok(r))
  BY <1>4, AppendLonger
<1>6. /\ y \notin W.done /\ W.done \subseteq 1 .. Len(t)
      /\ Run(r, f.order, W, toks, y, m)
      /\ m # 0 => Kid(r, f.order, m) \in W.done
      /\ Len(toks) = Edge(r, f.order, W, y, m + 1)
  BY <1>1, <1>2 DEF Writing, Cur
<1>7. \A k \in 1 .. Len(w2) : w[k].called # 0 /\ Inside(lo, y, Cur(t, w[k]))
  <2> SUFFICES ASSUME NEW k \in 1 .. Len(w2)
               PROVE  w[k].called # 0 /\ Inside(lo, y, Cur(t, w[k]))
    OBVIOUS
  <2>1. k \in 1 .. Len(w) /\ k < Len(w) /\ k \in 1 .. Len(w) - 1
    BY <1>1
  <2> QED
    BY <1>1, <2>1 DEF Path
<1>8. IF Len(w2) = 0 THEN y = Len(t) /\ W.st[y] = 0 ELSE y = Cur(t, w[Len(w2)])
  <2>1. CASE Len(w2) = 0
    <3>1. l = 1 /\ l # 0
      BY <1>1, <2>1
    <3>2. y = w[1].node
      BY <3>1
    <3> QED
      BY <2>1, <3>1, <3>2 DEF Path, Writing
  <2>2. CASE Len(w2) # 0
    <3>1. Len(w2) \in 1 .. Len(w) /\ Len(w2) < Len(w) /\ Len(w2) + 1 = l
      BY <1>1, <2>2
    <3> QED
      BY <2>2, <3>1 DEF Path
  <2> QED
    BY <2>1, <2>2
<1>9. /\ \A stay : Later(W2, W, stay)
      /\ W2.done = W.done \cup {y} /\ W2.st = W.st /\ W2.en[y] = e /\ W2.ord[y] = f.order
  BY <1>2, <1>6 DEF Ends, Set, Later
<1> HIDE DEF W2, more, y, r, m, e, f
<1>10. Placed(r, W2, more, y)
  <2> DEFINE order == f.order
  <2>1. \A i \in 1 .. m : Kid(r, order, i) \in W.done
    BY <1>6 DEF Run
  <2>2. Run(r, order, W2, more, y, m)
    <3> DEFINE stay == {y}
    <3>1. y \in W.done \cup stay /\ (m # 0 => Kid(r, order, m) \in W.done \cup stay)
      BY <1>6
    <3>2. Later(W2, W, stay)
      BY <1>9
    <3> HIDE DEF stay
    <3> QED
      BY <1>3, <1>5, <1>6, <3>1, <3>2, RunKept
  <2>3. ASSUME NEW i \in 1 .. m
        PROVE  Kid(r, order, i) \in W2.done /\ W2.en[Kid(r, order, i)] < W2.en[y]
    <3> DEFINE x == Kid(r, order, i)
    <3>1. x \in W.done /\ W2.en[x] = W.en[x] /\ x \in W2.done
      BY <1>9, <2>1 DEF Later
    <3>2. W.en[x] \in 1 .. Len(toks)
      BY <3>1 DEF Writing, Placed
    <3> HIDE DEF x
    <3>3. W2.en[x] < W2.en[y]
      BY <1>5, <1>9, <3>1, <3>2 DEF e
    <3> QED
      BY <3>1, <3>3 DEF x
  <2>4. Edge(r, order, W2, y, m + 1) = Len(toks)
    <3>1. CASE m = 0
      BY <1>6, <1>9, <3>1 DEF Edge
    <3>2. CASE m # 0
      <4>1. (m + 1) - 1 = m /\ m + 1 # 1
        BY <1>3, <3>2
      <4>2. W2.en[Kid(r, order, m)] = W.en[Kid(r, order, m)]
        BY <1>6, <1>9, <3>2 DEF Later
      <4> QED
        BY <1>6, <4>1, <4>2 DEF Edge
    <3> QED
      BY <3>1, <3>2
  <2>5. W2.st[y] \in Nat /\ W2.st[y] < e /\ e \in 1 .. Len(more)
    <3>1. W.st[y] \in Nat /\ W.st[y] + 1 \in 1 .. Len(toks)
      BY <1>6 DEF Run, Has
    <3> QED
      BY <1>5, <1>9, <3>1 DEF e
  <2> QED
    BY <1>2, <1>5, <1>9, <2>2, <2>3, <2>4, <2>5 DEF Placed, e, m
<1>11. Len(w2) \in 0 .. Len(w) /\ \A k \in 1 .. Len(w2) : w2[k] = w[k]
  BY <1>1
<1>12. Path(t, lo, w2, 0) /\ Writing(t, lo, w2, 0, more, W2)
  BY <1>2, <1>5, <1>6, <1>7, <1>8, <1>9, <1>10, <1>11, Completes DEF r, e
<1> QED
  BY <1>12 DEF more, r, y, f

\* A container is opened.
LEMMA WriteOpen ==
  ASSUME NEW t, NEW lo, NEW lv, Sound(t, lo, lv), NEW w, NEW a, Path(t, lo, w, a),
         NEW toks \in Seq(Token), NEW W, Writing(t, lo, w, a, toks, W),
         a # 0, t[a].kind \in Container, NEW order \in S!SortedOrders(t[a]),
         NEW w2, Len(w2) = Len(w) + 1, \A k \in 1 .. Len(w) : w2[k] = w[k],
         w2[Len(w) + 1].node = a, w2[Len(w) + 1].order = order, w2[Len(w) + 1].called = 0
  PROVE  Path(t, lo, w2, 0) /\ Writing(t, lo, w2, 0, Append(toks, OpenTok(t[a])), W)
<1> DEFINE l == Len(w)
           r == t[a]
           more == Append(toks, OpenTok(r))
<1>1. a \in 1 .. Len(t) /\ l \in Nat /\ 0 \in 0 .. Len(t) /\ l + 1 \in Nat
  BY SoundNode DEF Path
<1>2. OpenTok(r) \in Token
  BY Brackets DEF OpenTok, Structural
<1>3. /\ Longer(more, toks) /\ Len(toks) \in Nat /\ Len(more) \in Nat
      /\ Len(more) = Len(toks) + 1 /\ Has(more, Len(toks) + 1, OpenTok(r))
  BY <1>2, AppendLonger
<1>4. /\ lo[a] \in 1 .. a /\ a \in Nat /\ Len(r.kids) \in Nat
      /\ \A i \in 1 .. Len(r.kids) :
           Kid(r, order, i) \in 1 .. a - 1 /\ lo[Kid(r, order, i)] \in lo[a] .. Kid(r, order, i)
  <2> HIDE DEF more
  <2> QED
    BY <1>1, KidIs, ZenonT(60)
<1>5. a \notin W.done /\ W.done \subseteq 1 .. Len(t) /\ W.st[a] = Len(toks)
  BY <1>4 DEF Writing, Apart, Sub
<1>6. \A k \in 1 .. l + 1 : k = l + 1 \/ k \in 1 .. l
  BY <1>1
<1>7. Path(t, lo, w2, 0)
  <2>1. ASSUME NEW k \in 1 .. l + 1
        PROVE  /\ w2[k].node \in 1 .. Len(t) /\ t[w2[k].node].kind \in Container
               /\ w2[k].order \in S!SortedOrders(t[w2[k].node])
               /\ w2[k].called \in 0 .. Len(t[w2[k].node].kids)
    <3>1. CASE k = l + 1
      <4> HIDE DEF r
      <4>1. 0 \in 0 .. Len(r.kids)
        BY <1>4
      <4> QED
        BY <1>1, <3>1, <4>1 DEF r
    <3>2. CASE k \in 1 .. l
      BY <3>2 DEF Path
    <3> QED
      BY <1>6, <3>1, <3>2
  <2>2. ASSUME NEW k \in 1 .. l + 1, k < l + 1
        PROVE  w2[k].called # 0 /\ Cur(t, w2[k]) = w2[k + 1].node
    <3>1. k \in 1 .. l /\ w2[k] = w[k]
      BY <1>6, <2>2
    <3>2. CASE k = l
      BY <1>1, <3>1, <3>2 DEF Path
    <3>3. CASE k # l
      <4>1. k + 1 \in 1 .. l /\ k < l
        BY <1>1, <3>1, <3>3
      <4> QED
        BY <3>1, <4>1 DEF Path
    <3> QED
      BY <3>2, <3>3
  <2>3. ASSUME NEW k \in 1 .. l + 1, NEW j \in 1 .. k - 1
        PROVE  Inside(lo, w2[k].node, Cur(t, w2[j]))
    <3>1. j \in 1 .. l /\ w2[j] = w[j]
      BY <1>1
    <3>2. CASE k = l + 1
      BY <3>1, <3>2 DEF Path
    <3>3. CASE k \in 1 .. l
      BY <3>1, <3>3 DEF Path
    <3> QED
      BY <1>6, <3>2, <3>3
  <2>4. w2[1].node = Len(t)
    <3>1. CASE l = 0
      BY <1>1, <3>1 DEF Path
    <3>2. CASE l # 0
      BY <1>1, <3>2 DEF Path
    <3> QED
      BY <3>1, <3>2
  <2> QED
    BY <1>1, <2>1, <2>2, <2>3, <2>4 DEF Path
<1>8. \A stay : Later(W, W, stay)
  BY DEF Later
<1>9. \A n \in W.done : Placed(t[n], W, more, n)
  <2> SUFFICES ASSUME NEW n \in W.done PROVE Placed(t[n], W, more, n)
    OBVIOUS
  <2>1. n \in 1 .. Len(t) /\ Placed(t[n], W, toks, n)
    BY DEF Writing
  <2>2. t[n].kind \in Container => Len(t[n].kids) \in Nat
    BY <2>1, SoundNode
  <2> HIDE DEF more
  <2> QED
    BY <1>3, <1>8, <2>1, <2>2, PlacedKept
<1> HIDE DEF more
<1>10. ASSUME NEW k \in 1 .. l + 1
       PROVE  /\ w2[k].node \notin W.done
              /\ Run(t[w2[k].node], w2[k].order, W, more, w2[k].node, w2[k].called)
              /\ \A i \in 1 .. Len(t[w2[k].node].kids) :
                   w2[k].called < i => Apart(lo, W.done, Kid(t[w2[k].node], w2[k].order, i))
  <2>1. CASE k = l + 1
    <3>1. Run(r, order, W, more, a, 0)
      BY <1>3, <1>5 DEF Run
    <3>2. ASSUME NEW i \in 1 .. Len(r.kids) PROVE Apart(lo, W.done, Kid(r, order, i))
      <4> DEFINE x == Kid(r, order, i)
      <4>1. x \in 1 .. a - 1 /\ lo[x] \in lo[a] .. x
        BY <1>4
      <4> HIDE DEF x
      <4>2. \A y : y \in Sub(lo, x) => y \in Sub(lo, a)
        BY <1>4, <4>1 DEF Sub
      <4>3. Apart(lo, W.done, a)
        BY DEF Writing
      <4> QED
        BY <4>2, <4>3 DEF Apart, x
    <3> QED
      BY <1>5, <2>1, <3>1, <3>2
  <2>2. CASE k \in 1 .. l
    <3> DEFINE n == w[k].node
               o == w[k].order
               m == w[k].called
               stay == {n, Kid(t[n], o, m)}
    <3>1. m \in Nat
      <4>1. m \in 0 .. Len(t[n].kids)
        BY <2>2 DEF Path
      <4> HIDE DEF m
      <4> QED
        BY <4>1
    <3>2. Run(t[n], o, W, toks, n, m)
      BY <2>2 DEF Writing
    <3>3. n \in W.done \cup stay /\ Kid(t[n], o, m) \in W.done \cup stay
      OBVIOUS
    <3> HIDE DEF stay, n, o, m
    <3>4. Run(t[n], o, W, more, n, m)
      BY <1>3, <1>8, <3>1, <3>2, <3>3, RunKept
    <3> QED
      BY <2>2, <3>4 DEF n, o, m, Writing
  <2> QED
    BY <1>6, <2>1, <2>2
<1>11. W.st[w2[1].node] = 0
  <2>1. CASE l = 0
    BY <1>5, <2>1 DEF Writing
  <2>2. CASE l # 0
    BY <1>1, <2>2 DEF Writing
  <2> QED
    BY <2>1, <2>2
<1>12. Len(more) = Edge(r, order, W, a, 1)
  BY <1>3, <1>5 DEF Edge
<1>13. Writing(t, lo, w2, 0, more, W)
  <2> DEFINE Frames ==
        \A k \in 1 .. Len(w2) :
          /\ w2[k].node \notin W.done
          /\ Run(t[w2[k].node], w2[k].order, W, more, w2[k].node, w2[k].called)
          /\ \A i \in 1 .. Len(t[w2[k].node].kids) :
               w2[k].called < i => Apart(lo, W.done, Kid(t[w2[k].node], w2[k].order, i))
  <2>1. Frames
    BY <1>10
  <2>2. Len(w2) # 0 /\ Len(w2) = l + 1
    BY <1>1
  <2>3. LET f == w2[Len(w2)] IN
        /\ f.called # 0 => Cur(t, f) \in W.done
        /\ Len(more) = Edge(t[f.node], f.order, W, f.node, f.called + 1)
    BY <1>12, <2>2
  <2> QED
    BY <1>5, <1>9, <1>11, <2>1, <2>2, <2>3, Zenon DEF Writing
<1> QED
  BY <1>7, <1>13 DEF more

\* more is toks with what is written between two children: the separator and,
\* in an object, the name of the i-th.
Led(r, order, i, toks, more) ==
  LET e == Len(toks)
      b == Behind(e, i) IN
  /\ Longer(more, toks)
  /\ i # 1 => Has(more, e + 1, S!Tok("comma"))
  /\ IF r.kind = "object"
       THEN /\ Has(more, b + 1, S!Str(r.keys[order[i]]))
            /\ Has(more, b + 2, S!Tok("colon"))
            /\ Len(more) = b + 2
       ELSE Len(more) = b

\* The text of n starts at p.
Starts(W, n, top, p) ==
  [st |-> Set(W.st, top, n, p), en |-> W.en, ord |-> W.ord, done |-> W.done]

LEMMA StartsLater ==
  ASSUME NEW W, NEW top, W.done \subseteq 1 .. top, NEW n, n \notin W.done, NEW p,
         NEW stay, stay \subseteq 1 .. top, n \notin stay
  PROVE  Later(Starts(W, n, top, p), W, stay)
BY DEF Starts, Set, Later

\* A child is called on.
LEMMA WriteChild ==
  ASSUME NEW t, NEW lo, NEW lv, Sound(t, lo, lv), NEW w, Path(t, lo, w, 0),
         NEW toks \in Seq(Token), NEW W, Writing(t, lo, w, 0, toks, W),
         Len(w) # 0, NEW i, i = w[Len(w)].called + 1, i <= Len(t[w[Len(w)].node].kids),
         NEW w2, Len(w2) = Len(w), \A k \in 1 .. Len(w) - 1 : w2[k] = w[k],
         w2[Len(w)].node = w[Len(w)].node, w2[Len(w)].order = w[Len(w)].order,
         w2[Len(w)].called = i,
         NEW more \in Seq(Token), Led(t[w[Len(w)].node], w[Len(w)].order, i, toks, more)
  PROVE  LET x == Kid(t[w[Len(w)].node], w[Len(w)].order, i) IN
         Path(t, lo, w2, x) /\ \E W2 : Writing(t, lo, w2, x, more, W2)
<1> DEFINE l == Len(w)
           y == w[l].node
           r == t[y]
           order == w[l].order
           c == w[l].called
           x == Kid(r, order, i)
           W2 == Starts(W, x, Len(t), Len(more))
<1>1. /\ l \in Nat \ {0} /\ l \in 1 .. l /\ Len(toks) \in Nat /\ Len(more) \in Nat
      /\ Longer(more, toks)
  BY DEF Path, Led
<1>2. /\ y \in 1 .. Len(t) /\ r.kind \in Container /\ order \in S!SortedOrders(r)
      /\ c \in 0 .. Len(r.kids)
  BY <1>1 DEF Path
<1>3. /\ Len(r.kids) \in Nat /\ y \in Nat /\ lo[y] \in 1 .. y
      /\ \A j \in 1 .. Len(r.kids) :
           /\ Kid(r, order, j) \in 1 .. y - 1 /\ Kid(r, order, j) \in 1 .. Len(t)
           /\ lo[Kid(r, order, j)] \in lo[y] .. Kid(r, order, j)
  <2> HIDE DEF order, y
  <2> QED
    BY <1>2, KidIs
<1>4. c \in Nat /\ i \in 1 .. Len(r.kids) /\ i = c + 1 /\ i # 0
  <2>1. i = c + 1 /\ i <= Len(r.kids)
    OBVIOUS
  <2> HIDE DEF c, r
  <2> QED
    BY <1>2, <1>3, <2>1
<1>5. x \in 1 .. y - 1 /\ x \in 1 .. Len(t) /\ lo[x] \in lo[y] .. x /\ x \in Sub(lo, x)
  <2>1. x \in 1 .. y - 1 /\ x \in 1 .. Len(t) /\ lo[x] \in lo[y] .. x
    <3> HIDE DEF r, y, order
    <3> QED
      BY <1>3, <1>4
  <2> HIDE DEF x, y
  <2> QED
    BY <1>3, <2>1 DEF Sub
<1>6. Apart(lo, W.done, x) /\ x \notin W.done /\ W.done \subseteq 1 .. Len(t)
  <2>1. Apart(lo, W.done, x)
    <3>1. c < i
      BY <1>4
    <3> QED
      BY <1>1, <1>4, <3>1 DEF Writing
  <2> QED
    BY <1>5, <2>1 DEF Writing, Apart
<1>7. \A k \in 1 .. l : k = l \/ (k \in 1 .. l - 1 /\ k < l)
  BY <1>1
\* The child is inside all the children called on last.
<1>8. ASSUME NEW k \in 1 .. l, k < l
      PROVE  /\ w[k].called # 0 /\ x < w[k].node /\ Inside(lo, x, Cur(t, w[k]))
             /\ Cur(t, w[k]) = w[k + 1].node
             /\ \A j \in 1 .. Len(t[w[k].node].kids) :
                  w[k].called < j => x \notin Sub(lo, Kid(t[w[k].node], w[k].order, j))
  <2>1. Inside(lo, y, Cur(t, w[k])) /\ w[k].called # 0 /\ Cur(t, w[k]) = w[k + 1].node
    <3>1. k \in 1 .. l - 1
      BY <1>7, <1>8
    <3> QED
      BY <1>1, <1>8, <3>1 DEF Path
  <2>2. /\ w[k].node \in 1 .. Len(t) /\ t[w[k].node].kind \in Container
        /\ w[k].order \in S!SortedOrders(t[w[k].node])
        /\ w[k].called \in 0 .. Len(t[w[k].node].kids)
    BY <1>1 DEF Path
  <2>3. Cur(t, w[k]) \in 1 .. w[k].node - 1 /\ w[k].node \in Nat /\ lo[Cur(t, w[k])] \in Nat
    <3> DEFINE n == w[k].node
               o == w[k].order
               m == w[k].called
    <3>1. m \in 0 .. Len(t[n].kids) /\ m # 0
      BY <2>1, <2>2
    <3> HIDE DEF n, o, m
    <3>2. /\ Len(t[n].kids) \in Nat /\ n \in Nat /\ lo[n] \in 1 .. n
          /\ \A j \in 1 .. Len(t[n].kids) :
               /\ Kid(t[n], o, j) \in 1 .. n - 1 /\ lo[Kid(t[n], o, j)] \in lo[n] .. Kid(t[n], o, j)
      BY <2>2, KidIs DEF n, o
    <3>3. m \in 1 .. Len(t[n].kids)
      BY <3>1, <3>2
    <3>4. Kid(t[n], o, m) \in 1 .. n - 1 /\ lo[Kid(t[n], o, m)] \in lo[n] .. Kid(t[n], o, m)
      BY <3>2, <3>3
    <3>5. n \in Nat /\ lo[Kid(t[n], o, m)] \in Nat
      BY <3>2, <3>4
    <3> QED
      BY <3>4, <3>5 DEF n, o, m, Cur
  <2> HIDE DEF x, y
  <2>4. Inside(lo, x, Cur(t, w[k])) /\ lo[x] <= x /\ lo[x] \in Nat
    <3> DEFINE z == Cur(t, w[k])
    <3>1. lo[z] \in Nat /\ z \in Nat /\ lo[z] <= lo[y] /\ y <= z
      BY <2>1, <2>3 DEF Inside
    <3> HIDE DEF z
    <3> QED
      BY <1>3, <1>5, <3>1, SMTT(30) DEF Inside, z
  <2> QED
    BY <1>5, <2>1, <2>4, InsideCalled
<1>9. x # 0 /\ x \in 0 .. Len(t)
  <2> HIDE DEF x
  <2> QED
    BY <1>5
<1>10. Inside(lo, x, Kid(r, order, i))
  <2> HIDE DEF r, order
  <2> QED
    BY <1>3, <1>5 DEF Inside, Sub
<1>11. w2[l].node = y /\ w2[l].order = order /\ w2[l].called = i /\ Cur(t, w2[l]) = x
  BY DEF Cur
<1>12. Path(t, lo, w2, x)
  <2> HIDE DEF x, y, order, r
  <2>1. ASSUME NEW k \in 1 .. l
        PROVE  /\ w2[k].node \in 1 .. Len(t) /\ t[w2[k].node].kind \in Container
               /\ w2[k].order \in S!SortedOrders(t[w2[k].node])
               /\ w2[k].called \in 0 .. Len(t[w2[k].node].kids)
               /\ k < l => w2[k].called # 0 /\ Cur(t, w2[k]) = w2[k + 1].node
               /\ Inside(lo, x, Cur(t, w2[k]))
    <3>1. CASE k = l
      <4>1. i \in 0 .. Len(t[y].kids)
        BY <1>3, <1>4 DEF r
      <4> QED
        BY <1>2, <1>10, <1>11, <3>1, <4>1 DEF r, x
    <3>2. CASE k # l
      <4>1. k \in 1 .. l - 1 /\ k < l /\ k + 1 \in 1 .. l
        BY <1>7, <3>2
      <4>2. w2[k] = w[k] /\ w2[k + 1].node = w[k + 1].node
        BY <1>7, <1>11, <4>1 DEF y
      <4> QED
        BY <1>8, <4>1, <4>2 DEF Path
    <3> QED
      BY <3>1, <3>2
  <2>2. ASSUME NEW k \in 1 .. l, NEW j \in 1 .. k - 1
        PROVE  Inside(lo, w2[k].node, Cur(t, w2[j]))
    <3>1. j \in 1 .. l - 1 /\ w2[j] = w[j]
      BY <1>1
    <3>2. w2[k].node = w[k].node
      BY <1>7, <1>11 DEF y
    <3> QED
      BY <3>1, <3>2 DEF Path
  <2>3. w2[1].node = Len(t)
    <3>1. w2[1].node = w[1].node
      BY <1>1, <1>7, <1>11 DEF y
    <3> QED
      BY <3>1 DEF Path
  <2>4. w2[l].called # 0 /\ x = Cur(t, w2[l])
    BY <1>4, <1>11
  <2> QED
    BY <1>1, <1>9, <2>1, <2>2, <2>3, <2>4 DEF Path
<1>13. /\ W2.done = W.done /\ W2.en = W.en /\ W2.st[x] = Len(more)
       /\ \A stay : stay \subseteq 1 .. Len(t) /\ x \notin stay => Later(W2, W, stay)
  <2> HIDE DEF x
  <2>1. \A stay : stay \subseteq 1 .. Len(t) /\ x \notin stay => Later(W2, W, stay)
    BY <1>6, StartsLater
  <2> QED
    BY <1>5, <2>1 DEF Starts, Set
<1>14. \A n \in W2.done : Placed(t[n], W2, more, n)
  <2> SUFFICES ASSUME NEW n \in W.done PROVE Placed(t[n], W2, more, n)
    BY <1>13
  <2>1. n \in 1 .. Len(t) /\ Placed(t[n], W, toks, n)
    BY DEF Writing
  <2>2. t[n].kind \in Container => Len(t[n].kids) \in Nat
    BY <2>1, SoundNode
  <2>3. Later(W2, W, {})
    BY <1>13
  <2> HIDE DEF W2
  <2> QED
    BY <1>1, <2>1, <2>2, <2>3, PlacedKept
<1> HIDE DEF W2
<1>15. ASSUME NEW k \in 1 .. l, k < l
       PROVE  Run(t[w[k].node], w[k].order, W2, more, w[k].node, w[k].called)
  <2> DEFINE n == w[k].node
             o == w[k].order
             m == w[k].called
             stay == {n, Kid(t[n], o, m)}
  <2>1. n \in 1 .. Len(t) /\ m \in 0 .. Len(t[n].kids) /\ Run(t[n], o, W, toks, n, m)
    BY DEF Path, Writing
  <2>2. Kid(t[n], o, m) = w[k + 1].node /\ n # x
    <3>1. x < n /\ Kid(t[n], o, m) = w[k + 1].node
      BY <1>8, <1>15 DEF Cur
    <3> HIDE DEF x, n, o, m
    <3> QED
      BY <1>5, <2>1, <3>1
  <2>3. w[k + 1].node \in 1 .. Len(t) /\ w[k + 1].node # x
    <3>1. k + 1 \in 1 .. l /\ (k + 1 = l \/ k + 1 < l)
      BY <1>1, <1>15
    <3>2. x < w[k + 1].node
      <4>1. CASE k + 1 = l
        <5>1. w[k + 1].node = y
          BY <4>1
        <5> HIDE DEF x, y
        <5> QED
          BY <1>3, <1>5, <5>1
      <4>2. CASE k + 1 < l
        BY <1>8, <3>1, <4>2
      <4> QED
        BY <3>1, <4>1, <4>2
    <3>3. w[k + 1].node \in 1 .. Len(t)
      BY <3>1 DEF Path
    <3> HIDE DEF x
    <3> QED
      BY <1>5, <3>2, <3>3
  <2>4. Later(W2, W, stay)
    <3>1. stay \subseteq 1 .. Len(t) /\ x \notin stay
      <4> HIDE DEF x, n, o, m
      <4> QED
        BY <2>1, <2>2, <2>3
    <3> HIDE DEF stay, x
    <3> QED
      BY <1>13, <3>1
  <2>5. m \in Nat
    <3> HIDE DEF m
    <3> QED
      BY <2>1
  <2>6. n \in W.done \cup stay /\ Kid(t[n], o, m) \in W.done \cup stay
    OBVIOUS
  <2> HIDE DEF stay, n, o, m
  <2>7. Run(t[n], o, W2, more, n, m)
    BY <1>1, <2>1, <2>4, <2>5, <2>6, RunKept
  <2> QED
    BY <2>7 DEF n, o, m
<1>16. Run(r, order, W, toks, y, c) /\ (c # 0 => Kid(r, order, c) \in W.done)
         /\ Len(toks) = Edge(r, order, W, y, i)
  BY <1>1 DEF Writing, Cur
<1> HIDE DEF y, r, order, c, x
<1>17. Later(W2, W, {y}) /\ y # x
  <2>1. y # x
    BY <1>3, <1>5
  <2> QED
    BY <1>2, <1>13, <2>1
<1>18. Run(r, order, W2, more, y, c)
  <2>1. y \in W.done \cup {y} /\ (c # 0 => Kid(r, order, c) \in W.done \cup {y})
    BY <1>16
  <2> QED
    BY <1>1, <1>4, <1>16, <1>17, <2>1, RunKept
<1>19. \A j \in 1 .. i : j # i => j \in 1 .. c /\ Kid(r, order, j) \in W.done
  <2> SUFFICES ASSUME NEW j \in 1 .. i, j # i PROVE j \in 1 .. c /\ Kid(r, order, j) \in W.done
    OBVIOUS
  <2>1. j \in 1 .. c /\ (j = c => c # 0)
    BY <1>4
  <2> QED
    BY <1>16, <2>1 DEF Run
<1>20. Joined(r, order, W2, more, y, i)
  <2>1. Edge(r, order, W2, y, i) = Len(toks)
    <3>1. CASE i = 1
      BY <1>16, <1>17, <3>1 DEF Edge, Later
    <3>2. CASE i # 1
      BY <1>13, <1>16, <3>2 DEF Edge
    <3> QED
      BY <3>1, <3>2
  <2>2. Led(r, order, i, toks, more)
    BY DEF y, r, order
  <2>3. x = Kid(r, order, i)
    BY DEF x
  <2> QED
    BY <1>13, <2>1, <2>2, <2>3 DEF Joined, Led
<1>21. Run(r, order, W2, more, y, i)
  <2>1. \A j \in 1 .. i : Joined(r, order, W2, more, y, j)
    BY <1>18, <1>19, <1>20 DEF Run
  <2> QED
    BY <1>13, <1>18, <1>19, <2>1 DEF Run
<1>22. ASSUME NEW k \in 1 .. l
       PROVE  /\ w2[k].node \notin W2.done
              /\ Run(t[w2[k].node], w2[k].order, W2, more, w2[k].node, w2[k].called)
              /\ \A j \in 1 .. Len(t[w2[k].node].kids) :
                   w2[k].called < j => Apart(lo, W2.done, Kid(t[w2[k].node], w2[k].order, j))
  <2>1. CASE k = l
    <3>1. /\ y \notin W.done
          /\ \A j \in 1 .. Len(r.kids) : c < j => Apart(lo, W.done, Kid(r, order, j))
      BY <1>1 DEF Writing, y, r, order, c
    <3>2. \A j \in 1 .. Len(r.kids) : i < j => c < j
      BY <1>3, <1>4
    <3> QED
      BY <1>11, <1>13, <1>21, <2>1, <3>1, <3>2 DEF r
  <2>2. CASE k # l
    <3>1. k \in 1 .. l - 1 /\ k < l /\ w2[k] = w[k]
      BY <1>7, <2>2
    <3> QED
      BY <1>13, <1>15, <3>1 DEF Writing
  <2> QED
    BY <2>1, <2>2
<1>23. W2.st[w2[1].node] = 0
  <2>1. w2[1].node = w[1].node
    BY <1>1, <1>7, <1>11 DEF y
  <2>2. w[1].node \in 1 .. Len(t) /\ W.st[w[1].node] = 0 /\ 1 \in 1 .. l
    BY <1>1 DEF Path, Writing
  <2>3. w[1].node # x
    <3>1. CASE l = 1
      BY <1>17, <3>1 DEF y
    <3>2. CASE l # 1
      <4>1. x < w[1].node
        BY <1>1, <1>8, <2>2, <3>2, SMTT(30)
      <4> QED
        BY <1>5, <2>2, <4>1
    <3> QED
      BY <3>1, <3>2
  <2>4. Later(W2, W, {w[1].node})
    BY <1>13, <2>2, <2>3
  <2> QED
    BY <2>1, <2>2, <2>4 DEF Later
<1>24. Writing(t, lo, w2, x, more, W2)
  <2> DEFINE Frames ==
        \A k \in 1 .. Len(w2) :
          /\ w2[k].node \notin W2.done
          /\ Run(t[w2[k].node], w2[k].order, W2, more, w2[k].node, w2[k].called)
          /\ \A j \in 1 .. Len(t[w2[k].node].kids) :
               w2[k].called < j => Apart(lo, W2.done, Kid(t[w2[k].node], w2[k].order, j))
  <2>1. Frames
    BY <1>22
  <2>2. Len(w2) # 0 /\ x # 0 /\ W2.done \subseteq 1 .. Len(t)
    BY <1>6, <1>9, <1>13
  <2>3. Apart(lo, W2.done, x) /\ W2.st[x] = Len(more)
    BY <1>6, <1>13
  <2> QED
    BY <1>14, <1>23, <2>1, <2>2, <2>3, Zenon DEF Writing
<1> QED
  BY <1>12, <1>24 DEF x, r, y, order

LEMMA ConcatLonger ==
  ASSUME NEW T, NEW toks \in Seq(T), NEW s \in Seq(T)
  PROVE  /\ toks \o s \in Seq(T) /\ Longer(toks \o s, toks)
         /\ Len(toks) \in Nat /\ Len(s) \in Nat /\ Len(toks \o s) = Len(toks) + Len(s)
         /\ \A i \in 1 .. Len(s) : Has(toks \o s, Len(toks) + i, s[i])
BY DEF Longer, Has

\* What EmitChild writes in front of a child.
LEMMA PrefixLeads ==
  ASSUME NEW r, r.kind \in Container, NEW order, NEW i \in Nat \ {0}, NEW toks \in Seq(Token),
         NEW sep, sep = (IF i = 1 THEN <<>> ELSE <<S!Tok("comma")>>),
         r.kind = "object" => S!Str(r.keys[order[i]]) \in Token,
         NEW s, s = (IF r.kind = "array" THEN sep
                     ELSE sep \o <<S!Str(r.keys[order[i]]), S!Tok("colon")>>)
  PROVE  toks \o s \in Seq(Token) /\ Led(r, order, i, toks, toks \o s)
<1> DEFINE key == S!Str(r.keys[order[i]])
           comma == S!Tok("comma")
           colon == S!Tok("colon")
<1>0. \A q \in Seq(Token) :
        /\ toks \o q \in Seq(Token) /\ Longer(toks \o q, toks)
        /\ Len(toks) \in Nat /\ Len(toks \o q) = Len(toks) + Len(q)
        /\ \A j \in 1 .. Len(q) : Has(toks \o q, Len(toks) + j, q[j])
  BY ConcatLonger
<1>1. comma \in Token /\ colon \in Token /\ (r.kind = "object" => key \in Token)
  BY Brackets DEF Structural
<1> HIDE DEF key, comma, colon
<1>2. CASE r.kind # "object"
  <2>1. r.kind = "array" /\ s = IF i = 1 THEN <<>> ELSE <<comma>>
    BY <1>2 DEF Container, comma
  <2>2. s \in Seq(Token) /\ Len(s) = IF i = 1 THEN 0 ELSE 1
    BY <1>1, <2>1
  <2>3. i # 1 => s[1] = comma
    BY <2>1
  <2> HIDE DEF comma
  <2>4. i # 1 => Has(toks \o s, Len(toks) + 1, comma)
    <3>1. i # 1 => 1 \in 1 .. Len(s)
      BY <2>2
    <3> QED
      BY <2>2, <2>3, <3>1, <1>0
  <2>5. Len(toks \o s) = Behind(Len(toks), i) /\ Longer(toks \o s, toks) /\ toks \o s \in Seq(Token)
    <3>1. /\ toks \o s \in Seq(Token) /\ Longer(toks \o s, toks)
          /\ Len(toks) \in Nat /\ Len(toks \o s) = Len(toks) + Len(s)
      BY <2>2, <1>0
    <3> QED
      BY <2>2, <3>1 DEF Behind
  <2> QED
    BY <1>2, <2>4, <2>5 DEF Led, comma
<1>3. CASE r.kind = "object" /\ i = 1
  <2>1. s = <<key, colon>>
    <3>1. sep = <<>> /\ s = sep \o <<key, colon>>
      BY <1>3 DEF key, colon
    <3> QED
      BY <1>1, <1>3, <3>1
  <2>2. s \in Seq(Token) /\ Len(s) = 2 /\ s[1] = key /\ s[2] = colon
    BY <1>1, <1>3, <2>1
  <2>3. Has(toks \o s, Len(toks) + 1, key) /\ Has(toks \o s, Len(toks) + 2, colon)
    <3>1. 1 \in 1 .. Len(s) /\ 2 \in 1 .. Len(s)
      BY <2>2
    <3> QED
      BY <2>2, <3>1, <1>0
  <2>4. /\ Len(toks \o s) = Len(toks) + 2 /\ Longer(toks \o s, toks) /\ toks \o s \in Seq(Token)
    BY <2>2, <1>0
  <2> QED
    BY <1>3, <2>3, <2>4 DEF Led, Behind, key, colon
<1>4. CASE r.kind = "object" /\ i # 1
  <2>1. s = <<comma>> \o <<key, colon>>
    BY <1>4 DEF key, colon, comma
  <2>2. s \in Seq(Token) /\ Len(s) = 3 /\ s[1] = comma /\ s[2] = key /\ s[3] = colon
    <3>1. \A x, y, z \in Token :
            LET q == <<x>> \o <<y, z>> IN
            q \in Seq(Token) /\ Len(q) = 3 /\ q[1] = x /\ q[2] = y /\ q[3] = z
      OBVIOUS
    <3> QED
      BY <1>1, <1>4, <2>1, <3>1
  <2>3. /\ Has(toks \o s, Len(toks) + 1, comma)
        /\ Has(toks \o s, Len(toks) + 2, key) /\ Has(toks \o s, Len(toks) + 3, colon)
    <3>1. 1 \in 1 .. Len(s) /\ 2 \in 1 .. Len(s) /\ 3 \in 1 .. Len(s)
      BY <2>2
    <3> QED
      BY <2>2, <3>1, <1>0
  <2>4. /\ Len(toks) \in Nat /\ Len(toks \o s) = Len(toks) + 3
        /\ Longer(toks \o s, toks) /\ toks \o s \in Seq(Token)
    BY <2>2, <1>0
  <2>5. /\ (Len(toks) + 1) + 1 = Len(toks) + 2 /\ (Len(toks) + 1) + 2 = Len(toks) + 3
    BY <2>4
  <2> QED
    BY <1>4, <2>3, <2>4, <2>5 DEF Led, Behind, key, colon, comma
<1> QED
  BY <1>2, <1>3, <1>4

\* toks is the text of t.
Written(t, toks, W) ==
  /\ W.done \subseteq 1 .. Len(t)
  /\ \A n \in W.done : Placed(t[n], W, toks, n)
  /\ Len(t) \in W.done /\ W.st[Len(t)] = 0 /\ W.en[Len(t)] = Len(toks)

WriteInv ==
  /\ phase = "emit" =>
       \E lo, lv, W : /\ Sound(tree, lo, lv) /\ Path(tree, lo, walk, at)
                      /\ Writing(tree, lo, walk, at, out, W)
  /\ phase = "done" => \E lo, lv, W : Sound(tree, lo, lv) /\ Written(tree, out, W)

\* The walk begins with nothing written.
LEMMA WriteBegins ==
  ASSUME NEW t, NEW lo, NEW lv, Sound(t, lo, lv)
  PROVE  Path(t, lo, <<>>, Len(t)) /\ \E W : Writing(t, lo, <<>>, Len(t), <<>>, W)
<1> DEFINE W == [st |-> [n \in 1 .. Len(t) |-> 0], done |-> {}]
<1>1. Len(t) \in Nat \ {0} /\ Len(t) \in 1 .. Len(t) /\ Len(t) # 0
  BY LimitsPositive DEF Sound
<1>2. W.done = {} /\ W.st[Len(t)] = 0
  BY <1>1
<1> HIDE DEF W
<1>3. Path(t, lo, <<>>, Len(t))
  BY <1>1 DEF Path
<1>4. Writing(t, lo, <<>>, Len(t), <<>>, W)
  BY <1>1, <1>2 DEF Writing, Apart
<1> QED
  BY <1>3, <1>4

\* The innermost container calls on its next child.
Calls(t, w, w2, more, toks, next) ==
  LET f == w[Len(w)]
      i == f.called + 1 IN
  /\ Len(w) # 0 /\ Len(w2) = Len(w) /\ \A k \in 1 .. Len(w) - 1 : w2[k] = w[k]
  /\ w2[Len(w)].node = f.node /\ w2[Len(w)].order = f.order /\ w2[Len(w)].called = i
  /\ i \in 1 .. Len(t[f.node].kids) /\ next = Kid(t[f.node], f.order, i)
  /\ Led(t[f.node], f.order, i, toks, more)

LEMMA ChildCalledOn ==
  ASSUME NEW lo, NEW lv, Sound(tree, lo, lv), Path(tree, lo, walk, at),
         walk \in Seq(OpenContainer), out \in Seq(Token), S!EmitChild
  PROVE  /\ at = 0 /\ UNCHANGED <<tree, phase>> /\ out' \in Seq(Token)
         /\ Calls(tree, walk, walk', out', out, at')
<1> DEFINE l == Len(walk)
           f == walk[l]
           r == tree[f.node]
           i == f.called + 1
           s == S!Prefixed(r, f.order[i])
<1>1. /\ walk # <<>> /\ f = S!Top /\ f.called < Len(f.order) /\ UNCHANGED <<tree, phase>>
      /\ at = 0 /\ walk' = S!Step
      /\ out' = out \o s /\ at' = r.kids[f.order[i]]
  BY DEF S!EmitChild, S!Emitting, S!MoreChildren, S!Top
<1>2. f \in OpenContainer /\ l \in 1 .. l /\ l \in Nat
  BY <1>1, WalkTop
<1>3. Replaced(walk', walk, [f EXCEPT !.called = @ + 1])
  BY <1>1, StepIs
<1>4. /\ Len(walk') = l /\ \A k \in 1 .. l - 1 : walk'[k] = walk[k]
      /\ walk'[l].node = f.node /\ walk'[l].order = f.order /\ walk'[l].called = i
  <2> HIDE DEF f
  <2> QED
    BY <1>2, <1>3 DEF Replaced, OpenContainer
<1>5. /\ f.node \in 1 .. Len(tree) /\ r.kind \in Container
      /\ f.order \in S!SortedOrders(r) /\ f.called \in Nat
  BY <1>2 DEF Path, OpenContainer
<1>6. Len(f.order) = Len(r.kids) /\ Len(r.kids) \in Nat
  <2> HIDE DEF f
  <2> QED
    BY <1>5, KidIs
<1>7. i \in Nat \ {0} /\ i <= Len(r.kids) /\ i \in 1 .. Len(r.kids)
  <2>1. \A c, m \in Nat : c < m => c + 1 \in Nat \ {0} /\ c + 1 <= m /\ c + 1 \in 1 .. m
    OBVIOUS
  <2> HIDE DEF f, r
  <2> QED
    BY <1>1, <1>5, <1>6, <2>1
<1>8. r.kind = "object" => S!Str(r.keys[f.order[i]]) \in Token
  <2>1. Valid(r) /\ f.order[i] \in 1 .. Len(r.kids)
    <3> HIDE DEF f, i
    <3> QED
      BY <1>5, <1>7, KidIs DEF Sound
  <2> HIDE DEF f, i, r
  <2>2. r.kind = "object" => r.keys[f.order[i]] \in KeyTexts
    BY <2>1 DEF Valid, KeyTexts
  <2> QED
    BY <2>2, Brackets
<1>9. out' \in Seq(Token) /\ Led(r, f.order, i, out, out')
  <2>1. S!Separator = IF i = 1 THEN <<>> ELSE <<S!Tok("comma")>>
    <3>1. i = 1 <=> f.called = 0
      <4> HIDE DEF f
      <4> QED
        BY <1>5
    <3> HIDE DEF i, f
    <3> QED
      BY <1>1, <3>1 DEF S!Separator
  <2>2. s = IF r.kind = "array" THEN S!Separator
            ELSE S!Separator \o <<S!Str(r.keys[f.order[i]]), S!Tok("colon")>>
    BY DEF S!Prefixed
  <2> HIDE DEF f, i, r, s
  <2> QED
    BY <1>1, <1>5, <1>7, <1>8, <2>1, <2>2, PrefixLeads
<1>10. Len(walk) # 0 /\ at' = Kid(r, f.order, i)
  <2>1. Len(walk) # 0 /\ at' = r.kids[f.order[i]]
    BY <1>1, <1>2
  <2> HIDE DEF r, f, i, l
  <2> QED
    BY <2>1 DEF Kid
<1>11. Calls(tree, walk, walk', out', out, at')
  BY <1>4, <1>7, <1>9, <1>10, Zenon DEF Calls
<1> QED
  BY <1>1, <1>9, <1>11

\* The steps of the emitting walk.
LEMMA EmitWrites ==
  ASSUME SerializerInv, phase = "emit", WriteInv, S!Next
  PROVE  WriteInv'
<1>1. PICK lo, lv, W : /\ Sound(tree, lo, lv) /\ Path(tree, lo, walk, at)
                       /\ Writing(tree, lo, walk, at, out, W)
  BY DEF WriteInv
<1>2. walk \in Seq(OpenContainer) /\ out \in Seq(Token)
  BY DEF SerializerInv
<1>3. CASE S!EmitLeaf
  <2>1. /\ at # 0 /\ tree[at].kind \notin Container /\ at' = 0
        /\ out' = Append(out, S!Spelled(tree[at])) /\ UNCHANGED <<tree, phase, walk>>
    BY <1>3, SameContainers DEF S!EmitLeaf
  <2>2. /\ Path(tree, lo, walk, 0)
        /\ \E W2 : Writing(tree, lo, walk, 0, Append(out, S!Spelled(tree[at])), W2)
    BY <1>1, <1>2, <2>1, WriteLeaf
  <2> QED
    BY <1>1, <2>1, <2>2 DEF WriteInv
<1>4. CASE S!EmitOpen
  <2>1. /\ at # 0 /\ tree[at].kind \in Container /\ at' = 0 /\ UNCHANGED <<tree, phase>>
        /\ out' = Append(out, OpenTok(tree[at]))
    BY <1>4, SameContainers DEF S!EmitOpen, OpenTok
  <2>2. PICK order \in S!SortedOrders(tree[at]) : walk' = S!Open(at, order)
    BY <1>4 DEF S!EmitOpen
  <2>3. at \in 1 .. Len(tree) /\ at \in Nat /\ Len(tree) \in Nat
    BY <1>1, <2>1, SoundNode DEF Path
  <2>4. Valid(tree[at]) /\ Len(tree[at].kids) \in Nat
    BY <1>1, <2>1, <2>3 DEF Sound, Forest, NodeFits, Chain
  <2>5. order \in Seq(Nat)
    BY <2>1, <2>4, OrderOnce DEF Valid
  <2>6. /\ Len(walk') = Len(walk) + 1 /\ \A k \in 1 .. Len(walk) : walk'[k] = walk[k]
        /\ walk'[Len(walk) + 1] = [node |-> at, order |-> order, called |-> 0, seen |-> {}]
    BY <1>2, <2>2, <2>3, <2>5, OpenIs
  <2>7. /\ walk'[Len(walk) + 1].node = at /\ walk'[Len(walk) + 1].order = order
        /\ walk'[Len(walk) + 1].called = 0
    BY <2>6
  <2>8. Path(tree, lo, walk', 0) /\ Writing(tree, lo, walk', 0, out', W)
    BY <1>1, <1>2, <2>1, <2>6, <2>7, WriteOpen
  <2> QED
    BY <1>1, <2>1, <2>8 DEF WriteInv
<1>5. CASE S!EmitChild
  <2>1. /\ at = 0 /\ UNCHANGED <<tree, phase>> /\ out' \in Seq(Token)
        /\ Calls(tree, walk, walk', out', out, at')
    BY <1>1, <1>2, <1>5, ChildCalledOn
  <2>2. /\ Path(tree, lo, walk', at') /\ \E W2 : Writing(tree, lo, walk', at', out', W2)
    <3> DEFINE i == walk[Len(walk)].called + 1
    <3>1. /\ Len(walk) # 0 /\ Len(walk') = Len(walk)
          /\ \A k \in 1 .. Len(walk) - 1 : walk'[k] = walk[k]
          /\ walk'[Len(walk)].node = walk[Len(walk)].node
          /\ walk'[Len(walk)].order = walk[Len(walk)].order /\ walk'[Len(walk)].called = i
          /\ i \in 1 .. Len(tree[walk[Len(walk)].node].kids)
          /\ at' = Kid(tree[walk[Len(walk)].node], walk[Len(walk)].order, i)
          /\ Led(tree[walk[Len(walk)].node], walk[Len(walk)].order, i, out, out')
      BY <2>1, Zenon DEF Calls
    <3>2. i = walk[Len(walk)].called + 1 /\ i <= Len(tree[walk[Len(walk)].node].kids)
      BY <3>1
    <3>3. Path(tree, lo, walk, 0) /\ Writing(tree, lo, walk, 0, out, W)
      BY <1>1, <2>1
    <3> HIDE DEF i
    <3> QED
      BY <1>1, <1>2, <2>1, <3>1, <3>2, <3>3, WriteChild
  <2> QED
    BY <1>1, <2>1, <2>2 DEF WriteInv
<1>6. CASE S!EmitClose
  <2> DEFINE f == walk[Len(walk)]
  <2>1. /\ walk # <<>> /\ walk' = S!Front(walk) /\ UNCHANGED <<tree, phase, at>> /\ at = 0
        /\ out' = Append(out, CloseTok(tree[f.node]))
        /\ ~(f.called < Len(f.order))
    BY <1>6 DEF S!EmitClose, S!Emitting, S!MoreChildren, S!Top, CloseTok
  <2>2. /\ Len(walk') = Len(walk) - 1 /\ Len(walk) \in Nat /\ Len(walk) # 0
        /\ \A k \in 1 .. Len(walk) - 1 : walk'[k] = walk[k]
    BY <1>2, <2>1, FrontIs
  <2>3. f.called = Len(tree[f.node].kids)
    <3>1. /\ f.node \in 1 .. Len(tree) /\ tree[f.node].kind \in Container
          /\ f.order \in S!SortedOrders(tree[f.node])
          /\ f.called \in 0 .. Len(tree[f.node].kids)
      BY <1>1, <2>2 DEF Path
    <3> HIDE DEF f
    <3>2. Len(f.order) = Len(tree[f.node].kids) /\ Len(f.order) \in Nat
      BY <1>1, <3>1, KidIs
    <3> QED
      BY <2>1, <3>1, <3>2
  <2>4. /\ Path(tree, lo, walk', 0)
        /\ \E W2 : Writing(tree, lo, walk', 0, Append(out, CloseTok(tree[f.node])), W2)
    BY <1>1, <1>2, <2>1, <2>2, <2>3, WriteClose
  <2> QED
    BY <1>1, <2>1, <2>4 DEF WriteInv
<1>7. CASE S!Return
  <2>1. at = 0 /\ Len(walk) = 0 /\ phase' = "done" /\ UNCHANGED <<tree, out>>
    BY <1>7 DEF S!Return
  <2>2. Written(tree, out, W)
    BY <1>1, <2>1 DEF Writing, Written
  <2> QED
    BY <1>1, <2>1, <2>2 DEF WriteInv
<1> QED
  BY <1>3, <1>4, <1>5, <1>6, <1>7
  DEF S!Next, S!NilValue, S!RejectBound, S!ValidateLeaf, S!RejectChildren,
      S!ValidateContainer, S!WithinBounds, S!Called, S!RejectKey, S!RejectDuplicate,
      S!ValidateMember, S!ValidateElement, S!ValidateReturn, S!ObjectNext, S!Looping,
      S!BeginEmit, S!Stop

--------------------------------------------------------------------------------
(* The canonical text as input. *)

LEMMA ValidateWrites ==
  ASSUME SerializerInv, phase = "validate", S!Next, SerializerInv'
  PROVE  WriteInv'
<1>1. CASE S!BeginEmit
  <2>1. /\ phase' = "emit" /\ at' = Len(tree) /\ walk' = <<>> /\ UNCHANGED <<tree, out>>
        /\ out = <<>>
    BY <1>1 DEF S!BeginEmit, S!Root, SerializerInv
  <2>2. PICK lo, lv : Sound(tree, lo, lv)
    BY DEF SerializerInv
  <2> QED
    BY <2>1, <2>2, WriteBegins DEF WriteInv
<1>2. CASE ~S!BeginEmit
  <2>1. phase' \in {"validate", "done"} /\ (phase' = "done" => result' # "ok")
    BY <1>2
    DEF S!Next, S!NilValue, S!RejectBound, S!ValidateLeaf, S!RejectChildren,
        S!ValidateContainer, S!WithinBounds, S!Called, S!RejectKey, S!RejectDuplicate,
        S!ValidateMember, S!ValidateElement, S!ValidateReturn, S!ObjectNext, S!Looping,
        S!EmitLeaf, S!EmitOpen, S!EmitChild, S!EmitClose, S!Emitting, S!Return, S!Stop,
        S!Fail
  <2> QED
    BY <2>1 DEF SerializerInv, WriteInv
<1> QED
  BY <1>1, <1>2

\* toks is what the parser reads.
Reads(toks) == toks \in Seq(Token) /\ input = Lexed(toks)

LEMMA ReadsLength ==
  ASSUME NEW toks, Reads(toks)
  PROVE  Len(toks) \in Nat /\ Len(input) = Len(toks) /\ DOMAIN toks = 1 .. Len(toks)
BY DEF Reads, Lexed

LEMMA PeekIs ==
  ASSUME NEW toks, Reads(toks), NEW p \in Nat, NEW x, Has(toks, p + 1, x)
  PROVE  peek(p) = IF x.sort = "string"
                     THEN PlainString[CHOOSE k \in Keys : KeyText[k] = x.text]
                   ELSE IF x.sort \in Structural THEN x.sort
                   ELSE PlainScalar[x.sort]
<1>1. p + 1 \in 1 .. Len(toks) /\ toks[p + 1] = x
  BY DEF Has
<1>2. peek(p) = input[p + 1]
  BY <1>1, ReadsLength DEF peek
<1>3. p + 1 \in DOMAIN toks
  BY <1>1, ReadsLength
<1> QED
  BY <1>1, <1>2, <1>3 DEF Reads, Lexed

LEMMA PeekStructural ==
  ASSUME NEW toks, Reads(toks), NEW p \in Nat, NEW s \in Structural, Has(toks, p + 1, S!Tok(s))
  PROVE  peek(p) = s
<1>1. S!Tok(s).sort = s /\ s # "string"
  BY DEF S!Tok, Structural
<1> QED
  BY <1>1, PeekIs

LEMMA PeekKey ==
  ASSUME NEW toks, Reads(toks), NEW p \in Nat, NEW k \in Keys, Has(toks, p + 1, S!Str(KeyText[k]))
  PROVE  peek(p) \in Strings /\ Decode[peek(p)] = k
<1>1. S!Str(KeyText[k]).sort = "string" /\ S!Str(KeyText[k]).text = KeyText[k]
  BY DEF S!Str
<1>2. (CHOOSE m \in Keys : KeyText[m] = KeyText[k]) = k
  BY TextAssumption
<1>3. peek(p) = PlainString[k]
  BY <1>1, <1>2, PeekIs
<1> QED
  BY <1>3, TextAssumption

LEMMA PeekLiteral ==
  ASSUME NEW toks, Reads(toks), NEW p \in Nat, NEW s \in Scalars,
         Has(toks, p + 1, S!Tok(Literal[s]))
  PROVE  ReadsBack(s, peek(p)) \/ TooLong(peek(p))
<1>1. S!Tok(Literal[s]).sort = Literal[s]
  BY DEF S!Tok
<1>2. Literal[s] \notin Structural /\ Literal[s] # "string"
  BY TextAssumption
<1>3. peek(p) = PlainScalar[Literal[s]]
  BY <1>1, <1>2, PeekIs
<1> QED
  BY <1>3, TextAssumption

\* A canonical text has no whitespace.
LEMMA NoWhitespace ==
  ASSUME NEW toks, Reads(toks), NEW p \in Nat, p <= Len(toks)
  PROVE  /\ skipWhitespace(p) = {p}
         /\ IF p = Len(toks) THEN peek(p) = "eof"
            ELSE peek(p) \in Structural \cup Strings \cup Scalars \cup BadScalars
<1>1. Len(toks) \in Nat /\ Len(input) = Len(toks)
  BY ReadsLength
<1>2. ASSUME p < Len(toks)
      PROVE  peek(p) \in Structural \cup Strings \cup Scalars \cup BadScalars
  <2>1. Has(toks, p + 1, toks[p + 1])
    BY <1>1, <1>2 DEF Has
  <2>2. toks[p + 1] \in Token
    BY <1>1, <1>2 DEF Reads
  <2>3. CASE \E k \in Keys : toks[p + 1] = S!Str(KeyText[k])
    BY <2>1, <2>3, PeekKey
  <2>4. CASE \E s \in Structural : toks[p + 1] = S!Tok(s)
    BY <2>1, <2>4, PeekStructural
  <2>5. CASE \E s \in Scalars : toks[p + 1] = S!Tok(Literal[s])
    BY <2>1, <2>5, PeekLiteral DEF ReadsBack, TooLong
  <2> QED
    BY <2>2, <2>3, <2>4, <2>5 DEF Token
<1>3. p = Len(toks) => peek(p) = "eof"
  BY <1>1 DEF peek
<1>4. peek(p) # "ws"
  <2>1. CASE p = Len(toks)
    BY <1>3, <2>1
  <2>2. CASE p < Len(toks)
    BY <1>2, <2>2, LexemeAssumption DEF Structural
  <2> QED
    BY <1>1, <2>1, <2>2
<1>5. skipWhitespace(p) = {p}
  <2>1. p \in skipWhitespace(p)
    BY <1>1, <1>4 DEF skipWhitespace
  <2>2. ASSUME NEW q \in skipWhitespace(p) PROVE q = p
    <3>1. q \in p .. Len(input) /\ \A i \in p .. q - 1 : peek(i) = "ws"
      BY DEF skipWhitespace
    <3>2. q # p => p \in p .. q - 1
      BY <1>1, <3>1
    <3> QED
      BY <1>4, <3>1, <3>2
  <2> QED
    BY <2>1, <2>2
<1> QED
  BY <1>1, <1>2, <1>3, <1>5

--------------------------------------------------------------------------------
(* What the parser makes of the canonical text. *)

\* The children and the keys of r are the first of those of q in this order: c
\* is the node each child was made of.
Follows(r, q, order, c) ==
  \A i \in 1 .. Len(r.kids) :
    /\ r.kids[i] \in DOMAIN c /\ c[r.kids[i]] = Kid(q, order, i)
    /\ q.kind = "object" => KeyText[r.keys[i]] = q.keys[order[i]]

\* The node r was made of q.
Copied(r, q, order, c) ==
  IF q.kind \in Container
    THEN r.kind = q.kind /\ Len(r.kids) = Len(q.kids) /\ Follows(r, q, order, c)
  ELSE /\ r.kids = <<>>
       /\ IF q.kind = "string" THEN r.kind = "string" /\ KeyText[r.text] = q.str
          ELSE r.kind = "scalar" /\ ScalarKind[r.text] = q.kind /\ Literal[r.text] = q.lit

\* The open container f has the first of the children of q, and ahead keys more.
InProgress(f, ahead, q, order, c) ==
  /\ f.kind = q.kind /\ q.kind \in Container
  /\ Len(f.kids) < Len(q.kids)
  /\ Follows(f, q, order, c)
  /\ q.kind = "object" =>
       /\ ahead = 1 => KeyText[f.key] = q.keys[order[Len(f.kids) + 1]]
       /\ \A key \in f.seen : \E i \in 1 .. Len(f.kids) + ahead :
            KeyText[key] = q.keys[order[i]]

\* The child of the container n that f is about to get.
NextKid(t, W, n, f) == Kid(t[n], W.ord[n], Len(f.kids) + 1)

\* The node whose text the parser is in: g are those of the open containers.
Target(t, W, st, g) ==
  IF Len(st) = 0 THEN Len(t) ELSE NextKid(t, W, g[Len(st)], st[Len(st)])

\* Where the text of the k-th open container begins, in the one around it.
Opened(t, W, st, g, k) ==
  IF k = 1 THEN Len(t) ELSE NextKid(t, W, g[k - 1], st[k - 1])

\* Before and after a value its key has been read, or it has none.
Ahead(mode) == IF mode \in {"value", "return"} THEN 1 ELSE 0

\* The same for the k-th open container.
Keyed(st, mode, k) == IF k < Len(st) THEN 1 ELSE Ahead(mode)

\* c are the nodes of t that the nodes completed were made of.
NodesTraced(t, W, c, ns, p) ==
  /\ DOMAIN c = 1 .. Len(ns)
  /\ \A i \in 1 .. Len(ns) :
       /\ c[i] \in W.done /\ Copied(ns[i], t[c[i]], W.ord[c[i]], c)
       /\ W.en[c[i]] <= p
       /\ \A j \in 1 .. Len(ns) : c[i] = c[j] => i = j

\* g are those that the open containers are being made of.
OpenTraced(t, lv, W, c, g, st, mode) ==
  \A k \in 1 .. Len(st) :
    /\ g[k] \in W.done /\ lv[g[k]] = k - 1
    /\ InProgress(st[k], Keyed(st, mode, k), t[g[k]], W.ord[g[k]], c)
    /\ g[k] = Opened(t, W, st, g, k)
    /\ \A j \in 1 .. k - 1 : W.en[g[k]] < W.en[g[j]]

\* The parser has read the text of t up to p.
Tracing(t, lv, W, c, g, ns, st, p, mode) ==
  /\ NodesTraced(t, W, c, ns, p)
  /\ OpenTraced(t, lv, W, c, g, st, mode)
  /\ mode = "value" => p = W.st[Target(t, W, st, g)]
  /\ mode = "key" =>
       LET n == g[Len(st)]
           i == Len(st[Len(st)].kids) + 1 IN
       p = Behind(Edge(t[n], W.ord[n], W, n, i), i)
  /\ mode = "return" =>
       /\ Len(ns) # 0 /\ c[Len(ns)] = Target(t, W, st, g)
       /\ p = W.en[c[Len(ns)]]

\* Facts about a complete container.
LEMMA PlacedKids ==
  ASSUME NEW t, NEW lo, NEW lv, Sound(t, lo, lv), NEW toks, NEW W, Written(t, toks, W),
         NEW n \in W.done, t[n].kind \in Container
  PROVE  /\ n \in 1 .. Len(t) /\ W.ord[n] \in S!SortedOrders(t[n])
         /\ Len(t[n].kids) \in Nat /\ Len(W.ord[n]) = Len(t[n].kids)
         /\ W.st[n] \in Nat /\ W.en[n] \in Nat
         /\ Has(toks, W.st[n] + 1, OpenTok(t[n]))
         /\ Has(toks, W.en[n], CloseTok(t[n]))
         /\ W.en[n] = Edge(t[n], W.ord[n], W, n, Len(t[n].kids) + 1) + 1
         /\ \A i \in 1 .. Len(t[n].kids) :
              /\ W.ord[n][i] \in 1 .. Len(t[n].kids)
              /\ Kid(t[n], W.ord[n], i) \in W.done
              /\ lv[Kid(t[n], W.ord[n], i)] = lv[n] + 1
              /\ W.en[Kid(t[n], W.ord[n], i)] < W.en[n]
              /\ Joined(t[n], W.ord[n], W, toks, n, i)
<1>1. n \in 1 .. Len(t) /\ Placed(t[n], W, toks, n)
  BY DEF Written
<1>2. W.ord[n] \in S!SortedOrders(t[n])
  BY <1>1 DEF Placed
<1>3. /\ Len(t[n].kids) \in Nat /\ Len(W.ord[n]) = Len(t[n].kids)
      /\ \A i \in 1 .. Len(t[n].kids) :
           W.ord[n][i] \in 1 .. Len(t[n].kids) /\ lv[Kid(t[n], W.ord[n], i)] = lv[n] + 1
  BY <1>1, <1>2, KidIs, SMTT(30)
<1>4. W.st[n] \in Nat /\ W.en[n] \in Nat
  BY <1>1 DEF Placed
<1> QED
  BY <1>1, <1>2, <1>3, <1>4 DEF Placed, Run

\* The target of a parser that follows the text, when it has one.
LEMMA TargetIs ==
  ASSUME NEW t, NEW lo, NEW lv, Sound(t, lo, lv), NEW toks, NEW W, Written(t, toks, W),
         NEW c, NEW g, NEW ns, NEW st \in Seq(Frame), NEW p, NEW mode,
         Tracing(t, lv, W, c, g, ns, st, p, mode), NEW x, x = Target(t, W, st, g)
  PROVE  /\ x \in W.done /\ x \in 1 .. Len(t) /\ lv[x] = Len(st)
         /\ W.st[x] \in Nat /\ W.en[x] \in Nat /\ W.st[x] < W.en[x]
         /\ \A k \in 1 .. Len(st) : W.en[x] < W.en[g[k]] /\ W.en[g[k]] \in Nat
<1> DEFINE l == Len(st)
<1>0. l \in Nat /\ \A k \in 1 .. l : Len(st[k].kids) \in Nat
  BY DEF Frame
<1>1. ASSUME NEW n \in W.done
      PROVE  n \in 1 .. Len(t) /\ W.st[n] \in Nat /\ W.en[n] \in Nat /\ W.st[n] < W.en[n]
  BY DEF Written, Placed
<1>2. CASE l = 0
  <2>1. x = Len(t) /\ x \in W.done /\ lv[x] = 0
    BY <1>2 DEF Target, Written, Sound
  <2> QED
    BY <1>1, <1>2, <2>1
<1>3. CASE l # 0
  <2> DEFINE n == g[l]
             i == Len(st[l].kids) + 1
  <2>1. l \in 1 .. l /\ i \in Nat
    BY <1>0, <1>3
  <2>2. n \in W.done /\ t[n].kind \in Container /\ i - 1 < Len(t[n].kids) /\ lv[n] = l - 1
        /\ \A j \in 1 .. l - 1 : W.en[n] < W.en[g[j]]
    <3>1. /\ n \in W.done /\ lv[n] = l - 1
          /\ InProgress(st[l], Keyed(st, mode, l), t[n], W.ord[n], c)
          /\ \A j \in 1 .. l - 1 : W.en[n] < W.en[g[j]]
      BY <2>1 DEF Tracing, NodesTraced, OpenTraced
    <3>2. t[n].kind \in Container /\ Len(st[l].kids) < Len(t[n].kids)
      BY <3>1 DEF InProgress
    <3>3. \A m \in Nat : (m + 1) - 1 = m
      OBVIOUS
    <3>4. i - 1 = Len(st[l].kids)
      BY <2>1, <3>3
    <3> HIDE DEF i, n, l
    <3> QED
      BY <3>1, <3>2, <3>4
  <2>3. x = Kid(t[n], W.ord[n], i)
    BY <1>3 DEF Target, NextKid
  <2> HIDE DEF n, i
  <2>4. i \in 1 .. Len(t[n].kids)
    <3>1. Len(t[n].kids) \in Nat
      BY <2>2, PlacedKids
    <3>2. i # 0
      BY <2>1 DEF i
    <3> QED
      BY <2>1, <2>2, <3>1, <3>2
  <2>5. x \in W.done /\ lv[x] = lv[n] + 1 /\ W.en[x] < W.en[n]
    BY <2>2, <2>3, <2>4, PlacedKids
  <2>6. \A k \in 1 .. l : W.en[g[k]] \in Nat
    BY <1>1 DEF Tracing, NodesTraced, OpenTraced
  <2>7. ASSUME NEW k \in 1 .. l PROVE W.en[x] < W.en[g[k]]
    <3>1. k = l \/ k \in 1 .. l - 1
      BY <2>1
    <3>2. W.en[x] \in Nat /\ W.en[n] \in Nat /\ W.en[g[k]] \in Nat
      BY <1>1, <2>2, <2>5, <2>6
    <3>3. CASE k = l
      BY <2>5, <3>3 DEF n
    <3>4. CASE k \in 1 .. l - 1
      <4>1. W.en[n] < W.en[g[k]]
        BY <2>2, <3>4
      <4> QED
        BY <2>5, <3>2, <4>1
    <3> QED
      BY <3>1, <3>3, <3>4
  <2> QED
    BY <1>1, <2>2, <2>5, <2>6, <2>7
<1> QED
  BY <1>2, <1>3

\* No more values are counted than the tree has.
LEMMA CountLeft ==
  ASSUME NEW t, NEW lo, NEW lv, Sound(t, lo, lv), NEW toks, NEW W, Written(t, toks, W),
         NEW c, NEW g, NEW ns, NEW st \in Seq(Frame), NEW p \in Nat,
         Tracing(t, lv, W, c, g, ns, st, p, "value"), Len(ns) \in Nat
  PROVE  Len(ns) + Len(st) + 1 <= maxValues
<1> DEFINE N == Len(ns)
           L == Len(st)
           x == Target(t, W, st, g)
           h == [i \in 1 .. N + L + 1 |->
                   IF i <= N THEN c[i] ELSE IF i <= N + L THEN g[i - N] ELSE x]
<1>1. N \in Nat /\ L \in Nat
  OBVIOUS
<1>2. /\ x \in 1 .. Len(t) /\ lv[x] = L /\ W.en[x] \in Nat /\ p < W.en[x]
      /\ \A k \in 1 .. L : W.en[x] < W.en[g[k]] /\ W.en[g[k]] \in Nat
  <2>1. p = W.st[x]
    BY DEF Tracing, NodesTraced, OpenTraced
  <2> QED
    BY <1>1, <2>1, TargetIs
<1>3. /\ \A i \in 1 .. N : c[i] \in 1 .. Len(t) /\ W.en[c[i]] <= p /\ W.en[c[i]] \in Nat
      /\ \A i, j \in 1 .. N : c[i] = c[j] => i = j
  <2>1. \A n \in W.done : n \in 1 .. Len(t) /\ W.en[n] \in Nat
    BY DEF Written, Placed
  <2>2. \A i \in 1 .. N : c[i] \in W.done /\ W.en[c[i]] <= p
    BY DEF Tracing, NodesTraced, OpenTraced
  <2>3. \A i, j \in 1 .. N : c[i] = c[j] => i = j
    BY DEF Tracing, NodesTraced, OpenTraced
  <2> QED
    BY <2>1, <2>2, <2>3
<1>4. \A k \in 1 .. L : g[k] \in 1 .. Len(t) /\ lv[g[k]] = k - 1
  BY DEF Tracing, NodesTraced, OpenTraced, Written
<1>5. p \in Nat /\ Len(t) \in Nat /\ Len(t) <= maxValues /\ maxValues \in Nat
  BY LimitsPositive DEF Sound
<1> HIDE DEF x, N, L
<1>6. h \in [1 .. N + L + 1 -> 1 .. Len(t)]
  <2> SUFFICES ASSUME NEW i \in 1 .. N + L + 1 PROVE h[i] \in 1 .. Len(t)
    OBVIOUS
  <2>1. i \in Nat /\ i # 0
    BY <1>1
  <2>2. CASE i <= N
    BY <1>3, <2>1, <2>2
  <2>3. CASE N < i /\ i <= N + L
    <3>1. i - N \in 1 .. L
      BY <1>1, <2>3
    <3> QED
      BY <1>1, <1>4, <2>1, <2>3, <3>1
  <2>4. CASE N + L < i
    BY <1>1, <1>2, <2>1, <2>4
  <2> QED
    BY <1>1, <2>1, <2>2, <2>3, <2>4
<1>7. ASSUME NEW i \in 1 .. N + L + 1, NEW j \in 1 .. N + L + 1, h[i] = h[j], i < j PROVE FALSE
  <2>1. i \in Nat /\ j \in Nat /\ i # 0 /\ j # 0
    BY <1>1
  <2>2. CASE j <= N
    <3>1. i \in 1 .. N /\ j \in 1 .. N /\ h[i] = c[i] /\ h[j] = c[j]
      BY <1>1, <1>7, <2>1, <2>2
    <3> QED
      BY <1>3, <1>7, <2>1, <3>1
  <2>3. CASE N < j /\ i <= N
    <3>1. i \in 1 .. N /\ h[i] = c[i]
      BY <1>1, <2>1, <2>3
    <3>2. W.en[h[i]] <= p /\ W.en[h[i]] \in Nat
      BY <1>3, <3>1
    <3>3. p < W.en[h[j]] /\ W.en[h[j]] \in Nat
      <4>1. CASE j <= N + L
        <5>1. j - N \in 1 .. L /\ h[j] = g[j - N]
          BY <1>1, <2>1, <2>3, <4>1
        <5> QED
          BY <1>2, <1>5, <5>1, SMTT(30)
      <4>2. CASE N + L < j
        <5>1. h[j] = x
          BY <1>1, <2>1, <2>3, <4>2
        <5> QED
          BY <1>2, <5>1
      <4> QED
        BY <1>1, <2>1, <4>1, <4>2
    <3> QED
      BY <1>5, <1>7, <3>2, <3>3
  <2>4. CASE N < i
    <3>1. i - N \in 1 .. L /\ h[i] = g[i - N]
      BY <1>1, <1>7, <2>1, <2>4
    <3>2. lv[h[i]] = i - N - 1
      BY <1>4, <3>1
    <3>3. CASE j <= N + L
      <4>1. j - N \in 1 .. L /\ h[j] = g[j - N]
        BY <1>1, <1>7, <2>1, <2>4, <3>3
      <4> QED
        BY <1>1, <1>4, <1>7, <2>1, <3>2, <4>1
    <3>4. CASE N + L < j
      <4>1. h[j] = x
        BY <1>1, <2>1, <3>4
      <4> QED
        BY <1>1, <1>2, <1>7, <2>1, <3>1, <3>2, <4>1
    <3> QED
      BY <1>1, <2>1, <3>3, <3>4
  <2> QED
    BY <1>1, <2>1, <2>2, <2>3, <2>4
<1>8. \A i, j \in 1 .. N + L + 1 : h[i] = h[j] => i = j
  <2> SUFFICES ASSUME NEW i \in 1 .. N + L + 1, NEW j \in 1 .. N + L + 1, h[i] = h[j], i # j
               PROVE  FALSE
    OBVIOUS
  <2>1. i < j \/ j < i
    BY <1>1
  <2> QED
    BY <1>7, <2>1
<1> HIDE DEF h
<1>9. \A m \in Nat : IsFiniteSet(1 .. m) /\ Cardinality(1 .. m) = m
  <2> SUFFICES ASSUME NEW m \in Nat PROVE IsFiniteSet(1 .. m) /\ Cardinality(1 .. m) = m
    OBVIOUS
  <2>0. 1 \in Int /\ m \in Int
    OBVIOUS
  <2>1. IsFiniteSet(1 .. m) /\ Cardinality(1 .. m) = IF 1 > m THEN 0 ELSE m - 1 + 1
    BY <2>0, FS_Interval, Zenon
  <2> QED
    BY <2>1
<1>10. ASSUME Len(t) < N + L + 1 PROVE FALSE
  <2> DEFINE A == 1 .. N + L + 1
             B == 1 .. Len(t)
  <2>1. IsFiniteSet(A) /\ IsFiniteSet(B) /\ Cardinality(B) < Cardinality(A)
    BY <1>1, <1>5, <1>9, <1>10
  <2>2. h \in [A -> B] /\ \A i, j \in A : h[i] = h[j] => i = j
    BY <1>6, <1>8
  <2> HIDE DEF A, B
  <2>3. \E i, j \in A : i # j /\ h[i] = h[j]
    BY <2>1, <2>2, FS_PigeonHole
  <2> QED
    BY <2>2, <2>3
<1> QED
  BY <1>1, <1>5, <1>10 DEF N, L

\* What the lexeme is that a value's text begins with.
LEMMA ValueLexeme ==
  ASSUME NEW t, NEW lo, NEW lv, Sound(t, lo, lv), NEW toks, NEW W, Written(t, toks, W),
         Reads(toks), NEW n \in W.done
  PROVE  IF t[n].kind \in Container THEN peek(W.st[n]) = Opener(t[n].kind)
         ELSE \/ /\ peek(W.st[n]) \in Scalars \cup Strings /\ W.en[n] = W.st[n] + 1
                 /\ \A order, c : Copied(Leaf(peek(W.st[n])), t[n], order, c)
              \/ TooLong(peek(W.st[n]))
<1> DEFINE r == t[n]
           p == W.st[n]
<1>1. n \in 1 .. Len(t) /\ Placed(r, W, toks, n) /\ p \in Nat
  BY DEF Written, Placed
<1>2. CASE r.kind \in Container
  <2>1. Has(toks, p + 1, S!Tok(Opener(r.kind))) /\ Opener(r.kind) \in Structural
    BY <1>2, PlacedKids DEF OpenTok, Opener, Structural
  <2> QED
    BY <1>1, <1>2, <2>1, PeekStructural
<1>3. CASE r.kind \notin Container
  <2>1. /\ Has(toks, p + 1, S!Spelled(r)) /\ W.en[n] = p + 1 /\ LeafOf(r)
    BY <1>1, <1>3 DEF Placed, Sound, Valid
  <2> HIDE DEF r, p
  <2>2. CASE r.kind = "string"
    <3>1. PICK k \in Keys : r.str = KeyText[k]
      BY <2>1, <2>2 DEF LeafOf
    <3>2. S!Spelled(r) = S!Str(KeyText[k])
      BY <2>2, <3>1 DEF S!Spelled
    <3>3. peek(p) \in Strings /\ Decode[peek(p)] = k
      BY <1>1, <2>1, <3>2, PeekKey
    <3>4. /\ Leaf(peek(p)).kind = "string" /\ Leaf(peek(p)).text = k
          /\ Leaf(peek(p)).kids = <<>>
      BY <3>3 DEF Leaf
    <3>5. \A order, c : Copied(Leaf(peek(p)), r, order, c)
      BY <1>3, <2>2, <3>1, <3>4 DEF Copied
    <3> QED
      BY <1>3, <2>1, <3>3, <3>5 DEF r, p
  <2>3. CASE r.kind # "string"
    <3>1. PICK s \in Scalars : r.kind = ScalarKind[s] /\ r.lit = Literal[s]
      BY <2>1, <2>3 DEF LeafOf
    <3>2. S!Spelled(r) = S!Tok(Literal[s])
      BY <3>1, TextAssumption DEF S!Spelled
    <3>3. ReadsBack(s, peek(p)) \/ TooLong(peek(p))
      BY <1>1, <2>1, <3>1, <3>2, PeekLiteral
    <3>4. CASE ReadsBack(s, peek(p))
      <4>1. /\ peek(p) \in Scalars /\ Literal[peek(p)] = r.lit
            /\ ScalarKind[peek(p)] = r.kind
        BY <3>1, <3>4 DEF ReadsBack
      <4>2. peek(p) \notin Strings
        BY <4>1, LexemeAssumption
      <4>3. /\ Leaf(peek(p)).kind = "scalar" /\ Leaf(peek(p)).text = peek(p)
            /\ Leaf(peek(p)).kids = <<>>
        BY <4>2 DEF Leaf
      <4>4. \A order, c : Copied(Leaf(peek(p)), r, order, c)
        BY <1>3, <2>3, <4>1, <4>3 DEF Copied
      <4> QED
        BY <1>3, <2>1, <4>1, <4>4 DEF r, p
    <3>5. CASE TooLong(peek(p))
      BY <1>3, <3>5 DEF r, p
    <3> QED
      BY <3>3, <3>4, <3>5
  <2> QED
    BY <2>2, <2>3
<1> QED
  BY <1>2, <1>3

LEMMA FollowsMore ==
  ASSUME NEW c, NEW N \in Nat, DOMAIN c = 1 .. N, NEW x
  PROVE  /\ DOMAIN With(c, N + 1, x) = 1 .. N + 1
         /\ With(c, N + 1, x)[N + 1] = x
         /\ \A i \in 1 .. N : With(c, N + 1, x)[i] = c[i]
         /\ \A r, q, order : Follows(r, q, order, c) => Follows(r, q, order, With(c, N + 1, x))
         /\ \A r, q, order : Copied(r, q, order, c) => Copied(r, q, order, With(c, N + 1, x))
         /\ \A f, ahead, q, order :
              InProgress(f, ahead, q, order, c) => InProgress(f, ahead, q, order, With(c, N + 1, x))
<1> DEFINE c2 == With(c, N + 1, x)
<1>1. /\ DOMAIN c2 = 1 .. N + 1 /\ c2[N + 1] = x
      /\ \A i \in 1 .. N : c2[i] = c[i] /\ i \in DOMAIN c2
  BY DEF With
<1> HIDE DEF c2
<1>2. ASSUME NEW r, NEW q, NEW order, Follows(r, q, order, c) PROVE Follows(r, q, order, c2)
  BY <1>1, <1>2 DEF Follows
<1>3. \A r, q, order : Copied(r, q, order, c) => Copied(r, q, order, c2)
  BY <1>2 DEF Copied
<1>4. \A f, ahead, q, order :
        InProgress(f, ahead, q, order, c) => InProgress(f, ahead, q, order, c2)
  BY <1>2 DEF InProgress
<1> QED
  BY <1>1, <1>2, <1>3, <1>4 DEF c2

\* The parser returns a value that was made of its target.
LEMMA TraceComplete ==
  ASSUME NEW t, NEW lo, NEW lv, Sound(t, lo, lv), NEW toks, NEW W, Written(t, toks, W),
         NEW c, NEW g, NEW ns, NEW st \in Seq(Frame), NEW p \in Nat,
         Tracing(t, lv, W, c, g, ns, st, p, "value"),
         NEW x, x = Target(t, W, st, g),
         NEW more, OneMore(more, ns), Copied(more[Len(ns) + 1], t[x], W.ord[x], c)
  PROVE  Tracing(t, lv, W, With(c, Len(ns) + 1, x), g, more, st, W.en[x], "return")
<1> DEFINE N == Len(ns)
           c2 == With(c, N + 1, x)
<1>1. /\ x \in W.done /\ W.en[x] \in Nat /\ p < W.en[x]
  <2>1. p = W.st[x]
    BY DEF Tracing, NodesTraced, OpenTraced
  <2> QED
    BY <2>1, TargetIs
<1>2. N \in Nat /\ Len(more) = N + 1 /\ \A i \in 1 .. N : more[i] = ns[i]
  BY DEF OneMore
<1>3. /\ DOMAIN c = 1 .. N
      /\ \A i \in 1 .. N :
           /\ c[i] \in W.done /\ Copied(ns[i], t[c[i]], W.ord[c[i]], c)
           /\ W.en[c[i]] <= p /\ W.en[c[i]] \in Nat
           /\ \A j \in 1 .. N : c[i] = c[j] => i = j
  BY DEF Tracing, NodesTraced, OpenTraced, Written, Placed
<1>4. /\ DOMAIN c2 = 1 .. N + 1 /\ c2[N + 1] = x /\ \A i \in 1 .. N : c2[i] = c[i]
      /\ \A r, q, order : Copied(r, q, order, c) => Copied(r, q, order, c2)
      /\ \A f, ahead, q, order :
           InProgress(f, ahead, q, order, c) => InProgress(f, ahead, q, order, c2)
  BY <1>3, FollowsMore
<1>5. more[N + 1] = more[Len(ns) + 1]
  OBVIOUS
<1> HIDE DEF c2
<1>6. ASSUME NEW i \in 1 .. N + 1
      PROVE  /\ c2[i] \in W.done /\ Copied(more[i], t[c2[i]], W.ord[c2[i]], c2)
             /\ W.en[c2[i]] <= W.en[x]
             /\ \A j \in 1 .. N + 1 : c2[i] = c2[j] => i = j
  <2>1. CASE i \in 1 .. N
    <3>1. W.en[c2[i]] <= p
      BY <1>3, <1>4, <2>1
    <3>2. c2[i] # x
      BY <1>1, <1>3, <1>4, <2>1
    <3>3. \A j \in 1 .. N + 1 : c2[i] = c2[j] => i = j
      BY <1>2, <1>3, <1>4, <2>1, <3>2
    <3>4. W.en[c2[i]] <= W.en[x]
      BY <1>1, <1>3, <1>4, <2>1
    <3> QED
      BY <1>2, <1>3, <1>4, <2>1, <3>3, <3>4
  <2>2. CASE i = N + 1
    <3>1. ASSUME NEW j \in 1 .. N + 1, c2[i] = c2[j], j # N + 1 PROVE FALSE
      <4>1. j \in 1 .. N
        BY <3>1
      <4>2. c2[j] = c[j] /\ W.en[c[j]] <= p /\ W.en[c[j]] \in Nat
        BY <1>3, <1>4, <4>1
      <4> QED
        BY <1>1, <1>4, <2>2, <3>1, <4>2
    <3>2. c2[i] = x /\ Copied(more[i], t[x], W.ord[x], c2)
      BY <1>4, <1>5, <2>2
    <3> QED
      BY <1>1, <2>2, <3>1, <3>2
  <2> QED
    BY <2>1, <2>2
<1>7. ASSUME NEW k \in 1 .. Len(st)
      PROVE  /\ g[k] \in W.done /\ lv[g[k]] = k - 1
             /\ InProgress(st[k], Keyed(st, "return", k), t[g[k]], W.ord[g[k]], c2)
             /\ g[k] = Opened(t, W, st, g, k)
             /\ \A j \in 1 .. k - 1 : W.en[g[k]] < W.en[g[j]]
  <2>1. Keyed(st, "return", k) = Keyed(st, "value", k)
    BY DEF Keyed, Ahead
  <2> QED
    BY <1>4, <2>1 DEF Tracing, NodesTraced, OpenTraced
<1>8. N + 1 # 0 /\ c2[Len(more)] = x
  BY <1>2, <1>4
<1> HIDE DEF N
<1> QED
  BY <1>2, <1>4, <1>6, <1>7, <1>8 DEF Tracing, NodesTraced, OpenTraced, N, c2

\* The parser enters a container that has children.
LEMMA TracePush ==
  ASSUME NEW t, NEW lo, NEW lv, Sound(t, lo, lv), NEW toks, NEW W, Written(t, toks, W),
         NEW c, NEW g, NEW ns, NEW st \in Seq(Frame), NEW p \in Nat,
         Tracing(t, lv, W, c, g, ns, st, p, "value"),
         NEW x, x = Target(t, W, st, g), t[x].kind \in Container, Len(t[x].kids) # 0,
         NEW st2, Len(st2) = Len(st) + 1, \A k \in 1 .. Len(st) : st2[k] = st[k],
         st2[Len(st) + 1] = NewFrame(t[x].kind)
  PROVE  \E g2 : Tracing(t, lv, W, c, g2, ns, st2, p + 1,
                         IF t[x].kind = "object" THEN "key" ELSE "value")
<1> DEFINE L == Len(st)
           g2 == [k \in 1 .. L + 1 |-> IF k = L + 1 THEN x ELSE g[k]]
           mode == IF t[x].kind = "object" THEN "key" ELSE "value"
           f == NewFrame(t[x].kind)
<1>1. /\ x \in W.done /\ lv[x] = L /\ p = W.st[x]
      /\ \A k \in 1 .. L : W.en[x] < W.en[g[k]]
  <2> HIDE DEF g2, mode, f
  <2>1. p = W.st[x]
    BY DEF Tracing, NodesTraced, OpenTraced
  <2>2. /\ x \in W.done /\ x \in 1 .. Len(t) /\ lv[x] = Len(st)
        /\ \A k \in 1 .. Len(st) : W.en[x] < W.en[g[k]] /\ W.en[g[k]] \in Nat
    BY TargetIs
  <2> QED
    BY <2>1, <2>2
<1>2. L \in Nat /\ g2[L + 1] = x /\ \A k \in 1 .. L : g2[k] = g[k]
  OBVIOUS
<1>3. f.kids = <<>> /\ f.seen = {} /\ f.kind = t[x].kind /\ Len(f.kids) = 0
  BY DEF NewFrame
<1>4. /\ Len(t[x].kids) \in Nat /\ 1 \in 1 .. Len(t[x].kids)
      /\ Joined(t[x], W.ord[x], W, toks, x, 1)
  <2>1. /\ Len(t[x].kids) \in Nat
        /\ \A i \in 1 .. Len(t[x].kids) : Joined(t[x], W.ord[x], W, toks, x, i)
    BY <1>1, PlacedKids
  <2> QED
    BY <2>1
<1>5. /\ DOMAIN c = 1 .. Len(ns)
      /\ \A i \in 1 .. Len(ns) :
           /\ c[i] \in W.done /\ Copied(ns[i], t[c[i]], W.ord[c[i]], c)
           /\ W.en[c[i]] <= p + 1
           /\ \A j \in 1 .. Len(ns) : c[i] = c[j] => i = j
  <2>1. \A i \in 1 .. Len(ns) : W.en[c[i]] <= p /\ W.en[c[i]] \in Nat
    BY DEF Tracing, NodesTraced, OpenTraced, Written, Placed
  <2> QED
    BY <2>1 DEF Tracing, NodesTraced, OpenTraced
<1> HIDE DEF g2, f, mode
<1>6. ASSUME NEW k \in 1 .. L + 1
      PROVE  /\ g2[k] \in W.done /\ lv[g2[k]] = k - 1
             /\ InProgress(st2[k], Keyed(st2, mode, k), t[g2[k]], W.ord[g2[k]], c)
             /\ g2[k] = Opened(t, W, st2, g2, k)
             /\ \A j \in 1 .. k - 1 : W.en[g2[k]] < W.en[g2[j]]
  <2>1. CASE k \in 1 .. L
    <3>1. st2[k] = st[k] /\ g2[k] = g[k] /\ \A j \in 1 .. k - 1 : g2[j] = g[j] /\ st2[j] = st[j]
      BY <1>2, <2>1
    <3>2. Keyed(st2, mode, k) = 1 /\ Keyed(st, "value", k) = 1
      BY <1>2, <2>1 DEF Keyed, Ahead
    <3>3. /\ g[k] \in W.done /\ lv[g[k]] = k - 1
          /\ InProgress(st[k], Keyed(st, "value", k), t[g[k]], W.ord[g[k]], c)
          /\ g[k] = Opened(t, W, st, g, k)
          /\ \A j \in 1 .. k - 1 : W.en[g[k]] < W.en[g[j]]
      BY <2>1 DEF Tracing, NodesTraced, OpenTraced
    <3>4. Opened(t, W, st2, g2, k) = Opened(t, W, st, g, k)
      <4>1. k # 1 => k - 1 \in 1 .. k - 1
        BY <1>2, <2>1
      <4> QED
        BY <3>1, <4>1 DEF Opened
    <3>5. InProgress(st[k], Keyed(st2, mode, k), t[g[k]], W.ord[g[k]], c)
      BY <3>2, <3>3
    <3> QED
      BY <3>1, <3>3, <3>4, <3>5
  <2>2. CASE k = L + 1
    <3>0. (L + 1) - 1 = L /\ g2[k] = x /\ st2[k] = f /\ lv[x] = L
      BY <1>1, <1>2, <2>2 DEF f
    <3>1. InProgress(f, Keyed(st2, mode, k), t[x], W.ord[x], c)
      <4>1. t[x].kind = "object" => Keyed(st2, mode, k) = 0
        BY <1>2, <2>2 DEF Keyed, Ahead, mode
      <4>2. Follows(f, t[x], W.ord[x], c)
        BY <1>3 DEF Follows
      <4> QED
        BY <1>3, <1>4, <4>1, <4>2 DEF InProgress
    <3>2. x = Opened(t, W, st2, g2, k)
      <4>1. CASE L = 0
        BY <2>2, <4>1 DEF Opened, Target
      <4>2. CASE L # 0
        <5>1. L \in 1 .. L /\ k # 1 /\ k - 1 = L
          BY <1>2, <2>2, <3>0, <4>2
        <5>2. g2[L] = g[L] /\ st2[L] = st[L]
          BY <1>2, <5>1
        <5> QED
          BY <4>2, <5>1, <5>2 DEF Opened, Target
      <4> QED
        BY <4>1, <4>2
    <3>3. \A j \in 1 .. L : W.en[x] < W.en[g2[j]]
      BY <1>1, <1>2
    <3> QED
      BY <1>1, <2>2, <3>0, <3>1, <3>2, <3>3
  <2> QED
    BY <1>2, <2>1, <2>2
<1>7. CASE t[x].kind = "object"
  <2>1. mode = "key"
    BY <1>7 DEF mode
  <2>2. p + 1 = Behind(Edge(t[x], W.ord[x], W, x, 1), 1)
    BY <1>1 DEF Behind, Edge
  <2>3. g2[Len(st2)] = x /\ Len(st2[Len(st2)].kids) + 1 = 1
    BY <1>2, <1>3 DEF f
  <2>4. Len(st2) = L + 1 /\ mode # "value" /\ mode # "return"
    BY <2>1
  <2> QED
    BY <1>5, <1>6, <2>1, <2>2, <2>3, <2>4 DEF Tracing, NodesTraced, OpenTraced, mode
<1>8. CASE t[x].kind # "object"
  <2>1. mode = "value"
    BY <1>8 DEF mode
  <2>2. W.st[Kid(t[x], W.ord[x], 1)] = p + 1
    BY <1>1, <1>4, <1>8 DEF Joined, Behind, Edge
  <2>3. Target(t, W, st2, g2) = Kid(t[x], W.ord[x], 1)
    <3>1. g2[Len(st2)] = x /\ Len(st2[Len(st2)].kids) + 1 = 1 /\ Len(st2) # 0
      BY <1>2, <1>3 DEF f
    <3> QED
      BY <3>1 DEF Target, NextKid
  <2>4. Len(st2) = L + 1 /\ mode # "key" /\ mode # "return"
    BY <2>1
  <2> QED
    BY <1>5, <1>6, <2>1, <2>2, <2>3, <2>4 DEF Tracing, NodesTraced, OpenTraced, mode
<1> QED
  BY <1>7, <1>8

\* The open container f, with this many keys ahead, was made of the beginning of
\* n, whose i-th child is the next.
Awaits(t, W, toks, c, f, ahead, n, i) ==
  /\ n \in W.done /\ t[n].kind \in Container
  /\ Len(f.kids) \in Nat /\ i = Len(f.kids) + 1 /\ i \in 1 .. Len(t[n].kids)
  /\ Len(t[n].kids) \in Nat
  /\ InProgress(f, ahead, t[n], W.ord[n], c)
  /\ W.en[n] \in Nat /\ Has(toks, W.en[n], CloseTok(t[n]))
  /\ W.en[n] = Edge(t[n], W.ord[n], W, n, Len(t[n].kids) + 1) + 1
  /\ \A j \in 1 .. Len(t[n].kids) :
       /\ Kid(t[n], W.ord[n], j) \in W.done
       /\ W.en[Kid(t[n], W.ord[n], j)] < W.en[n]
       /\ Joined(t[n], W.ord[n], W, toks, n, j)

TopNode(st, g) == g[Len(st)]
TopNext(st) == Len(st[Len(st)].kids) + 1

LEMMA TopTraced ==
  ASSUME NEW t, NEW lo, NEW lv, Sound(t, lo, lv), NEW toks, NEW W, Written(t, toks, W),
         NEW c, NEW g, NEW ns, NEW st \in Seq(Frame), NEW p, NEW mode,
         Tracing(t, lv, W, c, g, ns, st, p, mode), Len(st) # 0
  PROVE  /\ Awaits(t, W, toks, c, st[Len(st)], Ahead(mode), TopNode(st, g), TopNext(st))
         /\ Target(t, W, st, g) = Kid(t[TopNode(st, g)], W.ord[TopNode(st, g)], TopNext(st))
<1> DEFINE f == st[Len(st)]
           n == g[Len(st)]
           i == Len(f.kids) + 1
<1>1. Len(st) \in Nat /\ Len(st) \in 1 .. Len(st) /\ f \in Frame
  OBVIOUS
<1>2. n \in W.done /\ InProgress(f, Keyed(st, mode, Len(st)), t[n], W.ord[n], c)
  BY <1>1 DEF Tracing, NodesTraced, OpenTraced
<1>3. Target(t, W, st, g) = Kid(t[n], W.ord[n], i)
  BY DEF Target, NextKid
<1>4. Keyed(st, mode, Len(st)) = Ahead(mode)
  BY <1>1 DEF Keyed
<1> HIDE DEF f, n
<1>5. Len(f.kids) \in Nat
  BY <1>1 DEF Frame
<1>6. t[n].kind \in Container /\ Len(f.kids) < Len(t[n].kids)
  BY <1>2 DEF InProgress
<1>7. /\ Len(t[n].kids) \in Nat /\ W.en[n] \in Nat
      /\ Has(toks, W.en[n], CloseTok(t[n]))
      /\ W.en[n] = Edge(t[n], W.ord[n], W, n, Len(t[n].kids) + 1) + 1
      /\ \A j \in 1 .. Len(t[n].kids) :
           /\ Kid(t[n], W.ord[n], j) \in W.done
           /\ W.en[Kid(t[n], W.ord[n], j)] < W.en[n]
           /\ Joined(t[n], W.ord[n], W, toks, n, j)
  BY <1>2, <1>6, PlacedKids
<1>8. i \in 1 .. Len(t[n].kids)
  BY <1>5, <1>6, <1>7
<1>9. Awaits(t, W, toks, c, f, Ahead(mode), n, i)
  BY <1>2, <1>4, <1>5, <1>6, <1>7, <1>8 DEF Awaits
<1> QED
  BY <1>3, <1>9 DEF f, n, TopNode, TopNext

\* Where the separator before the next child, its name and its text are.
LEMMA NextPlaces ==
  ASSUME NEW t, NEW W, NEW toks, NEW c, NEW f, NEW ahead, NEW n, NEW i,
         Awaits(t, W, toks, c, f, ahead, n, i), Written(t, toks, W)
  PROVE  /\ Edge(t[n], W.ord[n], W, n, i) \in Nat
         /\ Behind(Edge(t[n], W.ord[n], W, n, i), i) \in Nat
         /\ Behind(Edge(t[n], W.ord[n], W, n, i), i) <= W.st[Kid(t[n], W.ord[n], i)]
         /\ W.st[Kid(t[n], W.ord[n], i)] \in Nat
<1> DEFINE e == Edge(t[n], W.ord[n], W, n, i)
           b == Behind(e, i)
<1>1. /\ i \in 1 .. Len(t[n].kids) /\ Len(t[n].kids) \in Nat /\ n \in W.done
      /\ \A j \in 1 .. Len(t[n].kids) :
           /\ Kid(t[n], W.ord[n], j) \in W.done
           /\ Joined(t[n], W.ord[n], W, toks, n, j)
  BY DEF Awaits
<1>2. \A m \in W.done : W.st[m] \in Nat /\ W.en[m] \in Nat
  BY DEF Written, Placed
<1>3. e \in Nat
  <2>1. CASE i = 1
    BY <1>1, <1>2, <2>1 DEF Edge
  <2>2. CASE i # 1
    <3>1. i - 1 \in 1 .. Len(t[n].kids)
      BY <1>1, <2>2
    <3> QED
      BY <1>1, <1>2, <2>2, <3>1 DEF Edge
  <2> QED
    BY <2>1, <2>2
<1>4. Joined(t[n], W.ord[n], W, toks, n, i)
  BY <1>1
<1>5. W.st[Kid(t[n], W.ord[n], i)] = b \/ W.st[Kid(t[n], W.ord[n], i)] = b + 2
  BY <1>4 DEF Joined
<1> HIDE DEF e
<1>6. b \in Nat
  BY <1>3 DEF Behind
<1> QED
  BY <1>3, <1>5, <1>6 DEF e

\* The innermost open container changes, and nothing else that was read.
LEMMA TraceTop ==
  ASSUME NEW t, NEW lv, NEW W, NEW c, NEW g, NEW ns, NEW st \in Seq(Frame),
         NEW p, NEW mode, Tracing(t, lv, W, c, g, ns, st, p, mode), Len(st) # 0,
         NEW st2, Len(st2) = Len(st), \A k \in 1 .. Len(st) - 1 : st2[k] = st[k],
         NEW mode2, InProgress(st2[Len(st)], Ahead(mode2), t[g[Len(st)]], W.ord[g[Len(st)]], c)
  PROVE  OpenTraced(t, lv, W, c, g, st2, mode2)
<1> SUFFICES ASSUME NEW k \in 1 .. Len(st)
             PROVE  /\ g[k] \in W.done /\ lv[g[k]] = k - 1
                    /\ InProgress(st2[k], Keyed(st2, mode2, k), t[g[k]], W.ord[g[k]], c)
                    /\ g[k] = Opened(t, W, st2, g, k)
                    /\ \A j \in 1 .. k - 1 : W.en[g[k]] < W.en[g[j]]
  BY DEF OpenTraced
<1>1. Len(st) \in Nat /\ k \in Nat
  OBVIOUS
<1>2. /\ g[k] \in W.done /\ lv[g[k]] = k - 1
      /\ InProgress(st[k], Keyed(st, mode, k), t[g[k]], W.ord[g[k]], c)
      /\ g[k] = Opened(t, W, st, g, k)
      /\ \A j \in 1 .. k - 1 : W.en[g[k]] < W.en[g[j]]
  BY DEF Tracing, NodesTraced, OpenTraced
<1>3. Opened(t, W, st2, g, k) = Opened(t, W, st, g, k)
  <2>1. k # 1 => k - 1 \in 1 .. Len(st) - 1
    BY <1>1
  <2> QED
    BY <2>1 DEF Opened
<1>4. InProgress(st2[k], Keyed(st2, mode2, k), t[g[k]], W.ord[g[k]], c)
  <2>1. CASE k = Len(st)
    <3>1. Keyed(st2, mode2, k) = Ahead(mode2)
      BY <1>1, <2>1 DEF Keyed
    <3> QED
      BY <2>1, <3>1
  <2>2. CASE k # Len(st)
    <3>1. k \in 1 .. Len(st) - 1 /\ k < Len(st)
      BY <1>1, <2>2
    <3>2. st2[k] = st[k] /\ Keyed(st2, mode2, k) = 1 /\ Keyed(st, mode, k) = 1
      BY <3>1 DEF Keyed
    <3> QED
      BY <1>2, <3>2
  <2> QED
    BY <2>1, <2>2
<1> QED
  BY <1>2, <1>3, <1>4

\* The parser moves on without a new value.
LEMMA TraceNodes ==
  ASSUME NEW t, NEW lv, NEW toks, NEW W, Written(t, toks, W), NEW c, NEW g, NEW ns, NEW st,
         NEW p \in Nat, NEW mode, Tracing(t, lv, W, c, g, ns, st, p, mode),
         NEW p2 \in Nat, p <= p2
  PROVE  NodesTraced(t, W, c, ns, p2)
<1>1. \A i \in 1 .. Len(ns) : W.en[c[i]] <= p /\ W.en[c[i]] \in Nat
  BY DEF Tracing, NodesTraced, OpenTraced, Written, Placed
<1> QED
  BY <1>1 DEF Tracing, NodesTraced, OpenTraced

\* The key of the next member is read.
LEMMA KeyRead ==
  ASSUME NEW q, NEW order, NEW c, NEW f, InProgress(f, 0, q, order, c), Len(f.kids) \in Nat,
         NEW f2, f2.kind = f.kind, f2.keys = f.keys, f2.kids = f.kids,
         f2.seen = f.seen \cup {f2.key},
         KeyText[f2.key] = q.keys[order[Len(f.kids) + 1]]
  PROVE  InProgress(f2, 1, q, order, c)
<1>1. Follows(f2, q, order, c)
  BY DEF InProgress, Follows
<1>2. ASSUME q.kind = "object", NEW key \in f2.seen
      PROVE  \E j \in 1 .. Len(f2.kids) + 1 : KeyText[key] = q.keys[order[j]]
  <2>1. CASE key \in f.seen
    <3>1. PICK j \in 1 .. Len(f.kids) + 0 : KeyText[key] = q.keys[order[j]]
      BY <1>2, <2>1 DEF InProgress
    <3>2. j \in 1 .. Len(f2.kids) + 1
      OBVIOUS
    <3> QED
      BY <3>1, <3>2
  <2>2. CASE key = f2.key
    <3>1. Len(f.kids) + 1 \in 1 .. Len(f2.kids) + 1
      OBVIOUS
    <3> QED
      BY <2>2, <3>1
  <2> QED
    BY <1>2, <2>1, <2>2
<1> QED
  BY <1>1, <1>2 DEF InProgress

LEMMA TraceKey ==
  ASSUME NEW t, NEW lo, NEW lv, Sound(t, lo, lv), NEW toks, NEW W, Written(t, toks, W),
         NEW c, NEW g, NEW ns, NEW st \in Seq(Frame), NEW p \in Nat,
         Tracing(t, lv, W, c, g, ns, st, p, "key"), Len(st) # 0,
         NEW st2, Len(st2) = Len(st), \A k \in 1 .. Len(st) - 1 : st2[k] = st[k],
         InProgress(st2[Len(st)], 1, t[TopNode(st, g)], W.ord[TopNode(st, g)], c),
         st2[Len(st)].kids = st[Len(st)].kids
  PROVE  Tracing(t, lv, W, c, g, ns, st2, W.st[Target(t, W, st, g)], "value")
<1> DEFINE x == Target(t, W, st, g)
           n == TopNode(st, g)
           i == TopNext(st)
           p2 == W.st[x]
<1>1. /\ Awaits(t, W, toks, c, st[Len(st)], Ahead("key"), n, i)
      /\ x = Kid(t[n], W.ord[n], i)
  BY TopTraced
<1>2. p = Behind(Edge(t[n], W.ord[n], W, n, i), i)
  BY DEF Tracing, NodesTraced, OpenTraced, TopNode, TopNext
<1> HIDE DEF x, n, i
<1>3. p2 \in Nat /\ p <= p2
  BY <1>1, <1>2, NextPlaces
<1>4. OpenTraced(t, lv, W, c, g, st2, "value")
  <2>1. Ahead("value") = 1
    BY DEF Ahead
  <2> QED
    BY <2>1, TraceTop DEF TopNode
<1> HIDE DEF p2
<1>5. NodesTraced(t, W, c, ns, p2)
  BY <1>3, TraceNodes
<1>6. Target(t, W, st2, g) = x
  BY DEF Target, NextKid, x
<1> QED
  BY <1>4, <1>5, <1>6 DEF Tracing, x, p2

\* The member whose value was just returned has a key.
HasKey(f) == f.kind = "object" => Len(f.keys) = Len(f.kids) /\ f.key \in Keys

\* A container with the value that its call returned.
LEMMA AdoptFollows ==
  ASSUME NEW f \in Frame, NEW q, NEW order, NEW c, InProgress(f, 1, q, order, c),
         HasKey(f),
         NEW N \in Nat, N \in DOMAIN c, c[N] = Kid(q, order, Len(f.kids) + 1),
         NEW f2, f2.kids = Append(f.kids, N),
         f2.keys = (IF f.kind = "object" THEN Append(f.keys, f.key) ELSE f.keys)
  PROVE  /\ Len(f.kids) \in Nat /\ Len(f2.kids) = Len(f.kids) + 1
         /\ Follows(f2, q, order, c)
<1> DEFINE m == Len(f.kids)
<1>1. /\ m \in Nat /\ Len(f2.kids) = m + 1 /\ f2.kids[m + 1] = N
      /\ \A i \in 1 .. m : f2.kids[i] = f.kids[i]
  BY AppendProperties DEF Frame
<1>2. ASSUME f.kind = "object"
      PROVE  f2.keys[m + 1] = f.key /\ \A i \in 1 .. m : f2.keys[i] = f.keys[i]
  BY <1>2, AppendProperties DEF Frame, HasKey
<1>3. /\ f.kind = q.kind /\ Follows(f, q, order, c)
      /\ q.kind = "object" => KeyText[f.key] = q.keys[order[m + 1]]
  BY DEF InProgress
<1> HIDE DEF m
<1>4. ASSUME NEW i \in 1 .. m + 1
      PROVE  /\ f2.kids[i] \in DOMAIN c /\ c[f2.kids[i]] = Kid(q, order, i)
             /\ q.kind = "object" => KeyText[f2.keys[i]] = q.keys[order[i]]
  <2>1. CASE i \in 1 .. m
    <3>1. /\ f.kids[i] \in DOMAIN c /\ c[f.kids[i]] = Kid(q, order, i)
          /\ q.kind = "object" => KeyText[f.keys[i]] = q.keys[order[i]]
      BY <1>3, <2>1 DEF Follows, m
    <3> QED
      BY <1>1, <1>2, <1>3, <2>1, <3>1
  <2>2. CASE i = m + 1
    BY <1>1, <1>2, <1>3, <2>2 DEF m
  <2>3. i \in 1 .. m \/ i = m + 1
    BY <1>1
  <2> QED
    BY <2>1, <2>2, <2>3
<1>5. Follows(f2, q, order, c)
  BY <1>1, <1>4 DEF Follows
<1> QED
  BY <1>1, <1>5 DEF m

\* f2 is f with the value just returned, the last of N.
Adopted(f2, f, N) ==
  /\ f2.kind = f.kind /\ f2.seen = f.seen
  /\ f2.kids = Append(f.kids, N)
  /\ f2.keys = IF f.kind = "object" THEN Append(f.keys, f.key) ELSE f.keys

\* Where the parser goes on behind a comma.
Between(f) == IF f.kind = "object" THEN "key" ELSE "value"

\* A container that has got its next child, with more to come.
LEMMA AdoptProgress ==
  ASSUME NEW t, NEW W, NEW toks, NEW c, NEW f \in Frame, NEW n, NEW i,
         Awaits(t, W, toks, c, f, 1, n, i), i < Len(t[n].kids),
         HasKey(f),
         NEW N \in Nat, N \in DOMAIN c, c[N] = Kid(t[n], W.ord[n], i),
         NEW f2, Adopted(f2, f, N)
  PROVE  /\ InProgress(f2, Ahead(Between(f)), t[n], W.ord[n], c)
         /\ Len(f2.kids) = i
<1> DEFINE ahead == Ahead(Between(f))
<1>0. f.kind = "object" => ahead = 0
  BY DEF Ahead, Between
<1> HIDE DEF ahead
<1>1. /\ InProgress(f, 1, t[n], W.ord[n], c) /\ i = Len(f.kids) + 1
      /\ Len(f.kids) \in Nat
  BY DEF Awaits
<1>2. /\ f2.kids = Append(f.kids, N) /\ f2.kind = f.kind /\ f2.seen = f.seen
      /\ f2.keys = (IF f.kind = "object" THEN Append(f.keys, f.key) ELSE f.keys)
  BY DEF Adopted
<1>3. Len(f2.kids) = Len(f.kids) + 1 /\ Follows(f2, t[n], W.ord[n], c)
  BY <1>1, <1>2, AdoptFollows
<1>4. ASSUME t[n].kind = "object", NEW key \in f2.seen
      PROVE  \E j \in 1 .. Len(f2.kids) + ahead : KeyText[key] = t[n].keys[W.ord[n][j]]
  <2>1. PICK j \in 1 .. Len(f.kids) + 1 : KeyText[key] = t[n].keys[W.ord[n][j]]
    BY <1>1, <1>2, <1>4 DEF InProgress
  <2>2. j \in 1 .. Len(f2.kids) + 0 /\ ahead = 0
    BY <1>0, <1>1, <1>3, <1>4 DEF InProgress
  <2> QED
    BY <2>1, <2>2
<1>5. f2.kind = t[n].kind /\ t[n].kind \in Container /\ Len(f2.kids) < Len(t[n].kids)
  BY <1>1, <1>2, <1>3 DEF InProgress
<1>6. t[n].kind = "object" => ahead # 1
  BY <1>0, <1>2, <1>5
<1> QED
  BY <1>1, <1>3, <1>4, <1>5, <1>6 DEF InProgress, ahead

\* The value returned is not the last of its container.
LEMMA TraceAdopt ==
  ASSUME NEW t, NEW lo, NEW lv, Sound(t, lo, lv), NEW toks, NEW W, Written(t, toks, W),
         NEW c, NEW g, NEW ns, NEW st \in Seq(Frame), NEW p \in Nat, Len(ns) \in Nat,
         Tracing(t, lv, W, c, g, ns, st, p, "return"), Len(st) # 0,
         TopNext(st) < Len(t[TopNode(st, g)].kids),
         HasKey(st[Len(st)]),
         NEW st2, Len(st2) = Len(st), \A k \in 1 .. Len(st) - 1 : st2[k] = st[k],
         Adopted(st2[Len(st)], st[Len(st)], Len(ns))
  PROVE  /\ Has(toks, p + 1, S!Tok("comma"))
         /\ Tracing(t, lv, W, c, g, ns, st2, p + 1, Between(st[Len(st)]))
<1> DEFINE n == TopNode(st, g)
           i == TopNext(st)
           f == st[Len(st)]
           f2 == st2[Len(st)]
           N == Len(ns)
           mode == Between(f)
<1>1. /\ Awaits(t, W, toks, c, f, 1, n, i) /\ Target(t, W, st, g) = Kid(t[n], W.ord[n], i)
  <2>1. Ahead("return") = 1
    BY DEF Ahead
  <2> QED
    BY <2>1, TopTraced
<1>2. /\ N \in DOMAIN c /\ c[N] = Kid(t[n], W.ord[n], i) /\ p = W.en[Kid(t[n], W.ord[n], i)]
  <2>1. Len(ns) # 0 /\ c[N] = Target(t, W, st, g) /\ p = W.en[c[N]] /\ DOMAIN c = 1 .. N
    BY DEF Tracing, NodesTraced
  <2> QED
    BY <1>1, <2>1
<1>3. f \in Frame
  OBVIOUS
<1>4. Adopted(f2, f, N) /\ HasKey(f)
      /\ i < Len(t[n].kids)
  OBVIOUS
<1>5. f.kind = t[n].kind /\ i \in 1 .. Len(t[n].kids) /\ Len(t[n].kids) \in Nat
  BY <1>1 DEF Awaits, InProgress
<1>6. mode = (IF t[n].kind = "object" THEN "key" ELSE "value")
  BY <1>5 DEF Between
<1> HIDE DEF n, i, f, f2, N, mode
<1>7. InProgress(f2, Ahead(mode), t[n], W.ord[n], c) /\ Len(f2.kids) = i
  <2>2. N \in Nat
    BY DEF N
  <2> QED
    BY <1>1, <1>2, <1>3, <1>4, <2>2, AdoptProgress DEF mode
<1>8. OpenTraced(t, lv, W, c, g, st2, mode)
  BY <1>7, TraceTop DEF n, TopNode, f2
<1>9. NodesTraced(t, W, c, ns, p + 1)
  <2>1. p + 1 \in Nat /\ p <= p + 1
    OBVIOUS
  <2> QED
    BY <2>1, TraceNodes
<1>10. /\ i + 1 \in 1 .. Len(t[n].kids) /\ i + 1 # 1 /\ (i + 1) - 1 = i
  BY <1>4, <1>5
<1>11. Joined(t[n], W.ord[n], W, toks, n, i + 1)
  BY <1>1, <1>10 DEF Awaits
<1>12. Edge(t[n], W.ord[n], W, n, i + 1) = p /\ Behind(p, i + 1) = p + 1
  BY <1>2, <1>10 DEF Edge, Behind
<1>13. Has(toks, p + 1, S!Tok("comma"))
  BY <1>10, <1>11, <1>12 DEF Joined
<1>14. g[Len(st2)] = n /\ Len(st2[Len(st2)].kids) + 1 = i + 1 /\ Len(st2) # 0
  BY <1>7 DEF n, TopNode, f2
<1>15. CASE t[n].kind = "object"
  <2>1. mode = "key" /\ mode # "value" /\ mode # "return"
    BY <1>6, <1>15
  <2> QED
    BY <1>8, <1>9, <1>12, <1>13, <1>14, <2>1 DEF Tracing, mode, f
<1>16. CASE t[n].kind # "object"
  <2>1. mode = "value" /\ mode # "key" /\ mode # "return"
    BY <1>6, <1>16
  <2>2. W.st[Kid(t[n], W.ord[n], i + 1)] = p + 1
    BY <1>11, <1>12, <1>16 DEF Joined
  <2>3. Target(t, W, st2, g) = Kid(t[n], W.ord[n], i + 1)
    BY <1>14 DEF Target, NextKid
  <2> QED
    BY <1>8, <1>9, <1>13, <2>1, <2>2, <2>3 DEF Tracing, mode, f
<1> QED
  BY <1>15, <1>16

\* The value returned is the last of its container, which is returned in turn.
LEMMA TraceLeave ==
  ASSUME NEW t, NEW lo, NEW lv, Sound(t, lo, lv), NEW toks, NEW W, Written(t, toks, W),
         NEW c, NEW g, NEW ns, NEW st \in Seq(Frame), NEW p \in Nat,
         Tracing(t, lv, W, c, g, ns, st, p, "return"), Len(st) # 0,
         TopNext(st) = Len(t[TopNode(st, g)].kids),
         HasKey(st[Len(st)]),
         NEW st2, Len(st2) = Len(st) - 1, \A k \in 1 .. Len(st) - 1 : st2[k] = st[k],
         NEW f2, Adopted(f2, st[Len(st)], Len(ns)),
         NEW more, OneMore(more, ns), more[Len(ns) + 1] = Closed(f2)
  PROVE  /\ Has(toks, p + 1, CloseTok(st[Len(st)]))
         /\ \E c2 : Tracing(t, lv, W, c2, g, more, st2, p + 1, "return")
<1> DEFINE n == TopNode(st, g)
           i == TopNext(st)
           f == st[Len(st)]
           N == Len(ns)
           c2 == With(c, N + 1, n)
<1>1. /\ Awaits(t, W, toks, c, f, 1, n, i) /\ Target(t, W, st, g) = Kid(t[n], W.ord[n], i)
  <2>1. Ahead("return") = 1
    BY DEF Ahead
  <2> QED
    BY <2>1, TopTraced
<1>2. /\ N \in Nat /\ Len(more) = N + 1 /\ \A k \in 1 .. N : more[k] = ns[k]
      /\ more[N + 1] = Closed(f2)
  BY DEF OneMore
<1>3. /\ N \in DOMAIN c /\ c[N] = Kid(t[n], W.ord[n], i) /\ p = W.en[Kid(t[n], W.ord[n], i)]
      /\ DOMAIN c = 1 .. N
  <2>1. Len(ns) # 0 /\ c[N] = Target(t, W, st, g) /\ p = W.en[c[N]] /\ DOMAIN c = 1 .. N
    BY DEF Tracing, NodesTraced
  <2> QED
    BY <1>1, <1>2, <2>1
<1>4. f \in Frame /\ Len(st) \in Nat /\ Len(st) \in 1 .. Len(st)
  OBVIOUS
<1>5. Adopted(f2, f, N) /\ HasKey(f)
      /\ i = Len(t[n].kids)
  OBVIOUS
<1>6. /\ n \in W.done /\ g[Len(st)] = n
      /\ \A k \in 1 .. Len(st) - 1 : W.en[n] < W.en[g[k]]
      /\ n = Opened(t, W, st, g, Len(st))
  BY <1>4 DEF Tracing, OpenTraced, TopNode
<1>7. /\ DOMAIN c = 1 .. N
      /\ \A k \in 1 .. N :
           /\ c[k] \in W.done /\ Copied(ns[k], t[c[k]], W.ord[c[k]], c)
           /\ W.en[c[k]] <= p /\ W.en[c[k]] \in Nat
           /\ \A j \in 1 .. N : c[k] = c[j] => k = j
  BY DEF Tracing, NodesTraced, Written, Placed
<1> HIDE DEF n, i, f, N, c2
<1>8. /\ f.kind = t[n].kind /\ t[n].kind \in Container /\ i \in 1 .. Len(t[n].kids)
      /\ Len(t[n].kids) \in Nat /\ i = Len(f.kids) + 1 /\ W.en[n] \in Nat
      /\ Has(toks, W.en[n], CloseTok(t[n]))
      /\ W.en[n] = Edge(t[n], W.ord[n], W, n, Len(t[n].kids) + 1) + 1
      /\ InProgress(f, 1, t[n], W.ord[n], c)
  BY <1>1 DEF Awaits, InProgress
<1>9. W.en[n] = p + 1
  <2>1. i + 1 # 1 /\ (i + 1) - 1 = i
    BY <1>8
  <2>2. Edge(t[n], W.ord[n], W, n, i + 1) = p
    BY <1>3, <2>1 DEF Edge
  <2> QED
    BY <1>5, <1>8, <2>2
<1>10. Has(toks, p + 1, CloseTok(f))
  BY <1>8, <1>9 DEF CloseTok
<1>11. Copied(more[N + 1], t[n], W.ord[n], c)
  <2>1. /\ f2.kids = Append(f.kids, N) /\ f2.kind = f.kind
        /\ f2.keys = (IF f.kind = "object" THEN Append(f.keys, f.key) ELSE f.keys)
    BY <1>5 DEF Adopted
  <2>2. Len(f2.kids) = i /\ Follows(f2, t[n], W.ord[n], c)
    <3>1. c[N] = Kid(t[n], W.ord[n], Len(f.kids) + 1)
      BY <1>3, <1>8
    <3>2. Len(f2.kids) = Len(f.kids) + 1 /\ Follows(f2, t[n], W.ord[n], c)
      BY <1>2, <1>3, <1>4, <1>5, <1>8, <2>1, <3>1, AdoptFollows, SMTT(30)
    <3> QED
      BY <1>8, <3>2
  <2>3. more[N + 1].kids = f2.kids /\ more[N + 1].keys = f2.keys /\ more[N + 1].kind = f2.kind
    <3>1. Closed(f2).kids = f2.kids /\ Closed(f2).keys = f2.keys /\ Closed(f2).kind = f2.kind
      BY DEF Closed
    <3> QED
      BY <1>2, <3>1
  <2>4. Follows(more[N + 1], t[n], W.ord[n], c)
    BY <2>2, <2>3 DEF Follows
  <2> QED
    BY <1>5, <1>8, <2>1, <2>2, <2>3, <2>4 DEF Copied
<1>12. /\ DOMAIN c2 = 1 .. N + 1 /\ c2[N + 1] = n /\ \A k \in 1 .. N : c2[k] = c[k]
       /\ \A r, q, order : Copied(r, q, order, c) => Copied(r, q, order, c2)
       /\ \A h, ahead, q, order :
            InProgress(h, ahead, q, order, c) => InProgress(h, ahead, q, order, c2)
  BY <1>2, <1>7, FollowsMore DEF c2
<1>13. ASSUME NEW k \in 1 .. N + 1
       PROVE  /\ c2[k] \in W.done /\ Copied(more[k], t[c2[k]], W.ord[c2[k]], c2)
              /\ W.en[c2[k]] <= p + 1
              /\ \A j \in 1 .. N + 1 : c2[k] = c2[j] => k = j
  <2>1. \A j \in 1 .. N + 1 : j \in 1 .. N \/ j = N + 1
    BY <1>2
  <2>2. \A j \in 1 .. N : c2[j] # n /\ c2[j] = c[j] /\ W.en[c2[j]] <= p + 1
    BY <1>7, <1>9, <1>12
  <2>3. CASE k \in 1 .. N
    <3>1. c2[k] \in W.done /\ Copied(more[k], t[c2[k]], W.ord[c2[k]], c2)
      BY <1>2, <1>7, <1>12, <2>3
    <3>2. \A j \in 1 .. N + 1 : c2[k] = c2[j] => k = j
      BY <1>7, <1>12, <2>1, <2>2, <2>3
    <3> QED
      BY <2>2, <2>3, <3>1, <3>2
  <2>4. CASE k = N + 1
    <3>1. \A j \in 1 .. N + 1 : c2[k] = c2[j] => k = j
      BY <1>12, <2>1, <2>2, <2>4
    <3>2. c2[k] = n /\ Copied(more[k], t[n], W.ord[n], c2) /\ W.en[n] <= p + 1
      BY <1>9, <1>11, <1>12, <2>4
    <3> QED
      BY <1>6, <3>1, <3>2
  <2> QED
    BY <2>1, <2>3, <2>4
<1>14. OpenTraced(t, lv, W, c2, g, st2, "return")
  <2> SUFFICES ASSUME NEW k \in 1 .. Len(st) - 1
               PROVE  /\ g[k] \in W.done /\ lv[g[k]] = k - 1
                      /\ InProgress(st2[k], Keyed(st2, "return", k), t[g[k]], W.ord[g[k]], c2)
                      /\ g[k] = Opened(t, W, st2, g, k)
                      /\ \A j \in 1 .. k - 1 : W.en[g[k]] < W.en[g[j]]
    BY DEF OpenTraced
  <2>1. k \in 1 .. Len(st) /\ st2[k] = st[k] /\ k < Len(st)
    BY <1>4
  <2>2. Keyed(st2, "return", k) = 1 /\ Keyed(st, "return", k) = 1
    BY <2>1 DEF Keyed, Ahead
  <2>3. /\ g[k] \in W.done /\ lv[g[k]] = k - 1
        /\ InProgress(st[k], Keyed(st, "return", k), t[g[k]], W.ord[g[k]], c)
        /\ g[k] = Opened(t, W, st, g, k)
        /\ \A j \in 1 .. k - 1 : W.en[g[k]] < W.en[g[j]]
    BY <2>1 DEF Tracing, OpenTraced
  <2>4. Opened(t, W, st2, g, k) = Opened(t, W, st, g, k)
    <3>1. k # 1 => k - 1 \in 1 .. Len(st) - 1
      BY <1>4
    <3> QED
      BY <3>1 DEF Opened
  <2> QED
    BY <1>12, <2>1, <2>2, <2>3, <2>4
<1>15. n = Target(t, W, st2, g)
  <2>1. CASE Len(st) = 1
    BY <1>6, <2>1 DEF Opened, Target
  <2>2. CASE Len(st) # 1
    <3>1. Len(st2) # 0 /\ Len(st2) = Len(st) - 1 /\ st2[Len(st) - 1] = st[Len(st) - 1]
      BY <1>4, <2>2
    <3> QED
      BY <1>6, <2>2, <3>1 DEF Opened, Target
  <2> QED
    BY <2>1, <2>2
<1>16. NodesTraced(t, W, c2, more, p + 1)
  BY <1>2, <1>12, <1>13 DEF NodesTraced
<1>17. Tracing(t, lv, W, c2, g, more, st2, p + 1, "return")
  <2>1. Len(more) # 0 /\ c2[Len(more)] = n
    BY <1>2, <1>12
  <2> QED
    BY <1>9, <1>14, <1>15, <1>16, <2>1 DEF Tracing
<1> QED
  BY <1>10, <1>17 DEF f

LEMMA InputKept == Next => UNCHANGED input
BY DEF Next, RejectOversize, RejectInvalidUTF8, Begin, RejectValueCount, ParseLeaf,
       RejectLeaf, RejectNonValue, RejectDepth, EnterObject, EnterArray, Enter, ValueAt,
       CountValue, RejectNonKey, RejectKey, RejectDuplicate, RejectNoColon, ParseKey,
       ReadKey, RejectChild, ResumeObject, ResumeArray, Resume, ReturnTo, Returning,
       Finish, Stop, Unwind, newError, Leave, Complete, vars

\* The nodes were made of all of t.
ReadBack(t, W, ns) ==
  \E c, p : NodesTraced(t, W, c, ns, p) /\ Len(ns) # 0 /\ c[Len(ns)] = Len(t)

\* The parser makes of the canonical text what the text was made of, and nothing
\* but its size or that of a number in it can be in the way.
Following(t, lv, W) ==
  /\ pc = "start" => nodes = <<>> /\ pos = 0
  /\ pc \in {"value", "key", "return"} =>
       \E c, g : Tracing(t, lv, W, c, g, nodes, stack, pos, pc)
  /\ pc = "done" =>
       IF outcome = Accepted THEN ReadBack(t, W, nodes)
       ELSE /\ outcome.class = "BOUND_EXCEEDED"
            /\ \/ Size(input) > maxInputSize /\ outcome.offset = 0
               \/ Size(input) <= maxInputSize /\ TooLong(peek(outcome.offset))

\* What is parsed is within the limit on inputs.
Admitted == pc \in {"value", "key", "return"} => Size(input) <= maxInputSize

LEMMA AdmittedNext ==
  ASSUME IInv, Admitted, Next
  PROVE  Admitted'
<1>1. UNCHANGED input
  BY InputKept
<1>2. CASE pc = "start"
  <2>1. pc' = "done" \/ Size(input) <= maxInputSize
    BY <1>2
    DEF Next, RejectOversize, RejectInvalidUTF8, Begin, Unwind, RejectValueCount, ParseLeaf,
        RejectLeaf, RejectNonValue, RejectDepth, EnterObject, EnterArray, Enter, ValueAt,
        CountValue, RejectNonKey, RejectKey, RejectDuplicate, RejectNoColon, ParseKey,
        ReadKey, RejectChild, ResumeObject, ResumeArray, Resume, ReturnTo, Returning,
        Finish, Stop
  <2> QED
    BY <1>1, <2>1 DEF Admitted, Size
<1>3. CASE pc = "done"
  <2>1. pc' = "done"
    BY <1>3
    DEF Next, RejectOversize, RejectInvalidUTF8, Begin, RejectValueCount, ParseLeaf,
        RejectLeaf, RejectNonValue, RejectDepth, EnterObject, EnterArray, Enter, ValueAt,
        CountValue, RejectNonKey, RejectKey, RejectDuplicate, RejectNoColon, ParseKey,
        ReadKey, RejectChild, ResumeObject, ResumeArray, Resume, ReturnTo, Returning,
        Finish, Stop, vars
  <2> QED
    BY <2>1 DEF Admitted
<1>4. CASE pc \in {"value", "key", "return"}
  BY <1>1, <1>4 DEF Admitted, Size
<1> QED
  BY <1>2, <1>3, <1>4 DEF IInv, TypeOK

LEMMA FollowStart ==
  ASSUME NEW t, NEW lo, NEW lv, Sound(t, lo, lv), NEW toks, NEW W, Written(t, toks, W),
         IInv, Reads(toks), Following(t, lv, W), pc = "start", Next
  PROVE  Following(t, lv, W)'
<1>1. /\ stack = <<>> /\ nodes = <<>> /\ pos = 0
      /\ Len(stack) = 0 /\ Len(nodes) = 0
  BY DEF IInv, ControlInv, Following
<1>2. Len(toks) \in Nat /\ Len(input) = Len(toks)
  BY ReadsLength
<1>3. CASE RejectOversize
  BY <1>3 DEF RejectOversize, Unwind, Following, Accepted
<1>4. CASE RejectInvalidUTF8
  <2>1. PICK bad \in 0 .. Len(input) - 1 : peek(bad) = "badutf8"
    BY <1>4 DEF RejectInvalidUTF8
  <2>2. bad \in Nat /\ bad <= Len(toks) /\ bad # Len(toks)
    BY <1>2
  <2>3. peek(bad) \in Structural \cup Strings \cup Scalars \cup BadScalars
    BY <2>2, NoWhitespace
  <2> QED
    BY <2>1, <2>3, LexemeAssumption DEF Structural
<1>5. CASE Begin
  <2>1. pos' = 0 /\ pc' = "value" /\ UNCHANGED <<nodes, stack>>
    <3>1. 0 \in Nat /\ 0 <= Len(toks)
      BY <1>2
    <3>2. skipWhitespace(0) = {0}
      BY <3>1, NoWhitespace
    <3> QED
      BY <1>1, <1>5, <3>2 DEF Begin
  <2>2. Target(t, W, <<>>, <<>>) = Len(t) /\ W.st[Len(t)] = 0
    BY DEF Target, Written
  <2>3. NodesTraced(t, W, <<>>, <<>>, 0)
    BY DEF NodesTraced
  <2>4. OpenTraced(t, lv, W, <<>>, <<>>, <<>>, "value")
    BY DEF OpenTraced
  <2>5. Tracing(t, lv, W, <<>>, <<>>, <<>>, <<>>, 0, "value")
    BY <2>2, <2>3, <2>4 DEF Tracing
  <2> QED
    BY <1>1, <2>1, <2>5 DEF Following
<1> QED
  BY <1>3, <1>4, <1>5
  DEF Next, RejectValueCount, ParseLeaf, RejectLeaf, RejectNonValue, RejectDepth,
      EnterObject, EnterArray, Enter, ValueAt, CountValue, RejectNonKey, RejectKey,
      RejectDuplicate, RejectNoColon, ParseKey, ReadKey, RejectChild, ResumeObject,
      ResumeArray, Resume, ReturnTo, Returning, Finish, Stop

\* A leaf of the canonical text is read.
LEMMA FollowLeaf ==
  ASSUME NEW t, NEW lo, NEW lv, Sound(t, lo, lv), NEW toks, NEW W, Written(t, toks, W),
         IInv, Reads(toks), NEW c, NEW g, Tracing(t, lv, W, c, g, nodes, stack, pos, "value"),
         NEW x \in W.done, x = Target(t, W, stack, g), pos = W.st[x],
         t[x].kind \notin Container, ParseLeaf
  PROVE  Following(t, lv, W)'
<1>1. /\ peek(pos) \in Scalars \cup Strings /\ W.en[x] = pos + 1
      /\ Copied(Leaf(peek(pos)), t[x], W.ord[x], c)
  <2>1. peek(pos) \in Scalars \cup Strings
    BY DEF ParseLeaf, ValueAt
  <2>2. ~TooLong(peek(pos))
    BY <2>1, LexemeAssumption DEF TooLong
  <2> QED
    BY <2>2, ValueLexeme
<1>2. Leaf(peek(pos)) \in Node
  BY <1>1, LeafInv
<1>3. Complete(Leaf(peek(pos)), pos + 1) /\ stack' = stack
  BY DEF ParseLeaf
<1>4. OneMore(nodes', nodes) /\ nodes'[Len(nodes) + 1] = Leaf(peek(pos))
  BY <1>2, <1>3, CompleteAdds
<1>5. stack \in Seq(Frame) /\ pos \in Nat
  BY DEF IInv, TypeOK
<1>6. Tracing(t, lv, W, With(c, Len(nodes) + 1, x), g, nodes', stack, W.en[x], "return")
  BY <1>1, <1>4, <1>5, TraceComplete
<1>7. pc' = "return" /\ pos' = W.en[x]
  BY <1>1, <1>3 DEF Complete
<1> QED
  BY <1>3, <1>6, <1>7 DEF Following

\* What comes behind the opening of a container.
LEMMA BehindOpening ==
  ASSUME NEW t, NEW lo, NEW lv, Sound(t, lo, lv), NEW toks, NEW W, Written(t, toks, W),
         IInv, Reads(toks), NEW x \in W.done, t[x].kind \in Container
  PROVE  /\ W.st[x] + 1 \in Nat /\ skipWhitespace(W.st[x] + 1) = {W.st[x] + 1}
         /\ IF Len(t[x].kids) = 0
              THEN peek(W.st[x] + 1) = Closer(t[x].kind) /\ W.en[x] = W.st[x] + 2
              ELSE peek(W.st[x] + 1) \notin {"eof", Closer(t[x].kind)}
<1> DEFINE r == t[x]
           p == W.st[x] + 1
<1>1. /\ Len(r.kids) \in Nat /\ W.st[x] \in Nat /\ W.en[x] \in Nat
      /\ Has(toks, p, OpenTok(r)) /\ Has(toks, W.en[x], CloseTok(r))
      /\ W.en[x] = Edge(r, W.ord[x], W, x, Len(r.kids) + 1) + 1
      /\ \A i \in 1 .. Len(r.kids) :
           /\ W.ord[x][i] \in 1 .. Len(r.kids)
           /\ Kid(r, W.ord[x], i) \in W.done /\ Joined(r, W.ord[x], W, toks, x, i)
  BY PlacedKids
<1>2. x \in 1 .. Len(t) /\ Valid(r)
  BY DEF Written, Sound
<1> HIDE DEF r
<1>3. p \in Nat /\ p <= Len(toks) /\ Len(toks) \in Nat
  BY <1>1, ReadsLength DEF Has
<1>4. skipWhitespace(p) = {p}
  BY <1>3, NoWhitespace
<1>5. CASE Len(r.kids) = 0
  <2>1. W.en[x] = p + 1
    BY <1>1, <1>5 DEF Edge
  <2>2. Has(toks, p + 1, S!Tok(Closer(r.kind))) /\ Closer(r.kind) \in Structural
    BY <1>1, <2>1 DEF CloseTok, Closer, Structural
  <2>3. peek(p) = Closer(r.kind)
    BY <1>3, <2>2, PeekStructural
  <2>4. W.en[x] = W.st[x] + 2
    BY <1>1, <2>1
  <2> QED
    BY <1>3, <1>4, <1>5, <2>3, <2>4 DEF r
<1>6. CASE Len(r.kids) # 0
  <2>1. 1 \in 1 .. Len(r.kids)
    BY <1>1, <1>6
  <2>2. Joined(r, W.ord[x], W, toks, x, 1) /\ Kid(r, W.ord[x], 1) \in W.done
    BY <1>1, <2>1
  <2>3. Edge(r, W.ord[x], W, x, 1) = p /\ Behind(p, 1) = p
    BY DEF Edge, Behind
  <2>4. CASE r.kind = "object"
    <3>1. Has(toks, p + 1, S!Str(r.keys[W.ord[x][1]]))
      BY <2>2, <2>3, <2>4 DEF Joined
    <3>2. PICK k \in Keys : r.keys[W.ord[x][1]] = KeyText[k]
      BY <1>1, <1>2, <2>1, <2>4 DEF Valid
    <3>3. peek(p) \in Strings
      BY <1>3, <3>1, <3>2, PeekKey
    <3>4. peek(p) \notin {"eof", "rbrace"}
      BY <3>3, LexemeAssumption DEF Structural
    <3> QED
      BY <1>3, <1>4, <1>6, <2>4, <3>4 DEF r, Closer
  <2>5. CASE r.kind # "object"
    <3> DEFINE y == Kid(r, W.ord[x], 1)
    <3>1. W.st[y] = p
      BY <2>2, <2>3, <2>5 DEF Joined
    <3>2. y \in W.done
      BY <2>2
    <3> HIDE DEF y
    <3>3. peek(p) \in Scalars \cup Strings \cup BadScalars \cup {"lbrace", "lbrack"}
      <4>1. IF t[y].kind \in Container THEN peek(p) = Opener(t[y].kind)
            ELSE peek(p) \in Scalars \cup Strings \cup BadScalars
        BY <3>1, <3>2, ValueLexeme DEF TooLong
      <4> QED
        BY <4>1 DEF Opener
    <3>4. peek(p) \notin {"eof", "rbrack"}
      BY <3>3, LexemeAssumption DEF Structural
    <3> QED
      BY <1>3, <1>4, <1>6, <2>5, <3>4 DEF r, Closer
  <2> QED
    BY <2>4, <2>5
<1> QED
  BY <1>5, <1>6 DEF r

\* A container of the canonical text is entered.
LEMMA FollowEnter ==
  ASSUME NEW t, NEW lo, NEW lv, Sound(t, lo, lv), NEW toks, NEW W, Written(t, toks, W),
         IInv, Reads(toks), NEW c, NEW g, Tracing(t, lv, W, c, g, nodes, stack, pos, "value"),
         NEW x \in W.done, x = Target(t, W, stack, g), pos = W.st[x],
         t[x].kind \in Container, NEW kind \in Container, Enter(kind)
  PROVE  Following(t, lv, W)'
<1> DEFINE f == NewFrame(kind)
<1>1. t[x].kind = kind
  <2>1. peek(pos) = Opener(t[x].kind)
    BY ValueLexeme
  <2>2. peek(pos) = Opener(kind)
    BY DEF Enter, ValueAt
  <2> QED
    BY <2>1, <2>2 DEF Opener, Container
<1>2. /\ pos + 1 \in Nat /\ skipWhitespace(pos + 1) = {pos + 1}
      /\ IF Len(t[x].kids) = 0 THEN peek(pos + 1) = Closer(kind) /\ W.en[x] = pos + 2
         ELSE peek(pos + 1) \notin {"eof", Closer(kind)}
  BY <1>1, BehindOpening
<1>3. Closer(kind) # "eof"
  BY DEF Closer
<1>4. PICK q \in skipWhitespace(pos + 1) :
        \/ peek(q) = "eof"
        \/ peek(q) = Closer(kind) /\ Complete(Closed(f), q + 1) /\ UNCHANGED <<depth, stack>>
        \/ /\ peek(q) \notin {"eof", Closer(kind)}
           /\ stack' = Append(stack, f)
           /\ pos' = q
           /\ pc' = IF kind = "object" THEN "key" ELSE "value"
           /\ UNCHANGED <<nodes, outcome>>
  BY DEF Enter
<1>5. q = pos + 1
  BY <1>2
<1>6. stack \in Seq(Frame) /\ pos \in Nat /\ f \in Frame /\ Closed(f) \in Node
  BY NewFrameInv DEF IInv, TypeOK
<1>7. CASE Len(t[x].kids) = 0
  <2>1. Complete(Closed(f), pos + 1 + 1) /\ UNCHANGED <<depth, stack>>
    BY <1>2, <1>3, <1>4, <1>5, <1>7
  <2>2. Copied(Closed(f), t[x], W.ord[x], c)
    <3>1. Closed(f).kind = kind /\ Closed(f).kids = <<>> /\ Len(Closed(f).kids) = 0
      BY DEF Closed, NewFrame
    <3>2. Follows(Closed(f), t[x], W.ord[x], c)
      BY <3>1 DEF Follows
    <3> QED
      BY <1>1, <1>7, <3>1, <3>2 DEF Copied
  <2> HIDE DEF f
  <2>3. OneMore(nodes', nodes) /\ nodes'[Len(nodes) + 1] = Closed(f)
    BY <1>6, <2>1, CompleteAdds
  <2>4. Tracing(t, lv, W, With(c, Len(nodes) + 1, x), g, nodes', stack, W.en[x], "return")
    BY <1>6, <2>2, <2>3, TraceComplete
  <2>5. pc' = "return" /\ pos' = W.en[x]
    BY <1>2, <1>6, <1>7, <2>1 DEF Complete
  <2> QED
    BY <2>1, <2>4, <2>5 DEF Following
<1>8. CASE Len(t[x].kids) # 0
  <2>1. /\ stack' = Append(stack, f) /\ pos' = pos + 1 /\ UNCHANGED nodes
        /\ pc' = IF kind = "object" THEN "key" ELSE "value"
    BY <1>2, <1>4, <1>5, <1>8
  <2>2. f = NewFrame(t[x].kind)
    BY <1>1
  <2> HIDE DEF f
  <2>3. /\ Len(stack') = Len(stack) + 1 /\ stack'[Len(stack) + 1] = f
        /\ \A k \in 1 .. Len(stack) : stack'[k] = stack[k]
    BY <1>6, <2>1, AppendProperties
  <2>4. \E g2 : Tracing(t, lv, W, c, g2, nodes, stack', pos + 1,
                        IF t[x].kind = "object" THEN "key" ELSE "value")
    BY <1>6, <1>8, <2>2, <2>3, TracePush
  <2>5. \E g2 : Tracing(t, lv, W, c, g2, nodes', stack', pos', pc')
    BY <1>1, <2>1, <2>4
  <2>6. pc' \in {"key", "value"} /\ pc' # "start" /\ pc' # "done"
    BY <2>1
  <2> QED
    BY <2>5, <2>6 DEF Following
<1> QED
  BY <1>7, <1>8

LEMMA FollowValue ==
  ASSUME NEW t, NEW lo, NEW lv, Sound(t, lo, lv), NEW toks, NEW W, Written(t, toks, W),
         IInv, Reads(toks), Admitted, Following(t, lv, W), pc = "value", Next
  PROVE  Following(t, lv, W)'
<1>1. PICK c, g : Tracing(t, lv, W, c, g, nodes, stack, pos, "value")
  BY DEF Following
<1> DEFINE x == Target(t, W, stack, g)
<1>2. stack \in Seq(Frame) /\ pos \in Nat /\ Len(nodes) \in Nat /\ Len(stack) \in Nat
  BY DEF IInv, TypeOK
<1>3. pos = W.st[x] /\ x = Target(t, W, stack, g)
  BY <1>1 DEF Tracing
<1>4. /\ x \in W.done /\ x \in 1 .. Len(t) /\ lv[x] = Len(stack)
      /\ W.st[x] \in Nat /\ W.en[x] \in Nat /\ W.st[x] < W.en[x]
      /\ \A k \in 1 .. Len(stack) : W.en[x] < W.en[g[k]] /\ W.en[g[k]] \in Nat
  BY <1>1, <1>2, TargetIs
<1> HIDE DEF x
<1>5. IF t[x].kind \in Container THEN peek(pos) = Opener(t[x].kind)
      ELSE peek(pos) \in Scalars \cup Strings \/ TooLong(peek(pos))
  BY <1>3, <1>4, ValueLexeme
<1>6. ~RejectValueCount
  <2>1. Len(nodes) + Len(stack) + 1 <= maxValues
    BY <1>1, <1>2, CountLeft
  <2>2. valueCount = Len(nodes) + Len(stack) /\ maxValues \in Nat
    BY LimitsPositive DEF IInv, ValueCountExact
  <2> QED
    BY <1>2, <2>1, <2>2 DEF RejectValueCount
<1>7. ~RejectNonValue /\ (RejectLeaf => TooLong(peek(pos)))
  <2>1. \/ peek(pos) \in Scalars \cup Strings \cup {"lbrace", "lbrack"}
        \/ TooLong(peek(pos)) /\ peek(pos) \in BadScalars
    BY <1>5 DEF Opener, TooLong
  <2> QED
    BY <2>1, LexemeAssumption DEF RejectLeaf, RejectNonValue, ValueAt, Structural
<1>10. CASE RejectLeaf
  <2>1. /\ TooLong(peek(pos)) /\ pc' = "done" /\ UNCHANGED input
        /\ outcome' = [class |-> Fault[peek(pos)], offset |-> pos]
    BY <1>7, <1>10 DEF RejectLeaf, ValueAt, CountValue, newError, Unwind
  <2>2. outcome'.class = "BOUND_EXCEEDED" /\ outcome'.offset = pos
    BY <2>1 DEF TooLong
  <2>3. Size(input) <= maxInputSize
    BY DEF Admitted
  <2>4. Size(input)' = Size(input) /\ peek(outcome.offset)' = peek(pos)
    BY <2>1, <2>2 DEF Size, peek
  <2>5. outcome' # Accepted
    BY <2>2 DEF Accepted
  <2> QED
    BY <2>1, <2>2, <2>3, <2>4, <2>5 DEF Following
<1>8. CASE t[x].kind \notin Container
  <2>1. peek(pos) \notin {"lbrace", "lbrack"}
    BY <1>5, <1>8, LexemeAssumption DEF Structural, TooLong
  <2>2. ~RejectDepth /\ ~EnterObject /\ ~EnterArray
    BY <2>1 DEF RejectDepth, EnterObject, EnterArray, Enter, ValueAt, Opener
  <2>3. ParseLeaf => Following(t, lv, W)'
    BY <1>1, <1>3, <1>4, <1>8, FollowLeaf
  <2> QED
    BY <1>6, <1>7, <1>10, <2>2, <2>3
    DEF Next, RejectOversize, RejectInvalidUTF8, Begin, RejectNonKey, RejectKey,
        RejectDuplicate, RejectNoColon, ParseKey, ReadKey, RejectChild, ResumeObject,
        ResumeArray, Resume, ReturnTo, Returning, Finish, Stop
<1>9. CASE t[x].kind \in Container
  <2>1. ~ParseLeaf
    <3>1. peek(pos) \in {"lbrace", "lbrack"}
      BY <1>5, <1>9 DEF Opener
    <3> QED
      BY <3>1, LexemeAssumption DEF ParseLeaf, ValueAt, Structural
  <2>2. ~RejectDepth
    <3>1. lv[x] \in Nat /\ lv[x] < maxDepth
      BY <1>4, <1>9 DEF Sound, Forest, NodeFits
    <3>2. depth = Len(stack) /\ maxDepth \in Nat
      BY LimitsPositive DEF IInv, DepthBalanced
    <3> QED
      BY <1>2, <1>4, <3>1, <3>2 DEF RejectDepth, TooDeep
  <2>3. \A kind \in Container : Enter(kind) => Following(t, lv, W)'
    BY <1>1, <1>3, <1>4, <1>9, FollowEnter
  <2>4. EnterObject \/ EnterArray => Following(t, lv, W)'
    BY <2>3 DEF EnterObject, EnterArray, Container
  <2> QED
    BY <1>6, <1>7, <1>10, <2>1, <2>2, <2>4
    DEF Next, RejectOversize, RejectInvalidUTF8, Begin, RejectNonKey, RejectKey,
        RejectDuplicate, RejectNoColon, ParseKey, ReadKey, RejectChild, ResumeObject,
        ResumeArray, Resume, ReturnTo, Returning, Finish, Stop
<1> QED
  BY <1>8, <1>9

\* The name of the next member of f is at p, and is new to it; its value follows.
NameAt(r, order, W, f, i, p) ==
  /\ p \in Nat /\ skipWhitespace(p) = {p} /\ skipWhitespace(p + 1) = {p + 1}
  /\ skipWhitespace(p + 1 + 1) = {p + 2} /\ peek(p + 1) = "colon"
  /\ peek(p) \in Strings /\ Decode[peek(p)] \notin f.seen
  /\ KeyText[Decode[peek(p)]] = r.keys[order[Len(f.kids) + 1]]
  /\ W.st[Kid(r, order, i)] = p + 2

LEMMA NameBehind ==
  ASSUME NEW t, NEW lo, NEW lv, Sound(t, lo, lv), NEW toks, NEW W, Written(t, toks, W),
         IInv, Reads(toks), NEW c, NEW f, NEW n, NEW i,
         Awaits(t, W, toks, c, f, 0, n, i), t[n].kind = "object",
         NEW p, p = Behind(Edge(t[n], W.ord[n], W, n, i), i)
  PROVE  NameAt(t[n], W.ord[n], W, f, i, p)
<1>1. /\ n \in W.done /\ i \in 1 .. Len(t[n].kids) /\ Joined(t[n], W.ord[n], W, toks, n, i)
      /\ i = Len(f.kids) + 1 /\ Len(f.kids) \in Nat /\ Len(t[n].kids) \in Nat
      /\ InProgress(f, 0, t[n], W.ord[n], c)
  BY DEF Awaits
<1>2. n \in 1 .. Len(t) /\ Valid(t[n]) /\ t[n].kind \in Container
      /\ Len(t[n].keys) = Len(t[n].kids)
  BY <1>1 DEF Written, Sound, Valid, Container
<1>3. /\ W.ord[n] \in S!SortedOrders(t[n])
      /\ \A j \in 1 .. Len(t[n].kids) : W.ord[n][j] \in 1 .. Len(t[n].kids)
  BY <1>1, <1>2, PlacedKids
<1>4. p \in Nat
  BY NextPlaces
<1>5. /\ Has(toks, p + 1, S!Str(t[n].keys[W.ord[n][i]]))
      /\ Has(toks, p + 2, S!Tok("colon")) /\ W.st[Kid(t[n], W.ord[n], i)] = p + 2
  BY <1>1 DEF Joined
<1>6. PICK k \in Keys : t[n].keys[W.ord[n][i]] = KeyText[k]
  BY <1>1, <1>2, <1>3 DEF Valid
<1>7. peek(p) \in Strings /\ Decode[peek(p)] = k
  BY <1>4, <1>5, <1>6, PeekKey
<1>8. /\ p + 1 \in Nat /\ p + 1 + 1 = p + 2 /\ p + 2 \in Nat
      /\ p <= Len(toks) /\ p + 1 <= Len(toks) /\ p + 2 <= Len(toks)
  BY <1>4, <1>5, ReadsLength DEF Has
<1>9. peek(p + 1) = "colon"
  <2>1. "colon" \in Structural /\ Has(toks, (p + 1) + 1, S!Tok("colon"))
    BY <1>5, <1>8 DEF Structural
  <2> QED
    BY <1>8, <2>1, PeekStructural
<1>10. /\ skipWhitespace(p) = {p} /\ skipWhitespace(p + 1) = {p + 1}
       /\ skipWhitespace(p + 2) = {p + 2}
  BY <1>4, <1>8, NoWhitespace
<1>11. k \notin f.seen
  <2> SUFFICES ASSUME k \in f.seen PROVE FALSE
    OBVIOUS
  <2>1. PICK j \in 1 .. Len(f.kids) + 0 : KeyText[k] = t[n].keys[W.ord[n][j]]
    BY <1>1 DEF InProgress
  <2>2. j \in 1 .. Len(t[n].kids) /\ j # i
    BY <1>1
  <2>3. W.ord[n][j] = W.ord[n][i]
    BY <1>1, <1>2, <1>3, <1>6, <2>1, <2>2 DEF Valid, DistinctKeys
  <2>4. \A a, b \in 1 .. Len(t[n].kids) : W.ord[n][a] = W.ord[n][b] => a = b
    BY <1>1, <1>2, <1>3, OrderOnce
  <2>5. j = i
    BY <1>1, <2>2, <2>3, <2>4
  <2> QED
    BY <2>2, <2>5
<1> QED
  BY <1>1, <1>4, <1>5, <1>6, <1>7, <1>8, <1>9, <1>10, <1>11 DEF NameAt

LEMMA FollowKey ==
  ASSUME NEW t, NEW lo, NEW lv, Sound(t, lo, lv), NEW toks, NEW W, Written(t, toks, W),
         IInv, Reads(toks), Following(t, lv, W), pc = "key", Next
  PROVE  Following(t, lv, W)'
<1>1. PICK c, g : Tracing(t, lv, W, c, g, nodes, stack, pos, "key")
  BY DEF Following
<1> DEFINE n == TopNode(stack, g)
           i == TopNext(stack)
<1>2. /\ stack \in Seq(Frame) /\ pos \in Nat /\ Len(stack) \in Nat /\ stack # <<>>
      /\ Top.kind = "object" /\ Top \in Frame /\ Len(stack) # 0 /\ Top = stack[Len(stack)]
  BY DEF IInv, TypeOK, ControlInv, Top
<1>3. /\ Awaits(t, W, toks, c, Top, 0, n, i)
      /\ Target(t, W, stack, g) = Kid(t[n], W.ord[n], i)
  <2>1. Ahead("key") = 0
    BY DEF Ahead
  <2>2. /\ Awaits(t, W, toks, c, stack[Len(stack)], Ahead("key"), n, i)
        /\ Target(t, W, stack, g) = Kid(t[n], W.ord[n], i)
    BY <1>1, <1>2, TopTraced
  <2> QED
    BY <1>2, <2>1, <2>2
<1>4. pos = Behind(Edge(t[n], W.ord[n], W, n, i), i)
  BY <1>1 DEF Tracing, TopNode, TopNext
<1> HIDE DEF n, i
<1>5. t[n].kind = "object" /\ InProgress(Top, 0, t[n], W.ord[n], c) /\ Len(Top.kids) \in Nat
  BY <1>2, <1>3 DEF Awaits, InProgress
<1>6. NameAt(t[n], W.ord[n], W, Top, i, pos)
  BY <1>3, <1>4, <1>5, NameBehind
<1>7. ~RejectNonKey /\ ~RejectKey /\ ~RejectDuplicate /\ ~RejectNoColon
  BY <1>6, LexemeAssumption
  DEF RejectNonKey, RejectKey, RejectDuplicate, RejectNoColon, NewKey, NameAt
<1>8. CASE ParseKey
  <2> DEFINE k == Decode[peek(pos)]
             f == [Top EXCEPT !.seen = @ \cup {k}, !.key = k]
  <2>1. pos' = pos + 2 /\ stack' = ReplaceTop(f) /\ pc' = "value" /\ UNCHANGED nodes
    BY <1>6, <1>8 DEF ParseKey, NameAt
  <2>2. k \in Keys
    BY <1>6, DecodeAssumption DEF NameAt
  <2>3. /\ f \in Frame /\ f.kind = Top.kind /\ f.keys = Top.keys /\ f.kids = Top.kids
        /\ f.key = k /\ f.seen = Top.seen \cup {k}
    BY <1>2, <2>2 DEF Frame
  <2> HIDE DEF f, k
  <2>4. /\ Len(stack') = Len(stack) /\ stack'[Len(stack)] = f
        /\ \A j \in 1 .. Len(stack) - 1 : stack'[j] = stack[j]
    BY <1>2, <2>1, <2>3, ReplaceTopIs DEF IInv
  <2>5. InProgress(f, 1, t[n], W.ord[n], c)
    BY <1>5, <1>6, <2>3, KeyRead DEF k, NameAt
  <2>6. Tracing(t, lv, W, c, g, nodes, stack', W.st[Target(t, W, stack, g)], "value")
    <3>1. InProgress(stack'[Len(stack)], 1, t[TopNode(stack, g)], W.ord[TopNode(stack, g)], c)
      BY <2>4, <2>5 DEF n
    <3>2. stack'[Len(stack)].kids = stack[Len(stack)].kids
      BY <1>2, <2>3, <2>4
    <3> QED
      BY <1>1, <1>2, <2>4, <3>1, <3>2, TraceKey
  <2>7. Tracing(t, lv, W, c, g, nodes', stack', pos', pc')
    BY <1>3, <1>6, <2>1, <2>6 DEF NameAt
  <2> QED
    BY <2>1, <2>7 DEF Following
<1> QED
  BY <1>7, <1>8
  DEF Next, RejectOversize, RejectInvalidUTF8, Begin, RejectValueCount, ParseLeaf,
      RejectLeaf, RejectNonValue, RejectDepth, EnterObject, EnterArray, Enter, ValueAt,
      CountValue, RejectChild, ResumeObject, ResumeArray, Resume, ReturnTo, Returning,
      Finish, Stop

\* The end of the text is read.
LEMMA FollowFinish ==
  ASSUME NEW t, NEW lo, NEW lv, Sound(t, lo, lv), NEW toks, NEW W, Written(t, toks, W),
         IInv, Reads(toks), Following(t, lv, W), pc = "return", stack = <<>>, Finish
  PROVE  Following(t, lv, W)'
<1>1. PICK c, g : Tracing(t, lv, W, c, g, nodes, stack, pos, "return")
  BY DEF Following
<1>2. Len(stack) = 0 /\ Len(toks) \in Nat /\ Len(toks) <= Len(toks)
  BY ReadsLength
<1>3. Len(nodes) # 0 /\ c[Len(nodes)] = Len(t) /\ pos = Len(toks)
  BY <1>1, <1>2 DEF Tracing, Target, Written
<1>4. skipWhitespace(pos) = {pos} /\ peek(pos) = "eof"
  BY <1>2, <1>3, NoWhitespace
<1>5. outcome' = Accepted /\ pc' = "done" /\ UNCHANGED nodes
  BY <1>4 DEF Finish
<1>6. ReadBack(t, W, nodes)
  BY <1>1, <1>3 DEF Tracing, ReadBack
<1>7. ReadBack(t, W, nodes')
  BY <1>5, <1>6
<1> QED
  BY <1>5, <1>7 DEF Following

\* A call returns to the container that made it.
LEMMA FollowResume ==
  ASSUME NEW t, NEW lo, NEW lv, Sound(t, lo, lv), NEW toks, NEW W, Written(t, toks, W),
         IInv, Reads(toks), NEW c, NEW g,
         Tracing(t, lv, W, c, g, nodes, stack, pos, "return"), pc = "return",
         NEW kind \in Container, Resume(kind)
  PROVE  Following(t, lv, W)'
<1> DEFINE n == TopNode(stack, g)
           i == TopNext(stack)
           f2 == Adopt(Top)
<1>1. /\ stack \in Seq(Frame) /\ nodes \in Seq(Node) /\ pos \in Nat /\ Len(stack) \in Nat
      /\ Len(nodes) \in Nat /\ stack # <<>> /\ Len(stack) # 0 /\ Top = stack[Len(stack)]
      /\ Top.kind = kind /\ Len(stack) \in 1 .. Len(stack)
  BY DEF IInv, TypeOK, Resume, ReturnTo, Top
<1>2. Top \in Frame /\ FrameInv(Top) /\ (Top.kind = "object" => KeyPending(Top))
  BY <1>1 DEF IInv, StackInv
<1>3. HasKey(Top)
  BY <1>2 DEF HasKey, FrameInv, NodeInv, Paired, KeyPending, Frame
<1>4. /\ f2 \in Frame /\ Closed(f2) \in Node /\ Adopted(f2, Top, Len(nodes))
  <2>1. f2 \in Frame /\ Closed(f2) \in Node
    <3>1. Len(Top.kids) < maxChildren(kind)
      <4>1. Len(Top.kids) \in Nat /\ maxChildren(kind) \in Nat /\ ~Full(Top)
        BY <1>2, LimitsPositive DEF Frame, Resume
      <4> QED
        BY <1>1, <4>1 DEF Full
    <3> QED
      BY <1>1, <1>2, <3>1, AdoptInv
  <2>2. Adopted(f2, Top, Len(nodes))
    BY DEF Adopted, Adopt
  <2> QED
    BY <2>1, <2>2
<1>5. /\ Awaits(t, W, toks, c, Top, Ahead("return"), n, i)
  BY <1>1, TopTraced
<1>6. i \in 1 .. Len(t[n].kids) /\ Len(t[n].kids) \in Nat
  BY <1>5 DEF Awaits
<1>7. PICK q \in skipWhitespace(pos) :
        \/ peek(q) = Closer(kind) /\ Leave(q)
        \/ /\ peek(q) = "comma"
           /\ stack' = ReplaceTop(f2)
           /\ IF kind = "object"
                THEN pos' = q + 1 /\ pc' = "key"
                ELSE pos' \in skipWhitespace(q + 1) /\ pc' = "value"
           /\ UNCHANGED <<depth, nodes, outcome>>
        \/ /\ peek(q) \notin {Closer(kind), "comma"}
           /\ newError("INVALID_GRAMMAR", q)
  BY DEF Resume
<1>8. Leave(q) <=> Complete(Closed(f2), q + 1) /\ stack' = Pop /\ depth' = depth - 1
  BY DEF Leave
<1> HIDE DEF f2
<1>9. CASE i < Len(t[n].kids)
  <2> DEFINE st2 == ReplaceTop(f2)
  <2>1. /\ Len(st2) = Len(stack) /\ st2[Len(stack)] = f2
        /\ \A k \in 1 .. Len(stack) - 1 : st2[k] = stack[k]
    BY <1>1, <1>4, ReplaceTopIs DEF IInv
  <2> HIDE DEF st2
  <2>2. /\ Has(toks, pos + 1, S!Tok("comma"))
        /\ Tracing(t, lv, W, c, g, nodes, st2, pos + 1, Between(stack[Len(stack)]))
    BY <1>1, <1>3, <1>4, <1>9, <2>1, TraceAdopt
  <2>3. pos + 1 \in Nat /\ pos <= Len(toks) /\ pos + 1 <= Len(toks)
    BY <1>1, <2>2, ReadsLength DEF Has
  <2>4. "comma" \in Structural
    BY DEF Structural
  <2>5. /\ peek(pos) = "comma" /\ skipWhitespace(pos) = {pos}
        /\ skipWhitespace(pos + 1) = {pos + 1}
    BY <1>1, <2>2, <2>3, <2>4, PeekStructural, NoWhitespace
  <2>6. "comma" # Closer(kind)
    BY DEF Closer
  <2>7. /\ stack' = st2 /\ pos' = pos + 1 /\ UNCHANGED nodes
        /\ pc' = Between(stack[Len(stack)])
    BY <1>1, <1>7, <2>5, <2>6 DEF Between, st2
  <2>8. pc' \in {"key", "value"}
    BY <2>7 DEF Between
  <2>9. Tracing(t, lv, W, c, g, nodes', stack', pos', pc')
    BY <2>2, <2>7
  <2> QED
    BY <2>8, <2>9 DEF Following
<1>10. CASE i = Len(t[n].kids)
  <2> DEFINE more == Append(nodes, Closed(f2))
             st2 == Pop
  <2>1. /\ Len(st2) = Len(stack) - 1 /\ \A k \in 1 .. Len(stack) - 1 : st2[k] = stack[k]
    BY <1>1, PopIs DEF IInv
  <2>2. OneMore(more, nodes) /\ more[Len(nodes) + 1] = Closed(f2)
    BY <1>1, <1>4, AppendProperties DEF OneMore
  <2> HIDE DEF more, st2
  <2>3. /\ Has(toks, pos + 1, CloseTok(stack[Len(stack)]))
        /\ \E c2 : Tracing(t, lv, W, c2, g, more, st2, pos + 1, "return")
    BY <1>1, <1>3, <1>4, <1>10, <2>1, <2>2, TraceLeave
  <2>4. Closer(kind) \in Structural /\ CloseTok(stack[Len(stack)]) = S!Tok(Closer(kind))
    BY <1>1 DEF Structural, Closer, CloseTok
  <2>5. pos <= Len(toks)
    BY <1>1, <2>3, ReadsLength DEF Has
  <2>6. peek(pos) = Closer(kind) /\ skipWhitespace(pos) = {pos}
    BY <1>1, <2>3, <2>4, <2>5, PeekStructural, NoWhitespace
  <2>7. Closer(kind) # "comma"
    BY DEF Closer
  <2>8. nodes' = more /\ stack' = st2 /\ pos' = pos + 1 /\ pc' = "return"
    BY <1>7, <1>8, <2>6, <2>7 DEF Complete, more, st2
  <2>9. \E c2 : Tracing(t, lv, W, c2, g, nodes', stack', pos', pc')
    BY <2>3, <2>8
  <2> QED
    BY <2>8, <2>9 DEF Following
<1> QED
  BY <1>6, <1>9, <1>10

LEMMA FollowReturn ==
  ASSUME NEW t, NEW lo, NEW lv, Sound(t, lo, lv), NEW toks, NEW W, Written(t, toks, W),
         IInv, Reads(toks), Following(t, lv, W), pc = "return", Next
  PROVE  Following(t, lv, W)'
<1>1. PICK c, g : Tracing(t, lv, W, c, g, nodes, stack, pos, "return")
  BY DEF Following
<1>2. ~RejectChild
  <2> SUFFICES ASSUME RejectChild PROVE FALSE
    OBVIOUS
  <2> DEFINE n == TopNode(stack, g)
             i == TopNext(stack)
  <2>1. /\ stack \in Seq(Frame) /\ stack # <<>> /\ Len(stack) # 0 /\ Top = stack[Len(stack)]
        /\ Top \in Frame /\ Full(Top)
    BY DEF IInv, TypeOK, RejectChild, Top
  <2>2. Awaits(t, W, toks, c, Top, Ahead("return"), n, i)
    BY <1>1, <2>1, TopTraced
  <2>3. /\ n \in W.done /\ Len(Top.kids) \in Nat /\ Len(t[n].kids) \in Nat
        /\ t[n].kind \in Container /\ Top.kind = t[n].kind /\ Len(Top.kids) < Len(t[n].kids)
    BY <2>2 DEF Awaits, InProgress
  <2>4. Len(t[n].kids) <= maxChildren(t[n].kind)
    BY <2>3 DEF Written, Sound, Valid
  <2>5. maxChildren(t[n].kind) \in Nat
    BY <2>3, LimitsPositive
  <2> QED
    BY <2>1, <2>3, <2>4, <2>5 DEF Full
<1>3. CASE \E kind \in Container : Resume(kind)
  BY <1>1, <1>3, FollowResume
<1>4. CASE Finish
  BY <1>4, FollowFinish DEF Finish
<1> QED
  BY <1>2, <1>3, <1>4
  DEF Next, RejectOversize, RejectInvalidUTF8, Begin, RejectValueCount, ParseLeaf,
      RejectLeaf, RejectNonValue, RejectDepth, EnterObject, EnterArray, Enter, ValueAt,
      CountValue, RejectNonKey, RejectKey, RejectDuplicate, RejectNoColon, ParseKey,
      ReadKey, ResumeObject, ResumeArray, Container, Stop

\* Whatever the parser does with the canonical text, it makes of it what the text
\* was made of.
LEMMA FollowNext ==
  ASSUME NEW t, NEW lo, NEW lv, Sound(t, lo, lv), NEW toks, NEW W, Written(t, toks, W),
         IInv, Reads(toks), Admitted, Following(t, lv, W), Next
  PROVE  Following(t, lv, W)'
<1>1. CASE pc = "done"
  <2>1. UNCHANGED <<pc, nodes, outcome, input>>
    BY <1>1
    DEF Next, RejectOversize, RejectInvalidUTF8, Begin, RejectValueCount, ParseLeaf,
        RejectLeaf, RejectNonValue, RejectDepth, EnterObject, EnterArray, Enter, ValueAt,
        CountValue, RejectNonKey, RejectKey, RejectDuplicate, RejectNoColon, ParseKey,
        ReadKey, RejectChild, ResumeObject, ResumeArray, Resume, ReturnTo, Returning,
        Finish, Stop, vars
  <2>2. Size(input)' = Size(input) /\ peek(outcome.offset)' = peek(outcome.offset)
    BY <2>1 DEF Size, peek
  <2> QED
    BY <1>1, <2>1, <2>2 DEF Following
<1>2. CASE pc # "done"
  <2>1. pc \in {"start", "value", "key", "return"}
    BY <1>2 DEF IInv, TypeOK
  <2> QED
    BY <2>1, FollowStart, FollowValue, FollowKey, FollowReturn
<1> QED
  BY <1>1, <1>2

--------------------------------------------------------------------------------
(* The second emission. *)

SP == INSTANCE SerializerProofs WITH
  pc <- phase, Trees <- {},
  Options <- SerializerLimits(Options), Defaults <- SerializerLimits(Defaults)

LEMMA SameComparison ==
  ASSUME NEW a, NEW b
  PROVE  S!compareSortKeys(a, b) = SP!compareSortKeys(a, b)
<1>1. \A s : S!Encode16(s) = SP!Encode16(s)
  BY DEF S!Encode16, SP!Encode16, S!FlattenSeq, SP!FlattenSeq, S!Units, SP!Units
<1>2. \A x, y : S!compareUTF16Units(x, y) = SP!compareUTF16Units(x, y)
  BY DEF S!compareUTF16Units, SP!compareUTF16Units, S!DifferAt, SP!DifferAt, S!Shorter, SP!Shorter
<1>3. \A s : S!isASCII(s) = SP!isASCII(s)
  BY DEF S!isASCII, SP!isASCII
<1> QED
  BY <1>1, <1>2, <1>3 DEF S!compareSortKeys, SP!compareSortKeys

LEMMA KeyTextIs ==
  ASSUME NEW k \in Keys
  PROVE  KeyText[k] \in Seq(SP!CodePoint)
<1> DEFINE s == KeyText[k]
<1>1. S!IsText(s) /\ S!validateString(s) = "ok"
  BY TextAssumption
<1> HIDE DEF s
<1>2. s \in Seq(S!Character) /\ \A i \in DOMAIN s : ~S!Surrogate(s[i]) /\ s[i] # -1
  BY <1>1 DEF S!IsText, S!validateString
<1>3. ASSUME NEW x \in S!Character, ~S!Surrogate(x), x # -1 PROVE x \in SP!CodePoint
  <2>1. S!MaxRune \in Nat
    BY SMT DEF S!MaxRune
  <2>2. x \in Nat /\ x <= S!MaxRune
    BY SMT, <1>3, <2>1 DEF S!Character
  <2> QED
    BY SMT, <1>3, <2>2 DEF SP!CodePoint, S!Surrogate, S!MaxRune
<1>4. Len(s) \in Nat /\ DOMAIN s = 1 .. Len(s) /\ \A i \in 1 .. Len(s) : s[i] \in S!Character
  BY <1>2
<1>5. \A i \in 1 .. Len(s) : s[i] \in SP!CodePoint
  BY <1>2, <1>3, <1>4
<1>6. s \in Seq(SP!CodePoint)
  BY <1>2, <1>4, <1>5
<1> QED
  BY <1>6 DEF s

\* The comparison of the keys that a parsed value has.
LEMMA KeysCompare ==
  ASSUME NEW a \in KeyTexts, NEW b \in KeyTexts
  PROVE  /\ S!compareSortKeys(a, b) \in {-1, 0, 1}
         /\ S!compareSortKeys(a, b) = -S!compareSortKeys(b, a)
         /\ S!compareSortKeys(a, b) = 0 => a = b
<1>0. /\ SerializerLimits(Options) \in [SP!LimitName -> Int]
      /\ SerializerLimits(Defaults) \in [SP!LimitName -> Nat \ {0}]
  BY LimitAssumption DEF SerializerLimits, SP!LimitName, LimitName
<1>1. a \in Seq(SP!CodePoint) /\ b \in Seq(SP!CodePoint)
  BY KeyTextIs DEF KeyTexts
<1>2. \A c \in Seq(SP!CodePoint) :
        /\ SP!compareSortKeys(a, b) \in {-1, 0, 1}
        /\ SP!compareSortKeys(a, b) = -SP!compareSortKeys(b, a)
        /\ SP!compareSortKeys(a, b) = 0 => a = b
        /\ SP!compareSortKeys(a, b) < 0 /\ SP!compareSortKeys(b, c) < 0
             => SP!compareSortKeys(a, c) < 0
  BY <1>0, <1>1, SP!SortKeysTotalOrder
<1>3. /\ SP!compareSortKeys(a, b) \in {-1, 0, 1}
      /\ SP!compareSortKeys(a, b) = -SP!compareSortKeys(b, a)
      /\ SP!compareSortKeys(a, b) = 0 => a = b
  BY <1>1, <1>2
<1>4. /\ S!compareSortKeys(a, b) = SP!compareSortKeys(a, b)
      /\ S!compareSortKeys(b, a) = SP!compareSortKeys(b, a)
  BY SameComparison
<1> QED
  BY <1>3, <1>4

\* Numbers that ascend within their own range are in their places.
LEMMA AscendingInPlace ==
  ASSUME NEW m \in Nat, NEW f, \A i \in 1 .. m : f[i] \in 1 .. m,
         \A i, j \in 1 .. m : i < j => f[i] < f[j]
  PROVE  \A i \in 1 .. m : f[i] = i
<1>1. ASSUME NEW i \in 1 .. m, f[i] < i PROVE FALSE
  <2> DEFINE T == {k \in 1 .. m : f[k] < k}
  <2>1. T \subseteq Nat /\ T # {}
    BY <1>1
  <2>2. PICK k \in T : \A l \in T : k <= l
    BY <2>1, LeastOf
  <2>3. k \in 1 .. m /\ f[k] < k /\ f[k] \in 1 .. m
    BY <2>2
  <2>4. k - 1 \in 1 .. m /\ k - 1 < k
    BY <2>3
  <2>5. f[k - 1] < f[k] /\ f[k - 1] \in 1 .. m
    BY <2>3, <2>4
  <2>6. f[k - 1] < k - 1
    BY <2>3, <2>4, <2>5
  <2>7. k - 1 \in T
    BY <2>4, <2>6
  <2>8. k <= k - 1
    BY <2>2, <2>7
  <2> QED
    BY <2>3, <2>8
<1>2. ASSUME NEW i \in 1 .. m, i < f[i] PROVE FALSE
  <2> DEFINE T == {m - k : k \in {k \in 1 .. m : k < f[k]}}
  <2>1. T \subseteq Nat /\ T # {}
    BY <1>2
  <2>2. PICK d \in T : \A l \in T : d <= l
    BY <2>1, LeastOf
  <2>3. PICK k \in 1 .. m : d = m - k /\ k < f[k]
    BY <2>2
  <2>4. f[k] \in 1 .. m /\ k + 1 \in 1 .. m /\ k < k + 1
    BY <2>3
  <2>5. f[k] < f[k + 1] /\ f[k + 1] \in 1 .. m
    BY <2>4
  <2>6. k + 1 < f[k + 1]
    BY <2>3, <2>4, <2>5
  <2>7. m - (k + 1) \in T
    BY <2>4, <2>6
  <2>8. d <= m - (k + 1)
    BY <2>2, <2>7
  <2> QED
    BY <2>3, <2>8
<1>3. ASSUME NEW i \in 1 .. m PROVE f[i] = i
  <2>1. ~(f[i] < i) /\ ~(i < f[i]) /\ f[i] \in Int /\ i \in Int
    BY <1>1, <1>2
  <2> QED
    BY <2>1
<1> QED
  BY <1>3

\* The keys of r are in the order they are written in.
KeysAscend(r) ==
  r.kind = "object" =>
    \A i, j \in 1 .. Len(r.keys) : i < j => S!compareSortKeys(r.keys[j], r.keys[i]) >= 0

\* Members in order have no other order to be written in.
LEMMA OrderInPlace ==
  ASSUME NEW r, r.kind \in Container, Valid(r), Len(r.kids) \in Nat, KeysAscend(r),
         NEW order \in S!SortedOrders(r)
  PROVE  \A i \in 1 .. Len(r.kids) : order[i] = i
<1> DEFINE m == Len(r.kids)
<1>1. CASE r.kind = "array"
  BY <1>1 DEF S!SortedOrders
<1>2. CASE r.kind # "array"
  <2>0. r.kind = "object"
    BY <1>2 DEF Container
  <2>1. /\ Len(order) = m /\ \A i \in 1 .. m : order[i] \in 1 .. m
    BY <2>0, OrderOnce DEF Valid
  <2>2. \A i, j \in 1 .. m : order[i] = order[j] => i = j
    BY <2>0, OrderOnce DEF Valid
  <2>3. /\ Len(r.keys) = m /\ \A i \in 1 .. m : r.keys[i] \in KeyTexts
        /\ \A i, j \in 1 .. m : r.keys[i] = r.keys[j] => i = j
    BY <2>0 DEF Valid, DistinctKeys, KeyTexts
  <2>4. \A i, j \in 1 .. m : i < j => S!compareSortKeys(r.keys[order[j]], r.keys[order[i]]) >= 0
    BY <1>2, <2>1 DEF S!SortedOrders
  <2>5. ASSUME NEW i \in 1 .. m, NEW j \in 1 .. m, i < j PROVE order[i] < order[j]
    <3> DEFINE a == order[i]
               b == order[j]
               ab == S!compareSortKeys(r.keys[a], r.keys[b])
               ba == S!compareSortKeys(r.keys[b], r.keys[a])
    <3>1. a \in 1 .. m /\ b \in 1 .. m /\ a # b /\ ba >= 0
      BY <2>1, <2>2, <2>4, <2>5
    <3>2. r.keys[a] \in KeyTexts /\ r.keys[b] \in KeyTexts /\ r.keys[a] # r.keys[b]
      BY <2>3, <3>1
    <3>3. ab \in {-1, 0, 1} /\ ab = -ba /\ ab # 0
      BY <3>2, KeysCompare
    <3>4. ba \in {-1, 0, 1}
      BY <3>2, KeysCompare
    <3>5. b < a => ab >= 0
      BY <2>0, <2>3, <3>1 DEF KeysAscend
    <3> HIDE DEF a, b, ab, ba
    <3>6. ~(b < a)
      BY <3>1, <3>3, <3>4, <3>5
    <3> QED
      BY <3>1, <3>6 DEF a, b
  <2> HIDE DEF m
  <2> QED
    BY <2>1, <2>5, AscendingInPlace DEF m
<1> QED
  BY <1>1, <1>2

\* The value r stands for what q stands for: c are the nodes the children were made of.
Same(r, q, order, c) ==
  /\ r.kind = q.kind
  /\ IF q.kind \in Container
       THEN /\ Len(r.kids) = Len(q.kids)
            /\ \A i \in 1 .. Len(r.kids) :
                 /\ r.kids[i] \in DOMAIN c /\ c[r.kids[i]] = Kid(q, order, i)
                 /\ q.kind = "object" => r.keys[i] = q.keys[order[i]]
     ELSE IF q.kind = "string" THEN r.str = q.str ELSE r.lit = q.lit

\* The tree s is t with its members in the order of its text.
Matches(s, t, W, c) ==
  /\ DOMAIN c = 1 .. Len(s) /\ c[Len(s)] = Len(t)
  /\ \A n \in 1 .. Len(s) : c[n] \in W.done /\ Same(s[n], t[c[n]], W.ord[c[n]], c)

\* What was made of the text of t matches it.
LEMMA ReadMatches ==
  ASSUME IInv, NEW t, NEW lo, NEW lv, Sound(t, lo, lv), NEW toks, NEW W, Written(t, toks, W),
         ReadBack(t, W, nodes)
  PROVE  \E c : Matches(Parsed, t, W, c)
<1>1. PICK c, p : NodesTraced(t, W, c, nodes, p) /\ c[Len(nodes)] = Len(t)
  BY DEF ReadBack
<1>2. Len(nodes) \in Nat /\ Len(Parsed) = Len(nodes)
  BY DEF IInv, TypeOK, Parsed
<1>3. ASSUME NEW n \in 1 .. Len(nodes)
      PROVE  c[n] \in W.done /\ Same(Parsed[n], t[c[n]], W.ord[c[n]], c)
  <2> DEFINE r == nodes[n]
             q == t[c[n]]
             order == W.ord[c[n]]
  <2>1. c[n] \in W.done /\ Copied(r, q, order, c)
    BY <1>1 DEF NodesTraced
  <2>2. r \in Node /\ NodeInv(r)
    BY DEF IInv, TypeOK, NodesInv
  <2>3. /\ Parsed[n].kind = (IF r.kind = "scalar" THEN ScalarKind[r.text] ELSE r.kind)
        /\ Parsed[n].lit = (IF r.kind = "scalar" THEN Literal[r.text] ELSE "")
        /\ Parsed[n].str = (IF r.kind = "string" THEN KeyText[r.text] ELSE <<>>)
        /\ Parsed[n].keys = [i \in DOMAIN r.keys |-> KeyText[r.keys[i]]]
        /\ Parsed[n].kids = r.kids
    BY DEF Parsed
  <2> DEFINE s == Parsed[n]
  <2>4. /\ s.kind = (IF r.kind = "scalar" THEN ScalarKind[r.text] ELSE r.kind)
        /\ s.lit = (IF r.kind = "scalar" THEN Literal[r.text] ELSE "")
        /\ s.str = (IF r.kind = "string" THEN KeyText[r.text] ELSE <<>>)
        /\ s.keys = [i \in DOMAIN r.keys |-> KeyText[r.keys[i]]]
        /\ s.kids = r.kids
    BY <2>3
  <2> HIDE DEF r, q, order, s
  <2>5. CASE q.kind \in Container
    <3>1. r.kind = q.kind /\ Len(r.kids) = Len(q.kids) /\ Follows(r, q, order, c)
      BY <2>1, <2>5 DEF Copied
    <3>2. s.kind = q.kind
      BY <2>4, <2>5, <3>1 DEF Container
    <3>3. ASSUME NEW i \in 1 .. Len(s.kids), q.kind = "object"
          PROVE  s.keys[i] = q.keys[order[i]]
      <4>1. KeyText[r.keys[i]] = q.keys[order[i]]
        BY <2>4, <3>1, <3>3 DEF Follows
      <4>2. i \in DOMAIN r.keys
        <5>1. r.keys \in Seq(Keys) /\ Len(r.keys) = Len(r.kids)
          BY <2>2, <3>1, <3>3 DEF NodeInv, Paired, Node
        <5>2. DOMAIN r.keys = 1 .. Len(r.kids)
          BY <5>1
        <5> QED
          BY <2>4, <5>2
      <4> QED
        BY <2>4, <4>1, <4>2
    <3>4. \A i \in 1 .. Len(s.kids) : s.kids[i] \in DOMAIN c /\ c[s.kids[i]] = Kid(q, order, i)
      BY <2>4, <3>1 DEF Follows
    <3>5. Len(s.kids) = Len(q.kids)
      BY <2>4, <3>1
    <3> QED
      BY <2>1, <2>5, <3>2, <3>3, <3>4, <3>5 DEF Same, q, order, s
  <2>6. CASE q.kind \notin Container
    <3>1. CASE q.kind = "string"
      <4>1. r.kind = "string" /\ KeyText[r.text] = q.str
        BY <2>1, <2>6, <3>1 DEF Copied
      <4>2. s.kind = "string" /\ s.str = q.str
        BY <2>4, <4>1
      <4> QED
        BY <2>1, <2>6, <3>1, <4>2 DEF Same, q, order, s
    <3>2. CASE q.kind # "string"
      <4>1. r.kind = "scalar" /\ ScalarKind[r.text] = q.kind /\ Literal[r.text] = q.lit
        BY <2>1, <2>6, <3>2 DEF Copied
      <4>2. s.kind = q.kind /\ s.lit = q.lit
        BY <2>4, <4>1
      <4> QED
        BY <2>1, <2>6, <3>2, <4>2 DEF Same, q, order, s
    <3> QED
      BY <3>1, <3>2
  <2> QED
    BY <2>5, <2>6
<1>4. DOMAIN c = 1 .. Len(nodes)
  BY <1>1 DEF NodesTraced
<1> QED
  BY <1>1, <1>2, <1>3, <1>4 DEF Matches

\* Its members are in the order they are written in.
LEMMA MatchAscends ==
  ASSUME NEW t, NEW lo, NEW lv, Sound(t, lo, lv), NEW toks, NEW W, Written(t, toks, W),
         NEW s, NEW lo2, NEW lv2, Sound(s, lo2, lv2), NEW c, Matches(s, t, W, c),
         NEW n \in 1 .. Len(s), s[n].kind \in Container
  PROVE  KeysAscend(s[n])
<1> DEFINE r == s[n]
           q == t[c[n]]
           order == W.ord[c[n]]
<1>1. c[n] \in W.done /\ Same(r, q, order, c)
  BY DEF Matches
<1>2. Valid(r)
  BY DEF Sound
<1>3. r.kind = q.kind
  BY <1>1 DEF Same
<1>4. c[n] \in 1 .. Len(t) /\ order \in S!SortedOrders(q) /\ Len(q.kids) \in Nat /\ Valid(q)
  <2>1. q.kind \in Container
    BY <1>3
  <2>2. c[n] \in 1 .. Len(t) /\ order \in S!SortedOrders(q) /\ Len(q.kids) \in Nat
    BY <1>1, <2>1, PlacedKids
  <2> QED
    BY <2>2 DEF Sound
<1> HIDE DEF r, q, order
<1>5. SUFFICES ASSUME r.kind = "object", NEW i \in 1 .. Len(r.keys), NEW j \in 1 .. Len(r.keys),
                      i < j
               PROVE  S!compareSortKeys(r.keys[j], r.keys[i]) >= 0
  BY DEF KeysAscend, r
<1>6. /\ Len(r.keys) = Len(r.kids) /\ Len(r.kids) = Len(q.kids) /\ q.kind = "object"
      /\ q.kind \in Container
  BY <1>1, <1>2, <1>3, <1>5 DEF Valid, Same, Container
<1>7. r.keys[i] = q.keys[order[i]] /\ r.keys[j] = q.keys[order[j]]
  BY <1>1, <1>5, <1>6 DEF Same
<1>8. Len(order) = Len(q.kids)
  BY <1>4, <1>6, OrderOnce DEF Valid
<1>9. \A x, y \in 1 .. Len(order) :
        x < y => S!compareSortKeys(q.keys[order[y]], q.keys[order[x]]) >= 0
  BY <1>4, <1>6 DEF S!SortedOrders
<1> QED
  BY <1>5, <1>6, <1>7, <1>8, <1>9

\* So there is one order to write its children in.
LEMMA MatchInPlace ==
  ASSUME NEW t, NEW lo, NEW lv, Sound(t, lo, lv), NEW toks, NEW W, Written(t, toks, W),
         NEW s, NEW lo2, NEW lv2, Sound(s, lo2, lv2), NEW c, Matches(s, t, W, c),
         NEW n \in 1 .. Len(s), s[n].kind \in Container, NEW order \in S!SortedOrders(s[n])
  PROVE  \A i \in 1 .. Len(s[n].kids) : order[i] = i
<1>1. Valid(s[n]) /\ Len(s[n].kids) \in Nat
  BY SoundNode DEF Sound
<1>2. KeysAscend(s[n])
  BY MatchAscends
<1> QED
  BY <1>1, <1>2, OrderInPlace

\* Where in the text of t the walk w over the tree read from it is.
Place(t, W, c, w, a, toks) ==
  IF a # 0 THEN W.st[c[a]]
  ELSE IF Len(w) = 0 THEN Len(toks)
  ELSE LET f == w[Len(w)]
           n == c[f.node] IN
       Edge(t[n], W.ord[n], W, n, f.called + 1)

\* What the walk has written again is the text up to there.
Retraced(t, W, c, w, a, toks, again) ==
  /\ Longer(toks, again)
  /\ Len(again) = Place(t, W, c, w, a, toks)

LEMMA RetraceOne ==
  ASSUME NEW toks, NEW again \in Seq(Token), NEW x \in Token, Longer(toks, again),
         Has(toks, Len(again) + 1, x)
  PROVE  Longer(toks, Append(again, x)) /\ Len(Append(again, x)) = Len(again) + 1
<1> DEFINE more == Append(again, x)
<1>1. /\ Len(again) \in Nat /\ Len(more) = Len(again) + 1 /\ more[Len(again) + 1] = x
      /\ \A p \in 1 .. Len(again) : more[p] = again[p]
  BY AppendProperties
<1> HIDE DEF more
<1>2. ASSUME NEW p \in 1 .. Len(more) PROVE toks[p] = more[p]
  <2>1. p \in 1 .. Len(again) \/ p = Len(again) + 1
    BY <1>1
  <2> QED
    BY <1>1, <2>1 DEF Longer, Has
<1>3. Len(more) <= Len(toks)
  BY <1>1 DEF Has
<1> QED
  BY <1>1, <1>2, <1>3 DEF Longer, more

\* The node y, which the walk w called on last, is written.
LEMMA PlaceBehind ==
  ASSUME NEW t, NEW lo, NEW lv, Sound(t, lo, lv), NEW toks, NEW W, Written(t, toks, W),
         NEW s, NEW lo2, NEW lv2, Sound(s, lo2, lv2), NEW c, Matches(s, t, W, c),
         NEW w, Len(w) \in Nat, NEW y,
         IF Len(w) = 0 THEN y = Len(s)
         ELSE /\ w[Len(w)].node \in 1 .. Len(s) /\ s[w[Len(w)].node].kind \in Container
              /\ w[Len(w)].order \in S!SortedOrders(s[w[Len(w)].node])
              /\ w[Len(w)].called \in 0 .. Len(s[w[Len(w)].node].kids)
              /\ w[Len(w)].called # 0 /\ y = Cur(s, w[Len(w)])
  PROVE  Place(t, W, c, w, 0, toks) = W.en[c[y]]
<1>1. CASE Len(w) = 0
  BY <1>1 DEF Place, Matches, Written
<1>2. CASE Len(w) # 0
  <2> DEFINE f == w[Len(w)]
             r == s[f.node]
             n == c[f.node]
             i == f.called
  <2>1. /\ f.node \in 1 .. Len(s) /\ r.kind \in Container
        /\ f.order \in S!SortedOrders(r) /\ i \in 0 .. Len(r.kids)
        /\ i # 0 /\ y = Kid(r, f.order, i)
    BY <1>2 DEF Cur
  <2>2. Place(t, W, c, w, 0, toks) = Edge(t[n], W.ord[n], W, n, i + 1)
    BY <1>2 DEF Place
  <2> HIDE DEF f, i
  <2>3. Len(r.kids) \in Nat
    BY <2>1, SoundNode
  <2>4. i \in 1 .. Len(r.kids) /\ i + 1 # 1 /\ (i + 1) - 1 = i
    BY <2>1, <2>3
  <2>5. f.order[i] = i
    BY <2>1, <2>4, MatchInPlace
  <2>6. Same(r, t[n], W.ord[n], c)
    BY <2>1 DEF Matches
  <2>7. c[y] = Kid(t[n], W.ord[n], i)
    <3>1. r.kind = t[n].kind
      BY <2>6 DEF Same
    <3>2. c[r.kids[i]] = Kid(t[n], W.ord[n], i)
      BY <2>1, <2>4, <2>6, <3>1 DEF Same
    <3> QED
      BY <2>1, <2>5, <3>2 DEF Kid
  <2> QED
    BY <2>2, <2>4, <2>7 DEF Edge
<1> QED
  BY <1>1, <1>2

\* The walk leads on, from again to more, to the i-th child of r, which is made of
\* what the text toks has next.
LedAgain(r, own, again, more, q, order, c, W, toks, n, i) ==
  /\ Same(r, q, order, c) /\ r.kind \in Container
  /\ i \in 1 .. Len(r.kids) /\ own[i] = i
  /\ Joined(q, order, W, toks, n, i)
  /\ Len(again) \in Nat /\ Longer(toks, again) /\ Len(toks) \in Nat
  /\ Len(again) = Edge(q, order, W, n, i)
  /\ Led(r, own, i, again, more)

\* The name and the separator of a child are written again.
LEMMA RetraceLed ==
  ASSUME NEW r, NEW own, NEW again, NEW more, NEW q, NEW order, NEW c, NEW W, NEW toks,
         NEW n, NEW i, LedAgain(r, own, again, more, q, order, c, W, toks, n, i)
  PROVE  Longer(toks, more) /\ Len(more) = W.st[c[r.kids[i]]]
<1>0. /\ Same(r, q, order, c) /\ r.kind \in Container
      /\ i \in 1 .. Len(r.kids) /\ own[i] = i
      /\ Joined(q, order, W, toks, n, i)
      /\ Len(again) \in Nat /\ Longer(toks, again) /\ Len(toks) \in Nat
      /\ Len(again) = Edge(q, order, W, n, i)
      /\ Led(r, own, i, again, more)
  BY DEF LedAgain
<1> DEFINE e == Len(again)
           b == Behind(e, i)
<1>1. /\ r.kind = q.kind /\ c[r.kids[i]] = Kid(q, order, i)
      /\ q.kind = "object" => r.keys[i] = q.keys[order[i]]
  BY <1>0 DEF Same
<1>2. /\ i # 1 => Has(toks, e + 1, S!Tok("comma"))
      /\ IF q.kind = "object"
           THEN /\ Has(toks, b + 1, S!Str(q.keys[order[i]]))
                /\ Has(toks, b + 2, S!Tok("colon"))
                /\ W.st[Kid(q, order, i)] = b + 2
           ELSE W.st[Kid(q, order, i)] = b
  BY <1>0 DEF Joined
<1>3. /\ \A p \in 1 .. e : more[p] = again[p] /\ e <= Len(more)
      /\ i # 1 => Has(more, e + 1, S!Tok("comma"))
      /\ IF r.kind = "object"
           THEN /\ Has(more, b + 1, S!Str(r.keys[own[i]]))
                /\ Has(more, b + 2, S!Tok("colon"))
                /\ Len(more) = b + 2
           ELSE Len(more) = b
  BY <1>0 DEF Led, Longer
<1>4. e \in Nat /\ b = (IF i = 1 THEN e ELSE e + 1)
  BY <1>0 DEF Behind
<1>5. \A p \in 1 .. e : toks[p] = again[p] /\ e <= Len(toks)
  BY <1>0 DEF Longer
<1> HIDE DEF e, b
<1>6. Len(more) = W.st[c[r.kids[i]]]
  BY <1>0, <1>1, <1>2, <1>3
<1>7. i # 1 => toks[e + 1] = more[e + 1] /\ e + 1 <= Len(toks)
  BY <1>2, <1>3 DEF Has
<1>8. r.kind = "object" =>
        /\ toks[b + 1] = more[b + 1] /\ toks[b + 2] = more[b + 2] /\ b + 2 <= Len(toks)
  BY <1>0, <1>1, <1>2, <1>3 DEF Has
<1>9. ASSUME NEW p \in 1 .. Len(more) PROVE toks[p] = more[p]
  <2>1. \/ p \in 1 .. e \/ (i # 1 /\ p = e + 1)
        \/ (r.kind = "object" /\ (p = b + 1 \/ p = b + 2))
    BY <1>3, <1>4
  <2> QED
    BY <1>3, <1>5, <1>7, <1>8, <2>1
<1>10. Len(more) <= Len(toks)
  <2>1. e <= Len(toks)
    BY <1>0 DEF Longer, e
  <2> QED
    BY <1>3, <1>4, <1>7, <1>8, <2>1
<1> QED
  BY <1>6, <1>9, <1>10 DEF Longer

\* Each step of the second emission writes what the first wrote at this place.
LEMMA EmitRetraces ==
  ASSUME SerializerInv, phase = "emit", S!Next,
         NEW t, NEW lo, NEW lv, Sound(t, lo, lv), NEW toks \in Seq(Token), NEW W,
         Written(t, toks, W),
         NEW lo2, NEW lv2, Sound(tree, lo2, lv2), Path(tree, lo2, walk, at),
         NEW c, Matches(tree, t, W, c), Retraced(t, W, c, walk, at, toks, out)
  PROVE  /\ phase' \in {"emit", "done"} /\ UNCHANGED tree
         /\ phase' = "emit" => Retraced(t, W, c, walk', at', toks, out')
         /\ phase' = "done" => out' = toks
<1>1. walk \in Seq(OpenContainer) /\ out \in Seq(Token) /\ Len(walk) \in Nat /\ Len(out) \in Nat
  BY DEF SerializerInv
<1>2. at # 0 =>
        /\ at \in 1 .. Len(tree) /\ c[at] \in W.done /\ c[at] \in 1 .. Len(t)
        /\ Same(tree[at], t[c[at]], W.ord[c[at]], c)
        /\ Placed(t[c[at]], W, toks, c[at]) /\ Len(out) = W.st[c[at]]
        /\ Valid(tree[at]) /\ tree[at].kind = t[c[at]].kind
  <2>1. at # 0 => at \in 1 .. Len(tree)
    <3>1. Len(tree) \in Nat /\ at \in 0 .. Len(tree)
      BY LimitsPositive DEF Sound, Path
    <3> QED
      BY <3>1
  <2> QED
    BY <2>1 DEF Matches, Written, Retraced, Place, Sound, Same
<1>3. Longer(toks, out)
  BY DEF Retraced
<1>4. CASE S!EmitLeaf
  <2>1. /\ at # 0 /\ tree[at].kind \notin Container /\ at' = 0
        /\ out' = Append(out, S!Spelled(tree[at])) /\ UNCHANGED <<tree, phase, walk>>
    BY <1>4, SameContainers DEF S!EmitLeaf
  <2> DEFINE n == c[at]
  <2>2. S!Spelled(tree[at]) = S!Spelled(t[n])
    <3> DEFINE r == tree[at]
               q == t[n]
    <3>1. r.kind = q.kind /\ (IF q.kind = "string" THEN r.str = q.str ELSE r.lit = q.lit)
      BY <1>2, <2>1 DEF Same
    <3> HIDE DEF r, q
    <3>2. S!Spelled(r) = S!Spelled(q)
      BY <3>1 DEF S!Spelled
    <3> QED
      BY <3>2 DEF r, q
  <2>3. S!Spelled(tree[at]) \in Token
    BY <1>2, <2>1 DEF Valid
  <2>4. Has(toks, Len(out) + 1, S!Spelled(tree[at])) /\ W.en[n] = Len(out) + 1
    <3>1. Has(toks, W.en[n], S!Spelled(t[n])) /\ W.en[n] = W.st[n] + 1
      BY <1>2, <2>1 DEF Placed
    <3> QED
      BY <1>2, <2>1, <2>2, <3>1
  <2>5. Longer(toks, out') /\ Len(out') = W.en[n]
    BY <1>1, <1>3, <2>1, <2>3, <2>4, RetraceOne
  <2>6. Place(t, W, c, walk, 0, toks) = W.en[n]
    <3>1. IF Len(walk) = 0 THEN at = Len(tree)
          ELSE /\ walk[Len(walk)].node \in 1 .. Len(tree)
               /\ tree[walk[Len(walk)].node].kind \in Container
               /\ walk[Len(walk)].order \in S!SortedOrders(tree[walk[Len(walk)].node])
               /\ walk[Len(walk)].called \in 0 .. Len(tree[walk[Len(walk)].node].kids)
               /\ walk[Len(walk)].called # 0 /\ at = Cur(tree, walk[Len(walk)])
      <4>1. Len(walk) # 0 => Len(walk) \in 1 .. Len(walk)
        BY <1>1
      <4> QED
        BY <2>1, <4>1 DEF Path
    <3> QED
      BY <1>1, <3>1, PlaceBehind
  <2>7. Retraced(t, W, c, walk', at', toks, out')
    BY <2>1, <2>5, <2>6 DEF Retraced
  <2> QED
    BY <2>1, <2>7
<1>5. CASE S!EmitOpen
  <2>1. /\ at # 0 /\ tree[at].kind \in Container /\ at' = 0 /\ UNCHANGED <<tree, phase>>
        /\ out' = Append(out, OpenTok(tree[at]))
    BY <1>5, SameContainers DEF S!EmitOpen, OpenTok
  <2>2. PICK order \in S!SortedOrders(tree[at]) : walk' = S!Open(at, order)
    BY <1>5 DEF S!EmitOpen
  <2>3. at \in Nat /\ Len(tree[at].kids) \in Nat
    BY <1>2, <2>1, SoundNode
  <2>4. order \in Seq(Nat)
    BY <1>2, <2>1, <2>3, OrderOnce DEF Valid
  <2>5. /\ Len(walk') = Len(walk) + 1
        /\ walk'[Len(walk) + 1] = [node |-> at, order |-> order, called |-> 0, seen |-> {}]
    BY <1>1, <2>2, <2>3, <2>4, OpenIs
  <2>6. Has(toks, Len(out) + 1, OpenTok(tree[at]))
    <3>1. Has(toks, W.st[c[at]] + 1, OpenTok(t[c[at]]))
      BY <1>2, <2>1 DEF Placed, Run
    <3> QED
      BY <1>2, <2>1, <3>1 DEF OpenTok
  <2>7. OpenTok(tree[at]) \in Token
    BY Brackets DEF OpenTok, Structural
  <2>8. Longer(toks, out') /\ Len(out') = W.st[c[at]] + 1
    BY <1>1, <1>2, <1>3, <2>1, <2>6, <2>7, RetraceOne
  <2>9. Place(t, W, c, walk', 0, toks) = W.st[c[at]] + 1
    <3>1. /\ Len(walk') # 0 /\ walk'[Len(walk')].node = at
          /\ walk'[Len(walk')].called + 1 = 1
      BY <1>1, <2>5
    <3> QED
      BY <3>1 DEF Place, Edge
  <2>10. Retraced(t, W, c, walk', at', toks, out')
    BY <2>1, <2>8, <2>9 DEF Retraced
  <2> QED
    BY <2>1, <2>10
<1>6. CASE S!EmitChild
  <2> DEFINE f == walk[Len(walk)]
             r == tree[f.node]
             n == c[f.node]
             q == t[n]
             i == f.called + 1
  <2>1. /\ at = 0 /\ UNCHANGED <<tree, phase>> /\ out' \in Seq(Token)
        /\ Calls(tree, walk, walk', out', out, at')
    BY <1>1, <1>6, ChildCalledOn
  <2>2. /\ Len(walk) # 0 /\ i \in 1 .. Len(r.kids) /\ at' = Kid(r, f.order, i)
        /\ Led(r, f.order, i, out, out')
    BY <2>1 DEF Calls
  <2>3. /\ f.node \in 1 .. Len(tree) /\ r.kind \in Container /\ f.order \in S!SortedOrders(r)
    <3>1. Len(walk) \in 1 .. Len(walk)
      BY <1>1, <2>2
    <3> QED
      BY <3>1 DEF Path
  <2>4. Len(out) = Edge(q, W.ord[n], W, n, i)
    BY <2>1, <2>2 DEF Retraced, Place
  <2> HIDE DEF f, i
  <2>5. f.order[i] = i /\ at' = r.kids[i]
    <3>1. f.order[i] = i
      BY <2>2, <2>3, MatchInPlace
    <3> QED
      BY <2>2, <3>1 DEF Kid
  <2>6. n \in W.done /\ Same(r, q, W.ord[n], c) /\ q.kind \in Container
        /\ Len(r.kids) = Len(q.kids)
    BY <2>3 DEF Matches, Same
  <2>7. Joined(q, W.ord[n], W, toks, n, i)
    BY <2>2, <2>6, PlacedKids
  <2>8. Longer(toks, out') /\ Len(out') = W.st[c[at']]
    <3>1. Len(toks) \in Nat
      OBVIOUS
    <3> DEFINE order == W.ord[n]
               own == f.order
               more == out'
    <3>2. LedAgain(r, own, out, more, q, order, c, W, toks, n, i)
      BY <1>1, <1>3, <2>2, <2>3, <2>4, <2>5, <2>6, <2>7, <3>1 DEF LedAgain
    <3> HIDE DEF r, q, n, order, own, more
    <3>3. Longer(toks, more) /\ Len(more) = W.st[c[r.kids[i]]]
      BY <3>2, RetraceLed
    <3> QED
      BY <2>5, <3>3 DEF more
  <2>9. at' # 0
    <3>1. \A k \in 1 .. Len(r.kids) : Kid(r, f.order, k) \in 1 .. f.node - 1
      BY <2>3, KidIs
    <3>2. Kid(r, f.order, i) \in 1 .. f.node - 1
      BY <2>2, <3>1
    <3> QED
      BY <2>2, <3>2
  <2>10. Retraced(t, W, c, walk', at', toks, out')
    BY <2>8, <2>9 DEF Retraced, Place
  <2> QED
    BY <2>1, <2>10
<1>7. CASE S!EmitClose
  <2> DEFINE l == Len(walk)
             f == walk[l]
             n == c[f.node]
  <2>1. /\ walk # <<>> /\ walk' = S!Front(walk) /\ UNCHANGED <<tree, phase, at>> /\ at = 0
        /\ out' = Append(out, CloseTok(tree[f.node]))
        /\ ~(f.called < Len(f.order))
    BY <1>7 DEF S!EmitClose, S!Emitting, S!MoreChildren, S!Top, CloseTok
  <2>2. /\ Len(walk') = l - 1 /\ l \in Nat /\ l # 0 /\ l \in 1 .. l
        /\ \A k \in 1 .. l - 1 : walk'[k] = walk[k]
    BY <1>1, <2>1, FrontIs
  <2>3. /\ f.node \in 1 .. Len(tree) /\ tree[f.node].kind \in Container
        /\ f.order \in S!SortedOrders(tree[f.node])
        /\ f.called \in 0 .. Len(tree[f.node].kids)
    BY <2>2 DEF Path
  <2>4. f.called = Len(tree[f.node].kids)
    <3> HIDE DEF f
    <3>1. Len(f.order) = Len(tree[f.node].kids) /\ Len(f.order) \in Nat
      BY <2>3, KidIs
    <3> QED
      BY <2>1, <2>3, <3>1
  <2>5. n \in W.done /\ Same(tree[f.node], t[n], W.ord[n], c)
    BY <2>3 DEF Matches
  <2>6. /\ tree[f.node].kind = t[n].kind /\ t[n].kind \in Container
        /\ Len(tree[f.node].kids) = Len(t[n].kids)
    BY <2>3, <2>5 DEF Same
  <2>7. /\ Len(out) = Edge(t[n], W.ord[n], W, n, Len(t[n].kids) + 1)
    BY <2>1, <2>2, <2>4, <2>6 DEF Retraced, Place
  <2>8. Has(toks, Len(out) + 1, CloseTok(tree[f.node])) /\ W.en[n] = Len(out) + 1
    <3>1. Has(toks, W.en[n], CloseTok(t[n]))
          /\ W.en[n] = Edge(t[n], W.ord[n], W, n, Len(t[n].kids) + 1) + 1
      <4> HIDE DEF n
      <4> QED
        BY <2>5, <2>6, PlacedKids
    <3> QED
      BY <2>6, <2>7, <3>1 DEF CloseTok
  <2>9. CloseTok(tree[f.node]) \in Token
    BY Brackets DEF CloseTok, Structural
  <2>10. Longer(toks, out') /\ Len(out') = W.en[n]
    BY <1>1, <1>3, <2>1, <2>8, <2>9, RetraceOne
  <2>11. Place(t, W, c, walk', 0, toks) = W.en[n]
    <3>1. CASE l = 1
      <4>1. Len(walk') = 0 /\ f.node = Len(tree)
        BY <2>2, <3>1 DEF Path
      <4> QED
        BY <4>1 DEF Place, Matches, Written
    <3>2. CASE l # 1
      <4> DEFINE h == walk[l - 1]
      <4>1. l - 1 \in 1 .. l /\ l - 1 < l /\ l - 1 \in 1 .. l - 1 /\ (l - 1) + 1 = l
        BY <2>2, <3>2
      <4>2. /\ h.node \in 1 .. Len(tree) /\ tree[h.node].kind \in Container
            /\ h.order \in S!SortedOrders(tree[h.node])
            /\ h.called \in 0 .. Len(tree[h.node].kids)
            /\ h.called # 0 /\ f.node = Cur(tree, h)
        BY <4>1 DEF Path
      <4>3. Len(walk') \in Nat /\ Len(walk') # 0 /\ walk'[Len(walk')] = h
        BY <2>2, <4>1
      <4> HIDE DEF h, f
      <4> QED
        BY <4>2, <4>3, PlaceBehind
    <3> QED
      BY <3>1, <3>2
  <2>12. Retraced(t, W, c, walk', at', toks, out')
    BY <2>1, <2>10, <2>11 DEF Retraced
  <2> QED
    BY <2>1, <2>12
<1>8. CASE S!Return
  <2>1. at = 0 /\ Len(walk) = 0 /\ phase' = "done" /\ UNCHANGED <<tree, out>>
    BY <1>8 DEF S!Return
  <2>2. Len(out) = Len(toks)
    BY <2>1 DEF Retraced, Place
  <2>3. \A p \in 1 .. Len(out) : toks[p] = out[p]
    BY DEF Retraced, Longer
  <2>4. out = toks
    BY <1>1, <2>2, <2>3
  <2> QED
    BY <2>1, <2>4
<1> QED
  BY <1>4, <1>5, <1>6, <1>7, <1>8
  DEF S!Next, S!NilValue, S!RejectBound, S!ValidateLeaf, S!RejectChildren,
      S!ValidateContainer, S!WithinBounds, S!Called, S!RejectKey, S!RejectDuplicate,
      S!ValidateMember, S!ValidateElement, S!ValidateReturn, S!ObjectNext, S!Looping,
      S!BeginEmit, S!Stop

\* The second emission begins with nothing written.
LEMMA RetraceBegins ==
  ASSUME NEW t, NEW lo, NEW lv, Sound(t, lo, lv), NEW toks \in Seq(Token), NEW W,
         Written(t, toks, W), NEW s, NEW lo2, NEW lv2, Sound(s, lo2, lv2),
         NEW c, Matches(s, t, W, c)
  PROVE  Retraced(t, W, c, <<>>, Len(s), toks, <<>>)
<1>1. Len(s) # 0 /\ Len(toks) \in Nat /\ Len(<<>>) = 0
  BY LimitsPositive DEF Sound
<1>2. W.st[c[Len(s)]] = 0
  BY DEF Matches, Written
<1> QED
  BY <1>1, <1>2 DEF Retraced, Place, Longer

\* The serializer validates the tree, and then begins to write it.
LEMMA ValidateKeeps ==
  ASSUME SerializerInv, phase = "validate", S!Next, SerializerInv'
  PROVE  /\ UNCHANGED tree /\ phase' \in {"validate", "emit"}
         /\ phase' = "emit" => walk' = <<>> /\ at' = Len(tree) /\ out' = <<>>
<1>1. CASE S!BeginEmit
  BY <1>1 DEF S!BeginEmit, S!Root, SerializerInv
<1>2. CASE ~S!BeginEmit
  <2>1. UNCHANGED tree /\ phase' \in {"validate", "done"} /\ (phase' = "done" => result' # "ok")
    BY <1>2
    DEF S!Next, S!NilValue, S!RejectBound, S!ValidateLeaf, S!RejectChildren,
        S!ValidateContainer, S!WithinBounds, S!Called, S!RejectKey, S!RejectDuplicate,
        S!ValidateMember, S!ValidateElement, S!ValidateReturn, S!ObjectNext, S!Looping,
        S!EmitLeaf, S!EmitOpen, S!EmitChild, S!EmitClose, S!Emitting, S!Return, S!Stop,
        S!Fail
  <2> QED
    BY <2>1 DEF SerializerInv
<1> QED
  BY <1>1, <1>2

\* The second call reads the text of the tree of the first,
SecondRead ==
  round = 2 /\ phase = "idle" =>
    \E lo, lv, W : /\ Sound(tree, lo, lv) /\ Written(tree, first, W)
                   /\ Reads(first) /\ Following(tree, lv, W)

\* and writes what it made of that.
SecondWritten(t, lo, lv, W, c) ==
  /\ Sound(t, lo, lv) /\ first \in Seq(Token) /\ Written(t, first, W)
  /\ Matches(tree, t, W, c)
  /\ phase = "emit" => Retraced(t, W, c, walk, at, first, out)
  /\ phase = "done" => out = first

SecondWrite ==
  round = 2 /\ phase # "idle" => \E t, lo, lv, W, c : SecondWritten(t, lo, lv, W, c)

RoundInv ==
  /\ PipelineInv /\ WriteInv
  /\ round \in {1, 2}
  /\ phase # "idle" => pc = "done" /\ outcome = Accepted
  /\ Admitted /\ SecondRead /\ SecondWrite

LEMMA StartRound == Start => RoundInv
BY StartInv DEF Start, Init, RoundInv, WriteInv, Admitted, SecondRead, SecondWrite

LEMMA ParseRound ==
  ASSUME RoundInv, Parse, PipelineInv'
  PROVE  RoundInv'
<1>1. pc # "done" /\ Next /\ UNCHANGED <<round, first, serializer>> /\ phase = "idle"
  BY DEF Parse, RoundInv
<1>2. UNCHANGED <<first, tree, phase, input>>
  BY <1>1, InputKept DEF serializer
<1>3. WriteInv'
  BY <1>1, <1>2 DEF WriteInv
<1>4. ASSUME round = 2 PROVE SecondRead'
  <2>1. PICK t : t = tree
    OBVIOUS
  <2>2. PICK toks : toks = first
    OBVIOUS
  <2>3. PICK lo, lv, W : /\ Sound(t, lo, lv) /\ Written(t, toks, W)
                         /\ Reads(toks) /\ Following(t, lv, W)
    BY <1>1, <1>4, <2>1, <2>2 DEF RoundInv, SecondRead
  <2>4. Following(t, lv, W)'
    BY <1>1, <2>3, FollowNext DEF RoundInv, PipelineInv
  <2>5. Reads(toks)'
    BY <1>2, <2>3 DEF Reads
  <2>6. t = tree' /\ toks = first'
    BY <1>2, <2>1, <2>2
  <2>7. /\ Sound(tree', lo, lv) /\ Written(tree', first', W)
        /\ Reads(first)' /\ Following(tree, lv, W)'
    BY <2>3, <2>4, <2>5, <2>6 DEF Reads, Following
  <2> QED
    BY <2>7 DEF SecondRead
<1>5. SecondRead' /\ SecondWrite'
  BY <1>1, <1>2, <1>4 DEF SecondRead, SecondWrite
<1>6. Admitted'
  BY <1>1, AdmittedNext DEF RoundInv, PipelineInv
<1> QED
  BY <1>1, <1>2, <1>3, <1>5, <1>6 DEF RoundInv

LEMMA HandRound ==
  ASSUME RoundInv, Hand, PipelineInv'
  PROVE  RoundInv'
<1>1. /\ phase = "idle" /\ phase' = "validate" /\ tree' = Parsed /\ pc = "done"
      /\ outcome = Accepted /\ UNCHANGED <<pc, outcome, round, first>>
  BY DEF Hand, vars
<1>2. ASSUME round = 2 PROVE SecondWrite'
  <2>1. PICK t : t = tree
    OBVIOUS
  <2>2. PICK lo, lv, W : /\ Sound(t, lo, lv) /\ Written(t, first, W)
                         /\ Reads(first) /\ Following(t, lv, W)
    BY <1>1, <1>2, <2>1 DEF RoundInv, SecondRead
  <2>3. ReadBack(t, W, nodes)
    BY <1>1, <2>2 DEF Following
  <2>4. PICK c : Matches(Parsed, t, W, c)
    BY <2>2, <2>3, ReadMatches DEF RoundInv, PipelineInv
  <2>5. first \in Seq(Token)
    BY <2>2 DEF Reads
  <2>6. SecondWritten(t, lo, lv, W, c)'
    BY <1>1, <2>2, <2>4, <2>5 DEF SecondWritten
  <2> QED
    BY <2>6 DEF SecondWrite
<1>3. WriteInv' /\ SecondRead' /\ Admitted' /\ (round' = 1 => SecondWrite')
  BY <1>1 DEF WriteInv, SecondRead, SecondWrite, Admitted
<1> QED
  BY <1>1, <1>2, <1>3 DEF RoundInv

LEMMA SerializeRound ==
  ASSUME RoundInv, Serialize, PipelineInv'
  PROVE  RoundInv'
<1>1. /\ phase \in {"validate", "emit"} /\ S!Next
      /\ UNCHANGED <<pc, outcome, round, first>>
  BY DEF Serialize, vars
<1>2. SerializerInv /\ SerializerInv' /\ WriteInv
  BY DEF RoundInv, PipelineInv
<1>3. WriteInv'
  BY <1>1, <1>2, ValidateWrites, EmitWrites
<1>4. CASE phase = "validate"
  <2>1. /\ UNCHANGED tree /\ phase' \in {"validate", "emit"}
        /\ phase' = "emit" => walk' = <<>> /\ at' = Len(tree) /\ out' = <<>>
    BY <1>1, <1>2, <1>4, ValidateKeeps
  <2>2. ASSUME round = 2 PROVE SecondWrite'
    <3>1. PICK t, lo, lv, W, c : SecondWritten(t, lo, lv, W, c)
      BY <1>4, <2>2 DEF RoundInv, SecondWrite
    <3>2. PICK lo2, lv2 : Sound(tree, lo2, lv2)
      BY <1>2, <1>4 DEF SerializerInv
    <3>3. Retraced(t, W, c, <<>>, Len(tree), first, <<>>)
      BY <3>1, <3>2, RetraceBegins DEF SecondWritten
    <3>4. SecondWritten(t, lo, lv, W, c)'
      BY <1>1, <2>1, <3>1, <3>3 DEF SecondWritten
    <3> QED
      BY <3>4 DEF SecondWrite
  <2> QED
    BY <1>1, <1>3, <1>4, <2>1, <2>2 DEF RoundInv, Admitted, SecondRead, SecondWrite
<1>5. CASE phase = "emit"
  <2>1. PICK lo2, lv2 : Sound(tree, lo2, lv2) /\ Path(tree, lo2, walk, at)
    BY <1>2, <1>5 DEF WriteInv
  <2>2. phase' \in {"emit", "done"}
    BY <1>1, <1>5
    DEF S!Next, S!NilValue, S!RejectBound, S!ValidateLeaf, S!RejectChildren,
        S!ValidateContainer, S!WithinBounds, S!Called, S!RejectKey, S!RejectDuplicate,
        S!ValidateMember, S!ValidateElement, S!ValidateReturn, S!ObjectNext, S!Looping,
        S!BeginEmit, S!EmitLeaf, S!EmitOpen, S!EmitChild, S!EmitClose, S!Emitting,
        S!Return, S!Stop
  <2>3. ASSUME round = 2 PROVE SecondWrite'
    <3>1. PICK t, lo, lv, W, c : SecondWritten(t, lo, lv, W, c)
      BY <1>5, <2>3 DEF RoundInv, SecondWrite
    <3>2. PICK toks : toks = first
      OBVIOUS
    <3>3. /\ Sound(t, lo, lv) /\ toks \in Seq(Token) /\ Written(t, toks, W)
          /\ Matches(tree, t, W, c) /\ Retraced(t, W, c, walk, at, toks, out)
      BY <1>5, <3>1, <3>2 DEF SecondWritten
    <3>4. /\ UNCHANGED tree
          /\ phase' = "emit" => Retraced(t, W, c, walk', at', toks, out')
          /\ phase' = "done" => out' = toks
      BY <1>1, <1>2, <1>5, <2>1, <3>3, EmitRetraces
    <3>5. SecondWritten(t, lo, lv, W, c)'
      BY <1>1, <3>2, <3>3, <3>4 DEF SecondWritten
    <3> QED
      BY <3>5 DEF SecondWrite
  <2> QED
    BY <1>1, <1>3, <1>5, <2>2, <2>3 DEF RoundInv, Admitted, SecondRead, SecondWrite
<1> QED
  BY <1>1, <1>4, <1>5

LEMMA AgainRound ==
  ASSUME RoundInv, Again, PipelineInv'
  PROVE  RoundInv'
<1>1. /\ phase = "done" /\ phase' = "idle" /\ round' = 2 /\ first' = out /\ UNCHANGED tree
      /\ input' = Lexed(out) /\ pos' = 0 /\ nodes' = <<>> /\ pc' = "start"
  BY DEF Again
<1>2. out \in Seq(Token)
  BY <1>1 DEF RoundInv, PipelineInv, SerializerInv
<1>3. PICK lo, lv, W : Sound(tree, lo, lv) /\ Written(tree, out, W)
  BY <1>1 DEF RoundInv, WriteInv
<1>4. Reads(first)' /\ Following(tree, lv, W)'
  BY <1>1, <1>2 DEF Reads, Following
<1>5. SecondRead'
  BY <1>1, <1>3, <1>4 DEF SecondRead
<1> QED
  BY <1>1, <1>5 DEF RoundInv, WriteInv, Admitted, SecondWrite

LEMMA StepRound == RoundInv /\ [Step]_allVars => RoundInv'
<1> SUFFICES ASSUME RoundInv, [Step]_allVars PROVE RoundInv'
  OBVIOUS
<1>1. PipelineInv'
  BY StepInv DEF RoundInv
<1>2. CASE Halt \/ UNCHANGED allVars
  <2>1. UNCHANGED allVars
    BY <1>2 DEF Halt
  <2>2. WriteInv' /\ SecondRead' /\ SecondWrite' /\ Admitted'
    BY <2>1 DEF RoundInv, WriteInv, SecondRead, SecondWrite, SecondWritten, Following, Admitted,
                Reads, Size, peek, allVars, vars, serializer
  <2> QED
    BY <1>1, <2>1, <2>2 DEF RoundInv, allVars, vars, serializer
<1> QED
  BY <1>1, <1>2, ParseRound, HandRound, SerializeRound, AgainRound DEF Step

LEMMA AlwaysRound == CallTwice => []RoundInv
BY StartRound, StepRound, PTL DEF CallTwice

\* A second call accepts the output of the first: whatever was read and written, no
\* rule of the grammar and no limit can be in its way but those on the sizes that
\* formatting changes, of the input and of the text of a number.
THEOREM OutputAccepted == CallTwice => []OutputIsAccepted
<1>1. RoundInv => OutputIsAccepted
  BY DEF RoundInv, SecondRead, Following, Refused, OutputIsAccepted
<1> QED
  BY <1>1, AlwaysRound, PTL

\* and it writes the same text again.
THEOREM Idempotence == CallTwice => []Idempotent
<1>1. RoundInv => Idempotent
  BY DEF RoundInv, SecondWrite, SecondWritten, Idempotent
<1> QED
  BY <1>1, AlwaysRound, PTL

\* Every child is written.
LEMMA OrderReaches ==
  ASSUME NEW r, r.kind \in Container, Len(r.kids) \in Nat,
         r.kind = "object" => Len(r.keys) = Len(r.kids),
         NEW order \in S!SortedOrders(r)
  PROVE  \A k \in 1 .. Len(r.kids) : \E i \in 1 .. Len(r.kids) : order[i] = k
<1> DEFINE n == Len(r.kids)
           f == [i \in 1 .. n |-> order[i]]
<1>1. /\ SerializerLimits(Options) \in [SP!LimitName -> Int]
      /\ SerializerLimits(Defaults) \in [SP!LimitName -> Nat \ {0}]
  BY LimitAssumption DEF SerializerLimits, SP!LimitName, LimitName
<1>2. /\ \A i \in 1 .. n : order[i] \in 1 .. n
      /\ \A i, j \in 1 .. n : order[i] = order[j] => i = j
  BY OrderOnce
<1> HIDE DEF n
<1>3. f \in [1 .. n -> 1 .. n] /\ \A i, j \in 1 .. n : i # j => f[i] # f[j]
  BY <1>2
<1>4. n \in Nat
  BY DEF n
<1> HIDE DEF f
<1>5. \A k \in 1 .. n : \E i \in 1 .. n : f[i] = k
  BY <1>1, <1>3, <1>4, SP!Reaches
<1> QED
  BY <1>5 DEF f, n

LEMMA SameCorresponds ==
  ASSUME NEW t, NEW W, NEW s, NEW c, Matches(s, t, W, c),
         W.done \subseteq 1 .. Len(t), Len(s) \in Nat \ {0},
         \A n \in W.done : t[n].kind \in Container =>
           /\ W.ord[n] \in S!SortedOrders(t[n]) /\ Len(t[n].kids) \in Nat
           /\ t[n].kind = "object" => Len(t[n].keys) = Len(t[n].kids)
  PROVE  \E d \in [1 .. Len(s) -> 1 .. Len(t)] : Corresponds(s, t, d)
<1> DEFINE d == [n \in 1 .. Len(s) |-> c[n]]
<1>1. /\ DOMAIN c = 1 .. Len(s) /\ c[Len(s)] = Len(t)
      /\ \A n \in 1 .. Len(s) : c[n] \in W.done /\ Same(s[n], t[c[n]], W.ord[c[n]], c)
  BY DEF Matches
<1>2. d \in [1 .. Len(s) -> 1 .. Len(t)] /\ \A n \in 1 .. Len(s) : d[n] = c[n]
  BY <1>1
<1> HIDE DEF d
<1>3. d[Len(s)] = Len(t)
  BY <1>1, <1>2
<1>4. ASSUME NEW n \in 1 .. Len(s)
      PROVE  /\ s[n].kind = t[d[n]].kind
             /\ s[n].kind \in Container => Len(s[n].kids) = Len(t[d[n]].kids)
             /\ CASE s[n].kind = "object" ->
                       {<<s[n].keys[i], d[s[n].kids[i]]>> : i \in 1 .. Len(s[n].kids)} =
                         {<<t[d[n]].keys[i], t[d[n]].kids[i]>> : i \in 1 .. Len(t[d[n]].kids)}
                  [] s[n].kind = "array" ->
                       \A i \in 1 .. Len(s[n].kids) : d[s[n].kids[i]] = t[d[n]].kids[i]
                  [] s[n].kind = "string" -> s[n].str = t[d[n]].str
                  [] OTHER -> s[n].lit = t[d[n]].lit
  <2> DEFINE r == s[n]
             q == t[d[n]]
             order == W.ord[c[n]]
             m == Len(r.kids)
  <2>1. Same(r, q, order, c) /\ d[n] = c[n] /\ c[n] \in W.done
    BY <1>1, <1>2
  <2>2. q.kind \in Container =>
          /\ order \in S!SortedOrders(q) /\ Len(q.kids) \in Nat
          /\ q.kind = "object" => Len(q.keys) = Len(q.kids)
    BY <2>1
  <2> HIDE DEF r, q, order
  <2>3. CASE q.kind \in Container
    <3>1. /\ r.kind = q.kind /\ m = Len(q.kids) /\ m \in Nat
          /\ \A i \in 1 .. m :
               /\ d[r.kids[i]] = q.kids[order[i]]
               /\ q.kind = "object" => r.keys[i] = q.keys[order[i]]
      BY <1>1, <1>2, <2>1, <2>2, <2>3 DEF Same, Kid
    <3>2. /\ \A i \in 1 .. m : order[i] \in 1 .. m
          /\ \A k \in 1 .. m : \E i \in 1 .. m : order[i] = k
      BY <2>2, <2>3, <3>1, OrderOnce, OrderReaches
    <3> HIDE DEF m
    <3>3. CASE q.kind = "object"
      <4>1. {<<r.keys[i], d[r.kids[i]]>> : i \in 1 .. m} = {<<q.keys[i], q.kids[i]>> : i \in 1 .. m}
        <5> DEFINE A == {<<r.keys[i], d[r.kids[i]]>> : i \in 1 .. m}
                   B == {<<q.keys[i], q.kids[i]>> : i \in 1 .. m}
        <5>1. \A i \in 1 .. m : r.keys[i] = q.keys[order[i]] /\ d[r.kids[i]] = q.kids[order[i]]
          BY <3>1, <3>3
        <5>2. ASSUME NEW i \in 1 .. m PROVE <<r.keys[i], d[r.kids[i]]>> \in B
          <6>1. <<r.keys[i], d[r.kids[i]]>> = <<q.keys[order[i]], q.kids[order[i]]>>
            BY <5>1
          <6> QED
            BY <3>2, <6>1
        <5>3. ASSUME NEW k \in 1 .. m PROVE <<q.keys[k], q.kids[k]>> \in A
          <6>1. PICK i \in 1 .. m : order[i] = k
            BY <3>2
          <6>2. <<q.keys[k], q.kids[k]>> = <<r.keys[i], d[r.kids[i]]>>
            BY <5>1, <6>1
          <6> QED
            BY <6>2
        <5>4. A \subseteq B
          BY <5>2
        <5>5. B \subseteq A
          BY <5>3
        <5> HIDE DEF A, B
        <5>6. A = B
          BY <5>4, <5>5
        <5> QED
          BY <5>6 DEF A, B
      <4> QED
        BY <3>1, <3>3, <4>1 DEF r, q, m
    <3>4. CASE q.kind # "object"
      <4>1. q.kind = "array"
        BY <2>3, <3>4 DEF Container
      <4>2. \A i \in 1 .. m : order[i] = i
        BY <2>2, <2>3, <3>1, <4>1 DEF S!SortedOrders
      <4>3. \A i \in 1 .. m : d[r.kids[i]] = q.kids[i]
        BY <3>1, <4>2
      <4> QED
        BY <3>1, <4>1, <4>3 DEF r, q, m
    <3> QED
      BY <3>3, <3>4
  <2>4. CASE q.kind \notin Container
    <3>1. /\ r.kind = q.kind
          /\ IF q.kind = "string" THEN r.str = q.str ELSE r.lit = q.lit
      BY <2>1, <2>4 DEF Same
    <3>2. q.kind # "object" /\ q.kind # "array" /\ r.kind \notin Container
      BY <2>4, <3>1 DEF Container
    <3> QED
      BY <3>1, <3>2 DEF r, q
  <2> QED
    BY <2>3, <2>4
<1>5. Corresponds(s, t, d)
  BY <1>3, <1>4 DEF Corresponds
<1> QED
  BY <1>2, <1>5

\* It means the same: what the second call reads corresponds to what the first call
\* wrote, node by node, the elements of arrays in order and the members of objects
\* as sets.
THEOREM OutputKeepsMeaning == CallTwice => []OutputMeansInput
<1>1. ASSUME RoundInv, round = 2, outcome = Accepted, phase = "idle"
      PROVE  \E c \in [1 .. Len(nodes) -> 1 .. Len(tree)] : Corresponds(Parsed, tree, c)
  <2>1. PICK lo, lv, W : /\ Sound(tree, lo, lv) /\ Written(tree, first, W)
                         /\ Following(tree, lv, W)
    BY <1>1 DEF RoundInv, SecondRead
  <2>2. pc = "done"
    BY <1>1 DEF RoundInv, PipelineInv, IInv, ControlInv, Accepted, Pending
  <2>3. ReadBack(tree, W, nodes) /\ Len(nodes) # 0
    BY <1>1, <2>1, <2>2 DEF Following, ReadBack
  <2>4. PICK c : Matches(Parsed, tree, W, c)
    BY <1>1, <2>1, <2>3, ReadMatches DEF RoundInv, PipelineInv
  <2>5. Len(Parsed) = Len(nodes) /\ Len(nodes) \in Nat \ {0}
    BY <1>1, <2>3 DEF RoundInv, PipelineInv, IInv, TypeOK, Parsed
  <2>6. W.done \subseteq 1 .. Len(tree)
    BY <2>1 DEF Written
  <2>7. ASSUME NEW n \in W.done, tree[n].kind \in Container
        PROVE  /\ W.ord[n] \in S!SortedOrders(tree[n]) /\ Len(tree[n].kids) \in Nat
               /\ tree[n].kind = "object" => Len(tree[n].keys) = Len(tree[n].kids)
    <3>1. W.ord[n] \in S!SortedOrders(tree[n]) /\ Len(tree[n].kids) \in Nat
      BY <2>1, <2>7, PlacedKids
    <3>2. Valid(tree[n])
      BY <2>1, <2>6 DEF Sound
    <3> QED
      BY <3>1, <3>2 DEF Valid
  <2>8. \E d \in [1 .. Len(Parsed) -> 1 .. Len(tree)] : Corresponds(Parsed, tree, d)
    BY <2>4, <2>5, <2>6, <2>7, SameCorresponds
  <2> QED
    BY <2>5, <2>8
<1>2. RoundInv => OutputMeansInput
  BY <1>1 DEF OutputMeansInput
<1> QED
  BY <1>2, AlwaysRound, PTL

================================================================================
