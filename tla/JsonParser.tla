------------------------------ MODULE JsonParser ------------------------------
(***************************************************************************)
(* The strict parser of jcstoken, over lexemes.  An input is a sequence of *)
(* lexemes, each standing for one fixed piece of text: a structural        *)
(* character, one whitespace byte, a literal or number token, or a whole   *)
(* quoted string.  What happens inside a string or a number is abstracted  *)
(* to its result: the decoded key, or the class of the error raised there. *)
(* Literals have a fixed spelling and number tokens start with a minus     *)
(* sign, so that two adjacent lexemes never merge into one.                *)
(*                                                                         *)
(* The recursion of parseValue is the explicit stack of open containers;   *)
(* a completed value is appended to nodes, so the value a call returns is  *)
(* the last node, and a container names its children by index.             *)
(***************************************************************************)
EXTENDS Integers, Sequences, JcsErrors

LOCAL INSTANCE Functions

CONSTANTS
  Inputs,       \* the inputs considered, a set of sequences of lexemes
  Scalars,      \* lexemes of valid literals and numbers
  Strings,      \* lexemes of valid strings, one per spelling
  BadScalars,   \* lexemes on which parseNumber, parseBool or parseNull fails
  BadStrings,   \* lexemes on which parseString fails after the opening quote
  Keys,         \* decoded strings
  NoKey,        \* marks a container whose next key is not read yet
  Decode,       \* [Strings -> Keys], the text a spelling stands for
  Fault,        \* [BadScalars \cup BadStrings -> InputClass]
  Width,        \* the bytes of each lexeme
  Options,      \* the caller's limits; zero or less asks for the default
  Defaults      \* the built-in limits

LimitName ==
  {"maxDepth", "maxInputSize", "maxValues", "maxObjectMembers", "maxArrayElements",
   "maxStringBytes", "maxNumberChars"}

Structural == {"lbrace", "rbrace", "lbrack", "rbrack", "colon", "comma"}

\* "badutf8" is a maximal run of bytes at which UTF-8 validation fails.
Lexeme ==
  Structural \cup {"ws", "badutf8"} \cup Scalars \cup Strings \cup BadScalars
    \cup BadStrings

ASSUME LexemeAssumption ==
  /\ Inputs \subseteq Seq(Lexeme)
  /\ (Scalars \cup BadScalars) \cap (Strings \cup BadStrings) = {}
  /\ Scalars \cap BadScalars = {}
  /\ Strings \cap BadStrings = {}
  /\ (Scalars \cup Strings \cup BadScalars \cup BadStrings)
       \cap (Structural \cup {"ws", "badutf8", "eof"}) = {}

ASSUME WidthAssumption == Width \in [Lexeme -> Nat \ {0}]

ASSUME DecodeAssumption ==
  /\ Decode \in [Strings -> Keys]
  /\ NoKey \notin Keys
  /\ Fault \in [BadScalars \cup BadStrings -> InputClass]

ASSUME LimitAssumption ==
  /\ Options \in [LimitName -> Int]
  /\ Defaults \in [LimitName -> Nat \ {0}]

resolveOption(name) == IF Options[name] > 0 THEN Options[name] ELSE Defaults[name]

maxDepth == resolveOption("maxDepth")
maxInputSize == resolveOption("maxInputSize")
maxValues == resolveOption("maxValues")

\* The bound on the children of one container, by kind.
maxChildren(kind) ==
  resolveOption(IF kind = "object" THEN "maxObjectMembers" ELSE "maxArrayElements")

--------------------------------------------------------------------------------

VARIABLES
  input,       \* data
  pos,         \* p.pos, the number of lexemes consumed
  depth,       \* p.depth
  valueCount,  \* p.valueCount
  stack,       \* the containers open on the Go call stack, innermost last
  nodes,       \* the values completed so far, in completion order
  pc,          \* where the parser is
  outcome      \* what ParseWithOptions returned

vars == <<input, pos, depth, valueCount, stack, nodes, pc, outcome>>

Container == {"object", "array"}

\* A Value.  keys and kids are the two columns of Members; an array has no keys.
Node ==
  [kind : {"scalar", "string"} \cup Container,
   text : Scalars \cup Keys \cup {""},
   keys : Seq(Keys),
   kids : Seq(Nat)]

\* A container under construction: its value so far, the keys of the seen map,
\* and the key read whose value is not appended yet.
Frame ==
  [kind : Container, keys : Seq(Keys), kids : Seq(Nat),
   seen : SUBSET Keys, key : Keys \cup {NoKey}]

Pending == [class |-> "pending", offset |-> 0]
Accepted == [class |-> "ok", offset |-> 0]

Outcome == [class : InputClass \cup {"pending", "ok"}, offset : Nat]

TypeOK ==
  /\ input \in Seq(Lexeme)
  /\ pos \in Nat
  /\ depth \in Int
  /\ valueCount \in Nat
  /\ stack \in Seq(Frame)
  /\ nodes \in Seq(Node)
  /\ pc \in {"start", "value", "key", "return", "done"}
  /\ outcome \in Outcome

--------------------------------------------------------------------------------

\* p.peek: the lexeme at offset p, if there is one.
peek(p) == IF p < Len(input) THEN input[p + 1] ELSE "eof"

\* The offset at which skipWhitespace stops: a set with exactly one element.
skipWhitespace(p) ==
  {q \in p .. Len(input) :
     peek(q) # "ws" /\ \A i \in p .. q - 1 : peek(i) = "ws"}

\* An error that unwinds every open container, running its deferred popDepth.
Unwind(class, offset, reached) ==
  /\ outcome' = [class |-> class, offset |-> offset]
  /\ pc' = "done"
  /\ pos' = reached
  /\ depth' = depth - Len(stack)
  /\ stack' = <<>>
  /\ UNCHANGED nodes

\* newError: the error is reported where the parser stands.
newError(class, p) == Unwind(class, p, p)

expectFails_NotConsumed(p) == newError("INVALID_GRAMMAR", p)

\* p.expect on anything else: the unwanted byte is consumed before the report.
expectFails(p) ==
  newError("INVALID_GRAMMAR", IF peek(p) = "eof" THEN p ELSE p + 1)

\* A value is complete and parseValue returns it, leaving the parser at p.
Complete(node, p) ==
  /\ nodes' = Append(nodes, node)
  /\ pos' = p
  /\ pc' = "return"
  /\ UNCHANGED outcome

Leaf(lexeme) ==
  IF lexeme \in Strings
    THEN [kind |-> "string", text |-> Decode[lexeme], keys |-> <<>>, kids |-> <<>>]
    ELSE [kind |-> "scalar", text |-> lexeme, keys |-> <<>>, kids |-> <<>>]

Closed(frame) ==
  [kind |-> frame.kind, text |-> "", keys |-> frame.keys, kids |-> frame.kids]

Opener(kind) == IF kind = "object" THEN "lbrace" ELSE "lbrack"
Closer(kind) == IF kind = "object" THEN "rbrace" ELSE "rbrack"

NewFrame(kind) ==
  [kind |-> kind, keys |-> <<>>, kids |-> <<>>, seen |-> {}, key |-> NoKey]

Top == stack[Len(stack)]
ReplaceTop(frame) == [stack EXCEPT ![Len(stack)] = frame]
Pop == [i \in 1 .. Len(stack) - 1 |-> stack[i]]

--------------------------------------------------------------------------------

Init ==
  /\ input \in Inputs
  /\ pos = 0
  /\ depth = 0
  /\ valueCount = 0
  /\ stack = <<>>
  /\ nodes = <<>>
  /\ pc = "start"
  /\ outcome = Pending

\* len(data)
Size(text) == SumFunction([i \in 1 .. Len(text) |-> Width[text[i]]])

ValidUTF8 == \A i \in 1 .. Len(input) : input[i] # "badutf8"

RejectOversize ==
  /\ pc = "start"
  /\ Size(input) > maxInputSize
  /\ Unwind("BOUND_EXCEEDED", 0, pos)
  /\ UNCHANGED <<input, valueCount>>

RejectInvalidUTF8 ==
  /\ pc = "start"
  /\ Size(input) <= maxInputSize
  /\ \E first \in 0 .. Len(input) - 1 :
       /\ peek(first) = "badutf8"
       /\ \A i \in 0 .. first - 1 : peek(i) # "badutf8"
       /\ Unwind("INVALID_UTF8", first, pos)
  /\ UNCHANGED <<input, valueCount>>

Begin ==
  /\ pc = "start"
  /\ Size(input) <= maxInputSize
  /\ ValidUTF8
  /\ pos' \in skipWhitespace(pos)
  /\ pc' = "value"
  /\ UNCHANGED <<input, depth, valueCount, stack, nodes, outcome>>

--------------------------------------------------------------------------------

CountValue_LeavesOnly ==
  /\ pc = "value"
  /\ valueCount' = IF peek(pos) \in {"lbrace", "lbrack"} THEN valueCount ELSE valueCount + 1
  /\ UNCHANGED input

\* parseValue counts the value before it looks at the input.
CountValue ==
  /\ pc = "value"
  /\ valueCount' = valueCount + 1
  /\ UNCHANGED input

RejectValueCount ==
  /\ CountValue
  /\ valueCount + 1 > maxValues
  /\ newError("BOUND_EXCEEDED", pos)

ValueAt(lexemes) ==
  /\ CountValue
  /\ valueCount + 1 <= maxValues
  /\ peek(pos) \in lexemes

ParseLeaf ==
  /\ ValueAt(Scalars \cup Strings)
  /\ Complete(Leaf(peek(pos)), pos + 1)
  /\ UNCHANGED <<depth, stack>>

RejectLeaf ==
  /\ ValueAt(BadScalars \cup BadStrings)
  /\ newError(Fault[peek(pos)], pos)

\* The end of the input, or a byte no value starts with: parseNumber rejects
\* the latter where it stands.
RejectNonValue ==
  /\ ValueAt((Structural \ {"lbrace", "lbrack"}) \cup {"eof", "ws", "badutf8"})
  /\ newError("INVALID_GRAMMAR", pos)

TooDeep_OffByOne == depth + 1 >= maxDepth

TooDeep == depth + 1 > maxDepth

\* pushDepth fails before its popDepth is deferred.
RejectDepth ==
  /\ ValueAt({"lbrace", "lbrack"})
  /\ TooDeep
  /\ outcome' = [class |-> "BOUND_EXCEEDED", offset |-> pos]
  /\ pc' = "done"
  /\ depth' = depth + 1 - Len(stack)
  /\ stack' = <<>>
  /\ UNCHANGED <<pos, nodes>>

\* parseObject and parseArray up to the first key or element.
Enter(kind) ==
  /\ ValueAt({Opener(kind)})
  /\ ~TooDeep
  /\ \E q \in skipWhitespace(pos + 1) :
       \/ /\ peek(q) = "eof"
          /\ newError("INVALID_GRAMMAR", q)
       \/ /\ peek(q) = Closer(kind)
          /\ Complete(Closed(NewFrame(kind)), q + 1)
          /\ UNCHANGED <<depth, stack>>
       \/ /\ peek(q) \notin {"eof", Closer(kind)}
          /\ depth' = depth + 1
          /\ stack' = Append(stack, NewFrame(kind))
          /\ pos' = q
          /\ pc' = IF kind = "object" THEN "key" ELSE "value"
          /\ UNCHANGED <<nodes, outcome>>

EnterObject == Enter("object")
EnterArray == Enter("array")

--------------------------------------------------------------------------------

\* parseObject's loop up to the value: the key, the duplicate check on the
\* decoded key, and the colon.
ReadKey ==
  /\ pc = "key"
  /\ UNCHANGED <<input, valueCount>>

RejectNonKey ==
  /\ ReadKey
  /\ \E q \in skipWhitespace(pos) :
       peek(q) \notin Strings \cup BadStrings /\ expectFails(q)

RejectKey ==
  /\ ReadKey
  /\ \E q \in skipWhitespace(pos) :
       peek(q) \in BadStrings /\ newError(Fault[peek(q)], q)

RejectDuplicate_AfterKey ==
  /\ ReadKey
  /\ \E q \in skipWhitespace(pos) :
       /\ peek(q) \in Strings
       /\ Decode[peek(q)] \in Top.seen
       /\ Unwind("DUPLICATE_KEY", q + 1, q + 1)

\* The duplicate is reported at the start of the second spelling.
RejectDuplicate ==
  /\ ReadKey
  /\ \E q \in skipWhitespace(pos) :
       /\ peek(q) \in Strings
       /\ Decode[peek(q)] \in Top.seen
       /\ Unwind("DUPLICATE_KEY", q, q + 1)

NewKey_Unchecked(q) == peek(q) \in Strings

NewKey(q) == peek(q) \in Strings /\ Decode[peek(q)] \notin Top.seen

RejectNoColon ==
  /\ ReadKey
  /\ \E q \in skipWhitespace(pos) :
       /\ NewKey(q)
       /\ \E r \in skipWhitespace(q + 1) : peek(r) # "colon" /\ expectFails(r)

ParseKey ==
  /\ ReadKey
  /\ \E q \in skipWhitespace(pos) :
       /\ NewKey(q)
       /\ \E r \in skipWhitespace(q + 1) :
            peek(r) = "colon" /\ pos' \in skipWhitespace(r + 1)
       /\ stack' = ReplaceTop([Top EXCEPT !.seen = @ \cup {Decode[peek(q)]},
                                          !.key = Decode[peek(q)]])
  /\ pc' = "value"
  /\ UNCHANGED <<depth, nodes, outcome>>

--------------------------------------------------------------------------------

Returning ==
  /\ pc = "return"
  /\ UNCHANGED <<input, valueCount>>

ReturnTo(kind) ==
  /\ Returning
  /\ stack # <<>>
  /\ Top.kind = kind

Full_OffByOne(frame) == Len(frame.kids) > maxChildren(frame.kind)

Full(frame) == Len(frame.kids) >= maxChildren(frame.kind)

\* The child bound is checked after the child has been parsed.
RejectChild ==
  /\ Returning
  /\ stack # <<>>
  /\ Full(Top)
  /\ newError("BOUND_EXCEEDED", pos)

Adopt_KeysReversed(frame) ==
  [frame EXCEPT !.keys = IF frame.kind = "object" THEN <<frame.key>> \o @ ELSE @,
                !.kids = Append(@, Len(nodes)),
                !.key = NoKey]

\* The frame with the returned value appended.
Adopt(frame) ==
  [kind |-> frame.kind,
   keys |-> IF frame.kind = "object" THEN Append(frame.keys, frame.key) ELSE frame.keys,
   kids |-> Append(frame.kids, Len(nodes)),
   seen |-> frame.seen,
   key |-> NoKey]

Leave_WithoutPop(q) ==
  /\ Complete(Closed(Adopt(Top)), q + 1)
  /\ stack' = Pop
  /\ UNCHANGED depth

\* The container is returned, and its deferred popDepth runs.
Leave(q) ==
  /\ Complete(Closed(Adopt(Top)), q + 1)
  /\ stack' = Pop
  /\ depth' = depth - 1

Resume(kind) ==
  /\ ReturnTo(kind)
  /\ ~Full(Top)
  /\ \E q \in skipWhitespace(pos) :
       \/ peek(q) = Closer(kind) /\ Leave(q)
       \/ /\ peek(q) = "comma"
          /\ stack' = ReplaceTop(Adopt(Top))
          /\ IF kind = "object"
               THEN pos' = q + 1 /\ pc' = "key"
               ELSE pos' \in skipWhitespace(q + 1) /\ pc' = "value"
          /\ UNCHANGED <<depth, nodes, outcome>>
       \/ /\ peek(q) \notin {Closer(kind), "comma"}
          /\ newError("INVALID_GRAMMAR", q)

ResumeObject == Resume("object")
ResumeArray == Resume("array")

Finish_TrailingIgnored ==
  /\ Returning
  /\ stack = <<>>
  /\ outcome' = Accepted
  /\ pc' = "done"
  /\ UNCHANGED <<pos, depth, stack, nodes>>

\* Back in ParseWithOptions: only whitespace may follow the value.
Finish ==
  /\ Returning
  /\ stack = <<>>
  /\ \E q \in skipWhitespace(pos) :
       \/ /\ peek(q) = "eof"
          /\ outcome' = Accepted
          /\ pc' = "done"
          /\ pos' = q
          /\ UNCHANGED <<depth, stack, nodes>>
       \/ /\ peek(q) # "eof"
          /\ newError("INVALID_GRAMMAR", q)

Stop == pc = "done" /\ UNCHANGED vars

Next ==
  \/ RejectOversize \/ RejectInvalidUTF8 \/ Begin
  \/ RejectValueCount \/ ParseLeaf \/ RejectLeaf \/ RejectNonValue
  \/ RejectDepth \/ EnterObject \/ EnterArray
  \/ RejectNonKey \/ RejectKey \/ RejectDuplicate \/ RejectNoColon \/ ParseKey
  \/ RejectChild \/ ResumeObject \/ ResumeArray \/ Finish
  \/ Stop

Spec == Init /\ [][Next]_vars

\* The parser is a terminating sequential function: it takes its next step.
FairSpec == Spec /\ WF_vars(Next)

--------------------------------------------------------------------------------
(* Properties *)

\* An accepted value has no two members of one object with the same decoded
\* key, whatever their spelling (IJSON-DUP-001, IJSON-DUP-002).
UniqueKeys ==
  \A n \in 1 .. Len(nodes) :
    \A i, j \in 1 .. Len(nodes[n].keys) :
      nodes[n].keys[i] = nodes[n].keys[j] => i = j

\* p.depth is the number of open containers and stays within the limit; the
\* deferred popDepth calls bring it back to zero when the parse succeeds.
DepthBalanced ==
  /\ pc # "done" => depth = Len(stack) /\ depth <= maxDepth
  /\ outcome = Accepted => depth = 0

\* valueCount is exact: values completed plus containers still open, so an
\* accepted text has as many values as it has nodes, within the limit.
ValueCountExact ==
  /\ pc # "done" => valueCount = Len(nodes) + Len(stack)
  /\ outcome = Accepted => valueCount = Len(nodes)
  /\ Len(nodes) + Len(stack) <= maxValues

\* No container, open or complete, exceeds its child bound, and every member
\* of a completed object has both a key and a value.
ChildrenBounded ==
  /\ \A n \in 1 .. Len(nodes) :
       /\ nodes[n].kind \in Container =>
            Len(nodes[n].kids) <= maxChildren(nodes[n].kind)
       /\ nodes[n].kind = "object" => Len(nodes[n].keys) = Len(nodes[n].kids)
  /\ \A i \in 1 .. Len(stack) : Len(stack[i].kids) <= maxChildren(stack[i].kind)

\* Only whitespace lies between these offsets.
Blank(p, q) == p <= q /\ \A i \in p .. q - 1 : peek(i) = "ws"

\* What stands between p and the value at q: in an object the key and a colon.
Leads(kind, key, p, q) ==
  IF kind = "array" THEN Blank(p, q)
  ELSE \E k, c \in p .. q :
         /\ Blank(p, k) /\ peek(k) \in Strings /\ Decode[peek(k)] = key
         /\ Blank(k + 1, c) /\ peek(c) = "colon" /\ Blank(c + 1, q)

\* Behind the opening bracket at o, or behind child i.
EndOf(kids, o, i, to) == IF i = 0 THEN o + 1 ELSE to[kids[i]]

\* Child i of the container opened at o is due at p, for the first one or a comma
\* has been read.
Due(kids, o, i, p, to) ==
  IF i = 1 THEN p = o + 1
  ELSE Blank(EndOf(kids, o, i - 1, to), p - 1) /\ peek(p - 1) = "comma"

\* The container r, complete or open, is opened at o and has these children.
Holds(r, o, from, to) ==
  /\ peek(o) = Opener(r.kind)
  /\ \A i \in 1 .. Len(r.kids) :
       \E p \in 1 .. Len(input) :
         /\ Due(r.kids, o, i, p, to)
         /\ Leads(r.kind, r.keys[i], p, from[r.kids[i]])

\* The text of the value r is that from offset o up to offset e.
Spelled(r, o, e, from, to) ==
  IF r.kind \in Container
    THEN /\ Holds(r, o, from, to)
         /\ Blank(EndOf(r.kids, o, Len(r.kids), to), e - 1)
         /\ peek(e - 1) = Closer(r.kind)
    ELSE /\ e = o + 1
         /\ IF r.kind = "string" THEN peek(o) \in Strings /\ r.text = Decode[peek(o)]
            ELSE peek(o) \in Scalars /\ r.text = peek(o)

\* The next child of the open container f begins at q, or its key is read there.
Continues(f, o, q, mode, to) ==
  \E p \in 1 .. Len(input) :
    /\ Due(f.kids, o, Len(f.kids) + 1, p, to)
    /\ IF mode = "key" THEN Blank(p, q) ELSE Leads(f.kind, f.key, p, q)

\* The whole text up to p is that of the open containers and the value returned:
\* at gives the places of the openers, and last that of the next or last value.
Consumed(ns, st, mode, p, from, to, at) ==
  /\ \A n \in 1 .. Len(ns) : Spelled(ns[n], from[n], to[n], from, to)
  /\ \A k \in 1 .. Len(st) :
       /\ Holds(st[k], at[k], from, to)
       /\ Continues(st[k], at[k], at[k + 1], IF k = Len(st) THEN mode ELSE "value", to)
  /\ Blank(0, at[1])
  /\ IF mode \in {"value", "key"} THEN at[Len(st) + 1] = p
     ELSE at[Len(st) + 1] = from[Len(ns)] /\ Blank(to[Len(ns)], p)
  /\ mode = "return" => to[Len(ns)] = p
  /\ mode = "done" => p = Len(input)

Offsets(lexemes) == {p \in 0 .. Len(input) - 1 : peek(p) \in lexemes}

\* Nothing is lost, invented, reordered or attached to the wrong container: at
\* every point the open containers and the values completed so far are those of
\* the text consumed, and an accepted value is that of the whole input.
TreeSpellsInput ==
  pc \in {"value", "key", "return"} \/ outcome = Accepted =>
    LET Containers == {n \in 1 .. Len(nodes) : nodes[n].kind \in Container}
        Ends == {p + 1 : p \in Offsets(Scalars \cup Strings \cup {"rbrace", "rbrack"})}
        Openers == Offsets({"lbrace", "lbrack"})
    IN \E to \in [1 .. Len(nodes) -> Ends] :
       \E start \in [Containers -> Openers], opens \in [1 .. Len(stack) -> Openers] :
         LET from == [n \in 1 .. Len(nodes) |->
                        IF n \in Containers THEN start[n] ELSE to[n] - 1]
             at == [k \in 1 .. Len(stack) + 1 |->
                      IF k <= Len(stack) THEN opens[k]
                      ELSE IF pc \in {"value", "key"} THEN pos ELSE from[Len(nodes)]]
         IN Consumed(nodes, stack, pc, pos, from, to, at)

================================================================================
