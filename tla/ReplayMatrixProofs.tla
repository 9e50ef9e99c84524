--------------------------- MODULE ReplayMatrixProofs ---------------------------
(***************************************************************************)
(* What RunMatrix guarantees for any matrix, profile and commands: its     *)
(* state is well typed, every replay is followed by its cleanup, no replay *)
(* starts on a node that is still dirty, and success means that every      *)
(* required replay of this run succeeded and has one sound record.         *)
(***************************************************************************)
EXTENDS ReplayMatrix, FiniteSetTheorems, NaturalsInduction, WellFoundedInduction, TLAPS

Current == <<node, index>>

\* The required replays before the current one, in the order of the loops.
Past == {p \in RequiredPairs : p[1] < node \/ (p[1] = node /\ p[2] < index)}

ControlInv ==
  /\ command # "none" => pc \in Steps
  /\ result # "running" => pc = "done"
  /\ pc = "done" => result # "running"

\* The last adapter call is a replay exactly while its command runs and until
\* its cleanup is called, and then it is the current replay.
CallsInv ==
  /\ \A k \in 1 .. Len(attempts) - 1 :
       attempts[k][1] = "replay" =>
         attempts[k + 1] = <<"cleanup", attempts[k][2], attempts[k][3]>>
  /\ attempts # <<>> /\ attempts[Len(attempts)][1] = "replay" =>
       /\ attempts[Len(attempts)] = <<"replay", node, index>>
       /\ (pc = "cleanup" /\ command = "none") \/ (pc = "replay" /\ command # "none")
  /\ (pc = "cleanup" /\ command = "none") \/ (pc = "replay" /\ command # "none") =>
       attempts # <<>> /\ attempts[Len(attempts)] = <<"replay", node, index>>

\* The replays that succeeded are those before the current one and, from its
\* success on, the current one.
RanInv ==
  /\ pc \in {"adapter", "prepare", "replay"} => ran = Past
  /\ pc = "load" \/ (pc = "cleanup" /\ ~runErr) => ran = Past \cup {Current}
  /\ pc = "judge" \/ result = "ok" => ran = RequiredPairs

\* Only the current node may be dirty, from its replay to its cleanup.
ColdInv ==
  \A n \in dirty \cap HasCleanup :
    /\ n = node
    /\ (pc = "replay" /\ command # "none") \/ pc \in {"cleanup", "done"}

\* One record is loaded for each replay, so in the end there are as many as
\* pairs are required; success means that they passed the validation.
CountInv ==
  /\ pc \notin {"judge", "done"} => Len(runs) = Cardinality(Past)
  /\ pc = "judge" \/ result = "ok" => Len(runs) = Cardinality(RequiredPairs)
  /\ result = "ok" => ValidateEvidenceBundle(runs, aggregate, profile.hardReleaseGate)

IInv == TypeOK /\ ControlInv /\ CallsInv /\ RanInv /\ ColdInv /\ CountInv

--------------------------------------------------------------------------------
(* The order of the loops. *)

LEMMA Decoded ==
  \A i \in DOMAIN matrix.nodes :
    matrix.nodes[i] \in NodeSpecs /\ ValidNode(matrix.nodes[i]) /\ matrix.nodes[i].id \in Nat
<1>1. \A i \in DOMAIN matrix.nodes : matrix.nodes[i] \in NodeSpecs
  BY DecodedAssumption
<1>2. \A i \in DOMAIN matrix.nodes : ValidNode(matrix.nodes[i])
  BY PolicyAssumption DEF ValidateMatrix
<1>3. \A n \in NodeSpecs : n.id \in Nat
  BY DEF NodeSpecs
<1> QED
  BY <1>1, <1>2, <1>3

\* The code finds the entry of every node.
LEMMA NodeFound ==
  ASSUME NEW n \in Nodes
  PROVE  Node(n) \in NodeSpecs /\ ValidNode(Node(n))
<1>1. PICK i \in DOMAIN matrix.nodes : matrix.nodes[i].id = n
  BY DEF Nodes
<1> DEFINE k == CHOOSE j \in DOMAIN matrix.nodes : matrix.nodes[j].id = n
<1>2. k \in DOMAIN matrix.nodes /\ Node(n) = matrix.nodes[k]
  BY <1>1 DEF Node
<1> QED
  BY <1>2, Decoded

\* What the loops rest on follows from the validation of matrix and profile.
LEMMA Required ==
  /\ requiredNodeIDs \subseteq Nat /\ requiredNodeIDs \subseteq Nodes /\ requiredNodeIDs # {}
  /\ \A n \in requiredNodeIDs : requiredReplayCount(n) \in Nat /\ 1 <= requiredReplayCount(n)
  /\ \A n \in requiredNodeIDs : "replay" \in Node(n).commands
<1>1. Nodes \subseteq Nat /\ Nodes # {}
  <2>1. Nodes \subseteq Nat
    BY Decoded DEF Nodes
  <2>2. \E i \in DOMAIN matrix.nodes : matrix.nodes[i].mode = "vm"
    BY PolicyAssumption DEF ValidateMatrix, NodeModes
  <2> QED
    BY <2>1, <2>2 DEF Nodes
<1>2. requiredNodeIDs \subseteq Nodes /\ requiredNodeIDs # {}
  BY <1>1, DecodedAssumption, PolicyAssumption DEF requiredNodeIDs, RequiredPresent
<1>3. \A n \in requiredNodeIDs : Node(n) \in NodeSpecs /\ ValidNode(Node(n))
  BY <1>2, NodeFound
<1>4. ASSUME NEW n \in requiredNodeIDs
      PROVE  /\ requiredReplayCount(n) \in Nat /\ 1 <= requiredReplayCount(n)
             /\ "replay" \in Node(n).commands
  <2>1. Node(n).replays \in Int /\ "replay" \in Node(n).commands
    BY <1>3, <1>4 DEF NodeSpecs, ValidNode
  <2>2. profile.minColdReplays \in Int /\ profile.minColdReplays >= 1
    BY DecodedAssumption, PolicyAssumption DEF ValidateProfile
  <2>3. requiredReplayCount(n) \in Int /\ requiredReplayCount(n) >= 1
    BY <2>1, <2>2 DEF requiredReplayCount
  <2> QED
    BY <2>1, <2>3
<1> QED
  BY <1>1, <1>2, <1>4

LEMMA FirstIsLeast ==
  ASSUME NEW S \in SUBSET Nat, S # {}
  PROVE  First(S) \in S /\ \A m \in S : First(S) <= m
<1>1. PICK n \in S : \A m \in S : ~(<<m, n>> \in OpToRel(<, Nat))
  BY WFMin, NatLessThanWellFounded
<1>2. \A m \in S : ~(m < n)
  BY <1>1 DEF OpToRel
<1>3. \A m \in S : n <= m
  BY <1>2
<1> QED
  BY <1>3 DEF First

LEMMA Pairs ==
  /\ RequiredPairs \subseteq requiredNodeIDs \X Nat
  /\ \A n \in requiredNodeIDs : \A i \in Nat :
       <<n, i>> \in RequiredPairs <=> 1 <= i /\ i <= requiredReplayCount(n)
<1>1. \A n \in requiredNodeIDs : 1 .. requiredReplayCount(n) \subseteq Nat
  BY Required
<1> QED
  BY <1>1, Required DEF RequiredPairs

\* Records can be counted against the pairs, which are finitely many.
LEMMA FinitePairs == IsFiniteSet(RequiredPairs)
<1> DEFINE last == Len(matrix.nodes)
           id == [i \in 1 .. last |-> matrix.nodes[i].id]
           Of(n) == {n} \X (1 .. requiredReplayCount(n))
           All == {Of(n) : n \in requiredNodeIDs}
           of == [n \in requiredNodeIDs |-> Of(n)]
<1>1. last \in Nat /\ DOMAIN matrix.nodes = 1 .. last
  BY DecodedAssumption
<1>2. IsFiniteSet(Nodes)
  <2>1. IsFiniteSet(1 .. last)
    BY <1>1, FS_Interval
  <2>2. id \in Surjection(1 .. last, Nodes)
    BY <1>1 DEF Nodes, Surjection
  <2> QED
    BY <2>1, <2>2, FS_Surjection
<1>3. IsFiniteSet(requiredNodeIDs)
  BY <1>2, Required, FS_Subset
<1>4. \A n \in requiredNodeIDs : IsFiniteSet(Of(n))
  <2> TAKE n \in requiredNodeIDs
  <2>1. IsFiniteSet({n})
    BY FS_Singleton
  <2>2. IsFiniteSet(1 .. requiredReplayCount(n))
    BY Required, FS_Interval
  <2> QED
    BY <2>1, <2>2, FS_Product
<1>5. IsFiniteSet(All)
  <2> HIDE DEF Of
  <2>1. of \in Surjection(requiredNodeIDs, All)
    BY DEF Surjection
  <2> QED
    BY <1>3, <2>1, FS_Surjection
<1>6. IsFiniteSet(UNION All)
  BY <1>4, <1>5, FS_UNION
<1> QED
  BY <1>6 DEF RequiredPairs

\* The current pair is a new one.
LEMMA PastGrows ==
  ASSUME TypeOK
  PROVE  Cardinality(Past \cup {Current}) = Cardinality(Past) + 1
<1>1. IsFiniteSet(Past)
  BY FinitePairs, FS_Subset DEF Past
<1>2. Current \notin Past
  <2>1. node \in Nat /\ index \in Nat
    BY Required DEF TypeOK
  <2> QED
    BY <2>1 DEF Past, Current
<1> QED
  BY <1>1, <1>2, FS_AddElement

\* As many records as required pairs, with every pair among their labels: no
\* label is used twice and none is foreign.
LEMMA LabelsFit ==
  ASSUME runs \in Seq(Reports), Complete(runs), Len(runs) = Cardinality(RequiredPairs)
  PROVE  {<<runs[k].node, runs[k].index>> : k \in DOMAIN runs} = RequiredPairs
<1> DEFINE Label(k) == <<runs[k].node, runs[k].index>>
           labels == {Label(k) : k \in DOMAIN runs}
           label == [k \in DOMAIN runs |-> Label(k)]
<1>1. Len(runs) \in Nat /\ DOMAIN runs = 1 .. Len(runs)
  OBVIOUS
<1>2. IsFiniteSet(DOMAIN runs) /\ Cardinality(DOMAIN runs) = Len(runs)
  BY <1>1, FS_Interval
<1>3. IsFiniteSet(labels) /\ Cardinality(labels) <= Len(runs)
  <2>1. label \in Surjection(DOMAIN runs, labels)
    BY DEF Surjection
  <2> QED
    BY <1>2, <2>1, FS_Surjection
<1>4. RequiredPairs \in SUBSET labels
  <2> SUFFICES ASSUME NEW n \in requiredNodeIDs, NEW i \in 1 .. requiredReplayCount(n)
               PROVE  <<n, i>> \in labels
    BY DEF RequiredPairs
  <2>1. i \in IndicesOf(runs, n)
    BY DEF Complete
  <2>2. PICK k \in DOMAIN runs : runs[k].node = n /\ runs[k].index = i
    BY <2>1 DEF IndicesOf
  <2> QED
    BY <2>2
<1>5. /\ Cardinality(RequiredPairs) <= Cardinality(labels)
      /\ Cardinality(labels) = Cardinality(RequiredPairs) => labels = RequiredPairs
  BY <1>3, <1>4, FS_Subset
<1>6. Cardinality(labels) \in Nat /\ Cardinality(RequiredPairs) \in Nat
  BY <1>3, FinitePairs, FS_CardinalityType
<1> QED
  BY <1>3, <1>5, <1>6

\* A step of the loops: the replay it leaves joins the past.
LEMMA LoopStep ==
  ASSUME TypeOK, NextReplay
  PROVE  /\ pc' \in {"adapter", "prepare", "judge"}
         /\ node' \in requiredNodeIDs /\ index' \in 1 .. requiredReplayCount(node')
         /\ pc' \in {"adapter", "prepare"} => Past' = Past \cup {Current}
         /\ pc' = "judge" => RequiredPairs = Past \cup {Current}
<1> DEFINE count == requiredReplayCount(node)
<1>1. /\ node \in Nat /\ index \in Nat /\ count \in Nat /\ 1 <= index /\ index <= count
      /\ node \in requiredNodeIDs
  BY Required DEF TypeOK
<1>2. \A p \in RequiredPairs :
        /\ p = <<p[1], p[2]>> /\ p[1] \in requiredNodeIDs /\ p[1] \in Nat /\ p[2] \in Nat
        /\ 1 <= p[2] /\ p[2] <= requiredReplayCount(p[1])
  <2> TAKE p \in RequiredPairs
  <2>1. p = <<p[1], p[2]>> /\ p[1] \in requiredNodeIDs /\ p[2] \in Nat
    BY Pairs
  <2>2. <<p[1], p[2]>> \in RequiredPairs
    BY <2>1
  <2> QED
    BY <2>1, <2>2, Pairs, Required
<1>3. Current \in RequiredPairs
  BY <1>1, Pairs DEF Current
<1>4. CASE index < count
  <2>1. pc' = "prepare" /\ node' = node /\ index' = index + 1
    BY <1>4 DEF NextReplay
  <2>2. Past' = {p \in RequiredPairs : p[1] < node \/ (p[1] = node /\ p[2] < index + 1)}
    BY <2>1 DEF Past
  <2>3. \A p \in RequiredPairs :
          (p[1] = node /\ p[2] < index + 1) <=> ((p[1] = node /\ p[2] < index) \/ p = Current)
    BY <1>1, <1>2 DEF Current
  <2>4. Past' = Past \cup {Current}
    BY <1>3, <2>2, <2>3 DEF Past
  <2> QED
    BY <1>1, <1>4, <2>1, <2>4
<1>5. CASE ~(index < count)
  <2>1. index = count
    BY <1>1, <1>5
  <2>2. \A p \in RequiredPairs :
          ~(p[1] > node) => (p[1] < node \/ (p[1] = node /\ p[2] < index) \/ p = Current)
    BY <1>1, <1>2, <2>1 DEF Current
  <2>3. CASE Later # {}
    <3>1. pc' = "adapter" /\ node' = First(Later) /\ index' = 1
      BY <1>5, <2>3 DEF NextReplay
    <3>2. Later \in SUBSET Nat
      BY Required DEF Later
    <3>3. node' \in Later /\ \A n \in Later : node' <= n
      BY <2>3, <3>1, <3>2, FirstIsLeast
    <3>4. node' \in requiredNodeIDs /\ node' \in Nat /\ node < node'
      BY <3>3, Required DEF Later
    <3>5. Past' = {p \in RequiredPairs : p[1] < node'}
      <4>1. \A p \in RequiredPairs : ~(p[2] < 1)
        BY <1>2
      <4> QED
        BY <3>1, <4>1 DEF Past
    <3>6. \A p \in RequiredPairs : p[1] < node' <=> ~(p[1] > node)
      <4>1. \A p \in RequiredPairs : p[1] > node => ~(p[1] < node')
        BY <1>1, <1>2, <3>3, <3>4 DEF Later
      <4> QED
        BY <1>1, <1>2, <3>4, <4>1
    <3>7. Past' = Past \cup {Current}
      <4>1. \A p \in Past \cup {Current} : ~(p[1] > node)
        BY <1>1, <1>2 DEF Past, Current
      <4> QED
        BY <1>3, <2>2, <3>5, <3>6, <4>1 DEF Past
    <3> QED
      BY <3>1, <3>4, <3>7, Required
  <2>4. CASE Later = {}
    <3>1. pc' = "judge" /\ node' = node /\ index' = index
      BY <1>5, <2>4 DEF NextReplay
    <3>2. \A p \in RequiredPairs : ~(p[1] > node)
      BY <1>2, <2>4 DEF Later
    <3>3. RequiredPairs = Past \cup {Current}
      BY <1>3, <2>2, <3>2 DEF Past
    <3> QED
      BY <1>1, <3>1, <3>3
  <2> QED
    BY <2>3, <2>4
<1> QED
  BY <1>4, <1>5

--------------------------------------------------------------------------------
(* The adapter calls. *)

\* A new call keeps the rule, for the one before it was no replay, or this one
\* is its cleanup.
LEMMA NewCall ==
  ASSUME IInv, pc \in Steps, command = "none",
         attempts' = Append(attempts, <<pc, node, index>>)
  PROVE  /\ attempts' \in Seq(Steps \X Nodes \X Nat)
         /\ attempts' # <<>> /\ attempts'[Len(attempts')] = <<pc, node, index>>
         /\ \A k \in 1 .. Len(attempts') - 1 :
              attempts'[k][1] = "replay" =>
                attempts'[k + 1] = <<"cleanup", attempts'[k][2], attempts'[k][3]>>
<1> DEFINE call == <<pc, node, index>>
<1>1. call \in Steps \X Nodes \X Nat
  <2>1. index \in Nat /\ node \in Nodes
    BY Required DEF IInv, TypeOK
  <2> QED
    BY <2>1
<1>2. attempts \in Seq(Steps \X Nodes \X Nat)
  BY DEF IInv, TypeOK
<1>3. /\ attempts' \in Seq(Steps \X Nodes \X Nat)
      /\ Len(attempts') = Len(attempts) + 1 /\ Len(attempts) \in Nat
      /\ attempts'[Len(attempts) + 1] = call
      /\ \A k \in 1 .. Len(attempts) : attempts'[k] = attempts[k]
  BY <1>1, <1>2
<1>4. ASSUME attempts # <<>>, attempts[Len(attempts)][1] = "replay"
      PROVE  call = <<"cleanup", attempts[Len(attempts)][2], attempts[Len(attempts)][3]>>
  BY <1>4 DEF IInv, CallsInv
<1>5. ASSUME NEW k \in 1 .. Len(attempts') - 1, attempts'[k][1] = "replay"
      PROVE  attempts'[k + 1] = <<"cleanup", attempts'[k][2], attempts'[k][3]>>
  <2>1. k \in 1 .. Len(attempts) /\ attempts'[k] = attempts[k]
    BY <1>3
  <2>2. CASE k = Len(attempts)
    BY <1>2, <1>3, <1>4, <1>5, <2>1, <2>2
  <2>3. CASE k # Len(attempts)
    <3>1. k \in 1 .. Len(attempts) - 1 /\ k + 1 \in 1 .. Len(attempts)
      BY <1>3, <2>1, <2>3
    <3>2. attempts'[k + 1] = attempts[k + 1]
      BY <1>3, <3>1
    <3> QED
      BY <1>5, <2>1, <3>1, <3>2 DEF IInv, CallsInv
  <2> QED
    BY <2>2, <2>3
<1> QED
  BY <1>3, <1>5

\* A step that neither loads nor judges leaves the count as it is.
LEMMA NoRecord ==
  ASSUME IInv, UNCHANGED <<runs, aggregate, node, index>>,
         \/ UNCHANGED <<pc, result>>
         \/ pc \notin {"judge", "done"} /\ pc' # "judge" /\ result' # "ok"
  PROVE  CountInv'
<1>1. Past' = Past
  BY DEF Past
<1>2. CASE UNCHANGED <<pc, result>>
  BY <1>1, <1>2 DEF IInv, CountInv
<1>3. CASE pc \notin {"judge", "done"} /\ pc' # "judge" /\ result' # "ok"
  BY <1>1, <1>3 DEF IInv, CountInv
<1> QED
  BY <1>2, <1>3

LEMMA AdapterInv == ASSUME IInv, MakeAdapter PROVE IInv'
<1>1. TypeOK'
  BY DEF IInv, TypeOK, MakeAdapter, Return, Steps
<1>2. ControlInv'
  BY DEF IInv, TypeOK, ControlInv, MakeAdapter, Return, Steps
<1>3. CallsInv'
  BY DEF IInv, CallsInv, MakeAdapter, Return
<1>4. RanInv'
  <2>1. Past' = Past /\ ran' = ran
    BY DEF MakeAdapter, Past
  <2> QED
    BY <2>1 DEF IInv, RanInv, MakeAdapter, Return
<1>5. ColdInv'
  BY DEF IInv, ColdInv, MakeAdapter, Return
<1>6. CountInv'
  <2>1. UNCHANGED <<runs, aggregate, node, index>> /\ pc = "adapter" /\ pc' # "judge"
    BY DEF MakeAdapter, Return
  <2>2. result' # "ok"
    BY <2>1 DEF IInv, ControlInv, MakeAdapter, Return
  <2> QED
    BY <2>1, <2>2, NoRecord
<1> QED
  BY <1>1, <1>2, <1>3, <1>4, <1>5, <1>6 DEF IInv

LEMMA SkipInv == ASSUME IInv, Skip PROVE IInv'
<1>1. /\ pc \in {"prepare", "cleanup"} /\ command = "none" /\ pc \in Steps
      /\ command' = command /\ node' = node /\ index' = index /\ runErr' = runErr
      /\ ran' = ran /\ dirty' = dirty /\ runs' = runs /\ file' = file /\ expired' = expired
      /\ attempts' = Append(attempts, <<pc, node, index>>)
  BY Required DEF Skip, Configured, Continue, AfterPrepare, AfterReplay, AfterCleanup, Steps,
    IInv, TypeOK
<1>2. \/ pc = "prepare" /\ pc' = "replay" /\ result' = result
      \/ pc = "cleanup" /\ ~runErr /\ pc' = "load" /\ result' = result
      \/ pc = "cleanup" /\ runErr /\ pc' = "done" /\ result' = "error"
  BY <1>1 DEF Skip, Continue, AfterPrepare, AfterReplay, AfterCleanup, Return
<1>3. TypeOK'
  BY <1>1, <1>2, NewCall DEF IInv, TypeOK, Steps
<1>4. ControlInv'
  BY <1>1, <1>2 DEF IInv, ControlInv, TypeOK
<1>5. CallsInv'
  <2>1. /\ attempts'[Len(attempts')][1] # "replay"
        /\ \A k \in 1 .. Len(attempts') - 1 :
             attempts'[k][1] = "replay" =>
               attempts'[k + 1] = <<"cleanup", attempts'[k][2], attempts'[k][3]>>
    BY <1>1, NewCall
  <2>2. pc' # "cleanup" /\ (pc' = "replay" => command' = "none")
    BY <1>1, <1>2
  <2> QED
    BY <2>1, <2>2 DEF CallsInv
<1>6. RanInv'
  <2>1. Past' = Past /\ Current' = Current
    BY <1>1 DEF Past, Current
  <2>2. result = "running"
    BY <1>1 DEF IInv, ControlInv
  <2> QED
    BY <1>1, <1>2, <2>1, <2>2 DEF IInv, RanInv
<1>7. ColdInv'
  <2>1. pc = "cleanup" => node \notin HasCleanup
    BY DEF Skip, Configured, HasCleanup
  <2> QED
    BY <1>1, <1>2, <2>1 DEF IInv, ColdInv
<1>8. CountInv'
  <2>1. UNCHANGED <<runs, aggregate, node, index>> /\ result = "running"
    BY <1>1 DEF IInv, ControlInv, Steps, Skip
  <2> QED
    BY <1>1, <1>2, <2>1, NoRecord
<1> QED
  BY <1>3, <1>4, <1>5, <1>6, <1>7, <1>8 DEF IInv

\* What a failed call leads to.
LEMMA Failed ==
  ASSUME IInv, pc \in Steps, Continue(FALSE)
  PROVE  \/ pc = "replay" /\ pc' = "cleanup" /\ runErr' = TRUE /\ result' = result
         \/ pc # "replay" /\ pc' = "done" /\ runErr' = runErr /\ result' = "error"
BY DEF Continue, AfterPrepare, AfterReplay, AfterCleanup, Return, Steps

LEMMA RefuseInv == ASSUME IInv, Refuse PROVE IInv'
<1>1. /\ command = "none" /\ pc \in Steps /\ Continue(FALSE)
      /\ command' = command /\ node' = node /\ index' = index
      /\ ran' = ran /\ dirty' = dirty /\ runs' = runs /\ file' = file /\ expired' = expired
      /\ attempts' = Append(attempts, <<pc, node, index>>)
  BY DEF Refuse
<1>2. TypeOK'
  BY <1>1, Failed, NewCall DEF IInv, TypeOK, Steps
<1>3. ControlInv'
  BY <1>1, Failed DEF IInv, ControlInv, TypeOK
<1>4. CallsInv'
  <2>1. /\ attempts' # <<>> /\ attempts'[Len(attempts')] = <<pc, node, index>>
        /\ attempts'[Len(attempts')][1] = pc
    BY <1>1, NewCall
  <2>2. CASE pc = "replay"
    <3>1. pc' = "cleanup" /\ command' = "none"
      BY <1>1, <2>2, Failed
    <3> QED
      BY <1>1, <2>1, <2>2, <3>1, NewCall DEF CallsInv
  <2>3. CASE pc # "replay"
    <3>1. pc' = "done" /\ attempts'[Len(attempts')][1] # "replay"
      BY <1>1, <2>1, <2>3, Failed
    <3> QED
      BY <1>1, <3>1, NewCall DEF CallsInv
  <2> QED
    BY <2>2, <2>3
<1>5. RanInv'
  <2>1. result = "running"
    BY <1>1 DEF IInv, ControlInv, Steps
  <2> QED
    BY <1>1, <2>1, Failed DEF IInv, RanInv
<1>6. ColdInv'
  BY <1>1, Failed DEF IInv, ColdInv
<1>7. CountInv'
  <2>1. UNCHANGED <<runs, aggregate, node, index>> /\ pc \notin {"judge", "done"}
    BY <1>1 DEF Refuse, Steps
  <2>2. result = "running"
    BY <2>1 DEF IInv, ControlInv
  <2> QED
    BY <1>1, <2>1, <2>2, Failed, NoRecord
<1> QED
  BY <1>2, <1>3, <1>4, <1>5, <1>6, <1>7 DEF IInv

LEMMA StartInv == ASSUME IInv, Start PROVE IInv'
<1>1. /\ command = "none" /\ command' = "running" /\ pc \in Steps
      /\ pc' = pc /\ node' = node /\ index' = index /\ runErr' = runErr /\ result' = result
      /\ ran' = ran /\ runs' = runs /\ file' = file /\ expired' = expired
      /\ dirty' = IF pc = "replay" THEN dirty \cup {node} ELSE dirty
      /\ attempts' = Append(attempts, <<pc, node, index>>)
  BY DEF Start
<1>2. TypeOK'
  BY <1>1, NewCall, Required DEF IInv, TypeOK
<1>3. ControlInv'
  BY <1>1 DEF IInv, ControlInv
<1>4. CallsInv'
  <2>1. /\ attempts' # <<>> /\ attempts'[Len(attempts')] = <<pc, node, index>>
        /\ attempts'[Len(attempts')][1] = pc
    BY <1>1, NewCall
  <2>2. CASE pc = "replay"
    BY <1>1, <2>1, <2>2, NewCall DEF CallsInv
  <2>3. CASE pc # "replay"
    BY <1>1, <2>1, <2>3, NewCall DEF CallsInv
  <2> QED
    BY <2>2, <2>3
<1>5. RanInv'
  <2>1. Past' = Past /\ Current' = Current
    BY <1>1 DEF Past, Current
  <2> QED
    BY <1>1, <2>1 DEF IInv, RanInv
<1>6. ColdInv'
  BY <1>1 DEF IInv, ColdInv
<1>7. CountInv'
  BY NoRecord DEF Start
<1> QED
  BY <1>2, <1>3, <1>4, <1>5, <1>6, <1>7 DEF IInv

\* A command that ends, by itself or killed.
LEMMA EndInv ==
  ASSUME IInv, NEW ok \in BOOLEAN, command # "none", Continue(ok), Effects(ok)
  PROVE  IInv'
<1>1. /\ pc \in Steps /\ command # "none" /\ command' = "none"
      /\ node' = node /\ index' = index /\ runs' = runs /\ expired' = expired
      /\ attempts' = attempts
  BY DEF IInv, ControlInv, Effects
<1>2. \/ pc = "prepare" /\ pc' = "replay" /\ runErr' = runErr /\ result' = result
      \/ pc = "replay" /\ pc' = "cleanup" /\ runErr' = ~ok /\ result' = result
      \/ pc = "cleanup" /\ ok /\ ~runErr /\ pc' = "load" /\ runErr' = runErr /\ result' = result
      \/ pc # "replay" /\ pc' = "done" /\ runErr' = runErr /\ result' = "error"
  BY <1>1 DEF Continue, AfterPrepare, AfterReplay, AfterCleanup, Return, Steps
<1>3. TypeOK'
  <2>1. index \in Nat /\ node \in Nodes
    BY Required DEF IInv, TypeOK
  <2>2. ran' \subseteq Nodes \X Nat
    BY <2>1 DEF IInv, TypeOK, Effects
  <2>3. file' \in Reports \cup {NoFile} /\ dirty' \subseteq Nodes
    BY DEF IInv, TypeOK, Effects
  <2>4. runErr' \in BOOLEAN /\ result' \in {"running", "ok", "error"}
    BY <1>2 DEF IInv, TypeOK
  <2>5. pc' \in Steps \cup {"adapter", "load", "judge", "done"}
    BY <1>2 DEF Steps
  <2>6. pc # "done"
    BY <1>1 DEF Steps
  <2> QED
    BY <1>1, <2>2, <2>3, <2>4, <2>5, <2>6 DEF IInv, TypeOK
<1>4. ControlInv'
  BY <1>1, <1>2 DEF IInv, ControlInv, TypeOK
<1>5. CallsInv'
  BY <1>1, <1>2 DEF IInv, CallsInv
<1>6. RanInv'
  <2>1. Past' = Past /\ Current' = Current /\ Current = <<node, index>>
    BY <1>1 DEF Past, Current
  <2>2. ran' = IF pc = "replay" /\ ok THEN ran \cup {Current} ELSE ran
    BY <2>1 DEF Effects
  <2>3. result = "running"
    BY <1>1 DEF IInv, ControlInv, Steps
  <2> QED
    BY <1>2, <2>1, <2>2, <2>3 DEF IInv, RanInv
<1>7. ColdInv'
  BY <1>1, <1>2 DEF IInv, ColdInv, Effects
<1>8. CountInv'
  <2>1. UNCHANGED <<runs, aggregate, node, index>> /\ pc \notin {"judge", "done"}
    BY <1>1 DEF Effects, Steps
  <2>2. result = "running"
    BY <2>1 DEF IInv, ControlInv
  <2> QED
    BY <1>2, <2>1, <2>2, NoRecord
<1> QED
  BY <1>3, <1>4, <1>5, <1>6, <1>7, <1>8 DEF IInv

\* A process that ends while its call goes on changes nothing else.
LEMMA LingerInv == ASSUME IInv, Linger PROVE IInv'
<1>1. TypeOK' /\ ControlInv'
  BY DEF IInv, TypeOK, ControlInv, Linger, Held
<1>2. CallsInv' /\ ColdInv'
  BY DEF IInv, CallsInv, ColdInv, Linger
<1>3. RanInv'
  BY DEF IInv, RanInv, Past, Current, Linger
<1>4. CountInv'
  BY NoRecord DEF Linger
<1> QED
  BY <1>1, <1>2, <1>3, <1>4 DEF IInv

LEMMA KillInv == ASSUME IInv, Kill PROVE IInv'
<1>1. TypeOK' /\ ControlInv'
  BY DEF IInv, TypeOK, ControlInv, Kill, Held
<1>2. CallsInv' /\ ColdInv'
  BY DEF IInv, CallsInv, ColdInv, Kill
<1>3. RanInv'
  BY DEF IInv, RanInv, Past, Current, Kill
<1>4. CountInv'
  BY NoRecord DEF Kill
<1> QED
  BY <1>1, <1>2, <1>3, <1>4 DEF IInv

LEMMA ExpireInv == ASSUME IInv, Expire PROVE IInv'
<1>1. TypeOK' /\ ControlInv'
  BY DEF IInv, TypeOK, ControlInv, Expire
<1>2. CallsInv' /\ ColdInv'
  BY DEF IInv, CallsInv, ColdInv, Expire
<1>3. RanInv'
  BY DEF IInv, RanInv, Past, Current, Expire
<1>4. CountInv'
  BY NoRecord DEF Expire
<1> QED
  BY <1>1, <1>2, <1>3, <1>4 DEF IInv

--------------------------------------------------------------------------------
(* Between the replays and at the end. *)

LEMMA LoadFailsInv == ASSUME IInv, LoadFails PROVE IInv'
<1>1. TypeOK'
  BY DEF IInv, TypeOK, LoadFails, Return
<1>2. ControlInv' /\ ColdInv'
  BY DEF IInv, ControlInv, ColdInv, LoadFails, Return, Steps
<1>3. CallsInv'
  BY DEF IInv, CallsInv, LoadFails, Return
<1>4. RanInv'
  BY DEF IInv, RanInv, LoadFails, Return
<1>5. CountInv'
  BY NoRecord DEF LoadFails, Return
<1> QED
  BY <1>1, <1>2, <1>3, <1>4, <1>5 DEF IInv

LEMMA LoadInv == ASSUME IInv, Load PROVE IInv'
<1>1. /\ pc = "load" /\ file # NoFile /\ NextReplay /\ file' = NoFile
      /\ runs' = Append(runs, file)
      /\ command' = command /\ expired' = expired /\ runErr' = runErr
      /\ aggregate' = aggregate /\ result' = result /\ attempts' = attempts
      /\ ran' = ran /\ dirty' = dirty
  BY DEF Load
<1>2. /\ pc' \in {"adapter", "prepare", "judge"}
      /\ node' \in requiredNodeIDs /\ index' \in 1 .. requiredReplayCount(node')
      /\ pc' \in {"adapter", "prepare"} => Past' = Past \cup {Current}
      /\ pc' = "judge" => RequiredPairs = Past \cup {Current}
  BY <1>1, LoopStep DEF IInv
<1>3. command = "none" /\ result = "running"
  BY <1>1 DEF IInv, ControlInv, TypeOK, Steps
<1>4. TypeOK'
  <2>1. runs' \in Seq(Reports)
    BY <1>1 DEF IInv, TypeOK
  <2>2. pc' \in Steps \cup {"adapter", "load", "judge", "done"}
    BY <1>2 DEF Steps
  <2> QED
    BY <1>1, <1>2, <2>1, <2>2 DEF IInv, TypeOK
<1>5. ControlInv'
  BY <1>1, <1>2, <1>3 DEF ControlInv
<1>6. CallsInv'
  BY <1>1, <1>2, <1>3 DEF IInv, CallsInv
<1>7. RanInv'
  <2>1. ran = Past \cup {Current}
    BY <1>1 DEF IInv, RanInv
  <2> QED
    BY <1>1, <1>2, <1>3, <2>1 DEF RanInv
<1>8. ColdInv'
  BY <1>1, <1>3 DEF IInv, ColdInv
<1>9. CountInv'
  <2>1. Len(runs') = Len(runs) + 1
    BY <1>1 DEF IInv, TypeOK
  <2>2. Len(runs) = Cardinality(Past)
    BY <1>1 DEF IInv, CountInv
  <2>3. Len(runs') = Cardinality(Past \cup {Current})
    BY <2>1, <2>2, PastGrows DEF IInv
  <2>4. pc' \notin {"judge", "done"} => Len(runs') = Cardinality(Past')
    BY <1>2, <2>3
  <2>5. pc' = "judge" => Len(runs') = Cardinality(RequiredPairs)
    BY <1>2, <2>3
  <2>6. result' # "ok"
    BY <1>1, <1>3
  <2> QED
    BY <2>4, <2>5, <2>6 DEF CountInv
<1> QED
  BY <1>4, <1>5, <1>6, <1>7, <1>8, <1>9 DEF IInv

\* Sorting loses no record.
LEMMA SortKeeps ==
  ASSUME IInv, Judge
  PROVE  runs' \in Seq(Reports) /\ Len(runs') = Len(runs)
<1>1. runs \in Seq(Reports) /\ Len(runs) \in Nat /\ DOMAIN runs = 1 .. Len(runs)
  BY DEF IInv, TypeOK
<1>2. PICK order \in Bijection(DOMAIN runs, DOMAIN runs) :
        runs' = [k \in DOMAIN runs |-> runs[order[k]]]
  BY DEF Judge
<1>3. order \in [DOMAIN runs -> DOMAIN runs]
  BY <1>2 DEF Bijection, Injection
<1>4. \A k \in 1 .. Len(runs) : runs[order[k]] \in Reports
  BY <1>1, <1>3
<1> QED
  BY <1>1, <1>2, <1>4

LEMMA JudgeInv == ASSUME IInv, Judge PROVE IInv'
<1>1. /\ pc = "judge" /\ pc' = "done" /\ result' \in {"ok", "error"}
      /\ node' = node /\ index' = index /\ command' = command /\ expired' = expired
      /\ runErr' = runErr /\ file' = file /\ attempts' = attempts
      /\ ran' = ran /\ dirty' = dirty
  BY DEF Judge, Return
<1>2. command = "none"
  BY <1>1 DEF IInv, ControlInv, Steps
<1>3. runs' \in Seq(Reports) /\ Len(runs') = Len(runs)
  BY SortKeeps
<1>4. TypeOK' /\ ControlInv'
  BY <1>1, <1>2, <1>3 DEF IInv, TypeOK, ControlInv
<1>5. CallsInv'
  BY <1>1, <1>2 DEF IInv, CallsInv
<1>6. RanInv' /\ ColdInv'
  BY <1>1 DEF IInv, RanInv, ColdInv
<1>7. CountInv'
  <2>1. Len(runs) = Cardinality(RequiredPairs)
    BY <1>1 DEF IInv, CountInv
  <2>2. result' = "ok" => ValidateEvidenceBundle(runs', aggregate', profile.hardReleaseGate)
    BY DEF Judge, Return
  <2> QED
    BY <1>1, <1>3, <2>1, <2>2 DEF CountInv
<1> QED
  BY <1>4, <1>5, <1>6, <1>7 DEF IInv

LEMMA StutterInv == ASSUME IInv, UNCHANGED vars PROVE IInv'
<1> USE DEF vars
<1>1. TypeOK' /\ ControlInv'
  BY DEF IInv, TypeOK, ControlInv
<1>2. CallsInv' /\ ColdInv'
  BY DEF IInv, CallsInv, ColdInv
<1>3. RanInv'
  BY DEF IInv, RanInv, Past, Current
<1>4. CountInv'
  BY NoRecord
<1> QED
  BY <1>1, <1>2, <1>3, <1>4 DEF IInv

LEMMA InitInv == ASSUME Init PROVE IInv
<1>1. /\ node \in requiredNodeIDs /\ \A m \in requiredNodeIDs : node <= m
      /\ node \in Nat /\ requiredReplayCount(node) \in Nat /\ 1 <= requiredReplayCount(node)
  BY Required, FirstIsLeast DEF Init
<1>2. TypeOK
  <2>1. index \in 1 .. requiredReplayCount(node)
    BY <1>1 DEF Init
  <2>2. /\ runs \in Seq(Reports)
        /\ attempts \in Seq(Steps \X Nodes \X Nat)
        /\ ran \subseteq Nodes \X Nat
        /\ dirty \subseteq Nodes
    BY DEF Init
  <2> QED
    BY <1>1, <2>1, <2>2 DEF Init, TypeOK
<1>3. ControlInv /\ CallsInv /\ ColdInv
  BY DEF Init, ControlInv, CallsInv, ColdInv
<1>4. Past = {}
  <2>1. ASSUME NEW p \in RequiredPairs
        PROVE  ~(p[1] < node \/ (p[1] = node /\ p[2] < index))
    <3>1. p = <<p[1], p[2]>> /\ p[1] \in requiredNodeIDs /\ p[2] \in Nat
      BY <2>1, Pairs
    <3>2. <<p[1], p[2]>> \in RequiredPairs
      BY <2>1, <3>1
    <3>3. 1 <= p[2] /\ node <= p[1] /\ p[1] \in Nat /\ index = 1
      BY <1>1, <3>1, <3>2, Pairs, Required DEF Init
    <3> QED
      BY <1>1, <3>1, <3>3
  <2> QED
    BY <2>1 DEF Past
<1>5. RanInv
  BY <1>4 DEF Init, RanInv
<1>6. CountInv
  <2>1. Len(runs) = 0 /\ Cardinality({}) = 0
    BY FS_EmptySet DEF Init
  <2> QED
    BY <1>4, <2>1 DEF Init, CountInv
<1> QED
  BY <1>2, <1>3, <1>5, <1>6 DEF IInv

LEMMA NextInv == ASSUME IInv, [Next]_vars PROVE IInv'
<1>1. CASE Finish
  <2>1. PICK ok \in BOOLEAN : Continue(ok) /\ Effects(ok)
    BY <1>1 DEF Finish
  <2>2. command # "none"
    BY <1>1 DEF Finish
  <2> QED
    BY <2>1, <2>2, EndInv
<1>2. CASE Reap
  <2>1. command # "none" /\ Continue(FALSE) /\ Effects(FALSE)
    BY <1>2 DEF Reap
  <2> QED
    BY <2>1, EndInv
<1>3. CASE Stop
  BY <1>3, StutterInv DEF Stop
<1> QED
  BY <1>1, <1>2, <1>3, ExpireInv, AdapterInv, SkipInv, RefuseInv, StartInv, LingerInv, KillInv,
     LoadFailsInv, LoadInv, JudgeInv, StutterInv DEF Next

\* IInv holds in every reachable state.
THEOREM Invariance == Spec => []IInv
<1>1. Init => IInv
  BY InitInv
<1>2. IInv /\ [Next]_vars => IInv'
  BY NextInv
<1> QED
  BY <1>1, <1>2, PTL DEF Spec

\* The state of RunMatrix is well typed: the loops stay within the required
\* nodes and replays, and only decoded evidence is collected.
THEOREM TypeCorrect == Spec => []TypeOK
<1>1. IInv => TypeOK
  BY DEF IInv
<1> QED
  BY <1>1, Invariance, PTL

\* Every replay is followed by the cleanup of the same replay, before anything
\* else is called and before RunMatrix returns, however the replay ends.
THEOREM CleanupAlwaysFollows == Spec => []CleanupFollowsReplay
<1>1. IInv => CleanupFollowsReplay
  <2> SUFFICES ASSUME IInv, NEW k \in DOMAIN attempts, attempts[k][1] = "replay"
               PROVE  IF k < Len(attempts)
                        THEN attempts[k + 1] = <<"cleanup", attempts[k][2], attempts[k][3]>>
                        ELSE pc \in {"replay", "cleanup"}
    BY DEF CleanupFollowsReplay
  <2>1. k \in 1 .. Len(attempts) /\ Len(attempts) \in Nat
    BY DEF IInv, TypeOK
  <2>2. CASE k < Len(attempts)
    <3>1. k \in 1 .. Len(attempts) - 1
      BY <2>1, <2>2
    <3> QED
      BY <2>2, <3>1 DEF IInv, CallsInv
  <2>3. CASE ~(k < Len(attempts))
    <3>1. k = Len(attempts) /\ attempts # <<>>
      BY <2>1, <2>3
    <3> QED
      BY <2>3, <3>1 DEF IInv, CallsInv
  <2> QED
    BY <2>2, <2>3
<1> QED
  BY <1>1, Invariance, PTL

\* RunMatrix reports success only if the command of every required replay of
\* every required node succeeded in this run.
THEOREM RanEverything == Spec => []SuccessRanEverything
<1>1. IInv => SuccessRanEverything
  BY DEF IInv, RanInv, SuccessRanEverything
<1> QED
  BY <1>1, Invariance, PTL

\* A replay never starts on a node with a cleanup command that has not been
\* cleaned since the replay before it.
THEOREM ReplaysStartCold == Spec => ReplaysAreCold
<1>1. IInv => (pc = "replay" /\ command = "none" /\ command' = "running" /\ node \in HasCleanup
                 => node \notin dirty)
  BY DEF IInv, ColdInv
<1> QED
  BY <1>1, Invariance, PTL DEF ReplaysAreCold

\* Whatever the commands leave, evidence is returned only with exactly one
\* record of every required pair, none of another node, each passed and with
\* the aggregate digests.
THEOREM SuccessComplete == Spec => []SuccessIsComplete
<1>1. IInv => SuccessIsComplete
  <2> SUFFICES ASSUME IInv, result = "ok"
               PROVE  /\ Len(runs) = Cardinality(RequiredPairs)
                      /\ {<<runs[k].node, runs[k].index>> : k \in DOMAIN runs} = RequiredPairs
                      /\ \A k \in DOMAIN runs : runs[k].passed /\ runs[k].digest = aggregate
    BY DEF SuccessIsComplete
  <2>1. /\ Len(runs) = Cardinality(RequiredPairs)
        /\ ValidateEvidenceBundle(runs, aggregate, profile.hardReleaseGate)
        /\ runs \in Seq(Reports)
    BY DEF IInv, CountInv, TypeOK
  <2>2. {<<runs[k].node, runs[k].index>> : k \in DOMAIN runs} = RequiredPairs
    BY <2>1, LabelsFit DEF ValidateEvidenceBundle
  <2>3. ASSUME NEW k \in DOMAIN runs
        PROVE  runs[k].passed /\ runs[k].digest = aggregate
    <3>1. <<runs[k].node, runs[k].index>> \in RequiredPairs
      BY <2>2
    <3>2. runs[k].node \in requiredNodeIDs
      BY <3>1, Pairs
    <3>3. k \in Counted(runs)
      BY <3>2 DEF Counted
    <3> QED
      BY <2>1, <3>3 DEF ValidateEvidenceBundle, ValidRun
  <2> QED
    BY <2>1, <2>2, <2>3
<1> QED
  BY <1>1, Invariance, PTL

================================================================================
