--------------------------------- MODULE Policy ---------------------------------
(***************************************************************************)
(* The matrix and the profile of package replay: what config.go requires   *)
(* of them, and the nodes and the replays that they ask for.  A string is  *)
(* abstract but for being empty; the ID of a node is a number, ordered as  *)
(* the strings are, with zero for the empty one.                           *)
(***************************************************************************)
EXTENDS Integers, Sequences

CONSTANTS
  matrix,    \* [version, architecture, nodes], as decoded
  profile

\* The adapter calls of a replay, which are also the commands of a runner.
Steps == {"prepare", "replay", "cleanup"}

\* A NodeSpec; its runner is the kind and the commands that are not empty.
NodeSpecs ==
  [id : Nat, mode : STRING, distro : STRING, kernelFamily : STRING, replays : Int,
   kind : STRING, commands : SUBSET Steps]

ASSUME DecodedAssumption ==
  /\ matrix.nodes \in Seq(NodeSpecs)
  /\ profile.requiredNodes \in Seq(Nat)
  /\ profile.minColdReplays \in Int
  /\ profile.hardReleaseGate \in BOOLEAN

NodeModes == {"container", "vm"}

ValidNode(n) ==
  /\ n.id # 0
  /\ n.mode \in NodeModes
  /\ n.distro # "" /\ n.kernelFamily # ""
  /\ n.replays >= 0
  /\ "replay" \in n.commands /\ n.kind # ""

ValidateMatrix ==
  /\ matrix.version # "" /\ matrix.architecture # ""
  /\ matrix.nodes # <<>>
  /\ \A i \in DOMAIN matrix.nodes :
       /\ ValidNode(matrix.nodes[i])
       /\ \A j \in 1 .. i - 1 : matrix.nodes[j].id # matrix.nodes[i].id
  /\ \A mode \in NodeModes : \E i \in DOMAIN matrix.nodes : matrix.nodes[i].mode = mode

ValidateProfile ==
  /\ profile.version # "" /\ profile.name # ""
  /\ profile.requiredSuites # <<>>
  /\ profile.minColdReplays >= 1
  /\ profile.evidenceRequired

Nodes == {matrix.nodes[i].id : i \in DOMAIN matrix.nodes}

\* nodeIndex, the matrix by ID.
Node(id) == matrix.nodes[CHOOSE i \in DOMAIN matrix.nodes : matrix.nodes[i].id = id]

RequiredPresent ==
  \A i \in DOMAIN profile.requiredNodes : profile.requiredNodes[i] \in Nodes

\* A profile that names no nodes asks for all of them, one that repeats a node
\* asks for it once.
requiredNodeIDs ==
  IF profile.requiredNodes = <<>> THEN Nodes
  ELSE {profile.requiredNodes[i] : i \in DOMAIN profile.requiredNodes}

requiredReplayCount(id) ==
  IF Node(id).replays > profile.minColdReplays THEN Node(id).replays
  ELSE profile.minColdReplays

RequiredPairs == UNION {{n} \X (1 .. requiredReplayCount(n)) : n \in requiredNodeIDs}

\* RunMatrix checks this before anything else, and ends with an error otherwise.
ASSUME PolicyAssumption == ValidateMatrix /\ ValidateProfile /\ RequiredPresent

================================================================================
