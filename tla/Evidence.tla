-------------------------------- MODULE Evidence --------------------------------
(***************************************************************************)
(* What the offline release gate accepts as replay evidence under a matrix *)
(* and a profile: ValidateEvidenceBundle.                                  *)
(* Hashes, timestamps and names are abstract values; a digest or token     *)
(* that fails its syntax check is any value outside Digests.               *)
(***************************************************************************)
EXTENDS Policy, FiniteSets

CONSTANTS
  Channels,       \* canonical, verify, failure class and exit code digests
  Digests         \* well-formed digest values

\* The checks on one NodeRunEvidence; stamped: session and timestamps present.
ValidRun(run) ==
  /\ run.node \in Nodes
  /\ run.mode = Node(run.node).mode
  /\ run.distro = Node(run.node).distro
  /\ run.kernelFamily = Node(run.node).kernelFamily
  /\ run.index >= 1
  /\ run.cases >= 1
  /\ run.passed
  /\ run.stamped
  /\ \A c \in Channels : run.digest[c] \in Digests

IndicesOf(runs, node) ==
  {runs[k].index : k \in {k \in DOMAIN runs : runs[k].node = node}}

\* The runs that count: those of required nodes.  Runs of other nodes are
\* checked one by one but take no part in the parity check.
Counted(runs) == {k \in DOMAIN runs : runs[k].node \in requiredNodeIDs}

Complete_CountOnly(runs) ==
  \A n \in requiredNodeIDs :
    Cardinality({k \in DOMAIN runs : runs[k].node = n}) >= requiredReplayCount(n)

Complete(runs) ==
  \A n \in requiredNodeIDs :
    /\ Cardinality({k \in DOMAIN runs : runs[k].node = n}) >= requiredReplayCount(n)
    /\ 1 .. requiredReplayCount(n) \subseteq IndicesOf(runs, n)

Parity(runs) ==
  \A j, k \in Counted(runs) : runs[j].digest = runs[k].digest

ValidateEvidenceBundle(runs, aggregate, hardReleaseGate) ==
  /\ \A c \in Channels : aggregate[c] \in Digests
  /\ hardReleaseGate
  /\ runs # <<>>
  /\ \A k \in DOMAIN runs : ValidRun(runs[k])
  /\ Complete(runs)
  /\ Parity(runs)
  /\ \A k \in Counted(runs) : aggregate = runs[k].digest

================================================================================
