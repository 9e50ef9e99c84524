----------------------------- MODULE MCReplayMatrix -----------------------------
(***************************************************************************)
(* ReplayMatrix with two required nodes of three in the matrix and three   *)
(* replays in all.                                                         *)
(***************************************************************************)
EXTENDS ReplayMatrix

MCNodes == {1, 2, 3}

\* The first node in the order of the IDs is the last of the matrix.
MCMatrix ==
  [version |-> "v1", architecture |-> "x86_64",
   nodes |-> <<[id |-> 2, mode |-> "container", distro |-> "debian", kernelFamily |-> "host",
                replays |-> 0, kind |-> "command", commands |-> {"replay"}],
               [id |-> 3, mode |-> "vm", distro |-> "debian", kernelFamily |-> "host",
                replays |-> 0, kind |-> "command", commands |-> {"replay"}],
               [id |-> 1, mode |-> "container", distro |-> "ubuntu", kernelFamily |-> "host",
                replays |-> 2, kind |-> "command", commands |-> Steps]>>]

MCProfile ==
  [version |-> "v1", name |-> "release", requiredNodes |-> <<2, 1, 2>>,
   requiredSuites |-> <<"verify-parity">>, minColdReplays |-> 1, hardReleaseGate |-> TRUE,
   evidenceRequired |-> TRUE]

MCChannels == {"canonical", "exit"}
MCDigests == {"d1", "d2"}

Uniform(d) == [c \in MCChannels |-> d]

Report(n, i, digest) ==
  [node |-> n, mode |-> Node(n).mode, distro |-> Node(n).distro,
   kernelFamily |-> Node(n).kernelFamily, index |-> i, cases |-> 1, passed |-> TRUE,
   stamped |-> TRUE, digest |-> digest]

\* Sound records with any label and one of three digests, and one record with
\* each kind of fault.
MCReports ==
  {Report(n, i, d) : n \in MCNodes, i \in 1 .. 2,
                     d \in {Uniform("d1"), Uniform("d2"), [Uniform("d1") EXCEPT !["exit"] = "d2"]}}
    \cup {[Report(1, 1, Uniform("d1")) EXCEPT !.passed = FALSE],
          [Report(1, 2, Uniform("d1")) EXCEPT !.cases = 0],
          [Report(2, 1, Uniform("d1")) EXCEPT !.mode = "vm"],
          [Report(2, 1, Uniform("d1")) EXCEPT !.stamped = FALSE],
          [Report(2, 1, Uniform("d1")) EXCEPT !.index = 0],
          Report(2, 1, Uniform("malformed"))}

================================================================================
