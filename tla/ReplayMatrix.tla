------------------------------ MODULE ReplayMatrix ------------------------------
(***************************************************************************)
(* RunMatrix: the replays of every required node, one after the other,     *)
(* each a prepare, a replay and a cleanup command run under one context    *)
(* whose deadline may pass at any moment, followed by loading the evidence *)
(* the replay left in its file, and one validation at the end.             *)
(*                                                                         *)
(* The commands are external scripts: they may fail, hang, or leave any    *)
(* evidence or none.  Every node has its own evidence path per replay in a *)
(* fresh temporary directory.                                              *)
(***************************************************************************)
EXTENDS Evidence, Functions

CONSTANT
  Reports   \* the evidence records a replay may leave

NoFile == [node |-> 0]   \* evidence that is missing or cannot be decoded

VARIABLES
  pc,        \* the step of the loop body
  node,      \* the current node of the sorted required nodes
  index,     \* replayIdx
  command,   \* the state of the external command: "exited" and "killed" when
             \* its process is gone and children of it hold the output pipe
  expired,   \* the context's deadline has passed
  runErr,    \* RunReplay returned an error
  file,      \* the content of the current evidence path
  runs,      \* bundle.NodeReplays
  aggregate, \* the four aggregate digests, once computed
  result,
  attempts,  \* history: the adapter calls made, in order
  ran,       \* history: the replays whose command succeeded
  dirty      \* the nodes a replay has run on since their last cleanup

vars == <<pc, node, index, command, expired, runErr, file, runs, aggregate, result,
          attempts, ran, dirty>>

\* The call waits for an output pipe that the command's children hold.
Held == {"exited", "killed"}

TypeOK ==
  /\ pc \in Steps \cup {"adapter", "load", "judge", "done"}
  /\ node \in requiredNodeIDs
  /\ index \in 1 .. requiredReplayCount(node)
  /\ command \in {"none", "running"} \cup Held
  /\ expired \in BOOLEAN
  /\ runErr \in BOOLEAN
  /\ file \in Reports \cup {NoFile}
  /\ runs \in Seq(Reports)
  /\ result \in {"running", "ok", "error"}
  /\ attempts \in Seq(Steps \X Nodes \X Nat)
  /\ ran \subseteq Nodes \X Nat
  /\ dirty \subseteq Nodes

\* The required nodes are sorted: the first of a set of them.
First(nodes) == CHOOSE n \in nodes : \A m \in nodes : n <= m

Later == {n \in requiredNodeIDs : n > node}

--------------------------------------------------------------------------------

Init ==
  /\ pc = "adapter"
  /\ node = First(requiredNodeIDs)
  /\ index = 1
  /\ command = "none"
  /\ expired = FALSE
  /\ runErr = FALSE
  /\ file = NoFile
  /\ runs = <<>>
  /\ aggregate = <<>>
  /\ result = "running"
  /\ attempts = <<>>
  /\ ran = {}
  /\ dirty = {}

Return(outcome) == pc' = "done" /\ result' = outcome

\* The deadline passes.
Expire ==
  /\ result = "running"
  /\ ~expired
  /\ expired' = TRUE
  /\ UNCHANGED <<pc, node, index, command, runErr, file, runs, aggregate, result,
                 attempts, ran, dirty>>

\* The factory gives an adapter for the node's mode, or fails.
MakeAdapter ==
  /\ pc = "adapter"
  /\ \/ pc' = "prepare" /\ UNCHANGED result
     \/ Return("error")
  /\ UNCHANGED <<node, index, command, expired, runErr, file, runs, aggregate,
                 attempts, ran, dirty>>

--------------------------------------------------------------------------------
(* One adapter call. *)

(* What RunMatrix does with the error, or none, of the call at pc. *)

AfterPrepare(ok) ==
  /\ IF ok THEN pc' = "replay" /\ UNCHANGED result ELSE Return("error")
  /\ UNCHANGED runErr

AfterReplay_ReturnsError(ok) ==
  /\ IF ok THEN pc' = "cleanup" /\ UNCHANGED result ELSE Return("error")
  /\ runErr' = ~ok

\* The replay's error is kept until the cleanup has been called.
AfterReplay(ok) ==
  /\ pc' = "cleanup"
  /\ runErr' = ~ok
  /\ UNCHANGED result

AfterCleanup_RunErrorLost(ok) ==
  /\ IF ok THEN pc' = "load" /\ UNCHANGED result ELSE Return("error")
  /\ UNCHANGED runErr

AfterCleanup_ErrorIgnored(ok) ==
  /\ IF ~runErr THEN pc' = "load" /\ UNCHANGED result ELSE Return("error")
  /\ UNCHANGED runErr

AfterCleanup(ok) ==
  /\ IF ok /\ ~runErr THEN pc' = "load" /\ UNCHANGED result ELSE Return("error")
  /\ UNCHANGED runErr

Continue(ok) ==
  \/ pc = "prepare" /\ AfterPrepare(ok)
  \/ pc = "replay" /\ AfterReplay(ok)
  \/ pc = "cleanup" /\ AfterCleanup(ok)

Configured == pc \in Node(node).commands

\* A command that is not configured succeeds without running anything.
Skip ==
  /\ pc \in Steps /\ command = "none"
  /\ ~Configured
  /\ Continue(TRUE)
  /\ attempts' = Append(attempts, <<pc, node, index>>)
  /\ UNCHANGED <<node, index, command, expired, file, runs, aggregate, ran, dirty>>

\* exec.CommandContext does not start a command after the deadline.
Refuse ==
  /\ pc \in Steps /\ command = "none"
  /\ Configured /\ expired
  /\ Continue(FALSE)
  /\ attempts' = Append(attempts, <<pc, node, index>>)
  /\ UNCHANGED <<node, index, command, expired, file, runs, aggregate, ran, dirty>>

Start ==
  /\ pc \in Steps /\ command = "none"
  /\ Configured /\ ~expired
  /\ command' = "running"
  /\ attempts' = Append(attempts, <<pc, node, index>>)
  /\ dirty' = IF pc = "replay" THEN dirty \cup {node} ELSE dirty
  /\ UNCHANGED <<pc, node, index, expired, runErr, file, runs, aggregate, result, ran>>

\* What a command leaves behind when it ends: a replay any evidence or none,
\* a cleanup that succeeded a clean node.
Effects(ok) ==
  /\ command' = "none"
  /\ IF pc = "replay" THEN file' \in Reports \cup {NoFile} ELSE UNCHANGED file
  /\ ran' = IF pc = "replay" /\ ok THEN ran \cup {<<node, index>>} ELSE ran
  /\ dirty' = IF pc = "cleanup" /\ ok THEN dirty \ {node} ELSE dirty
  /\ UNCHANGED <<node, index, expired, runs, aggregate, attempts>>

\* The command's process ends by itself, leaving children on its output pipe:
\* the call waits for them, and no WaitDelay is set that would end the waiting.
Linger ==
  /\ command = "running"
  /\ command' = "exited"
  /\ UNCHANGED <<pc, node, index, expired, runErr, file, runs, aggregate, result,
                 attempts, ran, dirty>>

\* The call returns with the status of a process that ended by itself.
Finish ==
  /\ command \in {"running", "exited"}
  /\ \E ok \in BOOLEAN : Continue(ok) /\ Effects(ok)

Kill_NoContext == FALSE

\* At the deadline the process is killed, if it still runs, and its children are
\* not: the call returns when they too have let go of the output pipe.
Kill ==
  /\ command = "running" /\ expired
  /\ command' = "killed"
  /\ UNCHANGED <<pc, node, index, expired, runErr, file, runs, aggregate, result,
                 attempts, ran, dirty>>

Reap ==
  /\ command = "killed"
  /\ Continue(FALSE)
  /\ Effects(FALSE)

--------------------------------------------------------------------------------

LoadFails ==
  /\ pc = "load"
  /\ file = NoFile
  /\ Return("error")
  /\ UNCHANGED <<node, index, command, expired, runErr, file, runs, aggregate,
                 attempts, ran, dirty>>

\* The next replay, the next node, or the end of the loops.
NextReplay ==
  IF index < requiredReplayCount(node)
    THEN index' = index + 1 /\ pc' = "prepare" /\ UNCHANGED node
    ELSE IF Later # {}
      THEN node' = First(Later) /\ index' = 1 /\ pc' = "adapter"
      ELSE pc' = "judge" /\ UNCHANGED <<node, index>>

\* LoadNodeRunEvidence takes the file as it is; the next replay has its own path.
Load ==
  /\ pc = "load"
  /\ file # NoFile
  /\ runs' = Append(runs, file)
  /\ file' = NoFile
  /\ NextReplay
  /\ UNCHANGED <<command, expired, runErr, aggregate, result, attempts, ran, dirty>>

Earlier(r, s) == r.node < s.node \/ (r.node = s.node /\ r.index < s.index)

\* The evidence is sorted, by sort.Slice: records with one label come in any
\* order.  The aggregates are those of the first, and the bundle must pass the
\* validation that verify-evidence applies later.
Judge ==
  /\ pc = "judge"
  /\ \E order \in Bijection(DOMAIN runs, DOMAIN runs) :
       /\ \A j, k \in DOMAIN runs : j < k => ~Earlier(runs[order[k]], runs[order[j]])
       /\ runs' = [k \in DOMAIN runs |-> runs[order[k]]]
  /\ aggregate' = runs'[1].digest
  /\ Return(IF ValidateEvidenceBundle(runs', aggregate', profile.hardReleaseGate)
              THEN "ok" ELSE "error")
  /\ UNCHANGED <<node, index, command, expired, runErr, file, attempts, ran, dirty>>

Stop == pc = "done" /\ UNCHANGED vars

Next ==
  \/ Expire \/ MakeAdapter
  \/ Skip \/ Refuse \/ Start \/ Linger \/ Finish \/ Kill \/ Reap
  \/ LoadFails \/ Load \/ Judge
  \/ Stop

Spec == Init /\ [][Next]_vars

\* RunMatrix itself keeps going, time passes, and a process that is killed dies.
\* Nothing is assumed of the commands: one need not end by itself, and its
\* children need not ever let go of the output pipe.
FairSpec ==
  /\ Spec
  /\ WF_vars(Expire)
  /\ WF_vars(MakeAdapter \/ Skip \/ Refuse \/ Start \/ LoadFails \/ Load \/ Judge)
  /\ WF_vars(Kill)

--------------------------------------------------------------------------------
(* Properties *)

\* Evidence is returned only when every required replay of every required node
\* has a record, exactly one each, none of another node, all passed and all
\* with the aggregate digests (OFFLINE-EVIDENCE-001).  Records are matched by
\* the labels they carry: as many are loaded as pairs are required, so a
\* mislabelled record always leaves a gap.
SuccessIsComplete ==
  result = "ok" =>
    /\ Len(runs) = Cardinality(RequiredPairs)
    /\ {<<runs[k].node, runs[k].index>> : k \in DOMAIN runs} = RequiredPairs
    /\ \A k \in DOMAIN runs : runs[k].passed /\ runs[k].digest = aggregate

\* Success means that every required replay command of this run succeeded: no
\* record stands in for a replay that failed or never ran.
SuccessRanEverything == result = "ok" => ran = RequiredPairs

\* However a replay ends, its cleanup is the next call, and RunMatrix neither
\* returns nor goes on to load the evidence before making it.
CleanupFollowsReplay ==
  \A k \in DOMAIN attempts :
    LET call == attempts[k] IN
    call[1] = "replay" =>
      IF k < Len(attempts)
        THEN attempts[k + 1] = <<"cleanup", call[2], call[3]>>
        ELSE pc \in {"replay", "cleanup"}

HasCleanup == {n \in Nodes : "cleanup" \in Node(n).commands}

\* No replay starts on a node that has a cleanup command and has not been
\* cleaned successfully since the previous replay there.
ReplaysAreCold ==
  [][pc = "replay" /\ command = "none" /\ command' = "running" /\ node \in HasCleanup
       => node \notin dirty]_vars

\* A command that never ends does not keep RunMatrix from returning, for the
\* deadline kills it.  Only one whose children hold its output pipe for ever
\* does: the call waits for the pipe past any deadline (executil.go:43).
ReturnsUnlessPipeHeld == []<>(command \notin Held) => <>(result # "running")

================================================================================
