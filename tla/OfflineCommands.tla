----------------------------- MODULE OfflineCommands -----------------------------
(***************************************************************************)
(* The subcommands prepare, run and verify-evidence of jcs-offline-replay  *)
(* over the files of an output directory, which other steps and other      *)
(* people replace while a command is running.                              *)
(*                                                                         *)
(* A digest stands for the content it was taken of.  The replays are those *)
(* of ReplayMatrix: here each only takes the bundle it finds at its path,  *)
(* and together they yield some aggregate, or an error.                    *)
(***************************************************************************)
EXTENDS Naturals, FiniteSets

CONSTANTS
  Dirs,       \* output directories, each with its matrix and profile
  Versions,   \* valid contents of a matrix or profile
  Malformed,  \* a content that is not valid
  Trees,      \* states of the source tree, with or without uncommitted changes
  Commits,    \* names of commits, or what is given for one
  CommitOf,   \* [Trees -> Commits], what git rev-parse HEAD says there
  Aggregates, \* aggregate digests that replays may agree on
  None        \* no file, nothing read yet, or a variable that is not set

ASSUME TreesAssumption == CommitOf \in [Trees -> Commits]

VARIABLES
  disk,   \* the files of each directory
  tree,   \* the source tree that is checked out
  cmd,    \* the subcommand that is running, and what it has read
  edited  \* the files others have replaced, <<"source", "tree">> for the tree

commandVars == <<disk, tree, cmd, edited>>

\* A bundle holds a binary and a copy of the matrix and profile; a binary is the
\* source tree it was built from.  made: its creation time, as far as it matters.
Bundles == [binary : Trees, matrix : Versions \cup {Malformed},
            profile : Versions \cup {Malformed}, made : {"earlier", "now", "other"}]

\* used and parsed are not in the file: the bundles the replays took, and the
\* matrix and profile RunMatrix worked from.
Evidence == [bundle : Bundles, control : Trees, matrix : Versions \cup {Malformed},
             profile : Versions \cup {Malformed}, commit : Commits, aggregate : Aggregates,
             made : {"earlier", "now"}, used : SUBSET Bundles,
             parsed : [matrix : Versions, profile : Versions]]

Nothing == [matrix |-> None, profile |-> None, manifest |-> None, bundle |-> None,
            matrixSHA |-> None, profileSHA |-> None, used |-> {}, commit |-> None,
            evidence |-> None]

Idle == [op |-> "none", dir |-> None, at |-> "idle", got |-> Nothing]

\* The command op on directory d; commit: the source identity it is given.
Command(op, d, commit) ==
  [op |-> op, dir |-> d, at |-> "load", got |-> [Nothing EXCEPT !.commit = commit]]

Here == disk[cmd.dir]

At(op, at) == cmd.op = op /\ cmd.at = at

Read(update, next) == cmd' = [cmd EXCEPT !.got = update, !.at = next]

\* Any read or write may fail; a failing command leaves the files as they are.
CommandFails ==
  /\ cmd.at \notin {"idle", "ok", "failed"}
  /\ cmd' = [cmd EXCEPT !.at = "failed"]
  /\ UNCHANGED <<disk, tree, edited>>

\* Every command first loads the matrix and the profile; prepare only to have
\* them validated.
LoadMatrixAndProfile ==
  /\ cmd.at = "load"
  /\ Here.matrix \in Versions
  /\ Here.profile \in Versions
  /\ Read([cmd.got EXCEPT !.matrix = Here.matrix, !.profile = Here.profile],
          CASE cmd.op = "prepare" -> "create"
            [] cmd.op = "run"     -> "manifest"
            [] cmd.op = "verify"  -> "evidence")
  /\ UNCHANGED <<disk, tree, edited>>

---------------------------------------------------------------------------
(* prepare *)

\* CreateBundle reads matrix and profile again.  A failure may leave a file that
\* is no archive; the summary is printed when the archive is there already.
CreateBundle ==
  /\ At("prepare", "create")
  /\ \/ /\ Here.binary # None
        /\ disk' = [disk EXCEPT ![cmd.dir].bundle =
                      [binary |-> Here.binary, matrix |-> Here.matrix,
                       profile |-> Here.profile, made |-> "now"]]
        /\ \E outcome \in {"ok", "failed"} : cmd' = [cmd EXCEPT !.at = outcome]
     \/ /\ disk' = [disk EXCEPT ![cmd.dir].bundle = None]
        /\ cmd' = [cmd EXCEPT !.at = "failed"]
  /\ UNCHANGED <<tree, edited>>

---------------------------------------------------------------------------
(* run *)

\* VerifyBundle reads the archive twice: for its manifest and for its digest.
ReadManifest ==
  /\ At("run", "manifest")
  /\ Here.bundle # None
  /\ Read([cmd.got EXCEPT !.manifest = Here.bundle], "digests")
  /\ UNCHANGED <<disk, tree, edited>>

\* The matrix and the profile are read again for their digests.
ReadDigests ==
  /\ At("run", "digests")
  /\ Here.bundle # None
  /\ Read([cmd.got EXCEPT !.bundle = Here.bundle, !.matrixSHA = Here.matrix,
                          !.profileSHA = Here.profile], "replay")
  /\ UNCHANGED <<disk, tree, edited>>

Replay ==
  /\ At("run", "replay")
  /\ \E next \in {"replay", "evidence"} :
       Read([cmd.got EXCEPT !.used = @ \cup {Here.bundle}], next)
  /\ UNCHANGED <<disk, tree, edited>>

\* The control binary of the evidence is the one the manifest speaks of.  A
\* failed write leaves no evidence, a failed summary all of it.
WriteEvidence ==
  /\ At("run", "evidence")
  /\ \/ /\ \E aggregate \in Aggregates :
             disk' = [disk EXCEPT ![cmd.dir].evidence =
                        [bundle |-> cmd.got.bundle, control |-> cmd.got.manifest.binary,
                         matrix |-> cmd.got.matrixSHA, profile |-> cmd.got.profileSHA,
                         commit |-> cmd.got.commit, aggregate |-> aggregate, made |-> "now",
                         used |-> cmd.got.used,
                         parsed |-> [matrix |-> cmd.got.matrix, profile |-> cmd.got.profile]]]
        /\ \E outcome \in {"ok", "failed"} : cmd' = [cmd EXCEPT !.at = outcome]
     \/ /\ disk' = [disk EXCEPT ![cmd.dir].evidence = None]
        /\ cmd' = [cmd EXCEPT !.at = "failed"]
  /\ UNCHANGED <<tree, edited>>

---------------------------------------------------------------------------
(* verify-evidence *)

LoadEvidence ==
  /\ At("verify", "evidence")
  /\ Here.evidence # None
  /\ Read([cmd.got EXCEPT !.evidence = Here.evidence], "compare")
  /\ UNCHANGED <<disk, tree, edited>>

\* The header checks of ValidateEvidenceBundle, against the files beside the
\* evidence; without an expected commit any is accepted.
HeaderMatches(e, files, commit) ==
  /\ e.bundle = files.bundle
  /\ e.control = files.binary
  /\ e.matrix = files.matrix
  /\ e.profile = files.profile
  /\ commit # None => e.commit = commit

CompareEvidence ==
  /\ At("verify", "compare")
  /\ HeaderMatches(cmd.got.evidence, Here, cmd.got.commit)
  /\ cmd' = [cmd EXCEPT !.at = "ok"]
  /\ UNCHANGED <<disk, tree, edited>>

CommandStep ==
  \/ CommandFails
  \/ LoadMatrixAndProfile
  \/ CreateBundle
  \/ ReadManifest
  \/ ReadDigests
  \/ Replay
  \/ WriteEvidence
  \/ LoadEvidence
  \/ CompareEvidence

---------------------------------------------------------------------------
(* Others *)

\* Someone edits a matrix or profile, prepares another bundle at the path, or
\* changes the source tree, with or without checking out another commit.
Edit ==
  \/ \E d \in Dirs :
       \/ \E v \in (Versions \cup {Malformed}) \ {disk[d].matrix} :
            /\ disk' = [disk EXCEPT ![d].matrix = v]
            /\ edited' = edited \cup {<<d, "matrix">>}
            /\ UNCHANGED <<tree, cmd>>
       \/ /\ disk[d].bundle # None
          /\ disk' = [disk EXCEPT ![d].bundle.made = "other"]
          /\ edited' = edited \cup {<<d, "bundle">>}
          /\ UNCHANGED <<tree, cmd>>
  \/ /\ tree' \in Trees \ {tree}
     /\ edited' = edited \cup {<<"source", "tree">>}
     /\ UNCHANGED <<disk, cmd>>

===============================================================================
