--------------------------- MODULE OfflineSuiteProofs ---------------------------
(***************************************************************************)
(* What the files of a passed run have to do with each other, and what     *)
(* cross-arch compared, for any contents and any number of files that      *)
(* others replace meanwhile.                                               *)
(***************************************************************************)
EXTENDS OfflineSuite, TLAPS

Stages == {"idle", "load", "create", "manifest", "digests", "replay", "evidence", "compare",
           "ok", "failed"}

Readings ==
  [matrix : Versions \cup {None}, profile : Versions \cup {None},
   manifest : Bundles \cup {None}, bundle : Bundles \cup {None},
   matrixSHA : Versions \cup {Malformed, None}, profileSHA : Versions \cup {Malformed, None},
   used : SUBSET Bundles, commit : Commits \cup {None}, evidence : Evidence \cup {None}]

CommandRecords ==
  [op : {"none", "prepare", "run", "verify"}, dir : Dirs \cup {None}, at : Stages,
   got : Readings]

SuiteRecords ==
  [command : {"run-suite", "cross-arch"},
   at : {"identity", "build", "preflight", "prepare", "run", "verify", "report", "audit",
         "gate", "checksums", "index", "pass", "compare", "official", "done", "failed"},
   dir : Dirs, skipGate : BOOLEAN, environment : Commits \cup {None},
   commit : Commits \cup {None}]

TypeInv ==
  /\ disk \in [Dirs -> FileSets]
  /\ tree \in Trees
  /\ cmd \in CommandRecords
  /\ suite \in SuiteRecords
  /\ passed \subseteq Dirs

Untouched(d, name) == <<d, name>> \notin edited

--------------------------------------------------------------------------------
(* The files of a directory. *)

\* The bundle holds the binary that is there and the matrix it was made from.
BundleOK(d) ==
  /\ disk[d].bundle \in Bundles
  /\ disk[d].bundle.binary = disk[d].binary
  /\ Untouched(d, "matrix") => disk[d].bundle.matrix = disk[d].matrix

\* The evidence is of this invocation, of that bundle and that matrix.
EvidenceOK(d) ==
  /\ disk[d].evidence \in Evidence
  /\ disk[d].evidence.made = "now"
  /\ disk[d].evidence.bundle.matrix = disk[d].bundle.matrix
  /\ Untouched(d, "bundle") =>
       /\ disk[d].evidence.used = {disk[d].bundle}
       /\ disk[d].evidence.bundle = disk[d].bundle
       /\ disk[d].evidence.control = disk[d].binary
  /\ Untouched(d, "matrix") =>
       /\ disk[d].evidence.matrix = disk[d].matrix
       /\ disk[d].evidence.parsed.matrix = disk[d].matrix

AuditOK(d) == disk[d].audit = [result |-> "PASS", of |-> disk[d].evidence]

ChecksumsOK(d) ==
  Untouched(d, "bundle") =>
    disk[d].checksums = [bundle |-> disk[d].bundle, evidence |-> disk[d].evidence]

\* What a run of this invocation calls the tree t, if the tree does not change
\* between its identity and its build or the environment has a name anyway.
Named(t) == IF suite.environment = None THEN CommitOf[t] ELSE suite.environment
Known == suite.environment # None \/ Untouched("source", "tree")

Resolved == Known => suite.commit = Named(tree)
CommitOK(d, commit) == Known => commit = Named(disk[d].binary)

--------------------------------------------------------------------------------
(* The invariant. *)

AfterAudit == {"gate", "checksums", "index", "pass"}
AfterRun == {"verify", "report", "audit"} \cup AfterAudit
AfterPrepare == {"run"} \cup AfterRun
AfterBuild == {"preflight", "prepare"} \cup AfterPrepare
AfterIdentity == {"build"} \cup AfterBuild
Running == {"identity"} \cup AfterIdentity

EndedWell(op) == suite.at = op /\ cmd.at = "ok"

\* What has been done so far in the directory of the current run.
CurrentInv ==
  LET d == suite.dir IN
  /\ suite.at \in AfterIdentity =>
       suite.commit \in Commits /\ Resolved
  /\ suite.at \in AfterBuild => disk[d].binary \in Trees /\ CommitOK(d, suite.commit)
  /\ suite.at \in AfterPrepare \/ EndedWell("prepare") => BundleOK(d)
  /\ suite.at \in AfterRun \/ EndedWell("run") =>
       EvidenceOK(d) /\ disk[d].evidence.commit = suite.commit
  /\ suite.at \in AfterAudit => AuditOK(d)
  /\ suite.at \in {"index", "pass"} => ChecksumsOK(d)
  /\ suite.at = "pass" => disk[d].index

\* What the command that is running has read is what is there, unless replaced.
CommandInv ==
  LET d == cmd.dir
      got == cmd.got
  IN
  cmd.at # "idle" =>
    /\ suite.at \in Commands /\ cmd.op = suite.at /\ d = suite.dir
    /\ cmd.op = "run" =>
         /\ got.commit = suite.commit
         /\ cmd.at \in {"load", "manifest", "digests"} => got.used = {}
         /\ cmd.at \in {"manifest", "digests", "replay", "evidence"} =>
              /\ got.matrix \in Versions /\ got.profile \in Versions
              /\ Untouched(d, "matrix") => got.matrix = disk[d].matrix
         /\ cmd.at \in {"digests", "replay", "evidence"} =>
              /\ got.manifest \in Bundles
              /\ got.manifest.binary = disk[d].binary
         /\ cmd.at \in {"replay", "evidence"} =>
              /\ got.bundle \in Bundles
              /\ got.bundle.matrix = disk[d].bundle.matrix
              /\ got.matrixSHA \in Versions \cup {Malformed}
              /\ got.profileSHA \in Versions \cup {Malformed}
              /\ Untouched(d, "bundle") =>
                   got.bundle = disk[d].bundle /\ got.used \subseteq {disk[d].bundle}
              /\ Untouched(d, "matrix") => got.matrixSHA = disk[d].matrix
         /\ cmd.at = "evidence" => got.used # {}

Done(d) ==
  /\ BundleOK(d)
  /\ EvidenceOK(d)
  /\ AuditOK(d)
  /\ ChecksumsOK(d)
  /\ disk[d].index = TRUE
  /\ CommitOK(d, disk[d].evidence.commit)

PassedInv == \A d \in passed : Done(d)

\* First the one directory, then the other, and the comparison after both.
OrderInv ==
  /\ suite.at \in Running =>
       \/ suite.dir = FirstDir /\ passed = {}
       \/ suite.dir = SecondDir /\ passed = {FirstDir} /\ suite.command = "cross-arch"
  /\ suite.at \in {"compare", "official"} => suite.command = "cross-arch" /\ passed = Dirs

ReportInv ==
  suite.at = "official" \/ (suite.at = "done" /\ suite.command = "cross-arch") =>
    /\ passed = Dirs
    /\ report = [result |-> "PASS", x86 |-> disk[FirstDir].evidence,
                 arm |-> disk[SecondDir].evidence]
    /\ report.x86.aggregate = report.arm.aggregate

IInv == TypeInv /\ CurrentInv /\ CommandInv /\ PassedInv /\ OrderInv /\ ReportInv

--------------------------------------------------------------------------------
(* What a step leaves alone. *)

\* Of the files of d, binary, bundle and matrix stay or are replaced by others.
Same(d) ==
  /\ suite'.environment = suite.environment
  /\ edited \subseteq edited'
  /\ <<"source", "tree">> \notin edited' => tree' = tree
  /\ disk'[d].binary = disk[d].binary
  /\ disk[d].bundle \in Bundles =>
       /\ disk'[d].bundle \in Bundles
       /\ disk'[d].bundle.binary = disk[d].bundle.binary
       /\ disk'[d].bundle.matrix = disk[d].bundle.matrix
  /\ <<d, "bundle">> \notin edited' => disk'[d].bundle = disk[d].bundle
  /\ <<d, "matrix">> \notin edited' => disk'[d].matrix = disk[d].matrix

SameEvidence(d) == Same(d) /\ disk'[d].evidence = disk[d].evidence

SameAudit(d) == SameEvidence(d) /\ disk'[d].audit = disk[d].audit

SameChecksums(d) == SameAudit(d) /\ disk'[d].checksums = disk[d].checksums

SameFiles(d) == SameChecksums(d) /\ disk'[d].index = disk[d].index

LEMMA BundleKept ==
  ASSUME NEW d, BundleOK(d), Same(d) PROVE BundleOK(d)'
  BY DEF BundleOK, Same, Untouched

LEMMA EvidenceKept ==
  ASSUME NEW d, BundleOK(d), EvidenceOK(d), SameEvidence(d) PROVE EvidenceOK(d)'
  BY DEF BundleOK, EvidenceOK, SameEvidence, Same, Untouched

LEMMA AuditKept ==
  ASSUME NEW d, AuditOK(d), SameAudit(d) PROVE AuditOK(d)'
  BY DEF AuditOK, SameAudit, SameEvidence

LEMMA ChecksumsKept ==
  ASSUME NEW d, ChecksumsOK(d), SameChecksums(d) PROVE ChecksumsOK(d)'
  BY DEF ChecksumsOK, SameChecksums, SameAudit, SameEvidence, Same, Untouched

LEMMA CommitKept ==
  ASSUME NEW d, NEW c, CommitOK(d, c), Same(d)
  PROVE  Known' => c = Named(disk[d].binary)'
  BY DEF CommitOK, Known, Named, Resolved, Same, Untouched

LEMMA DoneKept ==
  ASSUME NEW d, Done(d), SameFiles(d) PROVE Done(d)'
<1>1. SameChecksums(d) /\ SameAudit(d) /\ SameEvidence(d) /\ Same(d)
  BY DEF SameFiles, SameChecksums, SameAudit, SameEvidence
<1>2. BundleOK(d)' /\ EvidenceOK(d)' /\ AuditOK(d)' /\ ChecksumsOK(d)'
  BY <1>1, BundleKept, EvidenceKept, AuditKept, ChecksumsKept DEF Done
<1>3. (disk[d].index = TRUE)'
  BY DEF Done, SameFiles
<1>4. CommitOK(d, disk[d].evidence.commit)'
  BY <1>1, CommitKept DEF Done, SameEvidence, CommitOK
<1> QED
  BY <1>2, <1>3, <1>4 DEF Done

LEMMA Unchanged ==
  ASSUME NEW d, disk'[d] = disk[d], suite'.environment = suite.environment,
         UNCHANGED <<tree, edited>>
  PROVE  SameFiles(d)
  BY DEF SameFiles, SameChecksums, SameAudit, SameEvidence, Same, Untouched

\* Whoever replaces a file leaves these relations as they were.
LEMMA EditEffect ==
  ASSUME TypeInv, Edit, suite'.environment = suite.environment
  PROVE  /\ disk' \in [Dirs -> FileSets]
         /\ tree' \in Trees
         /\ UNCHANGED cmd
         /\ \A d \in Dirs : SameFiles(d)
<1> USE DEF TypeInv
<1>1. ASSUME NEW e \in Dirs, NEW v \in (Versions \cup {Malformed}),
             disk' = [disk EXCEPT ![e].matrix = v], edited' = edited \cup {<<e, "matrix">>},
             UNCHANGED <<tree, cmd>>
      PROVE  disk' \in [Dirs -> FileSets] /\ \A d \in Dirs : SameFiles(d)
  <2>1. disk' \in [Dirs -> FileSets]
    BY <1>1 DEF FileSets
  <2>2. ASSUME NEW d \in Dirs PROVE SameFiles(d)
    BY <1>1, <2>2 DEF FileSets, SameFiles, SameChecksums, SameAudit, SameEvidence, Same, Untouched
  <2> QED
    BY <2>1, <2>2
<1>2. ASSUME NEW e \in Dirs, disk[e].bundle # None,
             disk' = [disk EXCEPT ![e].bundle.made = "other"],
             edited' = edited \cup {<<e, "bundle">>}, UNCHANGED <<tree, cmd>>
      PROVE  disk' \in [Dirs -> FileSets] /\ \A d \in Dirs : SameFiles(d)
  <2>0. disk[e] \in FileSets /\ disk[e].bundle \in Bundles
    BY <1>2 DEF FileSets
  <2>3. [disk[e].bundle EXCEPT !.made = "other"] \in Bundles
    BY <2>0 DEF Bundles
  <2>4. [disk[e] EXCEPT !.bundle = [disk[e].bundle EXCEPT !.made = "other"]] \in FileSets
    BY <2>0, <2>3 DEF FileSets
  <2>5. disk' = [disk EXCEPT ![e] =
                   [disk[e] EXCEPT !.bundle = [disk[e].bundle EXCEPT !.made = "other"]]]
    BY <1>2, <2>0
  <2>1. disk' \in [Dirs -> FileSets]
    BY <2>4, <2>5
  <2>2. ASSUME NEW d \in Dirs PROVE SameFiles(d)
    <3>1. CASE d # e
      BY <1>2, <2>2, <2>5, <3>1
      DEF SameFiles, SameChecksums, SameAudit, SameEvidence, Same, Untouched
    <3>2. CASE d = e
      <4>1. disk'[d] = [disk[e] EXCEPT !.bundle = [disk[e].bundle EXCEPT !.made = "other"]]
        BY <2>5, <3>2
      <4>2. /\ disk'[d].bundle = [disk[e].bundle EXCEPT !.made = "other"]
            /\ disk'[d].binary = disk[d].binary
            /\ disk'[d].matrix = disk[d].matrix
            /\ disk'[d].evidence = disk[d].evidence
            /\ disk'[d].audit = disk[d].audit
            /\ disk'[d].checksums = disk[d].checksums
            /\ disk'[d].index = disk[d].index
        BY <4>1, <2>0, <3>2 DEF FileSets
      <4>3. /\ disk'[d].bundle.binary = disk[d].bundle.binary
            /\ disk'[d].bundle.matrix = disk[d].bundle.matrix
        BY <4>2, <2>0, <3>2 DEF Bundles
      <4> QED
        BY <1>2, <2>3, <3>2, <4>2, <4>3
        DEF SameFiles, SameChecksums, SameAudit, SameEvidence, Same, Untouched
    <3> QED
      BY <3>1, <3>2
  <2> QED
    BY <2>1, <2>2
<1>3. ASSUME tree' \in Trees \ {tree}, edited' = edited \cup {<<"source", "tree">>},
             UNCHANGED <<disk, cmd>>
      PROVE  disk' \in [Dirs -> FileSets] /\ \A d \in Dirs : SameFiles(d)
  BY <1>3 DEF SameFiles, SameChecksums, SameAudit, SameEvidence, Same, Untouched
<1> QED
  BY <1>1, <1>2, <1>3 DEF Edit

--------------------------------------------------------------------------------
(* The steps of the suite. *)

\* No step changes the environment.
LEMMA EnvironmentKept ==
  ASSUME TypeInv, Suite
  PROVE  suite'.environment = suite.environment
<1> USE DEF Advance, SuiteFails, SuiteRecords
<1>0. suite \in SuiteRecords
  BY DEF TypeInv
<1>1. CASE ResolveSourceIdentity
  BY <1>0, <1>1 DEF ResolveSourceIdentity
<1>2. CASE Build
  BY <1>0, <1>2 DEF Build, WriteFails
<1>3. CASE CheckOnly
  BY <1>0, <1>3 DEF CheckOnly
<1>4. CASE StartCommand
  BY <1>0, <1>4 DEF StartCommand
<1>5. CASE EndCommand
  BY <1>0, <1>5 DEF EndCommand
<1>6. CASE WriteAudit
  BY <1>0, <1>6 DEF WriteAudit, WriteFails
<1>7. CASE WriteChecksums
  BY <1>0, <1>7 DEF WriteChecksums, WriteFails
<1>8. CASE WriteRunIndex
  BY <1>0, <1>8 DEF WriteRunIndex, WriteFails
<1>9. CASE SuitePasses
  BY <1>0, <1>9 DEF SuitePasses
<1>10. CASE CompareEvidenceFiles
  BY <1>0, <1>10 DEF CompareEvidenceFiles
<1>11. CASE OfficialGates
  BY <1>0, <1>11 DEF OfficialGates
<1> QED
  BY <1>1, <1>2, <1>3, <1>4, <1>5, <1>6, <1>7, <1>8, <1>9, <1>10, <1>11 DEF Suite

\* The directory of a run that has not ended is not among the passed ones.
LEMMA NotYetPassed ==
  ASSUME IInv, suite.at \in Running PROVE suite.dir \notin passed
  BY SuiteAssumption DEF IInv, OrderInv

LEMMA PassedKept ==
  ASSUME PassedInv, passed' = passed, \A d \in passed : SameFiles(d) PROVE PassedInv'
<1>1. ASSUME NEW d \in passed PROVE Done(d)'
  BY <1>1, DoneKept DEF PassedInv
<1> QED
  BY <1>1 DEF PassedInv

\* Once the suite has failed, only what concerns the passed directories matters.
LEMMA FailKeeps ==
  ASSUME IInv, SuiteFails, cmd' \in CommandRecords, cmd'.at = "idle",
         disk' \in [Dirs -> FileSets], UNCHANGED <<tree, passed>>,
         \A d \in passed : SameFiles(d)
  PROVE  IInv'
<1>1. suite' \in SuiteRecords /\ suite'.at = "failed"
  BY DEF SuiteFails, IInv, TypeInv, SuiteRecords
<1>3. TypeInv'
  BY <1>1 DEF IInv, TypeInv
<1>4. CurrentInv' /\ OrderInv' /\ ReportInv'
  BY <1>1 DEF CurrentInv, OrderInv, ReportInv, EndedWell, AfterAudit, AfterRun, AfterPrepare,
              AfterBuild, AfterIdentity, Running
<1>5. CommandInv'
  BY DEF CommandInv
<1>6. PassedInv'
  BY PassedKept DEF IInv
<1> QED
  BY <1>3, <1>4, <1>5, <1>6 DEF IInv

\* The step that follows: nothing but the step changes.
LEMMA AdvanceEffect ==
  ASSUME TypeInv, Advance, suite.at \in Running \ {"pass"}
  PROVE  /\ suite' \in SuiteRecords
         /\ suite'.at = Following[suite.at]
         /\ suite'.at \in Running
         /\ suite'.dir = suite.dir
         /\ suite'.commit = suite.commit
         /\ suite'.command = suite.command
  BY DEF TypeInv, Advance, Following, SuiteRecords, Running, AfterIdentity, AfterBuild,
         AfterPrepare, AfterRun, AfterAudit

\* While the files of passed directories stay, the order of the runs is kept.
LEMMA AdvanceKeeps ==
  ASSUME IInv, Advance, suite.at \in Running \ {"pass"},
         cmd' \in CommandRecords, cmd'.at = "idle", disk' \in [Dirs -> FileSets],
         UNCHANGED <<tree, passed>>, \A d \in passed : SameFiles(d), CurrentInv'
  PROVE  IInv'
<1>1. suite' \in SuiteRecords /\ suite'.at \in Running /\ UNCHANGED <<suite.dir, suite.command>>
  BY AdvanceEffect DEF IInv
<1>3. TypeInv'
  BY <1>1 DEF IInv, TypeInv
<1>4. suite'.at \notin {"compare", "official", "done"}
  BY <1>1 DEF AfterAudit, AfterRun, AfterPrepare, AfterBuild, AfterIdentity, Running
<1>5. OrderInv' /\ ReportInv'
  BY <1>1, <1>4 DEF IInv, OrderInv, ReportInv
<1>6. CommandInv'
  BY DEF CommandInv
<1>7. PassedInv'
  BY PassedKept DEF IInv
<1> QED
  BY <1>3, <1>5, <1>6, <1>7 DEF IInv

\* Where the suite runs no command, none is running.
LEMMA NoCommand ==
  ASSUME IInv, suite.at \notin Commands PROVE cmd.at = "idle"
  BY DEF IInv, CommandInv

LEMMA IdentityKeeps == ASSUME IInv, ResolveSourceIdentity PROVE IInv'
<1> USE DEF ResolveSourceIdentity
<1>e. suite'.environment = suite.environment
  BY EnvironmentKept DEF IInv, Suite
<1>0. \A d \in Dirs : SameFiles(d)
  BY <1>e, Unchanged DEF commandVars
<1>1. cmd' \in CommandRecords /\ cmd'.at = "idle" /\ disk' \in [Dirs -> FileSets]
      /\ UNCHANGED <<tree, passed>> /\ \A d \in passed : SameFiles(d)
  BY <1>0, NoCommand DEF IInv, TypeInv, Commands, commandVars
<1>2. CASE SuiteFails
  BY <1>1, <1>2, FailKeeps
<1>3. CASE suite' = [suite EXCEPT !.at = "build", !.commit = Named(tree)]
  <2>1. /\ suite' \in SuiteRecords /\ suite'.at = "build" /\ suite'.commit = Named(tree)
        /\ UNCHANGED <<suite.dir, suite.command>>
    BY <1>3, TreesAssumption DEF IInv, TypeInv, SuiteRecords, Named
  <2>2. TypeInv'
    BY <1>1, <2>1 DEF IInv, TypeInv
  <2>3. CurrentInv'
    <3>1. Named(tree) \in Commits
      BY TreesAssumption DEF IInv, TypeInv, SuiteRecords, Named
    <3>2. Resolved'
      BY <1>e, <1>1, <2>1 DEF Resolved, Named
    <3> QED
      BY <2>1, <3>1, <3>2
      DEF CurrentInv, EndedWell, AfterIdentity, AfterBuild, AfterPrepare, AfterRun, AfterAudit
  <2>4. CommandInv' /\ PassedInv'
    BY <1>1, PassedKept DEF IInv, CommandInv
  <2>5. OrderInv' /\ ReportInv'
    BY <1>1, <2>1 DEF IInv, OrderInv, ReportInv, Running, AfterIdentity
  <2> QED
    BY <2>2, <2>3, <2>4, <2>5 DEF IInv
<1> QED
  BY <1>2, <1>3 DEF Named

\* A new binary at its path; nothing else is known of the directory then.
LEMMA BuildKeeps == ASSUME IInv, Build PROVE IInv'
<1> USE DEF Build
<1>e. suite'.environment = suite.environment
  BY EnvironmentKept DEF IInv, Suite
<1>1. cmd' \in CommandRecords /\ cmd'.at = "idle" /\ UNCHANGED <<tree, passed, edited>>
  BY NoCommand DEF IInv, TypeInv, Commands
<1>2. ASSUME NEW c \in Trees \cup {None}, SetFile("binary", c)
      PROVE  /\ disk' \in [Dirs -> FileSets]
             /\ disk'[suite.dir].binary = c
             /\ \A d \in Dirs \ {suite.dir} : disk'[d] = disk[d]
  BY <1>2 DEF SetFile, IInv, TypeInv, FileSets, SuiteRecords
<1>3. /\ disk' \in [Dirs -> FileSets]
      /\ \A d \in Dirs \ {suite.dir} : disk'[d] = disk[d]
  <2>1. tree \in Trees
    BY DEF IInv, TypeInv
  <2>2. CASE UNCHANGED disk
    BY <2>2 DEF IInv, TypeInv
  <2>3. CASE SetFile("binary", tree)
    BY <2>1, <2>3, <1>2
  <2>4. CASE SetFile("binary", None)
    BY <2>4, <1>2
  <2> QED
    BY <2>2, <2>3, <2>4 DEF WriteFails
<1>4. \A d \in passed : SameFiles(d)
  BY <1>1, <1>3, <1>e, NotYetPassed, Unchanged DEF IInv, TypeInv, Running, AfterIdentity
<1>5. CASE SuiteFails
  BY <1>1, <1>3, <1>4, <1>5, FailKeeps
<1>6. CASE SetFile("binary", tree) /\ Advance
  <2>1. /\ suite'.at = "preflight" /\ UNCHANGED <<suite.dir, suite.commit>>
    BY <1>6, AdvanceEffect DEF IInv, Running, AfterIdentity, Following
  <2>2. disk'[suite.dir].binary = tree /\ tree \in Trees
    BY <1>2, <1>6 DEF IInv, TypeInv
  <2>3. suite.commit \in Commits /\ Resolved
    BY DEF IInv, CurrentInv, AfterIdentity
  <2>4. CurrentInv'
    BY <1>e, <1>1, <2>1, <2>2, <2>3 DEF CurrentInv, EndedWell, AfterIdentity, AfterBuild,
        AfterPrepare,
                            AfterRun, AfterAudit, CommitOK, Known, Named, Resolved, Untouched
  <2> QED
    BY <1>1, <1>3, <1>4, <1>6, <2>4, AdvanceKeeps DEF Running, AfterIdentity
<1> QED
  BY <1>5, <1>6 DEF WriteFails

\* Steps after which the same is known as before.
LEMMA CheckKeeps == ASSUME IInv, CheckOnly PROVE IInv'
<1> USE DEF CheckOnly
<1>e. suite'.environment = suite.environment
  BY EnvironmentKept DEF IInv, Suite
<1>0. \A d \in Dirs : SameFiles(d)
  BY <1>e, Unchanged DEF commandVars
<1>1. cmd' \in CommandRecords /\ cmd'.at = "idle" /\ disk' \in [Dirs -> FileSets]
      /\ UNCHANGED <<tree, passed>> /\ \A d \in passed : SameFiles(d)
  BY <1>0, NoCommand DEF IInv, TypeInv, Commands, commandVars
<1>2. CASE SuiteFails
  BY <1>1, <1>2, FailKeeps
<1>3. CASE Advance
  <2>1. /\ suite.at \in Running \ {"pass"}
        /\ suite'.at = Following[suite.at]
        /\ UNCHANGED <<suite.dir, suite.commit, disk, tree, cmd, edited>>
    BY <1>3, AdvanceEffect DEF IInv, Running, AfterIdentity, AfterBuild, AfterPrepare, AfterRun,
                               AfterAudit, commandVars
  <2>2. \/ suite.at = "preflight" /\ suite'.at = "prepare"
        \/ suite.at = "report" /\ suite'.at = "audit"
        \/ suite.at = "gate" /\ suite'.at = "checksums"
    BY <2>1 DEF Following
  <2>3. CurrentInv'
    BY <1>e, <1>1, <2>1, <2>2 DEF IInv, CurrentInv, EndedWell, AfterIdentity, AfterBuild,
        AfterPrepare,
                       AfterRun, AfterAudit, CommitOK, Known, Named, Resolved, Untouched,
                       BundleOK, EvidenceOK, AuditOK,
                       ChecksumsOK
  <2> QED
    BY <1>1, <1>3, <2>1, <2>3, AdvanceKeeps
<1> QED
  BY <1>2, <1>3

\* A command that starts has read nothing; run has the source identity.
LEMMA StartKeeps == ASSUME IInv, StartCommand PROVE IInv'
<1> USE DEF StartCommand
<1>e. suite'.environment = suite.environment
  BY EnvironmentKept DEF IInv, Suite
<1>0. \A d \in Dirs : SameFiles(d)
  BY <1>e, Unchanged
<1> DEFINE commit == IF suite.at = "run" THEN suite.commit ELSE None
<1>1. suite \in SuiteRecords /\ suite.at \in Commands
  BY DEF IInv, TypeInv
<1>2. commit \in Commits \cup {None}
  BY <1>1 DEF SuiteRecords
<1>3. /\ cmd' \in CommandRecords
      /\ cmd'.at = "load" /\ cmd'.op = suite.at /\ cmd'.dir = suite.dir
      /\ cmd'.got.commit = commit /\ cmd'.got.used = {}
  BY <1>1, <1>2 DEF Command, Nothing, CommandRecords, Readings, Stages, SuiteRecords, Commands
<1>4. TypeInv'
  BY <1>3 DEF IInv, TypeInv
<1>5. CurrentInv'
  BY <1>3 DEF IInv, CurrentInv, EndedWell, CommitOK, Known, Named, Resolved, Untouched,
      BundleOK, EvidenceOK, AuditOK,
              ChecksumsOK
<1>6. CommandInv'
  BY <1>1, <1>3 DEF CommandInv
<1>7. PassedInv'
  BY <1>0, PassedKept DEF IInv, TypeInv
<1>8. OrderInv' /\ ReportInv'
  BY DEF IInv, OrderInv, ReportInv
<1> QED
  BY <1>4, <1>5, <1>6, <1>7, <1>8 DEF IInv

LEMMA EndKeeps == ASSUME IInv, EndCommand PROVE IInv'
<1> USE DEF EndCommand
<1>e. suite'.environment = suite.environment
  BY EnvironmentKept DEF IInv, Suite
<1>0. \A d \in Dirs : SameFiles(d)
  BY <1>e, Unchanged
<1>1. cmd' \in CommandRecords /\ cmd'.at = "idle" /\ disk' \in [Dirs -> FileSets]
      /\ UNCHANGED <<tree, passed>> /\ \A d \in passed : SameFiles(d)
  BY <1>0 DEF IInv, TypeInv, Idle, Nothing, CommandRecords, Readings, Stages
<1>2. CASE SuiteFails
  BY <1>1, <1>2, FailKeeps
<1>3. CASE cmd.at = "ok" /\ Advance
  <2>1. suite.at \in Commands
    BY <1>3 DEF IInv, CommandInv
  <2>2. /\ suite.at \in Running \ {"pass"}
        /\ suite'.at = Following[suite.at]
        /\ UNCHANGED <<suite.dir, suite.commit>>
    BY <1>3, <2>1, AdvanceEffect DEF IInv, Commands, Running, AfterIdentity, AfterBuild,
                                     AfterPrepare, AfterRun
  <2>3. \/ EndedWell("prepare") /\ suite'.at = "run"
        \/ EndedWell("run") /\ suite'.at = "verify"
        \/ EndedWell("verify") /\ suite'.at = "report"
    BY <1>3, <2>1, <2>2 DEF Following, EndedWell, Commands
  <2>4. CurrentInv'
    BY <1>e, <1>1, <2>2, <2>3 DEF IInv, CurrentInv, EndedWell, AfterIdentity, AfterBuild,
        AfterPrepare,
                       AfterRun, AfterAudit, CommitOK, Known, Named, Resolved, Untouched,
                       BundleOK, EvidenceOK, AuditOK,
                       ChecksumsOK
  <2> QED
    BY <1>1, <1>3, <2>2, <2>4, AdvanceKeeps
<1> QED
  BY <1>2, <1>3

\* The three files that the suite itself writes after the verification.
LEMMA AuditKeeps == ASSUME IInv, WriteAudit PROVE IInv'
<1> USE DEF WriteAudit
<1>e. suite'.environment = suite.environment
  BY EnvironmentKept DEF IInv, Suite
<1>1. cmd' \in CommandRecords /\ cmd'.at = "idle" /\ UNCHANGED <<tree, passed, edited>>
  BY NoCommand DEF IInv, TypeInv, Commands
<1> DEFINE Audit == [result |-> "PASS", of |-> Files.evidence]
<1>2. suite.dir \in Dirs /\ disk[suite.dir] \in FileSets
  BY DEF IInv, TypeInv, SuiteRecords
<1>3. EvidenceOK(suite.dir) /\ Audit \in [result : {"PASS"}, of : Evidence]
  <2>1. EvidenceOK(suite.dir)
    BY DEF IInv, CurrentInv, AfterRun
  <2> QED
    BY <2>1 DEF EvidenceOK, Files
<1>4. ASSUME NEW c, c = Audit \/ c = None, SetFile("audit", c)
      PROVE  /\ disk' \in [Dirs -> FileSets]
             /\ \A d \in Dirs \ {suite.dir} : disk'[d] = disk[d]
             /\ SameEvidence(suite.dir)
             /\ disk'[suite.dir].audit = c
  <2>1. c \in [result : {"PASS"}, of : Evidence] \cup {None}
    BY <1>3, <1>4
  <2> HIDE DEF Audit
  <2>2. disk' = [disk EXCEPT ![suite.dir] = [disk[suite.dir] EXCEPT !.audit = c]]
    BY <1>4, <1>2 DEF SetFile, FileSets
  <2>3. [disk[suite.dir] EXCEPT !.audit = c] \in FileSets
    BY <1>2, <2>1 DEF FileSets
  <2>4. disk'[suite.dir] = [disk[suite.dir] EXCEPT !.audit = c]
    BY <1>2, <2>2 DEF IInv, TypeInv
  <2>5. SameEvidence(suite.dir) /\ disk'[suite.dir].audit = c
    BY <1>e, <1>1, <1>2, <2>4 DEF FileSets, SameEvidence, Same, Untouched
  <2> QED
    BY <1>2, <2>2, <2>3, <2>5 DEF IInv, TypeInv
<1>5. disk' \in [Dirs -> FileSets] /\ \A d \in Dirs \ {suite.dir} : disk'[d] = disk[d]
  <2>1. CASE UNCHANGED disk
    BY <2>1 DEF IInv, TypeInv
  <2>2. CASE SetFile("audit", Audit) \/ SetFile("audit", None)
    BY <2>2, <1>4
  <2> QED
    BY <2>1, <2>2 DEF WriteFails
<1>6. \A d \in passed : SameFiles(d)
  BY <1>1, <1>5, <1>e, NotYetPassed, Unchanged DEF IInv, TypeInv, Running, AfterIdentity,
      AfterBuild,
                                             AfterPrepare, AfterRun
<1>7. CASE SuiteFails
  BY <1>1, <1>5, <1>6, <1>7, FailKeeps
<1>8. CASE SetFile("audit", Audit) /\ Advance
  <2>1. /\ suite'.at = "gate" /\ UNCHANGED <<suite.dir, suite.commit>>
        /\ suite.at \in Running \ {"pass"}
    BY <1>8, AdvanceEffect DEF IInv, Running, AfterIdentity, AfterBuild, AfterPrepare, AfterRun,
                               Following
  <2>2. SameEvidence(suite.dir) /\ Same(suite.dir) /\ disk'[suite.dir].audit = Audit
    BY <1>8, <1>4 DEF SameEvidence
  <2>3. /\ suite.commit \in Commits /\ Resolved
        /\ disk[suite.dir].binary \in Trees /\ CommitOK(suite.dir, suite.commit)
        /\ BundleOK(suite.dir) /\ disk[suite.dir].evidence.commit = suite.commit
    BY DEF IInv, CurrentInv, AfterIdentity, AfterBuild, AfterPrepare, AfterRun
  <2>4. PICK d \in Dirs : d = suite.dir
    BY <1>2
  <2>a. SameEvidence(d) /\ Same(d) /\ BundleOK(d) /\ EvidenceOK(d)
    BY <1>3, <2>2, <2>3, <2>4
  <2>b. BundleOK(d)' /\ EvidenceOK(d)'
    BY <2>a, BundleKept, EvidenceKept
  <2>5. BundleOK(d)' /\ EvidenceOK(d)' /\ AuditOK(d)'
    BY <2>2, <2>4, <2>b DEF AuditOK, SameEvidence, Files
  <2>c. /\ disk'[d].binary \in Trees /\ disk'[d].evidence.commit = suite.commit
        /\ Known => suite.commit = Named(disk'[d].binary)
    BY <2>2, <2>3, <2>4, <2>a DEF SameEvidence, Same, CommitOK, Known, Named, Resolved
  <2>6. CurrentInv'
    <3>1. suite'.dir = d /\ suite'.commit = suite.commit
      BY <2>1, <2>4
    <3>2. (BundleOK(suite.dir) /\ EvidenceOK(suite.dir) /\ AuditOK(suite.dir))'
      BY <2>5, <3>1 DEF BundleOK, EvidenceOK, AuditOK, Untouched
    <3>3. CommitOK(suite.dir, suite.commit)'
      BY <1>1, <1>e, <2>c, <3>1 DEF CommitOK, Known, Named, Untouched
    <3>4. (suite.commit \in Commits /\ Resolved)'
      BY <1>1, <1>e, <2>3, <3>1 DEF Resolved, Known, Named, Untouched
    <3> QED
      BY <2>1, <2>c, <3>1, <3>2, <3>3, <3>4 DEF CurrentInv, EndedWell
  <2> QED
    BY <1>1, <1>5, <1>6, <1>8, <2>1, <2>6, AdvanceKeeps
<1> QED
  BY <1>7, <1>8 DEF WriteFails

LEMMA ChecksumsKeeps == ASSUME IInv, WriteChecksums PROVE IInv'
<1> USE DEF WriteChecksums
<1>e. suite'.environment = suite.environment
  BY EnvironmentKept DEF IInv, Suite
<1>1. cmd' \in CommandRecords /\ cmd'.at = "idle" /\ UNCHANGED <<tree, passed, edited>>
  BY NoCommand DEF IInv, TypeInv, Commands
<1> DEFINE Sums == [bundle |-> Files.bundle, evidence |-> Files.evidence]
<1>2. suite.dir \in Dirs /\ disk[suite.dir] \in FileSets
  BY DEF IInv, TypeInv, SuiteRecords
<1>3. /\ BundleOK(suite.dir) /\ EvidenceOK(suite.dir) /\ AuditOK(suite.dir)
      /\ Sums \in [bundle : Bundles, evidence : Evidence]
  <2>1. BundleOK(suite.dir) /\ EvidenceOK(suite.dir) /\ AuditOK(suite.dir)
    BY DEF IInv, CurrentInv, AfterPrepare, AfterRun, AfterAudit
  <2> QED
    BY <2>1 DEF BundleOK, EvidenceOK, Files
<1>4. ASSUME NEW c, c = Sums \/ c = None, SetFile("checksums", c)
      PROVE  /\ disk' \in [Dirs -> FileSets]
             /\ \A d \in Dirs \ {suite.dir} : disk'[d] = disk[d]
             /\ SameAudit(suite.dir)
             /\ disk'[suite.dir].checksums = c
  <2>1. c \in [bundle : Bundles, evidence : Evidence] \cup {None}
    BY <1>3, <1>4
  <2> HIDE DEF Sums
  <2>2. disk' = [disk EXCEPT ![suite.dir] = [disk[suite.dir] EXCEPT !.checksums = c]]
    BY <1>4, <1>2 DEF SetFile, FileSets
  <2>3. [disk[suite.dir] EXCEPT !.checksums = c] \in FileSets
    BY <1>2, <2>1 DEF FileSets
  <2>4. disk'[suite.dir] = [disk[suite.dir] EXCEPT !.checksums = c]
    BY <1>2, <2>2 DEF IInv, TypeInv
  <2>5. SameAudit(suite.dir) /\ disk'[suite.dir].checksums = c
    BY <1>e, <1>1, <1>2, <2>4 DEF FileSets, SameAudit, SameEvidence, Same, Untouched
  <2> QED
    BY <1>2, <2>2, <2>3, <2>5 DEF IInv, TypeInv
<1>5. disk' \in [Dirs -> FileSets] /\ \A d \in Dirs \ {suite.dir} : disk'[d] = disk[d]
  <2>1. CASE UNCHANGED disk
    BY <2>1 DEF IInv, TypeInv
  <2>2. CASE SetFile("checksums", Sums) \/ SetFile("checksums", None)
    BY <2>2, <1>4
  <2> QED
    BY <2>1, <2>2 DEF WriteFails
<1>6. \A d \in passed : SameFiles(d)
  BY <1>1, <1>5, <1>e, NotYetPassed, Unchanged DEF IInv, TypeInv, Running, AfterIdentity,
      AfterBuild,
                                             AfterPrepare, AfterRun, AfterAudit
<1>7. CASE SuiteFails
  BY <1>1, <1>5, <1>6, <1>7, FailKeeps
<1>8. CASE SetFile("checksums", Sums) /\ Advance
  <2>1. /\ suite'.at = "index" /\ UNCHANGED <<suite.dir, suite.commit>>
        /\ suite.at \in Running \ {"pass"}
    BY <1>8, AdvanceEffect DEF IInv, Running, AfterIdentity, AfterBuild, AfterPrepare, AfterRun,
                               AfterAudit, Following
  <2>2. /\ SameAudit(suite.dir) /\ SameEvidence(suite.dir) /\ Same(suite.dir)
        /\ disk'[suite.dir].checksums = Sums
    BY <1>8, <1>4 DEF SameAudit, SameEvidence
  <2>3. /\ suite.commit \in Commits /\ Resolved
        /\ disk[suite.dir].binary \in Trees /\ CommitOK(suite.dir, suite.commit)
        /\ disk[suite.dir].evidence.commit = suite.commit
    BY DEF IInv, CurrentInv, AfterIdentity, AfterBuild, AfterPrepare, AfterRun, AfterAudit
  <2>4. PICK d \in Dirs : d = suite.dir
    BY <1>2
  <2>a. SameAudit(d) /\ SameEvidence(d) /\ Same(d)
    BY <2>2, <2>4
  <2>b. BundleOK(d) /\ EvidenceOK(d) /\ AuditOK(d)
    BY <1>3, <2>4
  <2>5. BundleOK(d)' /\ EvidenceOK(d)' /\ AuditOK(d)'
    BY <2>a, <2>b, BundleKept, EvidenceKept, AuditKept
  <2>6. disk'[d].checksums = [bundle |-> disk[d].bundle, evidence |-> disk[d].evidence]
    BY <2>2, <2>4 DEF Files
  <2>7. ChecksumsOK(d)'
    <3>1. <<d, "bundle">> \notin edited' => disk'[d].bundle = disk[d].bundle
      BY <2>2, <2>4 DEF Same, Untouched
    <3>2. disk'[d].evidence = disk[d].evidence
      BY <2>2, <2>4 DEF SameEvidence
    <3> QED
      BY <2>6, <3>1, <3>2 DEF ChecksumsOK, Untouched
  <2>c. /\ disk'[d].binary \in Trees /\ disk'[d].evidence.commit = suite.commit
        /\ Known => suite.commit = Named(disk'[d].binary)
    BY <2>2, <2>3, <2>4, <2>a DEF SameEvidence, Same, CommitOK, Known, Named, Resolved
  <2>8. CurrentInv'
    <3>1. suite'.dir = d /\ suite'.commit = suite.commit
      BY <2>1, <2>4
    <3>2. (BundleOK(suite.dir) /\ EvidenceOK(suite.dir) /\ AuditOK(suite.dir)
             /\ ChecksumsOK(suite.dir))'
      BY <2>5, <2>7, <3>1 DEF BundleOK, EvidenceOK, AuditOK, Untouched, ChecksumsOK
    <3>3. CommitOK(suite.dir, suite.commit)'
      BY <1>1, <1>e, <2>c, <3>1 DEF CommitOK, Known, Named, Untouched
    <3>4. (suite.commit \in Commits /\ Resolved)'
      BY <1>1, <1>e, <2>3, <3>1 DEF Resolved, Known, Named, Untouched
    <3> QED
      BY <2>1, <2>c, <3>1, <3>2, <3>3, <3>4 DEF CurrentInv, EndedWell
  <2> QED
    BY <1>1, <1>5, <1>6, <1>8, <2>1, <2>8, AdvanceKeeps
<1> QED
  BY <1>7, <1>8 DEF WriteFails

LEMMA IndexKeeps == ASSUME IInv, WriteRunIndex PROVE IInv'
<1> USE DEF WriteRunIndex
<1>e. suite'.environment = suite.environment
  BY EnvironmentKept DEF IInv, Suite
<1>1. cmd' \in CommandRecords /\ cmd'.at = "idle" /\ UNCHANGED <<tree, passed, edited>>
  BY NoCommand DEF IInv, TypeInv, Commands
<1>2. suite.dir \in Dirs /\ disk[suite.dir] \in FileSets
  BY DEF IInv, TypeInv, SuiteRecords
<1>3. ASSUME NEW c \in BOOLEAN, SetFile("index", c)
      PROVE  /\ disk' \in [Dirs -> FileSets]
             /\ \A d \in Dirs \ {suite.dir} : disk'[d] = disk[d]
             /\ SameChecksums(suite.dir)
             /\ disk'[suite.dir].index = c
  <2>1. disk' = [disk EXCEPT ![suite.dir] = [disk[suite.dir] EXCEPT !.index = c]]
    BY <1>3, <1>2 DEF SetFile, FileSets
  <2>2. [disk[suite.dir] EXCEPT !.index = c] \in FileSets
    BY <1>2, <1>3 DEF FileSets
  <2>3. disk'[suite.dir] = [disk[suite.dir] EXCEPT !.index = c]
    BY <1>2, <2>1 DEF IInv, TypeInv
  <2>4. SameChecksums(suite.dir) /\ disk'[suite.dir].index = c
    BY <1>e, <1>1, <1>2, <2>3 DEF FileSets, SameChecksums, SameAudit, SameEvidence, Same,
        Untouched
  <2> QED
    BY <1>2, <2>1, <2>2, <2>4 DEF IInv, TypeInv
<1>4. disk' \in [Dirs -> FileSets] /\ \A d \in Dirs \ {suite.dir} : disk'[d] = disk[d]
  <2>1. CASE UNCHANGED disk
    BY <2>1 DEF IInv, TypeInv
  <2>2. CASE SetFile("index", TRUE) \/ SetFile("index", FALSE)
    BY <2>2, <1>3
  <2> QED
    BY <2>1, <2>2 DEF WriteFails
<1>5. \A d \in passed : SameFiles(d)
  BY <1>1, <1>4, <1>e, NotYetPassed, Unchanged DEF IInv, TypeInv, Running, AfterIdentity,
      AfterBuild,
                                             AfterPrepare, AfterRun, AfterAudit
<1>6. CASE SuiteFails
  BY <1>1, <1>4, <1>5, <1>6, FailKeeps
<1>7. CASE SetFile("index", TRUE) /\ Advance
  <2>1. /\ suite'.at = "pass" /\ UNCHANGED <<suite.dir, suite.commit>>
        /\ suite.at \in Running \ {"pass"}
    BY <1>7, AdvanceEffect DEF IInv, Running, AfterIdentity, AfterBuild, AfterPrepare, AfterRun,
                               AfterAudit, Following
  <2>2. /\ SameChecksums(suite.dir) /\ SameAudit(suite.dir) /\ SameEvidence(suite.dir)
        /\ Same(suite.dir) /\ disk'[suite.dir].index = TRUE
    BY <1>7, <1>3 DEF SameChecksums, SameAudit, SameEvidence
  <2>3. /\ suite.commit \in Commits /\ Resolved
        /\ disk[suite.dir].binary \in Trees /\ CommitOK(suite.dir, suite.commit)
        /\ disk[suite.dir].evidence.commit = suite.commit
        /\ BundleOK(suite.dir) /\ EvidenceOK(suite.dir) /\ AuditOK(suite.dir)
        /\ ChecksumsOK(suite.dir)
    BY DEF IInv, CurrentInv, AfterIdentity, AfterBuild, AfterPrepare, AfterRun, AfterAudit
  <2>4. PICK d \in Dirs : d = suite.dir
    BY <1>2
  <2>a. SameChecksums(d) /\ SameAudit(d) /\ SameEvidence(d) /\ Same(d)
    BY <2>2, <2>4
  <2>b. BundleOK(d) /\ EvidenceOK(d) /\ AuditOK(d) /\ ChecksumsOK(d)
    BY <2>3, <2>4
  <2>5. BundleOK(d)' /\ EvidenceOK(d)' /\ AuditOK(d)' /\ ChecksumsOK(d)'
    BY <2>a, <2>b, BundleKept, EvidenceKept, AuditKept, ChecksumsKept
  <2>c. /\ disk'[d].index = TRUE
        /\ disk'[d].binary \in Trees /\ disk'[d].evidence.commit = suite.commit
        /\ Known => suite.commit = Named(disk'[d].binary)
    BY <2>2, <2>3, <2>4, <2>a DEF SameEvidence, Same, CommitOK, Known, Named, Resolved
  <2>6. CurrentInv'
    <3>1. suite'.dir = d /\ suite'.commit = suite.commit
      BY <2>1, <2>4
    <3>2. (BundleOK(suite.dir) /\ EvidenceOK(suite.dir) /\ AuditOK(suite.dir)
             /\ ChecksumsOK(suite.dir))'
      BY <2>5, <3>1 DEF BundleOK, EvidenceOK, AuditOK, ChecksumsOK, Untouched
    <3>3. CommitOK(suite.dir, suite.commit)'
      BY <1>1, <1>e, <2>c, <3>1 DEF CommitOK, Known, Named, Untouched
    <3>4. (suite.commit \in Commits /\ Resolved)'
      BY <1>1, <1>e, <2>3, <3>1 DEF Resolved, Known, Named, Untouched
    <3> QED
      BY <2>1, <2>c, <3>1, <3>2, <3>3, <3>4 DEF CurrentInv, EndedWell
  <2> QED
    BY <1>1, <1>4, <1>5, <1>7, <2>1, <2>6, AdvanceKeeps
<1> QED
  BY <1>6, <1>7 DEF WriteFails

\* The run passes: the files are done, and the second directory or the comparison
\* comes next.
LEMMA PassKeeps == ASSUME IInv, SuitePasses PROVE IInv'
<1> USE DEF SuitePasses
<1>e. suite'.environment = suite.environment
  BY EnvironmentKept DEF IInv, Suite
<1>0. \A d \in Dirs : SameFiles(d)
  BY <1>e, Unchanged DEF commandVars
<1>1. cmd' \in CommandRecords /\ cmd'.at = "idle" /\ disk' \in [Dirs -> FileSets]
      /\ UNCHANGED tree
  BY NoCommand DEF IInv, TypeInv, Commands, commandVars
<1>2. CASE SuiteFails /\ passed' = passed
  BY <1>0, <1>1, <1>2, FailKeeps DEF IInv, TypeInv
<1>3. CASE ~SuiteFails \/ passed' # passed
  <2>1. /\ passed' = passed \cup {suite.dir}
        /\ suite' = IF suite.command = "run-suite" THEN [suite EXCEPT !.at = "done"]
                    ELSE IF suite.dir = FirstDir
                         THEN [suite EXCEPT !.at = "identity", !.dir = SecondDir]
                         ELSE [suite EXCEPT !.at = "compare"]
    BY <1>3
  <2>2. suite \in SuiteRecords /\ suite.dir \in Dirs
    BY DEF IInv, TypeInv, SuiteRecords
  <2>3. \/ suite.command = "run-suite" /\ suite'.at = "done" /\ suite'.command = "run-suite"
        \/ /\ suite.command = "cross-arch" /\ suite'.command = "cross-arch"
           /\ \/ suite.dir = FirstDir /\ suite'.at = "identity" /\ suite'.dir = SecondDir
              \/ suite.dir # FirstDir /\ suite'.at = "compare"
    BY <2>1, <2>2 DEF SuiteRecords
  <2>4. suite' \in SuiteRecords
    BY <2>1, <2>2, SuiteAssumption DEF SuiteRecords
  <2>5. TypeInv'
    BY <1>1, <2>1, <2>2, <2>4 DEF IInv, TypeInv
  <2>6. CurrentInv'
    BY <2>3 DEF CurrentInv, EndedWell, AfterIdentity, AfterBuild, AfterPrepare, AfterRun,
                AfterAudit
  <2>7. CommandInv'
    BY <1>1 DEF CommandInv
  <2>8. Done(suite.dir)
    BY DEF IInv, CurrentInv, AfterIdentity, AfterBuild, AfterPrepare, AfterRun, AfterAudit, Done
  <2>9. ASSUME NEW d \in passed' PROVE Done(d)'
    <3>1. Done(d) /\ d \in Dirs
      BY <2>1, <2>2, <2>8, <2>9 DEF IInv, TypeInv, PassedInv
    <3> QED
      BY <3>1, <1>0, DoneKept
  <2>10. OrderInv' /\ ReportInv'
    BY <2>1, <2>3, SuiteAssumption
    DEF IInv, OrderInv, ReportInv, Running, AfterIdentity, AfterBuild, AfterPrepare, AfterRun,
        AfterAudit
  <2> QED
    BY <2>5, <2>6, <2>7, <2>9, <2>10 DEF IInv, PassedInv
<1> QED
  BY <1>2, <1>3

LEMMA CompareKeeps == ASSUME IInv, CompareEvidenceFiles PROVE IInv'
<1> USE DEF CompareEvidenceFiles
<1>e. suite'.environment = suite.environment
  BY EnvironmentKept DEF IInv, Suite
<1>0. \A d \in Dirs : SameFiles(d)
  BY <1>e, Unchanged DEF commandVars
<1>1. cmd' \in CommandRecords /\ cmd'.at = "idle" /\ disk' \in [Dirs -> FileSets]
      /\ UNCHANGED <<tree, passed, disk>> /\ \A d \in passed : SameFiles(d)
  BY <1>0, NoCommand DEF IInv, TypeInv, Commands, commandVars
<1>2. CASE SuiteFails
  BY <1>1, <1>2, FailKeeps
<1>3. CASE ~SuiteFails
  <2> DEFINE x86 == disk[FirstDir].evidence
             arm == disk[SecondDir].evidence
  <2>1. /\ x86.aggregate = arm.aggregate
        /\ report' = [result |-> "PASS", x86 |-> x86, arm |-> arm]
        /\ suite' = [suite EXCEPT !.at = "official"]
    BY <1>3
  <2>2. /\ suite' \in SuiteRecords /\ suite'.at = "official"
        /\ suite'.command = suite.command
    BY <2>1 DEF IInv, TypeInv, SuiteRecords
  <2>3. suite.command = "cross-arch" /\ passed = Dirs
    BY DEF IInv, OrderInv
  <2>4. TypeInv' /\ CommandInv' /\ PassedInv'
    BY <1>1, <2>2, PassedKept DEF IInv, TypeInv, CommandInv
  <2>5. CurrentInv'
    BY <2>2 DEF CurrentInv, EndedWell, AfterIdentity, AfterBuild, AfterPrepare, AfterRun,
        AfterAudit
  <2>6. OrderInv'
    BY <1>1, <2>2, <2>3
    DEF OrderInv, Running, AfterIdentity, AfterBuild, AfterPrepare, AfterRun, AfterAudit
  <2>7. ReportInv'
    BY <1>1, <2>1, <2>3 DEF ReportInv
  <2> QED
    BY <2>4, <2>5, <2>6, <2>7 DEF IInv
<1> QED
  BY <1>2, <1>3

LEMMA OfficialKeeps == ASSUME IInv, OfficialGates PROVE IInv'
<1> USE DEF OfficialGates
<1>e. suite'.environment = suite.environment
  BY EnvironmentKept DEF IInv, Suite
<1>0. \A d \in Dirs : SameFiles(d)
  BY <1>e, Unchanged DEF commandVars
<1>1. cmd' \in CommandRecords /\ cmd'.at = "idle" /\ disk' \in [Dirs -> FileSets]
      /\ UNCHANGED <<tree, passed, disk, report>> /\ \A d \in passed : SameFiles(d)
  BY <1>0, NoCommand DEF IInv, TypeInv, Commands, commandVars
<1>2. CASE SuiteFails
  BY <1>1, <1>2, FailKeeps
<1>3. CASE suite' = [suite EXCEPT !.at = "done"]
  <2>2. /\ suite' \in SuiteRecords /\ suite'.at = "done"
        /\ suite'.command = suite.command
    BY <1>3 DEF IInv, TypeInv, SuiteRecords
  <2>4. TypeInv' /\ CommandInv' /\ PassedInv'
    BY <1>1, <2>2, PassedKept DEF IInv, TypeInv, CommandInv
  <2>5. CurrentInv' /\ OrderInv'
    BY <2>2 DEF CurrentInv, OrderInv, EndedWell, Running, AfterIdentity, AfterBuild, AfterPrepare,
                AfterRun, AfterAudit
  <2>6. ReportInv'
    BY <1>1 DEF IInv, ReportInv
  <2> QED
    BY <2>4, <2>5, <2>6 DEF IInv
<1> QED
  BY <1>2, <1>3

LEMMA StutterKeeps == ASSUME IInv, UNCHANGED vars PROVE IInv'
<1> USE DEF vars, commandVars
<1>1. TypeInv' /\ CommandInv' /\ OrderInv' /\ ReportInv'
  BY DEF IInv, TypeInv, CommandInv, Untouched, OrderInv, ReportInv
<1>2. CurrentInv'
  BY DEF IInv, CurrentInv, EndedWell, CommitOK, Known, Named, Resolved, Untouched, BundleOK,
      EvidenceOK, AuditOK,
         ChecksumsOK
<1>3. PassedInv'
  BY DEF IInv, PassedInv, Done, CommitOK, Known, Named, Resolved, Untouched, BundleOK,
      EvidenceOK, AuditOK, ChecksumsOK
<1> QED
  BY <1>1, <1>2, <1>3 DEF IInv

--------------------------------------------------------------------------------
(* The steps of others, and of the commands. *)

\* What is known of the directory of the current run survives a step that leaves
\* its files as SameFiles says.
LEMMA CurrentKept ==
  ASSUME IInv, SameFiles(suite.dir), UNCHANGED <<suite, cmd>>, tree' \in Trees PROVE CurrentInv'
<1>1. PICK d \in Dirs : d = suite.dir
  BY DEF IInv, TypeInv, SuiteRecords
<1>2. SameFiles(d) /\ SameChecksums(d) /\ SameAudit(d) /\ SameEvidence(d) /\ Same(d)
  BY <1>1 DEF SameFiles, SameChecksums, SameAudit, SameEvidence, Same
<1>3. CurrentInv
  BY DEF IInv
<1>4. BundleOK(d) => BundleOK(d)'
  BY <1>2, BundleKept
<1>5. BundleOK(d) /\ EvidenceOK(d) => EvidenceOK(d)'
  BY <1>2, EvidenceKept
<1>6. AuditOK(d) => AuditOK(d)'
  BY <1>2, AuditKept
<1>7. ChecksumsOK(d) => ChecksumsOK(d)'
  BY <1>2, ChecksumsKept
<1> QED
  BY <1>1, <1>2, <1>3, <1>4, <1>5, <1>6, <1>7
  DEF CurrentInv, EndedWell, SameFiles, SameEvidence, Same, CommitOK, Known, Named, Resolved,
      Untouched, AfterIdentity,
      AfterBuild, AfterPrepare, AfterRun, AfterAudit

LEMMA EditKeeps ==
  ASSUME IInv, ~Ended, Edit, UNCHANGED <<suite, passed, report>> PROVE IInv'
<1>1. /\ disk' \in [Dirs -> FileSets] /\ tree' \in Trees /\ UNCHANGED cmd
      /\ \A d \in Dirs : SameFiles(d)
  BY EditEffect DEF IInv
<1>2. suite.dir \in Dirs /\ passed \subseteq Dirs
  BY DEF IInv, TypeInv, SuiteRecords
<1>3. TypeInv' /\ PassedInv' /\ OrderInv'
  BY <1>1, <1>2, PassedKept DEF IInv, TypeInv, OrderInv
<1>4. CurrentInv'
  BY <1>1, <1>2, CurrentKept
<1>5. CommandInv'
  <2>1. ASSUME cmd.at # "idle" PROVE cmd.dir = suite.dir /\ (cmd.op = "run" => BundleOK(suite.dir))
    BY <2>1 DEF IInv, CommandInv, CurrentInv, AfterPrepare
  <2>2. PICK d \in Dirs : d = suite.dir
    BY <1>2
  <2>3. SameFiles(d) /\ Same(d)
    BY <1>1, <2>2 DEF SameFiles, SameChecksums, SameAudit, SameEvidence
  <2> QED
    BY <1>1, <2>1, <2>2, <2>3 DEF IInv, CommandInv, Same, Untouched, BundleOK
<1>6. ReportInv'
  BY <1>1, SuiteAssumption
  DEF IInv, ReportInv, Ended, SameFiles, SameChecksums, SameAudit, SameEvidence
<1> QED
  BY <1>3, <1>4, <1>5, <1>6 DEF IInv

Kept == UNCHANGED <<suite, passed, report>>

\* A running command is the one of the suite's step, on its directory.
LEMMA RunningCommand ==
  ASSUME IInv, cmd.at # "idle"
  PROVE  /\ cmd \in CommandRecords /\ suite \in SuiteRecords
         /\ suite.at \in Commands /\ cmd.op = suite.at
         /\ cmd.dir = suite.dir /\ suite.dir \in Dirs
         /\ disk[suite.dir] \in FileSets
         /\ suite.dir \notin passed
  BY NotYetPassed
  DEF IInv, TypeInv, CommandInv, SuiteRecords, Commands, Running, AfterIdentity, AfterBuild,
      AfterPrepare, AfterRun

\* A step that only reads adds to what the command has read.
LEMMA ReadKeeps ==
  ASSUME IInv, cmd.at # "idle", Kept, UNCHANGED <<disk, tree, edited>>,
         cmd' \in CommandRecords, cmd'.at = "ok" => suite.at = "verify", CommandInv'
  PROVE  IInv'
<1> USE DEF Kept
<1>1. TypeInv' /\ OrderInv' /\ ReportInv'
  BY DEF IInv, TypeInv, OrderInv, ReportInv
<1>2. PassedInv'
  BY PassedKept, Unchanged DEF IInv
<1>3. CurrentInv'
  BY RunningCommand
  DEF IInv, CurrentInv, EndedWell, AfterIdentity, AfterBuild, AfterPrepare, AfterRun, AfterAudit,
      Commands, CommitOK, Known, Named, Resolved, Untouched, BundleOK, EvidenceOK, AuditOK,
      ChecksumsOK
<1> QED
  BY <1>1, <1>2, <1>3 DEF IInv

LEMMA FailsKeeps == ASSUME IInv, CommandFails, Kept PROVE IInv'
<1> USE DEF CommandFails, Kept
<1>1. cmd.at # "idle" /\ cmd' \in CommandRecords /\ cmd'.at = "failed"
      /\ UNCHANGED <<cmd.op, cmd.dir, cmd.got>>
  BY DEF IInv, TypeInv, CommandRecords, Stages
<1>2. CommandInv'
  BY <1>1 DEF IInv, CommandInv, Untouched
<1> QED
  BY <1>1, <1>2, ReadKeeps

LEMMA ReadEffect ==
  ASSUME cmd \in CommandRecords, NEW got \in Readings, NEW next \in Stages, Read(got, next)
  PROVE  /\ cmd' \in CommandRecords /\ cmd'.at = next /\ cmd'.got = got
         /\ UNCHANGED <<cmd.op, cmd.dir>>
  BY DEF Read, CommandRecords

LEMMA LoadKeeps == ASSUME IInv, LoadMatrixAndProfile, Kept PROVE IInv'
<1> USE DEF LoadMatrixAndProfile, Kept
<1>0. /\ cmd \in CommandRecords /\ suite.at \in Commands /\ cmd.op = suite.at
      /\ cmd.dir = suite.dir /\ cmd.at = "load" /\ cmd.got \in Readings
  BY RunningCommand DEF CommandRecords
<1> DEFINE got == [cmd.got EXCEPT !.matrix = Here.matrix, !.profile = Here.profile]
           next == CASE cmd.op = "prepare" -> "create"
                     [] cmd.op = "run"     -> "manifest"
                     [] cmd.op = "verify"  -> "evidence"
<1>1. /\ cmd.op = "prepare" => next = "create"
      /\ cmd.op = "run" => next = "manifest"
      /\ cmd.op = "verify" => next = "evidence"
      /\ cmd.op \in {"prepare", "run", "verify"}
  BY <1>0 DEF Commands
<1>2. /\ got \in Readings /\ got.matrix = Here.matrix /\ got.profile = Here.profile
      /\ got.commit = cmd.got.commit /\ got.used = cmd.got.used
  BY <1>0 DEF Readings
<1>3. Read(got, next)
  OBVIOUS
<1> HIDE DEF got, next
<1>4. next \in Stages
  BY <1>1 DEF Stages
<1>5. cmd' \in CommandRecords /\ cmd'.at = next /\ cmd'.got = got /\ UNCHANGED <<cmd.op, cmd.dir>>
  BY <1>0, <1>2, <1>3, <1>4, ReadEffect
<1>6. CommandInv'
  BY <1>0, <1>1, <1>2, <1>5 DEF IInv, CommandInv, Untouched, Here
<1> QED
  BY <1>0, <1>1, <1>5, <1>6, ReadKeeps

LEMMA ManifestKeeps == ASSUME IInv, ReadManifest, Kept PROVE IInv'
<1> USE DEF ReadManifest, Kept
<1>0. /\ cmd \in CommandRecords /\ suite.at = "run" /\ cmd.op = "run" /\ cmd.at = "manifest"
      /\ cmd.dir = suite.dir /\ BundleOK(suite.dir) /\ cmd.got \in Readings
  BY RunningCommand DEF At, IInv, CurrentInv, AfterPrepare, CommandRecords
<1>1. Here.bundle \in Bundles /\ Here.bundle.binary = Here.binary
  BY <1>0 DEF BundleOK, Here
<1> DEFINE got == [cmd.got EXCEPT !.manifest = Here.bundle]
<1>2. /\ got \in Readings /\ got.manifest = Here.bundle
      /\ got.matrix = cmd.got.matrix /\ got.profile = cmd.got.profile
      /\ got.commit = cmd.got.commit /\ got.used = cmd.got.used
  BY <1>0, <1>1 DEF Readings
<1>3. Read(got, "digests") /\ "digests" \in Stages
  BY DEF Stages
<1> HIDE DEF got
<1>4. cmd' \in CommandRecords /\ cmd'.at = "digests" /\ cmd'.got = got
      /\ UNCHANGED <<cmd.op, cmd.dir>>
  BY <1>0, <1>2, <1>3, ReadEffect
<1>5. CommandInv'
  BY <1>0, <1>1, <1>2, <1>4 DEF IInv, CommandInv, Untouched, Here
<1> QED
  BY <1>0, <1>4, <1>5, ReadKeeps

LEMMA DigestsKeeps == ASSUME IInv, ReadDigests, Kept PROVE IInv'
<1> USE DEF ReadDigests, Kept
<1>0. /\ cmd \in CommandRecords /\ suite.at = "run" /\ cmd.op = "run" /\ cmd.at = "digests"
      /\ cmd.dir = suite.dir /\ BundleOK(suite.dir) /\ disk[suite.dir] \in FileSets
      /\ cmd.got \in Readings
  BY RunningCommand DEF At, IInv, CurrentInv, AfterPrepare, CommandRecords
<1>1. /\ Here.bundle \in Bundles
      /\ Here.matrix \in Versions \cup {Malformed} /\ Here.profile \in Versions \cup {Malformed}
  BY <1>0 DEF BundleOK, Here, FileSets
<1> DEFINE got == [cmd.got EXCEPT !.bundle = Here.bundle, !.matrixSHA = Here.matrix,
                                  !.profileSHA = Here.profile]
<1>2. /\ got \in Readings
      /\ got.bundle = Here.bundle /\ got.matrixSHA = Here.matrix /\ got.profileSHA = Here.profile
      /\ got.manifest = cmd.got.manifest
      /\ got.matrix = cmd.got.matrix /\ got.profile = cmd.got.profile
      /\ got.commit = cmd.got.commit /\ got.used = cmd.got.used
  <2> DEFINE read == [cmd.got EXCEPT !.bundle = Here.bundle]
             more == [read EXCEPT !.matrixSHA = Here.matrix]
  <2>1. /\ read \in Readings /\ read.bundle = Here.bundle
        /\ read.manifest = cmd.got.manifest /\ read.matrix = cmd.got.matrix
        /\ read.profile = cmd.got.profile /\ read.commit = cmd.got.commit
        /\ read.used = cmd.got.used
    BY <1>0, <1>1 DEF Readings
  <2>2. got = [more EXCEPT !.profileSHA = Here.profile]
    OBVIOUS
  <2> HIDE DEF read, got
  <2>3. /\ more \in Readings /\ more.bundle = read.bundle /\ more.matrixSHA = Here.matrix
        /\ more.manifest = read.manifest /\ more.matrix = read.matrix
        /\ more.profile = read.profile /\ more.commit = read.commit /\ more.used = read.used
    BY <1>1, <2>1 DEF Readings
  <2> HIDE DEF more
  <2>4. /\ got \in Readings /\ got.bundle = more.bundle /\ got.matrixSHA = more.matrixSHA
        /\ got.profileSHA = Here.profile /\ got.manifest = more.manifest
        /\ got.matrix = more.matrix /\ got.profile = more.profile
        /\ got.commit = more.commit /\ got.used = more.used
    BY <1>1, <2>2, <2>3 DEF Readings
  <2> QED
    BY <2>1, <2>3, <2>4
<1>3. Read(got, "replay") /\ "replay" \in Stages
  BY DEF Stages
<1> HIDE DEF got
<1>4. cmd' \in CommandRecords /\ cmd'.at = "replay" /\ cmd'.got = got
      /\ UNCHANGED <<cmd.op, cmd.dir>>
  BY <1>0, <1>2, <1>3, ReadEffect
<1>5. CommandInv'
  BY <1>0, <1>1, <1>2, <1>4 DEF IInv, CommandInv, Untouched, Here
<1> QED
  BY <1>0, <1>4, <1>5, ReadKeeps

LEMMA ReplayKeeps == ASSUME IInv, Replay, Kept PROVE IInv'
<1> USE DEF Replay, Kept
<1>0. /\ cmd \in CommandRecords /\ suite.at = "run" /\ cmd.op = "run" /\ cmd.at = "replay"
      /\ cmd.dir = suite.dir /\ BundleOK(suite.dir) /\ cmd.got \in Readings
  BY RunningCommand DEF At, IInv, CurrentInv, AfterPrepare, CommandRecords
<1>1. Here.bundle \in Bundles
  BY <1>0 DEF BundleOK, Here
<1> DEFINE used == cmd.got.used \cup {Here.bundle}
           got == [cmd.got EXCEPT !.used = used]
<1>2. used \in SUBSET Bundles
  BY <1>0, <1>1 DEF Readings
<1>3. PICK next \in {"replay", "evidence"} : Read(got, next)
  <2>1. [cmd.got EXCEPT !.used = cmd.got.used \cup {Here.bundle}] = got
    OBVIOUS
  <2> QED
    BY <2>1
<1>4. next \in Stages
  BY <1>3 DEF Stages
<1> HIDE DEF used
<1>5. /\ got \in Readings /\ got.used = used
      /\ got.bundle = cmd.got.bundle /\ got.matrixSHA = cmd.got.matrixSHA
      /\ got.profileSHA = cmd.got.profileSHA /\ got.manifest = cmd.got.manifest
      /\ got.matrix = cmd.got.matrix /\ got.profile = cmd.got.profile
      /\ got.commit = cmd.got.commit
  BY <1>0, <1>2 DEF Readings
<1> HIDE DEF got
<1>6. cmd' \in CommandRecords /\ cmd'.at = next /\ cmd'.got = got
      /\ UNCHANGED <<cmd.op, cmd.dir>>
  BY <1>0, <1>3, <1>4, <1>5, ReadEffect
<1>7. CommandInv'
  BY <1>0, <1>1, <1>3, <1>5, <1>6 DEF IInv, CommandInv, Untouched, Here, used
<1> QED
  BY <1>0, <1>3, <1>6, <1>7, ReadKeeps

LEMMA LoadEvidenceKeeps == ASSUME IInv, LoadEvidence, Kept PROVE IInv'
<1> USE DEF LoadEvidence, Kept
<1>0. /\ cmd \in CommandRecords /\ suite.at = "verify" /\ cmd.op = "verify"
      /\ cmd.at = "evidence" /\ cmd.dir = suite.dir /\ disk[suite.dir] \in FileSets
      /\ cmd.got \in Readings
  BY RunningCommand DEF At, CommandRecords
<1>1. Here.evidence \in Evidence
  BY <1>0 DEF Here, FileSets
<1>2. [cmd.got EXCEPT !.evidence = Here.evidence] \in Readings /\ "compare" \in Stages
  BY <1>0, <1>1 DEF Readings, Stages
<1>3. cmd' \in CommandRecords /\ cmd'.at = "compare" /\ UNCHANGED <<cmd.op, cmd.dir>>
  BY <1>0, <1>2, ReadEffect
<1>4. CommandInv'
  BY <1>0, <1>3 DEF IInv, CommandInv
<1> QED
  BY <1>0, <1>3, <1>4, ReadKeeps

LEMMA CompareStepKeeps == ASSUME IInv, CompareEvidence, Kept PROVE IInv'
<1> USE DEF CompareEvidence, Kept
<1>0. /\ cmd \in CommandRecords /\ suite.at = "verify" /\ cmd.op = "verify"
      /\ cmd.at = "compare" /\ cmd.dir = suite.dir
  BY RunningCommand DEF At
<1>1. cmd' \in CommandRecords /\ cmd'.at = "ok" /\ UNCHANGED <<cmd.op, cmd.dir>>
  BY <1>0 DEF CommandRecords, Stages
<1>2. CommandInv'
  BY <1>0, <1>1 DEF IInv, CommandInv
<1> QED
  BY <1>0, <1>1, <1>2, ReadKeeps

\* A command writes one file of the current directory, which no passed one is.
LEMMA WriteKeeps ==
  ASSUME IInv, cmd.at # "idle", Kept, UNCHANGED <<tree, edited>>,
         NEW at \in {"ok", "failed"}, cmd' = [cmd EXCEPT !.at = at],
         disk' \in [Dirs -> FileSets], \A d \in Dirs \ {suite.dir} : disk'[d] = disk[d],
         CurrentInv'
  PROVE  IInv'
<1> USE DEF Kept
<1>1. /\ cmd' \in CommandRecords /\ cmd'.at = at
      /\ UNCHANGED <<cmd.op, cmd.dir, cmd.got>>
  BY DEF IInv, TypeInv, CommandRecords, Stages
<1>2. TypeInv' /\ OrderInv' /\ ReportInv'
  BY <1>1, RunningCommand DEF IInv, TypeInv, OrderInv, ReportInv, Commands
<1>3. PassedInv'
  BY RunningCommand, PassedKept, Unchanged DEF IInv, TypeInv
<1>4. CommandInv'
  BY <1>1 DEF IInv, CommandInv
<1> QED
  BY <1>2, <1>3, <1>4 DEF IInv

LEMMA CreateKeeps == ASSUME IInv, CreateBundle, Kept PROVE IInv'
<1> USE DEF CreateBundle, Kept
<1>0. /\ cmd \in CommandRecords /\ suite.at = "prepare" /\ cmd.op = "prepare"
      /\ cmd.at = "create" /\ cmd.dir = suite.dir /\ suite.dir \in Dirs
      /\ disk[suite.dir] \in FileSets
  BY RunningCommand DEF At
<1>1. /\ suite.commit \in Commits /\ Resolved
      /\ Here.binary \in Trees /\ CommitOK(suite.dir, suite.commit)
  BY <1>0 DEF IInv, CurrentInv, AfterIdentity, AfterBuild, Here
<1> DEFINE Bundle == [binary |-> Here.binary, matrix |-> Here.matrix,
                      profile |-> Here.profile, made |-> "now"]
<1>2. Bundle \in Bundles
  BY <1>0, <1>1 DEF Bundles, Here, FileSets
<1>3. ASSUME NEW c \in Bundles \cup {None}, disk' = [disk EXCEPT ![cmd.dir].bundle = c]
      PROVE  /\ disk' \in [Dirs -> FileSets]
             /\ \A d \in Dirs \ {suite.dir} : disk'[d] = disk[d]
             /\ disk'[suite.dir].bundle = c
             /\ disk'[suite.dir].binary = disk[suite.dir].binary
             /\ disk'[suite.dir].matrix = disk[suite.dir].matrix
  BY <1>0, <1>3 DEF IInv, TypeInv, FileSets
<1>4. CASE disk' = [disk EXCEPT ![cmd.dir].bundle = Bundle]
           /\ \E outcome \in {"ok", "failed"} : cmd' = [cmd EXCEPT !.at = outcome]
  <2>1. PICK outcome \in {"ok", "failed"} : cmd' = [cmd EXCEPT !.at = outcome]
    BY <1>4
  <2>2. /\ disk' \in [Dirs -> FileSets]
        /\ \A d \in Dirs \ {suite.dir} : disk'[d] = disk[d]
        /\ disk'[suite.dir].bundle = Bundle
        /\ disk'[suite.dir].binary = disk[suite.dir].binary
        /\ disk'[suite.dir].matrix = disk[suite.dir].matrix
    BY <1>2, <1>3, <1>4
  <2>3. Bundle.binary = disk[suite.dir].binary /\ Bundle.matrix = disk[suite.dir].matrix
    BY <1>0 DEF Here
  <2> HIDE DEF Bundle
  <2>4. CurrentInv'
    BY <1>0, <1>1, <1>2, <2>2, <2>3
    DEF CurrentInv, EndedWell, AfterIdentity, AfterBuild, AfterPrepare, AfterRun, AfterAudit,
        CommitOK, Known, Named, Resolved, Untouched, BundleOK, Here
  <2> QED
    BY <1>0, <2>1, <2>2, <2>4, WriteKeeps
<1>5. CASE disk' = [disk EXCEPT ![cmd.dir].bundle = None] /\ cmd' = [cmd EXCEPT !.at = "failed"]
  <2>1. /\ disk' \in [Dirs -> FileSets]
        /\ \A d \in Dirs \ {suite.dir} : disk'[d] = disk[d]
        /\ disk'[suite.dir].binary = disk[suite.dir].binary
    BY <1>3, <1>5
  <2>2. cmd'.at = "failed"
    BY <1>0, <1>5 DEF CommandRecords, Stages
  <2>3. CurrentInv'
    BY <1>0, <1>1, <2>1, <2>2
    DEF CurrentInv, EndedWell, AfterIdentity, AfterBuild, AfterPrepare, AfterRun, AfterAudit,
        CommitOK, Known, Named, Resolved, Untouched, Here
  <2> QED
    BY <1>0, <1>5, <2>1, <2>3, WriteKeeps
<1> QED
  BY <1>4, <1>5

\* Evidence of what was read: the bundle and matrix as they are, if untouched.
LEMMA EvidenceKeeps == ASSUME IInv, WriteEvidence, Kept PROVE IInv'
<1> USE DEF WriteEvidence, Kept
<1>0. /\ cmd \in CommandRecords /\ suite.at = "run" /\ cmd.op = "run" /\ cmd.at = "evidence"
      /\ cmd.dir = suite.dir /\ suite.dir \in Dirs /\ disk[suite.dir] \in FileSets
      /\ BundleOK(suite.dir)
  BY RunningCommand DEF At, IInv, CurrentInv, AfterPrepare
<1>1. /\ suite.commit \in Commits /\ Resolved
      /\ disk[suite.dir].binary \in Trees /\ CommitOK(suite.dir, suite.commit)
  BY <1>0 DEF IInv, CurrentInv, AfterIdentity, AfterBuild, AfterPrepare
<1> DEFINE Made(aggregate) ==
             [bundle |-> cmd.got.bundle, control |-> cmd.got.manifest.binary,
              matrix |-> cmd.got.matrixSHA, profile |-> cmd.got.profileSHA,
              commit |-> cmd.got.commit, aggregate |-> aggregate, made |-> "now",
              used |-> cmd.got.used,
              parsed |-> [matrix |-> cmd.got.matrix, profile |-> cmd.got.profile]]
<1>2. /\ cmd.got.commit = suite.commit
      /\ cmd.got.matrix \in Versions /\ cmd.got.profile \in Versions
      /\ Untouched(suite.dir, "matrix") =>
           cmd.got.matrix = disk[suite.dir].matrix /\ cmd.got.matrixSHA = disk[suite.dir].matrix
      /\ cmd.got.manifest \in Bundles /\ cmd.got.manifest.binary = disk[suite.dir].binary
      /\ cmd.got.bundle \in Bundles
      /\ cmd.got.bundle.matrix = disk[suite.dir].bundle.matrix
      /\ cmd.got.matrixSHA \in Versions \cup {Malformed}
      /\ cmd.got.profileSHA \in Versions \cup {Malformed}
      /\ Untouched(suite.dir, "bundle") =>
           cmd.got.bundle = disk[suite.dir].bundle /\ cmd.got.used = {disk[suite.dir].bundle}
      /\ cmd.got.used \in SUBSET Bundles
  BY <1>0 DEF IInv, CommandInv, CommandRecords, Readings
<1>3. ASSUME NEW c \in Evidence \cup {None}, disk' = [disk EXCEPT ![cmd.dir].evidence = c]
      PROVE  /\ disk' \in [Dirs -> FileSets]
             /\ \A d \in Dirs \ {suite.dir} : disk'[d] = disk[d]
             /\ disk'[suite.dir].evidence = c
             /\ disk'[suite.dir].bundle = disk[suite.dir].bundle
             /\ disk'[suite.dir].binary = disk[suite.dir].binary
             /\ disk'[suite.dir].matrix = disk[suite.dir].matrix
  BY <1>0, <1>3 DEF IInv, TypeInv, FileSets
<1>4. ASSUME NEW aggregate \in Aggregates,
             disk' = [disk EXCEPT ![cmd.dir].evidence = Made(aggregate)],
             NEW outcome \in {"ok", "failed"}, cmd' = [cmd EXCEPT !.at = outcome]
      PROVE  IInv'
  <2>1. Made(aggregate) \in Evidence
    <3>1. cmd.got.manifest.binary \in Trees
      BY <1>1, <1>2
    <3>2. [matrix |-> cmd.got.matrix, profile |-> cmd.got.profile]
            \in [matrix : Versions, profile : Versions]
      BY <1>2
    <3> QED
      BY <1>1, <1>2, <3>1, <3>2 DEF Evidence
  <2>2. /\ disk' \in [Dirs -> FileSets]
        /\ \A d \in Dirs \ {suite.dir} : disk'[d] = disk[d]
        /\ disk'[suite.dir].evidence = Made(aggregate)
        /\ disk'[suite.dir].bundle = disk[suite.dir].bundle
        /\ disk'[suite.dir].binary = disk[suite.dir].binary
        /\ disk'[suite.dir].matrix = disk[suite.dir].matrix
    BY <1>3, <1>4, <2>1
  <2>3. EvidenceOK(suite.dir)' /\ (disk[suite.dir].evidence.commit = suite.commit)'
    BY <1>2, <2>1, <2>2 DEF EvidenceOK, Untouched
  <2>4. CurrentInv'
    BY <1>0, <1>1, <2>2, <2>3
    DEF CurrentInv, EndedWell, AfterIdentity, AfterBuild, AfterPrepare, AfterRun, AfterAudit,
        CommitOK, Known, Named, Resolved, Untouched, BundleOK
  <2> QED
    BY <1>0, <1>4, <2>2, <2>4, WriteKeeps
<1>5. CASE disk' = [disk EXCEPT ![cmd.dir].evidence = None] /\ cmd' = [cmd EXCEPT !.at = "failed"]
  <2>1. /\ disk' \in [Dirs -> FileSets]
        /\ \A d \in Dirs \ {suite.dir} : disk'[d] = disk[d]
        /\ disk'[suite.dir].bundle = disk[suite.dir].bundle
        /\ disk'[suite.dir].binary = disk[suite.dir].binary
        /\ disk'[suite.dir].matrix = disk[suite.dir].matrix
    BY <1>3, <1>5
  <2>2. cmd'.at = "failed"
    BY <1>0, <1>5 DEF CommandRecords, Stages
  <2>3. CurrentInv'
    BY <1>0, <1>1, <2>1, <2>2
    DEF CurrentInv, EndedWell, AfterIdentity, AfterBuild, AfterPrepare, AfterRun, AfterAudit,
        CommitOK, Known, Named, Resolved, Untouched, BundleOK
  <2> QED
    BY <1>0, <1>5, <2>1, <2>3, WriteKeeps
<1> QED
  BY <1>4, <1>5

LEMMA CommandKeeps == ASSUME IInv, CommandStep, Kept PROVE IInv'
  BY FailsKeeps, LoadKeeps, CreateKeeps, ManifestKeeps, DigestsKeeps, ReplayKeeps, EvidenceKeeps,
     LoadEvidenceKeeps, CompareStepKeeps
  DEF CommandStep

LEMMA SuiteKeeps == ASSUME IInv, Suite PROVE IInv'
  BY IdentityKeeps, BuildKeeps, CheckKeeps, StartKeeps, EndKeeps, AuditKeeps, ChecksumsKeeps,
     IndexKeeps, PassKeeps, CompareKeeps, OfficialKeeps
  DEF Suite

--------------------------------------------------------------------------------
(* The theorems. *)

LEMMA InitOK == ASSUME Init PROVE IInv
<1> USE DEF Init
<1>1. PICK files \in [Dirs -> EarlierFiles], m \in Versions, p \in Versions :
        disk = [d \in Dirs |-> [files[d] EXCEPT !.matrix = m, !.profile = p]]
  OBVIOUS
<1>2. disk \in [Dirs -> FileSets]
  <2>1. ASSUME NEW d \in Dirs PROVE [files[d] EXCEPT !.matrix = m, !.profile = p] \in FileSets
    <3>1. files[d] \in FileSets
      BY SuiteAssumption
    <3> QED
      BY <3>1 DEF FileSets
  <2> QED
    BY <1>1, <2>1
<1>3. cmd \in CommandRecords /\ cmd.at = "idle"
  BY DEF Idle, Nothing, CommandRecords, Readings, Stages
<1>4. suite \in SuiteRecords /\ suite.at = "identity" /\ suite.dir = FirstDir
  BY SuiteAssumption DEF SuiteRecords
<1>5. TypeInv
  BY <1>2, <1>3, <1>4 DEF TypeInv
<1>6. CurrentInv /\ CommandInv /\ PassedInv
  BY <1>3, <1>4
  DEF CurrentInv, CommandInv, PassedInv, EndedWell, AfterIdentity, AfterBuild, AfterPrepare,
      AfterRun, AfterAudit
<1>7. OrderInv /\ ReportInv
  BY <1>4 DEF OrderInv, ReportInv
<1> QED
  BY <1>5, <1>6, <1>7 DEF IInv

LEMMA Inductive == Spec => []IInv
<1>1. Init => IInv
  BY InitOK
<1>2. IInv /\ [Next]_vars => IInv'
  <2> SUFFICES ASSUME IInv, [Next]_vars PROVE IInv'
    OBVIOUS
  <2>1. CASE Suite
    BY <2>1, SuiteKeeps
  <2>2. CASE CommandStep /\ UNCHANGED <<suite, passed, report, edits>>
    BY <2>2, CommandKeeps DEF Kept
  <2>3. CASE ~Ended /\ Edit /\ UNCHANGED <<suite, passed, report>>
    BY <2>3, EditKeeps
  <2>4. CASE UNCHANGED vars
    BY <2>4, StutterKeeps
  <2> QED
    BY <2>1, <2>2, <2>3, <2>4 DEF Next
<1> QED
  BY <1>1, <1>2, PTL DEF Spec

\* runSuite: the files of a passed run agree, whatever they contain and however
\* many files others replace at any moment, as far as these are not among them.
THEOREM FilesOfARunAgree == Spec => []PassedArtifactsAgree
<1>1. IInv => PassedArtifactsAgree
  <2> SUFFICES ASSUME IInv, NEW d \in passed
      PROVE  LET files == disk[d]
                 Alone(name) == <<d, name>> \notin edited
             IN  /\ Alone("bundle") =>
                      /\ files.evidence.used = {files.bundle}
                      /\ HeaderMatches(files.evidence,
                                       [files EXCEPT !.matrix = files.evidence.matrix,
                                                     !.profile = files.evidence.profile], None)
                      /\ files.bundle.binary = files.binary
                      /\ files.checksums = [bundle |-> files.bundle, evidence |-> files.evidence]
                 /\ Alone("matrix") =>
                      /\ files.evidence.matrix = files.matrix
                      /\ files.evidence.parsed.matrix = files.matrix
                      /\ files.evidence.bundle.matrix = files.matrix
                 /\ files.audit = [result |-> "PASS", of |-> files.evidence]
                 /\ files.index
                 /\ suite.environment # None => files.evidence.commit = suite.environment
                 /\ suite.environment = None /\ <<"source", "tree">> \notin edited =>
                      files.evidence.commit = CommitOf[files.binary]
    BY DEF PassedArtifactsAgree
  <2>1. Done(d) /\ disk[d] \in FileSets
    BY DEF IInv, PassedInv, TypeInv
  <2>2. disk[d].audit = [result |-> "PASS", of |-> disk[d].evidence] /\ disk[d].index
        /\ (suite.environment # None => disk[d].evidence.commit = suite.environment)
        /\ (suite.environment = None /\ <<"source", "tree">> \notin edited =>
              disk[d].evidence.commit = CommitOf[disk[d].binary])
    BY <2>1 DEF Done, AuditOK, CommitOK, Known, Named, Resolved, Untouched
  <2>3. ASSUME <<d, "matrix">> \notin edited
        PROVE  /\ disk[d].evidence.matrix = disk[d].matrix
               /\ disk[d].evidence.parsed.matrix = disk[d].matrix
               /\ disk[d].evidence.bundle.matrix = disk[d].matrix
    BY <2>1, <2>3 DEF Done, BundleOK, EvidenceOK, Untouched
  <2>4. ASSUME <<d, "bundle">> \notin edited
        PROVE  /\ disk[d].evidence.used = {disk[d].bundle}
               /\ disk[d].evidence.bundle = disk[d].bundle
               /\ disk[d].evidence.control = disk[d].binary
               /\ disk[d].bundle.binary = disk[d].binary
               /\ disk[d].checksums = [bundle |-> disk[d].bundle, evidence |-> disk[d].evidence]
    BY <2>1, <2>4 DEF Done, BundleOK, EvidenceOK, ChecksumsOK, Untouched
  <2>5. ASSUME <<d, "bundle">> \notin edited
        PROVE  HeaderMatches(disk[d].evidence,
                             [disk[d] EXCEPT !.matrix = disk[d].evidence.matrix,
                                             !.profile = disk[d].evidence.profile], None)
    BY <2>1, <2>4, <2>5 DEF HeaderMatches, FileSets
  <2> QED
    BY <2>2, <2>3, <2>4, <2>5
<1> QED
  BY <1>1, Inductive, PTL

\* cmdCrossArch: success is about the evidence that both runs of this invocation
\* wrote, whatever earlier runs have left and others replace.
THEOREM ComparisonIsOfThisRun == Spec => []CrossArchComparesThisRun
<1>1. IInv => CrossArchComparesThisRun
  <2> SUFFICES ASSUME IInv, suite.command = "cross-arch", suite.at = "done"
      PROVE  /\ passed = Dirs
             /\ report = [result |-> "PASS", x86 |-> disk[FirstDir].evidence,
                          arm |-> disk[SecondDir].evidence]
             /\ report.x86.aggregate = report.arm.aggregate
             /\ \A d \in Dirs : disk[d].evidence.made = "now"
    BY DEF CrossArchComparesThisRun
  <2> QED
    BY DEF IInv, ReportInv, PassedInv, Done, EvidenceOK
<1> QED
  BY <1>1, Inductive, PTL

================================================================================
