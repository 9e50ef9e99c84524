------------------------------- MODULE OfflineSuite -------------------------------
(***************************************************************************)
(* run-suite and cross-arch of jcs-offline-replay: build, preflight,       *)
(* prepare, run, verify, report, audit, release gate, checksums and index, *)
(* for one architecture or for two in turn whose evidence is then          *)
(* compared.  Every step may fail, which ends the command; what the steps  *)
(* before it have written stays, and so do the files of earlier runs.      *)
(***************************************************************************)
EXTENDS OfflineCommands, Sequences

CONSTANTS
  FirstDir, SecondDir, \* the directories of x86_64 and arm64
  EarlierFiles,        \* what earlier runs may have left in a directory
  EarlierReports,      \* the comparison report they may have left, or None
  MaxEdits             \* bound on the number of replaced files

\* The files of a directory, as far as the commands look at them.
FileSets ==
  [matrix : Versions \cup {Malformed}, profile : Versions \cup {Malformed},
   binary : Trees \cup {None}, bundle : Bundles \cup {None}, evidence : Evidence \cup {None},
   audit : [result : {"PASS"}, of : Evidence] \cup {None},
   checksums : [bundle : Bundles, evidence : Evidence] \cup {None},
   index : BOOLEAN]

ASSUME SuiteAssumption ==
  /\ Dirs = {FirstDir, SecondDir} /\ FirstDir # SecondDir
  /\ EarlierFiles \subseteq FileSets

VARIABLES
  suite,   \* the command, its current step, directory and options, the commit
           \*   its environment names, and the source identity of the current run
  passed,  \* the directories whose run has passed
  report,  \* the comparison report on disk
  edits    \* how many times others have replaced a file

vars == <<commandVars, suite, passed, report, edits>>

Following ==
  [identity |-> "build", build |-> "preflight", preflight |-> "prepare", prepare |-> "run",
   run |-> "verify", verify |-> "report", report |-> "audit", audit |-> "gate",
   gate |-> "checksums", checksums |-> "index", index |-> "pass"]

Advance == suite' = [suite EXCEPT !.at = Following[suite.at]]

SuiteFails == suite' = [suite EXCEPT !.at = "failed"]

Files == disk[suite.dir]

SetFile(name, content) == disk' = [disk EXCEPT ![suite.dir][name] = content]

\* A failed write leaves the file as it was or without its content.
WriteFails(name, empty) == (UNCHANGED disk \/ SetFile(name, empty)) /\ SuiteFails

---------------------------------------------------------------------------
(* runSuite *)

ResolveSourceIdentity_GitOnly ==
  /\ suite.at = "identity"
  /\ SuiteFails \/ suite' = [suite EXCEPT !.at = "build", !.commit = CommitOf[tree]]
  /\ UNCHANGED <<commandVars, passed, report, edits>>

\* Before anything is built: what JCS_OFFLINE_SOURCE_GIT_COMMIT says, whatever it
\* is; when it is not set, the commit git has checked out, or a failure of git.
ResolveSourceIdentity ==
  /\ suite.at = "identity"
  /\ \/ /\ suite.environment # None
        /\ suite' = [suite EXCEPT !.at = "build", !.commit = suite.environment]
     \/ /\ suite.environment = None
        /\ SuiteFails \/ suite' = [suite EXCEPT !.at = "build", !.commit = CommitOf[tree]]
  /\ UNCHANGED <<commandVars, passed, report, edits>>

Build_Unchecked ==
  /\ suite.at = "build"
  /\ SetFile("binary", tree) \/ UNCHANGED disk
  /\ Advance
  /\ UNCHANGED <<tree, cmd, edited, passed, report, edits>>

\* The binary comes from the tree as it is now; the controller is built next.
Build ==
  /\ suite.at = "build"
  /\ \/ SetFile("binary", tree) /\ (Advance \/ SuiteFails)
     \/ WriteFails("binary", None)
  /\ UNCHANGED <<tree, cmd, edited, passed, report, edits>>

\* Preflight, the report and the release gate change no file but their logs;
\* the gate is one more verification of the evidence, by a test.
CheckOnly ==
  /\ suite.at \in {"preflight", "report", "gate"}
  /\ \/ /\ suite.at = "gate" /\ ~suite.skipGate => HeaderMatches(Files.evidence, Files, suite.commit)
        /\ suite.at = "report" => Files.evidence # None
        /\ Advance
     \/ SuiteFails
  /\ UNCHANGED <<commandVars, passed, report, edits>>

Commands == {"prepare", "run", "verify"}

\* run is given the source identity; verify is given none.
StartCommand ==
  /\ suite.at \in Commands
  /\ cmd.at = "idle"
  /\ cmd' = Command(suite.at, suite.dir, IF suite.at = "run" THEN suite.commit ELSE None)
  /\ UNCHANGED <<disk, tree, edited, suite, passed, report, edits>>

EndCommand_Unchecked ==
  /\ cmd.at \in {"ok", "failed"}
  /\ Advance
  /\ cmd' = Idle
  /\ UNCHANGED <<disk, tree, edited, passed, report, edits>>

EndCommand ==
  /\ cmd.at \in {"ok", "failed"}
  /\ IF cmd.at = "ok" THEN Advance ELSE SuiteFails
  /\ cmd' = Idle
  /\ UNCHANGED <<disk, tree, edited, passed, report, edits>>

\* The audit loads the evidence again; its result is that of the parity of all
\* records, which accepted evidence has.
WriteAudit ==
  /\ suite.at = "audit"
  /\ \/ /\ Files.evidence # None
        /\ SetFile("audit", [result |-> "PASS", of |-> Files.evidence])
        /\ Advance \/ SuiteFails
     \/ WriteFails("audit", None)
  /\ UNCHANGED <<tree, cmd, edited, passed, report, edits>>

WriteChecksums ==
  /\ suite.at = "checksums"
  /\ \/ /\ SetFile("checksums", [bundle |-> Files.bundle, evidence |-> Files.evidence])
        /\ Advance \/ SuiteFails
     \/ WriteFails("checksums", None)
  /\ UNCHANGED <<tree, cmd, edited, passed, report, edits>>

WriteRunIndex ==
  /\ suite.at = "index"
  /\ \/ SetFile("index", TRUE) /\ (Advance \/ SuiteFails)
     \/ WriteFails("index", FALSE)
  /\ UNCHANGED <<tree, cmd, edited, passed, report, edits>>

\* RESULT=PASS: the end of run-suite, and in cross-arch of one architecture.  The
\* line itself may fail.
SuitePasses ==
  /\ suite.at = "pass"
  /\ \/ UNCHANGED passed /\ SuiteFails
     \/ /\ passed' = passed \cup {suite.dir}
        /\ suite' = IF suite.command = "run-suite" THEN [suite EXCEPT !.at = "done"]
                    ELSE IF suite.dir = FirstDir
                         THEN [suite EXCEPT !.at = "identity", !.dir = SecondDir]
                         ELSE [suite EXCEPT !.at = "compare"]
  /\ UNCHANGED <<commandVars, report, edits>>

---------------------------------------------------------------------------
(* cmdCrossArch, after both runs *)

\* The report is written whatever its result; only the aggregates are compared.
CompareEvidenceFiles ==
  /\ suite.at = "compare"
  /\ \/ LET x86 == disk[FirstDir].evidence
            arm == disk[SecondDir].evidence
            same == x86.aggregate = arm.aggregate
        IN  /\ x86 # None
            /\ arm # None
            /\ report' = [result |-> IF same THEN "PASS" ELSE "FAIL", x86 |-> x86, arm |-> arm]
            /\ IF same THEN suite' = [suite EXCEPT !.at = "official"] ELSE SuiteFails
     \/ report' \in {report, None} /\ SuiteFails
  /\ UNCHANGED <<commandVars, passed, edits>>

\* The official vector gates, if asked for, and the final lines.
OfficialGates ==
  /\ suite.at = "official"
  /\ SuiteFails \/ suite' = [suite EXCEPT !.at = "done"]
  /\ UNCHANGED <<commandVars, passed, report, edits>>

---------------------------------------------------------------------------

Init ==
  /\ \E files \in [Dirs -> EarlierFiles], m \in Versions, p \in Versions :
       disk = [d \in Dirs |-> [files[d] EXCEPT !.matrix = m, !.profile = p]]
  /\ tree \in Trees
  /\ cmd = Idle
  /\ edited = {}
  /\ suite \in [command : {"run-suite", "cross-arch"}, at : {"identity"}, dir : {FirstDir},
                skipGate : BOOLEAN, environment : Commits \cup {None}, commit : {None}]
  /\ passed = {}
  /\ report \in EarlierReports
  /\ edits = 0

Suite ==
  \/ ResolveSourceIdentity
  \/ Build
  \/ CheckOnly
  \/ StartCommand
  \/ EndCommand
  \/ WriteAudit
  \/ WriteChecksums
  \/ WriteRunIndex
  \/ SuitePasses
  \/ CompareEvidenceFiles
  \/ OfficialGates

Ended == suite.at \in {"done", "failed"}

Next ==
  \/ Suite
  \/ CommandStep /\ UNCHANGED <<suite, passed, report, edits>>
  \/ ~Ended /\ edits < MaxEdits /\ Edit /\ edits' = edits + 1 /\ UNCHANGED <<suite, passed, report>>
  \/ Ended /\ UNCHANGED vars

Spec == Init /\ [][Next]_vars

---------------------------------------------------------------------------
(* Properties *)

\* The files a passed run leaves speak of each other, as far as nobody replaced
\* them meanwhile: the replays took the bundle whose digest the evidence has,
\* the bundle holds the binary that is there, audit and checksums are of that
\* evidence; and its matrix is the one RunMatrix worked from and the one packed.
\* Its commit is the one the environment names; without one, and unless the tree
\* changed meanwhile, the commit whose tree the binary was built from, with
\* whatever uncommitted changes there were.
PassedArtifactsAgree ==
  \A d \in passed :
    LET files == disk[d]
        Untouched(name) == <<d, name>> \notin edited
    IN
    /\ Untouched("bundle") =>
         /\ files.evidence.used = {files.bundle}
         /\ HeaderMatches(files.evidence, [files EXCEPT !.matrix = files.evidence.matrix,
                                                        !.profile = files.evidence.profile], None)
         /\ files.bundle.binary = files.binary
         /\ files.checksums = [bundle |-> files.bundle, evidence |-> files.evidence]
    /\ Untouched("matrix") =>
         /\ files.evidence.matrix = files.matrix
         /\ files.evidence.parsed.matrix = files.matrix
         /\ files.evidence.bundle.matrix = files.matrix
    /\ files.audit = [result |-> "PASS", of |-> files.evidence]
    /\ files.index
    /\ suite.environment # None => files.evidence.commit = suite.environment
    /\ suite.environment = None /\ <<"source", "tree">> \notin edited =>
         files.evidence.commit = CommitOf[files.binary]

\* cross-arch ends well only after both runs passed, and its report says PASS of
\* the evidence both of them wrote in this invocation, never of earlier files.
CrossArchComparesThisRun ==
  suite.command = "cross-arch" /\ suite.at = "done" =>
    /\ passed = Dirs
    /\ report = [result |-> "PASS", x86 |-> disk[FirstDir].evidence, arm |-> disk[SecondDir].evidence]
    /\ report.x86.aggregate = report.arm.aggregate
    /\ \A d \in Dirs : disk[d].evidence.made = "now"

\* The pass conditions of docs/OFFLINE_REPLAY_HARNESS.md: verify-evidence says
\* ok, and the audit summary shows PASS.
PassConditions(files) ==
  /\ files.evidence # None /\ HeaderMatches(files.evidence, files, None)
  /\ files.audit # None /\ files.audit.result = "PASS"

\* When run-suite fails, its directory does not meet the documented pass
\* conditions.  (Those of cross-arch have a third, on the comparison report.)
PassConditionsMeanPassed ==
  suite.command = "run-suite" /\ suite.at = "failed" => ~PassConditions(disk[suite.dir])

===============================================================================
