------------------------------- MODULE CanonCli -------------------------------
(***************************************************************************)
(* One invocation of the jcs-canon command: dispatch, flags, reading the   *)
(* input from standard input or a file, canonicalizing or verifying it,    *)
(* and every write to standard output and standard error, each of which    *)
(* may fail.  The parser and the serializer are abstracted to the verdict  *)
(* they give on a text and its canonical form.                             *)
(***************************************************************************)
EXTENDS Integers, Sequences, JcsErrors

CONSTANTS
  ArgLists,   \* the command lines considered
  Paths,      \* file names among the arguments
  Streams,    \* what standard input or a file may deliver
  Texts,      \* the contents a stream may have
  Judgement,  \* [Texts -> InputClass \cup {"ok"}], what Parse says of a text
  Canonical,  \* [Texts -> Texts], the canonical form of an accepted text
  MaxInput    \* DefaultMaxInputSize, in units of one read

\* size units of text, then the end of the stream or a read error.  An opened
\* directory is an empty stream whose first read fails.
ASSUME StreamAssumption ==
  /\ MaxInput \in Nat
  /\ Streams \subseteq [size : 0 .. MaxInput + 2, broken : BOOLEAN, text : Texts]
  /\ Judgement \in [Texts -> InputClass \cup {"ok"}]
  /\ Canonical \in [Texts -> Texts]

Missing == [size |-> 0, broken |-> TRUE, text |-> "missing"]

Command == {"canonicalize", "verify"}
Quiet == {"--quiet", "-q"}
Help == {"--help", "-h"}
Options == Quiet \cup Help
IsPositional(arg) == arg = "-" \/ arg \in Paths

ASSUME ArgAssumption == \A args \in ArgLists : args \in Seq(STRING)

VARIABLES
  args,     \* os.Args[1:]
  stdin,    \* what standard input will deliver
  file,     \* what opening and reading the named file will give
  pc,
  source,   \* the stream being read: none, stdin or file
  got,      \* units read so far by io.ReadAll
  failure,  \* the class of the error about to be reported
  out,      \* the lines being written: where, which text, how many are left
  code,     \* the exit code once those lines are written
  stdout, stderr,  \* the lines written
  writeFailed,     \* some write has failed
  exit      \* the exit status of the process

vars == <<args, stdin, file, pc, source, got, failure, out, code, stdout, stderr,
          writeFailed, exit>>

world == <<args, stdin, file>>

NoOutput == [to |-> "stderr", text |-> "none", left |-> 0]

Status(c) == CASE c = 0 -> "0" [] c = 2 -> "2" [] c = 10 -> "10"

--------------------------------------------------------------------------------

Init ==
  /\ args \in ArgLists
  /\ stdin \in Streams
  /\ file \in Streams \cup {Missing}
  /\ pc = "run"
  /\ source = "none"
  /\ got = 0
  /\ failure = "none"
  /\ out = NoOutput
  /\ code = 0
  /\ stdout = <<>>
  /\ stderr = <<>>
  /\ writeFailed = FALSE
  /\ exit = "running"

\* writeClassifiedError is called with an error of this class.
Report(class) ==
  /\ failure' = class
  /\ pc' = "report"
  /\ UNCHANGED <<out, code>>

\* n lines of text go to a stream; status is the exit code when all are written.
Emit(stream, text, n, status) ==
  /\ out' = [to |-> stream, text |-> text, left |-> n]
  /\ code' = status
  /\ pc' = "emit"
  /\ UNCHANGED failure

Quietly == UNCHANGED <<stdout, stderr, writeFailed, exit>>

--------------------------------------------------------------------------------
(* run: dispatch and flags. *)

command == IF args = <<>> THEN "" ELSE Head(args)
rest == Tail(args)
Given(options) == \E i \in DOMAIN rest : rest[i] \in options
UnknownOption == \E i \in DOMAIN rest : rest[i] \notin Options /\ ~IsPositional(rest[i])
positional == SelectSeq(rest, IsPositional)

\* No command or an unknown one: the error line, then the usage text.
RunUsage ==
  /\ pc = "run"
  /\ command \notin Command \cup Help \cup {"--version"}
  /\ failure' = "CLI_USAGE"
  /\ pc' = "usage"
  /\ UNCHANGED <<world, source, got, out, code>> /\ Quietly

RunHelp ==
  /\ pc = "run"
  /\ command \in Help
  /\ Emit("stdout", "help", 5, 0)
  /\ UNCHANGED <<world, source, got>> /\ Quietly

RunVersion ==
  /\ pc = "run"
  /\ command = "--version"
  /\ Emit("stdout", "version", 1, 0)
  /\ UNCHANGED <<world, source, got>> /\ Quietly

\* parseFlags rejects an unknown option wherever it stands, even after --help.
RunCommand ==
  /\ pc = "run"
  /\ command \in Command
  /\ \/ /\ UnknownOption
        /\ Report("CLI_USAGE")
        /\ UNCHANGED source
     \/ /\ ~UnknownOption /\ Given(Help)
        /\ Emit("stdout", "help", 3, 0)
        /\ UNCHANGED source
     \/ /\ ~UnknownOption /\ ~Given(Help)
        /\ Len(positional) > 1
        /\ Report("CLI_USAGE")
        /\ UNCHANGED source
     \/ /\ ~UnknownOption /\ ~Given(Help)
        /\ Len(positional) <= 1
        /\ source' = IF positional \in {<<>>, <<"-">>} THEN "stdin" ELSE "file"
        /\ pc' = IF source' = "stdin" THEN "read" ELSE "open"
        /\ UNCHANGED <<failure, out, code>>
  /\ UNCHANGED <<world, got>> /\ Quietly

--------------------------------------------------------------------------------
(* readInput and readBounded. *)

Open ==
  /\ pc = "open"
  /\ IF file = Missing
       THEN Report("CLI_USAGE")
       ELSE pc' = "read" /\ UNCHANGED <<failure, out, code>>
  /\ UNCHANGED <<world, source, got>> /\ Quietly

stream == IF source = "stdin" THEN stdin ELSE file

ReadMore_NoProgress ==
  /\ pc = "read"
  /\ got <= MaxInput /\ got < stream.size
  /\ UNCHANGED vars

\* The limited reader delivers at most one unit more than the maximum.
ReadMore ==
  /\ pc = "read"
  /\ got <= MaxInput /\ got < stream.size
  /\ got' = got + 1
  /\ UNCHANGED <<world, pc, source, failure, out, code>> /\ Quietly

\* A read error before the limit; readInput relabels that of a file.
ReadFails ==
  /\ pc = "read"
  /\ got <= MaxInput /\ got = stream.size /\ stream.broken
  /\ Report(IF source = "stdin" THEN "INTERNAL_IO" ELSE "CLI_USAGE")
  /\ UNCHANGED <<world, source, got>> /\ Quietly

ReadTooMuch_Truncates ==
  /\ pc = "read"
  /\ got = MaxInput + 1
  /\ pc' = "convert"
  /\ UNCHANGED <<world, source, got, failure, out, code>> /\ Quietly

ReadTooMuch ==
  /\ pc = "read"
  /\ got = MaxInput + 1
  /\ Report("BOUND_EXCEEDED")
  /\ UNCHANGED <<world, source, got>> /\ Quietly

ReadAll ==
  /\ pc = "read"
  /\ got <= MaxInput /\ got = stream.size /\ ~stream.broken
  /\ pc' = "convert"
  /\ UNCHANGED <<world, source, got, failure, out, code>> /\ Quietly

--------------------------------------------------------------------------------

Reject ==
  /\ pc = "convert"
  /\ Judgement[stream.text] # "ok"
  /\ Report(Judgement[stream.text])
  /\ UNCHANGED <<world, source, got>> /\ Quietly

Canonicalize ==
  /\ pc = "convert"
  /\ command = "canonicalize"
  /\ Judgement[stream.text] = "ok"
  /\ Emit("stdout", "canonical", 1, 0)
  /\ UNCHANGED <<world, source, got>> /\ Quietly

Verify_QuietIgnored ==
  /\ pc = "convert"
  /\ command = "verify"
  /\ Judgement[stream.text] = "ok"
  /\ IF Canonical[stream.text] # stream.text
       THEN Report("NOT_CANONICAL")
       ELSE Emit("stderr", "ok", 1, 0)
  /\ UNCHANGED <<world, source, got>> /\ Quietly

Verify ==
  /\ pc = "convert"
  /\ command = "verify"
  /\ Judgement[stream.text] = "ok"
  /\ IF Canonical[stream.text] # stream.text
       THEN Report("NOT_CANONICAL")
       ELSE Emit("stderr", "ok", IF Given(Quiet) THEN 0 ELSE 1, 0)
  /\ UNCHANGED <<world, source, got>> /\ Quietly

--------------------------------------------------------------------------------
(* The writes. *)

Written(to, line) ==
  IF to = "stdout" THEN stdout' = Append(stdout, line) /\ UNCHANGED stderr
                   ELSE stderr' = Append(stderr, line) /\ UNCHANGED stdout

\* A write that fails may have put part of its text on the stream.
PartlyWritten(to) ==
  /\ writeFailed' = TRUE
  /\ UNCHANGED <<stdout, stderr>> \/ Written(to, "partial")

Exit(status) == pc' = "exited" /\ exit' = status

\* A write to a closed pipe on descriptor 1 or 2 kills a Go process.
Killed(to) ==
  /\ PartlyWritten(to)
  /\ Exit("SIGPIPE")
  /\ UNCHANGED <<failure, out, code>>

EmitLine ==
  /\ pc = "emit"
  /\ out.left > 0
  /\ \/ /\ Written(out.to, out.text)
        /\ out' = [out EXCEPT !.left = @ - 1]
        /\ UNCHANGED <<pc, failure, code, writeFailed, exit>>
     \/ /\ PartlyWritten(out.to)
        /\ Report("INTERNAL_IO")
        /\ UNCHANGED exit
     \/ Killed(out.to)
  /\ UNCHANGED <<world, source, got>>

EmitDone ==
  /\ pc = "emit"
  /\ out.left = 0
  /\ Exit(Status(code))
  /\ UNCHANGED <<world, source, got, failure, out, code, stdout, stderr, writeFailed>>

ReportError_ToStdout ==
  /\ pc = "report"
  /\ Written("stdout", failure)
  /\ Exit(Status(ExitCode(failure)))
  /\ UNCHANGED <<world, source, got, failure, out, code, writeFailed>>

ReportError_WriteIgnored ==
  /\ pc = "report"
  /\ \/ Written("stderr", failure) /\ UNCHANGED writeFailed
     \/ PartlyWritten("stderr")
  /\ Exit(Status(ExitCode(failure)))
  /\ UNCHANGED <<world, source, got, failure, out, code>>

\* writeClassifiedError: the exit code is that of the class, or 10 if the
\* diagnostic itself cannot be written.
ReportError ==
  /\ pc = "report"
  /\ \/ /\ Written("stderr", failure)
        /\ Exit(Status(ExitCode(failure)))
        /\ UNCHANGED <<failure, out, code, writeFailed>>
     \/ /\ PartlyWritten("stderr")
        /\ Exit(Status(ExitCode("INTERNAL_IO")))
        /\ UNCHANGED <<failure, out, code>>
     \/ Killed("stderr")
  /\ UNCHANGED <<world, source, got>>

\* The same before the usage text, which is written whatever became of the line.
ReportUsage ==
  /\ pc = "usage"
  /\ \/ /\ Written("stderr", failure)
        /\ Emit("stderr", "usage", 5, ExitCode(failure))
        /\ UNCHANGED <<writeFailed, exit>>
     \/ /\ PartlyWritten("stderr")
        /\ Emit("stderr", "usage", 5, ExitCode("INTERNAL_IO"))
        /\ UNCHANGED exit
     \/ Killed("stderr")
  /\ UNCHANGED <<world, source, got>>

Stop == pc = "exited" /\ UNCHANGED vars

Next ==
  \/ RunUsage \/ RunHelp \/ RunVersion \/ RunCommand
  \/ Open \/ ReadMore \/ ReadFails \/ ReadTooMuch \/ ReadAll
  \/ Reject \/ Canonicalize \/ Verify
  \/ EmitLine \/ EmitDone \/ ReportError \/ ReportUsage
  \/ Stop

Spec == Init /\ [][Next]_vars

\* The process is scheduled, and every read and write it makes returns.
FairSpec == Spec /\ WF_vars(Next)

--------------------------------------------------------------------------------
(* Properties *)

Exited(status) == pc = "exited" /\ exit = status

ReadOK ==
  source # "none" /\ stream.size <= MaxInput /\ ~stream.broken
    /\ Judgement[stream.text] = "ok"

Diagnostics == {i \in DOMAIN stderr : stderr[i] \in FailureClass}

\* Exit 0 means the whole job was done: canonicalize put the canonical bytes
\* and nothing else on stdout, verify saw an input equal to its canonical form
\* and kept stdout empty, and neither left a diagnostic (CLI-CMD-001,
\* CLI-CMD-002, CLI-IO-004, CLI-IO-005).
SuccessIsComplete ==
  Exited("0") /\ command \in Command /\ ~Given(Help) =>
    /\ ReadOK /\ ~writeFailed
    /\ command = "canonicalize" => stdout = <<"canonical">> /\ stderr = <<>>
    /\ command = "verify" =>
         /\ Canonical[stream.text] = stream.text
         /\ stdout = <<>>
         /\ stderr = IF Given(Quiet) THEN <<>> ELSE <<"ok">>

\* Exit 2 leaves stdout empty and puts exactly one diagnostic on stderr, of a
\* class that maps to 2 (CLI-EXIT-003, CLI-CLASS-001).
RejectionIsReported ==
  Exited("2") =>
    /\ stdout = <<>>
    /\ ~writeFailed
    /\ \E i \in DOMAIN stderr : Diagnostics = {i} /\ ExitCode(stderr[i]) = 2

\* Exit 10 is kept for the environment: a write that failed, or an input stream
\* that broke before the size limit (CLI-EXIT-004).
InternalMeansEnvironment ==
  Exited("10") => writeFailed \/ (source # "none" /\ stream.broken /\ got <= MaxInput)

\* Whatever follows on the stream, more than the maximum is a bound violation
\* for both sources, and never more than one unit beyond it is read.
OversizeIsBound ==
  source # "none" /\ stream.size > MaxInput /\ pc \in {"report", "emit", "exited"} =>
    got = MaxInput + 1 /\ (failure = "BOUND_EXCEEDED" \/ writeFailed)

\* Every failed write is reported by exit code 10 unless the process is killed:
\* no lost output is followed by success or by an input rejection.
LostOutputIsInternal ==
  writeFailed /\ pc = "exited" => exit \in {"10", "SIGPIPE"}

\* Every invocation ends.
Terminates == <>(pc = "exited")

\* SPECIFICATION.md, Failure and Exit Code Contract: "Equivalent failures across
\* input modes classify identically."  A stream that breaks off in the middle
\* is the same failure whether it is standard input or an opened file.
ReadFailureModeIndependent ==
  pc = "report" /\ source # "none" /\ stream.broken /\ 0 < got /\ got <= MaxInput =>
    failure = "INTERNAL_IO"

\* FAILURE_TAXONOMY.md, File Open Classification Rationale: INTERNAL_IO, and so
\* exit code 10, covers "write failures to stdout, pipe breakage mid-stream".
WriteFailureExits10 ==
  writeFailed /\ out.to = "stdout" /\ pc = "exited" => exit = "10"

================================================================================
