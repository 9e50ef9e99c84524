----------------------------- MODULE CanonCliProofs -----------------------------
(***************************************************************************)
(* What the exit code of jcs-canon tells, for every command line, every    *)
(* stream, every limit, and every combination of writes that fail.         *)
(***************************************************************************)
EXTENDS CanonCli, TLAPS

\* What may stand on a stream: a class stands for its diagnostic.
Line == FailureClass \cup {"canonical", "ok", "help", "version", "usage", "partial", "none"}

TypeInv ==
  /\ stdin \in Streams
  /\ file \in Streams \cup {Missing}
  /\ pc \in {"run", "usage", "open", "read", "convert", "report", "emit", "exited"}
  /\ source \in {"none", "stdin", "file"}
  /\ got \in 0 .. MaxInput + 1
  /\ failure \in FailureClass \cup {"none"}
  /\ out \in [to : {"stdout", "stderr"}, text : Line, left : Nat]
  /\ code \in {0, 2, 10}
  /\ stdout \in Seq(Line)
  /\ stderr \in Seq(Line)
  /\ writeFailed \in BOOLEAN
  /\ exit \in {"running", "0", "2", "10", "SIGPIPE"}

\* A command that works on an input, not one that prints a text.
Working == command \in Command /\ ~Given(Help)

ReadInv ==
  /\ source # "none" => Working
  /\ pc \in {"open", "read", "convert"} => source # "none"
  /\ pc \in {"run", "usage"} => source = "none"
  /\ pc \in {"run", "usage", "open"} => got = 0
  /\ pc = "open" => source = "file"
  /\ pc \in {"read", "convert"} => stream \in Streams /\ got <= stream.size
  /\ pc = "convert" => stream.size <= MaxInput /\ ~stream.broken

\* Nothing is written before a verdict; what is written before an error is
\* reported is what a failed write left.
QuietInv ==
  /\ pc \in {"run", "usage", "open", "read", "convert"} => ~writeFailed
  /\ pc \in {"run", "usage", "open", "read", "convert", "report"} /\ ~writeFailed =>
       stdout = <<>> /\ stderr = <<>>

BrokenEarly == source # "none" /\ stream.broken /\ got <= MaxInput

FailureInv ==
  /\ pc = "usage" => failure = "CLI_USAGE"
  /\ pc = "report" =>
       /\ failure \in FailureClass \ {"INTERNAL_ERROR"}
       /\ writeFailed => failure = "INTERNAL_IO"
       /\ failure = "INTERNAL_IO" => writeFailed \/ BrokenEarly

\* The job of a working command when that many of its lines are left to write.
Job(left) ==
  /\ ReadOK
  /\ command = "canonicalize" =>
       stderr = <<>> /\ stdout = IF left = 0 THEN <<"canonical">> ELSE <<>>
  /\ command = "verify" =>
       /\ Canonical[stream.text] = stream.text
       /\ stdout = <<>>
       /\ stderr = IF left # 0 \/ Given(Quiet) THEN <<>> ELSE <<"ok">>

\* The one diagnostic of an input or usage error, and the usage text after it.
OneDiagnostic ==
  /\ stdout = <<>>
  /\ stderr # <<>>
  /\ stderr[1] \in FailureClass /\ ExitCode(stderr[1]) = 2
  /\ \A i \in 2 .. Len(stderr) : stderr[i] = "usage"

Lines ==
  /\ command = "canonicalize" => out.to = "stdout" /\ out.text = "canonical" /\ out.left \in {0, 1}
  /\ command = "verify" => /\ out.to = "stderr" /\ out.text = "ok"
                           /\ out.left \in IF Given(Quiet) THEN {0} ELSE {0, 1}

EmitInv ==
  pc = "emit" =>
    /\ code # 10 => ~writeFailed
    /\ code = 10 => writeFailed
    /\ code = 0 /\ Working => Job(out.left) /\ Lines
    /\ code = 2 => OneDiagnostic /\ out.to = "stderr" /\ out.text = "usage"

ExitInv ==
  pc = "exited" =>
    /\ writeFailed => exit \in {"10", "SIGPIPE"}
    /\ exit = "0" /\ Working => Job(0)
    /\ exit = "2" => OneDiagnostic
    /\ exit = "10" => writeFailed \/ BrokenEarly

IInv ==
  /\ TypeInv /\ ReadInv /\ QuietInv /\ FailureInv /\ EmitInv /\ ExitInv
  /\ OversizeIsBound

--------------------------------------------------------------------------------
(* What never changes, and what a write leaves. *)

\* The arguments and the streams are the same throughout.
LEMMA SameWorld ==
  ASSUME UNCHANGED world
  PROVE  /\ command' = command /\ Given(Help)' = Given(Help) /\ Given(Quiet)' = Given(Quiet)
         /\ Working' = Working
         /\ source' = source => stream' = stream
  BY DEF world, command, Given, rest, Working, stream

LEMMA Classes ==
  /\ "CLI_USAGE" \in FailureClass /\ "INTERNAL_IO" \in FailureClass
  /\ "NOT_CANONICAL" \in FailureClass /\ "BOUND_EXCEEDED" \in FailureClass
  /\ InputClass \subseteq FailureClass
  /\ \A class \in InputClass : class \notin InternalClass
  /\ FailureClass \subseteq Line
  /\ {"usage", "partial", "ok", "canonical", "help", "version"} \subseteq Line
  /\ "usage" \notin FailureClass
  /\ \A class \in FailureClass : ExitCode(class) \in {2, 10}
  /\ \A class \in FailureClass \ {"INTERNAL_IO", "INTERNAL_ERROR"} : ExitCode(class) = 2
  /\ ExitCode("INTERNAL_IO") = 10
<1>1. /\ "CLI_USAGE" \in FailureClass /\ "INTERNAL_IO" \in FailureClass
      /\ "NOT_CANONICAL" \in FailureClass /\ "BOUND_EXCEEDED" \in FailureClass
      /\ InputClass \subseteq FailureClass
  BY DEF FailureClass, InputClass, InternalClass
<1>2. \A class \in InputClass : class \notin InternalClass
  BY DEF InputClass, InternalClass
<1>3. FailureClass \subseteq Line /\ {"usage", "partial", "ok", "canonical", "help", "version"} \subseteq Line
  BY DEF Line
<1>4. "usage" \notin FailureClass
  BY DEF FailureClass, InputClass, InternalClass
<1>5. \A class \in FailureClass : ExitCode(class) \in {2, 10}
  BY DEF ExitCode
<1>6. \A class \in FailureClass \ {"INTERNAL_IO", "INTERNAL_ERROR"} : ExitCode(class) = 2
  BY DEF ExitCode, InternalClass
<1>7. ExitCode("INTERNAL_IO") = 10
  BY DEF ExitCode, InternalClass
<1> QED
  BY <1>1, <1>2, <1>3, <1>4, <1>5, <1>6, <1>7

--------------------------------------------------------------------------------
(* One lemma for each action. *)

LEMMA RunUsageInv == ASSUME IInv, RunUsage PROVE IInv'
<1> USE DEF IInv, RunUsage, Quietly
<1>1. TypeInv'
  BY Classes DEF TypeInv, world
<1>2. ReadInv'
  BY SameWorld DEF ReadInv
<1>3. QuietInv' /\ FailureInv' /\ EmitInv' /\ ExitInv' /\ OversizeIsBound'
  BY DEF QuietInv, FailureInv, EmitInv, ExitInv, OversizeIsBound, ReadInv, Working
<1> QED
  BY <1>1, <1>2, <1>3

LEMMA RunHelpInv == ASSUME IInv, RunHelp PROVE IInv'
<1> USE DEF IInv, RunHelp, Emit, Quietly
<1>1. command \notin Command
  BY DEF Command, Help
<1>2. TypeInv'
  BY Classes DEF TypeInv, world
<1>3. ReadInv' /\ QuietInv' /\ FailureInv'
  BY <1>1, SameWorld DEF ReadInv, QuietInv, FailureInv, Working
<1>4. EmitInv'
  BY <1>1, SameWorld DEF EmitInv, QuietInv, Working, TypeInv
<1>5. ExitInv' /\ OversizeIsBound'
  BY <1>1, SameWorld DEF ExitInv, OversizeIsBound, ReadInv, Working
<1> QED
  BY <1>2, <1>3, <1>4, <1>5

LEMMA RunVersionInv == ASSUME IInv, RunVersion PROVE IInv'
<1> USE DEF IInv, RunVersion, Emit, Quietly
<1>1. command \notin Command
  BY DEF Command
<1>2. TypeInv'
  BY Classes DEF TypeInv, world
<1>3. ReadInv' /\ QuietInv' /\ FailureInv'
  BY <1>1, SameWorld DEF ReadInv, QuietInv, FailureInv, Working
<1>4. EmitInv'
  BY <1>1, SameWorld DEF EmitInv, QuietInv, Working, TypeInv
<1>5. ExitInv' /\ OversizeIsBound'
  BY <1>1, SameWorld DEF ExitInv, OversizeIsBound, ReadInv, Working
<1> QED
  BY <1>2, <1>3, <1>4, <1>5

\* An error before anything is written, of a class that maps to 2, or of a
\* stream that broke early.
LEMMA ReportInv ==
  ASSUME IInv, NEW class \in FailureClass \ {"INTERNAL_ERROR"}, Report(class),
         pc \in {"run", "open", "read", "convert"},
         class = "INTERNAL_IO" => BrokenEarly,
         source # "none" /\ stream.size > MaxInput => got = MaxInput + 1 /\ class = "BOUND_EXCEEDED",
         UNCHANGED <<world, source, got>>, Quietly
  PROVE  IInv'
<1> USE DEF IInv, Report, Quietly
<1>1. TypeInv'
  BY DEF TypeInv, world
<1>2. ReadInv' /\ QuietInv' /\ EmitInv' /\ ExitInv'
  BY SameWorld DEF ReadInv, QuietInv, EmitInv, ExitInv
<1>3. FailureInv' /\ OversizeIsBound'
  BY SameWorld DEF FailureInv, QuietInv, OversizeIsBound, BrokenEarly
<1> QED
  BY <1>1, <1>2, <1>3

\* The stream an input is read from is opened, nothing is read yet.
LEMMA RunCommandInv == ASSUME IInv, RunCommand PROVE IInv'
<1> USE DEF IInv
<1>1. /\ UNCHANGED world /\ pc = "run" /\ command \in Command /\ got' = got /\ Quietly
      /\ source = "none" /\ got = 0
  BY DEF RunCommand, ReadInv
<1>2. CASE Report("CLI_USAGE") /\ UNCHANGED source
  BY <1>1, <1>2, ReportInv, Classes
<1>3. CASE Given(Help) /\ Emit("stdout", "help", 3, 0) /\ UNCHANGED source
  <2> USE <1>1, <1>3 DEF Emit, Quietly
  <2>1. TypeInv'
    BY Classes DEF TypeInv, world
  <2>2. ReadInv' /\ QuietInv' /\ FailureInv'
    BY SameWorld DEF ReadInv, QuietInv, FailureInv, Working
  <2>3. EmitInv'
    BY SameWorld DEF EmitInv, QuietInv, Working, TypeInv
  <2>4. ExitInv' /\ OversizeIsBound'
    BY SameWorld DEF ExitInv, OversizeIsBound
  <2> QED
    BY <2>1, <2>2, <2>3, <2>4
<1>4. CASE /\ ~Given(Help)
           /\ source' = IF positional \in {<<>>, <<"-">>} THEN "stdin" ELSE "file"
           /\ pc' = IF source' = "stdin" THEN "read" ELSE "open"
           /\ UNCHANGED <<failure, out, code>>
  <2> USE <1>1, <1>4 DEF Quietly
  <2>1. \/ source' = "stdin" /\ pc' = "read"
        \/ source' = "file" /\ pc' = "open"
    OBVIOUS
  <2>2. TypeInv'
    BY <2>1 DEF TypeInv, world
  <2>3. pc' = "read" => stream' \in Streams /\ got' <= stream'.size
    BY <2>1, StreamAssumption DEF stream, world, TypeInv
  <2>4. ReadInv'
    BY <2>1, <2>3, SameWorld DEF ReadInv, Working
  <2>5. QuietInv' /\ FailureInv' /\ EmitInv' /\ ExitInv' /\ OversizeIsBound'
    BY <2>1, SameWorld DEF QuietInv, FailureInv, EmitInv, ExitInv, OversizeIsBound
  <2> QED
    BY <2>2, <2>4, <2>5
<1> QED
  BY <1>2, <1>3, <1>4 DEF RunCommand

LEMMA OpenInv == ASSUME IInv, Open PROVE IInv'
<1> USE DEF IInv
<1>1. UNCHANGED <<world, source, got>> /\ Quietly /\ pc = "open" /\ source # "none" /\ got = 0
  BY DEF Open, ReadInv
<1>2. source = "file"
  BY <1>1 DEF ReadInv
<1>3. CASE file = Missing
  <2>1. Report("CLI_USAGE")
    BY <1>3 DEF Open
  <2>2. stream.size = 0 /\ MaxInput \in Nat
    BY <1>2, <1>3, StreamAssumption DEF stream, Missing
  <2> QED
    BY <1>1, <2>1, <2>2, ReportInv, Classes
<1>4. CASE file # Missing
  <2>1. pc' = "read" /\ UNCHANGED <<failure, out, code>>
    BY <1>4 DEF Open
  <2>2. stream \in Streams /\ 0 <= stream.size
    BY <1>2, <1>4, StreamAssumption DEF stream, TypeInv
  <2> USE <1>1, <2>1 DEF Quietly
  <2>3. TypeInv'
    BY DEF TypeInv, world
  <2>4. ReadInv'
    BY <2>2, SameWorld DEF ReadInv
  <2>5. QuietInv' /\ FailureInv' /\ EmitInv' /\ ExitInv' /\ OversizeIsBound'
    BY SameWorld DEF QuietInv, FailureInv, EmitInv, ExitInv, OversizeIsBound
  <2> QED
    BY <2>3, <2>4, <2>5
<1> QED
  BY <1>3, <1>4

LEMMA ReadMoreInv == ASSUME IInv, ReadMore PROVE IInv'
<1> USE DEF IInv, ReadMore, Quietly
<1>1. got \in Nat /\ MaxInput \in Nat /\ source # "none" /\ stream \in Streams
  BY StreamAssumption DEF TypeInv, ReadInv
<1>2. stream.size \in Nat
  BY <1>1, StreamAssumption
<1>3. TypeInv'
  BY <1>1 DEF TypeInv, world
<1>4. ReadInv'
  BY <1>1, <1>2, SameWorld DEF ReadInv
<1>5. QuietInv' /\ FailureInv' /\ EmitInv' /\ ExitInv' /\ OversizeIsBound'
  BY SameWorld DEF QuietInv, FailureInv, EmitInv, ExitInv, OversizeIsBound
<1> QED
  BY <1>3, <1>4, <1>5

LEMMA ReadFailsInv == ASSUME IInv, ReadFails PROVE IInv'
<1> USE DEF IInv
<1>1. /\ pc = "read" /\ source # "none" /\ got <= MaxInput /\ got = stream.size /\ stream.broken
      /\ UNCHANGED <<world, source, got>> /\ Quietly
      /\ Report(IF source = "stdin" THEN "INTERNAL_IO" ELSE "CLI_USAGE")
  BY DEF ReadFails, ReadInv
<1>2. BrokenEarly /\ ~(stream.size > MaxInput)
  BY <1>1, StreamAssumption DEF BrokenEarly, TypeInv
<1> QED
  BY <1>1, <1>2, ReportInv, Classes

LEMMA ReadTooMuchInv == ASSUME IInv, ReadTooMuch PROVE IInv'
<1> USE DEF IInv
<1>1. /\ pc = "read" /\ got = MaxInput + 1
      /\ UNCHANGED <<world, source, got>> /\ Quietly /\ Report("BOUND_EXCEEDED")
  BY DEF ReadTooMuch
<1> QED
  BY <1>1, ReportInv, Classes

LEMMA ReadAllInv == ASSUME IInv, ReadAll PROVE IInv'
<1> USE DEF IInv, ReadAll, Quietly
<1>1. TypeInv'
  BY DEF TypeInv, world
<1>2. ReadInv'
  BY SameWorld DEF ReadInv
<1>3. QuietInv' /\ FailureInv' /\ EmitInv' /\ ExitInv' /\ OversizeIsBound'
  BY SameWorld DEF QuietInv, FailureInv, EmitInv, ExitInv, OversizeIsBound
<1> QED
  BY <1>1, <1>2, <1>3

\* A text is judged only when all of it was read, and it is within the limit.
LEMMA Converting ==
  ASSUME IInv, pc = "convert"
  PROVE  /\ source # "none" /\ Working
         /\ stream.text \in Texts
         /\ stream.size <= MaxInput /\ ~(stream.size > MaxInput) /\ ~stream.broken
         /\ ~writeFailed /\ stdout = <<>> /\ stderr = <<>>
<1>1. source # "none" /\ Working /\ stream \in Streams
  BY DEF IInv, ReadInv
<1>2. stream.text \in Texts /\ stream.size \in 0 .. MaxInput + 2 /\ MaxInput \in Nat
  BY <1>1, StreamAssumption
<1>3. stream.size <= MaxInput /\ ~stream.broken
  BY DEF IInv, ReadInv
<1>4. ~writeFailed /\ stdout = <<>> /\ stderr = <<>>
  BY DEF IInv, QuietInv
<1> QED
  BY <1>1, <1>2, <1>3, <1>4

LEMMA RejectInv == ASSUME IInv, Reject PROVE IInv'
<1>1. /\ pc = "convert" /\ Judgement[stream.text] # "ok" /\ Report(Judgement[stream.text])
      /\ UNCHANGED <<world, source, got>> /\ Quietly
  BY DEF Reject
<1>2. Judgement[stream.text] \in InputClass
  BY <1>1, Converting, StreamAssumption
<1>3. Judgement[stream.text] \in FailureClass \ {"INTERNAL_ERROR", "INTERNAL_IO"}
  BY <1>2, Classes DEF InternalClass
<1> QED
  BY <1>1, <1>3, Converting, ReportInv

\* The first line of a job that is all done but for its lines.
LEMMA EmitJob ==
  ASSUME IInv, pc = "convert", Judgement[stream.text] = "ok",
         NEW to \in {"stdout", "stderr"}, NEW text \in Line, NEW n \in Nat,
         Emit(to, text, n, 0),
         command = "canonicalize" => to = "stdout" /\ text = "canonical" /\ n = 1,
         command = "verify" => /\ to = "stderr" /\ text = "ok" /\ Canonical[stream.text] = stream.text
                               /\ n = IF Given(Quiet) THEN 0 ELSE 1,
         UNCHANGED <<world, source, got>>, Quietly
  PROVE  IInv'
<1> USE DEF IInv, Emit, Quietly
<1>1. TypeInv'
  BY DEF TypeInv, world
<1>2. ReadInv' /\ QuietInv' /\ FailureInv' /\ ExitInv'
  BY SameWorld DEF ReadInv, QuietInv, FailureInv, ExitInv
<1>3. OversizeIsBound'
  BY Converting, SameWorld DEF OversizeIsBound
<1>4. out'.to = to /\ out'.text = text /\ out'.left = n /\ code' = 0 /\ pc' = "emit"
  OBVIOUS
<1>5. Job(n)'
  BY Converting, SameWorld DEF Job, ReadOK
<1>6. Job(out.left)'
  BY <1>4, <1>5 DEF Job
<1>7. Lines'
  BY <1>4, SameWorld DEF Lines
<1>8. EmitInv'
  BY <1>4, <1>6, <1>7, Converting DEF EmitInv
<1> QED
  BY <1>1, <1>2, <1>3, <1>8

LEMMA CanonicalizeInv == ASSUME IInv, Canonicalize PROVE IInv'
<1>1. /\ pc = "convert" /\ command = "canonicalize" /\ Judgement[stream.text] = "ok"
      /\ Emit("stdout", "canonical", 1, 0) /\ UNCHANGED <<world, source, got>> /\ Quietly
  BY DEF Canonicalize
<1>2. command # "verify"
  BY <1>1
<1> QED
  BY <1>1, <1>2, EmitJob, Classes

LEMMA VerifyInv == ASSUME IInv, Verify PROVE IInv'
<1>1. /\ pc = "convert" /\ command = "verify" /\ Judgement[stream.text] = "ok"
      /\ UNCHANGED <<world, source, got>> /\ Quietly
  BY DEF Verify
<1>2. CASE Canonical[stream.text] # stream.text
  BY <1>1, <1>2, Converting, ReportInv, Classes DEF Verify
<1>3. CASE Canonical[stream.text] = stream.text
  <2>1. Emit("stderr", "ok", IF Given(Quiet) THEN 0 ELSE 1, 0)
    BY <1>3 DEF Verify
  <2>2. (IF Given(Quiet) THEN 0 ELSE 1) \in Nat /\ command # "canonicalize"
    BY <1>1
  <2> QED
    BY <1>1, <1>3, <2>1, <2>2, EmitJob, Classes
<1> QED
  BY <1>2, <1>3

LEMMA WrittenTypes ==
  ASSUME TypeInv, NEW to \in {"stdout", "stderr"}, NEW line \in Line, Written(to, line)
  PROVE  stdout' \in Seq(Line) /\ stderr' \in Seq(Line)
<1>1. stdout \in Seq(Line) /\ stderr \in Seq(Line)
  BY DEF TypeInv
<1>2. Append(stdout, line) \in Seq(Line) /\ Append(stderr, line) \in Seq(Line)
  BY <1>1
<1> QED
  BY <1>1, <1>2 DEF Written

LEMMA PartlyTypes ==
  ASSUME TypeInv, NEW to \in {"stdout", "stderr"}, PartlyWritten(to)
  PROVE  stdout' \in Seq(Line) /\ stderr' \in Seq(Line) /\ writeFailed' = TRUE
  BY WrittenTypes, Classes DEF TypeInv, PartlyWritten

\* A failed write ends the process, or is about to be reported.
LEMMA LostInv ==
  ASSUME IInv, NEW to \in {"stdout", "stderr"}, PartlyWritten(to), pc \in {"emit", "report", "usage"},
         UNCHANGED <<world, source, got>>,
         \/ pc = "emit" /\ Report("INTERNAL_IO") /\ UNCHANGED exit
         \/ pc' = "exited" /\ exit' \in {"10", "SIGPIPE"} /\ UNCHANGED <<failure, out, code>>
  PROVE  IInv'
<1> USE DEF IInv
<1>1. stdout' \in Seq(Line) /\ stderr' \in Seq(Line) /\ writeFailed' = TRUE
  BY PartlyTypes
<1>2. TypeInv'
  BY <1>1, Classes DEF TypeInv, world, Report
<1>3. pc' \in {"report", "exited"}
  BY DEF Report
<1>4. ReadInv' /\ QuietInv' /\ EmitInv'
  BY <1>1, <1>3, SameWorld DEF ReadInv, QuietInv, EmitInv
<1>5. FailureInv'
  BY <1>1, Classes DEF FailureInv, Report
<1>6. ExitInv'
  BY <1>1 DEF ExitInv, Report
<1>7. OversizeIsBound'
  BY <1>1, <1>3, SameWorld DEF OversizeIsBound, ReadInv
<1> QED
  BY <1>2, <1>4, <1>5, <1>6, <1>7

\* A line that is written brings the job one line closer to its end.
LEMMA LineInv ==
  ASSUME IInv, pc = "emit", out.left > 0, Written(out.to, out.text),
         out' = [out EXCEPT !.left = @ - 1],
         UNCHANGED <<pc, failure, code, writeFailed, exit, world, source, got>>
  PROVE  IInv'
<1> USE DEF IInv
<1>1. out.to \in {"stdout", "stderr"} /\ out.text \in Line /\ out.left \in Nat
  BY DEF TypeInv
<1>2. out'.to = out.to /\ out'.text = out.text /\ out'.left = out.left - 1 /\ out'.left \in Nat
  BY <1>1 DEF TypeInv
<1>3. stdout' \in Seq(Line) /\ stderr' \in Seq(Line)
  BY <1>1, WrittenTypes
<1>4. TypeInv'
  <2>1. out' \in [to : {"stdout", "stderr"}, text : Line, left : Nat]
    BY <1>1, <1>2 DEF TypeInv
  <2>2. UNCHANGED <<stdin, file, pc, source, got, failure, code, writeFailed, exit>>
    BY DEF world
  <2> QED
    BY <1>3, <2>1, <2>2 DEF TypeInv
<1>5. ReadInv' /\ QuietInv' /\ FailureInv' /\ ExitInv' /\ OversizeIsBound'
  BY SameWorld DEF ReadInv, QuietInv, FailureInv, ExitInv, OversizeIsBound
<1>6. ASSUME code = 0, Working PROVE Job(out.left)' /\ Lines'
  <2>1. Job(out.left) /\ Lines /\ command \in Command
    BY <1>6 DEF EmitInv, Working
  <2>2. ReadOK'
    BY <2>1, SameWorld DEF Job, ReadOK
  <2>3. CASE command = "canonicalize"
    <3>1. out.left = 1 /\ out.to = "stdout" /\ out.text = "canonical" /\ stdout = <<>> /\ stderr = <<>>
      BY <1>1, <2>1, <2>3 DEF Job, Lines
    <3>2. stdout' = <<"canonical">> /\ stderr' = <<>>
      BY <3>1 DEF Written
    <3>3. command' = "canonicalize"
      BY <2>3, SameWorld
    <3> QED
      BY <1>2, <2>2, <3>1, <3>2, <3>3 DEF Job, Lines
  <2>4. CASE command = "verify"
    <3>1. /\ out.left = 1 /\ out.to = "stderr" /\ out.text = "ok" /\ stdout = <<>> /\ stderr = <<>>
          /\ ~Given(Quiet) /\ Canonical[stream.text] = stream.text
      BY <1>1, <2>1, <2>4 DEF Job, Lines
    <3>2. stderr' = <<"ok">> /\ stdout' = <<>>
      BY <3>1 DEF Written
    <3>3. command' = "verify" /\ ~Given(Quiet)' /\ Canonical[stream.text]' = stream.text'
      BY <2>4, <3>1, SameWorld
    <3> QED
      BY <1>2, <2>2, <3>1, <3>2, <3>3 DEF Job, Lines
  <2> QED
    BY <2>1, <2>3, <2>4 DEF Command
<1>7. ASSUME code = 2 PROVE OneDiagnostic' /\ out.to = "stderr" /\ out.text = "usage"
  <2>1. OneDiagnostic /\ out.to = "stderr" /\ out.text = "usage"
    BY <1>7 DEF EmitInv
  <2>2. stdout' = stdout /\ stderr' = Append(stderr, "usage") /\ stderr \in Seq(Line)
    BY <2>1 DEF Written, TypeInv
  <2>3. /\ stderr' # <<>> /\ stderr'[1] = stderr[1]
        /\ \A i \in 2 .. Len(stderr') : stderr'[i] = "usage"
    BY <2>1, <2>2 DEF OneDiagnostic
  <2> QED
    BY <2>1, <2>2, <2>3 DEF OneDiagnostic
<1>8. EmitInv'
  BY <1>2, <1>6, <1>7, SameWorld DEF EmitInv
<1> QED
  BY <1>4, <1>5, <1>8

LEMMA EmitLineInv == ASSUME IInv, EmitLine PROVE IInv'
<1>1. pc = "emit" /\ out.left > 0 /\ UNCHANGED <<world, source, got>>
  BY DEF EmitLine
<1>2. out.to \in {"stdout", "stderr"}
  BY DEF IInv, TypeInv
<1>3. CASE /\ Written(out.to, out.text)
           /\ out' = [out EXCEPT !.left = @ - 1]
           /\ UNCHANGED <<pc, failure, code, writeFailed, exit>>
  BY <1>1, <1>3, LineInv
<1>4. CASE PartlyWritten(out.to) /\ Report("INTERNAL_IO") /\ UNCHANGED exit
  BY <1>1, <1>2, <1>4, LostInv
<1>5. CASE Killed(out.to)
  BY <1>1, <1>2, <1>5, LostInv DEF Killed, Exit
<1> QED
  BY <1>3, <1>4, <1>5 DEF EmitLine

LEMMA EmitDoneInv == ASSUME IInv, EmitDone PROVE IInv'
<1> USE DEF IInv
<1>1. /\ pc = "emit" /\ out.left = 0 /\ pc' = "exited" /\ exit' = Status(code)
      /\ UNCHANGED <<world, source, got, failure, out, code, stdout, stderr, writeFailed>>
  BY DEF EmitDone, Exit
<1>2. /\ code \in {0, 2, 10} /\ exit' \in {"0", "2", "10"}
      /\ (exit' = "0" <=> code = 0) /\ (exit' = "2" <=> code = 2) /\ (exit' = "10" <=> code = 10)
  BY <1>1 DEF Status, TypeInv
<1>3. TypeInv'
  BY <1>1, <1>2 DEF TypeInv, world
<1>4. ReadInv' /\ QuietInv' /\ FailureInv' /\ EmitInv' /\ OversizeIsBound'
  BY <1>1, SameWorld DEF ReadInv, QuietInv, FailureInv, EmitInv, OversizeIsBound
<1>5. ExitInv'
  BY <1>1, <1>2, SameWorld DEF ExitInv, EmitInv, Job, ReadOK, OneDiagnostic, Working
<1> QED
  BY <1>3, <1>4, <1>5

LEMMA ReportErrorInv == ASSUME IInv, ReportError PROVE IInv'
<1>1. /\ pc = "report" /\ UNCHANGED <<world, source, got>>
      /\ failure \in FailureClass \ {"INTERNAL_ERROR"}
      /\ writeFailed => failure = "INTERNAL_IO"
      /\ failure = "INTERNAL_IO" => writeFailed \/ BrokenEarly
  BY DEF ReportError, IInv, FailureInv
<1>2. CASE /\ Written("stderr", failure)
           /\ Exit(Status(ExitCode(failure)))
           /\ UNCHANGED <<failure, out, code, writeFailed>>
  <2> USE DEF IInv
  <2>1. pc' = "exited" /\ exit' = Status(ExitCode(failure))
    BY <1>2 DEF Exit
  <2>2. stdout' = stdout /\ stderr' = Append(stderr, failure)
    BY <1>2 DEF Written
  <2>3. \/ failure = "INTERNAL_IO" /\ exit' = "10"
        \/ failure # "INTERNAL_IO" /\ ExitCode(failure) = 2 /\ exit' = "2"
    BY <1>1, <2>1, Classes DEF Status
  <2>4. stdout' \in Seq(Line) /\ stderr' \in Seq(Line)
    BY <1>1, <1>2, Classes, WrittenTypes
  <2>5. TypeInv'
    BY <1>1, <1>2, <2>1, <2>3, <2>4 DEF TypeInv, world
  <2>6. ReadInv' /\ QuietInv' /\ FailureInv' /\ EmitInv' /\ OversizeIsBound'
    BY <1>1, <1>2, <2>1, SameWorld DEF ReadInv, QuietInv, FailureInv, EmitInv, OversizeIsBound
  <2>7. ASSUME failure # "INTERNAL_IO" PROVE OneDiagnostic'
    <3>1. stdout = <<>> /\ stderr = <<>>
      BY <1>1, <2>7 DEF QuietInv
    <3>2. stdout' = <<>> /\ stderr' = <<failure>>
      BY <2>2, <3>1
    <3> QED
      BY <1>1, <2>3, <2>7, <3>2 DEF OneDiagnostic
  <2>8. BrokenEarly' = BrokenEarly
    BY <1>1, SameWorld DEF BrokenEarly
  <2>9. ExitInv'
    BY <1>1, <1>2, <2>1, <2>3, <2>7, <2>8 DEF ExitInv
  <2> QED
    BY <2>5, <2>6, <2>9
<1>3. CASE /\ PartlyWritten("stderr")
           /\ Exit(Status(ExitCode("INTERNAL_IO")))
           /\ UNCHANGED <<failure, out, code>>
  <2>1. pc' = "exited" /\ exit' = "10"
    BY <1>3, Classes DEF Exit, Status
  <2> QED
    BY <1>1, <1>3, <2>1, LostInv
<1>4. CASE Killed("stderr")
  BY <1>1, <1>4, LostInv DEF Killed, Exit
<1> QED
  BY <1>2, <1>3, <1>4 DEF ReportError

LEMMA ReportUsageInv == ASSUME IInv, ReportUsage PROVE IInv'
<1>1. /\ pc = "usage" /\ UNCHANGED <<world, source, got>>
      /\ failure = "CLI_USAGE" /\ source = "none"
      /\ ~writeFailed /\ stdout = <<>> /\ stderr = <<>>
  BY DEF ReportUsage, IInv, FailureInv, ReadInv, QuietInv
<1>2. ExitCode("CLI_USAGE") = 2 /\ ExitCode("INTERNAL_IO") = 10
  BY Classes
<1>3. ASSUME NEW status \in {2, 10}, Emit("stderr", "usage", 5, status), UNCHANGED exit,
             stdout' \in Seq(Line), stderr' \in Seq(Line),
             \/ status = 2 /\ writeFailed' = FALSE /\ OneDiagnostic'
             \/ status = 10 /\ writeFailed' = TRUE
      PROVE  IInv'
  <2> USE <1>1 DEF IInv
  <2>1. /\ pc' = "emit" /\ code' = status /\ failure' = failure
        /\ out' = [to |-> "stderr", text |-> "usage", left |-> 5]
    BY <1>3 DEF Emit
  <2>2. TypeInv'
    BY <1>3, <2>1, Classes DEF TypeInv, world
  <2>3. ReadInv' /\ QuietInv' /\ FailureInv' /\ ExitInv' /\ OversizeIsBound'
    BY <2>1, SameWorld DEF ReadInv, QuietInv, FailureInv, ExitInv, OversizeIsBound
  <2>4. EmitInv'
    BY <1>3, <2>1 DEF EmitInv
  <2> QED
    BY <2>2, <2>3, <2>4
<1>4. CASE /\ Written("stderr", failure)
           /\ Emit("stderr", "usage", 5, ExitCode(failure))
           /\ UNCHANGED <<writeFailed, exit>>
  <2>1. stdout' = <<>> /\ stderr' = <<"CLI_USAGE">>
    BY <1>1, <1>4 DEF Written
  <2>2. OneDiagnostic'
    BY <1>2, <2>1, Classes DEF OneDiagnostic
  <2>3. stdout' \in Seq(Line) /\ stderr' \in Seq(Line)
    BY <1>1, <1>4, Classes, WrittenTypes DEF IInv
  <2>4. Emit("stderr", "usage", 5, 2) /\ writeFailed' = FALSE /\ UNCHANGED exit
    BY <1>1, <1>2, <1>4 DEF IInv, TypeInv
  <2> QED
    BY <1>3, <2>2, <2>3, <2>4
<1>5. CASE /\ PartlyWritten("stderr")
           /\ Emit("stderr", "usage", 5, ExitCode("INTERNAL_IO"))
           /\ UNCHANGED exit
  <2>1. stdout' \in Seq(Line) /\ stderr' \in Seq(Line) /\ writeFailed' = TRUE
    BY <1>5, PartlyTypes DEF IInv
  <2> QED
    BY <1>2, <1>3, <1>5, <2>1
<1>6. CASE Killed("stderr")
  BY <1>1, <1>6, LostInv DEF Killed, Exit
<1> QED
  BY <1>4, <1>5, <1>6 DEF ReportUsage

LEMMA StutterInv == ASSUME IInv, UNCHANGED vars PROVE IInv'
<1>1. UNCHANGED world /\ UNCHANGED vars
  BY DEF vars, world
<1>2. TypeInv' /\ OneDiagnostic' = OneDiagnostic /\ Job(0)' = Job(0) /\ Job(out.left)' = Job(out.left)
      /\ Lines' = Lines /\ BrokenEarly' = BrokenEarly
  BY <1>1, SameWorld DEF IInv, TypeInv, vars, world, OneDiagnostic, Job, ReadOK, Lines, BrokenEarly
<1>3. ReadInv' /\ QuietInv' /\ FailureInv'
  BY <1>1, <1>2, SameWorld DEF IInv, ReadInv, QuietInv, FailureInv, vars
<1>4. EmitInv' /\ ExitInv' /\ OversizeIsBound'
  BY <1>1, <1>2, SameWorld DEF IInv, EmitInv, ExitInv, OversizeIsBound, vars
<1> QED
  BY <1>2, <1>3, <1>4 DEF IInv

--------------------------------------------------------------------------------
(* The theorems. *)

LEMMA InitInv == ASSUME Init PROVE IInv
<1> USE DEF Init
<1>1. TypeInv
  <2>1. out \in [to : {"stdout", "stderr"}, text : Line, left : Nat]
    BY DEF NoOutput, Line
  <2>2. stdout \in Seq(Line) /\ stderr \in Seq(Line)
    OBVIOUS
  <2>3. got \in 0 .. MaxInput + 1
    BY StreamAssumption
  <2> QED
    BY <2>1, <2>2, <2>3 DEF TypeInv
<1>2. ReadInv /\ QuietInv /\ FailureInv /\ EmitInv /\ ExitInv /\ OversizeIsBound
  BY DEF ReadInv, QuietInv, FailureInv, EmitInv, ExitInv, OversizeIsBound
<1> QED
  BY <1>1, <1>2 DEF IInv

LEMMA NextInv == ASSUME IInv, [Next]_vars PROVE IInv'
<1>1. CASE RunUsage \/ RunHelp \/ RunVersion \/ RunCommand
  BY <1>1, RunUsageInv, RunHelpInv, RunVersionInv, RunCommandInv
<1>2. CASE Open \/ ReadMore \/ ReadFails \/ ReadTooMuch \/ ReadAll
  BY <1>2, OpenInv, ReadMoreInv, ReadFailsInv, ReadTooMuchInv, ReadAllInv
<1>3. CASE Reject \/ Canonicalize \/ Verify
  BY <1>3, RejectInv, CanonicalizeInv, VerifyInv
<1>4. CASE EmitLine \/ EmitDone \/ ReportError \/ ReportUsage
  BY <1>4, EmitLineInv, EmitDoneInv, ReportErrorInv, ReportUsageInv
<1>5. CASE Stop \/ UNCHANGED vars
  BY <1>5, StutterInv DEF Stop
<1> QED
  BY <1>1, <1>2, <1>3, <1>4, <1>5 DEF Next

LEMMA Invariance == Spec => []IInv
<1>1. Init => IInv
  BY InitInv
<1>2. IInv /\ [Next]_vars => IInv'
  BY NextInv
<1> QED
  BY <1>1, <1>2, PTL DEF Spec

\* Success of canonicalize or verify means that the whole input was read and
\* accepted and all of the output went out.
THEOREM SuccessMeansComplete == Spec => []SuccessIsComplete
<1>1. IInv => SuccessIsComplete
  BY DEF IInv, ExitInv, Job, Working, SuccessIsComplete, Exited
<1> QED
  BY <1>1, Invariance, PTL

\* Exit code 2 comes with an empty standard output and one diagnostic, of a
\* class that maps to 2.
THEOREM RejectionsAreReported == Spec => []RejectionIsReported
<1>1. IInv => RejectionIsReported
  <2> SUFFICES ASSUME IInv, Exited("2") PROVE RejectionIsReported
    BY DEF RejectionIsReported
  <2>1. OneDiagnostic /\ ~writeFailed /\ stderr \in Seq(Line)
    BY DEF IInv, ExitInv, TypeInv, Exited
  <2>2. 1 \in DOMAIN stderr /\ Diagnostics = {1}
    BY <2>1, Classes DEF OneDiagnostic, Diagnostics
  <2> QED
    BY <2>1, <2>2 DEF RejectionIsReported, OneDiagnostic
<1> QED
  BY <1>1, Invariance, PTL

\* Exit code 10 is never the fault of the input or of the command line.
THEOREM InternalMeansTheEnvironment == Spec => []InternalMeansEnvironment
<1>1. IInv => InternalMeansEnvironment
  BY DEF IInv, ExitInv, BrokenEarly, InternalMeansEnvironment, Exited
<1> QED
  BY <1>1, Invariance, PTL

\* An input over the limit is a bound violation whatever follows the limit.
THEOREM OversizeIsABound == Spec => []OversizeIsBound
<1>1. IInv => OversizeIsBound
  BY DEF IInv
<1> QED
  BY <1>1, Invariance, PTL

\* Output that was lost is never followed by success or by an input rejection.
THEOREM LostOutputIsReported == Spec => []LostOutputIsInternal
<1>1. IInv => LostOutputIsInternal
  BY DEF IInv, ExitInv, LostOutputIsInternal
<1> QED
  BY <1>1, Invariance, PTL

================================================================================
