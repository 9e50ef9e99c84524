# TLA+ models of jcs-schubfach

The repository is a strict JSON canonicalizer (RFC 8785) in Go without
dependencies: a library (`jcstoken`, `jcs`, `jcsfloat`, `jcserr`), the command
`jcs-canon`, and an offline tool chain that replays the command on a matrix of
machines and compares what they print. This directory models its control: what
each part does on every path, in which order, and with which failures. Texts and
digests are members of small sets, except where a conversion is the subject, as
it is for strings and for the digits of a number.

## 1. Inventory

| Component | State | Operations | Where it is hard |
|---|---|---|---|
| Failure taxonomy, `jcserr/errors.go` | none | class, exit code | every class must keep its exit code through all callers |
| Parser, `jcstoken/token.go` | `pos`, `depth`, `valueCount`, per-object `seen`, the tree so far | `ParseWithOptions`, recursive `parseValue`/`parseObject`/`parseArray`, `parseString`, `parseNumber` | seven limits checked at different moments, which of several faults is reported and where, two paths through a string |
| Serializer, `jcs/serialize.go` | counters, the output so far | `validateTree`, `serializeValue`, `sortObjectMembers`, `serializeString` | trees built by a caller, an unstable sort, a comparison with an ASCII shortcut |
| Pipeline, `jcs.CanonicalizeWithOptions` | none between calls | parse, serialize | two implementations of the same limits, output becoming input |
| Number formatting, `jcsfloat` | none; the interval and the digits while it runs | `FormatDouble`, `AppendDouble`, `shortestDecimal`, `ryuShortest`, `formatECMA` | bounds scaled in two words that drop bits, ties, the nearer lower bound below a power of two, exponent ranges |
| `jcs-canon`, `cmd/jcs-canon/main.go` | flags, the bytes read, what went out on two streams | `run`, `cmdCanonicalize`, `cmdVerify`, `readInput`, `readBounded` | streams that break or overrun, writes that fail after a part went out, exit codes |
| Evidence, `offline/replay/evidence.go`, `config.go` | none | `ValidateEvidenceBundle`, policy | records made by other machines |
| Replay matrix, `offline/replay/run.go`, `runtime/container`, `runtime/executil` | per-node loop position, records, a context deadline | `RunMatrix`, `Prepare`/`RunReplay`/`Cleanup` | commands that fail, hang or lie, a deadline at any moment |
| Bundle, `offline/replay/bundle.go` | the archive | `CreateBundle`, `VerifyBundle` | writes that fail late, files of one name, an archive read twice |
| Worker, `cmd/jcs-offline-worker` | the extracted tree, digests over all vectors | extract, verify, run vectors | a damaged or replaced archive, a timeout per vector, classes found in text |
| Replay command, `cmd/jcs-offline-replay/main.go` | files | `prepare`, `run`, `verify-evidence`, `report` | files replaced between two reads, evidence of an earlier run |
| Harness, `cmd/jcs-offline-replay/offline_harness.go` | an output directory | `run-suite`, `cross-arch`, `audit-summary`, ... | a failing step leaves artifacts of an earlier run |
| Gate, `cmd/jcs-gate` | none | a list of `go` commands | stop at the first failure |
| Node scripts, `offline/scripts` | machines | snapshot, copy, run, fetch | interrupted scripts |

How they interact: `jcs-canon` reads a stream into memory, calls
`jcs.Canonicalize`, which is `jcstoken.ParseWithOptions` followed by
`serializeInto`, and maps the class of a `jcserr.Error` to its exit code. No
component keeps state between calls, and the library and the command run in
one goroutine. Concurrency enters with the environment: streams that end or
break at any point, a reader that closes a pipe, and, in the offline part,
external processes and a context deadline. `jcs-offline-replay run` calls
`RunMatrix`, which calls an adapter per node, which runs a command through
`executil.Run`; that command reaches a machine, on which the worker runs the
vectors and writes a JSON file; `RunMatrix` loads the file, and validates all
of them together at the end. `verify-evidence` repeats that validation on a
bundle read back from disk; the harness and the gate drive the commands.

What makes each part correct:

* parser: it terminates, accepts exactly the documents of the I-JSON profile
  within all limits, returns the tree the text spells with unique keys, and
  reports for a rejected document one class and offset that the document
  justifies;
* serializer: it emits nothing unless the whole tree is valid, and then exactly
  the canonical form, whatever order the sort meets the members in;
* pipeline: whatever is parsed can be serialized; the output is accepted again, unless
  formatting made it or a number in it longer than the limits on these, means the
  same, and is a fixed point;
* command: exit 0 means all of the output was delivered, exit 2 that the input
  or the usage is at fault and a diagnostic says so, exit 10 that the
  environment is; one diagnostic, after which only usage text follows;
* matrix: evidence is returned only when every required replay ran, on a clean
  node, left its own sound record, and agreed with the others; the run ends unless a
  command's output pipe is held open for ever;
* bundle and worker: what is packed is accepted, what is run is what was packed,
  and the evidence of a worker says what the vectors say, however the machine
  behaves;
* harness: the files of a passed run belong together and to this run.

Section 7 and `hazards` in PROJECT.json list what in this is hard to test.

## 2. Modules

| Module | Models |
|---|---|
| `JcsErrors` | the failure classes and `ExitCode` |
| `JsonParser` | `ParseWithOptions` with the recursive descent as an explicit stack, over lexemes |
| `JsonDomain` | abstract specification of the parser: a partition of the inputs into accepted trees and rejections, decided in one step |
| `JsonString` | `parseString` over code points, both paths, escapes, surrogates, the bound; and `serializeString` |
| `StringLiteral` | reference: what a string literal spells, the grammar of RFC 8259 and the limits of RFC 7493 |
| `JsonNumber` | `parseNumber` and `buildNumberValue` over characters |
| `BinaryFormat` | the widths of a floating-point format |
| `FloatScaling` | a bound times a power of ten: `mult128bitPow10`, the logarithms, `divisibleByPower5`, and what the constants of the code satisfy |
| `FloatFormat` | `FormatDouble`: the interval of a float, the loop that trims its digits, the layout of the text |
| `NumberToString` | abstract specification of the formatter: Number::toString of ECMA-262, in one step |
| `ShortestDecimal`, `LargeNat` | reference: the shortest decimals of a float by search, in exact arithmetic on naturals wider than TLC's |
| `NumberRoundTrip` | `JsonNumber`, then `FloatFormat`, then `JsonNumber` again; or any float through the last two |
| `Unicode` | UTF-8 widths and noncharacters, shared by the parser and the serializer |
| `KeyOrder` | `compareSortKeys` and `compareUTF16Units` |
| `Serializer` | `validateTree`, `serializeValue` and the sort, as an explicit stack |
| `CanonicalForm` | abstract specification of the serializer: the form or an error of the tree, in one step |
| `Canonicalize` | `JsonParser` and `Serializer` under one set of options, applied to an input and then to its output |
| `CanonCli` | `jcs-canon` from its arguments to its exit code |
| `Policy` | matrix and profile, their validation, the nodes and replays they ask for |
| `Evidence` | `ValidateEvidenceBundle` under a `Policy` |
| `ReplayMatrix` | `RunMatrix`, the adapters and `executil.Run`, with their commands as environment |
| `Bundle` | `CreateBundle`, `writeBundleTarGz`, and what `VerifyBundle` accepts |
| `OfflineWorker` | `Bundle` and then the worker on the archive, which may be cut, damaged or replaced between them |
| `OfflineCommands` | `prepare`, `run` and `verify-evidence`, read by read, over files that others replace |
| `OfflineSuite` | `run-suite` and `cross-arch`, which drive `OfflineCommands` |
| `MC...` | instances for TLC and reference definitions the properties compare with |
| `...Proofs` | theorems and proofs about the module they name; `CanonicalizeProofs` is also about `JsonParser`, `SerializerProofs` about `KeyOrder`, `NumberProofs` about `JsonNumber` and `FloatFormat`, `OfflineWorkerProofs` about `Bundle` |

How the state and the actions correspond to the code:

* **JsonParser.** A lexeme is one fixed piece of text (a structural byte, one
  whitespace byte, a literal, a number token, a whole quoted string). `pos`,
  `depth` and `valueCount` are the fields of `parser`; the Go call stack of
  `parseObject`/`parseArray` is `stack`, whose frames carry the members so far
  and the `seen` map; completed values are appended to `nodes`, and parents name
  children by index. One action is one stretch of a function between two
  recursive calls: for instance `Resume` is what a loop in `parseObject` or
  `parseArray` does when a child returns, up to the next call, with the comma,
  the closing bracket or the error. An error unwinds the stack and runs the
  deferred `popDepth` of every frame. Offsets are counted in lexemes; `Width`
  gives the bytes where a limit is in bytes.
* **JsonString, JsonNumber.** What a lexeme of `JsonParser` hides: the same
  functions character by character. One action is one turn of a loop or one
  branch of it. `Finite` and `Nonzero` stand for `strconv.ParseFloat`.
* **FloatScaling, FloatFormat, NumberRoundTrip.** A float is a sign and bits;
  the code is the instance of 52 and 11 bits in words of 64, but nothing of it
  depends on these widths except the constants, which are CONSTANTS here
  (`ExactPower` 55, `DivisiblePower` 24, `FixedDigits` 21, `SmallZeros` 6, and the
  table). `dl`, `dc` and `du` are the locals of `shortestDecimal`, first the scaled
  bounds and the center, then the integers between which digits are trimmed;
  `c0`, `cup`, `trimmed` and `cNextDigit` are those of `ryuShortest`. One action is one branch of
  `shortestDecimal`, one turn of the loop, or one of the last two stages.
  Products are cut to words where the code cuts them. `NumberRoundTrip` adds
  the calls between the parser, the serializer and the parser;
  `ParseFloat` is the one external function.
* **Serializer.** A tree is the sequence of its nodes, children first. Two
  walks, validation then emission, each with its own call stack. `sort.Slice`
  is nondeterministic among orders consistent with the comparison, so a tie
  would show as two outcomes. Tokens of `out` are structural characters,
  strings and literals.
* **CanonCli.** `args`, `stdin` and `file` are the world; one action is one
  step of `run` or a command, one read, or one write. A write may fail after
  part went out. Output to a broken pipe on standard output ends the process by
  signal, as the Go runtime does.
* **Policy, Evidence.** A string is empty or one of few values, an ID is a number
  in the order of the strings, a digest is well formed or not. `PolicyAssumption` is
  the validation that the loaders do and `RunMatrix` repeats before its loops.
* **ReplayMatrix.** `node` and `index` are the two loops of `RunMatrix`,
  `pc` the step of the body, `command` the external process. `Expire` is the
  context's deadline and may come between any two steps. A finishing command
  leaves any record of `Reports` or none in the evidence file. A command whose process
  is gone, by itself (`Linger`) or killed (`Kill`), may have children that hold its
  output pipe; the call of `executil.Run` is over only when they let go of it
  (`Finish`, `Reap`).
* **Bundle, OfflineWorker.** A content is a value and SHA-256 is injective; the
  text the worker's accumulators hash is taken as injective too, so a digest is
  the list of its records. A path is the sequence of its components. `archive`
  is what reached the disk: entries, and whether the blocks that end a tar stream
  did. One action
  of the worker is a step of its `run`; `RunLine` is one line of one vector file.
  A vector result is any exit code, output and diagnostic, or that of a command
  killed after 20 seconds.
* **OfflineCommands, OfflineSuite.** `disk` has the files of each output
  directory, `cmd` the command that is running and what it has read so far, one
  action per file it reads. `suite.at` is the step of `runSuite` or
  `cmdCrossArch`. A digest is the content it was taken of; a binary is the
  tree it was built from, which is that of a commit (`CommitOf`) with or without
  uncommitted changes; `suite.environment` is what `JCS_OFFLINE_SOURCE_GIT_COMMIT`
  says; a bundle has a creation time, so that two bundles of
  equal contents differ. The evidence in the model also carries the bundles that
  the replays took and the parsed matrix and profile (`used`, `parsed`), which
  only the properties look at. The deadline and the loops of `run` are in
  `ReplayMatrix`; here the replays yield some aggregate, or the command fails.

## 3. Plan

Written so far, in this order: `JcsErrors`, `JsonParser` with `JsonDomain` and
its proofs, `CanonCli` with its proofs, `Evidence`, `ReplayMatrix` with its proofs,
`KeyOrder`, `Serializer` with `CanonicalForm`, `Canonicalize`, `JsonString` and
`JsonNumber` with their proofs, `Bundle` and `OfflineWorker`, `OfflineCommands`
and `OfflineSuite` with its proofs, `FloatScaling` and `FloatFormat` with their proofs,
`NumberToString` and `ShortestDecimal`, `NumberRoundTrip`, `Policy`, which
the evidence and the matrix rest on, and the proofs about the serializer, the
token of a number, the evidence that `RunMatrix` returns, the bundle, and the
limits of the parser and the serializer, and last `StringLiteral` with the proofs
that `parseString` reads just its literals.

Next, by importance:

1. Proofs: for `FloatFormat` that the trimmed digits lie in the interval, and for
   the parser that a text has only one reading by places, so that the places of errors,
   and that every text of the domain is accepted, can be proved too.
2. `ReplayMatrix` below `OfflineCommands`: the replay step of `run` refined by
   `RunMatrix`, so that the deadline and the evidence file meet in one model.
3. The node scripts: snapshot, copy, run and fetch with an interrupted script,
   as an implementation of the commands of `ReplayMatrix`.
4. The gate command and the preflight, if a property of more than one step is
   found in them.

## 4. Runs

| Run | Question | Bounds and why they suffice |
|---|---|---|
| `parser` | does the parser accept exactly the domain, build the right tree, and blame the right place? | all lexeme sequences up to length 4 and longer ones chosen to nest, repeat keys across and within objects, and cross each limit by one; limits of 2, 5 and 14, some given and some left to their defaults, so that each binds alone and together. The code compares counters with limits and looks at one byte at a time, so larger instances repeat the same steps |
| `json_string` | do both paths decode, bound and reject alike? | up to three pieces out of every kind of escape, broken escape and character width, and strings crossing a limit of five bytes on either path |
| `number_round_trip` | which number is taken and how is it judged; is its text the one ECMA-262 gives, and does it read back? | every input of up to five characters and longer ones of every shape, also broken ones, with a limit of seven; every float, infinity and NaN of a format of 4 and 6 bits in words of 12, about 6e-11 to 4e9. The words leave the bounds five bits instead of nine. The table has the powers -7 to 11, to 24 bits, computed as the comment of `pow10_table.go` says. Powers to 10 are exact in it as those to 55 are in the real one, and both exponential layouts, ties, inexact products and divisible bounds occur. The bits of a real double are too many to enumerate: for them there are the proofs |
| `serializer` | is the output the canonical form of exactly the valid trees? | every kind of node, valid or not; objects of up to three keys out of seven texts whose UTF-8, UTF-16 and code point orders differ; nesting around a limit of two |
| `canonicalize` | do parser and serializer agree, and is the output a fixed point? | documents of two levels with reordered, escaped and spaced members, through both calls; a number that formatting leaves at exactly the limit on its length and one that it takes over it, and outputs around the limit on inputs |
| `canon_cli` | what do the exit code and the streams tell? | a limit of two units, streams of zero to four units with and without an error, command lines of up to three arguments, any write failing |
| `cli_read_failure` | (finding) is a read failure classified alike on both sources? | the same |
| `cli_broken_pipe` | (finding) does a failed write exit 10? | the same |
| `replay_matrix` | when does `RunMatrix` return evidence? | a matrix of three nodes of both modes, not in the order of their IDs, and a profile that requires two of them, one of these twice; two replays of one, named by the matrix, and one of the other, by the profile; one node with a cleanup command; records with any label, three digests and one fault of each kind; a deadline anywhere, and output pipes held for any time |
| `offline_worker` | does the worker run what was packed, and write what the vectors say? | seven sets of source files (unsorted, with comments, without cases, with a garbled line, two files of one name with equal and with different contents, none), at most two vector files of two lines; every cut of the archive and one replacement of each kind; commands with two outputs, exit codes 0 and 2, killed ones, and diagnostics with zero to two class names. The checks compare one file or line at a time, so more files repeat the same comparisons |
| `offline_suite` | do the files of a passed run belong together? | two architectures whose directories are fresh or hold a passed run, two contents of each input, two commits and aggregates, uncommitted changes on one commit, an environment that names no commit or either, every step failing, one replacement by others (`MaxEdits`) anywhere: each of the mixtures the properties forbid needs one |
| `offline_suite_audit` | (finding) do the documented pass conditions imply a passed `run-suite`? | the same from fresh directories, nothing replaced |

Each property is stated with a comment in its module. Where a property needs
what a part should do, the MC module or an abstract specification has it as an
independent definition: `JsonDomain` is the grammar by splitting a text,
`StringLiteral` has every way to cut a literal into elements and the text each way
spells, without a look ahead or a path, `TreeSpellsInput` compares the tree with the
text by places alone, `JsonNumber` has the grammar of
RFC 8259 by splitting a token (`Splits`) beside the scan,
`ShortestDecimal` tries all decimals with exact products, and `CanonicalForm`
sorts by code units written out in full.

Refinement. `ImplementsDomain` maps the parser's outcome to the one-step verdict
of `JsonDomain`; `ImplementsCanonicalForm` maps the serializer's result and
output to the one step of `CanonicalForm`. Both abstract specifications include
weak fairness of their step, so the refinements also say that the code ends.
`ImplementsToString` maps the formatter's text and verdict to the one step of
`NumberToString`; it is about safety, and that the formatter does not stop before
it has a text is TLC's check for deadlock, since every turn of its loop drops a digit.

Findings. Three runs state a requirement of the repository's own documents and
TLC finds a behaviour of the code against it; PROJECT.json quotes both sides.
A read error in the middle of a stream has exit
code 10 on standard input and 2 on a named file. Writing to a closed standard
output ends the process by SIGPIPE before the code that would exit with 10. And
the audit is written before the release gate, the checksums and the index, so a
`run-suite` that fails in one of these leaves a directory that meets both documented
pass conditions. (For `cross-arch` the document has a third, the comparison report.)

## 5. Fairness

The parser, the serializer, their composition and the command are sequential
functions that always take their next step: weak fairness of `Next` (the
command's reads and writes return, with success or an error). `ReplayMatrix`
assumes that time passes (`Expire`), that `RunMatrix` takes its own steps, that a
command still running at the deadline is killed, and nothing else. A command
may hang until the deadline, and after it too: `executil.Run` collects the output in a
buffer and sets no `WaitDelay`, so children that keep the output pipe open, like the
`podman` or `ssh` of the node scripts when the script is killed, delay the return
without bound. There is no fairness of `Finish` and `Reap`, and that `RunMatrix` returns
is therefore stated under the condition that no pipe is held for ever
(`ReturnsUnlessPipeHeld`); without it, it is false. `NumberRoundTrip`, `OfflineWorker` and `OfflineSuite` have
safety properties only and assume no fairness.

## 6. Proofs

The first part of `CanonicalizeProofs` proves, for all sets of lexemes, all inputs
and all limits, that the parser's state is well typed (`TypeCorrect`), that no
object it completes has two equal decoded keys (`KeysUnique`), that the depth
counter is the number of open containers (`DepthIsBalanced`), that the value
counter is the number of values completed or open (`ValueCountIsExact`), and that
no container exceeds its bound (`ChildrenAreBounded`). They rest on the named
assumptions of `JsonParser`: lexemes of different roles differ, `Decode` maps
spellings to texts, default limits are positive. The inductive invariant is
`IInv`. `UniqueKeys` alone is not inductive, since a completed object takes its
keys from an open frame, and a frame may take a key that was checked several steps
before its value returned; `IInv` therefore adds that the keys of a frame are in
its `seen` set (`FrameInv`), that the key being filled in is in `seen` and is not
yet a member (`KeyPending`), that every open object below the top has such a key,
and that the control state agrees with the stack (`ControlInv`). Each action has a
lemma; the errors share `UnwindInv`, the completed values `CompleteInv`.

`TreeSpelled` is about what the parser builds: at every point of every parse the text
consumed is that of the open containers and the values completed, and an accepted value
is that of the whole input (`TreeSpellsInput`). The property speaks of places instead of
splitting the text recursively: there are a first and a last place for each value and one
for the bracket of each open container, such that each child stands where its
container says (`Holds`: behind the bracket or a comma, in an object behind its key and
a colon), each value ends where its kind says (`Spelled`), and each open container waits
for just what is being parsed (`Continues`). The invariant (`SpellInv`, `Text`) is that such
places exist. Places once given never change (`ConsumedKept`), so each step has to
place one thing more: `TextComplete` a value without children, `TextPush` a bracket,
`TextKey` a key and its colon, `TextComma` and `TextLeave` the value returned, which is what
the innermost container was waiting for (`AdoptHolds`). That children come before their
container (`ShapeInv`) is needed so that the places of a node do not depend on later ones.
With `KeysUnique` and the bounds above this is one direction of `ImplementsDomain` for
every input: what is accepted is a text of the grammar within the limits, with no
repeated key, and its tree is the one returned.

`ErrorsAreJustified` is about the other inputs: whenever the parser reports an error, the
text up to the place it names is read (`ReadTo`, by the places above), and what stands
there is the reason (`Justified`). It is a faulty token where a value or a key is due;
or not among what the grammar allows next (`Awaited`), where `expect` reports it one
behind; or a key that one of the members before it has, while no key of any object was
repeated until then; or a bound: as many values as allowed and one more due, a container
at the greatest depth, or a value just read that its container has no room for. The
invariant adds `SeenInv`: the `seen` map has just the keys of the members, so that no
other key can be refused, and the first lexeme in a container was seen not to close
it. What it does not say is that the text has no other reading; that is left to
the checks of `GrammarErrorLocated`, `DuplicateLocated` and `BoundErrorJustified`.

The second part is `ParsedSerializable`: for every input and all limits, whatever
`Parse` accepts is accepted by `serializeInto` under the same options
(`ParsedIsSerializable`). That the two agree is not obvious from the code: one counts
a value when it begins to read it and compares a depth that starts at one with the
limit, the other counts a value when it calls on a node of a finished tree and
compares a level that starts at zero; each checks widths and keys in its own place.
The argument goes by the order of the nodes.

* The parser completes its nodes in postorder, and the subtree of a node is an
  interval that ends at it. With `lo` for the first node of that interval and `lv` for
  the number of containers around a node, `Grown` says so of the nodes completed so
  far and of the children of each open container; `NextShape` keeps it, with a lemma
  for each way the nodes and the stack grow (`LeafGrows`, `PushGrows`, `AdoptGrows`,
  `LeaveGrows`).
* So what is handed over is `Sound`: a tree of that shape, with as many nodes as were
  counted, no deeper than the limit, and each node `Valid` on its own, since its keys
  are different texts and its width was bounded (`ParsedIsSound`).
* While the serializer validates it, the values counted at a call on node `a` with `l`
  containers open are `lo[a] - 1 + l`, the nodes before its subtree and the
  containers around it, and `l` is `lv[a]` (`Validating`). The containers open are
  nodes after `a`, so both numbers are within the limits (`CallWithin`), and no
  rejecting action is possible at any point.

The second call needs the same of its own input, so the invariant follows the emission
too: every token that is emitted is the text of a lexeme (`LexedType`). The theorem
rests on `TextAssumption` of `Canonicalize`, which says what `parseString` and
`parseNumber` ensure of one string or number on its own: decoded strings are I-JSON
within the bound (`DecodesIJson` and `BoundJustified` are about that), different keys are
different texts, numbers are finite and spelled within `MaxNumberChars`, and what is
written of either is read as what it was written of (`WrittenReadsBack` and `RoundTrips`
are about that), unless it is a number whose canonical literal is longer than
`MaxNumberChars`, which the next call refuses (`TooLong`). `MCCanonicalize` evaluates it.

The third part is about the two calls together, for every input and all limits:
`OutputAccepted` (the output of the first call is refused by the second only for its size
in bytes, or at a number that became longer than the limit on numbers), `OutputKeepsMeaning` (what the second call reads corresponds to
what the first wrote, node by node: `Corresponds` relates the two trees without
recursion) and `Idempotence` (it writes the same text again). The second call has no
memory of the first, so the invariant must say what its input is, in a form that both
the walk that writes it and the parser that reads it keep step by step.

* `Written`: a record `W` gives each node of the tree the place in the text before and
  after it and the order its children are written in; the separators, names and brackets
  are where these places say. While the emission is under way, `Writing` says this of
  the nodes done, of the part of each open container up to the child called on
  (`Run`), and that the subtrees not yet reached are untouched (`Apart`). Each
  step has a lemma (`WriteLeaf`, `WriteOpen`, `WriteChild`, `WriteClose`).
* `Following`: while the text of a tree is read, a map `c` takes each node completed to
  the node of that tree which it was made of, and `g` the open containers to theirs
  (`Tracing`). The position is the place `W` gives, the keys and children so far are the
  first ones in the order they were written in, and so no error of the grammar and no
  duplicate is possible. No limit is exceeded either: `c` and `g` and the value begun are
  different nodes of a tree that was within the limits, and the containers open are
  around a node no deeper than its level. What is left is the size of the text, checked
  before all else (`Admitted`), and a number that is too long (`RejectLeaf`), which is
  where the error says. At the end `c` takes the root to the root (`ReadBack`).
* `Retraced`: when the second tree is written, its keys are already in order, and the
  comparison is a strict total order on the keys of an object (`SortKeysTotalOrder`
  of `SerializerProofs`), so the one order that the sort may leave is the
  order they are in (`OrderInPlace`). Hence what is written is, at every step, what the
  first text has up to the same place (`EmitRetraces`).

`RoundInv` puts these together with the invariant of the second part.

`SerializerProofs` has three parts. The first proves that `compareUTF16Units` is a
strict total order on sequences of units of any length (`CompareIsTotalOrder`); the
argument goes by the first place at which two sequences differ. The second lifts
it to texts: UTF-16 encoding is injective, because an encoding can be read from
its end (`EndDetermined`, `EncodeInjective`), and for two ASCII texts the shortcut
compares what their encodings are; so `compareSortKeys` orders the keys of any
object totally (`OrderTotal`). `OrderIsTotal` is about the keys that are valid
UTF-8, as all are when they are sorted: two different broken ones could be encoded
alike. The third is about the walks. `OnlyValidAccepted`: the serializer returns
bytes only for a tree whose every reachable value passed its own checks and whose
objects repeat no key. A value is valid when it lies in some set of nodes of the
tree that is closed under children and passes every check (`Valid`): a definition
without recursion, the greatest such set. `IInv` says that each child taken from
an open container is valid or is the one waited for (`Taken`), and that of an
object in progress the keys are those in `seen`, unrepeated (`Checked`).
`EmissionDetermined`: whatever is emitted has exactly one order of its members that
an unstable sort may leave. It exists because an order by rank does
(`Ordering`), and it is unique because the comparison is total and validation has
refused equal keys. The assumption is that trees are built of typed values,
children before their parents (`TreeAssumption`).

`JsonStringProofs` proves that the string reader is well typed (`TypeCorrect`), and
that for every literal and every bound the text it has decoded consists of scalar
values none of which is a noncharacter (`DecodesIJson`). The invariant relates
positions to the input, since a copied character is one of the input and an
escaped one is built from hex digits; the arithmetic of surrogate pairs is in
lemmas of their own.

It then compares the reader with the grammar, for every input and every bound.
`AcceptsExactly`: a string is accepted exactly when it begins with a literal that is
free of noncharacters and fits the bound; there is only one, its text is what was
decoded and its end is where the parser stands. `ErrorsAreLocated`: an error other than the
bound stands where the literal first goes wrong, and is the fault that stands there.
`BoundIsJustified`: the bound is reported for a sound beginning all of whose readings
are too long. `WrittenIsRead`: what `serializeString` writes of a text is a literal
that reads as that text and as nothing else. The grammar allows any cut of the input
into elements; the invariant (`RInv`) is that up to where the parser stands there is
one cut and one text, the one decoded (`Cut`). Each turn of the loop adds the only
element that can follow (`CutStep`), where `EscapeReads` compares the code's look
ahead for a low surrogate with the grammar's pairs, and after an error no
cut can cross the fault (`Beyond`), so that no literal can end behind it
(`LiteralsBeyond`). The fast path returns without a look at the bound
on bytes other than the position, and its text is no longer than what it is
copied from. For the text written, each code point is one element
of known length (`StandsAt`), so its cuts are counted off one by one (`WrittenReads`).
The texts of the grammar, the bytes of a text and the concatenation of the escapes
are recursive functions. That such a function exists, and what it is at each argument,
is proved from the least argument at which it would fail (`LeastOf`, from the
well-foundedness of `<`): the library's induction theorem takes an operator, which the
provers do not instantiate, but a set of counterexamples does the same.
The assumption is that the input is text and the bound positive (`InputAssumption`).

`NumberProofs` begins with the scanner. It is well typed, and for every input and
limit it stops within three characters of the limit (`StopsNearLimit`, which states
`FailsFast`), although a leading zero, the point, the exponent mark and its sign are
consumed unchecked: the invariant bounds the position in every control state by
what may have been consumed since the last check (`PlaceInv`). `LongestTaken` states
`TakesLongest` for every input, limit and conversion to a float: what is taken is
the longest prefix that begins a number of the grammar, and the verdict is that of the
text, also when it is malformed and too long at once: a digit past the limit is found
before the fault (`IsCut`), any other character past it only after the grammar. The grammar splits a token
into parts at two positions, the scan never looks back; so the invariant (`Scanned`,
`LongestInv`) says that every split of a continuation of what was read has its
parts end where the scan ended them (`IntegerDone`, `MantissaDone`). A
text from which no number can be reached is a `DeadEnd`. The
assumption is that the conversion finds a written zero finite
(`ParseFloatAssumption`).

The second half of `NumberProofs` is about every float of every format.
`IntervalKept` says that the integers between which digits are trimmed are positive
and in order, `1 <= dl <= dc <= du`, although the scaling drops bits; `DigitsEndNonzero` says that the digits
the loop leaves never end in zero, so that `formatUint`, which would drop one and
`ryuShortest`, which would then count it twice, cannot disagree. The invariant
(`Interval`) relates the bounds at each stage. Before the scaling they differ by at
least one (`BoundsOrdered`). After it they differ by at least half of the bits a
word has to spare, because a power of the table is at least half of a word
(`UpperApart`, `ScaledApart`) and cutting a product to a word keeps the order
(`QuotientsApart`). That is never less than one unit above the fraction, so
settling on integers cannot make them cross. The
argument for the digits is that a rounded center ending in zero lies in the
interval, so a further digit could have been dropped. The assumptions are those
of `FloatScaling`, which hold for doubles: the widths fit a word
(`WidthAssumption`); powers of two multiply, which is stated because the provers
take `^` for an unknown function (`PowerAssumption`); the words of the table are
normalized (`TableAssumption`); every exponent has its power in the table and
leaves a fraction of bits (`ScaleAssumption`: for doubles the powers are -291 to
324 and the fraction has 5 to 8 bits). TLC evaluates them for the narrow format.

`ReplayMatrixProofs` proves, for every matrix, profile and behaviour of the
commands and every moment of the deadline, that `RunMatrix` is well typed
(`TypeCorrect`), that each replay is followed by its own cleanup call
(`CleanupAlwaysFollows`), that success means all required replays succeeded and no
others were run (`RanEverything`), and that replays start on clean nodes
(`ReplaysStartCold`), and that evidence is returned only when it holds exactly one
record of every required pair, each passed and with the aggregate digests
(`SuccessComplete`). The invariant says which replays have succeeded at each
step of the loop body: all the required ones before the current one in the
order of the loops, and the current one from its success on (`RanInv`). `LoopStep`
proves that going to the next replay, or the first of the next node, adds just
the current one to that past, and that at the end nothing is missing; it rests on
the sorted nodes having a least one (`FirstIsLeast`, by well-foundedness of `<`).
`SuccessComplete` counts: the validation finds some record for every required pair
and does not look for a second one, so it is the number of records, one loaded per
replay (`CountInv`), that makes labels and pairs match one to one: a function onto a
finite set of the same size is one to one (`LabelsFit`). The sort before the
validation may be any that keeps the records (`SortKeeps`). The error that
`RunMatrix` keeps while it calls the cleanup is in the invariant
because a replay that failed is not in the past. The assumptions are
`DecodedAssumption` (the decoder's types) and `PolicyAssumption` (the code's own
validation of matrix and profile). `Required` derives from them what the loops
rely on: the required nodes are some, each is a node of the matrix, and each has
at least one replay.

`CanonCliProofs` proves all safety properties of the command, for every command
line, stream, judgement, limit and every write that fails, possibly after a part. The
invariant says of each step what was written before it: nothing until there is a
verdict (`QuietInv`), then the output as far as it has come (`EmitInv`: what was
delivered and what is left make up the job), and what a failure's class says of the
reads and writes before it (`FailureInv`: the internal class only after a failed
write or a broken stream). `OversizeIsABound` needs in addition that nothing is
judged which is longer than the limit or broke off (`ReadInv`). The assumption is that
judgement and canonical form are functions of the text, and that a stream has a size
(`StreamAssumption`: up to two units beyond the limit, since of a longer one nothing
more is read).

`OfflineSuiteProofs` proves both properties of the harness for any contents and any
number of files that others replace at any moment (the run allows one). The
invariant has three parts: what each step of `runSuite` can rely on in its directory
(`CurrentInv`: the bundle holds the binary built before, the evidence is of that
bundle, and so on, each as far as the file was not replaced); that what a running
command has read is what is there (`CommandInv`), which carries the facts over the
moments between its reads; and that passed directories keep what they had when they
passed (`PassedInv`). `EditEffect` shows that a replaced file breaks only the
relations that name it. The directory of the run in progress is never one of the
passed ones (`OrderInv`), so that a second run cannot spoil the first one's files. Of the
commit in the evidence the theorem says what it is, and no more: the one that the
environment names, or that of the tree the binary was built from (`Known`, `Named`). The
assumption is that there are two different directories, holding files of the right
kind.

`OfflineWorkerProofs` proves the three properties of the bundle, for any
sources, any replacement of the archive and any tested binary. `OnlyIntactRun`: a
command is started only on an archive read to its end and, if its manifest is the
one `CreateBundle` wrote, only on the very files that `CreateBundle` read. When two
vectors share a name the manifest has one digest for both; what then excludes a
substitute is the digest of the whole set, which covers every pair of path and
digest (`VerifiedIsPacked`). The invariant (`VerifiedInv`) says that whatever runs has
been verified and that the archive is not touched once the worker has started.
`CreatedAccepted`: any set of files with different names makes a bundle that passes
`VerifyBundle`, the extraction and all checks of the worker, in whichever order the
two sorts leave the files. An order by name exists because the rank of a name in its
set is one (`SortedByName`); the digest of the set does not depend on the
order (`SameSet`); and since no path occurs twice, each file is extracted as it was
packed (`BundleTree`). `EvidenceTrue`: evidence that is written tells of every case of
the packed files, each once, in the order of the files and lines, and says of it what
the vector expects, whatever the binary printed and returned. The property speaks of
the places of the cases, a file and a line each, instead of one concatenated list, so
that no recursion is needed. The invariant (`EvidenceInv`) says while the vectors run
that the digests are those of the places up to the line that was read (`Upto`,
`UptoNext`, `UptoEnds`, `SpellsPlace`). It needs `VerifiedInv`, since otherwise the
lines read would not be the lines packed, and that two sorted forms of one list are
equal also when names repeat (`SortedAlike`, by counting the places below one where
they differ): the manifest is sorted when it is made and again before it is run.
The assumptions are that the vectors are a sequence of files with names
(`SourcesAssumption`), that a vector file is a sequence of lines and that no failure
class is called `OK` (`WorkerAssumption`); SHA-256 is injective by construction.

Not proved, and left to TLC: liveness (that the parser, the serializer, the
command and the matrix end); the refinements (the abstract specifications use
recursive definitions, or a search by `CHOOSE` over decimals); the places of errors of
the parser (`GrammarErrorLocated`, `BoundErrorJustified`, `DuplicateLocated`), which
compare with recursive operators of `JsonDomain` that the provers cannot use, as far as
they say more than `ErrorsAreJustified`;
and that the text of a float reads back (`RoundTrips`), which needs the shortest
decimal.

## 7. What is hard to test, and what is left out

`hazards` in PROJECT.json has each at its line. In short: the order of checks
when an input has several faults; counters and limits at exactly their bound, in
two implementations; the path a string takes; an unstable sort and a comparison
with two branches; streams and writes that fail in the middle; a deadline at
any moment, with a cleanup that runs under the same deadline; records made by
other machines; archives that end early or are replaced; files read twice; steps
that fail and leave the files of earlier ones.

Observations that are no disagreement with a document, and which the models show:

* `run` takes the matrix and profile at the paths it is given, and does not
  compare them with the digests in the bundle's manifest; `prepare`, `run` and
  `verify-evidence` are tied together only by the harness that gives them the
  same paths. `PassedArtifactsAgree` holds because a changed matrix makes
  `verify-evidence` fail, except for a change that is undone or comes after it.
* The commit in the evidence need not be the source of the binary that was tested.
  `JCS_OFFLINE_SOURCE_GIT_COMMIT` is taken as it is, and git's commit says nothing of
  uncommitted changes; no step compares it with the build, which carries no revision
  of its own (`-buildvcs=false`).
* `cross-arch` compares aggregates only. A checkout between the two runs gives a
  PASS about two commits.
* `1e20` is written in 21 digits. So an output can be longer than `MaxInputSize`, and a
  number in it longer than `MaxNumberChars`, and canonicalizing it again with the same
  options is then refused with `BOUND_EXCEEDED`; for anything else it never is
  (`OutputIsAccepted`).
* A replay that fails has its cleanup run only if time is left: after the
  deadline the command is not started.
* A profile with `hard_release_gate` false is accepted by the loader and all
  replays are run, before the validation at the end refuses their evidence.
* The type invariants of the parser and of the matrix are theorems and no runs.

Not modelled: `strconv.ParseFloat`, which is external; the entries of the full
table of powers of ten (696 of two 64-bit words, beyond TLC's integers); the JSON
of matrix and profile, whose decoder is external; the syntax of hashes, tags and
times; the probes of the preflight; the standalone `audit-summary`, `report` and
`inspect-matrix`, which print or rewrite one file; `jcs-gate`, which keeps no
state; and the shell scripts, which are the environment of `ReplayMatrix`. Of
these `replay-libvirt.sh` is the one whose order of steps matters: it is what makes
a node cold, since the matrices in the repository have no cleanup commands.
