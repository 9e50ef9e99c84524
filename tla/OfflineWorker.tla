------------------------------ MODULE OfflineWorker ------------------------------
(***************************************************************************)
(* cmd/jcs-offline-worker/main.go on the archive that module Bundle makes: *)
(* extract it, verify every digest of its manifest, run the vectors        *)
(* through the packed binary, and write the evidence of one replay.        *)
(*                                                                         *)
(* Between CreateBundle and the worker the archive may be cut, or replaced *)
(* by another one (Replacements).  The binary is environment: it may do    *)
(* anything, and what it does not finish in 20 seconds is killed.          *)
(***************************************************************************)
EXTENDS Bundle, Integers

CONSTANTS
  Replacements(_), \* the archives that may take the place of a given one
  Outputs,         \* what a command may print to standard output
  Diagnostics,     \* what it may print to standard error: the set of the
                   \*   class names that occur in the text
  ExitCodes,       \* the codes it may end with
  Classes,         \* the names extractFailureClass looks for, in its order
  None             \* an expectation that is absent, or no evidence

VARIABLES
  wpc,       \* "parse", "extract", "verify", "vectors", "independence",
             \*   "evidence", "report", "exited"
  tree,      \* the extracted files: path -> content
  manifest,  \* the decoded manifest of the tree
  file,      \* the vector file being run, as an index of SortedFiles
  line,      \* the last line of it that was read
  ran,       \* the lines that were run, in order
  digests,   \* the records of the four accumulators
  evidence,  \* the evidence file, None before it is written
  wexit      \* the worker's exit code, None while it runs

\* A vector file is a sequence of lines; no class is named as a success is.
ASSUME WorkerAssumption ==
  /\ \A s \in Sources : \A k \in DOMAIN s.vectors :
       s.vectors[k].data \in Seq(Range(s.vectors[k].data))
  /\ Classes \in Seq(Range(Classes))
  /\ "OK" \notin Range(Classes)

workerVars == <<wpc, tree, manifest, file, line, ran, digests, evidence, wexit>>
vars == <<bundleVars, workerVars>>

---------------------------------------------------------------------------
(* Extraction and verification *)

UnsafePath(p) == Head(p) \in {"..", "/"}

\* Reads up to the blocks that end the tar stream, and not the trailer of the
\* compression after them; a later entry overwrites an earlier one.
Extractable(a) ==
  /\ a # NoArchive
  /\ a.whole
  /\ \A k \in DOMAIN a.entries : ~UnsafePath(a.entries[k].path)

ExtractedTree(a) ==
  [p \in {a.entries[k].path : k \in DOMAIN a.entries} |->
     LET At == {k \in DOMAIN a.entries : a.entries[k].path = p}
     IN  a.entries[CHOOSE k \in At : \A j \in At : j <= k].body]

Matches(t, p, want) == p \in DOMAIN t /\ sha256Hex(t[p]) = want

CoreOrder == <<"binary", "worker", "matrix", "profile">>

\* A map literal from path to digest: of core files with one path the last counts.
verifyCoreChecksums(t, m) ==
  \A i \in 1 .. 4 :
    (\A j \in i + 1 .. 4 : m.path[CoreOrder[j]] # m.path[CoreOrder[i]]) =>
      /\ m.sha[CoreOrder[i]] # NoDigest
      /\ Matches(t, m.path[CoreOrder[i]], m.sha[CoreOrder[i]])

verifyVectorChecksums(t, m) ==
  \A k \in DOMAIN m.vectorFiles :
    /\ DigestOf(m, m.vectorFiles[k]) # NoDigest
    /\ Matches(t, m.vectorFiles[k], DigestOf(m, m.vectorFiles[k]))

verifyVectorSetChecksum(m) ==
  m.vectorSet = VectorSetSHA256([k \in DOMAIN m.vectorFiles |->
                                   <<m.vectorFiles[k], DigestOf(m, m.vectorFiles[k])>>])

verifyExtractedBundle_NoSet(t, m) ==
  /\ verifyCoreChecksums(t, m)
  /\ verifyVectorChecksums(t, m)

verifyExtractedBundle(t, m) ==
  /\ verifyCoreChecksums(t, m)
  /\ verifyVectorChecksums(t, m)
  /\ verifyVectorSetChecksum(m)

---------------------------------------------------------------------------
(* One vector: a line is blank or a comment, garbled (not a vector, without *)
(* mode and arguments, or too long), or a case with its expectations.       *)

CLIResults == [exit : ExitCodes, out : Outputs, err : Diagnostics]

\* A command killed at its deadline reports -1 and whatever it printed.
KilledResults == [exit : {-1}, out : Outputs, err : Diagnostics]

assertVectorResult_StdoutOrExit(v, res) ==
  /\ IF v.wantStdout # None THEN res.out = v.wantStdout ELSE res.exit = v.wantExit
  /\ v.wantStderr # None => res.err = v.wantStderr
  /\ v.wantStderrContains # None => v.wantStderrContains \subseteq res.err

assertVectorResult(v, res) ==
  /\ res.exit = v.wantExit
  /\ v.wantStdout # None => res.out = v.wantStdout
  /\ v.wantStderr # None => res.err = v.wantStderr
  /\ v.wantStderrContains # None => v.wantStderrContains \subseteq res.err

extractFailureClass(err) ==
  LET Found == {k \in DOMAIN Classes : Classes[k] \in err}
  IN  IF Found = {} THEN "UNKNOWN"
      ELSE Classes[CHOOSE k \in Found : \A j \in Found : k <= j]

classToken(res) == IF res.exit = 0 THEN "OK" ELSE extractFailureClass(res.err)

recordDigests(v, res, d) ==
  [exit      |-> Append(d.exit, <<v.id, res.exit>>),
   canonical |-> IF v.mode = "canonicalize" THEN Append(d.canonical, <<v.id, res.out>>)
                 ELSE d.canonical,
   verify    |-> IF v.mode = "verify" THEN Append(d.verify, <<v.id, res>>) ELSE d.verify,
   class     |-> Append(d.class, <<v.id, classToken(res)>>)]

PathBefore(p, q) == p[3] < q[3]

\* The orders that sort the paths; a list of paths has one sorted form, however
\* often a path occurs in it.
PathOrders(files) ==
  {q \in SetToSeqs(DOMAIN files) :
     \A i, j \in DOMAIN files : i < j => ~PathBefore(files[q[j]], files[q[i]])}

SortedFiles ==
  LET files == manifest.vectorFiles
      order == CHOOSE q \in PathOrders(files) : TRUE
  IN  [k \in DOMAIN files |-> files[order[k]]]

Lines == tree[SortedFiles[file]]

---------------------------------------------------------------------------
(* The run of the worker; every error ends it with exit code 2 *)

Exit(code) ==
  /\ wpc' = "exited"
  /\ wexit' = code

Fail == Exit(2) /\ UNCHANGED <<tree, manifest, file, line, ran, digests, evidence>>

Step(from, to) == wpc = from /\ wpc' = to /\ UNCHANGED wexit

\* Missing or malformed flags, or no temporary directory.
ParseArgs ==
  /\ wpc = "parse"
  /\ bpc \in {"created", "failed"}
  /\ \/ Fail
     \/ Step("parse", "extract") /\ UNCHANGED <<tree, manifest, file, line, ran, digests, evidence>>

\* The manifest is the one in the tree, the last of the archive.  Writing the
\* tree may fail too.
ExtractBundle ==
  /\ wpc = "extract"
  /\ \/ Fail
     \/ /\ Extractable(archive)
        /\ HasManifest(archive)
        /\ tree' = ExtractedTree(archive)
        /\ manifest' = tree'[ManifestPath]
        /\ Step("extract", "verify")
        /\ UNCHANGED <<file, line, ran, digests, evidence>>

\* With no vector file there is no case, which is an error.
Verify ==
  /\ wpc = "verify"
  /\ IF verifyExtractedBundle(tree, manifest) /\ manifest.vectorFiles # <<>>
     THEN /\ Step("verify", "vectors")
          /\ UNCHANGED <<tree, manifest, file, line, ran, digests, evidence>>
     ELSE Fail

\* A command that cannot be started, a mismatch and a bad line end the run.
RunLine ==
  /\ wpc = "vectors"
  /\ line < Len(Lines)
  /\ LET v == Lines[line + 1] IN
       \/ /\ v.kind = "skip"
          /\ line' = line + 1
          /\ UNCHANGED <<wpc, wexit, tree, manifest, file, ran, digests, evidence>>
       \/ /\ v.kind # "skip"
          /\ Fail
       \/ /\ v.kind = "case"
          /\ \E res \in CLIResults \cup KilledResults :
               /\ assertVectorResult(v, res)
               /\ digests' = recordDigests(v, res, digests)
          /\ ran' = Append(ran, v)
          /\ line' = line + 1
          /\ UNCHANGED <<wpc, wexit, tree, manifest, file, evidence>>

EndOfFile ==
  /\ wpc = "vectors"
  /\ line = Len(Lines)
  /\ \/ /\ file < Len(SortedFiles)
        /\ file' = file + 1
        /\ line' = 0
        /\ UNCHANGED <<wpc, wexit, tree, manifest, ran, digests, evidence>>
     \/ /\ file = Len(SortedFiles)
        /\ IF ran = <<>> THEN Fail
           ELSE /\ Step("vectors", "independence")
                /\ UNCHANGED <<tree, manifest, file, line, ran, digests, evidence>>

\* One input twice, under two environments: any drift ends the run, and so does
\* a command that cannot be started; what the two agree on does not matter.
CheckEnvironmentIndependence ==
  /\ wpc = "independence"
  /\ \/ Fail
     \/ \E base, variant \in CLIResults \cup KilledResults :
          /\ base = variant
          /\ Step("independence", "evidence")
          /\ UNCHANGED <<tree, manifest, file, line, ran, digests, evidence>>

\* A failed write leaves nothing that can be decoded.
WriteEvidence ==
  /\ wpc = "evidence"
  /\ \/ Fail
     \/ /\ evidence' = [passed |-> TRUE, cases |-> Len(ran), digest |-> digests]
        /\ Step("evidence", "report")
        /\ UNCHANGED <<tree, manifest, file, line, ran, digests>>

\* The line on standard output may fail when the evidence is already there.
Report ==
  /\ wpc = "report"
  /\ Fail \/ (Exit(0) /\ UNCHANGED <<tree, manifest, file, line, ran, digests, evidence>>)

Worker ==
  \/ ParseArgs
  \/ ExtractBundle
  \/ Verify
  \/ RunLine
  \/ EndOfFile
  \/ CheckEnvironmentIndependence
  \/ WriteEvidence
  \/ Report

WorkerInit ==
  /\ wpc = "parse"
  /\ tree = <<>>
  /\ manifest = None
  /\ file = 1
  /\ line = 0
  /\ ran = <<>>
  /\ digests = [exit |-> <<>>, canonical |-> <<>>, verify |-> <<>>, class |-> <<>>]
  /\ evidence = None
  /\ wexit = None

---------------------------------------------------------------------------
(* The bundle on its way from CreateBundle to the worker *)

Whole == [entries |-> entries, whole |-> TRUE]

\* Another archive, or a damaged one, at the bundle path.
Replace ==
  /\ bpc = "created"
  /\ wpc = "parse"
  /\ archive = Whole
  /\ archive' \in Replacements(archive)
  /\ UNCHANGED <<bpc, sources, entries, written, workerVars>>

Done == wpc = "exited" /\ UNCHANGED vars

Init == BundleInit /\ WorkerInit

Next ==
  \/ CreateBundle /\ UNCHANGED workerVars
  \/ Worker /\ UNCHANGED bundleVars
  \/ Replace
  \/ Done

Spec == Init /\ [][Next]_vars

---------------------------------------------------------------------------
(* Properties *)

DistinctNames(s) ==
  \A j, k \in DOMAIN s.vectors : s.vectors[j].name = s.vectors[k].name => j = k

\* A bundle that CreateBundle reports and that reached the disk is accepted by
\* VerifyBundle and by every check of the worker, whatever the order of the
\* matched files, if no two of them have one base name.
CreatedIsAccepted ==
  bpc = "created" /\ archive = Whole /\ DistinctNames(sources) =>
    /\ VerifyBundle(archive)
    /\ Extractable(archive)
    /\ verifyExtractedBundle(ExtractedTree(archive), ReadBundleManifest(archive))

\* A command is started only on an archive read to its end; and under the
\* manifest that CreateBundle wrote, only on the very files CreateBundle read,
\* all of them, also when the archive was replaced or files share a name.
RunsOnlyIntact ==
  wpc \in {"vectors", "independence", "evidence", "report"} =>
    /\ archive.whole
    /\ manifest = ManifestOf(sources) =>
         /\ \A c \in Core : tree[CorePath(c)] = sources.core[c]
         /\ \A k \in DOMAIN sources.vectors :
              tree[VectorPath(sources.vectors[k].name)] = sources.vectors[k].data

\* Places of lines: the number of the file and that of the line in it.
Earlier(p, r) == p[1] < r[1] \/ (p[1] = r[1] /\ p[2] < r[2])

\* The places of the cases when the vector files are read in the order q.
CasePlaces(vectors, q) ==
  UNION {{<<f, l>> : l \in {k \in DOMAIN vectors[q[f]].data :
                              vectors[q[f]].data[k].kind = "case"}} :
           f \in DOMAIN vectors}

\* The records of a digest are those of these cases, whatever the binary did.
Spells(digest, cases) ==
  /\ digest.exit = [k \in DOMAIN cases |-> <<cases[k].id, cases[k].wantExit>>]
  /\ DOMAIN digest.class = DOMAIN cases
  /\ \A k \in DOMAIN cases :
       /\ digest.class[k][1] = cases[k].id
       /\ digest.class[k][2] = "OK" <=> cases[k].wantExit = 0
       /\ cases[k].mode = "canonicalize" /\ cases[k].wantStdout # None =>
            <<cases[k].id, cases[k].wantStdout>> \in Range(digest.canonical)

\* n cases were run: those at the places P, each once, in the order of the places.
SpellsPlaces(digest, n, P, vectors, q) ==
  \E at \in [1 .. n -> P] :
    /\ Range(at) = P
    /\ \A j, k \in 1 .. n : j < k => Earlier(at[j], at[k])
    /\ Spells(digest, [k \in 1 .. n |-> vectors[q[at[k][1]]].data[at[k][2]]])

\* Written evidence speaks of every case of the vectors that were packed, in the
\* order of the files, and its exit code digest is the one the vectors spell,
\* whatever the binary did and however slow it was: so two workers of one bundle
\* cannot disagree in it.  Expected output is in the canonical digest, and a
\* case has a failure class exactly if it expects to fail.
EvidenceSpellsVectors ==
  evidence # None /\ manifest = ManifestOf(sources) =>
    \A q \in ByName(sources.vectors) :
      SpellsPlaces(evidence.digest, evidence.cases, CasePlaces(sources.vectors, q),
                   sources.vectors, q)

===============================================================================
