-------------------------------- MODULE Bundle --------------------------------
(***************************************************************************)
(* The offline bundle of replay/bundle.go: CreateBundle packs the binary,  *)
(* the worker, the matrix, the profile and the vector files into one       *)
(* archive with a manifest of their digests, and VerifyBundle reads that   *)
(* manifest back.                                                          *)
(*                                                                         *)
(* The content of a file is a value; SHA-256 is taken to be injective.     *)
(* File names are numbers ordered as the names are, and a path is the      *)
(* sequence of its components.                                             *)
(***************************************************************************)
EXTENDS Naturals, Sequences, FiniteSets, SequencesExt

CONSTANT
  Sources    \* what CreateBundle may find: see SourcesAssumption

Core == {"binary", "worker", "matrix", "profile"}

\* core: the content of each core file; vectors: the matched files in the order
\* of their paths, a name (the base name) and a content each.  Files in
\* different directories may share a base name.
ASSUME SourcesAssumption ==
  \A s \in Sources :
    /\ DOMAIN s = {"core", "vectors"}
    /\ DOMAIN s.core = Core
    /\ s.vectors \in Seq(Range(s.vectors))
    /\ \A k \in DOMAIN s.vectors : s.vectors[k].name \in Nat

VARIABLES
  bpc,       \* CreateBundle: "start", "open", "write", "created", "failed"
  sources,   \* the files CreateBundle reads
  entries,   \* the entries of the archive in order, once they are decided
  written,   \* how many of them have been written
  archive    \* the file at the bundle path

bundleVars == <<bpc, sources, entries, written, archive>>

---------------------------------------------------------------------------
(* Manifest and entries *)

sha256Hex(data) == [sha256 |-> data]

ManifestPath == <<"manifest.json">>

CorePath(c) ==
  <<"bundle", CASE c = "binary"  -> "jcs-canon"
                [] c = "worker"  -> "jcs-offline-worker"
                [] c = "matrix"  -> "matrix.yaml"
                [] c = "profile" -> "profile.yaml">>

VectorPath(name) == <<"bundle", "vectors", name>>

\* Orders of the vectors that a sort by name may leave them in.
ByName(vectors) ==
  {q \in SetToSeqs(DOMAIN vectors) :
     \A i, j \in DOMAIN vectors : i < j => vectors[q[i]].name <= vectors[q[j]].name}

VectorSHA256_ByPosition(vectors) ==
  LET order == CHOOSE q \in ByName(vectors) : TRUE
  IN  [p \in {VectorPath(vectors[k].name) : k \in DOMAIN vectors} |->
         LET Named == {k \in DOMAIN vectors : VectorPath(vectors[order[k]].name) = p}
         IN  sha256Hex(vectors[CHOOSE k \in Named : \A j \in Named : j <= k].data)]

\* Of two files with one base name the map keeps the digest of the later one.
VectorSHA256(vectors) ==
  [p \in {VectorPath(vectors[k].name) : k \in DOMAIN vectors} |->
     LET Named == {k \in DOMAIN vectors : VectorPath(vectors[k].name) = p}
     IN  sha256Hex(vectors[CHOOSE k \in Named : \A j \in Named : j <= k].data)]

\* The set digest covers a sorted list of path and digest, here a bag of pairs:
\* how often each pair occurs.
VectorSetSHA256(pairs) ==
  sha256Hex([x \in Range(pairs) |-> Cardinality({k \in DOMAIN pairs : pairs[k] = x})])

\* The vector files are listed in the order of their names: whichever of the
\* orders it is, the list is the same.
ManifestOf(s) ==
  [path |-> [c \in Core |-> CorePath(c)],
   sha |-> [c \in Core |-> sha256Hex(s.core[c])],
   vectorFiles |-> LET order == CHOOSE q \in ByName(s.vectors) : TRUE
                   IN  [k \in DOMAIN s.vectors |-> VectorPath(s.vectors[order[k]].name)],
   vectorSha |-> VectorSHA256(s.vectors),
   vectorSet |-> VectorSetSHA256([k \in DOMAIN s.vectors |->
                   <<VectorPath(s.vectors[k].name), sha256Hex(s.vectors[k].data)>>])]

Entry(path, body) == [path |-> path, body |-> body]

\* The entries in the order of their paths: core files, vectors, manifest.  The
\* sort is not stable, so vectors of one base name come in either order.
Arrangements(s) ==
  LET n == Len(s.vectors) IN
  {[k \in 1 .. 5 + n |->
      IF k <= 4 THEN LET c == <<"binary", "worker", "matrix", "profile">>[k]
                     IN  Entry(CorePath(c), s.core[c])
      ELSE IF k <= 4 + n THEN LET v == s.vectors[order[k - 4]]
                              IN  Entry(VectorPath(v.name), v.data)
      ELSE Entry(ManifestPath, ManifestOf(s))] :
     order \in ByName(s.vectors)}

---------------------------------------------------------------------------
(* CreateBundle and writeBundleTarGz *)

\* A missing option, a file that cannot be read, or no vector file.
RefuseInputs ==
  /\ bpc = "start"
  /\ bpc' = "failed"
  /\ UNCHANGED <<sources, entries, written, archive>>

ReadInputs ==
  /\ bpc = "start"
  /\ sources.vectors # <<>>
  /\ entries' \in Arrangements(sources)
  /\ bpc' = "open"
  /\ UNCHANGED <<sources, written, archive>>

\* No file at the bundle path.
NoArchive == [missing |-> TRUE]

\* An archive ends where its last flushed bytes do; whole: with the two zero
\* blocks that end a tar stream, after which no reader looks for more.
Cut(k) == [entries |-> SubSeq(entries, 1, k), whole |-> FALSE]

\* os.Create: on failure an earlier archive stays, on success it is emptied.
OpenArchive ==
  /\ bpc = "open"
  /\ \/ /\ archive' = Cut(0)
        /\ bpc' = "write"
     \/ /\ bpc' = "failed"
        /\ UNCHANGED archive
  /\ UNCHANGED <<sources, entries, written>>

\* Written bytes sit in the compressor; the deferred closes flush a part of them
\* when a later write fails.
WriteEntry ==
  /\ bpc = "write"
  /\ written < Len(entries)
  /\ \/ /\ written' = written + 1
        /\ UNCHANGED <<bpc, archive>>
     \/ /\ \E k \in 0 .. written : archive' = Cut(k)
        /\ bpc' = "failed"
        /\ UNCHANGED written
  /\ UNCHANGED <<sources, entries>>

\* The deferred closes of the archive drop their errors: CreateBundle returns
\* the manifest also when the last bytes did not reach the file.
CloseArchive ==
  /\ bpc = "write"
  /\ written = Len(entries)
  /\ archive' \in {[entries |-> entries, whole |-> TRUE]} \cup {Cut(k) : k \in 0 .. written}
  /\ bpc' = "created"
  /\ UNCHANGED <<sources, entries, written>>

BundleInit ==
  /\ bpc = "start"
  /\ sources \in Sources
  /\ entries = <<>>
  /\ written = 0
  /\ archive = NoArchive

CreateBundle == RefuseInputs \/ ReadInputs \/ OpenArchive \/ WriteEntry \/ CloseArchive

---------------------------------------------------------------------------
(* VerifyBundle, of a file that does not change while it is read *)

Manifests(a) == {k \in DOMAIN a.entries : a.entries[k].path = ManifestPath}

\* The first manifest entry; what follows it in the archive is not looked at.
HasManifest(a) == a # NoArchive /\ Manifests(a) # {}

ReadBundleManifest(a) ==
  a.entries[CHOOSE k \in Manifests(a) : \A j \in Manifests(a) : k <= j].body

NoDigest == [missing |-> TRUE]

DigestOf(m, p) == IF p \in DOMAIN m.vectorSha THEN m.vectorSha[p] ELSE NoDigest

VerifyBundle(a) ==
  /\ HasManifest(a)
  /\ LET m == ReadBundleManifest(a) IN
       /\ \A c \in Core : m.sha[c] # NoDigest
       /\ m.vectorFiles # <<>>
       /\ \A k \in DOMAIN m.vectorFiles : DigestOf(m, m.vectorFiles[k]) # NoDigest

===============================================================================
