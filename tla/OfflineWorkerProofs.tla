--------------------------- MODULE OfflineWorkerProofs ---------------------------
(***************************************************************************)
(* For any sources, any replacement of the archive and any behaviour of    *)
(* the packed binary: the worker runs commands only on the files that      *)
(* CreateBundle read, as far as the manifest is CreateBundle's; and a      *)
(* bundle that CreateBundle reports and that reached the disk passes every *)
(* check of VerifyBundle and of the worker; and the evidence that a worker *)
(* writes tells of every case of the packed vectors, each as it expects.   *)
(*                                                                         *)
(* The last rests on the places of the cases in the files: the digests are *)
(* those of the cases at the places read so far, which go on line by line, *)
(* and the files are read in the one order that sorts their paths.         *)
(***************************************************************************)
EXTENDS OfflineWorker, SequenceTheorems, FunctionTheorems, FiniteSetTheorems,
        WellFoundedInduction, TLAPS

\* A digest tells its content, and is there.
LEMMA DigestTells ==
  /\ \A a, b : sha256Hex(a) = sha256Hex(b) => a = b
  /\ \A a : sha256Hex(a) # NoDigest
<1>1. \A a, b : sha256Hex(a) = sha256Hex(b) => a = b
  <2> SUFFICES ASSUME NEW a, NEW b, sha256Hex(a) = sha256Hex(b) PROVE a = b
    OBVIOUS
  <2>1. sha256Hex(a).sha256 = a /\ sha256Hex(b).sha256 = b
    BY DEF sha256Hex
  <2> QED
    BY <2>1
<1>2. ASSUME NEW a PROVE sha256Hex(a) # NoDigest
  <2>1. "sha256" \in DOMAIN sha256Hex(a)
    BY DEF sha256Hex
  <2>2. "sha256" \notin DOMAIN NoDigest
    BY DEF NoDigest
  <2> QED
    BY <2>1, <2>2
<1> QED
  BY <1>1, <1>2

\* The core files have different paths.
LEMMA CorePaths ==
  /\ CorePath("binary") = <<"bundle", "jcs-canon">>
  /\ CorePath("worker") = <<"bundle", "jcs-offline-worker">>
  /\ CorePath("matrix") = <<"bundle", "matrix.yaml">>
  /\ CorePath("profile") = <<"bundle", "profile.yaml">>
  /\ \A c, b \in Core : CorePath(c) = CorePath(b) => c = b
  BY DEF CorePath, Core

\* The paths of the vectors tell their names, and are not those of other files.
LEMMA VectorPaths ==
  /\ \A a, b : VectorPath(a) = VectorPath(b) => a = b
  /\ \A a : \A c \in Core : VectorPath(a) # CorePath(c)
  /\ \A a : VectorPath(a) # ManifestPath
  /\ \A c \in Core : CorePath(c) # ManifestPath
<1>1. \A a, b : VectorPath(a) = VectorPath(b) => a = b
  <2> SUFFICES ASSUME NEW a, NEW b, VectorPath(a) = VectorPath(b) PROVE a = b
    OBVIOUS
  <2>1. VectorPath(a)[3] = a /\ VectorPath(b)[3] = b
    BY DEF VectorPath
  <2> QED
    BY <2>1
<1>2. ASSUME NEW a PROVE Len(VectorPath(a)) = 3
  BY DEF VectorPath
<1>3. Len(ManifestPath) = 1
  BY DEF ManifestPath
<1>4. \A c \in Core : Len(CorePath(c)) = 2
  BY DEF CorePath
<1> QED
  BY <1>1, <1>2, <1>3, <1>4

--------------------------------------------------------------------------------
(* What the worker has checked when it starts a command. *)

\* The files of a tree are the sources, if their digests are those of the
\* manifest of the sources: of a vector file whose name another one has too, by
\* the digest of the whole set.
LEMMA VerifiedIsPacked ==
  ASSUME NEW s, NEW t, verifyExtractedBundle(t, ManifestOf(s))
  PROVE  /\ \A c \in Core : t[CorePath(c)] = s.core[c]
         /\ \A k \in DOMAIN s.vectors : t[VectorPath(s.vectors[k].name)] = s.vectors[k].data
<1> DEFINE m == ManifestOf(s)
           packed == [k \in DOMAIN s.vectors |->
                        <<VectorPath(s.vectors[k].name), sha256Hex(s.vectors[k].data)>>]
           listed == [k \in DOMAIN m.vectorFiles |->
                        <<m.vectorFiles[k], DigestOf(m, m.vectorFiles[k])>>]
<1>1. /\ m.path = [c \in Core |-> CorePath(c)]
      /\ m.sha = [c \in Core |-> sha256Hex(s.core[c])]
      /\ m.vectorSet = VectorSetSHA256(packed)
  BY DEF ManifestOf
<1>2. /\ verifyCoreChecksums(t, m)
      /\ verifyVectorChecksums(t, m)
      /\ m.vectorSet = VectorSetSHA256(listed)
  BY DEF verifyExtractedBundle, verifyVectorSetChecksum
<1>3. /\ DOMAIN packed = DOMAIN s.vectors
      /\ \A k \in DOMAIN s.vectors :
           packed[k] = <<VectorPath(s.vectors[k].name), sha256Hex(s.vectors[k].data)>>
      /\ DOMAIN listed = DOMAIN m.vectorFiles
      /\ \A k \in DOMAIN m.vectorFiles :
           listed[k] = <<m.vectorFiles[k], DigestOf(m, m.vectorFiles[k])>>
  OBVIOUS
<1> HIDE DEF m, packed, listed
<1>4. ASSUME NEW c \in Core PROVE t[CorePath(c)] = s.core[c]
  <2>1. PICK i \in 1 .. 4 : CoreOrder[i] = c
    BY DEF Core, CoreOrder
  <2>2. \A j \in i + 1 .. 4 : CoreOrder[j] # c /\ CoreOrder[j] \in Core
    BY <2>1 DEF Core, CoreOrder
  <2>3. \A b \in Core : m.path[b] = CorePath(b) /\ m.sha[b] = sha256Hex(s.core[b])
    BY <1>1
  <2>4. \A j \in i + 1 .. 4 : m.path[CoreOrder[j]] # m.path[CoreOrder[i]]
    BY <2>1, <2>2, <2>3, CorePaths
  <2>5. Matches(t, m.path[CoreOrder[i]], m.sha[CoreOrder[i]])
    BY <1>2, <2>4 DEF verifyCoreChecksums
  <2>6. sha256Hex(t[CorePath(c)]) = sha256Hex(s.core[c])
    BY <2>1, <2>3, <2>5 DEF Matches
  <2> QED
    BY <2>6, DigestTells
<1>5. Range(packed) = Range(listed)
  <2> DEFINE bag(pairs) == [x \in Range(pairs) |-> Cardinality({k \in DOMAIN pairs : pairs[k] = x})]
  <2>1. sha256Hex(bag(packed)) = sha256Hex(bag(listed))
    BY <1>1, <1>2 DEF VectorSetSHA256
  <2>2. DOMAIN bag(packed) = Range(packed) /\ DOMAIN bag(listed) = Range(listed)
    OBVIOUS
  <2> HIDE DEF bag
  <2>3. bag(packed) = bag(listed)
    BY <2>1, DigestTells
  <2> QED
    BY <2>2, <2>3
<1>6. ASSUME NEW k \in DOMAIN s.vectors
      PROVE  t[VectorPath(s.vectors[k].name)] = s.vectors[k].data
  <2> DEFINE p == VectorPath(s.vectors[k].name)
             digest == sha256Hex(s.vectors[k].data)
  <2>1. <<p, digest>> \in Range(listed)
    BY <1>3, <1>5 DEF Range
  <2>2. PICK j \in DOMAIN m.vectorFiles :
          <<m.vectorFiles[j], DigestOf(m, m.vectorFiles[j])>> = <<p, digest>>
    BY <1>3, <2>1 DEF Range
  <2>3. m.vectorFiles[j] = p /\ DigestOf(m, m.vectorFiles[j]) = digest
    BY <2>2
  <2>4. Matches(t, p, digest)
    BY <1>2, <2>3 DEF verifyVectorChecksums
  <2> QED
    BY <2>4, DigestTells DEF Matches
<1> QED
  BY <1>4, <1>6

Running == {"vectors", "independence", "evidence", "report"}

\* Whatever is run has been verified, and the archive is not touched any more.
VerifiedInv ==
  /\ wpc # "parse" => bpc \in {"created", "failed"}
  /\ wpc \in Running \cup {"verify"} => archive.whole
  /\ wpc \in Running => verifyExtractedBundle(tree, manifest)

\* The steps of CreateBundle are over before the worker starts.
LEMMA VerifiedStep ==
  ASSUME VerifiedInv, [Next]_vars
  PROVE  VerifiedInv'
<1>1. CASE CreateBundle /\ UNCHANGED workerVars
  <2>1. bpc \notin {"created", "failed"}
    BY <1>1 DEF CreateBundle, RefuseInputs, ReadInputs, OpenArchive, WriteEntry, CloseArchive
  <2>2. wpc = "parse" /\ wpc' = "parse"
    BY <1>1, <2>1 DEF VerifiedInv, workerVars
  <2> QED
    BY <2>2 DEF VerifiedInv, Running
<1>2. CASE Worker /\ UNCHANGED bundleVars
  <2>1. bpc' = bpc /\ archive' = archive
    BY <1>2 DEF bundleVars
  <2>2. CASE wpc' = "exited"
    <3>1. bpc \in {"created", "failed"}
      BY <1>2 DEF VerifiedInv, Worker, ParseArgs, ExtractBundle, Verify, RunLine, EndOfFile,
                  CheckEnvironmentIndependence, WriteEvidence, Report
    <3> QED
      BY <2>1, <2>2, <3>1 DEF VerifiedInv, Running
  <2>3. CASE ParseArgs /\ wpc' # "exited"
    BY <2>1, <2>3 DEF VerifiedInv, Running, ParseArgs, Fail, Exit, Step
  <2>4. CASE ExtractBundle /\ wpc' # "exited"
    BY <2>1, <2>4 DEF VerifiedInv, Running, ExtractBundle, Fail, Exit, Step, Extractable
  <2>5. CASE Verify /\ wpc' # "exited"
    <3>1. /\ wpc = "verify" /\ wpc' = "vectors" /\ tree' = tree /\ manifest' = manifest
          /\ verifyExtractedBundle(tree, manifest)
      BY <2>5 DEF Verify, Fail, Exit, Step
    <3> QED
      BY <2>1, <3>1 DEF VerifiedInv, Running
  <2>6. CASE wpc \in Running /\ wpc' \in Running /\ UNCHANGED <<tree, manifest>>
    BY <2>1, <2>6 DEF VerifiedInv, Running
  <2>7. CASE (RunLine \/ EndOfFile) /\ wpc' # "exited"
    <3>1. wpc \in Running /\ wpc' \in Running /\ UNCHANGED <<tree, manifest>>
      BY <2>7 DEF RunLine, EndOfFile, Fail, Exit, Step, Running
    <3> QED
      BY <3>1, <2>6
  <2>8. CASE (CheckEnvironmentIndependence \/ WriteEvidence \/ Report) /\ wpc' # "exited"
    <3>1. wpc \in Running /\ wpc' \in Running /\ UNCHANGED <<tree, manifest>>
      BY <2>8 DEF CheckEnvironmentIndependence, WriteEvidence, Report, Fail, Exit, Step, Running
    <3> QED
      BY <3>1, <2>6
  <2> QED
    BY <1>2, <2>2, <2>3, <2>4, <2>5, <2>7, <2>8 DEF Worker
<1>3. CASE Replace
  BY <1>3 DEF Replace, workerVars, VerifiedInv, Running
<1>4. CASE UNCHANGED vars
  BY <1>4 DEF vars, workerVars, bundleVars, VerifiedInv
<1> QED
  BY <1>1, <1>2, <1>3, <1>4 DEF Next, Done

\* Commands run only on what was packed, however the archive was cut or replaced.
THEOREM OnlyIntactRun == Spec => []RunsOnlyIntact
<1>1. Init => VerifiedInv
  BY DEF Init, BundleInit, WorkerInit, VerifiedInv, Running
<1>2. VerifiedInv /\ [Next]_vars => VerifiedInv'
  BY VerifiedStep
<1>3. VerifiedInv => RunsOnlyIntact
  BY VerifiedIsPacked DEF VerifiedInv, RunsOnlyIntact, Running
<1> QED
  BY <1>1, <1>2, <1>3, PTL DEF Spec

--------------------------------------------------------------------------------
(* Sorting by name *)

\* The permutations of 1 .. n.
LEMMA PermutationsOf ==
  ASSUME NEW n \in Nat
  PROVE  /\ IsFiniteSet(1 .. n) /\ Cardinality(1 .. n) = n
         /\ \A q : q \in SetToSeqs(1 .. n) <=>
              q \in [1 .. n -> 1 .. n] /\ \A i, j \in 1 .. n : i # j => q[i] # q[j]
<1>1. IsFiniteSet(1 .. n) /\ Cardinality(1 .. n) = n
  BY FS_Interval
<1> QED
  BY <1>1 DEF SetToSeqs

\* An injection of 1 .. n into itself reaches every place.
LEMMA Reaches ==
  ASSUME NEW n \in Nat, NEW f \in [1 .. n -> 1 .. n],
         \A i, j \in 1 .. n : i # j => f[i] # f[j]
  PROVE  \A k \in 1 .. n : \E i \in 1 .. n : f[i] = k
<1>1. f \in Injection(1 .. n, 1 .. n)
  BY Fun_IsInj
<1>2. f \in Surjection(1 .. n, 1 .. n)
  BY <1>1, PermutationsOf, FS_Injection
<1> QED
  BY <1>2 DEF Surjection

\* The numbers of the vectors in the order of their names: the place of each is one
\* more than how many names are less than its own.
LEMMA SortedByName ==
  ASSUME NEW n \in Nat, NEW v, DOMAIN v = 1 .. n, \A i \in 1 .. n : v[i].name \in Nat,
         \A i, j \in 1 .. n : v[i].name = v[j].name => i = j
  PROVE  ByName(v) # {}
<1> DEFINE name(i) == v[i].name
           Under(i) == {j \in 1 .. n : name(j) < name(i)}
           rank == [i \in 1 .. n |-> Cardinality(Under(i)) + 1]
<1>0. IsFiniteSet(1 .. n) /\ Cardinality(1 .. n) = n
  BY PermutationsOf
<1>1. /\ \A i \in 1 .. n : name(i) \in Nat
      /\ \A i, j \in 1 .. n : name(i) = name(j) => i = j
  OBVIOUS
<1> HIDE DEF name
<1>2. ASSUME NEW i \in 1 .. n
      PROVE  /\ IsFiniteSet(Under(i)) /\ Cardinality(Under(i)) \in Nat
             /\ Cardinality(Under(i)) < n
  <2>1. Under(i) \in SUBSET (1 .. n) /\ i \notin Under(i)
    BY <1>1
  <2>2. Under(i) # 1 .. n
    BY <2>1
  <2> HIDE DEF Under
  <2>3. /\ IsFiniteSet(Under(i)) /\ Cardinality(Under(i)) <= n
        /\ Cardinality(Under(i)) # n
    BY <1>0, <2>1, <2>2, FS_Subset
  <2>4. Cardinality(Under(i)) \in Nat
    BY <2>3, FS_CardinalityType
  <2> QED
    BY <2>3, <2>4
<1>3. ASSUME NEW i \in 1 .. n, NEW j \in 1 .. n, name(i) < name(j)
      PROVE  Cardinality(Under(i)) < Cardinality(Under(j))
  <2>1. Under(i) \in SUBSET Under(j)
    BY <1>1, <1>3
  <2>2. i \in Under(j) /\ i \notin Under(i)
    BY <1>1, <1>3
  <2> HIDE DEF Under
  <2>3. /\ Cardinality(Under(i)) <= Cardinality(Under(j))
        /\ Cardinality(Under(i)) # Cardinality(Under(j))
    BY <1>2, <2>1, <2>2, FS_Subset
  <2> QED
    BY <1>2, <2>3
<1> HIDE DEF Under
<1>4. rank \in [1 .. n -> 1 .. n]
  BY <1>2
<1>5. \A i, j \in 1 .. n : name(i) < name(j) => rank[i] < rank[j]
  BY <1>2, <1>3
<1> HIDE DEF rank
<1>6. ASSUME NEW i \in 1 .. n, NEW j \in 1 .. n, i # j PROVE rank[i] # rank[j]
  <2>1. name(i) < name(j) \/ name(j) < name(i)
    BY <1>1, <1>6
  <2>2. rank[i] \in Nat /\ rank[j] \in Nat
    BY <1>4
  <2> QED
    BY <1>5, <2>1, <2>2
<1>7. \A k \in 1 .. n : \E i \in 1 .. n : rank[i] = k
  <2>1. \A i, j \in 1 .. n : i # j => rank[i] # rank[j]
    BY <1>6
  <2> QED
    BY ONLY <1>4, <2>1, Reaches, n \in Nat
<1> DEFINE q == [k \in 1 .. n |-> CHOOSE i \in 1 .. n : rank[i] = k]
<1>8. \A k \in 1 .. n : q[k] \in 1 .. n /\ rank[q[k]] = k
  BY <1>7
<1>9. q \in [1 .. n -> 1 .. n]
  BY <1>8
<1> HIDE DEF q
<1>10. \A i, j \in 1 .. n : i # j => q[i] # q[j]
  BY <1>8
<1>11. ASSUME NEW i \in 1 .. n, NEW j \in 1 .. n, i < j PROVE name(q[i]) <= name(q[j])
  <2>1. ~(rank[q[j]] < rank[q[i]])
    BY <1>8, <1>11
  <2>2. ~(name(q[j]) < name(q[i]))
    BY <1>5, <1>8, <2>1
  <2>3. name(q[i]) \in Nat /\ name(q[j]) \in Nat
    BY <1>1, <1>8
  <2> QED
    BY <2>2, <2>3
<1>12. q \in SetToSeqs(1 .. n)
  BY <1>9, <1>10, PermutationsOf
<1> QED
  BY <1>11, <1>12 DEF ByName, name

\* q is a permutation of 1 .. n.
Permutes(q, n) ==
  /\ q \in [1 .. n -> 1 .. n]
  /\ \A i, j \in 1 .. n : i # j => q[i] # q[j]
  /\ \A k \in 1 .. n : \E i \in 1 .. n : q[i] = k

\* An order by name is a permutation.
LEMMA NameOrders ==
  ASSUME NEW n \in Nat, NEW v, DOMAIN v = 1 .. n, NEW q \in ByName(v)
  PROVE  Permutes(q, n)
<1>1. /\ q \in [1 .. n -> 1 .. n]
      /\ \A i, j \in 1 .. n : i # j => q[i] # q[j]
  BY PermutationsOf DEF ByName
<1> QED
  BY <1>1, Reaches DEF Permutes

--------------------------------------------------------------------------------
(* What CreateBundle writes *)

\* The sources: a file at every place.
LEMMA SourceFacts ==
  ASSUME NEW s \in Sources
  PROVE  /\ Len(s.vectors) \in Nat /\ DOMAIN s.vectors = 1 .. Len(s.vectors)
         /\ \A k \in 1 .. Len(s.vectors) : s.vectors[k].name \in Nat
<1>1. /\ s.vectors \in Seq(Range(s.vectors))
      /\ \A k \in DOMAIN s.vectors : s.vectors[k].name \in Nat
  BY SourcesAssumption
<1>2. Len(s.vectors) \in Nat /\ DOMAIN s.vectors = 1 .. Len(s.vectors)
  BY <1>1
<1> QED
  BY <1>1, <1>2

\* The entries of a bundle of n vectors, by their places.
Packs(e, s, n, q) ==
  /\ DOMAIN e = 1 .. 5 + n
  /\ e[1] = Entry(CorePath("binary"), s.core["binary"])
  /\ e[2] = Entry(CorePath("worker"), s.core["worker"])
  /\ e[3] = Entry(CorePath("matrix"), s.core["matrix"])
  /\ e[4] = Entry(CorePath("profile"), s.core["profile"])
  /\ \A k \in 1 .. n : e[k + 4] = Entry(VectorPath(s.vectors[q[k]].name), s.vectors[q[k]].data)
  /\ e[5 + n] = Entry(ManifestPath, ManifestOf(s))

LEMMA ArrangementPacks ==
  ASSUME NEW s \in Sources, NEW e \in Arrangements(s)
  PROVE  \E q \in ByName(s.vectors) : Packs(e, s, Len(s.vectors), q)
<1> DEFINE n == Len(s.vectors)
           m == ManifestOf(s)
<1>1. n \in Nat
  BY SourceFacts
<1>2. PICK q \in ByName(s.vectors) :
        e = [k \in 1 .. 5 + n |->
               IF k <= 4 THEN LET c == <<"binary", "worker", "matrix", "profile">>[k]
                              IN  Entry(CorePath(c), s.core[c])
               ELSE IF k <= 4 + n THEN LET v == s.vectors[q[k - 4]]
                                       IN  Entry(VectorPath(v.name), v.data)
               ELSE Entry(ManifestPath, m)]
  BY DEF Arrangements
<1> HIDE DEF m, n
<1>3. DOMAIN e = 1 .. 5 + n
  BY <1>2
<1>4. /\ e[1] = Entry(CorePath("binary"), s.core["binary"])
      /\ e[2] = Entry(CorePath("worker"), s.core["worker"])
      /\ e[3] = Entry(CorePath("matrix"), s.core["matrix"])
      /\ e[4] = Entry(CorePath("profile"), s.core["profile"])
  BY <1>1, <1>2
<1>5. ASSUME NEW k \in 1 .. n
      PROVE  e[k + 4] = Entry(VectorPath(s.vectors[q[k]].name), s.vectors[q[k]].data)
  <2>1. k + 4 \in 1 .. 5 + n /\ ~(k + 4 <= 4) /\ k + 4 <= 4 + n /\ (k + 4) - 4 = k
    BY <1>1
  <2> QED
    BY <1>2, <2>1
<1>6. e[5 + n] = Entry(ManifestPath, m)
  <2>1. 5 + n \in 1 .. 5 + n /\ ~(5 + n <= 4) /\ ~(5 + n <= 4 + n)
    BY <1>1
  <2> QED
    BY <1>2, <2>1
<1> QED
  BY <1>3, <1>4, <1>5, <1>6 DEF Packs, n, m

\* The entry at i, of a file at p, and no other entry has this path.
Alone(e, i, p, body) ==
  /\ i \in Nat /\ i \in DOMAIN e
  /\ e[i] = Entry(p, body)
  /\ \A j \in DOMAIN e : e[j].path = p => j = i

\* A file whose path no other entry has is extracted as it was packed.
LEMMA Extracted ==
  ASSUME NEW a, NEW i, NEW p, NEW body, Alone(a.entries, i, p, body)
  PROVE  p \in DOMAIN ExtractedTree(a) /\ ExtractedTree(a)[p] = body
<1>0. /\ i \in Nat /\ i \in DOMAIN a.entries
      /\ a.entries[i] = Entry(p, body)
      /\ \A j \in DOMAIN a.entries : a.entries[j].path = p => j = i
  BY DEF Alone
<1>1. a.entries[i].path = p /\ a.entries[i].body = body
  BY <1>0 DEF Entry
<1> DEFINE At == {k \in DOMAIN a.entries : a.entries[k].path = p}
<1>2. At = {i}
  BY <1>0, <1>1
<1>3. (CHOOSE k \in At : \A j \in At : j <= k) = i
  <2> HIDE DEF At
  <2>1. i <= i
    BY <1>0
  <2> QED
    BY <1>2, <2>1
<1> QED
  BY <1>0, <1>1, <1>3 DEF ExtractedTree

\* The digest that the manifest has for a vector whose name no other has.
LEMMA ListedDigest ==
  ASSUME NEW s \in Sources, DistinctNames(s), NEW k \in 1 .. Len(s.vectors)
  PROVE  DigestOf(ManifestOf(s), VectorPath(s.vectors[k].name)) = sha256Hex(s.vectors[k].data)
<1> DEFINE v == s.vectors
           p == VectorPath(v[k].name)
           Named == {j \in DOMAIN v : VectorPath(v[j].name) = p}
<1>1. k \in Nat /\ k \in DOMAIN v
  BY SourceFacts
<1>2. Named = {k}
  BY <1>1, VectorPaths DEF DistinctNames
<1>3. (CHOOSE i \in Named : \A j \in Named : j <= i) = k
  <2> HIDE DEF Named
  <2>1. k <= k
    BY <1>1
  <2> QED
    BY <1>2, <2>1
<1>4. p \in DOMAIN VectorSHA256(v) /\ VectorSHA256(v)[p] = sha256Hex(v[k].data)
  BY <1>1, <1>3 DEF VectorSHA256
<1>5. ManifestOf(s).vectorSha = VectorSHA256(v)
  BY DEF ManifestOf
<1> HIDE DEF p, v
<1>6. DigestOf(ManifestOf(s), p) = sha256Hex(v[k].data)
  BY <1>4, <1>5 DEF DigestOf
<1> QED
  BY <1>6 DEF p, v

\* g lists in the order q what f lists, no two things of which are the same.
Rearranges(g, f, n, q) ==
  /\ DOMAIN f = 1 .. n /\ DOMAIN g = 1 .. n
  /\ \A k \in 1 .. n : q[k] \in 1 .. n /\ g[k] = f[q[k]]
  /\ \A i, j \in 1 .. n : i # j => q[i] # q[j]
  /\ \A k \in 1 .. n : \E i \in 1 .. n : q[i] = k
  /\ \A i, j \in 1 .. n : f[i] = f[j] => i = j

\* A set digest does not depend on the order of what it covers.
LEMMA SameSet ==
  ASSUME NEW n \in Nat, NEW f, NEW g, NEW q, Rearranges(g, f, n, q)
  PROVE  VectorSetSHA256(f) = VectorSetSHA256(g)
<1>0. /\ DOMAIN f = 1 .. n /\ DOMAIN g = 1 .. n
      /\ \A k \in 1 .. n : q[k] \in 1 .. n /\ g[k] = f[q[k]]
      /\ \A i, j \in 1 .. n : i # j => q[i] # q[j]
      /\ \A k \in 1 .. n : \E i \in 1 .. n : q[i] = k
      /\ \A i, j \in 1 .. n : f[i] = f[j] => i = j
  BY DEF Rearranges
<1>1. Range(f) = Range(g)
  <2>1. ASSUME NEW k \in 1 .. n PROVE f[k] \in Range(g)
    <3>1. PICK i \in 1 .. n : q[i] = k
      BY <1>0
    <3>2. g[i] = f[k]
      BY <1>0, <3>1
    <3> QED
      BY <1>0, <3>2 DEF Range
  <2>2. ASSUME NEW k \in 1 .. n PROVE g[k] \in Range(f)
    <3>1. g[k] = f[q[k]] /\ q[k] \in DOMAIN f
      BY <1>0
    <3> QED
      BY ONLY <3>1 DEF Range
  <2> QED
    BY <1>0, <2>1, <2>2 DEF Range
<1>2. ASSUME NEW x \in Range(f)
      PROVE  Cardinality({k \in DOMAIN f : f[k] = x}) = Cardinality({k \in DOMAIN g : g[k] = x})
  <2>1. PICK i \in 1 .. n : f[i] = x
    BY <1>0 DEF Range
  <2>2. PICK j \in 1 .. n : q[j] = i
    BY <1>0, <2>1
  <2>3. {k \in DOMAIN f : f[k] = x} = {i}
    BY <1>0, <2>1
  <2>4. {k \in DOMAIN g : g[k] = x} = {j}
    <3>1. ASSUME NEW k \in 1 .. n, g[k] = x PROVE k = j
      <4>1. f[q[k]] = f[i] /\ q[k] \in 1 .. n
        BY <1>0, <2>1, <3>1
      <4>2. q[k] = q[j]
        BY <1>0, <2>2, <4>1
      <4> QED
        BY <1>0, <4>2
    <3>2. g[j] = x
      BY <1>0, <2>1, <2>2
    <3> QED
      BY <1>0, <3>1, <3>2
  <2> QED
    BY <2>3, <2>4, FS_Singleton
<1>3. [x \in Range(f) |-> Cardinality({k \in DOMAIN f : f[k] = x})]
        = [x \in Range(g) |-> Cardinality({k \in DOMAIN g : g[k] = x})]
  BY <1>1, <1>2
<1> QED
  BY <1>3 DEF VectorSetSHA256

\* What the manifest says of the vectors.
LEMMA ManifestFacts ==
  ASSUME NEW s \in Sources, DistinctNames(s), NEW m, m = ManifestOf(s), NEW n, n = Len(s.vectors)
  PROVE  /\ n \in Nat
         /\ m.path = [c \in Core |-> CorePath(c)]
         /\ m.sha = [c \in Core |-> sha256Hex(s.core[c])]
         /\ DOMAIN m.vectorFiles = 1 .. n
         /\ \A k \in 1 .. n : \E j \in 1 .. n :
              /\ m.vectorFiles[k] = VectorPath(s.vectors[j].name)
              /\ DigestOf(m, m.vectorFiles[k]) = sha256Hex(s.vectors[j].data)
         /\ verifyVectorSetChecksum(m)
<1> DEFINE q == CHOOSE o \in ByName(s.vectors) : TRUE
           f == [k \in DOMAIN s.vectors |->
                   <<VectorPath(s.vectors[k].name), sha256Hex(s.vectors[k].data)>>]
           g == [k \in DOMAIN m.vectorFiles |->
                   <<m.vectorFiles[k], DigestOf(m, m.vectorFiles[k])>>]
<1>1. /\ n \in Nat /\ DOMAIN s.vectors = 1 .. n
      /\ \A k \in 1 .. n : s.vectors[k].name \in Nat
      /\ \A i, j \in 1 .. n : s.vectors[i].name = s.vectors[j].name => i = j
  BY SourceFacts DEF DistinctNames
<1>2. q \in ByName(s.vectors)
  BY <1>1, SortedByName
<1>3. /\ m.path = [c \in Core |-> CorePath(c)]
      /\ m.sha = [c \in Core |-> sha256Hex(s.core[c])]
      /\ m.vectorFiles = [k \in 1 .. n |-> VectorPath(s.vectors[q[k]].name)]
      /\ m.vectorSet = VectorSetSHA256(f)
  BY <1>1 DEF ManifestOf
<1> HIDE DEF q
<1>4. /\ q \in [1 .. n -> 1 .. n]
      /\ \A i, j \in 1 .. n : i # j => q[i] # q[j]
      /\ \A k \in 1 .. n : \E i \in 1 .. n : q[i] = k
  BY <1>1, <1>2, NameOrders DEF Permutes
<1>5. \A k \in 1 .. n : DigestOf(m, VectorPath(s.vectors[k].name)) = sha256Hex(s.vectors[k].data)
  BY ListedDigest
<1>6. \A k \in 1 .. n : /\ q[k] \in 1 .. n
                        /\ m.vectorFiles[k] = VectorPath(s.vectors[q[k]].name)
                        /\ DigestOf(m, m.vectorFiles[k]) = sha256Hex(s.vectors[q[k]].data)
  BY <1>3, <1>4, <1>5
<1>7. /\ DOMAIN f = 1 .. n /\ DOMAIN g = 1 .. n
      /\ \A k \in 1 .. n : g[k] = f[q[k]]
      /\ \A i, j \in 1 .. n : f[i] = f[j] => i = j
  <2>1. DOMAIN f = 1 .. n /\ DOMAIN g = 1 .. n
    BY <1>1, <1>3
  <2>2. \A k \in 1 .. n : g[k] = f[q[k]]
    BY <1>1, <1>3, <1>6
  <2>3. ASSUME NEW i \in 1 .. n, NEW j \in 1 .. n, f[i] = f[j] PROVE i = j
    <3>1. VectorPath(s.vectors[i].name) = VectorPath(s.vectors[j].name)
      BY <1>1, <2>3
    <3> QED
      BY <1>1, <3>1, VectorPaths
  <2> QED
    BY <2>1, <2>2, <2>3
<1> HIDE DEF f
<1>8. m.vectorSet = VectorSetSHA256(g)
  <2> HIDE DEF g
  <2>1. \A k \in 1 .. n : q[k] \in 1 .. n /\ g[k] = f[q[k]]
    BY <1>6, <1>7
  <2>2. Rearranges(g, f, n, q)
    BY <1>4, <1>7, <2>1 DEF Rearranges
  <2>3. VectorSetSHA256(f) = VectorSetSHA256(g)
    BY <1>1, <2>2, SameSet
  <2> QED
    BY <1>3, <2>3
<1>9. verifyVectorSetChecksum(m)
  BY <1>8 DEF verifyVectorSetChecksum
<1> QED
  BY <1>1, <1>3, <1>6, <1>9

\* Each entry of a bundle is extracted as it was packed: no path occurs twice.
LEMMA BundleTree ==
  ASSUME NEW s \in Sources, DistinctNames(s), NEW e \in Arrangements(s),
         NEW a, a = [entries |-> e, whole |-> TRUE], NEW t, t = ExtractedTree(a)
  PROVE  /\ \A c \in Core : CorePath(c) \in DOMAIN t /\ t[CorePath(c)] = s.core[c]
         /\ \A k \in 1 .. Len(s.vectors) :
              LET p == VectorPath(s.vectors[k].name)
              IN  p \in DOMAIN t /\ t[p] = s.vectors[k].data
         /\ Manifests(a) = {5 + Len(s.vectors)}
         /\ e[5 + Len(s.vectors)].body = ManifestOf(s)
         /\ Extractable(a)
<1> DEFINE n == Len(s.vectors)
           v == s.vectors
<1>1. /\ n \in Nat /\ DOMAIN v = 1 .. n
      /\ \A i, j \in 1 .. n : v[i].name = v[j].name => i = j
  BY SourceFacts DEF DistinctNames
<1>2. PICK q \in ByName(v) : Packs(e, s, n, q)
  BY ArrangementPacks
<1>3. /\ q \in [1 .. n -> 1 .. n]
      /\ \A i, j \in 1 .. n : i # j => q[i] # q[j]
      /\ \A k \in 1 .. n : \E i \in 1 .. n : q[i] = k
  <2>1. ASSUME NEW w, NEW k, w = v, k = n PROVE Permutes(q, k)
    <3>1. k \in Nat /\ DOMAIN w = 1 .. k /\ q \in ByName(w)
      BY <1>1, <2>1
    <3> QED
      BY <3>1, NameOrders
  <2>2. Permutes(q, n)
    BY <2>1
  <2> QED
    BY <2>2 DEF Permutes
<1> HIDE DEF n, v
<1>4. a.entries = e /\ a.whole = TRUE /\ DOMAIN e = 1 .. 5 + n
  BY <1>2 DEF Packs
<1>5. /\ e[1].path = CorePath("binary") /\ e[2].path = CorePath("worker")
      /\ e[3].path = CorePath("matrix") /\ e[4].path = CorePath("profile")
      /\ \A k \in 1 .. n : e[k + 4].path = VectorPath(v[q[k]].name)
      /\ e[5 + n].path = ManifestPath
      /\ e[5 + n].body = ManifestOf(s)
  <2>1. \A p, b : Entry(p, b).path = p /\ Entry(p, b).body = b
    BY DEF Entry
  <2> QED
    BY <1>2, <2>1 DEF Packs, v
<1>6. \A i \in 1 .. 5 + n : i \in 1 .. 4 \/ i = 5 + n \/ \E k \in 1 .. n : i = k + 4
  <2> SUFFICES ASSUME NEW i \in 1 .. 5 + n, ~(i \in 1 .. 4), i # 5 + n
               PROVE  \E k \in 1 .. n : i = k + 4
    OBVIOUS
  <2>1. i - 4 \in 1 .. n /\ i = (i - 4) + 4
    BY <1>1
  <2> QED
    BY <2>1
\* The paths of the entries before the vectors, and of the vectors.
<1>7. \A i \in 1 .. 4 : \E c \in Core : e[i].path = CorePath(c)
  BY <1>5 DEF Core
<1>8. \A i, j \in 1 .. 4 : e[i].path = e[j].path => i = j
  BY <1>5, CorePaths DEF Core
<1>9. ASSUME NEW i \in 1 .. 4 PROVE i \in Nat /\ i \in DOMAIN e
                                    /\ \A j \in DOMAIN e : e[j].path = e[i].path => j = i
  <2>1. PICK c \in Core : e[i].path = CorePath(c)
    BY <1>7
  <2>2. ASSUME NEW j \in DOMAIN e, e[j].path = e[i].path PROVE j = i
    <3>1. j \in 1 .. 4 \/ j = 5 + n \/ \E k \in 1 .. n : j = k + 4
      BY <1>4, <1>6
    <3>2. j # 5 + n
      BY <1>5, <2>1, <2>2, VectorPaths
    <3>3. ~\E k \in 1 .. n : j = k + 4
      BY <1>5, <2>1, <2>2, VectorPaths
    <3> QED
      BY <1>8, <2>2, <3>1, <3>2, <3>3
  <2>3. i \in Nat /\ i \in DOMAIN e
    BY <1>1, <1>4
  <2> QED
    BY <2>2, <2>3
<1>10. ASSUME NEW c \in Core PROVE CorePath(c) \in DOMAIN t /\ t[CorePath(c)] = s.core[c]
  <2>1. PICK i \in 1 .. 4 : e[i] = Entry(CorePath(c), s.core[c])
    BY <1>2 DEF Packs, Core
  <2>2. e[i].path = CorePath(c)
    BY <2>1 DEF Entry
  <2>3. Alone(a.entries, i, CorePath(c), s.core[c])
    BY <1>4, <1>9, <2>1, <2>2 DEF Alone
  <2> QED
    BY <2>3, Extracted
<1>11. ASSUME NEW k \in 1 .. n
       PROVE  VectorPath(v[k].name) \in DOMAIN t /\ t[VectorPath(v[k].name)] = v[k].data
  <2>1. PICK i \in 1 .. n : q[i] = k
    BY <1>3
  <2>2. e[i + 4] = Entry(VectorPath(v[k].name), v[k].data)
    BY <1>2, <2>1 DEF Packs, v
  <2>3. ASSUME NEW j \in DOMAIN e, e[j].path = VectorPath(v[k].name) PROVE j = i + 4
    <3>1. j \in 1 .. 4 \/ j = 5 + n \/ \E l \in 1 .. n : j = l + 4
      BY <1>4, <1>6
    <3>2. j # 5 + n
      BY <1>5, <2>3, VectorPaths
    <3>3. j \notin 1 .. 4
      BY <1>7, <2>3, VectorPaths
    <3>4. PICK l \in 1 .. n : j = l + 4
      BY <3>1, <3>2, <3>3
    <3>5. v[q[l]].name = v[k].name /\ q[l] \in 1 .. n
      <4>1. e[j].path = VectorPath(v[q[l]].name)
        BY <1>5, <3>4
      <4>2. v[q[l]].name = v[k].name
        BY <2>3, <4>1, VectorPaths
      <4> QED
        BY <1>3, <4>2
    <3>6. q[l] = q[i]
      BY <1>1, <2>1, <3>5
    <3> QED
      BY <1>3, <3>4, <3>6
  <2>4. i + 4 \in Nat /\ i + 4 \in DOMAIN e
    BY <1>1, <1>4
  <2>5. Alone(a.entries, i + 4, VectorPath(v[k].name), v[k].data)
    BY <1>4, <2>2, <2>3, <2>4 DEF Alone
  <2> QED
    BY <2>5, Extracted
<1>12. Manifests(a) = {5 + n}
  <2>1. 5 + n \in DOMAIN e
    BY <1>1, <1>4
  <2>2. ASSUME NEW j \in DOMAIN e, e[j].path = ManifestPath PROVE j = 5 + n
    <3>1. j \in 1 .. 4 \/ j = 5 + n \/ \E l \in 1 .. n : j = l + 4
      BY <1>4, <1>6
    <3>2. j \notin 1 .. 4
      BY <1>7, <2>2, VectorPaths
    <3>3. ~\E l \in 1 .. n : j = l + 4
      BY <1>5, <2>2, VectorPaths
    <3> QED
      BY <3>1, <3>2, <3>3
  <2> QED
    BY <1>4, <1>5, <2>1, <2>2 DEF Manifests
<1>13. Extractable(a)
  <2>1. a # NoArchive
    <3>1. "entries" \in DOMAIN a /\ "entries" \notin DOMAIN NoArchive
      BY DEF NoArchive
    <3> QED
      BY <3>1
  <2>2. \A c \in Core : ~UnsafePath(CorePath(c))
    BY DEF UnsafePath, CorePath, Core
  <2>3. \A x : ~UnsafePath(VectorPath(x))
    BY DEF UnsafePath, VectorPath
  <2>4. ~UnsafePath(ManifestPath)
    BY DEF UnsafePath, ManifestPath
  <2>5. ASSUME NEW k \in DOMAIN e PROVE ~UnsafePath(e[k].path)
    <3>1. k \in 1 .. 4 \/ k = 5 + n \/ \E l \in 1 .. n : k = l + 4
      BY <1>4, <1>6
    <3> QED
      BY <1>5, <1>7, <2>2, <2>3, <2>4, <3>1
  <2> QED
    BY <1>4, <2>1, <2>5 DEF Extractable
<1> QED
  BY <1>5, <1>10, <1>11, <1>12, <1>13 DEF n, v

\* So a bundle passes all checks.
LEMMA PackedIsAccepted ==
  ASSUME NEW s \in Sources, DistinctNames(s), s.vectors # <<>>, NEW e \in Arrangements(s),
         NEW a, a = [entries |-> e, whole |-> TRUE]
  PROVE  /\ VerifyBundle(a)
         /\ Extractable(a)
         /\ verifyExtractedBundle(ExtractedTree(a), ReadBundleManifest(a))
<1> DEFINE n == Len(s.vectors)
           m == ManifestOf(s)
           t == ExtractedTree(a)
<1>1. /\ \A c \in Core : CorePath(c) \in DOMAIN t /\ t[CorePath(c)] = s.core[c]
      /\ \A k \in 1 .. n : /\ VectorPath(s.vectors[k].name) \in DOMAIN t
                            /\ t[VectorPath(s.vectors[k].name)] = s.vectors[k].data
      /\ Manifests(a) = {5 + n} /\ e[5 + n].body = m /\ Extractable(a)
  BY BundleTree
<1>2. /\ n \in Nat
      /\ m.path = [c \in Core |-> CorePath(c)]
      /\ m.sha = [c \in Core |-> sha256Hex(s.core[c])]
      /\ DOMAIN m.vectorFiles = 1 .. n
      /\ \A k \in 1 .. n : \E j \in 1 .. n :
           /\ m.vectorFiles[k] = VectorPath(s.vectors[j].name)
           /\ DigestOf(m, m.vectorFiles[k]) = sha256Hex(s.vectors[j].data)
      /\ verifyVectorSetChecksum(m)
  BY ManifestFacts
<1>3. n # 0
  <2>1. s.vectors \in Seq(Range(s.vectors))
    BY SourcesAssumption
  <2> QED
    BY <2>1, EmptySeq
<1> HIDE DEF n, m, t
<1>4. ReadBundleManifest(a) = m
  <2>1. 5 + n <= 5 + n
    BY <1>2
  <2>2. (CHOOSE k \in Manifests(a) : \A j \in Manifests(a) : k <= j) = 5 + n
    BY <1>1, <2>1
  <2> QED
    BY <1>1, <2>2 DEF ReadBundleManifest
<1>5. VerifyBundle(a)
  <2>1. HasManifest(a)
    BY <1>1 DEF HasManifest, Extractable
  <2>2. \A c \in Core : m.sha[c] # NoDigest
    BY <1>2, DigestTells
  <2>3. m.vectorFiles # <<>>
    BY <1>2, <1>3
  <2>4. \A k \in DOMAIN m.vectorFiles : DigestOf(m, m.vectorFiles[k]) # NoDigest
    <3> SUFFICES ASSUME NEW k \in 1 .. n PROVE DigestOf(m, m.vectorFiles[k]) # NoDigest
      BY <1>2
    <3>1. PICK j \in 1 .. n : DigestOf(m, m.vectorFiles[k]) = sha256Hex(s.vectors[j].data)
      BY <1>2
    <3> QED
      BY <3>1, DigestTells
  <2> QED
    BY <1>4, <2>1, <2>2, <2>3, <2>4 DEF VerifyBundle
<1>6. verifyCoreChecksums(t, m)
  <2>1. \A i \in 1 .. 4 : CoreOrder[i] \in Core
    BY DEF CoreOrder, Core
  <2>2. \A c \in Core : m.sha[c] # NoDigest /\ Matches(t, m.path[c], m.sha[c])
    BY <1>1, <1>2, DigestTells DEF Matches
  <2> QED
    BY <2>1, <2>2 DEF verifyCoreChecksums
<1>7. verifyVectorChecksums(t, m)
  <2> SUFFICES ASSUME NEW k \in 1 .. n
               PROVE  /\ DigestOf(m, m.vectorFiles[k]) # NoDigest
                      /\ Matches(t, m.vectorFiles[k], DigestOf(m, m.vectorFiles[k]))
    BY <1>2 DEF verifyVectorChecksums
  <2>1. PICK j \in 1 .. n :
          /\ m.vectorFiles[k] = VectorPath(s.vectors[j].name)
          /\ DigestOf(m, m.vectorFiles[k]) = sha256Hex(s.vectors[j].data)
    BY <1>2
  <2> QED
    BY <1>1, <2>1, DigestTells DEF Matches
<1> QED
  BY <1>1, <1>2, <1>4, <1>5, <1>6, <1>7 DEF verifyExtractedBundle, t

--------------------------------------------------------------------------------

\* From its decision on, CreateBundle has all of the entries of its sources.
CreateInv ==
  /\ sources \in Sources
  /\ bpc \in {"open", "write", "created"} =>
       sources.vectors # <<>> /\ entries \in Arrangements(sources)

LEMMA CreateStep ==
  ASSUME CreateInv, [Next]_vars
  PROVE  CreateInv' /\ sources' = sources
<1>1. CASE CreateBundle
  BY <1>1 DEF CreateInv, CreateBundle, RefuseInputs, ReadInputs, OpenArchive, WriteEntry,
              CloseArchive
<1>2. CASE UNCHANGED <<bpc, sources, entries>>
  BY <1>2 DEF CreateInv
<1> QED
  BY <1>1, <1>2 DEF Next, Replace, Done, vars, bundleVars

\* Any set of files with different names makes a bundle that every check accepts.
THEOREM CreatedAccepted == Spec => []CreatedIsAccepted
<1>1. Init => CreateInv
  BY DEF Init, BundleInit, CreateInv
<1>2. CreateInv /\ [Next]_vars => CreateInv'
  BY CreateStep
<1>3. CreateInv => CreatedIsAccepted
  BY PackedIsAccepted DEF CreateInv, CreatedIsAccepted, Whole
<1> QED
  BY <1>1, <1>2, <1>3, PTL DEF Spec


--------------------------------------------------------------------------------
(* The sorted list of the vector files *)

\* Two ways to sort the numbers nm leave the same number at every place: otherwise
\* the numbers before the greater of two are as many as its place, and fewer.
LEMMA SortedAlike ==
  ASSUME NEW n \in Nat, NEW nm, \A i \in 1 .. n : nm[i] \in Nat,
         NEW a, Permutes(a, n), NEW b, Permutes(b, n),
         \A i, j \in 1 .. n : i < j => nm[a[i]] <= nm[a[j]],
         \A i, j \in 1 .. n : i < j => nm[b[i]] <= nm[b[j]],
         NEW i \in 1 .. n
  PROVE  ~(nm[a[i]] < nm[b[i]])
<1> SUFFICES ASSUME nm[a[i]] < nm[b[i]] PROVE FALSE
  OBVIOUS
<1>1. /\ a \in [1 .. n -> 1 .. n] /\ b \in [1 .. n -> 1 .. n]
      /\ \A k, l \in 1 .. n : k # l => a[k] # a[l]
      /\ \A k \in 1 .. n : \E l \in 1 .. n : b[l] = k
  BY DEF Permutes
<1> DEFINE g == [k \in 1 .. i |-> CHOOSE l \in 1 .. n : b[l] = a[k]]
<1>2. ASSUME NEW k \in 1 .. i
      PROVE  g[k] \in 1 .. i - 1 /\ b[g[k]] = a[k] /\ k \in 1 .. n
  <2>0. k \in 1 .. n
    OBVIOUS
  <2>1. k \in 1 .. n /\ a[k] \in 1 .. n /\ a[i] \in 1 .. n /\ b[i] \in 1 .. n
    BY <1>1, <2>0
  <2>2. g[k] \in 1 .. n /\ b[g[k]] = a[k]
    BY <1>1, <2>1
  <2> HIDE DEF g
  <2>3. nm[a[k]] <= nm[a[i]] /\ nm[a[k]] \in Nat /\ nm[a[i]] \in Nat /\ nm[b[i]] \in Nat
    <3>1. nm[a[k]] \in Nat /\ nm[a[i]] \in Nat /\ nm[b[i]] \in Nat
      BY <2>1
    <3>2. nm[a[k]] <= nm[a[i]]
      <4>1. CASE k = i
        BY <3>1, <4>1
      <4>2. CASE k # i
        <5>1. k < i
          BY <4>2
        <5> QED
          BY <2>1, <5>1
      <4> QED
        BY <4>1, <4>2
    <3> QED
      BY <3>1, <3>2
  <2>4. ~(i <= g[k])
    <3> SUFFICES ASSUME i <= g[k] PROVE FALSE
      OBVIOUS
    <3>1. CASE i = g[k]
      BY <2>2, <2>3, <3>1
    <3>2. CASE i # g[k]
      <4>1. i < g[k]
        BY <2>2, <3>2
      <4>2. nm[b[i]] <= nm[b[g[k]]]
        BY <2>2, <4>1
      <4> QED
        BY <2>2, <2>3, <4>2
    <3> QED
      BY <3>1, <3>2
  <2> QED
    BY <2>1, <2>2, <2>4
<1> HIDE DEF g
<1>3. g \in [1 .. i -> 1 .. i - 1]
  <2>1. DOMAIN g = 1 .. i /\ g = [k \in 1 .. i |-> g[k]]
    BY DEF g
  <2> QED
    BY <1>2, <2>1
<1>4. /\ IsFiniteSet(1 .. i) /\ Cardinality(1 .. i) = i
      /\ IsFiniteSet(1 .. i - 1) /\ Cardinality(1 .. i - 1) = i - 1
  <2>1. i \in Nat /\ i - 1 \in Nat
    OBVIOUS
  <2> QED
    BY <2>1, PermutationsOf
<1>5. PICK k, l \in 1 .. i : k # l /\ g[k] = g[l]
  <2>1. Cardinality(1 .. i - 1) < Cardinality(1 .. i)
    BY <1>4
  <2> QED
    BY <1>3, <1>4, <2>1, FS_PigeonHole
<1>6. a[k] = a[l] /\ k \in 1 .. n /\ l \in 1 .. n
  BY <1>2, <1>5
<1> QED
  BY <1>1, <1>5, <1>6

\* The worker reads the packed files in the order of their names.
LEMMA ReadInOrder ==
  ASSUME NEW s \in Sources, NEW q \in ByName(s.vectors), manifest = ManifestOf(s)
  PROVE  /\ DOMAIN manifest.vectorFiles = 1 .. Len(s.vectors)
         /\ DOMAIN SortedFiles = 1 .. Len(s.vectors) /\ Len(SortedFiles) = Len(s.vectors)
         /\ \A f \in 1 .. Len(s.vectors) :
              SortedFiles[f] = VectorPath(s.vectors[q[f]].name)
<1> DEFINE n == Len(s.vectors)
           v == s.vectors
           r == CHOOSE o \in ByName(v) : TRUE
           files == manifest.vectorFiles
           order == CHOOSE o \in PathOrders(files) : TRUE
<1>1. n \in Nat /\ DOMAIN v = 1 .. n /\ \A k \in 1 .. n : v[k].name \in Nat
  BY SourceFacts
<1>2. r \in ByName(v)
  OBVIOUS
<1>3. files = [k \in 1 .. n |-> VectorPath(v[r[k]].name)]
  BY <1>1 DEF ManifestOf
<1>4. SortedFiles = [k \in DOMAIN files |-> files[order[k]]]
  BY DEF SortedFiles
<1> HIDE DEF n, v, r
<1>5. Permutes(q, n) /\ Permutes(r, n)
  BY <1>1, <1>2, NameOrders DEF v
<1>6. /\ \A i, j \in 1 .. n : i < j => v[q[i]].name <= v[q[j]].name
      /\ \A i, j \in 1 .. n : i < j => v[r[i]].name <= v[r[j]].name
  BY <1>1, <1>2 DEF ByName, v
<1>7. DOMAIN files = 1 .. n /\ \A k \in 1 .. n : files[k][3] = v[r[k]].name
  BY <1>3 DEF VectorPath
<1>8. \A k \in 1 .. n : r[k] \in 1 .. n /\ v[r[k]].name \in Nat
  BY <1>1, <1>5 DEF Permutes
<1> HIDE DEF files
<1>9. \E o : o \in PathOrders(files)
  <2> DEFINE id == [k \in 1 .. n |-> k]
  <2>1. id \in [1 .. n -> 1 .. n] /\ \A i, j \in 1 .. n : i # j => id[i] # id[j]
    OBVIOUS
  <2>2. \A k \in 1 .. n : id[k] = k
    OBVIOUS
  <2> HIDE DEF id
  <2>3. id \in SetToSeqs(1 .. n)
    BY <1>1, <2>1, PermutationsOf
  <2>4. ASSUME NEW i \in 1 .. n, NEW j \in 1 .. n, i < j
        PROVE  ~PathBefore(files[id[j]], files[id[i]])
    <3>1. v[r[i]].name <= v[r[j]].name
      BY <1>6, <2>4
    <3> QED
      BY <1>7, <1>8, <2>2, <3>1 DEF PathBefore
  <2> QED
    BY <1>7, <2>3, <2>4 DEF PathOrders
<1>10. order \in PathOrders(files)
  BY <1>9
<1>11. /\ order \in [1 .. n -> 1 .. n] /\ \A i, j \in 1 .. n : i # j => order[i] # order[j]
       /\ \A i, j \in 1 .. n : i < j => ~PathBefore(files[order[j]], files[order[i]])
  <2>1. order \in SetToSeqs(1 .. n)
    BY <1>7, <1>10 DEF PathOrders
  <2> HIDE DEF order
  <2>2. order \in [1 .. n -> 1 .. n] /\ \A i, j \in 1 .. n : i # j => order[i] # order[j]
    BY <1>1, <2>1, PermutationsOf
  <2>3. \A i, j \in 1 .. n : i < j => ~PathBefore(files[order[j]], files[order[i]])
    BY <1>7, <1>10 DEF PathOrders
  <2> QED
    BY <2>2, <2>3
<1> HIDE DEF order
<1>12. Permutes(order, n)
  BY <1>1, <1>11, Reaches DEF Permutes
<1> DEFINE nm == [k \in 1 .. n |-> v[r[k]].name]
           b == [k \in 1 .. n |-> CHOOSE l \in 1 .. n : r[l] = q[k]]
<1>13. \A k \in 1 .. n : nm[k] \in Nat /\ nm[k] = v[r[k]].name
  BY <1>8
<1>14. \A k \in 1 .. n : b[k] \in 1 .. n /\ r[b[k]] = q[k]
  BY <1>5 DEF Permutes
<1>15. b \in [1 .. n -> 1 .. n]
  BY <1>14
<1> HIDE DEF b, nm
<1>16. Permutes(b, n)
  <2>1. ASSUME NEW i \in 1 .. n, NEW j \in 1 .. n, i # j PROVE b[i] # b[j]
    <3>1. q[i] # q[j]
      BY <1>5, <2>1 DEF Permutes
    <3> QED
      BY <1>14, <3>1
  <2> QED
    BY <1>1, <1>15, <2>1, Reaches DEF Permutes
<1>17. \A k \in 1 .. n : nm[b[k]] = v[q[k]].name
  BY <1>13, <1>14
<1>18. \A i, j \in 1 .. n : i < j => nm[b[i]] <= nm[b[j]]
  BY <1>6, <1>17
<1>19. ASSUME NEW i \in 1 .. n, NEW j \in 1 .. n, i < j PROVE nm[order[i]] <= nm[order[j]]
  <2>1. ~PathBefore(files[order[j]], files[order[i]]) /\ order[i] \in 1 .. n /\ order[j] \in 1 .. n
    BY <1>11, <1>19
  <2>2. ~(nm[order[j]] < nm[order[i]])
    BY <1>7, <1>13, <2>1 DEF PathBefore
  <2> QED
    BY <1>13, <2>1, <2>2
<1>20. ASSUME NEW k \in 1 .. n PROVE SortedFiles[k] = VectorPath(v[q[k]].name)
  <2>1. \A i, j \in 1 .. n : i < j => nm[order[i]] <= nm[order[j]]
    BY <1>19
  <2>2. \A i \in 1 .. n : nm[i] \in Nat
    BY <1>13
  <2>3. ~(nm[order[k]] < nm[b[k]])
    BY ONLY <1>1, <1>12, <1>16, <1>18, <2>1, <2>2, k \in 1 .. n, SortedAlike
  <2>4. ~(nm[b[k]] < nm[order[k]])
    BY ONLY <1>1, <1>12, <1>16, <1>18, <2>1, <2>2, k \in 1 .. n, SortedAlike
  <2>5. order[k] \in 1 .. n /\ b[k] \in 1 .. n
    BY <1>11, <1>15
  <2>6. nm[order[k]] = nm[b[k]]
    BY <2>2, <2>3, <2>4, <2>5
  <2>7. SortedFiles[k] = files[order[k]]
    BY <1>4, <1>7
  <2>8. files[order[k]] = VectorPath(v[r[order[k]]].name)
    BY <1>3, <2>5 DEF files
  <2> QED
    BY <1>13, <1>17, <2>5, <2>6, <2>7, <2>8
<1>21. DOMAIN SortedFiles = 1 .. n /\ Len(SortedFiles) = n
  <2>1. DOMAIN SortedFiles = 1 .. n
    BY <1>4, <1>7
  <2>2. SortedFiles = [k \in 1 .. n |-> SortedFiles[k]]
    BY <1>4, <1>7
  <2> HIDE DEF SortedFiles
  <2>3. SortedFiles \in Seq({SortedFiles[k] : k \in 1 .. n})
    BY <1>1, <2>2
  <2> QED
    BY <1>1, <2>1, <2>3
<1> QED
  BY <1>7, <1>20, <1>21 DEF n, v, files

\* The worker reads the very lines that were packed.
LEMMA LinesRead ==
  ASSUME NEW s \in Sources, NEW q \in ByName(s.vectors), manifest = ManifestOf(s),
         verifyExtractedBundle(tree, manifest), NEW f \in 1 .. Len(s.vectors)
  PROVE  /\ q[f] \in DOMAIN s.vectors
         /\ tree[SortedFiles[f]] = s.vectors[q[f]].data
<1>1. Len(s.vectors) \in Nat /\ DOMAIN s.vectors = 1 .. Len(s.vectors)
  BY SourceFacts
<1>2. Permutes(q, Len(s.vectors))
  BY <1>1, NameOrders
<1>3. q[f] \in 1 .. Len(s.vectors)
  BY <1>2 DEF Permutes
<1>4. SortedFiles[f] = VectorPath(s.vectors[q[f]].name)
  BY ReadInOrder
<1>5. tree[VectorPath(s.vectors[q[f]].name)] = s.vectors[q[f]].data
  BY <1>1, <1>3, VerifiedIsPacked
<1> QED
  BY <1>1, <1>3, <1>4, <1>5

--------------------------------------------------------------------------------
(* The places of the cases, and those that have been read *)

\* The data of the file in place f of the order q.
FileData(v, q, f) == v[q[f]].data

\* n files of lines, in the order q.
Readable(v, q, n) ==
  /\ n \in Nat /\ DOMAIN v = 1 .. n
  /\ \A f \in 1 .. n : Len(FileData(v, q, f)) \in Nat
                       /\ DOMAIN FileData(v, q, f) = 1 .. Len(FileData(v, q, f))

LEMMA SourcesReadable ==
  ASSUME NEW s \in Sources, NEW q \in ByName(s.vectors)
  PROVE  Readable(s.vectors, q, Len(s.vectors))
<1> DEFINE n == Len(s.vectors)
<1>1. n \in Nat /\ DOMAIN s.vectors = 1 .. n
  BY SourceFacts
<1>2. Permutes(q, n)
  BY <1>1, NameOrders
<1>3. ASSUME NEW f \in 1 .. n
      PROVE  Len(FileData(s.vectors, q, f)) \in Nat
             /\ DOMAIN FileData(s.vectors, q, f) = 1 .. Len(FileData(s.vectors, q, f))
  <2>1. q[f] \in DOMAIN s.vectors
    BY <1>1, <1>2 DEF Permutes
  <2>2. s.vectors[q[f]].data \in Seq(Range(s.vectors[q[f]].data))
    BY <2>1, WorkerAssumption
  <2> QED
    BY <2>2 DEF FileData
<1> QED
  BY <1>1, <1>3 DEF Readable

\* The places among P that are read when the worker has read line l of file f.
Upto(P, f, l) == {p \in P : p[1] < f \/ (p[1] = f /\ p[2] <= l)}

LEMMA CasePlaceIs ==
  ASSUME NEW v, NEW q, NEW n, Readable(v, q, n)
  PROVE  /\ \A p \in CasePlaces(v, q) :
              /\ p[1] \in 1 .. n /\ p[2] \in 1 .. Len(FileData(v, q, p[1]))
              /\ p = <<p[1], p[2]>>
              /\ FileData(v, q, p[1])[p[2]].kind = "case"
         /\ \A f \in 1 .. n : \A l \in 1 .. Len(FileData(v, q, f)) :
              FileData(v, q, f)[l].kind = "case" => <<f, l>> \in CasePlaces(v, q)
<1>1. DOMAIN v = 1 .. n
      /\ \A f \in 1 .. n : DOMAIN FileData(v, q, f) = 1 .. Len(FileData(v, q, f))
  BY DEF Readable
<1>2. ASSUME NEW p \in CasePlaces(v, q)
      PROVE  /\ p[1] \in 1 .. n /\ p[2] \in 1 .. Len(FileData(v, q, p[1]))
             /\ p = <<p[1], p[2]>>
             /\ FileData(v, q, p[1])[p[2]].kind = "case"
  <2>1. PICK f \in DOMAIN v : p \in {<<f, l>> : l \in {k \in DOMAIN v[q[f]].data :
                                                         v[q[f]].data[k].kind = "case"}}
    BY DEF CasePlaces
  <2>2. PICK l \in DOMAIN v[q[f]].data : p = <<f, l>> /\ v[q[f]].data[l].kind = "case"
    BY <2>1
  <2>3. p[1] = f /\ p[2] = l
    BY <2>2
  <2> QED
    BY <1>1, <2>2, <2>3 DEF FileData
<1>3. ASSUME NEW f \in 1 .. n, NEW l \in 1 .. Len(FileData(v, q, f)),
             FileData(v, q, f)[l].kind = "case"
      PROVE  <<f, l>> \in CasePlaces(v, q)
  <2>1. l \in DOMAIN v[q[f]].data /\ v[q[f]].data[l].kind = "case" /\ f \in DOMAIN v
    BY <1>1, <1>3 DEF FileData
  <2>2. <<f, l>> \in {<<f, k>> : k \in {k \in DOMAIN v[q[f]].data : v[q[f]].data[k].kind = "case"}}
    BY <2>1
  <2> QED
    BY <2>1, <2>2 DEF CasePlaces
<1> QED
  BY <1>2, <1>3

\* One line more is one place more, or none.
LEMMA UptoNext ==
  ASSUME NEW v, NEW q, NEW n, Readable(v, q, n), NEW f \in 1 .. n, NEW l \in Nat,
         l < Len(FileData(v, q, f))
  PROVE  LET P == CasePlaces(v, q) IN
         /\ FileData(v, q, f)[l + 1].kind # "case" => Upto(P, f, l + 1) = Upto(P, f, l)
         /\ FileData(v, q, f)[l + 1].kind = "case" =>
              /\ Upto(P, f, l + 1) = Upto(P, f, l) \cup {<<f, l + 1>>}
              /\ \A p \in Upto(P, f, l) : Earlier(p, <<f, l + 1>>)
<1> DEFINE P == CasePlaces(v, q)
           A == Upto(P, f, l + 1)
           B == Upto(P, f, l)
           x == <<f, l + 1>>
<1>0. f \in Nat /\ l + 1 \in 1 .. Len(FileData(v, q, f))
  BY DEF Readable
<1>1. ASSUME NEW p \in P
      PROVE  /\ p[1] \in Nat /\ p[2] \in Nat /\ p = <<p[1], p[2]>>
             /\ FileData(v, q, p[1])[p[2]].kind = "case"
  <2>1. /\ p[1] \in 1 .. n /\ p[2] \in 1 .. Len(FileData(v, q, p[1]))
        /\ p = <<p[1], p[2]>> /\ FileData(v, q, p[1])[p[2]].kind = "case"
    BY CasePlaceIs
  <2> QED
    BY <2>1
<1>2. FileData(v, q, f)[l + 1].kind = "case" => x \in P
  BY <1>0, CasePlaceIs
<1>3. x[1] = f /\ x[2] = l + 1
  OBVIOUS
<1> HIDE DEF P, x
<1>4. ASSUME NEW p \in A PROVE p \in B \/ (p = x /\ FileData(v, q, f)[l + 1].kind = "case")
  <2>1. p \in P /\ (p[1] < f \/ (p[1] = f /\ p[2] <= l + 1))
    BY DEF Upto
  <2>2. p[1] < f \/ (p[1] = f /\ p[2] <= l) \/ (p[1] = f /\ p[2] = l + 1)
    BY <1>0, <1>1, <2>1
  <2>3. CASE p[1] = f /\ p[2] = l + 1
    BY <1>1, <2>1, <2>3 DEF x
  <2> QED
    BY <2>1, <2>2, <2>3 DEF Upto
<1>5. ASSUME NEW p \in B PROVE p \in A /\ Earlier(p, x)
  <2>1. p \in P /\ (p[1] < f \/ (p[1] = f /\ p[2] <= l))
    BY DEF Upto
  <2>2. p[1] = f /\ p[2] <= l => p[2] <= l + 1 /\ p[2] < l + 1
    BY <1>1, <2>1
  <2> QED
    BY <1>3, <2>1, <2>2 DEF Upto, Earlier
<1>6. x \in P => x \in A
  BY <1>0, <1>3 DEF Upto
<1> HIDE DEF A, B
<1>7. FileData(v, q, f)[l + 1].kind # "case" => A = B
  BY <1>4, <1>5
<1>8. FileData(v, q, f)[l + 1].kind = "case" => A = B \cup {x}
  BY <1>2, <1>4, <1>5, <1>6
<1> QED
  BY <1>5, <1>7, <1>8 DEF A, B, P, x

\* Nothing is read at first, the next file adds nothing, and in the end all is read.
LEMMA UptoEnds ==
  ASSUME NEW v, NEW q, NEW n, Readable(v, q, n)
  PROVE  LET P == CasePlaces(v, q) IN
         /\ Upto(P, 1, 0) = {}
         /\ \A f \in 1 .. n :
              Upto(P, f + 1, 0) = Upto(P, f, Len(FileData(v, q, f)))
         /\ n # 0 => Upto(P, n, Len(FileData(v, q, n))) = P
<1> DEFINE P == CasePlaces(v, q)
<1>1. n \in Nat
  BY DEF Readable
<1>2. \A p \in P : p[1] \in 1 .. n /\ p[2] \in 1 .. Len(FileData(v, q, p[1]))
  BY CasePlaceIs
<1>3. \A f \in 1 .. n : Len(FileData(v, q, f)) \in Nat
  BY DEF Readable
<1> HIDE DEF P
<1>4. Upto(P, 1, 0) = {}
  <2> SUFFICES ASSUME NEW p \in Upto(P, 1, 0) PROVE FALSE
    OBVIOUS
  <2>1. p \in P /\ (p[1] < 1 \/ (p[1] = 1 /\ p[2] <= 0))
    BY DEF Upto
  <2>2. p[1] \in 1 .. n /\ p[2] \in Nat /\ p[2] # 0
    BY <1>1, <1>2, <1>3, <2>1
  <2> QED
    BY <1>1, <2>1, <2>2
<1>5. ASSUME NEW f \in 1 .. n
      PROVE  Upto(P, f + 1, 0) = Upto(P, f, Len(FileData(v, q, f)))
  <2>1. ASSUME NEW p \in P
        PROVE  (p[1] < f + 1 \/ (p[1] = f + 1 /\ p[2] <= 0)) <=>
               (p[1] < f \/ (p[1] = f /\ p[2] <= Len(FileData(v, q, f))))
    <3>1. p[1] \in 1 .. n /\ Len(FileData(v, q, p[1])) \in Nat
          /\ p[2] \in 1 .. Len(FileData(v, q, p[1]))
      BY <1>2, <1>3
    <3>2. p[2] \in Nat /\ ~(p[2] <= 0) /\ p[2] <= Len(FileData(v, q, p[1]))
      BY <3>1
    <3>3. p[1] < f + 1 <=> p[1] < f \/ p[1] = f
      BY <1>1, <3>1
    <3> QED
      BY <3>2, <3>3
  <2> QED
    BY <2>1 DEF Upto
<1>6. n # 0 => Upto(P, n, Len(FileData(v, q, n))) = P
  <2> SUFFICES ASSUME n # 0, NEW p \in P
               PROVE  p[1] < n \/ (p[1] = n /\ p[2] <= Len(FileData(v, q, n)))
    BY DEF Upto
  <2>1. p[1] \in 1 .. n /\ Len(FileData(v, q, p[1])) \in Nat
        /\ p[2] \in 1 .. Len(FileData(v, q, p[1]))
    BY <1>2, <1>3
  <2>2. p[2] <= Len(FileData(v, q, p[1]))
    BY <2>1
  <2>3. p[1] < n \/ p[1] = n
    BY <1>1, <2>1
  <2> QED
    BY <2>2, <2>3
<1> QED
  BY <1>4, <1>5, <1>6 DEF P

--------------------------------------------------------------------------------
(* The digests *)

\* A set of numbers has a least one.
LEMMA LeastOf ==
  ASSUME NEW S, S \subseteq Nat, S # {}
  PROVE  \E n \in S : \A m \in S : n <= m
<1>1. PICK n \in S : \A m \in S : ~(<<m, n>> \in OpToRel(<, Nat))
  BY WFMin, NatLessThanWellFounded
<1>2. \A m \in S : ~(m < n)
  BY <1>1 DEF OpToRel
<1> QED
  BY <1>2

LEMMA Extends ==
  ASSUME NEW a, a \in Seq(Range(a)), NEW e
  PROVE  /\ Append(a, e) \in Seq(Range(Append(a, e)))
         /\ Len(a) \in Nat /\ DOMAIN a = 1 .. Len(a)
         /\ Len(Append(a, e)) = Len(a) + 1 /\ DOMAIN Append(a, e) = 1 .. Len(a) + 1
         /\ \A k \in 1 .. Len(a) : Append(a, e)[k] = a[k]
         /\ Append(a, e)[Len(a) + 1] = e
         /\ Range(a) \subseteq Range(Append(a, e)) /\ e \in Range(Append(a, e))
<1> DEFINE b == Append(a, e)
<1>1. Len(a) \in Nat /\ DOMAIN a = 1 .. Len(a)
  OBVIOUS
<1>2. /\ b \in Seq(Range(a) \cup {e}) /\ Len(b) = Len(a) + 1
      /\ \A k \in 1 .. Len(a) : b[k] = a[k]
      /\ b[Len(a) + 1] = e
  <2>1. a \in Seq(Range(a) \cup {e}) /\ e \in Range(a) \cup {e}
    <3>1. \A k \in 1 .. Len(a) : a[k] \in Range(a) \cup {e}
      BY <1>1 DEF Range
    <3> QED
      BY <1>1, <3>1
  <2> QED
    BY <1>1, <2>1, AppendProperties
<1> HIDE DEF b
<1>3. DOMAIN b = 1 .. Len(a) + 1
  BY <1>1, <1>2
<1>4. \A k \in 1 .. Len(a) + 1 : b[k] \in Range(b)
  BY <1>3 DEF Range
<1>5. b \in Seq(Range(b))
  BY <1>1, <1>2, <1>3, <1>4
<1>6. Range(a) \subseteq Range(b)
  <2> SUFFICES ASSUME NEW x \in Range(a) PROVE x \in Range(b)
    OBVIOUS
  <2>1. PICK k \in 1 .. Len(a) : x = a[k]
    BY <1>1 DEF Range
  <2>2. k \in 1 .. Len(a) + 1 /\ b[k] = x
    BY <1>1, <1>2, <2>1
  <2> QED
    BY <1>4, <2>2
<1>7. e \in Range(b)
  <2>1. Len(a) + 1 \in 1 .. Len(a) + 1
    BY <1>1
  <2> QED
    BY <1>2, <1>4, <2>1
<1> QED
  BY <1>1, <1>2, <1>3, <1>5, <1>6, <1>7 DEF b

\* What the accumulators hold: sequences.
Kept(d) ==
  /\ d.exit \in Seq(Range(d.exit))
  /\ d.canonical \in Seq(Range(d.canonical))
  /\ d.class \in Seq(Range(d.class))

\* A command that ended with 0 has no failure class, any other has one.
LEMMA ClassTold ==
  ASSUME NEW res
  PROVE  classToken(res) = "OK" <=> res.exit = 0
<1>1. CASE res.exit = 0
  BY <1>1 DEF classToken
<1>2. CASE res.exit # 0
  <2> DEFINE Found == {k \in DOMAIN Classes : Classes[k] \in res.err}
  <2>1. classToken(res) = extractFailureClass(res.err)
    BY <1>2 DEF classToken
  <2>2. extractFailureClass(res.err) =
          IF Found = {} THEN "UNKNOWN" ELSE Classes[CHOOSE k \in Found : \A j \in Found : k <= j]
    BY DEF extractFailureClass
  <2>3. CASE Found = {}
    BY <1>2, <2>1, <2>2, <2>3
  <2>4. CASE Found # {}
    <3>1. Found \subseteq Nat /\ \A k \in Found : k \in DOMAIN Classes
      BY WorkerAssumption
    <3> HIDE DEF Found
    <3>2. PICK m \in Found : \A j \in Found : m <= j
      BY <2>4, <3>1, LeastOf
    <3>3. (CHOOSE k \in Found : \A j \in Found : k <= j) \in Found
      BY <3>2
    <3>4. classToken(res) \in Range(Classes)
      BY <2>1, <2>2, <2>4, <3>1, <3>3 DEF Range
    <3> QED
      BY <1>2, <3>4, WorkerAssumption
  <2> QED
    BY <2>3, <2>4
<1> QED
  BY <1>1, <1>2

\* One more case, run as it expects.
LEMMA SpellsMore ==
  ASSUME NEW d, Kept(d), NEW n \in Nat, NEW c, DOMAIN c = 1 .. n, Spells(d, c),
         NEW case, NEW res, assertVectorResult(case, res),
         NEW c2, DOMAIN c2 = 1 .. n + 1, \A k \in 1 .. n : c2[k] = c[k], c2[n + 1] = case
  PROVE  Kept(recordDigests(case, res, d)) /\ Spells(recordDigests(case, res, d), c2)
<1> DEFINE d2 == recordDigests(case, res, d)
<1>1. /\ d2.exit = Append(d.exit, <<case.id, res.exit>>)
      /\ d2.class = Append(d.class, <<case.id, classToken(res)>>)
      /\ d2.canonical = IF case.mode = "canonicalize"
                          THEN Append(d.canonical, <<case.id, res.out>>) ELSE d.canonical
  BY DEF recordDigests
<1>2. /\ res.exit = case.wantExit
      /\ case.wantStdout # None => res.out = case.wantStdout
  BY DEF assertVectorResult
<1>3. classToken(res) = "OK" <=> res.exit = 0
  BY ClassTold
<1> HIDE DEF d2
<1>4. \A k \in 1 .. n + 1 : k \in 1 .. n \/ k = n + 1
  OBVIOUS
<1>5. DOMAIN d.exit = 1 .. n /\ DOMAIN d.class = 1 .. n /\ Len(d.exit) = n /\ Len(d.class) = n
  <2>1. DOMAIN d.exit = 1 .. n /\ DOMAIN d.class = 1 .. n
    BY DEF Spells
  <2> QED
    BY <2>1 DEF Kept
<1>6. /\ d2.exit \in Seq(Range(d2.exit)) /\ DOMAIN d2.exit = 1 .. n + 1
      /\ \A k \in 1 .. n : d2.exit[k] = d.exit[k]
      /\ d2.exit[n + 1] = <<case.id, res.exit>>
  BY <1>1, <1>5, Extends DEF Kept
<1>7. /\ d2.class \in Seq(Range(d2.class)) /\ DOMAIN d2.class = 1 .. n + 1
      /\ \A k \in 1 .. n : d2.class[k] = d.class[k]
      /\ d2.class[n + 1] = <<case.id, classToken(res)>>
  BY <1>1, <1>5, Extends DEF Kept
<1>8. /\ d2.canonical \in Seq(Range(d2.canonical))
      /\ Range(d.canonical) \subseteq Range(d2.canonical)
      /\ case.mode = "canonicalize" => <<case.id, res.out>> \in Range(d2.canonical)
  <2>1. CASE case.mode = "canonicalize"
    BY <1>1, <2>1, Extends DEF Kept
  <2>2. CASE case.mode # "canonicalize"
    BY <1>1, <2>2 DEF Kept
  <2> QED
    BY <2>1, <2>2
<1>9. d2.exit = [k \in DOMAIN c2 |-> <<c2[k].id, c2[k].wantExit>>]
  <2>1. d.exit = [k \in 1 .. n |-> <<c[k].id, c[k].wantExit>>]
    BY DEF Spells
  <2>2. \A k \in 1 .. n : d2.exit[k] = <<c2[k].id, c2[k].wantExit>>
    BY <1>6, <2>1
  <2>3. d2.exit[n + 1] = <<c2[n + 1].id, c2[n + 1].wantExit>>
    BY <1>2, <1>6
  <2>4. \A k \in 1 .. n + 1 : d2.exit[k] = <<c2[k].id, c2[k].wantExit>>
    BY <1>4, <2>2, <2>3
  <2>5. d2.exit = [k \in 1 .. n + 1 |-> d2.exit[k]]
    BY <1>6
  <2> QED
    BY <2>4, <2>5
<1>10. ASSUME NEW k \in DOMAIN c2
       PROVE  /\ d2.class[k][1] = c2[k].id
              /\ d2.class[k][2] = "OK" <=> c2[k].wantExit = 0
              /\ c2[k].mode = "canonicalize" /\ c2[k].wantStdout # None =>
                   <<c2[k].id, c2[k].wantStdout>> \in Range(d2.canonical)
  <2>1. CASE k = n + 1
    <3>1. d2.class[k][1] = case.id /\ d2.class[k][2] = classToken(res) /\ c2[k] = case
      BY <1>7, <2>1
    <3> QED
      BY <1>2, <1>3, <1>8, <3>1
  <2>2. CASE k \in 1 .. n
    <3>1. d2.class[k] = d.class[k] /\ c2[k] = c[k]
      BY <1>7, <2>2
    <3>2. /\ d.class[k][1] = c[k].id
          /\ d.class[k][2] = "OK" <=> c[k].wantExit = 0
          /\ c[k].mode = "canonicalize" /\ c[k].wantStdout # None =>
               <<c[k].id, c[k].wantStdout>> \in Range(d.canonical)
      BY <2>2 DEF Spells
    <3> QED
      BY <1>8, <3>1, <3>2
  <2> QED
    BY <1>4, <2>1, <2>2
<1> QED
  BY <1>6, <1>7, <1>8, <1>9, <1>10 DEF Kept, Spells, d2

\* The same for the places of the cases.
LEMMA SpellsPlace ==
  ASSUME NEW d, Kept(d), NEW n \in Nat, NEW P, NEW v, NEW q, SpellsPlaces(d, n, P, v, q),
         NEW f, NEW l, \A p \in P : Earlier(p, <<f, l>>),
         NEW res, assertVectorResult(v[q[f]].data[l], res)
  PROVE  /\ Kept(recordDigests(v[q[f]].data[l], res, d))
         /\ SpellsPlaces(recordDigests(v[q[f]].data[l], res, d), n + 1, P \cup {<<f, l>>}, v, q)
<1> DEFINE x == <<f, l>>
           case == v[q[f]].data[l]
           d2 == recordDigests(case, res, d)
           CaseAt(p) == v[q[p[1]]].data[p[2]]
<1>1. PICK at \in [1 .. n -> P] :
        /\ Range(at) = P
        /\ \A j, k \in 1 .. n : j < k => Earlier(at[j], at[k])
        /\ Spells(d, [k \in 1 .. n |-> CaseAt(at[k])])
  BY DEF SpellsPlaces
<1> DEFINE at2 == [k \in 1 .. n + 1 |-> IF k = n + 1 THEN x ELSE at[k]]
           c == [k \in 1 .. n |-> CaseAt(at[k])]
           c2 == [k \in 1 .. n + 1 |-> CaseAt(at2[k])]
<1>2. \A k \in 1 .. n + 1 : k \in 1 .. n \/ k = n + 1
  OBVIOUS
<1>3. \A k \in 1 .. n : at2[k] = at[k] /\ at[k] \in P /\ k \in 1 .. n + 1
  OBVIOUS
<1>4. at2[n + 1] = x /\ n + 1 \in 1 .. n + 1 /\ DOMAIN at2 = 1 .. n + 1
  OBVIOUS
<1>5. CaseAt(x) = case
  OBVIOUS
<1> HIDE DEF at2
<1>6. at2 \in [1 .. n + 1 -> P \cup {x}]
  <2>1. \A k \in 1 .. n + 1 : at2[k] \in P \cup {x}
    BY <1>2, <1>3, <1>4
  <2>2. at2 = [k \in 1 .. n + 1 |-> at2[k]]
    BY DEF at2
  <2> QED
    BY <2>1, <2>2
<1>7. Range(at2) = P \cup {x}
  <2>1. ASSUME NEW p \in P PROVE p \in Range(at2)
    <3>1. PICK k \in 1 .. n : p = at[k]
      BY <1>1 DEF Range
    <3> QED
      BY <1>3, <1>4, <3>1 DEF Range
  <2>2. x \in Range(at2)
    BY <1>4 DEF Range
  <2>3. Range(at2) \subseteq P \cup {x}
    BY <1>6 DEF Range
  <2> HIDE DEF x
  <2> QED
    BY <2>1, <2>2, <2>3
<1>8. ASSUME NEW j \in 1 .. n + 1, NEW k \in 1 .. n + 1, j < k PROVE Earlier(at2[j], at2[k])
  <2>1. j \in 1 .. n
    BY <1>8
  <2>2. CASE k = n + 1
    BY <1>3, <1>4, <2>1, <2>2
  <2>3. CASE k \in 1 .. n
    BY <1>1, <1>3, <1>8, <2>1, <2>3
  <2> QED
    BY <1>2, <2>2, <2>3
<1>9. /\ DOMAIN c = 1 .. n /\ DOMAIN c2 = 1 .. n + 1
      /\ \A k \in 1 .. n : c2[k] = c[k]
      /\ c2[n + 1] = case
  BY <1>3, <1>4, <1>5
<1>10. Spells(d, c)
  BY <1>1
<1> HIDE DEF c, c2, case
<1>11. Kept(d2) /\ Spells(d2, c2)
  BY <1>9, <1>10, SpellsMore DEF case
<1> QED
  BY <1>6, <1>7, <1>8, <1>11 DEF SpellsPlaces, c2, case, x

NoRecords == [exit |-> <<>>, canonical |-> <<>>, verify |-> <<>>, class |-> <<>>]

LEMMA SpellsNothing ==
  ASSUME NEW v, NEW q
  PROVE  Kept(NoRecords) /\ SpellsPlaces(NoRecords, 0, {}, v, q)
<1>1. Kept(NoRecords)
  BY DEF Kept, NoRecords
<1> DEFINE at == [k \in 1 .. 0 |-> k]
           c == [k \in 1 .. 0 |-> v[q[at[k][1]]].data[at[k][2]]]
<1>2. at \in [1 .. 0 -> {}] /\ Range(at) = {}
  BY DEF Range
<1>3. Spells(NoRecords, c)
  <2>1. NoRecords.exit = <<>> /\ NoRecords.class = <<>>
    BY DEF NoRecords
  <2>2. DOMAIN c = 1 .. 0 /\ \A k : k \notin 1 .. 0
    OBVIOUS
  <2> HIDE DEF c
  <2>3. NoRecords.exit = [k \in DOMAIN c |-> <<c[k].id, c[k].wantExit>>]
    BY <2>1, <2>2
  <2>4. DOMAIN NoRecords.class = 1 .. 0
    BY <2>1
  <2> QED
    BY <2>2, <2>3, <2>4 DEF Spells
<1> HIDE DEF at
<1>4. \A j, k \in 1 .. 0 : j < k => Earlier(at[j], at[k])
  OBVIOUS
<1> QED
  BY <1>1, <1>2, <1>3, <1>4 DEF SpellsPlaces

--------------------------------------------------------------------------------
(* The run *)

\* What has been read, and what the evidence says, of the vectors v in the order q.
Reading(v, q) ==
  /\ file \in 1 .. Len(v) /\ line \in 0 .. Len(FileData(v, q, file))
  /\ ran \in Seq(Range(ran)) /\ Kept(digests)
  /\ SpellsPlaces(digests, Len(ran), Upto(CasePlaces(v, q), file, line), v, q)

Progress(v, q) ==
  /\ wpc = "vectors" => Reading(v, q)
  /\ wpc \in {"independence", "evidence"} =>
       SpellsPlaces(digests, Len(ran), CasePlaces(v, q), v, q)
  /\ evidence # None =>
       SpellsPlaces(evidence.digest, evidence.cases, CasePlaces(v, q), v, q)

\* The places of which the digests speak are those that have been read.
EvidenceInv ==
  /\ wpc \in {"parse", "extract", "verify"} =>
       file = 1 /\ line = 0 /\ ran = <<>> /\ digests = NoRecords /\ evidence = None
  /\ manifest = ManifestOf(sources) =>
       \A q \in ByName(sources.vectors) : Progress(sources.vectors, q)

\* The first line of the first file is next.
LEMMA ReadingStarts ==
  ASSUME NEW s \in Sources, NEW q \in ByName(s.vectors), manifest = ManifestOf(s),
         manifest.vectorFiles # <<>>,
         file = 1, line = 0, ran = <<>>, digests = NoRecords
  PROVE  Reading(s.vectors, q)
<1> DEFINE v == s.vectors
           n == Len(v)
<1>1. Readable(v, q, n)
  BY SourcesReadable
<1>2. DOMAIN manifest.vectorFiles = 1 .. n
  BY ReadInOrder
<1>3. n \in Nat /\ n # 0
  <2>1. n \in Nat
    BY <1>1 DEF Readable
  <2>2. manifest.vectorFiles = [k \in 1 .. n |-> manifest.vectorFiles[k]]
    <3>1. manifest.vectorFiles = LET order == CHOOSE o \in ByName(v) : TRUE
                                 IN  [k \in DOMAIN v |-> VectorPath(v[order[k]].name)]
      BY DEF ManifestOf
    <3> QED
      BY <1>2, <3>1
  <2>3. ASSUME n = 0 PROVE manifest.vectorFiles = <<>>
    BY <2>2, <2>3
  <2> QED
    BY <2>1, <2>3
<1>4. Upto(CasePlaces(v, q), 1, 0) = {}
  BY <1>1, UptoEnds
<1>5. Len(FileData(v, q, 1)) \in Nat /\ 1 \in 1 .. n
  BY <1>1, <1>3 DEF Readable
<1>6. Kept(NoRecords) /\ SpellsPlaces(NoRecords, 0, {}, v, q)
  BY SpellsNothing
<1>7. ran \in Seq(Range(ran)) /\ Len(ran) = 0
  OBVIOUS
<1> HIDE DEF v, n
<1>8. file \in 1 .. Len(v) /\ line \in 0 .. Len(FileData(v, q, file))
  BY <1>5 DEF n
<1> QED
  BY <1>4, <1>6, <1>7, <1>8 DEF Reading, v

\* A line is read.
LEMMA ReadingGoesOn ==
  ASSUME NEW s \in Sources, NEW q \in ByName(s.vectors), manifest = ManifestOf(s),
         verifyExtractedBundle(tree, manifest), Reading(s.vectors, q),
         RunLine, wpc' # "exited"
  PROVE  Reading(s.vectors, q)'
<1> DEFINE v == s.vectors
           n == Len(v)
           P == CasePlaces(v, q)
           vector == FileData(v, q, file)[line + 1]
<1>1. Readable(v, q, n)
  BY SourcesReadable
<1>2. Lines = FileData(v, q, file)
  BY LinesRead DEF Reading, Lines, FileData
<1>3. /\ file \in 1 .. n /\ Len(FileData(v, q, file)) \in Nat
      /\ line \in 0 .. Len(FileData(v, q, file))
      /\ ran \in Seq(Range(ran)) /\ Kept(digests)
      /\ SpellsPlaces(digests, Len(ran), Upto(P, file, line), v, q)
  BY <1>1 DEF Reading, Readable
<1> HIDE DEF v, n, P
<1>4. /\ line < Len(FileData(v, q, file)) /\ line' = line + 1 /\ file' = file
      /\ \/ vector.kind = "skip" /\ ran' = ran /\ digests' = digests
         \/ /\ vector.kind = "case" /\ ran' = Append(ran, vector)
            /\ \E res : assertVectorResult(vector, res)
                        /\ digests' = recordDigests(vector, res, digests)
  <2>1. /\ line < Len(Lines) /\ vector = Lines[line + 1]
    BY <1>2 DEF RunLine
  <2>2. CASE vector.kind = "skip" /\ line' = line + 1 /\ UNCHANGED <<file, ran, digests>>
    BY <1>2, <2>1, <2>2
  <2>3. CASE /\ vector.kind = "case"
             /\ \E res \in CLIResults \cup KilledResults :
                  /\ assertVectorResult(vector, res)
                  /\ digests' = recordDigests(vector, res, digests)
             /\ ran' = Append(ran, vector)
             /\ line' = line + 1
             /\ UNCHANGED file
    BY <1>2, <2>1, <2>3
  <2> HIDE DEF vector
  <2> QED
    BY <2>1, <2>2, <2>3 DEF RunLine, Fail, Exit
<1>5. /\ line \in Nat /\ line + 1 \in 0 .. Len(FileData(v, q, file))
  BY <1>3, <1>4
<1>6. /\ vector.kind # "case" => Upto(P, file, line + 1) = Upto(P, file, line)
      /\ vector.kind = "case" =>
           /\ Upto(P, file, line + 1) = Upto(P, file, line) \cup {<<file, line + 1>>}
           /\ \A p \in Upto(P, file, line) : Earlier(p, <<file, line + 1>>)
  BY <1>1, <1>3, <1>4, <1>5, UptoNext DEF P
<1>7. file' \in 1 .. n /\ line' \in 0 .. Len(FileData(v, q, file'))
  BY <1>3, <1>4, <1>5
<1>8. CASE vector.kind = "skip" /\ ran' = ran /\ digests' = digests
  <2>1. Upto(P, file', line') = Upto(P, file, line)
    BY <1>4, <1>6, <1>8
  <2>2. /\ ran' \in Seq(Range(ran')) /\ Kept(digests')
        /\ SpellsPlaces(digests', Len(ran'), Upto(P, file', line'), v, q)
    BY <1>3, <1>8, <2>1
  <2> QED
    BY <1>7, <2>2 DEF Reading, P, v, n
<1>9. ASSUME NEW res, vector.kind = "case", ran' = Append(ran, vector),
             assertVectorResult(vector, res), digests' = recordDigests(vector, res, digests)
      PROVE  Reading(s.vectors, q)'
  <2>1. Upto(P, file', line') = Upto(P, file, line) \cup {<<file, line + 1>>}
    BY <1>4, <1>6, <1>9
  <2>2. vector = v[q[file]].data[line + 1]
    BY DEF FileData
  <2>3. ran' \in Seq(Range(ran')) /\ Len(ran') = Len(ran) + 1 /\ Len(ran) \in Nat
    BY <1>3, <1>9, Extends
  <2> HIDE DEF vector
  <2>4. /\ Kept(digests')
        /\ SpellsPlaces(digests', Len(ran) + 1, Upto(P, file, line) \cup {<<file, line + 1>>}, v, q)
    BY <1>3, <1>6, <1>9, <2>2, <2>3, SpellsPlace
  <2>5. SpellsPlaces(digests', Len(ran'), Upto(P, file', line'), v, q)
    BY <2>1, <2>3, <2>4
  <2> QED
    BY <1>7, <2>3, <2>4, <2>5 DEF Reading, P, v, n
<1> QED
  BY <1>4, <1>8, <1>9

\* The next file is opened, or there is none.
LEMMA ReadingTurns ==
  ASSUME NEW s \in Sources, NEW q \in ByName(s.vectors), manifest = ManifestOf(s),
         verifyExtractedBundle(tree, manifest), Reading(s.vectors, q),
         EndOfFile, wpc' # "exited"
  PROVE  /\ wpc' = "vectors" => Reading(s.vectors, q)'
         /\ wpc' # "vectors" =>
              SpellsPlaces(digests', Len(ran'), CasePlaces(s.vectors, q), s.vectors, q)
<1> DEFINE v == s.vectors
           n == Len(v)
           P == CasePlaces(v, q)
<1>1. Readable(v, q, n)
  BY SourcesReadable
<1>2. Lines = FileData(v, q, file) /\ Len(SortedFiles) = n
  BY LinesRead, ReadInOrder DEF Reading, Lines, FileData
<1>3. /\ file \in 1 .. n /\ n \in Nat
      /\ ran \in Seq(Range(ran)) /\ Kept(digests)
      /\ SpellsPlaces(digests, Len(ran), Upto(P, file, line), v, q)
  BY <1>1 DEF Reading, Readable
<1>4. /\ \A f \in 1 .. n : Upto(P, f + 1, 0) = Upto(P, f, Len(FileData(v, q, f)))
      /\ n # 0 => Upto(P, n, Len(FileData(v, q, n))) = P
      /\ \A f \in 1 .. n : Len(FileData(v, q, f)) \in Nat
  BY <1>1, UptoEnds DEF Readable
<1> HIDE DEF v, n, P
<1>5. line = Len(FileData(v, q, file)) /\ UNCHANGED <<ran, digests>>
  BY <1>2 DEF EndOfFile, Fail, Exit
<1>6. CASE file < n /\ file' = file + 1 /\ line' = 0 /\ wpc' = "vectors"
  <2>1. file + 1 \in 1 .. n
    BY <1>3, <1>6
  <2>2. file' \in 1 .. n /\ line' \in 0 .. Len(FileData(v, q, file'))
    BY <1>4, <1>6, <2>1
  <2>3. Upto(P, file', line') = Upto(P, file, line)
    BY <1>3, <1>4, <1>5, <1>6
  <2>4. /\ ran' \in Seq(Range(ran')) /\ Kept(digests')
        /\ SpellsPlaces(digests', Len(ran'), Upto(P, file', line'), v, q)
    BY <1>3, <1>5, <2>3
  <2> QED
    BY <1>6, <2>2, <2>4 DEF Reading, P, v, n
<1>7. CASE file = n /\ wpc' = "independence"
  <2>1. Upto(P, file, line) = P
    BY <1>3, <1>4, <1>5, <1>7
  <2>2. SpellsPlaces(digests', Len(ran'), P, v, q)
    BY <1>3, <1>5, <2>1
  <2> QED
    BY <1>7, <2>2 DEF P, v
<1> QED
  BY <1>2, <1>6, <1>7 DEF EndOfFile, Fail, Exit, Step

\* A step under the manifest of the sources.
LEMMA ProgressStep ==
  ASSUME NEW s \in Sources, NEW q \in ByName(s.vectors), Worker,
         manifest = ManifestOf(s), manifest' = manifest,
         wpc \in {"parse", "extract", "verify"} =>
           file = 1 /\ line = 0 /\ ran = <<>> /\ digests = NoRecords /\ evidence = None,
         wpc \in Running => verifyExtractedBundle(tree, manifest),
         Progress(s.vectors, q)
  PROVE  Progress(s.vectors, q)'
<1> DEFINE v == s.vectors
           P == CasePlaces(v, q)
<1>1. CASE evidence' = evidence /\ wpc' \notin {"vectors", "independence", "evidence"}
  BY <1>1 DEF Progress
<1>2. CASE ParseArgs \/ ExtractBundle
  <2>1. evidence' = evidence /\ wpc' \notin {"vectors", "independence", "evidence"}
    BY <1>2 DEF ParseArgs, ExtractBundle, Fail, Exit, Step
  <2> QED
    BY <1>1, <2>1
<1>3. CASE Verify
  <2>1. CASE wpc' = "exited"
    <3>1. evidence' = evidence
      BY <1>3 DEF Verify, Fail, Exit, Step
    <3> QED
      BY <1>1, <2>1, <3>1
  <2>2. CASE wpc' # "exited"
    <3>1. /\ wpc = "verify" /\ wpc' = "vectors" /\ manifest.vectorFiles # <<>>
          /\ UNCHANGED <<file, line, ran, digests, evidence>>
      BY <1>3, <2>2 DEF Verify, Fail, Exit, Step
    <3>2. Reading(v, q)
      BY <3>1, ReadingStarts
    <3>3. Reading(v, q)'
      BY <3>1, <3>2 DEF Reading
    <3> QED
      BY <3>1, <3>3 DEF Progress
  <2> QED
    BY <2>1, <2>2
<1>4. CASE RunLine
  <2>1. evidence' = evidence /\ wpc = "vectors" /\ wpc' \in {"vectors", "exited"}
    BY <1>4 DEF RunLine, Fail, Exit
  <2>2. CASE wpc' = "vectors"
    <3>1. Reading(v, q) /\ verifyExtractedBundle(tree, manifest)
      BY <2>1 DEF Progress, Running
    <3>2. Reading(v, q)'
      BY <1>4, <2>2, <3>1, ReadingGoesOn
    <3> QED
      BY <2>1, <2>2, <3>2 DEF Progress
  <2> QED
    BY <1>1, <2>1, <2>2
<1>5. CASE EndOfFile
  <2>1. evidence' = evidence /\ wpc = "vectors" /\ wpc' \in {"vectors", "independence", "exited"}
    BY <1>5 DEF EndOfFile, Fail, Exit, Step
  <2>2. CASE wpc' # "exited"
    <3>1. Reading(v, q) /\ verifyExtractedBundle(tree, manifest)
      BY <2>1 DEF Progress, Running
    <3>2. /\ wpc' = "vectors" => Reading(v, q)'
          /\ wpc' # "vectors" => SpellsPlaces(digests', Len(ran'), P, v, q)
      BY <1>5, <2>2, <3>1, ReadingTurns
    <3> QED
      BY <2>1, <2>2, <3>2 DEF Progress
  <2> QED
    BY <1>1, <2>1, <2>2
<1>6. CASE CheckEnvironmentIndependence
  <2>1. /\ evidence' = evidence /\ ran' = ran /\ digests' = digests /\ wpc = "independence"
        /\ wpc' \in {"evidence", "exited"}
    BY <1>6 DEF CheckEnvironmentIndependence, Fail, Exit, Step
  <2> QED
    BY <2>1 DEF Progress
<1>7. CASE WriteEvidence
  <2>1. wpc = "evidence" /\ wpc' \in {"report", "exited"}
        /\ (evidence' = evidence
            \/ evidence' = [passed |-> TRUE, cases |-> Len(ran), digest |-> digests])
    BY <1>7 DEF WriteEvidence, Fail, Exit, Step
  <2>2. CASE evidence' = evidence
    BY <1>1, <2>1, <2>2
  <2>3. CASE evidence' = [passed |-> TRUE, cases |-> Len(ran), digest |-> digests]
    <3>1. evidence'.cases = Len(ran) /\ evidence'.digest = digests
      BY <2>3
    <3>2. SpellsPlaces(digests, Len(ran), P, v, q)
      BY <2>1 DEF Progress
    <3>3. SpellsPlaces(evidence'.digest, evidence'.cases, P, v, q)
      BY <3>1, <3>2
    <3> QED
      BY <2>1, <3>3 DEF Progress
  <2> QED
    BY <2>1, <2>2, <2>3
<1>8. CASE Report
  <2>1. evidence' = evidence /\ wpc' = "exited"
    BY <1>8 DEF Report, Fail, Exit
  <2> QED
    BY <1>1, <2>1
<1> QED
  BY <1>2, <1>3, <1>4, <1>5, <1>6, <1>7, <1>8 DEF Worker

LEMMA EvidenceStep ==
  ASSUME EvidenceInv, VerifiedInv, sources \in Sources, [Next]_vars
  PROVE  EvidenceInv'
<1>1. CASE UNCHANGED <<sources, workerVars>>
  BY <1>1 DEF EvidenceInv, Progress, Reading, workerVars
<1>2. CASE Worker /\ UNCHANGED bundleVars
  <2> DEFINE fresh == /\ file = 1 /\ line = 0 /\ ran = <<>> /\ digests = NoRecords
                      /\ evidence = None
  <2>0. sources' = sources
    BY <1>2 DEF bundleVars
  <2>1. wpc' \in {"parse", "extract", "verify"} => fresh'
    <3>1. CASE ParseArgs \/ ExtractBundle
      <4> SUFFICES ASSUME wpc' \in {"parse", "extract", "verify"} PROVE fresh'
        OBVIOUS
      <4>1. wpc \in {"parse", "extract", "verify"}
            /\ UNCHANGED <<file, line, ran, digests, evidence>>
        BY <3>1 DEF ParseArgs, ExtractBundle, Fail, Exit, Step
      <4> QED
        BY <4>1 DEF EvidenceInv
    <3>2. CASE Verify \/ RunLine \/ EndOfFile
      <4>1. wpc' \notin {"parse", "extract", "verify"}
        BY <3>2 DEF Verify, RunLine, EndOfFile, Fail, Exit, Step
      <4> QED
        BY <4>1
    <3>3. CASE CheckEnvironmentIndependence \/ WriteEvidence \/ Report
      <4>1. wpc' \notin {"parse", "extract", "verify"}
        BY <3>3 DEF CheckEnvironmentIndependence, WriteEvidence, Report, Fail, Exit, Step
      <4> QED
        BY <4>1
    <3> QED
      BY <1>2, <3>1, <3>2, <3>3 DEF Worker
  <2>2. ASSUME NEW s, s = sources, manifest' = ManifestOf(s), NEW q \in ByName(s.vectors)
        PROVE  Progress(s.vectors, q)'
    <3>1. CASE manifest' = manifest
      <4>1. Progress(s.vectors, q)
        BY <2>2, <3>1 DEF EvidenceInv
      <4> QED
        BY <1>2, <2>2, <3>1, <4>1, ProgressStep DEF EvidenceInv, VerifiedInv
    <3>2. CASE manifest' # manifest
      <4>1. ExtractBundle /\ wpc' = "verify" /\ wpc = "extract" /\ evidence' = evidence
        BY <1>2, <3>2 DEF Worker, ParseArgs, ExtractBundle, Verify, RunLine, EndOfFile,
             CheckEnvironmentIndependence, WriteEvidence, Report, Fail, Exit, Step
      <4>2. evidence' = None
        BY <4>1 DEF EvidenceInv
      <4> QED
        BY <4>1, <4>2 DEF Progress
    <3> QED
      BY <3>1, <3>2
  <2>3. PICK s : s = sources
    OBVIOUS
  <2>4. manifest' = ManifestOf(s) => \A q \in ByName(s.vectors) : Progress(s.vectors, q)'
    BY <2>2, <2>3
  <2>5. (manifest = ManifestOf(sources) =>
           \A q \in ByName(sources.vectors) : Progress(sources.vectors, q))'
    BY <2>0, <2>3, <2>4 DEF Progress, Reading
  <2> QED
    BY <2>1, <2>5 DEF EvidenceInv
<1> QED
  <2>1. CASE CreateBundle /\ UNCHANGED workerVars
    <3>1. sources' = sources
      BY <2>1 DEF CreateBundle, RefuseInputs, ReadInputs, OpenArchive, WriteEntry, CloseArchive
    <3> QED
      BY <1>1, <2>1, <3>1
  <2>2. CASE Replace \/ UNCHANGED vars
    BY <1>1, <2>2 DEF Replace, vars, bundleVars
  <2> QED
    BY <1>2, <2>1, <2>2 DEF Next, Done

\* Whatever the binary prints and returns, evidence that is written tells of every
\* case of the packed files in their order, and says of each what it expects.
THEOREM EvidenceTrue == Spec => []EvidenceSpellsVectors
<1>1. Init => EvidenceInv /\ VerifiedInv /\ CreateInv
  BY DEF Init, BundleInit, WorkerInit, EvidenceInv, NoRecords, VerifiedInv, CreateInv, Running,
         Progress
<1>2. EvidenceInv /\ VerifiedInv /\ CreateInv /\ [Next]_vars =>
        (EvidenceInv /\ VerifiedInv /\ CreateInv)'
  BY EvidenceStep, VerifiedStep, CreateStep DEF CreateInv
<1>3. EvidenceInv => EvidenceSpellsVectors
  BY DEF EvidenceInv, Progress, EvidenceSpellsVectors
<1> QED
  BY <1>1, <1>2, <1>3, PTL DEF Spec

================================================================================
