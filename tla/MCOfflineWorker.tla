----------------------------- MODULE MCOfflineWorker -----------------------------
(***************************************************************************)
(* OfflineWorker on seven sets of source files of at most two vector files *)
(* with two lines each, and one archive of each kind of damage.            *)
(***************************************************************************)
EXTENDS OfflineWorker

MCClasses == <<"INVALID_GRAMMAR", "CLI_USAGE">>
MCOutputs == {"", "out"}
MCDiagnostics == {{}, {"INVALID_GRAMMAR"}, {"INVALID_GRAMMAR", "CLI_USAGE"}}
MCExitCodes == {0, 2}

Line(kind, id, mode, exit) ==
  [kind |-> kind, id |-> id, mode |-> mode, wantExit |-> exit, wantStdout |-> None,
   wantStderr |-> None, wantStderrContains |-> None]

Comment  == Line("skip", "none", "none", 0)
Garbled  == Line("garbled", "none", "none", 0)
Accepts  == [Line("case", "v1", "canonicalize", 0) EXCEPT !.wantStdout = "out", !.wantStderr = {}]
Rejects  == [Line("case", "v2", "verify", 2) EXCEPT !.wantStderrContains = {"CLI_USAGE"}]
Anything == Line("case", "v3", "canonicalize", 0)

Content(name) == <<Line("file", name, "none", 0)>>

Files(vectors) == [core |-> [c \in Core |-> Content(c)], vectors |-> vectors]
File(name, data) == [name |-> name, data |-> data]

\* The matched files come in the order of their directories, not of their names.
TwoDirectories == Files(<<File(2, <<Rejects, Comment>>), File(1, <<Accepts, Anything>>)>>)

MCSources ==
  {TwoDirectories,
   Files(<<File(1, <<Comment, Accepts>>)>>),
   Files(<<File(1, <<Comment>>), File(2, <<>>)>>),
   Files(<<File(1, <<Accepts, Garbled>>)>>),
   Files(<<File(1, <<Accepts>>), File(1, <<Rejects>>)>>),
   Files(<<File(1, <<Accepts>>), File(1, <<Accepts>>)>>),
   Files(<<>>)}

\* One entry changed; one entry repeated with another content; a file missing;
\* an unsafe path; a digest missing; the files and manifest of another binary.
MCReplacements(a) ==
  LET n == Len(a.entries)
      Manifest == a.entries[n].body
      WithManifest(m) == [a EXCEPT !.entries[n].body = m]
  IN  {[a EXCEPT !.entries[k].body = <<Anything>>] : k \in {1, 5}}
        \cup {[a EXCEPT !.entries = Append(@, Entry(@[k].path, <<Anything>>))] : k \in {1, 5}}
        \cup {[a EXCEPT !.entries = Tail(@)], [a EXCEPT !.entries = Front(@)]}
        \cup {[a EXCEPT !.entries = Append(@, Entry(<<"..", "jcs-canon">>, <<Anything>>))]}
        \cup {WithManifest([Manifest EXCEPT !.sha["worker"] = NoDigest]),
              WithManifest([Manifest EXCEPT !.vectorFiles = Tail(@)]),
              WithManifest([Manifest EXCEPT !.vectorSha = [p \in {} |-> NoDigest]])}
        \cup {[WithManifest([Manifest EXCEPT !.sha["binary"] = sha256Hex(Content("other"))])
                 EXCEPT !.entries[1].body = Content("other")]}

===============================================================================
