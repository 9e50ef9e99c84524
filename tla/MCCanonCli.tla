------------------------------ MODULE MCCanonCli ------------------------------
(***************************************************************************)
(* CanonCli for every command line of up to three arguments over a small   *)
(* vocabulary, every pair of streams, and every combination of failures.   *)
(***************************************************************************)
EXTENDS CanonCli

MCMaxInput == 2
MCPaths == {"f"}
MCTexts == {"canonical", "loose", "bad"}
MCJudgement == [t \in MCTexts |-> IF t = "bad" THEN "DUPLICATE_KEY" ELSE "ok"]
MCCanonical == [t \in MCTexts |-> IF t = "loose" THEN "canonical" ELSE t]

Words == {"canonicalize", "verify", "--quiet", "--help", "--version", "-", "f", "-x"}

MCArgLists ==
  {<<>>, <<"bogus">>, <<"bogus", "f">>}
    \cup [1 .. 1 -> Words \ {"-x", "-", "f", "--quiet"}]
    \cup {<<c, w>> : c \in Command, w \in Words}
    \cup {<<c, v, w>> : c \in Command, v \in Words \ {"-x"}, w \in {"-", "f", "-x"}}

\* Empty, exactly at the limit, and beyond it, each with and without an error.
MCStreams ==
  [size : {0, 1, 2, 3, 4}, broken : {FALSE}, text : MCTexts]
    \cup [size : {0, 1, 2, 3}, broken : {TRUE}, text : {"bad"}]

================================================================================
