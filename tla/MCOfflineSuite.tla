------------------------------ MODULE MCOfflineSuite ------------------------------
(***************************************************************************)
(* OfflineSuite with two directories that may hold the files of an earlier *)
(* run, three trees, two commits, two aggregates and one replaced file.    *)
(***************************************************************************)
EXTENDS OfflineSuite

MCDirs == {"x86_64", "arm64"}

\* Two commits, and uncommitted changes on the first.
MCCommitOf == [t \in Trees |-> IF t = "c2" THEN "c2" ELSE "c1"]

EmptyDir ==
  [matrix |-> "v1", profile |-> "v1", binary |-> None, bundle |-> None, evidence |-> None,
   audit |-> None, checksums |-> None, index |-> FALSE]

EarlierBundle == [binary |-> "c1", matrix |-> "v1", profile |-> "v1", made |-> "earlier"]

EarlierEvidence ==
  [bundle |-> EarlierBundle, control |-> "c1", matrix |-> "v1", profile |-> "v1", commit |-> "c1",
   aggregate |-> "d1", made |-> "earlier", used |-> {EarlierBundle},
   parsed |-> [matrix |-> "v1", profile |-> "v1"]]

UsedDir ==
  [EmptyDir EXCEPT
     !.binary = "c1", !.bundle = EarlierBundle, !.evidence = EarlierEvidence,
     !.audit = [result |-> "PASS", of |-> EarlierEvidence],
     !.checksums = [bundle |-> EarlierBundle, evidence |-> EarlierEvidence], !.index = TRUE]

MCEarlierFiles == {EmptyDir, UsedDir}
MCNoEarlierFiles == {EmptyDir}
MCEarlierReports == {None, [result |-> "PASS", x86 |-> EarlierEvidence, arm |-> EarlierEvidence]}
MCNoEarlierReports == {None}

===============================================================================
