----------------------------- MODULE MCFileIndex -----------------------------
(* Small instances of the file index. *)
EXTENDS FileIndexProperties, SearchRebuild, SequencesExt

SomeOrder ==
  LET order == SetToSeq(Files)
  IN [f \in Files |-> CHOOSE i \in DOMAIN order : order[i] = f]
\* The file with the last path hash starts out eligible and indexed, any other as in RebuildInit.
LastFile == CHOOSE f \in Files : \A g \in Files : HashOrder[g] <= HashOrder[f]
OneIndexedInit == RebuildInit /\ disk[LastFile].content \in Eligible
OneIndexedSpec == OneIndexedInit /\ [][RebuildNext]_rebuildVars

\* Workers are interchangeable, and so are eligible contents.
IndexSymmetry == Permutations(Workers) \cup Permutations(Eligible)
=============================================================================
