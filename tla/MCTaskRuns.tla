----------------------------- MODULE MCTaskRuns -----------------------------
(* Small boards for TLC.  Tasks are alike, and so are runs.                  *)
EXTENDS TaskRuns, TLC

Symmetry == Permutations(Tasks) \cup Permutations(Runs)
=============================================================================
