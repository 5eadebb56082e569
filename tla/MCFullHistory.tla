--------------------------- MODULE MCFullHistory ---------------------------
(* Model-checking instances of FullHistory.                                *)
EXTENDS FullHistory, TLC

\* Request ids are interchangeable (safety runs only).
IdSymmetry == Permutations(Ids)
=============================================================================
