--------------------------- MODULE MCCommandPlane ---------------------------
(* Model-checking instances of CommandPlane.                               *)
EXTENDS CommandPlane, TLC

\* Ids are interchangeable (safety runs only).
IdSymmetry == Permutations(HistoryIds) \cup Permutations(LiveIds) \cup Permutations(ClockIds)

\* Every kind of call the terminal can give up on.
AnyCall == Kinds \ {"idle"}
=============================================================================
