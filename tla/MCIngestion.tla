----------------------------- MODULE MCIngestion -----------------------------
(* Instances of Ingestion for TLC. *)
EXTENDS Ingestion

Move(p)   == [flat |-> FALSE, close |-> p]
Quiet(p)  == [flat |-> TRUE, close |-> p]

\* Four minutes in two chunks: a market that rests across the boundary of the
\* chunks and moves again; one that rests, jumps, and rests again to the end.
SomeResponses ==
  { <<Move(1), Quiet(1), Quiet(1), Move(2)>>,
    <<Quiet(1), Quiet(2), Move(3), Quiet(3)>> }

\* One that rests at the end of a chunk and moves throughout the next.
MovingOn == { <<Move(1), Quiet(1), Move(2), Move(3)>> }

Symmetry == Permutations(Jobs)
==============================================================================
