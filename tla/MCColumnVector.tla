---------------------------- MODULE MCColumnVector ----------------------------
(***************************************************************************)
(* ColumnVector on two handles (a vector and its shallow clone, as in the  *)
(* varchar test), two buffer addresses, one inline and one heap-backed     *)
(* value, a default capacity of one slot and Reserve up to two.            *)
(***************************************************************************)
EXTENDS ColumnVector, TLC

CONSTANTS v1, v2, b1, b2, i1, h1

MCVectors == {v1, v2}
MCBufIds == {b1, b2}

\* Handles and buffer addresses are interchangeable; the values are not
\* (one is inline, the other heap-backed).
HandleSymmetry == Permutations(MCVectors) \cup Permutations(MCBufIds)

=============================================================================
