------------------------------ MODULE MCRecords ------------------------------
(* A small instance of Records.                                               *)
EXTENDS Records, TLC

CONSTANTS r1, r2, r3, m1, a1

\* One mission, open, and one row of another table to be created.
MCSeed == m1 :> [status |-> Pending, text |-> 1]

\* None of the properties tells one request from another.
Symmetry == Permutations(Requests)
=============================================================================
