---------------------------- MODULE MCVerification ----------------------------
(* A small instance of Verification: one row of each table.                   *)
EXTENDS Verification, TLC

CONSTANTS t1, m1, c1

\* The transmutation init.sql inserts as PROCESSING, two days old, without a
\* task, and a mission that is not finished.
MCSeed ==
  t1 :> [status |-> "PROCESSING", old |-> TRUE] @@ m1 :> [status |-> "PENDING", old |-> FALSE]
=============================================================================
