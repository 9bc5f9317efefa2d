----------------------- MODULE MCTransmutationPipeline -----------------------
(* A small instance of TransmutationPipeline: one row seeded by init.sql, the *)
(* other ids free, and a handful of requests.                                 *)
EXTENDS TransmutationPipeline, TLC

CONSTANTS r1, r2, t1, t2

RequestSymmetry == Permutations(Requests)
=============================================================================
