---------------------------- MODULE MCRedisClient -----------------------------
(* A small instance of RedisClient.                                           *)
EXTENDS RedisClient

CONSTANTS t1, t2
=============================================================================
