---------------------------- MODULE MCRedisQueue ----------------------------
(* Model-checking instance of RedisQueue.                                  *)
EXTENDS RedisQueue, TLC

\* Jobs and clients are interchangeable.
MCSymmetry == Permutations(Jobs) \cup Permutations(Clients)
=============================================================================
