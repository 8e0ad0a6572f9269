------------------------- MODULE MCRedisRedemption ---------------------------
(***************************************************************************)
(* RedisRedemption for TLC.                                                *)
(***************************************************************************)
EXTENDS RedisRedemption, TLC

\* Requests are interchangeable: no action or invariant names one.
Symmetric == Permutations(Request)
=============================================================================
