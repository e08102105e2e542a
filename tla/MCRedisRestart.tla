--------------------------- MODULE MCRedisRestart ---------------------------
(***************************************************************************)
(* Instances of RedisRestart for TLC: two instances with a slot each.      *)
(***************************************************************************)
EXTENDS RedisRestart, TLC

CONSTANTS s1, s2, p1, p2

TwoHomes == s1 :> p1 @@ s2 :> p2
=============================================================================
