---------------------------- MODULE MCRateLimits ----------------------------
(***************************************************************************)
(* Instances of RateLimits for TLC: the API limiter, shared by two routes, *)
(* and a limiter with another window and limit.                            *)
(***************************************************************************)
EXTENDS RateLimits

ShortWindows == "api" :> 3 @@ "auth" :> 2
SmallLimits == "api" :> 2 @@ "auth" :> 3
=============================================================================
