----------------------------- MODULE MCJobStats -----------------------------
(***************************************************************************)
(* Instances of JobStats for TLC: one instance with two slots.             *)
(***************************************************************************)
EXTENDS JobStats, TLC

CONSTANTS s1, s2, p1

OneHome == s1 :> p1 @@ s2 :> p1
=============================================================================
