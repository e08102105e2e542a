-------------------------- MODULE MCJobProcessing --------------------------
(***************************************************************************)
(* Instances of JobProcessing for TLC: the slots of one or two instances.  *)
(***************************************************************************)
EXTENDS JobProcessing, TLC

CONSTANTS s1, s2, p1, p2

OneHome == s1 :> p1 @@ s2 :> p1
TwoHomes == s1 :> p1 @@ s2 :> p2
SoleHome == s1 :> p1

Symmetry == Permutations(Jobs)
=============================================================================
