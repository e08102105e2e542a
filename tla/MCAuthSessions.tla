-------------------------- MODULE MCAuthSessions --------------------------
(***************************************************************************)
(* Instances of AuthSessions for TLC.  Calls are interchangeable.          *)
(***************************************************************************)
EXTENDS AuthSessions, TLC

Symmetry == Permutations(Calls)
=============================================================================
