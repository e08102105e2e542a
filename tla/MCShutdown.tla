----------------------------- MODULE MCShutdown -----------------------------
(***************************************************************************)
(* Instances of Shutdown for TLC.                                          *)
(***************************************************************************)
EXTENDS Shutdown, TLC

Symmetry == Permutations(Requests) \cup Permutations(Slots) \cup Permutations(Signals)
=============================================================================
