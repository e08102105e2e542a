--------------------------- MODULE MCAccessGrants ---------------------------
(***************************************************************************)
(* Instances of AccessGrants for TLC: filenames without an extension, with *)
(* one, and with the same one after another.                               *)
(***************************************************************************)
EXTENDS AccessGrants, TLC

SmallFiles == {<<"a">>, <<"a", ".", "b">>, <<"a", ".", "c", ".", "b">>}

Symmetry == Permutations(Sessions)
=============================================================================
