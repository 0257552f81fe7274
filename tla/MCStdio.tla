------------------------------ MODULE MCStdio ------------------------------
(***************************************************************************)
(* A file, two handles and two FILE objects; a write buffer of two bytes,  *)
(* and sizes that wrap at eight.                                           *)
(***************************************************************************)
EXTENDS Stdio, TLC

MCContents == {<<"a", "n", "a">>}
MCSymmetry == Permutations(Slot)
MCOffsets == {-1, 1}

=============================================================================
