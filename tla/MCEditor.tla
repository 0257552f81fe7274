------------------------------ MODULE MCEditor ------------------------------
(***************************************************************************)
(* A screen of four columns with two rows of text, a buffer of up to three *)
(* bytes and a single file name: lines longer than a row, texts longer     *)
(* than the screen and tabs across its edge all occur.                     *)
(***************************************************************************)
EXTENDS Editor

MCContents == {<<"tab">>}
MCTwoSectors == {<<"a", "a">>, <<"nl", "a">>}
MCField == [x |-> 1, y |-> 1, w |-> 1]

=============================================================================
