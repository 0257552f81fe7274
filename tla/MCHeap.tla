------------------------------- MODULE MCHeap -------------------------------
(***************************************************************************)
(* Words of 64, pages of eight bytes, headers and alignment of two: a heap *)
(* of a few pages, below a stack that ends it.                             *)
(***************************************************************************)
EXTENDS Heap

=============================================================================
