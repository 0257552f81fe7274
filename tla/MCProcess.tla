----------------------------- MODULE MCProcess -----------------------------
(***************************************************************************)
(* A machine of 4-entry tables and 4-byte pages: 16 frames, of which frame *)
(* 0 is the low region and frames 4 to 7 are the ring-3 window.            *)
(***************************************************************************)
EXTENDS Process

Usable(b, l) == [base |-> b, len |-> l, usable |-> TRUE]
Hole(b, l) == [base |-> b, len |-> l, usable |-> FALSE]

(* Room for a whole program, with a hole the allocator must skip. *)
MCRoomy == <<Usable(0, 14), Hole(14, 2), Usable(32, 28)>>
(* Out of order, unaligned, one entry across the window and longer than    *)
(* half of the address space.                                              *)
MCUneven == <<Usable(41, 7), Usable(6, 40)>>
(* Too few frames for a whole program. *)
MCTight == <<Usable(0, 16), Usable(32, 12)>>
(* One frame is left after the kernel's tables: vm_create fails. *)
MCOneFrame == <<Usable(0, 12)>>
(* A page table is missing for the last entry's page. *)
MCNoTable == <<Usable(4, 4), Usable(33, 2)>>
(* Nothing usable above the low region: the kernel cannot be mapped. *)
MCNothing == <<Usable(0, 4)>>
(* An entry that ends where the address space does. *)
MCTop == <<Usable(0, 8), Usable(48, 16)>>

MCMaps == {MCRoomy, MCUneven, MCTight, MCOneFrame, MCNoTable, MCNothing, MCTop}

Plain(n) == [size |-> n, flat |-> FALSE, fsize |-> 0, fentry |-> 0]
Flat(n, f, e) == [size |-> n, flat |-> TRUE, fsize |-> f, fentry |-> e]

(* Empty, one page and a byte, largest, too big; flat: shorter than its    *)
(* header, good, truncated, wrapping size, bad entry.                      *)
MCImages ==
  {Plain(0), Plain(5), Plain(8), Plain(9), Flat(1, 1, 0), Flat(6, 4, 3),
   Flat(6, 5, 0), Flat(6, 63, 0), Flat(6, 4, 4)}

=============================================================================
