----------------------------- MODULE ByteQueue -----------------------------
(***************************************************************************)
(* What the keyboard's ring promises its reader: a queue of at most        *)
(* CAPACITY bytes, first in, first out.  Bytes that find it full are       *)
(* dropped; an accepted byte stays until the reader removes it, and the    *)
(* reader sees the very byte it removes.                                   *)
(***************************************************************************)
EXTENDS Naturals, Sequences

CONSTANTS Byte, CAPACITY

VARIABLES
  queue,   \* accepted bytes, oldest first
  peeked,  \* the reader has looked at the oldest byte
  got      \* the byte it last looked at

Init == queue = <<>> /\ peeked = FALSE /\ got \in Byte

Accept(b) ==
  /\ Len(queue) < CAPACITY
  /\ queue' = Append(queue, b)
  /\ UNCHANGED <<peeked, got>>

Peek ==
  /\ ~peeked /\ queue # <<>>
  /\ got' = Head(queue) /\ peeked' = TRUE
  /\ UNCHANGED queue

Remove ==
  /\ queue # <<>> /\ (peeked => got = Head(queue))
  /\ queue' = Tail(queue) /\ peeked' = FALSE
  /\ UNCHANGED got

Next == (\E b \in Byte : Accept(b)) \/ Peek \/ Remove

Spec == Init /\ [][Next]_<<queue, peeked, got>>

=============================================================================
