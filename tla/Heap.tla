-------------------------------- MODULE Heap --------------------------------
(***************************************************************************)
(* The allocator of home/lib/libc.c: a first-fit free list, in address     *)
(* order, over the program break.  A block is its address and its size,    *)
(* header included; the free list is the sequence of its blocks.  malloc   *)
(* proceeds in steps, one per round of its loop, so that a call that never *)
(* returns can be seen.  Addresses and sizes wrap at WORD = 2^32.          *)
(***************************************************************************)
EXTENDS Integers, Sequences, FiniteSets

CONSTANTS
  WORD,
  MIN_ALIGN,      \* 8
  BLOCK_HDR,      \* 8
  PAGE,           \* 4096, the unit in which the break grows
  Breaks,         \* breaks the loader may leave
  heap_start,     \* __heap_start of prog.ld
  USER_STACK,     \* the break never passes it
  USER_TOP,
  Sizes,          \* sizes that programs ask for
  Counts,         \* element counts of calloc
  Increments      \* what programs pass to sys_sbrk themselves

ASSUME SizeAssumption ==
  /\ WORD \in Nat /\ MIN_ALIGN \in Nat \ {0} /\ BLOCK_HDR \in Nat \ {0} /\ PAGE \in Nat \ {0}
  /\ PAGE >= BLOCK_HDR /\ 2 * PAGE < WORD /\ BLOCK_HDR + MIN_ALIGN < WORD
ASSUME LayoutAssumption ==
  /\ USER_STACK \in Nat /\ USER_TOP \in Nat /\ USER_STACK <= USER_TOP /\ USER_TOP < WORD
  /\ Breaks \subseteq 0 .. USER_STACK /\ heap_start \in Nat
ASSUME RequestAssumption ==
  /\ Sizes \subseteq 0 .. WORD - 1 /\ Counts \subseteq 0 .. WORD - 1
  /\ Increments \subseteq 0 .. WORD - 1

(* Requests for which no sum in malloc or morecore wraps; calloc refuses   *)
(* the products that do.                                                   *)
Sane(n) == n + 2 * MIN_ALIGN + 2 * BLOCK_HDR + PAGE < WORD
SaneRequests ==
  /\ \A n \in Sizes : Sane(n + 1)
  /\ \A c \in Counts, n \in Sizes : c * n < WORD => Sane(c * n)

VARIABLES
  brk,            \* the kernel's break
  heap_state,     \* 0, 1 or -1
  heap_brk,       \* the allocator's idea of the break
  freelist,
  live,           \* blocks in the program's hands, with the bytes it asked for
  call,           \* the call in progress
  pool            \* addresses that morecore obtained

vars == <<brk, heap_state, heap_brk, freelist, live, call, pool>>

Block == [at : Nat, size : Nat]
Used == [at : Nat, size : Nat, req : Nat]
Idle == [kind |-> "idle"]
Calls == [kind : {"malloc", "realloc"}, need : Nat, req : Nat, old : Used]
NoBlock == [at |-> 0, size |-> 0, req |-> 0]

Bytes(b) == b.at .. b.at + b.size - 1

-----------------------------------------------------------------------------
(* The kernel's vm_sbrk: the break after a request of inc bytes. *)
sys_sbrk(inc) ==
  IF inc = 0 \/ inc > USER_TOP - brk \/ brk + inc > USER_STACK THEN brk ELSE brk + inc

align8(n) == ((((n + MIN_ALIGN - 1) % WORD) \div MIN_ALIGN) * MIN_ALIGN) % WORD
Need(size) == (align8(size) + BLOCK_HDR) % WORD

heap_boot ==
  IF heap_start > brk
  THEN LET got == sys_sbrk(heap_start - brk)
       IN  /\ brk' = got
           /\ heap_state' = IF got <= brk THEN -1 ELSE 1
           /\ heap_brk' = IF got <= brk THEN heap_brk ELSE got
  ELSE heap_state' = 1 /\ heap_brk' = brk /\ UNCHANGED brk

(* The list with a block of new space, which goes behind its tail. *)
Appended(b) ==
  IF freelist # <<>> /\ freelist[Len(freelist)].at + freelist[Len(freelist)].size = b.at
  THEN [freelist EXCEPT ![Len(freelist)].size = @ + b.size]
  ELSE Append(freelist, b)

Larger(a, b) == IF a > b THEN a ELSE b
Request(need) == ((((Larger(need, PAGE) + PAGE - 1) % WORD) \div PAGE) * PAGE) % WORD

(* A plausible bug: malloc goes round again when the break was refused. *)
morecore_retried(need) ==
  LET req == Request(need)
      got == sys_sbrk(req)
  IN  /\ brk' = got
      /\ IF got # (heap_brk + req) % WORD
         THEN UNCHANGED <<call, heap_brk, freelist, pool>>
         ELSE /\ heap_brk' = got
              /\ freelist' = Appended([at |-> heap_brk, size |-> req])
              /\ pool' = pool \cup (heap_brk .. got - 1)
              /\ UNCHANGED call

(* Grow the break; when it is not where it should be the call fails. *)
morecore(need) ==
  LET req == Request(need)
      got == sys_sbrk(req)
  IN  /\ brk' = got
      /\ IF got # (heap_brk + req) % WORD
         THEN call' = Idle /\ UNCHANGED <<heap_brk, freelist, pool>>
         ELSE /\ heap_brk' = got
              /\ freelist' = Appended([at |-> heap_brk, size |-> req])
              /\ pool' = pool \cup (heap_brk .. got - 1)
              /\ UNCHANGED call

-----------------------------------------------------------------------------
(* The list without block k, or with what remains of it.  When need is 0   *)
(* the two headers are one, and the remainder's size is overwritten.       *)
Fits(need) == {k \in DOMAIN freelist : freelist[k].size >= need}
First(need) == CHOOSE k \in Fits(need) : \A j \in Fits(need) : k <= j

Splits(b, need) == b.size >= (need + BLOCK_HDR + MIN_ALIGN) % WORD

Rest(b, need) ==
  [at |-> b.at + need, size |-> IF need = 0 THEN 0 ELSE b.size - need]

ListWithout(k, need) ==
  SubSeq(freelist, 1, k - 1)
    \o (IF Splits(freelist[k], need) THEN <<Rest(freelist[k], need)>> ELSE <<>>)
    \o SubSeq(freelist, k + 1, Len(freelist))

Taken(k, need, req) ==
  [at |-> freelist[k].at, req |-> req,
   size |-> IF Splits(freelist[k], need) THEN need ELSE freelist[k].size]

(* The list with block b in its place, merged with its neighbours. *)
Position(list, b) ==
  CHOOSE k \in 1 .. Len(list) + 1 :
     /\ \A i \in 1 .. k - 1 : list[i].at < b.at
     /\ k <= Len(list) => list[k].at >= b.at
MeetsNext(list, b, k) == k <= Len(list) /\ b.at + b.size = list[k].at
MeetsPrev(list, b, k) == k > 1 /\ list[k - 1].at + list[k - 1].size = b.at

(* A plausible bug: the block before is not merged. *)
free_no_prev(list, b) ==
  LET k == Position(list, b)
      n == MeetsNext(list, b, k)
  IN  SubSeq(list, 1, k - 1)
        \o <<[at |-> b.at, size |-> b.size + (IF n THEN list[k].size ELSE 0)]>>
        \o SubSeq(list, IF n THEN k + 1 ELSE k, Len(list))

free(list, b) ==
  LET k == Position(list, b)
      n == MeetsNext(list, b, k)
      p == MeetsPrev(list, b, k)
  IN  SubSeq(list, 1, IF p THEN k - 2 ELSE k - 1)
        \o <<[at |-> IF p THEN list[k - 1].at ELSE b.at,
              size |-> (IF p THEN list[k - 1].size ELSE 0) + b.size
                         + (IF n THEN list[k].size ELSE 0)]>>
        \o SubSeq(list, IF n THEN k + 1 ELSE k, Len(list))

-----------------------------------------------------------------------------
Init ==
  /\ brk \in Breaks /\ heap_state = 0 /\ heap_brk = 0
  /\ freelist = <<>> /\ live = {} /\ call = Idle /\ pool = {}

(* A call enters malloc, which boots the heap when it is the first. *)
Enter(kind, size, req, old) ==
  /\ IF heap_state = 0 THEN heap_boot ELSE UNCHANGED <<brk, heap_state, heap_brk>>
  /\ call' = IF heap_state' = -1 THEN Idle
             ELSE [kind |-> kind, need |-> Need(size), req |-> req, old |-> old]
  /\ UNCHANGED <<freelist, live, pool>>

malloc(size) == call = Idle /\ Enter("malloc", size, size, NoBlock)

(* A plausible bug: the product is not checked. *)
calloc_unchecked(count, size) ==
  call = Idle /\ Enter("malloc", (count * size) % WORD, count * size, NoBlock)

(* A product that does not fit in a word is refused. *)
calloc(count, size) ==
  /\ call = Idle
  /\ LET total == (count * size) % WORD
     IN  IF count # 0 /\ total \div count # size THEN UNCHANGED vars
         ELSE Enter("malloc", total, count * size, NoBlock)

(* strdup and strndup of n characters. *)
strdup(n) == call = Idle /\ Enter("malloc", (n + 1) % WORD, n + 1, NoBlock)

(* The loop of malloc: take the first block that fits ... *)
Take ==
  /\ call # Idle /\ Fits(call.need) # {}
  /\ LET k == First(call.need)
         list == ListWithout(k, call.need)
     IN  /\ live' = (live \ {call.old}) \cup {Taken(k, call.need, call.req)}
         /\ freelist' = IF call.kind = "realloc" THEN free(list, call.old) ELSE list
  /\ call' = Idle
  /\ UNCHANGED <<brk, heap_state, heap_brk, pool>>

(* ... or get more space and try again. *)
Grow ==
  /\ call # Idle /\ Fits(call.need) = {}
  /\ morecore(call.need)
  /\ UNCHANGED <<heap_state, live>>

Free(b) ==
  /\ call = Idle
  /\ freelist' = free(freelist, [at |-> b.at, size |-> b.size])
  /\ live' = live \ {b}
  /\ UNCHANGED <<brk, heap_state, heap_brk, call, pool>>

(* A plausible bug: the part that is cut off is forgotten. *)
Shrink_leaks(b, size) ==
  /\ call = Idle /\ size # 0 /\ b.size - BLOCK_HDR >= size
  /\ LET need == Need(size)
     IN  live' = (live \ {b}) \cup
           {[at |-> b.at, req |-> size, size |-> IF Splits(b, need) THEN need ELSE b.size]}
  /\ UNCHANGED <<brk, heap_state, heap_brk, freelist, call, pool>>

(* realloc of a block that is large enough gives the rest back. *)
Shrink(b, size) ==
  /\ call = Idle /\ size # 0 /\ b.size - BLOCK_HDR >= size
  /\ LET need == Need(size)
     IN  IF Splits(b, need)
         THEN /\ freelist' = free(freelist, Rest(b, need))
              /\ live' = (live \ {b}) \cup {[at |-> b.at, size |-> need, req |-> size]}
         ELSE /\ live' = (live \ {b}) \cup {[b EXCEPT !.req = size]}
              /\ UNCHANGED freelist
  /\ UNCHANGED <<brk, heap_state, heap_brk, call, pool>>

(* realloc of a block that is too small; of size 0 it is free. *)
realloc(b, size) ==
  \/ size = 0 /\ Free(b)
  \/ Shrink(b, size)
  \/ call = Idle /\ b.size - BLOCK_HDR < size /\ Enter("realloc", size, size, b)

(* The program moves the break itself. *)
ProgramSbrk(inc) ==
  /\ call = Idle /\ brk' = sys_sbrk(inc)
  /\ UNCHANGED <<heap_state, heap_brk, freelist, live, call, pool>>

Working == Take \/ Grow

Next ==
  \/ Working
  \/ \E s \in Sizes : malloc(s) \/ strdup(s)
  \/ \E s \in Sizes, c \in Counts : calloc(c, s)
  \/ \E b \in live : Free(b) \/ \E s \in Sizes : realloc(b, s)
  \/ \E inc \in Increments : ProgramSbrk(inc)

Spec == Init /\ [][Next]_vars /\ WF_vars(Working)

-----------------------------------------------------------------------------
(* The break stays below the stack, the allocator's idea of it never runs  *)
(* ahead of the kernel's, and all it obtained lies below.                  *)
TypeOK ==
  /\ brk \in 0 .. USER_STACK /\ heap_brk \in 0 .. brk /\ heap_state \in {-1, 0, 1}
  /\ freelist \in Seq(Block) /\ live \in SUBSET Used
  /\ call \in Calls \cup {Idle} /\ pool \in SUBSET (0 .. heap_brk - 1)

FreeBlocks == {freelist[k] : k \in DOMAIN freelist}

(* Every byte the allocator got belongs to exactly one block, free or in   *)
(* the program's hands: splitting, merging, resizing and failed growth     *)
(* neither lose a byte nor hand it out twice.                              *)
BytesOwnedOnce ==
  /\ UNION {Bytes(b) : b \in FreeBlocks \cup live} = pool
  /\ \A b, c \in live : b # c => Bytes(b) \cap Bytes(c) = {}
  /\ \A b \in live, f \in FreeBlocks : Bytes(b) \cap Bytes(f) = {}

(* The free list is in address order and no two of its blocks touch: what  *)
(* was released side by side is one block again.                           *)
ListMerged ==
  \A i, j \in DOMAIN freelist : i < j => freelist[i].at + freelist[i].size < freelist[j].at

(* A block has room for its header and for what was asked for, for calloc  *)
(* the true product of count and size.                                     *)
RoomEnough == \A b \in live : b.size >= BLOCK_HDR + b.req

(* Every call returns. *)
MallocReturns == call # Idle ~> call = Idle

(* Blocks are carved out of the program break, each with room for its      *)
(* header (the comment at the head of libc.c).                             *)
BlocksCarved ==
  \A k \in DOMAIN freelist :
     freelist[k].size >= BLOCK_HDR /\ freelist[k].at + freelist[k].size <= brk

=============================================================================
