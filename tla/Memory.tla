------------------------------- MODULE Memory -------------------------------
(***************************************************************************)
(* The physical frame allocator and the pager of src/src/kernel/memory.c:  *)
(* the E820 scan, the frame bitmap, the kernel page directory built at     *)
(* boot, and the per-process address spaces (vm_create, vm_attach,         *)
(* vm_detach, vm_fault, vm_note_load, vm_sbrk).                            *)
(*                                                                         *)
(* Addresses are byte addresses of a machine whose page directories and    *)
(* page tables have ENTRIES entries and whose pages have PAGE_SIZE bytes;  *)
(* the C code is the instance ENTRIES = 1024, PAGE_SIZE = 4096, so that an *)
(* address has WORD = 2^32 values.  All address arithmetic wraps at WORD   *)
(* where the C code's uint32_t arithmetic can wrap.                        *)
(*                                                                         *)
(* The module holds the state and the operations.  Process.tla puts them   *)
(* in the order in which the kernel calls them.                            *)
(***************************************************************************)
EXTENDS Integers, FiniteSets, Sequences

CONSTANTS
  ENTRIES,      \* entries of a page directory and of a page table
  PAGE_SIZE,    \* bytes of a page
  LOW_END,      \* end of the low region: kernel, stack, VGA, boot data
  USER_BASE,    \* first byte of the ring-3 window
  USER_TOP,     \* first byte past the ring-3 window
  USER_STACK,   \* initial top of the user stack
  KERNEL_END,   \* _kernel_end: first byte past the kernel image
  E820Maps      \* the memory maps the firmware may report

SPAN == ENTRIES * PAGE_SIZE           \* bytes one directory entry covers
WORD == ENTRIES * SPAN                \* number of addresses, 2^32 in C
Index == 0 .. ENTRIES - 1
Frame == 0 .. ENTRIES * ENTRIES - 1
Address == 0 .. WORD - 1

Pdi(a) == a \div SPAN                 \* v >> 22
Pti(a) == (a \div PAGE_SIZE) % ENTRIES
FrameOf(a) == a \div PAGE_SIZE
USER_PDE == Pdi(USER_BASE)

ASSUME SizeAssumption ==
  ENTRIES \in Nat \ {0} /\ PAGE_SIZE \in Nat \ {0}

(***************************************************************************)
(* user.h: the window is exactly one page directory entry wide, so         *)
(* USER_PDE_FIRST = USER_PDE_LAST, and it lies above the low region.       *)
(***************************************************************************)
ASSUME LayoutAssumption ==
  /\ LOW_END \in Address \ {0}
  /\ USER_BASE \in Address /\ USER_BASE % SPAN = 0 /\ LOW_END <= USER_BASE
  /\ USER_TOP = USER_BASE + SPAN /\ USER_TOP \in Address
  /\ USER_STACK \in USER_BASE + 1 .. USER_TOP
  /\ KERNEL_END \in Address

E820Entry == [base : Address, len : Address, usable : BOOLEAN]

ASSUME E820Assumption == E820Maps \subseteq Seq(E820Entry)

VARIABLES
  e820,         \* the table the boot loader left at E820_BUF_ADDR
  nframes,      \* frames below the highest usable address
  bitmap,       \* the frames whose bit is 1 (in use)
  frames_free,  \* the counter kept beside the bitmap
  page_dir,     \* the kernel page directory (.bss, outside the frames)
  ram,          \* contents of every frame
  mapping,      \* progress of paging_init through the ranges it maps
  cr3,          \* the active directory
  cur_dir,      \* the process directory, 0 while only the kernel runs
  brk,          \* program break of the current process
  fault_count   \* page faults served

memVars == <<e820, nframes, bitmap, frames_free, page_dir, ram, mapping,
             cr3, cur_dir, brk, fault_count>>

-----------------------------------------------------------------------------
(***************************************************************************)
(* A directory or table entry: present, frame, user-accessible.  A frame   *)
(* is seen both as an array of entries and as data; data records who wrote *)
(* the page last: 0 after a memset to zero, n > 0 for the n-th program,    *)
(* KERNEL_DATA for anything the kernel or the firmware left there.         *)
(***************************************************************************)
Entry == [present : BOOLEAN, frame : Frame, user : BOOLEAN]
NoEntry == [present |-> FALSE, frame |-> 0, user |-> FALSE]
(* Mutant: the user bit is set on kernel mappings. *)
Supervisor_with_user_bit(f) == [present |-> TRUE, frame |-> f, user |-> TRUE]
Supervisor(f) == [present |-> TRUE, frame |-> f, user |-> FALSE]
User(f) == [present |-> TRUE, frame |-> f, user |-> TRUE]

(* The frames the present entries of a table point to. *)
FramesIn(t) == {t[i].frame : i \in {j \in Index : t[j].present}}

KERNEL_DATA == -1
EmptyTable == [i \in Index |-> NoEntry]
Zeroed == [ent |-> EmptyTable, data |-> 0]

(* A page of arbitrary bytes written by n: read as a table it can hold any *)
(* entry, so the model lets every one be a user mapping of frame 0.        *)
Scribbled(n) == [ent |-> [i \in Index |-> User(0)], data |-> n]
Page == [ent : [Index -> Entry], data : Nat \cup {KERNEL_DATA}]

(* page_dir lives in the low region, whose frames are never handed out, so *)
(* 0 can stand for its address in cr3; cur_dir = 0 is the C code's "none". *)
KernelDir == 0
DirOf(d) == IF d = KernelDir THEN page_dir ELSE ram[d].ent

(* The CPU's walk of the active directory for address a. *)
Pte(a) == ram[DirOf(cr3)[Pdi(a)].frame].ent[Pti(a)]
Mapped(a) == DirOf(cr3)[Pdi(a)].present /\ Pte(a).present
UserAccess(a) == Mapped(a) /\ DirOf(cr3)[Pdi(a)].user /\ Pte(a).user

(* The kernel reads and writes a frame at the frame's own address. *)
IdentityMapped(f) ==
  Mapped(f * PAGE_SIZE) /\ Pte(f * PAGE_SIZE).frame = f

-----------------------------------------------------------------------------
(* The E820 scan *)

UsableEnd(e) ==
  LET end == (e.base + e.len) % WORD
  IN  IF end < e.base THEN WORD - 1 ELSE end

UsableEntries == {e820[i] : i \in DOMAIN e820} \cap [base : Address,
                   len : Address, usable : {TRUE}]

IsMax(m, S) == m \in S /\ \A x \in S : x <= m
IsMin(m, S) == m \in S /\ \A x \in S : m <= x

top_usable(m) == IsMax(m, {0} \cup {UsableEnd(e) : e \in UsableEntries})

(* The difference is compared as int32_t: half of the range is negative. *)
in_usable(addr) ==
  \E e \in UsableEntries :
    LET diff == (addr - e.base) % WORD
    IN  2 * diff < WORD /\ diff < e.len

-----------------------------------------------------------------------------
(* The frame bitmap *)

AllFrames == 0 .. nframes - 1
FreeFrames == AllFrames \ bitmap

(* alloc_frame takes the lowest free frame f of the set S of free ones. *)
alloc_frame(f, S) == IsMin(f, S)

(* free_frame for every frame of S: ignores what is free or out of range. *)
free_frames(S) ==
  /\ bitmap' = bitmap \ (S \cap AllFrames)
  /\ frames_free' = frames_free + Cardinality(S \cap AllFrames \cap bitmap)

(* The bitmap is a byte array of nf bits that starts at the first page     *)
(* boundary at or above the end of the kernel image.                       *)
BitmapBase == ((KERNEL_END + PAGE_SIZE - 1) \div PAGE_SIZE) * PAGE_SIZE
BitmapFrames(nf) ==
  {i \in 0 .. nf - 1 :
     /\ BitmapBase <= i * PAGE_SIZE
     /\ i * PAGE_SIZE < BitmapBase + (nf + 7) \div 8}

NeverHandedOut(i) ==
  LET addr == i * PAGE_SIZE
  IN  \/ addr < LOW_END
      \/ USER_BASE <= addr /\ addr < USER_TOP
      \/ ~in_usable(addr)

ReservedFrames(nf) == {i \in 0 .. nf - 1 : NeverHandedOut(i)} \cup BitmapFrames(nf)

(* Mutant: the frames under the bitmap are protected but still counted. *)
memory_init_miscounts ==
  /\ \E top \in Address :
       /\ top_usable(top)
       /\ nframes' = top \div PAGE_SIZE
  /\ bitmap' = ReservedFrames(nframes')
  /\ frames_free' = Cardinality({i \in 0 .. nframes' - 1 : ~NeverHandedOut(i)})

(* Mutant: the frames under the bitmap are not protected. *)
memory_init_unprotected ==
  /\ \E top \in Address :
       /\ top_usable(top)
       /\ nframes' = top \div PAGE_SIZE
  /\ bitmap' = {i \in 0 .. nframes' - 1 : NeverHandedOut(i)}
  /\ frames_free' = Cardinality((0 .. nframes' - 1) \ bitmap')

memory_init ==
  /\ \E top \in Address :
       /\ top_usable(top)
       /\ nframes' = top \div PAGE_SIZE
  /\ bitmap' = ReservedFrames(nframes')
  /\ frames_free' = Cardinality((0 .. nframes' - 1) \ bitmap')

-----------------------------------------------------------------------------
(***************************************************************************)
(* paging_init: the identity map.  Range 0 is the low region; ranges 2k-1  *)
(* and 2k are the parts of the k-th E820 entry below and above the ring-3  *)
(* window (map_supervisor).  A range with from >= to is empty.             *)
(***************************************************************************)
LowOf(a, b) == IF a < b THEN a ELSE b
HighOf(a, b) == IF a < b THEN b ELSE a

EntryRange(e) ==
  LET end == (e.base + e.len) % WORD
      base == HighOf(e.base, LOW_END)
      to == (base + e.len) % WORD
  IN  IF ~e.usable \/ end < e.base \/ end <= LOW_END \/ base >= to
      THEN [from |-> 0, to |-> 0]
      ELSE [from |-> base, to |-> to]

(* Mutant: an entry that spans the window is mapped only below it. *)
MapRange_below_only(k) ==
  IF k = 0 THEN [from |-> 0, to |-> LOW_END]
  ELSE LET r == EntryRange(e820[(k + 1) \div 2])
       IN  IF k % 2 = 1
           THEN [from |-> r.from, to |-> LowOf(r.to, USER_BASE)]
           ELSE IF r.from < USER_BASE THEN [from |-> 0, to |-> 0]
           ELSE [from |-> HighOf(r.from, USER_TOP), to |-> r.to]

MapRange(k) ==
  IF k = 0 THEN [from |-> 0, to |-> LOW_END]
  ELSE LET r == EntryRange(e820[(k + 1) \div 2])
       IN  IF k % 2 = 1
           THEN [from |-> r.from, to |-> LowOf(r.to, USER_BASE)]
           ELSE [from |-> HighOf(r.from, USER_TOP), to |-> r.to]

LastRange == 2 * Len(e820)

StartRange(k) ==
  [range |-> k,
   v |-> IF k > LastRange THEN 0 ELSE (MapRange(k).from \div PAGE_SIZE) * PAGE_SIZE]

MappingDone == mapping.range > LastRange

paging_init ==
  /\ page_dir' = EmptyTable
  /\ mapping' = StartRange(0)

(* One iteration of the loop of map_range, for the page at mapping.v. *)
MapInto(pt, dir, table) ==
  /\ page_dir' = [dir EXCEPT ![Pdi(mapping.v)] = Supervisor(pt)]
  /\ ram' = [ram EXCEPT ![pt] =
               [table EXCEPT !.ent[Pti(mapping.v)] = Supervisor(FrameOf(mapping.v))]]
  /\ mapping' = [mapping EXCEPT !.v = (@ + PAGE_SIZE) % WORD]

MapPage ==
  /\ ~MappingDone /\ mapping.v < MapRange(mapping.range).to
  /\ LET pde == page_dir[Pdi(mapping.v)]
     IN  \/ /\ pde.present
            /\ MapInto(pde.frame, page_dir, ram[pde.frame])
            /\ UNCHANGED <<bitmap, frames_free>>
         \/ /\ ~pde.present
            /\ \E pt \in FreeFrames :
                 /\ alloc_frame(pt, FreeFrames)
                 /\ bitmap' = bitmap \cup {pt}
                 /\ frames_free' = frames_free - 1
                 /\ MapInto(pt, page_dir, Zeroed)
         \/ /\ ~pde.present /\ FreeFrames = {}     \* no frame: give the range up
            /\ mapping' = StartRange(mapping.range + 1)
            /\ UNCHANGED <<bitmap, frames_free, page_dir, ram>>

NextRange ==
  /\ ~MappingDone /\ ~(mapping.v < MapRange(mapping.range).to)
  /\ mapping' = StartRange(mapping.range + 1)
  /\ UNCHANGED <<bitmap, frames_free, page_dir, ram>>

-----------------------------------------------------------------------------
(* Process address spaces *)

(* A fresh directory d: the kernel's map with an empty user table pt. *)
vm_create ==
  \E d, pt \in FreeFrames :
    /\ alloc_frame(d, FreeFrames)
    /\ alloc_frame(pt, FreeFrames \ {d})
    /\ IdentityMapped(d) /\ IdentityMapped(pt)
    /\ bitmap' = bitmap \cup {d, pt}
    /\ frames_free' = frames_free - 2
    /\ ram' = [ram EXCEPT
                 ![d] = [ent |-> [page_dir EXCEPT ![USER_PDE] = User(pt)],
                         data |-> KERNEL_DATA],
                 ![pt] = Zeroed]
    /\ brk' = 0
    /\ cr3' = d /\ cur_dir' = d                    \* vm_attach(dir)

(* No second frame: the directory frame is written, then given back. *)
vm_create_fails ==
  /\ \A d, pt \in FreeFrames : d = pt
  /\ \A d \in FreeFrames : IdentityMapped(d)
  /\ ram' = [f \in Frame |->
               IF f \in FreeFrames
               THEN [ent |-> page_dir, data |-> KERNEL_DATA] ELSE ram[f]]
  /\ UNCHANGED <<bitmap, frames_free, brk, cr3, cur_dir>>

(* One of the (at most two) frames vm_create writes is not mapped. *)
vm_create_faults ==
  \E d \in FreeFrames :
    /\ alloc_frame(d, FreeFrames)
    /\ \/ ~IdentityMapped(d)
       \/ \E pt \in FreeFrames :
            alloc_frame(pt, FreeFrames \ {d}) /\ ~IdentityMapped(pt)

UserTable(d) == ram[d].ent[USER_PDE].frame
UserPages(d) == FramesIn(ram[UserTable(d)].ent)
ProcessFrames(d) ==
  IF d = KernelDir THEN {}
  ELSE {d} \cup (IF ram[d].ent[USER_PDE].present
                 THEN {UserTable(d)} \cup UserPages(d) ELSE {})

(* Mutant: the process directory stays active while it is released. *)
vm_switch_forgotten == cur_dir' = 0 /\ cr3' = cr3

(* vm_detach, first half: leave the directory before it is released. *)
vm_switch_to_kernel ==
  /\ cur_dir' = 0
  /\ cr3' = KernelDir

(* Mutant: the page table of the window is not given back. *)
vm_destroy_leaks_table(old) ==
  /\ free_frames({old} \cup UserPages(old))
  /\ ram' = [ram EXCEPT ![old].ent[USER_PDE] = NoEntry]

(* vm_detach, second half. *)
vm_destroy(old) ==
  /\ free_frames(ProcessFrames(old))
  /\ ram' = [ram EXCEPT ![old].ent[USER_PDE] = NoEntry]

-----------------------------------------------------------------------------
(* The page-fault path *)

InWindow(a) == USER_BASE <= a /\ a < USER_TOP

(* Mutant: the frame is handed to the program as it is. *)
vm_fault_unzeroed(a) ==
  /\ InWindow(a)
  /\ DirOf(cr3)[Pdi(a)].present
  /\ ~Pte(a).present
  /\ \E f \in FreeFrames :
       /\ alloc_frame(f, FreeFrames)
       /\ IdentityMapped(f)
       /\ bitmap' = bitmap \cup {f}
       /\ frames_free' = frames_free - 1
       /\ ram' = [ram EXCEPT ![DirOf(cr3)[Pdi(a)].frame].ent[Pti(a)] = User(f)]
  /\ fault_count' = fault_count + 1

(* vm_fault returns 1: a zeroed frame now backs the page of a. *)
vm_fault(a) ==
  /\ InWindow(a)
  /\ DirOf(cr3)[Pdi(a)].present
  /\ ~Pte(a).present
  /\ \E f \in FreeFrames :
       /\ alloc_frame(f, FreeFrames)
       /\ IdentityMapped(f)
       /\ bitmap' = bitmap \cup {f}
       /\ frames_free' = frames_free - 1
       /\ ram' = [ram EXCEPT
                    ![f] = Zeroed,
                    ![DirOf(cr3)[Pdi(a)].frame].ent[Pti(a)] = User(f)]
  /\ fault_count' = fault_count + 1

(* Mutant: running out of frames is reported as a served fault, and the    *)
(* store is retried for ever.                                              *)
vm_fault_retries(a) ==
  ~InWindow(a) \/ ~DirOf(cr3)[Pdi(a)].present \/ Pte(a).present

(* vm_fault returns 0, or faults itself when it clears the frame: fatal. *)
vm_fault_fails(a) ==
  \/ ~InWindow(a)
  \/ ~DirOf(cr3)[Pdi(a)].present
  \/ Pte(a).present
  \/ \A f \in FreeFrames : alloc_frame(f, FreeFrames) => ~IdentityMapped(f)

-----------------------------------------------------------------------------
(* The program break *)

RoundUp(n) == (((n + PAGE_SIZE - 1) % WORD) \div PAGE_SIZE) * PAGE_SIZE

(* The break vm_note_load sets: the page boundary above the image. *)
vm_note_load(size) == HighOf((USER_BASE + RoundUp(size)) % WORD, USER_BASE)

(* Mutant: without the test that "also catches overflow". *)
vm_sbrk_wraps(inc) ==
  IF inc = 0 \/ (brk + inc) % WORD > USER_STACK
  THEN brk
  ELSE (brk + inc) % WORD

(* The value vm_sbrk leaves in brk, which is also what it returns. *)
vm_sbrk(inc) ==
  IF \/ inc = 0
     \/ inc > (USER_TOP - brk) % WORD
     \/ (brk + inc) % WORD > USER_STACK
  THEN brk
  ELSE (brk + inc) % WORD

=============================================================================
