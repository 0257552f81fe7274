--------------------------- MODULE ProcessProofs ---------------------------
(***************************************************************************)
(* Proofs about Process.tla for every machine size, memory map and set of  *)
(* programs: the type invariant, the accounting and the exclusive          *)
(* ownership of the physical frames, and what follows from them about the  *)
(* tables the CPU walks, about ring 3 and about recycled frames.           *)
(***************************************************************************)
EXTENDS Process, FiniteSetTheorems, TLAPS

-----------------------------------------------------------------------------
(* Numbers *)

(* Multiplication by a natural number is monotonic. *)
LEMMA MulMono ==
  ASSUME NEW m \in Nat, NEW a \in Int, NEW b \in Int, a <= b
  PROVE  m * a <= m * b
  OBVIOUS

(* Quotient and remainder. *)
LEMMA DivFacts ==
  ASSUME NEW a \in Nat, NEW n \in Nat \ {0}
  PROVE  /\ a \div n \in Nat /\ a % n \in 0 .. n - 1
         /\ a = n * (a \div n) + (a % n)
  OBVIOUS

(* The quotient of a number below n * m is below m. *)
LEMMA DivBelow ==
  ASSUME NEW a \in Nat, NEW n \in Nat \ {0}, NEW m \in Nat, a < n * m
  PROVE  a \div n < m
<1> DEFINE q == a \div n
<1>1. q \in Nat /\ a % n \in 0 .. n - 1 /\ a = n * q + (a % n)
  BY DivFacts
<1> HIDE DEF q
<1>2. SUFFICES ASSUME m <= q PROVE FALSE
  BY <1>1 DEF q
<1>3. n * m <= n * q
  BY <1>1, <1>2, MulMono
<1> QED BY <1>1, <1>3

(* The quotient is fixed by the multiples of n around the number. *)
LEMMA DivAt ==
  ASSUME NEW a \in Nat, NEW n \in Nat \ {0}, NEW k \in Nat,
         n * k <= a, a < n * (k + 1)
  PROVE  a \div n = k
<1> DEFINE q == a \div n
<1>1. q \in Nat /\ a % n \in 0 .. n - 1 /\ a = n * q + (a % n)
  BY DivFacts
<1>2. q < k + 1
  BY DivBelow
<1>3. ~(q < k)
  <2>1. SUFFICES ASSUME q + 1 <= k PROVE FALSE
    BY <1>1
  <2> HIDE DEF q
  <2>2. n * (q + 1) <= n * k
    BY <1>1, <2>1, MulMono
  <2>3. n * (q + 1) = n * q + n
    BY <1>1
  <2> QED BY <1>1, <2>2, <2>3
<1> HIDE DEF q
<1>4. q = k
  BY <1>1, <1>2, <1>3
<1> QED BY <1>4 DEF q

(* A remainder is fixed by its range. *)
LEMMA ModAt ==
  ASSUME NEW n \in Nat \ {0}, NEW a \in Int, NEW q \in Int, NEW r \in 0 .. n - 1, a = n * q + r
  PROVE  a % n = r
<1> DEFINE p == a \div n
           m == a % n
<1>1. p \in Int /\ m \in 0 .. n - 1 /\ a = n * p + m
  OBVIOUS
<1> HIDE DEF p, m
<1>2. CASE p = q
  BY <1>1, <1>2 DEF m
<1>3. CASE p + 1 <= q
  <2>1. n * (p + 1) <= n * q
    BY <1>1, <1>3, MulMono
  <2>2. n * (p + 1) = n * p + n
    BY <1>1
  <2> QED BY <1>1, <2>1, <2>2
<1>4. CASE q + 1 <= p
  <2>1. n * (q + 1) <= n * p
    BY <1>1, <1>4, MulMono
  <2>2. n * (q + 1) = n * q + n
    BY <1>1
  <2> QED BY <1>1, <2>1, <2>2
<1> QED BY <1>1, <1>2, <1>3, <1>4

(* The remainder of a number that is at most one lap from the range. *)
LEMMA WrapFacts ==
  ASSUME NEW n \in Nat \ {0}, NEW a \in Int, -n <= a, a < 2 * n
  PROVE  a % n = IF a < 0 THEN a + n ELSE IF a < n THEN a ELSE a - n
<1>1. CASE a < 0
  <2>1. a = n * (-1) + (a + n) /\ a + n \in 0 .. n - 1
    BY <1>1
  <2>2. a % n = a + n
    BY ONLY n \in Nat \ {0}, a \in Int, -1 \in Int, <2>1, ModAt
  <2> QED BY <1>1, <2>2
<1>2. CASE 0 <= a /\ a < n
  <2>1. a = n * 0 + a /\ a \in 0 .. n - 1
    BY <1>2
  <2>2. a % n = a
    BY ONLY n \in Nat \ {0}, a \in Int, 0 \in Int, <2>1, ModAt
  <2> QED BY <1>2, <2>2
<1>3. CASE n <= a
  <2>1. a = n * 1 + (a - n) /\ a - n \in 0 .. n - 1
    BY <1>3
  <2>2. a % n = a - n
    BY ONLY n \in Nat \ {0}, a \in Int, 1 \in Int, <2>1, ModAt
  <2> QED BY <1>3, <2>2
<1> QED BY <1>1, <1>2, <1>3

-----------------------------------------------------------------------------
(* Addresses *)

(* The sizes derived from ENTRIES and PAGE_SIZE are positive. *)
LEMMA Sizes ==
  /\ ENTRIES \in Nat \ {0} /\ PAGE_SIZE \in Nat \ {0}
  /\ SPAN \in Nat \ {0} /\ WORD \in Nat \ {0}
  /\ WORD = SPAN * ENTRIES
  /\ WORD = PAGE_SIZE * (ENTRIES * ENTRIES)
  /\ ENTRIES * ENTRIES \in Nat \ {0}
  /\ 0 \in Index /\ 0 \in Frame /\ 0 \in Address
<1>1. ENTRIES \in Nat \ {0} /\ PAGE_SIZE \in Nat \ {0}
  BY SizeAssumption
<1>2. SPAN \in Nat \ {0} /\ ENTRIES * ENTRIES \in Nat \ {0}
  BY <1>1 DEF SPAN
<1>3. WORD \in Nat \ {0} /\ WORD = SPAN * ENTRIES
  BY <1>1, <1>2 DEF WORD
<1>4. WORD = PAGE_SIZE * (ENTRIES * ENTRIES)
  BY <1>1 DEF WORD, SPAN
<1> QED BY <1>1, <1>2, <1>3, <1>4 DEF Index, Frame, Address

(* Every address has a directory index, a table index and a frame. *)
LEMMA Indices ==
  ASSUME NEW a \in Address
  PROVE  Pdi(a) \in Index /\ Pti(a) \in Index /\ FrameOf(a) \in Frame
<1>1. a \in Nat /\ a < SPAN * ENTRIES /\ a < PAGE_SIZE * (ENTRIES * ENTRIES)
  BY Sizes DEF Address
<1>2. Pdi(a) \in Index
  <2>1. a \div SPAN < ENTRIES
    BY <1>1, Sizes, DivBelow
  <2>2. a \div SPAN \in Nat
    BY <1>1, Sizes, DivFacts
  <2> QED BY <2>1, <2>2, Sizes DEF Pdi, Index
<1>3. FrameOf(a) \in Frame
  <2>1. a \div PAGE_SIZE < ENTRIES * ENTRIES
    BY <1>1, Sizes, DivBelow
  <2>2. a \div PAGE_SIZE \in Nat
    BY <1>1, Sizes, DivFacts
  <2> QED BY <2>1, <2>2, Sizes DEF FrameOf, Frame
<1>4. Pti(a) \in Index
  <2>1. a \div PAGE_SIZE \in Nat
    BY <1>1, Sizes, DivFacts
  <2> QED BY <2>1, Sizes, DivFacts DEF Pti, Index
<1> QED BY <1>2, <1>3, <1>4

(* The addresses of the ring-3 window share one directory entry. *)
LEMMA WindowPdi ==
  ASSUME NEW a \in Int, InWindow(a)
  PROVE  a \in Address /\ Pdi(a) = USER_PDE
<1>1. USER_BASE \in Nat /\ USER_TOP \in Nat /\ USER_TOP = USER_BASE + SPAN
      /\ USER_BASE % SPAN = 0 /\ USER_TOP < WORD
  BY LayoutAssumption, Sizes DEF Address
<1>2. a \in Nat /\ USER_BASE <= a /\ a < USER_BASE + SPAN /\ a \in Address
  BY <1>1, Sizes DEF InWindow, Address
<1>3. USER_PDE \in Nat /\ USER_BASE = SPAN * USER_PDE
  <2>1. /\ USER_BASE \div SPAN \in Nat
        /\ USER_BASE = SPAN * (USER_BASE \div SPAN) + (USER_BASE % SPAN)
    BY <1>1, Sizes, DivFacts
  <2>2. SPAN * (USER_BASE \div SPAN) \in Nat
    BY <2>1, Sizes
  <2> QED BY <1>1, <2>1, <2>2 DEF USER_PDE, Pdi
<1>4. SPAN * (USER_PDE + 1) = SPAN * USER_PDE + SPAN
  BY <1>3, Sizes
<1>5. a \div SPAN = USER_PDE
  BY <1>2, <1>3, <1>4, Sizes, DivAt
<1> QED BY <1>2, <1>5 DEF Pdi

(* The pages the loader fills lie in the window. *)
LEMMA PageInWindow ==
  ASSUME NEW p \in Index
  PROVE  PageAddress(p) \in Address /\ InWindow(PageAddress(p))
<1>1. USER_BASE \in Nat /\ USER_TOP = USER_BASE + SPAN
  BY LayoutAssumption, Sizes DEF Address
<1>2. p \in Nat /\ p + 1 <= ENTRIES
  BY Sizes DEF Index
<1>3. PAGE_SIZE * (p + 1) <= PAGE_SIZE * ENTRIES
  BY <1>2, Sizes, MulMono
<1>4. PAGE_SIZE * (p + 1) = p * PAGE_SIZE + PAGE_SIZE /\ PAGE_SIZE * ENTRIES = SPAN
  BY <1>2, Sizes DEF SPAN
<1>5. p * PAGE_SIZE \in Nat /\ p * PAGE_SIZE < SPAN
  BY <1>2, <1>3, <1>4, Sizes
<1>6. InWindow(PageAddress(p)) /\ PageAddress(p) \in Int
  BY <1>1, <1>5, Sizes DEF InWindow, PageAddress
<1> QED BY <1>6, WindowPdi

(* The first byte of every frame is an address. *)
LEMMA FrameAddress ==
  ASSUME NEW b \in Frame
  PROVE  b * PAGE_SIZE \in Address
<1>1. b \in Nat /\ b + 1 <= ENTRIES * ENTRIES
  BY Sizes DEF Frame
<1>2. PAGE_SIZE * (b + 1) <= PAGE_SIZE * (ENTRIES * ENTRIES)
  BY <1>1, Sizes, MulMono
<1>3. PAGE_SIZE * (b + 1) = b * PAGE_SIZE + PAGE_SIZE
  BY <1>1, Sizes
<1>4. b * PAGE_SIZE \in Nat
  BY <1>1, Sizes
<1> QED BY <1>2, <1>3, <1>4, Sizes DEF Address

-----------------------------------------------------------------------------
(* The inductive invariant *)

(***************************************************************************)
(* Which address space exists in which mode, and the shape of its          *)
(* directory.  The active directory is always the current process's one,   *)
(* where 0 stands for the kernel's.                                        *)
(***************************************************************************)
Control ==
  /\ cr3 = cur_dir
  /\ mode \in Booting \cup {"shell"} => cur_dir = 0
  /\ mode \in Loading \cup {"user", "detach"} => cur_dir # 0
  /\ mode = "destroy" => cur_dir = 0 /\ dying # 0
  /\ mode # "destroy" => dying = 0
  /\ mode = "boot" => nframes = 0 /\ bitmap = {}
  /\ mode \in {"boot", "paging"} => page_dir = EmptyTable

(* The live directory: the kernel's entries, and a user table of its own. *)
DirShape ==
  /\ \A i \in Index : ~page_dir[i].user
  /\ LiveDir # 0 =>
       /\ ram[LiveDir].ent[USER_PDE].present
       /\ ram[LiveDir].ent[USER_PDE].user
       /\ \A i \in Index : i # USER_PDE => ram[LiveDir].ent[i] = page_dir[i]

(* What the pages of the live program hold. *)
FreshPages ==
  LiveDir # 0 => \A f \in UserPages(LiveDir) : ram[f].data \in {0, pid}

Inv ==
  /\ TypeOK /\ FramesAccounted /\ NoFrameLeaks /\ FramesOwnedOnce
  /\ Control /\ DirShape /\ FreshPages

-----------------------------------------------------------------------------
(* Sets of frames *)

(* The frames are finitely many, and so are their subsets. *)
LEMMA FramesFinite ==
  ASSUME TypeOK
  PROVE  /\ IsFiniteSet(AllFrames) /\ AllFrames \subseteq Frame
         /\ IsFiniteSet(FreeFrames) /\ Cardinality(FreeFrames) \in Nat
<1>1. nframes \in Nat /\ nframes <= ENTRIES * ENTRIES
  BY Sizes DEF TypeOK
<1>2. IsFiniteSet(AllFrames)
  BY <1>1, FS_Interval DEF AllFrames
<1>3. FreeFrames \in SUBSET AllFrames
  BY DEF FreeFrames
<1>4. IsFiniteSet(FreeFrames)
  BY <1>2, <1>3, FS_Subset
<1>5. AllFrames \subseteq Frame
  BY <1>1, Sizes DEF AllFrames, Frame
<1> QED BY <1>2, <1>4, <1>5, FS_CardinalityType

(* Taking one free frame: alloc_frame's decrement is right. *)
LEMMA CountAlloc ==
  ASSUME NEW A, IsFiniteSet(A), NEW B, NEW f \in A \ B
  PROVE  Cardinality(A \ (B \cup {f})) = Cardinality(A \ B) - 1
<1>1. IsFiniteSet(A \ B)
  BY FS_Subset
<1>2. A \ (B \cup {f}) = (A \ B) \ {f}
  OBVIOUS
<1> QED BY <1>1, <1>2, FS_RemoveElement

(* Giving back a set of used frames: free_frame's increments are right. *)
LEMMA CountFree ==
  ASSUME NEW A, IsFiniteSet(A), NEW B \in SUBSET A, NEW P \in SUBSET B
  PROVE  Cardinality(A \ (B \ P)) = Cardinality(A \ B) + Cardinality(P)
<1>1. IsFiniteSet(A \ B) /\ IsFiniteSet(P)
  BY FS_Subset
<1>2. A \ (B \ P) = (A \ B) \cup P /\ (A \ B) \cap P = {}
  OBVIOUS
<1>3. Cardinality(A \ B) \in Nat /\ Cardinality(P) \in Nat
  BY <1>1, FS_CardinalityType
<1> QED BY <1>1, <1>2, <1>3, FS_Union, FS_EmptySet

(* Making one more entry of a table present adds its frame. *)
LEMMA AddEntry ==
  ASSUME NEW t \in [Index -> Entry], NEW j \in Index, ~t[j].present,
         NEW e \in Entry, e.present
  PROVE  FramesIn([t EXCEPT ![j] = e]) = FramesIn(t) \cup {e.frame}
<1> DEFINE u == [t EXCEPT ![j] = e]
<1>1. u[j] = e /\ \A i \in Index : i # j => u[i] = t[i]
  OBVIOUS
<1> HIDE DEF u
<1>2. ASSUME NEW x \in FramesIn(u) PROVE x \in FramesIn(t) \cup {e.frame}
  BY <1>1, <1>2 DEF FramesIn
<1>3. ASSUME NEW x \in FramesIn(t) PROVE x \in FramesIn(u)
  BY <1>1, <1>3 DEF FramesIn
<1>4. e.frame \in FramesIn(u)
  BY <1>1 DEF FramesIn
<1>5. FramesIn(u) = FramesIn(t) \cup {e.frame}
  BY <1>2, <1>3, <1>4
<1> QED BY <1>5 DEF u

(* The reserved frames depend on the memory map alone, and include 0. *)
LEMMA ReservedStable ==
  ASSUME UNCHANGED <<e820, nframes>>
  PROVE  ReservedFrames(nframes)' = ReservedFrames(nframes)
BY DEF ReservedFrames, NeverHandedOut, BitmapFrames, in_usable, UsableEntries

(* The frames reserved at boot are frames of the machine. *)
LEMMA ReservedInside ==
  ASSUME NEW nf \in Nat
  PROVE  /\ ReservedFrames(nf) \subseteq 0 .. nf - 1
         /\ nf # 0 => 0 \in ReservedFrames(nf)
<1>1. ReservedFrames(nf) \subseteq 0 .. nf - 1
  BY DEF ReservedFrames, BitmapFrames
<1>2. ASSUME nf # 0 PROVE 0 \in ReservedFrames(nf)
  <2>1. 0 \in 0 .. nf - 1 /\ 0 * PAGE_SIZE = 0
    BY <1>2, Sizes
  <2>2. 0 < LOW_END
    BY LayoutAssumption, Sizes DEF Address
  <2> QED BY <2>1, <2>2 DEF ReservedFrames, NeverHandedOut
<1> QED BY <1>1, <1>2

(* A frame that alloc_frame may hand out belongs to nobody and is not 0. *)
LEMMA FreshFrame ==
  ASSUME TypeOK, NoFrameLeaks, mode # "boot", NEW f \in FreeFrames
  PROVE  /\ f \in Frame /\ f # 0 /\ f \notin bitmap
         /\ f \notin ReservedFrames(nframes) /\ f \notin KernelTables
         /\ f \notin ProcessFrames(LiveDir)
<1>1. f \in AllFrames /\ f \in Frame /\ f \notin bitmap
  BY FramesFinite DEF FreeFrames
<1>2. nframes \in Nat /\ nframes # 0
  BY <1>1, Sizes DEF AllFrames, TypeOK
<1>3. 0 \in ReservedFrames(nframes)
  BY <1>2, ReservedInside
<1> QED BY <1>1, <1>3 DEF NoFrameLeaks

-----------------------------------------------------------------------------
(* What the steps do to the frames *)

FrameInv == FramesAccounted /\ NoFrameLeaks /\ FramesOwnedOnce /\ DirShape /\ FreshPages

(* Steps that touch neither the bitmap nor the tables. *)
LEMMA FramesUntouched ==
  ASSUME Inv, mode' # "boot" => mode # "boot", LiveDir' = LiveDir,
         UNCHANGED <<e820, nframes, bitmap, frames_free, page_dir, ram, pid>>
  PROVE  FrameInv'
<1>1. ReservedFrames(nframes)' = ReservedFrames(nframes)
  BY ReservedStable
<1>2. KernelTables' = KernelTables /\ ProcessFrames(LiveDir)' = ProcessFrames(LiveDir)
      /\ UserTable(LiveDir)' = UserTable(LiveDir) /\ UserPages(LiveDir)' = UserPages(LiveDir)
  BY DEF KernelTables, ProcessFrames, UserTable, UserPages
<1>3. FramesAccounted'
  BY DEF Inv, FramesAccounted, FreeFrames, AllFrames
<1>4. NoFrameLeaks'
  BY <1>1, <1>2 DEF Inv, NoFrameLeaks
<1>5. FramesOwnedOnce'
  BY <1>1, <1>2 DEF Inv, FramesOwnedOnce
<1>6. DirShape'
  BY DEF Inv, DirShape
<1>7. FreshPages'
  BY <1>2 DEF Inv, FreshPages
<1> QED BY <1>3, <1>4, <1>5, <1>6, <1>7 DEF FrameInv

(* The live process: its directory, table and pages are frames in use. *)
LEMMA LiveFacts ==
  ASSUME Inv, mode # "boot", LiveDir # 0
  PROVE  LET d == LiveDir
         IN  /\ d \in Frame /\ UserTable(d) \in Frame /\ d # UserTable(d)
             /\ ProcessFrames(d) = {d, UserTable(d)} \cup UserPages(d)
             /\ ProcessFrames(d) \subseteq bitmap
             /\ UserPages(d) \subseteq Frame
             /\ \A f \in UserPages(d) : f # d /\ f # UserTable(d)
<1> DEFINE d == LiveDir
<1>1. USER_PDE \in Index
  BY LayoutAssumption, Indices DEF USER_PDE
<1>2. d \in Frame
  BY DEF Inv, TypeOK, LiveDir
<1>3. ram[d] \in Page /\ ram[d].ent[USER_PDE] \in Entry
  BY <1>1, <1>2 DEF Inv, TypeOK, Page
<1>4. UserTable(d) \in Frame
  BY <1>3 DEF UserTable, Entry
<1>5. ram[UserTable(d)].ent \in [Index -> Entry]
  BY <1>4 DEF Inv, TypeOK, Page
<1>6. UserPages(d) \subseteq Frame
  BY <1>5 DEF UserPages, FramesIn, Entry
<1>7. ProcessFrames(d) = {d, UserTable(d)} \cup UserPages(d)
  BY DEF Inv, DirShape, ProcessFrames, KernelDir
<1>8. ProcessFrames(d) \subseteq bitmap
  BY DEF Inv, NoFrameLeaks
<1>9. d # UserTable(d) /\ \A f \in UserPages(d) : f # d /\ f # UserTable(d)
  BY DEF Inv, FramesOwnedOnce
<1> QED BY <1>2, <1>4, <1>6, <1>7, <1>8, <1>9

(* A store to a page of the program leaves every table as it is. *)
LEMMA PageWrite ==
  ASSUME Inv, mode # "boot", cur_dir # 0, NEW f \in UserPages(cur_dir),
         ram' = [ram EXCEPT ![f] = Scribbled(pid)], LiveDir' = LiveDir,
         UNCHANGED <<e820, nframes, bitmap, frames_free, page_dir, pid>>
  PROVE  FrameInv'
<1> DEFINE d == LiveDir
           T == UserTable(d)
<1>1. d = cur_dir /\ d # 0
  BY DEF LiveDir
<1>2. /\ d \in Frame /\ T \in Frame /\ f \in Frame /\ f # d /\ f # T
      /\ ProcessFrames(d) = {d, T} \cup UserPages(d)
  BY <1>1, LiveFacts
<1>3. ram'[d] = ram[d] /\ ram'[T] = ram[T] /\ LiveDir' = d
      /\ \A g \in Frame : ram'[g].data = IF g = f THEN pid ELSE ram[g].data
  BY <1>2 DEF Inv, TypeOK, Scribbled
<1>4. UserTable(LiveDir)' = T
  BY <1>3 DEF UserTable
<1>5. UserPages(LiveDir)' = UserPages(d)
  BY <1>3, <1>4 DEF UserPages
<1>6. ProcessFrames(LiveDir)' = ProcessFrames(d)
  BY <1>1, <1>3, <1>4, <1>5 DEF ProcessFrames
<1>7. ReservedFrames(nframes)' = ReservedFrames(nframes) /\ KernelTables' = KernelTables
  BY ReservedStable DEF KernelTables
<1>8. FramesAccounted'
  BY DEF Inv, FramesAccounted, FreeFrames, AllFrames
<1>9. NoFrameLeaks'
  BY <1>6, <1>7 DEF Inv, NoFrameLeaks
<1>10. FramesOwnedOnce'
  BY <1>1, <1>3, <1>4, <1>5, <1>6, <1>7 DEF Inv, FramesOwnedOnce
<1>11. DirShape'
  BY <1>3 DEF Inv, DirShape
<1>12. FreshPages'
  <2>1. UserPages(d) \subseteq Frame
    BY <1>1, LiveFacts
  <2> QED BY <1>1, <1>3, <1>5, <2>1 DEF Inv, FreshPages
<1> QED BY <1>8, <1>9, <1>10, <1>11, <1>12 DEF FrameInv

(* vm_fault adds one zeroed frame to the pages of the program. *)
LEMMA FaultServed ==
  ASSUME Inv, mode # "boot", cur_dir # 0, NEW a \in Address, vm_fault(a),
         LiveDir' = LiveDir, UNCHANGED <<e820, nframes, page_dir, pid>>
  PROVE  /\ FrameInv' /\ bitmap' \subseteq AllFrames
         /\ ram' \in [Frame -> Page] /\ frames_free' \in Nat
<1> DEFINE d == LiveDir
           T == UserTable(d)
           j == Pti(a)
<1>1. d = cur_dir /\ d # 0 /\ d = cr3 /\ DirOf(cr3) = ram[d].ent
  BY DEF LiveDir, Inv, Control, DirOf, KernelDir
<1>2. Pdi(a) = USER_PDE /\ j \in Index
  BY WindowPdi, Indices DEF vm_fault, Address
<1>3. DirOf(cr3)[Pdi(a)].frame = T /\ Pte(a) = ram[T].ent[j]
  BY <1>1, <1>2 DEF Pte, UserTable
<1>4. PICK f \in FreeFrames :
        /\ bitmap' = bitmap \cup {f}
        /\ frames_free' = frames_free - 1
        /\ ram' = [ram EXCEPT ![f] = Zeroed, ![T].ent[j] = User(f)]
  BY <1>3 DEF vm_fault
<1>5. /\ d \in Frame /\ T \in Frame /\ d # T
      /\ ProcessFrames(d) = {d, T} \cup UserPages(d)
      /\ ProcessFrames(d) \subseteq bitmap /\ UserPages(d) \subseteq Frame
      /\ \A g \in UserPages(d) : g # d /\ g # T
  BY <1>1, LiveFacts
<1>6. /\ f \in Frame /\ f # 0 /\ f \notin bitmap /\ f # d /\ f # T
      /\ f \notin UserPages(d)
      /\ f \notin ReservedFrames(nframes) /\ f \notin KernelTables
  BY <1>5, FreshFrame DEF Inv
<1>7. /\ ram'[d] = ram[d] /\ ram'[f] = Zeroed
      /\ ram'[T].ent = [ram[T].ent EXCEPT ![j] = User(f)]
      /\ \A g \in Frame : g # f /\ g # T => ram'[g] = ram[g]
  BY <1>4, <1>5, <1>6 DEF Inv, TypeOK, Page
<1>8. ram[T].ent \in [Index -> Entry] /\ ~ram[T].ent[j].present
  BY <1>3, <1>5 DEF Inv, TypeOK, Page, vm_fault
<1>9. ram' \in [Frame -> Page]
  <2>1. Zeroed \in Page
    BY Sizes DEF Zeroed, EmptyTable, NoEntry, Page, Entry
  <2>2. User(f) \in Entry
    BY <1>6 DEF User, Entry
  <2> QED BY <1>2, <1>4, <1>5, <1>6, <2>1, <2>2 DEF Inv, TypeOK, Page
<1>10. UserTable(LiveDir)' = T /\ LiveDir' = d
  BY <1>7 DEF UserTable
<1>11. UserPages(LiveDir)' = UserPages(d) \cup {f}
  <2>1. UserPages(LiveDir)' = FramesIn([ram[T].ent EXCEPT ![j] = User(f)])
    BY <1>7, <1>10 DEF UserPages
  <2>2. User(f) \in Entry /\ User(f).present /\ User(f).frame = f
    BY <1>6 DEF User, Entry
  <2> QED BY <1>2, <1>8, <2>1, <2>2, AddEntry DEF UserPages
<1>12. ProcessFrames(LiveDir)' = ProcessFrames(d) \cup {f}
  <2>1. ram'[d].ent[USER_PDE].present
    BY <1>1, <1>7 DEF Inv, DirShape
  <2>2. ProcessFrames(LiveDir)' = {d, T} \cup UserPages(LiveDir)'
    BY <1>1, <1>10, <2>1 DEF ProcessFrames, KernelDir
  <2> QED BY <1>5, <1>11, <2>2
<1>13. ReservedFrames(nframes)' = ReservedFrames(nframes) /\ KernelTables' = KernelTables
  BY ReservedStable DEF KernelTables
<1>14. FramesAccounted' /\ frames_free' \in Nat
  <2>1. IsFiniteSet(AllFrames) /\ f \in AllFrames \ bitmap /\ AllFrames' = AllFrames
    BY FramesFinite DEF Inv, FreeFrames, AllFrames
  <2>2. Cardinality(AllFrames \ (bitmap \cup {f})) = Cardinality(AllFrames \ bitmap) - 1
    BY <2>1, CountAlloc
  <2>3. FramesAccounted'
    BY <1>4, <2>1, <2>2 DEF Inv, FramesAccounted, FreeFrames
  <2>4. IsFiniteSet(AllFrames \ (bitmap \cup {f}))
    BY <2>1, FS_Subset
  <2>5. Cardinality(AllFrames \ (bitmap \cup {f})) \in Nat
    BY <2>4, FS_CardinalityType
  <2> QED BY <1>4, <2>1, <2>3, <2>5 DEF FramesAccounted, FreeFrames
<1>15. NoFrameLeaks' /\ bitmap' \subseteq AllFrames
  <2>1. bitmap = ReservedFrames(nframes) \cup KernelTables \cup ProcessFrames(d)
    BY DEF Inv, NoFrameLeaks
  <2>2. bitmap' = (ReservedFrames(nframes) \cup KernelTables \cup ProcessFrames(LiveDir))'
    BY <1>4, <1>12, <1>13, <2>1
  <2> QED BY <1>4, <2>2 DEF NoFrameLeaks, FreeFrames, Inv, TypeOK
<1>16. FramesOwnedOnce'
  <2>1. ProcessFrames(LiveDir)' \cap (ReservedFrames(nframes) \cup KernelTables)' = {}
    BY <1>6, <1>12, <1>13 DEF Inv, FramesOwnedOnce
  <2>2. {d, T} \cap UserPages(LiveDir)' = {}
    BY <1>5, <1>6, <1>11
  <2>3. \A m, n \in Index :
          ram'[T].ent[m].present /\ ram'[T].ent[n].present
            /\ ram'[T].ent[m].frame = ram'[T].ent[n].frame => m = n
    <3>1. \A k \in Index : ram[T].ent[k].present => ram[T].ent[k].frame # f
      BY <1>6 DEF UserPages, FramesIn
    <3>2. \A k \in Index : k # j => ram'[T].ent[k] = ram[T].ent[k]
      BY <1>7, <1>8
    <3>3. ram'[T].ent[j].frame = f
      BY <1>2, <1>7, <1>8 DEF User
    <3>4. \A m, n \in Index :
            ram[T].ent[m].present /\ ram[T].ent[n].present
              /\ ram[T].ent[m].frame = ram[T].ent[n].frame => m = n
      BY <1>1 DEF Inv, FramesOwnedOnce
    <3> QED BY <3>1, <3>2, <3>3, <3>4
  <2> QED BY <1>1, <1>5, <1>10, <1>13, <2>1, <2>2, <2>3 DEF Inv, FramesOwnedOnce
<1>17. DirShape'
  BY <1>7, <1>10 DEF Inv, DirShape
<1>18. FreshPages'
  <2>1. \A g \in UserPages(d) : ram'[g] = ram[g]
    BY <1>5, <1>6, <1>7
  <2>2. ram'[f].data = 0
    BY <1>7 DEF Zeroed
  <2> QED BY <1>1, <1>11, <2>1, <2>2 DEF Inv, FreshPages
<1> QED BY <1>9, <1>14, <1>15, <1>16, <1>17, <1>18 DEF FrameInv

(* vm_create builds a process from two fresh frames. *)
LEMMA Created ==
  ASSUME Inv, mode = "shell", vm_create, dying' = 0,
         UNCHANGED <<e820, nframes, page_dir>>
  PROVE  /\ FrameInv' /\ bitmap' \subseteq AllFrames
         /\ ram' \in [Frame -> Page] /\ frames_free' \in Nat
         /\ cr3' = cur_dir' /\ cur_dir' \in Frame /\ cur_dir' # 0
<1>1. cur_dir = 0 /\ dying = 0 /\ LiveDir = 0 /\ ProcessFrames(LiveDir) = {}
  BY DEF Inv, Control, LiveDir, ProcessFrames, KernelDir
<1>2. PICK d \in FreeFrames, pt \in FreeFrames :
        /\ pt \in FreeFrames \ {d}
        /\ bitmap' = bitmap \cup {d, pt}
        /\ frames_free' = frames_free - 2
        /\ ram' = [ram EXCEPT
                     ![d] = [ent |-> [page_dir EXCEPT ![USER_PDE] = User(pt)],
                             data |-> KERNEL_DATA],
                     ![pt] = Zeroed]
        /\ cr3' = d /\ cur_dir' = d
  BY DEF vm_create, alloc_frame, IsMin
<1>3. /\ d \in Frame /\ d # 0 /\ d \notin bitmap
      /\ pt \in Frame /\ pt # 0 /\ pt \notin bitmap /\ d # pt
      /\ d \notin ReservedFrames(nframes) \cup KernelTables
      /\ pt \notin ReservedFrames(nframes) \cup KernelTables
  BY <1>2, FreshFrame DEF Inv
<1>4. LiveDir' = d
  BY <1>2, <1>3 DEF LiveDir
<1>5. USER_PDE \in Index
  BY LayoutAssumption, Indices DEF USER_PDE
<1>6. Zeroed \in Page /\ User(pt) \in Entry /\ KERNEL_DATA \in Nat \cup {KERNEL_DATA}
  BY <1>3, Sizes DEF Zeroed, EmptyTable, NoEntry, Page, Entry, User
<1>7. ram' \in [Frame -> Page]
  BY <1>2, <1>3, <1>5, <1>6 DEF Inv, TypeOK, Page
<1>8. /\ ram'[d].ent = [page_dir EXCEPT ![USER_PDE] = User(pt)]
      /\ ram'[pt] = Zeroed
  BY <1>2, <1>3 DEF Inv, TypeOK
<1>9. ram'[d].ent[USER_PDE] = User(pt)
      /\ \A i \in Index : i # USER_PDE => ram'[d].ent[i] = page_dir[i]
  BY <1>5, <1>8 DEF Inv, TypeOK
<1>10. UserTable(LiveDir)' = pt
  BY <1>4, <1>9 DEF UserTable, User
<1>11. UserPages(LiveDir)' = {}
  <2>1. \A i \in Index : ~ram'[pt].ent[i].present
    BY <1>8 DEF Zeroed, EmptyTable, NoEntry
  <2> QED BY <1>8, <1>10, <2>1 DEF UserPages, FramesIn
<1>12. ProcessFrames(LiveDir)' = {d, pt}
  BY <1>3, <1>4, <1>9, <1>10, <1>11 DEF ProcessFrames, KernelDir, User
<1>13. ReservedFrames(nframes)' = ReservedFrames(nframes) /\ KernelTables' = KernelTables
  BY ReservedStable DEF KernelTables
<1>14. FramesAccounted' /\ frames_free' \in Nat
  <2>1. /\ IsFiniteSet(AllFrames) /\ AllFrames' = AllFrames
        /\ d \in AllFrames \ bitmap /\ pt \in AllFrames \ (bitmap \cup {d})
    BY <1>2, FramesFinite DEF Inv, FreeFrames, AllFrames
  <2>2. Cardinality(AllFrames \ (bitmap \cup {d})) = Cardinality(AllFrames \ bitmap) - 1
    BY <2>1, CountAlloc
  <2>3. Cardinality(AllFrames \ ((bitmap \cup {d}) \cup {pt}))
          = Cardinality(AllFrames \ (bitmap \cup {d})) - 1
    BY <2>1, CountAlloc
  <2>4. bitmap' = (bitmap \cup {d}) \cup {pt}
    BY <1>2
  <2>5. IsFiniteSet(AllFrames \ bitmap') /\ IsFiniteSet(AllFrames \ bitmap)
    BY <2>1, FS_Subset
  <2>6. Cardinality(AllFrames \ bitmap') \in Nat /\ Cardinality(AllFrames \ bitmap) \in Nat
    BY <2>5, FS_CardinalityType
  <2>7. frames_free = Cardinality(AllFrames \ bitmap)
    BY DEF Inv, FramesAccounted, FreeFrames
  <2>8. Cardinality(AllFrames \ bitmap') = Cardinality(AllFrames \ bitmap) - 2
    BY <2>2, <2>3, <2>4, <2>6
  <2> QED BY <1>2, <2>1, <2>6, <2>7, <2>8 DEF FramesAccounted, FreeFrames
<1>15. NoFrameLeaks' /\ bitmap' \subseteq AllFrames
  <2>1. bitmap = ReservedFrames(nframes) \cup KernelTables
    BY <1>1 DEF Inv, NoFrameLeaks
  <2>2. bitmap' = (ReservedFrames(nframes) \cup KernelTables \cup ProcessFrames(LiveDir))'
    BY <1>2, <1>12, <1>13, <2>1
  <2> QED BY <1>2, <2>2 DEF NoFrameLeaks, FreeFrames, Inv, TypeOK
<1>16. FramesOwnedOnce'
  <2>1. ProcessFrames(LiveDir)' \cap (ReservedFrames(nframes) \cup KernelTables)' = {}
    BY <1>3, <1>12, <1>13
  <2>2. \A i \in Index : ~ram'[pt].ent[i].present
    BY <1>8 DEF Zeroed, EmptyTable, NoEntry
  <2> QED BY <1>3, <1>4, <1>10, <1>11, <1>13, <2>1, <2>2 DEF Inv, FramesOwnedOnce
<1>17. DirShape'
  BY <1>4, <1>9 DEF Inv, DirShape, User
<1>18. FreshPages'
  BY <1>11 DEF FreshPages
<1> QED BY <1>2, <1>3, <1>7, <1>14, <1>15, <1>16, <1>17, <1>18 DEF FrameInv

(* vm_destroy gives back exactly what the process owned. *)
LEMMA Destroyed ==
  ASSUME Inv, mode = "destroy", vm_destroy(dying), cur_dir' = 0, dying' = 0,
         UNCHANGED <<e820, nframes, page_dir>>
  PROVE  /\ FrameInv' /\ bitmap' \subseteq AllFrames
         /\ ram' \in [Frame -> Page] /\ frames_free' \in Nat
<1> DEFINE P == ProcessFrames(dying)
<1>1. LiveDir = dying /\ dying # 0 /\ LiveDir' = 0
  BY DEF Inv, Control, LiveDir
<1>2. P \subseteq bitmap /\ bitmap \subseteq AllFrames /\ dying \in Frame
  BY <1>1, LiveFacts DEF Inv, TypeOK
<1>3. P \cap AllFrames = P /\ P \cap AllFrames \cap bitmap = P
  BY <1>2
<1>4. /\ bitmap' = bitmap \ P
      /\ frames_free' = frames_free + Cardinality(P)
      /\ ram' = [ram EXCEPT ![dying].ent[USER_PDE] = NoEntry]
  BY <1>3 DEF vm_destroy, free_frames
<1>5. ram' \in [Frame -> Page]
  <2>1. USER_PDE \in Index
    BY LayoutAssumption, Indices DEF USER_PDE
  <2>2. NoEntry \in Entry
    BY Sizes DEF NoEntry, Entry
  <2> QED BY <1>2, <1>4, <2>1, <2>2 DEF Inv, TypeOK, Page
<1>6. ReservedFrames(nframes)' = ReservedFrames(nframes) /\ KernelTables' = KernelTables
  BY ReservedStable DEF KernelTables
<1>7. ProcessFrames(LiveDir)' = {}
  BY <1>1 DEF ProcessFrames, KernelDir
<1>8. FramesAccounted' /\ frames_free' \in Nat
  <2>1. IsFiniteSet(AllFrames) /\ AllFrames' = AllFrames
    BY FramesFinite DEF Inv, AllFrames
  <2>2. Cardinality(AllFrames \ (bitmap \ P)) = Cardinality(AllFrames \ bitmap) + Cardinality(P)
    BY <1>2, <2>1, CountFree
  <2>3. IsFiniteSet(AllFrames \ bitmap')
    BY <2>1, FS_Subset
  <2>4. Cardinality(AllFrames \ bitmap') \in Nat
    BY <2>3, FS_CardinalityType
  <2>5. frames_free' = Cardinality(AllFrames \ bitmap')
    BY <1>4, <2>2 DEF Inv, FramesAccounted, FreeFrames
  <2> QED BY <2>1, <2>4, <2>5 DEF FramesAccounted, FreeFrames
<1>9. NoFrameLeaks' /\ bitmap' \subseteq AllFrames
  <2>1. bitmap = ReservedFrames(nframes) \cup KernelTables \cup P
    BY <1>1 DEF Inv, NoFrameLeaks
  <2>2. P \cap (ReservedFrames(nframes) \cup KernelTables) = {}
    BY <1>1 DEF Inv, FramesOwnedOnce
  <2>3. bitmap' = ReservedFrames(nframes) \cup KernelTables
    BY <1>4, <2>1, <2>2
  <2> QED BY <1>2, <1>4, <1>6, <1>7, <2>3 DEF NoFrameLeaks
<1>10. FramesOwnedOnce'
  BY <1>1, <1>6, <1>7 DEF Inv, FramesOwnedOnce
<1>11. DirShape'
  BY <1>1 DEF Inv, DirShape
<1>12. FreshPages'
  BY <1>1 DEF FreshPages
<1> QED BY <1>5, <1>8, <1>9, <1>10, <1>11, <1>12 DEF FrameInv

(* A failed vm_create writes only to a free frame. *)
LEMMA NotCreated ==
  ASSUME Inv, mode = "shell", vm_create_fails, UNCHANGED <<e820, nframes, page_dir, dying>>
  PROVE  FrameInv' /\ ram' \in [Frame -> Page]
<1>1. LiveDir = 0 /\ LiveDir' = 0 /\ UNCHANGED <<bitmap, frames_free>>
  BY DEF Inv, Control, LiveDir, vm_create_fails
<1>2. ram' \in [Frame -> Page]
  BY DEF vm_create_fails, Inv, TypeOK, Page
<1>3. ReservedFrames(nframes)' = ReservedFrames(nframes) /\ KernelTables' = KernelTables
  BY ReservedStable DEF KernelTables, FramesIn
<1>4. ProcessFrames(LiveDir)' = {} /\ ProcessFrames(LiveDir) = {}
  BY <1>1 DEF ProcessFrames, KernelDir
<1>5. FramesAccounted'
  BY <1>1 DEF Inv, FramesAccounted, FreeFrames, AllFrames
<1>6. NoFrameLeaks'
  BY <1>1, <1>3, <1>4 DEF Inv, NoFrameLeaks
<1>7. FramesOwnedOnce'
  BY <1>1, <1>3, <1>4 DEF Inv, FramesOwnedOnce
<1>8. DirShape' /\ FreshPages'
  BY <1>1 DEF Inv, DirShape, FreshPages
<1> QED BY <1>2, <1>5, <1>6, <1>7, <1>8 DEF FrameInv

(* memory_init starts from the reserved frames and counts the others. *)
LEMMA MemoryReady ==
  ASSUME Inv, mode = "boot", memory_init,
         UNCHANGED <<e820, page_dir, ram, cur_dir, dying>>
  PROVE  /\ FrameInv' /\ nframes' \in 0 .. ENTRIES * ENTRIES
         /\ bitmap' \subseteq AllFrames' /\ frames_free' \in Nat
<1>1. LiveDir' = 0 /\ page_dir = EmptyTable /\ page_dir' = EmptyTable
  BY DEF Inv, Control, LiveDir, Booting
<1>2. PICK top \in Address : nframes' = top \div PAGE_SIZE
  BY DEF memory_init
<1>3. nframes' \in Nat /\ nframes' \in 0 .. ENTRIES * ENTRIES
  <2>1. top \in Nat /\ top < PAGE_SIZE * (ENTRIES * ENTRIES)
    BY Sizes DEF Address
  <2>2. top \div PAGE_SIZE < ENTRIES * ENTRIES
    BY <2>1, Sizes, DivBelow
  <2>3. top \div PAGE_SIZE \in Nat
    BY <2>1, Sizes, DivFacts
  <2> QED BY <1>2, <2>2, <2>3, Sizes
<1>4. bitmap' = ReservedFrames(nframes') /\ ReservedFrames(nframes)' = ReservedFrames(nframes')
  BY DEF memory_init, ReservedFrames, NeverHandedOut, BitmapFrames, in_usable, UsableEntries
<1>5. ReservedFrames(nframes') \subseteq 0 .. nframes' - 1
  BY <1>3, ReservedInside
<1>6. KernelTables' = {} /\ ProcessFrames(LiveDir)' = {}
  BY <1>1 DEF KernelTables, FramesIn, EmptyTable, NoEntry, ProcessFrames, KernelDir
<1>7. FramesAccounted' /\ frames_free' \in Nat
  <2>1. frames_free' = Cardinality((0 .. nframes' - 1) \ bitmap')
    BY DEF memory_init
  <2>2. IsFiniteSet(0 .. nframes' - 1)
    BY <1>3, FS_Interval
  <2>3. IsFiniteSet((0 .. nframes' - 1) \ bitmap')
    BY <2>2, FS_Subset
  <2> QED BY <2>1, <2>3, FS_CardinalityType DEF FramesAccounted, FreeFrames, AllFrames
<1>8. NoFrameLeaks' /\ bitmap' \subseteq AllFrames'
  BY <1>4, <1>5, <1>6 DEF NoFrameLeaks, AllFrames
<1>9. FramesOwnedOnce'
  BY <1>1, <1>6 DEF FramesOwnedOnce, EmptyTable, NoEntry
<1>10. DirShape' /\ FreshPages'
  BY <1>1 DEF DirShape, FreshPages, EmptyTable, NoEntry
<1> QED BY <1>3, <1>7, <1>8, <1>9, <1>10 DEF FrameInv

(* map_range fills kernel tables, each in a frame of its own. *)
LEMMA PageMapped ==
  ASSUME Inv, mode = "mapping", MapPage, UNCHANGED <<e820, nframes, cur_dir, dying>>
  PROVE  /\ FrameInv' /\ bitmap' \subseteq AllFrames /\ frames_free' \in Nat
         /\ ram' \in [Frame -> Page] /\ page_dir' \in [Index -> Entry]
<1> DEFINE i == Pdi(mapping.v)
           j == Pti(mapping.v)
<1>1. LiveDir = 0 /\ LiveDir' = 0 /\ ProcessFrames(LiveDir) = {}
      /\ ProcessFrames(LiveDir)' = {}
  BY DEF Inv, Control, LiveDir, Booting, ProcessFrames, KernelDir
<1>2. /\ mapping.v \in Address /\ i \in Index /\ j \in Index
      /\ Supervisor(FrameOf(mapping.v)) \in Entry
  <2>1. mapping.v \in Address
    BY DEF Inv, TypeOK
  <2> QED BY <2>1, Indices DEF Supervisor, Entry
<1>3. page_dir \in [Index -> Entry] /\ ram \in [Frame -> Page] /\ page_dir[i] \in Entry
  BY <1>2 DEF Inv, TypeOK
<1>4. ReservedFrames(nframes)' = ReservedFrames(nframes) /\ AllFrames' = AllFrames
  BY ReservedStable DEF AllFrames
<1>5. CASE page_dir[i].present
  <2> DEFINE pt == page_dir[i].frame
  <2>1. /\ MapInto(pt, page_dir, ram[pt])
        /\ UNCHANGED <<bitmap, frames_free>>
    BY <1>5 DEF MapPage
  <2>2. page_dir' = page_dir
    BY <1>2, <1>3, <1>5, <2>1 DEF MapInto, Supervisor, Inv, DirShape, Entry
  <2>3. ram' \in [Frame -> Page]
    <3>1. pt \in Frame /\ ram[pt] \in Page
      BY <1>3 DEF Entry
    <3> QED BY <1>2, <1>3, <2>1, <3>1 DEF MapInto, Page
  <2>4. KernelTables' = KernelTables
    BY <2>2 DEF KernelTables, FramesIn
  <2>5. FramesAccounted' /\ NoFrameLeaks' /\ bitmap' \subseteq AllFrames /\ frames_free' \in Nat
    BY <1>1, <1>4, <2>1, <2>4
    DEF Inv, TypeOK, FramesAccounted, FreeFrames, NoFrameLeaks
  <2>6. FramesOwnedOnce'
    BY <1>1, <1>4, <2>2, <2>4 DEF Inv, FramesOwnedOnce
  <2>7. DirShape' /\ FreshPages'
    BY <1>1, <2>2 DEF Inv, DirShape, FreshPages
  <2> QED BY <1>3, <2>2, <2>3, <2>5, <2>6, <2>7 DEF FrameInv
<1>6. CASE ~page_dir[i].present /\ FreeFrames # {}
  <2>1. PICK pt \in FreeFrames :
          /\ bitmap' = bitmap \cup {pt}
          /\ frames_free' = frames_free - 1
          /\ MapInto(pt, page_dir, Zeroed)
    BY <1>6 DEF MapPage
  <2>2. /\ pt \in Frame /\ pt \notin bitmap
        /\ pt \notin ReservedFrames(nframes) /\ pt \notin KernelTables
    BY FreshFrame DEF Inv
  <2>3. Supervisor(pt) \in Entry /\ Supervisor(pt).present /\ Supervisor(pt).frame = pt
        /\ ~Supervisor(pt).user
    BY <2>2 DEF Supervisor, Entry
  <2>4. page_dir' = [page_dir EXCEPT ![i] = Supervisor(pt)]
    BY <2>1 DEF MapInto
  <2>5. page_dir' \in [Index -> Entry]
    BY <1>3, <2>3, <2>4
  <2>6. ram' \in [Frame -> Page]
    <3>1. Zeroed \in Page
      BY Sizes DEF Zeroed, EmptyTable, NoEntry, Page, Entry
    <3> QED BY <1>2, <1>3, <2>1, <2>2, <3>1 DEF MapInto, Page
  <2>7. KernelTables' = KernelTables \cup {pt}
    BY <1>2, <1>3, <1>6, <2>3, <2>4, AddEntry DEF KernelTables
  <2>8. FramesAccounted' /\ frames_free' \in Nat
    <3>1. IsFiniteSet(AllFrames) /\ pt \in AllFrames \ bitmap
      BY FramesFinite DEF Inv, FreeFrames
    <3>2. Cardinality(AllFrames \ (bitmap \cup {pt})) = Cardinality(AllFrames \ bitmap) - 1
      BY <3>1, CountAlloc
    <3>3. FramesAccounted'
      BY <1>4, <2>1, <3>2 DEF Inv, FramesAccounted, FreeFrames
    <3>4. IsFiniteSet(AllFrames \ (bitmap \cup {pt}))
      BY <3>1, FS_Subset
    <3>5. Cardinality(AllFrames \ (bitmap \cup {pt})) \in Nat
      BY <3>4, FS_CardinalityType
    <3> QED BY <1>4, <2>1, <3>3, <3>5 DEF FramesAccounted, FreeFrames
  <2>9. NoFrameLeaks' /\ bitmap' \subseteq AllFrames
    <3>1. bitmap = ReservedFrames(nframes) \cup KernelTables
      BY <1>1 DEF Inv, NoFrameLeaks
    <3>2. bitmap' = (ReservedFrames(nframes) \cup KernelTables \cup ProcessFrames(LiveDir))'
      BY <1>1, <1>4, <2>1, <2>7, <3>1
    <3> QED BY <2>1, <3>2 DEF NoFrameLeaks, FreeFrames, Inv, TypeOK
  <2>10. FramesOwnedOnce'
    <3>1. (KernelTables \cap ReservedFrames(nframes))' = {}
      BY <1>4, <2>2, <2>7 DEF Inv, FramesOwnedOnce
    <3>2. \A m \in Index : page_dir[m].present => page_dir[m].frame # pt
      BY <2>2 DEF KernelTables, FramesIn
    <3>3. \A m, n \in Index :
            page_dir[m].present /\ page_dir[n].present
              /\ page_dir[m].frame = page_dir[n].frame => m = n
      BY DEF Inv, FramesOwnedOnce
    <3>4. page_dir'[i] = Supervisor(pt) /\ \A m \in Index : m # i => page_dir'[m] = page_dir[m]
      BY <1>2, <1>3, <2>4
    <3>5. \A m, n \in Index :
            page_dir'[m].present /\ page_dir'[n].present
              /\ page_dir'[m].frame = page_dir'[n].frame => m = n
      BY <2>3, <3>2, <3>3, <3>4
    <3> QED BY <1>1, <3>1, <3>5 DEF FramesOwnedOnce
  <2>11. DirShape' /\ FreshPages'
    BY <1>1, <1>2, <1>3, <2>3, <2>4 DEF Inv, DirShape, FreshPages
  <2> QED BY <2>5, <2>6, <2>8, <2>9, <2>10, <2>11 DEF FrameInv
<1>7. CASE ~page_dir[i].present /\ FreeFrames = {}
  <2>1. UNCHANGED <<bitmap, frames_free, page_dir, ram>>
    BY <1>7 DEF MapPage
  <2>2. KernelTables' = KernelTables
    BY <2>1 DEF KernelTables, FramesIn
  <2>3. FramesAccounted' /\ NoFrameLeaks' /\ bitmap' \subseteq AllFrames /\ frames_free' \in Nat
    BY <1>1, <1>4, <2>1, <2>2
    DEF Inv, TypeOK, FramesAccounted, FreeFrames, NoFrameLeaks
  <2>4. FramesOwnedOnce'
    BY <1>1, <1>4, <2>1, <2>2 DEF Inv, FramesOwnedOnce
  <2>5. DirShape' /\ FreshPages'
    BY <1>1, <2>1 DEF Inv, DirShape, FreshPages
  <2> QED BY <1>3, <2>1, <2>3, <2>4, <2>5 DEF FrameInv
<1> QED BY <1>5, <1>6, <1>7

-----------------------------------------------------------------------------
(* Types *)

(* The ranges of paging_init start and end inside the address space. *)
LEMMA RangeBounds ==
  ASSUME TypeOK, NEW k \in Nat, ~(k > LastRange)
  PROVE  MapRange(k).from \in Address /\ MapRange(k).to \in Address
<1>1. e820 \in Seq(E820Entry) /\ Len(e820) \in Nat
  BY E820Assumption DEF TypeOK
<1>2. CASE k = 0
  <2>1. MapRange(k) = [from |-> 0, to |-> LOW_END]
    BY <1>2 DEF MapRange
  <2> QED BY <2>1, Sizes, LayoutAssumption
<1>3. CASE k # 0
  <2>1. (k + 1) \div 2 \in 1 .. Len(e820)
    BY <1>1, <1>3 DEF LastRange
  <2> DEFINE e == e820[(k + 1) \div 2]
             r == EntryRange(e)
  <2>2. e \in E820Entry
    BY <1>1, <2>1
  <2> HIDE DEF e
  <2>3. r.from \in Address
    BY <2>2, Sizes, LayoutAssumption DEF EntryRange, HighOf, E820Entry, Address
  <2>4. r.to \in Address
    <3> DEFINE x == HighOf(e.base, LOW_END) + e.len
    <3>1. x \in Nat
      BY <2>2, Sizes, LayoutAssumption DEF HighOf, E820Entry, Address
    <3> HIDE DEF x
    <3>2. x % WORD \in Address
      BY <3>1, Sizes, DivFacts DEF Address
    <3>3. r.to = 0 \/ r.to = x % WORD
      BY DEF EntryRange, x
    <3> QED BY <3>2, <3>3, Sizes
  <2> HIDE DEF r
  <2>5. HighOf(r.from, USER_TOP) \in Address /\ LowOf(r.to, USER_BASE) \in Address
    BY <2>3, <2>4, LayoutAssumption DEF HighOf, LowOf
  <2>6. CASE k % 2 = 1
    <3>1. MapRange(k) = [from |-> r.from, to |-> LowOf(r.to, USER_BASE)]
      BY <1>3, <2>6 DEF MapRange, r, e
    <3> QED BY <2>3, <2>5, <3>1
  <2>7. CASE k % 2 # 1
    <3>1. MapRange(k) = [from |-> HighOf(r.from, USER_TOP), to |-> r.to]
      BY <1>3, <2>7 DEF MapRange, r, e
    <3> QED BY <2>4, <2>5, <3>1
  <2> QED BY <2>6, <2>7
<1> QED BY <1>2, <1>3

(* The loops of paging_init start at a page boundary of the address space. *)
LEMMA StartRangeType ==
  ASSUME TypeOK, NEW k \in Nat
  PROVE  StartRange(k) \in [range : Nat, v : Address]
<1>1. CASE k > LastRange
  BY <1>1, Sizes DEF StartRange
<1>2. CASE ~(k > LastRange)
  <2>1. MapRange(k).from \in Address
    BY <1>2, RangeBounds
  <2> DEFINE a == MapRange(k).from
  <2>2. a \in Nat /\ a < WORD
    BY <2>1, Sizes DEF Address
  <2> HIDE DEF a
  <2>3. /\ a \div PAGE_SIZE \in Nat /\ a % PAGE_SIZE \in Nat
        /\ a = PAGE_SIZE * (a \div PAGE_SIZE) + (a % PAGE_SIZE)
    BY <2>2, Sizes, DivFacts
  <2>4. (a \div PAGE_SIZE) * PAGE_SIZE \in Nat
        /\ (a \div PAGE_SIZE) * PAGE_SIZE = PAGE_SIZE * (a \div PAGE_SIZE)
    BY <2>3, Sizes
  <2>5. (a \div PAGE_SIZE) * PAGE_SIZE \in Address
    BY <2>2, <2>3, <2>4, Sizes DEF Address
  <2>6. StartRange(k) = [range |-> k, v |-> (a \div PAGE_SIZE) * PAGE_SIZE]
    BY <1>2 DEF StartRange, a
  <2> QED BY <2>5, <2>6
<1> QED BY <1>1, <1>2 DEF LastRange

(* vm_note_load and vm_sbrk keep the break in the address space. *)
LEMMA BreakType ==
  ASSUME brk \in Address, NEW n \in Nat
  PROVE  vm_note_load(n) \in Address /\ vm_sbrk(n) \in Address
<1>1. brk \in Nat /\ USER_BASE \in Nat /\ USER_BASE \in Address
  BY LayoutAssumption, Sizes DEF Address
<1>2. RoundUp(n) \in Nat
  <2>1. (n + PAGE_SIZE - 1) % WORD \in Nat
    BY Sizes, DivFacts
  <2>2. ((n + PAGE_SIZE - 1) % WORD) \div PAGE_SIZE \in Nat
    BY <2>1, Sizes, DivFacts
  <2> QED BY <2>2, Sizes DEF RoundUp
<1>3. \A x \in Nat : x % WORD \in Address
  BY Sizes, DivFacts DEF Address
<1>4. USER_BASE + RoundUp(n) \in Nat /\ brk + n \in Nat
  BY <1>1, <1>2
<1>5. (USER_BASE + RoundUp(n)) % WORD \in Address /\ (brk + n) % WORD \in Address
  BY <1>3, <1>4
<1> QED BY <1>1, <1>5 DEF vm_note_load, vm_sbrk, HighOf

(* build_user_args starts the program inside the address space. *)
LEMMA ArgsType ==
  ASSUME brk \in Address, NEW n \in Nat, NoteLoad(n)
  PROVE  brk' \in Address /\ esp' \in Address /\ fill' \subseteq Index
<1>1. PICK size \in ArgSizes :
        esp' = USER_STACK - size /\ fill' = PagesOf(USER_STACK - size, size)
  BY DEF NoteLoad
<1>2. /\ size \in Int /\ 1 <= size /\ size <= USER_STACK - USER_BASE
      /\ USER_STACK \in Int /\ USER_STACK <= USER_TOP
      /\ USER_BASE \in Nat /\ USER_TOP \in Nat /\ USER_TOP < WORD
  BY LoaderAssumption, LayoutAssumption, Sizes DEF Address
<1>3. USER_STACK - size \in Address
  BY <1>2, Sizes DEF Address
<1> QED BY <1>1, <1>3, BreakType DEF PagesOf, NoteLoad

-----------------------------------------------------------------------------
(* Every step keeps the invariant *)

(* The invariant holds when the boot loader hands over. *)
LEMMA InitInv == Init => Inv
<1> SUFFICES ASSUME Init PROVE Inv
  OBVIOUS
<1>1. NoEntry \in Entry /\ User(0) \in Entry
  BY Sizes DEF NoEntry, Entry, User
<1>2. EmptyTable \in [Index -> Entry] /\ Scribbled(KERNEL_DATA) \in Page
  BY <1>1 DEF EmptyTable, Scribbled, Page
<1>3. TypeOK
  BY <1>2, Sizes DEF Init, TypeOK, NoImage, Image, Mode, Booting, Targets, KernelDir, AllFrames
<1>4. LiveDir = 0 /\ ProcessFrames(LiveDir) = {} /\ KernelTables = {}
  BY DEF Init, LiveDir, ProcessFrames, KernelDir, KernelTables, FramesIn, EmptyTable, NoEntry
<1>5. FramesAccounted
  BY FS_EmptySet, FS_Interval DEF Init, FramesAccounted, FreeFrames, AllFrames
<1>6. NoFrameLeaks /\ DirShape /\ FreshPages
  BY <1>4 DEF Init, NoFrameLeaks, DirShape, FreshPages, EmptyTable, NoEntry
<1>7. FramesOwnedOnce
  BY <1>4 DEF Init, FramesOwnedOnce, EmptyTable, NoEntry
<1>8. Control
  BY DEF Init, Control, Booting, Loading, KernelDir
<1> QED BY <1>3, <1>5, <1>6, <1>7, <1>8 DEF Inv

(* Boot. *)
LEMMA BootInv ==
  ASSUME Inv, BootStep
  PROVE  Inv'
<1>1. CASE BootMemory
  <2>1. FrameInv' /\ nframes' \in 0 .. ENTRIES * ENTRIES
        /\ bitmap' \subseteq AllFrames' /\ frames_free' \in Nat
    BY <1>1, MemoryReady DEF BootMemory
  <2>2. TypeOK'
    BY <1>1, <2>1 DEF BootMemory, Inv, TypeOK, Mode, Booting
  <2>3. Control'
    BY <1>1 DEF BootMemory, Inv, Control, Booting, Loading
  <2> QED BY <2>1, <2>2, <2>3 DEF FrameInv, Inv
<1>2. CASE StartPaging
  <2>1. page_dir = EmptyTable /\ page_dir' = page_dir /\ mode' = "mapping"
    BY <1>2 DEF StartPaging, paging_init, Inv, Control
  <2>2. FrameInv'
    BY <1>2, <2>1, FramesUntouched DEF StartPaging, LiveDir
  <2>3. mapping' \in [range : Nat, v : Address]
    BY <1>2, StartRangeType DEF StartPaging, paging_init, Inv
  <2>4. TypeOK'
    BY <1>2, <2>1, <2>3 DEF StartPaging, Inv, TypeOK, AllFrames, Mode, Booting
  <2>5. Control'
    BY <1>2 DEF StartPaging, Inv, Control, Booting, Loading
  <2> QED BY <2>2, <2>4, <2>5 DEF FrameInv, Inv
<1>3. CASE BuildMap
  <2>1. mode = "mapping" /\ UNCHANGED <<e820, nframes, cr3, cur_dir, brk, fault_count>>
        /\ UNCHANGED <<mode, pid, image, fill, esp, exit_target, dying>>
    BY <1>3 DEF BuildMap, procVars
  <2>2. mapping \in [range : Nat, v : Address] /\ mapping.range + 1 \in Nat
    BY DEF Inv, TypeOK
  <2>3. StartRange(mapping.range + 1) \in [range : Nat, v : Address]
    BY <2>2, StartRangeType DEF Inv
  <2>4. (mapping.v + PAGE_SIZE) % WORD \in Address
    <3>1. mapping.v + PAGE_SIZE \in Nat
      BY <2>2, Sizes DEF Address
    <3> QED BY <3>1, Sizes, DivFacts DEF Address
  <2>5. mapping' \in [range : Nat, v : Address]
    BY <1>3, <2>2, <2>3, <2>4 DEF BuildMap, MapPage, MapInto, NextRange
  <2>6. /\ FrameInv' /\ bitmap' \subseteq AllFrames /\ frames_free' \in Nat
        /\ ram' \in [Frame -> Page] /\ page_dir' \in [Index -> Entry]
    <3>1. CASE MapPage
      BY <2>1, <3>1, PageMapped
    <3>2. CASE NextRange
      <4>1. FrameInv'
        BY <2>1, <3>2, FramesUntouched DEF NextRange, LiveDir
      <4> QED BY <3>2, <4>1 DEF NextRange, Inv, TypeOK
    <3> QED BY <1>3, <3>1, <3>2 DEF BuildMap
  <2>7. TypeOK'
    BY <2>1, <2>5, <2>6 DEF Inv, TypeOK, AllFrames
  <2>8. Control'
    BY <2>1 DEF Inv, Control, Booting, Loading
  <2> QED BY <2>6, <2>7, <2>8 DEF FrameInv, Inv
<1>4. CASE EnablePaging
  <2>1. FrameInv'
    BY <1>4, FramesUntouched DEF EnablePaging, memVars, LiveDir
  <2>2. TypeOK'
    BY <1>4 DEF EnablePaging, memVars, Inv, TypeOK, AllFrames, Mode
  <2>3. Control'
    BY <1>4 DEF EnablePaging, memVars, Inv, Control, Booting, Loading
  <2> QED BY <2>1, <2>2, <2>3 DEF FrameInv, Inv
<1> QED BY <1>1, <1>2, <1>3, <1>4 DEF BootStep

(* The prompt. *)
LEMMA ShellInv ==
  ASSUME Inv, ShellStep
  PROVE  Inv'
<1>1. CASE shell_run_program
  <2>1. /\ FrameInv' /\ bitmap' \subseteq AllFrames
        /\ ram' \in [Frame -> Page] /\ frames_free' \in Nat
        /\ cr3' = cur_dir' /\ cur_dir' \in Frame /\ cur_dir' # 0
    <3>1. dying' = 0
      BY <1>1 DEF shell_run_program, Inv, Control
    <3> QED BY <1>1, <3>1, Created DEF shell_run_program
  <2>2. /\ image' \in Image /\ fill' \subseteq Index /\ pid' \in Nat
        /\ brk' = 0 /\ mode' = "image"
    BY <1>1, LoaderAssumption
    DEF shell_run_program, vm_create, PagesOf, Inv, TypeOK
  <2>3. TypeOK'
    BY <1>1, <2>1, <2>2, Sizes
    DEF shell_run_program, Inv, TypeOK, AllFrames, Mode, Loading
  <2>4. Control'
    BY <1>1, <2>1, <2>2 DEF shell_run_program, Inv, Control, Booting, Loading
  <2> QED BY <2>1, <2>3, <2>4 DEF FrameInv, Inv
<1>2. CASE RunOutOfMemory
  <2>1. FrameInv' /\ ram' \in [Frame -> Page]
    BY <1>2, NotCreated DEF RunOutOfMemory, procVars
  <2>2. TypeOK'
    BY <1>2, <2>1 DEF RunOutOfMemory, vm_create_fails, procVars, Inv, TypeOK, AllFrames
  <2>3. Control'
    BY <1>2 DEF RunOutOfMemory, vm_create_fails, procVars, Inv, Control, Booting, Loading
  <2> QED BY <2>1, <2>2, <2>3 DEF FrameInv, Inv
<1>3. CASE RunFaults
  <2>1. FrameInv'
    BY <1>3, FramesUntouched DEF RunFaults, Halt, memVars, LiveDir
  <2>2. TypeOK'
    BY <1>3 DEF RunFaults, Halt, memVars, Inv, TypeOK, AllFrames, Mode
  <2>3. Control'
    BY <1>3 DEF RunFaults, Halt, memVars, Inv, Control, Booting, Loading
  <2> QED BY <2>1, <2>2, <2>3 DEF FrameInv, Inv
<1> QED BY <1>1, <1>2, <1>3 DEF ShellStep

(* A page fault, of the loader or of ring 3, at an address of either. *)
LEMMA FaultInv ==
  ASSUME Inv, mode \in Loading \cup {"user"}, NEW a \in Address,
         \/ vm_fault(a) /\ UNCHANGED procVars
         \/ Halt /\ UNCHANGED <<bitmap, frames_free, ram, fault_count>>,
         UNCHANGED <<e820, nframes, page_dir, mapping, cr3, cur_dir, brk>>
  PROVE  Inv'
<1>1. cur_dir # 0 /\ mode # "boot" /\ dying = 0
  BY DEF Inv, Control, Loading
<1>2. CASE vm_fault(a) /\ UNCHANGED procVars
  <2>1. LiveDir' = LiveDir /\ UNCHANGED <<mode, pid, image, fill, esp, exit_target, dying>>
    BY <1>2 DEF procVars, LiveDir
  <2>2. /\ FrameInv' /\ bitmap' \subseteq AllFrames
        /\ ram' \in [Frame -> Page] /\ frames_free' \in Nat
    BY <1>1, <1>2, <2>1, FaultServed
  <2>3. fault_count' \in Nat
    <3>1. fault_count \in Nat
      BY DEF Inv, TypeOK
    <3>2. fault_count' = fault_count + 1
      BY <1>2 DEF vm_fault
    <3> QED BY ONLY <3>1, <3>2
  <2>4. TypeOK'
    BY <2>1, <2>2, <2>3 DEF Inv, TypeOK, AllFrames
  <2>5. Control'
    <3>1. Control
      BY DEF Inv
    <3>2. mode' = mode /\ dying' = dying /\ cur_dir' = cur_dir /\ cr3' = cr3
      BY <2>1
    <3> QED BY <2>1, <3>1, <3>2 DEF Control, Loading, Booting
  <2> QED BY <2>2, <2>4, <2>5 DEF FrameInv, Inv
<1>3. CASE Halt /\ UNCHANGED <<bitmap, frames_free, ram, fault_count>>
  <2>1. FrameInv'
    BY <1>1, <1>3, FramesUntouched DEF Halt, LiveDir
  <2>2. TypeOK'
    BY <1>3 DEF Halt, Inv, TypeOK, AllFrames, Mode
  <2>3. Control'
    BY <1>1, <1>3 DEF Halt, Inv, Control, Booting, Loading
  <2> QED BY <2>1, <2>2, <2>3 DEF FrameInv, Inv
<1> QED BY <1>2, <1>3

(* A store through a present entry of the window. *)
LEMMA StoreInv ==
  ASSUME Inv, mode \in Loading \cup {"user"}, NEW a \in Address,
         Mapped(a), Pdi(a) = USER_PDE,
         ram' = [ram EXCEPT ![Pte(a).frame] = Scribbled(pid)],
         fill' \subseteq Index,
         UNCHANGED <<e820, nframes, bitmap, frames_free, page_dir, mapping, cr3,
                     cur_dir, brk, fault_count, mode, pid, image, esp,
                     exit_target, dying>>
  PROVE  Inv'
<1>1. cur_dir # 0 /\ mode # "boot" /\ LiveDir = cur_dir /\ LiveDir' = LiveDir
      /\ DirOf(cr3) = ram[cur_dir].ent
  BY DEF Inv, Control, Loading, LiveDir, DirOf, KernelDir
<1>2. Pti(a) \in Index
  BY Indices
<1>3. Pte(a).frame \in UserPages(cur_dir)
  BY <1>1, <1>2 DEF Mapped, Pte, UserPages, UserTable, FramesIn
<1>4. FrameInv'
  BY <1>1, <1>3, PageWrite
<1>5. Scribbled(pid) \in Page
  BY Sizes DEF Scribbled, User, Entry, Page, Inv, TypeOK
<1>6. TypeOK'
  BY <1>5 DEF Inv, TypeOK, AllFrames
<1>7. Control'
  BY DEF Inv, Control
<1> QED BY <1>4, <1>6, <1>7 DEF FrameInv, Inv

(* Steps of the loader and of system calls that change neither frames nor *)
(* directories.                                                           *)
LEMMA PlainInv ==
  ASSUME Inv, mode \in Loading \cup {"user"},
         mode' \in Loading \cup {"user", "detach", "halted", "stray"},
         brk' \in Address, fill' \subseteq Index, esp' \in Address, exit_target' \in Targets,
         UNCHANGED <<e820, nframes, bitmap, frames_free, page_dir, ram, mapping, cr3,
                     cur_dir, fault_count, pid, image, dying>>
  PROVE  Inv'
<1>1. cur_dir # 0 /\ mode # "boot" /\ dying = 0 /\ LiveDir' = LiveDir
  BY DEF Inv, Control, Loading, LiveDir
<1>2. FrameInv'
  BY <1>1, FramesUntouched
<1>3. TypeOK'
  BY DEF Inv, TypeOK, AllFrames, Mode, Leaving
<1>4. Control'
  BY <1>1 DEF Inv, Control, Booting, Loading
<1> QED BY <1>2, <1>3, <1>4 DEF FrameInv, Inv

(* The loader. *)
LEMMA LoadInv ==
  ASSUME Inv, LoadStep \/ LoadFails
  PROVE  Inv'
<1>1. brk \in Address /\ fill \subseteq Index /\ esp \in Address /\ exit_target \in Targets
      /\ image \in Image
  BY DEF Inv, TypeOK
<1>2. CASE LoaderFault
  <2>1. PICK p \in fill :
          \/ vm_fault(PageAddress(p)) /\ UNCHANGED procVars
          \/ Halt /\ UNCHANGED <<bitmap, frames_free, ram, fault_count>>
    BY <1>2 DEF LoaderFault
  <2>2. PageAddress(p) \in Address
    BY <1>1, PageInWindow
  <2> QED BY <1>2, <2>1, <2>2, FaultInv DEF LoaderFault
<1>3. CASE LoaderWrite
  <2>1. PICK p \in fill :
          /\ Mapped(PageAddress(p))
          /\ ram' = [ram EXCEPT ![Pte(PageAddress(p)).frame] = Scribbled(pid)]
          /\ fill' = fill \ {p}
    BY <1>3 DEF LoaderWrite
  <2>2. PageAddress(p) \in Address /\ Pdi(PageAddress(p)) = USER_PDE
    BY <1>1, PageInWindow, WindowPdi DEF Address
  <2>3. fill' \subseteq Index
    BY <1>1, <2>1
  <2> QED BY <1>3, <2>1, <2>2, <2>3, StoreInv DEF LoaderWrite
<1>4. CASE ImageRead
  <2>1. image.size \in Nat
    BY <1>1, Sizes DEF Image, Address
  <2>2. brk' \in Address /\ fill' \subseteq Index /\ esp' \in Address
        /\ mode' \in {"args", "detach", "flat"}
    <3>1. CASE NoteLoad(image.size)
      BY <1>1, <2>1, <3>1, ArgsType DEF NoteLoad
    <3>2. CASE ~NoteLoad(image.size)
      BY <1>1, <1>4, <3>2 DEF ImageRead, PagesOf
    <3> QED BY <3>1, <3>2
  <2> QED BY <1>1, <1>4, <2>2, PlainInv DEF ImageRead, Loading
<1>5. CASE FlatCopied
  <2>1. TCC_FLAT_BASE - USER_BASE + image.fsize \in Nat
    BY <1>1, Sizes, LoaderAssumption, LayoutAssumption DEF Image, Address
  <2>2. brk' \in Address /\ fill' \subseteq Index /\ esp' \in Address /\ mode' = "args"
    BY <1>1, <1>5, <2>1, ArgsType DEF FlatCopied, NoteLoad
  <2> QED BY <1>1, <1>5, <2>2, PlainInv DEF FlatCopied, Loading
<1>6. CASE enter_user
  BY <1>1, <1>6, PlainInv DEF enter_user, memVars, Loading
<1>7. CASE LoadFails
  BY <1>1, <1>7, PlainInv DEF LoadFails, memVars, Loading
<1> QED BY <1>2, <1>3, <1>4, <1>5, <1>6, <1>7 DEF LoadStep

(* Only the window's entry of the active directory admits ring 3. *)
LEMMA UserEntry ==
  ASSUME Inv, cur_dir # 0, NEW a \in Address, UserAccess(a)
  PROVE  Pdi(a) = USER_PDE
<1>1. LiveDir = cur_dir /\ DirOf(cr3) = ram[cur_dir].ent
  BY DEF Inv, Control, LiveDir, DirOf, KernelDir
<1>2. Pdi(a) \in Index
  BY Indices
<1> QED BY <1>1, <1>2 DEF Inv, DirShape, UserAccess

(* Ring 3 and its system calls. *)
LEMMA UserInv ==
  ASSUME Inv, UserStep
  PROVE  Inv'
<1>1. brk \in Address /\ fill \subseteq Index /\ esp \in Address /\ exit_target \in Targets
  BY DEF Inv, TypeOK
<1>2. ASSUME NEW b \in Frame, UserWrite(b) PROVE Inv'
  <2>1. b * PAGE_SIZE \in Address
    BY FrameAddress
  <2>2. cur_dir # 0 /\ Mapped(b * PAGE_SIZE) /\ UserAccess(b * PAGE_SIZE) /\ mode = "user"
    BY <1>2 DEF UserWrite, UserAccess, Inv, Control
  <2>3. Pdi(b * PAGE_SIZE) = USER_PDE
    BY <2>1, <2>2, UserEntry
  <2> QED BY <1>1, <1>2, <2>1, <2>2, <2>3, StoreInv DEF UserWrite, procVars
<1>3. ASSUME NEW b \in Frame, UserFault(b) PROVE Inv'
  <2>1. b * PAGE_SIZE \in Address
    BY FrameAddress
  <2> QED BY <1>3, <2>1, FaultInv DEF UserFault
<1>4. ASSUME NEW inc \in Address, Sbrk(inc) PROVE Inv'
  <2>1. inc \in Nat
    BY Sizes DEF Address
  <2>2. vm_sbrk(inc) \in Address
    BY <1>1, <2>1, BreakType
  <2> QED BY <1>1, <1>4, <2>2, PlainInv DEF Sbrk, procVars
<1>5. ASSUME NEW target \in Targets, ExitTo(target) PROVE Inv'
  BY <1>1, <1>5, PlainInv DEF ExitTo, memVars
<1>6. CASE Exit
  BY <1>1, <1>6, PlainInv DEF Exit, memVars
<1>7. ASSUME NEW b \in Frame, CallWrite(b) PROVE Inv'
  <2>1. b * PAGE_SIZE \in Address /\ b * PAGE_SIZE \in Int
    BY FrameAddress DEF Address
  <2>2. InWindow(b * PAGE_SIZE)
    BY <1>7 DEF CallWrite
  <2>3. Pdi(b * PAGE_SIZE) = USER_PDE
    BY <2>1, <2>2, WindowPdi
  <2>4. cur_dir # 0 /\ Mapped(b * PAGE_SIZE) /\ mode = "user"
    BY <1>7 DEF CallWrite, CallStores, Inv, Control
  <2> QED BY <1>1, <1>7, <2>1, <2>3, <2>4, StoreInv DEF CallWrite, procVars
<1>8. ASSUME NEW b \in Frame, CallStray(b) PROVE Inv'
  BY <1>1, <1>8, PlainInv DEF CallStray, CallStores, memVars
<1> QED BY <1>2, <1>3, <1>4, <1>5, <1>6, <1>7, <1>8 DEF UserStep

(* The way out. *)
LEMMA LeaveInv ==
  ASSUME Inv, LeaveStep
  PROVE  Inv'
<1>1. CASE Detach
  <2>1. LiveDir' = LiveDir /\ cur_dir # 0 /\ cur_dir \in Frame
    BY <1>1 DEF Detach, vm_switch_to_kernel, LiveDir, Inv, Control, TypeOK
  <2>2. FrameInv'
    BY <1>1, <2>1, FramesUntouched DEF Detach
  <2>3. TypeOK'
    BY <1>1, <2>1, Sizes
    DEF Detach, vm_switch_to_kernel, KernelDir, Inv, TypeOK, AllFrames, Mode, Leaving
  <2>4. Control'
    BY <1>1, <2>1
    DEF Detach, vm_switch_to_kernel, KernelDir, Inv, Control, Booting, Loading
  <2> QED BY <2>2, <2>3, <2>4 DEF FrameInv, Inv
<1>2. CASE Destroy
  <2>1. /\ FrameInv' /\ bitmap' \subseteq AllFrames
        /\ ram' \in [Frame -> Page] /\ frames_free' \in Nat
    <3>1. cur_dir' = 0
      BY <1>2 DEF Destroy, Inv, Control
    <3> QED BY <1>2, <3>1, Destroyed DEF Destroy
  <2>2. TypeOK'
    BY <1>2, <2>1, Sizes DEF Destroy, Inv, TypeOK, AllFrames, Mode
  <2>3. Control'
    BY <1>2 DEF Destroy, Inv, Control, Booting, Loading
  <2> QED BY <2>1, <2>2, <2>3 DEF FrameInv, Inv
<1> QED BY <1>1, <1>2 DEF LeaveStep

(* Nothing happens. *)
LEMMA StutterInv ==
  ASSUME Inv, UNCHANGED vars
  PROVE  Inv'
<1>1. UNCHANGED <<e820, nframes, bitmap, frames_free, page_dir, ram, mapping, cr3, cur_dir,
                  brk, fault_count, mode, pid, image, fill, esp, exit_target, dying>>
  BY DEF vars, memVars, procVars
<1>2. TypeOK' /\ Control'
  BY <1>1 DEF Inv, TypeOK, AllFrames, Control
<1>3. FrameInv'
  BY <1>1, FramesUntouched DEF LiveDir
<1> QED BY <1>2, <1>3 DEF FrameInv, Inv

(* The invariant is inductive. *)
LEMMA NextInv == Inv /\ [Next]_vars => Inv'
BY BootInv, ShellInv, LoadInv, UserInv, LeaveInv, StutterInv DEF Next

-----------------------------------------------------------------------------
(* What the invariant says about the hardware's view of memory *)

(* The window is all that its directory entry maps. *)
LEMMA WindowOnly ==
  ASSUME NEW a \in Address, Pdi(a) = USER_PDE
  PROVE  InWindow(a)
<1>1. USER_BASE \in Nat /\ USER_TOP = USER_BASE + SPAN /\ USER_BASE % SPAN = 0
  BY LayoutAssumption, Sizes DEF Address
<1>2. a \in Nat
  BY Sizes DEF Address
<1> DEFINE q == a \div SPAN
<1>3. q \in Nat /\ a % SPAN \in 0 .. SPAN - 1 /\ a = SPAN * q + (a % SPAN)
  BY <1>2, Sizes, DivFacts
<1>4. USER_BASE = SPAN * (USER_BASE \div SPAN) + (USER_BASE % SPAN)
  BY <1>1, Sizes, DivFacts
<1>5. USER_BASE \div SPAN = q
  BY DEF Pdi, USER_PDE
<1> HIDE DEF q
<1>6. SPAN * q \in Nat /\ USER_BASE = SPAN * q
  BY <1>1, <1>3, <1>4, <1>5, Sizes
<1> QED BY <1>1, <1>3, <1>6, Sizes DEF InWindow

(* A present page of the window belongs to the live process. *)
LEMMA WindowFrame ==
  ASSUME Inv, cur_dir # 0, NEW a \in Address, Mapped(a), Pdi(a) = USER_PDE
  PROVE  /\ Pte(a).frame \in UserPages(cur_dir) /\ LiveDir = cur_dir
         /\ mode # "boot"
<1>1. LiveDir = cur_dir /\ DirOf(cr3) = ram[cur_dir].ent /\ mode # "boot"
  BY DEF Inv, Control, Booting, LiveDir, DirOf, KernelDir
<1>2. Pti(a) \in Index
  BY Indices
<1> QED BY <1>1, <1>2 DEF Mapped, Pte, UserPages, UserTable, FramesIn

(* The invariant says where the tables in memory are. *)
LEMMA InvTables == Inv => ActiveTablesHeld
<1>1. SUFFICES ASSUME Inv, mode \notin Booting
               PROVE  /\ cr3 # KernelDir => cr3 \in bitmap /\ cr3 = cur_dir
                      /\ \A i \in Index : DirOf(cr3)[i].present => DirOf(cr3)[i].frame \in bitmap
  BY DEF ActiveTablesHeld
<1>2. mode # "boot" /\ cr3 = cur_dir
  BY <1>1 DEF Booting, Inv, Control
<1>3. \A i \in Index : page_dir[i].present => page_dir[i].frame \in bitmap
  BY <1>1, <1>2 DEF Inv, NoFrameLeaks, KernelTables, FramesIn
<1>4. CASE cr3 = KernelDir
  BY <1>3, <1>4 DEF DirOf
<1>5. CASE cr3 # KernelDir
  <2>1. LiveDir = cr3 /\ LiveDir # 0 /\ DirOf(cr3) = ram[cr3].ent
    BY <1>2, <1>5 DEF LiveDir, KernelDir, DirOf
  <2>2. cr3 \in bitmap /\ UserTable(cr3) \in bitmap
    BY <1>1, <1>2, <2>1, LiveFacts
  <2>3. \A i \in Index : i # USER_PDE => ram[cr3].ent[i] = page_dir[i]
    BY <1>1, <2>1 DEF Inv, DirShape
  <2> QED BY <1>2, <1>3, <2>1, <2>2, <2>3 DEF UserTable
<1> QED BY <1>4, <1>5

(* It keeps ring 3 on the pages of the running program. *)
LEMMA InvIsolation == Inv => UserIsolation
<1>1. SUFFICES ASSUME Inv, mode = "user", NEW b \in Frame,
                      \/ UserAccess(b * PAGE_SIZE)
                      \/ Mapped(b * PAGE_SIZE) /\ InWindow(b * PAGE_SIZE)
               PROVE  /\ InWindow(b * PAGE_SIZE)
                      /\ Pte(b * PAGE_SIZE).frame \in UserPages(cur_dir) \cap bitmap
                      /\ Pte(b * PAGE_SIZE).frame \notin
                           ReservedFrames(nframes) \cup KernelTables \cup {cr3, UserTable(cr3)}
  BY DEF UserIsolation
<1> DEFINE a == b * PAGE_SIZE
           f == Pte(a).frame
<1>2. a \in Address
  BY FrameAddress
<1>3. cur_dir # 0 /\ cr3 = cur_dir
  BY <1>1 DEF Inv, Control
<1>4. Pdi(a) = USER_PDE /\ Mapped(a)
  <2>1. CASE UserAccess(a)
    BY <1>1, <1>2, <1>3, <2>1, UserEntry DEF UserAccess
  <2>2. CASE Mapped(a) /\ InWindow(a)
    <3>1. a \in Int
      BY <1>2 DEF Address
    <3> HIDE DEF a
    <3> QED BY <2>2, <3>1, WindowPdi
  <2> QED BY <1>1, <2>1, <2>2
<1>5. f \in UserPages(cur_dir) /\ LiveDir = cur_dir /\ mode # "boot"
  BY <1>1, <1>2, <1>3, <1>4, WindowFrame
<1>6. /\ f \in bitmap /\ f \in ProcessFrames(LiveDir) /\ f # cur_dir /\ f # UserTable(cur_dir)
  BY <1>1, <1>3, <1>5, LiveFacts
<1>7. f \notin ReservedFrames(nframes) \cup KernelTables
  BY <1>1, <1>6 DEF Inv, FramesOwnedOnce
<1> QED BY <1>2, <1>3, <1>4, <1>5, <1>6, <1>7, WindowOnly

(* It keeps what a program may read to its own run. *)
LEMMA InvFresh == Inv => NoStaleData
<1>1. SUFFICES ASSUME Inv, cur_dir # 0, NEW p \in Index, Mapped(PageAddress(p))
               PROVE  ram[Pte(PageAddress(p)).frame].data \in {0, pid}
  BY DEF NoStaleData
<1>2. PageAddress(p) \in Address /\ Pdi(PageAddress(p)) = USER_PDE
  BY PageInWindow, WindowPdi DEF Address
<1>3. Pte(PageAddress(p)).frame \in UserPages(LiveDir) /\ LiveDir # 0
  BY <1>1, <1>2, WindowFrame
<1> QED BY <1>1, <1>3 DEF Inv, FreshPages

-----------------------------------------------------------------------------
(* The program break *)

(* Rounding up to a page boundary stays below a boundary above. *)
LEMMA RoundUpFacts ==
  ASSUME NEW n \in Nat, NEW k \in Nat, n <= PAGE_SIZE * k,
         PAGE_SIZE * k + PAGE_SIZE <= WORD
  PROVE  RoundUp(n) \in Nat /\ n <= RoundUp(n) /\ RoundUp(n) <= PAGE_SIZE * k
<1> DEFINE m == n + PAGE_SIZE - 1
           q == m \div PAGE_SIZE
<1>1. m \in Nat /\ m < WORD /\ m % WORD = m
  BY Sizes
<1>2. q \in Nat /\ m % PAGE_SIZE \in 0 .. PAGE_SIZE - 1 /\ m = PAGE_SIZE * q + (m % PAGE_SIZE)
  BY <1>1, Sizes, DivFacts
<1>3. PAGE_SIZE * (k + 1) = PAGE_SIZE * k + PAGE_SIZE
  BY Sizes
<1>4. q < k + 1
  BY <1>1, <1>3, Sizes, DivBelow
<1>5. RoundUp(n) = q * PAGE_SIZE
  BY <1>1 DEF RoundUp
<1> HIDE DEF q
<1>6. PAGE_SIZE * q <= PAGE_SIZE * k /\ PAGE_SIZE * q \in Nat /\ q * PAGE_SIZE = PAGE_SIZE * q
  BY <1>2, <1>4, Sizes, MulMono
<1> QED BY <1>2, <1>5, <1>6, Sizes

(* vm_note_load puts the break between the image and USER_STACK. *)
LEMMA NoteLoadFacts ==
  ASSUME NEW n \in Nat, USER_BASE + n <= USER_STACK
  PROVE  /\ vm_note_load(n) \in Nat /\ USER_BASE \in Nat
         /\ USER_BASE + n <= vm_note_load(n) /\ vm_note_load(n) <= USER_STACK
<1>1. /\ USER_BASE \in Nat /\ USER_STACK \in Nat /\ USER_STACK < WORD
      /\ USER_BASE % SPAN = 0 /\ USER_STACK % PAGE_SIZE = 0 /\ USER_TOP < WORD
      /\ USER_STACK <= USER_TOP /\ USER_TOP = USER_BASE + SPAN
  BY LayoutAssumption, LoaderAssumption, Sizes DEF Address
<1> DEFINE s == USER_STACK \div PAGE_SIZE
           b == USER_BASE \div SPAN
<1>2. s \in Nat /\ USER_STACK = PAGE_SIZE * s
  BY <1>1, Sizes, DivFacts
<1>3. b \in Nat /\ USER_BASE = SPAN * b
  BY <1>1, Sizes, DivFacts
<1> HIDE DEF s, b
<1>4. ENTRIES * b \in Nat /\ USER_BASE = PAGE_SIZE * (ENTRIES * b)
  BY <1>3, Sizes DEF SPAN
<1> DEFINE k == s - ENTRIES * b
<1>5. PAGE_SIZE * k = USER_STACK - USER_BASE
  BY <1>2, <1>4, Sizes
<1>6. k \in Nat
  <2>1. SUFFICES ASSUME k + 1 <= 0 PROVE FALSE
    BY <1>2, <1>4
  <2>2. k \in Int /\ PAGE_SIZE * (k + 1) <= PAGE_SIZE * 0 /\ PAGE_SIZE * (k + 1) = PAGE_SIZE * k + PAGE_SIZE
    BY <1>2, <1>4, <2>1, Sizes, MulMono
  <2> QED BY <1>1, <1>5, <2>2, Sizes
<1> HIDE DEF k
<1>7. USER_BASE >= PAGE_SIZE
  <2>1. USER_BASE # 0
    BY LayoutAssumption, Sizes DEF Address
  <2>2. ENTRIES * b >= 1
    <3>1. PAGE_SIZE * 0 = 0
      BY Sizes
    <3> QED BY <1>4, <2>1, <3>1
  <2>3. PAGE_SIZE * 1 <= PAGE_SIZE * (ENTRIES * b)
    BY <1>4, <2>2, Sizes, MulMono
  <2> QED BY <1>4, <2>3, Sizes
<1>8. n <= PAGE_SIZE * k /\ PAGE_SIZE * k + PAGE_SIZE <= WORD
  BY <1>1, <1>5, <1>7, Sizes
<1>9. RoundUp(n) \in Nat /\ n <= RoundUp(n) /\ RoundUp(n) <= USER_STACK - USER_BASE
  BY <1>5, <1>6, <1>8, RoundUpFacts
<1> DEFINE r == USER_BASE + RoundUp(n)
<1>10. r \in Nat /\ r < WORD /\ r % WORD = r
  BY <1>1, <1>9, Sizes
<1> QED BY <1>1, <1>9, <1>10 DEF vm_note_load, HighOf

(* vm_sbrk moves a break that is in bounds up, and keeps it in bounds. *)
LEMMA SbrkFacts ==
  ASSUME brk \in Address, brk <= USER_STACK, NEW inc \in Address
  PROVE  brk <= vm_sbrk(inc) /\ vm_sbrk(inc) <= USER_STACK
<1>1. /\ USER_STACK \in Nat /\ USER_TOP \in Nat /\ USER_STACK <= USER_TOP /\ USER_TOP < WORD
      /\ brk \in Nat /\ inc \in Nat
  BY LayoutAssumption, Sizes DEF Address
<1>2. USER_TOP - brk \in Nat /\ USER_TOP - brk < WORD
  BY <1>1, Sizes
<1>3. (USER_TOP - brk) % WORD = USER_TOP - brk
  BY <1>2, Sizes
<1>4. CASE inc > USER_TOP - brk
  BY <1>1, <1>3, <1>4 DEF vm_sbrk
<1>5. CASE inc <= USER_TOP - brk
  <2>1. brk + inc \in Nat /\ brk + inc < WORD /\ brk + inc >= brk
    BY <1>1, <1>5, Sizes
  <2>2. (brk + inc) % WORD = brk + inc
    BY <2>1, Sizes
  <2> QED BY <1>1, <2>1, <2>2 DEF vm_sbrk
<1> QED BY <1>1, <1>4, <1>5

(* What the loader has found out about the file by the time it uses it. *)
LoadedImage ==
  /\ mode = "flat" => IsFlat
  /\ mode \in {"flat", "args", "user"} => ~TooBig(image) /\ (IsFlat => ~BadFlat)

BreakInv == LoadedImage /\ BreakAboveImage

(* A file that passed the loader's tests ends below USER_STACK. *)
LEMMA ImageFits ==
  ASSUME image \in Image, ~TooBig(image), IsFlat => ~BadFlat
  PROVE  LET n == IF IsFlat THEN TCC_FLAT_BASE - USER_BASE + image.fsize ELSE image.size
         IN  n \in Nat /\ USER_BASE + n <= USER_STACK
<1>1. /\ USER_BASE \in Nat /\ USER_STACK \in Nat /\ USER_STACK < WORD
      /\ TCC_FLAT_BASE \in USER_BASE .. USER_STACK /\ USER_PROG_MAX <= USER_STACK - USER_BASE
      /\ USER_PROG_MAX \in Nat /\ FLAT_HEADER \in Nat
      /\ TCC_FLAT_BASE + USER_PROG_MAX < WORD
      /\ image.size \in Nat /\ image.fsize \in Nat /\ image.size <= USER_PROG_MAX
  BY LayoutAssumption, LoaderAssumption, Sizes DEF Address, Image, TooBig
<1>2. CASE ~IsFlat
  BY <1>1, <1>2
<1>3. CASE IsFlat
  <2>1. /\ image.fsize <= image.size - FLAT_HEADER
        /\ (TCC_FLAT_BASE + image.fsize) % WORD <= USER_STACK
    BY <1>1, <1>3, Sizes DEF BadFlat
  <2>2. TCC_FLAT_BASE + image.fsize \in Nat /\ TCC_FLAT_BASE + image.fsize < WORD
    BY <1>1, <2>1, Sizes
  <2>3. (TCC_FLAT_BASE + image.fsize) % WORD = TCC_FLAT_BASE + image.fsize
    BY <2>2, Sizes
  <2> QED BY <1>1, <1>3, <2>1, <2>3
<1> QED BY <1>2, <1>3

(* The break as the loader sets it. *)
LEMMA NoteLoadBreak ==
  ASSUME image \in Image, ~TooBig(image), IsFlat => ~BadFlat, UNCHANGED image,
         NoteLoad(IF IsFlat THEN TCC_FLAT_BASE - USER_BASE + image.fsize ELSE image.size)
  PROVE  BreakInv'
<1> DEFINE n == IF IsFlat THEN TCC_FLAT_BASE - USER_BASE + image.fsize ELSE image.size
<1>1. n \in Nat /\ USER_BASE + n <= USER_STACK
  BY ImageFits
<1>2. brk' = vm_note_load(n) /\ mode' = "args"
  BY DEF NoteLoad
<1>3. USER_BASE + n <= brk' /\ brk' <= USER_STACK
  BY <1>1, <1>2, NoteLoadFacts
<1>4. IsFlat' = IsFlat /\ BadFlat' = BadFlat /\ TooBig(image)' = TooBig(image)
  BY DEF IsFlat, BadFlat, TooBig
<1>5. USER_BASE + n = IF IsFlat THEN TCC_FLAT_BASE + image.fsize ELSE USER_BASE + image.size
  BY LayoutAssumption, LoaderAssumption, Sizes DEF Image, Address
<1>6. BreakAboveImage'
  <2>1. brk' \in Int /\ USER_BASE + n \in Int
    BY <1>1, <1>2, NoteLoadFacts
  <2> HIDE DEF n
  <2> QED BY <1>3, <1>4, <1>5, <2>1 DEF BreakAboveImage
<1> QED BY <1>2, <1>4, <1>6 DEF BreakInv, LoadedImage

(* A step that leaves the image alone and does not lower the break. *)
LEMMA BreakKept ==
  ASSUME TypeOK, BreakInv, UNCHANGED image, mode' = "flat" => mode = "flat",
         mode' \in {"args", "user"} => mode \in {"args", "user"},
         mode' \in {"args", "user"} => brk' \in Address /\ brk <= brk' /\ brk' <= USER_STACK
  PROVE  BreakInv'
<1>1. IsFlat' = IsFlat /\ BadFlat' = BadFlat /\ TooBig(image)' = TooBig(image)
  BY DEF IsFlat, BadFlat, TooBig
<1>2. LoadedImage'
  BY <1>1 DEF BreakInv, LoadedImage
<1>3. BreakAboveImage'
  <2> DEFINE m == IF IsFlat THEN TCC_FLAT_BASE + image.fsize ELSE USER_BASE + image.size
  <2>1. m \in Int /\ m' = m /\ brk \in Int
    BY <1>1, LayoutAssumption, LoaderAssumption, Sizes DEF TypeOK, Image, Address
  <2>2. mode' \in {"args", "user"} => brk' \in Int /\ brk >= m
    BY Sizes DEF BreakInv, BreakAboveImage, Address
  <2>3. mode' \in {"args", "user"} => brk' >= m'
    <3> HIDE DEF m
    <3> QED BY <2>1, <2>2
  <2> QED BY <2>3 DEF BreakAboveImage
<1> QED BY <1>2, <1>3 DEF BreakInv

(* Steps that leave the break alone and do not go on loading. *)
LEMMA BreakSame ==
  ASSUME TypeOK, BreakInv, UNCHANGED <<image, brk>>, mode' = "flat" => mode = "flat",
         mode' \in {"args", "user"} => mode \in {"args", "user"}
  PROVE  BreakInv'
<1>1. brk' \in Address /\ brk <= brk'
  BY Sizes DEF TypeOK, Address
<1>2. mode' \in {"args", "user"} => brk' <= USER_STACK
  BY DEF BreakInv, BreakAboveImage
<1> QED BY <1>1, <1>2, BreakKept

(* No step moves the break down. *)
LEMMA NextBreak ==
  ASSUME TypeOK, BreakInv, [Next]_vars
  PROVE  BreakInv' /\ (mode = "user" /\ mode' = "user" => brk' >= brk)
<1>1. brk >= brk /\ brk \in Address /\ image \in Image
  BY Sizes DEF TypeOK, Address
<1>2. CASE BootStep \/ RunOutOfMemory \/ RunFaults \/ LeaveStep
  BY <1>1, <1>2, BreakSame
  DEF BootStep, BootMemory, StartPaging, BuildMap, EnablePaging, RunOutOfMemory,
      vm_create_fails, RunFaults, Halt, LeaveStep, Detach, Destroy, memVars, procVars
<1>3. CASE shell_run_program
  BY <1>1, <1>3 DEF shell_run_program, BreakInv, LoadedImage, BreakAboveImage
<1>4. CASE LoaderFault \/ LoaderWrite \/ enter_user \/ LoadFails
  BY <1>1, <1>4, BreakSame
  DEF LoaderFault, LoaderWrite, enter_user, LoadFails, Halt, Loading, memVars, procVars
<1>5. CASE ImageRead
  <2>1. CASE mode' = "detach"
    BY <1>5, <2>1 DEF ImageRead, BreakInv, LoadedImage, BreakAboveImage
  <2>2. CASE ~TooBig(image) /\ ~IsFlat /\ NoteLoad(image.size)
    BY <1>1, <1>5, <2>2, NoteLoadBreak DEF ImageRead
  <2>3. CASE ~TooBig(image) /\ IsFlat /\ ~BadFlat /\ mode' = "flat"
    BY <1>5, <2>3
    DEF ImageRead, BreakInv, LoadedImage, BreakAboveImage, TooBig, IsFlat, BadFlat
  <2> QED BY <1>5, <2>1, <2>2, <2>3 DEF ImageRead
<1>6. CASE FlatCopied
  <2>1. ~TooBig(image) /\ IsFlat /\ ~BadFlat /\ mode = "flat"
    BY <1>6 DEF FlatCopied, BreakInv, LoadedImage
  <2> QED BY <1>1, <1>6, <2>1, NoteLoadBreak DEF FlatCopied
<1>7. ASSUME NEW inc \in Address, Sbrk(inc)
      PROVE  BreakInv' /\ (mode = "user" /\ mode' = "user" => brk' >= brk)
  <2>1. mode = "user" /\ mode' = mode /\ brk' = vm_sbrk(inc) /\ UNCHANGED image
    BY <1>7 DEF Sbrk, procVars
  <2>2. brk <= USER_STACK
    BY <2>1 DEF BreakInv, BreakAboveImage
  <2>3. brk <= brk' /\ brk' <= USER_STACK
    BY <1>1, <2>1, <2>2, SbrkFacts
  <2>4. brk' \in Address
    <3>1. inc \in Nat
      BY Sizes DEF Address
    <3> QED BY <1>1, <2>1, <3>1, BreakType
  <2>5. brk' >= brk
    BY <1>1, <2>3, <2>4, Sizes DEF Address
  <2> QED BY <2>1, <2>3, <2>4, <2>5, BreakKept
<1>8. ASSUME NEW b \in Frame, UserWrite(b) \/ UserFault(b) \/ CallWrite(b) \/ CallStray(b)
      PROVE  BreakInv' /\ (mode = "user" /\ mode' = "user" => brk' >= brk)
  BY <1>1, <1>8, BreakSame
  DEF UserWrite, UserFault, CallWrite, CallStray, CallStores, Halt, memVars, procVars
<1>9. CASE (\E t \in Targets : ExitTo(t)) \/ Exit
  BY <1>1, <1>9, BreakSame DEF ExitTo, Exit, memVars, procVars
<1>10. CASE UNCHANGED vars
  BY <1>1, <1>10, BreakSame DEF vars, memVars, procVars
<1>11. CASE UserStep
  <2>1. CASE \E b \in Frame : UserWrite(b) \/ UserFault(b) \/ CallWrite(b) \/ CallStray(b)
    BY <1>8, <2>1
  <2>2. CASE \E inc \in Address : Sbrk(inc)
    BY <1>7, <2>2
  <2> QED BY <1>9, <1>11, <2>1, <2>2 DEF UserStep
<1> QED BY <1>2, <1>3, <1>4, <1>5, <1>6, <1>10, <1>11 DEF Next, ShellStep, LoadStep

-----------------------------------------------------------------------------
(* The kernel's own map *)

(* The kernel directory maps frame f at its own address. *)
KernelMaps(f) ==
  /\ page_dir[Pdi(f * PAGE_SIZE)].present
  /\ ram[page_dir[Pdi(f * PAGE_SIZE)].frame].ent[Pti(f * PAGE_SIZE)] = Supervisor(f)

(* The loops of paging_init have been past the page of frame f. *)
Passed(f) ==
  \/ \E k \in 0 .. LastRange :
       /\ k < mapping.range
       /\ MapRange(k).from <= f * PAGE_SIZE /\ f * PAGE_SIZE < MapRange(k).to
  \/ /\ ~MappingDone
     /\ MapRange(mapping.range).from <= f * PAGE_SIZE /\ f * PAGE_SIZE < mapping.v

(* No frame is left for a table, nor will there ever be one for a program. *)
Exhausted == AllFrames \subseteq ReservedFrames(nframes) \cup KernelTables

(* What the loops have passed is mapped, unless they ran out of frames.    *)
MapInv ==
  mode \notin {"boot", "paging"} =>
    /\ mapping.v = FrameOf(mapping.v) * PAGE_SIZE
    /\ mode # "mapping" => MappingDone
    /\ Exhausted \/ \A f \in Frame : Passed(f) => KernelMaps(f)

(* A page is known by its directory index and its table index. *)
LEMMA FrameIndex ==
  ASSUME NEW f \in Frame
  PROVE  /\ f * PAGE_SIZE \in Address /\ FrameOf(f * PAGE_SIZE) = f
         /\ Pdi(f * PAGE_SIZE) = f \div ENTRIES /\ Pti(f * PAGE_SIZE) = f % ENTRIES
         /\ Pdi(f * PAGE_SIZE) \in Index /\ Pti(f * PAGE_SIZE) \in Index
<1> DEFINE a == f * PAGE_SIZE
           q == f \div ENTRIES
<1>1. f \in Nat /\ a \in Nat /\ a \in Address
  BY FrameAddress, Sizes DEF Frame
<1>2. q \in Nat /\ f % ENTRIES \in 0 .. ENTRIES - 1 /\ f = ENTRIES * q + (f % ENTRIES)
  BY <1>1, Sizes, DivFacts
<1>3. Pdi(a) \in Index /\ Pti(a) \in Index
  BY <1>1, Indices
<1>4. a \div PAGE_SIZE = f
  <2>1. PAGE_SIZE * f <= a /\ a < PAGE_SIZE * (f + 1)
    BY <1>1, Sizes
  <2> HIDE DEF a
  <2> QED BY <1>1, <2>1, Sizes, DivAt
<1>5. a \div SPAN = q
  <2> HIDE DEF q
  <2>1. ENTRIES * q <= f /\ f + 1 <= ENTRIES * (q + 1)
        /\ ENTRIES * q \in Nat /\ ENTRIES * (q + 1) \in Nat
    BY <1>1, <1>2, Sizes
  <2>2. PAGE_SIZE * (ENTRIES * q) <= PAGE_SIZE * f
        /\ PAGE_SIZE * (f + 1) <= PAGE_SIZE * (ENTRIES * (q + 1))
    BY <1>1, <2>1, Sizes, MulMono
  <2>3. SPAN * q = PAGE_SIZE * (ENTRIES * q) /\ SPAN * (q + 1) = PAGE_SIZE * (ENTRIES * (q + 1))
    BY <1>2, Sizes DEF SPAN
  <2>4. PAGE_SIZE * f = a /\ PAGE_SIZE * (f + 1) = a + PAGE_SIZE
    BY <1>1, Sizes
  <2>5. SPAN * q <= a /\ a < SPAN * (q + 1)
    BY <2>2, <2>3, <2>4, <1>1, <1>2, Sizes
  <2> HIDE DEF a
  <2> QED BY <1>1, <1>2, <2>5, Sizes, DivAt
<1> QED BY <1>1, <1>3, <1>4, <1>5 DEF FrameOf, Pdi, Pti

(* Two pages with the same place in the same table are one page. *)
LEMMA SamePage ==
  ASSUME NEW f \in Frame, NEW g \in Frame,
         Pdi(f * PAGE_SIZE) = Pdi(g * PAGE_SIZE), Pti(f * PAGE_SIZE) = Pti(g * PAGE_SIZE)
  PROVE  f = g
<1>1. f \in Nat /\ g \in Nat
  BY Sizes DEF Frame
<1>2. f = ENTRIES * (f \div ENTRIES) + (f % ENTRIES)
  BY <1>1, Sizes, DivFacts
<1>3. g = ENTRIES * (g \div ENTRIES) + (g % ENTRIES)
  BY <1>1, Sizes, DivFacts
<1>4. f \div ENTRIES = g \div ENTRIES /\ f % ENTRIES = g % ENTRIES
  BY FrameIndex
<1> QED BY <1>2, <1>3, <1>4

(* Every loop of paging_init starts at the page that holds its first byte. *)
LEMMA StartAtPage ==
  ASSUME TypeOK, NEW k \in Nat
  PROVE  LET s == StartRange(k)
         IN  /\ s.range = k /\ s.v \in Address /\ s.v = FrameOf(s.v) * PAGE_SIZE
             /\ k <= LastRange => s.v <= MapRange(k).from
<1> DEFINE s == StartRange(k)
           x == MapRange(k).from
<1>1. s \in [range : Nat, v : Address] /\ s.range = k
  BY StartRangeType DEF StartRange
<1>2. CASE k > LastRange
  <2>1. s.v = 0 * PAGE_SIZE /\ 0 \in Frame /\ LastRange \in Nat
    BY <1>2, Sizes, E820Assumption DEF StartRange, LastRange, TypeOK
  <2> QED BY <1>1, <1>2, <2>1, FrameIndex
<1>3. CASE ~(k > LastRange)
  <2>1. s.v = (x \div PAGE_SIZE) * PAGE_SIZE
    BY <1>3 DEF StartRange
  <2>2. x \in Address
    BY <1>3, RangeBounds
  <2> HIDE DEF x
  <2>3. x \div PAGE_SIZE \in Frame
    BY <2>2, Indices DEF FrameOf
  <2>4. /\ x \in Nat /\ x \div PAGE_SIZE \in Nat /\ x % PAGE_SIZE \in 0 .. PAGE_SIZE - 1
        /\ x = PAGE_SIZE * (x \div PAGE_SIZE) + (x % PAGE_SIZE)
    <3>1. x \in Nat
      BY <2>2, Sizes DEF Address
    <3> QED BY <3>1, Sizes, DivFacts
  <2>5. s.v = FrameOf(s.v) * PAGE_SIZE
    BY <2>1, <2>3, FrameIndex
  <2> DEFINE q == x \div PAGE_SIZE
             m == x % PAGE_SIZE
  <2> HIDE DEF q, m
  <2>6. q * PAGE_SIZE <= x
    <3>1. q \in Nat /\ m \in Nat /\ x = PAGE_SIZE * q + m
      BY <2>4, Sizes DEF q, m
    <3>2. PAGE_SIZE * q = q * PAGE_SIZE /\ q * PAGE_SIZE \in Nat
      BY <3>1, Sizes
    <3> QED BY <3>1, <3>2
  <2> QED BY <1>1, <2>1, <2>5, <2>6 DEF x, q
<1> QED BY <1>1, <1>2, <1>3

(* A table of the kernel is neither free nor a frame of the program. *)
LEMMA TablesApart ==
  ASSUME Inv, mode # "boot", NEW t \in KernelTables
  PROVE  /\ t \in Frame /\ t \notin FreeFrames
         /\ LiveDir # 0 => t # LiveDir /\ t # UserTable(LiveDir) /\ t \notin UserPages(LiveDir)
<1>1. t \in Frame
  BY DEF KernelTables, FramesIn, Inv, TypeOK, Entry
<1>2. t \notin FreeFrames
  BY FreshFrame DEF Inv
<1>3. t \notin ProcessFrames(LiveDir)
  BY DEF Inv, FramesOwnedOnce
<1>4. LiveDir # 0 => ProcessFrames(LiveDir) = {LiveDir, UserTable(LiveDir)} \cup UserPages(LiveDir)
  BY LiveFacts
<1> QED BY <1>1, <1>2, <1>3, <1>4

TablesSame == \A t \in KernelTables : ram'[t].ent = ram[t].ent

(* Serving a page fault writes no table of the kernel. *)
LEMMA FaultKeepsTables ==
  ASSUME Inv, cur_dir # 0, NEW a \in Address, vm_fault(a)
  PROVE  TablesSame
<1>1. LiveDir = cur_dir /\ DirOf(cr3) = ram[cur_dir].ent /\ mode # "boot" /\ LiveDir # 0
  BY DEF Inv, Control, Booting, LiveDir, DirOf, KernelDir
<1>2. PICK f \in FreeFrames :
        ram' = [ram EXCEPT ![f] = Zeroed, ![DirOf(cr3)[Pdi(a)].frame].ent[Pti(a)] = User(f)]
  BY DEF vm_fault
<1>3. a \in Int /\ Pdi(a) = USER_PDE
  BY WindowPdi, Sizes DEF vm_fault, Address
<1>4. DirOf(cr3)[Pdi(a)].frame = UserTable(LiveDir)
  BY <1>1, <1>3 DEF UserTable
<1> DEFINE T == UserTable(LiveDir)
           r == [ram EXCEPT ![f] = Zeroed]
<1> HIDE DEF T
<1>5. ram' = [r EXCEPT ![T].ent[Pti(a)] = User(f)]
  BY <1>2, <1>4 DEF T
<1>6. ASSUME NEW t \in KernelTables PROVE ram'[t] = ram[t]
  <2>1. t \in Frame /\ t # f /\ t # T
    BY <1>1, TablesApart DEF T
  <2>2. ram \in [Frame -> Page]
    BY DEF Inv, TypeOK
  <2>3. r[t] = ram[t] /\ r \in [Frame -> {ram[g] : g \in Frame} \cup {Zeroed}]
    BY <2>1, <2>2
  <2> HIDE DEF r
  <2> QED BY <1>5, <2>1, <2>3
<1> QED BY <1>6 DEF TablesSame

(* A store through the window writes no table of the kernel. *)
LEMMA StoreKeepsTables ==
  ASSUME Inv, cur_dir # 0, NEW a \in Address, Mapped(a), Pdi(a) = USER_PDE,
         ram' = [ram EXCEPT ![Pte(a).frame] = Scribbled(pid)]
  PROVE  TablesSame
<1>1. Pte(a).frame \in UserPages(LiveDir) /\ LiveDir # 0 /\ mode # "boot"
  BY WindowFrame
<1>2. ASSUME NEW t \in KernelTables PROVE ram'[t] = ram[t]
  <2>1. t \in Frame /\ t # Pte(a).frame
    BY <1>1, TablesApart
  <2>2. ram \in [Frame -> Page]
    BY DEF Inv, TypeOK
  <2> QED BY <2>1, <2>2
<1> QED BY <1>2 DEF TablesSame

(* Once it runs, the kernel never changes its own map. *)
LEMMA TablesKept ==
  ASSUME Inv, [Next]_vars, mode \notin Booting
  PROVE  UNCHANGED <<e820, nframes, page_dir, mapping>> /\ mode' \notin Booting /\ TablesSame
<1>1. mode # "boot"
  BY DEF Booting
<1>2. ram \in [Frame -> Page]
  BY DEF Inv, TypeOK
<1>3. ASSUME UNCHANGED ram PROVE TablesSame
  BY <1>3 DEF TablesSame
<1>4. CASE BootStep
  BY <1>4 DEF BootStep, BootMemory, StartPaging, BuildMap, EnablePaging, Booting
<1>5. CASE shell_run_program
  <2>1. PICK d \in FreeFrames, pt \in FreeFrames :
          ram' = [ram EXCEPT
                    ![d] = [ent |-> [page_dir EXCEPT ![USER_PDE] = User(pt)],
                            data |-> KERNEL_DATA],
                    ![pt] = Zeroed]
    BY <1>5 DEF shell_run_program, vm_create
  <2>2. ASSUME NEW t \in KernelTables PROVE ram'[t] = ram[t]
    <3>1. t \in Frame /\ t # d /\ t # pt
      BY <1>1, TablesApart
    <3> QED BY <1>2, <2>1, <3>1
  <2>3. TablesSame
    BY <2>2 DEF TablesSame
  <2> QED BY <1>5, <2>3 DEF shell_run_program, Booting
<1>6. CASE RunOutOfMemory
  <2>1. \A t \in KernelTables : ram'[t] = ram[t]
    BY <1>1, <1>6, TablesApart DEF RunOutOfMemory, vm_create_fails
  <2>2. TablesSame
    BY <2>1 DEF TablesSame
  <2> QED BY <1>6, <2>2 DEF RunOutOfMemory, procVars
<1>7. CASE RunFaults
  BY <1>3, <1>7 DEF RunFaults, Halt, memVars, Booting
<1>8. CASE LoaderFault
  <2>1. UNCHANGED <<e820, nframes, page_dir, mapping>> /\ mode' \notin Booting
    BY <1>8 DEF LoaderFault, Halt, procVars, Booting
  <2>2. cur_dir # 0 /\ fill \subseteq Index
    BY <1>8 DEF LoaderFault, Inv, Control, TypeOK
  <2>3. PICK p \in fill : vm_fault(PageAddress(p)) \/ UNCHANGED ram
    BY <1>8 DEF LoaderFault
  <2>4. PageAddress(p) \in Address
    BY <2>2, PageInWindow
  <2> QED BY <1>3, <2>1, <2>2, <2>3, <2>4, FaultKeepsTables
<1>9. CASE LoaderWrite
  <2>1. UNCHANGED <<e820, nframes, page_dir, mapping>> /\ mode' \notin Booting
    BY <1>9 DEF LoaderWrite
  <2>2. cur_dir # 0 /\ fill \subseteq Index
    BY <1>9 DEF LoaderWrite, Inv, Control, TypeOK
  <2>3. PICK p \in fill : /\ Mapped(PageAddress(p))
                          /\ ram' = [ram EXCEPT ![Pte(PageAddress(p)).frame] = Scribbled(pid)]
    BY <1>9 DEF LoaderWrite
  <2>4. PageAddress(p) \in Address /\ Pdi(PageAddress(p)) = USER_PDE
    BY <2>2, PageInWindow, WindowPdi DEF Address
  <2> QED BY <2>1, <2>2, <2>3, <2>4, StoreKeepsTables
<1>10. CASE ImageRead \/ FlatCopied
  BY <1>3, <1>10 DEF ImageRead, FlatCopied, NoteLoad, Booting
<1>11. CASE enter_user \/ LoadFails
  BY <1>3, <1>11 DEF enter_user, LoadFails, memVars, Booting
<1>12. ASSUME NEW b \in Frame, UserWrite(b)
       PROVE  UNCHANGED <<e820, nframes, page_dir, mapping>> /\ mode' \notin Booting /\ TablesSame
  <2>1. b * PAGE_SIZE \in Address /\ cur_dir # 0
    BY <1>12, FrameAddress DEF UserWrite, Inv, Control
  <2>2. Mapped(b * PAGE_SIZE) /\ Pdi(b * PAGE_SIZE) = USER_PDE
    BY <1>12, <2>1, UserEntry DEF UserWrite, UserAccess
  <2>3. TablesSame
    BY <1>12, <2>1, <2>2, StoreKeepsTables DEF UserWrite
  <2> QED BY <1>12, <2>3 DEF UserWrite, procVars
<1>13. ASSUME NEW b \in Frame, UserFault(b)
       PROVE  UNCHANGED <<e820, nframes, page_dir, mapping>> /\ mode' \notin Booting /\ TablesSame
  <2>1. b * PAGE_SIZE \in Address /\ cur_dir # 0
    BY <1>13, FrameAddress DEF UserFault, Inv, Control
  <2>2. TablesSame
    BY <1>3, <1>13, <2>1, FaultKeepsTables DEF UserFault
  <2> QED BY <1>13, <2>2 DEF UserFault, Halt, procVars, Booting
<1>14. CASE (\E inc \in Address : Sbrk(inc)) \/ (\E t \in Targets : ExitTo(t)) \/ Exit
  BY <1>3, <1>14 DEF Sbrk, ExitTo, Exit, memVars, procVars, Booting
<1>15. CASE Detach
  BY <1>3, <1>15 DEF Detach, Booting
<1>16. CASE Destroy
  <2>1. LiveDir = dying /\ LiveDir # 0
    BY <1>16 DEF Destroy, LiveDir, Inv, Control
  <2>2. ram' = [ram EXCEPT ![dying].ent[USER_PDE] = NoEntry]
    BY <1>16 DEF Destroy, vm_destroy
  <2>3. ASSUME NEW t \in KernelTables PROVE ram'[t] = ram[t]
    <3>1. t \in Frame /\ t # dying
      BY <1>1, <2>1, TablesApart
    <3> QED BY <1>2, <2>2, <3>1
  <2>4. TablesSame
    BY <2>3 DEF TablesSame
  <2> QED BY <1>16, <2>4 DEF Destroy, Booting
<1>17. CASE UNCHANGED vars
  BY <1>3, <1>17 DEF vars, memVars, procVars
<1>18. ASSUME NEW b \in Frame, CallWrite(b)
       PROVE  UNCHANGED <<e820, nframes, page_dir, mapping>> /\ mode' \notin Booting /\ TablesSame
  <2>1. b * PAGE_SIZE \in Address /\ b * PAGE_SIZE \in Int
    BY FrameAddress DEF Address
  <2>2. /\ InWindow(b * PAGE_SIZE) /\ Mapped(b * PAGE_SIZE)
        /\ cur_dir # 0 /\ mode \notin Booting
    BY <1>18 DEF CallWrite, CallStores, Inv, Control, Booting
  <2>3. Pdi(b * PAGE_SIZE) = USER_PDE
    BY <2>1, <2>2, WindowPdi
  <2>4. TablesSame
    BY <1>18, <2>1, <2>2, <2>3, StoreKeepsTables DEF CallWrite
  <2> QED BY <1>18, <2>2, <2>4 DEF CallWrite, procVars
<1>19. ASSUME NEW b \in Frame, CallStray(b)
       PROVE  UNCHANGED <<e820, nframes, page_dir, mapping>> /\ mode' \notin Booting /\ TablesSame
  BY <1>3, <1>19 DEF CallStray, memVars, Booting
<1>20. CASE UserStep
  <2>1. CASE \E b \in Frame : UserWrite(b) \/ UserFault(b) \/ CallWrite(b) \/ CallStray(b)
    BY <1>12, <1>13, <1>18, <1>19, <2>1
  <2> QED BY <1>14, <1>20, <2>1 DEF UserStep
<1> QED BY <1>4, <1>5, <1>6, <1>7, <1>8, <1>9, <1>10, <1>11, <1>15, <1>16, <1>17, <1>20
        DEF Next, ShellStep, LoadStep, LeaveStep

(* One iteration of map_range passes one page more; after the last page of *)
(* the address space v starts again from 0 and nothing new is passed.      *)
LEMMA OnePassed ==
  ASSUME TypeOK, NEW n \in Frame, mapping.v = n * PAGE_SIZE, ~MappingDone, UNCHANGED e820,
         mapping' = [mapping EXCEPT !.v = (@ + PAGE_SIZE) % WORD]
  PROVE  /\ mapping'.v = FrameOf(mapping'.v) * PAGE_SIZE
         /\ \A f \in Frame : Passed(f)' => Passed(f) \/ f = n
<1> DEFINE v == mapping.v
           w == mapping'.v
<1>1. /\ mapping'.range = mapping.range /\ mapping.range \in Nat /\ v \in Address
      /\ w = (v + PAGE_SIZE) % WORD
  BY DEF TypeOK
<1>2. n \in Nat /\ v \in Nat /\ v < WORD /\ v = n * PAGE_SIZE /\ (n + 1) * PAGE_SIZE = v + PAGE_SIZE
      /\ v + PAGE_SIZE \in Nat
  BY <1>1, Sizes DEF Frame, Address
<1>3. CASE n + 1 \in Frame
  <2>1. (n + 1) * PAGE_SIZE \in Address
    BY <1>3, FrameAddress
  <2>2. v + PAGE_SIZE < WORD
    BY <1>2, <2>1, Sizes DEF Address
  <2>3. w = v + PAGE_SIZE
    BY <1>1, <1>2, <2>2, Sizes, WrapFacts
  <2>4. w = FrameOf(w) * PAGE_SIZE
    BY <1>2, <1>3, <2>3, FrameIndex
  <2>5. ASSUME NEW f \in Frame, f * PAGE_SIZE < w PROVE f = n \/ f * PAGE_SIZE < v
    <3>1. f \in Nat /\ f * PAGE_SIZE \in Nat
      BY Sizes DEF Frame
    <3>2. CASE f + 1 <= n
      <4>1. PAGE_SIZE * (f + 1) <= PAGE_SIZE * n
        BY <1>2, <3>1, <3>2, Sizes, MulMono
      <4>2. PAGE_SIZE * (f + 1) = f * PAGE_SIZE + PAGE_SIZE /\ PAGE_SIZE * n = n * PAGE_SIZE
        BY <1>2, <3>1, Sizes
      <4> QED BY <1>2, <3>1, <4>1, <4>2, Sizes
    <3>3. CASE n + 1 <= f
      <4>1. PAGE_SIZE * (n + 1) <= PAGE_SIZE * f
        <5>1. n + 1 \in Int /\ f \in Int /\ PAGE_SIZE \in Nat
          BY <1>2, <3>1, Sizes
        <5> QED BY ONLY <5>1, <3>3, MulMono
      <4>2. PAGE_SIZE * (n + 1) = v + PAGE_SIZE /\ PAGE_SIZE * f = f * PAGE_SIZE
        BY <1>2, <3>1, Sizes
      <4> QED BY <1>2, <2>3, <2>5, <3>1, <4>1, <4>2, Sizes
    <3> QED BY <1>2, <3>1, <3>2, <3>3
  <2>6. ASSUME NEW f \in Frame, Passed(f)' PROVE Passed(f) \/ f = n
    BY <1>1, <2>5, <2>6 DEF Passed, MapRange, LastRange, MappingDone
  <2> QED BY <2>4, <2>6
<1>4. CASE n + 1 \notin Frame
  <2>1. n + 1 = ENTRIES * ENTRIES
    BY <1>2, <1>4, Sizes DEF Frame
  <2>2. v + PAGE_SIZE = WORD
    <3>1. PAGE_SIZE * (n + 1) = v + PAGE_SIZE
      BY <1>2, Sizes
    <3> QED BY <2>1, <3>1, Sizes
  <2>3. w = 0
    BY <1>1, <1>2, <2>2, Sizes, WrapFacts
  <2>4. w = FrameOf(w) * PAGE_SIZE
    <3>1. 0 \in Frame /\ 0 * PAGE_SIZE = 0
      BY Sizes
    <3> QED BY <2>3, <3>1, FrameIndex
  <2>5. ASSUME NEW f \in Frame, Passed(f)' PROVE Passed(f)
    <3>1. ~(f * PAGE_SIZE < w)
      BY <2>3, Sizes DEF Frame
    <3> QED BY <1>1, <2>5, <3>1 DEF Passed, MapRange, LastRange, MappingDone
  <2> QED BY <2>4, <2>5
<1> QED BY <1>3, <1>4

(* A range is left with all its pages passed. *)
LEMMA RangePassed ==
  ASSUME TypeOK, ~MappingDone, ~(mapping.v < MapRange(mapping.range).to), UNCHANGED e820,
         mapping' = StartRange(mapping.range + 1), NEW f \in Frame, Passed(f)'
  PROVE  Passed(f)
<1> DEFINE a == f * PAGE_SIZE
           r == mapping.range
<1>1. r \in Nat /\ r + 1 \in Nat /\ mapping.v \in Nat /\ a \in Nat /\ LastRange \in Nat
  BY Sizes, E820Assumption DEF TypeOK, Frame, Address, LastRange
<1>2. LastRange' = LastRange /\ \A k : MapRange(k)' = MapRange(k)
  BY DEF LastRange, MapRange
<1>3. mapping'.range = r + 1 /\ (r + 1 <= LastRange => mapping'.v <= MapRange(r + 1).from)
      /\ mapping'.v \in Nat
  BY <1>1, StartAtPage, Sizes DEF Address
<1>4. MapRange(r).to \in Nat /\ r <= LastRange
  BY <1>1, RangeBounds, Sizes DEF MappingDone, Address
<1>5. ASSUME NEW k \in 0 .. LastRange, k < r + 1, MapRange(k).from <= a, a < MapRange(k).to
      PROVE  Passed(f)
  <2>1. CASE k < r
    BY <1>5, <2>1 DEF Passed
  <2>2. CASE k = r
    <3>1. a < mapping.v
      BY <1>1, <1>4, <1>5, <2>2
    <3> QED BY <1>5, <2>2, <3>1 DEF Passed
  <2> QED BY <1>1, <1>5, <2>1, <2>2
<1>6. ASSUME r + 1 <= LastRange, MapRange(r + 1).from <= a, a < mapping'.v
      PROVE  FALSE
  <2>1. MapRange(r + 1).from \in Nat
    BY <1>1, <1>6, RangeBounds, Sizes DEF Address
  <2> QED BY <1>1, <1>3, <1>6, <2>1
<1> HIDE DEF a
<1>7. \/ \E k \in 0 .. LastRange : k < r + 1 /\ MapRange(k).from <= a /\ a < MapRange(k).to
      \/ ~(r + 1 > LastRange) /\ MapRange(r + 1).from <= a /\ a < mapping'.v
  BY <1>2, <1>3 DEF Passed, MappingDone, a
<1> QED BY <1>1, <1>5, <1>6, <1>7

(* What has been passed stays mapped while map_range maps one more page. *)
LEMMA PageStep ==
  ASSUME Inv, MapInv, mode = "mapping", MapPage, UNCHANGED <<e820, nframes>>
  PROVE  /\ mapping'.v = FrameOf(mapping'.v) * PAGE_SIZE
         /\ Exhausted' \/ \A f \in Frame : Passed(f)' => KernelMaps(f)'
<1>0. PICK n \in Frame : n = FrameOf(mapping.v) /\ mapping.v = n * PAGE_SIZE
  BY Indices DEF MapInv, Inv, TypeOK
<1> DEFINE i == Pdi(n * PAGE_SIZE)
           j == Pti(n * PAGE_SIZE)
<1>1. /\ i \in Index /\ j \in Index /\ i = Pdi(mapping.v) /\ j = Pti(mapping.v)
      /\ TypeOK /\ ~MappingDone /\ mapping \in [range : Nat, v : Address]
  BY <1>0, FrameIndex DEF Inv, TypeOK, MapPage
<1>2. page_dir \in [Index -> Entry] /\ ram \in [Frame -> Page]
  BY DEF Inv, TypeOK
<1>3. ReservedFrames(nframes)' = ReservedFrames(nframes) /\ AllFrames' = AllFrames
  BY ReservedStable DEF AllFrames
<1>4. ASSUME FreeFrames = {} PROVE Exhausted
  <2>1. LiveDir = 0 /\ ProcessFrames(LiveDir) = {}
    BY DEF Inv, Control, LiveDir, Booting, ProcessFrames, KernelDir
  <2> QED BY <1>4, <2>1 DEF Inv, NoFrameLeaks, FreeFrames, Exhausted
<1>5. ASSUME NEW pt \in Frame, NEW table \in Page, MapInto(pt, page_dir, table)
      PROVE  /\ mapping'.v = FrameOf(mapping'.v) * PAGE_SIZE
             /\ \A f \in Frame : Passed(f)' => Passed(f) \/ f = n
             /\ page_dir' = [page_dir EXCEPT ![i] = Supervisor(pt)]
             /\ \A t \in Frame : t # pt => ram'[t] = ram[t]
             /\ ram'[pt].ent = [table.ent EXCEPT ![j] = Supervisor(n)]
             /\ KernelMaps(n)'
  <2>1. mapping' = [mapping EXCEPT !.v = (@ + PAGE_SIZE) % WORD]
    BY <1>5 DEF MapInto
  <2>2. mapping'.v = FrameOf(mapping'.v) * PAGE_SIZE
        /\ \A f \in Frame : Passed(f)' => Passed(f) \/ f = n
    BY <1>0, <1>1, <2>1, OnePassed
  <2>3. page_dir' = [page_dir EXCEPT ![i] = Supervisor(pt)]
        /\ ram' = [ram EXCEPT ![pt] = [table EXCEPT !.ent[j] = Supervisor(n)]]
    BY <1>0, <1>1, <1>5 DEF MapInto
  <2>4. table.ent \in [Index -> Entry]
    BY DEF Page
  <2>5. \A t \in Frame : t # pt => ram'[t] = ram[t]
    BY <1>2, <2>3
  <2>6. ram'[pt].ent = [table.ent EXCEPT ![j] = Supervisor(n)]
    BY <1>2, <2>3, <2>4
  <2>7. page_dir'[i] = Supervisor(pt) /\ ram'[pt].ent[j] = Supervisor(n)
    BY <1>1, <1>2, <2>3, <2>4, <2>6
  <2>8. KernelMaps(n)'
    BY <2>7 DEF KernelMaps, Supervisor
  <2> QED BY <2>2, <2>3, <2>5, <2>6, <2>8
<1>6. CASE page_dir[i].present
  <2> DEFINE pt == page_dir[i].frame
  <2>1. pt \in Frame /\ MapInto(pt, page_dir, ram[pt]) /\ UNCHANGED <<bitmap, frames_free>>
    BY <1>1, <1>2, <1>6 DEF MapPage, Entry
  <2>2. ram[pt] \in Page
    BY <1>2, <2>1
  <2> HIDE DEF pt
  <2>3. page_dir' = page_dir
    <3>1. page_dir' = [page_dir EXCEPT ![i] = Supervisor(pt)]
      BY <1>5, <2>1, <2>2
    <3>2. page_dir[i] = Supervisor(pt)
      BY <1>1, <1>2, <1>6 DEF Supervisor, Inv, DirShape, Entry, pt
    <3> QED BY <1>1, <1>2, <3>1, <3>2
  <2>4. ASSUME NEW f \in Frame, KernelMaps(f) PROVE KernelMaps(f)'
    <3> DEFINE x == f * PAGE_SIZE
    <3>1. Pdi(x) \in Index /\ Pti(x) \in Index /\ page_dir[Pdi(x)].frame \in Frame
      BY <1>2, FrameIndex DEF Entry
    <3>2. CASE page_dir[Pdi(x)].frame # pt
      BY <1>5, <2>1, <2>2, <2>3, <2>4, <3>1, <3>2 DEF KernelMaps
    <3>3. CASE page_dir[Pdi(x)].frame = pt
      <4>1. Pdi(x) = i
        BY <1>1, <1>6, <2>4, <3>1, <3>3 DEF KernelMaps, pt, Inv, FramesOwnedOnce
      <4>2. CASE Pti(x) = j
        <5>1. f = n
          BY <1>1, <4>1, <4>2, SamePage
        <5> QED BY <1>5, <2>1, <2>2, <5>1
      <4>3. CASE Pti(x) # j
        <5>1. ram'[pt].ent = [ram[pt].ent EXCEPT ![j] = Supervisor(n)]
          BY <1>5, <2>1, <2>2
        <5>2. ram[pt].ent \in [Index -> Entry]
          BY <2>2 DEF Page
        <5>3. ram'[pt].ent[Pti(x)] = ram[pt].ent[Pti(x)]
          BY <3>1, <4>3, <5>1, <5>2
        <5> QED BY <2>3, <2>4, <3>3, <5>3 DEF KernelMaps
      <4> QED BY <4>2, <4>3
    <3> QED BY <3>2, <3>3
  <2>5. Exhausted => Exhausted'
    BY <1>3, <2>3 DEF Exhausted, KernelTables, FramesIn
  <2> QED BY <1>5, <2>1, <2>2, <2>4, <2>5 DEF MapInv
<1>7. CASE ~page_dir[i].present /\ FreeFrames # {}
  <2>1. PICK pt \in FreeFrames : MapInto(pt, page_dir, Zeroed)
    BY <1>1, <1>7 DEF MapPage
  <2>2. pt \in Frame /\ pt \notin KernelTables
    BY FreshFrame DEF Inv
  <2>3. Zeroed \in Page
    BY Sizes DEF Zeroed, EmptyTable, NoEntry, Page, Entry
  <2>4. page_dir' = [page_dir EXCEPT ![i] = Supervisor(pt)]
        /\ \A t \in Frame : t # pt => ram'[t] = ram[t]
    BY <1>5, <2>1, <2>2, <2>3
  <2>5. ASSUME NEW f \in Frame, KernelMaps(f) PROVE KernelMaps(f)'
    <3> DEFINE x == f * PAGE_SIZE
    <3>1. Pdi(x) \in Index /\ Pti(x) \in Index /\ page_dir[Pdi(x)].frame \in Frame
          /\ page_dir[Pdi(x)].present /\ Pdi(x) # i
      BY <1>2, <1>7, <2>5, FrameIndex DEF Entry, KernelMaps
    <3>2. page_dir[Pdi(x)].frame \in KernelTables
      BY <3>1 DEF KernelTables, FramesIn
    <3>3. page_dir'[Pdi(x)] = page_dir[Pdi(x)]
      BY <1>2, <2>4, <3>1
    <3> QED BY <2>2, <2>4, <2>5, <3>1, <3>2, <3>3 DEF KernelMaps
  <2>6. ~Exhausted
    <3>1. pt \in AllFrames /\ pt \notin ReservedFrames(nframes)
      BY FreshFrame DEF Inv, FreeFrames
    <3> QED BY <2>2, <3>1 DEF Exhausted
  <2> QED BY <1>5, <2>1, <2>2, <2>3, <2>5, <2>6 DEF MapInv
<1>8. CASE ~page_dir[i].present /\ FreeFrames = {}
  <2>1. mapping' = StartRange(mapping.range + 1) /\ page_dir' = page_dir
    BY <1>1, <1>8 DEF MapPage
  <2>2. mapping.range + 1 \in Nat
    BY <1>1
  <2>3. mapping'.v = FrameOf(mapping'.v) * PAGE_SIZE
    BY <1>1, <2>1, <2>2, StartAtPage
  <2>4. Exhausted'
    BY <1>3, <1>4, <1>8, <2>1 DEF Exhausted, KernelTables, FramesIn
  <2> QED BY <2>3, <2>4
<1> QED BY <1>6, <1>7, <1>8

(* The kernel's map is inductive. *)
LEMMA NextMap ==
  ASSUME Inv, MapInv, [Next]_vars
  PROVE  MapInv'
<1>1. SUFFICES ASSUME mode' \notin {"boot", "paging"}
               PROVE  /\ mapping'.v = FrameOf(mapping'.v) * PAGE_SIZE
                      /\ mode' # "mapping" => MappingDone'
                      /\ Exhausted' \/ \A f \in Frame : Passed(f)' => KernelMaps(f)'
  BY DEF MapInv
<1>2. TypeOK
  BY DEF Inv
<1>3. ASSUME UNCHANGED <<e820, nframes, page_dir, mapping>>, TablesSame
      PROVE  /\ MappingDone => MappingDone'
             /\ Exhausted => Exhausted'
             /\ \A f \in Frame : /\ Passed(f)' => Passed(f)
                                 /\ KernelMaps(f) => KernelMaps(f)'
  <2>1. MappingDone => MappingDone'
    BY <1>3 DEF MappingDone, LastRange
  <2>2. Exhausted => Exhausted'
    BY <1>3, ReservedStable DEF Exhausted, AllFrames, KernelTables, FramesIn
  <2>3. ASSUME NEW f \in Frame, Passed(f)' PROVE Passed(f)
    BY <1>3, <2>3 DEF Passed, MapRange, LastRange, MappingDone
  <2>4. ASSUME NEW f \in Frame, KernelMaps(f) PROVE KernelMaps(f)'
    <3>1. page_dir[Pdi(f * PAGE_SIZE)].frame \in KernelTables
      BY <2>4, FrameIndex DEF KernelMaps, KernelTables, FramesIn
    <3> QED BY <1>3, <2>4, <3>1 DEF KernelMaps, TablesSame
  <2> QED BY <2>1, <2>2, <2>3, <2>4
<1>4. CASE mode \notin Booting
  <2>1. UNCHANGED <<e820, nframes, page_dir, mapping>> /\ TablesSame /\ mode' # "mapping"
    BY <1>4, TablesKept DEF Booting
  <2>2. mode \notin {"boot", "paging", "mapping"}
    BY <1>4 DEF Booting
  <2> QED BY <1>3, <2>1, <2>2 DEF MapInv
<1>5. CASE StartPaging
  <2>1. mode' = "mapping" /\ mapping' = StartRange(0) /\ UNCHANGED e820
    BY <1>5 DEF StartPaging, paging_init
  <2>2. /\ mapping'.v = FrameOf(mapping'.v) * PAGE_SIZE /\ mapping'.v \in Nat
        /\ mapping'.range = 0 /\ mapping'.v <= MapRange(0).from
        /\ MapRange(0).from = 0
    <3>1. 0 <= LastRange /\ ~(0 > LastRange) /\ 0 \in Nat
      BY E820Assumption DEF Inv, TypeOK, LastRange
    <3>2. MapRange(0).from = 0
      BY DEF MapRange
    <3> QED BY <1>2, <2>1, <3>1, <3>2, StartAtPage, Sizes DEF Address
  <2>3. ASSUME NEW f \in Frame, Passed(f)' PROVE FALSE
    <3>1. f * PAGE_SIZE \in Nat
      BY Sizes DEF Frame
    <3> QED BY <2>1, <2>2, <2>3, <3>1 DEF Passed
  <2> QED BY <2>1, <2>2, <2>3
<1>6. CASE BuildMap
  <2>1. mode = "mapping" /\ mode' = mode /\ UNCHANGED <<e820, nframes>>
    BY <1>6 DEF BuildMap, procVars
  <2>2. CASE MapPage
    BY <2>1, <2>2, PageStep
  <2>3. CASE NextRange
    <3>1. mapping' = StartRange(mapping.range + 1) /\ UNCHANGED <<page_dir, ram>>
          /\ mapping.range + 1 \in Nat /\ ~MappingDone
          /\ ~(mapping.v < MapRange(mapping.range).to)
      BY <1>2, <2>3 DEF NextRange, TypeOK
    <3>2. mapping'.v = FrameOf(mapping'.v) * PAGE_SIZE
      BY <1>2, <3>1, StartAtPage
    <3>3. \A f \in Frame : Passed(f)' => Passed(f)
      BY <1>2, <2>1, <3>1, RangePassed
    <3>4. (\A f \in Frame : KernelMaps(f) => KernelMaps(f)') /\ (Exhausted => Exhausted')
      BY <2>1, <3>1, ReservedStable DEF KernelMaps, Exhausted, AllFrames, KernelTables, FramesIn
    <3> QED BY <2>1, <3>2, <3>3, <3>4 DEF MapInv
  <2> QED BY <1>6, <2>2, <2>3 DEF BuildMap
<1>7. CASE EnablePaging
  <2>1. UNCHANGED <<e820, nframes, page_dir, mapping>> /\ TablesSame
        /\ mode = "mapping" /\ MappingDone
    BY <1>7 DEF EnablePaging, memVars, TablesSame
  <2> QED BY <1>3, <2>1 DEF MapInv
<1>8. CASE UNCHANGED vars
  <2>1. UNCHANGED <<e820, nframes, page_dir, mapping, mode>> /\ TablesSame
    BY <1>8 DEF vars, memVars, procVars, TablesSame
  <2> QED BY <1>1, <1>3, <2>1 DEF MapInv
<1>9. CASE BootMemory
  BY <1>1, <1>9 DEF BootMemory
<1>10. CASE mode \in Booting /\ (ShellStep \/ LoadStep \/ LoadFails \/ UserStep \/ LeaveStep)
  BY <1>10 DEF Booting, ShellStep, shell_run_program, RunOutOfMemory, RunFaults,
     LoadStep, LoaderFault, LoaderWrite, ImageRead, FlatCopied, enter_user, LoadFails, Loading,
     UserStep, UserWrite, UserFault, CallWrite, CallStray, CallStores, Sbrk, ExitTo, Exit, LeaveStep, Detach, Destroy
<1> QED BY <1>4, <1>5, <1>6, <1>7, <1>8, <1>9, <1>10 DEF Next, BootStep

(* An address memory_init finds usable lies in the range of its entry.     *)
LEMMA InEntry ==
  ASSUME NEW e \in E820Entry, NEW a \in Address, e.usable, ~ReachesTop(e), LOW_END <= a,
         (a - e.base) % WORD < e.len
  PROVE  EntryRange(e).from <= a /\ a < EntryRange(e).to
<1> DEFINE base == e.base
           len == e.len
           b == HighOf(base, LOW_END)
<1>1. /\ base \in Nat /\ len \in Nat /\ a \in Nat /\ LOW_END \in Nat /\ WORD \in Nat \ {0}
      /\ base < WORD /\ a < WORD
  BY Sizes, LayoutAssumption DEF E820Entry, Address
<1>2. b + len < WORD
  BY <1>1 DEF ReachesTop, HighOf
<1>3. (a - base) % WORD < len
  OBVIOUS
<1>4. EntryRange(e) = IF (base + len) % WORD < base \/ (base + len) % WORD <= LOW_END
                         \/ b >= (b + len) % WORD
                      THEN [from |-> 0, to |-> 0]
                      ELSE [from |-> b, to |-> (b + len) % WORD]
  BY DEF EntryRange
<1> HIDE DEF base, len
<1>5. b \in Nat /\ base <= b /\ LOW_END <= b /\ (b = base \/ b = LOW_END)
  BY <1>1 DEF HighOf
<1> HIDE DEF b
<1>6. (b + len) % WORD = b + len /\ (base + len) % WORD = base + len
  <2>1. ASSUME NEW y \in Nat, y < WORD PROVE y % WORD = y
    BY <1>1, <2>1
  <2> QED BY <1>1, <1>2, <1>5, <2>1
<1>7. base <= a /\ a < base + len
  <2>1. (a - base) % WORD = IF a - base < 0 THEN a - base + WORD
                            ELSE IF a - base < WORD THEN a - base ELSE a - base - WORD
    <3>1. a - base \in Int /\ -WORD <= a - base /\ a - base < 2 * WORD
      BY <1>1
    <3> QED BY ONLY <1>1, <3>1, WrapFacts
  <2> DEFINE diff == (a - base) % WORD
  <2>2. diff < len /\ (a < base => diff = a - base + WORD) /\ (base <= a => diff = a - base)
    BY <1>1, <1>3, <2>1
  <2> HIDE DEF diff
  <2>3. CASE a < base
    BY <1>1, <1>2, <1>5, <2>2, <2>3
  <2>4. CASE base <= a
    BY <1>1, <2>2, <2>4
  <2> QED BY <1>1, <2>3, <2>4
<1>8. b <= a /\ a < b + len /\ ~(base + len < base) /\ ~(base + len <= LOW_END)
      /\ ~(b >= b + len)
  BY <1>1, <1>5, <1>7
<1> QED BY <1>4, <1>6, <1>8

(* The pages memory_init gives to the allocator are in the ranges that     *)
(* paging_init maps.                                                       *)
LEMMA HandedOutPassed ==
  ASSUME TypeOK, MappingDone, \A i \in DOMAIN e820 : ~ReachesTop(e820[i]),
         NEW f \in Frame, ~NeverHandedOut(f)
  PROVE  Passed(f)
<1> DEFINE a == f * PAGE_SIZE
<1>1. /\ a \in Address /\ a \in Nat /\ LOW_END <= a /\ in_usable(a)
      /\ a < USER_BASE \/ USER_TOP <= a
      /\ LOW_END \in Nat /\ USER_BASE \in Nat /\ USER_TOP \in Nat
  BY FrameAddress, Sizes, LayoutAssumption DEF NeverHandedOut, Address
<1> HIDE DEF a
<1>2. PICK e \in UsableEntries : (a - e.base) % WORD < e.len
  BY <1>1 DEF in_usable
<1>3. PICK x \in DOMAIN e820 : e = e820[x] /\ e.usable
  BY <1>2 DEF UsableEntries
<1>4. e820 \in Seq(E820Entry) /\ Len(e820) \in Nat /\ mapping.range \in Nat
  BY E820Assumption DEF TypeOK
<1>5. x \in 1 .. Len(e820) /\ e \in E820Entry
  BY <1>3, <1>4
<1> DEFINE r == EntryRange(e820[x])
<1>6. r.from <= a /\ a < r.to
  BY <1>1, <1>2, <1>3, <1>5, InEntry
<1> HIDE DEF r
<1>7. ASSUME NEW k \in 0 .. LastRange, MapRange(k).from <= a, a < MapRange(k).to
      PROVE  Passed(f)
  BY <1>4, <1>7 DEF Passed, MappingDone, LastRange, a
<1>8. CASE a < USER_BASE
  <2> DEFINE k == 2 * x - 1
  <2>1. k \in 0 .. LastRange /\ k # 0 /\ (k + 1) \div 2 = x /\ k % 2 = 1
    BY <1>4, <1>5 DEF LastRange
  <2>2. MapRange(k) = [from |-> r.from, to |-> LowOf(r.to, USER_BASE)]
    BY <2>1 DEF MapRange, r
  <2> HIDE DEF k
  <2>3. a < LowOf(r.to, USER_BASE)
    BY <1>6, <1>8 DEF LowOf
  <2> QED BY <1>6, <1>7, <2>1, <2>2, <2>3
<1>9. CASE USER_TOP <= a
  <2> DEFINE k == 2 * x
  <2>1. k \in 0 .. LastRange /\ k # 0 /\ (k + 1) \div 2 = x /\ k % 2 # 1
    <3>1. x \in Nat /\ 1 <= x /\ x <= Len(e820)
      BY <1>4, <1>5
    <3>2. (k + 1) \div 2 = x /\ k % 2 = 0
      BY ONLY <3>1
    <3>3. k \in 0 .. LastRange /\ k # 0
      BY <1>4, <3>1 DEF LastRange
    <3> QED BY ONLY <3>2, <3>3
  <2>2. MapRange(k) = [from |-> HighOf(r.from, USER_TOP), to |-> r.to]
    BY <2>1 DEF MapRange, r
  <2> HIDE DEF k
  <2>3. HighOf(r.from, USER_TOP) <= a
    BY <1>6, <1>9 DEF HighOf
  <2> QED BY <1>6, <1>7, <2>1, <2>2, <2>3
<1> QED BY <1>1, <1>8, <1>9

(* The frames left over can all be cleared at their identity addresses. *)
LEMMA InvReaches == Inv /\ MapInv => KernelReachesFrames
<1>1. SUFFICES ASSUME Inv, MapInv, mode \notin Booting \cup {"halted"},
                      \A i \in DOMAIN e820 : ~ReachesTop(e820[i]), NEW f \in FreeFrames
               PROVE  IdentityMapped(f)
  BY DEF KernelReachesFrames
<1> DEFINE a == f * PAGE_SIZE
<1>2. /\ f \in Frame /\ f \in AllFrames /\ f \notin ReservedFrames(nframes) \cup KernelTables
      /\ mode \notin {"boot", "paging", "mapping"}
  BY <1>1, FreshFrame DEF Inv, Booting, FreeFrames
<1>3. ~Exhausted /\ ~NeverHandedOut(f)
  BY <1>2 DEF Exhausted, ReservedFrames, AllFrames
<1>4. Passed(f)
  BY <1>1, <1>2, <1>3, HandedOutPassed DEF Inv, MapInv
<1>5. KernelMaps(f)
  BY <1>1, <1>2, <1>3, <1>4 DEF MapInv
<1>6. a \in Address /\ Pdi(a) \in Index
  BY <1>2, FrameIndex
<1>7. Pdi(a) # USER_PDE
  BY <1>3, <1>6, WindowOnly DEF NeverHandedOut, InWindow
<1>8. DirOf(cr3)[Pdi(a)] = page_dir[Pdi(a)]
  BY <1>1, <1>6, <1>7 DEF Inv, Control, DirShape, LiveDir, DirOf, KernelDir
<1> QED BY <1>5, <1>8 DEF IdentityMapped, Mapped, Pte, KernelMaps, Supervisor

-----------------------------------------------------------------------------
(* The theorems *)

(* Every variable keeps to its type on every machine. *)
THEOREM TypeCorrect == Spec => []TypeOK
<1>1. Inv => TypeOK
  BY DEF Inv
<1> QED BY InitInv, NextInv, <1>1, PTL DEF Spec

(* frames_free always equals the number of clear bits of the bitmap. *)
THEOREM Accounting == Spec => []FramesAccounted
<1>1. Inv => FramesAccounted
  BY DEF Inv
<1> QED BY InitInv, NextInv, <1>1, PTL DEF Spec

(* The frames in use are exactly the reserved ones, the kernel's tables    *)
(* and the live process's: nothing leaks, whatever way a program ends.     *)
THEOREM LeakFreedom == Spec => []NoFrameLeaks
<1>1. Inv => NoFrameLeaks
  BY DEF Inv
<1> QED BY InitInv, NextInv, <1>1, PTL DEF Spec

(* No frame has two owners or two uses. *)
THEOREM ExclusiveOwnership == Spec => []FramesOwnedOnce
<1>1. Inv => FramesOwnedOnce
  BY DEF Inv
<1> QED BY InitInv, NextInv, <1>1, PTL DEF Spec

(* The CPU never walks a table the allocator may hand out. *)
THEOREM TablesHeld == Spec => []ActiveTablesHeld
BY InitInv, NextInv, InvTables, PTL DEF Spec

(* On every machine and memory map the page tables that vm_create and      *)
(* vm_fault set up admit ring 3 to pages of the running program and to     *)
(* nothing else, and these are the pages calls 4, 6 and 13 find in the     *)
(* window, whatever the program and its calls stored in them; as long as   *)
(* no call was made to store outside the window (CallStray).               *)
THEOREM Isolation == Spec => []UserIsolation
BY InitInv, NextInv, InvIsolation, PTL DEF Spec

(* Recycled frames reach a program cleared. *)
THEOREM ZeroFill == Spec => []NoStaleData
BY InitInv, NextInv, InvFresh, PTL DEF Spec

(* Whatever frame the allocator hands out, the kernel can clear it at its  *)
(* identity address: the frames memory_init frees are mapped.              *)
THEOREM FramesReachable == Spec => []KernelReachesFrames
<1>1. Init => MapInv
  BY DEF Init, MapInv
<1> QED BY InitInv, NextInv, NextMap, InvReaches, <1>1, PTL DEF Spec

(* The heap starts above the image and never passes USER_STACK. *)
THEOREM BreakBounds == Spec => []BreakAboveImage
<1>1. Init => BreakInv
  BY DEF Init, BreakInv, LoadedImage, BreakAboveImage
<1>2. BreakInv => BreakAboveImage
  BY DEF BreakInv
<1> QED BY TypeCorrect, NextBreak, <1>1, <1>2, PTL DEF Spec

(* No increment, however large, moves the break down. *)
THEOREM BreakMonotonic == Spec => BreakNeverShrinks
<1>1. Init => BreakInv
  BY DEF Init, BreakInv, LoadedImage, BreakAboveImage
<1>2. TypeOK /\ BreakInv /\ [Next]_vars
        => BreakInv' /\ [mode = "user" /\ mode' = "user" => brk' >= brk]_vars
  BY NextBreak
<1> QED BY TypeCorrect, <1>1, <1>2, PTL DEF Spec, BreakNeverShrinks

=============================================================================
