------------------------------ MODULE FsProofs ------------------------------
(***************************************************************************)
(* Proofs about Fs.tla for every disk, directory and set of names: types,  *)
(* unique names, disjoint files, writes that harm no other file, and one   *)
(* owner of the write buffer, whatever fails and whenever power is lost.   *)
(***************************************************************************)
EXTENDS Fs, SequenceTheorems, TLAPS

-----------------------------------------------------------------------------
(* Numbers *)

(* Multiplication by a natural number is monotonic. *)
LEMMA MulMono ==
  ASSUME NEW m \in Nat, NEW a \in Int, NEW b \in Int, a <= b
  PROVE  m * a <= m * b
  OBVIOUS

(* Quotient and remainder. *)
LEMMA DivFacts ==
  ASSUME NEW a \in Nat, NEW n \in Nat \ {0}
  PROVE  /\ a \div n \in Nat /\ a % n \in 0 .. n - 1
         /\ a = n * (a \div n) + (a % n)
  OBVIOUS

(* The quotient of a number below n * m is below m. *)
LEMMA DivBelow ==
  ASSUME NEW a \in Nat, NEW n \in Nat \ {0}, NEW m \in Nat, a < n * m
  PROVE  a \div n < m
<1> DEFINE q == a \div n
<1>1. q \in Nat /\ a % n \in 0 .. n - 1 /\ a = n * q + (a % n)
  BY DivFacts
<1> HIDE DEF q
<1>2. SUFFICES ASSUME m <= q PROVE FALSE
  BY <1>1 DEF q
<1>3. n * m <= n * q
  BY <1>1, <1>2, MulMono
<1> QED BY <1>1, <1>3

(* The quotient is fixed by the multiples of n around the number. *)
LEMMA DivAt ==
  ASSUME NEW a \in Nat, NEW n \in Nat \ {0}, NEW k \in Nat,
         n * k <= a, a < n * (k + 1)
  PROVE  a \div n = k
<1> DEFINE q == a \div n
<1>1. q \in Nat /\ a % n \in 0 .. n - 1 /\ a = n * q + (a % n)
  BY DivFacts
<1>2. q < k + 1
  BY DivBelow
<1>3. ~(q < k)
  <2>1. SUFFICES ASSUME q + 1 <= k PROVE FALSE
    BY <1>1
  <2> HIDE DEF q
  <2>2. n * (q + 1) <= n * k
    BY <1>1, <2>1, MulMono
  <2>3. n * (q + 1) = n * q + n
    BY <1>1
  <2> QED BY <1>1, <2>2, <2>3
<1> HIDE DEF q
<1>4. q = k
  BY <1>1, <1>2, <1>3
<1> QED BY <1>4 DEF q

(* The quotient of a number from n * k on is at least k. *)
LEMMA DivAbove ==
  ASSUME NEW a \in Nat, NEW n \in Nat \ {0}, NEW k \in Nat, n * k <= a
  PROVE  k <= a \div n
<1> DEFINE q == a \div n
<1>1. q \in Nat /\ a % n \in 0 .. n - 1 /\ a = n * q + (a % n)
  BY DivFacts
<1>2. SUFFICES ASSUME q + 1 <= k PROVE FALSE
  BY <1>1
<1> HIDE DEF q
<1>3. n * (q + 1) <= n * k
  BY <1>1, <1>2, MulMono
<1>4. n * (q + 1) = n * q + n
  BY <1>1
<1> QED BY <1>1, <1>3, <1>4

-----------------------------------------------------------------------------
(* The invariant, for any directory d and write o *)

Unique(d) == \A s, t \in Live(d) : d[s].name = d[t].name => s = t

Disjoint(d) ==
  /\ \A s \in Live(d) : End(d[s]) <= LAST_LBA + 1
  /\ \A s, t \in Live(d) : s # t => End(d[s]) <= d[t].lba \/ End(d[t]) <= d[s].lba

(* The slot of the write is the file's own one, or free for a new file. *)
Placed(d, o) ==
  /\ o.k <= Sectors(Len(o.data)) /\ o.lba + o.k <= LAST_LBA + 1
  /\ \/ d[o.slot].name = o.name
     \/ d[o.slot].name = NoName /\ ~Exists(d, o.name)

Harmless(d, o) ==
  \A s \in Live(d) :
    \/ s = o.slot /\ d[s].name = o.name /\ o.lba = d[s].lba
         /\ Sectors(Len(o.data)) <= Sectors(d[s].size)
    \/ End(d[s]) <= o.lba
    \/ o.lba + Sectors(Len(o.data)) <= d[s].lba

(* A machine that is off is not in the middle of a call. *)
NoCallWhenOff == mode \in {"off", "halted"} => ~op.busy

(* An open handle has the name it was opened under. *)
HandlesNamed == \A fd \in Fd : handles[fd].used => handles[fd].name \in Name

(* What a call relies on: the directory, and the write it has in progress. *)
DirOK(d) == d \in [Slot -> Entry] /\ Unique(d) /\ Disjoint(d)
OpOK(d, o) ==
  \/ o = NoOp
  \/ o \in Op /\ Placed(d, o) /\ Harmless(d, o)

DiskOK == disk \in [DATA_LBA .. LAST_LBA -> Sector]
HandlesOK == handles \in [Fd -> Handle] /\ HandlesNamed /\ OneWriter
RestOK ==
  /\ wbuf \in [0 .. FD_BUF_SIZE - 1 -> Unit] /\ calls \in Nat
  /\ mode \in {"shell", "user", "closing", "halted", "off"} /\ NoCallWhenOff

Inv == DirOK(dir) /\ OpOK(dir, op) /\ DiskOK /\ HandlesOK /\ RestOK

-----------------------------------------------------------------------------
(* Sectors *)

(* The sizes are numbers, and there is a first sector. *)
LEMMA SizeFacts ==
  /\ SECTOR \in Nat \ {0} /\ DATA_LBA \in Nat /\ LAST_LBA \in Nat
  /\ DATA_LBA <= LAST_LBA /\ FD_BUF_SIZE \in Nat /\ FS_MAX_OPEN \in Nat
  /\ SLOTS \in Nat /\ DATA_LBA \in Lba /\ 0 .. SECTOR - 1 # {}
BY SizesAssumption DEF Lba

(* A number of units takes a number of sectors. *)
LEMMA SectorsType ==
  ASSUME NEW n \in Nat
  PROVE  Sectors(n) \in Nat
<1>1. n + SECTOR - 1 \in Nat
  BY SizeFacts
<1> QED BY <1>1, SizeFacts, DivFacts DEF Sectors

(* What an entry says is a number. *)
LEMMA EntryType ==
  ASSUME NEW e \in Entry
  PROVE  /\ e.lba \in Nat /\ e.size \in Nat /\ Sectors(e.size) \in Nat /\ End(e) \in Nat
         /\ DATA_LBA <= e.lba /\ End(e) = e.lba + Sectors(e.size)
<1>1. e.lba \in Nat /\ e.size \in Nat /\ DATA_LBA <= e.lba
  BY SizeFacts DEF Entry, Lba
<1>2. Sectors(e.size) \in Nat
  BY <1>1, SectorsType
<1> QED BY <1>1, <1>2 DEF End

(* Every unit of a file of n units lies in one of its sectors. *)
LEMMA SectorIndex ==
  ASSUME NEW n \in Nat, NEW i \in 1 .. n
  PROVE  /\ (i - 1) \div SECTOR \in 0 .. Sectors(n) - 1
         /\ (i - 1) % SECTOR \in 0 .. SECTOR - 1
<1> DEFINE q == (i - 1) \div SECTOR
<1>0. i - 1 \in Nat /\ SECTOR \in Nat \ {0} /\ i <= n
  BY SizeFacts
<1>1. /\ q \in Nat /\ (i - 1) % SECTOR \in 0 .. SECTOR - 1
      /\ i - 1 = SECTOR * q + ((i - 1) % SECTOR)
  BY ONLY <1>0, DivFacts
<1> HIDE DEF q
<1>2. SECTOR * (q + 1) = SECTOR * q + SECTOR
  BY <1>1, SizeFacts
<1>3. SECTOR * (q + 1) <= n + SECTOR - 1 /\ n + SECTOR - 1 \in Nat
  BY <1>0, <1>1, <1>2
<1>4. q + 1 <= (n + SECTOR - 1) \div SECTOR
  <2>1. q + 1 \in Nat
    BY <1>1
  <2> QED BY ONLY <1>0, <1>3, <2>1, DivAbove
<1>5. q + 1 <= Sectors(n) /\ Sectors(n) \in Nat
  BY <1>4, SectorsType DEF Sectors
<1>6. q \in 0 .. Sectors(n) - 1
  BY <1>1, <1>5
<1> QED BY <1>1, <1>6 DEF q

(* The sectors before the last hold no more than the file. *)
LEMMA SectorBelow ==
  ASSUME NEW n \in Nat, NEW k \in Nat, k + 1 <= Sectors(n)
  PROVE  k * SECTOR \in Nat /\ k * SECTOR <= n
<1> DEFINE a == n + SECTOR - 1
           q == a \div SECTOR
<1>1. a \in Nat /\ SECTOR \in Nat \ {0} /\ a = n + SECTOR - 1
  BY SizeFacts
<1> HIDE DEF a
<1>2. q \in Nat /\ a % SECTOR \in 0 .. SECTOR - 1 /\ a = SECTOR * q + (a % SECTOR)
  BY ONLY <1>1, DivFacts
<1>3. k + 1 <= q
  BY DEF Sectors, a
<1> HIDE DEF q
<1>4. SECTOR * (k + 1) <= SECTOR * q
  BY <1>1, <1>2, <1>3, MulMono
<1>5. SECTOR * (k + 1) = k * SECTOR + SECTOR /\ k * SECTOR \in Nat
  BY <1>1
<1> QED BY <1>1, <1>2, <1>4, <1>5

(* What fs_read returns for an entry that lies on the disk. *)
LEMMA ContentType ==
  ASSUME NEW e \in Entry, End(e) <= LAST_LBA + 1,
         disk \in [DATA_LBA .. LAST_LBA -> Sector]
  PROVE  Content(e) \in Seq(Unit) /\ Len(Content(e)) = e.size
<1>1. e.size \in Nat /\ e.lba \in Nat /\ DATA_LBA <= e.lba
  BY SizeFacts DEF Entry, Lba
<1>2. ASSUME NEW i \in 1 .. e.size
      PROVE  disk[e.lba + ((i - 1) \div SECTOR)][(i - 1) % SECTOR] \in Unit
  <2>1. (i - 1) \div SECTOR \in 0 .. Sectors(e.size) - 1 /\ (i - 1) % SECTOR \in 0 .. SECTOR - 1
    BY <1>1, SectorIndex
  <2>2. Sectors(e.size) \in Nat /\ e.lba + Sectors(e.size) <= LAST_LBA + 1
    BY <1>1, SectorsType DEF End
  <2>3. e.lba + ((i - 1) \div SECTOR) \in DATA_LBA .. LAST_LBA
    BY <1>1, <2>1, <2>2, SizeFacts
  <2> QED BY <2>1, <2>3 DEF Sector
<1>3. Content(e) \in [1 .. e.size -> Unit]
  BY <1>2 DEF Content
<1> QED BY <1>1, <1>3, IsASeq, LenProperties

(* A sector of padded data is a sector. *)
LEMMA PaddedType ==
  ASSUME NEW data \in Seq(Unit), NEW k \in Nat
  PROVE  Padded(data, k) \in Sector
<1>1. ASSUME NEW j \in 0 .. SECTOR - 1, k * SECTOR + j < Len(data)
      PROVE  data[k * SECTOR + j + 1] \in Unit
  <2>1. k * SECTOR \in Nat /\ j \in Nat
    BY SizeFacts
  <2>2. k * SECTOR + j + 1 \in 1 .. Len(data)
    BY <1>1, <2>1
  <2> QED BY <2>2, ElementOfSeq
<1>2. Zero \in Unit
  BY DEF Unit
<1> QED BY <1>1, <1>2 DEF Padded, Sector

-----------------------------------------------------------------------------
(* fs_write *)

(* An fs_write that gets past its checks has a place to write to. *)
LEMMA WriteStarts ==
  ASSUME NEW d, DirOK(d),
         NEW n \in Name, NEW type \in Type, NEW data \in Seq(Unit), NEW fd \in Fd \cup {NoFd},
         fs_write(d, n, type, data, fd)
  PROVE  /\ op' \in Op /\ op'.busy /\ op'.fd = fd /\ op'.name = n
         /\ Placed(d, op') /\ Harmless(d, op')
<1>0. d \in [Slot -> Entry] /\ Unique(d) /\ Disjoint(d)
  BY DEF DirOK
<1>1. PICK s \in Slot, lba \in Lba :
        /\ SlotFor(d, n, s)
        /\ WriteLba(d, n, s, Len(data), lba)
        /\ op' = [busy |-> TRUE, name |-> n, type |-> type, data |-> data,
                  slot |-> s, lba |-> lba, k |-> 0, fd |-> fd]
  BY DEF fs_write
<1>2. op' \in Op /\ op'.busy /\ op'.fd = fd /\ op'.name = n /\ op'.slot = s /\ op'.lba = lba
      /\ op'.k = 0 /\ op'.data = data
  BY <1>1 DEF Op
<1>3. Len(data) \in Nat /\ Sectors(Len(data)) \in Nat
  BY SectorsType, LenProperties
<1>4. lba \in Nat /\ lba <= LAST_LBA + 1
  BY SizeFacts DEF Lba
<1>5. NoName # n
  BY NamesAssumption
<1>6. Placed(d, op')
  <2>1. d[s].name = n \/ (d[s].name = NoName /\ ~Exists(d, n))
    BY <1>1 DEF SlotFor, fs_find, IsMin, Named
  <2> QED BY <1>2, <1>3, <1>4, <2>1 DEF Placed
<1>7. \A t \in Slot : d[t].lba \in Nat /\ d[t].size \in Nat /\ Sectors(d[t].size) \in Nat
                      /\ End(d[t]) \in Nat
  BY <1>0, EntryType
<1>8. Harmless(d, op')
  <2>1. SUFFICES ASSUME NEW t \in Live(d)
                 PROVE  \/ t = s /\ d[t].name = n /\ lba = d[t].lba
                             /\ Sectors(Len(data)) <= Sectors(d[t].size)
                        \/ End(d[t]) <= lba
                        \/ lba + Sectors(Len(data)) <= d[t].lba
    BY <1>2 DEF Harmless
  <2>2. CASE Exists(d, n) /\ Sectors(Len(data)) <= Sectors(d[s].size)
    <3>1. lba = d[s].lba /\ d[s].name = n /\ s \in Live(d)
      BY <1>1, <1>5, <2>2 DEF WriteLba, SlotFor, fs_find, IsMin, Named, Live
    <3>2. CASE t = s
      BY <2>2, <3>1, <3>2
    <3>3. CASE t # s
      <4>1. t \in Slot
        BY DEF Live
      <4>2. End(d[s]) <= d[t].lba \/ End(d[t]) <= d[s].lba
        BY <1>0, <3>1, <3>3 DEF Disjoint
      <4> QED BY <1>3, <1>7, <2>2, <3>1, <4>1, <4>2 DEF End
    <3> QED BY <3>2, <3>3
  <2>3. CASE ~(Exists(d, n) /\ Sectors(Len(data)) <= Sectors(d[s].size))
    BY <1>1, <2>3 DEF WriteLba, next_free, IsMax
  <2> QED BY <2>2, <2>3
<1> QED BY <1>2, <1>6, <1>8

(* The new entry takes its slot without touching any other file. *)
LEMMA EntryFits ==
  ASSUME Inv, op.busy, op.k = Sectors(Len(op.data)),
         NEW d, d = [dir EXCEPT ![op.slot] = NewEntry]
  PROVE  DirOK(d)
<1>1. op \in Op /\ Placed(dir, op) /\ Harmless(dir, op)
  BY DEF Inv, OpOK, NoOp
<1> USE DEF DirOK
<1>2. /\ op.slot \in Slot /\ op.name \in Name /\ op.lba \in Lba /\ op.lba \in Nat
      /\ Len(op.data) \in Nat /\ Sectors(Len(op.data)) \in Nat
  BY <1>1, LenProperties, SectorsType, SizeFacts DEF Op, Lba
<1>3. NewEntry \in Entry
  BY <1>1, <1>2 DEF NewEntry, Entry, Op
<1>4. d \in [Slot -> Entry]
  BY <1>3 DEF Inv
<1>5. /\ d[op.slot] = NewEntry /\ NewEntry.name = op.name /\ NewEntry.lba = op.lba
      /\ End(NewEntry) = op.lba + op.k
      /\ \A t \in Slot : t # op.slot => d[t] = dir[t]
  BY <1>2 DEF Inv, NewEntry, End
<1>6. \A t \in Live(d) : t # op.slot => t \in Live(dir) /\ d[t] = dir[t]
  BY <1>5 DEF Live
<1>7. \A t \in Live(dir) : t # op.slot => dir[t].name # op.name
  <2>1. Placed(dir, op) /\ Unique(dir)
    BY <1>1 DEF Inv
  <2>2. CASE dir[op.slot].name = op.name
    <3>1. op.slot \in Live(dir)
      BY <1>2, <2>2, NamesAssumption DEF Live
    <3> QED BY <2>1, <2>2, <3>1 DEF Unique
  <2>3. CASE ~Exists(dir, op.name)
    BY <2>3 DEF Exists, Named, Live
  <2> QED BY <2>1, <2>2, <2>3 DEF Placed
<1>8. Unique(d)
  BY <1>5, <1>6, <1>7 DEF Unique, Inv
<1>9. \A t \in Live(dir) : t # op.slot => End(dir[t]) <= op.lba \/ op.lba + op.k <= dir[t].lba
  BY <1>1 DEF Harmless
<1>10. Disjoint(d)
  <2>1. End(NewEntry) <= LAST_LBA + 1
    BY <1>1, <1>5 DEF Placed
  <2>2. Disjoint(dir)
    BY DEF Inv
  <2>3. \A t \in Live(d) : End(d[t]) <= LAST_LBA + 1
    BY <1>5, <1>6, <2>1, <2>2 DEF Disjoint
  <2>4. ASSUME NEW s \in Live(d), NEW t \in Live(d), s # t
        PROVE  End(d[s]) <= d[t].lba \/ End(d[t]) <= d[s].lba
    <3>0. \A u \in Live(d) : u # op.slot => End(d[u]) <= op.lba \/ op.lba + op.k <= d[u].lba
      BY <1>6, <1>9
    <3>1. CASE s = op.slot
      <4>1. d[s].lba = op.lba /\ End(d[s]) = op.lba + op.k
        BY <1>5, <3>1
      <4> QED BY <2>4, <3>0, <3>1, <4>1
    <3>2. CASE t = op.slot
      <4>1. d[t].lba = op.lba /\ End(d[t]) = op.lba + op.k
        BY <1>5, <3>2
      <4> QED BY <2>4, <3>0, <3>2, <4>1
    <3>3. CASE s # op.slot /\ t # op.slot
      BY <1>6, <2>2, <2>4, <3>3 DEF Disjoint
    <3> QED BY <3>1, <3>2, <3>3
  <2> QED BY <2>3, <2>4 DEF Disjoint
<1> QED BY <1>4, <1>8, <1>10

-----------------------------------------------------------------------------
(* Steps *)

(* A busy write is a typed one, in its place. *)
LEMMA BusyOp ==
  ASSUME Inv, op.busy
  PROVE  /\ op \in Op /\ Placed(dir, op) /\ Harmless(dir, op)
         /\ mode \in {"shell", "user", "closing"}
BY DEF Inv, OpOK, NoOp, RestOK, NoCallWhenOff

(* What fs_write leaves behind when it starts. *)
LEMMA StartKeeps ==
  ASSUME Inv, mode \in {"shell", "user", "closing"},
         NEW n \in Name, NEW type \in Type, NEW data \in Seq(Unit), NEW fd \in Fd \cup {NoFd},
         fd # NoFd => fd \in Writers,
         fs_write(dir, n, type, data, fd),
         UNCHANGED <<dir, disk, handles, wbuf, mode>>, calls' \in Nat
  PROVE  Inv'
<1>1. DirOK(dir)' /\ DiskOK'
  BY DEF Inv, DirOK, Unique, Disjoint, Live, End, DiskOK
<1>2. /\ op' \in Op /\ op'.busy /\ op'.fd = fd
      /\ Placed(dir, op') /\ Harmless(dir, op')
  BY WriteStarts DEF Inv
<1>3. OpOK(dir, op)'
  <2>1. dir' = dir
    OBVIOUS
  <2>2. OpOK(dir, op')
    BY <1>2 DEF OpOK
  <2> QED BY <2>1, <2>2
<1>4. HandlesOK'
  <2>1. Writers' = Writers /\ HandlesNamed'
    BY DEF Inv, HandlesOK, HandlesNamed, Writers
  <2> QED BY <1>2, <2>1 DEF Inv, HandlesOK, OneWriter
<1>5. RestOK'
  BY DEF Inv, RestOK, NoCallWhenOff
<1> QED BY <1>1, <1>3, <1>4, <1>5 DEF Inv

(* Dropping the handle of a write that returns. *)
LEMMA ReturnKeeps ==
  ASSUME Inv, op.busy, Return
  PROVE  HandlesOK' /\ OpOK(dir', op') /\ ~op'.busy
<1>1. op' = NoOp /\ ~op'.busy
  BY DEF Return, NoOp
<1>2. Closed \in Handle
  BY SizeFacts DEF Closed, Handle, Lba
<1>3. handles' \in [Fd -> Handle]
  BY <1>2 DEF Return, Inv, HandlesOK
<1>4. Writers' \subseteq Writers /\ HandlesNamed'
  BY DEF Return, Writers, HandlesNamed, Inv, HandlesOK, Closed
<1> QED BY <1>1, <1>3, <1>4 DEF Inv, HandlesOK, OneWriter, OpOK

(* A sector write of the running call leaves the disk well typed. *)
LEMMA SectorKeeps ==
  ASSUME Inv, op.busy,
         disk' = [disk EXCEPT ![op.lba + op.k] = Padded(op.data, op.k)]
  PROVE  DiskOK'
<1>1. op.data \in Seq(Unit) /\ op.k \in Nat
  BY BusyOp DEF Op
<1> QED BY <1>1, PaddedType DEF Inv, DiskOK

(* One more sector on the disk: the write is still in its place. *)
LEMMA StepWriteSector ==
  ASSUME Inv, WriteSector
  PROVE  Inv'
<1> USE DEF WriteSector
<1>1. op \in Op /\ Placed(dir, op) /\ Harmless(dir, op)
  BY BusyOp
<1>2. op' \in Op /\ op'.slot = op.slot /\ op'.name = op.name /\ op'.lba = op.lba
      /\ op'.data = op.data /\ op'.k = op.k + 1 /\ op'.fd = op.fd /\ op'.busy
  <2>1. op' = [op EXCEPT !.k = op.k + 1] /\ op.k + 1 \in Nat /\ op.busy
    BY <1>1 DEF Op
  <2> HIDE DEF WriteSector
  <2> QED BY <1>1, <2>1 DEF Op
<1>3. Placed(dir, op') /\ Harmless(dir, op')
  <2>1. /\ op.k \in Nat /\ op.lba \in Nat /\ Sectors(Len(op.data)) \in Nat
    BY <1>1, LenProperties, SectorsType, SizeFacts DEF Op, Lba
  <2>2. op.k + 1 <= Sectors(Len(op.data)) /\ op.lba + (op.k + 1) <= LAST_LBA + 1
    <3>1. op.k < Sectors(Len(op.data)) /\ op.lba + op.k <= LAST_LBA
      OBVIOUS
    <3>2. LAST_LBA \in Nat
      BY SizeFacts
    <3> QED BY ONLY <2>1, <3>1, <3>2
  <2>3. Placed(dir, op')
    BY <1>1, <1>2, <2>2 DEF Placed
  <2> QED BY <1>1, <1>2, <2>3 DEF Harmless
<1>4. DirOK(dir') /\ OpOK(dir', op')
  BY <1>2, <1>3 DEF OpOK, Inv
<1>5. DiskOK'
  BY SectorKeeps
<1>6. HandlesOK' /\ RestOK'
  <2>1. Writers' = Writers /\ HandlesNamed'
    BY DEF Inv, HandlesOK, HandlesNamed, Writers
  <2>2. HandlesOK'
    BY <1>2, <2>1 DEF Inv, HandlesOK, OneWriter
  <2>3. mode \in {"shell", "user", "closing"}
    BY BusyOp
  <2> QED BY <2>2, <2>3 DEF Inv, RestOK, NoCallWhenOff
<1> QED BY <1>4, <1>5, <1>6 DEF Inv

(* The entry is written, and the parent's list begun or the call over. *)
LEMMA StepWriteEntry ==
  ASSUME Inv, WriteEntry
  PROVE  Inv'
<1> USE DEF WriteEntry
<1>0. op \in Op /\ mode \in {"shell", "user", "closing"}
  BY BusyOp
<1>1. DirOK(dir')
  <2>1. PICK d : d = dir'
    OBVIOUS
  <2> QED BY <2>1, EntryFits
<1>2. DiskOK' /\ RestOK'
  BY <1>0 DEF Inv, DiskOK, RestOK, NoCallWhenOff
<1>3. CASE Parent[op.name] # NoName /\ fs_append(dir', op.name) /\ UNCHANGED handles
  <2>1. PICK d : d = dir'
    OBVIOUS
  <2>2. PICK s \in Slot : /\ fs_find(d, Parent[op.name], s)
                          /\ fs_write(d, Parent[op.name], FS_DIR, Append(Content(d[s]), op.name), op.fd)
    BY <1>3, <2>1 DEF fs_append
  <2>3. /\ op.name \in Name /\ Parent[op.name] \in Name /\ op.fd \in Fd \cup {NoFd}
        /\ op.name \in Unit
    BY <1>0, <1>3, NamesAssumption DEF Op, Unit
  <2>4. d[s] \in Entry /\ End(d[s]) <= LAST_LBA + 1
    <3>1. d[s].name = Parent[op.name]
      BY <2>2 DEF fs_find, IsMin, Named
    <3>2. s \in Live(d)
      BY <2>3, <3>1, NamesAssumption DEF Live
    <3> QED BY <1>1, <2>1, <3>2 DEF DirOK, Disjoint
  <2>5. Content(d[s]) \in Seq(Unit)
    BY <2>4, ContentType DEF Inv, DiskOK
  <2>6. Append(Content(d[s]), op.name) \in Seq(Unit)
    BY <2>3, <2>5, AppendProperties
  <2>7. FS_DIR \in Type
    BY DEF Type
  <2>8. op' \in Op /\ op'.fd = op.fd /\ Placed(d, op') /\ Harmless(d, op')
    <3>1. DirOK(d)
      BY <1>1, <2>1
    <3>2. fs_write(d, Parent[op.name], FS_DIR, Append(Content(d[s]), op.name), op.fd)
      BY <2>2
    <3> HIDE DEF WriteEntry
    <3> QED BY <3>1, <3>2, <2>3, <2>6, <2>7, WriteStarts
  <2>9. OpOK(dir', op')
    BY <2>1, <2>8 DEF OpOK
  <2>10. Writers' = Writers /\ HandlesNamed'
    BY <1>3 DEF Inv, HandlesOK, HandlesNamed, Writers
  <2>11. HandlesOK'
    BY <1>3, <2>8, <2>10 DEF Inv, HandlesOK, OneWriter
  <2> QED BY <1>1, <1>2, <2>9, <2>11 DEF Inv
<1>4. CASE Return
  BY <1>1, <1>2, <1>4, ReturnKeeps DEF Inv
<1> QED BY <1>3, <1>4

(* A disk error ends the call wherever it stands. *)
LEMMA StepAtaError ==
  ASSUME Inv, AtaError
  PROVE  Inv'
<1> USE DEF AtaError
<1>1. HandlesOK' /\ OpOK(dir', op') /\ ~op'.busy
  BY ReturnKeeps
<1>2. DiskOK'
  BY SectorKeeps DEF Inv, DiskOK
<1> QED BY <1>1, <1>2 DEF Inv, RestOK, NoCallWhenOff

(* Steps that leave the disk and the call alone need only look after the   *)
(* handles and the rest.                                                   *)
LEMMA FilesAlone ==
  ASSUME Inv, UNCHANGED <<dir, disk, op>>, HandlesOK', RestOK'
  PROVE  Inv'
BY DEF Inv, DiskOK

(* The same handles are as good as before. *)
LEMMA HandlesAlone ==
  ASSUME HandlesOK, UNCHANGED <<op, handles>>
  PROVE  HandlesOK'
BY DEF HandlesOK, HandlesNamed, OneWriter, Writers

(* Deleting a file leaves the others their names and sectors. *)
LEMMA StepDelete ==
  ASSUME Inv, NEW n \in Name, fs_delete(n)
  PROVE  Inv'
<1> USE DEF fs_delete
<1>1. PICK s \in Slot : fs_find(dir, n, s) /\ dir' = [dir EXCEPT ![s].name = NoName]
  OBVIOUS
<1>2. dir' \in [Slot -> Entry]
  BY <1>1 DEF Inv, DirOK, Entry
<1>3. \A t \in Slot : t # s => dir'[t] = dir[t]
  BY <1>1 DEF Inv, DirOK
<1>4. dir'[s].name = NoName
  BY <1>1 DEF Inv, DirOK, Entry
<1>5. \A t \in Live(dir') : t \in Live(dir) /\ dir'[t] = dir[t]
  BY <1>3, <1>4 DEF Live
<1>6. Unique(dir') /\ Disjoint(dir')
  BY <1>5 DEF Inv, DirOK, Unique, Disjoint
<1>7. op' = NoOp
  BY DEF Inv, OpOK, Idle, Op
<1>8. HandlesOK'
  BY HandlesAlone DEF Inv
<1>9. DiskOK' /\ RestOK'
  BY DEF Inv, DiskOK, RestOK, NoCallWhenOff, Count
<1> QED BY <1>2, <1>6, <1>7, <1>8, <1>9 DEF Inv, DirOK, OpOK

(* The calls of the shell keep the invariant. *)
LEMMA StepShellCall ==
  ASSUME Inv, ShellCall
  PROVE  Inv'
<1>1. ASSUME NEW n \in Name, NEW data \in Payloads, WriteFile(n, data) PROVE Inv'
  <2>1. data \in Seq(Unit) /\ FS_FILE \in Type
    BY NamesAssumption DEF Type
  <2>2. calls' \in Nat
    BY <1>1 DEF WriteFile, Count, Inv, RestOK
  <2> QED BY <1>1, <2>1, <2>2, StartKeeps DEF WriteFile
<1>2. ASSUME NEW n \in Name, fs_mkdir(n) PROVE Inv'
  <2>1. << >> \in Seq(Unit) /\ FS_DIR \in Type
    BY DEF Type
  <2>2. calls' \in Nat
    BY <1>2 DEF fs_mkdir, Count, Inv, RestOK
  <2> QED BY <1>2, <2>1, <2>2, StartKeeps DEF fs_mkdir
<1>3. ASSUME RunProgram PROVE Inv'
  <2>1. HandlesOK'
    BY <1>3, HandlesAlone DEF RunProgram, Inv
  <2>2. RestOK'
    BY <1>3 DEF RunProgram, Inv, RestOK, NoCallWhenOff, Idle
  <2> QED BY <1>3, <2>1, <2>2, FilesAlone DEF RunProgram
<1> QED BY <1>1, <1>2, <1>3, StepDelete DEF ShellCall

-----------------------------------------------------------------------------
(* Handles *)

(* Between calls, one writer is all there is to look after. *)
LEMMA IdleHandles ==
  ASSUME handles' \in [Fd -> Handle], HandlesNamed', \A f, g \in Writers' : f = g, op' = NoOp
  PROVE  HandlesOK'
BY DEF HandlesOK, OneWriter, NoOp

(* Without a call in progress there is no op. *)
LEMMA IdleOp ==
  ASSUME Inv, Idle
  PROVE  op = NoOp
BY DEF Inv, OpOK, Idle, Op

(* A handle that is moved keeps its name and what it may do. *)
LEMMA MovedHandle ==
  ASSUME Inv, Idle, UNCHANGED op, NEW fd \in Fd, handles[fd].used, NEW h \in Handle,
         h.used, h.writable = handles[fd].writable, h.name = handles[fd].name,
         handles' = [handles EXCEPT ![fd] = h]
  PROVE  HandlesOK'
<1>1. handles \in [Fd -> Handle] /\ HandlesNamed /\ \A f, g \in Writers : f = g
  BY DEF Inv, HandlesOK, OneWriter
<1>2. handles' \in [Fd -> Handle]
  BY <1>1
<1>3. Writers' \subseteq Writers
  BY <1>1 DEF Writers
<1>4. HandlesNamed'
  BY <1>1 DEF HandlesNamed
<1> QED BY <1>1, <1>2, <1>3, <1>4, IdleOp, IdleHandles

(* A handle that is dropped. *)
LEMMA DroppedHandle ==
  ASSUME Inv, Idle, UNCHANGED op, NEW fd \in Fd, handles' = [handles EXCEPT ![fd] = Closed]
  PROVE  HandlesOK'
<1>1. handles \in [Fd -> Handle] /\ HandlesNamed /\ \A f, g \in Writers : f = g
  BY DEF Inv, HandlesOK, OneWriter
<1>2. Closed \in Handle /\ ~Closed.used
  BY SizeFacts DEF Closed, Handle, Lba
<1>3. handles' \in [Fd -> Handle]
  BY <1>1, <1>2
<1>4. Writers' \subseteq Writers
  BY <1>1, <1>2 DEF Writers
<1>5. HandlesNamed'
  BY <1>1, <1>2 DEF HandlesNamed
<1> QED BY <1>1, <1>3, <1>4, <1>5, IdleOp, IdleHandles

(* A handle that is opened, as the only writable one if it is writable. *)
LEMMA OpenedHandle ==
  ASSUME Inv, Idle, UNCHANGED op, NEW fd \in Fd, ~handles[fd].used, NEW h \in Handle,
         h.name \in Name, h.writable => Writers = {}, handles' = [handles EXCEPT ![fd] = h]
  PROVE  HandlesOK'
<1>1. handles \in [Fd -> Handle] /\ HandlesNamed /\ \A f, g \in Writers : f = g
  BY DEF Inv, HandlesOK, OneWriter
<1>2. handles' \in [Fd -> Handle]
  BY <1>1
<1>3. \A f, g \in Writers' : f = g
  <2>1. CASE h.writable
    BY <1>1, <2>1 DEF Writers
  <2>2. CASE ~h.writable
    BY <1>1, <2>2 DEF Writers
  <2> QED BY <2>1, <2>2
<1>4. HandlesNamed'
  BY <1>1 DEF HandlesNamed
<1> QED BY <1>1, <1>2, <1>3, <1>4, IdleOp, IdleHandles

(* The write buffer after a file is loaded into it. *)
LEMMA LoadedType ==
  ASSUME Inv, NEW data \in Seq(Unit)
  PROVE  Loaded(data) \in [0 .. FD_BUF_SIZE - 1 -> Unit]
<1>1. ASSUME NEW i \in 0 .. FD_BUF_SIZE - 1, i < Len(data) PROVE data[i + 1] \in Unit
  <2>1. i + 1 \in 1 .. Len(data)
    BY <1>1, SizeFacts, LenProperties
  <2> QED BY <2>1, ElementOfSeq
<1>2. wbuf \in [0 .. FD_BUF_SIZE - 1 -> Unit]
  BY DEF Inv, RestOK
<1> QED BY <1>1, <1>2 DEF Loaded

(* What fs_open finds under a name. *)
LEMMA LookupType ==
  ASSUME Inv, NEW n \in Name, NEW e, Lookup(n, e)
  PROVE  e \in Entry /\ End(e) <= LAST_LBA + 1
<1>1. CASE e = NoEntry
  <2>1. e \in Entry /\ e.size = 0 /\ e.lba = DATA_LBA
    BY <1>1, SizeFacts DEF NoEntry, Entry, Type, FS_FILE, Lba
  <2>2. SECTOR - 1 \in Nat /\ SECTOR * 0 <= SECTOR - 1 /\ SECTOR - 1 < SECTOR * (0 + 1)
    BY SizeFacts
  <2>3. (SECTOR - 1) \div SECTOR = 0
    BY ONLY <2>2, SizeFacts, DivAt
  <2>4. 0 + SECTOR - 1 = SECTOR - 1
    BY SizeFacts
  <2> QED BY <2>1, <2>3, <2>4, SizeFacts DEF End, Sectors
<1>2. CASE \E s \in Slot : fs_find(dir, n, s) /\ e = dir[s]
  <2>1. PICK s \in Slot : fs_find(dir, n, s) /\ e = dir[s]
    BY <1>2
  <2>2. s \in Live(dir)
    BY <2>1, NamesAssumption DEF fs_find, IsMin, Named, Live
  <2> QED BY <2>1, <2>2 DEF Inv, DirOK, Disjoint
<1> QED BY <1>1, <1>2 DEF Lookup

(* Reading moves the position of one handle. *)
LEMMA StepRead ==
  ASSUME Inv, NEW fd \in Fd, NEW n \in 1 .. FD_BUF_SIZE, fs_read_fd(fd, n)
  PROVE  Inv'
<1> USE DEF fs_read_fd
<1>1. handles[fd] \in Handle /\ handles \in [Fd -> Handle]
  BY DEF Inv, HandlesOK
<1>2. Left(handles[fd]) \in Nat /\ handles[fd].offset \in Nat /\ n \in Nat
  BY <1>1, SizeFacts DEF Left, Length, Handle
<1>3. PICK o \in Nat : handles' = [handles EXCEPT ![fd].offset = o]
  <2>1. handles[fd].offset + (IF n > Left(handles[fd]) THEN Left(handles[fd]) ELSE n) \in Nat
    BY <1>2
  <2> QED BY <2>1
<1>4. HandlesOK'
  <2> DEFINE h == [handles[fd] EXCEPT !.offset = o]
  <2>1. h \in Handle /\ h.used /\ h.writable = handles[fd].writable /\ h.name = handles[fd].name
    BY <1>1 DEF Handle
  <2>2. handles' = [handles EXCEPT ![fd] = h]
    BY <1>1, <1>3
  <2> HIDE DEF h
  <2> QED BY <2>1, <2>2, MovedHandle
<1>5. RestOK'
  BY DEF Inv, RestOK, NoCallWhenOff
<1> QED BY <1>4, <1>5, FilesAlone

(* So does seeking, to wherever it may. *)
LEMMA StepSeek ==
  ASSUME Inv, NEW fd \in Fd, NEW off \in Int, fs_seek(fd, off)
  PROVE  Inv'
<1> USE DEF fs_seek
<1>1. handles[fd] \in Handle /\ handles \in [Fd -> Handle]
  BY DEF Inv, HandlesOK
<1>2. PICK o \in Nat : handles' = [handles EXCEPT ![fd].offset = o]
  <2>1. PICK base \in {0, handles[fd].offset, Length(handles[fd])} :
          base + off \in 0 .. MAX_OFFSET /\ handles' = [handles EXCEPT ![fd].offset = base + off]
    OBVIOUS
  <2>2. base + off \in Nat
    BY <2>1, SizeFacts DEF MAX_OFFSET
  <2> QED BY <2>1, <2>2
<1>3. HandlesOK'
  <2> DEFINE h == [handles[fd] EXCEPT !.offset = o]
  <2>1. h \in Handle /\ h.used /\ h.writable = handles[fd].writable /\ h.name = handles[fd].name
    BY <1>1 DEF Handle
  <2>2. handles' = [handles EXCEPT ![fd] = h]
    BY <1>1, <1>2
  <2> HIDE DEF h
  <2> QED BY <2>1, <2>2, MovedHandle
<1>4. RestOK'
  BY DEF Inv, RestOK, NoCallWhenOff
<1> QED BY <1>3, <1>4, FilesAlone

(* Writing through a handle fills the buffer within its bounds. *)
LEMMA StepWriteFd ==
  ASSUME Inv, NEW fd \in Fd, NEW data \in Seq(Unit), fs_write_fd(fd, data)
  PROVE  Inv'
<1> DEFINE old == handles[fd]
           end == old.offset + Len(data)
           top == IF end > old.wlen THEN end ELSE old.wlen
           h == [old EXCEPT !.offset = end, !.wlen = top]
<1> USE DEF fs_write_fd
<1>1. old \in Handle /\ handles \in [Fd -> Handle]
  BY DEF Inv, HandlesOK
<1>2. end \in Nat /\ end <= FD_BUF_SIZE /\ old.offset \in Nat /\ old.wlen \in 0 .. FD_BUF_SIZE
      /\ Len(data) \in Nat
  BY <1>1, LenProperties DEF Handle
<1>3. HandlesOK'
  <2>1. top \in 0 .. FD_BUF_SIZE
    BY <1>2, SizeFacts
  <2>2. handles' = [handles EXCEPT ![fd] = h]
    BY <1>1
  <2> HIDE DEF top, end
  <2>3. h \in Handle /\ h.used /\ h.writable = old.writable /\ h.name = old.name
    BY <1>1, <1>2, <2>1 DEF Handle
  <2> HIDE DEF h
  <2> QED BY <2>2, <2>3, MovedHandle
<1>4. wbuf' \in [0 .. FD_BUF_SIZE - 1 -> Unit]
  <2>1. ASSUME NEW i \in 0 .. FD_BUF_SIZE - 1, old.offset <= i, i < end
        PROVE  data[i - old.offset + 1] \in Unit
    <3>1. i \in Nat /\ i < old.offset + Len(data)
      BY <2>1, SizeFacts
    <3> HIDE DEF fs_write_fd, old
    <3>2. i - old.offset + 1 \in 1 .. Len(data)
      BY ONLY <1>2, <2>1, <3>1
    <3> QED BY <3>2, ElementOfSeq
  <2>2. Zero \in Unit /\ wbuf \in [0 .. FD_BUF_SIZE - 1 -> Unit]
    BY DEF Unit, Inv, RestOK
  <2> QED BY <2>1, <2>2
<1>5. RestOK'
  BY <1>4 DEF Inv, RestOK, NoCallWhenOff
<1> QED BY <1>3, <1>5, FilesAlone

(* Closing a handle drops it, or starts the write of what it holds. *)
LEMMA StepClose ==
  ASSUME Inv, NEW fd \in Fd, fs_close(fd)
  PROVE  Inv'
<1> USE DEF fs_close
<1>1. handles[fd] \in Handle /\ handles[fd].name \in Name
  BY DEF Inv, HandlesOK, HandlesNamed
<1>2. CASE handles' = [handles EXCEPT ![fd] = Closed] /\ UNCHANGED op
  <2>1. HandlesOK'
    BY <1>2, DroppedHandle
  <2>2. RestOK'
    BY <1>2 DEF Inv, RestOK, NoCallWhenOff
  <2> QED BY <1>2, <2>1, <2>2, FilesAlone
<1>3. CASE handles[fd].writable /\ UNCHANGED handles
           /\ fs_write(dir, handles[fd].name, FS_FILE,
                       [i \in 1 .. handles[fd].wlen |-> wbuf[i - 1]], fd)
  <2> DEFINE data == [i \in 1 .. handles[fd].wlen |-> wbuf[i - 1]]
  <2>1. data \in Seq(Unit)
    <3>1. handles[fd].wlen \in Nat /\ handles[fd].wlen <= FD_BUF_SIZE
      BY <1>1, SizeFacts DEF Handle
    <3>2. wbuf \in [0 .. FD_BUF_SIZE - 1 -> Unit]
      BY DEF Inv, RestOK
    <3>3. data \in [1 .. handles[fd].wlen -> Unit]
      BY <3>1, <3>2, SizeFacts
    <3> QED BY <3>1, <3>3, IsASeq
  <2>2. FS_FILE \in Type /\ fd \in Writers /\ calls' \in Nat
    BY <1>3 DEF Type, Writers, Inv, RestOK
  <2>3. mode \in {"shell", "user", "closing"} /\ UNCHANGED <<dir, disk, handles, wbuf, mode>>
    BY <1>3
  <2>4. fs_write(dir, handles[fd].name, FS_FILE, data, fd)
    BY <1>3
  <2> HIDE DEF data
  <2> QED BY <1>1, <2>1, <2>2, <2>3, <2>4, StartKeeps
<1> QED BY <1>2, <1>3

(* Opening: the buffer stays typed, and a new handle is the only writer. *)
LEMMA StepOpen ==
  ASSUME Inv, NEW n \in Name, NEW flags \in OpenFlags, fs_open(n, flags)
  PROVE  Inv'
<1>1. /\ Idle /\ mode = "user" /\ calls' \in Nat
      /\ UNCHANGED <<dir, disk, op, mode>>
  BY DEF fs_open, Count, Inv, RestOK
<1>2. PICK fd \in Fd, e \in {dir[s] : s \in Slot} \cup {NoEntry} :
        /\ Lookup(n, e)
        /\ IsMin(fd, {f \in Fd : ~handles[f].used})
        /\ IF "write" \in flags THEN OpenWrite(fd, n, e, flags) ELSE OpenRead(fd, n, e)
  BY DEF fs_open
<1>3. e \in Entry /\ End(e) <= LAST_LBA + 1 /\ ~handles[fd].used
  BY <1>2, LookupType DEF IsMin
<1>4. wbuf \in [0 .. FD_BUF_SIZE - 1 -> Unit] /\ HandlesOK
  BY DEF Inv, RestOK
<1>5. SUFFICES wbuf' \in [0 .. FD_BUF_SIZE - 1 -> Unit] /\ HandlesOK'
  <2>1. ASSUME wbuf' \in [0 .. FD_BUF_SIZE - 1 -> Unit] PROVE RestOK'
    BY <1>1, <2>1 DEF Inv, RestOK, NoCallWhenOff, Idle
  <2> QED BY <1>1, <2>1, FilesAlone
<1>6. CASE "write" \notin flags
  <2> DEFINE h == [used |-> TRUE, writable |-> FALSE, name |-> n, lba |-> e.lba,
                   size |-> e.size, wlen |-> 0, offset |-> 0]
  <2>1. handles' = [handles EXCEPT ![fd] = h] /\ wbuf' = wbuf
    BY <1>2, <1>6 DEF OpenRead
  <2>2. h \in Handle /\ h.name \in Name /\ ~h.writable
    <3>1. e.lba \in Lba /\ e.size \in Nat /\ 0 \in 0 .. FD_BUF_SIZE
      BY <1>3, SizeFacts DEF Entry
    <3> QED BY <3>1 DEF Handle
  <2> HIDE DEF h
  <2>3. HandlesOK'
    BY <1>1, <1>3, <2>1, <2>2, OpenedHandle
  <2> QED BY <1>4, <2>1, <2>3
<1>7. CASE "write" \in flags
  <2> DEFINE old == IF "trunc" \in flags THEN << >> ELSE Content(e)
             pos == IF "append" \in flags THEN Len(old) ELSE 0
             h == [used |-> TRUE, writable |-> TRUE, name |-> n, lba |-> DATA_LBA,
                   size |-> 0, wlen |-> Len(old), offset |-> pos]
  <2>1. old \in Seq(Unit) /\ Len(old) \in Nat
    <3>1. Content(e) \in Seq(Unit) /\ << >> \in Seq(Unit)
      BY <1>3, ContentType, EmptySeq DEF Inv, DiskOK
    <3>2. old \in Seq(Unit)
      BY <3>1
    <3> HIDE DEF old
    <3> QED BY <3>2, LenProperties
  <2>2. /\ Writers = {} /\ Len(old) <= FD_BUF_SIZE
        /\ \/ wbuf' = Loaded(old) /\ handles' = [handles EXCEPT ![fd] = h]
           \/ /\ \E k \in 0 .. Sectors(Len(old)) - 1 : wbuf' = Loaded(SubSeq(old, 1, k * SECTOR))
              /\ UNCHANGED handles
    BY <1>2, <1>7 DEF OpenWrite
  <2> HIDE DEF old
  <2>3. CASE wbuf' = Loaded(old) /\ handles' = [handles EXCEPT ![fd] = h]
    <3>1. pos \in Nat
      BY <2>1
    <3> HIDE DEF pos
    <3>2. h \in Handle /\ h.name \in Name
      <4>1. DATA_LBA \in Lba /\ Len(old) \in 0 .. FD_BUF_SIZE
        BY <2>1, <2>2, SizeFacts
      <4> QED BY <3>1, <4>1 DEF Handle
    <3> HIDE DEF h
    <3>3. HandlesOK'
      BY <1>1, <1>3, <2>2, <2>3, <3>2, OpenedHandle
    <3> QED BY <2>1, <2>3, <3>3, LoadedType
  <2>4. CASE (\E k \in 0 .. Sectors(Len(old)) - 1 : wbuf' = Loaded(SubSeq(old, 1, k * SECTOR)))
             /\ UNCHANGED handles
    <3>1. PICK k \in 0 .. Sectors(Len(old)) - 1 : wbuf' = Loaded(SubSeq(old, 1, k * SECTOR))
      BY <2>4
    <3>2. k \in Nat /\ k * SECTOR \in Nat /\ k * SECTOR <= Len(old)
      <4>1. k \in Nat /\ k + 1 <= Sectors(Len(old)) /\ Sectors(Len(old)) \in Nat
        BY <2>1, SectorsType
      <4> QED BY <2>1, <4>1, SectorBelow
    <3>3. SubSeq(old, 1, k * SECTOR) \in Seq(Unit)
      BY <2>1, <3>2, SubSeqProperties
    <3>4. HandlesOK'
      BY <1>1, <1>4, <2>4, HandlesAlone
    <3> QED BY <3>1, <3>3, <3>4, LoadedType
  <2> QED BY <2>2, <2>3, <2>4
<1> QED BY <1>2, <1>6, <1>7

(* The calls of a program on files keep the invariant. *)
LEMMA StepFileCall ==
  ASSUME Inv, FileCall
  PROVE  Inv'
<1>1. ASSUME NEW fd \in Fd, NEW data \in Payloads, fs_write_fd(fd, data) PROVE Inv'
  BY <1>1, StepWriteFd, NamesAssumption
<1>2. ASSUME NEW fd \in Fd, NEW off \in -MAX_OFFSET .. MAX_OFFSET, fs_seek(fd, off) PROVE Inv'
  <2>1. off \in Int
    BY SizeFacts DEF MAX_OFFSET
  <2> QED BY <1>2, <2>1, StepSeek
<1>3. ASSUME UserClose PROVE Inv'
  BY <1>3, StepClose DEF UserClose
<1>4. ASSUME Exit PROVE Inv'
  <2>1. HandlesOK'
    BY <1>4, HandlesAlone DEF Exit, Inv
  <2>2. RestOK'
    BY <1>4 DEF Exit, Inv, RestOK, NoCallWhenOff, Idle
  <2> QED BY <1>4, <2>1, <2>2, FilesAlone DEF Exit
<1> QED BY <1>1, <1>2, <1>3, <1>4, StepOpen, StepRead DEF FileCall

(* So does closing all handles one after the other. *)
LEMMA StepCloseAll ==
  ASSUME Inv, fs_close_all
  PROVE  Inv'
<1>1. CASE \E fd \in Fd : fs_close(fd)
  BY <1>1, StepClose
<1>2. CASE Idle /\ mode' = "shell" /\ UNCHANGED <<dir, disk, op, handles, wbuf, calls>>
  <2>1. HandlesOK'
    BY <1>2, HandlesAlone DEF Inv
  <2>2. RestOK'
    BY <1>2 DEF Inv, RestOK, NoCallWhenOff
  <2> QED BY <1>2, <2>1, <2>2, FilesAlone
<1> QED BY <1>1, <1>2 DEF fs_close_all

(* A call cut short leaves the directory as it is between two calls. *)
LEMMA StepPowerLoss ==
  ASSUME Inv, PowerLoss
  PROVE  Inv'
<1> USE DEF PowerLoss
<1>1. HandlesOK'
  BY DEF Inv, HandlesOK, HandlesNamed, OneWriter, Writers, NoOp
<1>2. DiskOK' /\ RestOK'
  BY DEF Inv, DiskOK, RestOK, NoCallWhenOff, NoOp
<1>3. DirOK(dir') /\ OpOK(dir', op')
  BY DEF Inv, OpOK
<1> QED BY <1>1, <1>2, <1>3 DEF Inv

(* Memory as it is after boot. *)
LEMMA FreshHandles ==
  /\ [fd \in Fd |-> Closed] \in [Fd -> Handle]
  /\ [i \in 0 .. FD_BUF_SIZE - 1 |-> Zero] \in [0 .. FD_BUF_SIZE - 1 -> Unit]
  /\ \A fd \in Fd : ~[f \in Fd |-> Closed][fd].used
BY SizeFacts DEF Closed, Handle, Lba, Unit

(* A boot starts with no handle open and the disk as it was left. *)
LEMMA StepMount ==
  ASSUME Inv, fs_mount
  PROVE  Inv'
<1> USE DEF fs_mount
<1>1. op' = NoOp
  BY DEF Inv, RestOK, NoCallWhenOff, OpOK, Op
<1>2. handles' \in [Fd -> Handle] /\ wbuf' \in [0 .. FD_BUF_SIZE - 1 -> Unit]
      /\ \A fd \in Fd : ~handles'[fd].used
  BY FreshHandles
<1>3. HandlesOK'
  BY <1>1, <1>2, IdleHandles DEF HandlesNamed, Writers
<1>4. DiskOK' /\ RestOK' /\ DirOK(dir')
  BY <1>1, <1>2 DEF Inv, DiskOK, RestOK, NoCallWhenOff, NoOp
<1> QED BY <1>1, <1>3, <1>4 DEF Inv, OpOK

-----------------------------------------------------------------------------
(* The theorems *)

(* What the seeder leaves satisfies the invariant. *)
LEMMA InitInv == Init => Inv
<1> SUFFICES ASSUME Init PROVE Inv
  OBVIOUS
<1> USE DEF Init
<1>1. PICK seed \in Seeds : dir = seed.dir /\ disk = seed.disk
  OBVIOUS
<1>2. dir \in [Slot -> Entry] /\ DiskOK
  BY <1>1, SeedsAssumption DEF DiskOK
<1>3. Unique(dir)
  BY <1>1, SeedsAssumption DEF Unique
<1>4. Disjoint(dir)
  <2>1. \A s \in Live(dir) : End(dir[s]) <= LAST_LBA + 1
    BY <1>1, SeedsAssumption, SizeFacts DEF Lba
  <2>2. ASSUME NEW s \in Live(dir), NEW t \in Live(dir), s # t
        PROVE  End(dir[s]) <= dir[t].lba \/ End(dir[t]) <= dir[s].lba
    <3>1. s < t \/ t < s
      BY <2>2, SizeFacts DEF Live, Slot
    <3> QED BY <1>1, <3>1, SeedsAssumption
  <2> QED BY <2>1, <2>2 DEF Disjoint
<1>5. HandlesOK
  BY FreshHandles DEF HandlesOK, HandlesNamed, OneWriter, Writers, NoOp
<1>6. RestOK
  BY FreshHandles DEF RestOK, NoCallWhenOff
<1> QED BY <1>2, <1>3, <1>4, <1>5, <1>6 DEF Inv, DirOK, OpOK

(* Every step keeps the invariant. *)
LEMMA NextInv == Inv /\ [Next]_vars => Inv'
<1> SUFFICES ASSUME Inv, [Next]_vars PROVE Inv'
  OBVIOUS
<1>1. CASE DiskStep
  BY <1>1, StepWriteSector, StepWriteEntry, StepAtaError DEF DiskStep
<1>2. CASE UNCHANGED vars
  <2>1. HandlesOK'
    BY <1>2, HandlesAlone DEF vars, Inv
  <2>2. RestOK'
    BY <1>2 DEF vars, Inv, RestOK, NoCallWhenOff
  <2> QED BY <1>2, <2>1, <2>2, FilesAlone DEF vars
<1> QED BY <1>1, <1>2, StepShellCall, StepFileCall, StepCloseAll, StepPowerLoss, StepMount DEF Next

(* The invariant holds in every behaviour. *)
LEMMA AlwaysInv == Spec => []Inv
BY InitInv, NextInv, PTL DEF Spec

(* Types of fs.c's state, for every disk. *)
THEOREM FsTypes == Spec => []TypeOK
<1>1. Inv => TypeOK
  BY DEF Inv, DirOK, OpOK, DiskOK, HandlesOK, RestOK, TypeOK
<1> QED BY <1>1, AlwaysInv, PTL

(* fs_write and fs_delete never leave two entries with one name, whatever  *)
(* sector write fails and wherever power is lost.                          *)
THEOREM UniqueNames == Spec => []NamesUnique
<1>1. Inv => NamesUnique
  BY DEF Inv, DirOK, Unique, NamesUnique
<1> QED BY <1>1, AlwaysInv, PTL

(* The allocation at the highest end, the rewrite in place and the reuse   *)
(* of a deleted file's slot never make two files share a sector.           *)
THEOREM DisjointFiles == Spec => []ExtentsDisjoint
<1>1. Inv => ExtentsDisjoint
  BY DEF Inv, DirOK, Disjoint, ExtentsDisjoint
<1> QED BY <1>1, AlwaysInv, PTL

(* A sector written by fs_write, the rewrite of a parent's list included,  *)
(* belongs to the file it is for or to none.                               *)
THEOREM HarmlessWrites == Spec => []WriteHarmsNoOther
<1>1. Inv => WriteHarmsNoOther
  BY DEF Inv, OpOK, NoOp, Harmless, WriteHarmsNoOther
<1> QED BY <1>1, AlwaysInv, PTL

(* wbuf never has two owners: fs_open, close and its write that may fail.  *)
THEOREM SingleWriter == Spec => []OneWriter
<1>1. Inv => OneWriter
  BY DEF Inv, HandlesOK
<1> QED BY <1>1, AlwaysInv, PTL

-----------------------------------------------------------------------------
(* The store of files, for any directory d, disk k and handles h           *)

ContentOf(k, e) ==
  [i \in 1 .. e.size |-> k[e.lba + ((i - 1) \div SECTOR)][(i - 1) % SECTOR]]
FileOf(k, e) == [type |-> e.type, data |-> ContentOf(k, e)]
FilesOf(d, k) ==
  [n \in {d[s].name : s \in Live(d)} |-> FileOf(k, d[CHOOSE s \in Live(d) : d[s].name = n])]

OpOf(o) ==
  IF o.busy THEN [busy |-> TRUE, name |-> o.name, type |-> o.type, data |-> o.data] ELSE NoOp

Held(h) == {f \in Fd : h[f].used /\ h[f].writable}
DraftFor(e, w) ==
  [open |-> TRUE, name |-> e.name, pos |-> e.offset, data |-> [i \in 1 .. e.wlen |-> w[i - 1]]]
DraftOf(h, w, m) ==
  IF Held(h) = {} \/ m \in {"off", "halted"} THEN [open |-> FALSE]
  ELSE DraftFor(h[CHOOSE fd \in Held(h) : TRUE], w)

storeVars == <<Files, FileOp, Draft>>

(* The refinement mapping in these terms, before and after a step. *)
LEMMA StoreIs ==
  /\ Files = FilesOf(dir, disk) /\ Files' = FilesOf(dir', disk')
  /\ FileOp = OpOf(op) /\ FileOp' = OpOf(op')
  /\ Draft = DraftOf(handles, wbuf, mode) /\ Draft' = DraftOf(handles', wbuf', mode')
<1>1. Files = FilesOf(dir, disk) /\ Files' = FilesOf(dir', disk')
  BY DEF Files, FilesOf, FileOf, Content, ContentOf
<1>2. FileOp = OpOf(op) /\ FileOp' = OpOf(op')
  BY DEF FileOp, OpOf
<1>3. Draft = DraftOf(handles, wbuf, mode) /\ Draft' = DraftOf(handles', wbuf', mode')
  BY DEF Draft, DraftOf, DraftFor, Held, Writers
<1> QED BY <1>1, <1>2, <1>3

(* A live entry is the file of its name. *)
LEMMA FileAt ==
  ASSUME NEW d, NEW k, Unique(d), NEW s \in Live(d)
  PROVE  /\ d[s].name \in DOMAIN FilesOf(d, k)
         /\ FilesOf(d, k)[d[s].name] = FileOf(k, d[s])
<1> DEFINE n == d[s].name
<1>1. (CHOOSE t \in Live(d) : d[t].name = n) = s
  BY DEF Unique
<1>2. n \in {d[t].name : t \in Live(d)}
  OBVIOUS
<1> HIDE DEF n
<1> QED BY <1>1, <1>2 DEF FilesOf, n

(* The names in the store are those of the live entries. *)
LEMMA FileNames ==
  ASSUME NEW d, NEW k
  PROVE  DOMAIN FilesOf(d, k) = {d[s].name : s \in Live(d)}
BY DEF FilesOf

(* Entries that are the same hold the same files. *)
LEMMA SameFiles ==
  ASSUME NEW d, NEW k, NEW S, NEW F,
         DOMAIN FilesOf(d, k) = S, F = [n \in S |-> F[n]],
         \A n \in S : FilesOf(d, k)[n] = F[n]
  PROVE  FilesOf(d, k) = F
<1>1. FilesOf(d, k) = [n \in DOMAIN FilesOf(d, k) |-> FilesOf(d, k)[n]]
  BY DEF FilesOf
<1> QED BY <1>1

(* The draft is the one writable handle's. *)
LEMMA DraftAt ==
  ASSUME NEW h, NEW w, NEW m, m \notin {"off", "halted"}, NEW fd \in Held(h),
         \A f, g \in Held(h) : f = g
  PROVE  DraftOf(h, w, m) = DraftFor(h[fd], w)
<1>1. (CHOOSE f \in Held(h) : TRUE) = fd /\ Held(h) # {}
  OBVIOUS
<1> QED BY <1>1 DEF DraftOf

(* Without a writer, or without power, there is no draft. *)
LEMMA NoDraftAt ==
  ASSUME NEW h, NEW w, NEW m, Held(h) = {} \/ m \in {"off", "halted"}
  PROVE  DraftOf(h, w, m) = Store!NoDraft
BY DEF DraftOf, Store!NoDraft

(* Steps that leave the writable handles alone leave the draft alone. *)
LEMMA SameDraft ==
  ASSUME NEW h, NEW w, NEW m, NEW g, NEW v, NEW n,
         Held(g) = Held(h), \A fd \in Held(h) : g[fd] = h[fd],
         v = w \/ Held(h) = {}, m \in {"off", "halted"} <=> n \in {"off", "halted"}
  PROVE  DraftOf(g, v, n) = DraftOf(h, w, m)
<1>1. CASE Held(h) = {} \/ m \in {"off", "halted"}
  BY <1>1 DEF DraftOf
<1>2. CASE ~(Held(h) = {} \/ m \in {"off", "halted"})
  <2> DEFINE fd == CHOOSE f \in Held(h) : TRUE
  <2>1. fd \in Held(h) /\ g[fd] = h[fd] /\ v = w
    BY <1>2
  <2>2. DraftOf(h, w, m) = DraftFor(h[fd], w) /\ DraftOf(g, v, n) = DraftFor(g[fd], v)
    BY <1>2 DEF DraftOf
  <2> QED BY <2>1, <2>2
<1> QED BY <1>1, <1>2

(* What a file that lies on the disk k holds. *)
LEMMA ContentOfType ==
  ASSUME NEW e \in Entry, End(e) <= LAST_LBA + 1,
         NEW k \in [DATA_LBA .. LAST_LBA -> Sector]
  PROVE  /\ ContentOf(k, e) \in Seq(Unit) /\ Len(ContentOf(k, e)) = e.size
         /\ \A i \in 1 .. e.size : e.lba + ((i - 1) \div SECTOR) \in e.lba .. End(e) - 1
<1>1. e.size \in Nat /\ e.lba \in Nat /\ DATA_LBA <= e.lba
  BY EntryType
<1>2. ASSUME NEW i \in 1 .. e.size
      PROVE  /\ e.lba + ((i - 1) \div SECTOR) \in e.lba .. End(e) - 1
             /\ k[e.lba + ((i - 1) \div SECTOR)][(i - 1) % SECTOR] \in Unit
  <2> DEFINE q == (i - 1) \div SECTOR
             j == (i - 1) % SECTOR
  <2>1. q \in 0 .. Sectors(e.size) - 1 /\ j \in 0 .. SECTOR - 1
    BY <1>1, SectorIndex
  <2>2. Sectors(e.size) \in Nat /\ End(e) = e.lba + Sectors(e.size) /\ LAST_LBA \in Nat /\ DATA_LBA \in Nat
    BY EntryType, SizeFacts
  <2> HIDE DEF q, j
  <2>3. e.lba + q \in e.lba .. End(e) - 1 /\ e.lba + q \in DATA_LBA .. LAST_LBA
    BY <1>1, <2>1, <2>2
  <2>4. k[e.lba + q][j] \in Unit
    BY <2>1, <2>3 DEF Sector
  <2> QED BY <2>3, <2>4 DEF q, j
<1>3. ContentOf(k, e) \in [1 .. e.size -> Unit]
  BY <1>2 DEF ContentOf
<1> QED BY <1>1, <1>2, <1>3, IsASeq, LenProperties

(* Writing a sector changes no file that does not reach over it. *)
LEMMA ContentKept ==
  ASSUME NEW e \in Entry, End(e) <= LAST_LBA + 1,
         NEW k \in [DATA_LBA .. LAST_LBA -> Sector], NEW x \in Int, NEW sector,
         x < e.lba \/ End(e) <= x
  PROVE  ContentOf([k EXCEPT ![x] = sector], e) = ContentOf(k, e)
<1> DEFINE k2 == [k EXCEPT ![x] = sector]
<1>1. e.size \in Nat /\ e.lba \in Nat /\ End(e) \in Nat
  BY EntryType
<1>2. ASSUME NEW i \in 1 .. e.size
      PROVE  k2[e.lba + ((i - 1) \div SECTOR)] = k[e.lba + ((i - 1) \div SECTOR)]
  <2> DEFINE l == e.lba + ((i - 1) \div SECTOR)
  <2>1. l \in e.lba .. End(e) - 1
    BY ContentOfType
  <2>2. LAST_LBA \in Nat /\ DATA_LBA \in Nat /\ DATA_LBA <= e.lba
    BY EntryType, SizeFacts
  <2> HIDE DEF l
  <2>3. l # x /\ l \in DATA_LBA .. LAST_LBA
    BY <1>1, <2>1, <2>2
  <2>4. k2[l] = k[l]
    BY <2>3
  <2> QED BY <2>4 DEF l
<1> HIDE DEF k2
<1>3. ContentOf(k2, e) = ContentOf(k, e)
  BY <1>2 DEF ContentOf
<1> QED BY <1>3 DEF k2

(* The disk as a sector write of the running call leaves it. *)
SectorWritten ==
  /\ op.k < Sectors(Len(op.data)) /\ op.lba + op.k <= LAST_LBA
  /\ disk' = [disk EXCEPT ![op.lba + op.k] = Padded(op.data, op.k)]

(* However far the running call got, only its own file may differ, and     *)
(* only when the new contents go over the old ones.                        *)
LEMMA TearsOnlyItself ==
  ASSUME Inv, op.busy, UNCHANGED dir, UNCHANGED disk \/ SectorWritten
  PROVE  Store!MayTear
<1>1. op \in Op /\ Harmless(dir, op) /\ Unique(dir) /\ dir \in [Slot -> Entry] /\ Disjoint(dir)
      /\ disk \in [DATA_LBA .. LAST_LBA -> Sector]
  BY BusyOp DEF Inv, DirOK, DiskOK
<1>2. DOMAIN Files = {dir[s].name : s \in Live(dir)} /\ DOMAIN Files' = DOMAIN Files
  BY StoreIs, FileNames
<1>3. disk' \in [DATA_LBA .. LAST_LBA -> Sector]
  BY <1>1, SectorKeeps DEF SectorWritten, DiskOK
<1>4. FileOp = [busy |-> TRUE, name |-> op.name, type |-> op.type, data |-> op.data]
  BY DEF FileOp
<1>5. ASSUME NEW s \in Live(dir)
      PROVE  \/ Files'[dir[s].name] = Files[dir[s].name]
             \/ /\ dir[s].name = op.name
                /\ Sectors(Len(op.data)) <= Sectors(Len(Files[dir[s].name].data))
                /\ Files'[dir[s].name].type = Files[dir[s].name].type
                /\ Len(Files'[dir[s].name].data) = Len(Files[dir[s].name].data)
  <2> DEFINE e == dir[s]
  <2>1. e \in Entry /\ End(e) <= LAST_LBA + 1
    BY <1>1 DEF Live, Disjoint
  <2>2. Files[e.name] = FileOf(disk, e) /\ Files'[e.name] = FileOf(disk', e)
    BY <1>1, StoreIs, FileAt
  <2>3. Len(ContentOf(disk, e)) = e.size /\ Len(ContentOf(disk', e)) = e.size
    BY <1>1, <1>3, <2>1, ContentOfType
  <2>4. CASE UNCHANGED disk
    BY <2>2, <2>4
  <2>5. CASE SectorWritten /\ e.name = op.name /\ Sectors(Len(op.data)) <= Sectors(e.size)
    BY <2>2, <2>3, <2>5 DEF FileOf
  <2>6. CASE SectorWritten /\ (End(e) <= op.lba \/ op.lba + Sectors(Len(op.data)) <= e.lba)
    <3> DEFINE x == op.lba + op.k
               n == Sectors(Len(op.data))
    <3>1. op.k \in Nat /\ op.lba \in Nat /\ n \in Nat /\ op.k < n
          /\ (End(e) <= op.lba \/ op.lba + n <= e.lba)
      BY <1>1, <2>6, LenProperties, SectorsType, SizeFacts DEF Op, Lba, SectorWritten
    <3>2. e.lba \in Nat /\ End(e) \in Nat
      BY <2>1, EntryType
    <3> HIDE DEF n, e
    <3>3. x \in Int /\ (x < e.lba \/ End(e) <= x)
      BY <3>1, <3>2
    <3>4. disk' = [disk EXCEPT ![x] = Padded(op.data, op.k)]
      BY <2>6 DEF SectorWritten
    <3> HIDE DEF x
    <3>5. ContentOf(disk', e) = ContentOf(disk, e)
      BY <1>1, <2>1, <3>3, <3>4, ContentKept
    <3> QED BY <2>2, <3>5 DEF FileOf, e
  <2> QED BY <1>1, <2>4, <2>5, <2>6 DEF Harmless
<1>6. ASSUME NEW n \in DOMAIN Files
      PROVE  \/ Files'[n] = Files[n]
             \/ /\ FileOp.busy /\ n = FileOp.name
                /\ Store!Sectors(Len(FileOp.data)) <= Store!Sectors(Len(Files[n].data))
                /\ Files'[n].type = Files[n].type
                /\ Len(Files'[n].data) = Len(Files[n].data)
  <2>1. PICK s \in Live(dir) : n = dir[s].name
    BY <1>2
  <2>2. \A m : Store!Sectors(m) = Sectors(m)
    BY DEF Store!Sectors, Sectors
  <2> QED BY <1>4, <1>5, <2>1, <2>2
<1> QED BY <1>2, <1>6 DEF Store!MayTear

(* Nothing on the disk changes. *)
LEMMA FilesKept ==
  ASSUME UNCHANGED <<dir, disk>>
  PROVE  Files' = Files
BY StoreIs

-----------------------------------------------------------------------------
(* The sectors a write has behind it hold its data. *)
Wrote(k, o) == o.busy => \A j \in 0 .. o.k - 1 : k[o.lba + j] = Padded(o.data, j)

WroteInv == Wrote(disk, op)

(* A write that starts has nothing behind it yet. *)
LEMMA StartWrote ==
  ASSUME NEW d, NEW n, NEW type, NEW data, NEW fd, fs_write(d, n, type, data, fd)
  PROVE  WroteInv'
<1>1. op'.k = 0
  BY DEF fs_write
<1> QED BY <1>1 DEF WroteInv, Wrote

(* Every step keeps what was written: only the write itself moves on. *)
LEMMA NextWrote ==
  ASSUME Inv, WroteInv, [Next]_vars
  PROVE  WroteInv'
<1>1. ASSUME op' = NoOp PROVE WroteInv'
  BY <1>1 DEF WroteInv, Wrote, NoOp
<1>2. ASSUME UNCHANGED <<op, disk>> PROVE WroteInv'
  BY <1>2 DEF WroteInv
<1>3. CASE WriteSector
  <2>0. op \in Op /\ op.busy
    BY <1>3, BusyOp DEF WriteSector
  <2>1. op \in Op /\ op.k \in Nat /\ op.lba \in Nat /\ op.busy
    <3>1. op.k \in Nat /\ op.lba \in Lba
      BY <2>0 DEF Op
    <3>2. op.lba \in Nat
      BY <3>1, SizeFacts DEF Lba
    <3> QED BY <2>0, <3>1, <3>2
  <2>2. /\ op'.busy /\ op'.k = op.k + 1 /\ op'.lba = op.lba /\ op'.data = op.data
    BY <1>3, <2>1 DEF WriteSector, Op
  <2>3. disk' = [disk EXCEPT ![op.lba + op.k] = Padded(op.data, op.k)]
        /\ op.lba + op.k \in DATA_LBA .. LAST_LBA /\ disk \in [DATA_LBA .. LAST_LBA -> Sector]
    <3>1. op.lba + op.k <= LAST_LBA /\ DATA_LBA <= op.lba
      BY <1>3, <2>1, SizeFacts DEF WriteSector, Op, Lba
    <3>2. op.lba + op.k \in DATA_LBA .. LAST_LBA
      BY <2>1, <3>1, SizeFacts
    <3> QED BY <1>3, <3>2 DEF WriteSector, Inv, DiskOK
  <2>4. ASSUME NEW j \in 0 .. op.k PROVE disk'[op.lba + j] = Padded(op.data, j)
    <3>1. CASE j = op.k
      BY <2>3, <3>1
    <3>2. CASE j # op.k
      <4>1. j \in 0 .. op.k - 1 /\ op.lba + j # op.lba + op.k
        BY <2>1, <3>2
      <4>2. disk[op.lba + j] = Padded(op.data, j)
        BY <2>1, <4>1 DEF WroteInv, Wrote
      <4> QED BY <2>3, <4>1, <4>2
    <3> QED BY <3>1, <3>2
  <2>5. 0 .. op'.k - 1 = 0 .. op.k
    BY <2>1, <2>2
  <2> QED BY <2>2, <2>4, <2>5 DEF WroteInv, Wrote
<1>4. CASE WriteEntry
  BY <1>1, <1>4, StartWrote DEF WriteEntry, fs_append, Return
<1>5. CASE AtaError \/ PowerLoss
  BY <1>1, <1>5 DEF AtaError, Return, PowerLoss
<1>6. CASE ShellCall
  BY <1>2, <1>6, StartWrote DEF ShellCall, WriteFile, fs_mkdir, fs_delete, RunProgram
<1>7. ASSUME NEW fd \in Fd, fs_close(fd) PROVE WroteInv'
  BY <1>2, <1>7, StartWrote DEF fs_close
<1>8. CASE FileCall
  <2>1. UNCHANGED <<op, disk>> \/ UserClose
    BY <1>8 DEF FileCall, fs_open, fs_read_fd, fs_write_fd, fs_seek, Exit
  <2> QED BY <1>2, <1>7, <2>1 DEF UserClose
<1>9. CASE fs_close_all \/ fs_mount \/ UNCHANGED vars
  BY <1>2, <1>7, <1>9 DEF fs_close_all, fs_mount, vars
<1> QED BY <1>3, <1>4, <1>5, <1>6, <1>8, <1>9 DEF Next, DiskStep

-----------------------------------------------------------------------------
(* Every step, seen by the callers.                                        *)
StoreStep == [Store!Next]_storeVars

(* Handles and buffer stay, and so does the power: so does the draft. *)
LEMMA DraftKept ==
  ASSUME UNCHANGED <<handles, wbuf>>,
         mode \in {"off", "halted"} <=> mode' \in {"off", "halted"}
  PROVE  Draft' = Draft
<1>1. Held(handles') = Held(handles) /\ \A fd \in Held(handles) : handles'[fd] = handles[fd]
  OBVIOUS
<1>2. DraftOf(handles', wbuf', mode') = DraftOf(handles, wbuf, mode)
  BY <1>1, SameDraft
<1> QED BY <1>2, StoreIs

(* A call that returns gives up the draft it was writing, and no other. *)
LEMMA ReturnDrops ==
  ASSUME Inv, op.busy, Return, UNCHANGED <<wbuf, mode>>
  PROVE  FileOp' = Store!NoOp /\ Draft' \in {Draft, Store!NoDraft}
<1>1. FileOp' = Store!NoOp
  BY DEF FileOp, Return, NoOp, Store!NoOp
<1>2. op \in Op /\ op.fd \in Fd \cup {NoFd}
  BY BusyOp DEF Op
<1>3. OneWriter /\ handles \in [Fd -> Handle]
  BY DEF Inv, HandlesOK
<1>4. handles' = [f \in Fd |-> IF f = op.fd THEN Closed ELSE handles[f]] /\ ~Closed.used
  BY DEF Return, Closed
<1>5. CASE op.fd = NoFd
  <2>1. \A f \in Fd : f # op.fd
    BY <1>5 DEF Fd, NoFd
  <2>2. handles' = handles
    BY <1>3, <1>4, <2>1
  <2> QED BY <1>1, <2>2, DraftKept
<1>6. CASE op.fd # NoFd
  <2>1. \A f \in Writers : f = op.fd
    BY <1>3, <1>6 DEF OneWriter
  <2>2. Held(handles') = {}
    BY <1>4, <2>1 DEF Held, Writers
  <2> QED BY <1>1, <2>2, NoDraftAt, StoreIs
<1> QED BY <1>5, <1>6

(* A sector write is progress, seen by nobody else. *)
LEMMA RefineWriteSector ==
  ASSUME Inv, WriteSector
  PROVE  StoreStep
<1> USE DEF WriteSector
<1>1. op \in Op /\ op.busy
  BY BusyOp
<1>2. op' = [op EXCEPT !.k = op.k + 1]
  OBVIOUS
<1>3. FileOp.busy /\ FileOp' = FileOp
  <2> HIDE DEF WriteSector
  <2> QED BY <1>1, <1>2 DEF FileOp, Op
<1>4. Store!MayTear
  BY TearsOnlyItself DEF SectorWritten
<1>5. Draft' = Draft
  BY DraftKept
<1>6. Store!Progress
  BY <1>3, <1>4, <1>5 DEF Store!Progress
<1> QED BY <1>6 DEF StoreStep, Store!Next

(* A disk error abandons the write and the draft it came from. *)
LEMMA RefineAtaError ==
  ASSUME Inv, AtaError
  PROVE  StoreStep
<1> USE DEF AtaError
<1>1. FileOp.busy
  BY DEF FileOp
<1>2. UNCHANGED dir /\ (UNCHANGED disk \/ SectorWritten)
  BY DEF SectorWritten
<1>3. Store!MayTear
  BY <1>2, TearsOnlyItself
<1>4. FileOp' = Store!NoOp /\ Draft' \in {Draft, Store!NoDraft}
  BY ReturnDrops
<1>5. Store!Abandon
  BY <1>1, <1>3, <1>4 DEF Store!Abandon
<1> QED BY <1>5 DEF StoreStep, Store!Next

(* A power loss ends the write and the draft and changes no file. *)
LEMMA RefinePowerLoss ==
  ASSUME Inv, PowerLoss
  PROVE  StoreStep
<1> USE DEF PowerLoss
<1>1. FileOp' = Store!NoOp
  BY DEF FileOp, NoOp, Store!NoOp
<1>2. Draft' = Store!NoDraft
  BY NoDraftAt, StoreIs
<1>3. Store!MayTear
  <2>1. Files' = Files
    BY FilesKept
  <2> QED BY <2>1 DEF Store!MayTear
<1>4. Store!PowerLoss
  BY <1>1, <1>2, <1>3 DEF Store!PowerLoss
<1> QED BY <1>4 DEF StoreStep, Store!Next

(* Starting a write touches neither the files nor the draft. *)
LEMMA RefineStart ==
  ASSUME Inv, Idle, NEW n, NEW type, NEW data, NEW fd,
         fs_write(dir, n, type, data, fd),
         UNCHANGED <<dir, disk, handles, wbuf, mode>>
  PROVE  /\ ~FileOp.busy /\ FileOp' = Store!Write(n, type, data)
         /\ Files' = Files /\ Draft' = Draft
<1>1. ~FileOp.busy
  BY DEF Idle, FileOp, NoOp
<1>2. PICK s, lba :
        op' = [busy |-> TRUE, name |-> n, type |-> type, data |-> data,
               slot |-> s, lba |-> lba, k |-> 0, fd |-> fd]
  BY DEF fs_write
<1>3. FileOp' = [busy |-> TRUE, name |-> n, type |-> type, data |-> data]
  BY <1>2 DEF FileOp
<1>4. FileOp' = Store!Write(n, type, data)
  BY <1>3 DEF Store!Write
<1> QED BY <1>1, <1>4, FilesKept, DraftKept

Without(F, n) == [m \in DOMAIN F \ {n} |-> F[m]]

(* Taking an entry out takes its file out. *)
LEMMA FileTaken ==
  ASSUME NEW d, NEW e, NEW k, Unique(d), NEW s \in Live(d), Live(e) = Live(d) \ {s},
         \A t \in Live(e) : e[t] = d[t]
  PROVE  FilesOf(e, k) = Without(FilesOf(d, k), d[s].name)
<1> DEFINE S == DOMAIN FilesOf(d, k) \ {d[s].name}
           F == [m \in S |-> FilesOf(d, k)[m]]
<1>1. \A t \in Live(d) : t \in Live(e) <=> d[t].name # d[s].name
  BY DEF Unique
<1>2. Unique(e)
  BY DEF Unique
<1>3. DOMAIN FilesOf(e, k) = S
  <2>1. DOMAIN FilesOf(d, k) = {d[t].name : t \in Live(d)}
        /\ DOMAIN FilesOf(e, k) = {e[t].name : t \in Live(e)}
    BY FileNames
  <2>2. ASSUME NEW m, m \in {e[t].name : t \in Live(e)}
        PROVE  m \in {d[t].name : t \in Live(d)} \ {d[s].name}
    BY <1>1, <2>2
  <2>3. ASSUME NEW m, m \in {d[t].name : t \in Live(d)} \ {d[s].name}
        PROVE  m \in {e[t].name : t \in Live(e)}
    <3>1. PICK t \in Live(d) : m = d[t].name
      BY <2>3
    <3>2. t \in Live(e) /\ e[t].name = m
      BY <1>1, <2>3, <3>1
    <3> QED BY <3>2
  <2> QED BY <2>1, <2>2, <2>3
<1>4. ASSUME NEW m \in S PROVE FilesOf(e, k)[m] = FilesOf(d, k)[m]
  <2>0. DOMAIN FilesOf(e, k) = {e[t].name : t \in Live(e)} /\ m \in DOMAIN FilesOf(e, k)
    BY <1>3, FileNames
  <2>1. PICK t \in Live(e) : m = e[t].name
    BY ONLY <2>0
  <2>2. FilesOf(e, k)[e[t].name] = FileOf(k, e[t])
    BY <1>2, FileAt
  <2>3. t \in Live(d) /\ e[t] = d[t]
    OBVIOUS
  <2>4. FilesOf(d, k)[d[t].name] = FileOf(k, d[t])
    BY <2>3, FileAt
  <2> QED BY <2>1, <2>2, <2>3, <2>4
<1>5. \A m \in S : FilesOf(e, k)[m] = F[m]
  BY <1>4
<1>6. F = [m \in S |-> F[m]]
  OBVIOUS
<1> HIDE DEF S, F
<1>7. FilesOf(e, k) = F
  BY <1>3, <1>5, <1>6, SameFiles
<1> QED BY <1>7 DEF S, F, Without

(* Clearing the first byte of a name deletes that file only. *)
LEMMA RefineDelete ==
  ASSUME Inv, NEW n \in Name, fs_delete(n)
  PROVE  StoreStep
<1> USE DEF fs_delete
<1>1. PICK s \in Slot : fs_find(dir, n, s) /\ dir' = [dir EXCEPT ![s].name = NoName]
  OBVIOUS
<1>2. dir \in [Slot -> Entry] /\ Unique(dir) /\ dir[s].name = n /\ n # NoName
  BY <1>1, NamesAssumption DEF Inv, DirOK, fs_find, IsMin, Named
<1>3. dir'[s].name = NoName /\ \A t \in Slot : t # s => dir'[t] = dir[t]
  BY <1>1, <1>2 DEF Entry
<1>4. PICK d : d = dir'
  OBVIOUS
<1>5. Live(d) = Live(dir) \ {s} /\ s \in Live(dir) /\ \A t \in Live(d) : d[t] = dir[t]
  BY <1>2, <1>3, <1>4 DEF Live
<1>6. /\ FilesOf(d, disk) = Without(FilesOf(dir, disk), n)
      /\ n \in DOMAIN FilesOf(dir, disk)
  <2>1. FilesOf(d, disk) = Without(FilesOf(dir, disk), dir[s].name)
    BY ONLY <1>2, <1>5, FileTaken
  <2>2. dir[s].name \in DOMAIN FilesOf(dir, disk)
    BY ONLY <1>2, <1>5, FileAt
  <2> QED BY ONLY <1>2, <2>1, <2>2
<1>7. n \in DOMAIN Files /\ Files' = Without(Files, n)
  BY <1>4, <1>6, StoreIs
<1>8. ~FileOp.busy /\ FileOp' = FileOp
  BY DEF FileOp, Idle, NoOp
<1>9. Draft' = Draft
  BY DraftKept
<1>10. Store!Delete
  BY <1>7, <1>8, <1>9 DEF Store!Delete, Without
<1> QED BY <1>10 DEF StoreStep, Store!Next

(* The calls of the shell begin writes, delete, or do nothing to the store. *)
LEMMA RefineShellCall ==
  ASSUME Inv, ShellCall
  PROVE  StoreStep
<1>1. ASSUME NEW n \in Name, NEW data \in Payloads, WriteFile(n, data) PROVE StoreStep
  <2>1. /\ ~FileOp.busy /\ FileOp' = Store!Write(n, FS_FILE, data)
        /\ Files' = Files /\ Draft' = Draft
    BY <1>1, RefineStart DEF WriteFile
  <2>2. Store!BeginWrite
    BY <2>1 DEF Store!BeginWrite, Store!Write, FS_FILE, Store!FS_FILE
  <2> QED BY <2>2 DEF StoreStep, Store!Next
<1>2. ASSUME NEW n \in Name, fs_mkdir(n) PROVE StoreStep
  <2>1. /\ ~FileOp.busy /\ FileOp' = Store!Write(n, FS_DIR, <<>>)
        /\ Files' = Files /\ Draft' = Draft
    BY <1>2, RefineStart DEF fs_mkdir
  <2>2. Store!BeginWrite
    BY <2>1 DEF Store!BeginWrite, Store!Write, FS_DIR, Store!FS_DIR
  <2> QED BY <2>2 DEF StoreStep, Store!Next
<1>3. ASSUME RunProgram PROVE StoreStep
  <2>1. UNCHANGED storeVars
    BY <1>3, DraftKept, FilesKept DEF RunProgram, storeVars, FileOp
  <2> QED BY <2>1 DEF StoreStep
<1> QED BY <1>1, <1>2, <1>3, RefineDelete DEF ShellCall

Put(F, n, f) == [m \in DOMAIN F \cup {n} |-> IF m = n THEN f ELSE F[m]]

(* An entry that is new, or takes the place of its name's old one, puts    *)
(* its file under that name.                                               *)
LEMMA FilePut ==
  ASSUME NEW d, NEW e, NEW k, Unique(d), Unique(e), NEW s \in Live(e),
         s \in Live(d) => d[s].name = e[s].name,
         \A t \in Live(e) : t # s => t \in Live(d) /\ e[t] = d[t],
         \A t \in Live(d) : t # s => t \in Live(e) /\ e[t] = d[t]
  PROVE  FilesOf(e, k) = Put(FilesOf(d, k), e[s].name, FileOf(k, e[s]))
<1> DEFINE S == DOMAIN FilesOf(d, k) \cup {e[s].name}
           F == [m \in S |-> IF m = e[s].name THEN FileOf(k, e[s]) ELSE FilesOf(d, k)[m]]
<1>0. DOMAIN FilesOf(d, k) = {d[t].name : t \in Live(d)}
      /\ DOMAIN FilesOf(e, k) = {e[t].name : t \in Live(e)}
  BY FileNames
<1>1. DOMAIN FilesOf(e, k) = S
  <2>1. ASSUME NEW m, m \in {e[t].name : t \in Live(e)}
        PROVE  m \in {d[t].name : t \in Live(d)} \cup {e[s].name}
    BY <2>1
  <2>2. ASSUME NEW m, m \in {d[t].name : t \in Live(d)} \cup {e[s].name}
        PROVE  m \in {e[t].name : t \in Live(e)}
    <3>1. CASE m = e[s].name
      BY <3>1
    <3>2. CASE m \in {d[t].name : t \in Live(d)} /\ m # e[s].name
      <4>1. PICK t \in Live(d) : m = d[t].name
        BY <3>2
      <4>2. t # s
        BY <3>2, <4>1
      <4> QED BY <4>1, <4>2
    <3> QED BY <2>2, <3>1, <3>2
  <2> QED BY <1>0, <2>1, <2>2
<1>2. ASSUME NEW m \in S PROVE FilesOf(e, k)[m] = F[m]
  <2>0. m \in DOMAIN FilesOf(e, k)
    BY <1>1
  <2>1. PICK t \in Live(e) : m = e[t].name
    BY ONLY <1>0, <2>0
  <2>2. FilesOf(e, k)[e[t].name] = FileOf(k, e[t])
    BY FileAt
  <2>3. CASE t = s
    BY <2>1, <2>2, <2>3
  <2>4. CASE t # s
    <3>1. t \in Live(d) /\ e[t] = d[t] /\ m # e[s].name
      BY <2>1, <2>4 DEF Unique
    <3>2. FilesOf(d, k)[d[t].name] = FileOf(k, d[t])
      BY <3>1, FileAt
    <3> QED BY <2>1, <2>2, <3>1, <3>2
  <2> QED BY <2>3, <2>4
<1>3. F = [m \in S |-> F[m]] /\ \A m \in S : FilesOf(e, k)[m] = F[m]
  BY <1>2
<1> HIDE DEF S, F
<1>4. FilesOf(e, k) = F
  BY <1>1, <1>3, SameFiles
<1> QED BY <1>4 DEF S, F, Put

(* The finished write's entry reads back as its data. *)
LEMMA NewContent ==
  ASSUME Inv, WroteInv, op.busy, op.k = Sectors(Len(op.data))
  PROVE  FileOf(disk, NewEntry) = [type |-> op.type, data |-> op.data]
<1>1. op \in Op /\ op.data \in Seq(Unit) /\ Len(op.data) \in Nat
  <2>1. op \in Op
    BY BusyOp
  <2> QED BY <2>1, LenProperties DEF Op
<1>2. NewEntry.size = Len(op.data) /\ NewEntry.lba = op.lba /\ NewEntry.type = op.type
  BY DEF NewEntry
<1>3. ASSUME NEW i \in 1 .. Len(op.data)
      PROVE  disk[op.lba + ((i - 1) \div SECTOR)][(i - 1) % SECTOR] = op.data[i]
  <2> DEFINE q == (i - 1) \div SECTOR
             j == (i - 1) % SECTOR
  <2>1. q \in 0 .. op.k - 1 /\ j \in 0 .. SECTOR - 1
    BY <1>1, SectorIndex
  <2>2. i - 1 \in Nat /\ SECTOR \in Nat \ {0} /\ i \in Nat /\ i <= Len(op.data)
    BY <1>1, SizeFacts
  <2>3. i - 1 = SECTOR * q + j /\ q \in Nat
    BY ONLY <2>2, DivFacts
  <2> HIDE DEF q, j
  <2>4. disk[op.lba + q] = Padded(op.data, q)
    BY <2>1 DEF WroteInv, Wrote
  <2>5. q * SECTOR + j = i - 1 /\ q * SECTOR + j + 1 = i
    BY <2>1, <2>2, <2>3
  <2>6. Padded(op.data, q)[j]
          = IF q * SECTOR + j < Len(op.data) THEN op.data[q * SECTOR + j + 1] ELSE Zero
    BY <2>1 DEF Padded
  <2>7. Padded(op.data, q)[j] = op.data[i]
    BY <1>1, <2>2, <2>5, <2>6
  <2> QED BY <2>4, <2>7 DEF q, j
<1>4. ContentOf(disk, NewEntry) = [i \in 1 .. Len(op.data) |-> op.data[i]]
  BY <1>2, <1>3 DEF ContentOf
<1>5. op.data = [i \in 1 .. Len(op.data) |-> op.data[i]]
  BY ONLY <1>1, LenProperties
<1> QED BY <1>2, <1>4, <1>5 DEF FileOf

(* Writing the entry replaces the file in one step. *)
LEMMA EntryReplaces ==
  ASSUME Inv, WroteInv, op.busy, op.k = Sectors(Len(op.data)),
         dir' = [dir EXCEPT ![op.slot] = NewEntry], UNCHANGED disk
  PROVE  FileOp.busy /\ Files' = Store!Written
<1>1. op \in Op /\ Placed(dir, op) /\ op.slot \in Slot /\ op.name \in Name
  <2>1. op \in Op /\ Placed(dir, op)
    BY BusyOp
  <2> QED BY <2>1 DEF Op
<1>2. PICK d : d = dir'
  OBVIOUS
<1>3. Unique(dir) /\ Unique(d) /\ dir \in [Slot -> Entry]
  BY <1>2, EntryFits DEF Inv, DirOK
<1>4. d[op.slot] = NewEntry /\ NewEntry.name = op.name /\ op.name # NoName
      /\ \A t \in Slot : t # op.slot => d[t] = dir[t]
  BY <1>1, <1>2, <1>3, NamesAssumption DEF NewEntry
<1>5. /\ op.slot \in Live(d) /\ (op.slot \in Live(dir) => dir[op.slot].name = op.name)
      /\ \A t \in Live(d) : t # op.slot => t \in Live(dir) /\ d[t] = dir[t]
      /\ \A t \in Live(dir) : t # op.slot => t \in Live(d) /\ d[t] = dir[t]
  BY <1>1, <1>4 DEF Live, Placed
<1>6. FilesOf(d, disk) = Put(FilesOf(dir, disk), d[op.slot].name, FileOf(disk, d[op.slot]))
  BY <1>3, <1>4, <1>5, FilePut
<1>7. Files' = Put(Files, op.name, [type |-> op.type, data |-> op.data])
  BY <1>2, <1>4, <1>6, NewContent, StoreIs
<1>8. /\ FileOp.busy /\ FileOp.name = op.name /\ FileOp.type = op.type /\ FileOp.data = op.data
  BY DEF FileOp
<1> QED BY <1>7, <1>8 DEF Put, Store!Written

(* The entry commits the write; the parent's list is the next one. *)
LEMMA RefineWriteEntry ==
  ASSUME Inv, WroteInv, WriteEntry
  PROVE  StoreStep
<1> USE DEF WriteEntry
<1>1. FileOp.busy /\ Files' = Store!Written
  BY EntryReplaces
<1>2. FileOp.name = op.name /\ op.name \in Name
  <2>1. op \in Op
    BY BusyOp
  <2> QED BY <2>1 DEF Op, FileOp
<1>3. CASE Return
  <2>1. FileOp' = Store!NoOp /\ Draft' \in {Draft, Store!NoDraft}
    BY <1>3, ReturnDrops
  <2>2. Store!Commit
    BY <1>1, <2>1 DEF Store!Commit
  <2> QED BY <2>2 DEF StoreStep, Store!Next
<1>4. CASE Parent[op.name] # NoName /\ fs_append(dir', op.name) /\ UNCHANGED handles
  <2>1. PICK d : d = dir' /\ DirOK(d)
    <3>1. PICK d : d = dir'
      OBVIOUS
    <3> QED BY <3>1, EntryFits
  <2> DEFINE p == Parent[op.name]
  <2>2. PICK s \in Slot :
          /\ fs_find(d, p, s) /\ d[s].size + 1 < DIR_BUF_SIZE
          /\ fs_write(d, p, FS_DIR, Append(Content(d[s]), op.name), op.fd)
    BY <1>4, <2>1 DEF fs_append
  <2>3. p \in Name /\ d[s].name = p /\ s \in Live(d)
    BY <1>2, <1>4, <2>2, NamesAssumption DEF fs_find, IsMin, Named, Live
  <2>4. d[s] \in Entry /\ End(d[s]) <= LAST_LBA + 1 /\ Unique(d)
    BY <2>1, <2>3 DEF DirOK, Disjoint
  <2>5. Content(d[s]) \in Seq(Unit) /\ Len(Content(d[s])) = d[s].size /\ op.name \in Unit
    BY <1>2, <2>4, ContentType DEF Inv, DiskOK, Unit
  <2>6. Files'[p].data = Content(d[s])
    <3>1. FilesOf(d, disk)[p] = FileOf(disk, d[s])
      BY <2>3, <2>4, FileAt
    <3>2. Files' = FilesOf(d, disk)
      BY <2>1, StoreIs
    <3>3. Content(d[s]) = ContentOf(disk, d[s])
      BY DEF Content, ContentOf
    <3> QED BY ONLY <3>1, <3>2, <3>3 DEF FileOf
  <2> DEFINE data == Append(Content(d[s]), op.name)
  <2>7. FileOp' = [busy |-> TRUE, name |-> p, type |-> FS_DIR, data |-> data]
    <3>1. PICK lba, t : op' = [busy |-> TRUE, name |-> p, type |-> FS_DIR, data |-> data,
                 slot |-> t, lba |-> lba, k |-> 0, fd |-> op.fd]
      BY <2>2 DEF fs_write
    <3> QED BY <3>1 DEF FileOp
  <2>8. Len(data) = d[s].size + 1
    BY <2>5, AppendProperties
  <2> HIDE DEF data
  <2>9. FileOp'.data = data
    BY <2>7
  <2>10. FileOp' = Store!Listed(Files', FileOp.name)
    BY <1>2, <2>6, <2>7 DEF Store!Listed, Store!Write, FS_DIR, Store!FS_DIR, data
  <2>11. Draft' = Draft
    BY <1>4, DraftKept
  <2>12. Store!Commit
    BY <1>1, <1>2, <1>4, <2>2, <2>8, <2>9, <2>10, <2>11 DEF Store!Commit
  <2> QED BY <2>12 DEF StoreStep, Store!Next
<1> QED BY <1>3, <1>4

-----------------------------------------------------------------------------
(* The draft                                                               *)

(* The draft of a machine that is on is its one writer's, if it has one. *)
LEMMA WriterDraft ==
  ASSUME Inv, mode \notin {"off", "halted"}, NEW fd \in Fd,
         handles[fd].used, handles[fd].writable
  PROVE  Draft = DraftFor(handles[fd], wbuf) /\ Draft.open
<1>1. fd \in Held(handles) /\ \A f, g \in Held(handles) : f = g
  BY DEF Held, Inv, HandlesOK, OneWriter, Writers
<1>2. Draft = DraftFor(handles[fd], wbuf)
  BY <1>1, DraftAt, StoreIs
<1> QED BY <1>2 DEF DraftFor

(* The same for a writer h that takes the place of handle fd, the only one *)
(* that may be writable.                                                   *)
LEMMA WriterDraftNext ==
  ASSUME handles \in [Fd -> Handle], mode' \notin {"off", "halted"}, NEW fd \in Fd, NEW h,
         handles' = [handles EXCEPT ![fd] = h], h.used, h.writable,
         \A f \in Writers : f = fd
  PROVE  Draft' = DraftFor(h, wbuf')
<1>1. handles'[fd] = h /\ \A f \in Fd : f # fd => handles'[f] = handles[f]
  OBVIOUS
<1>2. Held(handles') = {fd}
  BY <1>1 DEF Held, Writers
<1>3. \A f, g \in Held(handles') : f = g
  BY <1>2
<1>4. DraftOf(handles', wbuf', mode') = DraftFor(handles'[fd], wbuf')
  BY <1>2, <1>3, DraftAt
<1> QED BY <1>1, <1>4, StoreIs

(* A handle that cannot be written through is no draft's. *)
LEMMA ReaderDraft ==
  ASSUME handles \in [Fd -> Handle], NEW fd \in Fd, NEW h,
         handles' = [handles EXCEPT ![fd] = h], fd \notin Writers,
         ~(h.used /\ h.writable), UNCHANGED <<wbuf, mode>>
  PROVE  Draft' = Draft
<1>1. handles'[fd] = h /\ \A f \in Fd : f # fd => handles'[f] = handles[f]
  OBVIOUS
<1>2. Held(handles') = Held(handles) /\ \A f \in Held(handles) : handles'[f] = handles[f]
  BY <1>1 DEF Held, Writers
<1>3. wbuf' = wbuf /\ (mode \in {"off", "halted"} <=> mode' \in {"off", "halted"})
  OBVIOUS
<1>4. DraftOf(handles', wbuf', mode') = DraftOf(handles, wbuf, mode)
  BY ONLY <1>2, <1>3, SameDraft
<1> QED BY <1>4, StoreIs

Drawn(n, p, data) == [open |-> TRUE, name |-> n, pos |-> p, data |-> data]
MovedTo(r, q) == [r EXCEPT !.pos = q]
Filled(r, e, q) == [r EXCEPT !.data = e, !.pos = q]

(* A draft with a new position, and with new data too. *)
LEMMA EditedDraft ==
  ASSUME NEW n, NEW p, NEW data, NEW q, NEW e, NEW r, r = Drawn(n, p, data)
  PROVE  MovedTo(r, q) = Drawn(n, q, data) /\ Filled(r, e, q) = Drawn(n, q, e)
<1>1. PICK b : b = TRUE
  OBVIOUS
<1>2. r = [open |-> b, name |-> n, pos |-> p, data |-> data]
  BY <1>1 DEF Drawn
<1>3. [r EXCEPT !.pos = q] = [open |-> b, name |-> n, pos |-> q, data |-> data]
  BY ONLY <1>2
<1>4. PICK f : f = [r EXCEPT !.data = e]
  OBVIOUS
<1>5. f = [open |-> b, name |-> n, pos |-> p, data |-> e]
  BY ONLY <1>2, <1>4
<1>6. [f EXCEPT !.pos = q] = [open |-> b, name |-> n, pos |-> q, data |-> e]
  BY ONLY <1>5
<1>7. Filled(r, e, q) = [f EXCEPT !.pos = q]
  BY ONLY <1>4 DEF Filled
<1> QED BY ONLY <1>1, <1>3, <1>6, <1>7 DEF Drawn, MovedTo

(* Moving a handle moves its draft, if it has one. *)
LEMMA RefineMove ==
  ASSUME Inv, Idle, mode = "user", NEW fd \in Fd, handles[fd].used, NEW o,
         handles' = [handles EXCEPT ![fd].offset = o],
         UNCHANGED <<dir, disk, op, wbuf, mode>>
  PROVE  StoreStep
<1> DEFINE e == handles[fd]
           h == [e EXCEPT !.offset = o]
<1>1. handles \in [Fd -> Handle] /\ e \in Handle /\ \A f, g \in Writers : f = g
  BY DEF Inv, HandlesOK, OneWriter
<1>2. handles' = [handles EXCEPT ![fd] = h]
  BY <1>1
<1>3. h.used = e.used /\ h.writable = e.writable /\ h.name = e.name /\ h.wlen = e.wlen
      /\ h.offset = o
  BY <1>1 DEF Handle
<1> HIDE DEF h
<1>4. Files' = Files /\ FileOp' = FileOp /\ ~FileOp.busy
  BY FilesKept DEF FileOp, Idle, NoOp
<1>5. CASE e.writable
  <2>1. Draft = DraftFor(e, wbuf) /\ Draft.open
    BY <1>5, WriterDraft
  <2>2. \A f \in Writers : f = fd
    BY <1>1, <1>5 DEF Writers
  <2>3. Draft' = DraftFor(h, wbuf')
    BY <1>1, <1>2, <1>3, <1>5, <2>2, WriterDraftNext
  <2>4. PICK r, v, data : r = Draft /\ v = Draft' /\ data = [i \in 1 .. e.wlen |-> wbuf[i - 1]]
    OBVIOUS
  <2>5. r = Drawn(e.name, e.offset, data)
    BY <2>1, <2>4 DEF DraftFor, Drawn
  <2>6. v = Drawn(e.name, o, data)
    BY <1>3, <2>3, <2>4 DEF DraftFor, Drawn
  <2>7. MovedTo(r, o) = Drawn(e.name, o, data)
    BY ONLY <2>5, EditedDraft
  <2>8. v.pos = o /\ v.open
    BY ONLY <2>6 DEF Drawn
  <2>9. v = MovedTo(r, v.pos)
    BY ONLY <2>6, <2>7, <2>8
  <2>10. Store!Edit
    BY <1>4, <2>1, <2>4, <2>8, <2>9 DEF Store!Edit, MovedTo
  <2> QED BY <2>10 DEF StoreStep, Store!Next
<1>6. CASE ~e.writable
  <2>1. Draft' = Draft
    BY <1>1, <1>2, <1>3, <1>6, ReaderDraft DEF Writers
  <2> QED BY <1>4, <2>1 DEF StoreStep, storeVars
<1> QED BY <1>5, <1>6

(* Reading moves at most the draft's position. *)
LEMMA RefineRead ==
  ASSUME Inv, NEW fd \in Fd, NEW n \in 1 .. FD_BUF_SIZE, fs_read_fd(fd, n)
  PROVE  StoreStep
<1>1. PICK o : handles' = [handles EXCEPT ![fd].offset = o]
  BY DEF fs_read_fd
<1> QED BY <1>1, RefineMove DEF fs_read_fd

(* So does seeking. *)
LEMMA RefineSeek ==
  ASSUME Inv, NEW fd \in Fd, NEW off \in Int, fs_seek(fd, off)
  PROVE  StoreStep
<1>1. PICK o : handles' = [handles EXCEPT ![fd].offset = o]
  BY DEF fs_seek
<1> QED BY <1>1, RefineMove DEF fs_seek

(* The first n units of buffer w, as a sequence. *)
Buffered(w, n) == [i \in 1 .. n |-> w[i - 1]]

(* Buffer v differs from w at most where n units were stored at pos, and   *)
(* has zeros from the old length on.                                       *)
StoredOnly(w, v, pos, n, len, top) ==
  \A i \in 1 .. top :
    ~(pos < i /\ i <= pos + n) => v[i - 1] = IF i <= len THEN w[i - 1] ELSE Zero

StoredAt(buf, pos, data) == Store!Stored(buf, pos, data)

(* What the buffer holds after data of n units is stored at pos. *)
LEMMA StoredIs ==
  ASSUME NEW w, NEW v, NEW pos \in Nat, NEW n \in Nat, NEW len \in Nat, NEW top \in Nat,
         pos + n <= top, len <= top, top = pos + n \/ top = len,
         NEW buf \in Seq(Unit), buf = Buffered(w, len),
         NEW data \in Seq(Unit), data = Buffered(v, top),
         StoredOnly(w, v, pos, n, len, top)
  PROVE  /\ Len(data) = top
         /\ StoredAt(buf, pos, SubSeq(data, pos + 1, pos + n)) = data
<1> DEFINE sub == SubSeq(data, pos + 1, pos + n)
<1>0. buf = [i \in 1 .. len |-> w[i - 1]] /\ data = [i \in 1 .. top |-> v[i - 1]]
  BY DEF Buffered
<1>1. Len(buf) = len /\ Len(data) = top
  BY <1>0, LenProperties
<1>2. Len(sub) = n /\ \A j \in 1 .. n : sub[j] = data[pos + j]
  <2>1. \A i \in pos + 1 .. pos + n : data[i] \in Unit
    BY <1>1, ElementOfSeq
  <2>2. /\ Len(sub) = IF pos + 1 <= pos + n THEN (pos + n) - (pos + 1) + 1 ELSE 0
        /\ \A i \in 1 .. (pos + n) - (pos + 1) + 1 : sub[i] = data[(pos + 1) + i - 1]
    <3>1. PICK a \in Int, b \in Int : a = pos + 1 /\ b = pos + n
      OBVIOUS
    <3>2. /\ Len(SubSeq(data, a, b)) = IF a <= b THEN b - a + 1 ELSE 0
          /\ \A i \in 1 .. b - a + 1 : SubSeq(data, a, b)[i] = data[a + i - 1]
      <4>1. \A i \in a .. b : data[i] \in Unit
        BY <2>1, <3>1
      <4> QED BY ONLY <4>1, SubSeqProperties
    <3> QED BY ONLY <3>1, <3>2
  <2> HIDE DEF sub
  <2>3. /\ (IF pos + 1 <= pos + n THEN (pos + n) - (pos + 1) + 1 ELSE 0) = n
        /\ (pos + n) - (pos + 1) + 1 = n
    OBVIOUS
  <2>4. ASSUME NEW j \in 1 .. n PROVE sub[j] = data[pos + j]
    <3>1. (pos + 1) + j - 1 = pos + j /\ j \in 1 .. (pos + n) - (pos + 1) + 1
      BY <2>3
    <3>2. sub[j] = data[(pos + 1) + j - 1]
      BY <2>2, <3>1
    <3> QED BY <3>1, <3>2
  <2> QED BY <2>2, <2>3, <2>4
<1> HIDE DEF sub
<1>3. ASSUME NEW i \in 1 .. top
      PROVE  data[i] = IF i > pos /\ i <= pos + n THEN sub[i - pos]
                       ELSE IF i <= len THEN buf[i] ELSE Zero
  <2>1. CASE i > pos /\ i <= pos + n
    <3>1. i - pos \in 1 .. n /\ pos + (i - pos) = i
      BY <2>1
    <3> QED BY <1>2, <2>1, <3>1
  <2>2. CASE ~(i > pos /\ i <= pos + n)
    <3>1. data[i] = v[i - 1] /\ (i <= len => buf[i] = w[i - 1])
      BY <1>0
    <3> QED BY <2>2, <3>1 DEF StoredOnly
  <2> QED BY <2>1, <2>2
<1>4. Store!Stored(buf, pos, sub)
        = [i \in 1 .. top |-> IF i > pos /\ i <= pos + n THEN sub[i - pos]
                              ELSE IF i <= len THEN buf[i] ELSE Zero]
  BY <1>1, <1>2 DEF Store!Stored
<1>5. data = [i \in 1 .. top |-> data[i]]
  BY <1>1, LenProperties
<1>6. Store!Stored(buf, pos, sub) = data
  BY ONLY <1>3, <1>4, <1>5
<1> QED BY <1>1, <1>6 DEF sub, StoredAt

(* The first units of the buffer are a sequence of units. *)
LEMMA BufferSeq ==
  ASSUME NEW w \in [0 .. FD_BUF_SIZE - 1 -> Unit], NEW n \in 0 .. FD_BUF_SIZE
  PROVE  Buffered(w, n) \in Seq(Unit)
<1>1. n \in Nat /\ \A i \in 1 .. n : i - 1 \in 0 .. FD_BUF_SIZE - 1
  BY SizeFacts
<1>2. \A i \in 1 .. n : w[i - 1] \in Unit
  BY <1>1
<1> QED BY <1>1, <1>2, IsASeq DEF Buffered

(* Data stored through the writable handle is stored in the draft. *)
LEMMA RefineWriteFd ==
  ASSUME Inv, NEW fd \in Fd, NEW put \in Seq(Unit), fs_write_fd(fd, put)
  PROVE  StoreStep
<1> DEFINE e == handles[fd]
           end == e.offset + Len(put)
           top == IF end > e.wlen THEN end ELSE e.wlen
           h == [e EXCEPT !.offset = end, !.wlen = top]
<1>1. handles \in [Fd -> Handle] /\ e \in Handle /\ \A f, g \in Writers : f = g
  BY DEF Inv, HandlesOK, OneWriter
<1>2. /\ mode = "user" /\ e.used /\ e.writable /\ Idle /\ end <= FD_BUF_SIZE
      /\ UNCHANGED <<dir, disk, op, mode>>
      /\ wbuf' = [i \in 0 .. FD_BUF_SIZE - 1 |->
                    IF e.offset <= i /\ i < end THEN put[i - e.offset + 1]
                    ELSE IF e.wlen <= i /\ i < e.offset THEN Zero
                    ELSE wbuf[i]]
  BY DEF fs_write_fd
<1>3. handles' = [handles EXCEPT ![fd] = h]
  BY <1>1 DEF fs_write_fd
<1>4. /\ e.offset \in Nat /\ e.wlen \in 0 .. FD_BUF_SIZE /\ Len(put) \in Nat
      /\ FD_BUF_SIZE \in Nat /\ e.wlen \in Nat
  BY <1>1, LenProperties, SizeFacts DEF Handle
<1>5. PICK pos \in Nat, n \in Nat, t \in Nat :
        pos = e.offset /\ n = Len(put) /\ t = top /\ t \in 0 .. FD_BUF_SIZE
        /\ t = (IF pos + n > e.wlen THEN pos + n ELSE e.wlen) /\ pos + n <= FD_BUF_SIZE
        /\ pos + n = end
  BY <1>2, <1>4
<1>6. h.used /\ h.writable /\ h.name = e.name /\ h.wlen = t /\ h.offset = pos + n
  BY <1>1, <1>2, <1>5 DEF Handle
<1> HIDE DEF h, end, top
<1>7. wbuf \in [0 .. FD_BUF_SIZE - 1 -> Unit] /\ wbuf' \in [0 .. FD_BUF_SIZE - 1 -> Unit]
  BY StepWriteFd DEF Inv, RestOK
<1>8. PICK r, v, w1, w2, len :
        r = Draft /\ v = Draft' /\ w1 = wbuf /\ w2 = wbuf' /\ len = e.wlen
  OBVIOUS
<1>9. PICK buf \in Seq(Unit), data \in Seq(Unit) :
        buf = Buffered(w1, len) /\ data = Buffered(w2, t)
  <2>1. len \in 0 .. FD_BUF_SIZE /\ t \in 0 .. FD_BUF_SIZE
        /\ w1 \in [0 .. FD_BUF_SIZE - 1 -> Unit] /\ w2 \in [0 .. FD_BUF_SIZE - 1 -> Unit]
    BY <1>4, <1>5, <1>7, <1>8
  <2> QED BY ONLY <2>1, BufferSeq
<1>10. Draft.open /\ r = Drawn(e.name, pos, buf)
  <2>1. Draft = DraftFor(e, wbuf) /\ Draft.open
    BY <1>2, WriterDraft
  <2> QED BY <1>5, <1>8, <1>9, <2>1 DEF DraftFor, Drawn, Buffered
<1>11. v = Drawn(e.name, pos + n, data)
  <2>1. \A f \in Writers : f = fd
    BY <1>1, <1>2 DEF Writers
  <2>2. Draft' = DraftFor(h, wbuf')
    BY <1>1, <1>2, <1>3, <1>6, <2>1, WriterDraftNext
  <2> QED BY <1>6, <1>8, <1>9, <2>2 DEF DraftFor, Drawn, Buffered
<1>12. StoredOnly(w1, w2, pos, n, len, t)
  <2>0. len \in Nat /\ len = e.wlen
    BY <1>4, <1>8
  <2>1. ASSUME NEW i \in 1 .. t, ~(pos < i /\ i <= pos + n)
        PROVE  w2[i - 1] = IF i <= len THEN w1[i - 1] ELSE Zero
    <3>1. i \in Nat /\ 1 <= i /\ i <= FD_BUF_SIZE /\ (i <= pos + n \/ i <= len)
      BY <1>4, <1>5, <2>0
    <3> HIDE DEF e
    <3>2. i - 1 \in 0 .. FD_BUF_SIZE - 1
      BY ONLY <1>4, <3>1
    <3>3. ~(pos <= i - 1 /\ i - 1 < pos + n)
      BY ONLY <2>1, <3>1
    <3>4. (len <= i - 1 /\ i - 1 < pos) <=> ~(i <= len)
      BY ONLY <2>0, <2>1, <3>1
    <3> QED BY <1>2, <1>5, <1>8, <2>0, <3>2, <3>3, <3>4
  <2> QED BY <2>1 DEF StoredOnly
<1> DEFINE stored == StoredAt(buf, pos, SubSeq(data, pos + 1, pos + n))
<1>13. Len(data) = t /\ stored = data
  <2>1. len \in Nat /\ pos + n <= t /\ len <= t /\ (t = pos + n \/ t = len)
    BY <1>4, <1>5, <1>8
  <2> HIDE DEF e
  <2> QED BY ONLY <1>9, <1>12, <2>1, StoredIs
<1>14. Filled(r, stored, pos + n) = v
  <2> HIDE DEF stored
  <2> QED BY <1>10, <1>11, <1>13, EditedDraft
<1>15. r.pos = pos /\ r.data = buf /\ v.open /\ v.data = data
  BY ONLY <1>10, <1>11 DEF Drawn
<1>16. v = [r EXCEPT !.data = Store!Stored(r.data, r.pos, SubSeq(v.data, r.pos + 1, r.pos + n)),
                     !.pos = r.pos + n]
  BY ONLY <1>14, <1>15 DEF Filled, StoredAt
<1>17. n \in 0 .. FD_BUF_SIZE - r.pos /\ Len(v.data) \in r.pos + n .. FD_BUF_SIZE
  <2>1. pos + n <= t /\ t <= FD_BUF_SIZE /\ FD_BUF_SIZE \in Nat
    <3> HIDE DEF e, stored
    <3> QED BY <1>4, <1>5
  <2>2. Len(v.data) = t
    <3>1. Len(data) = t
      BY ONLY <1>13
    <3> QED BY ONLY <1>15, <3>1
  <2>3. r.pos = pos
    BY ONLY <1>15
  <2>4. n \in 0 .. FD_BUF_SIZE - pos /\ t \in pos + n .. FD_BUF_SIZE
    BY ONLY <2>1
  <2> QED BY ONLY <2>2, <2>3, <2>4
<1>18. Files' = Files /\ FileOp' = FileOp /\ ~FileOp.busy
  BY <1>2, FilesKept DEF FileOp, Idle, NoOp
<1>19. Store!Edit
  BY <1>8, <1>10, <1>15, <1>16, <1>17, <1>18 DEF Store!Edit
<1> QED BY <1>19 DEF StoreStep, Store!Next

(* The buffer after a file was loaded begins with that file. *)
LEMMA LoadedIs ==
  ASSUME NEW old \in Seq(Unit), Len(old) <= FD_BUF_SIZE, NEW w, w = Loaded(old)
  PROVE  [i \in 1 .. Len(old) |-> w[i - 1]] = old
<1>1. Len(old) \in Nat /\ old = [i \in 1 .. Len(old) |-> old[i]]
  BY LenProperties
<1>2. ASSUME NEW i \in 1 .. Len(old) PROVE w[i - 1] = old[i]
  <2>1. i - 1 \in 0 .. FD_BUF_SIZE - 1 /\ i - 1 < Len(old) /\ (i - 1) + 1 = i
    BY <1>1, SizeFacts
  <2> QED BY <2>1 DEF Loaded
<1> QED BY <1>1, <1>2

(* What fs_open found under a name is that name's file, or nothing. *)
LEMMA FoundIs ==
  ASSUME Inv, NEW n \in Name, NEW e, Lookup(n, e)
  PROVE  Content(e) \in {<<>>} \cup {Files[m].data : m \in DOMAIN Files \cap {n}}
<1>1. CASE e = NoEntry
  <2>1. Content(e) = [i \in 1 .. 0 |-> disk[e.lba + ((i - 1) \div SECTOR)][(i - 1) % SECTOR]]
    BY <1>1 DEF Content, NoEntry
  <2>2. e \in Entry /\ End(e) <= LAST_LBA + 1 /\ e.size = 0
    BY <1>1, LookupType DEF NoEntry
  <2>3. Content(e) \in Seq(Unit) /\ Len(Content(e)) = 0
    BY <2>2, ContentType DEF Inv, DiskOK
  <2>4. Content(e) = <<>>
    BY ONLY <2>3, EmptySeq
  <2> QED BY <2>4
<1>2. CASE \E s \in Slot : fs_find(dir, n, s) /\ e = dir[s]
  <2>1. PICK s \in Slot : fs_find(dir, n, s) /\ e = dir[s]
    BY <1>2
  <2>2. s \in Live(dir) /\ e.name = n /\ Unique(dir)
    BY <2>1, NamesAssumption DEF fs_find, IsMin, Named, Live, Inv, DirOK
  <2>3. n \in DOMAIN FilesOf(dir, disk) /\ FilesOf(dir, disk)[n] = FileOf(disk, e)
    BY <2>1, <2>2, FileAt
  <2>4. Content(e) = ContentOf(disk, e)
    BY DEF Content, ContentOf
  <2>5. n \in DOMAIN Files /\ Files[n].data = Content(e)
    BY <2>3, <2>4, StoreIs DEF FileOf
  <2> QED BY <2>5
<1> QED BY <1>1, <1>2 DEF Lookup

(* Opening for writing starts a draft from the file, or from nothing; any  *)
(* other open leaves the store as it is.                                   *)
LEMMA RefineOpen ==
  ASSUME Inv, NEW n \in Name, NEW flags \in OpenFlags, fs_open(n, flags)
  PROVE  StoreStep
<1>1. /\ Idle /\ mode = "user" /\ UNCHANGED <<dir, disk, op, mode>>
      /\ handles \in [Fd -> Handle]
  BY DEF fs_open, Inv, HandlesOK
<1>2. PICK fd \in Fd, e \in {dir[s] : s \in Slot} \cup {NoEntry} :
        /\ Lookup(n, e)
        /\ IsMin(fd, {f \in Fd : ~handles[f].used})
        /\ IF "write" \in flags THEN OpenWrite(fd, n, e, flags) ELSE OpenRead(fd, n, e)
  BY DEF fs_open
<1>3. e \in Entry /\ End(e) <= LAST_LBA + 1 /\ ~handles[fd].used
  BY <1>2, LookupType DEF IsMin
<1>4. Files' = Files /\ FileOp' = FileOp /\ ~FileOp.busy
  BY <1>1, FilesKept DEF FileOp, Idle, NoOp
<1>5. CASE "write" \notin flags
  <2>1. PICK h : h = [used |-> TRUE, writable |-> FALSE, name |-> n, lba |-> e.lba,
                      size |-> e.size, wlen |-> 0, offset |-> 0]
    OBVIOUS
  <2>2. handles' = [handles EXCEPT ![fd] = h] /\ wbuf' = wbuf /\ ~h.writable
    BY <1>2, <1>5, <2>1 DEF OpenRead
  <2>3. Draft' = Draft
    BY <1>1, <1>3, <2>2, ReaderDraft DEF Writers
  <2> QED BY <1>4, <2>3 DEF StoreStep, storeVars
<1>6. CASE "write" \in flags
  <2>1. PICK old : old = IF "trunc" \in flags THEN <<>> ELSE Content(e)
    OBVIOUS
  <2>2. old \in Seq(Unit) /\ old \in {<<>>} \cup {Files[m].data : m \in DOMAIN Files \cap {n}}
    <3>1. Content(e) \in Seq(Unit) /\ << >> \in Seq(Unit)
      BY <1>3, ContentType, EmptySeq DEF Inv, DiskOK
    <3> QED BY <1>2, <2>1, <3>1, FoundIs
  <2>3. PICK pos : pos = IF "append" \in flags THEN Len(old) ELSE 0
    OBVIOUS
  <2>4. PICK h : h = [used |-> TRUE, writable |-> TRUE, name |-> n, lba |-> DATA_LBA,
                      size |-> 0, wlen |-> Len(old), offset |-> pos]
    OBVIOUS
  <2>5. /\ Writers = {} /\ Len(old) <= FD_BUF_SIZE
        /\ \/ wbuf' = Loaded(old) /\ handles' = [handles EXCEPT ![fd] = h]
           \/ UNCHANGED handles
    BY <1>2, <1>6, <2>1, <2>3, <2>4 DEF OpenWrite
  <2>6. Draft = Store!NoDraft
    BY <2>5, NoDraftAt, StoreIs DEF Held, Writers
  <2>7. CASE UNCHANGED handles
    <3>1. Draft' = Store!NoDraft
      BY <2>5, <2>7, NoDraftAt, StoreIs DEF Held, Writers
    <3> QED BY <1>4, <2>6, <3>1 DEF StoreStep, storeVars
  <2>8. CASE wbuf' = Loaded(old) /\ handles' = [handles EXCEPT ![fd] = h]
    <3>1. h.used /\ h.writable /\ h.name = n /\ h.wlen = Len(old) /\ h.offset = pos
      BY <2>4
    <3>2. Draft' = DraftFor(h, wbuf')
      BY <1>1, <2>5, <2>8, <3>1, WriterDraftNext
    <3>3. PICK v, w : v = Draft' /\ w = wbuf' /\ w = Loaded(old)
      BY <2>8
    <3>4. [i \in 1 .. Len(old) |-> w[i - 1]] = old
      BY <2>2, <2>5, <3>3, LoadedIs
    <3>5. v = [open |-> TRUE, name |-> n, pos |-> pos, data |-> old]
      BY <3>1, <3>2, <3>3, <3>4 DEF DraftFor
    <3>6. v.open /\ v.name = n /\ v.pos = pos /\ v.data = old
      BY ONLY <3>5
    <3>7. v.pos \in {0, Len(v.data)}
      BY <2>3, <3>6
    <3>8. ~Draft.open
      BY <2>6 DEF Store!NoDraft
    <3>9. Store!Open
      BY <1>4, <2>2, <3>3, <3>6, <3>7, <3>8 DEF Store!Open
    <3> QED BY <3>9 DEF StoreStep, Store!Next
  <2> QED BY <2>5, <2>7, <2>8
<1> QED BY <1>5, <1>6

(* Closing a writable handle starts the write of its draft, or loses it. *)
LEMMA RefineClose ==
  ASSUME Inv, NEW fd \in Fd, fs_close(fd)
  PROVE  StoreStep
<1>1. /\ Idle /\ mode \in {"user", "closing"} /\ handles[fd].used
      /\ UNCHANGED <<dir, disk, wbuf, mode>> /\ handles \in [Fd -> Handle]
  BY DEF fs_close, Inv, HandlesOK
<1>2. CASE handles[fd].writable /\ UNCHANGED handles
           /\ fs_write(dir, handles[fd].name, FS_FILE,
                       [i \in 1 .. handles[fd].wlen |-> wbuf[i - 1]], fd)
  <2>1. PICK e, data : e = handles[fd] /\ data = [i \in 1 .. handles[fd].wlen |-> wbuf[i - 1]]
    OBVIOUS
  <2>2. Draft = DraftFor(handles[fd], wbuf) /\ Draft.open
    BY <1>1, <1>2, WriterDraft
  <2>3. Draft.name = e.name /\ Draft.data = data
    BY <2>1, <2>2 DEF DraftFor
  <2>4. /\ ~FileOp.busy /\ FileOp' = Store!Write(e.name, FS_FILE, data)
        /\ Files' = Files /\ Draft' = Draft
    <3>1. fs_write(dir, e.name, FS_FILE, data, fd)
      BY <1>2, <2>1
    <3> QED BY <1>1, <1>2, <3>1, RefineStart
  <2>5. Store!BeginFlush
    BY <2>2, <2>3, <2>4 DEF Store!BeginFlush, FS_FILE, Store!FS_FILE
  <2> QED BY <2>5 DEF StoreStep, Store!Next
<1>3. CASE handles' = [handles EXCEPT ![fd] = Closed] /\ UNCHANGED op
  <2>1. Files' = Files /\ FileOp' = FileOp /\ ~FileOp.busy
    BY <1>1, <1>3, FilesKept DEF FileOp, Idle, NoOp
  <2>2. ~Closed.used
    BY DEF Closed
  <2>3. CASE fd \in Writers
    <3>1. \A f \in Writers : f = fd
      BY <2>3 DEF Inv, HandlesOK, OneWriter
    <3>2. Held(handles') = {}
      BY <1>1, <1>3, <2>2, <3>1 DEF Held, Writers
    <3>3. Draft' = Store!NoDraft
      BY <3>2, NoDraftAt, StoreIs
    <3>4. Store!Drop
      BY <2>1, <3>3 DEF Store!Drop
    <3> QED BY <3>4 DEF StoreStep, Store!Next
  <2>4. CASE fd \notin Writers
    <3>1. Draft' = Draft
      BY <1>1, <1>3, <2>2, <2>4, ReaderDraft
    <3> QED BY <2>1, <3>1 DEF StoreStep, storeVars
  <2> QED BY <2>3, <2>4
<1> QED BY <1>2, <1>3 DEF fs_close

(* A system call that halts the machine drops the draft. *)
LEMMA RefineExit ==
  ASSUME Inv, Exit
  PROVE  StoreStep
<1> USE DEF Exit
<1>1. Files' = Files /\ FileOp' = FileOp /\ ~FileOp.busy
  BY FilesKept DEF FileOp, Idle, NoOp
<1>2. CASE mode' = "closing"
  <2>1. Draft' = Draft
    BY <1>2, DraftKept
  <2> QED BY <1>1, <2>1 DEF StoreStep, storeVars
<1>3. CASE mode' = "halted"
  <2>1. Draft' = Store!NoDraft
    BY <1>3, NoDraftAt, StoreIs
  <2>2. Store!Drop
    BY <1>1, <2>1 DEF Store!Drop
  <2> QED BY <2>2 DEF StoreStep, Store!Next
<1> QED BY <1>2, <1>3

(* The calls of a program on files are steps of the store. *)
LEMMA RefineFileCall ==
  ASSUME Inv, FileCall
  PROVE  StoreStep
<1>1. ASSUME NEW fd \in Fd, NEW data \in Payloads, fs_write_fd(fd, data) PROVE StoreStep
  <2>1. data \in Seq(Unit)
    BY NamesAssumption
  <2> QED BY <1>1, <2>1, RefineWriteFd
<1>2. ASSUME NEW fd \in Fd, NEW off \in -MAX_OFFSET .. MAX_OFFSET, fs_seek(fd, off)
      PROVE  StoreStep
  <2>1. off \in Int
    BY SizeFacts DEF MAX_OFFSET
  <2> QED BY <1>2, <2>1, RefineSeek
<1> QED BY <1>1, <1>2, RefineOpen, RefineRead, RefineClose, RefineExit DEF FileCall, UserClose

(* The end of fs_close_all, and a boot, which finds no handle open. *)
LEMMA RefineRest ==
  ASSUME Inv, fs_close_all \/ fs_mount \/ UNCHANGED vars
  PROVE  StoreStep
<1>1. CASE \E fd \in Fd : fs_close(fd)
  BY <1>1, RefineClose
<1>2. CASE mode = "closing" /\ mode' = "shell" /\ UNCHANGED <<dir, disk, op, handles, wbuf, calls>>
  <2>1. UNCHANGED storeVars
    BY <1>2, DraftKept, FilesKept DEF storeVars, FileOp
  <2> QED BY <2>1 DEF StoreStep
<1>3. CASE fs_mount
  <2>1. Held(handles') = {}
    BY <1>3 DEF fs_mount, Held, Closed
  <2>2. Draft = Store!NoDraft /\ Draft' = Store!NoDraft
    BY <1>3, <2>1, NoDraftAt, StoreIs DEF fs_mount
  <2>3. Files' = Files /\ FileOp' = FileOp
    BY <1>3, FilesKept DEF fs_mount, FileOp
  <2> QED BY <2>2, <2>3 DEF StoreStep, storeVars
<1>4. CASE UNCHANGED vars
  <2>1. UNCHANGED storeVars
    BY <1>4, DraftKept, FilesKept DEF vars, storeVars, FileOp
  <2> QED BY <2>1 DEF StoreStep
<1> QED BY <1>1, <1>2, <1>3, <1>4 DEF fs_close_all

(* Whatever the kernel does is a step of the store, or none. *)
LEMMA RefineNext ==
  ASSUME Inv, WroteInv, [Next]_vars
  PROVE  [Store!Next]_storeVars
<1>1. CASE DiskStep
  BY <1>1, RefineWriteSector, RefineWriteEntry, RefineAtaError DEF DiskStep, StoreStep
<1>2. CASE ShellCall
  BY <1>2, RefineShellCall DEF StoreStep
<1>3. CASE FileCall
  BY <1>3, RefineFileCall DEF StoreStep
<1>4. CASE PowerLoss
  BY <1>4, RefinePowerLoss DEF StoreStep
<1>5. CASE fs_close_all \/ fs_mount \/ UNCHANGED vars
  BY <1>5, RefineRest DEF StoreStep
<1> QED BY <1>1, <1>2, <1>3, <1>4, <1>5 DEF Next

(* The seeded disk is a store with no write and no draft. *)
LEMMA RefineInit ==
  ASSUME Init
  PROVE  Store!Init /\ WroteInv
<1>1. Inv
  BY InitInv
<1>2. DOMAIN Files \subseteq Name
  <2>1. DOMAIN Files = {dir[s].name : s \in Live(dir)}
    BY StoreIs, FileNames
  <2>2. \A s \in Live(dir) : dir[s].name \in Name
    BY <1>1 DEF Inv, DirOK, Live, Entry
  <2> QED BY <2>1, <2>2
<1>3. FileOp = Store!NoOp /\ WroteInv
  BY DEF Init, FileOp, NoOp, Store!NoOp, WroteInv, Wrote
<1>4. Draft = Store!NoDraft
  <2>1. Held(handles) = {}
    BY DEF Init, Held, Closed
  <2> QED BY <2>1, NoDraftAt, StoreIs
<1> QED BY <1>2, <1>3, <1>4 DEF Store!Init

(* The sectors, slots, handles and the write buffer of fs.c implement the  *)
(* store of files its callers see, whatever fails and whenever power is    *)
(* lost.                                                                   *)
THEOREM StoreRefined == Spec => ImplementsFileStore
<1>1. Inv /\ WroteInv /\ [Next]_vars => [Store!Next]_storeVars
  BY RefineNext
<1>2. Init => Store!Init /\ WroteInv
  BY RefineInit
<1>3. Inv /\ WroteInv /\ [Next]_vars => WroteInv'
  BY NextWrote
<1> QED BY <1>1, <1>2, <1>3, AlwaysInv, PTL
  DEF Spec, ImplementsFileStore, Store!Spec, Store!vars, storeVars

=============================================================================
