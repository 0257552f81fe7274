--------------------------------- MODULE Fs ---------------------------------
(***************************************************************************)
(* The LUNFS1 filesystem of src/src/drivers/fs.c: a directory of slots,    *)
(* files in contiguous sectors, writes that go sector by sector to the     *)
(* disk and then to the directory, the list of children a directory keeps, *)
(* and the open file handles with their one write buffer.                  *)
(*                                                                         *)
(* The kernel makes one call at a time.  What makes the order of the       *)
(* sector writes matter is that each may fail, and that the machine may    *)
(* lose power between any two of them.                                     *)
(*                                                                         *)
(* Contents are sequences of units, SECTOR of them to a sector.  A line    *)
(* of a directory's list, a child's path, is one unit.                     *)
(***************************************************************************)
EXTENDS Integers, Sequences

CONSTANTS
  Name,           \* the paths in use, shorter than FS_MAX_NAME
  NoName,         \* the empty name: a free slot, or no parent
  Parent,         \* parent_of: the directory part of a path, or NoName
  Data, Zero,     \* units a program writes, and the padding
  SECTOR,         \* units in a sector (512 bytes)
  SLOTS,          \* slots of the directory (FS_DIR_SECTORS * 16)
  DATA_LBA,       \* first data sector
  LAST_LBA,       \* last sector of the disk
  DIR_BUF_SIZE,   \* units fs_append can hold
  FD_BUF_SIZE,    \* units of wbuf
  FS_MAX_OPEN,    \* number of handles
  Payloads,       \* what programs and the shell write
  OpenFlags,      \* the flag sets programs pass to open
  Seeds,          \* what tools/fs_seeder.c may have put on the disk
  MAX_CALLS       \* bound: how many writes and unlinks are made

FS_FILE == 0
FS_DIR == 1
Type == {FS_FILE, FS_DIR}
Unit == Data \cup Name \cup {Zero}
Slot == 1 .. SLOTS
Lba == DATA_LBA .. LAST_LBA + 1
Fd == 1 .. FS_MAX_OPEN
NoFd == 0
Flag == {"write", "creat", "trunc", "append"}

ASSUME SizesAssumption ==
  /\ SECTOR \in Nat \ {0} /\ SLOTS \in Nat /\ DATA_LBA \in Nat
  /\ LAST_LBA \in Nat /\ DATA_LBA <= LAST_LBA
  /\ DIR_BUF_SIZE \in Nat /\ FD_BUF_SIZE \in Nat /\ FS_MAX_OPEN \in Nat
  /\ MAX_CALLS \in Nat

ASSUME NamesAssumption ==
  /\ NoName \notin Name /\ Parent \in [Name -> Name \cup {NoName}]
  /\ \A n \in Name : Parent[n] # n
  /\ Payloads \subseteq Seq(Unit) /\ OpenFlags \subseteq SUBSET Flag

VARIABLES
  dir,      \* the directory: slot -> entry
  disk,     \* the data sectors
  op,       \* the fs_write in progress, with its locals
  handles,  \* the open file handles
  wbuf,     \* the buffer of the one writable handle
  mode,     \* shell, user, closing (fs_close_all), halted, off
  calls     \* writes and unlinks made so far

vars == <<dir, disk, op, handles, wbuf, mode, calls>>

Entry == [name : Name \cup {NoName}, type : Type, lba : Lba, size : Nat]
NoEntry == [name |-> NoName, type |-> FS_FILE, lba |-> DATA_LBA, size |-> 0]
Sector == [0 .. SECTOR - 1 -> Unit]

(* The fields of a handle that is not in use are not read: fs_open clears  *)
(* them all, so they are cleared here when it is closed.                   *)
Closed == [used |-> FALSE, writable |-> FALSE, name |-> NoName, lba |-> DATA_LBA,
           size |-> 0, wlen |-> 0, offset |-> 0]

(* name, type, data: the arguments; slot, lba: where it goes; k: sectors   *)
(* written; fd: the handle that close releases when the write returns.     *)
NoOp == [busy |-> FALSE]

-----------------------------------------------------------------------------
(* Looking things up in a directory d *)

IsMin(m, S) == m \in S /\ \A x \in S : m <= x
IsMax(m, S) == m \in S /\ \A x \in S : x <= m

Sectors(n) == (n + SECTOR - 1) \div SECTOR
End(e) == e.lba + Sectors(e.size)
Live(d) == {s \in Slot : d[s].name # NoName}
Named(d, n) == {s \in Slot : d[s].name = n}

fs_find(d, n, s) == IsMin(s, Named(d, n))
Exists(d, n) == Named(d, n) # {}

(* The contents of the file at entry e, as fs_read returns them. *)
Content(e) ==
  [i \in 1 .. e.size |-> disk[e.lba + ((i - 1) \div SECTOR)][(i - 1) % SECTOR]]

(* Sector k of the padded data. *)
Padded(data, k) ==
  [j \in 0 .. SECTOR - 1 |->
     IF k * SECTOR + j < Len(data) THEN data[k * SECTOR + j + 1] ELSE Zero]

-----------------------------------------------------------------------------
(* fs_write *)

(* Mutant: a free slot before the file's own one is taken. *)
SlotFor_first_free(d, n, s) == IsMin(s, Named(d, n) \cup Named(d, NoName))

(* The slot: the file's own one, or else the first free one. *)
SlotFor(d, n, s) ==
  IF Exists(d, n) THEN fs_find(d, n, s) ELSE IsMin(s, Named(d, NoName))

(* Mutant: a last, partly filled sector is not counted. *)
next_free_rounds_down(d, lba) ==
  IsMax(lba, {DATA_LBA} \cup {d[s].lba + (d[s].size \div SECTOR) : s \in Live(d)})

next_free(d, lba) == IsMax(lba, {DATA_LBA} \cup {End(d[s]) : s \in Live(d)})

(* Mutant: a file may grow by a sector in place. *)
WriteLba_grows(d, n, s, size, lba) ==
  IF Exists(d, n) /\ Sectors(size) <= Sectors(d[s].size) + 1
  THEN lba = d[s].lba
  ELSE next_free(d, lba)

(* In place when the new contents fit the old sectors, else at the end. *)
WriteLba(d, n, s, size, lba) ==
  IF Exists(d, n) /\ Sectors(size) <= Sectors(d[s].size)
  THEN lba = d[s].lba
  ELSE next_free(d, lba)

(* The call gets past its checks: its first sector write is next. *)
fs_write(d, n, type, data, fd) ==
  /\ Parent[n] = NoName \/ Exists(d, Parent[n])
  /\ \E s \in Slot, lba \in Lba :
       /\ SlotFor(d, n, s)
       /\ WriteLba(d, n, s, Len(data), lba)
       /\ op' = [busy |-> TRUE, name |-> n, type |-> type, data |-> data,
                 slot |-> s, lba |-> lba, k |-> 0, fd |-> fd]

(* It returns: close then drops its handle, whatever the result. *)
Return ==
  /\ op' = NoOp
  /\ handles' = [f \in Fd |-> IF f = op.fd THEN Closed ELSE handles[f]]

WriteSector ==
  /\ op.busy /\ op.k < Sectors(Len(op.data))
  /\ op.lba + op.k <= LAST_LBA
  /\ disk' = [disk EXCEPT ![op.lba + op.k] = Padded(op.data, op.k)]
  /\ op' = [op EXCEPT !.k = @ + 1]
  /\ UNCHANGED <<dir, handles, wbuf, mode, calls>>

NewEntry == [name |-> op.name, type |-> op.type, lba |-> op.lba, size |-> Len(op.data)]

(* Mutant: the climb to the parent is forgotten, and the path's own list   *)
(* is written again.                                                       *)
fs_append_no_climb(d, n) ==
  \E s \in Slot :
    /\ fs_find(d, n, s)
    /\ fs_write(d, n, FS_DIR, Content(d[s]), op.fd)

(* fs_append: the parent's list with one more line, through its buffer. *)
fs_append(d, n) ==
  \E s \in Slot :
    /\ fs_find(d, Parent[n], s)
    /\ d[s].size + 1 < DIR_BUF_SIZE
    /\ fs_write(d, Parent[n], FS_DIR, Append(Content(d[s]), n), op.fd)

(* The entry is on the disk; then the parent's list, whose failure is      *)
(* ignored: no parent entry, list full, no such grandparent, disk error.   *)
WriteEntry ==
  /\ op.busy /\ op.k = Sectors(Len(op.data))
  /\ dir' = [dir EXCEPT ![op.slot] = NewEntry]
  /\ \/ Parent[op.name] # NoName /\ fs_append(dir', op.name) /\ UNCHANGED handles
     \/ Return
  /\ UNCHANGED <<disk, wbuf, mode, calls>>

(* A sector read or write is reported as failed: the call returns.  The    *)
(* sector in hand may have reached the disk nevertheless.                  *)
AtaError ==
  /\ op.busy
  /\ Return
  /\ \/ op.k < Sectors(Len(op.data)) /\ op.lba + op.k <= LAST_LBA
        /\ disk' = [disk EXCEPT ![op.lba + op.k] = Padded(op.data, op.k)]
        /\ UNCHANGED dir
     \/ UNCHANGED <<disk, dir>>
  /\ UNCHANGED <<wbuf, mode, calls>>

-----------------------------------------------------------------------------
(* Calls of the shell and of the running program *)

Idle == ~op.busy
Count == calls < MAX_CALLS /\ calls' = calls + 1

(* Output redirection, system call 5. *)
WriteFile(n, data) ==
  /\ Idle /\ mode \in {"shell", "user"} /\ Count
  /\ fs_write(dir, n, FS_FILE, data, NoFd)
  /\ UNCHANGED <<dir, disk, handles, wbuf, mode>>

fs_mkdir(n) ==
  /\ Idle /\ mode = "shell" /\ Count
  /\ fs_write(dir, n, FS_DIR, <<>>, NoFd)
  /\ UNCHANGED <<dir, disk, handles, wbuf, mode>>

(* rm, unlink: the name's first byte is cleared, the rest stays. *)
fs_delete(n) ==
  /\ Idle /\ mode \in {"shell", "user"} /\ Count
  /\ \E s \in Slot :
       /\ fs_find(dir, n, s)
       /\ dir' = [dir EXCEPT ![s].name = NoName]
  /\ UNCHANGED <<disk, op, handles, wbuf, mode>>

RunProgram ==
  /\ Idle /\ mode = "shell"
  /\ mode' = "user"
  /\ UNCHANGED <<dir, disk, op, handles, wbuf, calls>>

Writers == {f \in Fd : handles[f].used /\ handles[f].writable}

(* What fs_open learns of n: NoEntry when there is no such file, and also  *)
(* when the directory cannot be read.                                      *)
Lookup(n, e) == e = NoEntry \/ \E s \in Slot : fs_find(dir, n, s) /\ e = dir[s]

Loaded(data) == [i \in 0 .. FD_BUF_SIZE - 1 |-> IF i < Len(data) THEN data[i + 1] ELSE wbuf[i]]

(* Opening for reading: the handle keeps where the file lies. *)
OpenRead(fd, n, e) ==
  /\ handles' = [handles EXCEPT ![fd] =
       [used |-> TRUE, writable |-> FALSE, name |-> n, lba |-> e.lba, size |-> e.size,
        wlen |-> 0, offset |-> 0]]
  /\ UNCHANGED wbuf

(* Mutant: a second writable handle is not refused. *)
OpenWrite_unchecked(fd, n, e, flags) ==
  LET old == IF "trunc" \in flags THEN <<>> ELSE Content(e)
  IN  /\ Len(old) <= FD_BUF_SIZE
      /\ wbuf' = Loaded(old)
      /\ handles' = [handles EXCEPT ![fd] =
           [used |-> TRUE, writable |-> TRUE, name |-> n, lba |-> DATA_LBA, size |-> 0,
            wlen |-> Len(old), offset |-> 0]]

(* Opening for writing: the file, unless it is truncated, fills wbuf.  A   *)
(* disk error leaves a part of it there and no handle.                     *)
OpenWrite(fd, n, e, flags) ==
  LET old == IF "trunc" \in flags THEN <<>> ELSE Content(e)
  IN  /\ Writers = {} /\ Len(old) <= FD_BUF_SIZE
      /\ \/ /\ wbuf' = Loaded(old)
            /\ handles' = [handles EXCEPT ![fd] =
                 [used |-> TRUE, writable |-> TRUE, name |-> n, lba |-> DATA_LBA, size |-> 0,
                  wlen |-> Len(old),
                  offset |-> IF "append" \in flags THEN Len(old) ELSE 0]]
         \/ /\ \E k \in 0 .. Sectors(Len(old)) - 1 : wbuf' = Loaded(SubSeq(old, 1, k * SECTOR))
            /\ UNCHANGED handles

fs_open(n, flags) ==
  /\ Idle /\ mode = "user" /\ Count
  /\ \E fd \in Fd, e \in {dir[s] : s \in Slot} \cup {NoEntry} :
       /\ Lookup(n, e)
       /\ e.name = n \/ "creat" \in flags
       /\ e.type = FS_FILE
       /\ IsMin(fd, {f \in Fd : ~handles[f].used})
       /\ IF "write" \in flags THEN OpenWrite(fd, n, e, flags) ELSE OpenRead(fd, n, e)
  /\ UNCHANGED <<dir, disk, op, mode>>

Length(h) == IF h.writable THEN h.wlen ELSE h.size

Left(h) == IF h.offset < Length(h) THEN Length(h) - h.offset ELSE 0

(* A disk error, even after the first sector, leaves the position alone. *)
fs_read_fd(fd, n) ==
  /\ Idle /\ mode = "user" /\ handles[fd].used
  /\ handles' = [handles EXCEPT ![fd].offset =
                   @ + IF n > Left(handles[fd]) THEN Left(handles[fd]) ELSE n]
  /\ UNCHANGED <<dir, disk, op, wbuf, mode, calls>>

(* Mutant: the gap after a seek past the end keeps what wbuf held. *)
fs_write_fd_leaves_gap(fd, data) ==
  LET h == handles[fd]
      end == h.offset + Len(data)
  IN  /\ Idle /\ mode = "user" /\ h.used /\ h.writable
      /\ end <= FD_BUF_SIZE
      /\ wbuf' = [i \in 0 .. FD_BUF_SIZE - 1 |->
                    IF h.offset <= i /\ i < end THEN data[i - h.offset + 1] ELSE wbuf[i]]
      /\ handles' = [handles EXCEPT ![fd].offset = end,
                                    ![fd].wlen = IF end > @ THEN end ELSE @]
      /\ UNCHANGED <<dir, disk, op, mode, calls>>

fs_write_fd(fd, data) ==
  LET h == handles[fd]
      end == h.offset + Len(data)
  IN  /\ Idle /\ mode = "user" /\ h.used /\ h.writable
      /\ end <= FD_BUF_SIZE
      /\ wbuf' = [i \in 0 .. FD_BUF_SIZE - 1 |->
                    IF h.offset <= i /\ i < end THEN data[i - h.offset + 1]
                    ELSE IF h.wlen <= i /\ i < h.offset THEN Zero
                    ELSE wbuf[i]]
      /\ handles' = [handles EXCEPT ![fd].offset = end,
                                    ![fd].wlen = IF end > @ THEN end ELSE @]
      /\ UNCHANGED <<dir, disk, op, mode, calls>>

(* Bound: positions beyond the buffer look alike. *)
MAX_OFFSET == FD_BUF_SIZE + 1

fs_seek(fd, off) ==
  /\ Idle /\ mode = "user" /\ handles[fd].used
  /\ \E base \in {0, handles[fd].offset, Length(handles[fd])} :
       /\ base + off \in 0 .. MAX_OFFSET
       /\ handles' = [handles EXCEPT ![fd].offset = base + off]
  /\ UNCHANGED <<dir, disk, op, wbuf, mode, calls>>

(* Mutant: a handle whose write is refused stays open. *)
fs_close_keeps(fd) ==
  /\ Idle /\ mode \in {"user", "closing"} /\ handles[fd].used
  /\ \/ /\ handles[fd].writable
        /\ fs_write(dir, handles[fd].name, FS_FILE,
                    [i \in 1 .. handles[fd].wlen |-> wbuf[i - 1]], fd)
        /\ UNCHANGED handles
     \/ ~handles[fd].writable /\ handles' = [handles EXCEPT ![fd] = Closed] /\ UNCHANGED op
  /\ UNCHANGED <<dir, disk, wbuf, mode, calls>>

(* The write of a writable handle is refused, or goes on in op. *)
fs_close(fd) ==
  /\ Idle /\ mode \in {"user", "closing"} /\ handles[fd].used
  /\ \/ /\ handles[fd].writable
        /\ fs_write(dir, handles[fd].name, FS_FILE,
                    [i \in 1 .. handles[fd].wlen |-> wbuf[i - 1]], fd)
        /\ UNCHANGED handles
     \/ handles' = [handles EXCEPT ![fd] = Closed] /\ UNCHANGED op
  /\ UNCHANGED <<dir, disk, wbuf, mode, calls>>

UserClose == mode = "user" /\ \E fd \in Fd : fs_close(fd)

(* System call 2 with exit_to_shell as target, or with another one. *)
Exit ==
  /\ Idle /\ mode = "user"
  /\ mode' \in {"closing", "halted"}
  /\ UNCHANGED <<dir, disk, op, handles, wbuf, calls>>

fs_close_all ==
  /\ Idle /\ mode = "closing"
  /\ \/ \E fd \in Fd : IsMin(fd, {f \in Fd : handles[f].used}) /\ fs_close(fd)
     \/ /\ \A fd \in Fd : ~handles[fd].used
        /\ mode' = "shell"
        /\ UNCHANGED <<dir, disk, op, handles, wbuf, calls>>

(* Power is lost between two sector writes. *)
PowerLoss ==
  /\ mode \in {"shell", "user", "closing"}
  /\ mode' = "off" /\ op' = NoOp
  /\ UNCHANGED <<dir, disk, handles, wbuf, calls>>

(* Boot: memory starts afresh, fs_mount finds the disk as it was left. *)
fs_mount ==
  /\ mode \in {"off", "halted"}
  /\ mode' = "shell"
  /\ handles' = [fd \in Fd |-> Closed]
  /\ wbuf' = [i \in 0 .. FD_BUF_SIZE - 1 |-> Zero]
  /\ UNCHANGED <<dir, disk, op, calls>>

-----------------------------------------------------------------------------
(* The disk tools/fs_seeder.c writes: one file after the other. *)
Seeded(list) ==
  LET at[s \in 1 .. Len(list) + 1] ==
        IF s = 1 THEN DATA_LBA ELSE at[s - 1] + Sectors(Len(list[s - 1].data))
      Holds(l, s) == at[s] <= l /\ l < at[s + 1]
  IN  [dir |-> [s \in Slot |->
                  IF s <= Len(list)
                  THEN [name |-> list[s].name, type |-> FS_FILE, lba |-> at[s],
                        size |-> Len(list[s].data)]
                  ELSE NoEntry],
       disk |-> [l \in DATA_LBA .. LAST_LBA |->
                   IF \E s \in 1 .. Len(list) : Holds(l, s)
                   THEN LET s == CHOOSE s \in 1 .. Len(list) : Holds(l, s)
                        IN  Padded(list[s].data, l - at[s])
                   ELSE [j \in 0 .. SECTOR - 1 |-> Zero]]]

(* The files lie on the disk in the order of the slots, under their names. *)
ASSUME SeedsAssumption ==
  \A seed \in Seeds :
    /\ seed.dir \in [Slot -> Entry] /\ seed.disk \in [DATA_LBA .. LAST_LBA -> Sector]
    /\ \A s, t \in Live(seed.dir) :
         /\ s < t => End(seed.dir[s]) <= seed.dir[t].lba
         /\ s # t => seed.dir[s].name # seed.dir[t].name
    /\ \A s \in Live(seed.dir) : End(seed.dir[s]) \in Lba

Init ==
  /\ \E seed \in Seeds : dir = seed.dir /\ disk = seed.disk
  /\ op = NoOp
  /\ handles = [fd \in Fd |-> Closed]
  /\ wbuf = [i \in 0 .. FD_BUF_SIZE - 1 |-> Zero]
  /\ mode = "shell" /\ calls = 0

DiskStep == WriteSector \/ WriteEntry \/ AtaError
ShellCall ==
  \/ \E n \in Name, data \in Payloads : WriteFile(n, data)
  \/ \E n \in Name : fs_mkdir(n) \/ fs_delete(n)
  \/ RunProgram
FileCall ==
  \/ \E n \in Name, flags \in OpenFlags : fs_open(n, flags)
  \/ \E fd \in Fd, n \in 1 .. FD_BUF_SIZE : fs_read_fd(fd, n)
  \/ \E fd \in Fd, data \in Payloads : fs_write_fd(fd, data)
  \/ \E fd \in Fd, off \in -MAX_OFFSET .. MAX_OFFSET : fs_seek(fd, off)
  \/ UserClose
  \/ Exit

Next == DiskStep \/ ShellCall \/ FileCall \/ fs_close_all \/ PowerLoss \/ fs_mount

(* Calls that have begun go on; nothing makes anyone begin one. *)
Spec == Init /\ [][Next]_vars /\ WF_vars(DiskStep) /\ WF_vars(fs_close_all)

-----------------------------------------------------------------------------
(* Properties *)

Handle == [used : BOOLEAN, writable : BOOLEAN, name : Name \cup {NoName}, lba : Lba,
           size : Nat, wlen : 0 .. FD_BUF_SIZE, offset : Nat]
Op == [busy : {TRUE}, name : Name, type : Type, data : Seq(Unit), slot : Slot, lba : Lba,
       k : Nat, fd : Fd \cup {NoFd}]

(* The value every variable may take. *)
TypeOK ==
  /\ dir \in [Slot -> Entry]
  /\ disk \in [DATA_LBA .. LAST_LBA -> Sector]
  /\ op \in Op \cup {NoOp}
  /\ handles \in [Fd -> Handle]
  /\ wbuf \in [0 .. FD_BUF_SIZE - 1 -> Unit]
  /\ mode \in {"shell", "user", "closing", "halted", "off"}
  /\ calls \in Nat

(* No two slots hold the same name, after any mix of creating, growing,    *)
(* deleting and rewriting, errors and power losses included: fs_find's     *)
(* "first match" is the only one.                                          *)
NamesUnique == \A s, t \in Live(dir) : dir[s].name = dir[t].name => s = t

(* The sectors of two files never overlap, and all lie on the disk.        *)
ExtentsDisjoint ==
  /\ \A s \in Live(dir) : End(dir[s]) <= LAST_LBA + 1
  /\ \A s, t \in Live(dir) :
       s # t => End(dir[s]) <= dir[t].lba \/ End(dir[t]) <= dir[s].lba

(* The sectors a write in progress goes to belong to no other file, so     *)
(* that giving it up at any point harms at most the file it is for; and    *)
(* not even that one when it grows.                                        *)
WriteHarmsNoOther ==
  op.busy =>
    \A s \in Live(dir) :
      \/ s = op.slot /\ dir[s].name = op.name /\ op.lba = dir[s].lba
           /\ Sectors(Len(op.data)) <= Sectors(dir[s].size)
      \/ End(dir[s]) <= op.lba
      \/ op.lba + Sectors(Len(op.data)) <= dir[s].lba

(* wbuf has one owner: fs_open never lets two writable handles coexist,    *)
(* and a close in progress still owns what it writes.                      *)
OneWriter ==
  /\ \A f, g \in Writers : f = g
  /\ op.busy /\ op.fd # NoFd => op.fd \in Writers

(* The store of files that callers see, and the draft of the one writer.   *)
Files ==
  [n \in {dir[s].name : s \in Live(dir)} |->
     LET e == dir[CHOOSE s \in Live(dir) : dir[s].name = n]
     IN  [type |-> e.type, data |-> Content(e)]]
FileOp ==
  IF op.busy THEN [busy |-> TRUE, name |-> op.name, type |-> op.type, data |-> op.data]
  ELSE NoOp
Draft ==
  IF Writers = {} \/ mode \in {"off", "halted"} THEN [open |-> FALSE]
  ELSE LET h == handles[CHOOSE fd \in Writers : TRUE]
       IN  [open |-> TRUE, name |-> h.name, pos |-> h.offset,
            data |-> [i \in 1 .. h.wlen |-> wbuf[i - 1]]]

Store == INSTANCE FileStore WITH files <- Files, op <- FileOp, draft <- Draft

(* The sectors, slots, handles and wbuf implement the map from names to    *)
(* contents: whatever fails, a step changes no file but the one being      *)
(* written; a write that finishes leaves exactly the data it was given; a  *)
(* growing file keeps its old contents until then; and a draft holds what  *)
(* was stored in it, with zeros in the gaps.                               *)
ImplementsFileStore == Store!Spec

(* Every call returns: the chain of parents whose lists are rewritten ends. *)
CallsReturn == op.busy ~> ~op.busy

(* A program that exits gets back to the prompt, whether or not its files  *)
(* can be written.                                                         *)
ClosingEnds == mode = "closing" ~> mode \in {"shell", "off"}

=============================================================================
