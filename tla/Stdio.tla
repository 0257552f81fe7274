-------------------------------- MODULE Stdio --------------------------------
(***************************************************************************)
(* The FILE streams of home/lib/stdio.c over the kernel's file handles.    *)
(* A stream adds to a handle the end-of-file and error flags and one       *)
(* pushed-back byte.  The kernel's side (drivers/fs.c) is taken whole: an  *)
(* open file is the bytes its handle can reach and a position.  Every call *)
(* that can fail may fail: malloc, the disk, the table of handles, the     *)
(* single write buffer.  The console streams have no state but flags, and   *)
(* pass their bytes to system calls 1 and 3; they are left out.            *)
(***************************************************************************)
EXTENDS Integers, Sequences

CONSTANTS
  Name,           \* paths
  Missing,        \* no file
  Byte, NLBYTE,   \* bytes, '\n' among them
  Put,            \* the bytes that programs write and push back
  ZERO,           \* what fills a gap
  FD_BUF_SIZE,    \* bytes in the kernel's write buffer
  WORD,           \* sizes wrap here
  Fd,             \* the kernel's handles: FS_MAX_OPEN of them
  Slot,           \* FILE objects a program may have
  Contents,       \* contents the files may have at first
  Sizes,          \* arguments size and nmemb of fread and fwrite
  Offsets,        \* arguments of fseek
  MAX_POS         \* bound on positions

ASSUME BytesAssumption ==
  NLBYTE \in Byte /\ ZERO \in Byte /\ Put \subseteq Byte /\ Contents \subseteq Seq(Byte)
ASSUME SizesAssumption ==
  /\ FD_BUF_SIZE \in Nat /\ WORD \in Nat /\ FD_BUF_SIZE < WORD /\ MAX_POS \in Nat
  /\ Fd \subseteq Nat /\ Sizes \subseteq 0 .. WORD - 1 /\ Offsets \subseteq Int

NoFd == -1
NoByte == "none"
Closed == [open |-> FALSE]
NoStream == [open |-> FALSE]

VARIABLES
  files,     \* name -> bytes, or Missing
  handles,   \* fd -> [open, name, writable, data, pos]
  streams,   \* slot -> [open, fd, eof, error, ungot], and meant: see NoSilentLoss
  raw        \* handles the program opened itself

vars == <<files, handles, streams, raw>>

-----------------------------------------------------------------------------
(* The kernel's handles.                                                   *)
(* The modes of fopen; the kernel treats w+ as w and a+ as a, since every  *)
(* writable handle may read.                                               *)
Mode == {"r", "r+", "w", "a"}
Writes(m) == m # "r"
Creates(m) == m \in {"w", "a"}
Truncates(m) == m = "w"
Appends(m) == m = "a"

FreeFds(hs) == {fd \in Fd : ~hs[fd].open}
Writers(hs) == {fd \in Fd : hs[fd].open /\ hs[fd].writable}
LowestFd(hs) == CHOOSE fd \in FreeFds(hs) : \A g \in FreeFds(hs) : fd <= g

(* sys_open of a path with the flags of an fopen mode, when files are fs   *)
(* and handles are hs.                                                     *)
MayOpen(fs, hs, name, m) ==
  /\ fs[name] # Missing \/ Creates(m)
  /\ FreeFds(hs) # {}
  /\ Writes(m) => Writers(hs) = {}
  /\ Writes(m) /\ ~Truncates(m) /\ fs[name] # Missing => Len(fs[name]) <= FD_BUF_SIZE

Handle(fs, name, m) ==
  LET data == IF Truncates(m) \/ fs[name] = Missing THEN <<>> ELSE fs[name]
  IN  [open |-> TRUE, name |-> name, writable |-> Writes(m), data |-> data,
       pos |-> IF Appends(m) THEN Len(data) ELSE 0]

(* sys_close: a writable handle writes its buffer, unless the disk fails;  *)
(* the handle is gone either way.                                          *)
Flushed(fd, ok) ==
  IF fd # NoFd /\ handles[fd].writable /\ ok
  THEN [files EXCEPT ![handles[fd].name] = handles[fd].data] ELSE files
Shut(fd) == IF fd = NoFd THEN handles ELSE [handles EXCEPT ![fd] = Closed]

(* The buffer after data is stored at pos: a gap is filled with zeros. *)
Stored(buf, pos, data) ==
  [i \in 1 .. (IF pos + Len(data) > Len(buf) THEN pos + Len(data) ELSE Len(buf)) |->
     IF i > pos /\ i <= pos + Len(data) THEN data[i - pos]
     ELSE IF i <= Len(buf) THEN buf[i] ELSE ZERO]

-----------------------------------------------------------------------------
(* Opening and closing.                                                    *)
Stream(fd, data) ==
  [open |-> TRUE, fd |-> fd, eof |-> FALSE, error |-> FALSE, ungot |-> NoByte, meant |-> data]
Init ==
  /\ files \in [Name -> Contents \cup {Missing}]
  /\ handles = [fd \in Fd |-> Closed]
  /\ streams = [s \in Slot |-> NoStream]
  /\ raw = {}

IsOpen(s) == streams[s].open

(* A plausible bug: the handle stays open when there is no memory. *)
fopen_leaks(s, name, m) ==
  /\ ~IsOpen(s) /\ MayOpen(files, handles, name, m)
  /\ LET fd == LowestFd(handles)
         h == Handle(files, name, m)
     IN  /\ handles' = [handles EXCEPT ![fd] = h]
         /\ streams' \in {streams, [streams EXCEPT ![s] = Stream(fd, h.data)]}
  /\ UNCHANGED <<files, raw>>

(* fopen when the kernel opens the file.  Without memory for the FILE the  *)
(* handle is closed again, and a writable one writes the file.             *)
fopen(s, name, m) ==
  /\ ~IsOpen(s) /\ MayOpen(files, handles, name, m)
  /\ LET fd == LowestFd(handles)
         h == Handle(files, name, m)
     IN  \/ /\ handles' = [handles EXCEPT ![fd] = h]
            /\ streams' = [streams EXCEPT ![s] = Stream(fd, h.data)]
            /\ UNCHANGED files
         \/ /\ files' \in {files, IF h.writable THEN [files EXCEPT ![name] = h.data] ELSE files}
            /\ UNCHANGED <<handles, streams>>
  /\ UNCHANGED raw

(* The program's own sys_open, and a FILE around its handle. *)
RawOpen(name, m) ==
  /\ MayOpen(files, handles, name, m)
  /\ handles' = [handles EXCEPT ![LowestFd(handles)] = Handle(files, name, m)]
  /\ raw' = raw \cup {LowestFd(handles)}
  /\ UNCHANGED <<files, streams>>

fdopen(s, fd) ==
  /\ ~IsOpen(s)
  /\ streams' = [streams EXCEPT ![s] = Stream(fd, handles[fd].data)]
  /\ raw' = raw \ {fd}
  /\ UNCHANGED <<files, handles>>

(* An error is reported; nothing more is claimed of what was written.      *)
Failed(st) == [st EXCEPT !.error = TRUE, !.meant = <<>>]

(* The program forgives an error: from here on it means what is there. *)
Cleared(st) ==
  [st EXCEPT !.eof = FALSE, !.error = FALSE,
             !.meant = IF st.fd = NoFd THEN <<>> ELSE handles[st.fd].data]

(* freopen of a path: the old handle is closed, then the path is opened on *)
(* what the close left; when that fails the stream is left without one.    *)
freopen(s, name, m) ==
  /\ IsOpen(s)
  /\ \E ok \in BOOLEAN :
       LET fs == Flushed(streams[s].fd, ok)
           hs == Shut(streams[s].fd)
           h == Handle(fs, name, m)
       IN  /\ files' = fs
           /\ \/ /\ MayOpen(fs, hs, name, m)
                 /\ handles' = [hs EXCEPT ![LowestFd(hs)] = h]
                 /\ streams' = [streams EXCEPT ![s] = Stream(LowestFd(hs), h.data)]
              \/ /\ handles' = hs
                 /\ streams' = [streams EXCEPT ![s].fd = NoFd, ![s].meant = <<>>]
  /\ UNCHANGED raw

(* freopen without a path forgets the flags and the pushed-back byte. *)
freopen_same(s) ==
  /\ IsOpen(s)
  /\ streams' = [streams EXCEPT ![s] = [Cleared(@) EXCEPT !.ungot = NoByte]]
  /\ UNCHANGED <<files, handles, raw>>

fclose(s) ==
  /\ IsOpen(s)
  /\ \E ok \in BOOLEAN : files' = Flushed(streams[s].fd, ok)
  /\ handles' = Shut(streams[s].fd)
  /\ streams' = [streams EXCEPT ![s] = NoStream]
  /\ UNCHANGED raw

remove(name) ==
  /\ files[name] # Missing
  /\ files' = [files EXCEPT ![name] = Missing]
  /\ UNCHANGED <<handles, streams, raw>>

-----------------------------------------------------------------------------
(* Reading: the pushed-back byte first, then the handle's.                 *)
Pushed(s) == IF streams[s].ungot = NoByte THEN <<>> ELSE <<streams[s].ungot>>
Waiting(s) ==
  Pushed(s) \o (IF streams[s].fd = NoFd THEN <<>>
                ELSE SubSeq(handles[streams[s].fd].data, handles[streams[s].fd].pos + 1,
                            Len(handles[streams[s].fd].data)))

(* fgetc was called until it gave k bytes; `ended` says that it then gave  *)
(* EOF, for the end of the file, or for an error.                          *)
Consumed(s, k, ended) ==
  LET fd == streams[s].fd
      n == k - Len(Pushed(s))
      atEnd == fd # NoFd /\ k = Len(Waiting(s))
      st == [streams[s] EXCEPT !.ungot = IF k > 0 THEN NoByte ELSE @, !.eof = @ \/ (ended /\ atEnd)]
  IN  /\ handles' = IF fd = NoFd \/ n <= 0 THEN handles ELSE [handles EXCEPT ![fd].pos = @ + n]
      /\ streams' = [streams EXCEPT ![s] = IF ended /\ ~atEnd THEN Failed(st) ELSE st]
      /\ UNCHANGED <<files, raw>>

(* Up to `wanted` bytes are read; a read of the disk may fail at each one, *)
(* a read of the write buffer may not.                                     *)
Reads(s, wanted) ==
  /\ IsOpen(s) /\ wanted > 0
  /\ \E k \in 0 .. wanted :
       /\ k <= Len(Waiting(s))
       /\ \/ k = wanted /\ Consumed(s, k, FALSE)
          \/ /\ k < wanted /\ k >= Len(Pushed(s))
             /\ \/ k = Len(Waiting(s))
                \/ streams[s].fd # NoFd /\ ~handles[streams[s].fd].writable
             /\ Consumed(s, k, TRUE)

fgetc(s) == Reads(s, 1)

(* A product that wraps is refused. *)
fread(s, size, nmemb) ==
  /\ IsOpen(s) /\ size > 0 /\ nmemb > 0
  /\ IF ((size * nmemb) % WORD) \div size # nmemb
     THEN streams' = [streams EXCEPT ![s] = Failed(@)] /\ UNCHANGED <<files, handles, raw>>
     ELSE Reads(s, size * nmemb)

(* Up to n - 1 bytes, or to the end of the line. *)
fgets(s, n) ==
  LET line == {k \in DOMAIN Waiting(s) : Waiting(s)[k] = NLBYTE}
      wanted == IF line = {} THEN n - 1
                ELSE LET e == CHOOSE k \in line : \A j \in line : k <= j
                     IN  IF e < n - 1 THEN e ELSE n - 1
  IN  Reads(s, wanted)

(* A plausible bug: the end of the file stays noted. *)
ungetc_keeps_eof(c, s) ==
  /\ IsOpen(s)
  /\ streams' = [streams EXCEPT ![s].ungot = c]
  /\ UNCHANGED <<files, handles, raw>>

ungetc(c, s) ==
  /\ IsOpen(s)
  /\ streams' = [streams EXCEPT ![s].ungot = c, ![s].eof = FALSE]
  /\ UNCHANGED <<files, handles, raw>>

-----------------------------------------------------------------------------
(* Writing.                                                                *)
Times(n, c) == [i \in 1 .. n |-> c]

(* sys_fwrite of n bytes, all or nothing. *)
MayStore(fd, n) ==
  fd # NoFd /\ handles[fd].writable /\ n <= FD_BUF_SIZE /\ handles[fd].pos <= FD_BUF_SIZE - n

(* n bytes c are written where `total` were meant. *)
Writing(s, c, n, total) ==
  LET fd == streams[s].fd
      grown(buf, k) == Stored(buf, handles[fd].pos, Times(k, c))
  IN  /\ IF MayStore(fd, n)
         THEN /\ handles' = [handles EXCEPT ![fd].data = grown(@, n), ![fd].pos = @ + n]
              /\ streams' = [streams EXCEPT ![s].meant = IF streams[s].error THEN @ ELSE grown(@, total)]
         ELSE streams' = [streams EXCEPT ![s] = Failed(@)] /\ UNCHANGED handles
      /\ UNCHANGED <<files, raw>>

fputc(c, s) == IsOpen(s) /\ Writing(s, c, 1, 1)

(* A plausible bug: the product of size and nmemb is not checked. *)
fwrite_unchecked(c, size, nmemb, s) ==
  /\ IsOpen(s) /\ (size * nmemb) % WORD > 0
  /\ Writing(s, c, (size * nmemb) % WORD, size * nmemb)

fwrite(c, size, nmemb, s) ==
  /\ IsOpen(s) /\ size > 0 /\ nmemb > 0
  /\ IF ((size * nmemb) % WORD) \div size # nmemb
     THEN streams' = [streams EXCEPT ![s] = Failed(@)] /\ UNCHANGED <<files, handles, raw>>
     ELSE Writing(s, c, size * nmemb, size * nmemb)

-----------------------------------------------------------------------------
(* Positions and flags.                                                    *)
Base(h, whence) == CASE whence = "set" -> 0 [] whence = "cur" -> h.pos [] whence = "end" -> Len(h.data)

fseek(s, off, whence) ==
  /\ IsOpen(s)
  /\ LET fd == streams[s].fd
     IN  IF fd = NoFd \/ Base(handles[fd], whence) + off < 0
         THEN streams' = [streams EXCEPT ![s] = Failed(@)] /\ UNCHANGED handles
         ELSE /\ Base(handles[fd], whence) + off <= MAX_POS
              /\ handles' = [handles EXCEPT ![fd].pos = Base(handles[fd], whence) + off]
              /\ streams' = [streams EXCEPT ![s].eof = FALSE, ![s].ungot = NoByte]
  /\ UNCHANGED <<files, raw>>

clearerr(s) ==
  /\ IsOpen(s)
  /\ streams' = [streams EXCEPT ![s] = Cleared(@)]
  /\ UNCHANGED <<files, handles, raw>>

rewind(s) ==
  /\ IsOpen(s)
  /\ streams' = [streams EXCEPT ![s] = IF @.fd = NoFd THEN Cleared(@)
                                        ELSE [Cleared(@) EXCEPT !.ungot = NoByte]]
  /\ handles' = IF streams[s].fd = NoFd THEN handles
                ELSE [handles EXCEPT ![streams[s].fd].pos = 0]
  /\ UNCHANGED <<files, raw>>

-----------------------------------------------------------------------------
Opening(s) ==
  \/ \E name \in Name, m \in Mode : fopen(s, name, m) \/ freopen(s, name, m)
  \/ \E fd \in raw : fdopen(s, fd)
  \/ freopen_same(s) \/ fclose(s)

Reading(s) ==
  \/ fgetc(s)
  \/ \E size, nmemb \in Sizes : fread(s, size, nmemb)
  \/ \E n \in Sizes : fgets(s, n)
  \/ \E c \in Put : ungetc(c, s)

Storing(s) ==
  \E c \in Put : fputc(c, s) \/ \E size, nmemb \in Sizes : fwrite(c, size, nmemb, s)

Moving(s) ==
  \/ \E off \in Offsets, whence \in {"set", "cur", "end"} : fseek(s, off, whence)
  \/ rewind(s) \/ clearerr(s)

Next ==
  \/ \E s \in Slot : Opening(s) \/ Reading(s) \/ Storing(s) \/ Moving(s)
  \/ \E name \in Name : remove(name) \/ \E m \in Mode : RawOpen(name, m)

Spec == Init /\ [][Next]_vars

-----------------------------------------------------------------------------
Files == {s \in Slot : IsOpen(s)}

(* Every handle the kernel has open is held by the program or by exactly   *)
(* one stream, and a stream's handle is open: no path through fopen,       *)
(* freopen, fdopen and fclose, out of memory or not, leaves one behind.    *)
HandlesOwned ==
  /\ {fd \in Fd : handles[fd].open} = raw \cup ({streams[s].fd : s \in Files} \ {NoFd})
  /\ \A s \in Files : streams[s].fd \notin raw
  /\ \A s, t \in Files : s # t /\ streams[s].fd # NoFd => streams[s].fd # streams[t].fd

(* A stream that reports the end of the file has nothing left to read, not *)
(* even a pushed-back byte.                                                *)
EofTruthful == \A s \in Files : streams[s].eof /\ streams[s].fd # NoFd => Waiting(s) = <<>>

(* A writable stream that reports no error holds all that was written to   *)
(* it, where it was written: no fputc or fwrite that the full buffer or    *)
(* the size arithmetic cut short goes unreported.                          *)
NoSilentLoss ==
  \A s \in Files : ~streams[s].error /\ streams[s].fd # NoFd
                     => streams[s].meant = handles[streams[s].fd].data

=============================================================================
