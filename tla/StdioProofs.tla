----------------------------- MODULE StdioProofs -----------------------------
(***************************************************************************)
(* Proofs about Stdio.tla for any files, bytes, sizes and number of        *)
(* handles and streams: every open handle has one owner, the end-of-file   *)
(* flag is true, and nothing written is lost in silence.                   *)
(***************************************************************************)
EXTENDS Stdio, SequenceTheorems, WellFoundedInduction, TLAPS

-----------------------------------------------------------------------------
(* Numbers *)

(* A set of natural numbers has a least member.                            *)
LEMMA Least ==
  ASSUME NEW S, S \subseteq Nat, S # {}
  PROVE  \E m \in S : \A n \in S : m <= n
<1>1. PICK m \in S : \A n \in S : <<n, m>> \notin OpToRel(<, Nat)
  BY NatLessThanWellFounded, WFMin
<1>2. ASSUME NEW n \in S PROVE ~(n < m)
  BY <1>1 DEF OpToRel
<1> QED BY <1>2

-----------------------------------------------------------------------------
(* Types *)

OpenHandle ==
  [open : {TRUE}, name : Name, writable : BOOLEAN, data : Seq(Byte), pos : Nat]
OpenStream ==
  [open : {TRUE}, fd : Fd \cup {NoFd}, eof : BOOLEAN, error : BOOLEAN,
   ungot : Byte \cup {NoByte}, meant : Seq(Byte)]

TypeOK ==
  /\ files \in [Name -> Seq(Byte) \cup {Missing}]
  /\ handles \in [Fd -> OpenHandle \cup {Closed}]
  /\ streams \in [Slot -> OpenStream \cup {NoStream}]
  /\ raw \subseteq Fd

(* Nothing is left to read of a stream st on handle h. *)
Drained(st, h) == st.ungot = NoByte /\ h.pos >= Len(h.data)

(* What a stream claims of its handle. *)
Sound(st, h) ==
  /\ st.eof => Drained(st, h)
  /\ ~st.error => st.meant = h.data

StreamsInv ==
  \A s \in Files : streams[s].fd # NoFd => Sound(streams[s], handles[streams[s].fd])

StdioInv == TypeOK /\ HandlesOwned /\ StreamsInv

(* No handle has the number that says there is none.                       *)
LEMMA NotAFd == NoFd \notin Fd
BY SizesAssumption DEF NoFd

(* An open stream, and the handle under it.                                *)
LEMMA StreamFacts ==
  ASSUME TypeOK, HandlesOwned, NEW s \in Slot, IsOpen(s)
  PROVE  /\ s \in Files /\ streams[s] \in OpenStream /\ streams[s].fd \in Fd \cup {NoFd}
         /\ streams[s].fd # NoFd =>
              /\ streams[s].fd \in Fd /\ handles[streams[s].fd] \in OpenHandle
              /\ handles[streams[s].fd].open
<1>1. s \in Files
  BY DEF Files
<1>2. streams[s] \in OpenStream
  <2>1. streams[s] \in OpenStream \cup {NoStream}
    BY DEF TypeOK
  <2>2. streams[s] # NoStream
    BY DEF IsOpen, NoStream
  <2> QED BY <2>1, <2>2
<1>3. streams[s].fd \in Fd \cup {NoFd}
  BY <1>2 DEF OpenStream
<1>4. ASSUME streams[s].fd # NoFd
      PROVE  /\ streams[s].fd \in Fd /\ handles[streams[s].fd].open
             /\ handles[streams[s].fd] \in OpenHandle
  <2>1. streams[s].fd \in Fd
    BY <1>3, <1>4
  <2>2. streams[s].fd \in {streams[t].fd : t \in Files} \ {NoFd}
    BY <1>1, <1>4
  <2>3. handles[streams[s].fd].open
    BY <2>2 DEF HandlesOwned
  <2>4. handles[streams[s].fd] \in OpenHandle \cup {Closed} /\ handles[streams[s].fd] # Closed
    BY <2>1, <2>3 DEF TypeOK, Closed
  <2> QED BY <2>1, <2>3, <2>4
<1> QED BY <1>1, <1>2, <1>3, <1>4

(* The number of bytes between a handle's position and the end. *)
Rest(h) == IF h.pos < Len(h.data) THEN Len(h.data) - h.pos ELSE 0

(* The fields of an open handle. *)
LEMMA HandleFacts ==
  ASSUME NEW h \in OpenHandle
  PROVE  /\ h.pos \in Nat /\ h.data \in Seq(Byte) /\ Len(h.data) \in Nat /\ Rest(h) \in Nat
         /\ h.name \in Name /\ h.writable \in BOOLEAN /\ h.open
<1>1. /\ h.pos \in Nat /\ h.data \in Seq(Byte) /\ h.name \in Name
      /\ h.writable \in BOOLEAN /\ h.open
  BY DEF OpenHandle
<1>2. Len(h.data) \in Nat
  BY <1>1
<1> QED BY <1>1, <1>2 DEF Rest

(* What is waiting to be read: a byte pushed back, and the rest of the     *)
(* file.                                                                   *)
LEMMA WaitingFacts ==
  ASSUME TypeOK, HandlesOwned, NEW s \in Slot, IsOpen(s)
  PROVE  /\ Len(Pushed(s)) \in {0, 1}
         /\ Len(Pushed(s)) = 0 <=> streams[s].ungot = NoByte
         /\ Len(Waiting(s)) = Len(Pushed(s))
              + (IF streams[s].fd = NoFd THEN 0 ELSE Rest(handles[streams[s].fd]))
         /\ Waiting(s) = <<>> <=> Len(Waiting(s)) = 0
         /\ Len(Waiting(s)) \in Nat /\ DOMAIN Waiting(s) = 1 .. Len(Waiting(s))
<1> DEFINE fd == streams[s].fd
           h == handles[fd]
           tail == SubSeq(h.data, h.pos + 1, Len(h.data))
           S == Byte \cup {NoByte}
<1>1. streams[s] \in OpenStream /\ (fd # NoFd => h \in OpenHandle)
  BY StreamFacts
<1>2. streams[s].ungot \in S
  BY <1>1 DEF OpenStream
<1>3. /\ Pushed(s) \in Seq(S) /\ Len(Pushed(s)) \in {0, 1}
      /\ Len(Pushed(s)) = 0 <=> streams[s].ungot = NoByte
  <2>1. CASE streams[s].ungot = NoByte
    BY <2>1, EmptySeq DEF Pushed
  <2>2. CASE streams[s].ungot # NoByte
    BY <1>2, <2>2 DEF Pushed
  <2> QED BY <2>1, <2>2
<1> DEFINE back == IF fd = NoFd THEN <<>> ELSE tail
<1>4. ASSUME fd # NoFd PROVE tail \in Seq(S) /\ Len(tail) = Rest(h)
  <2> HIDE DEF h
  <2>1. h.pos \in Nat /\ h.data \in Seq(Byte) /\ Len(h.data) \in Nat
    BY <1>1, <1>4, HandleFacts
  <2>2. h.pos + 1 \in Int /\ Len(h.data) \in Int
    BY <2>1
  <2>3. \A i \in h.pos + 1 .. Len(h.data) : h.data[i] \in S
    <3> SUFFICES ASSUME NEW i \in h.pos + 1 .. Len(h.data) PROVE h.data[i] \in Byte
      OBVIOUS
    <3>1. i \in 1 .. Len(h.data)
      BY <2>1
    <3> QED BY ONLY <2>1, <3>1, ElementOfSeq
  <2>4. /\ tail \in Seq(S)
        /\ Len(tail) = IF h.pos + 1 <= Len(h.data) THEN Len(h.data) - (h.pos + 1) + 1 ELSE 0
    BY ONLY <2>2, <2>3, SubSeqProperties
  <2> HIDE DEF tail
  <2> QED BY <2>1, <2>4 DEF Rest
<1>5. /\ back \in Seq(S)
      /\ Len(back) = IF fd = NoFd THEN 0 ELSE Rest(h)
  BY <1>4, EmptySeq
<1>6. Waiting(s) = Pushed(s) \o back
  BY DEF Waiting
<1> HIDE DEF back, tail, h
<1>7. Waiting(s) \in Seq(S) /\ Len(Waiting(s)) = Len(Pushed(s)) + Len(back)
  BY <1>3, <1>5, <1>6, ConcatProperties
<1>8. Waiting(s) = <<>> <=> Len(Waiting(s)) = 0
  BY <1>7, EmptySeq
<1>9. Len(Waiting(s)) \in Nat /\ DOMAIN Waiting(s) = 1 .. Len(Waiting(s))
  BY <1>7, LenProperties
<1> QED BY <1>3, <1>5, <1>7, <1>8, <1>9 DEF h

-----------------------------------------------------------------------------
(* One stream and its handle change *)

FilesOK(fs) == fs \in [Name -> Seq(Byte) \cup {Missing}]

(* hs is what is left of the handles when slot s lets go of its own.       *)
Detached(hs, s) ==
  /\ hs \in [Fd -> OpenHandle \cup {Closed}]
  /\ {g \in Fd : hs[g].open} = raw \cup ({streams[t].fd : t \in Files \ {s}} \ {NoFd})
  /\ \A t \in Files \ {s} : streams[t].fd # NoFd
                              => hs[streams[t].fd] = handles[streams[t].fd]

(* Every open handle belongs to the program or to another slot, whether s  *)
(* was closed already or has just closed its handle.                       *)
LEMMA Detaching ==
  ASSUME TypeOK, HandlesOwned, NEW s \in Slot
  PROVE  /\ ~IsOpen(s) => Detached(handles, s)
         /\ IsOpen(s) => Detached(Shut(streams[s].fd), s)
<1>1. CASE ~IsOpen(s)
  <2>1. Files \ {s} = Files
    BY <1>1 DEF Files
  <2> QED BY <1>1, <2>1 DEF Detached, TypeOK, HandlesOwned
<1>2. CASE IsOpen(s)
  <2> DEFINE fd == streams[s].fd
  <2>1. s \in Files /\ (fd # NoFd => fd \in Fd /\ handles[fd].open)
    BY <1>2, StreamFacts
  <2>2. CASE fd = NoFd
    <3>1. Shut(fd) = handles
      BY <2>2 DEF Shut
    <3>2. {streams[t].fd : t \in Files \ {s}} \ {NoFd} = {streams[t].fd : t \in Files} \ {NoFd}
      BY <2>1, <2>2
    <3> QED BY <1>2, <3>1, <3>2 DEF Detached, TypeOK, HandlesOwned
  <2>3. CASE fd # NoFd
    <3> DEFINE hs == [handles EXCEPT ![fd] = Closed]
    <3>1. Shut(fd) = hs
      BY <2>3 DEF Shut
    <3>2. hs \in [Fd -> OpenHandle \cup {Closed}] /\ ~hs[fd].open
      BY <2>1, <2>3 DEF TypeOK, Closed
    <3>3. \A g \in Fd : g # fd => hs[g] = handles[g]
      BY DEF TypeOK
    <3>4. fd \notin raw
      BY <2>1 DEF HandlesOwned
    <3>5. \A t \in Files \ {s} : streams[t].fd # fd
      BY <2>1, <2>3 DEF HandlesOwned
    <3>6. \A t \in Files \ {s} : streams[t].fd # NoFd => streams[t].fd \in Fd
      BY StreamFacts DEF Files
    <3>7. {g \in Fd : hs[g].open} = {g \in Fd : handles[g].open} \ {fd}
      BY <2>1, <3>2, <3>3
    <3>8. {streams[t].fd : t \in Files} = {streams[t].fd : t \in Files \ {s}} \cup {fd}
      BY <2>1
    <3> HIDE DEF hs
    <3>9. {g \in Fd : hs[g].open} = raw \cup ({streams[t].fd : t \in Files \ {s}} \ {NoFd})
      <4>1. fd \notin {streams[t].fd : t \in Files \ {s}}
        BY <3>5
      <4>2. {g \in Fd : handles[g].open} = raw \cup ({streams[t].fd : t \in Files} \ {NoFd})
        BY DEF HandlesOwned
      <4> QED BY <2>3, <3>4, <3>7, <3>8, <4>1, <4>2
    <3> QED BY <1>2, <3>1, <3>2, <3>3, <3>5, <3>6, <3>9 DEF Detached
  <2> QED BY <2>2, <2>3
<1> QED BY <1>1, <1>2

(* Slot s then holds st: no stream, a stream without a handle, or one on a *)
(* handle h that nobody holds.                                             *)
LEMMA Attaching ==
  ASSUME StdioInv, NEW s \in Slot, NEW hs, Detached(hs, s),
         NEW st \in OpenStream \cup {NoStream},
         streams' = [streams EXCEPT ![s] = st], raw' = raw, FilesOK(files'),
         \/ (st.open => st.fd = NoFd) /\ handles' = hs
         \/ /\ st.open /\ st.fd \in FreeFds(hs)
            /\ \E h \in OpenHandle : Sound(st, h) /\ handles' = [hs EXCEPT ![st.fd] = h]
  PROVE  StdioInv'
<1> DEFINE Others == Files \ {s}
           held == {streams[t].fd : t \in Others} \ {NoFd}
<1>1. streams \in [Slot -> OpenStream \cup {NoStream}] /\ raw \subseteq Fd
  BY DEF StdioInv, TypeOK
<1>2. streams' \in [Slot -> OpenStream \cup {NoStream}]
  BY <1>1
<1>3. streams'[s] = st /\ \A t \in Slot : t # s => streams'[t] = streams[t]
  BY <1>1
<1>4. /\ hs \in [Fd -> OpenHandle \cup {Closed}]
      /\ {g \in Fd : hs[g].open} = raw \cup held
      /\ \A t \in Others : streams[t].fd # NoFd => hs[streams[t].fd] = handles[streams[t].fd]
  BY DEF Detached
<1>5. Files' = Others \cup {t \in {s} : st.open}
  BY <1>3 DEF Files, IsOpen
<1>6. \A t \in Others : t \in Slot /\ t # s /\ t \in Files /\ streams'[t] = streams[t]
  BY <1>3 DEF Files
<1>7. \A t \in Others : streams[t].fd # NoFd => streams[t].fd \in Fd
  BY <1>6, StreamFacts DEF StdioInv, Files
<1>8. /\ \A t \in Others : streams[t].fd \notin raw
      /\ \A t, u \in Others : t # u /\ streams[t].fd # NoFd => streams[t].fd # streams[u].fd
      /\ \A t \in Others : streams[t].fd # NoFd
                             => Sound(streams[t], handles[streams[t].fd])
  BY <1>6 DEF StdioInv, HandlesOwned, StreamsInv
<1>9. {streams'[t].fd : t \in Others} = {streams[t].fd : t \in Others}
  BY <1>6
<1>10. CASE (st.open => st.fd = NoFd) /\ handles' = hs
  <2>1. TypeOK'
    BY <1>1, <1>2, <1>4, <1>10 DEF TypeOK, FilesOK
  <2>2. {streams'[t].fd : t \in Files'} \ {NoFd} = held
    BY <1>3, <1>5, <1>9, <1>10
  <2>3. {g \in Fd : handles'[g].open} = raw' \cup ({streams'[t].fd : t \in Files'} \ {NoFd})
    BY <1>4, <1>10, <2>2
  <2>4. \A t \in Files' : streams'[t].fd \notin raw'
    BY <1>1, <1>3, <1>5, <1>6, <1>8, <1>10, NotAFd
  <2>5. \A t, u \in Files' : t # u /\ streams'[t].fd # NoFd => streams'[t].fd # streams'[u].fd
    BY <1>3, <1>5, <1>6, <1>8, <1>10
  <2>6. HandlesOwned'
    BY <2>3, <2>4, <2>5 DEF HandlesOwned
  <2>7. StreamsInv'
    BY <1>3, <1>4, <1>5, <1>6, <1>8, <1>10 DEF StreamsInv
  <2> QED BY <2>1, <2>6, <2>7 DEF StdioInv
<1>11. ASSUME st.open, st.fd \in FreeFds(hs), NEW h \in OpenHandle, Sound(st, h),
              handles' = [hs EXCEPT ![st.fd] = h]
       PROVE  StdioInv'
  <2> DEFINE f == st.fd
  <2>1. f \in Fd /\ ~hs[f].open /\ f # NoFd
    BY <1>11, NotAFd DEF FreeFds
  <2>2. f \notin raw /\ f \notin held
    <3>1. f \notin {g \in Fd : hs[g].open}
      BY <2>1
    <3> QED BY <1>4, <3>1
  <2>3. \A t \in Others : streams[t].fd # f
    BY <2>1, <2>2
  <2>4. h.open
    BY DEF OpenHandle
  <2> HIDE DEF f
  <2>5. handles' = [hs EXCEPT ![f] = h] /\ st.fd = f
    BY <1>11 DEF f
  <2>6. /\ handles' \in [Fd -> OpenHandle \cup {Closed}] /\ handles'[f] = h
        /\ \A g \in Fd : g # f => handles'[g] = hs[g]
    BY <1>4, <2>1, <2>5
  <2>7. TypeOK'
    BY <1>1, <1>2, <2>6 DEF TypeOK, FilesOK
  <2>8. {g \in Fd : handles'[g].open} = {g \in Fd : hs[g].open} \cup {f}
    BY <2>1, <2>4, <2>6
  <2>9. {streams'[t].fd : t \in Files'} \ {NoFd} = held \cup {f}
    <3>1. Files' = Others \cup {s}
      BY <1>5, <1>11
    <3>2. {streams'[t].fd : t \in Files'} = {streams'[t].fd : t \in Others} \cup {f}
      BY <1>3, <2>5, <3>1
    <3> QED BY <1>9, <2>1, <3>2
  <2>10. {g \in Fd : handles'[g].open} = raw' \cup ({streams'[t].fd : t \in Files'} \ {NoFd})
    BY <1>4, <2>8, <2>9
  <2>11. \A t \in Files' : streams'[t].fd \notin raw'
    BY <1>3, <1>5, <1>6, <1>8, <2>2, <2>5
  <2>12. \A t, u \in Files' : t # u /\ streams'[t].fd # NoFd => streams'[t].fd # streams'[u].fd
    BY <1>3, <1>5, <1>6, <1>8, <2>3, <2>5
  <2>13. HandlesOwned'
    BY <2>10, <2>11, <2>12 DEF HandlesOwned
  <2>14. ASSUME NEW t \in Files', streams'[t].fd # NoFd
         PROVE  Sound(streams'[t], handles'[streams'[t].fd])
    <3>1. CASE t = s
      BY <1>3, <1>11, <2>5, <2>6, <3>1
    <3>2. CASE t \in Others
      <4>1. streams'[t] = streams[t] /\ streams[t].fd # NoFd /\ streams[t].fd # f
        BY <1>6, <2>3, <2>14, <3>2
      <4>2. handles'[streams[t].fd] = handles[streams[t].fd]
        BY <1>4, <1>7, <2>6, <3>2, <4>1
      <4> QED BY <1>8, <3>2, <4>1, <4>2
    <3> QED BY <1>5, <3>1, <3>2
  <2>15. StreamsInv'
    BY <2>14 DEF StreamsInv
  <2> QED BY <2>7, <2>13, <2>15 DEF StdioInv
<1> QED BY <1>10, <1>11

(* A call on an open stream that keeps its handle: the new state of the    *)
(* stream need only be sound.                                              *)
LEMMA KeepingHandle ==
  ASSUME StdioInv, NEW s \in Slot, IsOpen(s),
         NEW st \in OpenStream, st.fd = streams[s].fd,
         streams' = [streams EXCEPT ![s] = st], UNCHANGED <<files, raw>>,
         \/ st.fd = NoFd /\ UNCHANGED handles
         \/ st.fd # NoFd /\ UNCHANGED handles /\ Sound(st, handles[st.fd])
         \/ /\ st.fd # NoFd
            /\ \E h \in OpenHandle : Sound(st, h) /\ handles' = [handles EXCEPT ![st.fd] = h]
  PROVE  StdioInv'
<1> DEFINE fd == streams[s].fd
           hs == Shut(fd)
<1>1. /\ TypeOK /\ HandlesOwned /\ FilesOK(files') /\ Detached(hs, s) /\ st.open
      /\ handles \in [Fd -> OpenHandle \cup {Closed}]
  BY Detaching DEF StdioInv, TypeOK, FilesOK, OpenStream
<1>2. CASE fd = NoFd
  <2>1. handles' = hs /\ st.fd = NoFd
    BY <1>2 DEF Shut
  <2> QED BY <1>1, <2>1, Attaching
<1>3. CASE fd # NoFd
  <2>1. fd \in Fd /\ handles[fd] \in OpenHandle
    BY <1>1, <1>3, StreamFacts
  <2>2. hs = [handles EXCEPT ![fd] = Closed]
    BY <1>3 DEF Shut
  <2>3. fd \in FreeFds(hs)
    BY <1>1, <2>1, <2>2 DEF FreeFds, Closed
  <2>4. \E h \in OpenHandle : Sound(st, h) /\ handles' = [handles EXCEPT ![fd] = h]
    <3>1. handles = [handles EXCEPT ![fd] = handles[fd]]
      BY <1>1
    <3> QED BY <1>3, <2>1, <3>1
  <2>5. PICK h \in OpenHandle : Sound(st, h) /\ handles' = [handles EXCEPT ![fd] = h]
    BY <2>4
  <2>6. handles' = [hs EXCEPT ![fd] = h]
    BY <1>1, <2>1, <2>2, <2>5
  <2> HIDE DEF hs, fd
  <2>7. /\ st.fd \in FreeFds(hs)
        /\ \E g \in OpenHandle : Sound(st, g) /\ handles' = [hs EXCEPT ![st.fd] = g]
    BY <2>3, <2>5, <2>6 DEF fd
  <2> QED BY <1>1, <2>7, Attaching
<1> QED BY <1>2, <1>3

-----------------------------------------------------------------------------
(* Opening and closing *)

(* A handle freshly opened, and the stream made around it.                 *)
LEMMA FreshHandle ==
  ASSUME NEW fs, FilesOK(fs), NEW name \in Name, NEW m
  PROVE  /\ Handle(fs, name, m) \in OpenHandle
         /\ \A fd \in Fd : LET h == Handle(fs, name, m)
                           IN  Stream(fd, h.data) \in OpenStream /\ Sound(Stream(fd, h.data), h)
<1> DEFINE h == Handle(fs, name, m)
           data == IF Truncates(m) \/ fs[name] = Missing THEN <<>> ELSE fs[name]
<1>1. data \in Seq(Byte)
  BY EmptySeq DEF FilesOK
<1>2. h = [open |-> TRUE, name |-> name, writable |-> Writes(m), data |-> data,
           pos |-> IF Appends(m) THEN Len(data) ELSE 0]
  BY DEF Handle
<1>3. Writes(m) \in BOOLEAN
  BY DEF Writes
<1>4. Len(data) \in Nat
  BY <1>1
<1> HIDE DEF data, h
<1>5. h \in OpenHandle /\ h.data \in Seq(Byte)
  BY <1>1, <1>2, <1>3, <1>4 DEF OpenHandle
<1>6. ASSUME NEW fd \in Fd
      PROVE  Stream(fd, h.data) \in OpenStream /\ Sound(Stream(fd, h.data), h)
  BY <1>5 DEF Stream, OpenStream, Sound
<1> QED BY <1>5, <1>6 DEF h

(* The kernel hands out a free handle, the lowest.                         *)
LEMMA LowestIsFree ==
  ASSUME NEW hs, FreeFds(hs) # {}
  PROVE  LowestFd(hs) \in FreeFds(hs)
<1>1. FreeFds(hs) \subseteq Nat
  BY SizesAssumption DEF FreeFds
<1>2. \E fd \in FreeFds(hs) : \A g \in FreeFds(hs) : fd <= g
  BY <1>1, Least
<1> QED BY <1>2 DEF LowestFd

(* Closing a handle may write its buffer to the file it was opened on.     *)
LEMMA FlushedFiles ==
  ASSUME TypeOK, NEW ok, NEW fd \in Fd \cup {NoFd},
         fd # NoFd => handles[fd] \in OpenHandle
  PROVE  FilesOK(Flushed(fd, ok))
<1>1. FilesOK(files)
  BY DEF TypeOK, FilesOK
<1>2. CASE fd # NoFd /\ handles[fd].writable /\ ok
  <2> DEFINE h == handles[fd]
  <2>1. h.name \in Name /\ h.data \in Seq(Byte)
    BY <1>2, HandleFacts
  <2>2. Flushed(fd, ok) = [files EXCEPT ![h.name] = h.data]
    BY <1>2 DEF Flushed
  <2> HIDE DEF h
  <2> QED BY <1>1, <2>1, <2>2 DEF FilesOK
<1> QED BY <1>1, <1>2 DEF Flushed

(* Nothing but the contents of files changes.                              *)
LEMMA FilesChange ==
  ASSUME StdioInv, FilesOK(files'), UNCHANGED <<handles, streams, raw>>
  PROVE  StdioInv'
<1>1. TypeOK'
  BY DEF StdioInv, TypeOK, FilesOK
<1>2. Files' = Files
  BY DEF Files, IsOpen
<1>3. HandlesOwned'
  BY <1>2 DEF StdioInv, HandlesOwned
<1>4. StreamsInv'
  BY <1>2 DEF StdioInv, StreamsInv
<1> QED BY <1>1, <1>3, <1>4 DEF StdioInv

(* fopen: a handle and its stream, or neither; the file may be written.    *)
LEMMA fopenInv ==
  ASSUME StdioInv, NEW s \in Slot, NEW name \in Name, NEW m \in Mode, fopen(s, name, m)
  PROVE  StdioInv'
<1> DEFINE fd == LowestFd(handles)
           h == Handle(files, name, m)
<1>1. FilesOK(files) /\ TypeOK /\ HandlesOwned
  BY DEF StdioInv, TypeOK, FilesOK
<1>2. /\ h \in OpenHandle
      /\ fd \in Fd => Stream(fd, h.data) \in OpenStream /\ Sound(Stream(fd, h.data), h)
  BY <1>1, FreshHandle
<1>3. fd \in FreeFds(handles) /\ fd \in Fd
  BY LowestIsFree DEF fopen, MayOpen, FreeFds
<1>4. ~IsOpen(s) /\ Detached(handles, s)
  BY <1>1, Detaching DEF fopen
<1>5. CASE /\ handles' = [handles EXCEPT ![fd] = h]
           /\ streams' = [streams EXCEPT ![s] = Stream(fd, h.data)]
           /\ UNCHANGED files
  <2> DEFINE st == Stream(fd, h.data)
  <2>1. st.open /\ st.fd = fd
    BY DEF Stream
  <2>2. st \in OpenStream /\ Sound(st, h) /\ streams' = [streams EXCEPT ![s] = st]
    BY <1>2, <1>3, <1>5
  <2>3. FilesOK(files') /\ raw' = raw
    BY <1>1, <1>5 DEF fopen
  <2> HIDE DEF st, h, fd
  <2>4. st.open /\ st.fd \in FreeFds(handles)
        /\ \E g \in OpenHandle : Sound(st, g) /\ handles' = [handles EXCEPT ![st.fd] = g]
    BY <1>2, <1>3, <1>5, <2>1, <2>2
  <2> QED BY <1>4, <2>2, <2>3, <2>4, Attaching
<1>6. CASE /\ files' \in {files, IF h.writable THEN [files EXCEPT ![name] = h.data] ELSE files}
           /\ UNCHANGED <<handles, streams>>
  <2> HIDE DEF h
  <2>1. h.data \in Seq(Byte)
    BY <1>2, HandleFacts
  <2>2. FilesOK(files')
    BY <1>1, <1>6, <2>1 DEF FilesOK
  <2> QED BY <1>6, <2>2, FilesChange DEF fopen
<1> QED BY <1>5, <1>6 DEF fopen

(* freopen: the old handle goes, whether a new one comes or not.           *)
LEMMA freopenInv ==
  ASSUME StdioInv, NEW s \in Slot, NEW name \in Name, NEW m \in Mode, freopen(s, name, m)
  PROVE  StdioInv'
<1>1. TypeOK /\ HandlesOwned /\ IsOpen(s) /\ raw' = raw
  BY DEF StdioInv, freopen
<1>2. PICK ok \in BOOLEAN :
        LET fs == Flushed(streams[s].fd, ok)
            hs == Shut(streams[s].fd)
            h == Handle(fs, name, m)
        IN  /\ files' = fs
            /\ \/ /\ MayOpen(fs, hs, name, m)
                  /\ handles' = [hs EXCEPT ![LowestFd(hs)] = h]
                  /\ streams' = [streams EXCEPT ![s] = Stream(LowestFd(hs), h.data)]
               \/ /\ handles' = hs
                  /\ streams' = [streams EXCEPT ![s].fd = NoFd, ![s].meant = <<>>]
  BY DEF freopen
<1> DEFINE fs == Flushed(streams[s].fd, ok)
           hs == Shut(streams[s].fd)
           h == Handle(fs, name, m)
           fd == LowestFd(hs)
<1>3. streams[s] \in OpenStream /\ FilesOK(fs) /\ FilesOK(files') /\ Detached(hs, s)
  BY <1>1, <1>2, StreamFacts, FlushedFiles, Detaching
<1>4. /\ h \in OpenHandle
      /\ fd \in Fd => Stream(fd, h.data) \in OpenStream /\ Sound(Stream(fd, h.data), h)
  BY <1>3, FreshHandle
<1>5. CASE /\ MayOpen(fs, hs, name, m)
           /\ handles' = [hs EXCEPT ![fd] = h]
           /\ streams' = [streams EXCEPT ![s] = Stream(fd, h.data)]
  <2> DEFINE st == Stream(fd, h.data)
  <2>1. fd \in FreeFds(hs) /\ fd \in Fd
    BY <1>5, LowestIsFree DEF MayOpen, FreeFds
  <2>2. st.open /\ st.fd = fd
    BY DEF Stream
  <2>3. st \in OpenStream /\ Sound(st, h) /\ streams' = [streams EXCEPT ![s] = st]
    BY <1>4, <1>5, <2>1
  <2> HIDE DEF st, h, fd, hs, fs
  <2>4. st.open /\ st.fd \in FreeFds(hs)
        /\ \E g \in OpenHandle : Sound(st, g) /\ handles' = [hs EXCEPT ![st.fd] = g]
    BY <1>4, <1>5, <2>1, <2>2, <2>3
  <2> QED BY <1>1, <1>3, <2>3, <2>4, Attaching
<1>6. CASE /\ handles' = hs
           /\ streams' = [streams EXCEPT ![s].fd = NoFd, ![s].meant = <<>>]
  <2> DEFINE st == [streams[s] EXCEPT !.fd = NoFd, !.meant = <<>>]
  <2>1. st \in OpenStream /\ st.fd = NoFd
    BY <1>3, EmptySeq DEF OpenStream
  <2>2. streams' = [streams EXCEPT ![s] = st]
    BY <1>1, <1>6 DEF TypeOK
  <2> HIDE DEF st, hs
  <2> QED BY <1>1, <1>3, <1>6, <2>1, <2>2, Attaching
<1> QED BY <1>2, <1>5, <1>6

(* fclose: the stream and its handle go together.                          *)
LEMMA fcloseInv ==
  ASSUME StdioInv, NEW s \in Slot, fclose(s)
  PROVE  StdioInv'
<1> DEFINE hs == Shut(streams[s].fd)
<1>1. TypeOK /\ HandlesOwned /\ IsOpen(s) /\ raw' = raw /\ handles' = hs
      /\ streams' = [streams EXCEPT ![s] = NoStream]
  BY DEF StdioInv, fclose
<1>2. FilesOK(files') /\ Detached(hs, s)
  BY <1>1, StreamFacts, FlushedFiles, Detaching DEF fclose
<1>3. NoStream \in OpenStream \cup {NoStream} /\ ~NoStream.open
  BY DEF NoStream
<1> QED BY <1>1, <1>2, <1>3, Attaching

(* The program's own handle.                                               *)
LEMMA RawOpenInv ==
  ASSUME StdioInv, NEW name \in Name, NEW m \in Mode, RawOpen(name, m)
  PROVE  StdioInv'
<1> DEFINE fd == LowestFd(handles)
           h == Handle(files, name, m)
<1>1. /\ TypeOK /\ HandlesOwned /\ StreamsInv /\ FilesOK(files)
      /\ handles' = [handles EXCEPT ![fd] = h] /\ raw' = raw \cup {fd}
      /\ UNCHANGED <<files, streams>>
  BY DEF StdioInv, TypeOK, FilesOK, RawOpen
<1>2. h \in OpenHandle /\ h.open
  BY <1>1, FreshHandle, HandleFacts
<1>3. fd \in FreeFds(handles) /\ fd \in Fd /\ ~handles[fd].open /\ fd # NoFd
  BY LowestIsFree, NotAFd DEF RawOpen, MayOpen, FreeFds
<1> HIDE DEF fd, h
<1>4. /\ handles' \in [Fd -> OpenHandle \cup {Closed}] /\ handles'[fd] = h
      /\ \A g \in Fd : g # fd => handles'[g] = handles[g]
  BY <1>1, <1>2, <1>3 DEF TypeOK
<1>5. TypeOK'
  BY <1>1, <1>3, <1>4 DEF TypeOK
<1>6. Files' = Files
  BY <1>1 DEF Files, IsOpen
<1>7. \A t \in Files : streams[t].fd # fd /\ (streams[t].fd # NoFd => streams[t].fd \in Fd)
  BY <1>1, <1>3, StreamFacts DEF Files
<1>8. HandlesOwned'
  <2>1. {g \in Fd : handles'[g].open} = {g \in Fd : handles[g].open} \cup {fd}
    BY <1>2, <1>3, <1>4
  <2>2. {streams'[t].fd : t \in Files'} = {streams[t].fd : t \in Files}
    BY <1>1, <1>6
  <2>3. {g \in Fd : handles'[g].open} = raw' \cup ({streams'[t].fd : t \in Files'} \ {NoFd})
    BY <1>1, <2>1, <2>2 DEF HandlesOwned
  <2>4. \A t \in Files' : streams'[t].fd \notin raw'
    BY <1>1, <1>6, <1>7 DEF HandlesOwned
  <2> QED BY <1>1, <1>6, <2>3, <2>4 DEF HandlesOwned
<1>9. StreamsInv'
  BY <1>1, <1>4, <1>6, <1>7 DEF StreamsInv
<1> QED BY <1>5, <1>8, <1>9 DEF StdioInv

(* fdopen: the handle passes from the program to the stream.               *)
LEMMA fdopenInv ==
  ASSUME StdioInv, NEW s \in Slot, NEW fd \in raw, fdopen(s, fd)
  PROVE  StdioInv'
<1> DEFINE st == Stream(fd, handles[fd].data)
<1>1. /\ TypeOK /\ HandlesOwned /\ StreamsInv /\ ~IsOpen(s)
      /\ streams' = [streams EXCEPT ![s] = st] /\ raw' = raw \ {fd}
      /\ UNCHANGED <<files, handles>>
  BY DEF StdioInv, fdopen
<1>2. fd \in Fd /\ fd # NoFd /\ handles[fd].open
  <2>1. fd \in {g \in Fd : handles[g].open}
    BY <1>1 DEF HandlesOwned
  <2> QED BY <2>1, NotAFd
<1>3. handles[fd] \in OpenHandle
  BY <1>1, <1>2 DEF TypeOK, Closed
<1>4. st \in OpenStream /\ st.open /\ st.fd = fd /\ Sound(st, handles[fd])
  <2>1. handles[fd].data \in Seq(Byte)
    BY <1>3, HandleFacts
  <2> QED BY <1>2, <2>1 DEF Stream, OpenStream, Sound
<1> HIDE DEF st
<1>5. /\ streams' \in [Slot -> OpenStream \cup {NoStream}] /\ streams'[s] = st
      /\ \A t \in Slot : t # s => streams'[t] = streams[t]
  BY <1>1, <1>4 DEF TypeOK
<1>6. TypeOK'
  BY <1>1, <1>5 DEF TypeOK
<1>7. Files' = Files \cup {s} /\ s \notin Files /\ \A t \in Files : t \in Slot /\ t # s
  BY <1>1, <1>4, <1>5 DEF Files, IsOpen
<1>8. \A t \in Files : streams'[t] = streams[t] /\ streams[t].fd # fd
  BY <1>1, <1>5, <1>7 DEF HandlesOwned
<1>9. HandlesOwned'
  <2>1. {streams'[t].fd : t \in Files'} = {streams[t].fd : t \in Files} \cup {fd}
    BY <1>4, <1>5, <1>7, <1>8
  <2>2. {g \in Fd : handles'[g].open} = raw' \cup ({streams'[t].fd : t \in Files'} \ {NoFd})
    BY <1>1, <1>2, <2>1 DEF HandlesOwned
  <2>3. \A t \in Files' : streams'[t].fd \notin raw'
    BY <1>1, <1>4, <1>5, <1>7, <1>8 DEF HandlesOwned
  <2>4. \A t, u \in Files' : t # u /\ streams'[t].fd # NoFd => streams'[t].fd # streams'[u].fd
    BY <1>1, <1>4, <1>5, <1>7, <1>8 DEF HandlesOwned
  <2> QED BY <2>2, <2>3, <2>4 DEF HandlesOwned
<1>10. StreamsInv'
  BY <1>1, <1>4, <1>5, <1>7, <1>8 DEF StreamsInv
<1> QED BY <1>6, <1>9, <1>10 DEF StdioInv

(* remove touches neither handles nor streams.                             *)
LEMMA removeInv ==
  ASSUME StdioInv, NEW name \in Name, remove(name)
  PROVE  StdioInv'
<1>1. FilesOK(files')
  BY DEF StdioInv, TypeOK, FilesOK, remove
<1> QED BY <1>1, FilesChange DEF remove

-----------------------------------------------------------------------------
(* Flags *)

(* Every reason to hold st is kept when the call fails and says so.        *)
LEMMA FailedStream ==
  ASSUME NEW st \in OpenStream
  PROVE  /\ Failed(st) \in OpenStream /\ Failed(st).fd = st.fd
         /\ \A h : (st.eof => Drained(st, h)) => Sound(Failed(st), h)
<1>1. Failed(st) = [st EXCEPT !.error = TRUE, !.meant = <<>>]
  BY DEF Failed
<1>2. /\ Failed(st) \in OpenStream /\ Failed(st).fd = st.fd /\ Failed(st).error
      /\ Failed(st).eof = st.eof /\ Failed(st).ungot = st.ungot
  BY <1>1, EmptySeq DEF OpenStream
<1>3. ASSUME NEW h, st.eof => Drained(st, h)
      PROVE  Sound(Failed(st), h)
  BY <1>2, <1>3 DEF Sound, Drained
<1> QED BY <1>2, <1>3

(* An error forgiven: the stream means what its handle holds.              *)
LEMMA ClearedStream ==
  ASSUME NEW st \in OpenStream, st.fd # NoFd => handles[st.fd] \in OpenHandle
  PROVE  LET c == Cleared(st)
         IN  /\ c \in OpenStream /\ c.fd = st.fd /\ ~c.eof
             /\ st.fd # NoFd => c.meant = handles[st.fd].data
<1> DEFINE data == IF st.fd = NoFd THEN <<>> ELSE handles[st.fd].data
<1>1. data \in Seq(Byte)
  BY EmptySeq, HandleFacts
<1>2. Cleared(st) = [st EXCEPT !.eof = FALSE, !.error = FALSE, !.meant = data]
  BY DEF Cleared
<1> HIDE DEF data
<1>3. /\ Cleared(st) \in OpenStream /\ Cleared(st).fd = st.fd /\ ~Cleared(st).eof
      /\ Cleared(st).meant = data
  BY <1>1, <1>2 DEF OpenStream
<1> QED BY <1>3 DEF data

(* What holds of an open stream before a call.                             *)
LEMMA Before ==
  ASSUME StdioInv, NEW s \in Slot, IsOpen(s)
  PROVE  /\ TypeOK /\ HandlesOwned /\ streams[s] \in OpenStream
         /\ streams \in [Slot -> OpenStream \cup {NoStream}]
         /\ handles \in [Fd -> OpenHandle \cup {Closed}]
         /\ streams[s].fd # NoFd =>
              /\ streams[s].fd \in Fd /\ handles[streams[s].fd] \in OpenHandle
              /\ Sound(streams[s], handles[streams[s].fd])
<1>1. TypeOK /\ HandlesOwned /\ StreamsInv
  BY DEF StdioInv
<1> QED BY <1>1, StreamFacts DEF StreamsInv, TypeOK

(* A call that fails and changes nothing else.                             *)
LEMMA FailedInv ==
  ASSUME StdioInv, NEW s \in Slot, IsOpen(s),
         streams' = [streams EXCEPT ![s] = Failed(@)], UNCHANGED <<files, handles, raw>>
  PROVE  StdioInv'
<1> DEFINE st == Failed(streams[s])
<1>1. /\ streams[s] \in OpenStream /\ streams \in [Slot -> OpenStream \cup {NoStream}]
      /\ streams[s].fd # NoFd => Sound(streams[s], handles[streams[s].fd])
  BY Before
<1>2. /\ st \in OpenStream /\ st.fd = streams[s].fd
      /\ streams[s].fd # NoFd => Sound(st, handles[streams[s].fd])
  BY <1>1, FailedStream DEF Sound
<1>3. streams' = [streams EXCEPT ![s] = st]
  BY <1>1
<1> HIDE DEF st
<1> QED BY <1>2, <1>3, KeepingHandle

(* freopen without a path.                                                 *)
LEMMA freopen_sameInv ==
  ASSUME StdioInv, NEW s \in Slot, freopen_same(s)
  PROVE  StdioInv'
<1> DEFINE c == Cleared(streams[s])
           st == [c EXCEPT !.ungot = NoByte]
<1>1. IsOpen(s) /\ UNCHANGED <<files, handles, raw>>
  BY DEF freopen_same
<1>2. /\ streams[s] \in OpenStream /\ streams \in [Slot -> OpenStream \cup {NoStream}]
      /\ streams[s].fd # NoFd => handles[streams[s].fd] \in OpenHandle
  BY <1>1, Before
<1>3. /\ c \in OpenStream /\ c.fd = streams[s].fd /\ ~c.eof
      /\ streams[s].fd # NoFd => c.meant = handles[streams[s].fd].data
  BY <1>2, ClearedStream
<1>4. streams' = [streams EXCEPT ![s] = st]
  BY <1>2 DEF freopen_same
<1> HIDE DEF c
<1>5. /\ st \in OpenStream /\ st.fd = streams[s].fd
      /\ streams[s].fd # NoFd => Sound(st, handles[streams[s].fd])
  BY <1>3 DEF OpenStream, Sound
<1> HIDE DEF st
<1> QED BY <1>1, <1>4, <1>5, KeepingHandle

(* clearerr.                                                               *)
LEMMA clearerrInv ==
  ASSUME StdioInv, NEW s \in Slot, clearerr(s)
  PROVE  StdioInv'
<1> DEFINE st == Cleared(streams[s])
<1>1. IsOpen(s) /\ UNCHANGED <<files, handles, raw>>
  BY DEF clearerr
<1>2. /\ streams[s] \in OpenStream /\ streams \in [Slot -> OpenStream \cup {NoStream}]
      /\ streams[s].fd # NoFd => handles[streams[s].fd] \in OpenHandle
  BY <1>1, Before
<1>3. /\ st \in OpenStream /\ st.fd = streams[s].fd /\ ~st.eof
      /\ streams[s].fd # NoFd => st.meant = handles[streams[s].fd].data
  BY <1>2, ClearedStream
<1>4. streams' = [streams EXCEPT ![s] = st]
  BY <1>2 DEF clearerr
<1>5. streams[s].fd # NoFd => Sound(st, handles[streams[s].fd])
  BY <1>3 DEF Sound
<1> HIDE DEF st
<1> QED BY <1>1, <1>3, <1>4, <1>5, KeepingHandle

(* ungetc: a byte waits, so the end of the file is not reached.            *)
LEMMA ungetcInv ==
  ASSUME StdioInv, NEW s \in Slot, NEW c \in Put, ungetc(c, s)
  PROVE  StdioInv'
<1> DEFINE st == [streams[s] EXCEPT !.ungot = c, !.eof = FALSE]
<1>1. IsOpen(s) /\ UNCHANGED <<files, handles, raw>>
  BY DEF ungetc
<1>2. /\ streams[s] \in OpenStream /\ streams \in [Slot -> OpenStream \cup {NoStream}]
      /\ streams[s].fd # NoFd => Sound(streams[s], handles[streams[s].fd])
  BY <1>1, Before
<1>3. c \in Byte
  BY BytesAssumption
<1>4. streams' = [streams EXCEPT ![s] = st]
  BY <1>2 DEF ungetc
<1>5. /\ st \in OpenStream /\ st.fd = streams[s].fd
      /\ streams[s].fd # NoFd => Sound(st, handles[streams[s].fd])
  BY <1>2, <1>3 DEF OpenStream, Sound
<1> HIDE DEF st
<1> QED BY <1>1, <1>4, <1>5, KeepingHandle

-----------------------------------------------------------------------------
(* Positions *)

(* A handle moved to another position. *)
LEMMA MovedHandle ==
  ASSUME NEW h \in OpenHandle, NEW p \in Nat
  PROVE  /\ [h EXCEPT !.pos = p] \in OpenHandle
         /\ [h EXCEPT !.pos = p].pos = p /\ [h EXCEPT !.pos = p].data = h.data
BY DEF OpenHandle

(* fseek forgets the pushed-back byte and the end of the file.             *)
LEMMA fseekInv ==
  ASSUME StdioInv, NEW s \in Slot, NEW off \in Offsets,
         NEW whence \in {"set", "cur", "end"}, fseek(s, off, whence)
  PROVE  StdioInv'
<1> DEFINE fd == streams[s].fd
           h == handles[fd]
           to == Base(h, whence) + off
           st == [streams[s] EXCEPT !.eof = FALSE, !.ungot = NoByte]
           moved == [h EXCEPT !.pos = to]
<1>1. IsOpen(s) /\ UNCHANGED <<files, raw>>
  BY DEF fseek
<1>2. /\ streams[s] \in OpenStream /\ streams \in [Slot -> OpenStream \cup {NoStream}]
      /\ handles \in [Fd -> OpenHandle \cup {Closed}]
      /\ fd # NoFd => fd \in Fd /\ h \in OpenHandle /\ Sound(streams[s], h)
  BY <1>1, Before
<1>3. CASE fd = NoFd \/ to < 0
  BY <1>1, <1>3, FailedInv DEF fseek
<1>4. CASE ~(fd = NoFd \/ to < 0)
  <2>1. streams' = [streams EXCEPT ![s] = st]
    BY <1>2, <1>4 DEF fseek
  <2>2. handles' = [handles EXCEPT ![fd] = moved]
    BY <1>2, <1>4 DEF fseek
  <2>3. to \in Nat
    <3> HIDE DEF h
    <3>1. h.pos \in Nat /\ Len(h.data) \in Nat
      BY <1>2, <1>4, HandleFacts
    <3>2. Base(h, whence) \in Nat
      BY <3>1 DEF Base
    <3> QED BY <1>4, <3>2, SizesAssumption
  <2> HIDE DEF to, h
  <2>4. moved \in OpenHandle /\ moved.data = h.data
    BY <1>2, <1>4, <2>3, MovedHandle
  <2>5. st \in OpenStream /\ st.fd = fd /\ Sound(st, moved)
    BY <1>2, <1>4, <2>4 DEF OpenStream, Sound
  <2> HIDE DEF st, moved
  <2> QED BY <1>1, <1>4, <2>1, <2>2, <2>4, <2>5, KeepingHandle
<1> QED BY <1>3, <1>4

(* rewind.                                                                 *)
LEMMA rewindInv ==
  ASSUME StdioInv, NEW s \in Slot, rewind(s)
  PROVE  StdioInv'
<1> DEFINE fd == streams[s].fd
           h == handles[fd]
           c == Cleared(streams[s])
           st == IF fd = NoFd THEN c ELSE [c EXCEPT !.ungot = NoByte]
           moved == [h EXCEPT !.pos = 0]
<1>1. IsOpen(s) /\ UNCHANGED <<files, raw>>
  BY DEF rewind
<1>2. /\ streams[s] \in OpenStream /\ streams \in [Slot -> OpenStream \cup {NoStream}]
      /\ handles \in [Fd -> OpenHandle \cup {Closed}]
      /\ fd # NoFd => fd \in Fd /\ h \in OpenHandle
  BY <1>1, Before
<1>3. c \in OpenStream /\ c.fd = fd /\ ~c.eof /\ (fd # NoFd => c.meant = h.data)
  BY <1>2, ClearedStream
<1>4. streams' = [streams EXCEPT ![s] = st]
  BY <1>2 DEF rewind
<1> HIDE DEF c
<1>5. st \in OpenStream /\ st.fd = fd /\ ~st.eof /\ (fd # NoFd => st.meant = h.data)
  BY <1>3 DEF OpenStream
<1> HIDE DEF st
<1>6. CASE fd = NoFd
  BY <1>1, <1>4, <1>5, <1>6, KeepingHandle DEF rewind
<1>7. CASE fd # NoFd
  <2>1. handles' = [handles EXCEPT ![fd] = moved]
    BY <1>2, <1>7 DEF rewind
  <2> HIDE DEF h
  <2>2. moved \in OpenHandle /\ moved.data = h.data
    BY <1>2, <1>7, MovedHandle
  <2>3. Sound(st, moved)
    BY <1>5, <1>7, <2>2 DEF Sound
  <2> HIDE DEF moved
  <2> QED BY <1>1, <1>4, <1>5, <1>7, <2>1, <2>2, <2>3, KeepingHandle
<1> QED BY <1>6, <1>7

-----------------------------------------------------------------------------
(* Reading *)

(* k of the waiting bytes are taken.  When all were, and the stream says    *)
(* so, none is left.                                                       *)
LEMMA ConsumedInv ==
  ASSUME StdioInv, NEW s \in Slot, IsOpen(s), NEW ended \in BOOLEAN,
         NEW k \in Nat, k <= Len(Waiting(s)), ended => k >= Len(Pushed(s)),
         Consumed(s, k, ended)
  PROVE  StdioInv'
<1> DEFINE fd == streams[s].fd
           old == streams[s]
           h == handles[fd]
           n == k - Len(Pushed(s))
           atEnd == fd # NoFd /\ k = Len(Waiting(s))
           st == [old EXCEPT !.ungot = IF k > 0 THEN NoByte ELSE @,
                             !.eof = @ \/ (ended /\ atEnd)]
           new == IF ended /\ ~atEnd THEN Failed(st) ELSE st
           moved == [h EXCEPT !.pos = @ + n]
<1>1. /\ TypeOK /\ HandlesOwned /\ old \in OpenStream
      /\ streams \in [Slot -> OpenStream \cup {NoStream}]
      /\ handles \in [Fd -> OpenHandle \cup {Closed}]
      /\ fd # NoFd => fd \in Fd /\ h \in OpenHandle /\ Sound(old, h)
  BY Before
<1>2. /\ Len(Pushed(s)) \in {0, 1}
      /\ Len(Pushed(s)) = 0 <=> old.ungot = NoByte
      /\ Len(Waiting(s)) = Len(Pushed(s)) + (IF fd = NoFd THEN 0 ELSE Rest(h))
  BY <1>1, WaitingFacts
<1>3. /\ handles' = IF fd = NoFd \/ n <= 0 THEN handles ELSE [handles EXCEPT ![fd].pos = @ + n]
      /\ streams' = [streams EXCEPT ![s] = new] /\ UNCHANGED <<files, raw>>
  BY DEF Consumed
<1>4. (old.eof \/ (ended /\ atEnd)) \in BOOLEAN /\ atEnd \in BOOLEAN
  <2>1. old.eof \in BOOLEAN
    BY <1>1 DEF OpenStream
  <2> QED BY <2>1
<1> HIDE DEF atEnd
<1>5. /\ st \in OpenStream /\ st.fd = fd /\ st.error = old.error /\ st.meant = old.meant
      /\ st.eof <=> old.eof \/ (ended /\ atEnd)
      /\ st.ungot = IF k > 0 THEN NoByte ELSE old.ungot
  BY <1>1, <1>4 DEF OpenStream
<1> HIDE DEF st
<1>6. new \in OpenStream /\ new.fd = fd
  BY <1>5, FailedStream
<1>7. ASSUME NEW g, st.eof => Drained(st, g), ~st.error => st.meant = g.data
      PROVE  Sound(new, g)
  BY <1>5, <1>7, FailedStream DEF Sound
<1> HIDE DEF new
<1>8. CASE fd = NoFd
  BY <1>3, <1>6, <1>8, KeepingHandle
<1>9. CASE fd # NoFd
  <2>1. h \in OpenHandle /\ h.pos \in Nat /\ Len(h.data) \in Nat /\ h.data \in Seq(Byte)
    BY <1>1, <1>9, HandleFacts
  <2>2. atEnd <=> k = Len(Waiting(s))
    BY <1>9 DEF atEnd
  <2>3. old.eof => old.ungot = NoByte /\ h.pos >= Len(h.data)
    BY <1>1, <1>9 DEF Sound, Drained
  <2>4. ~st.error => st.meant = h.data
    BY <1>1, <1>5, <1>9 DEF Sound
  <2> HIDE DEF old, h
  <2>5. /\ Rest(h) = IF h.pos < Len(h.data) THEN Len(h.data) - h.pos ELSE 0
        /\ Len(Waiting(s)) = Len(Pushed(s)) + Rest(h)
    BY <1>2, <1>9 DEF Rest
  <2>6. old.eof => k = 0 /\ Len(Waiting(s)) = 0 /\ Len(Pushed(s)) = 0
    BY <1>2, <2>1, <2>3, <2>5
  <2>7. st.eof => Len(Waiting(s)) = k /\ Len(Pushed(s)) <= k
    BY <1>2, <1>5, <2>2, <2>6
  <2>8. st.eof => st.ungot = NoByte
    BY <1>2, <1>5, <2>7
  <2>9. CASE n <= 0
    <3>1. UNCHANGED handles
      BY <1>3, <2>9
    <3>2. st.eof => h.pos >= Len(h.data)
      BY <1>2, <2>1, <2>5, <2>7, <2>9
    <3>3. Sound(new, h)
      BY <1>7, <2>4, <2>8, <3>2 DEF Drained
    <3> QED BY <1>3, <1>6, <1>9, <3>1, <3>3, KeepingHandle DEF h
  <2>10. CASE n > 0
    <3>1. ~(n <= 0) /\ n \in Nat /\ h.pos + n \in Nat
      BY <1>2, <2>1, <2>10
    <3>2. handles' = [handles EXCEPT ![fd] = moved]
      <4>1. handles' = [handles EXCEPT ![fd].pos = @ + n]
        BY <1>3, <1>9, <3>1
      <4> HIDE DEF n
      <4> QED BY <1>1, <1>9, <4>1 DEF h
    <3>3. moved \in OpenHandle /\ moved.pos = h.pos + n /\ moved.data = h.data
      BY <2>1, <3>1, MovedHandle
    <3> HIDE DEF moved
    <3>4. st.eof => h.pos + n >= Len(h.data)
      BY <1>2, <2>1, <2>5, <2>7
    <3>5. Sound(new, moved)
      BY <1>7, <2>4, <2>8, <3>3, <3>4 DEF Drained
    <3> QED BY <1>3, <1>6, <1>9, <3>2, <3>3, <3>5, KeepingHandle
  <2> QED BY <1>2, <2>9, <2>10
<1> QED BY <1>8, <1>9

(* fgetc called until it gave up to `wanted` bytes. *)
LEMMA ReadsInv ==
  ASSUME StdioInv, NEW s \in Slot, NEW wanted \in Int, Reads(s, wanted)
  PROVE  StdioInv'
<1>1. PICK k \in 0 .. wanted :
        /\ k <= Len(Waiting(s))
        /\ \/ k = wanted /\ Consumed(s, k, FALSE)
           \/ k >= Len(Pushed(s)) /\ Consumed(s, k, TRUE)
  BY DEF Reads
<1>2. IsOpen(s) /\ k \in Nat
  BY DEF Reads
<1>3. CASE Consumed(s, k, FALSE)
  BY <1>1, <1>2, <1>3, ConsumedInv
<1>4. CASE k >= Len(Pushed(s)) /\ Consumed(s, k, TRUE)
  BY <1>1, <1>2, <1>4, ConsumedInv
<1> QED BY <1>1, <1>3, <1>4

(* The product of two sizes. *)
LEMMA SizesFacts ==
  ASSUME NEW size \in Sizes, NEW nmemb \in Sizes
  PROVE  size \in Nat /\ size * nmemb \in Nat
<1>1. size \in Nat /\ nmemb \in Nat
  BY SizesAssumption
<1> QED BY <1>1

(* fread. *)
LEMMA freadInv ==
  ASSUME StdioInv, NEW s \in Slot, NEW size \in Sizes, NEW nmemb \in Sizes,
         fread(s, size, nmemb)
  PROVE  StdioInv'
<1>1. size * nmemb \in Int
  BY SizesFacts
<1> QED BY <1>1, ReadsInv, FailedInv DEF fread

(* fgets. *)
LEMMA fgetsInv ==
  ASSUME StdioInv, NEW s \in Slot, NEW n \in Sizes, fgets(s, n)
  PROVE  StdioInv'
<1> DEFINE line == {k \in DOMAIN Waiting(s) : Waiting(s)[k] = NLBYTE}
           e == CHOOSE k \in line : \A j \in line : k <= j
           wanted == IF line = {} THEN n - 1 ELSE IF e < n - 1 THEN e ELSE n - 1
<1>1. n \in Nat /\ Reads(s, wanted)
  BY SizesFacts DEF fgets
<1>2. Len(Waiting(s)) \in Nat /\ DOMAIN Waiting(s) = 1 .. Len(Waiting(s))
  <2>1. IsOpen(s) /\ TypeOK /\ HandlesOwned
    BY <1>1 DEF Reads, StdioInv
  <2> QED BY <2>1, WaitingFacts
<1>3. line # {} => e \in Nat
  <2>1. line \subseteq Nat
    BY <1>2
  <2> HIDE DEF line
  <2>2. line # {} => \E k \in line : \A j \in line : k <= j
    BY <2>1, Least
  <2> QED BY <2>1, <2>2
<1> HIDE DEF e, line
<1>4. wanted \in Int
  BY <1>1, <1>3
<1> HIDE DEF wanted
<1> QED BY <1>1, <1>4, ReadsInv

-----------------------------------------------------------------------------
(* Writing *)

(* Bytes stored in a buffer. *)
LEMMA StoredFacts ==
  ASSUME NEW buf \in Seq(Byte), NEW pos \in Nat, NEW n \in Nat, NEW c \in Byte
  PROVE  LET new == Stored(buf, pos, Times(n, c))
         IN  /\ new \in Seq(Byte)
             /\ Len(new) = IF pos + n > Len(buf) THEN pos + n ELSE Len(buf)
<1> DEFINE L == IF pos + n > Len(buf) THEN pos + n ELSE Len(buf)
           data == Times(n, c)
           new == [i \in 1 .. L |-> IF i > pos /\ i <= pos + n THEN data[i - pos]
                                    ELSE IF i <= Len(buf) THEN buf[i] ELSE ZERO]
<1>1. Len(buf) \in Nat
  OBVIOUS
<1>2. Len(data) = n /\ \A i \in 1 .. n : data[i] = c
  BY DEF Times
<1>3. L \in Nat
  BY <1>1
<1>4. Stored(buf, pos, data) = new
  BY <1>2 DEF Stored
<1>5. \A i \in 1 .. L : new[i] \in Byte
  <2> SUFFICES ASSUME NEW i \in 1 .. L PROVE new[i] \in Byte
    OBVIOUS
  <2>1. CASE i > pos /\ i <= pos + n
    <3>1. i - pos \in 1 .. n
      BY <2>1
    <3> QED BY <1>2, <2>1, <3>1
  <2>2. CASE ~(i > pos /\ i <= pos + n) /\ i <= Len(buf)
    <3>1. i \in 1 .. Len(buf)
      BY <1>1, <2>2
    <3>2. buf[i] \in Byte
      BY ONLY <3>1, buf \in Seq(Byte), ElementOfSeq
    <3> QED BY <2>2, <3>2
  <2>3. CASE ~(i > pos /\ i <= pos + n) /\ ~(i <= Len(buf))
    BY <2>3, BytesAssumption
  <2> QED BY <2>1, <2>2, <2>3
<1> HIDE DEF L
<1>6. new \in Seq(Byte) /\ Len(new) = L
  BY <1>3, <1>5
<1> HIDE DEF new, data
<1> QED BY <1>4, <1>6 DEF L, data

(* n bytes are written, all of those meant, or the error is noted. *)
LEMMA WritingInv ==
  ASSUME StdioInv, NEW s \in Slot, IsOpen(s), NEW c \in Put, NEW n \in Nat,
         Writing(s, c, n, n)
  PROVE  StdioInv'
<1> DEFINE fd == streams[s].fd
           old == streams[s]
           h == handles[fd]
           bytes == Times(n, c)
           data == Stored(h.data, h.pos, bytes)
           meant == IF old.error THEN old.meant ELSE Stored(old.meant, h.pos, bytes)
           new == [h EXCEPT !.data = data, !.pos = @ + n]
           st == [old EXCEPT !.meant = meant]
<1>1. /\ old \in OpenStream /\ streams \in [Slot -> OpenStream \cup {NoStream}]
      /\ handles \in [Fd -> OpenHandle \cup {Closed}]
      /\ fd # NoFd => fd \in Fd /\ h \in OpenHandle /\ Sound(old, h)
  BY Before
<1>2. UNCHANGED <<files, raw>>
  BY DEF Writing
<1>3. CASE ~MayStore(fd, n)
  BY <1>2, <1>3, FailedInv DEF Writing
<1>4. CASE MayStore(fd, n)
  <2>1. fd # NoFd /\ fd \in Fd /\ h \in OpenHandle /\ Sound(old, h)
    BY <1>1, <1>4 DEF MayStore
  <2>2. handles' = [handles EXCEPT ![fd] = new]
    <3>1. handles' = [handles EXCEPT ![fd].data = Stored(@, h.pos, bytes), ![fd].pos = @ + n]
      BY <1>4 DEF Writing
    <3> QED BY <1>1, <2>1, <3>1
  <2>3. streams' = [streams EXCEPT ![s] = st]
    <3>1. streams' = [streams EXCEPT ![s].meant =
                        IF old.error THEN @ ELSE Stored(@, h.pos, bytes)]
      BY <1>4 DEF Writing
    <3> QED BY <1>1, <3>1
  <2>4. c \in Byte /\ h.pos \in Nat /\ h.data \in Seq(Byte) /\ Len(h.data) \in Nat
    <3> HIDE DEF h
    <3> QED BY <2>1, BytesAssumption, HandleFacts
  <2>5. old.meant \in Seq(Byte)
    BY <1>1 DEF OpenStream
  <2>6. old.eof => old.ungot = NoByte /\ h.pos >= Len(h.data)
    BY <2>1 DEF Sound, Drained
  <2>7. ~old.error => old.meant = h.data
    BY <2>1 DEF Sound
  <2> HIDE DEF h, old
  <2>8. /\ data \in Seq(Byte)
        /\ Len(data) = IF h.pos + n > Len(h.data) THEN h.pos + n ELSE Len(h.data)
        /\ meant \in Seq(Byte)
    BY <2>4, <2>5, StoredFacts
  <2>9. ~old.error => meant = data
    BY <2>7
  <2> HIDE DEF data, meant, bytes
  <2>10. new \in OpenHandle /\ new.data = data /\ new.pos = h.pos + n
    <3> DEFINE grown == [h EXCEPT !.data = data]
    <3>1. /\ grown \in OpenHandle /\ grown.data = data /\ grown.pos = h.pos
      BY <2>1, <2>8 DEF OpenHandle
    <3>2. new = [grown EXCEPT !.pos = h.pos + n]
      OBVIOUS
    <3>3. h.pos + n \in Nat
      BY <2>4
    <3> HIDE DEF grown, new
    <3>4. new \in OpenHandle /\ new.pos = h.pos + n /\ new.data = grown.data
      BY <3>1, <3>2, <3>3, MovedHandle
    <3> QED BY <3>1, <3>4
  <2>11. /\ st \in OpenStream /\ st.fd = fd /\ st.eof = old.eof /\ st.ungot = old.ungot
         /\ st.error = old.error /\ st.meant = meant
    BY <1>1, <2>8 DEF OpenStream, old
  <2> HIDE DEF new, st
  <2>12. old.eof => h.pos + n >= Len(data)
    BY <2>4, <2>6, <2>8
  <2>13. Sound(st, new)
    BY <2>6, <2>9, <2>10, <2>11, <2>12 DEF Sound, Drained
  <2> QED BY <1>2, <2>1, <2>2, <2>3, <2>10, <2>11, <2>13, KeepingHandle
<1> QED BY <1>3, <1>4

(* fputc and fwrite. *)
LEMMA StoringInv ==
  ASSUME StdioInv, NEW s \in Slot, Storing(s)
  PROVE  StdioInv'
<1>1. PICK c \in Put : fputc(c, s) \/ \E size, nmemb \in Sizes : fwrite(c, size, nmemb, s)
  BY DEF Storing
<1>2. CASE fputc(c, s)
  BY <1>2, WritingInv DEF fputc
<1>3. ASSUME NEW size \in Sizes, NEW nmemb \in Sizes, fwrite(c, size, nmemb, s)
      PROVE  StdioInv'
  <2>1. size * nmemb \in Nat
    BY SizesFacts
  <2> QED BY <1>3, <2>1, WritingInv, FailedInv DEF fwrite
<1> QED BY <1>1, <1>2, <1>3

-----------------------------------------------------------------------------
(* The invariant, and what it says *)

(* At first nothing is open.                                               *)
LEMMA InitInv == Init => StdioInv
<1> SUFFICES ASSUME Init PROVE StdioInv
  OBVIOUS
<1>1. Files = {}
  BY DEF Init, Files, IsOpen, NoStream
<1>2. TypeOK
  BY BytesAssumption DEF Init, TypeOK
<1>3. {fd \in Fd : handles[fd].open} = {} /\ raw = {}
  BY DEF Init, Closed
<1>4. HandlesOwned
  BY <1>1, <1>3 DEF HandlesOwned
<1>5. StreamsInv
  BY <1>1 DEF StreamsInv
<1> QED BY <1>2, <1>4, <1>5 DEF StdioInv

(* No call and no failure breaks the invariant.                            *)
LEMMA NextInv == StdioInv /\ [Next]_vars => StdioInv'
<1> SUFFICES ASSUME StdioInv, [Next]_vars PROVE StdioInv'
  OBVIOUS
<1>1. CASE UNCHANGED vars
  <2>1. FilesOK(files')
    BY <1>1 DEF vars, StdioInv, TypeOK, FilesOK
  <2> QED BY <1>1, <2>1, FilesChange DEF vars
<1>2. ASSUME NEW s \in Slot, Opening(s)
      PROVE  StdioInv'
  BY <1>2, fopenInv, freopenInv, fdopenInv, freopen_sameInv, fcloseInv DEF Opening
<1>3. ASSUME NEW s \in Slot, Reading(s)
      PROVE  StdioInv'
  <2>1. CASE fgetc(s)
    BY <2>1, ReadsInv DEF fgetc
  <2> QED BY <1>3, <2>1, freadInv, fgetsInv, ungetcInv DEF Reading
<1>4. ASSUME NEW s \in Slot, Moving(s)
      PROVE  StdioInv'
  BY <1>4, fseekInv, rewindInv, clearerrInv DEF Moving
<1>5. ASSUME NEW name \in Name, remove(name) \/ \E m \in Mode : RawOpen(name, m)
      PROVE  StdioInv'
  BY <1>5, removeInv, RawOpenInv
<1> QED BY <1>1, <1>2, <1>3, <1>4, <1>5, StoringInv DEF Next

(* The invariant holds in every state.                                     *)
LEMMA InvariantHolds == Spec => []StdioInv
BY InitInv, NextInv, PTL DEF Spec

(* Files, handles and streams always have their types: no stream holds a   *)
(* number that is no handle, and no position is negative.                  *)
THEOREM TypeInvariant == Spec => []TypeOK
<1>1. StdioInv => TypeOK
  BY DEF StdioInv
<1> QED BY <1>1, InvariantHolds, PTL

(* Every handle the kernel has open is held by the program or by exactly   *)
(* one stream: no path through fopen, freopen, fdopen and fclose, out of   *)
(* memory or not, leaves one behind or shares one.                         *)
THEOREM HandlesAlwaysOwned == Spec => []HandlesOwned
<1>1. StdioInv => HandlesOwned
  BY DEF StdioInv
<1> QED BY <1>1, InvariantHolds, PTL

(* feof is never true of a stream that could still give a byte.            *)
THEOREM EofAlwaysTruthful == Spec => []EofTruthful
<1>1. StdioInv => EofTruthful
  <2> SUFFICES ASSUME StdioInv, NEW s \in Files, streams[s].eof, streams[s].fd # NoFd
               PROVE  Waiting(s) = <<>>
    BY DEF EofTruthful
  <2> DEFINE h == handles[streams[s].fd]
  <2>1. s \in Slot /\ IsOpen(s) /\ TypeOK /\ HandlesOwned
    BY DEF Files, StdioInv
  <2>2. Drained(streams[s], h)
    BY DEF StdioInv, StreamsInv, Sound
  <2>3. h \in OpenHandle
    BY <2>1, StreamFacts
  <2>4. /\ Len(Pushed(s)) = 0 <=> streams[s].ungot = NoByte
        /\ Len(Waiting(s)) = Len(Pushed(s)) + Rest(h)
        /\ Waiting(s) = <<>> <=> Len(Waiting(s)) = 0
    BY <2>1, WaitingFacts
  <2> HIDE DEF h
  <2>5. Rest(h) = 0
    BY <2>2, <2>3, HandleFacts DEF Rest, Drained
  <2> QED BY <2>2, <2>4, <2>5 DEF Drained
<1> QED BY <1>1, InvariantHolds, PTL

(* A stream that reports no error holds all that was written to it, where  *)
(* it was written.                                                         *)
THEOREM NothingLostInSilence == Spec => []NoSilentLoss
<1>1. StdioInv => NoSilentLoss
  BY DEF StdioInv, StreamsInv, Sound, NoSilentLoss
<1> QED BY <1>1, InvariantHolds, PTL

=============================================================================
