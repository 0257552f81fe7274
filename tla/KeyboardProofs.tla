--------------------------- MODULE KeyboardProofs ---------------------------
(***************************************************************************)
(* Proofs about Keyboard.tla for a ring of any size, any keyboard and any  *)
(* number of events: the ring is a queue of bytes, and keys come out of it *)
(* as they were meant.                                                     *)
(***************************************************************************)
EXTENDS Keyboard, SequenceTheorems, WellFoundedInduction, TLAPS

-----------------------------------------------------------------------------
(* Numbers *)

(* Multiplication by a natural number is monotonic. *)
LEMMA MulMono ==
  ASSUME NEW m \in Nat, NEW a \in Int, NEW b \in Int, a <= b
  PROVE  m * a <= m * b
  OBVIOUS

(* A set of natural numbers has a least member.                            *)
LEMMA Least ==
  ASSUME NEW S, S \subseteq Nat, S # {}
  PROVE  \E m \in S : \A n \in S : m <= n
<1>1. PICK m \in S : \A n \in S : <<n, m>> \notin OpToRel(<, Nat)
  BY NatLessThanWellFounded, WFMin
<1>2. ASSUME NEW n \in S PROVE ~(n < m)
  BY <1>1 DEF OpToRel
<1> QED BY <1>2

(* A remainder is fixed by its range. *)
LEMMA ModAt ==
  ASSUME NEW n \in Nat \ {0}, NEW a \in Int, NEW q \in Int, NEW r \in 0 .. n - 1, a = n * q + r
  PROVE  a % n = r
<1> DEFINE p == a \div n
           m == a % n
<1>1. p \in Int /\ m \in 0 .. n - 1 /\ a = n * p + m
  OBVIOUS
<1> HIDE DEF p, m
<1>2. CASE p = q
  BY <1>1, <1>2 DEF m
<1>3. CASE p + 1 <= q
  <2>1. n * (p + 1) <= n * q
    BY <1>1, <1>3, MulMono
  <2>2. n * (p + 1) = n * p + n
    BY <1>1
  <2> QED BY <1>1, <2>1, <2>2
<1>4. CASE q + 1 <= p
  <2>1. n * (q + 1) <= n * p
    BY <1>1, <1>4, MulMono
  <2>2. n * (q + 1) = n * q + n
    BY <1>1
  <2> QED BY <1>1, <2>1, <2>2
<1> QED BY <1>1, <1>2, <1>3, <1>4

(* The remainder of a number that is at most one lap from the range. *)
LEMMA WrapFacts ==
  ASSUME NEW n \in Nat \ {0}, NEW a \in Int, -n <= a, a < 2 * n
  PROVE  a % n = IF a < 0 THEN a + n ELSE IF a < n THEN a ELSE a - n
<1>1. CASE a < 0
  <2>1. a = n * (-1) + (a + n) /\ a + n \in 0 .. n - 1
    BY <1>1
  <2>2. a % n = a + n
    BY ONLY n \in Nat \ {0}, a \in Int, -1 \in Int, <2>1, ModAt
  <2> QED BY <1>1, <2>2
<1>2. CASE 0 <= a /\ a < n
  <2>1. a = n * 0 + a /\ a \in 0 .. n - 1
    BY <1>2
  <2>2. a % n = a
    BY ONLY n \in Nat \ {0}, a \in Int, 0 \in Int, <2>1, ModAt
  <2> QED BY <1>2, <2>2
<1>3. CASE n <= a
  <2>1. a = n * 1 + (a - n) /\ a - n \in 0 .. n - 1
    BY <1>3
  <2>2. a % n = a - n
    BY ONLY n \in Nat \ {0}, a \in Int, 1 \in Int, <2>1, ModAt
  <2> QED BY <1>3, <2>2
<1> QED BY <1>1, <1>2, <1>3

(* The reader holds the byte at the tail of the ring, which stays there.   *)
Peeked == reader = "take" => head # tail /\ scancode = buffer[tail]

-----------------------------------------------------------------------------
(* Types *)

(* The bytes a key sends. *)
LEMMA KeyBytes ==
  ASSUME NEW k \in Key
  PROVE  /\ k.code \in 0 .. 127 /\ k.extended \in BOOLEAN
         /\ k.code + RELEASE \in 128 .. 255 /\ k.code + RELEASE # PREFIX
         /\ Bytes(k, k.code) \in Seq(Byte) /\ Bytes(k, k.code + RELEASE) \in Seq(Byte)
         /\ k.code \in Byte /\ k.code + RELEASE \in Byte
<1>1. k.code \in 0 .. 127 /\ k.code # 96 /\ k.extended \in BOOLEAN
  BY KeysAssumption DEF RELEASE, PREFIX
<1>2. k.code \in Byte /\ k.code + RELEASE \in Byte /\ PREFIX \in Byte
  BY <1>1 DEF Byte, RELEASE, PREFIX
<1>3. ASSUME NEW b \in Byte PROVE Bytes(k, b) \in Seq(Byte)
  <2> HIDE DEF Byte, PREFIX
  <2> QED BY <1>2, <1>3 DEF Bytes
<1>4. Bytes(k, k.code) \in Seq(Byte) /\ Bytes(k, k.code + RELEASE) \in Seq(Byte)
  BY ONLY <1>2, <1>3
<1>5. k.code + RELEASE \in 128 .. 255 /\ k.code + RELEASE # PREFIX
  BY <1>1 DEF RELEASE, PREFIX
<1> QED BY ONLY <1>1, <1>2, <1>4, <1>5

(* The decoder keeps its type. *)
LEMMA DecodeType ==
  ASSUME NEW k \in Decoder, NEW sc \in Byte
  PROVE  Decode(k, sc) \in Decoder
<1>1. k.extended \in BOOLEAN /\ k.modifiers \in SUBSET MODS /\ k.caps_lock \in BOOLEAN
  BY DEF Decoder
<1>2. \A e, c : Modifier(e, c) \subseteq MODS
  BY DEF Modifier
<1> DEFINE mods == IF sc = PREFIX THEN k.modifiers
                   ELSE IF sc >= RELEASE
                   THEN k.modifiers \ Modifier(k.extended, sc - RELEASE)
                   ELSE k.modifiers \cup Modifier(k.extended, sc)
           lock == k.caps_lock # (sc = CAPS /\ ~k.extended)
           ext == sc = PREFIX
<1>3. mods \in SUBSET MODS
  BY <1>1, <1>2
<1>4. lock \in BOOLEAN /\ ext \in BOOLEAN
  <2>1. CASE lock = TRUE
    BY <2>1
  <2>2. CASE lock = FALSE
    BY <2>2
  <2> QED BY <2>1, <2>2
<1>5. Decode(k, sc) = [extended |-> ext, modifiers |-> mods, caps_lock |-> lock]
  BY DEF Decode
<1> HIDE DEF mods, lock, ext
<1> QED BY <1>3, <1>4, <1>5 DEF Decoder

(* The place after another in the ring. *)
Lap(i) == IF i < BUF_SIZE THEN i ELSE i - BUF_SIZE

(* One place on.                                                           *)
LEMMA SuccFacts ==
  ASSUME NEW i \in Cell
  PROVE  Succ(i) = Lap(i + 1) /\ Succ(i) \in Cell
<1> DEFINE a == i + 1
<1>1. BUF_SIZE \in Nat \ {0} /\ a \in Int /\ -BUF_SIZE <= a /\ a < 2 * BUF_SIZE /\ 0 <= a
  BY RingAssumption DEF Cell
<1> HIDE DEF a
<1>2. a % BUF_SIZE = IF a < 0 THEN a + BUF_SIZE ELSE IF a < BUF_SIZE THEN a ELSE a - BUF_SIZE
  BY ONLY <1>1, WrapFacts
<1>3. Succ(i) = Lap(a)
  BY <1>1, <1>2 DEF Lap, Succ, a
<1> QED BY <1>1, <1>3 DEF Lap, Cell, a

(* At first the ring is empty and nothing is read.                         *)
LEMMA InitTypes == Init => TypeOK /\ Peeked
BY RingAssumption DEF Init, TypeOK, Peeked, Cell, Byte, Decoder, MODS

(* No step breaks a type, and none moves or changes the byte being read.   *)
LEMMA NextTypes ==
  ASSUME TypeOK, Peeked, [Next]_vars
  PROVE  TypeOK' /\ Peeked'
<1> USE DEF ringVars, userVars, vars
<1>1. /\ buffer \in [Cell -> Byte] /\ head \in Cell /\ tail \in Cell /\ kbd \in Decoder
      /\ reader \in {"idle", "poll", "take", "flush"}
      /\ scancode \in Byte /\ wire \in Seq(Byte)
      /\ held \subseteq Key /\ caps \in BOOLEAN /\ intact \in BOOLEAN /\ events \in Nat
  BY DEF TypeOK
<1>2. CASE UNCHANGED vars
  BY <1>2 DEF TypeOK, Peeked
<1>3. ASSUME NEW k \in Key, Press(k)
      PROVE  TypeOK' /\ Peeked'
  <2>1. caps' \in BOOLEAN
    <3>1. caps' = (caps # (k.code = CAPS /\ ~k.extended))
      BY <1>3 DEF Press
    <3>2. CASE caps = (k.code = CAPS /\ ~k.extended)
      BY <3>1, <3>2
    <3>3. CASE caps # (k.code = CAPS /\ ~k.extended)
      BY <3>1, <3>3
    <3> QED BY <3>2, <3>3
  <2>2. wire' \in Seq(Byte)
    <3>1. wire' = wire \o Bytes(k, k.code)
      BY <1>3 DEF Press
    <3> HIDE DEF Byte
    <3> QED BY <1>1, <3>1, KeyBytes, ConcatProperties
  <2>3. /\ held' = held \cup {k} /\ events' = events + 1 /\ intact' \in BOOLEAN
        /\ UNCHANGED <<buffer, head, tail, kbd, reader, scancode>>
    BY <1>1, <1>3 DEF Press, Event, Spoil
  <2> QED BY <1>1, <2>1, <2>2, <2>3 DEF TypeOK, Peeked
<1>4. ASSUME NEW k \in Key, Release(k)
      PROVE  TypeOK' /\ Peeked'
  <2>1. wire' \in Seq(Byte)
    <3>1. wire' = wire \o Bytes(k, k.code + RELEASE)
      BY <1>4 DEF Release
    <3> HIDE DEF Byte
    <3> QED BY <1>1, <3>1, KeyBytes, ConcatProperties
  <2>2. /\ held' = held \ {k} /\ events' = events + 1
        /\ UNCHANGED <<buffer, head, tail, kbd, reader, scancode, caps, intact>>
    BY <1>4 DEF Release, Event
  <2> QED BY <1>1, <2>1, <2>2 DEF TypeOK, Peeked
<1>5. CASE keyboard_handler
  <2>1. wire' \in Seq(Byte) /\ Head(wire) \in Byte
    <3> HIDE DEF Byte
    <3> QED BY <1>1, <1>5, HeadTailProperties DEF keyboard_handler
  <2>2. UNCHANGED <<tail, kbd, reader, scancode, held, caps, events>> /\ intact' \in BOOLEAN
    BY <1>1, <1>5 DEF keyboard_handler, Stored, Spoil
  <2>3. CASE Stored
    <3>1. buffer' = [buffer EXCEPT ![head] = Head(wire)] /\ head' = Succ(head)
          /\ head' # tail /\ head' \in Cell
      BY <1>1, <2>3, SuccFacts DEF Stored
    <3>2. buffer' \in [Cell -> Byte] /\ (head # tail => buffer'[tail] = buffer[tail])
      BY <1>1, <2>1, <3>1
    <3> QED BY <1>1, <2>1, <2>2, <3>1, <3>2 DEF TypeOK, Peeked
  <2>4. CASE UNCHANGED <<buffer, head>>
    BY <1>1, <2>1, <2>2, <2>4 DEF TypeOK, Peeked
  <2> QED BY <1>5, <2>3, <2>4 DEF keyboard_handler
<1>6. CASE Call
  BY <1>1, <1>6 DEF Call, TypeOK, Peeked
<1>7. CASE Fetch
  BY <1>1, <1>7 DEF Fetch, TypeOK, Peeked
<1>8. CASE Take
  <2>1. /\ tail' = Succ(tail) /\ kbd' = Decode(kbd, scancode) /\ reader' = "idle"
        /\ UNCHANGED <<buffer, head, scancode, wire, held, caps, intact, events>>
    BY <1>8 DEF Take
  <2>2. tail' \in Cell /\ kbd' \in Decoder
    BY <1>1, <2>1, SuccFacts, DecodeType
  <2> QED BY <1>1, <2>1, <2>2 DEF TypeOK, Peeked
<1>9. CASE FlushByte
  <2>1. /\ tail' = Succ(tail) /\ intact' \in BOOLEAN /\ reader = "flush"
        /\ UNCHANGED <<buffer, head, kbd, reader, scancode, wire, held, caps, events>>
    BY <1>9 DEF FlushByte, Spoil
  <2>2. tail' \in Cell
    BY <1>1, <2>1, SuccFacts
  <2> QED BY <1>1, <2>1, <2>2 DEF TypeOK, Peeked
<1>10. CASE FlushEnd
  <2>1. /\ kbd' = [kbd EXCEPT !.extended = FALSE] /\ intact' \in BOOLEAN /\ reader' = "idle"
        /\ UNCHANGED <<ringVars, scancode, wire, held, caps, events>>
    BY <1>1, <1>10 DEF FlushEnd, Spoil
  <2>2. kbd' \in Decoder
    BY <1>1, <2>1 DEF Decoder
  <2> QED BY <1>1, <2>1, <2>2 DEF TypeOK, Peeked
<1> QED BY <1>2, <1>3, <1>4, <1>5, <1>6, <1>7, <1>8, <1>9, <1>10 DEF Next, ReaderStep

-----------------------------------------------------------------------------
(* The ring *)

RingOf(b, h, t) ==
  [i \in 1 .. (h - t) % BUF_SIZE |-> b[(t + i - 1) % BUF_SIZE]]
Count(h, t) == IF t <= h THEN h - t ELSE h - t + BUF_SIZE

(* The bytes between tail and head, which may lie on both ends of the      *)
(* buffer.                                                                 *)
LEMMA RingFacts ==
  ASSUME NEW b \in [Cell -> Byte], NEW h \in Cell, NEW t \in Cell
  PROVE  /\ RingOf(b, h, t) \in Seq(Byte) /\ Len(RingOf(b, h, t)) = Count(h, t)
         /\ Count(h, t) \in 0 .. BUF_SIZE - 1
         /\ \A i \in 1 .. Count(h, t) :
              RingOf(b, h, t)[i] = b[Lap(t + i - 1)] /\ Lap(t + i - 1) \in Cell
<1> DEFINE d == h - t
<1>1. BUF_SIZE \in Nat \ {0} /\ d \in Int /\ -BUF_SIZE <= d /\ d < 2 * BUF_SIZE
  BY RingAssumption DEF Cell
<1> HIDE DEF d
<1>2. d % BUF_SIZE = IF d < 0 THEN d + BUF_SIZE ELSE IF d < BUF_SIZE THEN d ELSE d - BUF_SIZE
  BY ONLY <1>1, WrapFacts
<1>3. d % BUF_SIZE = Count(h, t) /\ Count(h, t) \in 0 .. BUF_SIZE - 1
  BY <1>1, <1>2 DEF Count, Cell, d
<1> DEFINE c == Count(h, t)
<1>4. RingOf(b, h, t) = [i \in 1 .. c |-> b[(t + i - 1) % BUF_SIZE]]
  BY <1>3 DEF RingOf, d
<1> HIDE DEF c
<1>5. ASSUME NEW i \in 1 .. c
      PROVE  (t + i - 1) % BUF_SIZE = Lap(t + i - 1) /\ Lap(t + i - 1) \in Cell
  <2> DEFINE a == t + i - 1
  <2>1. BUF_SIZE \in Nat \ {0} /\ a \in Int /\ -BUF_SIZE <= a /\ a < 2 * BUF_SIZE /\ 0 <= a
        /\ a < 2 * BUF_SIZE
    BY <1>3, RingAssumption DEF Cell, c
  <2> HIDE DEF a
  <2>2. a % BUF_SIZE = IF a < 0 THEN a + BUF_SIZE ELSE IF a < BUF_SIZE THEN a ELSE a - BUF_SIZE
    BY ONLY <2>1, WrapFacts
  <2>3. a % BUF_SIZE = Lap(a) /\ Lap(a) \in Cell
    BY <2>1, <2>2 DEF Lap, Cell
  <2> QED BY <2>3 DEF a
<1>6. \A i \in 1 .. c : b[(t + i - 1) % BUF_SIZE] \in Byte
  BY <1>5
<1>7. c \in Nat
  BY <1>1, <1>3 DEF c
<1> HIDE DEF Byte
<1>8. RingOf(b, h, t) \in Seq(Byte) /\ Len(RingOf(b, h, t)) = c
  BY <1>4, <1>6, <1>7
<1>9. \A i \in 1 .. c : RingOf(b, h, t)[i] = b[Lap(t + i - 1)] /\ Lap(t + i - 1) \in Cell
  BY <1>4, <1>5
<1> QED BY <1>3, <1>8, <1>9 DEF c

(* The ring of Keyboard.tla, before a step and after it.                   *)
LEMMA RingIs == Ring = RingOf(buffer, head, tail) /\ Ring' = RingOf(buffer', head', tail')
BY DEF Ring, RingOf

(* A byte stored behind the others, where the ring has room.               *)
LEMMA RingAppend ==
  ASSUME NEW b \in [Cell -> Byte], NEW h \in Cell, NEW t \in Cell, NEW x \in Byte, Succ(h) # t
  PROVE  /\ RingOf([b EXCEPT ![h] = x], Succ(h), t) = Append(RingOf(b, h, t), x)
         /\ Len(RingOf(b, h, t)) < BUF_SIZE - 1
<1> DEFINE c == Count(h, t)
           old == RingOf(b, h, t)
           nb == [b EXCEPT ![h] = x]
           nh == Succ(h)
           new == RingOf(nb, nh, t)
<1>1. nb \in [Cell -> Byte] /\ nh \in Cell /\ nh = Lap(h + 1)
  BY SuccFacts
<1>2. nb[h] = x /\ \A j \in Cell : j # h => nb[j] = b[j]
  OBVIOUS
<1>3. /\ old \in Seq(Byte) /\ Len(old) = c /\ c \in 0 .. BUF_SIZE - 1
      /\ \A i \in 1 .. c : old[i] = b[Lap(t + i - 1)] /\ Lap(t + i - 1) \in Cell
  BY RingFacts
<1> HIDE DEF nb, nh
<1>4. /\ new \in Seq(Byte) /\ Len(new) = Count(nh, t)
      /\ \A i \in 1 .. Count(nh, t) : new[i] = nb[Lap(t + i - 1)] /\ Lap(t + i - 1) \in Cell
  BY <1>1, RingFacts
<1>5. BUF_SIZE \in Nat /\ BUF_SIZE > 1 /\ h \in 0 .. BUF_SIZE - 1 /\ t \in 0 .. BUF_SIZE - 1 /\ nh # t
  BY RingAssumption DEF Cell, nh
<1>6. Count(nh, t) = c + 1 /\ c < BUF_SIZE - 1
  BY <1>1, <1>5 DEF Count, Lap
<1>7. Lap(t + c) = h
  BY <1>5 DEF Lap, Count
<1>8. \A i \in 1 .. c : Lap(t + i - 1) # h
  BY <1>5, <1>6 DEF Lap, Count
<1> HIDE DEF c, old, new
<1>9. \A i \in 1 .. c : new[i] = old[i]
  BY <1>2, <1>3, <1>4, <1>6, <1>8
<1>10. new[c + 1] = x
  <2>1. c + 1 \in 1 .. c + 1 /\ t + (c + 1) - 1 = t + c
    BY <1>3, <1>5
  <2> QED BY <1>2, <1>4, <1>6, <1>7, <2>1
<1> HIDE DEF Byte
<1>11. /\ Append(old, x) \in Seq(Byte) /\ Len(Append(old, x)) = c + 1
       /\ \A i \in 1 .. c : Append(old, x)[i] = old[i]
       /\ Append(old, x)[c + 1] = x
  BY <1>3, AppendProperties
<1>12. new = Append(old, x)
  <2>1. \A i \in 1 .. c + 1 : new[i] = Append(old, x)[i]
    BY <1>3, <1>9, <1>10, <1>11
  <2> QED BY <1>4, <1>6, <1>11, <2>1, SeqEqual
<1> QED BY <1>3, <1>6, <1>12 DEF old, new, nb, nh

(* The oldest byte, and the ring without it.                               *)
LEMMA RingTail ==
  ASSUME NEW b \in [Cell -> Byte], NEW h \in Cell, NEW t \in Cell, h # t
  PROVE  /\ RingOf(b, h, t) # <<>> /\ Head(RingOf(b, h, t)) = b[t]
         /\ RingOf(b, h, Succ(t)) = Tail(RingOf(b, h, t))
<1> DEFINE c == Count(h, t)
           old == RingOf(b, h, t)
           nt == Succ(t)
           new == RingOf(b, h, nt)
<1>1. nt \in Cell /\ nt = Lap(t + 1)
  BY SuccFacts
<1>2. /\ old \in Seq(Byte) /\ Len(old) = c /\ c \in 0 .. BUF_SIZE - 1
      /\ \A i \in 1 .. c : old[i] = b[Lap(t + i - 1)] /\ Lap(t + i - 1) \in Cell
  BY RingFacts
<1> HIDE DEF nt
<1>3. /\ new \in Seq(Byte) /\ Len(new) = Count(h, nt)
      /\ \A i \in 1 .. Count(h, nt) : new[i] = b[Lap(nt + i - 1)] /\ Lap(nt + i - 1) \in Cell
  BY <1>1, RingFacts
<1>4. BUF_SIZE \in Nat /\ BUF_SIZE > 1 /\ h \in 0 .. BUF_SIZE - 1 /\ t \in 0 .. BUF_SIZE - 1
  BY RingAssumption DEF Cell
<1>5. Count(h, nt) = c - 1 /\ c > 0
  BY <1>1, <1>4 DEF Count, Lap
<1>6. Lap(t + 1 - 1) = t
  BY <1>4 DEF Lap
<1>7. \A i \in 1 .. c - 1 : Lap(nt + i - 1) = Lap(t + (i + 1) - 1)
  BY <1>1, <1>4, <1>5 DEF Lap, Count
<1> HIDE DEF c, old, new, Byte
<1>8. old # <<>> /\ Head(old) = b[t]
  <2>1. Len(old) > 0 /\ 1 \in 1 .. c
    BY <1>2, <1>5
  <2>2. old # <<>>
    BY <1>2, <2>1, EmptySeq
  <2> QED BY <1>2, <1>6, <2>1, <2>2, HeadTailProperties
<1>9. /\ Tail(old) \in Seq(Byte) /\ Len(Tail(old)) = c - 1
      /\ \A i \in 1 .. c - 1 : Tail(old)[i] = old[i + 1]
  BY <1>2, <1>8, HeadTailProperties
<1>10. new = Tail(old)
  <2>1. ASSUME NEW i \in 1 .. c - 1 PROVE new[i] = Tail(old)[i]
    <3>1. i + 1 \in 1 .. c
      BY <1>2
    <3> QED BY <1>2, <1>3, <1>5, <1>7, <1>9, <3>1
  <2> QED BY <1>3, <1>5, <1>9, <2>1, SeqEqual
<1> QED BY <1>8, <1>10 DEF old, new, nt

-----------------------------------------------------------------------------
(* The ring implements the queue *)

queueVars == <<Ring, reader = "take", scancode>>

(* What a step does to the variables that the ring is made of decides what *)
(* it does to the queue.                                                   *)
LEMMA QueueStutters ==
  ASSUME UNCHANGED <<buffer, head, tail>>, (reader = "take") <=> (reader' = "take"),
         UNCHANGED scancode
  PROVE  UNCHANGED queueVars
<1>1. Ring' = Ring
  BY RingIs DEF RingOf
<1>2. (reader = "take")' = (reader = "take")
  OBVIOUS
<1> QED BY <1>1, <1>2 DEF queueVars

(* At first both are empty.                                                *)
LEMMA QueueInit == Init => Queue!Init
<1> SUFFICES ASSUME Init PROVE Queue!Init
  OBVIOUS
<1>1. buffer \in [Cell -> Byte] /\ head \in Cell /\ tail \in Cell /\ scancode \in Byte
      /\ head = tail
  BY RingAssumption DEF Init, Cell, Byte
<1>2. Ring \in Seq(Byte) /\ Len(Ring) = Count(head, tail)
  BY <1>1, RingFacts, RingIs
<1>3. Count(head, tail) = 0
  BY <1>1 DEF Count, Cell
<1>4. Ring = <<>>
  BY <1>2, <1>3, EmptySeq
<1>5. (reader = "take") = FALSE
  BY DEF Init
<1> QED BY <1>1, <1>4, <1>5 DEF Queue!Init

(* Every step of the driver is a step of the queue or leaves it alone.     *)
LEMMA QueueNext ==
  ASSUME TypeOK, Peeked, [Next]_vars
  PROVE  [Queue!Next]_queueVars
<1> USE DEF ringVars, userVars, vars
<1>1. buffer \in [Cell -> Byte] /\ head \in Cell /\ tail \in Cell /\ wire \in Seq(Byte)
  BY DEF TypeOK
<1>2. Ring = RingOf(buffer, head, tail) /\ Ring' = RingOf(buffer', head', tail')
  BY RingIs
<1>3. CASE UNCHANGED vars
  BY <1>3, QueueStutters
<1>4. ASSUME NEW k \in Key, Press(k) \/ Release(k)
      PROVE  UNCHANGED queueVars
  BY <1>4, QueueStutters DEF Press, Release
<1>5. CASE keyboard_handler
  <2>1. Head(wire) \in Byte
    <3> HIDE DEF Byte
    <3> QED BY <1>1, <1>5, HeadTailProperties DEF keyboard_handler
  <2>2. UNCHANGED <<tail, reader, scancode>>
    BY <1>5 DEF keyboard_handler
  <2>3. CASE Stored
    <3>1. buffer' = [buffer EXCEPT ![head] = Head(wire)] /\ head' = Succ(head) /\ Succ(head) # tail
      BY <2>3 DEF Stored
    <3>2. Ring' = Append(Ring, Head(wire)) /\ Len(Ring) < BUF_SIZE - 1
      BY <1>1, <1>2, <2>1, <2>2, <3>1, RingAppend
    <3>3. (reader = "take")' = (reader = "take")
      BY <2>2
    <3>4. Queue!Accept(Head(wire))
      BY <2>2, <3>2, <3>3 DEF Queue!Accept
    <3> QED BY <2>1, <3>4 DEF Queue!Next
  <2>4. CASE UNCHANGED <<buffer, head>>
    BY <2>2, <2>4, QueueStutters
  <2> QED BY <1>5, <2>3, <2>4 DEF keyboard_handler
<1>6. CASE Call
  <2>1. UNCHANGED <<buffer, head, tail, scancode>> /\ reader = "idle" /\ reader' \in {"poll", "flush"}
    BY <1>6 DEF Call
  <2> QED BY <2>1, QueueStutters
<1>7. CASE Fetch
  <2>1. /\ reader = "poll" /\ head # tail /\ scancode' = buffer[tail] /\ reader' = "take"
        /\ UNCHANGED <<buffer, head, tail>>
    BY <1>7 DEF Fetch
  <2>2. Ring # <<>> /\ Head(Ring) = buffer[tail]
    BY <1>1, <1>2, <2>1, RingTail
  <2>3. Ring' = Ring
    BY <1>2, <2>1
  <2>4. (reader = "take") = FALSE /\ (reader = "take")' = TRUE
    BY <2>1
  <2>5. Queue!Peek
    BY <2>1, <2>2, <2>3, <2>4 DEF Queue!Peek
  <2> QED BY <2>5 DEF Queue!Next
<1>8. CASE Take \/ FlushByte
  <2>1. /\ tail' = Succ(tail) /\ head # tail /\ UNCHANGED <<buffer, head, scancode>>
        /\ (reader = "take" => scancode = buffer[tail]) /\ reader' # "take"
    BY <1>8 DEF Take, FlushByte, Peeked
  <2>2. Ring # <<>> /\ Head(Ring) = buffer[tail] /\ Ring' = Tail(Ring)
    BY <1>1, <1>2, <2>1, RingTail
  <2>3. (reader = "take")' = FALSE
    BY <2>1
  <2>4. Queue!Remove
    BY <2>1, <2>2, <2>3 DEF Queue!Remove
  <2> QED BY <2>4 DEF Queue!Next
<1>9. CASE FlushEnd
  BY <1>9, QueueStutters DEF FlushEnd
<1> QED BY <1>3, <1>4, <1>5, <1>6, <1>7, <1>8, <1>9 DEF Next, ReaderStep

(* Types, and the byte being read, in every state.                         *)
LEMMA TypesHold == Spec => [](TypeOK /\ Peeked)
<1>1. TypeOK /\ Peeked /\ [Next]_vars => (TypeOK /\ Peeked)'
  BY NextTypes
<1> QED BY <1>1, InitTypes, PTL DEF Spec

(* head, tail and buffer, written by an interrupt handler and a reader     *)
(* that never lock, are a queue of at most BUF_SIZE - 1 bytes: no accepted *)
(* byte is overwritten, lost, repeated or overtaken, also when the ring is *)
(* full.                                                                   *)
THEOREM RingIsQueue == Spec => ImplementsByteQueue
<1>1. TypeOK /\ Peeked /\ [Next]_vars => [Queue!Next]_queueVars
  BY QueueNext
<1>2. Spec => Queue!Init
  BY QueueInit, PTL DEF Spec
<1>3. Spec => [][Queue!Next]_queueVars
  BY <1>1, TypesHold, PTL DEF Spec
<1> QED BY <1>2, <1>3, PTL DEF ImplementsByteQueue, Queue!Spec, queueVars

-----------------------------------------------------------------------------
(* Decoding one byte after the other *)

Shown == {<<Char(k, b), Decode(k, b).modifiers>> : k \in Decoder, b \in Byte}
Report == [kbd : Decoder, out : Seq(Shown)]
Start(k) == [kbd |-> k, out |-> <<>>]

(* f[i] is what came out of the first i bytes.                             *)
Steps(f, bytes, n) == \A i \in 1 .. n : f[i] = Decoded(f[i - 1], bytes[i])
Run(f, k, bytes) ==
  f \in [0 .. Len(bytes) -> Report] /\ f[0] = Start(k) /\ Steps(f, bytes, Len(bytes))

(* What came out has a type, which a further byte keeps.                   *)
LEMMA ReportTypes ==
  ASSUME NEW k \in Decoder
  PROVE  /\ Start(k) \in Report
         /\ \A r \in Report, b \in Byte : Decoded(r, b) \in Report
<1>1. Start(k) \in Report
  BY EmptySeq DEF Start, Report
<1>2. ASSUME NEW r \in Report, NEW b \in Byte
      PROVE  Decoded(r, b) \in Report
  <2> DEFINE x == <<Char(r.kbd, b), Decode(r.kbd, b).modifiers>>
             out == IF Char(r.kbd, b) = NoChar THEN r.out ELSE Append(r.out, x)
  <2>1. r.kbd \in Decoder /\ r.out \in Seq(Shown)
    BY DEF Report
  <2>2. x \in Shown
    BY <2>1 DEF Shown
  <2>3. Decode(r.kbd, b) \in Decoder
    BY <2>1, DecodeType
  <2> HIDE DEF x
  <2>4. out \in Seq(Shown)
    BY <2>1, <2>2, AppendProperties
  <2>5. Decoded(r, b) = [kbd |-> Decode(r.kbd, b), out |-> out]
    BY DEF Decoded, x
  <2> HIDE DEF out
  <2> QED BY <2>3, <2>4, <2>5 DEF Report
<1> QED BY <1>1, <1>2

(* Two runs over the same bytes agree: the first step at which they do not *)
(* would have to come after one at which they do.                          *)
LEMMA RunUnique ==
  ASSUME NEW bytes, NEW n \in Nat, NEW f, NEW g,
         f[0] = g[0], Steps(f, bytes, n), Steps(g, bytes, n)
  PROVE  \A i \in 0 .. n : f[i] = g[i]
<1> DEFINE S == {i \in 0 .. n : f[i] # g[i]}
<1>1. SUFFICES ASSUME S # {} PROVE FALSE
  OBVIOUS
<1>2. S \subseteq Nat
  OBVIOUS
<1> HIDE DEF S
<1>3. PICK m \in S : \A i \in S : m <= i
  BY <1>1, <1>2, Least
<1>4. m \in 1 .. n /\ f[m] # g[m]
  BY <1>3 DEF S
<1>5. m - 1 \in 0 .. n /\ m - 1 \notin S
  BY <1>2, <1>3, <1>4
<1>6. f[m - 1] = g[m - 1]
  BY <1>5 DEF S
<1> QED BY <1>4, <1>6 DEF Steps

(* There is a run over any bytes: the shortest prefix without one would    *)
(* extend a prefix that has one.                                           *)
LEMMA RunExists ==
  ASSUME NEW k \in Decoder, NEW bytes \in Seq(Byte)
  PROVE  \E f : Run(f, k, bytes)
<1> DEFINE Upto(f, n) ==
             /\ f \in [0 .. n -> Report] /\ f[0] = Start(k)
             /\ \A i \in 1 .. n : f[i] = Decoded(f[i - 1], bytes[i])
           S == {n \in 0 .. Len(bytes) : ~ \E f : Upto(f, n)}
<1>1. Len(bytes) \in Nat
  OBVIOUS
<1>2. SUFFICES ASSUME S # {} PROVE FALSE
  BY <1>1 DEF Run, Steps
<1>3. PICK m \in S : \A n \in S : m <= n
  <2>1. S \subseteq Nat
    OBVIOUS
  <2> HIDE DEF S
  <2> QED BY <1>2, <2>1, Least
<1>4. m \in 0 .. Len(bytes) /\ ~ \E f : Upto(f, m)
  BY <1>3
<1>5. m # 0
  <2>1. SUFFICES ASSUME m = 0 PROVE FALSE
    OBVIOUS
  <2>2. Upto([i \in 0 .. 0 |-> Start(k)], 0)
    BY ReportTypes
  <2> HIDE DEF Upto
  <2> QED BY <1>4, <2>1, <2>2
<1>6. m - 1 \in 0 .. Len(bytes) /\ m - 1 \notin S
  <2> HIDE DEF S, Upto
  <2> QED BY <1>1, <1>3, <1>4, <1>5
<1>7. PICK f : Upto(f, m - 1)
  <2> HIDE DEF Upto
  <2> QED BY <1>6
<1> DEFINE g == [i \in 0 .. m |-> IF i = m THEN Decoded(f[m - 1], bytes[m]) ELSE f[i]]
<1>8. bytes[m] \in Byte /\ m \in Nat /\ m > 0
  <2>1. m \in 1 .. Len(bytes)
    BY <1>4, <1>5
  <2> HIDE DEF Byte
  <2> QED BY <1>1, <2>1, ElementOfSeq
<1>9. f \in [0 .. m - 1 -> Report] /\ f[0] = Start(k)
      /\ \A i \in 1 .. m - 1 : f[i] = Decoded(f[i - 1], bytes[i])
  BY <1>7
<1>10. Decoded(f[m - 1], bytes[m]) \in Report
  <2>1. f[m - 1] \in Report
    BY <1>8, <1>9
  <2> QED BY <1>8, <2>1, ReportTypes
<1>11. g \in [0 .. m -> Report]
  BY <1>8, <1>9, <1>10
<1>12. g[0] = Start(k)
  BY <1>8, <1>9
<1>13. ASSUME NEW i \in 1 .. m PROVE g[i] = Decoded(g[i - 1], bytes[i])
  <2>1. i \in 0 .. m /\ i - 1 \in 0 .. m /\ i - 1 # m /\ g[i - 1] = f[i - 1]
    BY <1>8
  <2>2. CASE i = m
    BY <2>1, <2>2
  <2>3. CASE i # m
    <3>1. i \in 1 .. m - 1 /\ g[i] = f[i]
      BY <1>8, <2>3
    <3> HIDE DEF g
    <3> QED BY <1>9, <2>1, <3>1
  <2> QED BY <2>2, <2>3
<1> HIDE DEF g
<1>14. Upto(g, m)
  BY <1>11, <1>12, <1>13
<1> QED BY <1>4, <1>14

(* Decoding is what comes out at the end of the run.                       *)
LEMMA DecodingRun ==
  ASSUME NEW k \in Decoder, NEW bytes \in Seq(Byte), NEW f, Run(f, k, bytes)
  PROVE  Decoding(k, bytes) = f[Len(bytes)]
<1> DEFINE F(g) == [i \in 0 .. Len(bytes) |->
                      IF i = 0 THEN [kbd |-> k, out |-> <<>>] ELSE Decoded(g[i - 1], bytes[i])]
           done == CHOOSE g : g = F(g)
<1>1. Decoding(k, bytes) = done[Len(bytes)]
  BY DEF Decoding
<1>2. Len(bytes) \in Nat
  OBVIOUS
<1>3. f = F(f)
  <2>1. /\ f \in [0 .. Len(bytes) -> Report] /\ f[0] = [kbd |-> k, out |-> <<>>]
        /\ \A i \in 1 .. Len(bytes) : f[i] = Decoded(f[i - 1], bytes[i])
    BY DEF Run, Steps, Start
  <2>2. \A i \in 0 .. Len(bytes) : f[i] = F(f)[i]
    BY <1>2, <2>1
  <2> QED BY <2>1, <2>2
<1>4. done = F(done)
  <2>1. \E g : g = F(g)
    BY <1>3
  <2> HIDE DEF F
  <2> QED BY <2>1
<1>5. /\ done[0] = f[0]
      /\ \A i \in 1 .. Len(bytes) : done[i] = Decoded(done[i - 1], bytes[i])
                                  /\ f[i] = Decoded(f[i - 1], bytes[i])
  <2> HIDE DEF done
  <2>1. \A g : F(g)[0] = [kbd |-> k, out |-> <<>>]
               /\ \A i \in 1 .. Len(bytes) : F(g)[i] = Decoded(g[i - 1], bytes[i])
    BY <1>2
  <2> HIDE DEF F
  <2> QED BY <1>3, <1>4, <2>1
<1> HIDE DEF done, F
<1>6. \A i \in 0 .. Len(bytes) : done[i] = f[i]
  <2>1. Steps(done, bytes, Len(bytes)) /\ Steps(f, bytes, Len(bytes))
    BY <1>5 DEF Steps
  <2> QED BY ONLY <1>2, <1>5, <2>1, RunUnique
<1> QED BY <1>1, <1>2, <1>6

(* Decoding has the type of a run, and is the end of one.                  *)
LEMMA DecodingFacts ==
  ASSUME NEW k \in Decoder, NEW bytes \in Seq(Byte)
  PROVE  /\ Decoding(k, bytes) \in Report
         /\ \E f : Run(f, k, bytes) /\ Decoding(k, bytes) = f[Len(bytes)]
<1>1. PICK f : Run(f, k, bytes)
  BY RunExists
<1>2. Decoding(k, bytes) = f[Len(bytes)]
  BY <1>1, DecodingRun
<1>3. f \in [0 .. Len(bytes) -> Report] /\ Len(bytes) \in 0 .. Len(bytes)
  BY <1>1 DEF Run
<1> QED BY <1>1, <1>2, <1>3

(* Nothing comes out of nothing.                                           *)
LEMMA DecodingEmpty ==
  ASSUME NEW k \in Decoder
  PROVE  Decoding(k, <<>>) = Start(k)
<1>1. <<>> \in Seq(Byte) /\ Len(<<>>) = 0
  BY EmptySeq
<1>2. PICK f : Run(f, k, <<>>) /\ Decoding(k, <<>>) = f[Len(<<>>)]
  BY <1>1, DecodingFacts
<1> QED BY <1>1, <1>2 DEF Run

(* A byte sent later comes out after the others.                           *)
LEMMA DecodingAppend ==
  ASSUME NEW k \in Decoder, NEW bytes \in Seq(Byte), NEW b \in Byte
  PROVE  Decoding(k, Append(bytes, b)) = Decoded(Decoding(k, bytes), b)
<1> DEFINE n == Len(bytes)
           more == Append(bytes, b)
<1>1. PICK f : Run(f, k, bytes) /\ Decoding(k, bytes) = f[Len(bytes)]
  BY DecodingFacts
<1>2. /\ f \in [0 .. n -> Report] /\ f[0] = Start(k)
      /\ \A i \in 1 .. n : f[i] = Decoded(f[i - 1], bytes[i])
      /\ Decoding(k, bytes) = f[n]
  BY <1>1 DEF Run, Steps
<1> DEFINE g == [i \in 0 .. n + 1 |-> IF i = n + 1 THEN Decoded(f[n], b) ELSE f[i]]
<1>3. n \in Nat
  OBVIOUS
<1>4. /\ more \in Seq(Byte) /\ Len(more) = n + 1
      /\ \A i \in 1 .. n : more[i] = bytes[i]
      /\ more[n + 1] = b
  <2> HIDE DEF Byte
  <2> QED BY AppendProperties
<1> HIDE DEF n, more
<1>5. Decoded(f[n], b) \in Report
  <2>1. f[n] \in Report
    BY <1>2, <1>3
  <2> QED BY <2>1, ReportTypes
<1>6. g \in [0 .. n + 1 -> Report] /\ g[0] = Start(k) /\ g[n + 1] = Decoded(f[n], b)
      /\ \A i \in 0 .. n : g[i] = f[i]
  BY <1>2, <1>3, <1>5
<1> HIDE DEF g
<1>7. ASSUME NEW i \in 1 .. n + 1 PROVE g[i] = Decoded(g[i - 1], more[i])
  <2>1. i - 1 \in 0 .. n /\ g[i - 1] = f[i - 1]
    BY <1>3, <1>6
  <2>2. CASE i = n + 1
    BY <1>3, <1>4, <1>6, <2>1, <2>2
  <2>3. CASE i # n + 1
    <3>1. i \in 1 .. n /\ i \in 0 .. n
      BY <1>3, <2>3
    <3> QED BY <1>2, <1>4, <1>6, <2>1, <3>1
  <2> QED BY <2>2, <2>3
<1>8. Run(g, k, more)
  BY <1>4, <1>6, <1>7 DEF Run, Steps
<1>9. Decoding(k, more) = g[n + 1]
  BY <1>4, <1>8, DecodingRun
<1> QED BY <1>2, <1>6, <1>9 DEF more

(* The tail of a sequence that grew. *)
LEMMA TailAppend ==
  ASSUME NEW S, NEW s \in Seq(S), NEW x \in S
  PROVE  /\ Append(s, x) # <<>>
         /\ s = <<>> => Tail(Append(s, x)) = <<>>
         /\ s # <<>> => Tail(Append(s, x)) = Append(Tail(s), x)
BY AppendProperties, HeadTailAppend

(* r is what came out after the first byte gave `first`, and q what came   *)
(* out of the same bytes without that one.                                 *)
Follows(first, q, r) ==
  /\ r.kbd = q.kbd
  /\ first.out = <<>> => r.out = q.out
  /\ first.out # <<>> => r.out # <<>> /\ Tail(r.out) = q.out

(* It stays so with each byte that follows.                                *)
LEMMA FollowsOn ==
  ASSUME NEW first, NEW q \in Report, NEW r \in Report, NEW b \in Byte, Follows(first, q, r)
  PROVE  Follows(first, Decoded(q, b), Decoded(r, b))
<1> DEFINE c == Char(r.kbd, b)
           x == <<c, Decode(r.kbd, b).modifiers>>
<1>1. r.kbd = q.kbd /\ r.kbd \in Decoder /\ r.out \in Seq(Shown) /\ q.out \in Seq(Shown)
  BY DEF Follows, Report
<1>2. x \in Shown
  BY <1>1 DEF Shown
<1>3. /\ Decoded(r, b).kbd = Decoded(q, b).kbd
      /\ Decoded(r, b).out = IF c = NoChar THEN r.out ELSE Append(r.out, x)
      /\ Decoded(q, b).out = IF c = NoChar THEN q.out ELSE Append(q.out, x)
  BY <1>1 DEF Decoded
<1> HIDE DEF c, x
<1>4. r.out # <<>> => Append(r.out, x) # <<>> /\ Tail(Append(r.out, x)) = Append(Tail(r.out), x)
  BY <1>1, <1>2, TailAppend
<1> QED BY <1>3, <1>4 DEF Follows

(* What comes out when the first byte has been read is what was to come    *)
(* out after its key.                                                      *)
LEMMA DecodingTail ==
  ASSUME NEW k \in Decoder, NEW bytes \in Seq(Byte), bytes # <<>>
  PROVE  LET first == Decoded(Start(k), Head(bytes))
         IN  Follows(first, Decoding(first.kbd, Tail(bytes)), Decoding(k, bytes))
<1> DEFINE first == Decoded(Start(k), Head(bytes))
           rest == Tail(bytes)
           n == Len(bytes)
<1>1. n \in Nat /\ n > 0
  BY EmptySeq
<1>2. /\ rest \in Seq(Byte) /\ Len(rest) = n - 1 /\ Head(bytes) \in Byte
      /\ \A i \in 1 .. n - 1 : rest[i] = bytes[i + 1] /\ rest[i] \in Byte
  <2> HIDE DEF Byte
  <2> QED BY HeadTailProperties, ElementOfSeq
<1>3. Head(bytes) = bytes[1]
  OBVIOUS
<1>4. Start(k) \in Report /\ first \in Report /\ first.kbd \in Decoder
  BY <1>2, ReportTypes DEF Report
<1>5. PICK f : Run(f, k, bytes) /\ Decoding(k, bytes) = f[Len(bytes)]
  BY DecodingFacts
<1> HIDE DEF first
<1>6. PICK g : Run(g, first.kbd, rest) /\ Decoding(first.kbd, rest) = g[Len(rest)]
  BY <1>2, <1>4, DecodingFacts
<1> HIDE DEF rest
<1>7. /\ f \in [0 .. n -> Report] /\ f[0] = Start(k)
      /\ \A i \in 1 .. n : f[i] = Decoded(f[i - 1], bytes[i])
      /\ Decoding(k, bytes) = f[n]
  BY <1>5 DEF Run, Steps
<1>8. /\ g \in [0 .. n - 1 -> Report] /\ g[0] = Start(first.kbd)
      /\ \A i \in 1 .. n - 1 : g[i] = Decoded(g[i - 1], rest[i])
      /\ Decoding(first.kbd, rest) = g[n - 1]
  BY <1>2, <1>6 DEF Run, Steps
<1> HIDE DEF n
<1>9. Follows(first, g[0], f[1])
  <2>1. f[1] = first
    BY <1>1, <1>3, <1>7 DEF first
  <2>2. first.out # <<>> => Tail(first.out) = <<>>
    <3> DEFINE x == <<Char(k, Head(bytes)), Decode(k, Head(bytes)).modifiers>>
    <3>1. first.out = IF Char(k, Head(bytes)) = NoChar THEN <<>> ELSE Append(<<>>, x)
      BY DEF first, Decoded, Start
    <3>2. x \in Shown /\ <<>> \in Seq(Shown)
      BY <1>2, EmptySeq DEF Shown
    <3> HIDE DEF x
    <3>3. Tail(Append(<<>>, x)) = <<>>
      BY <3>2, TailAppend
    <3> QED BY <3>1, <3>3
  <2> QED BY <1>8, <2>1, <2>2 DEF Follows, Start
<1> DEFINE S == {i \in 0 .. n - 1 : ~Follows(first, g[i], f[i + 1])}
<1>10. S = {}
  <2>1. SUFFICES ASSUME S # {} PROVE FALSE
    OBVIOUS
  <2>2. S \subseteq Nat
    OBVIOUS
  <2> HIDE DEF S
  <2>3. PICK m \in S : \A i \in S : m <= i
    BY <2>1, <2>2, Least
  <2>4. m \in 0 .. n - 1 /\ ~Follows(first, g[m], f[m + 1])
    BY <2>3 DEF S
  <2>5. m \in 1 .. n - 1
    <3>1. m # 0
      <4>1. CASE m = 0
        <5>1. m + 1 = 1
          BY <4>1
        <5> QED BY <1>9, <2>4, <4>1, <5>1
      <4> QED BY <4>1
    <3> QED BY <1>1, <2>4, <3>1
  <2>6. m - 1 \in 0 .. n - 1 /\ m - 1 \notin S
    BY <1>1, <2>2, <2>3, <2>5
  <2>7. Follows(first, g[m - 1], f[m])
    <3>1. (m - 1) + 1 = m
      BY <2>5
    <3> QED BY <2>6, <3>1 DEF S
  <2>8. g[m] = Decoded(g[m - 1], rest[m]) /\ f[m + 1] = Decoded(f[m], rest[m]) /\ rest[m] \in Byte
    <3>1. m + 1 \in 1 .. n /\ (m + 1) - 1 = m
      BY <1>1, <2>5
    <3> QED BY <1>2, <1>7, <1>8, <2>5, <3>1
  <2>9. g[m - 1] \in Report /\ f[m] \in Report
    BY <1>1, <1>7, <1>8, <2>5, <2>6
  <2> QED BY <2>4, <2>7, <2>8, <2>9, FollowsOn
<1>11. Follows(first, g[n - 1], f[n])
  <2>1. n - 1 \in 0 .. n - 1 /\ (n - 1) + 1 = n
    BY <1>1
  <2> QED BY <1>10, <2>1
<1> QED BY <1>7, <1>8, <1>11 DEF first, rest

-----------------------------------------------------------------------------
(* A key pressed and released *)

Plain(mods, lock) == [extended |-> FALSE, modifiers |-> mods, caps_lock |-> lock]
Before(mods, lock, out) == [kbd |-> Plain(mods, lock), out |-> out]

(* What comes out once the bytes of a key are read too. *)
After(r, k, code) == IF k.extended THEN Decoded(Decoded(r, PREFIX), code) ELSE Decoded(r, code)

(* The prefix changes nothing but the meaning of the next byte.            *)
LEMMA PrefixDecoded ==
  ASSUME NEW mods, NEW lock \in BOOLEAN, NEW out
  PROVE  Decoded(Before(mods, lock, out), PREFIX)
           = [kbd |-> [extended |-> TRUE, modifiers |-> mods, caps_lock |-> lock], out |-> out]
<1> DEFINE r == Before(mods, lock, out)
<1>1. r.kbd.extended = FALSE /\ r.kbd.modifiers = mods /\ r.kbd.caps_lock = lock /\ r.out = out
  BY DEF Before, Plain
<1> HIDE DEF r
<1>2. PREFIX >= RELEASE /\ ~(PREFIX = CAPS)
  BY DEF PREFIX, RELEASE, CAPS
<1>3. Char(r.kbd, PREFIX) = NoChar
  BY <1>2 DEF Char
<1>4. (lock # (PREFIX = CAPS /\ ~r.kbd.extended)) = lock
  <2>1. CASE lock = TRUE
    BY <1>2, <2>1
  <2>2. CASE lock = FALSE
    BY <1>2, <2>2
  <2> QED BY <2>1, <2>2
<1>5. Decode(r.kbd, PREFIX) = [extended |-> TRUE, modifiers |-> mods, caps_lock |-> lock]
  BY <1>1, <1>4 DEF Decode
<1> QED BY <1>1, <1>3, <1>5 DEF Decoded, r

(* A key that gives a character is no modifier. *)
LEMMA ShownKeys ==
  ASSUME NEW k, NEW code \in 0 .. 127, Char(k, code) # NoChar
  PROVE  Modifier(k.extended, code) = {}
<1>1. ~(code >= RELEASE)
  BY DEF RELEASE
<1>2. CASE k.extended
  <2>1. \E a \in Arrows : a[1] = code
    BY <1>1, <1>2 DEF Char
  <2>2. code \in {72, 80, 75, 77}
    BY <2>1 DEF Arrows
  <2> QED BY <1>2, <2>2 DEF Modifier
<1>3. CASE ~k.extended
  <2>1. code \in DOMAIN scancodes
    BY <1>1, <1>3 DEF Char
  <2>2. code \notin {29, 42, 54, 56}
    BY <2>1, KeysAssumption
  <2> QED BY <1>3, <2>2 DEF Modifier
<1> QED BY <1>2, <1>3

(* What comes out, r, when key k goes down with modifiers mods held.       *)
Pressed(r, k, mods, lock, out) ==
  LET c == Char([extended |-> k.extended, modifiers |-> mods, caps_lock |-> lock], k.code)
  IN  /\ r.kbd = Plain(mods \cup Modifier(k.extended, k.code),
                       lock # (k.code = CAPS /\ ~k.extended))
      /\ r.out = IF c = NoChar THEN out ELSE Append(out, <<c, mods>>)

(* A key pressed: its modifier, caps lock and its character.               *)
LEMMA PressDecoded ==
  ASSUME NEW k \in Key, NEW mods, NEW lock \in BOOLEAN, NEW out
  PROVE  Pressed(After(Before(mods, lock, out), k, k.code), k, mods, lock, out)
<1> DEFINE d == [extended |-> k.extended, modifiers |-> mods, caps_lock |-> lock]
           c == Char(d, k.code)
           q == [kbd |-> d, out |-> out]
           r == After(Before(mods, lock, out), k, k.code)
<1>1. k.code \in 0 .. 127 /\ k.extended \in BOOLEAN
  BY KeyBytes
<1>2. r = Decoded(q, k.code)
  <2>1. CASE k.extended
    BY <2>1, PrefixDecoded, <1>1 DEF After
  <2>2. CASE ~k.extended
    <3>1. k.extended = FALSE
      BY <1>1, <2>2
    <3> QED BY <2>2, <3>1 DEF After, Before, Plain
  <2> QED BY <2>1, <2>2
<1>3. k.code # PREFIX /\ ~(k.code >= RELEASE)
  BY <1>1 DEF PREFIX, RELEASE
<1> DEFINE all == mods \cup Modifier(k.extended, k.code)
           caps2 == lock # (k.code = CAPS /\ ~k.extended)
<1>4. d.extended = k.extended /\ d.modifiers = mods /\ d.caps_lock = lock
  OBVIOUS
<1> HIDE DEF d
<1>5. Decode(d, k.code) = Plain(all, caps2)
  BY <1>3, <1>4 DEF Decode, Plain
<1>6. c # NoChar => Modifier(k.extended, k.code) = {}
  BY <1>1, <1>4, ShownKeys
<1> HIDE DEF all, caps2, c
<1>7. Plain(all, caps2).modifiers = all
  BY DEF Plain
<1>8. /\ Decoded(q, k.code).kbd = Plain(all, caps2)
      /\ Decoded(q, k.code).out = IF c = NoChar THEN out ELSE Append(out, <<c, all>>)
  BY <1>5, <1>7 DEF Decoded, c
<1>9. c # NoChar => all = mods
  BY <1>6 DEF all
<1> HIDE DEF q, r
<1>10. /\ r.kbd = Plain(all, caps2)
       /\ r.out = IF c = NoChar THEN out ELSE Append(out, <<c, mods>>)
  BY <1>2, <1>8, <1>9
<1> QED BY <1>10 DEF all, caps2, c, d, r, Pressed

(* A key released: its modifier goes, and nothing comes out.               *)
LEMMA ReleaseDecoded ==
  ASSUME NEW k \in Key, NEW mods, NEW lock \in BOOLEAN, NEW out
  PROVE  LET r == After(Before(mods, lock, out), k, k.code + RELEASE)
         IN  r.kbd = Plain(mods \ Modifier(k.extended, k.code), lock) /\ r.out = out
<1> DEFINE d == [extended |-> k.extended, modifiers |-> mods, caps_lock |-> lock]
           q == [kbd |-> d, out |-> out]
           code == k.code + RELEASE
           r == After(Before(mods, lock, out), k, code)
           left == mods \ Modifier(k.extended, k.code)
<1>1. k.code \in 0 .. 127 /\ k.extended \in BOOLEAN /\ code \in 128 .. 255 /\ code # PREFIX
  BY KeyBytes
<1>2. r = Decoded(q, code)
  <2>1. CASE k.extended
    BY <2>1, PrefixDecoded, <1>1 DEF After
  <2>2. CASE ~k.extended
    <3>1. k.extended = FALSE
      BY <1>1, <2>2
    <3> QED BY <2>2, <3>1 DEF After, Before, Plain
  <2> QED BY <2>1, <2>2
<1>3. code >= RELEASE /\ ~(code = CAPS) /\ code - RELEASE = k.code
  BY <1>1 DEF RELEASE, CAPS
<1>4. d.extended = k.extended /\ d.modifiers = mods /\ d.caps_lock = lock
  OBVIOUS
<1> HIDE DEF d, code
<1>5. (lock # (code = CAPS /\ ~d.extended)) = lock
  <2>1. CASE lock = TRUE
    BY <1>3, <2>1
  <2>2. CASE lock = FALSE
    BY <1>3, <2>2
  <2> QED BY <2>1, <2>2
<1>6. Decode(d, code) = Plain(left, lock)
  <2>1. (code = PREFIX) = FALSE
    BY <1>1
  <2> QED BY <1>1, <1>3, <1>4, <1>5, <2>1 DEF Decode, Plain
<1>7. Char(d, code) = NoChar
  BY <1>3 DEF Char
<1>8. Decoded(q, code).kbd = Plain(left, lock) /\ Decoded(q, code).out = out
  BY <1>6, <1>7 DEF Decoded
<1> HIDE DEF q, r
<1> QED BY <1>2, <1>8 DEF r, code

-----------------------------------------------------------------------------
(* The bytes under way *)

(* A byte that moves from the wire to the ring keeps its place.            *)
LEMMA MovedOver ==
  ASSUME NEW S, NEW r \in Seq(S), NEW w \in Seq(S), w # <<>>
  PROVE  Append(r, Head(w)) \o Tail(w) = r \o w
<1> DEFINE a == Append(r, Head(w))
           x == a \o Tail(w)
           y == r \o w
<1>1. /\ Len(r) \in Nat /\ Len(w) \in Nat /\ Len(w) > 0 /\ Head(w) = w[1] /\ Head(w) \in S
      /\ Tail(w) \in Seq(S) /\ Len(Tail(w)) = Len(w) - 1
      /\ \A i \in 1 .. Len(w) - 1 : Tail(w)[i] = w[i + 1]
  BY EmptySeq, HeadTailProperties
<1>2. /\ a \in Seq(S) /\ Len(a) = Len(r) + 1
      /\ \A i \in 1 .. Len(r) : a[i] = r[i]
      /\ a[Len(r) + 1] = w[1]
  BY <1>1, AppendProperties
<1> HIDE DEF a
<1>3. /\ x \in Seq(S) /\ Len(x) = Len(a) + Len(Tail(w))
      /\ \A i \in 1 .. Len(a) + Len(Tail(w)) :
           x[i] = IF i <= Len(a) THEN a[i] ELSE Tail(w)[i - Len(a)]
  BY <1>1, <1>2, ConcatProperties
<1>4. /\ y \in Seq(S) /\ Len(y) = Len(r) + Len(w)
      /\ \A i \in 1 .. Len(r) + Len(w) : y[i] = IF i <= Len(r) THEN r[i] ELSE w[i - Len(r)]
  BY ConcatProperties
<1> HIDE DEF x, y
<1>5. ASSUME NEW i \in 1 .. Len(r) + Len(w) PROVE x[i] = y[i]
  <2>1. i \in 1 .. Len(a) + Len(Tail(w))
    BY <1>1, <1>2
  <2>2. CASE i <= Len(r)
    <3>1. i \in 1 .. Len(r) /\ i <= Len(a)
      BY <1>1, <1>2, <2>2
    <3>2. x[i] = a[i] /\ y[i] = r[i]
      BY ONLY <1>3, <1>4, <2>1, <2>2, <3>1, i \in 1 .. Len(r) + Len(w)
    <3> QED BY <1>2, <3>1, <3>2
  <2>3. CASE i = Len(r) + 1
    <3>1. ~(i <= Len(r)) /\ i <= Len(a) /\ i - Len(r) = 1
      BY <1>1, <1>2, <2>3
    <3> QED BY <1>2, <1>3, <1>4, <2>1, <2>3, <3>1
  <2>4. CASE i > Len(r) + 1
    <3> DEFINE j == i - Len(a)
    <3>1. ~(i <= Len(r)) /\ ~(i <= Len(a)) /\ j \in 1 .. Len(w) - 1 /\ j + 1 = i - Len(r)
      BY <1>1, <1>2, <2>4
    <3> HIDE DEF j
    <3>2. x[i] = Tail(w)[j] /\ y[i] = w[j + 1]
      BY <1>3, <1>4, <2>1, <3>1 DEF j
    <3> QED BY <1>1, <3>1, <3>2
  <2> QED BY <1>1, <2>2, <2>3, <2>4
<1>6. Len(x) = Len(y) /\ Len(y) = Len(r) + Len(w)
  BY <1>1, <1>2, <1>3, <1>4
<1>7. x = y
  BY <1>3, <1>4, <1>5, <1>6, SeqEqual
<1> QED BY <1>7 DEF x, y, a

(* The first byte of the ring is the first of those under way.             *)
LEMMA TakenFirst ==
  ASSUME NEW S, NEW r \in Seq(S), NEW w \in Seq(S), r # <<>>
  PROVE  r \o w # <<>> /\ Head(r \o w) = Head(r) /\ Tail(r \o w) = Tail(r) \o w
<1> DEFINE y == r \o w
           x == Tail(r) \o w
<1>1. /\ Len(r) \in Nat /\ Len(w) \in Nat /\ Len(r) > 0 /\ Head(r) = r[1]
      /\ Tail(r) \in Seq(S) /\ Len(Tail(r)) = Len(r) - 1
      /\ \A i \in 1 .. Len(r) - 1 : Tail(r)[i] = r[i + 1]
  BY EmptySeq, HeadTailProperties
<1>2. /\ y \in Seq(S) /\ Len(y) = Len(r) + Len(w)
      /\ \A i \in 1 .. Len(r) + Len(w) : y[i] = IF i <= Len(r) THEN r[i] ELSE w[i - Len(r)]
  BY ConcatProperties
<1>3. /\ x \in Seq(S) /\ Len(x) = Len(Tail(r)) + Len(w)
      /\ \A i \in 1 .. Len(Tail(r)) + Len(w) :
           x[i] = IF i <= Len(Tail(r)) THEN Tail(r)[i] ELSE w[i - Len(Tail(r))]
  BY <1>1, ConcatProperties
<1> HIDE DEF x, y
<1>4. y # <<>> /\ Head(y) = y[1]
  BY <1>1, <1>2, EmptySeq
<1>5. y[1] = r[1]
  BY <1>1, <1>2
<1>6. /\ Tail(y) \in Seq(S) /\ Len(Tail(y)) = Len(y) - 1
      /\ \A i \in 1 .. Len(y) - 1 : Tail(y)[i] = y[i + 1]
  BY <1>2, <1>4, HeadTailProperties
<1>7. ASSUME NEW i \in 1 .. Len(r) + Len(w) - 1 PROVE Tail(y)[i] = x[i]
  <2>1. Tail(y)[i] = y[i + 1] /\ i + 1 \in 1 .. Len(r) + Len(w)
    BY <1>1, <1>2, <1>6
  <2>2. i \in 1 .. Len(Tail(r)) + Len(w)
    BY <1>1
  <2>3. CASE i + 1 <= Len(r)
    <3>1. i \in 1 .. Len(r) - 1 /\ i <= Len(Tail(r))
      BY <1>1, <2>3
    <3> QED BY <1>1, <1>2, <1>3, <2>1, <2>2, <2>3, <3>1
  <2>4. CASE ~(i + 1 <= Len(r))
    <3>1. ~(i <= Len(Tail(r))) /\ i - Len(Tail(r)) = (i + 1) - Len(r)
      BY <1>1, <2>4
    <3> QED BY <1>2, <1>3, <2>1, <2>2, <2>4, <3>1
  <2> QED BY <2>3, <2>4
<1>8. Len(Tail(y)) = Len(x) /\ Len(x) = Len(r) + Len(w) - 1
  BY <1>1, <1>2, <1>3, <1>6
<1>9. Tail(y) = x
  BY <1>3, <1>6, <1>7, <1>8, SeqEqual
<1> QED BY <1>1, <1>4, <1>5, <1>9 DEF x, y

(* One byte more at the end, or two. *)
LEMMA OneMore ==
  ASSUME NEW S, NEW s \in Seq(S), NEW x \in S, NEW y \in S
  PROVE  /\ s \o <<x>> = Append(s, x) /\ s \o <<x, y>> = Append(Append(s, x), y)
         /\ Append(s, x) \in Seq(S)
<1>1. /\ Append(s, x) \in Seq(S) /\ Len(Append(s, x)) = Len(s) + 1
      /\ \A i \in 1 .. Len(s) : Append(s, x)[i] = s[i]
      /\ Append(s, x)[Len(s) + 1] = x
  BY AppendProperties
<1>2. s \o <<x>> = Append(s, x)
  BY AppendIsConcat
<1>3. Append(Append(s, x), y) = Append(s, x) \o <<y>>
  BY <1>1, AppendIsConcat
<1>4. (s \o <<x>>) \o <<y>> = s \o (<<x>> \o <<y>>)
  BY ConcatAssociative
<1>5. <<x>> \o <<y>> = <<x, y>>
  <2> DEFINE a == <<x>>
             c == <<x, y>>
  <2>1. a \in Seq(S) /\ Len(a) = 1 /\ a[1] = x /\ c \in Seq(S) /\ Len(c) = 2 /\ c[1] = x /\ c[2] = y
    OBVIOUS
  <2> HIDE DEF a, c
  <2> DEFINE b == Append(a, y)
  <2>2. /\ b \in Seq(S) /\ Len(b) = Len(a) + 1
        /\ \A i \in 1 .. Len(a) : b[i] = a[i]
        /\ b[Len(a) + 1] = y
    <3>1. a \in Seq(S) /\ y \in S
      BY <2>1
    <3> QED BY ONLY <3>1, AppendProperties
  <2> HIDE DEF b
  <2>3. Len(b) = 2 /\ b[1] = x /\ b[2] = y
    BY <2>1, <2>2
  <2>4. b = c
    BY <2>1, <2>2, <2>3, SeqEqual
  <2> QED BY <2>1, <2>4, AppendIsConcat DEF a, b, c
<1> QED BY <1>1, <1>2, <1>3, <1>4, <1>5

(* The bytes of a key, sent behind the others.                             *)
LEMMA KeySent ==
  ASSUME NEW d \in Decoder, NEW s \in Seq(Byte), NEW w \in Seq(Byte), NEW k, NEW code \in Byte
  PROVE  Decoding(d, s \o (w \o Bytes(k, code))) = After(Decoding(d, s \o w), k, code)
<1> DEFINE u == s \o w
           b == Bytes(k, code)
<1>1. PREFIX \in Byte
  BY DEF PREFIX, Byte
<1>2. CASE k.extended
  <2>1. b = <<PREFIX, code>> /\ b \in Seq(Byte)
    <3> HIDE DEF Byte
    <3> QED BY <1>1, <1>2 DEF Bytes
  <2> HIDE DEF b, Byte
  <2>2. u \in Seq(Byte) /\ s \o (w \o b) = u \o b
    BY <2>1, ConcatProperties, ConcatAssociative
  <2> HIDE DEF u
  <2>3. u \o b = Append(Append(u, PREFIX), code) /\ Append(u, PREFIX) \in Seq(Byte)
    BY <1>1, <2>1, <2>2, OneMore
  <2>4. Decoding(d, Append(Append(u, PREFIX), code)) = Decoded(Decoded(Decoding(d, u), PREFIX), code)
    BY <1>1, <2>2, <2>3, DecodingAppend
  <2> QED BY <1>2, <2>2, <2>3, <2>4 DEF After, u, b
<1>3. CASE ~k.extended
  <2>1. b = <<code>> /\ b \in Seq(Byte)
    <3> HIDE DEF Byte
    <3> QED BY <1>3 DEF Bytes
  <2> HIDE DEF b, Byte
  <2>2. u \in Seq(Byte) /\ s \o (w \o b) = u \o b
    BY <2>1, ConcatProperties, ConcatAssociative
  <2> HIDE DEF u
  <2>3. u \o b = Append(u, code)
    BY <2>1, <2>2, OneMore
  <2>4. Decoding(d, Append(u, code)) = Decoded(Decoding(d, u), code)
    BY <2>2, DecodingAppend
  <2> QED BY <1>3, <2>2, <2>3, <2>4 DEF After, u, b
<1> QED BY <1>2, <1>3

-----------------------------------------------------------------------------
(* Keys as they were meant *)

(* No modifier is held by two keys, unless that spoiled what is expected.  *)
HeldApart ==
  intact => \A j, k \in held : j # k =>
              Modifier(j.extended, j.code) \cap Modifier(k.extended, k.code) = {}

(* The bytes under way bring the decoder where the user is.                *)
Expected == intact => Outcome = Before(ModsOf(held), caps, due)

KeysInv == TypeOK /\ Peeked /\ HeldApart /\ Expected

(* What is under way is bytes.                                             *)
LEMMA UnderWay ==
  ASSUME TypeOK
  PROVE  kbd \in Decoder /\ wire \in Seq(Byte) /\ Ring \in Seq(Byte) /\ caps \in BOOLEAN
<1>1. /\ buffer \in [Cell -> Byte] /\ head \in Cell /\ tail \in Cell
      /\ kbd \in Decoder /\ wire \in Seq(Byte) /\ caps \in BOOLEAN
  BY DEF TypeOK
<1>2. Ring \in Seq(Byte)
  BY <1>1, RingFacts, RingIs
<1> QED BY <1>1, <1>2

(* At first nothing is under way and no key is held.                       *)
LEMMA KeysInit == Init => KeysInv
<1> SUFFICES ASSUME Init PROVE KeysInv
  OBVIOUS
<1>1. TypeOK /\ Peeked
  BY InitTypes
<1>2. held = {} /\ wire = <<>> /\ due = <<>> /\ caps = FALSE
      /\ kbd = Plain({}, FALSE) /\ kbd \in Decoder
  BY <1>1 DEF Init, Plain, TypeOK
<1>3. Ring = <<>>
  BY QueueInit DEF Queue!Init
<1>4. Outcome = Start(kbd)
  <2>1. Ring \o wire = <<>>
    BY <1>2, <1>3
  <2> QED BY <1>2, <2>1, DecodingEmpty DEF Outcome
<1>5. ModsOf(held) = {}
  BY <1>2 DEF ModsOf
<1> QED BY <1>1, <1>2, <1>4, <1>5 DEF KeysInv, HeldApart, Expected, Start, Before

(* A record is its fields. *)
LEMMA AfterRecord ==
  ASSUME NEW r, NEW k, NEW code
  PROVE  After(r, k, code) = [kbd |-> After(r, k, code).kbd, out |-> After(r, k, code).out]
<1>1. ASSUME NEW q, NEW b PROVE Decoded(q, b) = [kbd |-> Decoded(q, b).kbd, out |-> Decoded(q, b).out]
  BY DEF Decoded
<1> QED BY <1>1 DEF After

(* A key goes down or repeats, and no other holds its modifier.            *)
LEMMA PressKeys ==
  ASSUME KeysInv, NEW k \in Key, Press(k)
  PROVE  HeldApart' /\ Expected'
<1>1. SUFFICES ASSUME intact' PROVE HeldApart' /\ Outcome' = Before(ModsOf(held), caps, due)'
  BY DEF HeldApart, Expected
<1>2. /\ intact /\ Modifier(k.extended, k.code) \cap ModsOf(held \ {k}) = {}
      /\ due' = IF Meant(k) = NoChar THEN due ELSE Append(due, <<Meant(k), ModsOf(held)>>)
      /\ held' = held \cup {k} /\ caps' = (caps # (k.code = CAPS /\ ~k.extended))
      /\ wire' = wire \o Bytes(k, k.code) /\ UNCHANGED <<buffer, head, tail, kbd>>
  BY <1>1 DEF Press, Spoil, ringVars
<1>3. /\ kbd \in Decoder /\ wire \in Seq(Byte) /\ Ring \in Seq(Byte) /\ caps \in BOOLEAN
      /\ k.code \in Byte
  BY UnderWay, KeyBytes DEF KeysInv
<1>4. Outcome = Before(ModsOf(held), caps, due)
  BY <1>2 DEF KeysInv, Expected
<1>5. Outcome' = After(Outcome, k, k.code)
  <2>1. Outcome' = Decoding(kbd, Ring \o (wire \o Bytes(k, k.code)))
    BY <1>2, RingIs DEF Outcome
  <2> QED BY <1>3, <2>1, KeySent DEF Outcome
<1>6. ModsOf(held') = ModsOf(held) \cup Modifier(k.extended, k.code)
  BY <1>2 DEF ModsOf
<1>7. Outcome' = Before(ModsOf(held), caps, due)'
  <2> DEFINE r == After(Before(ModsOf(held), caps, due), k, k.code)
  <2>1. /\ r.kbd = Plain(ModsOf(held) \cup Modifier(k.extended, k.code),
                         caps # (k.code = CAPS /\ ~k.extended))
        /\ r.out = IF Meant(k) = NoChar THEN due ELSE Append(due, <<Meant(k), ModsOf(held)>>)
    <3>1. Pressed(r, k, ModsOf(held), caps, due)
      BY <1>3, PressDecoded
    <3> HIDE DEF r
    <3> QED BY <3>1 DEF Meant, Pressed
  <2>2. r = [kbd |-> r.kbd, out |-> r.out]
    BY AfterRecord
  <2>3. Outcome' = r
    BY <1>4, <1>5
  <2> HIDE DEF r
  <2>4. r.kbd = Plain(ModsOf(held'), caps') /\ r.out = due'
    BY <1>2, <1>6, <2>1
  <2> QED BY <2>2, <2>3, <2>4 DEF Before
<1>8. HeldApart'
  <2>1. \A j \in held \ {k} : Modifier(j.extended, j.code) \subseteq ModsOf(held \ {k})
    BY DEF ModsOf
  <2>2. \A j \in held \ {k} : Modifier(j.extended, j.code) \cap Modifier(k.extended, k.code) = {}
    BY <1>2, <2>1
  <2> QED BY <1>2, <2>2 DEF KeysInv, HeldApart
<1> QED BY <1>7, <1>8

(* A key goes up, and its modifier with it.                                *)
LEMMA ReleaseKeys ==
  ASSUME KeysInv, NEW k \in Key, Release(k)
  PROVE  HeldApart' /\ Expected'
<1>1. SUFFICES ASSUME intact' PROVE HeldApart' /\ Outcome' = Before(ModsOf(held), caps, due)'
  BY DEF HeldApart, Expected
<1>2. /\ intact /\ k \in held /\ held' = held \ {k}
      /\ wire' = wire \o Bytes(k, k.code + RELEASE)
      /\ UNCHANGED <<buffer, head, tail, kbd, caps, due>>
  BY <1>1 DEF Release, ringVars
<1>3. /\ kbd \in Decoder /\ wire \in Seq(Byte) /\ Ring \in Seq(Byte) /\ caps \in BOOLEAN
      /\ k.code + RELEASE \in Byte
  BY UnderWay, KeyBytes DEF KeysInv
<1>4. Outcome = Before(ModsOf(held), caps, due)
  BY <1>2 DEF KeysInv, Expected
<1>5. Outcome' = After(Outcome, k, k.code + RELEASE)
  <2>1. Outcome' = Decoding(kbd, Ring \o (wire \o Bytes(k, k.code + RELEASE)))
    BY <1>2, RingIs DEF Outcome
  <2> QED BY <1>3, <2>1, KeySent DEF Outcome
<1>6. ModsOf(held') = ModsOf(held) \ Modifier(k.extended, k.code)
  <2>1. \A j \in held : j # k =>
          Modifier(j.extended, j.code) \cap Modifier(k.extended, k.code) = {}
    BY <1>2 DEF KeysInv, HeldApart
  <2> QED BY <1>2, <2>1 DEF ModsOf
<1>7. Outcome' = Before(ModsOf(held), caps, due)'
  <2> DEFINE r == After(Before(ModsOf(held), caps, due), k, k.code + RELEASE)
  <2>1. r.kbd = Plain(ModsOf(held) \ Modifier(k.extended, k.code), caps) /\ r.out = due
    BY <1>3, ReleaseDecoded
  <2>2. r = [kbd |-> r.kbd, out |-> r.out]
    BY AfterRecord
  <2>3. Outcome' = r
    BY <1>4, <1>5
  <2> HIDE DEF r
  <2> QED BY <1>2, <1>6, <2>1, <2>2, <2>3 DEF Before
<1>8. HeldApart'
  BY <1>2 DEF KeysInv, HeldApart
<1> QED BY <1>7, <1>8

(* A byte is read: its key comes out, the next that is due.                *)
LEMMA TakeKeys ==
  ASSUME KeysInv, Take
  PROVE  HeldApart' /\ Expected'
<1>1. SUFFICES ASSUME intact' PROVE HeldApart' /\ Outcome' = Before(ModsOf(held), caps, due)'
  BY DEF HeldApart, Expected
<1> DEFINE c == Char(kbd, scancode)
           bytes == Ring \o wire
           first == Decoded(Start(kbd), Head(bytes))
<1>2. /\ intact /\ tail' = Succ(tail) /\ kbd' = Decode(kbd, scancode)
      /\ due' = IF c = NoChar \/ due = <<>> THEN due ELSE Tail(due)
      /\ UNCHANGED <<buffer, head, wire, held, caps>>
      /\ head # tail /\ scancode = buffer[tail]
  BY <1>1 DEF Take, KeysInv, Peeked
<1>3. /\ kbd \in Decoder /\ wire \in Seq(Byte) /\ Ring \in Seq(Byte) /\ scancode \in Byte
      /\ Ring # <<>> /\ Head(Ring) = scancode /\ Ring' = Tail(Ring)
  BY <1>2, UnderWay, RingIs, RingTail DEF KeysInv, TypeOK
<1>4. Outcome = Before(ModsOf(held), caps, due)
  BY <1>2 DEF KeysInv, Expected
<1>5. bytes \in Seq(Byte) /\ bytes # <<>> /\ Head(bytes) = scancode /\ Tail(bytes) = Ring' \o wire'
  <2> HIDE DEF Byte
  <2> QED BY <1>2, <1>3, TakenFirst, ConcatProperties
<1>6. Follows(first, Decoding(first.kbd, Tail(bytes)), Decoding(kbd, bytes))
  BY <1>3, <1>5, DecodingTail
<1>7. first.kbd = kbd'
  BY <1>2, <1>5 DEF Decoded, Start
<1>8. Follows(first, Outcome', Outcome)
  BY <1>5, <1>6, <1>7 DEF Outcome
<1>9. Outcome' \in Report
  <2>1. kbd' \in Decoder /\ Tail(bytes) \in Seq(Byte)
    <3>1. Tail(bytes) \in Seq(Byte)
      <4> HIDE DEF Byte, bytes
      <4> QED BY <1>5, HeadTailProperties
    <3> QED BY <1>2, <1>3, <3>1, DecodeType
  <2> QED BY <1>5, <2>1, DecodingFacts DEF Outcome
<1>10. IF c = NoChar THEN first.out = <<>> ELSE first.out # <<>>
  <2> DEFINE x == <<c, Decode(kbd, scancode).modifiers>>
  <2>1. first.out = IF c = NoChar THEN <<>> ELSE Append(<<>>, x)
    BY <1>5 DEF Decoded, Start
  <2>2. x \in Shown /\ <<>> \in Seq(Shown)
    BY <1>3, EmptySeq DEF Shown
  <2> HIDE DEF x
  <2>3. Append(<<>>, x) # <<>>
    BY <2>2, AppendProperties
  <2> QED BY <2>1, <2>3
<1> HIDE DEF first, c, bytes
<1>11. Outcome'.out = due' /\ Outcome'.kbd = Plain(ModsOf(held), caps)
  BY <1>2, <1>4, <1>8, <1>10 DEF Follows, Before
<1>12. Outcome' = [kbd |-> Plain(ModsOf(held), caps), out |-> due']
  BY <1>9, <1>11 DEF Report
<1>13. HeldApart'
  BY <1>2 DEF KeysInv, HeldApart
<1>14. ModsOf(held') = ModsOf(held)
  BY <1>2
<1> QED BY <1>2, <1>12, <1>13, <1>14 DEF Before

(* No step brings the decoder off the way.                                 *)
LEMMA NextKeys ==
  ASSUME KeysInv, [Next]_vars
  PROVE  HeldApart' /\ Expected'
<1>1. TypeOK /\ Ring \in Seq(Byte) /\ wire \in Seq(Byte) /\ kbd \in Decoder
  BY UnderWay DEF KeysInv
<1>2. ASSUME UNCHANGED <<kbd, held, caps>>, Ring' \o wire' = Ring \o wire,
             UNCHANGED <<due, intact>> \/ Spoil
      PROVE  HeldApart' /\ Expected'
  <2>1. intact' => intact /\ due' = due
    BY <1>2 DEF Spoil
  <2>2. Outcome' = Outcome
    BY <1>2 DEF Outcome
  <2>3. ModsOf(held') = ModsOf(held)
    BY <1>2
  <2> QED BY <1>2, <2>1, <2>2, <2>3 DEF KeysInv, HeldApart, Expected
<1>3. UNCHANGED <<buffer, head, tail>> => Ring' = Ring
  BY RingIs
<1> USE DEF ringVars, userVars, vars
<1>4. CASE UNCHANGED vars \/ Call \/ Fetch
  <2>1. UNCHANGED <<buffer, head, tail, kbd, held, caps, wire, due, intact>>
    BY <1>4 DEF Call, Fetch
  <2> QED BY <1>2, <1>3, <2>1
<1>5. CASE keyboard_handler
  <2>1. UNCHANGED <<tail, kbd, held, caps>> /\ wire # <<>> /\ wire' = Tail(wire)
    BY <1>5 DEF keyboard_handler
  <2>2. CASE Stored
    <3>1. Head(wire) \in Byte
      <4> HIDE DEF Byte
      <4> QED BY <1>1, <2>1, HeadTailProperties
    <3>2. Ring' = Append(Ring, Head(wire)) /\ UNCHANGED <<due, intact>>
      BY <1>1, <2>1, <2>2, <3>1, RingAppend, RingIs DEF TypeOK, Stored
    <3>3. Append(Ring, Head(wire)) \o Tail(wire) = Ring \o wire
      <4> HIDE DEF Byte
      <4> QED BY <1>1, <2>1, MovedOver
    <3> QED BY <1>2, <2>1, <3>2, <3>3
  <2>3. CASE Spoil
    BY <2>3 DEF Spoil, HeldApart, Expected
  <2> QED BY <1>5, <2>2, <2>3 DEF keyboard_handler
<1>6. CASE FlushByte
  BY <1>6 DEF FlushByte, Spoil, HeldApart, Expected
<1>7. CASE FlushEnd
  <2>1. CASE kbd.extended
    BY <1>7, <2>1 DEF FlushEnd, Spoil, HeldApart, Expected
  <2>2. CASE ~kbd.extended
    <3>1. kbd' = kbd
      BY <1>1, <1>7, <2>2 DEF FlushEnd, Decoder
    <3>2. UNCHANGED <<buffer, head, tail, wire, held, caps, due, intact>>
      BY <1>7, <2>2 DEF FlushEnd
    <3> QED BY <1>2, <1>3, <3>1, <3>2
  <2> QED BY <2>1, <2>2
<1> QED BY <1>4, <1>5, <1>6, <1>7, PressKeys, ReleaseKeys, TakeKeys DEF Next, ReaderStep

(* Keys that are decoded late come out as they were meant when they were   *)
(* pressed, with the modifiers of that moment, and no modifier is stuck,   *)
(* unless bytes were dropped or two keys of one modifier were down.        *)
THEOREM KeysComeAsMeant == Spec => []KeysAsMeant
<1>1. KeysInv /\ [Next]_vars => KeysInv'
  BY NextTypes, NextKeys DEF KeysInv
<1>2. KeysInv => KeysAsMeant
  BY DEF KeysInv, Expected, KeysAsMeant, Before, Plain
<1> QED BY <1>1, <1>2, KeysInit, PTL DEF Spec

=============================================================================
