---------------------------- MODULE LibraryProofs ----------------------------
(***************************************************************************)
(* Proofs about the C library.  Heap.tla, for any layout, alignment,       *)
(* header and page, and any requests whose sums do not wrap: every byte of *)
(* the heap has one owner, the free list is merged, and blocks have room.  *)
(* Algorithms.tla, for words of any width, bytes of any base, every number, *)
(* day, time, memory, array and list of arguments: each computation gives  *)
(* what it is meant to.                                                    *)
(***************************************************************************)
EXTENDS Heap, Algorithms, SequenceTheorems, WellFoundedInduction, TLAPS

-----------------------------------------------------------------------------
(* Numbers *)

(* Multiplication by a natural number is monotonic. *)
LEMMA MulMono ==
  ASSUME NEW m \in Nat, NEW a \in Int, NEW b \in Int, a <= b
  PROVE  m * a <= m * b
  OBVIOUS

(* Quotient and remainder. *)
LEMMA DivFacts ==
  ASSUME NEW a \in Nat, NEW n \in Nat \ {0}
  PROVE  /\ a \div n \in Nat /\ a % n \in 0 .. n - 1
         /\ a = n * (a \div n) + (a % n)
  OBVIOUS

(* A set of natural numbers has a least member.                            *)
LEMMA Least ==
  ASSUME NEW S, S \subseteq Nat, S # {}
  PROVE  \E m \in S : \A n \in S : m <= n
<1>1. PICK m \in S : \A n \in S : <<n, m>> \notin OpToRel(<, Nat)
  BY NatLessThanWellFounded, WFMin
<1>2. ASSUME NEW n \in S PROVE ~(n < m)
  BY <1>1 DEF OpToRel
<1> QED BY <1>2

(* A remainder is fixed by its range. *)
LEMMA ModAt ==
  ASSUME NEW n \in Nat \ {0}, NEW a \in Int, NEW q \in Int, NEW r \in 0 .. n - 1, a = n * q + r
  PROVE  a % n = r
<1> DEFINE p == a \div n
           m == a % n
<1>1. p \in Int /\ m \in 0 .. n - 1 /\ a = n * p + m
  OBVIOUS
<1> HIDE DEF p, m
<1>2. CASE p = q
  BY <1>1, <1>2 DEF m
<1>3. CASE p + 1 <= q
  <2>1. n * (p + 1) <= n * q
    BY <1>1, <1>3, MulMono
  <2>2. n * (p + 1) = n * p + n
    BY <1>1
  <2> QED BY <1>1, <2>1, <2>2
<1>4. CASE q + 1 <= p
  <2>1. n * (q + 1) <= n * p
    BY <1>1, <1>4, MulMono
  <2>2. n * (q + 1) = n * q + n
    BY <1>1
  <2> QED BY <1>1, <2>1, <2>2
<1> QED BY <1>1, <1>2, <1>3, <1>4

(* The remainder of a number that is at most one lap from the range. *)
LEMMA WrapFacts ==
  ASSUME NEW n \in Nat \ {0}, NEW a \in Int, -n <= a, a < 2 * n
  PROVE  a % n = IF a < 0 THEN a + n ELSE IF a < n THEN a ELSE a - n
<1>1. CASE a < 0
  <2>1. a = n * (-1) + (a + n) /\ a + n \in 0 .. n - 1
    BY <1>1
  <2>2. a % n = a + n
    BY ONLY n \in Nat \ {0}, a \in Int, -1 \in Int, <2>1, ModAt
  <2> QED BY <1>1, <2>2
<1>2. CASE 0 <= a /\ a < n
  <2>1. a = n * 0 + a /\ a \in 0 .. n - 1
    BY <1>2
  <2>2. a % n = a
    BY ONLY n \in Nat \ {0}, a \in Int, 0 \in Int, <2>1, ModAt
  <2> QED BY <1>2, <2>2
<1>3. CASE n <= a
  <2>1. a = n * 1 + (a - n) /\ a - n \in 0 .. n - 1
    BY <1>3
  <2>2. a % n = a - n
    BY ONLY n \in Nat \ {0}, a \in Int, 1 \in Int, <2>1, ModAt
  <2> QED BY <1>3, <2>2
<1> QED BY <1>1, <1>2, <1>3

-----------------------------------------------------------------------------
(* Sequences with a part replaced *)

(* s with mid in the place of its elements i to j - 1.                     *)
Splice(s, i, mid, j) == SubSeq(s, 1, i - 1) \o mid \o SubSeq(s, j, Len(s))

(* new is s with n elements, those of mid, in the place of i to j - 1.     *)
Spliced(new, s, i, mid, n, j) ==
  /\ Len(new) = i - 1 + n + (Len(s) - j + 1)
  /\ \A x \in 1 .. Len(new) :
       new[x] = IF x < i THEN s[x] ELSE IF x < i + n THEN mid[x - i + 1] ELSE s[x - i - n + j]

(* The part of a sequence from a to b. *)
LEMMA PartFacts ==
  ASSUME NEW S, NEW s \in Seq(S), NEW a \in 1 .. Len(s) + 1, NEW b \in 0 .. Len(s), a <= b + 1
  PROVE  /\ SubSeq(s, a, b) \in Seq(S) /\ Len(SubSeq(s, a, b)) = b - a + 1
         /\ \A x \in 1 .. b - a + 1 : SubSeq(s, a, b)[x] = s[a + x - 1]
<1>1. Len(s) \in Nat /\ a \in Int /\ b \in Int
  OBVIOUS
<1>2. \A x \in a .. b : s[x] \in S
  <2> SUFFICES ASSUME NEW x \in a .. b PROVE s[x] \in S
    OBVIOUS
  <2>1. x \in 1 .. Len(s)
    BY <1>1
  <2> QED BY <2>1, ElementOfSeq
<1> DEFINE t == SubSeq(s, a, b)
<1>3. /\ t \in Seq(S) /\ Len(t) = IF a <= b THEN b - a + 1 ELSE 0
      /\ \A x \in 1 .. b - a + 1 : t[x] = s[a + x - 1]
  BY ONLY <1>1, <1>2, SubSeqProperties, SMTT(60)
<1> HIDE DEF t
<1>4. Len(t) = b - a + 1
  BY <1>1, <1>3
<1> QED BY <1>3, <1>4 DEF t

(* Replacing elements i to j - 1.                                          *)
LEMMA SpliceFacts ==
  ASSUME NEW S, NEW s \in Seq(S), NEW i \in 1 .. Len(s) + 1, NEW j \in i .. Len(s) + 1,
         NEW mid \in Seq(S)
  PROVE  /\ Splice(s, i, mid, j) \in Seq(S)
         /\ Spliced(Splice(s, i, mid, j), s, i, mid, Len(mid), j)
<1> DEFINE p == SubSeq(s, 1, i - 1)
           q == SubSeq(s, j, Len(s))
           n == Len(mid)
           L == Len(s)
<1>1. L \in Nat /\ n \in Nat /\ i \in 1 .. L + 1 /\ j \in i .. L + 1
  OBVIOUS
<1>2. p \in Seq(S) /\ Len(p) = i - 1 /\ \A x \in 1 .. i - 1 : p[x] = s[x]
  <2>1. 1 \in 1 .. Len(s) + 1 /\ i - 1 \in 0 .. Len(s) /\ 1 <= (i - 1) + 1
    BY <1>1
  <2>2. p \in Seq(S) /\ Len(p) = (i - 1) - 1 + 1
        /\ \A x \in 1 .. (i - 1) - 1 + 1 : p[x] = s[1 + x - 1]
    BY ONLY s \in Seq(S), <2>1, PartFacts
  <2> HIDE DEF p
  <2>3. (i - 1) - 1 + 1 = i - 1 /\ \A x \in 1 .. i - 1 : 1 + x - 1 = x
    BY <1>1
  <2> QED BY <2>2, <2>3
<1>3. q \in Seq(S) /\ Len(q) = L - j + 1 /\ \A x \in 1 .. L - j + 1 : q[x] = s[j + x - 1]
  <2>1. j \in 1 .. Len(s) + 1 /\ Len(s) \in 0 .. Len(s) /\ j <= Len(s) + 1
    BY <1>1
  <2> QED BY ONLY s \in Seq(S), <2>1, PartFacts
<1>4. Splice(s, i, mid, j) = (p \o mid) \o q
  BY DEF Splice
<1> HIDE DEF p, q
<1>5. /\ p \o mid \in Seq(S) /\ Len(p \o mid) = i - 1 + n
      /\ \A x \in 1 .. i - 1 + n : (p \o mid)[x] = IF x <= i - 1 THEN p[x] ELSE mid[x - (i - 1)]
  <2>1. p \in Seq(S) /\ mid \in Seq(S)
    BY <1>2
  <2>2. /\ p \o mid \in Seq(S) /\ Len(p \o mid) = Len(p) + Len(mid)
        /\ \A x \in 1 .. Len(p) + Len(mid) :
             (p \o mid)[x] = IF x <= Len(p) THEN p[x] ELSE mid[x - Len(p)]
    BY ONLY <2>1, ConcatProperties
  <2>3. Len(p) = i - 1
    BY <1>2
  <2> QED BY <2>2, <2>3
<1> DEFINE u == p \o mid
           new == u \o q
<1> HIDE DEF u
<1>6. /\ new \in Seq(S) /\ Len(new) = Len(u) + Len(q)
      /\ \A x \in 1 .. Len(u) + Len(q) : new[x] = IF x <= Len(u) THEN u[x] ELSE q[x - Len(u)]
  <2>1. u \in Seq(S) /\ q \in Seq(S)
    BY <1>3, <1>5 DEF u
  <2> QED BY ONLY <2>1, ConcatProperties
<1>7. Len(u) = i - 1 + n /\ Len(q) = L - j + 1
  BY <1>3, <1>5 DEF u
<1> HIDE DEF new, n, L
<1>8. ASSUME NEW x \in 1 .. i - 1 + n + (L - j + 1)
      PROVE  new[x] = IF x < i THEN s[x] ELSE IF x < i + n THEN mid[x - i + 1] ELSE s[x - i - n + j]
  <2>1. new[x] = IF x <= Len(u) THEN u[x] ELSE q[x - Len(u)]
    BY <1>6, <1>7
  <2>2. CASE x < i
    <3>1. x <= Len(u) /\ x \in 1 .. i - 1 /\ x \in 1 .. i - 1 + n
      BY <1>1, <1>7, <2>2
    <3> QED BY <1>2, <1>5, <2>1, <2>2, <3>1 DEF u
  <2>3. CASE ~(x < i) /\ x < i + n
    <3>1. x <= Len(u) /\ ~(x <= i - 1) /\ x \in 1 .. i - 1 + n /\ x - (i - 1) = x - i + 1
      BY <1>1, <1>7, <2>3
    <3> QED BY <1>5, <2>1, <2>3, <3>1 DEF u
  <2>4. CASE ~(x < i + n)
    <3> DEFINE y == x - Len(u)
    <3>1. ~(x <= Len(u)) /\ y \in 1 .. L - j + 1 /\ j + y - 1 = x - i - n + j /\ ~(x < i)
      BY <1>1, <1>7, <2>4
    <3> HIDE DEF y
    <3>2. new[x] = q[y] /\ q[y] = s[j + y - 1]
      BY <1>3, <2>1, <3>1 DEF y
    <3> QED BY <2>4, <3>1, <3>2
  <2> QED BY <2>2, <2>3, <2>4
<1>9. Len(new) = i - 1 + n + (L - j + 1)
  BY <1>6, <1>7
<1> QED BY <1>4, <1>6, <1>8, <1>9 DEF Spliced, n, L, new, u

-----------------------------------------------------------------------------
(* Free lists *)

(* Address a lies in block b. *)
In(a, b) == b.at <= a /\ a < b.at + b.size

(* Address a lies in a block of the list. *)
Covers(list, a) == \E x \in 1 .. Len(list) : In(a, list[x])

(* Blocks that are not empty, in address order, no two of which touch. *)
GoodList(list) ==
  /\ list \in Seq(Block)
  /\ \A x \in 1 .. Len(list) : list[x].size > 0
  /\ \A x, y \in 1 .. Len(list) : x < y => list[x].at + list[x].size < list[y].at

(* The addresses in pool have one owner each, free or in use. *)
Owned(list, used, got) ==
  /\ \A a \in Int : a \in got <=> (Covers(list, a) \/ \E b \in used : In(a, b))
  /\ \A b, c \in used : b # c => \A a \in Int : ~(In(a, b) /\ In(a, c))
  /\ \A b \in used : \A a \in Int : In(a, b) => ~Covers(list, a)

(* The call in progress asks for what it needs, in numbers that do not     *)
(* wrap, and the block it grows is in use.                                 *)
CallSound ==
  call # Idle =>
    /\ call.need >= BLOCK_HDR + call.req
    /\ call.need + BLOCK_HDR + MIN_ALIGN < WORD /\ call.need + PAGE < WORD
    /\ IF call.kind = "realloc" THEN call.old \in live ELSE call.old = NoBlock

HeapInv ==
  /\ TypeOK /\ GoodList(freelist) /\ Owned(freelist, live, pool) /\ RoomEnough /\ CallSound
  /\ heap_state = 0 => freelist = <<>> /\ live = {} /\ pool = {} /\ call = Idle

-----------------------------------------------------------------------------
(* The operations on lists *)

(* The blocks of a sequence. *)
LEMMA BlockFacts ==
  ASSUME NEW s \in Seq(Block), NEW x \in 1 .. Len(s)
  PROVE  s[x] \in Block /\ s[x].at \in Nat /\ s[x].size \in Nat
<1>1. s[x] \in Block
  BY ElementOfSeq
<1> QED BY <1>1 DEF Block

(* Putting at most one block in the place of some keeps the order when the *)
(* block has a gap on either side.                                         *)
LEMMA SpliceGood ==
  ASSUME NEW s, GoodList(s), NEW i \in 1 .. Len(s) + 1, NEW j \in i .. Len(s) + 1,
         NEW mid \in Seq(Block), Len(mid) \in {0, 1},
         \A y \in 1 .. Len(mid) :
            /\ mid[y].size > 0
            /\ \A x \in 1 .. Len(s) : x < i => s[x].at + s[x].size < mid[y].at
            /\ \A x \in 1 .. Len(s) : x >= j => mid[y].at + mid[y].size < s[x].at
  PROVE  /\ GoodList(Splice(s, i, mid, j))
         /\ \A a \in Int : Covers(Splice(s, i, mid, j), a) <=>
              \/ \E y \in 1 .. Len(mid) : In(a, mid[y])
              \/ \E x \in 1 .. Len(s) : (x < i \/ x >= j) /\ In(a, s[x])
<1> DEFINE new == Splice(s, i, mid, j)
           n == Len(mid)
           L == Len(s)
<1>1. s \in Seq(Block) /\ L \in Nat /\ n \in {0, 1} /\ i \in 1 .. L + 1 /\ j \in i .. L + 1
  BY DEF GoodList
<1>2. new \in Seq(Block) /\ Spliced(new, s, i, mid, n, j)
  BY ONLY <1>1, SpliceFacts, mid \in Seq(Block), i \in 1 .. Len(s) + 1, j \in i .. Len(s) + 1
<1> HIDE DEF new
<1>3. Len(new) = i - 1 + n + (L - j + 1) /\ Len(new) \in Nat
  BY <1>1, <1>2 DEF Spliced
<1>4. \A x \in 1 .. Len(new) :
         new[x] = IF x < i THEN s[x] ELSE IF x < i + n THEN mid[x - i + 1] ELSE s[x - i - n + j]
  BY <1>2 DEF Spliced
<1>5. ASSUME NEW x \in 1 .. Len(new)
      PROVE  \/ x < i /\ x \in 1 .. L /\ new[x] = s[x]
             \/ x = i /\ n = 1 /\ 1 \in 1 .. n /\ new[x] = mid[1]
             \/ \E z \in 1 .. L : x >= i + n /\ z = x - i - n + j /\ z >= j /\ new[x] = s[z]
  <2>1. CASE x < i
    BY <1>1, <1>3, <1>4, <2>1
  <2>2. CASE ~(x < i) /\ x < i + n
    <3>1. x = i /\ n = 1 /\ x - i + 1 = 1
      BY <1>1, <2>2
    <3> QED BY <1>4, <2>2, <3>1
  <2>3. CASE ~(x < i + n)
    <3>1. ~(x < i) /\ x - i - n + j \in 1 .. L /\ x - i - n + j >= j
      <4>1. /\ x \in Int /\ i \in Int /\ j \in Int /\ n \in Nat /\ L \in Nat
            /\ x >= i + n /\ x <= i - 1 + n + (L - j + 1) /\ j >= 1
        BY <1>1, <1>3, <2>3, SMTT(60)
      <4> HIDE DEF n, L
      <4> QED BY ONLY <4>1
    <3>2. new[x] = s[x - i - n + j]
      BY <1>4, <2>3, <3>1
    <3>3. x >= i + n
      BY <1>1, <1>3, <2>3
    <3> QED BY <3>1, <3>2, <3>3
  <2> QED BY <2>1, <2>2, <2>3
<1>6. \A x \in 1 .. L : s[x] \in Block /\ s[x].at \in Nat /\ s[x].size \in Nat /\ s[x].size > 0
  BY <1>1, BlockFacts DEF GoodList
<1>7. \A y \in 1 .. n : mid[y].at \in Nat /\ mid[y].size \in Nat /\ mid[y].size > 0
  BY <1>1, BlockFacts
<1>8. \A x, y \in 1 .. L : x < y => s[x].at + s[x].size < s[y].at
  BY DEF GoodList
<1>9. \A x \in 1 .. Len(new) : new[x].size > 0
  BY <1>5, <1>6, <1>7
<1>10. ASSUME NEW x \in 1 .. Len(new), NEW y \in 1 .. Len(new), x < y
       PROVE  new[x].at + new[x].size < new[y].at
  <2>1. CASE x < i /\ x \in 1 .. L /\ new[x] = s[x]
    <3>1. CASE y < i /\ y \in 1 .. L /\ new[y] = s[y]
      BY <1>8, <1>10, <2>1, <3>1
    <3>2. CASE y = i /\ n = 1 /\ 1 \in 1 .. n /\ new[y] = mid[1]
      BY <2>1, <3>2
    <3>3. ASSUME NEW z \in 1 .. L, y >= i + n, z = y - i - n + j, z >= j, new[y] = s[z]
          PROVE  new[x].at + new[x].size < new[y].at
      <4>1. x < z
        BY <1>1, <2>1, <3>3
      <4> QED BY <1>8, <2>1, <3>3, <4>1
    <3> QED BY <1>5, <3>1, <3>2, <3>3
  <2>2. CASE x = i /\ n = 1 /\ 1 \in 1 .. n /\ new[x] = mid[1]
    <3>1. PICK z \in 1 .. L : z >= j /\ new[y] = s[z]
      <4>1. ~(y < i) /\ y # i
        BY <1>1, <1>3, <1>10, <2>2
      <4> QED BY <1>5, <4>1
    <3> QED BY <2>2, <3>1
  <2>3. ASSUME NEW u \in 1 .. L, x >= i + n, u = x - i - n + j, u >= j, new[x] = s[u]
        PROVE  new[x].at + new[x].size < new[y].at
    <3>1. ~(y < i) /\ ~(y < i + n) /\ ~(y = i /\ n = 1)
      <4>1. x >= i + n /\ y > x /\ x \in Int /\ y \in Int
        BY <1>1, <1>3, <1>10, <2>3
      <4> QED BY <1>1, <4>1
    <3>2. PICK z \in 1 .. L : z = y - i - n + j /\ new[y] = s[z]
      BY <1>5, <3>1
    <3>3. u < z
      BY <1>1, <1>3, <1>10, <2>3, <3>2
    <3> QED BY <1>8, <2>3, <3>2, <3>3
  <2> QED BY <1>5, <2>1, <2>2, <2>3
<1>11. ASSUME NEW a \in Int, Covers(new, a)
       PROVE  \/ \E y \in 1 .. n : In(a, mid[y])
              \/ \E x \in 1 .. L : (x < i \/ x >= j) /\ In(a, s[x])
  <2>1. PICK x \in 1 .. Len(new) : In(a, new[x])
    BY <1>11 DEF Covers
  <2> QED BY <1>5, <2>1
<1>12. ASSUME NEW a \in Int, NEW y \in 1 .. n, In(a, mid[y])
       PROVE  Covers(new, a)
  <2>1. i \in 1 .. Len(new) /\ new[i] = mid[i - i + 1] /\ i - i + 1 = 1 /\ y = 1
    BY <1>1, <1>3, <1>4
  <2> QED BY <1>12, <2>1 DEF Covers
<1>13. ASSUME NEW a \in Int, NEW x \in 1 .. L, x < i \/ x >= j, In(a, s[x])
       PROVE  Covers(new, a)
  <2>1. CASE x < i
    <3>1. x \in 1 .. Len(new) /\ new[x] = s[x]
      BY <1>1, <1>3, <1>4, <2>1
    <3> QED BY <1>13, <3>1 DEF Covers
  <2>2. CASE x >= j
    <3> DEFINE z == x + i + n - j
    <3>1. z \in 1 .. Len(new) /\ ~(z < i) /\ ~(z < i + n) /\ z - i - n + j = x
      BY <1>1, <1>3, <2>2
    <3> HIDE DEF z
    <3>2. new[z] = s[x]
      BY <1>4, <3>1
    <3> QED BY <1>13, <3>1, <3>2 DEF Covers
  <2> QED BY <1>13, <2>1, <2>2
<1>14. GoodList(new)
  BY <1>2, <1>9, <1>10 DEF GoodList
<1> HIDE DEF n, L
<1>15. \A a \in Int : Covers(new, a) <=>
              \/ \E y \in 1 .. n : In(a, mid[y])
              \/ \E x \in 1 .. L : (x < i \/ x >= j) /\ In(a, s[x])
  BY <1>11, <1>12, <1>13
<1> QED BY <1>14, <1>15 DEF new, n, L

(* The list owns no byte of block b. *)
Apart(list, b) == \A a \in Int : In(a, b) => ~Covers(list, a)

(* The place of a block in a list.                                         *)
LEMMA PositionFacts ==
  ASSUME NEW s, GoodList(s), NEW b, b.at \in Nat, b.size \in Nat, b.size > 0, Apart(s, b)
  PROVE  /\ Position(s, b) \in 1 .. Len(s) + 1
         /\ \A x \in 1 .. Len(s) : x < Position(s, b) => s[x].at + s[x].size <= b.at
         /\ \A x \in 1 .. Len(s) : x >= Position(s, b) => b.at + b.size <= s[x].at
<1> DEFINE L == Len(s)
           Here(k) == /\ \A i \in 1 .. k - 1 : s[i].at < b.at
                      /\ k <= L => s[k].at >= b.at
           S == {k \in 1 .. L + 1 : k <= L => s[k].at >= b.at}
<1>1. s \in Seq(Block) /\ L \in Nat /\ b.at \in Nat /\ b.size \in Nat
  BY DEF GoodList
<1>2. \A x \in 1 .. L : s[x].at \in Nat /\ s[x].size \in Nat /\ s[x].size > 0
  BY <1>1, BlockFacts DEF GoodList
<1>3. \A x, y \in 1 .. L : x < y => s[x].at + s[x].size < s[y].at
  BY DEF GoodList
<1> HIDE DEF L
<1>4. S \subseteq Nat /\ L + 1 \in S
  BY <1>1
<1> HIDE DEF S
<1>5. PICK m \in S : \A n \in S : m <= n
  BY <1>4, Least
<1>6. \E k \in 1 .. L + 1 : Here(k)
  <2>1. m \in 1 .. L + 1 /\ m \in Nat
    BY <1>1, <1>5 DEF S
  <2>2. ASSUME NEW i \in 1 .. m - 1 PROVE s[i].at < b.at
    <3>1. i \in 1 .. L /\ i \in 1 .. L + 1 /\ ~(m <= i)
      BY <1>1, <2>1
    <3>2. i \notin S
      BY <1>5, <3>1
    <3> QED BY <1>1, <1>2, <3>1, <3>2 DEF S
  <2> QED BY <1>5, <2>1, <2>2 DEF S
<1> DEFINE k == Position(s, b)
<1>7. k \in 1 .. L + 1 /\ Here(k)
  BY <1>6 DEF Position, L
<1> HIDE DEF k
<1>8. ASSUME NEW x \in 1 .. L, x < k PROVE s[x].at + s[x].size <= b.at
  <2>1. s[x].at < b.at
    BY <1>1, <1>7, <1>8
  <2>2. In(b.at, b)
    BY <1>1 DEF In
  <2>3. ~In(b.at, s[x])
    BY <1>1, <2>2 DEF Apart, Covers, L
  <2> QED BY <1>1, <1>2, <2>1, <2>3 DEF In
<1>9. ASSUME NEW x \in 1 .. L, x >= k PROVE b.at + b.size <= s[x].at
  <2>1. k \in 1 .. L /\ s[k].at >= b.at
    BY <1>1, <1>7, <1>9
  <2>2. In(s[k].at, s[k]) /\ s[k].at \in Int
    BY <1>2, <2>1 DEF In
  <2>3. ~In(s[k].at, b)
    BY <2>1, <2>2 DEF Apart, Covers, L
  <2>4. b.at + b.size <= s[k].at
    BY <1>1, <1>2, <2>1, <2>3 DEF In
  <2>5. s[k].at <= s[x].at
    BY <1>2, <1>3, <1>7, <1>9, <2>1
  <2> QED BY <1>1, <1>2, <2>1, <2>4, <2>5
<1> QED BY <1>7, <1>8, <1>9 DEF k, L

(* What ends before a block begins ends before what that block precedes.   *)
LEMMA BeforeFacts ==
  ASSUME NEW b, NEW c, NEW d,
         b.at \in Nat, b.size \in Nat, c.at \in Nat, c.size \in Nat, d.at \in Nat
  PROVE  /\ b.at + b.size < c.at /\ c.at + c.size <= d.at => b.at + b.size < d.at
         /\ b.at + b.size <= c.at /\ c.at + c.size < d.at => b.at + b.size < d.at
<1> DEFINE e == b.at + b.size
           f == c.at
           g == d.at
<1>1. e \in Nat /\ f \in Nat /\ g \in Nat /\ (c.at + c.size <= g => f <= g) /\ (c.at + c.size < g => f < g)
  OBVIOUS
<1> HIDE DEF e, f, g
<1>2. (e < f /\ f <= g => e < g) /\ (e <= f /\ f < g => e < g)
  BY <1>1
<1> QED BY <1>1, <1>2 DEF e, f, g

(* Blocks one of which ends before the other begins have no byte in common. *)
LEMMA ApartFacts ==
  ASSUME NEW a \in Int, NEW b, NEW c, b.at \in Nat, b.size \in Nat, c.at \in Nat,
         b.at + b.size < c.at, In(a, b), In(a, c)
  PROVE  FALSE
<1> DEFINE e == b.at + b.size
           f == c.at
<1>1. e \in Nat /\ f \in Nat /\ e < f /\ a < e /\ f <= a
  BY DEF In
<1> HIDE DEF e, f
<1> QED BY <1>1

(* free puts the block in, and what the list covers grows by its bytes.    *)
LEMMA FreeGood ==
  ASSUME NEW s, GoodList(s), NEW b, b.at \in Nat, b.size \in Nat, b.size > 0, Apart(s, b)
  PROVE  /\ GoodList(free(s, b))
         /\ \A a \in Int : Covers(free(s, b), a) <=> Covers(s, a) \/ In(a, b)
<1> DEFINE L == Len(s)
           k == Position(s, b)
           n == MeetsNext(s, b, k)
           p == MeetsPrev(s, b, k)
           i == IF p THEN k - 1 ELSE k
           j == IF n THEN k + 1 ELSE k
           m == [at |-> IF p THEN s[k - 1].at ELSE b.at,
                 size |-> (IF p THEN s[k - 1].size ELSE 0) + b.size
                            + (IF n THEN s[k].size ELSE 0)]
           mid == <<m>>
<1>1. s \in Seq(Block) /\ L \in Nat /\ b.at \in Nat /\ b.size \in Nat
  BY DEF GoodList
<1>2. \A x \in 1 .. L : s[x].at \in Nat /\ s[x].size \in Nat /\ s[x].size > 0
  BY <1>1, BlockFacts DEF GoodList
<1>3. \A x, y \in 1 .. L : x < y => s[x].at + s[x].size < s[y].at
  BY DEF GoodList
<1>4. /\ k \in 1 .. L + 1
      /\ \A x \in 1 .. L : x < k => s[x].at + s[x].size <= b.at
      /\ \A x \in 1 .. L : x >= k => b.at + b.size <= s[x].at
  BY PositionFacts
<1>5. free(s, b) = Splice(s, i, mid, j)
  <2>1. (IF p THEN k - 2 ELSE k - 1) = i - 1
    BY <1>4
  <2> HIDE DEF i, j, m
  <2>2. free(s, b) = SubSeq(s, 1, IF p THEN k - 2 ELSE k - 1) \o <<m>> \o SubSeq(s, j, Len(s))
    BY DEF free, j, m
  <2> QED BY <2>1, <2>2 DEF Splice
<1>6. p => k - 1 \in 1 .. L /\ s[k - 1].at + s[k - 1].size = b.at
  BY <1>1, <1>4 DEF MeetsPrev
<1>7. n => k \in 1 .. L /\ b.at + b.size = s[k].at
  BY <1>1, <1>4 DEF MeetsNext
<1> HIDE DEF k
<1>8. ~p => \A x \in 1 .. L : x < k => s[x].at + s[x].size < b.at
  <2> SUFFICES ASSUME ~p, NEW x \in 1 .. L, x < k PROVE s[x].at + s[x].size < b.at
    OBVIOUS
  <2>0. s[x].at \in Nat /\ s[x].size \in Nat
    BY <1>2
  <2>1. CASE x = k - 1
    <3>1. s[x].at + s[x].size # b.at /\ s[x].at + s[x].size <= b.at
      BY <1>1, <1>4, <2>1 DEF MeetsPrev
    <3> QED BY ONLY <1>1, <2>0, <3>1
  <2>2. CASE x < k - 1
    <3>1. k - 1 \in 1 .. L
      BY <1>1, <1>4, <2>2
    <3>2. s[x].at + s[x].size < s[k - 1].at /\ s[k - 1].at + s[k - 1].size <= b.at
      BY <1>3, <1>4, <2>2, <3>1
    <3>3. s[k - 1].at \in Nat /\ s[k - 1].size \in Nat
      BY <1>2, <3>1
    <3> QED BY ONLY <1>1, <2>0, <3>2, <3>3, BeforeFacts
  <2> QED BY <1>1, <1>4, <2>1, <2>2
<1>9. ~n => \A x \in 1 .. L : x >= k => b.at + b.size < s[x].at
  <2> SUFFICES ASSUME ~n, NEW x \in 1 .. L, x >= k PROVE b.at + b.size < s[x].at
    OBVIOUS
  <2>0. s[x].at \in Nat /\ s[x].size \in Nat
    BY <1>2
  <2>1. CASE x = k
    <3>1. s[x].at # b.at + b.size /\ b.at + b.size <= s[x].at
      BY <1>1, <1>4, <2>1 DEF MeetsNext
    <3> QED BY ONLY <1>1, <2>0, <3>1
  <2>2. CASE x > k
    <3>1. k \in 1 .. L
      BY <1>1, <1>4, <2>2
    <3>2. s[k].at + s[k].size < s[x].at /\ b.at + b.size <= s[k].at
      BY <1>3, <1>4, <2>2, <3>1
    <3>3. s[k].at \in Nat /\ s[k].size \in Nat
      BY <1>2, <3>1
    <3> QED BY ONLY <1>1, <2>0, <3>2, <3>3, BeforeFacts
  <2> QED BY <1>1, <1>4, <2>1, <2>2
<1>10. p \in BOOLEAN /\ n \in BOOLEAN
  BY DEF MeetsPrev, MeetsNext
<1>11. /\ m \in Block /\ m.size > 0
       /\ m.at = IF p THEN s[k - 1].at ELSE b.at
       /\ m.at + m.size = IF n THEN s[k].at + s[k].size ELSE b.at + b.size
  <2>1. (IF p THEN s[k - 1].size ELSE 0) \in Nat /\ (IF n THEN s[k].size ELSE 0) \in Nat
        /\ (IF p THEN s[k - 1].at ELSE b.at) \in Nat
    BY <1>1, <1>2, <1>6, <1>7
  <2> DEFINE ps == IF p THEN s[k - 1].size ELSE 0
             ns == IF n THEN s[k].size ELSE 0
             pa == IF p THEN s[k - 1].at ELSE b.at
  <2>2. pa + ps = b.at
    BY <1>1, <1>6
  <2>3. b.at + b.size + ns = IF n THEN s[k].at + s[k].size ELSE b.at + b.size
    BY <1>1, <1>7
  <2>4. m = [at |-> pa, size |-> ps + b.size + ns]
    OBVIOUS
  <2> HIDE DEF m, ps, ns, pa, n, p, k
  <2>5. ps \in Nat /\ ns \in Nat /\ pa \in Nat
    BY <2>1 DEF ps, ns, pa
  <2>6. m.at = pa /\ m.size = ps + b.size + ns /\ m \in Block
    BY <1>1, <2>4, <2>5 DEF Block
  <2>7. m.at + m.size = b.at + b.size + ns
    BY <1>1, <2>2, <2>5, <2>6
  <2>8. m.size > 0
    BY <1>1, <2>5, <2>6
  <2> QED BY <2>3, <2>6, <2>7, <2>8 DEF pa
<1> HIDE DEF m, n, p, k
<1>12. i \in 1 .. L + 1 /\ j \in i .. L + 1
  BY <1>1, <1>4, <1>6, <1>7, <1>10
<1>13. mid \in Seq(Block) /\ Len(mid) = 1 /\ mid[1] = m
  BY <1>11
<1>14. ASSUME NEW x \in 1 .. L, x < i PROVE s[x].at + s[x].size < m.at
  <2>1. CASE p
    <3>1. x < k - 1 /\ k - 1 \in 1 .. L
      BY <1>6, <1>14, <2>1
    <3> QED BY <1>3, <1>11, <2>1, <3>1
  <2>2. CASE ~p
    BY <1>8, <1>11, <1>14, <2>2
  <2> QED BY <2>1, <2>2
<1>15. ASSUME NEW x \in 1 .. L, x >= j PROVE m.at + m.size < s[x].at
  <2>1. CASE n
    <3>1. k < x /\ k \in 1 .. L
      BY <1>4, <1>7, <1>15, <2>1
    <3> QED BY <1>3, <1>11, <2>1, <3>1
  <2>2. CASE ~n
    BY <1>9, <1>11, <1>15, <2>2
  <2> QED BY <2>1, <2>2
<1>16. ASSUME NEW a \in Int
       PROVE  In(a, m) <=> In(a, b) \/ (p /\ In(a, s[k - 1])) \/ (n /\ In(a, s[k]))
  <2>1. p => s[k - 1].at \in Nat /\ s[k - 1].size \in Nat
    BY <1>2, <1>6
  <2>2. n => s[k].at \in Nat /\ s[k].size \in Nat
    BY <1>2, <1>7
  <2>3. m.at \in Nat /\ m.size \in Nat
    BY <1>11 DEF Block
  <2>4. CASE p /\ n
    <3> DEFINE prev == s[k - 1]
               next == s[k]
    <3> HIDE DEF prev, next
    <3>0. prev.at \in Nat /\ prev.size \in Nat /\ next.at \in Nat /\ next.size \in Nat
      BY <2>1, <2>2, <2>4 DEF prev, next
    <3>1. /\ m.at = prev.at /\ m.at + m.size = next.at + next.size
          /\ prev.at + prev.size = b.at /\ b.at + b.size = next.at
      BY <1>6, <1>7, <1>11, <2>4 DEF prev, next
    <3>2. In(a, m) <=> In(a, b) \/ In(a, prev) \/ In(a, next)
      <4>1. In(a, m) <=> prev.at <= a /\ a < next.at + next.size
        BY ONLY <3>1 DEF In
      <4>2. (In(a, b) <=> b.at <= a /\ a < next.at) /\ (In(a, prev) <=> prev.at <= a /\ a < b.at)
        BY ONLY <3>1 DEF In
      <4>3. prev.at <= b.at /\ b.at <= next.at /\ next.at <= next.at + next.size
        BY ONLY <1>1, <3>0, <3>1, SMTT(60)
      <4> QED BY ONLY a \in Int, <1>1, <3>0, <4>1, <4>2, <4>3 DEF In
    <3> QED BY <2>4, <3>2 DEF prev, next
  <2>5. CASE p /\ ~n
    <3> DEFINE prev == s[k - 1]
    <3> HIDE DEF prev
    <3>0. prev.at \in Nat /\ prev.size \in Nat
      BY <2>1, <2>2, <2>5 DEF prev
    <3>1. /\ m.at = prev.at /\ m.at + m.size = b.at + b.size
          /\ prev.at + prev.size = b.at
      BY <1>6, <1>11, <2>5 DEF prev
    <3>2. In(a, m) <=> In(a, b) \/ In(a, prev)
      BY ONLY a \in Int, b.size > 0, <1>1, <2>3, <3>0, <3>1, SMTT(60) DEF In
    <3> QED BY <2>5, <3>2 DEF prev
  <2>6. CASE ~p /\ n
    <3> DEFINE next == s[k]
    <3> HIDE DEF next
    <3>0. next.at \in Nat /\ next.size \in Nat
      BY <2>1, <2>2, <2>6 DEF next
    <3>1. /\ m.at = b.at /\ m.at + m.size = next.at + next.size /\ b.at + b.size = next.at
      BY <1>7, <1>11, <2>6 DEF next
    <3>2. In(a, m) <=> In(a, b) \/ In(a, next)
      BY ONLY a \in Int, b.size > 0, <1>1, <2>3, <3>0, <3>1 DEF In
    <3> QED BY <2>6, <3>2 DEF next
  <2>7. CASE ~p /\ ~n
    <3>1. m.at = b.at /\ m.at + m.size = b.at + b.size
      BY <1>11, <2>7
    <3>2. In(a, m) <=> In(a, b)
      BY ONLY a \in Int, <1>1, <2>3, <3>1 DEF In
    <3> QED BY <2>7, <3>2
  <2> QED BY <1>10, <2>4, <2>5, <2>6, <2>7
<1>17. \A x \in 1 .. L : ~(x < i \/ x >= j) <=> (p /\ x = k - 1) \/ (n /\ x = k)
  BY <1>1, <1>4, <1>10
<1> HIDE DEF i, j, mid
<1>18. /\ GoodList(Splice(s, i, mid, j))
       /\ \A a \in Int : Covers(Splice(s, i, mid, j), a) <=>
              \/ \E y \in 1 .. Len(mid) : In(a, mid[y])
              \/ \E x \in 1 .. Len(s) : (x < i \/ x >= j) /\ In(a, s[x])
  <2>1. \A y \in 1 .. Len(mid) :
            /\ mid[y].size > 0
            /\ \A x \in 1 .. Len(s) : x < i => s[x].at + s[x].size < mid[y].at
            /\ \A x \in 1 .. Len(s) : x >= j => mid[y].at + mid[y].size < s[x].at
    <3> SUFFICES ASSUME NEW y \in 1 .. Len(mid)
                 PROVE  /\ mid[y].size > 0
                        /\ \A x \in 1 .. Len(s) : x < i => s[x].at + s[x].size < mid[y].at
                        /\ \A x \in 1 .. Len(s) : x >= j => mid[y].at + mid[y].size < s[x].at
      OBVIOUS
    <3>1. mid[y] = m
      BY <1>13
    <3> QED BY <1>11, <1>14, <1>15, <3>1
  <2>2. i \in 1 .. Len(s) + 1 /\ j \in i .. Len(s) + 1 /\ mid \in Seq(Block) /\ Len(mid) \in {0, 1}
    BY <1>12, <1>13
  <2> QED BY ONLY GoodList(s), <2>1, <2>2, SpliceGood
<1>19. ASSUME NEW a \in Int
       PROVE  Covers(Splice(s, i, mid, j), a) <=> Covers(s, a) \/ In(a, b)
  <2>1. (\E y \in 1 .. Len(mid) : In(a, mid[y])) <=> In(a, m)
    BY <1>13
  <2>2. (\E x \in 1 .. L : (x < i \/ x >= j) /\ In(a, s[x])) => Covers(s, a)
    BY DEF Covers
  <2>3. Covers(s, a) => (\E x \in 1 .. L : (x < i \/ x >= j) /\ In(a, s[x])) \/ In(a, m)
    BY <1>16, <1>17 DEF Covers
  <2>4. In(a, m) => Covers(s, a) \/ In(a, b)
    BY <1>6, <1>7, <1>16 DEF Covers
  <2>5. In(a, b) => In(a, m)
    BY <1>16
  <2> QED BY <1>18, <2>1, <2>2, <2>3, <2>4, <2>5
<1> QED BY <1>5, <1>18, <1>19

(* The first block that fits is in the list and has the room.              *)
LEMMA FirstFacts ==
  ASSUME GoodList(freelist), NEW need \in Nat, Fits(need) # {}
  PROVE  First(need) \in 1 .. Len(freelist) /\ freelist[First(need)].size >= need
<1>1. freelist \in Seq(Block) /\ DOMAIN freelist = 1 .. Len(freelist) /\ Len(freelist) \in Nat
  BY DEF GoodList
<1>2. Fits(need) \subseteq Nat
  BY <1>1 DEF Fits
<1> HIDE DEF Fits
<1>3. \E m \in Fits(need) : \A n \in Fits(need) : m <= n
  BY <1>2, Least
<1>4. First(need) \in Fits(need)
  BY <1>3 DEF First
<1> QED BY <1>1, <1>4 DEF Fits

(* Taking a block, or the first part of it, from the list: what is left    *)
(* and what was taken make up what the list covered.                       *)
LEMMA TakenGood ==
  ASSUME SizeAssumption, GoodList(freelist), NEW need \in Nat \ {0}, NEW req \in Nat,
         need + BLOCK_HDR + MIN_ALIGN < WORD, NEW k \in 1 .. Len(freelist),
         freelist[k].size >= need
  PROVE  /\ GoodList(ListWithout(k, need))
         /\ Taken(k, need, req) \in Used /\ Taken(k, need, req).size >= need
         /\ Taken(k, need, req).req = req
         /\ \A a \in Int :
              /\ Covers(freelist, a) <=>
                   Covers(ListWithout(k, need), a) \/ In(a, Taken(k, need, req))
              /\ In(a, Taken(k, need, req)) => ~Covers(ListWithout(k, need), a)
<1> DEFINE s == freelist
           L == Len(s)
           b == s[k]
           new == ListWithout(k, need)
           t == Taken(k, need, req)
           cut == b.size >= need + BLOCK_HDR + MIN_ALIGN
           rest == [at |-> b.at + need, size |-> b.size - need]
           mid == IF cut THEN <<rest>> ELSE <<>>
<1>1. s \in Seq(Block) /\ L \in Nat /\ k \in 1 .. L
  BY DEF GoodList
<1>2. \A x \in 1 .. L : s[x].at \in Nat /\ s[x].size \in Nat /\ s[x].size > 0
  BY <1>1, BlockFacts DEF GoodList
<1>3. \A x, y \in 1 .. L : x < y => s[x].at + s[x].size < s[y].at
  BY DEF GoodList
<1>4. /\ WORD \in Nat /\ BLOCK_HDR \in Nat /\ MIN_ALIGN \in Nat /\ MIN_ALIGN > 0
      /\ b.at \in Nat /\ b.size \in Nat /\ b.size > 0 /\ need > 0 /\ b.size >= need
  BY <1>1, <1>2 DEF SizeAssumption
<1>5. Splits(s[k], need) = cut
  <2>1. (need + BLOCK_HDR + MIN_ALIGN) % WORD = need + BLOCK_HDR + MIN_ALIGN
    BY <1>4
  <2> QED BY <2>1 DEF Splits
<1>6. Rest(s[k], need) = rest
  BY <1>4 DEF Rest
<1>7. new = Splice(s, k, mid, k + 1)
  BY <1>5, <1>6 DEF ListWithout, Splice
<1>8. cut => rest \in Block /\ rest.size > 0 /\ rest.at = b.at + need
              /\ rest.at + rest.size = b.at + b.size
  <2> DEFINE at == b.at
             size == b.size
  <2>1. at \in Nat /\ size \in Nat /\ (cut <=> size >= need + BLOCK_HDR + MIN_ALIGN)
        /\ rest = [at |-> at + need, size |-> size - need]
    BY <1>4
  <2> HIDE DEF at, size, cut, rest
  <2>2. cut => size - need \in Nat /\ size - need > 0 /\ at + need \in Nat
    <3>1. size >= need + BLOCK_HDR + MIN_ALIGN => size - need \in Nat /\ size - need > 0
      BY <1>4, <2>1
    <3>2. at + need \in Nat
      BY <2>1, SMTT(60)
    <3> QED BY <2>1, <3>1, <3>2
  <2>3. rest.at = at + need /\ rest.size = size - need
    BY <2>1
  <2>4. cut => rest \in Block
    BY <2>1, <2>2 DEF Block
  <2>5. cut => rest.at + rest.size = at + size
    BY <2>1, <2>3
  <2>6. cut => rest.size > 0
    BY <2>2, <2>3
  <2> QED BY <2>3, <2>4, <2>5, <2>6 DEF at, size
<1>9. t = [at |-> b.at, req |-> req, size |-> IF cut THEN need ELSE b.size]
  BY <1>5 DEF Taken
<1> HIDE DEF s, t, new, rest
<1>10. t \in Used /\ t.size >= need /\ t.req = req /\ t.at = b.at
       /\ t.size = IF cut THEN need ELSE b.size
  BY <1>4, <1>9 DEF Used
<1>11. cut \in BOOLEAN
  OBVIOUS
<1> HIDE DEF cut
<1>12. mid \in Seq(Block) /\ Len(mid) = (IF cut THEN 1 ELSE 0) /\ (cut => mid[1] = rest)
  <2>1. CASE cut
    BY <1>8, <2>1
  <2>2. CASE ~cut
    BY <2>2
  <2> QED BY <2>1, <2>2
<1> HIDE DEF mid
<1>13. \A y \in 1 .. Len(mid) :
            /\ mid[y].size > 0
            /\ \A x \in 1 .. Len(s) : x < k => s[x].at + s[x].size < mid[y].at
            /\ \A x \in 1 .. Len(s) : x >= k + 1 => mid[y].at + mid[y].size < s[x].at
  <2> SUFFICES ASSUME NEW y \in 1 .. Len(mid)
               PROVE  /\ mid[y].size > 0
                      /\ \A x \in 1 .. L : x < k => s[x].at + s[x].size < mid[y].at
                      /\ \A x \in 1 .. L : x >= k + 1 => mid[y].at + mid[y].size < s[x].at
    OBVIOUS
  <2>1. cut /\ mid[y] = rest
    BY <1>12
  <2>2. rest.size > 0 /\ rest.at = b.at + need /\ rest.at + rest.size = b.at + b.size
    BY <1>8, <2>1
  <2>3. ASSUME NEW x \in 1 .. L, x < k PROVE s[x].at + s[x].size < rest.at
    <3>1. s[x].at + s[x].size < b.at /\ s[x].at \in Nat /\ s[x].size \in Nat
      BY <1>1, <1>2, <1>3, <2>3
    <3> HIDE DEF b
    <3>2. b.at \in Nat /\ need \in Nat /\ need > 0 /\ rest.at = b.at + need
      BY <1>4, <2>2
    <3>3. rest.at \in Nat /\ b.at < rest.at
      BY ONLY <3>2
    <3> DEFINE at == s[x].at
               size == s[x].size
    <3>4. at + size < b.at /\ at \in Nat /\ size \in Nat
      BY <3>1
    <3> HIDE DEF at, size
    <3>5. at + size < rest.at
      BY ONLY <3>2, <3>3, <3>4
    <3> QED BY <3>5 DEF at, size
  <2>4. ASSUME NEW x \in 1 .. L, x >= k + 1 PROVE rest.at + rest.size < s[x].at
    <3>1. k < x
      BY <1>1, <2>4
    <3> QED BY <1>1, <1>3, <2>2, <3>1
  <2> QED BY <2>1, <2>2, <2>3, <2>4
<1>14. /\ GoodList(new)
       /\ \A a \in Int : Covers(new, a) <=>
              \/ \E y \in 1 .. Len(mid) : In(a, mid[y])
              \/ \E x \in 1 .. Len(s) : (x < k \/ x >= k + 1) /\ In(a, s[x])
  <2>1. /\ k \in 1 .. Len(s) + 1 /\ k + 1 \in k .. Len(s) + 1 /\ mid \in Seq(Block)
        /\ Len(mid) \in {0, 1} /\ GoodList(s)
    BY <1>1, <1>12, SMTT(60) DEF s
  <2> QED BY ONLY <1>7, <1>13, <2>1, SpliceGood
<1>15. ASSUME NEW a \in Int
       PROVE  /\ Covers(s, a) <=> Covers(new, a) \/ In(a, t)
              /\ In(a, t) => ~Covers(new, a)
  <2> DEFINE others == \E x \in 1 .. L : x # k /\ In(a, s[x])
  <2>1. Covers(s, a) <=> others \/ In(a, b)
    BY <1>1 DEF Covers
  <2>2. Covers(new, a) <=> others \/ (cut /\ In(a, rest))
    <3>1. (\E y \in 1 .. Len(mid) : In(a, mid[y])) <=> (cut /\ In(a, rest))
      <4>1. CASE cut
        BY <1>12, <4>1
      <4>2. CASE ~cut
        BY <1>12, <4>2
      <4> QED BY <1>11, <4>1, <4>2
    <3>2. (\E x \in 1 .. L : (x < k \/ x >= k + 1) /\ In(a, s[x])) <=> others
      BY <1>1
    <3> QED BY <1>14, <3>1, <3>2
  <2>3. In(a, b) => ~others
    <3> SUFFICES ASSUME In(a, b), NEW x \in 1 .. L, x # k, In(a, s[x]) PROVE FALSE
      OBVIOUS
    <3>1. s[x].at \in Nat /\ s[x].size \in Nat
      BY <1>2
    <3>2. CASE x < k
      <4>1. s[x].at + s[x].size < b.at
        BY <1>1, <1>3, <3>2
      <4> QED BY ONLY <1>4, <3>1, <4>1, a \in Int, In(a, b), In(a, s[x]), ApartFacts
    <3>3. CASE k < x
      <4>1. b.at + b.size < s[x].at
        BY <1>1, <1>3, <3>3
      <4> QED BY ONLY <1>4, <3>1, <4>1, a \in Int, In(a, b), In(a, s[x]), ApartFacts
    <3> QED BY <1>1, <3>2, <3>3
  <2> HIDE DEF others
  <2>4. CASE cut
    <3>1. /\ rest.at = b.at + need /\ rest.at + rest.size = b.at + b.size
          /\ t.at = b.at /\ t.size = need
      BY <1>8, <1>10, <2>4
    <3> HIDE DEF b
    <3>2. /\ In(a, b) <=> In(a, t) \/ In(a, rest)
          /\ In(a, t) => ~In(a, rest)
      BY ONLY <1>4, <3>1, a \in Int, need \in Nat DEF In
    <3> QED BY <2>1, <2>2, <2>3, <2>4, <3>2
  <2>5. CASE ~cut
    <3>1. t.at = b.at /\ t.size = b.size
      BY <1>10, <2>5
    <3> HIDE DEF b
    <3>2. In(a, b) <=> In(a, t)
      BY <3>1 DEF In
    <3> QED BY <2>1, <2>2, <2>3, <2>5, <3>2
  <2> QED BY <1>11, <2>4, <2>5
<1> QED BY <1>10, <1>14, <1>15 DEF s, new, t

(* New space goes to the end of the list, or makes its last block larger.  *)
LEMMA AppendedGood ==
  ASSUME GoodList(freelist), NEW b \in Block, b.size > 0,
         \A a \in Int : Covers(freelist, a) => a < b.at
  PROVE  /\ GoodList(Appended(b))
         /\ \A a \in Int : Covers(Appended(b), a) <=> Covers(freelist, a) \/ In(a, b)
<1> DEFINE s == freelist
           L == Len(s)
           new == Appended(b)
<1>1. s \in Seq(Block) /\ L \in Nat /\ b.at \in Nat /\ b.size \in Nat
  BY DEF GoodList, Block
<1>2. \A x \in 1 .. L : s[x] \in Block /\ s[x].at \in Nat /\ s[x].size \in Nat /\ s[x].size > 0
  BY <1>1, BlockFacts DEF GoodList
<1>3. \A x, y \in 1 .. L : x < y => s[x].at + s[x].size < s[y].at
  BY DEF GoodList
<1>4. ASSUME NEW x \in 1 .. L PROVE s[x].at + s[x].size <= b.at
  <2> DEFINE a == s[x].at + s[x].size - 1
  <2>1. a \in Int /\ In(a, s[x])
    BY <1>2 DEF In
  <2>2. a < b.at
    BY <2>1 DEF Covers
  <2>3. s[x].at \in Nat /\ s[x].size \in Nat
    BY <1>2
  <2> QED BY ONLY <1>1, <2>2, <2>3
<1>5. CASE s # <<>> /\ s[L].at + s[L].size = b.at
  <2>1. L \in 1 .. L
    BY <1>1, <1>5
  <2> DEFINE m == [s[L] EXCEPT !.size = @ + b.size]
  <2>2. new = [s EXCEPT ![L] = m]
    BY <1>5 DEF Appended
  <2>3. m \in Block /\ m.at = s[L].at /\ m.size = s[L].size + b.size
    <3> DEFINE l == s[L]
    <3>1. l \in Block /\ m = [l EXCEPT !.size = @ + b.size]
      BY <1>2, <2>1
    <3> HIDE DEF l, m
    <3>2. m \in Block /\ m.at = l.at /\ m.size = l.size + b.size
      BY <1>1, <3>1 DEF Block
    <3> QED BY <3>2 DEF l
  <2> HIDE DEF m, new, s
  <2>4. new \in Seq(Block) /\ Len(new) = L
        /\ \A x \in 1 .. L : new[x] = IF x = L THEN m ELSE s[x]
    BY ONLY <1>1, <2>1, <2>2, <2>3, ExceptSeq
  <2>5. s[L].at \in Nat /\ s[L].size \in Nat /\ s[L].size > 0
    BY <1>2, <2>1
  <2>6. \A x \in 1 .. L : new[x].at = s[x].at /\ new[x].size >= s[x].size
                          /\ (x # L => new[x] = s[x]) /\ new[x].size > 0
    BY <1>1, <1>2, <2>3, <2>4, <2>5
  <2>7. \A x, y \in 1 .. L : x < y => new[x].at + new[x].size < new[y].at
    <3> SUFFICES ASSUME NEW x \in 1 .. L, NEW y \in 1 .. L, x < y
                 PROVE  new[x].at + new[x].size < new[y].at
      OBVIOUS
    <3>1. x # L
      BY <1>1
    <3> QED BY <1>3, <2>6, <3>1
  <2>8. GoodList(new)
    BY <2>4, <2>6, <2>7 DEF GoodList
  <2>9. ASSUME NEW a \in Int PROVE Covers(new, a) <=> Covers(s, a) \/ In(a, b)
    <3>1. In(a, m) <=> In(a, s[L]) \/ In(a, b)
      <4>1. s[L].at + s[L].size = b.at
        BY <1>5
      <4> HIDE DEF L
      <4> DEFINE l == s[L]
      <4>2. l.at \in Nat /\ l.size \in Nat /\ l.at + l.size = b.at /\ m.at = l.at
            /\ m.size = l.size + b.size
        BY <2>3, <2>5, <4>1
      <4> HIDE DEF l
      <4>3. In(a, m) <=> In(a, l) \/ In(a, b)
        BY ONLY <1>1, <4>2, a \in Int, SMTT(60) DEF In
      <4> QED BY <4>3 DEF l
    <3>2. Covers(new, a) <=> (\E x \in 1 .. L : x # L /\ In(a, s[x])) \/ In(a, m)
      BY <2>1, <2>4 DEF Covers
    <3>3. Covers(s, a) <=> (\E x \in 1 .. L : x # L /\ In(a, s[x])) \/ In(a, s[L])
      BY <2>1 DEF Covers
    <3> QED BY <3>1, <3>2, <3>3
  <2> QED BY <2>8, <2>9 DEF new, s
<1>6. CASE ~(s # <<>> /\ s[L].at + s[L].size = b.at)
  <2>1. new = Append(s, b)
    BY <1>6 DEF Appended
  <2> HIDE DEF new, s
  <2>2. /\ new \in Seq(Block) /\ Len(new) = L + 1 /\ new[L + 1] = b
        /\ \A x \in 1 .. L : new[x] = s[x]
    BY ONLY <1>1, <2>1, AppendProperties, b \in Block
  <2>3. ASSUME NEW x \in 1 .. L PROVE s[x].at + s[x].size < b.at
    <3>1. L \in 1 .. L /\ s # <<>>
      BY <1>1
    <3>2. s[L].at + s[L].size # b.at /\ s[L].at + s[L].size <= b.at
      BY <1>4, <1>6, <3>1
    <3>3. s[L].at \in Nat /\ s[L].size \in Nat /\ s[x].at \in Nat /\ s[x].size \in Nat
      BY <1>2, <3>1
    <3>4. CASE x = L
      BY ONLY <1>1, <3>2, <3>3, <3>4
    <3>5. CASE x < L
      <4>1. s[x].at + s[x].size < s[L].at
        BY <1>3, <3>1, <3>5
      <4> QED BY ONLY <1>1, <3>2, <3>3, <4>1, SMTT(60)
    <3> QED BY <1>1, <3>4, <3>5
  <2>4. \A x, y \in 1 .. L + 1 : x < y => new[x].at + new[x].size < new[y].at
    <3> SUFFICES ASSUME NEW x \in 1 .. L + 1, NEW y \in 1 .. L + 1, x < y
                 PROVE  new[x].at + new[x].size < new[y].at
      OBVIOUS
    <3>1. x \in 1 .. L /\ new[x] = s[x]
      BY <1>1, <2>2
    <3>2. CASE y = L + 1
      BY <2>2, <2>3, <3>1, <3>2
    <3>3. CASE y \in 1 .. L
      BY <1>3, <2>2, <3>1, <3>3
    <3> QED BY <1>1, <3>2, <3>3
  <2>5. \A x \in 1 .. L + 1 : new[x].size > 0
    BY <1>1, <1>2, <2>2
  <2>6. GoodList(new)
    BY <2>2, <2>4, <2>5 DEF GoodList
  <2>7. ASSUME NEW a \in Int PROVE Covers(new, a) <=> Covers(s, a) \/ In(a, b)
    <3>1. L + 1 \in 1 .. L + 1 /\ \A x \in 1 .. L : x \in 1 .. L + 1
      BY <1>1
    <3>2. \A x \in 1 .. L + 1 : x \in 1 .. L \/ x = L + 1
      BY <1>1
    <3> QED BY <2>2, <3>1, <3>2 DEF Covers
  <2> QED BY <2>6, <2>7 DEF new, s
<1> QED BY <1>5, <1>6

-----------------------------------------------------------------------------
(* Who owns the bytes *)

(* A block moves from the list to the blocks in use.                       *)
LEMMA OwnedTake ==
  ASSUME NEW list, NEW used, NEW got, Owned(list, used, got), NEW new, NEW t,
         \A a \in Int : /\ Covers(list, a) <=> Covers(new, a) \/ In(a, t)
                        /\ In(a, t) => ~Covers(new, a)
  PROVE  Owned(new, used \cup {t}, got)
<1>1. \A a \in Int : a \in got <=> (Covers(new, a) \/ \E b \in used \cup {t} : In(a, b))
  BY DEF Owned
<1>2. \A b, c \in used \cup {t} : b # c => \A a \in Int : ~(In(a, b) /\ In(a, c))
  BY DEF Owned
<1>3. \A b \in used \cup {t} : \A a \in Int : In(a, b) => ~Covers(new, a)
  BY DEF Owned
<1> QED BY <1>1, <1>2, <1>3 DEF Owned

(* A block moves from the blocks in use to the list.                       *)
LEMMA OwnedFree ==
  ASSUME NEW list, NEW used, NEW got, Owned(list, used, got), NEW new, NEW b \in used,
         \A a \in Int : Covers(new, a) <=> Covers(list, a) \/ In(a, b)
  PROVE  Owned(new, used \ {b}, got)
<1>1. \A a \in Int : a \in got <=> (Covers(new, a) \/ \E c \in used \ {b} : In(a, c))
  BY DEF Owned
<1>2. \A c, d \in used \ {b} : c # d => \A a \in Int : ~(In(a, c) /\ In(a, d))
  BY DEF Owned
<1>3. \A c \in used \ {b} : \A a \in Int : In(a, c) => ~Covers(new, a)
  BY DEF Owned
<1> QED BY <1>1, <1>2, <1>3 DEF Owned

(* A block in use is replaced by its first part t, and the rest freed.     *)
LEMMA OwnedResize ==
  ASSUME NEW list, NEW used, NEW got, Owned(list, used, got), NEW new, NEW b \in used, NEW t,
         \A a \in Int : /\ Covers(list, a) \/ In(a, b) <=> Covers(new, a) \/ In(a, t)
                        /\ In(a, t) => In(a, b) /\ ~Covers(new, a)
  PROVE  Owned(new, (used \ {b}) \cup {t}, got)
<1> DEFINE u == (used \ {b}) \cup {t}
<1>1. ASSUME NEW a \in Int, NEW c \in used \ {b}, In(a, c)
      PROVE  ~In(a, b) /\ ~Covers(list, a) /\ ~Covers(new, a) /\ ~In(a, t)
  BY <1>1 DEF Owned
<1>2. \A a \in Int : a \in got <=> (Covers(new, a) \/ \E c \in u : In(a, c))
  BY DEF Owned
<1>3. ASSUME NEW c \in u, NEW d \in u, c # d, NEW a \in Int, In(a, c), In(a, d)
      PROVE  FALSE
  <2>1. CASE c = t
    BY <1>1, <1>3, <2>1
  <2>2. CASE d = t
    BY <1>1, <1>3, <2>2
  <2>3. CASE c # t /\ d # t
    BY <1>3, <2>3 DEF Owned
  <2> QED BY <2>1, <2>2, <2>3
<1>4. \A c \in u : \A a \in Int : In(a, c) => ~Covers(new, a)
  BY <1>1
<1> HIDE DEF u
<1> QED BY <1>2, <1>3, <1>4 DEF Owned, u

(* New bytes join the list.                                                *)
LEMMA OwnedGrow ==
  ASSUME NEW list, NEW used, NEW got, Owned(list, used, got), NEW new, NEW b, NEW more,
         \A a \in Int : /\ Covers(new, a) <=> Covers(list, a) \/ In(a, b)
                        /\ In(a, b) <=> a \in more
                        /\ a \in got => a \notin more
  PROVE  Owned(new, used, got \cup more)
<1>1. \A a \in Int : a \in got \cup more <=> (Covers(new, a) \/ \E c \in used : In(a, c))
  BY DEF Owned
<1>2. \A c \in used : \A a \in Int : In(a, c) => ~Covers(new, a)
  BY DEF Owned
<1> QED BY <1>1, <1>2 DEF Owned

(* The bytes of a block. *)
LEMMA BytesIn ==
  ASSUME NEW b, b.at \in Nat, b.size \in Nat
  PROVE  \A a : a \in Bytes(b) <=> a \in Int /\ In(a, b)
<1> DEFINE at == b.at
           size == b.size
<1>1. Bytes(b) = at .. at + size - 1 /\ (\A a : In(a, b) <=> at <= a /\ a < at + size)
      /\ at \in Nat /\ size \in Nat
  BY DEF Bytes, In
<1> HIDE DEF at, size
<1> QED BY <1>1

(* Owned is what the runs check. *)
LEMMA OwnedMeans ==
  ASSUME TypeOK, GoodList(freelist), Owned(freelist, live, pool)
  PROVE  BytesOwnedOnce
<1>1. \A x \in 1 .. Len(freelist) : freelist[x].at \in Nat /\ freelist[x].size \in Nat
  BY BlockFacts DEF GoodList
<1>2. \A b \in live : b.at \in Nat /\ b.size \in Nat
  BY DEF TypeOK, Used
<1>3. \A b \in FreeBlocks : b.at \in Nat /\ b.size \in Nat
                            /\ \A a : In(a, b) => Covers(freelist, a)
  BY <1>1 DEF FreeBlocks, GoodList, Covers
<1>4. \A a : Covers(freelist, a) => \E b \in FreeBlocks : In(a, b)
  BY DEF FreeBlocks, GoodList, Covers
<1>5. \A b \in FreeBlocks \cup live : \A a : a \in Bytes(b) <=> a \in Int /\ In(a, b)
  BY <1>2, <1>3, BytesIn
<1>6. pool \subseteq Int
  BY DEF TypeOK
<1>7. ASSUME NEW a PROVE a \in UNION {Bytes(b) : b \in FreeBlocks \cup live} <=> a \in pool
  <2>1. a \in UNION {Bytes(b) : b \in FreeBlocks \cup live}
          <=> \E b \in FreeBlocks \cup live : a \in Bytes(b)
    OBVIOUS
  <2>2. CASE a \in Int
    BY <1>3, <1>4, <1>5, <2>1, <2>2 DEF Owned
  <2>3. CASE a \notin Int
    BY <1>5, <1>6, <2>1, <2>3
  <2> QED BY <2>2, <2>3
<1>8. \A b, c \in live : b # c => Bytes(b) \cap Bytes(c) = {}
  BY <1>5 DEF Owned
<1>9. \A b \in live, f \in FreeBlocks : Bytes(b) \cap Bytes(f) = {}
  BY <1>3, <1>5 DEF Owned
<1> HIDE DEF FreeBlocks
<1> QED BY <1>7, <1>8, <1>9 DEF BytesOwnedOnce

-----------------------------------------------------------------------------
(* Sizes *)

(* Rounding up to a multiple of m.                                         *)
LEMMA RoundUp ==
  ASSUME SizeAssumption, NEW m \in Nat \ {0}, NEW n \in Nat, n + m - 1 < WORD,
         NEW r, r = ((((n + m - 1) % WORD) \div m) * m) % WORD
  PROVE  r \in Nat /\ n <= r /\ r <= n + m - 1
<1>1. WORD \in Nat /\ n + m - 1 \in Nat
  BY DEF SizeAssumption
<1>2. (n + m - 1) % WORD = n + m - 1
  BY <1>1
<1> DEFINE q == (n + m - 1) \div m
<1>3. q \in Nat /\ (n + m - 1) % m \in 0 .. m - 1 /\ n + m - 1 = m * q + ((n + m - 1) % m)
  BY <1>1, DivFacts
<1>4. r = (q * m) % WORD
  BY <1>2
<1> HIDE DEF q
<1>5. q * m \in Nat /\ n <= q * m /\ q * m <= n + m - 1
  BY <1>3
<1> DEFINE p == q * m
<1> HIDE DEF p
<1>6. p \in Nat /\ p < WORD /\ r = p % WORD
  BY <1>1, <1>4, <1>5 DEF p
<1>7. r = p
  BY <1>1, <1>6
<1> QED BY <1>5, <1>7 DEF p

(* What malloc looks for.                                                  *)
LEMMA NeedFacts ==
  ASSUME SizeAssumption, NEW size \in Nat, Sane(size)
  PROVE  /\ Need(size) \in Nat \ {0} /\ Need(size) >= BLOCK_HDR + size
         /\ Need(size) + BLOCK_HDR + MIN_ALIGN < WORD /\ Need(size) + PAGE < WORD
<1>1. /\ WORD \in Nat /\ MIN_ALIGN \in Nat \ {0} /\ BLOCK_HDR \in Nat \ {0} /\ PAGE \in Nat \ {0}
      /\ size + 2 * MIN_ALIGN + 2 * BLOCK_HDR + PAGE < WORD
  BY DEF SizeAssumption, Sane
<1> DEFINE r == align8(size)
<1>2. r \in Nat /\ size <= r /\ r <= size + MIN_ALIGN - 1
  <2>1. size + MIN_ALIGN - 1 < WORD /\ MIN_ALIGN \in Nat \ {0}
    BY <1>1
  <2>2. r = ((((size + MIN_ALIGN - 1) % WORD) \div MIN_ALIGN) * MIN_ALIGN) % WORD
    BY DEF align8
  <2> HIDE DEF r
  <2> QED BY ONLY SizeAssumption, size \in Nat, <2>1, <2>2, RoundUp
<1>3. Need(size) = (r + BLOCK_HDR) % WORD
  BY DEF Need
<1> HIDE DEF r
<1>4. r + BLOCK_HDR \in Nat /\ r + BLOCK_HDR < WORD
  BY <1>1, <1>2
<1>5. Need(size) = r + BLOCK_HDR
  BY <1>1, <1>3, <1>4
<1> QED BY <1>1, <1>2, <1>5

(* What morecore asks for.                                                 *)
LEMMA RequestFacts ==
  ASSUME SizeAssumption, NEW need \in Nat \ {0}, need + PAGE < WORD
  PROVE  Request(need) \in Nat /\ Request(need) > 0 /\ Request(need) < WORD
<1>1. WORD \in Nat /\ PAGE \in Nat \ {0} /\ 2 * PAGE < WORD
  BY DEF SizeAssumption
<1> DEFINE l == Larger(need, PAGE)
<1>2. l \in Nat /\ l > 0 /\ l + PAGE - 1 < WORD - 1
  BY <1>1 DEF Larger
<1>3. Request(need) = ((((l + PAGE - 1) % WORD) \div PAGE) * PAGE) % WORD
  BY DEF Request
<1> HIDE DEF l
<1>4. Request(need) \in Nat /\ l <= Request(need) /\ Request(need) <= l + PAGE - 1
  <2>1. l + PAGE - 1 < WORD /\ l \in Nat /\ PAGE \in Nat \ {0}
    BY <1>1, <1>2
  <2> QED BY ONLY SizeAssumption, <1>3, <2>1, RoundUp
<1> QED BY <1>1, <1>2, <1>4

(* The break never goes down, nor past the stack. *)
LEMMA BreakFacts ==
  ASSUME LayoutAssumption, brk \in 0 .. USER_STACK, NEW inc \in Nat
  PROVE  sys_sbrk(inc) \in 0 .. USER_STACK /\ sys_sbrk(inc) >= brk
BY DEF LayoutAssumption, sys_sbrk

-----------------------------------------------------------------------------
(* The steps *)

(* What the invariant says of the numbers and the blocks in use.           *)
LEMMA HeapFacts ==
  ASSUME HeapInv
  PROVE  /\ brk \in Nat /\ heap_brk \in Nat /\ heap_brk <= brk /\ brk \in 0 .. USER_STACK
         /\ live \subseteq Used /\ NoBlock \notin live
         /\ \A b \in live : /\ b.at \in Nat /\ b.size \in Nat /\ b.req \in Nat /\ b.size > 0
                            /\ b.size >= BLOCK_HDR + b.req
<1>1. live \subseteq Used
  BY DEF HeapInv, TypeOK
<1>2. brk \in 0 .. USER_STACK /\ heap_brk \in 0 .. brk /\ USER_STACK \in Nat
      /\ BLOCK_HDR \in Nat /\ BLOCK_HDR > 0
  BY LayoutAssumption, SizeAssumption DEF HeapInv, TypeOK, LayoutAssumption, SizeAssumption
<1>3. ASSUME NEW b \in live
      PROVE  /\ b.at \in Nat /\ b.size \in Nat /\ b.req \in Nat /\ b.size > 0
             /\ b.size >= BLOCK_HDR + b.req
  <2>1. b.at \in Nat /\ b.size \in Nat /\ b.req \in Nat
    BY <1>1 DEF Used
  <2>2. b.size >= BLOCK_HDR + b.req
    BY DEF HeapInv, RoomEnough
  <2> QED BY <1>2, <2>1, <2>2
<1>4. NoBlock \notin live
  BY <1>3 DEF NoBlock
<1> QED BY <1>1, <1>2, <1>3, <1>4

(* No byte of a block in use is in the list.                               *)
LEMMA LiveApart ==
  ASSUME HeapInv, NEW b \in live
  PROVE  Apart(freelist, b)
BY DEF HeapInv, Owned, Apart

(* Entering malloc. *)
LEMMA EnterStep ==
  ASSUME HeapInv, call = Idle, NEW kind \in {"malloc", "realloc"}, NEW size \in Nat, Sane(size),
         NEW old, IF kind = "realloc" THEN old \in live ELSE old = NoBlock,
         Enter(kind, size, size, old)
  PROVE  HeapInv'
<1> USE SizeAssumption, LayoutAssumption
<1>1. /\ brk \in Nat /\ heap_brk \in Nat /\ heap_brk <= brk /\ brk \in 0 .. USER_STACK
      /\ live \subseteq Used
  BY HeapFacts
<1>2. UNCHANGED <<freelist, live, pool>>
  BY DEF Enter
<1>3. brk' \in 0 .. USER_STACK /\ heap_brk' \in 0 .. brk' /\ heap_state' \in {-1, 0, 1}
      /\ (heap_state # 0 => heap_brk' = heap_brk) /\ heap_state' # 0
  <2>1. CASE heap_state # 0
    BY <1>1, <2>1 DEF Enter, HeapInv, TypeOK
  <2>2. CASE heap_state = 0 /\ heap_start > brk
    <3> DEFINE got == sys_sbrk(heap_start - brk)
    <3>1. heap_start - brk \in Nat
      BY <1>1, <2>2 DEF LayoutAssumption
    <3>2. got \in 0 .. USER_STACK /\ got >= brk
      BY ONLY LayoutAssumption, <1>1, <3>1, BreakFacts
    <3> HIDE DEF got
    <3>3. /\ brk' = got /\ heap_state' = IF got <= brk THEN -1 ELSE 1
          /\ heap_brk' = IF got <= brk THEN heap_brk ELSE got
      BY <2>2 DEF Enter, heap_boot, got
    <3> QED BY <1>1, <2>2, <3>2, <3>3
  <2>3. CASE heap_state = 0 /\ ~(heap_start > brk)
    BY <1>1, <2>3 DEF Enter, heap_boot
  <2> QED BY <2>1, <2>2, <2>3
<1>4. pool' \in SUBSET (0 .. heap_brk' - 1)
  <2>1. CASE heap_state = 0
    BY <1>2, <2>1 DEF HeapInv
  <2>2. CASE heap_state # 0
    BY <1>2, <1>3, <2>2 DEF HeapInv, TypeOK
  <2> QED BY <2>1, <2>2
<1> DEFINE need == Need(size)
<1>5. /\ need \in Nat \ {0} /\ need >= BLOCK_HDR + size
      /\ need + BLOCK_HDR + MIN_ALIGN < WORD /\ need + PAGE < WORD
  BY NeedFacts
<1>6. \/ call' = Idle
      \/ call' = [kind |-> kind, need |-> need, req |-> size, old |-> old]
  BY DEF Enter
<1>7. old \in Used
  BY <1>1 DEF NoBlock, Used
<1> HIDE DEF need
<1>8. call' \in Calls \cup {Idle}
  BY <1>5, <1>6, <1>7 DEF Calls
<1>9. CallSound'
  BY <1>2, <1>5, <1>6 DEF CallSound
<1>10. TypeOK'
  BY <1>2, <1>3, <1>4, <1>8 DEF TypeOK, HeapInv
<1>11. GoodList(freelist)' /\ Owned(freelist, live, pool)' /\ RoomEnough'
  BY <1>2 DEF HeapInv, RoomEnough
<1> QED BY <1>3, <1>9, <1>10, <1>11 DEF HeapInv

(* Taking the first block that fits, and freeing what realloc moved from.  *)
LEMMA TakeStep ==
  ASSUME HeapInv, Take
  PROVE  HeapInv'
<1> USE SizeAssumption
<1> DEFINE need == call.need
           req == call.req
           old == call.old
           k == First(need)
           list == ListWithout(k, need)
           t == Taken(k, need, req)
<1>1. /\ call # Idle /\ Fits(need) # {}
      /\ live' = (live \ {old}) \cup {t}
      /\ freelist' = IF call.kind = "realloc" THEN free(list, old) ELSE list
      /\ call' = Idle /\ UNCHANGED <<brk, heap_state, heap_brk, pool>>
  BY DEF Take
<1>2. /\ need \in Nat /\ req \in Nat /\ need >= BLOCK_HDR + req
      /\ need + BLOCK_HDR + MIN_ALIGN < WORD
      /\ IF call.kind = "realloc" THEN old \in live ELSE old = NoBlock
  BY <1>1 DEF HeapInv, TypeOK, Calls, CallSound
<1>3. GoodList(freelist) /\ Owned(freelist, live, pool)
  BY DEF HeapInv
<1>4. need \in Nat \ {0} /\ BLOCK_HDR \in Nat /\ BLOCK_HDR > 0
  BY <1>2 DEF SizeAssumption
<1> HIDE DEF need, req, old
<1>5. k \in 1 .. Len(freelist) /\ freelist[k].size >= need
  BY <1>1, <1>2, <1>3, FirstFacts
<1> HIDE DEF k
<1>6. /\ GoodList(list)
      /\ t \in Used /\ t.size >= need /\ t.req = req
      /\ \A a \in Int : /\ Covers(freelist, a) <=> Covers(list, a) \/ In(a, t)
                        /\ In(a, t) => ~Covers(list, a)
  BY ONLY SizeAssumption, <1>2, <1>3, <1>4, <1>5, TakenGood
<1> HIDE DEF list, t
<1>7. Owned(list, live \cup {t}, pool)
  BY ONLY <1>3, <1>6, OwnedTake
<1>8. t.at \in Nat /\ t.size \in Nat /\ t.size > 0 /\ t.size >= BLOCK_HDR + t.req
  BY <1>2, <1>4, <1>6 DEF Used
<1>9. GoodList(freelist') /\ Owned(freelist', live', pool)
  <2>1. CASE call.kind = "realloc"
    <3>1. old \in live
      BY <1>2, <2>1
    <3>2. old.at \in Nat /\ old.size \in Nat /\ old.size > 0
      BY <3>1, HeapFacts
    <3>3. t # old
      <4>1. In(t.at, t) /\ t.at \in Int
        BY <1>8 DEF In
      <4>2. Covers(freelist, t.at)
        BY <1>6, <4>1
      <4>3. ~In(t.at, old)
        BY <1>3, <3>1, <4>1, <4>2 DEF Owned
      <4> QED BY <4>1, <4>3
    <3>4. Apart(list, old)
      BY <1>7, <3>1 DEF Owned, Apart
    <3>5. /\ GoodList(free(list, old))
          /\ \A a \in Int : Covers(free(list, old), a) <=> Covers(list, a) \/ In(a, old)
      BY ONLY <1>6, <3>2, <3>4, FreeGood
    <3>6. old \in live \cup {t}
      BY <3>1
    <3>7. Owned(free(list, old), (live \cup {t}) \ {old}, pool)
      BY ONLY <1>7, <3>5, <3>6, OwnedFree
    <3>8. (live \cup {t}) \ {old} = live'
      BY <1>1, <3>3
    <3>9. freelist' = free(list, old)
      BY <1>1, <2>1
    <3> QED BY <3>5, <3>7, <3>8, <3>9
  <2>2. CASE call.kind # "realloc"
    <3>1. old = NoBlock /\ NoBlock \notin live
      BY <1>2, <2>2, HeapFacts
    <3>2. live' = live \cup {t} /\ freelist' = list
      BY <1>1, <2>2, <3>1
    <3> QED BY <1>6, <1>7, <3>2
  <2> QED BY <2>1, <2>2
<1>10. TypeOK'
  <2>1. freelist' \in Seq(Block)
    BY <1>9 DEF GoodList
  <2>2. live' \in SUBSET Used
    BY <1>1, <1>6, HeapFacts
  <2> QED BY <1>1, <2>1, <2>2 DEF HeapInv, TypeOK
<1>11. RoomEnough'
  <2> SUFFICES ASSUME NEW b \in live' PROVE b.size >= BLOCK_HDR + b.req
    BY DEF RoomEnough
  <2>1. b \in live \/ b = t
    BY <1>1
  <2> QED BY <1>8, <2>1, HeapFacts
<1>12. CallSound'
  BY <1>1 DEF CallSound
<1>13. heap_state' # 0
  BY <1>1 DEF HeapInv
<1> QED BY <1>1, <1>9, <1>10, <1>11, <1>12, <1>13 DEF HeapInv

(* What is below a bound is below a larger one. *)
LEMMA Wider ==
  ASSUME NEW x \in Nat, NEW y \in Nat, x <= y
  PROVE  0 .. x - 1 \subseteq 0 .. y - 1
OBVIOUS

(* Growing the break, or failing to.                                       *)
LEMMA GrowStep ==
  ASSUME HeapInv, Grow
  PROVE  HeapInv'
<1> USE SizeAssumption, LayoutAssumption
<1> DEFINE need == call.need
           req == Request(need)
           got == sys_sbrk(req)
           b == [at |-> heap_brk, size |-> req]
           more == heap_brk .. got - 1
<1>1. call # Idle /\ brk' = got /\ UNCHANGED <<heap_state, live>>
  BY DEF Grow, morecore
<1>2. \/ call' = Idle /\ UNCHANGED <<heap_brk, freelist, pool>>
      \/ /\ got = (heap_brk + req) % WORD /\ heap_brk' = got /\ call' = call
         /\ freelist' = Appended(b) /\ pool' = pool \cup more
  BY DEF Grow, morecore
<1>3. call \in Calls /\ need \in Nat /\ call.req \in Nat /\ need >= BLOCK_HDR + call.req
      /\ need + PAGE < WORD /\ BLOCK_HDR \in Nat \ {0}
  BY <1>1 DEF HeapInv, TypeOK, Calls, CallSound, SizeAssumption
<1>4. heap_state # 0
  BY <1>1 DEF HeapInv
<1> HIDE DEF need
<1>5. req \in Nat /\ req > 0 /\ req < WORD
  <2>1. need \in Nat \ {0}
    BY <1>3
  <2> QED BY ONLY SizeAssumption, <1>3, <2>1, RequestFacts
<1> HIDE DEF req
<1>6. /\ brk \in Nat /\ heap_brk \in Nat /\ heap_brk <= brk /\ brk \in 0 .. USER_STACK
  BY HeapFacts
<1>7. got \in 0 .. USER_STACK /\ got >= brk
  BY ONLY LayoutAssumption, <1>5, <1>6, BreakFacts
<1> HIDE DEF got
<1>8. CASE call' = Idle /\ UNCHANGED <<heap_brk, freelist, pool>>
  <2>1. TypeOK'
    <3>1. brk' \in 0 .. USER_STACK /\ heap_brk' \in 0 .. brk'
      BY <1>1, <1>6, <1>7, <1>8
    <3> QED BY <1>1, <1>8, <3>1 DEF HeapInv, TypeOK
  <2>2. CallSound'
    BY <1>8 DEF CallSound
  <2>3. GoodList(freelist)' /\ Owned(freelist, live, pool)' /\ RoomEnough'
    BY <1>1, <1>8 DEF HeapInv, RoomEnough
  <2> QED BY <1>1, <1>4, <2>1, <2>2, <2>3 DEF HeapInv
<1>9. CASE /\ got = (heap_brk + req) % WORD /\ heap_brk' = got /\ call' = call
           /\ freelist' = Appended(b) /\ pool' = pool \cup more
  <2>1. got = heap_brk + req
    <3> DEFINE a == heap_brk + req
    <3>1. WORD \in Nat \ {0} /\ USER_STACK < WORD
      BY DEF SizeAssumption, LayoutAssumption
    <3>2. a \in Nat /\ -WORD <= a /\ a < 2 * WORD /\ a - WORD < heap_brk
      BY <1>5, <1>6, <3>1
    <3>3. got = a % WORD
      BY <1>9
    <3> HIDE DEF a
    <3>4. a % WORD = IF a < 0 THEN a + WORD ELSE IF a < WORD THEN a ELSE a - WORD
      <4>1. a \in Int
        BY <3>2
      <4> QED BY ONLY <3>1, <3>2, <4>1, WrapFacts
    <3>5. got = a
      BY <1>6, <1>7, <3>1, <3>2, <3>3, <3>4
    <3> QED BY <3>5 DEF a
  <2>2. pool \subseteq 0 .. heap_brk - 1
    BY DEF HeapInv, TypeOK
  <2>3. b \in Block /\ b.at = heap_brk /\ b.size = req
    BY <1>5, <1>6 DEF Block
  <2> HIDE DEF b
  <2>4. \A a \in Int : Covers(freelist, a) => a < b.at
    BY <1>6, <2>2, <2>3 DEF HeapInv, Owned
  <2>5. GoodList(freelist) /\ Owned(freelist, live, pool)
    BY DEF HeapInv
  <2>6. /\ GoodList(Appended(b))
        /\ \A a \in Int : Covers(Appended(b), a) <=> Covers(freelist, a) \/ In(a, b)
    <3>1. b.size > 0
      BY <1>5, <2>3
    <3> QED BY ONLY <2>3, <2>4, <2>5, <3>1, AppendedGood
  <2>7. \A a \in Int : /\ In(a, b) <=> a \in more
                       /\ a \in pool => a \notin more
    <3>1. \A a \in Int : In(a, b) <=> a \in more
      BY <1>5, <1>6, <2>1, <2>3 DEF In
    <3>2. \A a \in Int : a \in pool => a \notin more
      BY <1>6, <2>2
    <3> QED BY <3>1, <3>2
  <2> HIDE DEF more
  <2>8. Owned(Appended(b), live, pool \cup more)
    BY ONLY <2>5, <2>6, <2>7, OwnedGrow
  <2>9. TypeOK'
    <3>1. brk' \in 0 .. USER_STACK /\ heap_brk' \in 0 .. brk'
      BY <1>1, <1>6, <1>7, <1>9
    <3>2. pool' \in SUBSET (0 .. heap_brk' - 1)
      <4>1. heap_brk <= heap_brk' /\ heap_brk' \in Nat
        BY <1>5, <1>6, <1>9, <2>1
      <4>2. more \subseteq 0 .. heap_brk' - 1
        BY <1>6, <1>9 DEF more
      <4>3. pool \subseteq 0 .. heap_brk' - 1
        <5>1. 0 .. heap_brk - 1 \subseteq 0 .. heap_brk' - 1
          BY ONLY <1>6, <4>1, Wider
        <5> QED BY <2>2, <5>1
      <4> QED BY <1>9, <4>2, <4>3
    <3>3. freelist' \in Seq(Block)
      BY <1>9, <2>6 DEF GoodList
    <3>4. live \in SUBSET Used /\ call \in Calls \cup {Idle} /\ heap_state \in {-1, 0, 1}
      BY DEF HeapInv, TypeOK
    <3> QED BY <1>1, <1>9, <3>1, <3>2, <3>3, <3>4 DEF TypeOK
  <2>10. CallSound' /\ RoomEnough'
    BY <1>1, <1>9 DEF HeapInv, CallSound, RoomEnough
  <2>11. GoodList(freelist)' /\ Owned(freelist, live, pool)'
    BY <1>1, <1>9, <2>6, <2>8
  <2> QED BY <1>1, <1>4, <2>9, <2>10, <2>11 DEF HeapInv
<1> QED BY <1>2, <1>8, <1>9

(* free looks at the place and size of a block only.                       *)
LEMMA FreeOf ==
  ASSUME NEW s, NEW b, NEW c, b.at = c.at, b.size = c.size
  PROVE  free(s, b) = free(s, c)
BY DEF free, Position, MeetsNext, MeetsPrev

(* Freeing a block. *)
LEMMA FreeStep ==
  ASSUME HeapInv, NEW b \in live, Free(b)
  PROVE  HeapInv'
<1> DEFINE c == [at |-> b.at, size |-> b.size]
<1>1. /\ call = Idle /\ freelist' = free(freelist, c) /\ live' = live \ {b}
      /\ UNCHANGED <<brk, heap_state, heap_brk, call, pool>>
  BY DEF Free
<1>2. b.at \in Nat /\ b.size \in Nat /\ b.size > 0
  BY HeapFacts
<1>3. free(freelist, c) = free(freelist, b)
  <2>1. c.at = b.at /\ c.size = b.size
    OBVIOUS
  <2> HIDE DEF c
  <2> QED BY ONLY <2>1, FreeOf
<1>4. GoodList(freelist) /\ Owned(freelist, live, pool) /\ heap_state # 0
  BY DEF HeapInv
<1>5. /\ GoodList(free(freelist, b))
      /\ \A a \in Int : Covers(free(freelist, b), a) <=> Covers(freelist, a) \/ In(a, b)
  BY ONLY <1>2, <1>4, LiveApart, HeapInv, b \in live, FreeGood
<1>6. Owned(free(freelist, b), live \ {b}, pool)
  BY ONLY <1>4, <1>5, b \in live, OwnedFree
<1>7. freelist' = free(freelist, b)
  BY <1>1, <1>3
<1>8. TypeOK'
  <2>1. freelist' \in Seq(Block)
    BY <1>5, <1>7 DEF GoodList
  <2> QED BY <1>1, <2>1 DEF HeapInv, TypeOK
<1>9. RoomEnough' /\ CallSound'
  BY <1>1 DEF HeapInv, RoomEnough, CallSound
<1> QED BY <1>1, <1>4, <1>5, <1>6, <1>7, <1>8, <1>9 DEF HeapInv

(* realloc of a block that is large enough.                                *)
LEMMA ShrinkStep ==
  ASSUME HeapInv, NEW b \in live, NEW size \in Nat, Sane(size), Shrink(b, size)
  PROVE  HeapInv'
<1> USE SizeAssumption
<1> DEFINE need == Need(size)
           cut == b.size >= need + BLOCK_HDR + MIN_ALIGN
           rest == Rest(b, need)
<1>1. /\ call = Idle /\ b.size - BLOCK_HDR >= size
      /\ UNCHANGED <<brk, heap_state, heap_brk, call, pool>>
  BY DEF Shrink
<1>2. /\ b.at \in Nat /\ b.size \in Nat /\ b.size > 0 /\ b.req \in Nat /\ b \in Used
  BY HeapFacts
<1>3. /\ need \in Nat \ {0} /\ need >= BLOCK_HDR + size
      /\ need + BLOCK_HDR + MIN_ALIGN < WORD
      /\ WORD \in Nat /\ BLOCK_HDR \in Nat /\ MIN_ALIGN \in Nat /\ MIN_ALIGN > 0
  BY NeedFacts DEF SizeAssumption
<1>4. Splits(b, need) <=> cut
  <2> HIDE DEF need
  <2>1. (need + BLOCK_HDR + MIN_ALIGN) % WORD = need + BLOCK_HDR + MIN_ALIGN
    BY <1>3
  <2> QED BY <2>1 DEF Splits
<1>5. GoodList(freelist) /\ Owned(freelist, live, pool) /\ heap_state # 0
  BY DEF HeapInv
<1>6. \/ /\ cut /\ freelist' = free(freelist, rest)
         /\ live' = (live \ {b}) \cup {[at |-> b.at, size |-> need, req |-> size]}
      \/ ~cut /\ live' = (live \ {b}) \cup {[b EXCEPT !.req = size]} /\ UNCHANGED freelist
  BY <1>4 DEF Shrink
<1> HIDE DEF need
<1>7. ASSUME NEW t \in Used, live' = (live \ {b}) \cup {t}, GoodList(freelist'),
             t.size >= BLOCK_HDR + t.req,
             \A a \in Int :
                /\ Covers(freelist, a) \/ In(a, b) <=> Covers(freelist', a) \/ In(a, t)
                /\ In(a, t) => In(a, b) /\ ~Covers(freelist', a)
      PROVE  HeapInv'
  <2>1. Owned(freelist', (live \ {b}) \cup {t}, pool)
    BY ONLY <1>5, <1>7, b \in live, OwnedResize
  <2>2. TypeOK'
    <3>1. freelist' \in Seq(Block)
      BY <1>7 DEF GoodList
    <3>2. live' \in SUBSET Used
      BY <1>7, HeapFacts
    <3> QED BY <1>1, <3>1, <3>2 DEF HeapInv, TypeOK
  <2>3. RoomEnough'
    <3> SUFFICES ASSUME NEW c \in live' PROVE c.size >= BLOCK_HDR + c.req
      BY DEF RoomEnough
    <3> QED BY <1>7, HeapFacts
  <2>4. CallSound'
    BY <1>1 DEF CallSound
  <2> QED BY <1>1, <1>5, <1>7, <2>1, <2>2, <2>3, <2>4 DEF HeapInv
<1>8. CASE /\ cut /\ freelist' = free(freelist, rest)
           /\ live' = (live \ {b}) \cup {[at |-> b.at, size |-> need, req |-> size]}
  <2> DEFINE t == [at |-> b.at, size |-> need, req |-> size]
             at == b.at
             full == b.size
  <2>1. at \in Nat /\ full \in Nat /\ full >= need + BLOCK_HDR + MIN_ALIGN
    BY <1>2, <1>8
  <2>2. rest = [at |-> at + need, size |-> full - need]
    BY <1>3 DEF Rest
  <2>3. t \in Used /\ t.at = at /\ t.size = need /\ t.req = size
    BY <1>2, <1>3 DEF Used
  <2>4. In(at, b) /\ (\A a \in Int : In(a, b) <=> at <= a /\ a < at + full)
    BY <1>2 DEF In
  <2> HIDE DEF rest, t, at, full
  <2>5. rest.at = at + need /\ rest.size = full - need
    BY <2>2
  <2>6. rest.at \in Nat /\ rest.size \in Nat /\ rest.size > 0 /\ rest.at + rest.size = at + full
    BY <1>3, <2>1, <2>5
  <2>7. ASSUME NEW a \in Int
        PROVE  /\ In(a, b) <=> In(a, t) \/ In(a, rest)
               /\ In(a, t) => ~In(a, rest)
    <3>1. In(a, rest) <=> at + need <= a /\ a < at + full
      BY <2>5, <2>6 DEF In
    <3>2. In(a, t) <=> at <= a /\ a < at + need
      BY <2>3 DEF In
    <3> QED BY <1>3, <2>1, <2>4, <3>1, <3>2
  <2>8. Apart(freelist, b)
    BY LiveApart
  <2>9. Apart(freelist, rest)
    BY <2>7, <2>8 DEF Apart
  <2>10. /\ GoodList(free(freelist, rest))
         /\ \A a \in Int : Covers(free(freelist, rest), a) <=> Covers(freelist, a) \/ In(a, rest)
    BY ONLY <1>5, <2>6, <2>9, FreeGood
  <2>11. t.size >= BLOCK_HDR + t.req
    BY <1>3, <2>3
  <2>12. \A a \in Int :
            /\ Covers(freelist, a) \/ In(a, b) <=> Covers(freelist', a) \/ In(a, t)
            /\ In(a, t) => In(a, b) /\ ~Covers(freelist', a)
    BY <1>8, <2>7, <2>8, <2>10 DEF Apart
  <2>13. live' = (live \ {b}) \cup {t}
    BY <1>8 DEF t
  <2> QED BY <1>7, <1>8, <2>3, <2>10, <2>11, <2>12, <2>13
<1>9. CASE ~cut /\ live' = (live \ {b}) \cup {[b EXCEPT !.req = size]} /\ UNCHANGED freelist
  <2> DEFINE t == [b EXCEPT !.req = size]
  <2>1. t \in Used /\ t.at = b.at /\ t.size = b.size /\ t.req = size
    BY <1>2 DEF Used
  <2>2. live' = (live \ {b}) \cup {t}
    BY <1>9
  <2> HIDE DEF t
  <2>3. \A a \in Int : In(a, t) <=> In(a, b)
    BY <2>1 DEF In
  <2>4. Apart(freelist, b)
    BY LiveApart
  <2>5. \A a \in Int :
            /\ Covers(freelist, a) \/ In(a, b) <=> Covers(freelist', a) \/ In(a, t)
            /\ In(a, t) => In(a, b) /\ ~Covers(freelist', a)
    BY <1>9, <2>3, <2>4 DEF Apart
  <2>6. t.size >= BLOCK_HDR + t.req
    BY <1>1, <1>2, <1>3, <2>1
  <2>7. GoodList(freelist')
    BY <1>5, <1>9
  <2> QED BY <1>7, <2>1, <2>2, <2>5, <2>6, <2>7
<1> QED BY <1>6, <1>8, <1>9

(* The program moves the break. *)
LEMMA SbrkStep ==
  ASSUME HeapInv, NEW inc \in Increments, ProgramSbrk(inc)
  PROVE  HeapInv'
<1>1. inc \in Nat
  BY RequestAssumption DEF RequestAssumption
<1>2. brk \in Nat /\ heap_brk \in Nat /\ heap_brk <= brk /\ brk \in 0 .. USER_STACK
  BY HeapFacts
<1> DEFINE got == sys_sbrk(inc)
<1>3. got \in 0 .. USER_STACK /\ got >= brk
  BY ONLY LayoutAssumption, <1>1, <1>2, BreakFacts
<1>4. brk' = got /\ UNCHANGED <<heap_state, heap_brk, freelist, live, call, pool>>
  BY DEF ProgramSbrk
<1> HIDE DEF got
<1>5. brk' \in 0 .. USER_STACK /\ heap_brk' \in 0 .. brk'
  BY <1>2, <1>3, <1>4
<1>6. TypeOK'
  BY <1>4, <1>5 DEF HeapInv, TypeOK
<1>7. GoodList(freelist)' /\ Owned(freelist, live, pool)' /\ RoomEnough' /\ CallSound'
  BY <1>4 DEF HeapInv, RoomEnough, CallSound
<1> QED BY <1>4, <1>6, <1>7 DEF HeapInv

-----------------------------------------------------------------------------
(* The theorems *)

(* At the start there is no block and no call.                             *)
LEMMA HeapStart == Init => HeapInv
<1> SUFFICES ASSUME Init PROVE HeapInv
  OBVIOUS
<1>1. TypeOK
  BY LayoutAssumption DEF Init, TypeOK, LayoutAssumption
<1>2. Len(<<>>) = 0 /\ <<>> \in Seq(Block)
  OBVIOUS
<1>3. GoodList(freelist)
  BY <1>2 DEF Init, GoodList
<1>4. \A a : ~Covers(freelist, a)
  BY <1>2 DEF Init, Covers
<1>5. Owned(freelist, live, pool)
  BY <1>4 DEF Init, Owned
<1> QED BY <1>1, <1>3, <1>5 DEF Init, HeapInv, RoomEnough, CallSound

(* Requests that wrap nothing keep the invariant, whatever is called.      *)
LEMMA HeapStep == SaneRequests /\ HeapInv /\ [Next]_vars => HeapInv'
<1> SUFFICES ASSUME SaneRequests, HeapInv, [Next]_vars PROVE HeapInv'
  OBVIOUS
<1> USE SizeAssumption, RequestAssumption
<1>1. \A s \in Sizes : s \in Nat /\ Sane(s) /\ s + 1 \in Nat /\ Sane(s + 1) /\ s + 1 < WORD
  BY DEF SaneRequests, Sane, SizeAssumption, RequestAssumption
<1>2. CASE Take
  BY <1>2, TakeStep
<1>3. CASE Grow
  BY <1>3, GrowStep
<1>4. ASSUME NEW s \in Sizes, malloc(s) PROVE HeapInv'
  <2>1. call = Idle /\ Enter("malloc", s, s, NoBlock)
    BY <1>4 DEF malloc
  <2> QED BY <1>1, <2>1, EnterStep
<1>5. ASSUME NEW s \in Sizes, strdup(s) PROVE HeapInv'
  <2>1. call = Idle /\ Enter("malloc", (s + 1) % WORD, s + 1, NoBlock)
    BY <1>5 DEF strdup
  <2>2. (s + 1) % WORD = s + 1
    BY <1>1 DEF SizeAssumption
  <2> QED BY <1>1, <2>1, <2>2, EnterStep
<1>6. ASSUME NEW s \in Sizes, NEW c \in Counts, calloc(c, s) PROVE HeapInv'
  <2> DEFINE product == c * s
             total == product % WORD
  <2>1. c \in Nat /\ s \in Nat /\ product \in Nat /\ WORD \in Nat \ {0}
        /\ (c = 0 => product = 0)
    BY DEF RequestAssumption, SizeAssumption
  <2>2. total \in 0 .. WORD - 1 /\ (product < WORD => total = product)
    <3> HIDE DEF product
    <3> QED BY <2>1
  <2>3. call = Idle /\ \/ c # 0 /\ total \div c # s /\ UNCHANGED vars
                       \/ (c = 0 \/ total \div c = s) /\ Enter("malloc", total, product, NoBlock)
    BY <1>6 DEF calloc
  <2>4. CASE UNCHANGED vars
    BY <2>4 DEF vars, HeapInv, TypeOK, RoomEnough, CallSound
  <2>5. CASE (c = 0 \/ total \div c = s) /\ Enter("malloc", total, product, NoBlock)
    <3>1. product < WORD
      <4>1. CASE c = 0
        BY <2>1, <4>1
      <4>2. CASE c # 0 /\ total \div c = s
        <5> HIDE DEF total
        <5>1. total = c * (total \div c) + (total % c) /\ total % c \in Nat
          BY <2>1, <2>2, <4>2, DivFacts
        <5>2. total = product + (total % c)
          BY <4>2, <5>1
        <5> HIDE DEF product
        <5> QED BY <2>1, <2>2, <5>1, <5>2
      <4> QED BY <2>5, <4>1, <4>2
    <3>2. total = product /\ Sane(product)
      BY <2>2, <3>1 DEF SaneRequests
    <3> HIDE DEF product, total
    <3> QED BY <2>1, <2>3, <2>5, <3>2, EnterStep
  <2> QED BY <2>3, <2>4, <2>5
<1>7. ASSUME NEW b \in live, Free(b) PROVE HeapInv'
  BY <1>7, FreeStep
<1>8. ASSUME NEW b \in live, NEW s \in Sizes, realloc(b, s) PROVE HeapInv'
  <2>1. CASE Free(b)
    BY <2>1, FreeStep
  <2>2. CASE Shrink(b, s)
    BY <1>1, <2>2, ShrinkStep
  <2>3. CASE call = Idle /\ Enter("realloc", s, s, b)
    BY <1>1, <2>3, EnterStep
  <2> QED BY <1>8, <2>1, <2>2, <2>3 DEF realloc
<1>9. ASSUME NEW inc \in Increments, ProgramSbrk(inc) PROVE HeapInv'
  BY <1>9, SbrkStep
<1>10. CASE UNCHANGED vars
  BY <1>10 DEF vars, HeapInv, TypeOK, RoomEnough, CallSound
<1> QED BY <1>2, <1>3, <1>4, <1>5, <1>6, <1>7, <1>8, <1>9, <1>10 DEF Next, Working

(* What the invariant gives. *)
LEMMA HeapGives ==
  ASSUME HeapInv
  PROVE  BytesOwnedOnce /\ ListMerged /\ RoomEnough
<1>1. BytesOwnedOnce
  BY OwnedMeans DEF HeapInv
<1>2. ListMerged
  BY DEF HeapInv, GoodList, ListMerged
<1> QED BY <1>1, <1>2 DEF HeapInv

(* Every byte the allocator got has one owner, however blocks are split,   *)
(* merged, resized and moved, as long as no request wraps a sum.           *)
THEOREM EveryByteOwned == ASSUME SaneRequests PROVE Spec => []BytesOwnedOnce
<1>1. Init => HeapInv
  BY HeapStart
<1>2. HeapInv /\ [Next]_vars => HeapInv'
  BY HeapStep
<1>3. HeapInv => BytesOwnedOnce
  BY HeapGives
<1> QED BY <1>1, <1>2, <1>3, PTL DEF Spec

(* The free list is in order and no two of its blocks touch.               *)
THEOREM NeighboursMerged == ASSUME SaneRequests PROVE Spec => []ListMerged
<1>1. Init => HeapInv
  BY HeapStart
<1>2. HeapInv /\ [Next]_vars => HeapInv'
  BY HeapStep
<1>3. HeapInv => ListMerged
  BY HeapGives
<1> QED BY <1>1, <1>2, <1>3, PTL DEF Spec

(* Every block in use has room for its header and for what was asked for.  *)
THEOREM BlocksHaveRoom == ASSUME SaneRequests PROVE Spec => []RoomEnough
<1>1. Init => HeapInv
  BY HeapStart
<1>2. HeapInv /\ [Next]_vars => HeapInv'
  BY HeapStep
<1>3. HeapInv => RoomEnough
  BY HeapGives
<1> QED BY <1>1, <1>2, <1>3, PTL DEF Spec


-----------------------------------------------------------------------------
(* Induction and recursive functions *)

(* Induction over an interval. *)
LEMMA Upward ==
  ASSUME NEW a \in Int, NEW b \in Int, NEW T, a \in T, \A i \in a .. b - 1 : i \in T => i + 1 \in T
  PROVE  a .. b \subseteq T
<1> DEFINE S == {d \in Nat : a + d <= b /\ a + d \notin T}
<1>1. S = {}
  <2>1. SUFFICES ASSUME S # {} PROVE FALSE
    OBVIOUS
  <2>2. PICK m \in S : \A n \in S : m <= n
    <3>1. S \subseteq Nat
      OBVIOUS
    <3> HIDE DEF S
    <3> QED BY <2>1, <3>1, Least
  <2>3. m \in Nat /\ a + m <= b /\ a + m \notin T
    OBVIOUS
  <2>4. m # 0 /\ m - 1 \in Nat
    BY <2>3
  <2>5. m - 1 \notin S
    <3>1. ~(m <= m - 1)
      BY <2>3
    <3> HIDE DEF S
    <3> QED BY <2>2, <3>1
  <2>6. a + (m - 1) \in T /\ a + (m - 1) \in a .. b - 1 /\ (a + (m - 1)) + 1 = a + m
    BY <2>3, <2>4, <2>5
  <2> QED BY <2>3, <2>6
<1>2. ASSUME NEW i \in a .. b PROVE i \in T
  <2>1. i - a \in Nat /\ a + (i - a) = i /\ i <= b
    OBVIOUS
  <2>2. i - a \notin S
    <3> HIDE DEF S
    <3> QED BY <1>1
  <2> QED BY <2>1, <2>2
<1> QED BY <1>2

(* Induction over a rank. *)
LEMMA Induction ==
  ASSUME NEW D, NEW rank, \A t \in D : rank[t] \in Nat, NEW T,
         \A t \in D : (\A u \in D : rank[u] < rank[t] => u \in T) => t \in T
  PROVE  D \subseteq T
<1> DEFINE S == {rank[t] : t \in D \ T}
<1>1. SUFFICES ASSUME S # {} PROVE FALSE
  OBVIOUS
<1>2. PICK m \in S : \A n \in S : m <= n
  <2>1. S \subseteq Nat
    OBVIOUS
  <2> HIDE DEF S
  <2> QED BY <1>1, <2>1, Least
<1>3. PICK t \in D \ T : m = rank[t]
  OBVIOUS
<1>4. ASSUME NEW u \in D, rank[u] < rank[t] PROVE u \in T
  <2>1. CASE u \notin T
    <3>1. rank[u] \in S
      BY <2>1
    <3> HIDE DEF S
    <3> QED BY <1>2, <1>3, <1>4, <3>1
  <2> QED BY <2>1
<1> QED BY <1>3, <1>4

(* A recursion over places of decreasing rank: at t the value is given, or *)
(* comes from the value at back[t].                                        *)
Recursive(D, V, N, rank, stop, first, back, step) ==
  /\ N \in Nat /\ rank \in [D -> 0 .. N]
  /\ first \in [D -> V] /\ back \in [D -> D] /\ step \in [D -> [V -> V]]
  /\ \A t \in D : t \notin stop => rank[back[t]] < rank[t]

Solves(f, D, V, stop, first, back, step) ==
  /\ f \in [D -> V]
  /\ \A t \in D : f[t] = IF t \in stop THEN first[t] ELSE step[t][f[back[t]]]

(* There is a function that such a recursion defines.                      *)
LEMMA Recursion ==
  ASSUME NEW D, NEW V, NEW N, NEW rank, NEW stop, NEW first, NEW back, NEW step,
         Recursive(D, V, N, rank, stop, first, back, step)
  PROVE  \E f : Solves(f, D, V, stop, first, back, step)
<1> USE DEF Recursive
<1> DEFINE Value(f, t) == IF t \in stop THEN first[t] ELSE step[t][f[back[t]]]
           Upto(f, n) == f \in [D -> V] /\ \A t \in D : rank[t] < n => f[t] = Value(f, t)
           S == {n \in 0 .. N + 1 : ~ \E f : Upto(f, n)}
<1>1. S = {}
  <2>1. SUFFICES ASSUME S # {} PROVE FALSE
    OBVIOUS
  <2>2. PICK m \in S : \A n \in S : m <= n
    <3>1. S \subseteq Nat
      OBVIOUS
    <3> HIDE DEF S
    <3> QED BY <2>1, <3>1, Least
  <2>3. m \in 0 .. N + 1 /\ ~ \E f : Upto(f, m)
    OBVIOUS
  <2>4. m # 0
    <3>1. Upto(first, 0)
      OBVIOUS
    <3> HIDE DEF Upto, S
    <3> QED BY <2>3, <3>1
  <2>5. PICK f : Upto(f, m - 1)
    <3>1. m - 1 \in 0 .. N + 1 /\ m - 1 \notin S
      <4> HIDE DEF S
      <4> QED BY <2>2, <2>3, <2>4
    <3> HIDE DEF Upto
    <3> QED BY <3>1
  <2> DEFINE g == [t \in D |-> IF rank[t] < m - 1 THEN f[t] ELSE Value(f, t)]
  <2>6. ASSUME NEW t \in D PROVE Value(f, t) \in V
    <3>1. f \in [D -> V] /\ first[t] \in V /\ back[t] \in D /\ step[t] \in [V -> V]
      BY <2>5
    <3> QED BY <3>1
  <2>7. g \in [D -> V]
    <3> HIDE DEF Value
    <3> QED BY <2>5, <2>6, SMTT(60)
  <2>8. ASSUME NEW t \in D, rank[t] < m PROVE g[t] = Value(f, t) /\ Value(g, t) = Value(f, t)
    <3>1. g[t] = Value(f, t)
      <4> HIDE DEF Value
      <4> QED BY <2>5
    <3>2. CASE t \in stop
      BY <3>1, <3>2
    <3>3. CASE t \notin stop
      <4>1. back[t] \in D /\ rank[back[t]] < m - 1
        BY <2>3, <2>8, <3>3
      <4>2. g[back[t]] = f[back[t]]
        BY <4>1
      <4> HIDE DEF g
      <4> QED BY <3>1, <3>3, <4>2
    <3> QED BY <3>2, <3>3
  <2>9. Upto(g, m)
    <3> HIDE DEF g, Value
    <3> QED BY <2>7, <2>8
  <2> HIDE DEF Upto, g, S
  <2> QED BY <2>3, <2>9
<1>2. PICK f : Upto(f, N + 1)
  <2>1. N + 1 \in 0 .. N + 1 /\ N + 1 \notin S
    <3> HIDE DEF S
    <3> QED BY <1>1
  <2> HIDE DEF Upto
  <2> QED BY <2>1
<1>3. \A t \in D : rank[t] < N + 1
  OBVIOUS
<1>4. f \in [D -> V] /\ \A t \in D : f[t] = Value(f, t)
  <2> HIDE DEF Value
  <2> QED BY <1>2, <1>3
<1> QED BY <1>4 DEF Solves

(* Quotient and remainder of any integer. *)
LEMMA Euclid ==
  ASSUME NEW a \in Int, NEW n \in Nat \ {0}
  PROVE  /\ a \div n \in Int /\ a % n \in 0 .. n - 1
         /\ a = n * (a \div n) + (a % n)
  OBVIOUS

(* Both are fixed by the range of the remainder. *)
LEMMA EuclidAt ==
  ASSUME NEW n \in Nat \ {0}, NEW a \in Int, NEW q \in Int, NEW r \in 0 .. n - 1, a = n * q + r
  PROVE  a \div n = q /\ a % n = r
<1>1. a % n = r
  BY ModAt
<1> DEFINE p == a \div n
<1>2. p \in Int /\ a = n * p + r
  BY <1>1, Euclid
<1> HIDE DEF p
<1>3. ~(p + 1 <= q)
  <2>1. SUFFICES ASSUME p + 1 <= q PROVE FALSE
    OBVIOUS
  <2>2. n * (p + 1) <= n * q
    BY <1>2, <2>1, MulMono
  <2>3. n * (p + 1) = n * p + n
    BY <1>2
  <2> QED BY <1>2, <2>2, <2>3
<1>4. ~(q + 1 <= p)
  <2>1. SUFFICES ASSUME q + 1 <= p PROVE FALSE
    OBVIOUS
  <2>2. n * (q + 1) <= n * p
    BY <1>2, <2>1, MulMono
  <2>3. n * (q + 1) = n * q + n
    BY <1>2
  <2> QED BY <1>2, <2>2, <2>3
<1>5. p = q
  BY <1>2, <1>3, <1>4
<1> QED BY <1>1, <1>5 DEF p

(* The same, for a quotient and a remainder that are named. *)
QuotRem(a, n, q, r) == n \in Nat \ {0} /\ a \in Int /\ q \in Int /\ r \in 0 .. n - 1 /\ a = n * q + r

LEMMA EuclidBy ==
  ASSUME NEW a, NEW n, NEW q, NEW r, QuotRem(a, n, q, r)
  PROVE  a \div n = q /\ a % n = r
<1>1. n \in Nat \ {0} /\ a \in Int /\ q \in Int /\ r \in 0 .. n - 1 /\ a = n * q + r
  BY DEF QuotRem
<1> QED BY ONLY <1>1, EuclidAt

(* A digit y of base n above a rest x below m is below m * n. *)
LEMMA MixedRadix ==
  ASSUME NEW m \in Nat \ {0}, NEW n \in Nat \ {0}, NEW y \in 0 .. n - 1, NEW x \in 0 .. m - 1
  PROVE  m * n \in Nat \ {0} /\ m * y + x \in 0 .. m * n - 1
<1>1. m * y <= m * (n - 1)
  BY MulMono
<1>2. m * (n - 1) = m * n - m /\ m * y \in Nat /\ m * n \in Int
  OBVIOUS
<1>3. m * 0 <= m * (n - 1)
  BY MulMono
<1>4. m * 0 = 0
  OBVIOUS
<1> QED BY <1>1, <1>2, <1>3, <1>4

(* Dividing by m, then by n; and remainders of what is m times a number    *)
(* and less than m more.                                                   *)
LEMMA DivTwice ==
  ASSUME NEW m \in Nat \ {0}, NEW n \in Nat \ {0}, NEW a \in Int, NEW x \in 0 .. m - 1
  PROVE  /\ (m * a + x) \div m = a /\ (m * a + x) % m = x
         /\ (m * a + x) \div (m * n) = a \div n
         /\ (m * a + x) % (m * n) = m * (a % n) + x
<1>1. m * a \in Int /\ m * a + x \in Int /\ m * n \in Nat \ {0}
  BY MixedRadix, 0 \in 0 .. n - 1
<1>2. (m * a + x) \div m = a /\ (m * a + x) % m = x
  BY <1>1, EuclidAt
<1> DEFINE q == a \div n
           y == a % n
<1>3. q \in Int /\ y \in 0 .. n - 1 /\ a = n * q + y
  BY Euclid
<1> HIDE DEF q, y
<1>4. m * y + x \in 0 .. m * n - 1
  BY <1>3, MixedRadix
<1>5. m * a + x = (m * n) * q + (m * y + x)
  BY <1>3
<1>6. (m * a + x) \div (m * n) = q /\ (m * a + x) % (m * n) = m * y + x
  BY ONLY <1>1, <1>3, <1>4, <1>5, EuclidAt
<1> QED BY <1>2, <1>6 DEF q, y

LEMMA DivDiv ==
  ASSUME NEW m \in Nat \ {0}, NEW n \in Nat \ {0}, NEW a \in Int
  PROVE  (a \div m) \div n = a \div (m * n)
<1> DEFINE q == a \div m
           x == a % m
<1>1. q \in Int /\ x \in 0 .. m - 1 /\ a = m * q + x
  BY Euclid
<1> HIDE DEF q, x
<1>2. (m * q + x) \div (m * n) = q \div n
  BY <1>1, DivTwice
<1> QED BY <1>1, <1>2 DEF q

(* What a loop from a to b computes: it starts from x, and round i makes   *)
(* step[i][v] of v.  There is such a function.                             *)
Loops(f, a, b, V, x, step) ==
  /\ f \in [a .. b -> V]
  /\ f = [i \in a .. b |-> IF i = a THEN x ELSE step[i][f[i - 1]]]

LEMMA Rounds ==
  ASSUME NEW a \in Int, NEW b \in Int, a <= b, NEW V, NEW x \in V, NEW step \in [a .. b -> [V -> V]]
  PROVE  \E f : Loops(f, a, b, V, x, step)
<1> DEFINE D == a .. b
           N == b - a
           rank == [i \in D |-> i - a]
           stop == {a}
           first == [i \in D |-> x]
           back == [i \in D |-> IF i = a THEN a ELSE i - 1]
<1>1. Recursive(D, V, N, rank, stop, first, back, step)
  <2>1. N \in Nat /\ rank \in [D -> 0 .. N] /\ first \in [D -> V] /\ back \in [D -> D]
    OBVIOUS
  <2>2. \A t \in D : t \notin stop => rank[back[t]] < rank[t]
    OBVIOUS
  <2> HIDE DEF N, rank, stop, first, back
  <2> QED BY <2>1, <2>2 DEF Recursive
<1>2. PICK f : Solves(f, D, V, stop, first, back, step)
  <2> HIDE DEF D, N, rank, stop, first, back
  <2> QED BY ONLY <1>1, Recursion
<1>3. f \in [D -> V]
  BY <1>2 DEF Solves
<1>4. ASSUME NEW i \in D PROVE f[i] = IF i = a THEN x ELSE step[i][f[i - 1]]
  <2>1. f[i] = IF i \in stop THEN first[i] ELSE step[i][f[back[i]]]
    BY <1>2 DEF Solves
  <2> QED BY <2>1
<1>5. f = [i \in D |-> IF i = a THEN x ELSE step[i][f[i - 1]]]
  BY <1>3, <1>4
<1> QED BY <1>3, <1>5 DEF Loops

-----------------------------------------------------------------------------
(* Words *)

(* The bits, each twice the one below. *)
LEMMA TwoFacts ==
  /\ Two[0] = 1 /\ \A k \in 0 .. 2 * W : Two[k] \in Nat \ {0}
  /\ \A k \in 1 .. 2 * W : Two[k] = 2 * Two[k - 1]
<1> DEFINE V == Nat \ {0}
           D == 0 .. 2 * W
           step == [k \in D |-> [v \in V |-> 2 * v]]
           Solved(f) == f = [k \in D |-> IF k = 0 THEN 1 ELSE 2 * f[k - 1]]
<1>0. W \in Nat \ {0} /\ 2 * W \in Nat
  BY WordAssumption
<1>1. PICK f : Loops(f, 0, 2 * W, V, 1, step)
  <2>1. step \in [D -> [V -> V]] /\ 1 \in V /\ 0 <= 2 * W
    BY <1>0
  <2>2. 0 \in Int /\ 2 * W \in Int
    BY <1>0
  <2> HIDE DEF step, V
  <2> QED BY ONLY <2>1, <2>2, Rounds
<1>2. Solved(f)
  <2>1. ASSUME NEW k \in D PROVE f[k] = IF k = 0 THEN 1 ELSE 2 * f[k - 1]
    <3>1. CASE k = 0
      BY <1>1, <3>1 DEF Loops
    <3>2. CASE k # 0
      <4>1. k - 1 \in D
        BY <1>0, <3>2
      <4>2. f[k - 1] \in V
        BY <1>1, <4>1 DEF Loops
      <4> QED BY <1>1, <3>2, <4>2 DEF Loops
    <3> QED BY <3>1, <3>2
  <2> QED BY <1>1, <2>1 DEF Loops
<1>3. Two = CHOOSE g : Solved(g)
  BY DEF Two
<1>4. Solved(Two)
  <2> HIDE DEF Solved
  <2> QED BY <1>2, <1>3
<1>5. Two[0] = 1
  BY <1>0, <1>4
<1>6. ASSUME NEW k \in 1 .. 2 * W PROVE Two[k] = 2 * Two[k - 1]
  BY <1>0, <1>4
<1> DEFINE T == {k \in D : Two[k] \in V}
<1>7. D \subseteq T
  <2>1. 0 \in T
    BY <1>0, <1>5
  <2>2. ASSUME NEW k \in 0 .. 2 * W - 1, k \in T PROVE k + 1 \in T
    <3>1. k + 1 \in 1 .. 2 * W /\ (k + 1) - 1 = k
      BY <1>0
    <3>2. Two[k + 1] = 2 * Two[k]
      BY <1>6, <3>1
    <3>3. Two[k] \in V
      BY <2>2
    <3>4. 2 * Two[k] \in V
      BY <3>3
    <3> QED BY <1>0, <3>1, <3>2, <3>4
  <2> HIDE DEF T
  <2> QED BY <1>0, <2>1, <2>2, Upward
<1> QED BY <1>5, <1>6, <1>7

(* Powers of two multiply. *)
LEMMA TwoSum ==
  ASSUME NEW a \in 0 .. 2 * W, NEW b \in 0 .. 2 * W, a + b <= 2 * W
  PROVE  Two[a + b] = Two[a] * Two[b]
<1>0. 2 * W \in Nat
  BY WordAssumption
<1> DEFINE B == 2 * W - a
           T == {c \in 0 .. B : Two[a + c] = Two[a] * Two[c]}
<1>1. Two[a] \in Nat
  BY TwoFacts
<1>2. 0 \in T
  BY <1>0, <1>1, TwoFacts
<1>3. ASSUME NEW c \in 0 .. B - 1, c \in T PROVE c + 1 \in T
  <2>1. /\ c + 1 \in 1 .. 2 * W /\ (c + 1) - 1 = c /\ a + (c + 1) \in 1 .. 2 * W
        /\ (a + (c + 1)) - 1 = a + c /\ c \in 0 .. 2 * W /\ c + 1 \in 0 .. B
    BY <1>0
  <2>2. Two[a + (c + 1)] = 2 * Two[a + c] /\ Two[c + 1] = 2 * Two[c] /\ Two[c] \in Nat
    BY <2>1, TwoFacts
  <2>3. Two[a + c] = Two[a] * Two[c]
    BY <1>3
  <2> DEFINE x == Two[a]
             y == Two[c]
  <2>4. 2 * (x * y) = x * (2 * y)
    <3>1. x \in Nat /\ y \in Nat
      BY <1>1, <2>2
    <3> HIDE DEF x, y
    <3> QED BY <3>1
  <2> QED BY <2>1, <2>2, <2>3, <2>4
<1>4. 0 .. B \subseteq T
  <2>1. 0 \in Int /\ B \in Int
    BY <1>0
  <2> HIDE DEF T, B
  <2> QED BY <1>2, <1>3, <2>1, Upward
<1>5. b \in 0 .. B
  BY <1>0
<1>6. b \in T
  <2> HIDE DEF T, B
  <2> QED BY <1>4, <1>5
<1> QED BY <1>6

(* A word's sign bit, words and double words. *)
LEMMA WordFacts ==
  /\ W \in Nat \ {0} /\ 2 * W \in Nat \ {0}
  /\ Two[W - 1] \in Nat \ {0} /\ Word = 2 * Two[W - 1]
  /\ Word \in Nat \ {0, 1} /\ Long = Word * Word /\ Long \in Nat \ {0, 1}
  /\ Long = 2 * (Word * Two[W - 1]) /\ Long \div 2 = Word * Two[W - 1]
  /\ Word * Two[W - 1] \in Nat \ {0}
<1>1. W \in Nat \ {0} /\ 2 * W \in Nat \ {0} /\ W \in 1 .. 2 * W /\ W - 1 \in 0 .. 2 * W
      /\ W \in 0 .. 2 * W /\ W + W = 2 * W
  BY WordAssumption
<1> DEFINE h == Two[W - 1]
<1>2. h \in Nat \ {0} /\ Word = 2 * h
  BY <1>1, TwoFacts DEF Word
<1>3. Long = Word * Word
  BY <1>1, TwoSum DEF Word, Long
<1> HIDE DEF h
<1>4. Word \in Nat \ {0, 1}
  BY <1>2
<1>5. Word * h \in Nat \ {0} /\ Word * Word = 2 * (Word * h)
  <2>1. 0 \in 0 .. h - 1 /\ 0 \in 0 .. Word - 1
    BY <1>2, <1>4
  <2>2. Word * h \in Nat \ {0}
    BY <1>2, <1>4, <2>1, MixedRadix
  <2>3. Word * (2 * h) = 2 * (Word * h)
    BY <1>2, <1>4
  <2> QED BY <1>2, <2>2, <2>3
<1> DEFINE m == Word * h
<1>6. (2 * m) \div 2 = m
  <2>1. m \in Nat
    BY <1>5
  <2> HIDE DEF m
  <2> QED BY <2>1
<1> QED BY <1>1, <1>2, <1>3, <1>4, <1>5, <1>6 DEF h

(* A double word is its two words. *)
LEMMA LongFacts ==
  ASSUME NEW v \in Longs
  PROVE  /\ v \in Nat /\ v < Long /\ Low(v) \in 0 .. Word - 1 /\ High(v) \in 0 .. Word - 1
         /\ v = Word * High(v) + Low(v)
<1>1. v \in Nat /\ v < Word * Word /\ Word \in Nat \ {0}
  BY WordFacts DEF Longs
<1>2. v \div Word \in Nat /\ v % Word \in 0 .. Word - 1 /\ v = Word * (v \div Word) + (v % Word)
  BY <1>1, DivFacts
<1> DEFINE h == v \div Word
<1>3. ~(Word <= h)
  <2>1. h \in Nat /\ Word * h <= v
    BY <1>1, <1>2
  <2> HIDE DEF h
  <2>2. SUFFICES ASSUME Word <= h PROVE FALSE
    OBVIOUS
  <2>3. Word * Word <= Word * h
    BY <1>1, <2>1, <2>2, MulMono
  <2> QED BY <1>1, <2>1, <2>3
<1> QED BY <1>1, <1>2, <1>3, WordFacts DEF Low, High

(* Two words make a double word. *)
LEMMA PairFacts ==
  ASSUME NEW h \in 0 .. Word - 1, NEW l \in 0 .. Word - 1
  PROVE  Word * h + l \in Longs
<1>1. Word * h + l \in 0 .. Word * Word - 1
  BY WordFacts, MixedRadix
<1> QED BY <1>1, WordFacts DEF Longs

(* Double words compare by the high word, then by the low one. *)
LEMMA PairOrder ==
  ASSUME NEW h \in 0 .. Word - 1, NEW l \in 0 .. Word - 1, NEW g \in 0 .. Word - 1, NEW k \in 0 .. Word - 1
  PROVE  Word * h + l >= Word * g + k <=> h > g \/ (h = g /\ l >= k)
<1>1. Word \in Nat \ {0} /\ Word * h \in Nat /\ Word * g \in Nat
  BY WordFacts
<1>2. CASE g + 1 <= h
  <2>1. Word * (g + 1) <= Word * h /\ Word * (g + 1) = Word * g + Word
    BY <1>1, <1>2, MulMono
  <2> QED BY <1>1, <1>2, <2>1
<1>3. CASE h = g
  BY <1>1, <1>3
<1>4. CASE h + 1 <= g
  <2>1. Word * (h + 1) <= Word * g /\ Word * (h + 1) = Word * h + Word
    BY <1>1, <1>4, MulMono
  <2> QED BY <1>1, <1>4, <2>1
<1> QED BY <1>2, <1>3, <1>4

-----------------------------------------------------------------------------
(* Division *)

(* A word, a pair of words with a quotient, and the number the pair is. *)
Words == 0 .. Word - 1
Round == [rhi : Words, rlo : Words, q : Nat]
Remaining(p) == Word * p.rhi + p.rlo

(* Subtraction with a borrow from the high word. *)
LEMMA SubtractFacts ==
  ASSUME NEW rhi \in Words, NEW rlo \in Words, NEW d \in Longs
  PROVE  LET less == Subtract_words(rhi, rlo, d)
         IN  /\ less.rhi \in Words /\ less.rlo \in Words
             /\ d <= Word * rhi + rlo => Word * less.rhi + less.rlo = (Word * rhi + rlo) - d
<1> DEFINE g == High(d)
           k == Low(d)
           b == IF rlo < k THEN 1 ELSE 0
<1>1. /\ Word \in Nat \ {0} /\ rhi \in 0 .. Word - 1 /\ rlo \in 0 .. Word - 1
      /\ g \in 0 .. Word - 1 /\ k \in 0 .. Word - 1 /\ d = Word * g + k
  BY WordFacts, LongFacts DEF Words
<1>2. Subtract_words(rhi, rlo, d) = [rhi |-> (rhi - g - b) % Word, rlo |-> (rlo - k) % Word]
  BY DEF Subtract_words
<1> HIDE DEF g, k
<1>b. b \in 0 .. 1 /\ (rlo < k => b = 1) /\ (~(rlo < k) => b = 0)
  OBVIOUS
<1> HIDE DEF b
<1>3. (rhi - g - b) % Word \in Words /\ (rlo - k) % Word \in Words
  <2>1. rhi - g - b \in Int /\ rlo - k \in Int
    BY <1>1, <1>b
  <2> QED BY <1>1, <2>1, Euclid DEF Words
<1>4. ASSUME d <= Word * rhi + rlo
      PROVE  Word * ((rhi - g - b) % Word) + ((rlo - k) % Word) = (Word * rhi + rlo) - d
  <2>1. rhi > g \/ (rhi = g /\ rlo >= k)
    BY <1>1, <1>4, PairOrder
  <2>2. CASE rlo < k
    <3>1. rhi - g - b = Word * 0 + (rhi - g - 1) /\ rhi - g - 1 \in 0 .. Word - 1
      BY <1>1, <1>b, <2>1, <2>2
    <3>2. rlo - k = Word * (-1) + (rlo - k + Word) /\ rlo - k + Word \in 0 .. Word - 1
      BY <1>1, <2>2
    <3>3. (rhi - g - b) % Word = rhi - g - 1
      <4>1. rhi - g - b \in Int /\ 0 \in Int
        BY <1>1, <1>b
      <4> QED BY ONLY <1>1, <3>1, <4>1, EuclidAt, ZenonT(60)
    <3>4. (rlo - k) % Word = rlo - k + Word
      <4>1. rlo - k \in Int /\ -1 \in Int
        BY <1>1
      <4> QED BY ONLY <1>1, <3>2, <4>1, EuclidAt
    <3>5. Word * (rhi - g - 1) + (rlo - k + Word) = (Word * rhi + rlo) - (Word * g + k)
      BY <1>1
    <3> QED BY <1>1, <3>3, <3>4, <3>5
  <2>3. CASE ~(rlo < k)
    <3>1. rhi - g - b = Word * 0 + (rhi - g) /\ rhi - g \in 0 .. Word - 1
      BY <1>1, <1>b, <2>1, <2>3
    <3>2. rlo - k = Word * 0 + (rlo - k) /\ rlo - k \in 0 .. Word - 1
      BY <1>1, <2>3
    <3>3. (rhi - g - b) % Word = rhi - g
      <4>1. rhi - g - b \in Int /\ 0 \in Int
        BY <1>1, <1>b
      <4> QED BY ONLY <1>1, <3>1, <4>1, EuclidAt
    <3>4. (rlo - k) % Word = rlo - k
      <4>1. rlo - k \in Int /\ 0 \in Int
        BY <1>1
      <4> QED BY ONLY <1>1, <3>2, <4>1, EuclidAt
    <3>5. Word * (rhi - g) + (rlo - k) = (Word * rhi + rlo) - (Word * g + k)
      BY <1>1
    <3> QED BY <1>1, <3>3, <3>4, <3>5
  <2> QED BY <2>2, <2>3
<1> QED BY <1>2, <1>3, <1>4

(* A bit shifted into a pair of words that has room for it. *)
LEMMA ShiftIn ==
  ASSUME NEW rhi \in Words, NEW rlo \in Words, NEW bit \in 0 .. 1
  PROVE  LET hi == (2 * rhi + rlo \div Two[W - 1]) % Word
             lo == (2 * rlo + bit) % Word
             R == Word * rhi + rlo
         IN  /\ hi \in Words /\ lo \in Words
             /\ 2 * R + bit < Long => Word * hi + lo = 2 * R + bit
<1> DEFINE h == Two[W - 1]
           c == rlo \div h
           x == rlo % h
           R == Word * rhi + rlo
<1>1. h \in Nat \ {0} /\ Word = 2 * h /\ Word \in Nat \ {0} /\ Long = Word * Word
      /\ rhi \in 0 .. Word - 1 /\ rlo \in 0 .. Word - 1
  BY WordFacts DEF Words
<1> HIDE DEF h
<1>2. c \in Nat /\ x \in 0 .. h - 1 /\ rlo = h * c + x
  <2>1. rlo \in Nat
    BY <1>1
  <2> QED BY <1>1, <2>1, DivFacts
<1>3. (2 * rhi + c) % Word \in Words /\ (2 * rlo + bit) % Word \in Words
  BY <1>1, <1>2, Euclid, SMTT(60) DEF Words
<1> HIDE DEF c, x
<1>4. ASSUME 2 * R + bit < Long
      PROVE  Word * ((2 * rhi + c) % Word) + ((2 * rlo + bit) % Word) = 2 * R + bit
  <2> DEFINE y == 2 * rhi + c
  <2>1. 2 * rlo + bit = Word * c + (2 * x + bit) /\ 2 * x + bit \in 0 .. Word - 1
    <3>1. Word * c = 2 * (h * c)
      BY <1>1, <1>2
    <3> QED BY <1>1, <1>2, <3>1
  <2>2. (2 * rlo + bit) % Word = 2 * x + bit
    <3>1. 2 * rlo + bit \in Int /\ c \in Int
      BY <1>1, <1>2
    <3> QED BY ONLY <1>1, <2>1, <3>1, EuclidAt, ZenonT(60)
  <2>3. 2 * R + bit = Word * y + (2 * x + bit)
    <3>1. Word * y = 2 * (Word * rhi) + Word * c /\ Word * rhi \in Int /\ Word * c \in Int
      BY <1>1, <1>2
    <3> QED BY <1>1, <2>1, <3>1
  <2>4. y \in Nat
    BY <1>1, <1>2
  <2> HIDE DEF y
  <2>5. y \in 0 .. Word - 1
    <3>1. SUFFICES ASSUME Word <= y PROVE FALSE
      BY <1>1, <2>4
    <3>2. Word * Word <= Word * y
      BY <1>1, <2>4, <3>1, MulMono
    <3>3. Word * y <= 2 * R + bit
      BY <1>1, <2>1, <2>3, <2>4
    <3>4. Word * y \in Int /\ Word * Word \in Int /\ 2 * R + bit \in Int
      BY <1>1, <2>4
    <3> HIDE DEF R
    <3> QED BY <1>1, <1>4, <3>2, <3>3, <3>4
  <2>6. y % Word = y
    <3>1. y = Word * 0 + y
      BY <1>1, <2>4
    <3> QED BY ONLY <1>1, <2>5, <2>4, <3>1, 0 \in Int, EuclidAt
  <2> QED BY <2>2, <2>3, <2>6 DEF y
<1> QED BY <1>3, <1>4 DEF c, h

(* One round: the remainder doubled with the next bit, less d if that fits. *)
LEMMA DivideStepFacts ==
  ASSUME NEW p \in Round, NEW n \in Longs, NEW d \in Longs, NEW k \in 0 .. 2 * W
  PROVE  LET s == DivideStep(p, n, d, k)
             R == 2 * Remaining(p) + ((n \div Two[k]) % 2)
         IN  /\ s \in Round
             /\ R < Long => IF d <= R THEN s.q = p.q + Two[k] /\ Remaining(s) = R - d
                                      ELSE s.q = p.q /\ Remaining(s) = R
<1> DEFINE bit == (n \div Two[k]) % 2
           hi == (2 * p.rhi + p.rlo \div Two[W - 1]) % Word
           lo == (2 * p.rlo + bit) % Word
           R == 2 * Remaining(p) + bit
           less == Subtract_words(hi, lo, d)
           s == DivideStep(p, n, d, k)
<1>1. p.rhi \in Words /\ p.rlo \in Words /\ p.q \in Nat /\ Two[k] \in Nat
  BY TwoFacts DEF Round
<1>2. bit \in 0 .. 1
  <2>1. Two[k] \in Nat \ {0} /\ n \in Int
    BY TwoFacts, LongFacts
  <2>2. n \div Two[k] \in Int
    BY <2>1, Euclid
  <2>3. 2 \in Nat \ {0} /\ 2 - 1 = 1
    OBVIOUS
  <2> DEFINE m == n \div Two[k]
  <2> HIDE DEF m
  <2>4. m % 2 \in 0 .. 2 - 1
    BY <2>2, <2>3, Euclid DEF m
  <2> QED BY <2>3, <2>4 DEF m
<1> HIDE DEF bit
<1>3. hi \in Words /\ lo \in Words /\ (R < Long => Word * hi + lo = R)
  BY <1>1, <1>2, ShiftIn DEF Remaining
<1>4. /\ less.rhi \in Words /\ less.rlo \in Words
      /\ d <= Word * hi + lo => Word * less.rhi + less.rlo = (Word * hi + lo) - d
  BY <1>3, SubtractFacts
<1>5. hi > High(d) \/ (hi = High(d) /\ lo >= Low(d)) <=> Word * hi + lo >= d
  <2>1. High(d) \in Words /\ Low(d) \in Words /\ d = Word * High(d) + Low(d)
    BY LongFacts DEF Words
  <2> HIDE DEF hi, lo
  <2> QED BY <1>3, <2>1, PairOrder DEF Words
<1>6. s = IF hi > High(d) \/ (hi = High(d) /\ lo >= Low(d))
          THEN [rhi |-> less.rhi, rlo |-> less.rlo, q |-> p.q + Two[k]]
          ELSE [rhi |-> hi, rlo |-> lo, q |-> p.q]
  BY DEF DivideStep, bit
<1> HIDE DEF hi, lo, less, s
<1>7. s \in Round
  BY <1>1, <1>3, <1>4, <1>6 DEF Round
<1>8. ASSUME R < Long
      PROVE  IF d <= R THEN s.q = p.q + Two[k] /\ Remaining(s) = R - d ELSE s.q = p.q /\ Remaining(s) = R
  <2>1. Word * hi + lo = R
    BY <1>3, <1>8
  <2>2. R \in Int /\ d \in Int
    BY <1>1, <1>2, WordFacts, LongFacts DEF Remaining, Words
  <2> HIDE DEF R
  <2>3. CASE d <= R
    <3>1. s = [rhi |-> less.rhi, rlo |-> less.rlo, q |-> p.q + Two[k]]
      BY <1>5, <1>6, <2>1, <2>2, <2>3
    <3>2. s.q = p.q + Two[k] /\ Remaining(s) = Word * less.rhi + less.rlo
      BY <3>1 DEF Remaining
    <3> DEFINE x == Word * hi + lo
               y == Word * less.rhi + less.rlo
    <3>3. (d <= x => y = x - d) /\ x = R /\ Remaining(s) = y
      <4>1. d <= x => y = x - d
        BY <1>4
      <4>2. x = R
        BY <2>1
      <4>3. Remaining(s) = y
        BY <3>2
      <4> QED BY <4>1, <4>2, <4>3
    <3> HIDE DEF x, y
    <3>4. y = R - d
      BY <2>3, <3>3
    <3>5. Remaining(s) = R - d
      BY <3>3, <3>4
    <3> QED BY <2>3, <3>2, <3>5
  <2>4. CASE ~(d <= R)
    <3>1. s = [rhi |-> hi, rlo |-> lo, q |-> p.q]
      BY <1>5, <1>6, <2>1, <2>2, <2>4
    <3> QED BY <2>1, <2>4, <3>1 DEF Remaining
  <2> QED BY <2>3, <2>4
<1> QED BY <1>7, <1>8 DEF s, R, bit

(* The rounds, one after another. *)
LEMMA DivideRoundsFacts ==
  ASSUME NEW n \in Longs, NEW d \in Longs
  PROVE  LET s == DivideRounds(n, d)
         IN  /\ s[0] = [rhi |-> 0, rlo |-> 0, q |-> 0]
             /\ \A i \in 0 .. 2 * W : s[i] \in Round
             /\ \A i \in 1 .. 2 * W : s[i] = DivideStep(s[i - 1], n, d, 2 * W - i)
<1> DEFINE zero == [rhi |-> 0, rlo |-> 0, q |-> 0]
           D == 0 .. 2 * W
           step == [i \in D |-> [v \in Round |-> DivideStep(v, n, d, 2 * W - i)]]
           Solved(f) == f = [i \in D |-> IF i = 0 THEN zero ELSE DivideStep(f[i - 1], n, d, 2 * W - i)]
           s == DivideRounds(n, d)
<1>1. 2 * W \in Nat /\ \A i \in D : 2 * W - i \in D
  BY WordFacts
<1>2. step \in [D -> [Round -> Round]]
  BY <1>1, DivideStepFacts
<1>3. zero \in Round
  BY WordFacts DEF Round, Words
<1>4. PICK f : Loops(f, 0, 2 * W, Round, zero, step)
  <2>1. 0 \in Int /\ 2 * W \in Int /\ 0 <= 2 * W
    BY <1>1
  <2> HIDE DEF step, zero
  <2> QED BY ONLY <1>2, <1>3, <2>1, Rounds
<1> HIDE DEF zero
<1>5. ASSUME NEW i \in D
      PROVE  f[i] = IF i = 0 THEN zero ELSE DivideStep(f[i - 1], n, d, 2 * W - i)
  <2>1. CASE i = 0
    BY <1>4, <2>1 DEF Loops
  <2>2. CASE i # 0
    <3>1. i - 1 \in D
      BY <1>1, <2>2
    <3>2. f[i - 1] \in Round
      BY <1>4, <3>1 DEF Loops
    <3>3. f[i] = step[i][f[i - 1]]
      BY <1>4, <2>2 DEF Loops
    <3> QED BY <2>2, <3>2, <3>3
  <2> QED BY <2>1, <2>2
<1>6. Solved(f)
  <2>1. f = [i \in D |-> f[i]]
    BY <1>4 DEF Loops
  <2> QED BY <1>5, <2>1
<1>7. s = CHOOSE g : Solved(g)
  BY DEF DivideRounds, zero
<1>8. Solved(s)
  <2> HIDE DEF Solved, s
  <2> QED BY <1>6, <1>7
<1> HIDE DEF s
<1>9. s[0] = zero /\ \A i \in 1 .. 2 * W : s[i] = DivideStep(s[i - 1], n, d, 2 * W - i)
  <2>1. s[0] = zero
    BY <1>1, <1>8
  <2>2. ASSUME NEW i \in 1 .. 2 * W PROVE s[i] = DivideStep(s[i - 1], n, d, 2 * W - i)
    <3>1. i \in D /\ i # 0
      BY <1>1
    <3> QED BY <1>8, <3>1
  <2> QED BY <2>1, <2>2
<1> DEFINE T == {i \in D : s[i] \in Round}
<1>10. D \subseteq T
  <2>1. 0 \in T
    BY <1>1, <1>3, <1>9
  <2>2. ASSUME NEW i \in 0 .. 2 * W - 1, i \in T PROVE i + 1 \in T
    <3>1. i + 1 \in 1 .. 2 * W /\ (i + 1) - 1 = i /\ i + 1 \in D /\ 2 * W - (i + 1) \in D
      BY <1>1
    <3>2. s[i + 1] = DivideStep(s[i], n, d, 2 * W - (i + 1)) /\ s[i] \in Round
      BY <1>9, <2>2, <3>1
    <3> QED BY <3>1, <3>2, DivideStepFacts
  <2>3. 0 \in Int /\ 2 * W \in Int
    BY <1>1
  <2> HIDE DEF T
  <2> QED BY <2>1, <2>2, <2>3, Upward
<1> QED BY <1>9, <1>10 DEF s, zero

(* Long division is division. *)
LEMMA DivideFacts ==
  ASSUME NEW n \in Longs, NEW d \in Longs \ {0}
  PROVE  rt_divmod(n, d).q = n \div d /\ rt_divmod(n, d).r = n % d
<1> DEFINE s == DivideRounds(n, d)
           N(k) == n \div Two[k]
           D == 0 .. 2 * W
           Done(i) == \E Q \in Nat : /\ s[i].q = Q * Two[2 * W - i] /\ Remaining(s[i]) \in 0 .. d - 1
                                     /\ N(2 * W - i) = d * Q + Remaining(s[i])
           T == {i \in D : Done(i)}
<1>1. /\ n \in Nat /\ n < Long /\ d \in Nat \ {0} /\ 2 * W \in Nat /\ Long \in Nat \ {0}
      /\ Two[2 * W] = Long /\ Two[0] = 1
  BY LongFacts, WordFacts, TwoFacts DEF Long
<1>2. /\ s[0] = [rhi |-> 0, rlo |-> 0, q |-> 0]
      /\ \A i \in 0 .. 2 * W : s[i] \in Round
      /\ \A i \in 1 .. 2 * W : s[i] = DivideStep(s[i - 1], n, d, 2 * W - i)
  BY DivideRoundsFacts
<1> HIDE DEF s
<1>3. 0 \in T
  <2>1. Remaining(s[0]) = 0 /\ s[0].q = 0
    BY <1>1, <1>2, WordFacts DEF Remaining
  <2>2. n = Long * 0 + n /\ n \in 0 .. Long - 1
    BY <1>1
  <2>3. n \div Long = 0
    BY ONLY <1>1, <2>2, n \in Int, 0 \in Int, EuclidAt
  <2>4. 2 * W - 0 = 2 * W /\ 0 * Long = 0 /\ d * 0 + 0 = 0 /\ 0 \in Nat /\ 0 \in 0 .. d - 1
    BY <1>1
  <2>5. Done(0)
    BY <1>1, <2>1, <2>3, <2>4
  <2> QED BY <1>1, <2>5
<1>4. ASSUME NEW i \in 0 .. 2 * W - 1, i \in T PROVE i + 1 \in T
  <2> DEFINE k == 2 * W - (i + 1)
             m == n \div Two[k]
             bit == m % 2
             p == s[i]
             v == s[i + 1]
  <2>1. /\ i \in D /\ i + 1 \in 1 .. 2 * W /\ (i + 1) - 1 = i /\ k \in D /\ k + 1 \in 1 .. 2 * W
        /\ (k + 1) - 1 = k /\ 2 * W - i = k + 1 /\ i + 1 \in D
    BY <1>1
  <2>2. Two[k] \in Nat \ {0} /\ Two[k + 1] = 2 * Two[k]
    BY <2>1, TwoFacts
  <2>3. PICK Q \in Nat : /\ p.q = Q * Two[k + 1] /\ Remaining(p) \in 0 .. d - 1
                         /\ n \div Two[k + 1] = d * Q + Remaining(p)
    BY <1>4, <2>1
  <2>4. m \in Nat /\ bit \in 0 .. 1 /\ m = 2 * (m \div 2) + bit
    <3>1. m \in Nat
      BY <1>1, <2>2, DivFacts
    <3> HIDE DEF m
    <3> QED BY <3>1
  <2>5. m \div 2 = n \div Two[k + 1]
    <3>1. Two[k] * 2 = Two[k + 1]
      BY <2>2
    <3> QED BY <1>1, <2>2, <3>1, 2 \in Nat \ {0}, n \in Int, DivDiv
  <2>6. m <= n
    <3> DEFINE t == Two[k]
               x == n % t
    <3>1. n = t * m + x /\ x \in Nat /\ t \in Nat /\ t >= 1 /\ t \in Int /\ 1 \in Int
      <4>1. t \in Nat \ {0}
        BY <2>2
      <4> HIDE DEF t
      <4>2. n = t * (n \div t) + x /\ x \in 0 .. t - 1
        BY <1>1, <4>1, DivFacts
      <4> QED BY <4>1, <4>2 DEF t
    <3> HIDE DEF t, x, m
    <3>2. m * 1 <= m * t
      BY <2>4, <3>1, MulMono
    <3>3. m * 1 = m /\ m * t = t * m /\ t * m \in Nat
      BY <2>4, <3>1
    <3> QED BY <1>1, <2>4, <3>1, <3>2, <3>3
  <2> DEFINE R == 2 * Remaining(p) + bit
  <2>7. m = d * (2 * Q) + R /\ R \in Nat
    <3>1. Remaining(p) \in Nat /\ m = 2 * (d * Q + Remaining(p)) + bit
      BY <1>1, <2>3, <2>4, <2>5
    <3>2. 2 * (d * Q + Remaining(p)) + bit = d * (2 * Q) + (2 * Remaining(p) + bit)
      <4>1. \A x \in Nat : 2 * (d * Q + x) + bit = d * (2 * Q) + (2 * x + bit)
        <5> HIDE DEF bit
        <5> QED BY <1>1, <2>4
      <4> QED BY <3>1, <4>1
    <3> HIDE DEF m, bit
    <3> QED BY <2>4, <3>1, <3>2
  <2>8. R < Long
    <3>1. d * (2 * Q) \in Nat
      BY <1>1, <2>3
    <3> HIDE DEF R, m
    <3> QED BY <1>1, <2>4, <2>6, <2>7, <3>1
  <2>9. IF d <= R THEN v.q = p.q + Two[k] /\ Remaining(v) = R - d ELSE v.q = p.q /\ Remaining(v) = R
    <3>1. p \in Round /\ v = DivideStep(p, n, d, k)
      BY <1>2, <2>1
    <3>2. d \in Longs
      OBVIOUS
    <3> HIDE DEF k, p, v
    <3> QED BY <2>1, <2>8, <3>1, <3>2, DivideStepFacts
  <2>10. R < 2 * d
    <3>1. Remaining(p) \in Nat /\ Remaining(p) <= d - 1
      BY <1>1, <2>3
    <3> HIDE DEF bit
    <3> QED BY <1>1, <2>4, <3>1
  <2> HIDE DEF R
  <2>11. CASE d <= R
    <3> DEFINE P == 2 * Q + 1
    <3>1. P \in Nat /\ Remaining(v) = R - d /\ Remaining(v) \in 0 .. d - 1
      BY <1>1, <2>7, <2>9, <2>10, <2>11
    <3>2. v.q = P * Two[k]
      <4>1. v.q = Q * (2 * Two[k]) + Two[k]
        BY <2>2, <2>3, <2>9, <2>11
      <4>2. Q * (2 * Two[k]) + Two[k] = (2 * Q + 1) * Two[k]
        <5> DEFINE t == Two[k]
        <5>1. t \in Nat
          BY <2>2
        <5> HIDE DEF t
        <5>2. Q * (2 * t) + t = (2 * Q + 1) * t
          BY <5>1
        <5> QED BY <5>2 DEF t
      <4> QED BY <4>1, <4>2
    <3>3. m = d * P + Remaining(v)
      <4>1. d * P = d * (2 * Q) + d
        BY <1>1
      <4> HIDE DEF m, P
      <4> QED BY <1>1, <2>4, <2>7, <3>1, <4>1
    <3> HIDE DEF P, m
    <3>4. Done(i + 1)
      BY <3>1, <3>2, <3>3 DEF m
    <3> QED BY <2>1, <3>4
  <2>12. CASE ~(d <= R)
    <3> DEFINE P == 2 * Q
    <3>1. P \in Nat /\ Remaining(v) = R /\ Remaining(v) \in 0 .. d - 1
      BY <1>1, <2>7, <2>9, <2>12
    <3>2. v.q = P * Two[k]
      <4>1. v.q = Q * (2 * Two[k])
        BY <2>2, <2>3, <2>9, <2>12
      <4>2. Q * (2 * Two[k]) = (2 * Q) * Two[k]
        <5> DEFINE t == Two[k]
        <5>1. t \in Nat
          BY <2>2
        <5> HIDE DEF t
        <5>2. Q * (2 * t) = (2 * Q) * t
          BY <5>1
        <5> QED BY <5>2 DEF t
      <4> QED BY <4>1, <4>2
    <3>3. m = d * P + Remaining(v)
      BY <2>7, <3>1
    <3> HIDE DEF P, m
    <3>4. Done(i + 1)
      BY <3>1, <3>2, <3>3 DEF m
    <3> QED BY <2>1, <3>4
  <2> QED BY <2>11, <2>12
<1>5. 2 * W \in T
  <2>1. 0 \in Int /\ 2 * W \in Int /\ 2 * W \in D
    BY <1>1
  <2> HIDE DEF T
  <2>2. D \subseteq T
    BY <1>3, <1>4, <2>1, Upward
  <2> QED BY <2>1, <2>2
<1>6. PICK Q \in Nat : /\ s[2 * W].q = Q * 1 /\ Remaining(s[2 * W]) \in 0 .. d - 1
                       /\ n \div 1 = d * Q + Remaining(s[2 * W])
  <2>1. 2 * W - 2 * W = 0
    BY <1>1
  <2> QED BY <1>1, <1>5, <2>1
<1> DEFINE r == Remaining(s[2 * W])
<1>7. n = d * Q + r /\ r \in 0 .. d - 1 /\ s[2 * W].q = Q
  BY <1>1, <1>6
<1> HIDE DEF r
<1>8. n \div d = Q /\ n % d = r
  BY ONLY <1>1, <1>7, n \in Int, Q \in Int, EuclidAt
<1>9. rt_divmod(n, d) = [q |-> Q, r |-> r]
  <2>1. rt_divmod(n, d) = [q |-> s[2 * W].q, r |-> s[2 * W].rhi * Word + s[2 * W].rlo]
    BY <1>1 DEF rt_divmod, s
  <2>2. s[2 * W].rhi * Word = Word * s[2 * W].rhi
    <3>1. s[2 * W] \in Round
      BY <1>1, <1>2
    <3>2. s[2 * W].rhi \in Int /\ Word \in Int
      BY <3>1, WordFacts DEF Round, Words
    <3> QED BY <3>2
  <2> QED BY <1>7, <2>1, <2>2 DEF r, Remaining
<1> QED BY <1>8, <1>9


(* A long long as a signed number: its sign, and its magnitude. *)
LEMMA SignedFacts ==
  ASSUME NEW v \in Longs
  PROVE  /\ Signed(v) \in Int /\ Magnitude(v) \in Longs /\ Magnitude(v) \in Nat
         /\ Signed(v) < 0 => Magnitude(v) = -Signed(v)
         /\ ~(Signed(v) < 0) => Magnitude(v) = Signed(v)
         /\ v = 0 <=> Magnitude(v) = 0
<1> DEFINE H == Word * Two[W - 1]
<1>1. /\ v \in Nat /\ v < Long /\ Long \div 2 = H /\ Long = 2 * H /\ H \in Nat \ {0}
      /\ Long \in Nat \ {0} /\ Longs = 0 .. Long - 1
  BY LongFacts, WordFacts DEF Longs
<1> HIDE DEF H
<1>2. CASE v >= H
  <2>1. Signed(v) = v - Long /\ Signed(v) < 0 /\ Magnitude(v) = (0 - v) % Long
    BY <1>1, <1>2 DEF Signed, Magnitude
  <2>2. 0 - v = Long * (-1) + (Long - v) /\ Long - v \in 0 .. Long - 1 /\ 0 - v \in Int /\ -1 \in Int
    BY <1>1, <1>2
  <2>3. Magnitude(v) = Long - v
    BY ONLY <1>1, <2>1, <2>2, EuclidAt, ZenonT(60)
  <2> QED BY <1>1, <1>2, <2>1, <2>3
<1>3. CASE ~(v >= H)
  <2>1. Signed(v) = v /\ ~(Signed(v) < 0) /\ Magnitude(v) = v
    BY <1>1, <1>3 DEF Signed, Magnitude
  <2> QED BY <1>1, <2>1
<1> QED BY <1>2, <1>3

(* What is below Long is its own remainder. *)
LEMMA LongAt ==
  ASSUME NEW v \in Longs
  PROVE  v % Long = v /\ v \in Nat
<1>1. Long \in Nat \ {0} /\ v \in 0 .. Long - 1 /\ v \in Int
  BY WordFacts DEF Longs
<1>2. v = Long * 0 + v /\ v \in Nat
  BY <1>1
<1> QED BY ONLY <1>1, <1>2, 0 \in Int, EuclidAt

(* Quotient and remainder stay in range. *)
LEMMA DivisionRange ==
  ASSUME NEW a \in Longs, NEW b \in Longs \ {0}
  PROVE  /\ a \div b \in Longs /\ a % b \in Longs /\ b \in Nat \ {0} /\ a \in Nat
         /\ a = b * (a \div b) + (a % b)
<1>1. a \in Nat /\ a < Long /\ b \in Nat \ {0} /\ b < Long /\ Longs = 0 .. Long - 1 /\ Long \in Nat
  BY LongFacts, WordFacts DEF Longs
<1> DEFINE q == a \div b
           r == a % b
<1>2. q \in Nat /\ r \in 0 .. b - 1 /\ a = b * q + r
  BY <1>1, DivFacts
<1> HIDE DEF q, r
<1>3. q * 1 <= q * b /\ q * 1 = q /\ q * b = b * q
  BY <1>1, <1>2, MulMono
<1>4. q \in Longs /\ r \in Longs
  BY <1>1, <1>2, <1>3
<1> QED BY <1>1, <1>2, <1>4 DEF q, r

(* Signs of products. *)
LEMMA SignMul ==
  ASSUME NEW a \in Int, NEW b \in Int
  PROVE  a * (-b) = -(b * a) /\ (0 - a) * (-b) = b * a /\ (0 - a) * b = -(b * a) /\ b * a \in Int
  OBVIOUS

(* C's signed division, from the one of the magnitudes. *)
CQuot(x, y) == IF y < 0 THEN Quot(-x, -y) ELSE Quot(x, y)

Magnitudes(x, y, m, n, Q, R) ==
  /\ x \in Int /\ y \in Int \ {0} /\ m \in Nat /\ n \in Nat /\ Q \in Nat /\ R \in Nat
  /\ (x < 0 => m = -x) /\ (~(x < 0) => m = x) /\ (y < 0 => n = -y) /\ (~(y < 0) => n = y)
  /\ Q = m \div n /\ m = n * Q + R

LEMMA SignedDivision ==
  ASSUME NEW x, NEW y, NEW m, NEW n, NEW Q, NEW R, Magnitudes(x, y, m, n, Q, R)
  PROVE  /\ CQuot(x, y) = IF (x < 0) # (y < 0) THEN 0 - Q ELSE Q
         /\ x - CQuot(x, y) * y = IF x < 0 THEN 0 - R ELSE R
<1> USE DEF Magnitudes
<1> DEFINE q == CQuot(x, y)
<1>1. n \in Nat \ {0}
  OBVIOUS
<1>2. x = 0 => Q = 0
  <2>1. SUFFICES ASSUME x = 0 PROVE 0 \div n = 0
    OBVIOUS
  <2>2. 0 = n * 0 + 0 /\ 0 \in 0 .. n - 1 /\ 0 \in Int
    BY <1>1
  <2> QED BY ONLY <1>1, <2>2, EuclidAt
<1>3. q = IF (x < 0) # (y < 0) THEN 0 - Q ELSE Q
  <2>1. CASE x < 0 /\ y < 0
    BY <2>1 DEF Quot, CQuot
  <2>2. CASE x < 0 /\ ~(y < 0)
    BY <2>2 DEF Quot, CQuot
  <2>3. CASE ~(x < 0) /\ ~(y < 0)
    BY <2>3 DEF Quot, CQuot
  <2>4. CASE ~(x < 0) /\ y < 0
    <3>1. CASE x = 0
      BY <1>2, <2>4, <3>1 DEF Quot, CQuot
    <3>2. CASE x # 0
      BY <2>4, <3>2 DEF Quot, CQuot
    <3> QED BY <3>1, <3>2
  <2> QED BY <2>1, <2>2, <2>3, <2>4
<1> HIDE DEF q
<1>4. x - q * y = IF x < 0 THEN 0 - R ELSE R
  <2>1. CASE x < 0 /\ y < 0
    <3>1. q = Q /\ x = -m /\ y = -n
      BY <1>3, <2>1
    <3>2. (-m) - Q * (-n) = 0 - R
      BY SignMul
    <3> QED BY <2>1, <3>1, <3>2
  <2>2. CASE x < 0 /\ ~(y < 0)
    <3>1. q = 0 - Q /\ x = -m /\ y = n
      BY <1>3, <2>2
    <3>2. (-m) - (0 - Q) * n = 0 - R
      BY SignMul
    <3> QED BY <2>2, <3>1, <3>2
  <2>3. CASE ~(x < 0) /\ ~(y < 0)
    <3>1. q = Q /\ x = m /\ y = n
      BY <1>3, <2>3
    <3>2. m - Q * n = R
      BY SignMul
    <3> QED BY <2>3, <3>1, <3>2
  <2>4. CASE ~(x < 0) /\ y < 0
    <3>1. q = 0 - Q /\ x = m /\ y = -n
      BY <1>3, <2>4
    <3>2. m - (0 - Q) * (-n) = R
      BY SignMul
    <3> QED BY <2>4, <3>1, <3>2
  <2> QED BY <2>1, <2>2, <2>3, <2>4
<1> QED BY <1>3, <1>4 DEF q

(* All four functions, for every two double words. *)
LEMMA DivisionIsMeant ==
  ASSUME NEW a \in Longs, NEW b \in Longs
  PROVE  [udiv |-> rt_divmod(a, b).q, umod |-> rt_divmod(a, b).r,
          div |-> divdi3(a, b), mod |-> moddi3(a, b)] = DivisionMeant(a, b)
<1> DEFINE x == Signed(a)
           y == Signed(b)
           m == Magnitude(a)
           n == Magnitude(b)
<1>1. /\ x \in Int /\ y \in Int /\ m \in Longs /\ n \in Longs /\ m \in Nat /\ n \in Nat
      /\ (x < 0 => m = -x) /\ (~(x < 0) => m = x) /\ (y < 0 => n = -y) /\ (~(y < 0) => n = y)
      /\ b = 0 <=> n = 0
  BY SignedFacts
<1>2. CASE b = 0
  <2>1. rt_divmod(a, b) = [q |-> 0, r |-> 0] /\ rt_divmod(m, n) = [q |-> 0, r |-> 0]
    BY <1>1, <1>2 DEF rt_divmod
  <2>2. (0 - 0) % Long = 0
    <3>1. 0 - 0 = 0 /\ 0 \in Longs
      BY WordFacts DEF Longs
    <3> QED BY <3>1, LongAt
  <2>3. divdi3(a, b) = 0 /\ moddi3(a, b) = 0
    BY <2>1, <2>2 DEF divdi3, moddi3, Negated
  <2> QED BY <1>2, <2>1, <2>3 DEF DivisionMeant
<1>3. CASE b # 0
  <2> DEFINE Q == m \div n
             R == m % n
             q == CQuot(x, y)
  <2>1. rt_divmod(a, b).q = a \div b /\ rt_divmod(a, b).r = a % b
    BY <1>3, DivideFacts
  <2>2. n \in Longs \ {0} /\ y \in Int \ {0}
    BY <1>1, <1>3
  <2>3. rt_divmod(m, n).q = Q /\ rt_divmod(m, n).r = R
    <3> HIDE DEF m, n
    <3> QED BY <1>1, <2>2, DivideFacts
  <2>4. Q \in Longs /\ R \in Longs /\ m = n * Q + R
    <3> HIDE DEF m, n
    <3> QED BY <1>1, <2>2, DivisionRange
  <2>5. Q \in Nat /\ R \in Nat /\ Q % Long = Q /\ R % Long = R
    <3> HIDE DEF Q, R
    <3> QED BY <2>4, LongAt
  <2>6. q = (IF (x < 0) # (y < 0) THEN 0 - Q ELSE Q) /\ x - q * y = (IF x < 0 THEN 0 - R ELSE R)
    <3>1. Q = m \div n
      OBVIOUS
    <3>2. Magnitudes(x, y, m, n, Q, R)
      <4> HIDE DEF x, y, m, n, Q, R, q
      <4> QED BY <1>1, <2>2, <2>4, <2>5, <3>1 DEF Magnitudes
    <3> HIDE DEF x, y, m, n, Q, R
    <3> QED BY ONLY <3>2, SignedDivision
  <2> HIDE DEF Q, R, q
  <2>7. divdi3(a, b) = q % Long
    <3>1. divdi3(a, b) = IF (x < 0) # (y < 0) THEN (0 - Q) % Long ELSE Q
      BY <2>3 DEF divdi3, Negated
    <3> HIDE DEF x, y, m, n
    <3> QED BY <2>5, <2>6, <3>1
  <2>8. moddi3(a, b) = (x - q * y) % Long
    <3>1. moddi3(a, b) = IF x < 0 THEN (0 - R) % Long ELSE R
      BY <2>3 DEF moddi3, Negated
    <3> HIDE DEF x, y, m, n
    <3> QED BY <2>5, <2>6, <3>1
  <2>9. DivisionMeant(a, b) = [udiv |-> a \div b, umod |-> a % b, div |-> q % Long, mod |-> (x - q * y) % Long]
    BY <1>3 DEF DivisionMeant, q, CQuot
  <2> QED BY <2>1, <2>7, <2>8, <2>9
<1> QED BY <1>2, <1>3

-----------------------------------------------------------------------------
(* Shifts *)

(* A double word as a signed number is its high word as one, and the low. *)
LEMMA SignedHighFacts ==
  ASSUME NEW u \in Longs
  PROVE  /\ Signed(u) = Word * SignedHigh(u) + Low(u)
         /\ SignedHigh(u) \in -Two[W - 1] .. Two[W - 1] - 1
         /\ High(u) = SignedHigh(u) \/ High(u) = SignedHigh(u) + Word
<1> DEFINE H == Two[W - 1]
           h == High(u)
           l == Low(u)
<1>1. /\ Word \in Nat \ {0} /\ H \in Nat \ {0} /\ Word = 2 * H /\ Long = Word * Word
      /\ Long \div 2 = Word * H /\ Long \in Nat
      /\ h \in 0 .. Word - 1 /\ l \in 0 .. Word - 1 /\ u = Word * h + l
  BY WordFacts, LongFacts
<1>2. u >= Word * H <=> h >= H
  <2>1. Word * h + l >= Word * H + 0 <=> h > H \/ (h = H /\ l >= 0)
    <3>1. 0 \in 0 .. Word - 1 /\ H \in 0 .. Word - 1
      BY <1>1
    <3> HIDE DEF H, h, l
    <3> QED BY <1>1, <3>1, PairOrder
  <2> DEFINE x == Word * H
  <2>2. x \in Int /\ x + 0 = x
    <3> HIDE DEF H
    <3> QED BY <1>1
  <2> HIDE DEF x, h, l, H
  <2>3. u >= x <=> h > H \/ (h = H /\ l >= 0)
    BY <1>1, <2>1, <2>2 DEF x
  <2>4. h > H \/ (h = H /\ l >= 0) <=> h >= H
    BY <1>1
  <2> QED BY <2>3, <2>4 DEF x
<1>3. Word \div 2 = H
  <2> HIDE DEF H
  <2> QED BY <1>1
<1>4. CASE h >= H
  <2>1. SignedHigh(u) = h - Word /\ Signed(u) = u - Long
    BY <1>1, <1>2, <1>3, <1>4 DEF SignedHigh, Signed
  <2> HIDE DEF h, l, H
  <2>2. Word * (h - Word) + l = (Word * h + l) - Word * Word
    BY <1>1
  <2> QED BY <1>1, <1>4, <2>1, <2>2 DEF h, l, H
<1>5. CASE ~(h >= H)
  <2>1. SignedHigh(u) = h /\ Signed(u) = u
    BY <1>1, <1>2, <1>3, <1>5 DEF SignedHigh, Signed
  <2> HIDE DEF h, l, H
  <2> QED BY <1>1, <1>5, <2>1 DEF h, l, H
<1> QED BY <1>4, <1>5

(* A shift by less than a word, and by more. *)
LEMMA ShiftPowers ==
  ASSUME NEW b \in 0 .. 2 * W - 1
  PROVE  /\ 0 < b /\ b < W => /\ Two[b] \in Nat \ {0} /\ Two[W - b] \in Nat \ {0}
                              /\ Word = Two[b] * Two[W - b]
         /\ b >= W => Two[b - W] \in Nat \ {0} /\ Two[b] = Word * Two[b - W]
         /\ Two[b] \in Nat \ {0}
<1>1. 2 * W \in Nat /\ W \in Nat /\ b \in 0 .. 2 * W /\ W \in 0 .. 2 * W
  BY WordFacts
<1>2. ASSUME 0 < b, b < W PROVE Two[W - b] \in Nat \ {0} /\ Word = Two[b] * Two[W - b]
  <2>1. W - b \in 0 .. 2 * W /\ b + (W - b) = W
    BY <1>1, <1>2
  <2> QED BY <1>1, <2>1, TwoFacts, TwoSum DEF Word
<1>3. ASSUME b >= W PROVE Two[b - W] \in Nat \ {0} /\ Two[b] = Word * Two[b - W]
  <2>1. b - W \in 0 .. 2 * W /\ W + (b - W) = b
    BY <1>1, <1>3
  <2> QED BY <1>1, <2>1, TwoFacts, TwoSum DEF Word
<1> QED BY <1>1, <1>2, <1>3, TwoFacts

(* The quotient of a number put together from a high part x, of either     *)
(* sign, and a low one, by a divisor B of their base B * C.                *)
ShiftedDown(N, B, x, l, C) ==
  \E p \in Int, s \in 0 .. N - 1 :
    p = x \div B /\ (N * x + l) \div B = N * p + s /\ l \div B + x * C = N * p + s

LEMMA HalvesShiftedDown ==
  ASSUME NEW B \in Nat \ {0}, NEW C \in Nat \ {0}, NEW x \in Int, NEW l \in 0 .. B * C - 1,
         NEW N, N = B * C
  PROVE  ShiftedDown(N, B, x, l, C)
<1> DEFINE y == l \div B
           z == l % B
           p == x \div B
           r == x % B
           U == (B * C) * x + l
<1>1. l \in Nat /\ B * C \in Nat \ {0}
  <2>1. B * C \in Nat \ {0}
    BY MixedRadix, 0 \in 0 .. B - 1, 0 \in 0 .. C - 1
  <2> QED BY <2>1
<1>2. y \in Nat /\ z \in 0 .. B - 1 /\ l = B * y + z
  BY <1>1, DivFacts
<1>3. p \in Int /\ r \in 0 .. B - 1 /\ x = B * p + r
  BY Euclid
<1> HIDE DEF p, r, y, z
<1>4. y \in 0 .. C - 1
  <2>1. SUFFICES ASSUME C <= y PROVE FALSE
    BY <1>2
  <2>2. B * C <= B * y
    BY <1>2, <2>1, MulMono
  <2>3. B * y \in Int
    BY <1>2
  <2> QED BY <1>1, <1>2, <2>2, <2>3
<1>5. C * r + y \in 0 .. B * C - 1
  <2>1. C * r + y \in 0 .. C * B - 1
    BY <1>3, <1>4, MixedRadix
  <2>2. C * B = B * C
    OBVIOUS
  <2> QED BY <2>1, <2>2
<1>6. U = B * (C * x + y) + z
  <2>1. (B * C) * x + (B * y + z) = B * (C * x + y) + z
    BY <1>2
  <2> QED BY <1>2, <2>1
<1>7. U \div B = C * x + y
  <2>1. U \in Int /\ C * x + y \in Int
    BY <1>1, <1>2
  <2> HIDE DEF U
  <2> QED BY ONLY <1>2, <1>6, <2>1, B \in Nat \ {0}, EuclidAt
<1>8. C * x + y = (B * C) * p + (C * r + y) /\ y + x * C = C * x + y
  <2>1. C * (B * p + r) + y = (B * C) * p + (C * r + y)
    BY <1>2, <1>3
  <2>2. y + x * C = C * x + y
    BY <1>2
  <2> QED BY <1>3, <2>1, <2>2
<1> DEFINE s == C * r + y
<1>9. p \in Int /\ s \in 0 .. N - 1 /\ U \div B = N * p + s /\ y + x * C = N * p + s
  BY <1>3, <1>5, <1>7, <1>8
<1> HIDE DEF s
<1>10. p = x \div B /\ U = N * x + l /\ y = l \div B
  BY DEF p, U, y
<1> HIDE DEF U
<1> QED BY <1>9, <1>10 DEF ShiftedDown

(* The logical shift to the right. *)
LEMMA LshrFacts ==
  ASSUME NEW u \in Longs, NEW b \in 0 .. 2 * W - 1
  PROVE  lshrdi3(u, b) = u \div Two[b]
<1> DEFINE h == High(u)
           l == Low(u)
<1>1. /\ Word \in Nat \ {0} /\ u \in Nat /\ h \in 0 .. Word - 1 /\ l \in 0 .. Word - 1
      /\ u = Word * h + l /\ b \in Int /\ W \in Nat \ {0}
  BY WordFacts, LongFacts
<1>2. CASE b = 0
  BY <1>1, <1>2, TwoFacts DEF lshrdi3
<1>3. CASE b >= W
  <2>1. lshrdi3(u, b) = (u \div Word) \div Two[b - W]
    BY <1>1, <1>3 DEF lshrdi3, High
  <2>2. Two[b - W] \in Nat \ {0} /\ Two[b] = Word * Two[b - W]
    BY <1>3, ShiftPowers
  <2>3. (u \div Word) \div Two[b - W] = u \div (Word * Two[b - W])
    BY <1>1, <2>2, u \in Int, DivDiv
  <2> QED BY <2>1, <2>2, <2>3
<1>4. CASE b # 0 /\ ~(b >= W)
  <2> DEFINE B == Two[b]
             C == Two[W - b]
  <2>1. B \in Nat \ {0} /\ C \in Nat \ {0} /\ Word = B * C
    BY <1>1, <1>4, ShiftPowers
  <2>2. lshrdi3(u, b) = (h \div B) * Word + ((l \div B + h * C) % Word)
    BY <1>4 DEF lshrdi3
  <2> HIDE DEF B, C, h, l
  <2>3. PICK p \in Int, s \in 0 .. Word - 1 :
          p = h \div B /\ (Word * h + l) \div B = Word * p + s /\ l \div B + h * C = Word * p + s
    <3>1. h \in Int /\ l \in 0 .. B * C - 1
      BY <1>1, <2>1
    <3>2. ShiftedDown(Word, B, h, l, C)
      BY <2>1, <3>1, HalvesShiftedDown
    <3> QED BY <3>2 DEF ShiftedDown
  <2> DEFINE x == l \div B + h * C
  <2>4. x % Word = s
    <3>1. x \in Int /\ x = Word * p + s
      BY <1>1, <2>3
    <3> HIDE DEF x
    <3> QED BY ONLY <1>1, <3>1, s \in 0 .. Word - 1, p \in Int, EuclidAt
  <2>5. p * Word = Word * p
    BY <1>1
  <2>6. lshrdi3(u, b) = Word * p + s
    BY <2>2, <2>3, <2>4, <2>5
  <2>7. u \div B = Word * p + s
    BY <1>1, <2>3
  <2> QED BY <2>6, <2>7 DEF B
<1> QED BY <1>2, <1>3, <1>4

(* A product with B fits a word of B * C up to a multiple of the word. *)
ShiftedUp(N, B, C, x) ==
  \E p \in 0 .. B - 1, r \in 0 .. C - 1 :
    /\ p = x \div C /\ x * B = N * p + r * B
    /\ r * B \in 0 .. N - B /\ (x * B) % N = r * B

LEMMA TimesPower ==
  ASSUME NEW B \in Nat \ {0}, NEW C \in Nat \ {0}, NEW N, N = B * C, N \in Nat \ {0}, NEW x \in 0 .. N - 1
  PROVE  ShiftedUp(N, B, C, x)
<1> DEFINE p == x \div C
           r == x % C
<1>0. x \in Nat
  OBVIOUS
<1>1. x \in Nat /\ p \in Nat /\ r \in 0 .. C - 1 /\ x = C * p + r
  BY <1>0, DivFacts
<1> HIDE DEF p, r
<1>2. p \in 0 .. B - 1
  <2>1. SUFFICES ASSUME B <= p PROVE FALSE
    BY <1>1
  <2>2. C * B <= C * p
    BY <1>1, <2>1, MulMono
  <2>3. C * B = N /\ C * p \in Int
    BY <1>1
  <2> QED BY <1>1, <2>2, <2>3
<1>3. x * B = N * p + r * B
  <2>1. (C * p + r) * B = (B * C) * p + r * B
    BY <1>1
  <2> QED BY <1>1, <2>1
<1>4. r * B \in 0 .. N - B
  <2>1. B * 0 <= B * r /\ B * r <= B * (C - 1)
    BY <1>1, MulMono
  <2>2. B * 0 = 0 /\ B * (C - 1) = N - B /\ B * r = r * B /\ r * B \in Int /\ N - B \in Int
    BY <1>1
  <2> QED BY <2>1, <2>2
<1>5. (x * B) % N = r * B
  <2> DEFINE y == x * B
             z == r * B
  <2>1. y \in Int /\ z \in 0 .. N - 1 /\ y = N * p + z /\ p \in Int
    BY <1>1, <1>3, <1>4
  <2> HIDE DEF y, z
  <2>2. N \in Nat \ {0}
    OBVIOUS
  <2>3. y % N = z
    BY ONLY <2>1, <2>2, EuclidAt
  <2> QED BY <2>3 DEF y, z
<1> QED BY <1>1, <1>2, <1>3, <1>4, <1>5 DEF p, ShiftedUp

(* The shift to the left. *)
LEMMA AshlFacts ==
  ASSUME NEW u \in Longs, NEW b \in 0 .. 2 * W - 1
  PROVE  ashldi3(u, b) = (u * Two[b]) % Long
<1> DEFINE h == High(u)
           l == Low(u)
<1>1. /\ Word \in Nat \ {0} /\ u \in Nat /\ h \in 0 .. Word - 1 /\ l \in 0 .. Word - 1
      /\ u = Word * h + l /\ b \in Int /\ W \in Nat \ {0} /\ Long = Word * Word /\ Long \in Nat \ {0}
  BY WordFacts, LongFacts
<1>2. CASE b = 0
  <2>1. u * 1 = u /\ u % Long = u /\ Two[0] = 1
    BY <1>1, LongAt, TwoFacts
  <2> QED BY <1>2, <2>1 DEF ashldi3
<1>3. CASE b >= W
  <2> DEFINE D == Two[b - W]
             r == (l * D) % Word
             p == (l * D) \div Word
  <2>1. D \in Nat \ {0} /\ Two[b] = Word * D
    BY <1>3, ShiftPowers
  <2>2. ashldi3(u, b) = r * Word
    BY <1>1, <1>3 DEF ashldi3
  <2> HIDE DEF D, h, l
  <2>3. p \in Int /\ r \in 0 .. Word - 1 /\ l * D = Word * p + r
    <3> DEFINE x == l * D
    <3>1. x \in Int
      BY <1>1, <2>1
    <3> HIDE DEF x
    <3>2. x \div Word \in Int /\ x % Word \in 0 .. Word - 1 /\ x = Word * (x \div Word) + (x % Word)
      BY <1>1, <3>1, Euclid
    <3> QED BY <3>2 DEF x
  <2> HIDE DEF p, r
  <2>4. u * Two[b] = Long * (h * D + p) + r * Word
    <3>1. (Word * h + l) * (Word * D) = (Word * Word) * (h * D) + Word * (l * D)
      BY <1>1, <2>1
    <3>2. Word * (Word * p + r) = (Word * Word) * p + r * Word
      BY <1>1, <2>3
    <3> DEFINE y == h * D
    <3>3. y \in Int
      BY <1>1, <2>1
    <3> HIDE DEF y
    <3>4. (Word * Word) * y + ((Word * Word) * p + r * Word) = (Word * Word) * (y + p) + r * Word
      BY <1>1, <2>3, <3>3
    <3> QED BY <1>1, <2>1, <2>3, <3>1, <3>2, <3>4 DEF y
  <2>5. r * Word \in 0 .. Long - 1
    <3>1. Word * r + 0 \in 0 .. Word * Word - 1
      BY <1>1, <2>3, MixedRadix, 0 \in 0 .. Word - 1
    <3>2. Word * r + 0 = r * Word
      BY <1>1, <2>3
    <3> QED BY <1>1, <3>1, <3>2
  <2> DEFINE y == u * Two[b]
             z == r * Word
             k == h * D + p
  <2>6. y \in Int /\ k \in Int /\ y = Long * k + z /\ z \in 0 .. Long - 1
    <3>1. y \in Int /\ k \in Int
      BY <1>1, <2>1, <2>3
    <3> QED BY <2>4, <2>5, <3>1
  <2> HIDE DEF y, z, k
  <2>7. y % Long = z
    BY ONLY <1>1, <2>6, EuclidAt
  <2> QED BY <2>2, <2>7 DEF y, z
<1>4. CASE b # 0 /\ ~(b >= W)
  <2> DEFINE B == Two[b]
             C == Two[W - b]
  <2>1. B \in Nat \ {0} /\ C \in Nat \ {0} /\ Word = B * C
    BY <1>1, <1>4, ShiftPowers
  <2>2. ashldi3(u, b) = (((h * B) % Word) + l \div C) * Word + ((l * B) % Word)
    BY <1>4 DEF ashldi3
  <2> HIDE DEF B, C, h, l
  <2>3. PICK p \in 0 .. B - 1, r \in 0 .. C - 1 :
           /\ p = l \div C /\ l * B = Word * p + r * B
           /\ r * B \in 0 .. Word - B /\ (l * B) % Word = r * B
    <3>1. ShiftedUp(Word, B, C, l)
      BY <1>1, <2>1, TimesPower
    <3> QED BY <3>1 DEF ShiftedUp
  <2>4. PICK t \in 0 .. B - 1, y \in 0 .. C - 1 :
           /\ t = h \div C /\ h * B = Word * t + y * B
           /\ y * B \in 0 .. Word - B /\ (h * B) % Word = y * B
    <3>1. ShiftedUp(Word, B, C, h)
      BY <1>1, <2>1, TimesPower
    <3> QED BY <3>1 DEF ShiftedUp
  <2> DEFINE z == y * B
             x == r * B
  <2>5. z \in 0 .. Word - B /\ x \in 0 .. Word - B /\ h * B = Word * t + z /\ l * B = Word * p + x
        /\ ashldi3(u, b) = (z + p) * Word + x
    BY <2>2, <2>3, <2>4
  <2> HIDE DEF z, x
  <2>6. z + p \in 0 .. Word - 1 /\ x \in 0 .. Word - 1
    BY <1>1, <2>1, <2>5
  <2>7. Word * (z + p) + x \in 0 .. Long - 1
    BY <1>1, <2>6, MixedRadix
  <2>8. u * B = Long * t + (Word * (z + p) + x)
    <3>1. (Word * h + l) * B = Word * (h * B) + l * B
      BY <1>1, <2>1
    <3>2. Word * (Word * t + z) + (Word * p + x) = (Word * Word) * t + (Word * (z + p) + x)
      BY <1>1, <2>5
    <3> QED BY <1>1, <2>5, <3>1, <3>2
  <2> DEFINE k == u * B
             q == Word * (z + p) + x
  <2>9. k \in Int /\ t \in Int /\ k = Long * t + q /\ q \in 0 .. Long - 1
    BY <1>1, <2>1, <2>7, <2>8
  <2>10. q = (z + p) * Word + x
    BY <1>1, <2>6
  <2> HIDE DEF k, q
  <2>11. k % Long = q
    BY ONLY <1>1, <2>9, EuclidAt
  <2> QED BY <2>5, <2>10, <2>11 DEF k, B
<1> QED BY <1>2, <1>3, <1>4

(* The quotient of a number of either sign by a positive one lies between  *)
(* the number and zero, or minus one.                                      *)
LEMMA QuotientRange ==
  ASSUME NEW D \in Nat \ {0}, NEW x \in Int
  PROVE  /\ x \div D \in Int
         /\ x < 0 => x <= x \div D /\ x \div D <= -1
         /\ ~(x < 0) => 0 <= x \div D /\ x \div D <= x
<1> DEFINE q == x \div D
           r == x % D
<1>1. q \in Int /\ r \in 0 .. D - 1 /\ x = D * q + r
  BY Euclid
<1> HIDE DEF q, r
<1>2. ASSUME x < 0 PROVE x <= q /\ q <= -1
  <2>1. q <= -1
    <3>1. SUFFICES ASSUME 0 <= q PROVE FALSE
      BY <1>1
    <3>2. D * 0 <= D * q /\ D * 0 = 0 /\ D * q \in Int
      BY <1>1, <3>1, MulMono
    <3> QED BY <1>1, <1>2, <3>2
  <2>2. x <= q
    <3>1. SUFFICES ASSUME q + 1 <= x PROVE FALSE
      BY <1>1
    <3>2. (-(q + 1)) * 1 <= (-(q + 1)) * D
      <4>1. -(q + 1) \in Nat /\ 1 <= D
        BY <1>1, <1>2, <3>1
      <4> QED BY <4>1, MulMono
    <3>3. (-(q + 1)) * 1 = -(q + 1) /\ (-(q + 1)) * D = -(D * q) - D /\ D * q \in Int
      BY <1>1
    <3> QED BY <1>1, <3>1, <3>2, <3>3
  <2> QED BY <2>1, <2>2
<1>3. ASSUME ~(x < 0) PROVE 0 <= q /\ q <= x
  <2>1. 0 <= q
    <3>1. SUFFICES ASSUME q <= -1 PROVE FALSE
      BY <1>1
    <3>2. D * q <= D * (-1) /\ D * (-1) = -D /\ D * q \in Int
      BY <1>1, <3>1, MulMono
    <3> QED BY <1>1, <1>3, <3>2
  <2>2. q * 1 <= q * D /\ q * 1 = q /\ q * D = D * q /\ D * q \in Int
    BY <1>1, <2>1, MulMono
  <2> QED BY <1>1, <2>1, <2>2
<1> QED BY <1>1, <1>2, <1>3 DEF q

(* The arithmetic shift to the right. *)
LEMMA AshrFacts ==
  ASSUME NEW u \in Longs, NEW b \in 0 .. 2 * W - 1
  PROVE  ashrdi3(u, b) = (Signed(u) \div Two[b]) % Long
<1> DEFINE h == High(u)
           l == Low(u)
           S == SignedHigh(u)
           H == Two[W - 1]
<1>1. /\ Word \in Nat \ {0} /\ u \in Nat /\ h \in 0 .. Word - 1 /\ l \in 0 .. Word - 1
      /\ u = Word * h + l /\ b \in Int /\ W \in Nat \ {0} /\ Long = Word * Word /\ Long \in Nat \ {0}
      /\ H \in Nat \ {0} /\ Word = 2 * H
      /\ Signed(u) = Word * S + l /\ S \in -H .. H - 1 /\ (h = S \/ h = S + Word)
  BY WordFacts, LongFacts, SignedHighFacts
<1>2. CASE b = 0
  <2>1. Signed(u) \div 1 = Signed(u) /\ Two[0] = 1 /\ ashrdi3(u, b) = u
    BY <1>2, TwoFacts, SignedFacts DEF ashrdi3
  <2>2. Signed(u) % Long = u
    <3>1. CASE u >= Long \div 2
      <4>1. QuotRem(Signed(u), Long, -1, u)
        <5>1. u < Long /\ Signed(u) = u - Long
          BY <3>1, LongFacts DEF Signed
        <5> QED BY <1>1, <5>1 DEF QuotRem
      <4> QED BY <4>1, EuclidBy
    <3>2. CASE ~(u >= Long \div 2)
      BY <3>2, LongAt DEF Signed
    <3> QED BY <3>1, <3>2
  <2> QED BY <1>2, <2>1, <2>2
<1>3. CASE b >= W
  <2> DEFINE D == Two[b - W]
             q == S \div D
  <2>1. D \in Nat \ {0} /\ Two[b] = Word * D
    BY <1>3, ShiftPowers
  <2>2. ashrdi3(u, b) = ((S \div H) % Word) * Word + (q % Word)
    BY <1>1, <1>3 DEF ashrdi3
  <2> HIDE DEF D, S, H, h, l
  <2>3. S \in Int /\ Signed(u) \in Int
    BY <1>1, SignedFacts
  <2>4. q \in Int /\ (S < 0 => S <= q /\ q <= -1) /\ (~(S < 0) => 0 <= q /\ q <= S)
    BY <2>1, <2>3, QuotientRange
  <2>5. Signed(u) \div Two[b] = q
    <3>1. (Signed(u) \div Word) \div D = Signed(u) \div (Word * D)
      BY <1>1, <2>1, <2>3, DivDiv
    <3>2. Signed(u) \div Word = S
      <4>1. QuotRem(Signed(u), Word, S, l)
        BY <1>1, <2>3 DEF QuotRem
      <4> QED BY <4>1, EuclidBy
    <3> QED BY <2>1, <3>1, <3>2
  <2> HIDE DEF q
  <2>6. CASE S < 0
    <3>1. S \div H = -1
      <4>1. QuotRem(S, H, -1, S + H)
        BY <1>1, <2>3, <2>6 DEF QuotRem
      <4> QED BY <4>1, EuclidBy
    <3>2. (-1) % Word = Word - 1
      <4>1. QuotRem(-1, Word, -1, Word - 1)
        BY <1>1 DEF QuotRem
      <4> QED BY <4>1, EuclidBy
    <3>3. q % Word = q + Word
      <4>1. QuotRem(q, Word, -1, q + Word)
        BY <1>1, <2>3, <2>4, <2>6 DEF QuotRem
      <4> QED BY <4>1, EuclidBy
    <3>4. (Word - 1) * Word + (q + Word) = Long + q
      <4>1. (Word - 1) * Word = Long - Word
        BY <1>1
      <4> QED BY <1>1, <2>4, <4>1
    <3>5. q % Long = Long + q
      <4>1. 2 * Word <= Long \/ Word = 1
        <5>1. CASE Word >= 2
          BY <1>1, <5>1, MulMono
        <5> QED BY <1>1, <5>1
      <4>2. -Long <= q
        BY <1>1, <2>3, <2>4, <2>6, <4>1
      <4>3. QuotRem(q, Long, -1, Long + q)
        BY <1>1, <2>4, <2>6, <4>2 DEF QuotRem
      <4> QED BY <4>3, EuclidBy
    <3> QED BY <2>2, <2>5, <3>1, <3>2, <3>3, <3>4, <3>5
  <2>7. CASE ~(S < 0)
    <3>1. S \div H = 0
      <4>1. S = H * 0 + S /\ S \in 0 .. H - 1
        BY <1>1, <2>3, <2>7
      <4> QED BY ONLY <1>1, <2>3, <4>1, 0 \in Int, EuclidAt
    <3>2. q \in 0 .. Word - 1
      BY <1>1, <2>3, <2>4, <2>7
    <3>3. q % Word = q /\ 0 % Word = 0
      <4>1. q = Word * 0 + q /\ 0 = Word * 0 + 0 /\ 0 \in 0 .. Word - 1
        BY <1>1, <2>4
      <4> QED BY ONLY <1>1, <2>4, <3>2, <4>1, 0 \in Int, EuclidAt
    <3>4. q % Long = q
      <4>1. Word * 0 + q \in Longs /\ Word * 0 + q = q
        <5>1. Word * 0 + q = q /\ 0 \in 0 .. Word - 1
          BY <1>1, <2>4
        <5> QED BY <3>2, <5>1, PairFacts
      <4> QED BY <4>1, LongAt
    <3>5. 0 * Word + q = q
      BY <1>1, <2>4
    <3> QED BY <2>2, <2>5, <3>1, <3>3, <3>4, <3>5
  <2> QED BY <2>6, <2>7
<1>4. CASE b # 0 /\ ~(b >= W)
  <2> DEFINE B == Two[b]
             C == Two[W - b]
  <2>1. B \in Nat \ {0} /\ C \in Nat \ {0} /\ Word = B * C
    BY <1>1, <1>4, ShiftPowers
  <2>2. ashrdi3(u, b) = ((S \div B) % Word) * Word + ((l \div B + h * C) % Word)
    BY <1>4 DEF ashrdi3
  <2> HIDE DEF B, C, h, l, S, H
  <2>3. PICK p \in Int, s \in 0 .. Word - 1 :
          p = S \div B /\ (Word * S + l) \div B = Word * p + s /\ l \div B + S * C = Word * p + s
    <3>1. S \in Int /\ l \in 0 .. B * C - 1
      BY <1>1, <2>1
    <3>2. ShiftedDown(Word, B, S, l, C)
      BY <2>1, <3>1, HalvesShiftedDown
    <3> QED BY <3>2 DEF ShiftedDown
  <2> DEFINE x == l \div B + h * C
             t == l \div B
  <2>4. t \in Int /\ S \in Int /\ h \in Int
    <3>1. l \in Int
      BY <1>1
    <3> QED BY <1>1, <2>1, <3>1, Euclid
  <2> HIDE DEF t
  <2>5. PICK k \in Int : t + h * C = Word * k + s
    <3>1. t + S * C = Word * p + s
      BY <2>3 DEF t
    <3>2. CASE h = S
      BY <3>1, <3>2
    <3>3. CASE h = S + Word
      <4>1. t + (S + Word) * C = (t + S * C) + Word * C
        BY <1>1, <2>1, <2>4
      <4>2. (Word * p + s) + Word * C = Word * (p + C) + s
        BY <1>1, <2>1
      <4>3. t + h * C = Word * (p + C) + s /\ p + C \in Int
        BY <2>1, <3>1, <3>3, <4>1, <4>2
      <4> QED BY <4>3
    <3> QED BY <1>1, <3>2, <3>3
  <2>6. x % Word = s
    <3>1. x \in Int /\ x = Word * k + s
      BY <1>1, <2>1, <2>4, <2>5 DEF t
    <3> HIDE DEF x
    <3> QED BY ONLY <1>1, <3>1, s \in 0 .. Word - 1, k \in Int, EuclidAt
  <2>7. (Word * p + s) % (Word * Word) = Word * (p % Word) + s
    <3>1. s \in 0 .. Word - 1 /\ p \in Int /\ Word \in Nat \ {0}
      BY <1>1
    <3> QED BY ONLY <3>1, DivTwice
  <2>8. (p % Word) * Word = Word * (p % Word)
    <3>1. p % Word \in Int
      BY <1>1, Euclid
    <3> QED BY <1>1, <3>1
  <2> QED BY <1>1, <2>2, <2>3, <2>6, <2>7, <2>8 DEF B
<1> QED BY <1>2, <1>3, <1>4

(* All three shifts of every double word by less than two words. *)
LEMMA ShiftIsMeant ==
  ASSUME NEW u \in Longs, NEW b \in 0 .. 2 * W - 1
  PROVE  [lshr |-> lshrdi3(u, b), ashl |-> ashldi3(u, b), ashr |-> ashrdi3(u, b)] = ShiftMeant(u, b)
BY LshrFacts, AshlFacts, AshrFacts DEF ShiftMeant

-----------------------------------------------------------------------------
(* Text in a buffer *)

(* What vsnprintf leaves in a buffer of cap bytes. *)
LEMMA TextFacts ==
  ASSUME NEW V, NEW text \in Seq(V), NEW cap \in Nat
  PROVE  LET buf == vsnprintf(text, cap)
         IN  /\ DOMAIN buf \subseteq 0 .. cap - 1
             /\ cap > 0 => \E n \in DOMAIN buf :
                  /\ buf[n] = -1 /\ (n = Len(text) \/ n = cap - 1)
                  /\ \A i \in 0 .. n - 1 : buf[i] = text[i + 1]
<1> DEFINE kept == {i \in 0 .. Len(text) - 1 : i + 1 < cap}
           nul == IF cap = 0 THEN {} ELSE {NulAt(text, cap)}
           buf == vsnprintf(text, cap)
<1>1. Len(text) \in Nat
  BY LenProperties
<1>2. buf = [i \in kept \cup nul |-> IF i \in nul THEN -1 ELSE text[i + 1]]
  BY DEF vsnprintf
<1>3. DOMAIN buf = kept \cup nul
  BY <1>2
<1>4. CASE cap = 0
  BY <1>1, <1>3, <1>4
<1>5. CASE cap # 0
  <2> DEFINE n == NulAt(text, cap)
  <2>1. n \in 0 .. cap - 1 /\ n <= Len(text) /\ (n = Len(text) \/ n = cap - 1)
    BY <1>1, <1>5 DEF NulAt
  <2>2. nul = {n}
    BY <1>5
  <2> HIDE DEF n, nul, buf
  <2>3. n \in DOMAIN buf /\ buf[n] = -1
    BY <1>2, <1>3, <2>2
  <2>4. ASSUME NEW i \in 0 .. n - 1 PROVE buf[i] = text[i + 1]
    <3>1. i \in kept /\ i # n
      BY <1>1, <2>1
    <3> QED BY <1>2, <2>2, <3>1
  <2>5. kept \cup nul \subseteq 0 .. cap - 1
    BY <1>1, <2>1, <2>2
  <2> QED BY <1>3, <2>1, <2>3, <2>4, <2>5 DEF buf
<1> QED BY <1>4, <1>5

-----------------------------------------------------------------------------
(* The argument block *)

(* Each string lies right below the one before. *)
LEMMA PointerFacts ==
  ASSUME NEW lens \in Seq(Lengths)
  PROVE  LET ptr == Pointers(lens)
         IN  /\ ptr[0] = STACK_TOP /\ \A i \in 0 .. Len(lens) : ptr[i] \in Int
             /\ \A i \in 1 .. Len(lens) : /\ lens[i] \in Nat \ {0} /\ ptr[i] = ptr[i - 1] - lens[i]
<1> DEFINE n == Len(lens)
           D == 0 .. n
           step == [i \in D |-> [v \in Int |-> v - (IF i = 0 THEN 0 ELSE lens[i])]]
           Solved(f) == f = [i \in D |-> IF i = 0 THEN STACK_TOP ELSE f[i - 1] - lens[i]]
           ptr == Pointers(lens)
<1>1. n \in Nat /\ STACK_TOP \in Int /\ \A i \in 1 .. n : lens[i] \in Nat \ {0}
  <2>1. \A i \in 1 .. n : lens[i] \in Lengths
    BY ElementOfSeq
  <2>2. Len(lens) \in Nat
    BY LenProperties
  <2>3. Lengths \subseteq Nat \ {0} /\ STACK_TOP \in Int
    BY BoundsAssumption
  <2> QED BY <2>1, <2>2, <2>3
<1>2. step \in [D -> [Int -> Int]]
  BY <1>1
<1> HIDE DEF n
<1>3. PICK f : Loops(f, 0, n, Int, STACK_TOP, step)
  <2>1. 0 \in Int /\ n \in Int /\ 0 <= n
    BY <1>1
  <2> HIDE DEF step
  <2> QED BY ONLY <1>1, <1>2, <2>1, Rounds
<1>4. ASSUME NEW i \in D
      PROVE  f[i] = IF i = 0 THEN STACK_TOP ELSE f[i - 1] - lens[i]
  <2>1. CASE i = 0
    BY <1>3, <2>1 DEF Loops
  <2>2. CASE i # 0
    <3>1. i - 1 \in D
      BY <1>1, <2>2
    <3>2. f[i - 1] \in Int
      BY <1>3, <3>1 DEF Loops
    <3>3. f[i] = step[i][f[i - 1]]
      BY <1>3, <2>2 DEF Loops
    <3> QED BY <2>2, <3>2, <3>3
  <2> QED BY <2>1, <2>2
<1>5. Solved(f)
  <2>1. f = [i \in D |-> f[i]]
    BY <1>3 DEF Loops
  <2> QED BY <1>4, <2>1
<1>6. ptr = CHOOSE g : Solved(g)
  BY DEF Pointers, n
<1>7. Solved(ptr)
  <2> HIDE DEF Solved, ptr
  <2> QED BY <1>5, <1>6
<1> HIDE DEF ptr
<1>8. ptr[0] = STACK_TOP /\ \A i \in 1 .. n : ptr[i] = ptr[i - 1] - lens[i]
  <2>1. ptr[0] = STACK_TOP
    BY <1>1, <1>7
  <2>2. ASSUME NEW i \in 1 .. n PROVE ptr[i] = ptr[i - 1] - lens[i]
    <3>1. i \in D /\ i # 0
      BY <1>1
    <3> QED BY <1>7, <3>1
  <2> QED BY <2>1, <2>2
<1> DEFINE T == {i \in D : ptr[i] \in Int}
<1>9. D \subseteq T
  <2>1. 0 \in T
    BY <1>1, <1>8
  <2>2. ASSUME NEW i \in 0 .. n - 1, i \in T PROVE i + 1 \in T
    <3>1. i + 1 \in 1 .. n /\ (i + 1) - 1 = i /\ i + 1 \in D
      BY <1>1
    <3>2. ptr[i + 1] = ptr[i] - lens[i + 1] /\ ptr[i] \in Int /\ lens[i + 1] \in Nat
      BY <1>1, <1>8, <2>2, <3>1
    <3> QED BY <3>1, <3>2
  <2>3. 0 \in Int /\ n \in Int
    BY <1>1
  <2> HIDE DEF T
  <2> QED BY <2>1, <2>2, <2>3, Upward
<1> QED BY <1>1, <1>8, <1>9 DEF ptr, n

(* So they lie below one another, and below the stack's top. *)
LEMMA PointerOrder ==
  ASSUME NEW lens \in Seq(Lengths), NEW i \in 0 .. Len(lens), NEW j \in 0 .. Len(lens), i <= j
  PROVE  Pointers(lens)[j] <= Pointers(lens)[i]
<1> DEFINE n == Len(lens)
           ptr == Pointers(lens)
           T == {k \in i .. n : ptr[k] <= ptr[i]}
<1>1. n \in Nat
  BY LenProperties
<1>2. /\ \A k \in 0 .. n : ptr[k] \in Int
      /\ \A k \in 1 .. n : lens[k] \in Nat \ {0} /\ ptr[k] = ptr[k - 1] - lens[k]
  BY PointerFacts
<1> HIDE DEF n, ptr
<1>a. i \in 0 .. n /\ j \in 0 .. n
  BY DEF n
<1>3. i \in T
  BY <1>1, <1>2, <1>a
<1>4. ASSUME NEW k \in i .. n - 1, k \in T PROVE k + 1 \in T
  <2>1. k + 1 \in 1 .. n /\ (k + 1) - 1 = k /\ k + 1 \in i .. n /\ k \in 0 .. n
    BY <1>1, <1>a
  <2>2. ptr[k + 1] = ptr[k] - lens[k + 1] /\ lens[k + 1] \in Nat /\ ptr[k] \in Int /\ ptr[i] \in Int /\ ptr[k] <= ptr[i]
    BY <1>2, <1>4, <1>a, <2>1
  <2> QED BY <2>1, <2>2
<1>5. i .. n \subseteq T
  <2>1. i \in Int /\ n \in Int
    BY <1>1, <1>a
  <2> HIDE DEF T
  <2> QED BY <1>3, <1>4, <2>1, Upward
<1> QED BY <1>1, <1>5, <1>a DEF n, ptr

(* The parts of the block, for any arguments. *)
LEMMA ArgumentFacts ==
  ASSUME NEW lens \in Seq(Lengths)
  PROVE  LET r == build_user_args(lens)
         IN  /\ \A b, c \in Blocks(r) : b = c \/ Disjoint(b, c)
             /\ \A b \in Blocks(r) : r.esp.from <= b.from /\ b.from + b.size <= STACK_TOP
             /\ {r.argv.from % 4, r.envp.from % 4, r.esp.from % 4} = {0}
<1> DEFINE n == Len(lens)
           ptr == Pointers(lens)
           last == ptr[n]
           a == last - (last % 4) - ArgvSize(n)
           r == build_user_args(lens)
           str(i) == [from |-> ptr[i], size |-> lens[i]]
           argv == [from |-> a, size |-> (n + 1) * 4]
           envp == [from |-> a - 4, size |-> 4]
           esp == [from |-> a - 16, size |-> 12]
<1>1. n \in Nat /\ STACK_TOP \in Int
  BY LenProperties, BoundsAssumption
<1>2. /\ ptr[0] = STACK_TOP /\ \A i \in 0 .. n : ptr[i] \in Int
      /\ \A i \in 1 .. n : lens[i] \in Nat \ {0} /\ ptr[i] = ptr[i - 1] - lens[i]
  BY PointerFacts
<1>3. \A i, j \in 0 .. n : i <= j => ptr[j] <= ptr[i]
  BY PointerOrder
<1>4. r = [strings |-> [i \in 1 .. n |-> str(i)], argv |-> argv, envp |-> envp, esp |-> esp]
  BY DEF build_user_args
<1> HIDE DEF n, ptr
<1>5. last \in Int /\ a \in Int /\ a + (n + 1) * 4 <= last /\ a % 4 = 0 /\ (a - 4) % 4 = 0 /\ (a - 16) % 4 = 0
  <2>1. last \in Int
    BY <1>1, <1>2
  <2> HIDE DEF last
  <2>2. ArgvSize(n) = (n + 1) * 4
    BY DEF ArgvSize
  <2>3. last % 4 \in 0 .. 3 /\ last - (last % 4) = 4 * (last \div 4) /\ last \div 4 \in Int
    BY <2>1
  <2>4. a = 4 * (last \div 4) - (n + 1) * 4
    BY <2>2, <2>3
  <2> DEFINE q == last \div 4
  <2> HIDE DEF q, a
  <2>5. a = 4 * q - (n + 1) * 4 /\ q \in Int /\ 4 * q <= last
    BY <2>1, <2>3, <2>4 DEF q
  <2> QED BY <1>1, <2>1, <2>5
<1> HIDE DEF last, a
<1>6. Blocks(r) = {argv, envp, esp} \cup {str(i) : i \in 1 .. n}
  <2>1. r.strings = [i \in 1 .. n |-> str(i)] /\ r.argv = argv /\ r.envp = envp /\ r.esp = esp
    BY <1>4
  <2> HIDE DEF argv, envp, esp, str, r
  <2>2. {r.strings[i] : i \in DOMAIN r.strings} = {str(i) : i \in 1 .. n}
    BY <2>1
  <2> QED BY <2>1, <2>2 DEF Blocks
<1>7. /\ argv.from = a /\ argv.size = (n + 1) * 4 /\ envp.from = a - 4 /\ envp.size = 4
      /\ esp.from = a - 16 /\ esp.size = 12
      /\ r.argv = argv /\ r.envp = envp /\ r.esp = esp
  BY <1>4
<1>8. ASSUME NEW i \in 1 .. n
      PROVE  /\ str(i).from \in Int /\ str(i).size \in Nat /\ last <= str(i).from
             /\ str(i).from + str(i).size <= STACK_TOP /\ str(i).from + str(i).size = ptr[i - 1]
  <2>1. str(i).from = ptr[i] /\ str(i).size = lens[i]
    OBVIOUS
  <2>2. i - 1 \in 0 .. n /\ i \in 0 .. n /\ 0 \in 0 .. n /\ n \in 0 .. n
    BY <1>1
  <2>3. ptr[i - 1] <= ptr[0] /\ ptr[n] <= ptr[i] /\ ptr[i] \in Int /\ ptr[i - 1] \in Int /\ ptr[n] \in Int
    BY <1>1, <1>2, <1>3, <2>2
  <2>4. lens[i] \in Nat \ {0} /\ ptr[i] = ptr[i - 1] - lens[i]
    BY <1>2
  <2> HIDE DEF str
  <2> QED BY <1>2, <2>1, <2>3, <2>4 DEF last
<1>9. ASSUME NEW i \in 1 .. n, NEW j \in 1 .. n, i < j PROVE Disjoint(str(i), str(j))
  <2>1. i \in 0 .. n /\ j - 1 \in 0 .. n /\ i <= j - 1
    BY <1>1, <1>9
  <2>2. ptr[j - 1] <= ptr[i]
    BY <1>3, <2>1
  <2>3. str(i).from = ptr[i] /\ str(j).from + str(j).size = ptr[j - 1]
    BY <1>8
  <2> HIDE DEF str
  <2> QED BY <2>2, <2>3 DEF Disjoint
<1> HIDE DEF str, argv, envp, esp, r
<1>10. ASSUME NEW i \in 1 .. n, NEW b \in {argv, envp, esp}
       PROVE  Disjoint(str(i), b) /\ Disjoint(b, str(i))
  <2>1. b.from + b.size <= last /\ b.from \in Int /\ b.size \in Int
    BY <1>1, <1>5, <1>7
  <2> QED BY <1>5, <1>8, <2>1 DEF Disjoint
<1>11. Disjoint(argv, envp) /\ Disjoint(argv, esp) /\ Disjoint(envp, esp)
       /\ Disjoint(envp, argv) /\ Disjoint(esp, argv) /\ Disjoint(esp, envp)
  BY <1>1, <1>5, <1>7 DEF Disjoint
<1>12. ASSUME NEW b \in Blocks(r), NEW c \in Blocks(r) PROVE b = c \/ Disjoint(b, c)
  <2>1. CASE b \in {argv, envp, esp} /\ c \in {argv, envp, esp}
    BY <1>11, <2>1
  <2>2. CASE b \in {argv, envp, esp} /\ c \notin {argv, envp, esp}
    BY <1>6, <1>10, <2>2
  <2>3. CASE b \notin {argv, envp, esp} /\ c \in {argv, envp, esp}
    BY <1>6, <1>10, <2>3
  <2>4. CASE b \notin {argv, envp, esp} /\ c \notin {argv, envp, esp}
    <3>1. PICK i \in 1 .. n : b = str(i)
      BY <1>6, <2>4
    <3>2. PICK j \in 1 .. n : c = str(j)
      BY <1>6, <2>4
    <3>3. CASE i = j
      BY <3>1, <3>2, <3>3
    <3>4. CASE i < j
      BY <1>9, <3>1, <3>2, <3>4
    <3>5. CASE j < i
      <4>1. Disjoint(c, b)
        BY <1>9, <3>1, <3>2, <3>5
      <4> QED BY <4>1 DEF Disjoint
    <3> QED BY <3>3, <3>4, <3>5
  <2> QED BY <2>1, <2>2, <2>3, <2>4
<1>13. ASSUME NEW b \in Blocks(r) PROVE r.esp.from <= b.from /\ b.from + b.size <= STACK_TOP
  <2>1. last <= STACK_TOP
    <3>1. 0 \in 0 .. n /\ n \in 0 .. n /\ 0 <= n
      BY <1>1
    <3> QED BY <1>2, <1>3, <3>1 DEF last
  <2>2. CASE b \in {argv, envp, esp}
    BY <1>1, <1>5, <1>7, <2>1, <2>2
  <2>3. CASE b \notin {argv, envp, esp}
    <3>1. PICK i \in 1 .. n : b = str(i)
      BY <1>6, <2>3
    <3>2. b.from \in Int /\ last <= b.from /\ b.from + b.size <= STACK_TOP
      BY <1>8, <3>1
    <3>3. r.esp.from = a - 16 /\ a <= last
      BY <1>1, <1>5, <1>7
    <3> QED BY <1>5, <3>2, <3>3
  <2> QED BY <2>2, <2>3
<1>14. {r.argv.from % 4, r.envp.from % 4, r.esp.from % 4} = {0}
  BY <1>5, <1>7
<1> QED BY <1>12, <1>13, <1>14 DEF r

-----------------------------------------------------------------------------
(* Moving memory *)

(* The bytes after each round of a copy. *)
Copying(c, m, d, s, n, upwards) ==
  /\ c[0] = m /\ \A i \in 0 .. n : c[i] \in [0 .. MEMORY - 1 -> Int]
  /\ \A i \in 1 .. n : c[i] = CopyStep(c[i - 1], d, s, IF upwards THEN i - 1 ELSE n - i)

LEMMA CopyFacts ==
  ASSUME NEW m \in [0 .. MEMORY - 1 -> Int], NEW d \in Nat, NEW s \in Nat, NEW n \in Nat,
         d + n <= MEMORY, s + n <= MEMORY, NEW upwards \in BOOLEAN
  PROVE  Copying(CopyRounds(m, d, s, n, upwards), m, d, s, n, upwards)
<1> DEFINE V == [0 .. MEMORY - 1 -> Int]
           D == 0 .. n
           at(i) == IF upwards THEN i - 1 ELSE n - i
           step == [i \in D |-> [v \in V |-> IF i = 0 THEN v ELSE CopyStep(v, d, s, at(i))]]
           Solved(f) == f = [i \in D |-> IF i = 0 THEN m ELSE CopyStep(f[i - 1], d, s, at(i))]
           c == CopyRounds(m, d, s, n, upwards)
<1>1. ASSUME NEW i \in 1 .. n, NEW v \in V PROVE CopyStep(v, d, s, at(i)) \in V
  <2>1. at(i) \in 0 .. n - 1
    OBVIOUS
  <2>2. d + at(i) \in 0 .. MEMORY - 1 /\ s + at(i) \in 0 .. MEMORY - 1
    BY <2>1, BoundsAssumption
  <2> HIDE DEF at
  <2> QED BY <2>2 DEF CopyStep
<1>2. step \in [D -> [V -> V]]
  <2>1. ASSUME NEW i \in D, NEW v \in V PROVE (IF i = 0 THEN v ELSE CopyStep(v, d, s, at(i))) \in V
    <3>1. CASE i = 0
      BY <3>1
    <3>2. CASE i # 0
      <4>1. i \in 1 .. n
        BY <3>2
      <4> HIDE DEF V, at
      <4> QED BY <1>1, <3>2, <4>1
    <3> QED BY <3>1, <3>2
  <2> HIDE DEF V, at
  <2> QED BY <2>1
<1>3. PICK f : Loops(f, 0, n, V, m, step)
  <2>1. 0 \in Int /\ n \in Int /\ 0 <= n /\ m \in V
    OBVIOUS
  <2> HIDE DEF step, V
  <2> QED BY ONLY <1>2, <2>1, Rounds
<1> HIDE DEF V, at
<1>4. ASSUME NEW i \in D
      PROVE  f[i] = IF i = 0 THEN m ELSE CopyStep(f[i - 1], d, s, at(i))
  <2>1. CASE i = 0
    BY <1>3, <2>1 DEF Loops
  <2>2. CASE i # 0
    <3>1. i - 1 \in D
      BY <2>2
    <3>2. f[i - 1] \in V
      BY <1>3, <3>1 DEF Loops
    <3>3. f[i] = step[i][f[i - 1]]
      BY <1>3, <2>2 DEF Loops
    <3> QED BY <2>2, <3>2, <3>3
  <2> QED BY <2>1, <2>2
<1>5. Solved(f)
  <2>1. f = [i \in D |-> f[i]]
    BY <1>3 DEF Loops
  <2> QED BY <1>4, <2>1
<1>6. c = CHOOSE g : Solved(g)
  BY DEF CopyRounds, at
<1>7. Solved(c)
  <2> HIDE DEF Solved, c
  <2> QED BY <1>5, <1>6
<1> HIDE DEF c
<1>8. c[0] = m /\ \A i \in 1 .. n : c[i] = CopyStep(c[i - 1], d, s, at(i))
  <2>1. c[0] = m
    BY <1>7
  <2>2. ASSUME NEW i \in 1 .. n PROVE c[i] = CopyStep(c[i - 1], d, s, at(i))
    <3>1. i \in D /\ i # 0
      OBVIOUS
    <3> QED BY <1>7, <3>1
  <2> QED BY <2>1, <2>2
<1> DEFINE T == {i \in D : c[i] \in V}
<1>9. D \subseteq T
  <2>1. 0 \in T
    BY <1>8 DEF V
  <2>2. ASSUME NEW i \in 0 .. n - 1, i \in T PROVE i + 1 \in T
    <3>1. i + 1 \in 1 .. n /\ (i + 1) - 1 = i /\ i + 1 \in D
      OBVIOUS
    <3>2. c[i + 1] = CopyStep(c[i], d, s, at(i + 1)) /\ c[i] \in V
      BY <1>8, <2>2, <3>1
    <3> QED BY <1>1, <3>1, <3>2
  <2>3. 0 \in Int /\ n \in Int
    OBVIOUS
  <2> HIDE DEF T
  <2> QED BY <2>1, <2>2, <2>3, Upward
<1> QED BY <1>8, <1>9 DEF c, V, at, Copying

(* What memmove leaves in memory whose bytes are their own addresses. *)
LEMMA MoveFacts ==
  ASSUME NEW d \in 0 .. MEMORY, NEW s \in 0 .. MEMORY, NEW n \in 0 .. MEMORY, d + n <= MEMORY, s + n <= MEMORY
  PROVE  memmove([i \in 0 .. MEMORY - 1 |-> i], d, s, n) =
           [i \in 0 .. MEMORY - 1 |-> IF i \in d .. d + n - 1 THEN s + i - d ELSE i]
<1> DEFINE A == 0 .. MEMORY - 1
           m == [i \in A |-> i]
           new == [i \in A |-> IF i \in d .. d + n - 1 THEN s + i - d ELSE i]
<1>0. MEMORY \in Nat /\ d \in Nat /\ s \in Nat /\ n \in Nat
  BY BoundsAssumption
<1>m. m \in [A -> Int]
  BY <1>0
<1>1. CASE d = s \/ n = 0
  <2>1. m = new
    BY <1>0, <1>1
  <2> QED BY <1>1, <2>1 DEF memmove
<1>2. CASE d < s /\ n # 0
  <2> DEFINE c == CopyRounds(m, d, s, n, TRUE)
             Upto(i) == [x \in A |-> IF x \in d .. d + i - 1 THEN s + x - d ELSE x]
             T == {i \in 0 .. n : c[i] = Upto(i)}
  <2>1. c[0] = m /\ \A i \in 1 .. n : c[i] = CopyStep(c[i - 1], d, s, i - 1)
    <3>1. /\ c[0] = m
          /\ \A i \in 1 .. n : c[i] = CopyStep(c[i - 1], d, s, IF TRUE THEN i - 1 ELSE n - i)
      <4>1. TRUE \in BOOLEAN
        OBVIOUS
      <4>2. Copying(CopyRounds(m, d, s, n, TRUE), m, d, s, n, TRUE)
        <5> HIDE DEF m
        <5> QED BY <1>0, <1>m, <4>1, CopyFacts
      <4> QED BY <4>2 DEF Copying, c
    <3> QED BY <3>1
  <2> HIDE DEF c
  <2>2. 0 \in T
    <3>1. m = Upto(0)
      BY <1>0
    <3> QED BY <1>0, <2>1, <3>1
  <2>3. ASSUME NEW i \in 0 .. n - 1, i \in T PROVE i + 1 \in T
    <3>1. i + 1 \in 1 .. n /\ (i + 1) - 1 = i /\ i + 1 \in 0 .. n
      BY <1>0
    <3>2. c[i + 1] = [Upto(i) EXCEPT ![d + i] = Upto(i)[s + i]]
      <4>1. c[i] = Upto(i)
        BY <2>3
      <4>2. c[i + 1] = CopyStep(c[i], d, s, i)
        BY <2>1, <3>1
      <4> HIDE DEF Upto
      <4> QED BY <4>1, <4>2 DEF CopyStep
    <3>3. d + i \in A /\ s + i \in A /\ s + i \notin d .. d + i - 1
      BY <1>0, <1>2
    <3>4. Upto(i)[s + i] = s + i
      BY <3>3
    <3>5. ASSUME NEW x \in A PROVE [Upto(i) EXCEPT ![d + i] = s + i][x] = Upto(i + 1)[x]
      <4>1. CASE x = d + i
        BY <1>0, <3>3, <4>1
      <4>2. CASE x # d + i
        BY <1>0, <3>3, <4>2
      <4> QED BY <4>1, <4>2
    <3>6. c[i + 1] = Upto(i + 1)
      BY <3>2, <3>4, <3>5
    <3> QED BY <3>1, <3>6
  <2>4. n \in T
    <3>1. 0 \in Int /\ n \in Int /\ n \in 0 .. n
      BY <1>0
    <3> HIDE DEF T
    <3>2. 0 .. n \subseteq T
      BY <2>2, <2>3, <3>1, Upward
    <3> QED BY <3>1, <3>2
  <2>5. memmove(m, d, s, n) = c[n]
    <3>1. (d < s) = TRUE /\ d # s
      BY <1>0, <1>2
    <3>2. memmove(m, d, s, n) = Copied(m, d, s, n, d < s)
      BY <1>2, <3>1 DEF memmove
    <3> HIDE DEF m
    <3>3. memmove(m, d, s, n) = Copied(m, d, s, n, TRUE)
      BY <3>1, <3>2
    <3> QED BY <3>3 DEF Copied, c
  <2> QED BY <2>4, <2>5
<1>3. CASE s < d /\ n # 0
  <2> DEFINE c == CopyRounds(m, d, s, n, FALSE)
             Upto(i) == [x \in A |-> IF x \in d + n - i .. d + n - 1 THEN s + x - d ELSE x]
             T == {i \in 0 .. n : c[i] = Upto(i)}
  <2>1. c[0] = m /\ \A i \in 1 .. n : c[i] = CopyStep(c[i - 1], d, s, n - i)
    <3>1. /\ c[0] = m
          /\ \A i \in 1 .. n : c[i] = CopyStep(c[i - 1], d, s, IF FALSE THEN i - 1 ELSE n - i)
      <4>1. FALSE \in BOOLEAN
        OBVIOUS
      <4>2. Copying(CopyRounds(m, d, s, n, FALSE), m, d, s, n, FALSE)
        <5> HIDE DEF m
        <5> QED BY <1>0, <1>m, <4>1, CopyFacts
      <4> QED BY <4>2 DEF Copying, c
    <3> QED BY <3>1
  <2> HIDE DEF c
  <2>2. 0 \in T
    <3>1. m = Upto(0)
      BY <1>0
    <3> QED BY <1>0, <2>1, <3>1
  <2>3. ASSUME NEW i \in 0 .. n - 1, i \in T PROVE i + 1 \in T
    <3> DEFINE k == n - (i + 1)
    <3>1. i + 1 \in 1 .. n /\ (i + 1) - 1 = i /\ i + 1 \in 0 .. n
      BY <1>0
    <3>2. c[i + 1] = [Upto(i) EXCEPT ![d + k] = Upto(i)[s + k]]
      BY <2>1, <2>3, <3>1 DEF CopyStep
    <3>3. d + k \in A /\ s + k \in A /\ s + k \notin d + n - i .. d + n - 1
      BY <1>0, <1>3
    <3>4. Upto(i)[s + k] = s + k
      BY <3>3
    <3>5. ASSUME NEW x \in A PROVE [Upto(i) EXCEPT ![d + k] = s + k][x] = Upto(i + 1)[x]
      <4>1. CASE x = d + k
        BY <1>0, <3>3, <4>1
      <4>2. CASE x # d + k
        BY <1>0, <3>3, <4>2
      <4> QED BY <4>1, <4>2
    <3>6. c[i + 1] = Upto(i + 1)
      BY <3>2, <3>4, <3>5
    <3> QED BY <3>1, <3>6
  <2>4. n \in T
    <3>1. 0 \in Int /\ n \in Int /\ n \in 0 .. n
      BY <1>0
    <3> HIDE DEF T
    <3>2. 0 .. n \subseteq T
      BY <2>2, <2>3, <3>1, Upward
    <3> QED BY <3>1, <3>2
  <2>5. memmove(m, d, s, n) = c[n]
    <3>1. (d < s) = FALSE /\ d # s
      BY <1>0, <1>3
    <3>2. memmove(m, d, s, n) = Copied(m, d, s, n, d < s)
      BY <1>3, <3>1 DEF memmove
    <3> HIDE DEF m
    <3>3. memmove(m, d, s, n) = Copied(m, d, s, n, FALSE)
      BY <3>1, <3>2
    <3> QED BY <3>3 DEF Copied, c
  <2>6. d + n - n = d
    BY <1>0
  <2> QED BY <2>4, <2>5, <2>6
<1> QED BY <1>0, <1>1, <1>2, <1>3

-----------------------------------------------------------------------------
(* Sorting *)

Item == [key : Int, tag : Int]
Before(x, y) == x.key < y.key \/ (x.key = y.key /\ x.tag < y.tag)

(* Where an item goes: above it are only greater ones. *)
LEMMA InsertionFacts ==
  ASSUME NEW n \in Nat, NEW b \in [1 .. n -> Item], NEW i \in 1 .. n
  PROVE  LET j == Insertion(b, i)
         IN  /\ j \in 1 .. i /\ (j = 1 \/ b[i].key >= b[j - 1].key)
             /\ \A k \in j .. i - 1 : b[i].key < b[k].key
<1> DEFINE S == {j \in 1 .. i : \A k \in j .. i - 1 : b[i].key < b[k].key}
           Solved(j) == /\ j = 1 \/ b[i].key >= b[j - 1].key
                      /\ \A k \in j .. i - 1 : b[i].key < b[k].key
<1>1. PICK m \in S : \A k \in S : m <= k
  <2>1. i \in S /\ S \subseteq Nat
    OBVIOUS
  <2> HIDE DEF S
  <2> QED BY <2>1, Least
<1>2. m \in 1 .. i /\ \A k \in m .. i - 1 : b[i].key < b[k].key
  OBVIOUS
<1>3. m = 1 \/ b[i].key >= b[m - 1].key
  <2>1. SUFFICES ASSUME m # 1 PROVE b[i].key >= b[m - 1].key
    OBVIOUS
  <2>2. m - 1 \in 1 .. i /\ m - 1 \notin S
    BY <1>1, <1>2, <2>1
  <2>3. PICK k \in m - 1 .. i - 1 : ~(b[i].key < b[k].key)
    BY <2>2
  <2>4. k = m - 1
    BY <1>2, <2>3
  <2>5. b[i].key \in Int /\ b[k].key \in Int
    <3>1. b[i] \in Item /\ b[k] \in Item
      BY <1>2, <2>1, <2>3
    <3> QED BY <3>1 DEF Item
  <2> QED BY <2>3, <2>4, <2>5
<1>4. \E j \in 1 .. i : Solved(j)
  BY <1>2, <1>3
<1>5. Insertion(b, i) = CHOOSE j \in 1 .. i : Solved(j)
  BY DEF Insertion
<1> DEFINE j == Insertion(b, i)
<1> HIDE DEF Solved
<1>6. j \in 1 .. i /\ Solved(j)
  BY <1>4, <1>5
<1> QED BY <1>6 DEF Solved

(* The array after an insertion. *)
LEMMA InsertedFacts ==
  ASSUME NEW n \in Nat, NEW b \in [1 .. n -> Item], NEW i \in 1 .. n
  PROVE  /\ Inserted(b, i) \in [1 .. n -> Item]
         /\ \A k \in 1 .. n :
              Inserted(b, i)[k] = IF k = Insertion(b, i) THEN b[i]
                                  ELSE IF k \in Insertion(b, i) + 1 .. i THEN b[k - 1] ELSE b[k]
<1> DEFINE j == Insertion(b, i)
<1>1. j \in 1 .. i
  BY InsertionFacts
<1>2. Inserted(b, i) = [k \in 1 .. n |-> IF k = j THEN b[i] ELSE IF k \in j + 1 .. i THEN b[k - 1] ELSE b[k]]
  BY DEF Inserted
<1> HIDE DEF j
<1>3. ASSUME NEW k \in 1 .. n
      PROVE  (IF k = j THEN b[i] ELSE IF k \in j + 1 .. i THEN b[k - 1] ELSE b[k]) \in Item
  <2>1. CASE k = j
    BY <2>1
  <2>2. CASE k # j /\ k \in j + 1 .. i
    <3>1. k - 1 \in 1 .. n
      BY <1>1, <2>2
    <3> QED BY <2>2, <3>1
  <2>3. CASE k # j /\ k \notin j + 1 .. i
    BY <2>3
  <2> QED BY <2>1, <2>2, <2>3
<1> QED BY <1>2, <1>3 DEF j

(* After i rounds the first i items are those of a, in order, and the      *)
(* others are untouched.                                                   *)
SortedUpTo(a, b, n, i) ==
  /\ b \in [1 .. n -> Item]
  /\ \A p, q \in 1 .. i : p < q => Before(b[p], b[q])
  /\ \A p \in 1 .. i : \E k \in 1 .. i : b[p] = a[k]
  /\ \A k \in 1 .. i : \E p \in 1 .. i : b[p] = a[k]
  /\ \A k \in i + 1 .. n : b[k] = a[k]

LEMMA SortRound ==
  ASSUME NEW n \in Nat, NEW a \in [1 .. n -> Item], \A k \in 1 .. n : a[k].tag = k,
         NEW b, NEW i \in 1 .. n - 1, SortedUpTo(a, b, n, i)
  PROVE  SortedUpTo(a, Inserted(b, i + 1), n, i + 1)
<1> DEFINE j == Insertion(b, i + 1)
           c == Inserted(b, i + 1)
           x == b[i + 1]
<1>1. /\ b \in [1 .. n -> Item]
      /\ \A p, q \in 1 .. i : p < q => Before(b[p], b[q])
      /\ \A p \in 1 .. i : \E k \in 1 .. i : b[p] = a[k]
      /\ \A k \in 1 .. i : \E p \in 1 .. i : b[p] = a[k]
      /\ \A k \in i + 1 .. n : b[k] = a[k]
  BY DEF SortedUpTo
<1>2. i + 1 \in 1 .. n /\ x = a[i + 1] /\ (i + 1) - 1 = i
  BY <1>1
<1>3. j \in 1 .. i + 1 /\ (j = 1 \/ x.key >= b[j - 1].key) /\ \A k \in j .. i : x.key < b[k].key
  BY <1>1, <1>2, InsertionFacts
<1>4. /\ c \in [1 .. n -> Item]
      /\ \A k \in 1 .. n : c[k] = IF k = j THEN x ELSE IF k \in j + 1 .. i + 1 THEN b[k - 1] ELSE b[k]
  BY <1>1, <1>2, InsertedFacts
<1> HIDE DEF j, c, x
<1>5. c[j] = x /\ (\A k \in j + 1 .. i + 1 : c[k] = b[k - 1]) /\ (\A k \in 1 .. j - 1 : c[k] = b[k])
      /\ \A k \in i + 2 .. n : c[k] = b[k]
  <2>1. j \in 1 .. n /\ j \in Int
    BY <1>2, <1>3
  <2>2. c[j] = x
    BY <1>4, <2>1
  <2>3. ASSUME NEW k \in j + 1 .. i + 1 PROVE c[k] = b[k - 1]
    <3>1. k \in 1 .. n /\ k # j
      BY <1>2, <1>3
    <3> QED BY <1>4, <3>1
  <2>4. ASSUME NEW k \in 1 .. j - 1 PROVE c[k] = b[k]
    <3>1. k \in 1 .. n /\ k # j /\ k \notin j + 1 .. i + 1
      BY <1>2, <1>3
    <3> QED BY <1>4, <3>1
  <2>5. ASSUME NEW k \in i + 2 .. n PROVE c[k] = b[k]
    <3>1. k \in 1 .. n /\ k # j /\ k \notin j + 1 .. i + 1
      BY <1>2, <1>3
    <3> QED BY <1>4, <3>1
  <2> QED BY <2>2, <2>3, <2>4, <2>5
<1>6. ASSUME NEW p \in 1 .. i + 1
      PROVE  b[p] \in Item /\ b[p].key \in Int /\ b[p].tag \in Int
  <2>1. b[p] \in Item
    BY <1>1, <1>2
  <2> QED BY <2>1 DEF Item
<1>7. ASSUME NEW p \in 1 .. i PROVE b[p].tag \in 1 .. i
  <2>1. PICK k \in 1 .. i : b[p] = a[k]
    BY <1>1
  <2>2. k \in 1 .. n
    OBVIOUS
  <2> QED BY <2>1, <2>2
<1>8. x.key \in Int /\ x.tag = i + 1
  <2>1. x \in Item
    BY <1>2
  <2> QED BY <1>2, <2>1 DEF Item
<1>9. ASSUME NEW p \in 1 .. i + 1, NEW q \in 1 .. i + 1, p < q PROVE Before(c[p], c[q])
  <2>1. CASE p = j
    <3>1. q \in j + 1 .. i + 1 /\ q - 1 \in j .. i
      BY <1>3, <1>9, <2>1
    <3>2. c[p] = x /\ c[q] = b[q - 1]
      BY <1>5, <2>1, <3>1
    <3>3. x.key < b[q - 1].key
      BY <1>3, <3>1
    <3> QED BY <3>2, <3>3 DEF Before
  <2>2. CASE q = j
    <3>1. p \in 1 .. j - 1 /\ p \in 1 .. i /\ j # 1 /\ j - 1 \in 1 .. i
      BY <1>3, <1>9, <2>2
    <3>2. b[p].key <= b[j - 1].key
      <4>1. CASE p = j - 1
        BY <1>6, <3>1, <4>1
      <4>2. CASE p # j - 1
        <5>1. Before(b[p], b[j - 1])
          BY <1>1, <3>1, <4>2
        <5>2. b[p].key \in Int /\ b[j - 1].key \in Int
          BY <1>6, <3>1
        <5> QED BY <5>1, <5>2 DEF Before
      <4> QED BY <4>1, <4>2
    <3>3. b[p].key <= x.key /\ b[p].tag < x.tag
      <4>1. b[p].key \in Int /\ b[j - 1].key \in Int /\ b[p].tag \in 1 .. i
        BY <1>6, <1>7, <3>1
      <4> QED BY <1>3, <1>8, <3>1, <3>2, <4>1
    <3>4. c[p] = b[p] /\ c[q] = x
      BY <1>5, <2>2, <3>1
    <3>5. b[p].key \in Int
      BY <1>6, <3>1
    <3> QED BY <1>8, <3>3, <3>4, <3>5 DEF Before
  <2>3. CASE q < j
    <3>1. p \in 1 .. j - 1 /\ q \in 1 .. j - 1 /\ p \in 1 .. i /\ q \in 1 .. i
      BY <1>3, <1>9, <2>3
    <3> QED BY <1>1, <1>5, <1>9, <3>1
  <2>4. CASE p < j /\ j < q
    <3>1. p \in 1 .. j - 1 /\ q \in j + 1 .. i + 1 /\ p \in 1 .. i /\ q - 1 \in 1 .. i /\ p < q - 1
      BY <1>3, <2>4
    <3> QED BY <1>1, <1>5, <3>1
  <2>5. CASE j < p
    <3>1. p \in j + 1 .. i + 1 /\ q \in j + 1 .. i + 1 /\ p - 1 \in 1 .. i /\ q - 1 \in 1 .. i /\ p - 1 < q - 1
      BY <1>3, <1>9, <2>5
    <3> QED BY <1>1, <1>5, <3>1
  <2> QED BY <1>3, <2>1, <2>2, <2>3, <2>4, <2>5
<1>10. ASSUME NEW p \in 1 .. i + 1 PROVE \E k \in 1 .. i + 1 : c[p] = a[k]
  <2>1. CASE p = j
    BY <1>2, <1>5, <2>1
  <2>2. CASE p < j
    <3>1. p \in 1 .. j - 1 /\ p \in 1 .. i
      BY <1>3, <2>2
    <3>2. PICK k \in 1 .. i : b[p] = a[k]
      BY <1>1, <3>1
    <3> QED BY <1>5, <3>1, <3>2
  <2>3. CASE j < p
    <3>1. p \in j + 1 .. i + 1 /\ p - 1 \in 1 .. i
      BY <1>3, <2>3
    <3>2. PICK k \in 1 .. i : b[p - 1] = a[k]
      BY <1>1, <3>1
    <3> QED BY <1>5, <3>1, <3>2
  <2> QED BY <1>3, <2>1, <2>2, <2>3
<1>11. ASSUME NEW k \in 1 .. i + 1 PROVE \E p \in 1 .. i + 1 : c[p] = a[k]
  <2>1. CASE k = i + 1
    BY <1>2, <1>3, <1>5, <2>1
  <2>2. CASE k # i + 1
    <3>1. PICK p \in 1 .. i : b[p] = a[k]
      BY <1>1, <2>2
    <3>2. CASE p < j
      <4>1. p \in 1 .. j - 1 /\ p \in 1 .. i + 1
        BY <1>3, <3>2
      <4> QED BY <1>5, <3>1, <4>1
    <3>3. CASE ~(p < j)
      <4>1. p + 1 \in j + 1 .. i + 1 /\ p + 1 \in 1 .. i + 1 /\ (p + 1) - 1 = p
        BY <1>3, <3>3
      <4>2. c[p + 1] = b[p]
        BY <1>5, <4>1
      <4> QED BY <3>1, <4>1, <4>2
    <3> QED BY <3>2, <3>3
  <2> QED BY <2>1, <2>2
<1>12. ASSUME NEW k \in (i + 1) + 1 .. n PROVE c[k] = a[k]
  <2>1. k \in i + 2 .. n /\ k \in i + 1 .. n
    OBVIOUS
  <2> QED BY <1>1, <1>5, <2>1
<1> QED BY <1>4, <1>9, <1>10, <1>11, <1>12 DEF SortedUpTo, c

(* The sorted array, its items and their order. *)
LEMMA SortFacts ==
  ASSUME NEW n \in Nat, NEW a \in [1 .. n -> Item], \A k \in 1 .. n : a[k].tag = k
  PROVE  SortedUpTo(a, qsort(a), n, n) /\ Len(a) = n
<1> DEFINE V == [1 .. n -> Item]
           D == 0 .. n
           step == [i \in D |-> [v \in V |-> IF i <= 1 THEN a ELSE Inserted(v, i)]]
           Solved(f) == f = [i \in D |-> IF i <= 1 THEN a ELSE Inserted(f[i - 1], i)]
           s == SortRounds(a)
<1>1. Len(a) = n
  <2>1. a \in Seq(Item)
    BY SeqDef
  <2>2. Len(a) \in Nat /\ 1 .. Len(a) = 1 .. n
    BY <2>1, LenProperties
  <2> QED BY <2>2
<1>2. step \in [D -> [V -> V]]
  <2>1. ASSUME NEW i \in D, NEW v \in V PROVE (IF i <= 1 THEN a ELSE Inserted(v, i)) \in V
    <3>1. CASE i <= 1
      BY <3>1
    <3>2. CASE ~(i <= 1)
      <4>1. i \in 1 .. n
        BY <3>2
      <4>2. Inserted(v, i) \in V
        BY <4>1, InsertedFacts
      <4> QED BY <3>2, <4>2
    <3> QED BY <3>1, <3>2
  <2> HIDE DEF V
  <2> QED BY <2>1
<1>3. PICK f : Loops(f, 0, n, V, a, step)
  <2>1. 0 \in Int /\ n \in Int /\ 0 <= n /\ a \in V
    OBVIOUS
  <2> HIDE DEF step, V
  <2> QED BY ONLY <1>2, <2>1, Rounds
<1> HIDE DEF V
<1>4. ASSUME NEW i \in D
      PROVE  f[i] = IF i <= 1 THEN a ELSE Inserted(f[i - 1], i)
  <2>1. CASE i = 0
    BY <1>3, <2>1 DEF Loops
  <2>2. CASE i # 0
    <3>1. i - 1 \in D
      BY <2>2
    <3>2. f[i - 1] \in V
      BY <1>3, <3>1 DEF Loops
    <3>3. f[i] = step[i][f[i - 1]]
      BY <1>3, <2>2 DEF Loops
    <3> QED BY <2>2, <3>2, <3>3
  <2> QED BY <2>1, <2>2
<1>5. Solved(f)
  <2>1. f = [i \in D |-> f[i]]
    BY <1>3 DEF Loops
  <2> QED BY <1>4, <2>1
<1>6. s = CHOOSE g : Solved(g)
  BY <1>1 DEF SortRounds
<1>7. Solved(s)
  <2> HIDE DEF Solved, s
  <2> QED BY <1>5, <1>6
<1> HIDE DEF s
<1>8. ASSUME NEW i \in D PROVE s[i] = IF i <= 1 THEN a ELSE Inserted(s[i - 1], i)
  BY <1>7
<1>9. SortedUpTo(a, a, n, 0)
  BY DEF SortedUpTo
<1>10. ASSUME n >= 1 PROVE SortedUpTo(a, a, n, 1)
  BY <1>10 DEF SortedUpTo
<1>11. CASE n = 0
  <2>1. s[0] = a
    BY <1>8
  <2> QED BY <1>1, <1>9, <1>11, <2>1 DEF qsort, s
<1>12. CASE n # 0
  <2> DEFINE T == {i \in 1 .. n : SortedUpTo(a, s[i], n, i)}
  <2>1. 1 \in T
    <3>1. s[1] = a /\ n >= 1
      BY <1>8, <1>12
    <3> QED BY <1>10, <3>1
  <2>2. ASSUME NEW i \in 1 .. n - 1, i \in T PROVE i + 1 \in T
    <3>1. i + 1 \in D /\ ~(i + 1 <= 1) /\ (i + 1) - 1 = i /\ i + 1 \in 1 .. n
      OBVIOUS
    <3>2. s[i + 1] = Inserted(s[i], i + 1)
      BY <1>8, <3>1
    <3>3. SortedUpTo(a, s[i], n, i)
      BY <2>2
    <3>4. SortedUpTo(a, Inserted(s[i], i + 1), n, i + 1)
      BY <3>3, SortRound
    <3> QED BY <3>1, <3>2, <3>4
  <2>3. n \in T
    <3>1. 1 \in Int /\ n \in Int /\ n \in 1 .. n
      BY <1>12
    <3> HIDE DEF T
    <3>2. 1 .. n \subseteq T
      BY <2>1, <2>2, <3>1, Upward
    <3> QED BY <3>1, <3>2
  <2> QED BY <1>1, <2>3 DEF qsort, s
<1> QED BY <1>11, <1>12


-----------------------------------------------------------------------------
(* Dates *)

(* A time of day. *)
LEMMA ClockFacts ==
  ASSUME NEW secs \in Int
  PROVE  LET t == Clock(secs)
         IN  /\ t.days * DAY + t.hour * 3600 + t.min * 60 + t.sec = secs
             /\ t.hour \in 0 .. 23 /\ t.min \in 0 .. 59 /\ t.sec \in 0 .. 59
<1> DEFINE q == Quot(secs, DAY)
           rem == secs - DAY * q
           r == IF rem < 0 THEN rem + DAY ELSE rem
           d == IF rem < 0 THEN q - 1 ELSE q
<1>0. DAY = 86400
  BY DEF DAY
<1>1. q \in Int /\ rem \in Int /\ rem < DAY /\ -DAY < rem /\ secs = DAY * q + rem
  BY <1>0, SMT DEF Quot
<1> HIDE DEF q, rem
<1>2. d \in Int /\ r \in Nat /\ r < DAY /\ secs = DAY * d + r
  BY <1>0, <1>1, SMT
<1>3. Clock(secs) = [days |-> d, hour |-> r \div 3600, min |-> (r % 3600) \div 60, sec |-> r % 60]
  BY DEF Clock, q, rem
<1> HIDE DEF r, d
<1> DEFINE h == r \div 3600
           x == r % 3600
           m == x \div 60
           s == r % 60
<1>4. h \in Nat /\ x \in Nat /\ x < 3600 /\ r = 3600 * h + x /\ h <= 23
  BY <1>0, <1>2, SMT
<1>5. m \in Nat /\ s \in 0 .. 59 /\ x = 60 * m + s /\ m <= 59
  BY <1>2, <1>4, SMT
<1> HIDE DEF h, x, m, s
<1>6. d * DAY + h * 3600 + m * 60 + s = secs /\ h \in 0 .. 23 /\ m \in 0 .. 59
  BY <1>0, <1>2, <1>4, <1>5, SMT
<1> QED BY <1>3, <1>5, <1>6 DEF h, x, m, s

(* There is a quotient and a remainder. *)
HasQuotient(a, n) == \E q \in Nat, r \in Nat : a = n * q + r /\ r < n

LEMMA SomeQuotient ==
  ASSUME NEW a \in Nat, NEW n \in Nat \ {0}
  PROVE  HasQuotient(a, n)
<1>1. a \div n \in Nat /\ a % n \in 0 .. n - 1 /\ a = n * (a \div n) + (a % n)
  BY DivFacts
<1> DEFINE q == a \div n
           r == a % n
<1> HIDE DEF q, r
<1>2. q \in Nat /\ r \in Nat /\ a = n * q + r /\ r < n
  BY <1>1 DEF q, r
<1> QED BY <1>2 DEF HasQuotient

(* Day doy of a year that begins in March: of century c of four, of group  *)
(* g of four years in it, of year k in that.  Only leap years have day 365. *)
LeapAt(c, g, k) == k = 3 /\ (g < 24 \/ c = 3)
YearDay(c, g, k, doy) ==
  /\ c \in 0 .. 3 /\ g \in 0 .. 24 /\ k \in 0 .. 3 /\ doy \in 0 .. 365
  /\ doy = 365 => LeapAt(c, g, k)

DoeAt(doe, c, g, k, doy) == YearDay(c, g, k, doy) /\ doe = 36524 * c + 1461 * g + 365 * k + doy

LEMMA YearFacts ==
  ASSUME NEW c, NEW g, NEW k, NEW doy, NEW doe, DoeAt(doe, c, g, k, doy)
  PROVE  /\ doe >= 0 /\ doe <= 146096 /\ Yoe(doe) = 100 * c + 4 * g + k
         /\ 365 * Yoe(doe) + Yoe(doe) \div 4 - Yoe(doe) \div 100 = doe - doy
<1>1. /\ c \in 0 .. 3 /\ g \in 0 .. 24 /\ k \in 0 .. 3 /\ doy \in 0 .. 365
      /\ (doy = 365 => k = 3 /\ (g < 24 \/ c = 3))
      /\ doe = 36524 * c + 1461 * g + 365 * k + doy
  BY DEF DoeAt, YearDay, LeapAt
<1>2. doe >= 0 /\ doe <= 146096
  BY <1>1
<1> DEFINE w == 365 * k + doy
           e == (24 * c + g + w) \div 1460
<1>3. w \in Nat /\ w <= 1460 /\ e \in 0 .. 1
  BY <1>1
<1>4. Yoe(doe) = 100 * c + 4 * g + k
  <2>1. doe \div 1460 = 25 * c + g + e
    BY <1>1, <1>2
  <2>2. CASE doe = 146096
    <3>1. Yoe(146096) = 399
      BY DEF Yoe
    <3>2. c = 3 /\ g = 24 /\ k = 3
      BY <1>1, <2>2
    <3> QED BY <2>2, <3>1, <3>2
  <2>3. CASE doe # 146096
    <3>1. doe \div 146096 = 0 /\ doe \div 36524 = c
      BY <1>1, <1>2, <2>3
    <3>2. Yoe(doe) = (365 * (100 * c + 4 * g) + (w - e)) \div 365
      <4>1. doe - (25 * c + g + e) + c - 0 = 365 * (100 * c + 4 * g) + (w - e)
        BY <1>1, <1>3
      <4>2. Yoe(doe) = (doe - doe \div 1460 + doe \div 36524 - doe \div 146096) \div 365
        BY DEF Yoe
      <4> HIDE DEF e, w
      <4>3. doe - doe \div 1460 + doe \div 36524 - doe \div 146096 = 365 * (100 * c + 4 * g) + (w - e)
        BY <1>1, <1>2, <1>3, <2>1, <3>1, <4>1
      <4> QED BY <4>2, <4>3
    <3>3. w - e - 365 * k >= 0 /\ w - e - 365 * k <= 364
      BY <1>1, <1>3
    <3> HIDE DEF e, w
    <3>4. 365 * (100 * c + 4 * g) + (w - e) = 365 * (100 * c + 4 * g + k) + (w - e - 365 * k)
      BY <1>1, <1>3
    <3>5. QuotRem(365 * (100 * c + 4 * g) + (w - e), 365, 100 * c + 4 * g + k, w - e - 365 * k)
      BY <1>1, <1>3, <3>3, <3>4 DEF QuotRem
    <3> QED BY <3>2, <3>5, EuclidBy
  <2> QED BY <2>2, <2>3
<1>5. (100 * c + 4 * g + k) \div 4 = 25 * c + g /\ (100 * c + 4 * g + k) \div 100 = c
  BY <1>1
<1> DEFINE y == 100 * c + 4 * g + k
<1>6. 365 * y + y \div 4 - y \div 100 = doe - doy
  BY <1>1, <1>5
<1> HIDE DEF y
<1>7. Yoe(doe) = y
  BY <1>4 DEF y
<1>8. 365 * Yoe(doe) + Yoe(doe) \div 4 - Yoe(doe) \div 100 = doe - doy
  BY <1>6, <1>7
<1> QED BY <1>2, <1>4, <1>8

(* Every day of the 400 years is one of these. *)
LEMMA YearOf ==
  ASSUME NEW doe \in Nat, doe <= 146096
  PROVE  \E c, g, k, doy : DoeAt(doe, c, g, k, doy)
<1>1. PICK c \in 0 .. 3, x \in Nat : doe = 36524 * c + x /\ x <= 36524 /\ (x = 36524 => c = 3)
  <2>1. CASE doe = 146096
    <3>1. doe = 36524 * 3 + 36524
      BY <2>1
    <3> QED BY <3>1
  <2>2. CASE doe # 146096
    <3>1. PICK q \in Nat, r \in Nat : doe = 36524 * q + r /\ r < 36524
      <4>1. HasQuotient(doe, 36524)
        BY SomeQuotient
      <4> QED BY <4>1 DEF HasQuotient
    <3>2. q <= 3
      BY <2>2, <3>1
    <3> QED BY <3>1, <3>2
  <2> QED BY <2>1, <2>2
<1>2. PICK g \in 0 .. 24, w \in Nat : x = 1461 * g + w /\ w <= 1460
  <2>1. PICK q \in Nat, r \in Nat : x = 1461 * q + r /\ r < 1461
    <3>1. HasQuotient(x, 1461)
      BY <1>1, SomeQuotient
    <3> QED BY <3>1 DEF HasQuotient
  <2>2. q <= 24
    BY <1>1, <2>1
  <2> QED BY <2>1, <2>2
<1>3. PICK k \in 0 .. 3, doy \in 0 .. 365 : w = 365 * k + doy /\ (doy = 365 => k = 3)
  <2>1. CASE w = 1460
    <3>1. w = 365 * 3 + 365
      BY <2>1
    <3> QED BY <3>1
  <2>2. CASE w # 1460
    <3>1. PICK q \in Nat, r \in Nat : w = 365 * q + r /\ r < 365
      <4>1. HasQuotient(w, 365)
        BY <1>2, SomeQuotient
      <4> QED BY <4>1 DEF HasQuotient
    <3>2. q <= 3
      BY <1>2, <2>2, <3>1
    <3> QED BY <3>1, <3>2
  <2> QED BY <2>1, <2>2
<1>4. doy = 365 => LeapAt(c, g, k)
  BY <1>1, <1>2, <1>3 DEF LeapAt
<1>5. doe = 36524 * c + 1461 * g + 365 * k + doy
  BY <1>1, <1>2, <1>3
<1>6. YearDay(c, g, k, doy)
  BY <1>4 DEF YearDay
<1> QED BY <1>5, <1>6 DEF DoeAt

(* The leap years of the calendar. *)
LEMMA LeapFacts ==
  ASSUME NEW era \in Int, NEW c \in 0 .. 3, NEW g \in 0 .. 24, NEW k \in 0 .. 3
  PROVE  Leap(400 * era + 100 * c + 4 * g + k + 1) <=> LeapAt(c, g, k)
<1> DEFINE y == 400 * era + 100 * c + 4 * g + k + 1
<1>1. y % 4 = 0 <=> k = 3
  OBVIOUS
<1>2. k = 3 => (y % 100 = 0 <=> g = 24)
  OBVIOUS
<1>3. k = 3 /\ g = 24 => (y % 400 = 0 <=> c = 3)
  OBVIOUS
<1>4. y % 400 = 0 => y % 100 = 0
  OBVIOUS
<1>5. y % 400 = 0 => y % 4 = 0
  OBVIOUS
<1> HIDE DEF y
<1>6. Leap(y) <=> LeapAt(c, g, k)
  BY <1>1, <1>2, <1>3, <1>4, <1>5 DEF Leap, LeapAt
<1> QED BY <1>6 DEF y

(* The date of day doy of the year that begins in March of year y. *)
Civil(y, doy, wday) ==
  LET mp == (5 * doy + 2) \div 153
      m == IF mp < 10 THEN mp + 3 ELSE mp - 9
  IN  [year |-> y + (IF m <= 2 THEN 1 ELSE 0), month |-> m, day |-> doy - (153 * mp + 2) \div 5 + 1, wday |-> wday]

CivilDate(y, m, d, wday) == [year |-> y, month |-> m, day |-> d, wday |-> wday]

(* Month by month. *)
LEMMA CivilFacts ==
  ASSUME NEW y \in Int, NEW doy \in 0 .. 365, NEW wday
  PROVE  /\ doy \in 0 .. 30 => Civil(y, doy, wday) = CivilDate(y, 3, doy - 0 + 1, wday)
         /\ doy \in 31 .. 60 => Civil(y, doy, wday) = CivilDate(y, 4, doy - 31 + 1, wday)
         /\ doy \in 61 .. 91 => Civil(y, doy, wday) = CivilDate(y, 5, doy - 61 + 1, wday)
         /\ doy \in 92 .. 121 => Civil(y, doy, wday) = CivilDate(y, 6, doy - 92 + 1, wday)
         /\ doy \in 122 .. 152 => Civil(y, doy, wday) = CivilDate(y, 7, doy - 122 + 1, wday)
         /\ doy \in 153 .. 183 => Civil(y, doy, wday) = CivilDate(y, 8, doy - 153 + 1, wday)
         /\ doy \in 184 .. 213 => Civil(y, doy, wday) = CivilDate(y, 9, doy - 184 + 1, wday)
         /\ doy \in 214 .. 244 => Civil(y, doy, wday) = CivilDate(y, 10, doy - 214 + 1, wday)
         /\ doy \in 245 .. 274 => Civil(y, doy, wday) = CivilDate(y, 11, doy - 245 + 1, wday)
         /\ doy \in 275 .. 305 => Civil(y, doy, wday) = CivilDate(y, 12, doy - 275 + 1, wday)
         /\ doy \in 306 .. 336 => Civil(y, doy, wday) = CivilDate(y + 1, 1, doy - 306 + 1, wday)
         /\ doy \in 337 .. 365 => Civil(y, doy, wday) = CivilDate(y + 1, 2, doy - 337 + 1, wday)
<1> DEFINE mp == (5 * doy + 2) \div 153
<1>1. Civil(y, doy, wday) =
        LET m == IF mp < 10 THEN mp + 3 ELSE mp - 9
        IN  CivilDate(y + (IF m <= 2 THEN 1 ELSE 0), m, doy - (153 * mp + 2) \div 5 + 1, wday)
  BY DEF Civil, CivilDate
<1>2. ASSUME doy \in 0 .. 30 PROVE Civil(y, doy, wday) = CivilDate(y, 3, doy - 0 + 1, wday)
  <2>1. mp = 0 /\ (153 * 0 + 2) \div 5 = 0
    BY <1>2
  <2> HIDE DEF mp
  <2> QED BY <1>1, <2>1
<1>3. ASSUME doy \in 31 .. 60 PROVE Civil(y, doy, wday) = CivilDate(y, 4, doy - 31 + 1, wday)
  <2>1. mp = 1 /\ (153 * 1 + 2) \div 5 = 31
    BY <1>3
  <2> HIDE DEF mp
  <2> QED BY <1>1, <2>1
<1>4. ASSUME doy \in 61 .. 91 PROVE Civil(y, doy, wday) = CivilDate(y, 5, doy - 61 + 1, wday)
  <2>1. mp = 2 /\ (153 * 2 + 2) \div 5 = 61
    BY <1>4
  <2> HIDE DEF mp
  <2> QED BY <1>1, <2>1
<1>5. ASSUME doy \in 92 .. 121 PROVE Civil(y, doy, wday) = CivilDate(y, 6, doy - 92 + 1, wday)
  <2>1. mp = 3 /\ (153 * 3 + 2) \div 5 = 92
    BY <1>5
  <2> HIDE DEF mp
  <2> QED BY <1>1, <2>1
<1>6. ASSUME doy \in 122 .. 152 PROVE Civil(y, doy, wday) = CivilDate(y, 7, doy - 122 + 1, wday)
  <2>1. mp = 4 /\ (153 * 4 + 2) \div 5 = 122
    BY <1>6
  <2> HIDE DEF mp
  <2> QED BY <1>1, <2>1
<1>7. ASSUME doy \in 153 .. 183 PROVE Civil(y, doy, wday) = CivilDate(y, 8, doy - 153 + 1, wday)
  <2>1. mp = 5 /\ (153 * 5 + 2) \div 5 = 153
    BY <1>7
  <2> HIDE DEF mp
  <2> QED BY <1>1, <2>1
<1>8. ASSUME doy \in 184 .. 213 PROVE Civil(y, doy, wday) = CivilDate(y, 9, doy - 184 + 1, wday)
  <2>1. mp = 6 /\ (153 * 6 + 2) \div 5 = 184
    BY <1>8
  <2> HIDE DEF mp
  <2> QED BY <1>1, <2>1
<1>9. ASSUME doy \in 214 .. 244 PROVE Civil(y, doy, wday) = CivilDate(y, 10, doy - 214 + 1, wday)
  <2>1. mp = 7 /\ (153 * 7 + 2) \div 5 = 214
    BY <1>9
  <2> HIDE DEF mp
  <2> QED BY <1>1, <2>1
<1>10. ASSUME doy \in 245 .. 274 PROVE Civil(y, doy, wday) = CivilDate(y, 11, doy - 245 + 1, wday)
  <2>1. mp = 8 /\ (153 * 8 + 2) \div 5 = 245
    BY <1>10
  <2> HIDE DEF mp
  <2> QED BY <1>1, <2>1
<1>11. ASSUME doy \in 275 .. 305 PROVE Civil(y, doy, wday) = CivilDate(y, 12, doy - 275 + 1, wday)
  <2>1. mp = 9 /\ (153 * 9 + 2) \div 5 = 275
    BY <1>11
  <2> HIDE DEF mp
  <2> QED BY <1>1, <2>1
<1>12. ASSUME doy \in 306 .. 336 PROVE Civil(y, doy, wday) = CivilDate(y + 1, 1, doy - 306 + 1, wday)
  <2>1. mp = 10 /\ (153 * 10 + 2) \div 5 = 306
    BY <1>12
  <2> HIDE DEF mp
  <2> QED BY <1>1, <2>1
<1>13. ASSUME doy \in 337 .. 365 PROVE Civil(y, doy, wday) = CivilDate(y + 1, 2, doy - 337 + 1, wday)
  <2>1. mp = 11 /\ (153 * 11 + 2) \div 5 = 337
    BY <1>13
  <2> HIDE DEF mp
  <2> QED BY <1>1, <2>1
<1> QED BY <1>2, <1>3, <1>4, <1>5, <1>6, <1>7, <1>8, <1>9, <1>10, <1>11, <1>12, <1>13

(* A day that is not its month's last, and one that is. *)
LEMMA TomorrowFacts ==
  ASSUME NEW y \in Int, NEW m \in 1 .. 12, NEW d \in Int, NEW wday
  PROVE  /\ d < MonthLength(y, m) => Tomorrow(CivilDate(y, m, d, wday)) = CivilDate(y, m, d + 1, (wday + 1) % 7)
         /\ ~(d < MonthLength(y, m)) /\ m < 12 =>
              Tomorrow(CivilDate(y, m, d, wday)) = CivilDate(y, m + 1, 1, (wday + 1) % 7)
         /\ ~(d < MonthLength(y, m)) /\ m = 12 =>
              Tomorrow(CivilDate(y, m, d, wday)) = CivilDate(y + 1, 1, 1, (wday + 1) % 7)
<1> DEFINE t == CivilDate(y, m, d, wday)
<1>1. /\ t.year = y /\ t.month = m /\ t.day = d /\ t.wday = wday
      /\ t = [year |-> y, month |-> m, day |-> d, wday |-> wday]
  BY DEF CivilDate
<1> HIDE DEF t
<1>2. ASSUME d < MonthLength(y, m)
      PROVE  Tomorrow(t) = CivilDate(y, m, d + 1, (wday + 1) % 7)
  BY <1>1, <1>2 DEF Tomorrow, CivilDate
<1>3. ASSUME ~(d < MonthLength(y, m)), m < 12
      PROVE  Tomorrow(t) = CivilDate(y, m + 1, 1, (wday + 1) % 7)
  BY <1>1, <1>3 DEF Tomorrow, CivilDate
<1>4. ASSUME ~(d < MonthLength(y, m)), m = 12
      PROVE  Tomorrow(t) = CivilDate(y + 1, 1, 1, (wday + 1) % 7)
  BY <1>1, <1>4 DEF Tomorrow, CivilDate
<1> QED BY <1>2, <1>3, <1>4 DEF t

(* The next day of the same year. *)
LEMMA SameYear ==
  ASSUME NEW y \in Int, NEW doy \in 0 .. 364, NEW wday, doy = 364 => Leap(y + 1)
  PROVE  Tomorrow(Civil(y, doy, wday)) = Civil(y, doy + 1, (wday + 1) % 7)
<1> DEFINE v == (wday + 1) % 7
<1>0. doy \in 0 .. 365 /\ doy + 1 \in 0 .. 365
  OBVIOUS
<1>1. Civil(y, doy + 1, v) = Civil(y, doy + 1, (wday + 1) % 7)
  OBVIOUS
<1>2. CASE doy \in 0 .. 29
  <2>1. Civil(y, doy, wday) = CivilDate(y, 3, doy - 0 + 1, wday)
    BY <1>0, <1>2, CivilFacts
  <2>2. Civil(y, doy + 1, v) = CivilDate(y, 3, (doy + 1) - 0 + 1, v)
    BY <1>0, <1>2, CivilFacts
  <2>3. doy - 0 + 1 < MonthLength(y, 3)
    BY <1>2 DEF MonthLength
  <2>4. (doy + 1) - 0 + 1 = (doy - 0 + 1) + 1 /\ doy - 0 + 1 \in Int /\ y \in Int /\ 3 \in 1 .. 12
    OBVIOUS
  <2> QED BY <2>1, <2>2, <2>3, <2>4, TomorrowFacts
<1>3. CASE doy = 30
  <2>1. Civil(y, doy, wday) = CivilDate(y, 3, 31, wday)
    BY <1>0, <1>3, CivilFacts
  <2>2. Civil(y, doy + 1, v) = CivilDate(y, 4, 1, v)
    BY <1>0, <1>3, CivilFacts
  <2>3. ~(31 < MonthLength(y, 3))
    BY DEF MonthLength
  <2>4. 31 \in Int /\ y \in Int /\ 3 \in 1 .. 12
    OBVIOUS
  <2> QED BY <2>1, <2>2, <2>3, <2>4, TomorrowFacts
<1>4. CASE doy \in 31 .. 59
  <2>1. Civil(y, doy, wday) = CivilDate(y, 4, doy - 31 + 1, wday)
    BY <1>0, <1>4, CivilFacts
  <2>2. Civil(y, doy + 1, v) = CivilDate(y, 4, (doy + 1) - 31 + 1, v)
    BY <1>0, <1>4, CivilFacts
  <2>3. doy - 31 + 1 < MonthLength(y, 4)
    BY <1>4 DEF MonthLength
  <2>4. (doy + 1) - 31 + 1 = (doy - 31 + 1) + 1 /\ doy - 31 + 1 \in Int /\ y \in Int /\ 4 \in 1 .. 12
    OBVIOUS
  <2> QED BY <2>1, <2>2, <2>3, <2>4, TomorrowFacts
<1>5. CASE doy = 60
  <2>1. Civil(y, doy, wday) = CivilDate(y, 4, 30, wday)
    BY <1>0, <1>5, CivilFacts
  <2>2. Civil(y, doy + 1, v) = CivilDate(y, 5, 1, v)
    BY <1>0, <1>5, CivilFacts
  <2>3. ~(30 < MonthLength(y, 4))
    BY DEF MonthLength
  <2>4. 30 \in Int /\ y \in Int /\ 4 \in 1 .. 12
    OBVIOUS
  <2> QED BY <2>1, <2>2, <2>3, <2>4, TomorrowFacts
<1>6. CASE doy \in 61 .. 90
  <2>1. Civil(y, doy, wday) = CivilDate(y, 5, doy - 61 + 1, wday)
    BY <1>0, <1>6, CivilFacts
  <2>2. Civil(y, doy + 1, v) = CivilDate(y, 5, (doy + 1) - 61 + 1, v)
    BY <1>0, <1>6, CivilFacts
  <2>3. doy - 61 + 1 < MonthLength(y, 5)
    BY <1>6 DEF MonthLength
  <2>4. (doy + 1) - 61 + 1 = (doy - 61 + 1) + 1 /\ doy - 61 + 1 \in Int /\ y \in Int /\ 5 \in 1 .. 12
    OBVIOUS
  <2> QED BY <2>1, <2>2, <2>3, <2>4, TomorrowFacts
<1>7. CASE doy = 91
  <2>1. Civil(y, doy, wday) = CivilDate(y, 5, 31, wday)
    BY <1>0, <1>7, CivilFacts
  <2>2. Civil(y, doy + 1, v) = CivilDate(y, 6, 1, v)
    BY <1>0, <1>7, CivilFacts
  <2>3. ~(31 < MonthLength(y, 5))
    BY DEF MonthLength
  <2>4. 31 \in Int /\ y \in Int /\ 5 \in 1 .. 12
    OBVIOUS
  <2> QED BY <2>1, <2>2, <2>3, <2>4, TomorrowFacts
<1>8. CASE doy \in 92 .. 120
  <2>1. Civil(y, doy, wday) = CivilDate(y, 6, doy - 92 + 1, wday)
    BY <1>0, <1>8, CivilFacts
  <2>2. Civil(y, doy + 1, v) = CivilDate(y, 6, (doy + 1) - 92 + 1, v)
    BY <1>0, <1>8, CivilFacts
  <2>3. doy - 92 + 1 < MonthLength(y, 6)
    BY <1>8 DEF MonthLength
  <2>4. (doy + 1) - 92 + 1 = (doy - 92 + 1) + 1 /\ doy - 92 + 1 \in Int /\ y \in Int /\ 6 \in 1 .. 12
    OBVIOUS
  <2> QED BY <2>1, <2>2, <2>3, <2>4, TomorrowFacts
<1>9. CASE doy = 121
  <2>1. Civil(y, doy, wday) = CivilDate(y, 6, 30, wday)
    BY <1>0, <1>9, CivilFacts
  <2>2. Civil(y, doy + 1, v) = CivilDate(y, 7, 1, v)
    BY <1>0, <1>9, CivilFacts
  <2>3. ~(30 < MonthLength(y, 6))
    BY DEF MonthLength
  <2>4. 30 \in Int /\ y \in Int /\ 6 \in 1 .. 12
    OBVIOUS
  <2> QED BY <2>1, <2>2, <2>3, <2>4, TomorrowFacts
<1>10. CASE doy \in 122 .. 151
  <2>1. Civil(y, doy, wday) = CivilDate(y, 7, doy - 122 + 1, wday)
    BY <1>0, <1>10, CivilFacts
  <2>2. Civil(y, doy + 1, v) = CivilDate(y, 7, (doy + 1) - 122 + 1, v)
    BY <1>0, <1>10, CivilFacts
  <2>3. doy - 122 + 1 < MonthLength(y, 7)
    BY <1>10 DEF MonthLength
  <2>4. (doy + 1) - 122 + 1 = (doy - 122 + 1) + 1 /\ doy - 122 + 1 \in Int /\ y \in Int /\ 7 \in 1 .. 12
    OBVIOUS
  <2> QED BY <2>1, <2>2, <2>3, <2>4, TomorrowFacts
<1>11. CASE doy = 152
  <2>1. Civil(y, doy, wday) = CivilDate(y, 7, 31, wday)
    BY <1>0, <1>11, CivilFacts
  <2>2. Civil(y, doy + 1, v) = CivilDate(y, 8, 1, v)
    BY <1>0, <1>11, CivilFacts
  <2>3. ~(31 < MonthLength(y, 7))
    BY DEF MonthLength
  <2>4. 31 \in Int /\ y \in Int /\ 7 \in 1 .. 12
    OBVIOUS
  <2> QED BY <2>1, <2>2, <2>3, <2>4, TomorrowFacts
<1>12. CASE doy \in 153 .. 182
  <2>1. Civil(y, doy, wday) = CivilDate(y, 8, doy - 153 + 1, wday)
    BY <1>0, <1>12, CivilFacts
  <2>2. Civil(y, doy + 1, v) = CivilDate(y, 8, (doy + 1) - 153 + 1, v)
    BY <1>0, <1>12, CivilFacts
  <2>3. doy - 153 + 1 < MonthLength(y, 8)
    BY <1>12 DEF MonthLength
  <2>4. (doy + 1) - 153 + 1 = (doy - 153 + 1) + 1 /\ doy - 153 + 1 \in Int /\ y \in Int /\ 8 \in 1 .. 12
    OBVIOUS
  <2> QED BY <2>1, <2>2, <2>3, <2>4, TomorrowFacts
<1>13. CASE doy = 183
  <2>1. Civil(y, doy, wday) = CivilDate(y, 8, 31, wday)
    BY <1>0, <1>13, CivilFacts
  <2>2. Civil(y, doy + 1, v) = CivilDate(y, 9, 1, v)
    BY <1>0, <1>13, CivilFacts
  <2>3. ~(31 < MonthLength(y, 8))
    BY DEF MonthLength
  <2>4. 31 \in Int /\ y \in Int /\ 8 \in 1 .. 12
    OBVIOUS
  <2> QED BY <2>1, <2>2, <2>3, <2>4, TomorrowFacts
<1>14. CASE doy \in 184 .. 212
  <2>1. Civil(y, doy, wday) = CivilDate(y, 9, doy - 184 + 1, wday)
    BY <1>0, <1>14, CivilFacts
  <2>2. Civil(y, doy + 1, v) = CivilDate(y, 9, (doy + 1) - 184 + 1, v)
    BY <1>0, <1>14, CivilFacts
  <2>3. doy - 184 + 1 < MonthLength(y, 9)
    BY <1>14 DEF MonthLength
  <2>4. (doy + 1) - 184 + 1 = (doy - 184 + 1) + 1 /\ doy - 184 + 1 \in Int /\ y \in Int /\ 9 \in 1 .. 12
    OBVIOUS
  <2> QED BY <2>1, <2>2, <2>3, <2>4, TomorrowFacts
<1>15. CASE doy = 213
  <2>1. Civil(y, doy, wday) = CivilDate(y, 9, 30, wday)
    BY <1>0, <1>15, CivilFacts
  <2>2. Civil(y, doy + 1, v) = CivilDate(y, 10, 1, v)
    BY <1>0, <1>15, CivilFacts
  <2>3. ~(30 < MonthLength(y, 9))
    BY DEF MonthLength
  <2>4. 30 \in Int /\ y \in Int /\ 9 \in 1 .. 12
    OBVIOUS
  <2> QED BY <2>1, <2>2, <2>3, <2>4, TomorrowFacts
<1>16. CASE doy \in 214 .. 243
  <2>1. Civil(y, doy, wday) = CivilDate(y, 10, doy - 214 + 1, wday)
    BY <1>0, <1>16, CivilFacts
  <2>2. Civil(y, doy + 1, v) = CivilDate(y, 10, (doy + 1) - 214 + 1, v)
    BY <1>0, <1>16, CivilFacts
  <2>3. doy - 214 + 1 < MonthLength(y, 10)
    BY <1>16 DEF MonthLength
  <2>4. (doy + 1) - 214 + 1 = (doy - 214 + 1) + 1 /\ doy - 214 + 1 \in Int /\ y \in Int /\ 10 \in 1 .. 12
    OBVIOUS
  <2> QED BY <2>1, <2>2, <2>3, <2>4, TomorrowFacts
<1>17. CASE doy = 244
  <2>1. Civil(y, doy, wday) = CivilDate(y, 10, 31, wday)
    BY <1>0, <1>17, CivilFacts
  <2>2. Civil(y, doy + 1, v) = CivilDate(y, 11, 1, v)
    BY <1>0, <1>17, CivilFacts
  <2>3. ~(31 < MonthLength(y, 10))
    BY DEF MonthLength
  <2>4. 31 \in Int /\ y \in Int /\ 10 \in 1 .. 12
    OBVIOUS
  <2> QED BY <2>1, <2>2, <2>3, <2>4, TomorrowFacts
<1>18. CASE doy \in 245 .. 273
  <2>1. Civil(y, doy, wday) = CivilDate(y, 11, doy - 245 + 1, wday)
    BY <1>0, <1>18, CivilFacts
  <2>2. Civil(y, doy + 1, v) = CivilDate(y, 11, (doy + 1) - 245 + 1, v)
    BY <1>0, <1>18, CivilFacts
  <2>3. doy - 245 + 1 < MonthLength(y, 11)
    BY <1>18 DEF MonthLength
  <2>4. (doy + 1) - 245 + 1 = (doy - 245 + 1) + 1 /\ doy - 245 + 1 \in Int /\ y \in Int /\ 11 \in 1 .. 12
    OBVIOUS
  <2> QED BY <2>1, <2>2, <2>3, <2>4, TomorrowFacts
<1>19. CASE doy = 274
  <2>1. Civil(y, doy, wday) = CivilDate(y, 11, 30, wday)
    BY <1>0, <1>19, CivilFacts
  <2>2. Civil(y, doy + 1, v) = CivilDate(y, 12, 1, v)
    BY <1>0, <1>19, CivilFacts
  <2>3. ~(30 < MonthLength(y, 11))
    BY DEF MonthLength
  <2>4. 30 \in Int /\ y \in Int /\ 11 \in 1 .. 12
    OBVIOUS
  <2> QED BY <2>1, <2>2, <2>3, <2>4, TomorrowFacts
<1>20. CASE doy \in 275 .. 304
  <2>1. Civil(y, doy, wday) = CivilDate(y, 12, doy - 275 + 1, wday)
    BY <1>0, <1>20, CivilFacts
  <2>2. Civil(y, doy + 1, v) = CivilDate(y, 12, (doy + 1) - 275 + 1, v)
    BY <1>0, <1>20, CivilFacts
  <2>3. doy - 275 + 1 < MonthLength(y, 12)
    BY <1>20 DEF MonthLength
  <2>4. (doy + 1) - 275 + 1 = (doy - 275 + 1) + 1 /\ doy - 275 + 1 \in Int /\ y \in Int /\ 12 \in 1 .. 12
    OBVIOUS
  <2> QED BY <2>1, <2>2, <2>3, <2>4, TomorrowFacts
<1>21. CASE doy = 305
  <2>1. Civil(y, doy, wday) = CivilDate(y, 12, 31, wday)
    BY <1>0, <1>21, CivilFacts
  <2>2. Civil(y, doy + 1, v) = CivilDate(y + 1, 1, 1, v)
    BY <1>0, <1>21, CivilFacts
  <2>3. ~(31 < MonthLength(y, 12))
    BY DEF MonthLength
  <2>4. 31 \in Int /\ y \in Int /\ 12 \in 1 .. 12
    OBVIOUS
  <2> QED BY <2>1, <2>2, <2>3, <2>4, TomorrowFacts
<1>22. CASE doy \in 306 .. 335
  <2>1. Civil(y, doy, wday) = CivilDate(y + 1, 1, doy - 306 + 1, wday)
    BY <1>0, <1>22, CivilFacts
  <2>2. Civil(y, doy + 1, v) = CivilDate(y + 1, 1, (doy + 1) - 306 + 1, v)
    BY <1>0, <1>22, CivilFacts
  <2>3. doy - 306 + 1 < MonthLength(y + 1, 1)
    BY <1>22 DEF MonthLength
  <2>4. (doy + 1) - 306 + 1 = (doy - 306 + 1) + 1 /\ doy - 306 + 1 \in Int /\ y + 1 \in Int /\ 1 \in 1 .. 12
    OBVIOUS
  <2> QED BY <2>1, <2>2, <2>3, <2>4, TomorrowFacts
<1>23. CASE doy = 336
  <2>1. Civil(y, doy, wday) = CivilDate(y + 1, 1, 31, wday)
    BY <1>0, <1>23, CivilFacts
  <2>2. Civil(y, doy + 1, v) = CivilDate(y + 1, 2, 1, v)
    BY <1>0, <1>23, CivilFacts
  <2>3. ~(31 < MonthLength(y + 1, 1))
    BY DEF MonthLength
  <2>4. 31 \in Int /\ y + 1 \in Int /\ 1 \in 1 .. 12
    OBVIOUS
  <2> QED BY <2>1, <2>2, <2>3, <2>4, TomorrowFacts
<1>24. CASE doy \in 337 .. 364
  <2>1. Civil(y, doy, wday) = CivilDate(y + 1, 2, doy - 337 + 1, wday)
    BY <1>0, <1>24, CivilFacts
  <2>2. Civil(y, doy + 1, v) = CivilDate(y + 1, 2, (doy + 1) - 337 + 1, v)
    BY <1>0, <1>24, CivilFacts
  <2>3. doy - 337 + 1 < MonthLength(y + 1, 2)
    BY <1>24 DEF MonthLength
  <2>4. (doy + 1) - 337 + 1 = (doy - 337 + 1) + 1 /\ doy - 337 + 1 \in Int /\ y + 1 \in Int /\ 2 \in 1 .. 12
    OBVIOUS
  <2> QED BY <2>1, <2>2, <2>3, <2>4, TomorrowFacts
<1> QED BY <1>2, <1>3, <1>4, <1>5, <1>6, <1>7, <1>8, <1>9, <1>10, <1>11, <1>12, <1>13, <1>14, <1>15, <1>16, <1>17, <1>18, <1>19, <1>20, <1>21, <1>22, <1>23, <1>24

(* What localtime computes of a day. *)
DayAt(day, era, c, g, k, doy) ==
  /\ day \in Int /\ era \in Int /\ YearDay(c, g, k, doy)
  /\ day + 719468 = 146097 * era + (36524 * c + 1461 * g + 365 * k + doy)

LEMMA LocaltimeFacts ==
  ASSUME NEW day, NEW era, NEW c, NEW g, NEW k, NEW doy, DayAt(day, era, c, g, k, doy)
  PROVE  localtime(day) = Civil(400 * era + 100 * c + 4 * g + k, doy, (day + 4) % 7)
<1> DEFINE z == day + 719468
           doe == 36524 * c + 1461 * g + 365 * k + doy
           n == 146097
           yoe == 100 * c + 4 * g + k
           v == (day + 4) - 7 * Quot(day + 4, 7)
           wday == IF v < 0 THEN v + 7 ELSE v
           mp == (5 * doy + 2) \div 153
           m == IF mp < 10 THEN mp + 3 ELSE mp - 9
<1>0. /\ day \in Int /\ era \in Int /\ YearDay(c, g, k, doy)
      /\ c \in 0 .. 3 /\ g \in 0 .. 24 /\ k \in 0 .. 3 /\ doy \in 0 .. 365
      /\ z = n * era + doe
  BY DEF DayAt, YearDay
<1>1. doe \in Int /\ z \in Int /\ z = n * era + doe /\ n \in Nat \ {0}
  BY <1>0
<1>2. doe >= 0 /\ doe < n /\ Yoe(doe) = yoe /\ 365 * yoe + yoe \div 4 - yoe \div 100 = doe - doy
  <2>1. doe >= 0 /\ doe <= 146096 /\ Yoe(doe) = yoe
        /\ 365 * Yoe(doe) + Yoe(doe) \div 4 - Yoe(doe) \div 100 = doe - doy
    <3>1. DoeAt(doe, c, g, k, doy)
      BY <1>0 DEF DoeAt
    <3> HIDE DEF doe
    <3> QED BY <3>1, YearFacts
  <2> HIDE DEF doe, yoe
  <2> QED BY <1>1, <2>1, SMT
<1> HIDE DEF doe, z, yoe
<1>3. Era(z) = era
  <2>1. CASE z >= 0
    <3>1. Era(z) = z \div n
      BY <1>1, <2>1 DEF Era, Quot
    <3> HIDE DEF n
    <3>2. QuotRem(z, n, era, doe)
      BY <1>0, <1>1, <1>2 DEF QuotRem
    <3> QED BY <3>1, <3>2, EuclidBy
  <2>2. CASE ~(z >= 0)
    <3>1. z - 146096 < 0 /\ -(z - 146096) = n * (-era) + (146096 - doe)
      BY <1>0, <1>1, <2>2, SMT
    <3>2. Era(z) = -((-(z - 146096)) \div n)
      BY <1>1, <2>2, <3>1, SMT DEF Era, Quot
    <3> DEFINE a == -(z - 146096)
               r == 146096 - doe
    <3>3. a \in Int /\ r \in Int /\ r >= 0 /\ r < n /\ a = n * (-era) + r
      BY <1>1, <1>2, <3>1, SMT
    <3> HIDE DEF a, r, n
    <3>4. QuotRem(a, n, -era, r)
      BY <1>0, <1>1, <3>3 DEF QuotRem
    <3>5. a \div n = -era
      BY <3>4, EuclidBy
    <3>6. Era(z) = -(-era)
      BY <3>2, <3>5 DEF a, n
    <3> QED BY <1>0, <3>6
  <2> QED BY <2>1, <2>2
<1>4. z - Era(z) * 146097 = doe
  BY <1>0, <1>1, <1>3, SMT
<1>5. doe - (365 * yoe + yoe \div 4 - yoe \div 100) = doy
  <2> DEFINE x == 365 * yoe + yoe \div 4 - yoe \div 100
  <2>1. x = doe - doy
    BY <1>2
  <2> HIDE DEF x
  <2>2. doe - x = doy
    BY <1>0, <1>1, <2>1, SMT
  <2> QED BY <2>2 DEF x
<1>6. wday = (day + 4) % 7
  BY <1>0, SMT DEF Quot
<1> HIDE DEF wday
<1>7. localtime(day) =
        [year |-> yoe + era * 400 + (IF m <= 2 THEN 1 ELSE 0), month |-> m,
         day |-> doy - (153 * mp + 2) \div 5 + 1, wday |-> wday]
  <2> DEFINE doy2(x, y) == x - (365 * y + y \div 4 - y \div 100)
             mp2(d) == (5 * d + 2) \div 153
             m2(p) == IF p < 10 THEN p + 3 ELSE p - 9
             date(e, y, d) == [year |-> y + e * 400 + (IF m2(mp2(d)) <= 2 THEN 1 ELSE 0), month |-> m2(mp2(d)),
                               day |-> d - (153 * mp2(d) + 2) \div 5 + 1, wday |-> wday]
  <2>1. localtime(day) = date(Era(z), Yoe(z - Era(z) * 146097), doy2(z - Era(z) * 146097, Yoe(z - Era(z) * 146097)))
    BY SMT DEF localtime, z, wday, v
  <2>2. doy2(doe, yoe) = doy
    BY <1>5
  <2> HIDE DEF doy2
  <2>3. localtime(day) = date(era, yoe, doy)
    <3> HIDE DEF date
    <3> QED BY <1>2, <1>3, <1>4, <2>1, <2>2, SMT
  <2> QED BY <2>3
<1>8. yoe + era * 400 + (IF m <= 2 THEN 1 ELSE 0) = (400 * era + 100 * c + 4 * g + k) + (IF m <= 2 THEN 1 ELSE 0)
  <2> DEFINE f == IF m <= 2 THEN 1 ELSE 0
  <2>1. f \in Int
    BY <1>0
  <2> HIDE DEF f
  <2>2. yoe + era * 400 + f = (400 * era + 100 * c + 4 * g + k) + f
    BY <1>0, <2>1, SMT DEF yoe
  <2> QED BY <2>2, SMT DEF f
<1> HIDE DEF mp, m
<1> DEFINE Y == 400 * era + 100 * c + 4 * g + k
<1>9. Civil(Y, doy, wday) =
        [year |-> Y + (IF m <= 2 THEN 1 ELSE 0), month |-> m,
         day |-> doy - (153 * mp + 2) \div 5 + 1, wday |-> wday]
  BY SMT DEF Civil, m, mp
<1> QED BY <1>6, <1>7, <1>8, <1>9

(* localtime goes on from day to day as the calendar does. *)
LEMMA DateFacts ==
  ASSUME NEW day \in Int
  PROVE  localtime(day + 1) = Tomorrow(localtime(day))
<1> DEFINE z == day + 719468
           n == 146097
           v == (day + 4) % 7
           w == (day + 1 + 4) % 7
<1>1. PICK era \in Int, doe \in Nat : z = n * era + doe /\ doe <= 146096
  <2>1. z \in Int /\ n \in Nat \ {0}
    OBVIOUS
  <2> DEFINE e == z \div n
             d == z % n
  <2> HIDE DEF z, n
  <2>2. e \in Int /\ d \in 0 .. n - 1 /\ z = n * e + d
    BY <2>1, Euclid
  <2> HIDE DEF e, d
  <2>3. d \in Nat /\ d < n
    BY <2>1, <2>2
  <2>4. d \in Nat /\ d <= 146096
    BY <2>3, SMT DEF n
  <2> QED BY <2>2, <2>4
<1>2. PICK c, g, k, doy : YearDay(c, g, k, doy) /\ doe = 36524 * c + 1461 * g + 365 * k + doy
  BY <1>1, YearOf DEF DoeAt
<1>3. c \in 0 .. 3 /\ g \in 0 .. 24 /\ k \in 0 .. 3 /\ doy \in 0 .. 365 /\ (doy = 365 => LeapAt(c, g, k))
  BY <1>2 DEF YearDay
<1> DEFINE Y == 400 * era + 100 * c + 4 * g + k
<1>4. Y \in Int /\ (Leap(Y + 1) <=> LeapAt(c, g, k))
  <2>1. Leap(400 * era + 100 * c + 4 * g + k + 1) <=> LeapAt(c, g, k)
    BY <1>3, LeapFacts, SMTT(60)
  <2>2. 400 * era + 100 * c + 4 * g + k + 1 = Y + 1
    BY <1>3
  <2> QED BY <1>3, <2>1, <2>2
<1>5. day + 719468 = 146097 * era + (36524 * c + 1461 * g + 365 * k + doy)
  BY <1>1, <1>2, SMT
<1>6. localtime(day) = Civil(Y, doy, v)
  <2>1. DayAt(day, era, c, g, k, doy)
    BY <1>2, <1>5 DEF DayAt
  <2> QED BY <2>1, LocaltimeFacts
<1>7. w = (v + 1) % 7
  OBVIOUS
<1> HIDE DEF z, n, v, w
<1>8. CASE doy < 364 \/ (doy = 364 /\ LeapAt(c, g, k))
  <2>1. doy + 1 \in 0 .. 365 /\ (doy + 1 = 365 => LeapAt(c, g, k)) /\ doy \in 0 .. 364
        /\ (doy = 364 => Leap(Y + 1))
    BY <1>3, <1>4, <1>8
  <2>2. day + 1 + 719468 = 146097 * era + (36524 * c + 1461 * g + 365 * k + (doy + 1))
    BY <1>3, <1>5, SMT
  <2>3. localtime(day + 1) = Civil(Y, doy + 1, w)
    <3>1. DayAt(day + 1, era, c, g, k, doy + 1)
      BY <1>3, <2>1, <2>2 DEF DayAt, YearDay
    <3> QED BY <3>1, LocaltimeFacts DEF w
  <2> HIDE DEF Y
  <2>4. Tomorrow(Civil(Y, doy, v)) = Civil(Y, doy + 1, (v + 1) % 7)
    BY <1>4, <2>1, SameYear, ZenonT(60)
  <2> QED BY <1>6, <1>7, <2>3, <2>4
<1>9. CASE ~(doy < 364 \/ (doy = 364 /\ LeapAt(c, g, k)))
  <2>1. Tomorrow(Civil(Y, doy, v)) = CivilDate(Y + 1, 3, 1, (v + 1) % 7)
    <3>1. doy \in 337 .. 365 /\ doy \in 0 .. 365
      BY <1>3, <1>9
    <3> HIDE DEF Y
    <3>2. Civil(Y, doy, v) = CivilDate(Y + 1, 2, doy - 337 + 1, v)
      BY <1>4, <3>1, CivilFacts
    <3>3. ~(doy - 337 + 1 < MonthLength(Y + 1, 2))
      BY <1>3, <1>4, <1>9 DEF MonthLength
    <3>4. doy - 337 + 1 \in Int /\ Y + 1 \in Int /\ 2 \in 1 .. 12 /\ 2 + 1 = 3 /\ 2 < 12
      BY <1>3, <1>4
    <3>5. Tomorrow(CivilDate(Y + 1, 2, doy - 337 + 1, v)) = CivilDate(Y + 1, 2 + 1, 1, (v + 1) % 7)
      BY <3>3, <3>4, TomorrowFacts
    <3> QED BY <3>2, <3>4, <3>5
  <2>2. ASSUME NEW y \in Int PROVE Civil(y, 0, w) = CivilDate(y, 3, 1, w)
    <3>1. 0 \in 0 .. 30 /\ 0 \in 0 .. 365 /\ 0 - 0 + 1 = 1
      OBVIOUS
    <3> QED BY <3>1, CivilFacts
  <2>3. SUFFICES localtime(day + 1) = Civil(Y + 1, 0, w)
    BY <1>4, <1>6, <1>7, <2>1, <2>2
  <2>4. 0 \in 0 .. 365 /\ ~(0 = 365)
    OBVIOUS
  <2>5. CASE k < 3
    <3>1. k + 1 \in 0 .. 3 /\ doy = 364
      BY <1>3, <1>9, <2>5 DEF LeapAt
    <3>2. day + 1 + 719468 = 146097 * era + (36524 * c + 1461 * g + 365 * (k + 1) + 0)
      BY <1>3, <1>5, <3>1, SMT
    <3>3. localtime(day + 1) = Civil(400 * era + 100 * c + 4 * g + (k + 1), 0, w)
      <4>1. DayAt(day + 1, era, c, g, k + 1, 0)
        BY <1>3, <2>4, <3>1, <3>2 DEF DayAt, YearDay
      <4> QED BY <4>1, LocaltimeFacts DEF w
    <3>4. 400 * era + 100 * c + 4 * g + (k + 1) = Y + 1
      BY <1>3
    <3> QED BY <3>3, <3>4
  <2>6. CASE k = 3 /\ g < 24
    <3>1. g + 1 \in 0 .. 24 /\ 0 \in 0 .. 3 /\ doy = 365
      BY <1>3, <1>9, <2>6 DEF LeapAt
    <3>2. day + 1 + 719468 = 146097 * era + (36524 * c + 1461 * (g + 1) + 365 * 0 + 0)
      BY <1>3, <1>5, <2>6, <3>1, SMT
    <3>3. localtime(day + 1) = Civil(400 * era + 100 * c + 4 * (g + 1) + 0, 0, w)
      <4>1. DayAt(day + 1, era, c, g + 1, 0, 0)
        BY <1>3, <2>4, <3>1, <3>2 DEF DayAt, YearDay
      <4> QED BY <4>1, LocaltimeFacts DEF w
    <3>4. 400 * era + 100 * c + 4 * (g + 1) + 0 = Y + 1
      BY <1>3, <2>6
    <3> QED BY <3>3, <3>4
  <2>7. CASE k = 3 /\ g = 24 /\ c < 3
    <3>1. c + 1 \in 0 .. 3 /\ 0 \in 0 .. 3 /\ 0 \in 0 .. 24 /\ doy = 364
      BY <1>3, <1>9, <2>7 DEF LeapAt
    <3>2. day + 1 + 719468 = 146097 * era + (36524 * (c + 1) + 1461 * 0 + 365 * 0 + 0)
      BY <1>3, <1>5, <2>7, <3>1, SMT
    <3>3. localtime(day + 1) = Civil(400 * era + 100 * (c + 1) + 4 * 0 + 0, 0, w)
      <4>1. DayAt(day + 1, era, c + 1, 0, 0, 0)
        BY <1>3, <2>4, <3>1, <3>2 DEF DayAt, YearDay
      <4> QED BY <4>1, LocaltimeFacts DEF w
    <3>4. 400 * era + 100 * (c + 1) + 4 * 0 + 0 = Y + 1
      BY <1>3, <2>7
    <3> QED BY <3>3, <3>4
  <2>8. CASE k = 3 /\ g = 24 /\ c = 3
    <3>1. 0 \in 0 .. 3 /\ 0 \in 0 .. 24 /\ doy = 365 /\ era + 1 \in Int
      BY <1>3, <1>9, <2>8 DEF LeapAt
    <3>2. day + 1 + 719468 = 146097 * (era + 1) + (36524 * 0 + 1461 * 0 + 365 * 0 + 0)
      BY <1>3, <1>5, <2>8, <3>1, SMT
    <3>3. localtime(day + 1) = Civil(400 * (era + 1) + 100 * 0 + 4 * 0 + 0, 0, w)
      <4>1. DayAt(day + 1, era + 1, 0, 0, 0, 0)
        BY <1>3, <2>4, <3>1, <3>2 DEF DayAt, YearDay
      <4> QED BY <4>1, LocaltimeFacts DEF w
    <3>4. 400 * (era + 1) + 100 * 0 + 4 * 0 + 0 = Y + 1
      BY <1>3, <2>8
    <3> QED BY <3>3, <3>4
  <2> QED BY <1>3, <2>5, <2>6, <2>7, <2>8
<1> QED BY <1>8, <1>9

(* And it starts from the right day. *)
LEMMA EpochFacts == localtime(0) = [year |-> 1970, month |-> 1, day |-> 1, wday |-> 4]
<1>1. 0 + 719468 = 146097 * 4 + (36524 * 3 + 1461 * 17 + 365 * 1 + 306)
  BY SMT
<1>2. localtime(0) = Civil(400 * 4 + 100 * 3 + 4 * 17 + 1, 306, (0 + 4) % 7)
  <2>1. DayAt(0, 4, 3, 17, 1, 306)
    BY <1>1 DEF DayAt, YearDay
  <2> QED BY <2>1, LocaltimeFacts
<1>3. 400 * 4 + 100 * 3 + 4 * 17 + 1 = 1969 /\ (0 + 4) % 7 = 4
  BY SMT
<1>4. Civil(1969, 306, 4) = CivilDate(1969 + 1, 1, 306 - 306 + 1, 4)
  <2>1. 306 \in 306 .. 336 /\ 306 \in 0 .. 365
    OBVIOUS
  <2> QED BY <2>1, CivilFacts
<1>5. 1969 + 1 = 1970 /\ 306 - 306 + 1 = 1
  BY SMT
<1> QED BY <1>2, <1>3, <1>4, <1>5 DEF CivilDate

-----------------------------------------------------------------------------
(* Numbers as text *)

Bases == {8, 10, 16}

(* The digits of s from place f to the one before l stand for n, and what  *)
(* they add up to on the way is a long long.                               *)
Sums(val, s, f, l, base, n) ==
  /\ val \in [f .. l -> Longs] /\ val[f] = 0 /\ val[l] = n
  /\ \A i \in f .. l - 1 : val[i + 1] = val[i] * base + s[i]
Means(s, f, l, base, n) == \E val : Sums(val, s, f, l, base, n)

LEMMA ZeroIsLong == 0 \in Longs
<1>1. Long \in Nat \ {0}
  BY WordFacts
<1> QED BY <1>1 DEF Longs

(* What strtoull adds up.  It does not wrap where the digits stand for a   *)
(* long long. *)
LEMMA AccumulatedFacts ==
  ASSUME NEW s \in Seq(Nat), NEW f \in 1 .. Len(s) + 1, NEW l \in f .. Len(s) + 1,
         NEW base \in Nat, NEW n, Means(s, f, l, base, n)
  PROVE  Accumulated(s, f, base)[l] = n
<1> DEFINE e == Len(s) + 1
           D == f .. e
           step == [i \in D |-> [v \in Longs |-> IF i = f THEN 0 ELSE (v * base + s[i - 1]) % Long]]
           Solved(g) == g = [i \in D |-> IF i = f THEN 0 ELSE (g[i - 1] * base + s[i - 1]) % Long]
           acc == Accumulated(s, f, base)
<1>1. /\ Len(s) \in Nat /\ f \in Int /\ e \in Int /\ f <= e /\ l \in f .. e
      /\ \A i \in f .. e - 1 : s[i] \in Nat
  BY LenProperties, ElementOfSeq
<1>2. Long \in Nat \ {0} /\ Longs = 0 .. Long - 1 /\ 0 \in Longs
  BY ZeroIsLong, WordFacts DEF Longs
<1>3. step \in [D -> [Longs -> Longs]]
  <2>1. ASSUME NEW i \in D, i # f, NEW v \in Longs PROVE (v * base + s[i - 1]) % Long \in Longs
    <3>1. i - 1 \in f .. e - 1
      BY <1>1, <2>1
    <3>2. v * base + s[i - 1] \in Int
      <4>1. v \in Nat /\ s[i - 1] \in Nat
        BY <1>1, <1>2, <3>1
      <4> DEFINE x == v * base
                 y == s[i - 1]
      <4>2. x \in Nat /\ y \in Nat
        BY <4>1
      <4> HIDE DEF x, y
      <4>3. x + y \in Int
        BY <4>2
      <4> QED BY <4>3 DEF x, y
    <3> QED BY <1>2, <3>2, Euclid
  <2> QED BY <1>2, <2>1
<1> HIDE DEF e
<1>4. PICK g : Loops(g, f, e, Longs, 0, step)
  <2> HIDE DEF step
  <2> QED BY ONLY <1>1, <1>2, <1>3, Rounds
<1>5. ASSUME NEW i \in D
      PROVE  g[i] = IF i = f THEN 0 ELSE (g[i - 1] * base + s[i - 1]) % Long
  <2>1. CASE i = f
    BY <1>4, <2>1 DEF Loops
  <2>2. CASE i # f
    <3>1. i - 1 \in D
      BY <1>1, <2>2
    <3>2. g[i - 1] \in Longs
      BY <1>4, <3>1 DEF Loops
    <3>3. g[i] = step[i][g[i - 1]]
      BY <1>4, <2>2 DEF Loops
    <3> QED BY <2>2, <3>2, <3>3
  <2> QED BY <2>1, <2>2
<1>6. Solved(g)
  <2>1. g = [i \in D |-> g[i]]
    BY <1>4 DEF Loops
  <2> QED BY <1>5, <2>1
<1>7. acc = CHOOSE h : Solved(h)
  BY DEF Accumulated, e
<1>8. Solved(acc)
  <2> HIDE DEF Solved, acc
  <2> QED BY <1>6, <1>7
<1> HIDE DEF acc
<1>9. PICK val : Sums(val, s, f, l, base, n)
  BY DEF Means
<1> DEFINE T == {i \in f .. l : acc[i] = val[i]}
<1>10. f .. l \subseteq T
  <2>1. f \in T
    BY <1>1, <1>8, <1>9 DEF Sums
  <2>2. ASSUME NEW i \in f .. l - 1, i \in T PROVE i + 1 \in T
    <3>1. i + 1 \in D /\ i + 1 # f /\ (i + 1) - 1 = i /\ i + 1 \in f .. l
      BY <1>1
    <3>2. acc[i + 1] = (acc[i] * base + s[i]) % Long
      BY <1>8, <3>1
    <3>3. val[i + 1] \in Longs /\ val[i + 1] = val[i] * base + s[i] /\ acc[i] = val[i]
      BY <1>9, <2>2, <3>1 DEF Sums
    <3>4. val[i + 1] % Long = val[i + 1]
      BY <3>3, LongAt
    <3> QED BY <3>1, <3>2, <3>3, <3>4
  <2>3. f \in Int /\ l \in Int
    BY <1>1
  <2> HIDE DEF T
  <2> QED BY <2>1, <2>2, <2>3, Upward
<1>11. l \in f .. l
  BY <1>1
<1> QED BY <1>9, <1>10, <1>11 DEF Sums, acc

(* Digits in another place, behind zeros, stand for the same number. *)
LEMMA MeansBehindZeros ==
  ASSUME NEW d \in Seq(Nat), NEW base \in Nat, NEW n, Means(d, 1, Len(d) + 1, base, n),
         NEW s, NEW f \in Nat, NEW z \in Nat,
         \A i \in f .. f + z - 1 : s[i] = 0, \A i \in 1 .. Len(d) : s[f + z + i - 1] = d[i]
  PROVE  Means(s, f, f + z + Len(d), base, n)
<1>1. PICK val : Sums(val, d, 1, Len(d) + 1, base, n)
  BY DEF Means
<1> DEFINE k == Len(d)
           l == f + z + k
           new == [i \in f .. l |-> IF i <= f + z THEN 0 ELSE val[i - (f + z) + 1]]
<1>2. k \in Nat /\ \A i \in 1 .. k : d[i] \in Nat
  BY LenProperties, ElementOfSeq
<1>3. /\ val \in [1 .. k + 1 -> Longs] /\ val[1] = 0 /\ val[k + 1] = n
      /\ \A i \in 1 .. k : val[i + 1] = val[i] * base + d[i]
  BY <1>1, <1>2 DEF Sums
<1>4. 0 \in Longs
  BY ZeroIsLong
<1> HIDE DEF k
<1>5. new \in [f .. l -> Longs]
  <2>1. ASSUME NEW i \in f .. l, ~(i <= f + z) PROVE val[i - (f + z) + 1] \in Longs
    <3>1. i - (f + z) + 1 \in 1 .. k + 1
      BY <1>2, <2>1
    <3> QED BY <1>3, <3>1
  <2> QED BY <1>4, <2>1
<1>6. new[f] = 0
  BY <1>2
<1>7. new[l] = n
  <2>1. CASE k = 0
    BY <1>2, <1>3, <2>1
  <2>2. CASE k # 0
    <3>1. l \in f .. l /\ ~(l <= f + z) /\ l - (f + z) + 1 = k + 1
      BY <1>2, <2>2
    <3> QED BY <1>3, <3>1
  <2> QED BY <2>1, <2>2
<1>8. ASSUME NEW i \in f .. l - 1 PROVE new[i + 1] = new[i] * base + s[i]
  <2>1. CASE i < f + z
    <3>1. i \in f .. f + z - 1 /\ i + 1 \in f .. l /\ i \in f .. l /\ i <= f + z /\ i + 1 <= f + z
      BY <1>2, <2>1
    <3>2. new[i + 1] = 0 /\ new[i] = 0 /\ s[i] = 0 /\ 0 * base + 0 = 0
      BY <3>1
    <3> QED BY <3>2
  <2>2. CASE i = f + z
    <3>1. /\ i + 1 \in f .. l /\ ~(i + 1 <= f + z) /\ (i + 1) - (f + z) + 1 = 2 /\ 1 \in 1 .. k
          /\ i \in f .. l /\ i <= f + z /\ f + z + 1 - 1 = i
      BY <1>2, <2>2
    <3>2. new[i + 1] = val[2] /\ new[i] = 0 /\ s[i] = d[1]
      BY <3>1 DEF k
    <3>3. val[1 + 1] = val[1] * base + d[1]
      BY <1>3, <3>1
    <3>4. 1 + 1 = 2
      OBVIOUS
    <3> QED BY <1>3, <3>2, <3>3, <3>4
  <2>3. CASE i > f + z
    <3> DEFINE j == i - (f + z) + 1
    <3>1. /\ i + 1 \in f .. l /\ ~(i + 1 <= f + z) /\ (i + 1) - (f + z) + 1 = j + 1 /\ j \in 1 .. k
          /\ i \in f .. l /\ ~(i <= f + z) /\ f + z + j - 1 = i
      BY <1>2, <2>3
    <3>2. new[i + 1] = val[j + 1] /\ new[i] = val[j]
      BY <3>1
    <3> HIDE DEF j, new
    <3>3. s[i] = d[j]
      BY <3>1 DEF k
    <3> QED BY <1>3, <3>1, <3>2, <3>3
  <2> QED BY <1>2, <2>1, <2>2, <2>3
<1> HIDE DEF new
<1>9. Sums(new, s, f, l, base, n)
  BY <1>5, <1>6, <1>7, <1>8 DEF Sums
<1> QED BY <1>9 DEF Means, k

(* The digits of a number: there are some, and they stand for it. *)
Numeral(d, base, n) == d \in Seq(0 .. base - 1) /\ Len(d) \in Nat \ {0} /\ Means(d, 1, Len(d) + 1, base, n)

LEMMA NumeralDigit ==
  ASSUME NEW base \in Bases, NEW n \in Longs, n < base
  PROVE  Numeral(<<n>>, base, n)
<1> DEFINE d == <<n>>
           val == [i \in 1 .. 2 |-> IF i = 1 THEN 0 ELSE n]
<1>1. n \in Nat /\ n \in 0 .. base - 1 /\ 0 \in Longs /\ base \in Nat
  BY LongFacts, ZeroIsLong DEF Bases
<1>2. Len(d) = 1 /\ d[1] = n /\ d \in Seq(0 .. base - 1)
  BY <1>1
<1>3. Sums(val, d, 1, 2, base, n)
  <2>1. val \in [1 .. 2 -> Longs] /\ val[1] = 0 /\ val[2] = n
    BY <1>1
  <2>2. ASSUME NEW i \in 1 .. 2 - 1 PROVE val[i + 1] = val[i] * base + d[i]
    <3>1. i = 1 /\ 0 * base + n = n /\ 1 + 1 = 2
      BY <1>1
    <3> HIDE DEF val, d
    <3> QED BY <1>2, <2>1, <3>1
  <2> HIDE DEF val, d
  <2> QED BY <2>1, <2>2 DEF Sums
<1> HIDE DEF val, d
<1>4. Means(d, 1, Len(d) + 1, base, n)
  BY <1>2, <1>3 DEF Means
<1> QED BY <1>2, <1>4 DEF Numeral, d

LEMMA NumeralAppend ==
  ASSUME NEW base \in Bases, NEW n \in Longs, NEW q \in Longs, NEW r \in 0 .. base - 1, n = base * q + r,
         NEW d, Numeral(d, base, q)
  PROVE  Numeral(Append(d, r), base, n)
<1> DEFINE k == Len(d)
           e == Append(d, r)
<1>1. /\ d \in Seq(0 .. base - 1) /\ k \in Nat \ {0} /\ base \in Nat
      /\ e \in Seq(0 .. base - 1) /\ Len(e) = k + 1 /\ e[k + 1] = r /\ \A i \in 1 .. k : e[i] = d[i]
  BY AppendProperties DEF Numeral, Bases
<1>2. PICK val : Sums(val, d, 1, k + 1, base, q)
  BY DEF Numeral, Means
<1> DEFINE new == [i \in 1 .. k + 2 |-> IF i = k + 2 THEN n ELSE val[i]]
<1>3. val \in [1 .. k + 1 -> Longs] /\ val[1] = 0 /\ val[k + 1] = q
      /\ \A i \in 1 .. k : val[i + 1] = val[i] * base + d[i]
  BY <1>1, <1>2 DEF Sums
<1> HIDE DEF k, e
<1>4. new \in [1 .. k + 2 -> Longs]
  BY <1>1, <1>3
<1>5. new[1] = 0 /\ new[k + 2] = n
  BY <1>1, <1>3
<1>6. ASSUME NEW i \in 1 .. (k + 2) - 1 PROVE new[i + 1] = new[i] * base + e[i]
  <2>1. CASE i = k + 1
    <3>1. new[i + 1] = n /\ new[i] = q /\ e[i] = r
      BY <1>1, <1>3, <2>1
    <3>2. q * base = base * q
      BY <1>1, LongFacts
    <3> HIDE DEF new
    <3> QED BY <3>1, <3>2
  <2>2. CASE i # k + 1
    <3>1. i \in 1 .. k /\ i + 1 # k + 2 /\ i # k + 2 /\ i + 1 \in 1 .. k + 2 /\ i \in 1 .. k + 2
      BY <1>1, <2>2
    <3>2. new[i + 1] = val[i + 1] /\ new[i] = val[i] /\ e[i] = d[i]
      BY <1>1, <3>1
    <3> QED BY <1>3, <3>1, <3>2
  <2> QED BY <2>1, <2>2
<1> HIDE DEF new
<1>7. Sums(new, e, 1, k + 2, base, n) /\ Len(e) + 1 = k + 2
  BY <1>1, <1>4, <1>5, <1>6 DEF Sums
<1>8. Means(e, 1, Len(e) + 1, base, n)
  BY <1>7 DEF Means
<1> QED BY <1>1, <1>8 DEF Numeral, e

(* Every number has its digits. *)
LEMMA DigitsFacts ==
  ASSUME NEW base \in Bases, NEW v \in Longs
  PROVE  Numeral(Digits(v, base), base, v)
<1> DEFINE S == 0 .. base - 1
           D == Longs
           V == Seq(S)
           N == Long - 1
           rank == [n \in D |-> n]
           stop == {n \in D : n < base}
           first == [n \in D |-> IF n < base THEN <<n>> ELSE <<0>>]
           back == [n \in D |-> n \div base]
           step == [n \in D |-> [s \in V |-> Append(s, n % base)]]
           Solved(f) == f = [n \in D |-> IF n < base THEN <<n>> ELSE Append(f[n \div base], n % base)]
           num == Numerals(base)
<1>1. Long \in Nat \ {0} /\ Longs = 0 .. Long - 1 /\ base \in Nat \ {0, 1} /\ N \in Nat
  BY WordFacts DEF Longs, Bases
<1>2. ASSUME NEW n \in D
      PROVE  /\ n \div base \in D /\ n % base \in S /\ n = base * (n \div base) + (n % base)
             /\ ~(n < base) => n \div base < n
  <2> DEFINE q == n \div base
             r == n % base
  <2>1. n \in Nat /\ q \in Nat /\ r \in S /\ n = base * q + r /\ n < Long
    <3>1. n \in Nat /\ n < Long
      BY <1>1
    <3> QED BY <1>1, <3>1, DivFacts
  <2> HIDE DEF q, r
  <2>2. q * 2 <= q * base /\ q * base = base * q
    BY <1>1, <2>1, MulMono
  <2>3. q <= n /\ (~(n < base) => q < n)
    BY <1>1, <2>1, <2>2
  <2>4. q \in D
    BY <1>1, <2>1, <2>3
  <2> QED BY <2>1, <2>3, <2>4 DEF q, r
<1>3. Recursive(D, V, N, rank, stop, first, back, step)
  <2>1. N \in Nat /\ rank \in [D -> 0 .. N]
    BY <1>1
  <2>2. first \in [D -> V]
    <3>1. ASSUME NEW n \in D PROVE first[n] \in V
      <4>1. <<0>> \in V
        BY <1>1
      <4>2. n < base => <<n>> \in V
        BY <1>1
      <4> HIDE DEF V
      <4> QED BY <4>1, <4>2
    <3> QED BY <3>1
  <2>3. back \in [D -> D]
    BY <1>2
  <2>4. step \in [D -> [V -> V]]
    <3>1. ASSUME NEW n \in D, NEW s \in V PROVE Append(s, n % base) \in V
      <4>1. n % base \in S
        BY <1>2
      <4> DEFINE r == n % base
      <4> HIDE DEF r, S
      <4> QED BY <4>1, AppendProperties DEF r
    <3> HIDE DEF V
    <3> QED BY <3>1
  <2>5. \A t \in D : t \notin stop => rank[back[t]] < rank[t]
    BY <1>2
  <2> HIDE DEF N, rank, stop, first, back, step, V
  <2> QED BY <2>1, <2>2, <2>3, <2>4, <2>5 DEF Recursive
<1>4. PICK f : Solves(f, D, V, stop, first, back, step)
  <2> HIDE DEF D, V, N, rank, stop, first, back, step
  <2> QED BY ONLY <1>3, Recursion
<1>5. ASSUME NEW n \in D PROVE f[n] = IF n < base THEN <<n>> ELSE Append(f[n \div base], n % base)
  <2>1. f \in [D -> V] /\ f[n] = IF n \in stop THEN first[n] ELSE step[n][f[back[n]]]
    BY <1>4 DEF Solves
  <2>2. CASE n < base
    BY <2>1, <2>2
  <2>3. CASE ~(n < base)
    <3>1. back[n] = n \div base /\ n \notin stop /\ f[back[n]] \in V
      <4>1. back[n] = n \div base /\ n \notin stop /\ back[n] \in D
        BY <1>2, <2>3
      <4> HIDE DEF V
      <4> QED BY <2>1, <4>1
    <3> DEFINE w == f[back[n]]
    <3>2. step[n][w] = Append(w, n % base)
      <4>1. w \in V
        BY <3>1
      <4> HIDE DEF w, V
      <4> QED BY <4>1
    <3>3. f[n] = step[n][w]
      <4> HIDE DEF step
      <4> QED BY <2>1, <3>1
    <3> HIDE DEF step
    <3> QED BY <2>3, <3>1, <3>2, <3>3
  <2> QED BY <2>2, <2>3
<1>6. Solved(f)
  <2>1. f = [n \in D |-> f[n]]
    <3>1. f \in [D -> V]
      BY <1>4 DEF Solves
    <3> HIDE DEF D, V
    <3> QED BY <3>1
  <2> QED BY <1>5, <2>1
<1>7. num = CHOOSE h : Solved(h)
  BY DEF Numerals
<1>8. Solved(num)
  <2> HIDE DEF Solved, num
  <2> QED BY <1>6, <1>7
<1> HIDE DEF num
<1>9. \A n \in D : num[n] = IF n < base THEN <<n>> ELSE Append(num[n \div base], n % base)
  BY <1>8
<1> DEFINE T == {n \in D : Numeral(num[n], base, n)}
<1>10. D \subseteq T
  <2>1. \A n \in D : rank[n] \in Nat
    BY <1>1
  <2>2. ASSUME NEW n \in D, \A u \in D : rank[u] < rank[n] => u \in T PROVE n \in T
    <3>1. CASE n < base
      <4>1. num[n] = <<n>>
        BY <1>9, <3>1
      <4>2. Numeral(<<n>>, base, n)
        BY <3>1, NumeralDigit
      <4> QED BY <4>1, <4>2
    <3>2. CASE ~(n < base)
      <4> DEFINE q == n \div base
                 r == n % base
      <4>1. q \in D /\ r \in S /\ n = base * q + r /\ q < n
        BY <1>2, <3>2
      <4>2. num[n] = Append(num[q], r)
        BY <1>9, <3>2
      <4> HIDE DEF q, r
      <4>3. q \in T
        BY <2>2, <4>1
      <4>4. Numeral(num[q], base, q)
        BY <4>3
      <4>5. Numeral(Append(num[q], r), base, n)
        BY <4>1, <4>4, NumeralAppend
      <4> QED BY <4>2, <4>5
    <3> QED BY <3>1, <3>2
  <2> HIDE DEF T, D, rank
  <2> QED BY <2>1, <2>2, Induction
<1>11. v \in T
  <2> HIDE DEF T
  <2> QED BY <1>10
<1> QED BY <1>11 DEF num, Digits

(* A text that is a number: sp blanks, then sg characters of sign and x of *)
(* prefix, then the digits from place f to the one before l, then the end  *)
(* or a blank. *)
Layout(s, base, sp, sg, x, f, l) ==
  /\ base \in Bases /\ s \in Seq(Nat) /\ sp \in Nat /\ sg \in {0, 1} /\ x \in {0, 2}
  /\ f = sp + sg + x + 1 /\ f < l /\ l \in Nat /\ l <= Len(s) + 1
  /\ \A i \in 1 .. sp : s[i] = SPACE
  /\ sg = 1 => s[sp + 1] \in {MINUS, PLUS}
  /\ x = 2 => base = 16 /\ s[sp + sg + 1] = 0 /\ s[sp + sg + 2] = LETTER_X
  /\ \A i \in f .. l - 1 : s[i] < base
  /\ l <= Len(s) => s[l] = SPACE

(* Where the blanks end. *)
LEMMA UnblankFacts ==
  ASSUME NEW s \in Seq(Nat), NEW i \in 1 .. Len(s), s[i] # SPACE, \A j \in 1 .. i - 1 : s[j] = SPACE
  PROVE  Unblank(s) = i
<1> DEFINE Solved(k) == /\ k \in 1 .. Len(s) + 1 /\ (k > Len(s) \/ s[k] # SPACE)
                      /\ \A j \in 1 .. k - 1 : s[j] = SPACE
<1>1. Len(s) \in Nat
  BY LenProperties
<1>2. Solved(i)
  BY <1>1
<1>3. ASSUME NEW k, Solved(k) PROVE k = i
  <2>1. ~(k < i)
    BY <1>1, <1>3
  <2>2. ~(i < k)
    <3>1. i < k => i \in 1 .. k - 1
      BY <1>1, <1>3
    <3> QED BY <1>3, <3>1
  <2> QED BY <1>1, <1>3, <2>1, <2>2
<1>4. Unblank(s) = CHOOSE k : Solved(k)
  BY DEF Unblank
<1> HIDE DEF Solved
<1> QED BY <1>2, <1>3, <1>4

(* Where the digits end. *)
LEMMA UndigitFacts ==
  ASSUME NEW s \in Seq(Nat), NEW base \in Nat, NEW f \in 1 .. Len(s), NEW l \in f .. Len(s) + 1,
         \A j \in f .. l - 1 : s[j] < base, l <= Len(s) => ~(s[l] < base)
  PROVE  Undigit(s, f, base) = l
<1> DEFINE Solved(k) == /\ k \in f .. Len(s) + 1 /\ digit_value(s, k, base) < 0
                      /\ \A j \in f .. k - 1 : digit_value(s, j, base) >= 0
<1>1. /\ Len(s) \in Nat /\ f \in Nat /\ l \in Nat /\ f >= 1
      /\ \A j \in 1 .. Len(s) : s[j] \in Nat /\ j \in DOMAIN s
      /\ \A j : j \in DOMAIN s => j \in 1 .. Len(s)
  BY LenProperties, ElementOfSeq
<1>2. \A j \in f .. l - 1 : digit_value(s, j, base) >= 0
  <2>1. ASSUME NEW j \in f .. l - 1 PROVE digit_value(s, j, base) >= 0
    <3>1. j \in 1 .. Len(s) /\ s[j] < base
      BY <1>1
    <3> QED BY <1>1, <3>1 DEF digit_value
  <2> QED BY <2>1
<1>3. digit_value(s, l, base) = -1
  <2>1. CASE l <= Len(s)
    BY <2>1 DEF digit_value
  <2>2. CASE ~(l <= Len(s))
    <3>1. l \notin DOMAIN s
      BY <1>1, <2>2
    <3> QED BY <3>1 DEF digit_value
  <2> QED BY <2>1, <2>2
<1>4. Solved(l)
  BY <1>1, <1>2, <1>3
<1>5. ASSUME NEW k, Solved(k) PROVE k = l
  <2>1. k \in Int /\ f <= k /\ k <= Len(s) + 1
    BY <1>1, <1>5
  <2>2. ~(k < l)
    <3>1. k < l => k \in f .. l - 1
      BY <1>1, <2>1
    <3>2. ASSUME k \in f .. l - 1 PROVE FALSE
      <4>1. k \in 1 .. Len(s) /\ s[k] < base
        BY <1>1, <3>2
      <4>2. digit_value(s, k, base) = s[k] /\ s[k] \in Nat
        BY <1>1, <4>1 DEF digit_value
      <4>3. s[k] < 0
        BY <1>5, <4>2
      <4> QED BY <4>2, <4>3
    <3> QED BY <3>1, <3>2
  <2>3. ~(l < k)
    <3>1. l < k => l \in f .. k - 1
      BY <1>1, <2>1
    <3>2. ASSUME l \in f .. k - 1 PROVE FALSE
      <4>1. digit_value(s, l, base) >= 0
        BY <1>5, <3>2
      <4> QED BY <1>3, <4>1
    <3> QED BY <3>1, <3>2
  <2> QED BY <1>1, <2>1, <2>2, <2>3
<1>6. Undigit(s, f, base) = CHOOSE k : Solved(k)
  BY DEF Undigit
<1> HIDE DEF Solved
<1> QED BY <1>4, <1>5, <1>6

(* What strtoull reads of such a text. *)
LEMMA ReadFacts ==
  ASSUME NEW s, NEW base, NEW sp, NEW sg, NEW x, NEW f, NEW l, Layout(s, base, sp, sg, x, f, l),
         NEW n, Means(s, f, l, base, n)
  PROVE  strtoull(s, base).value = Negated(sg = 1 /\ s[sp + 1] = MINUS, n)
<1> DEFINE skip == sp + 1
           p == sp + sg + 1
<1>1. /\ s \in Seq(Nat) /\ Len(s) \in Nat /\ sp \in Nat /\ sg \in {0, 1} /\ x \in {0, 2}
      /\ f = p + x /\ f < l /\ l \in Nat /\ l <= Len(s) + 1 /\ f \in Nat /\ f <= Len(s)
      /\ base \in {8, 10, 16} /\ base \in Nat /\ base <= 16 /\ base # 0
  <2>1. base \in {8, 10, 16} /\ base \in Nat /\ base <= 16 /\ base # 0
    BY DEF Layout, Bases
  <2>2. s \in Seq(Nat) /\ Len(s) \in Nat
    BY LenProperties DEF Layout
  <2>3. /\ sp \in Nat /\ sg \in {0, 1} /\ x \in {0, 2}
        /\ f = sp + sg + x + 1 /\ f < l /\ l \in Nat /\ l <= Len(s) + 1
    BY DEF Layout
  <2>4. f = p + x /\ f \in Nat /\ f <= Len(s)
    BY <2>2, <2>3
  <2> QED BY <2>1, <2>2, <2>3, <2>4
<1>2. /\ \A i \in 1 .. sp : s[i] = SPACE
      /\ sg = 1 => s[sp + 1] \in {MINUS, PLUS}
      /\ x = 2 => base = 16 /\ s[p] = 0 /\ s[p + 1] = LETTER_X
      /\ \A i \in f .. l - 1 : s[i] < base
      /\ l <= Len(s) => s[l] = SPACE
  BY <1>1 DEF Layout
<1>3. \A i \in 1 .. Len(s) : s[i] \in Nat /\ i \in DOMAIN s
  BY <1>1, ElementOfSeq, LenProperties
<1>4. s[f] \in Nat /\ s[f] < base /\ f \in f .. l - 1 /\ f \in 1 .. Len(s) /\ p \in 1 .. Len(s) /\ skip \in 1 .. Len(s)
  <2>1. f \in f .. l - 1 /\ f \in 1 .. Len(s) /\ p \in 1 .. Len(s) /\ skip \in 1 .. Len(s)
    BY <1>1
  <2>2. s[f] \in Nat /\ s[f] < base
    BY <1>2, <1>3, <2>1
  <2> QED BY <2>1, <2>2
<1>5. s[p] < base
  <2>1. CASE x = 2
    <3>1. s[p] = 0 /\ 0 < base
      BY <1>1, <1>2, <2>1
    <3> QED BY <3>1
  <2>2. CASE x = 0
    <3>1. p = f
      BY <1>1, <2>2
    <3> QED BY <1>4, <3>1
  <2> QED BY <1>1, <2>1, <2>2
<1>6. /\ s[skip] # SPACE /\ (skip <= Len(s) /\ s[skip] \in {MINUS, PLUS} <=> sg = 1)
  <2>1. CASE sg = 1
    BY <1>2, <1>4, <2>1 DEF MINUS, PLUS, SPACE
  <2>2. CASE sg = 0
    <3>1. p = skip
      BY <1>1, <2>2
    <3>2. s[skip] < 16 /\ s[skip] \in Nat
      <4>1. s[skip] < base /\ s[skip] \in Nat
        BY <1>3, <1>4, <1>5, <3>1
      <4> DEFINE ch == s[skip]
      <4>2. ch \in Nat /\ ch < base /\ base <= 16 /\ base \in Nat
        BY <1>1, <4>1
      <4> HIDE DEF ch
      <4>3. ch < 16
        BY <4>2
      <4> QED BY <4>2, <4>3 DEF ch
    <3> QED BY <2>2, <3>2 DEF MINUS, PLUS, SPACE
  <2> QED BY <1>1, <2>1, <2>2
<1>7. Unblank(s) = skip
  <2>1. \A j \in 1 .. skip - 1 : s[j] = SPACE
    BY <1>1, <1>2
  <2> HIDE DEF skip
  <2> QED BY <1>1, <1>4, <1>6, <2>1, UnblankFacts
<1> DEFINE signed == skip <= Len(s) /\ s[skip] \in {MINUS, PLUS}
           zero == digit_value(s, p, 1) = 0
           hex == base \in {0, 16} /\ zero /\ p < Len(s) /\ s[p + 1] = LETTER_X
                  /\ digit_value(s, p + 2, 16) >= 0
<1>8. hex <=> x = 2
  <2>1. CASE x = 2
    <3>1. zero
      BY <1>2, <1>3, <1>4, <2>1 DEF digit_value
    <3>2. digit_value(s, p + 2, 16) >= 0
      <4>1. p + 2 = f /\ f \in DOMAIN s /\ s[f] < 16 /\ s[f] \in Nat
        BY <1>1, <1>2, <1>3, <1>4, <2>1
      <4> QED BY <4>1 DEF digit_value
    <3> HIDE DEF zero
    <3> QED BY <1>1, <1>2, <1>4, <2>1, <3>1, <3>2
  <2>2. CASE x = 0
    <3>1. p = f
      BY <1>1, <2>2
    <3>2. p < Len(s) => s[p + 1] # LETTER_X
      <4> DEFINE c == p + 1
      <4>1. CASE c <= l - 1
        <5>1. c \in f .. l - 1 /\ c \in 1 .. Len(s)
          BY <1>1, <3>1, <4>1
        <5> HIDE DEF c
        <5>2. s[c] < base /\ s[c] \in Nat
          BY <1>2, <1>3, <5>1
        <5>3. s[c] # 103
          BY <1>1, <5>2
        <5> QED BY <5>3 DEF LETTER_X, c
      <4>2. CASE ~(c <= l - 1)
        <5>1. c = l
          BY <1>1, <3>1, <4>2
        <5>2. l <= Len(s) => s[l] = 102
          BY <1>2 DEF SPACE
        <5> HIDE DEF c
        <5>3. c < Len(s) + 1 => s[c] = 102
          BY <1>1, <5>1, <5>2
        <5>4. p < Len(s) => c < Len(s) + 1
          BY <1>1 DEF c
        <5> QED BY <5>3, <5>4 DEF LETTER_X, c
      <4> QED BY <4>1, <4>2
    <3> HIDE DEF zero
    <3> QED BY <2>2, <3>2
  <2> QED BY <1>1, <2>1, <2>2
<1> HIDE DEF zero
<1> DEFINE b == IF hex THEN 16 ELSE IF base # 0 THEN base ELSE IF zero THEN 8 ELSE 10
           q == IF signed THEN skip + 1 ELSE skip
           first == IF hex THEN p + 2 ELSE p
<1>9. b = base /\ q = p /\ first = f
  <2> HIDE DEF hex, signed
  <2>1. signed <=> sg = 1
    BY <1>6 DEF signed
  <2>2. x = 2 => base = 16
    BY <1>2
  <2>3. b = base /\ first = f
    BY <1>1, <1>8, <2>2
  <2>4. q = p
    BY <1>1, <2>1
  <2> QED BY <2>3, <2>4
<1>10. Undigit(s, f, base) = l
  <2>1. l <= Len(s) => ~(s[l] < base)
    <3>1. l <= Len(s) => s[l] = 102
      BY <1>2 DEF SPACE
    <3>2. ~(102 < base)
      BY <1>1
    <3> QED BY <3>1, <3>2
  <2>2. l \in f .. Len(s) + 1 /\ base \in Nat
    BY <1>1
  <2> QED BY <1>1, <1>2, <1>4, <2>1, <2>2, UndigitFacts
<1>11. Accumulated(s, f, base)[l] = n
  <2>1. f \in 1 .. Len(s) + 1 /\ l \in f .. Len(s) + 1 /\ base \in Nat
    BY <1>1, <1>4
  <2> QED BY <1>1, <2>1, AccumulatedFacts
<1>12. strtoull(s, base).value = Negated(signed /\ s[skip] = MINUS, Accumulated(s, first, b)[Undigit(s, first, b)])
  <2> DEFINE Value(y, pp) ==
               LET sgn == y <= Len(s) /\ s[y] \in {MINUS, PLUS}
                   zz == digit_value(s, pp, 1) = 0
                   hh == base \in {0, 16} /\ zz /\ pp < Len(s) /\ s[pp + 1] = LETTER_X
                         /\ digit_value(s, pp + 2, 16) >= 0
                   bb == IF hh THEN 16 ELSE IF base # 0 THEN base ELSE IF zz THEN 8 ELSE 10
                   ff == IF hh THEN pp + 2 ELSE pp
               IN  Negated(sgn /\ s[y] = MINUS, Accumulated(s, ff, bb)[Undigit(s, ff, bb)])
             Start(y) == IF y <= Len(s) /\ s[y] \in {MINUS, PLUS} THEN y + 1 ELSE y
  <2>1. strtoull(s, base).value = Value(Unblank(s), Start(Unblank(s)))
    BY DEF strtoull
  <2>2. Start(skip) = p
    BY <1>9
  <2>3. strtoull(s, base).value = Value(skip, p)
    <3> HIDE DEF Value, Start, skip, p
    <3> QED BY <1>7, <2>1, <2>2
  <2> QED BY <2>3 DEF zero
<1>13. (signed /\ s[skip] = MINUS) = (sg = 1 /\ s[skip] = MINUS)
  BY <1>6
<1> HIDE DEF signed, b, first
<1> QED BY <1>9, <1>10, <1>11, <1>12, <1>13

(* A text of sp blanks, a head, z zeros, digits and t blanks. *)
Laid(text, head, digits, sp, z, t) ==
  /\ text \in Seq(Nat) /\ head \in Seq(Nat) /\ digits \in Seq(Nat) /\ sp \in Nat /\ z \in Nat /\ t \in Nat
  /\ Len(text) = sp + Len(head) + z + Len(digits) + t
  /\ \A i \in 1 .. sp : text[i] = SPACE
  /\ \A i \in 1 .. Len(head) : text[sp + i] = head[i]
  /\ \A i \in 1 .. z : text[sp + Len(head) + i] = 0
  /\ \A i \in 1 .. Len(digits) : text[sp + Len(head) + z + i] = digits[i]
  /\ \A i \in 1 .. t : text[sp + Len(head) + z + Len(digits) + i] = SPACE

(* It fills the width, with blanks only to fill it. *)
Fills(text, head, digits, width) ==
  \E sp, z, t : /\ Laid(text, head, digits, sp, z, t) /\ Len(text) >= width
                /\ Len(text) > width => sp = 0 /\ t = 0

LEMMA PadFacts ==
  ASSUME NEW c \in Nat, NEW n \in Int
  PROVE  /\ put_pad(c, n) \in Seq(Nat) /\ Len(put_pad(c, n)) = IF n > 0 THEN n ELSE 0
         /\ \A i \in 1 .. Len(put_pad(c, n)) : put_pad(c, n)[i] = c
<1> DEFINE k == IF n > 0 THEN n ELSE 0
           p == [i \in 1 .. k |-> c]
<1>1. k \in Nat /\ 1 .. k = 1 .. n
  OBVIOUS
<1>2. put_pad(c, n) = p
  BY <1>1 DEF put_pad
<1> HIDE DEF k
<1>3. p \in Seq(Nat) /\ Len(p) = k
  BY <1>1
<1>4. \A i \in 1 .. k : p[i] = c
  OBVIOUS
<1> HIDE DEF p
<1> QED BY <1>2, <1>3, <1>4 DEF k

(* The characters of texts joined. *)
LEMMA TwoParts ==
  ASSUME NEW a \in Seq(Nat), NEW b \in Seq(Nat)
  PROVE  /\ a \o b \in Seq(Nat) /\ Len(a \o b) = Len(a) + Len(b) /\ Len(a) \in Nat /\ Len(b) \in Nat
         /\ \A i \in 1 .. Len(a) : (a \o b)[i] = a[i]
         /\ \A i \in 1 .. Len(b) : (a \o b)[Len(a) + i] = b[i]
<1> DEFINE m == a \o b
           x == Len(a)
           y == Len(b)
<1>1. x \in Nat /\ y \in Nat
  BY LenProperties
<1>2. /\ m \in Seq(Nat) /\ Len(m) = x + y
      /\ \A i \in 1 .. x + y : m[i] = IF i <= x THEN a[i] ELSE b[i - x]
  BY ConcatProperties
<1> HIDE DEF m, x, y
<1>3. ASSUME NEW i \in 1 .. x PROVE m[i] = a[i]
  BY <1>1, <1>2
<1>4. ASSUME NEW i \in 1 .. y PROVE m[x + i] = b[i]
  <2> DEFINE j == x + i
  <2>1. j \in 1 .. x + y /\ ~(j <= x) /\ j - x = i
    BY <1>1
  <2> HIDE DEF j
  <2>2. m[j] = b[i]
    BY <1>2, <2>1
  <2> QED BY <2>2 DEF j
<1> QED BY <1>1, <1>2, <1>3, <1>4 DEF m, x, y

Joined(s, a, b, c) ==
  /\ s \in Seq(Nat) /\ Len(s) = Len(a) + Len(b) + Len(c)
  /\ \A i \in 1 .. Len(a) : s[i] = a[i]
  /\ \A i \in 1 .. Len(b) : s[Len(a) + i] = b[i]
  /\ \A i \in 1 .. Len(c) : s[Len(a) + Len(b) + i] = c[i]

LEMMA ThreeParts ==
  ASSUME NEW a \in Seq(Nat), NEW b \in Seq(Nat), NEW c \in Seq(Nat)
  PROVE  Joined(a \o b \o c, a, b, c)
<1> DEFINE m == a \o b
           s == m \o c
           x == Len(a)
           y == Len(b)
           u == Len(c)
<1>1. /\ x \in Nat /\ y \in Nat /\ m \in Seq(Nat) /\ Len(m) = x + y
      /\ \A i \in 1 .. x : m[i] = a[i]
      /\ \A i \in 1 .. y : m[x + i] = b[i]
  BY TwoParts
<1> HIDE DEF m
<1>2. /\ u \in Nat /\ s \in Seq(Nat) /\ Len(s) = Len(m) + u
      /\ \A i \in 1 .. Len(m) : s[i] = m[i]
      /\ \A i \in 1 .. u : s[Len(m) + i] = c[i]
  <2> HIDE DEF x, y
  <2>1. m \in Seq(Nat)
    BY <1>1
  <2> QED BY ONLY <2>1, c \in Seq(Nat), TwoParts
<1> HIDE DEF s, x, y, u
<1>3. ASSUME NEW i \in 1 .. x PROVE s[i] = a[i]
  <2>1. i \in 1 .. x + y
    BY <1>1
  <2> QED BY <1>1, <1>2, <2>1
<1>4. ASSUME NEW i \in 1 .. y PROVE s[x + i] = b[i]
  <2>1. x + i \in 1 .. x + y
    BY <1>1
  <2> QED BY <1>1, <1>2, <2>1
<1>5. ASSUME NEW i \in 1 .. u PROVE s[x + y + i] = c[i]
  BY <1>1, <1>2
<1> QED BY <1>1, <1>2, <1>3, <1>4, <1>5 DEF Joined, s, m, x, y, u

(* What Padded writes. *)
LEMMA PaddedFacts ==
  ASSUME NEW head \in Seq(Nat), NEW digits \in Seq(Nat), NEW width \in Nat,
         NEW zero \in BOOLEAN, NEW left \in BOOLEAN
  PROVE  Fills(Padded(head, digits, width, zero, left), head, digits, width)
<1> DEFINE h == Len(head)
           d == Len(digits)
           gap == width - h - d
           k == IF gap > 0 THEN gap ELSE 0
           text == Padded(head, digits, width, zero, left)
           blanks == put_pad(SPACE, gap)
           zeros == put_pad(0, gap)
<1>1. h \in Nat /\ d \in Nat /\ gap \in Int /\ k \in Nat /\ k + h + d >= width /\ (k + h + d > width => k = 0)
  <2>1. h \in Nat /\ d \in Nat
    BY LenProperties
  <2> HIDE DEF h, d
  <2> QED BY <2>1
<1>2. /\ blanks \in Seq(Nat) /\ Len(blanks) = k /\ \A i \in 1 .. k : blanks[i] = SPACE
      /\ zeros \in Seq(Nat) /\ Len(zeros) = k /\ \A i \in 1 .. k : zeros[i] = 0
  <2>1. SPACE \in Nat /\ 0 \in Nat
    BY DEF SPACE
  <2> HIDE DEF gap
  <2> QED BY <1>1, <2>1, PadFacts
<1>3. text = IF left THEN head \o digits \o blanks
             ELSE IF zero THEN head \o zeros \o digits ELSE blanks \o head \o digits
  BY DEF Padded
<1> HIDE DEF k, text, blanks, zeros, gap
<1>4. CASE left
  <2>1. text = head \o digits \o blanks
    BY <1>3, <1>4
  <2>2. /\ text \in Seq(Nat) /\ Len(text) = h + d + k
        /\ \A i \in 1 .. h : text[i] = head[i]
        /\ \A i \in 1 .. d : text[h + i] = digits[i]
        /\ \A i \in 1 .. k : text[h + d + i] = blanks[i]
    <3>1. Joined(text, head, digits, blanks)
      BY <1>2, <2>1, ThreeParts
    <3> QED BY <1>2, <3>1 DEF Joined
  <2>3. Laid(text, head, digits, 0, 0, k)
    <3> HIDE DEF h, d
    <3>1. /\ Len(text) = 0 + h + 0 + d + k
          /\ \A i \in 1 .. h : text[0 + i] = head[i]
          /\ \A i \in 1 .. d : text[0 + h + 0 + i] = digits[i]
          /\ \A i \in 1 .. k : text[0 + h + 0 + d + i] = SPACE
      <4>1. /\ 0 + h + 0 = h /\ 0 + h + 0 + d = h + d /\ 0 + h + 0 + d + k = h + d + k
            /\ 0 + h = h /\ 0 + h + k = h + k /\ 0 + h + k + d + 0 = h + k + d
            /\ k + h + 0 = k + h /\ k + h + 0 + d + 0 = k + h + d
            /\ \A i \in 1 .. h : 0 + i = i
        BY <1>1
      <4> QED BY <1>2, <2>2, <4>1
    <3>2. \A i \in 1 .. 0 : FALSE
      OBVIOUS
    <3> QED BY <1>1, <2>2, <3>1, <3>2 DEF Laid, h, d
  <2>4. Len(text) >= width /\ (Len(text) > width => 0 = 0 /\ k = 0)
    BY <1>1, <2>2
  <2> QED BY <2>3, <2>4 DEF Fills, text
<1>5. CASE ~left /\ zero
  <2>1. text = head \o zeros \o digits
    BY <1>3, <1>5
  <2>2. /\ text \in Seq(Nat) /\ Len(text) = h + k + d
        /\ \A i \in 1 .. h : text[i] = head[i]
        /\ \A i \in 1 .. k : text[h + i] = zeros[i]
        /\ \A i \in 1 .. d : text[h + k + i] = digits[i]
    <3>1. Joined(text, head, zeros, digits)
      BY <1>2, <2>1, ThreeParts
    <3> QED BY <1>2, <3>1 DEF Joined
  <2>3. Laid(text, head, digits, 0, k, 0)
    <3> HIDE DEF h, d
    <3>1. /\ Len(text) = 0 + h + k + d + 0
          /\ \A i \in 1 .. h : text[0 + i] = head[i]
          /\ \A i \in 1 .. k : text[0 + h + i] = 0
          /\ \A i \in 1 .. d : text[0 + h + k + i] = digits[i]
      <4>1. /\ 0 + h + 0 = h /\ 0 + h + 0 + d = h + d /\ 0 + h + 0 + d + k = h + d + k
            /\ 0 + h = h /\ 0 + h + k = h + k /\ 0 + h + k + d + 0 = h + k + d
            /\ k + h + 0 = k + h /\ k + h + 0 + d + 0 = k + h + d
            /\ \A i \in 1 .. h : 0 + i = i
        BY <1>1
      <4> QED BY <1>2, <2>2, <4>1
    <3>2. \A i \in 1 .. 0 : FALSE
      OBVIOUS
    <3> QED BY <1>1, <2>2, <3>1, <3>2 DEF Laid, h, d
  <2>4. Len(text) >= width
    BY <1>1, <2>2
  <2> QED BY <2>3, <2>4 DEF Fills, text
<1>6. CASE ~left /\ ~zero
  <2>1. text = blanks \o head \o digits
    BY <1>3, <1>6
  <2>2. /\ text \in Seq(Nat) /\ Len(text) = k + h + d
        /\ \A i \in 1 .. k : text[i] = blanks[i]
        /\ \A i \in 1 .. h : text[k + i] = head[i]
        /\ \A i \in 1 .. d : text[k + h + i] = digits[i]
    <3>1. Joined(text, blanks, head, digits)
      BY <1>2, <2>1, ThreeParts
    <3> QED BY <1>2, <3>1 DEF Joined
  <2>3. Laid(text, head, digits, k, 0, 0)
    <3> HIDE DEF h, d
    <3>1. /\ Len(text) = k + h + 0 + d + 0
          /\ \A i \in 1 .. k : text[i] = SPACE
          /\ \A i \in 1 .. d : text[k + h + 0 + i] = digits[i]
      <4>1. /\ 0 + h + 0 = h /\ 0 + h + 0 + d = h + d /\ 0 + h + 0 + d + k = h + d + k
            /\ 0 + h = h /\ 0 + h + k = h + k /\ 0 + h + k + d + 0 = h + k + d
            /\ k + h + 0 = k + h /\ k + h + 0 + d + 0 = k + h + d
            /\ \A i \in 1 .. h : 0 + i = i
        BY <1>1
      <4> QED BY <1>2, <2>2, <4>1
    <3>2. \A i \in 1 .. 0 : FALSE
      OBVIOUS
    <3> QED BY <1>1, <2>2, <3>1, <3>2 DEF Laid, h, d
  <2>4. Len(text) >= width /\ (Len(text) > width => k = 0 /\ 0 = 0)
    BY <1>1, <2>2
  <2> QED BY <2>3, <2>4 DEF Fills, text
<1> QED BY <1>4, <1>5, <1>6

(* A head: bl blanks, sg characters of sign, x of prefix. *)
Headed(head, base, bl, sg, x) ==
  /\ head \in Seq(Nat) /\ bl \in Nat /\ sg \in {0, 1} /\ x \in {0, 2} /\ Len(head) = bl + sg + x
  /\ \A i \in 1 .. bl : head[i] = SPACE
  /\ \A i \in bl + 1 .. Len(head) : head[i] # SPACE
  /\ sg = 1 => head[bl + 1] \in {MINUS, PLUS}
  /\ x = 2 => base = 16 /\ head[bl + sg + 1] = 0 /\ head[bl + sg + 2] = LETTER_X

LEMMA HeadFacts ==
  ASSUME NEW base \in Bases
  PROVE  /\ Headed(<<>>, base, 0, 0, 0) /\ Headed(<<SPACE>>, base, 1, 0, 0)
         /\ Headed(<<MINUS>>, base, 0, 1, 0) /\ Headed(<<PLUS>>, base, 0, 1, 0)
         /\ base = 16 => Headed(<<0, LETTER_X>>, base, 0, 0, 2)
<1>1. Headed(<<>>, base, 0, 0, 0)
  BY DEF Headed
<1>2. Headed(<<SPACE>>, base, 1, 0, 0)
  BY DEF Headed, SPACE
<1>3. Headed(<<MINUS>>, base, 0, 1, 0)
  BY DEF Headed, MINUS, SPACE
<1>4. Headed(<<PLUS>>, base, 0, 1, 0)
  BY DEF Headed, PLUS, SPACE
<1>5. base = 16 => Headed(<<0, LETTER_X>>, base, 0, 0, 2)
  BY DEF Headed, LETTER_X, SPACE
<1> QED BY <1>1, <1>2, <1>3, <1>4, <1>5

(* What is laid out so is read back. *)
LEMMA LaidReads ==
  ASSUME NEW base \in Bases, NEW text, NEW head, NEW digits, NEW sp, NEW z, NEW t, NEW bl, NEW sg, NEW x, NEW n,
         Laid(text, head, digits, sp, z, t), Headed(head, base, bl, sg, x), Numeral(digits, base, n)
  PROVE  strtoull(text, base).value = Negated(sg = 1 /\ head[bl + 1] = MINUS, n)
<1> DEFINE h == Len(head)
           d == Len(digits)
           f == sp + h + 1
           l == sp + h + 1 + z + d
           c == sp + bl
<1>1. /\ text \in Seq(Nat) /\ sp \in Nat /\ z \in Nat /\ t \in Nat /\ Len(text) = sp + h + z + d + t
      /\ \A i \in 1 .. sp : text[i] = SPACE
      /\ \A i \in 1 .. h : text[sp + i] = head[i]
      /\ \A i \in 1 .. z : text[sp + h + i] = 0
      /\ \A i \in 1 .. d : text[sp + h + z + i] = digits[i]
      /\ \A i \in 1 .. t : text[sp + h + z + d + i] = SPACE
  BY DEF Laid
<1>2. /\ bl \in Nat /\ sg \in {0, 1} /\ x \in {0, 2} /\ h = bl + sg + x /\ h \in Nat
      /\ \A i \in 1 .. bl : head[i] = SPACE
      /\ sg = 1 => head[bl + 1] \in {MINUS, PLUS}
      /\ x = 2 => base = 16 /\ head[bl + sg + 1] = 0 /\ head[bl + sg + 2] = LETTER_X
  BY DEF Headed
<1>3. /\ d \in Nat \ {0} /\ base \in Nat \ {0} /\ digits \in Seq(Nat)
      /\ \A i \in 1 .. d : digits[i] \in 0 .. base - 1
  <2>1. base \in Nat \ {0}
    BY DEF Bases
  <2>2. digits \in Seq(0 .. base - 1) /\ d \in Nat \ {0}
    BY DEF Numeral
  <2>3. \A i \in 1 .. d : digits[i] \in 0 .. base - 1
    BY <2>2, ElementOfSeq
  <2>4. digits \in Seq(Nat)
    BY DEF Laid
  <2> QED BY <2>1, <2>2, <2>3, <2>4
<1> HIDE DEF h, d
<1>4. Layout(text, base, c, sg, x, f, l)
  <2>1. f = c + sg + x + 1 /\ f < l /\ l \in Nat /\ l <= Len(text) + 1 /\ c \in Nat
    BY <1>1, <1>2, <1>3
  <2>2. ASSUME NEW i \in 1 .. c PROVE text[i] = SPACE
    <3>1. CASE i <= sp
      BY <1>1, <3>1
    <3>2. CASE ~(i <= sp)
      <4> DEFINE j == i - sp
      <4>1. j \in 1 .. bl /\ sp + j = i
        BY <1>1, <1>2, <3>2
      <4>2. j \in 1 .. h
        BY <1>2, <4>1
      <4> HIDE DEF j
      <4> QED BY <1>1, <1>2, <4>1, <4>2
    <3> QED BY <3>1, <3>2
  <2>3. sg = 1 => text[c + 1] = head[bl + 1]
    <3>1. sg = 1 => bl + 1 \in 1 .. h
      BY <1>2
    <3>2. sp + (bl + 1) = c + 1
      BY <1>1, <1>2
    <3> QED BY <1>1, <3>1, <3>2
  <2>4. x = 2 => text[c + sg + 1] = head[bl + sg + 1] /\ text[c + sg + 2] = head[bl + sg + 2]
    <3>1. x = 2 => bl + sg + 1 \in 1 .. h /\ bl + sg + 2 \in 1 .. h
      BY <1>2
    <3>2. sp + (bl + sg + 1) = c + sg + 1 /\ sp + (bl + sg + 2) = c + sg + 2
      BY <1>1, <1>2
    <3> QED BY <1>1, <3>1, <3>2, SMTT(60)
  <2>5. ASSUME NEW i \in f .. l - 1 PROVE text[i] < base
    <3>1. CASE i < f + z
      <4> DEFINE j == i - (sp + h)
      <4>1. j \in 1 .. z /\ sp + h + j = i
        BY <1>1, <1>2, <3>1
      <4> HIDE DEF j
      <4>2. text[i] = 0
        BY <1>1, <4>1
      <4> QED BY <1>3, <4>2
    <3>2. CASE ~(i < f + z)
      <4> DEFINE j == i - (sp + h + z)
      <4>1. j \in 1 .. d /\ sp + h + z + j = i
        BY <1>1, <1>2, <1>3, <3>2
      <4> HIDE DEF j
      <4>2. text[i] = digits[j] /\ digits[j] \in 0 .. base - 1
        BY <1>1, <1>3, <4>1
      <4> QED BY <1>3, <4>2
    <3> QED BY <3>1, <3>2
  <2>6. l <= Len(text) => text[l] = SPACE
    <3>1. sp + h + z + d + 1 = l
      BY <1>1, <1>2, <1>3
    <3>2. l <= Len(text) => 1 \in 1 .. t
      BY <1>1, <1>2, <1>3
    <3> QED BY <1>1, <3>1, <3>2
  <2> HIDE DEF c, f, l
  <2> QED BY <1>1, <1>2, <2>1, <2>2, <2>3, <2>4, <2>5, <2>6 DEF Layout
<1>5. Means(text, f, l, base, n)
  <2>1. Means(digits, 1, d + 1, base, n)
    BY DEF Numeral, d
  <2>2. f \in Nat
    BY <1>1, <1>2
  <2>3. ASSUME NEW i \in f .. f + z - 1 PROVE text[i] = 0
    <3> DEFINE j == i - (sp + h)
    <3>1. j \in 1 .. z /\ sp + h + j = i
      BY <1>1, <1>2
    <3> HIDE DEF j
    <3> QED BY <1>1, <3>1
  <2>4. ASSUME NEW i \in 1 .. d PROVE text[f + z + i - 1] = digits[i]
    <3>1. f + z + i - 1 = sp + h + z + i
      BY <1>1, <1>2, <1>3
    <3> QED BY <1>1, <3>1
  <2>5. base \in Nat /\ z \in Nat
    BY <1>1, <1>3
  <2> HIDE DEF f
  <2>6. Means(text, f, f + z + d, base, n)
    BY <1>3, <2>1, <2>2, <2>3, <2>4, <2>5, MeansBehindZeros DEF d
  <2> QED BY <2>6 DEF f
<1>6. strtoull(text, base).value = Negated(sg = 1 /\ text[c + 1] = MINUS, n)
  <2> HIDE DEF c, f, l
  <2> QED BY <1>4, <1>5, ReadFacts
<1>7. (sg = 1 /\ text[c + 1] = MINUS) = (sg = 1 /\ head[bl + 1] = MINUS)
  <2>1. sg = 1 => bl + 1 \in 1 .. h
    BY <1>2
  <2>2. sp + (bl + 1) = c + 1
    BY <1>1, <1>2
  <2> HIDE DEF c
  <2>3. sg = 1 => text[c + 1] = head[bl + 1]
    BY <1>1, <2>1, <2>2
  <2> QED BY <2>3
<1> HIDE DEF c
<1> QED BY <1>6, <1>7

(* Such a text reads back as the number. *)
LEMMA FillsReadsBack ==
  ASSUME NEW base \in Bases, NEW text, NEW head, NEW digits, NEW width \in Nat, NEW bl, NEW sg, NEW x, NEW n,
         Fills(text, head, digits, width), Headed(head, base, bl, sg, x), Numeral(digits, base, n),
         NEW v, v = Negated(sg = 1 /\ head[bl + 1] = MINUS, n), NEW blanks \in Nat, bl <= blanks
  PROVE  ReadsBack(text, v, base, width, blanks)
<1>1. PICK sp, z, t : /\ Laid(text, head, digits, sp, z, t) /\ Len(text) >= width
                      /\ Len(text) > width => sp = 0 /\ t = 0
  BY DEF Fills
<1>2. strtoull(text, base).value = v
  BY <1>1, LaidReads
<1>3. ASSUME Len(text) > width, NEW i \in DOMAIN text, text[i] = SPACE PROVE i \in 1 .. blanks
  <2> DEFINE h == Len(head)
             d == Len(digits)
  <2>1. /\ text \in Seq(Nat) /\ z \in Nat /\ Len(text) = 0 + h + z + d + 0
        /\ \A j \in 1 .. h : text[0 + j] = head[j]
        /\ \A j \in 1 .. z : text[0 + h + j] = 0
        /\ \A j \in 1 .. d : text[0 + h + z + j] = digits[j]
    BY <1>1, <1>3 DEF Laid
  <2>2. bl \in Nat /\ h \in Nat /\ \A j \in bl + 1 .. h : head[j] # SPACE
    BY DEF Headed
  <2>3. d \in Nat /\ \A j \in 1 .. d : digits[j] # SPACE
    <3>1. digits \in Seq(0 .. base - 1)
      BY DEF Numeral
    <3>2. d \in Nat /\ \A j \in 1 .. d : digits[j] \in 0 .. base - 1
      BY <3>1, ElementOfSeq, LenProperties
    <3>3. \A j \in 0 .. base - 1 : j # 102
      BY DEF Bases
    <3> QED BY <3>2, <3>3 DEF SPACE
  <2>4. i \in 1 .. Len(text)
    BY <2>1, LenProperties
  <2> HIDE DEF h, d
  <2>5. CASE i <= h
    <3>1. i \in 1 .. h /\ 0 + i = i
      BY <2>2, <2>4, <2>5
    <3>2. head[i] = SPACE
      BY <1>3, <2>1, <3>1
    <3>3. ~(i \in bl + 1 .. h)
      BY <2>2, <3>2
    <3> QED BY <2>2, <3>1, <3>3
  <2>6. CASE ~(i <= h) /\ i <= h + z
    <3> DEFINE j == i - h
    <3>1. j \in 1 .. z /\ 0 + h + j = i
      BY <2>1, <2>2, <2>4, <2>6
    <3> HIDE DEF j
    <3>2. text[i] = 0
      BY <2>1, <3>1
    <3> QED BY <1>3, <3>2 DEF SPACE
  <2>7. CASE ~(i <= h + z)
    <3> DEFINE j == i - (h + z)
    <3>1. j \in 1 .. d /\ 0 + h + z + j = i
      BY <2>1, <2>2, <2>3, <2>4, <2>7
    <3> HIDE DEF j
    <3>2. text[i] = digits[j]
      BY <2>1, <3>1
    <3> QED BY <1>3, <2>3, <3>1, <3>2
  <2> QED BY <2>2, <2>5, <2>6, <2>7
<1>4. Len(text) >= width
  BY <1>1
<1> QED BY <1>2, <1>3, <1>4 DEF ReadsBack

(* The sign and the magnitude make the number again. *)
LEMMA NegatedFacts ==
  ASSUME NEW v \in Longs
  PROVE  Negated(Signed(v) < 0, Magnitude(v)) = v
<1>1. CASE Signed(v) < 0
  <2> DEFINE m == Magnitude(v)
  <2>1. m \in Longs /\ m = -Signed(v) /\ v \in Nat /\ v < Long /\ Long \in Nat \ {0}
    BY <1>1, SignedFacts, LongFacts, WordFacts
  <2>2. Signed(v) = v \/ Signed(v) = v - Long
    BY DEF Signed
  <2>3. 0 - m = v - Long
    BY <1>1, <2>1, <2>2
  <2> HIDE DEF m
  <2>4. 0 - m \in Int /\ v \in 0 .. Long - 1 /\ 0 - m = Long * (-1) + v /\ -1 \in Int
    BY <2>1, <2>3
  <2>5. (0 - m) % Long = v
    BY ONLY <2>1, <2>4, EuclidAt
  <2> QED BY <1>1, <2>5 DEF Negated, m
<1>2. CASE ~(Signed(v) < 0)
  <2>1. Magnitude(v) = v
    BY <1>2 DEF Magnitude
  <2> QED BY <1>2, <2>1 DEF Negated
<1> QED BY <1>1, <1>2

LEMMA NumeralIsText ==
  ASSUME NEW base \in Bases, NEW d, NEW n, Numeral(d, base, n)
  PROVE  d \in Seq(Nat) /\ Len(d) \in Nat \ {0}
<1>1. d \in Seq(0 .. base - 1) /\ Len(d) \in Nat \ {0} /\ 0 .. base - 1 \subseteq Nat
  BY DEF Numeral, Bases
<1> QED BY <1>1, SeqMonotonic

(* A zero before the digits changes nothing. *)
LEMMA ZeroBefore ==
  ASSUME NEW base \in Bases, NEW d, NEW n, Numeral(d, base, n)
  PROVE  Numeral(<<0>> \o d, base, n)
<1> DEFINE e == <<0>> \o d
           k == Len(d)
<1>1. d \in Seq(Nat) /\ d \in Seq(0 .. base - 1) /\ k \in Nat \ {0} /\ base \in Nat \ {0} /\ Means(d, 1, k + 1, base, n)
  <2>1. d \in Seq(Nat) /\ k \in Nat \ {0}
    BY NumeralIsText
  <2>2. d \in Seq(0 .. base - 1) /\ Means(d, 1, k + 1, base, n)
    BY DEF Numeral
  <2>3. base \in Nat \ {0}
    BY DEF Bases
  <2> QED BY <2>1, <2>2, <2>3
<1>2. <<0>> \in Seq(Nat) /\ <<0>> \in Seq(0 .. base - 1) /\ Len(<<0>>) = 1 /\ <<0>>[1] = 0
  BY <1>1
<1>3. e \in Seq(0 .. base - 1)
  BY <1>1, <1>2, ConcatProperties
<1>4. /\ Len(e) = 1 + k
      /\ \A i \in 1 .. 1 : e[i] = <<0>>[i]
      /\ \A i \in 1 .. k : e[1 + i] = d[i]
  BY <1>1, <1>2, TwoParts
<1> HIDE DEF e, k
<1>5. \A i \in 1 .. 1 + 1 - 1 : e[i] = 0
  BY <1>2, <1>4
<1>6. ASSUME NEW i \in 1 .. k PROVE e[1 + 1 + i - 1] = d[i]
  <2>1. 1 + 1 + i - 1 = 1 + i
    BY <1>1
  <2> QED BY <1>4, <2>1
<1>7. Means(e, 1, 1 + 1 + k, base, n)
  <2>1. 1 \in Nat /\ base \in Nat
    BY <1>1
  <2> QED BY <1>1, <1>5, <1>6, <2>1, MeansBehindZeros DEF k
<1>8. 1 + 1 + k = Len(e) + 1 /\ Len(e) \in Nat \ {0}
  BY <1>1, <1>4
<1> QED BY <1>3, <1>7, <1>8 DEF Numeral, e

(* %u, %x and %o. *)
LEMMA FormatUFacts ==
  ASSUME NEW v \in Longs, NEW base \in Bases, NEW width \in Nat,
         NEW zero \in BOOLEAN, NEW left \in BOOLEAN, NEW alt \in BOOLEAN
  PROVE  /\ ReadsBack(put_uint(v, base, width, zero, left, alt), v, base, width, 0)
         /\ put_uint(v, base, width, zero, left, alt) \in Seq(Nat)
<1> DEFINE head == IF alt /\ base = 16 THEN <<0, LETTER_X>> ELSE <<>>
           digits == (IF v = 0 /\ base = 8 /\ alt THEN <<0>> ELSE <<>>) \o Digits(v, base)
           x == IF alt /\ base = 16 THEN 2 ELSE 0
           text == put_uint(v, base, width, zero, left, alt)
<1>1. Numeral(digits, base, v)
  <2> DEFINE d == Digits(v, base)
  <2>1. Numeral(d, base, v)
    BY DigitsFacts
  <2>2. d \in Seq(Nat)
    BY <2>1, NumeralIsText
  <2> HIDE DEF d
  <2>3. Numeral(<<0>> \o d, base, v)
    BY <2>1, ZeroBefore
  <2>4. <<>> \o d = d
    BY <2>2, ConcatEmptySeq
  <2>5. Numeral((IF v = 0 /\ base = 8 /\ alt THEN <<0>> ELSE <<>>) \o d, base, v)
    BY <2>1, <2>3, <2>4
  <2> QED BY <2>5 DEF d
<1>2. Headed(head, base, 0, 0, x)
  <2>1. CASE alt /\ base = 16
    BY <2>1, HeadFacts
  <2>2. CASE ~(alt /\ base = 16)
    BY <2>2, HeadFacts
  <2> QED BY <2>1, <2>2
<1>3. text = Padded(head, digits, width, zero, left)
  BY DEF put_uint
<1> HIDE DEF head, digits, x, text
<1>4. head \in Seq(Nat) /\ digits \in Seq(Nat)
  BY <1>1, <1>2, NumeralIsText DEF Headed
<1>5. Fills(text, head, digits, width)
  BY <1>3, <1>4, PaddedFacts
<1>6. v = Negated(0 = 1 /\ head[0 + 1] = MINUS, v)
  BY DEF Negated
<1>7. ReadsBack(text, v, base, width, 0)
  <2>1. 0 \in Nat /\ 0 <= 0
    OBVIOUS
  <2> QED BY <1>1, <1>2, <1>5, <1>6, <2>1, FillsReadsBack
<1>8. text \in Seq(Nat)
  BY <1>5 DEF Fills, Laid
<1> QED BY <1>7, <1>8 DEF text

(* %d. *)
LEMMA FormatDFacts ==
  ASSUME NEW v \in Longs, NEW width \in Nat, NEW zero \in BOOLEAN, NEW left \in BOOLEAN,
         NEW sign \in {<<>>, <<PLUS>>, <<SPACE>>}
  PROVE  ReadsBack(do_format_d(v, width, zero, left, sign), v, 10, width, IF sign = <<SPACE>> THEN 1 ELSE 0)
<1> DEFINE neg == Signed(v) < 0
           head == IF neg THEN <<MINUS>> ELSE sign
           n == Magnitude(v)
           digits == Digits(n, 10)
           blanks == IF sign = <<SPACE>> THEN 1 ELSE 0
           text == do_format_d(v, width, zero, left, sign)
<1>0. 10 \in Bases
  BY DEF Bases
<1>1. Numeral(digits, 10, n)
  BY <1>0, SignedFacts, DigitsFacts
<1>2. text = Padded(head, digits, width, zero, left)
  BY DEF do_format_d
<1>3. blanks \in Nat /\ 0 <= blanks
  OBVIOUS
<1>4. v = Negated(neg, n)
  BY NegatedFacts
<1>5. \E bl \in 0 .. blanks, sg \in {0, 1} :
        Headed(head, 10, bl, sg, 0) /\ ((sg = 1 /\ head[bl + 1] = MINUS) = neg)
  <2>1. CASE neg
    <3>1. head = <<MINUS>> /\ head[0 + 1] = MINUS
      BY <2>1
    <3>2. Headed(head, 10, 0, 1, 0)
      BY <1>0, <3>1, HeadFacts
    <3>3. 0 \in 0 .. blanks /\ ((1 = 1 /\ head[0 + 1] = MINUS) = neg)
      BY <1>3, <2>1, <3>1
    <3> HIDE DEF head, blanks, neg
    <3> QED BY <3>2, <3>3
  <2>2. CASE ~neg /\ sign = <<>>
    <3>1. Headed(head, 10, 0, 0, 0)
      BY <1>0, <2>2, HeadFacts
    <3>2. 0 \in 0 .. blanks /\ ((0 = 1 /\ head[0 + 1] = MINUS) = neg)
      BY <1>3, <2>2
    <3> HIDE DEF head, blanks, neg
    <3> QED BY <3>1, <3>2
  <2>3. CASE ~neg /\ sign = <<PLUS>>
    <3>1. head = <<PLUS>> /\ head[0 + 1] # MINUS
      BY <2>3 DEF PLUS, MINUS
    <3>2. Headed(head, 10, 0, 1, 0)
      BY <1>0, <3>1, HeadFacts
    <3>3. 0 \in 0 .. blanks /\ ((1 = 1 /\ head[0 + 1] = MINUS) = neg)
      BY <1>3, <2>3, <3>1
    <3> HIDE DEF head, blanks, neg
    <3> QED BY <3>2, <3>3
  <2>4. CASE ~neg /\ sign = <<SPACE>>
    <3>1. Headed(head, 10, 1, 0, 0)
      BY <1>0, <2>4, HeadFacts
    <3>2. 1 \in 0 .. blanks /\ ((0 = 1 /\ head[1 + 1] = MINUS) = neg)
      BY <2>4
    <3> HIDE DEF head, blanks, neg
    <3> QED BY <3>1, <3>2
  <2> QED BY <2>1, <2>2, <2>3, <2>4
<1> HIDE DEF neg, head, digits, blanks, text, n
<1>6. PICK bl \in 0 .. blanks, sg \in {0, 1} :
        Headed(head, 10, bl, sg, 0) /\ ((sg = 1 /\ head[bl + 1] = MINUS) = neg)
  BY <1>5
<1>7. head \in Seq(Nat) /\ digits \in Seq(Nat)
  BY <1>0, <1>1, <1>6, NumeralIsText DEF Headed
<1>8. Fills(text, head, digits, width)
  BY <1>2, <1>7, PaddedFacts
<1>9. v = Negated(sg = 1 /\ head[bl + 1] = MINUS, n)
  BY <1>4, <1>6
<1>10. ReadsBack(text, v, 10, width, blanks)
  BY <1>0, <1>1, <1>3, <1>6, <1>8, <1>9, FillsReadsBack
<1> QED BY <1>10 DEF text, blanks

LEMMA BackwardsFacts ==
  ASSUME NEW s \in Seq(Nat)
  PROVE  /\ Backwards(s) \in Seq(Nat) /\ Len(Backwards(s)) = Len(s) /\ Len(s) \in Nat
         /\ \A i \in 1 .. Len(s) : Backwards(s)[i] = s[Len(s) - i + 1]
<1> DEFINE k == Len(s)
           b == [i \in 1 .. k |-> s[k - i + 1]]
<1>1. k \in Nat /\ \A i \in 1 .. k : s[i] \in Nat
  BY LenProperties, ElementOfSeq
<1>2. Backwards(s) = b
  BY DEF Backwards
<1> HIDE DEF k
<1>3. \A i \in 1 .. k : s[k - i + 1] \in Nat
  <2>1. \A i \in 1 .. k : k - i + 1 \in 1 .. k
    BY <1>1
  <2> QED BY <1>1, <2>1
<1>4. b \in Seq(Nat) /\ Len(b) = k
  BY <1>1, <1>3
<1>5. \A i \in 1 .. k : b[i] = s[k - i + 1]
  OBVIOUS
<1> HIDE DEF b
<1> QED BY <1>1, <1>2, <1>4, <1>5 DEF k

(* Digits backwards with a sign behind, backwards again. *)
LEMMA TwiceBackwards ==
  ASSUME NEW d \in Seq(Nat), NEW e \in {<<>>, <<MINUS>>}
  PROVE  Fills(Backwards(Backwards(d) \o e), e, d, 0)
<1> DEFINE k == Len(d)
           h == Len(e)
           r == Backwards(d)
           c == r \o e
           text == Backwards(c)
<1>1. e \in Seq(Nat) /\ h \in {0, 1} /\ (h = 1 => e[1] = MINUS) /\ h \in Nat
  <2>1. CASE e = <<>>
    BY <2>1
  <2>2. CASE e = <<MINUS>>
    BY <2>2 DEF MINUS
  <2> QED BY <2>1, <2>2
<1>2. r \in Seq(Nat) /\ Len(r) = k /\ k \in Nat /\ \A i \in 1 .. k : r[i] = d[k - i + 1]
  BY BackwardsFacts
<1> HIDE DEF r, h, k
<1>3. /\ c \in Seq(Nat) /\ Len(c) = k + h
      /\ \A i \in 1 .. k : c[i] = r[i]
      /\ \A i \in 1 .. h : c[k + i] = e[i]
  <2>1. r \in Seq(Nat) /\ e \in Seq(Nat)
    BY <1>1, <1>2
  <2>2. /\ c \in Seq(Nat) /\ Len(c) = Len(r) + Len(e)
        /\ \A i \in 1 .. Len(r) : c[i] = r[i]
        /\ \A i \in 1 .. Len(e) : c[Len(r) + i] = e[i]
    BY ONLY <2>1, TwoParts
  <2> HIDE DEF c
  <2> QED BY <1>2, <2>2 DEF h
<1> HIDE DEF c
<1>4. text \in Seq(Nat) /\ Len(text) = k + h /\ \A i \in 1 .. k + h : text[i] = c[(k + h) - i + 1]
  <2>1. /\ text \in Seq(Nat) /\ Len(text) = Len(c)
        /\ \A i \in 1 .. Len(c) : text[i] = c[Len(c) - i + 1]
    BY <1>3, BackwardsFacts
  <2> HIDE DEF text
  <2>2. Len(c) = k + h
    BY <1>3
  <2> QED BY ONLY <2>1, <2>2, Zenon
<1> HIDE DEF text
<1>5. ASSUME NEW i \in 1 .. h PROVE text[0 + i] = e[i]
  <2>1. i = 1 /\ h = 1 /\ 1 \in 1 .. k + h /\ (k + h) - 1 + 1 = k + 1 /\ 0 + i = 1
    BY <1>1, <1>2
  <2>2. text[1] = c[k + 1]
    BY <1>4, <2>1
  <2> QED BY <1>3, <2>1, <2>2
<1>6. ASSUME NEW i \in 1 .. k PROVE text[0 + h + 0 + i] = d[i]
  <2> DEFINE j == k - i + 1
             p == h + i
  <2>1. 0 + h + 0 + i = p /\ p \in 1 .. k + h /\ (k + h) - p + 1 = j /\ j \in 1 .. k /\ k - j + 1 = i
    BY <1>1, <1>2
  <2> HIDE DEF j, p
  <2>2. text[p] = c[j] /\ c[j] = r[j] /\ r[j] = d[i]
    BY <1>2, <1>3, <1>4, <2>1
  <2> QED BY <2>1, <2>2
<1>7. Len(text) = 0 + h + 0 + k + 0 /\ Len(text) >= 0
  BY <1>1, <1>2, <1>4
<1>8. \A i \in 1 .. 0 : FALSE
  OBVIOUS
<1>9. Laid(text, e, d, 0, 0, 0)
  BY <1>1, <1>4, <1>5, <1>6, <1>7, <1>8 DEF Laid, h, k
<1> QED BY <1>7, <1>9 DEF Fills, text, c, r

LEMMA ItoaFacts ==
  ASSUME NEW v \in Longs
  PROVE  ReadsBack(itoa(v), v, 10, 0, 0)
<1> DEFINE neg == Signed(v) < 0
           n == Magnitude(v)
           d == Digits(n, 10)
           e == IF neg THEN <<MINUS>> ELSE <<>>
           sg == IF neg THEN 1 ELSE 0
<1>0. 10 \in Bases /\ 0 \in Nat /\ 0 <= 0
  BY DEF Bases
<1>1. Numeral(d, 10, n)
  BY <1>0, SignedFacts, DigitsFacts
<1>2. Headed(e, 10, 0, sg, 0) /\ e \in {<<>>, <<MINUS>>} /\ ((sg = 1 /\ e[0 + 1] = MINUS) = neg)
  <2>1. CASE neg
    <3>1. e = <<MINUS>> /\ sg = 1 /\ e[0 + 1] = MINUS
      BY <2>1
    <3> HIDE DEF e, sg
    <3> QED BY <1>0, <2>1, <3>1, HeadFacts
  <2>2. CASE ~neg
    <3>1. e = <<>> /\ sg = 0
      BY <2>2
    <3> HIDE DEF e, sg
    <3> QED BY <1>0, <2>2, <3>1, HeadFacts
  <2> QED BY <2>1, <2>2
<1>3. itoa(v) = Backwards(Backwards(d) \o e)
  BY DEF itoa
<1>4. v = Negated(neg, n)
  BY NegatedFacts
<1> HIDE DEF neg, n, d, e, sg
<1>5. d \in Seq(Nat)
  BY <1>0, <1>1, NumeralIsText
<1>6. Fills(itoa(v), e, d, 0)
  BY <1>2, <1>3, <1>5, TwiceBackwards
<1>7. v = Negated(sg = 1 /\ e[0 + 1] = MINUS, n)
  BY <1>2, <1>4
<1> QED BY <1>0, <1>1, <1>2, <1>6, <1>7, FillsReadsBack

(* Four bytes of a number make the number again. *)
LEMMA HeaderFacts ==
  ASSUME NEW v \in 0 .. Bytes4 - 1
  PROVE  rd32_le(Header(v)) = v
<1> DEFINE B == BYTE
           q1 == v \div B
           q2 == q1 \div B
           q3 == q2 \div B
           r0 == v % B
           r1 == q1 % B
           r2 == q2 % B
<1>1. /\ B \in Nat \ {0, 1} /\ B \in Nat \ {0} /\ Bytes2 = B * B /\ Bytes3 = B * Bytes2 /\ Bytes4 = B * Bytes3
  BY WordAssumption DEF Bytes2, Bytes3, Bytes4
<1> HIDE DEF B
<1>2. Bytes2 \in Nat \ {0} /\ Bytes3 \in Nat \ {0} /\ Bytes4 \in Nat \ {0}
  <2>1. 0 \in 0 .. B - 1
    BY <1>1
  <2>2. Bytes2 \in Nat \ {0}
    BY <1>1, <2>1, MixedRadix
  <2>3. 0 \in 0 .. Bytes2 - 1
    BY <2>2
  <2>4. Bytes3 \in Nat \ {0}
    BY <1>1, <2>1, <2>2, <2>3, MixedRadix
  <2>5. 0 \in 0 .. Bytes3 - 1
    BY <2>4
  <2>6. Bytes4 \in Nat \ {0}
    BY <1>1, <2>1, <2>4, <2>5, MixedRadix
  <2> QED BY <2>2, <2>4, <2>6
<1>3. v \in Nat /\ v < Bytes4
  BY <1>2
<1>4. q1 \in Nat /\ r0 \in Nat /\ v = B * q1 + r0
  BY <1>1, <1>3, DivFacts
<1> HIDE DEF q1, r0
<1>5. q2 \in Nat /\ r1 \in Nat /\ q1 = B * q2 + r1
  BY <1>1, <1>4, DivFacts
<1> HIDE DEF q2, r1
<1>6. q3 \in Nat /\ r2 \in Nat /\ q2 = B * q3 + r2
  BY <1>1, <1>5, DivFacts
<1> HIDE DEF q3, r2
<1>7. v \div Bytes2 = q2
  <2>1. (v \div B) \div B = v \div (B * B)
    <3>1. B \in Nat \ {0} /\ v \in Int
      BY <1>1, <1>3
    <3> QED BY ONLY <3>1, DivDiv
  <2> QED BY <1>1, <2>1 DEF q1, q2
<1>8. v \div Bytes3 = q3
  <2>1. (v \div Bytes2) \div B = v \div (Bytes2 * B)
    BY <1>1, <1>2, <1>3, DivDiv
  <2>2. Bytes2 * B = Bytes3
    BY <1>1, <1>2
  <2> QED BY <1>7, <2>1, <2>2 DEF q3
<1>9. v = r0 + r1 * B + r2 * Bytes2 + q3 * Bytes3
  <2>1. B * q2 = Bytes2 * q3 + B * r2 /\ Bytes2 * q3 \in Nat /\ B * r2 \in Nat
    BY <1>1, <1>2, <1>6
  <2>2. B * q1 = B * (Bytes2 * q3) + B * (B * r2) + B * r1
    <3> DEFINE x == Bytes2 * q3
               y == B * r2
    <3>1. x \in Nat /\ y \in Nat /\ q1 = x + y + r1
      BY <1>5, <2>1
    <3> HIDE DEF x, y
    <3>2. B * (x + y + r1) = B * x + B * y + B * r1
      BY <1>1, <1>5, <3>1
    <3> QED BY <3>1, <3>2 DEF x, y
  <2>3. B * (Bytes2 * q3) = q3 * Bytes3 /\ B * (B * r2) = r2 * Bytes2 /\ B * r1 = r1 * B
    BY <1>1, <1>2, <1>5, <1>6
  <2>4. q3 * Bytes3 \in Nat /\ r2 * Bytes2 \in Nat /\ r1 * B \in Nat
    BY <1>1, <1>2, <1>5, <1>6
  <2> QED BY <1>4, <2>2, <2>3, <2>4
<1>10. q3 < B
  <2>1. SUFFICES ASSUME B <= q3 PROVE FALSE
    BY <1>1, <1>6
  <2>2. Bytes3 * B <= Bytes3 * q3
    BY <1>1, <1>2, <1>6, <2>1, MulMono
  <2>3. Bytes3 * B = Bytes4 /\ Bytes3 * q3 = q3 * Bytes3
    BY <1>1, <1>2, <1>6
  <2>4. q3 * Bytes3 \in Nat /\ r2 * Bytes2 \in Nat /\ r1 * B \in Nat
    BY <1>1, <1>2, <1>5, <1>6
  <2> QED BY <1>2, <1>3, <1>4, <1>9, <2>2, <2>3, <2>4
<1>11. q3 % B = q3
  BY <1>1, <1>6, <1>10
<1>12. Header(v) = <<r0, r1, r2, q3>>
  BY <1>7, <1>8, <1>11 DEF Header, r0, r1, r2, q1, B
<1>13. rd32_le(Header(v)) = r0 + r1 * BYTE + r2 * Bytes2 + q3 * Bytes3
  BY <1>12 DEF rd32_le
<1> QED BY <1>9, <1>13 DEF B

-----------------------------------------------------------------------------
(* The library's answers *)

LibInv ==
  /\ DivisionExact /\ ShiftsExact /\ NumbersReadBack /\ TimeExact
  /\ MoveExact /\ SortStable /\ ArgumentsApart /\ TextFits

(* Each property is about the calls of one kind. *)
LEMMA NoCall ==
  /\ asked'.op # "divide" => DivisionExact'
  /\ asked'.op # "shift" => ShiftsExact'
  /\ asked'.op \notin {"format", "header"} => NumbersReadBack'
  /\ asked'.op \notin {"date", "time"} => TimeExact'
  /\ asked'.op # "memmove" => MoveExact'
  /\ asked'.op # "qsort" => SortStable'
  /\ asked'.op # "args" => ArgumentsApart'
  /\ asked'.op # "snprintf" => TextFits'
<1>1. (asked'.op # "divide" => DivisionExact') /\ (asked'.op # "shift" => ShiftsExact')
  BY DEF DivisionExact, ShiftsExact
<1>2. (asked'.op \notin {"format", "header"} => NumbersReadBack') /\ (asked'.op \notin {"date", "time"} => TimeExact')
  BY DEF NumbersReadBack, TimeExact
<1>3. (asked'.op # "memmove" => MoveExact') /\ (asked'.op # "qsort" => SortStable')
  BY DEF MoveExact, SortStable
<1>4. (asked'.op # "args" => ArgumentsApart') /\ (asked'.op # "snprintf" => TextFits')
  BY DEF ArgumentsApart, TextFits
<1> QED BY <1>1, <1>2, <1>3, <1>4

(* Sorting reorders, in order. *)
LEMMA SortIsStable ==
  ASSUME NEW n \in Nat, NEW a \in [1 .. n -> Item], \A i \in 1 .. n : a[i].tag = i
  PROVE  LET b == qsort(a)
         IN  /\ {b[i] : i \in DOMAIN b} = {a[i] : i \in DOMAIN a}
             /\ Len(b) = Len(a)
             /\ \A i, j \in DOMAIN b : i < j => \/ b[i].key < b[j].key
                                                \/ b[i].key = b[j].key /\ b[i].tag < b[j].tag
<1> DEFINE b == qsort(a)
<1>1. SortedUpTo(a, b, n, n) /\ Len(a) = n
  BY SortFacts
<1> HIDE DEF b
<1>2. /\ b \in [1 .. n -> Item] /\ DOMAIN b = 1 .. n /\ DOMAIN a = 1 .. n
      /\ \A p, q \in 1 .. n : p < q => Before(b[p], b[q])
      /\ \A p \in 1 .. n : \E k \in 1 .. n : b[p] = a[k]
      /\ \A k \in 1 .. n : \E p \in 1 .. n : b[p] = a[k]
  BY <1>1 DEF SortedUpTo
<1>3. Len(b) = n
  BY <1>2
<1>4. {b[i] : i \in DOMAIN b} = {a[i] : i \in DOMAIN a}
  <2>1. ASSUME NEW i \in 1 .. n PROVE b[i] \in {a[k] : k \in 1 .. n}
    BY <1>2
  <2>2. ASSUME NEW k \in 1 .. n PROVE a[k] \in {b[i] : i \in 1 .. n}
    BY <1>2
  <2> QED BY <1>2, <2>1, <2>2
<1>5. \A i, j \in DOMAIN b : i < j => \/ b[i].key < b[j].key
                                      \/ b[i].key = b[j].key /\ b[i].tag < b[j].tag
  BY <1>2, Zenon DEF Before
<1> QED BY <1>1, <1>3, <1>4, <1>5 DEF b

(* One lemma for the calls of each kind: the answer is what it is meant to be. *)
LEMMA DivideKept ==
  ASSUME NEW a \in Longs, NEW b \in Longs, Divide(a, b)
  PROVE  LibInv'
<1>1. asked'.op = "divide" /\ asked'.a = a /\ asked'.b = b /\ answer' = DivisionMeant(a, b)
  BY DivisionIsMeant DEF Divide, Answer
<1>2. DivisionExact'
  BY <1>1 DEF DivisionExact
<1> QED BY <1>1, <1>2, NoCall DEF LibInv

LEMMA ShiftKept ==
  ASSUME NEW u \in Longs, NEW b \in 0 .. 2 * W - 1, Shift(u, b)
  PROVE  LibInv'
<1>1. asked'.op = "shift" /\ asked'.u = u /\ asked'.b = b /\ answer' = ShiftMeant(u, b)
  BY ShiftIsMeant DEF Shift, Answer
<1>2. ShiftsExact'
  BY <1>1 DEF ShiftsExact
<1> QED BY <1>1, <1>2, NoCall DEF LibInv

LEMMA FormatKept ==
  ASSUME asked'.op = "format",
         ReadsBack(answer', asked'.v, asked'.base, asked'.width, asked'.blanks)
  PROVE  LibInv'
<1>1. NumbersReadBack'
  BY DEF NumbersReadBack
<1> QED BY <1>1, NoCall DEF LibInv

LEMMA FormatUKept ==
  ASSUME NEW v \in Longs, NEW base \in {8, 10, 16}, NEW width \in Widths,
         NEW zero \in BOOLEAN, NEW left \in BOOLEAN, NEW alt \in BOOLEAN,
         FormatU(v, base, width, zero, left, alt)
  PROVE  LibInv'
<1> DEFINE text == put_uint(v, base, width, zero, left, alt)
<1>1. base \in Bases /\ width \in Nat
  BY BoundsAssumption DEF Bases
<1>2. ReadsBack(text, v, base, width, 0)
  BY <1>1, FormatUFacts
<1>3. /\ asked' = [op |-> "format", v |-> v, base |-> base, width |-> width, blanks |-> 0]
      /\ answer' = text
  BY DEF FormatU, Answer
<1> HIDE DEF text
<1> QED BY <1>2, <1>3, FormatKept

LEMMA FormatDKept ==
  ASSUME NEW v \in Longs, NEW width \in Widths, NEW zero \in BOOLEAN, NEW left \in BOOLEAN,
         NEW sign \in {<<>>, <<PLUS>>, <<SPACE>>}, FormatD(v, width, zero, left, sign)
  PROVE  LibInv'
<1> DEFINE text == do_format_d(v, width, zero, left, sign)
           blanks == IF sign = <<SPACE>> THEN 1 ELSE 0
<1>1. width \in Nat
  BY BoundsAssumption
<1>2. ReadsBack(text, v, 10, width, blanks)
  BY <1>1, FormatDFacts
<1>3. /\ asked' = [op |-> "format", v |-> v, base |-> 10, width |-> width, blanks |-> blanks]
      /\ answer' = text
  BY DEF FormatD, Answer
<1> HIDE DEF text, blanks
<1> QED BY <1>2, <1>3, FormatKept

LEMMA ItoaKept ==
  ASSUME NEW v \in Longs, Itoa(v)
  PROVE  LibInv'
<1>1. /\ asked' = [op |-> "format", v |-> v, base |-> 10, width |-> 0, blanks |-> 0]
      /\ answer' = itoa(v)
  BY DEF Itoa, Answer
<1>2. ReadsBack(itoa(v), v, 10, 0, 0)
  BY ItoaFacts
<1> QED BY <1>1, <1>2, FormatKept

LEMMA SnprintfKept ==
  ASSUME NEW v \in Longs, NEW cap \in Capacities, Snprintf(v, cap)
  PROVE  LibInv'
<1> DEFINE text == put_uint(v, 10, 0, FALSE, FALSE, FALSE)
           buf == vsnprintf(text, cap)
<1>1. cap \in Nat /\ 10 \in Bases /\ 0 \in Nat /\ FALSE \in BOOLEAN
  BY BoundsAssumption DEF Bases
<1>2. text \in Seq(Nat)
  BY <1>1, FormatUFacts
<1>3. asked' = [op |-> "snprintf", text |-> text, cap |-> cap] /\ answer' = buf
  BY DEF Snprintf, Answer
<1> HIDE DEF text
<1>4. /\ DOMAIN buf \subseteq 0 .. cap - 1
      /\ cap > 0 => \E n \in DOMAIN buf :
           /\ buf[n] = -1 /\ (n = Len(text) \/ n = cap - 1)
           /\ \A i \in 0 .. n - 1 : buf[i] = text[i + 1]
  BY <1>1, <1>2, TextFacts
<1> HIDE DEF buf
<1>5. asked'.op = "snprintf" /\ asked'.text = text /\ asked'.cap = cap
  BY <1>3
<1>6. TextFits'
  BY <1>3, <1>4, <1>5 DEF TextFits
<1> QED BY <1>5, <1>6, NoCall DEF LibInv

LEMMA HeaderKept ==
  ASSUME NEW v \in 0 .. Bytes4 - 1, FlatHeader(v)
  PROVE  LibInv'
<1>1. asked' = [op |-> "header", v |-> v] /\ answer' = v
  BY HeaderFacts DEF FlatHeader, Answer
<1>2. NumbersReadBack'
  BY <1>1 DEF NumbersReadBack
<1> QED BY <1>1, <1>2, NoCall DEF LibInv

LEMMA DateKept ==
  ASSUME NEW day \in Days, Date(day)
  PROVE  LibInv'
<1>1. asked' = [op |-> "date", day |-> day] /\ answer' = localtime(day) /\ day \in Int
  BY BoundsAssumption DEF Date, Answer
<1>2. localtime(day + 1) = Tomorrow(localtime(day))
  BY <1>1, DateFacts
<1>3. TimeExact'
  <2>1. asked'.op = "date" /\ asked'.day = day
    BY <1>1
  <2>2. day = 0 => answer' = [year |-> 1970, month |-> 1, day |-> 1, wday |-> 4]
    BY <1>1, EpochFacts
  <2> QED BY <1>1, <1>2, <2>1, <2>2 DEF TimeExact
<1> QED BY <1>1, <1>3, NoCall DEF LibInv

LEMMA TimeKept ==
  ASSUME NEW secs \in Seconds, Time(secs)
  PROVE  LibInv'
<1> DEFINE t == Clock(secs)
<1>1. asked' = [op |-> "time", secs |-> secs] /\ answer' = t /\ secs \in Int
  BY BoundsAssumption DEF Time, Answer
<1>2. /\ t.days * DAY + t.hour * 3600 + t.min * 60 + t.sec = secs
      /\ t.hour \in 0 .. 23 /\ t.min \in 0 .. 59 /\ t.sec \in 0 .. 59
  BY <1>1, ClockFacts
<1> HIDE DEF t
<1>3. TimeExact'
  <2>1. asked'.op = "time" /\ asked'.secs = secs
    BY <1>1
  <2> QED BY <1>1, <1>2, <2>1 DEF TimeExact
<1> QED BY <1>1, <1>3, NoCall DEF LibInv

LEMMA MoveKept ==
  ASSUME NEW d \in 0 .. MEMORY, NEW s \in 0 .. MEMORY, NEW n \in 0 .. MEMORY,
         d + n <= MEMORY, s + n <= MEMORY, Move(d, s, n)
  PROVE  LibInv'
<1> DEFINE m == [i \in 0 .. MEMORY - 1 |-> i]
           new == [i \in 0 .. MEMORY - 1 |-> IF i \in d .. d + n - 1 THEN s + i - d ELSE i]
<1>1. asked' = [op |-> "memmove", d |-> d, s |-> s, n |-> n] /\ answer' = memmove(m, d, s, n)
  BY DEF Move, Answer
<1>2. memmove(m, d, s, n) = new
  BY MoveFacts
<1>3. MoveExact'
  <2>1. asked'.op = "memmove" /\ asked'.d = d /\ asked'.s = s /\ asked'.n = n
    BY <1>1
  <2>2. answer' = new
    BY <1>1, <1>2
  <2> QED BY <2>1, <2>2 DEF MoveExact
<1> QED BY <1>1, <1>3, NoCall DEF LibInv

LEMMA SortKept ==
  ASSUME NEW keys \in UpTo(MAX_ITEMS, Keys), Sort(keys)
  PROVE  LibInv'
<1>1. PICK k \in 0 .. MAX_ITEMS : keys \in [1 .. k -> Keys]
  BY DEF UpTo
<1> DEFINE a == [i \in DOMAIN keys |-> [key |-> keys[i], tag |-> i]]
<1>2. k \in Nat /\ a \in [1 .. k -> Item] /\ \A i \in 1 .. k : a[i].tag = i
  <2>1. k \in Nat /\ DOMAIN keys = 1 .. k
    BY <1>1
  <2>2. ASSUME NEW i \in 1 .. k PROVE [key |-> keys[i], tag |-> i] \in Item
    <3>1. keys[i] \in Int /\ i \in Int
      <4>1. keys[i] \in Keys
        BY <1>1
      <4>2. Keys \subseteq Int
        BY BoundsAssumption
      <4>3. keys[i] \in Int
        BY ONLY <4>1, <4>2, Zenon
      <4> QED BY <2>1, <4>3
    <3> QED BY <3>1 DEF Item
  <2>3. a \in [1 .. k -> Item]
    BY <2>1, <2>2
  <2>4. \A i \in 1 .. k : a[i].tag = i
    BY <2>1
  <2> QED BY <2>1, <2>3, <2>4
<1>3. asked' = [op |-> "qsort", a |-> a] /\ answer' = qsort(a)
  BY DEF Sort, Answer
<1> HIDE DEF a
<1> DEFINE b == qsort(a)
<1>4. /\ {b[i] : i \in DOMAIN b} = {a[i] : i \in DOMAIN a}
      /\ Len(b) = Len(a)
      /\ \A i, j \in DOMAIN b : i < j => \/ b[i].key < b[j].key
                                         \/ b[i].key = b[j].key /\ b[i].tag < b[j].tag
  BY <1>2, SortIsStable
<1> HIDE DEF b
<1>5. SortStable'
  <2>1. asked'.op = "qsort" /\ asked'.a = a /\ answer' = b
    BY <1>3 DEF b
  <2> QED BY <1>4, <2>1, ZenonT(60) DEF SortStable
<1> QED BY <1>3, <1>5, NoCall DEF LibInv

LEMMA ArgumentsKept ==
  ASSUME NEW lens \in UpTo(MAX_ITEMS, Lengths), Arguments(lens)
  PROVE  LibInv'
<1>1. lens \in Seq(Lengths)
  <2>1. PICK k \in 0 .. MAX_ITEMS : lens \in [1 .. k -> Lengths]
    BY DEF UpTo
  <2>2. k \in Nat
    BY <2>1
  <2> QED BY <2>1, <2>2, SeqDef
<1> DEFINE r == build_user_args(lens)
<1>2. asked' = [op |-> "args", lens |-> lens] /\ answer' = r
  BY DEF Arguments, Answer
<1>3. /\ \A b, c \in Blocks(r) : b = c \/ Disjoint(b, c)
      /\ \A b \in Blocks(r) : r.esp.from <= b.from /\ b.from + b.size <= STACK_TOP
      /\ {r.argv.from % 4, r.envp.from % 4, r.esp.from % 4} = {0}
  BY <1>1, ArgumentFacts
<1> HIDE DEF r
<1>4. ArgumentsApart'
  <2>1. Blocks(answer') = Blocks(r)
    BY <1>2
  <2> QED BY <1>2, <1>3, <2>1 DEF ArgumentsApart
<1> QED BY <1>2, <1>4, NoCall DEF LibInv

LEMMA NumbersKept ==
  ASSUME AskNumbers
  PROVE  LibInv'
<1>1. CASE \E a, b \in Longs : Divide(a, b)
  BY <1>1, DivideKept
<1>2. CASE \E u \in Longs, b \in 0 .. 2 * W - 1 : Shift(u, b)
  BY <1>2, ShiftKept
<1>3. CASE \E v \in Longs, width \in Widths, zero, left, alt \in BOOLEAN, base \in {8, 10, 16} :
             FormatU(v, base, width, zero, left, alt)
  BY <1>3, FormatUKept
<1>4. CASE \E v \in Longs, width \in Widths, zero, left \in BOOLEAN, sign \in {<<>>, <<PLUS>>, <<SPACE>>} :
             FormatD(v, width, zero, left, sign)
  BY <1>4, FormatDKept
<1>5. CASE \E v \in Longs : Itoa(v) \/ \E cap \in Capacities : Snprintf(v, cap)
  BY <1>5, ItoaKept, SnprintfKept
<1>6. CASE \E v \in 0 .. Bytes4 - 1 : FlatHeader(v)
  BY <1>6, HeaderKept
<1>7. CASE \E day \in Days : Date(day)
  BY <1>7, DateKept
<1>8. CASE \E secs \in Seconds : Time(secs)
  BY <1>8, TimeKept
<1> QED BY <1>1, <1>2, <1>3, <1>4, <1>5, <1>6, <1>7, <1>8, Zenon DEF AskNumbers

LEMMA MemoryKept ==
  ASSUME AskMemory
  PROVE  LibInv'
<1>1. CASE \E d, s, n \in 0 .. MEMORY : d + n <= MEMORY /\ s + n <= MEMORY /\ Move(d, s, n)
  BY <1>1, MoveKept
<1>2. CASE \E keys \in UpTo(MAX_ITEMS, Keys) : Sort(keys)
  BY <1>2, SortKept
<1>3. CASE \E lens \in UpTo(MAX_ITEMS, Lengths) : Arguments(lens)
  BY <1>3, ArgumentsKept
<1> QED BY <1>1, <1>2, <1>3, Zenon DEF AskMemory

(* Nothing is asked at first or when a call has returned. *)
LEMMA ReturnKept ==
  ASSUME asked' = [op |-> "none"]
  PROVE  LibInv'
BY NoCall DEF LibInv

LEMMA LibStart == LibInit => LibInv
<1>1. SUFFICES ASSUME LibInit PROVE LibInv
  OBVIOUS
<1>2. asked.op = "none"
  BY <1>1 DEF LibInit
<1>3. DivisionExact /\ ShiftsExact /\ NumbersReadBack /\ TimeExact
  BY <1>2 DEF DivisionExact, ShiftsExact, NumbersReadBack, TimeExact
<1>4. MoveExact /\ SortStable /\ ArgumentsApart /\ TextFits
  BY <1>2 DEF MoveExact, SortStable, ArgumentsApart, TextFits
<1> QED BY <1>3, <1>4 DEF LibInv

LEMMA LibStep == LibInv /\ [LibNext]_libVars => LibInv'
<1> SUFFICES ASSUME LibInv, [LibNext]_libVars PROVE LibInv'
  OBVIOUS
<1>1. CASE AskNumbers
  BY <1>1, NumbersKept
<1>2. CASE AskMemory
  BY <1>2, MemoryKept
<1>3. CASE Return
  BY <1>3, ReturnKept DEF Return
<1>4. CASE UNCHANGED libVars
  <2>1. asked' = asked /\ answer' = answer
    BY <1>4 DEF libVars
  <2>2. DivisionExact' /\ ShiftsExact' /\ NumbersReadBack' /\ TimeExact'
    BY <2>1 DEF LibInv, DivisionExact, ShiftsExact, NumbersReadBack, TimeExact
  <2>3. MoveExact' /\ SortStable'
    <3>1. MoveExact /\ SortStable
      BY DEF LibInv
    <3>2. MoveExact'
      BY <2>1, <3>1 DEF MoveExact
    <3>3. SortStable'
      BY <2>1, <3>1, ZenonT(60) DEF SortStable
    <3> QED BY <3>2, <3>3
  <2>4. ArgumentsApart'
    BY <2>1 DEF LibInv, ArgumentsApart, Blocks
  <2>5. TextFits'
    BY <2>1 DEF LibInv, TextFits
  <2> QED BY <2>2, <2>3, <2>4, <2>5 DEF LibInv
<1> QED BY <1>1, <1>2, <1>3, <1>4 DEF LibNext

LEMMA LibAlways == LibSpec => []LibInv
BY LibStart, LibStep, PTL DEF LibSpec

(* rt_divmod and the signed functions over it give the exact quotient and  *)
(* remainder of every two numbers, for every width of a word.              *)
THEOREM DivisionAlwaysExact == LibSpec => []DivisionExact
<1>1. LibInv => DivisionExact
  BY DEF LibInv
<1> QED BY <1>1, LibAlways, PTL

(* The shifts put together from shifted halves multiply and divide by the  *)
(* power of two, the arithmetic one rounding down.                         *)
THEOREM ShiftsAlwaysExact == LibSpec => []ShiftsExact
<1>1. LibInv => ShiftsExact
  BY DEF LibInv
<1> QED BY <1>1, LibAlways, PTL

(* Whatever printf's integer conversions, itoa and build_flat write, the   *)
(* reader gets back: no sign, prefix, padding or digit misleads strtoull.  *)
THEOREM NumbersAlwaysReadBack == LibSpec => []NumbersReadBack
<1>1. LibInv => NumbersReadBack
  BY DEF LibInv
<1> QED BY <1>1, LibAlways, PTL

(* localtime's dates follow one another as the calendar's, on every day,   *)
(* before 1970 too, and the time of day is what is left.                   *)
THEOREM TimeAlwaysExact == LibSpec => []TimeExact
<1>1. LibInv => TimeExact
  BY DEF LibInv
<1> QED BY <1>1, LibAlways, PTL

(* memmove never reads a byte that it has already overwritten. *)
THEOREM MovesAlwaysExact == LibSpec => []MoveExact
<1>1. LibInv => MoveExact
  BY DEF LibInv
<1> QED BY <1>1, LibAlways, PTL

(* qsort is a stable sort. *)
THEOREM SortAlwaysStable == LibSpec => []SortStable
<1>1. LibInv => SortStable
  BY DEF LibInv
<1> QED BY <1>1, LibAlways, PTL

(* However many arguments there are, and however long, nothing of a        *)
(* program's argument block lies over anything else.                       *)
THEOREM ArgumentsAlwaysApart == LibSpec => []ArgumentsApart
<1>1. LibInv => ArgumentsApart
  BY DEF LibInv
<1> QED BY <1>1, LibAlways, PTL

(* vsnprintf stays in its buffer and ends what it writes. *)
THEOREM TextAlwaysFits == LibSpec => []TextFits
<1>1. LibInv => TextFits
  BY DEF LibInv
<1> QED BY <1>1, LibAlways, PTL

(* All of the library's arithmetic at once: division, shifts, numbers as   *)
(* text and back, dates and times.                                         *)
THEOREM NumbersAlwaysExact == LibSpec => []NumbersExact
<1>1. LibInv => NumbersExact
  BY DEF LibInv, NumbersExact
<1> QED BY <1>1, LibAlways, PTL

(* All that moves, sorts and lays out bytes at once: memmove, qsort, the   *)
(* argument block and vsnprintf's buffer.                                  *)
THEOREM MemoryAlwaysExact == LibSpec => []MemoryExact
<1>1. LibInv => MemoryExact
  BY DEF LibInv, MemoryExact
<1> QED BY <1>1, LibAlways, PTL

=============================================================================
