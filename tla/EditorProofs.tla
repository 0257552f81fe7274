---------------------------- MODULE EditorProofs ----------------------------
(***************************************************************************)
(* Proofs about Editor.tla for every size of screen and buffer and any     *)
(* texts and names: the terminal shows what was drawn, the caret stands on *)
(* its character, and a buffer that counts as unmodified is on the disk.   *)
(***************************************************************************)
EXTENDS Editor, SequenceTheorems, FiniteSetTheorems, WellFoundedInduction, TLAPS

-----------------------------------------------------------------------------
(* Numbers *)

(* Multiplication by a natural number is monotonic. *)
LEMMA MulMono ==
  ASSUME NEW m \in Nat, NEW a \in Int, NEW b \in Int, a <= b
  PROVE  m * a <= m * b
  OBVIOUS

(* Quotient and remainder. *)
LEMMA DivFacts ==
  ASSUME NEW a \in Nat, NEW n \in Nat \ {0}
  PROVE  /\ a \div n \in Nat /\ a % n \in 0 .. n - 1
         /\ a = n * (a \div n) + (a % n)
  OBVIOUS

(* The quotient of a number below n * m is below m. *)
LEMMA DivBelow ==
  ASSUME NEW a \in Nat, NEW n \in Nat \ {0}, NEW m \in Nat, a < n * m
  PROVE  a \div n < m
<1> DEFINE q == a \div n
<1>1. q \in Nat /\ a % n \in 0 .. n - 1 /\ a = n * q + (a % n)
  BY DivFacts
<1> HIDE DEF q
<1>2. SUFFICES ASSUME m <= q PROVE FALSE
  BY <1>1 DEF q
<1>3. n * m <= n * q
  BY <1>1, <1>2, MulMono
<1> QED BY <1>1, <1>3

(* The quotient is fixed by the multiples of n around the number. *)
LEMMA DivAt ==
  ASSUME NEW a \in Nat, NEW n \in Nat \ {0}, NEW k \in Nat,
         n * k <= a, a < n * (k + 1)
  PROVE  a \div n = k
<1> DEFINE q == a \div n
<1>1. q \in Nat /\ a % n \in 0 .. n - 1 /\ a = n * q + (a % n)
  BY DivFacts
<1>2. q < k + 1
  BY DivBelow
<1>3. ~(q < k)
  <2>1. SUFFICES ASSUME q + 1 <= k PROVE FALSE
    BY <1>1
  <2> HIDE DEF q
  <2>2. n * (q + 1) <= n * k
    BY <1>1, <2>1, MulMono
  <2>3. n * (q + 1) = n * q + n
    BY <1>1
  <2> QED BY <1>1, <2>2, <2>3
<1> HIDE DEF q
<1>4. q = k
  BY <1>1, <1>2, <1>3
<1> QED BY <1>4 DEF q

(* A set of natural numbers has a least member.                            *)
LEMMA Least ==
  ASSUME NEW S, S \subseteq Nat, S # {}
  PROVE  \E m \in S : \A n \in S : m <= n
<1>1. PICK m \in S : \A n \in S : <<n, m>> \notin OpToRel(<, Nat)
  BY NatLessThanWellFounded, WFMin
<1>2. ASSUME NEW n \in S PROVE ~(n < m)
  BY <1>1 DEF OpToRel
<1> QED BY <1>2

(* The cells of a grid of h rows of w columns, row by row. *)
LEMMA GridFacts ==
  ASSUME NEW w \in Nat \ {0}, NEW h \in Nat \ {0}, NEW y \in 0 .. h - 1
  PROVE  /\ y * w \in Nat /\ y * w <= w * (h - 1) /\ (y + 1) * w = y * w + w
         /\ w * (h - 1) \in Nat /\ w * h = w * (h - 1) + w /\ (h - 1) * w = w * (h - 1)
<1>1. w * y <= w * (h - 1)
  BY MulMono
<1> QED BY <1>1

(* A remainder is fixed by its range. *)
LEMMA ModAt ==
  ASSUME NEW n \in Nat \ {0}, NEW a \in Int, NEW q \in Int, NEW r \in 0 .. n - 1, a = n * q + r
  PROVE  a % n = r
<1> DEFINE p == a \div n
           m == a % n
<1>1. p \in Int /\ m \in 0 .. n - 1 /\ a = n * p + m
  OBVIOUS
<1> HIDE DEF p, m
<1>2. CASE p = q
  BY <1>1, <1>2 DEF m
<1>3. CASE p + 1 <= q
  <2>1. n * (p + 1) <= n * q
    BY <1>1, <1>3, MulMono
  <2>2. n * (p + 1) = n * p + n
    BY <1>1
  <2> QED BY <1>1, <2>1, <2>2
<1>4. CASE q + 1 <= p
  <2>1. n * (q + 1) <= n * p
    BY <1>1, <1>4, MulMono
  <2>2. n * (q + 1) = n * q + n
    BY <1>1
  <2> QED BY <1>1, <2>1, <2>2
<1> QED BY <1>1, <1>2, <1>3, <1>4

-----------------------------------------------------------------------------
(* Induction and recursive functions *)

(* Induction over an interval. *)
LEMMA Upward ==
  ASSUME NEW a \in Int, NEW b \in Int, NEW T, a \in T, \A i \in a .. b - 1 : i \in T => i + 1 \in T
  PROVE  a .. b \subseteq T
<1> DEFINE S == {d \in Nat : a + d <= b /\ a + d \notin T}
<1>1. S = {}
  <2>1. SUFFICES ASSUME S # {} PROVE FALSE
    OBVIOUS
  <2>2. PICK m \in S : \A n \in S : m <= n
    <3>1. S \subseteq Nat
      OBVIOUS
    <3> HIDE DEF S
    <3> QED BY <2>1, <3>1, Least
  <2>3. m \in Nat /\ a + m <= b /\ a + m \notin T
    OBVIOUS
  <2>4. m # 0 /\ m - 1 \in Nat
    BY <2>3
  <2>5. m - 1 \notin S
    <3>1. ~(m <= m - 1)
      BY <2>3
    <3> HIDE DEF S
    <3> QED BY <2>2, <3>1
  <2>6. a + (m - 1) \in T /\ a + (m - 1) \in a .. b - 1 /\ (a + (m - 1)) + 1 = a + m
    BY <2>3, <2>4, <2>5
  <2> QED BY <2>3, <2>6
<1>2. ASSUME NEW i \in a .. b PROVE i \in T
  <2>1. i - a \in Nat /\ a + (i - a) = i /\ i <= b
    OBVIOUS
  <2>2. i - a \notin S
    <3> HIDE DEF S
    <3> QED BY <1>1
  <2> QED BY <2>1, <2>2
<1> QED BY <1>2

(* Induction over a rank. *)
LEMMA Induction ==
  ASSUME NEW D, NEW rank, \A t \in D : rank[t] \in Nat, NEW T,
         \A t \in D : (\A u \in D : rank[u] < rank[t] => u \in T) => t \in T
  PROVE  D \subseteq T
<1> DEFINE S == {rank[t] : t \in D \ T}
<1>1. SUFFICES ASSUME S # {} PROVE FALSE
  OBVIOUS
<1>2. PICK m \in S : \A n \in S : m <= n
  <2>1. S \subseteq Nat
    OBVIOUS
  <2> HIDE DEF S
  <2> QED BY <1>1, <2>1, Least
<1>3. PICK t \in D \ T : m = rank[t]
  OBVIOUS
<1>4. ASSUME NEW u \in D, rank[u] < rank[t] PROVE u \in T
  <2>1. CASE u \notin T
    <3>1. rank[u] \in S
      BY <2>1
    <3> HIDE DEF S
    <3> QED BY <1>2, <1>3, <1>4, <3>1
  <2> QED BY <2>1
<1> QED BY <1>3, <1>4

(* A recursion over places of decreasing rank: at t the value is given, or *)
(* comes from the value at back[t].                                        *)
Recursive(D, V, N, rank, stop, first, back, step) ==
  /\ N \in Nat /\ rank \in [D -> 0 .. N]
  /\ first \in [D -> V] /\ back \in [D -> D] /\ step \in [D -> [V -> V]]
  /\ \A t \in D : t \notin stop => rank[back[t]] < rank[t]

Solves(f, D, V, stop, first, back, step) ==
  /\ f \in [D -> V]
  /\ \A t \in D : f[t] = IF t \in stop THEN first[t] ELSE step[t][f[back[t]]]

(* There is a function that such a recursion defines.                      *)
LEMMA Recursion ==
  ASSUME NEW D, NEW V, NEW N, NEW rank, NEW stop, NEW first, NEW back, NEW step,
         Recursive(D, V, N, rank, stop, first, back, step)
  PROVE  \E f : Solves(f, D, V, stop, first, back, step)
<1> USE DEF Recursive
<1> DEFINE Value(f, t) == IF t \in stop THEN first[t] ELSE step[t][f[back[t]]]
           Upto(f, n) == f \in [D -> V] /\ \A t \in D : rank[t] < n => f[t] = Value(f, t)
           S == {n \in 0 .. N + 1 : ~ \E f : Upto(f, n)}
<1>1. S = {}
  <2>1. SUFFICES ASSUME S # {} PROVE FALSE
    OBVIOUS
  <2>2. PICK m \in S : \A n \in S : m <= n
    <3>1. S \subseteq Nat
      OBVIOUS
    <3> HIDE DEF S
    <3> QED BY <2>1, <3>1, Least
  <2>3. m \in 0 .. N + 1 /\ ~ \E f : Upto(f, m)
    OBVIOUS
  <2>4. m # 0
    <3>1. Upto(first, 0)
      OBVIOUS
    <3> HIDE DEF Upto, S
    <3> QED BY <2>3, <3>1
  <2>5. PICK f : Upto(f, m - 1)
    <3>1. m - 1 \in 0 .. N + 1 /\ m - 1 \notin S
      <4> HIDE DEF S
      <4> QED BY <2>2, <2>3, <2>4
    <3> HIDE DEF Upto
    <3> QED BY <3>1
  <2> DEFINE g == [t \in D |-> IF rank[t] < m - 1 THEN f[t] ELSE Value(f, t)]
  <2>6. ASSUME NEW t \in D PROVE Value(f, t) \in V
    <3>1. f \in [D -> V] /\ first[t] \in V /\ back[t] \in D /\ step[t] \in [V -> V]
      BY <2>5
    <3> QED BY <3>1
  <2>7. g \in [D -> V]
    <3> HIDE DEF Value
    <3> QED BY <2>5, <2>6
  <2>8. ASSUME NEW t \in D, rank[t] < m PROVE g[t] = Value(f, t) /\ Value(g, t) = Value(f, t)
    <3>1. g[t] = Value(f, t)
      <4> HIDE DEF Value
      <4> QED BY <2>5
    <3>2. CASE t \in stop
      BY <3>1, <3>2
    <3>3. CASE t \notin stop
      <4>1. back[t] \in D /\ rank[back[t]] < m - 1
        BY <2>3, <2>8, <3>3
      <4>2. g[back[t]] = f[back[t]]
        BY <4>1
      <4> HIDE DEF g
      <4> QED BY <3>1, <3>3, <4>2
    <3> QED BY <3>2, <3>3
  <2>9. Upto(g, m)
    <3> HIDE DEF g, Value
    <3> QED BY <2>7, <2>8
  <2> HIDE DEF Upto, g, S
  <2> QED BY <2>3, <2>9
<1>2. PICK f : Upto(f, N + 1)
  <2>1. N + 1 \in 0 .. N + 1 /\ N + 1 \notin S
    <3> HIDE DEF S
    <3> QED BY <1>1
  <2> HIDE DEF Upto
  <2> QED BY <2>1
<1>3. \A t \in D : rank[t] < N + 1
  OBVIOUS
<1>4. f \in [D -> V] /\ \A t \in D : f[t] = Value(f, t)
  <2> HIDE DEF Value
  <2> QED BY <1>2, <1>3
<1> QED BY <1>4 DEF Solves

-----------------------------------------------------------------------------
(* Lines *)

Byte == Chars \cup {NL, TAB}

(* Position s of text b begins a line. *)
IsLine(b, s) == s = 0 \/ b[s] = NL

(* No line ends between positions s and p. *)
SameLine(b, s, p) == \A i \in s + 1 .. p : b[i] # NL

(* The number of characters. *)
LEMMA Length ==
  ASSUME NEW e, e.buf \in Seq(Byte)
  PROVE  len(e) \in Nat /\ len(e) = Len(e.buf) /\ \A i \in 1 .. len(e) : e.buf[i] \in Byte
<1> HIDE DEF Byte
<1> QED BY DEF len

(* The line of a position begins before it. *)
LEMMA LineBegin ==
  ASSUME NEW e, e.buf \in Seq(Byte), NEW p \in 0 .. len(e)
  PROVE  /\ line_begin(e, p) \in 0 .. p /\ line_begin(e, p) \in Nat
         /\ IsLine(e.buf, line_begin(e, p)) /\ SameLine(e.buf, line_begin(e, p), p)
<1> DEFINE S == {d \in 0 .. p : IsLine(e.buf, p - d)}
<1>1. p \in Nat
  BY Length
<1>2. p \in S
  BY <1>1 DEF IsLine
<1>3. PICK d \in S : \A n \in S : d <= n
  <2>1. S \subseteq Nat
    BY <1>1
  <2> HIDE DEF S
  <2> QED BY <1>2, <2>1, Least
<1>4. d \in 0 .. p /\ IsLine(e.buf, p - d)
  OBVIOUS
<1>5. SameLine(e.buf, p - d, p)
  <2>1. SUFFICES ASSUME NEW i \in p - d + 1 .. p, e.buf[i] = NL PROVE FALSE
    BY DEF SameLine
  <2>2. p - i \in 0 .. p /\ p - (p - i) = i /\ p - i < d
    BY <1>1, <1>4
  <2>3. p - i \in S
    BY <2>1, <2>2 DEF IsLine
  <2> HIDE DEF S
  <2> QED BY <1>1, <1>3, <1>4, <2>2, <2>3
<1> HIDE DEF S
<1>6. p - d \in 0 .. p
  BY <1>1, <1>4
<1> DEFINE P(b) == (b = 0 \/ e.buf[b] = NL) /\ \A i \in b + 1 .. p : e.buf[i] # NL
<1>7. P(p - d)
  BY <1>4, <1>5 DEF IsLine, SameLine
<1>8. \E b \in 0 .. p : P(b)
  BY <1>6, <1>7
<1>9. line_begin(e, p) = CHOOSE b \in 0 .. p : P(b)
  BY DEF line_begin
<1>10. line_begin(e, p) \in 0 .. p /\ P(line_begin(e, p))
  <2> HIDE DEF P
  <2> QED BY <1>8, <1>9
<1> QED BY <1>1, <1>10 DEF IsLine, SameLine

(* The line of a position ends behind it. *)
LEMMA LineEnd ==
  ASSUME NEW e, e.buf \in Seq(Byte), NEW p \in 0 .. len(e)
  PROVE  /\ line_end(e, p) \in p .. len(e) /\ line_end(e, p) \in Nat
         /\ line_end(e, p) = len(e) \/ e.buf[line_end(e, p) + 1] = NL
         /\ SameLine(e.buf, p, line_end(e, p))
<1> DEFINE n == len(e)
           Ends(f) == f = n \/ e.buf[f + 1] = NL
           S == {f \in p .. n : Ends(f)}
<1>1. p \in Nat /\ n \in Nat /\ p <= n
  BY Length
<1>2. n \in S
  BY <1>1
<1>3. PICK f \in S : \A g \in S : f <= g
  <2>1. S \subseteq Nat
    BY <1>1
  <2> HIDE DEF S
  <2> QED BY <1>2, <2>1, Least
<1>4. f \in p .. n /\ Ends(f)
  OBVIOUS
<1>5. SameLine(e.buf, p, f)
  <2>1. SUFFICES ASSUME NEW i \in p + 1 .. f, e.buf[i] = NL PROVE FALSE
    BY DEF SameLine
  <2>2. i - 1 \in p .. n /\ (i - 1) + 1 = i /\ i - 1 < f
    BY <1>1, <1>4
  <2>3. i - 1 \in S
    BY <2>1, <2>2
  <2> HIDE DEF S
  <2> QED BY <1>1, <1>3, <1>4, <2>2, <2>3
<1> HIDE DEF S
<1> DEFINE P(g) == (g = n \/ e.buf[g + 1] = NL) /\ \A i \in p + 1 .. g : e.buf[i] # NL
<1>7. P(f)
  BY <1>4, <1>5 DEF SameLine
<1>8. \E g \in p .. n : P(g)
  BY <1>4, <1>7
<1>9. line_end(e, p) = CHOOSE g \in p .. n : P(g)
  BY DEF line_end
<1>10. line_end(e, p) \in p .. n /\ P(line_end(e, p))
  <2> HIDE DEF P, n
  <2> QED BY <1>8, <1>9
<1> QED BY <1>1, <1>10 DEF SameLine

(* A line has one beginning. *)
LEMMA LineIs ==
  ASSUME NEW e, e.buf \in Seq(Byte), NEW p \in 0 .. len(e), NEW b \in 0 .. p,
         IsLine(e.buf, b), SameLine(e.buf, b, p)
  PROVE  line_begin(e, p) = b
<1> DEFINE c == line_begin(e, p)
<1>1. c \in 0 .. p /\ IsLine(e.buf, c) /\ SameLine(e.buf, c, p) /\ p \in Nat
  BY LineBegin, Length
<1> HIDE DEF c
<1>2. ~(c < b)
  <2>1. SUFFICES ASSUME c < b PROVE FALSE
    OBVIOUS
  <2>2. b \in c + 1 .. p /\ b # 0
    BY <1>1, <2>1
  <2> QED BY <1>1, <2>2 DEF IsLine, SameLine
<1>3. ~(b < c)
  <2>1. SUFFICES ASSUME b < c PROVE FALSE
    OBVIOUS
  <2>2. c \in b + 1 .. p /\ c # 0
    BY <1>1, <2>1
  <2> QED BY <1>1, <2>2 DEF IsLine, SameLine
<1> QED BY <1>1, <1>2, <1>3 DEF c

(* Nor does a line that begins before position t begin before the line of  *)
(* an earlier one.                                                         *)
LEMMA LineAbove ==
  ASSUME NEW e, e.buf \in Seq(Byte), NEW p \in 0 .. len(e), NEW t \in 0 .. len(e) + 1,
         line_begin(e, p) < t
  PROVE  /\ t - 1 \in 0 .. len(e) /\ line_begin(e, t - 1) \in 0 .. t - 1
         /\ line_begin(e, p) <= line_begin(e, t - 1)
<1> DEFINE b == line_begin(e, p)
           c == line_begin(e, t - 1)
<1>1. b \in 0 .. p /\ IsLine(e.buf, b) /\ len(e) \in Nat /\ p \in Nat
  BY LineBegin, Length
<1>2. t - 1 \in 0 .. len(e) /\ b <= t - 1
  BY <1>1
<1>3. c \in 0 .. t - 1 /\ SameLine(e.buf, c, t - 1)
  BY <1>2, LineBegin
<1> HIDE DEF b, c
<1>4. b <= c
  <2>1. SUFFICES ASSUME c < b PROVE FALSE
    BY <1>1, <1>2, <1>3
  <2>2. b \in c + 1 .. t - 1 /\ b # 0
    BY <1>1, <1>2, <1>3, <2>1
  <2> QED BY <1>1, <1>3, <2>2 DEF IsLine, SameLine
<1> QED BY <1>2, <1>3, <1>4 DEF b, c

(* A line that begins before another one ends before it begins. *)
LEMMA LineBelow ==
  ASSUME NEW e, e.buf \in Seq(Byte), NEW p \in 0 .. len(e), NEW t \in 0 .. len(e),
         t < line_begin(e, p)
  PROVE  /\ line_end(e, t) < line_begin(e, p) /\ line_end(e, t) < len(e)
         /\ line_end(e, t) + 1 \in t + 1 .. line_begin(e, p)
         /\ IsLine(e.buf, line_end(e, t) + 1)
<1> DEFINE b == line_begin(e, p)
           f == line_end(e, t)
<1>1. b \in 0 .. p /\ IsLine(e.buf, b) /\ len(e) \in Nat /\ p \in Nat /\ t \in Nat
  BY LineBegin, Length
<1>2. /\ f \in t .. len(e) /\ SameLine(e.buf, t, f) /\ (f = len(e) \/ e.buf[f + 1] = NL)
  BY LineEnd
<1> HIDE DEF b, f
<1>3. f < b
  <2>1. SUFFICES ASSUME b <= f PROVE FALSE
    BY <1>1, <1>2
  <2>2. b \in t + 1 .. f /\ b # 0
    BY <1>1, <1>2, <2>1 DEF b
  <2> QED BY <1>1, <1>2, <2>2 DEF IsLine, SameLine
<1>4. f < len(e) /\ f + 1 \in t + 1 .. b /\ IsLine(e.buf, f + 1)
  BY <1>1, <1>2, <1>3 DEF IsLine
<1> QED BY <1>3, <1>4 DEF b, f

-----------------------------------------------------------------------------
(* Columns *)

(* A character takes at least one column. *)
LEMMA Advances ==
  ASSUME NEW c \in Nat, NEW ch
  PROVE  Advance(c, ch) \in Nat /\ c < Advance(c, ch)
<1>1. TAB_W \in Nat \ {0}
  BY LayoutAssumption
<1>2. c % TAB_W \in 0 .. TAB_W - 1
  BY <1>1, DivFacts
<1> QED BY <1>1, <1>2 DEF Advance

(* The columns of the positions of a line. *)
LEMMA ColumnsFacts ==
  ASSUME NEW e, NEW s \in Nat, NEW f \in Nat, s <= f
  PROVE  /\ Columns(e, s, f)[s] = 0
         /\ \A i \in s .. f : Columns(e, s, f)[i] \in Nat
         /\ \A i \in s + 1 .. f :
              Columns(e, s, f)[i] = Advance(Columns(e, s, f)[i - 1], e.buf[i])
<1> DEFINE D == s .. f
           Fits(c) == c = [i \in D |-> IF i = s THEN 0 ELSE Advance(c[i - 1], e.buf[i])]
           N == f - s
           stop == {s}
           rank == [i \in D |-> i - s]
           first == [i \in D |-> 0]
           back == [i \in D |-> IF i = s THEN s ELSE i - 1]
           step == [i \in D |-> [v \in Nat |-> Advance(v, e.buf[i])]]
           c == Columns(e, s, f)
<1>1. \E g : Fits(g)
  <2>1. Recursive(D, Nat, N, rank, stop, first, back, step)
    BY Advances DEF Recursive
  <2>2. PICK g : Solves(g, D, Nat, stop, first, back, step)
    <3> HIDE DEF D, N, stop, rank, first, back, step
    <3> QED BY ONLY <2>1, Recursion
  <2> USE DEF Solves
  <2>3. ASSUME NEW i \in D PROVE g[i] = IF i = s THEN 0 ELSE Advance(g[i - 1], e.buf[i])
    <3>1. CASE i = s
      BY <2>2, <3>1
    <3>2. CASE i # s
      <4>1. back[i] = i - 1 /\ i - 1 \in D /\ g[i - 1] \in Nat
        BY <2>2, <3>2
      <4>2. step[i][g[i - 1]] = Advance(g[i - 1], e.buf[i])
        BY <4>1
      <4> QED BY <2>2, <3>2, <4>1, <4>2
    <3> QED BY <3>1, <3>2
  <2>4. Fits(g)
    BY <2>2, <2>3
  <2> HIDE DEF Fits
  <2> QED BY <2>4
<1>2. c = CHOOSE g : Fits(g)
  BY DEF Columns
<1>3. Fits(c)
  <2> HIDE DEF Fits, c
  <2> QED BY <1>1, <1>2
<1> HIDE DEF c
<1>4. c[s] = 0
  BY <1>3
<1>5. ASSUME NEW i \in s + 1 .. f PROVE c[i] = Advance(c[i - 1], e.buf[i])
  BY <1>3
<1>6. \A i \in D : c[i] \in Nat
  <2> DEFINE T == {i \in D : c[i] \in Nat}
  <2>1. s \in T
    BY <1>4
  <2>2. ASSUME NEW i \in s .. f - 1, i \in T PROVE i + 1 \in T
    <3>1. i + 1 \in s + 1 .. f /\ (i + 1) - 1 = i /\ c[i] \in Nat
      BY <2>2
    <3>2. c[i + 1] \in Nat
      BY <1>5, <3>1, Advances
    <3> QED BY <3>1, <3>2
  <2>3. D \subseteq T
    <3> HIDE DEF T
    <3> QED BY <2>1, <2>2, Upward
  <2> QED BY <2>3
<1> QED BY <1>4, <1>5, <1>6 DEF c

(* The column of a position is a number. *)
LEMMA ColOf ==
  ASSUME NEW e, e.buf \in Seq(Byte), NEW p \in 0 .. len(e)
  PROVE  col_of(e, p) \in Nat
<1>1. line_begin(e, p) \in 0 .. p /\ line_begin(e, p) \in Nat /\ p \in Nat
  BY LineBegin, Length
<1>2. p \in line_begin(e, p) .. p /\ line_begin(e, p) <= p
  BY <1>1
<1> QED BY <1>1, <1>2, ColumnsFacts DEF col_of

-----------------------------------------------------------------------------
(* The lines on the screen *)

LastRow == TEXT_ROWS - 1

(* The beginning of the next line. *)
NextLine(e, t) ==
  IF t > len(e) THEN t ELSE IF line_end(e, t) < len(e) THEN line_end(e, t) + 1 ELSE len(e) + 1

(* The rows. *)
LEMMA RowFacts ==
  /\ LastRow \in Nat /\ TEXT_TOP = 1 /\ TEXT_BOT = LastRow + 1 /\ TEXT_BOT = HEIGHT - 2
  /\ TEXT_BOT \in Nat /\ HEIGHT \in Nat /\ WIDTH \in Nat \ {0} /\ HEIGHT > 2
BY LayoutAssumption, SizeAssumption DEF LastRow, TEXT_ROWS

(* The next line is not above and not far beyond the text. *)
LEMMA NextFacts ==
  ASSUME NEW e, e.buf \in Seq(Byte), NEW t \in 0 .. len(e) + 1
  PROVE  NextLine(e, t) \in 0 .. len(e) + 1 /\ t <= NextLine(e, t)
<1>1. len(e) \in Nat
  BY Length
<1>2. CASE t > len(e)
  BY <1>1, <1>2 DEF NextLine
<1>3. CASE t \in 0 .. len(e)
  <2>1. line_end(e, t) \in t .. len(e)
    BY <1>3, LineEnd
  <2> QED BY <1>1, <1>3, <2>1 DEF NextLine
<1> QED BY <1>1, <1>2, <1>3

(* Each line on the screen begins behind the one above it. *)
LEMMA StartsFacts ==
  ASSUME NEW e, e.buf \in Seq(Byte), NEW s \in 0 .. len(e) + 1
  PROVE  /\ LineStarts(e, s)[0] = s
         /\ \A n \in 0 .. LastRow : LineStarts(e, s)[n] \in s .. len(e) + 1
         /\ \A n \in 1 .. LastRow : LineStarts(e, s)[n] = NextLine(e, LineStarts(e, s)[n - 1])
<1> DEFINE D == 0 .. LastRow
           V == 0 .. len(e) + 1
           Fits(a) == a = [n \in D |-> IF n = 0 THEN s ELSE NextLine(e, a[n - 1])]
           stop == {0}
           rank == [n \in D |-> n]
           first == [n \in D |-> s]
           back == [n \in D |-> IF n = 0 THEN 0 ELSE n - 1]
           step == [n \in D |-> [v \in V |-> NextLine(e, v)]]
           a == LineStarts(e, s)
<1>1. LastRow \in Nat /\ len(e) \in Nat
  BY RowFacts, Length
<1>2. \E g : Fits(g)
  <2>1. step \in [D -> [V -> V]]
    BY NextFacts
  <2>2. Recursive(D, V, LastRow, rank, stop, first, back, step)
    <3> HIDE DEF step, V
    <3>1. first \in [D -> V]
      BY DEF V
    <3>2. rank \in [D -> 0 .. LastRow] /\ back \in [D -> D]
      BY <1>1
    <3>3. ASSUME NEW n \in D, n \notin stop PROVE rank[back[n]] < rank[n]
      <4>1. n - 1 \in D /\ n - 1 < n
        BY <1>1, <3>3
      <4> QED BY <3>3, <4>1
    <3> HIDE DEF rank, back, first, stop, D
    <3> QED BY <1>1, <2>1, <3>1, <3>2, <3>3 DEF Recursive
  <2>3. PICK g : Solves(g, D, V, stop, first, back, step)
    <3> HIDE DEF D, V, stop, rank, first, back, step
    <3> QED BY ONLY <2>2, Recursion
  <2> USE DEF Solves
  <2>4. ASSUME NEW n \in D PROVE g[n] = IF n = 0 THEN s ELSE NextLine(e, g[n - 1])
    <3>1. CASE n = 0
      BY <2>3, <3>1
    <3>2. CASE n # 0
      <4>0. n - 1 \in D
        BY <1>1, <3>2
      <4>1. back[n] = n - 1 /\ g[n - 1] \in V
        BY <2>3, <3>2, <4>0
      <4>2. step[n][g[n - 1]] = NextLine(e, g[n - 1])
        BY <4>1
      <4> QED BY <2>3, <3>2, <4>1, <4>2
    <3> QED BY <3>1, <3>2
  <2>5. Fits(g)
    BY <2>3, <2>4
  <2> HIDE DEF Fits
  <2> QED BY <2>5
<1>3. a = CHOOSE g : Fits(g)
  BY DEF LineStarts, NextLine, LastRow
<1>4. Fits(a)
  <2> HIDE DEF Fits, a
  <2> QED BY <1>2, <1>3
<1> HIDE DEF a
<1>5. a[0] = s
  BY <1>1, <1>4
<1>6. ASSUME NEW n \in 1 .. LastRow PROVE a[n] = NextLine(e, a[n - 1])
  BY <1>1, <1>4
<1>7. \A n \in D : a[n] \in s .. len(e) + 1
  <2> DEFINE T == {n \in D : a[n] \in s .. len(e) + 1}
  <2>1. 0 \in T
    BY <1>1, <1>5
  <2>2. ASSUME NEW n \in 0 .. LastRow - 1, n \in T PROVE n + 1 \in T
    <3>1. n + 1 \in 1 .. LastRow /\ (n + 1) - 1 = n /\ a[n] \in s .. len(e) + 1
      BY <1>1, <2>2
    <3>2. a[n] \in 0 .. len(e) + 1
      BY <1>1, <3>1
    <3>3. a[n + 1] = NextLine(e, a[n])
      BY <1>6, <3>1
    <3>4. a[n + 1] \in s .. len(e) + 1
      BY <1>1, <3>1, <3>2, <3>3, NextFacts
    <3> QED BY <3>1, <3>4
  <2>3. D \subseteq T
    <3> HIDE DEF T
    <3> QED BY <1>1, <2>1, <2>2, Upward
  <2> QED BY <2>3
<1> QED BY <1>5, <1>6, <1>7 DEF a

(* The row of the line of p below one at s, when the last row begins no    *)
(* earlier: as many lines end between them.                                *)
LEMMA RowOf ==
  ASSUME NEW e, e.buf \in Seq(Byte), NEW p \in 0 .. len(e), NEW s \in 0 .. line_begin(e, p),
         line_begin(e, p) <= LineStarts(e, s)[LastRow]
  PROVE  \E n \in 0 .. LastRow :
            /\ LineStarts(e, s)[n] = line_begin(e, p)
            /\ Cardinality({i \in s + 1 .. p : e.buf[i] = NL}) = n
<1> DEFINE lb == line_begin(e, p)
           a == LineStarts(e, s)
           Ends(t) == {i \in s + 1 .. t : e.buf[i] = NL}
           S == {n \in 0 .. LastRow : lb <= a[n]}
<1>1. /\ lb \in 0 .. p /\ lb \in Nat /\ p \in Nat /\ len(e) \in Nat /\ lb <= len(e) /\ s \in Nat
      /\ SameLine(e.buf, lb, p) /\ s \in 0 .. len(e) + 1 /\ LastRow \in Nat
  BY LineBegin, Length, RowFacts
<1>2. /\ a[0] = s /\ \A n \in 0 .. LastRow : a[n] \in s .. len(e) + 1
      /\ \A n \in 1 .. LastRow : a[n] = NextLine(e, a[n - 1])
  BY <1>1, StartsFacts
<1>3. lb <= a[LastRow]
  OBVIOUS
<1>4. p \in lb .. len(e) /\ s <= lb
  BY <1>1
<1> HIDE DEF lb, a
<1>5. PICK n \in S : \A k \in S : n <= k
  <2>1. LastRow \in S /\ S \subseteq Nat
    BY <1>1, <1>3
  <2> HIDE DEF S
  <2> QED BY <2>1, Least
<1>6. n \in 0 .. LastRow /\ lb <= a[n]
  OBVIOUS
<1>7. ASSUME NEW k \in 0 .. n - 1 PROVE a[k] \in s .. lb - 1 /\ k \in 0 .. LastRow
  <2>1. k \in 0 .. LastRow /\ ~(n <= k)
    BY <1>1, <1>6
  <2>2. k \notin S
    <3> HIDE DEF S
    <3> QED BY <1>5, <2>1
  <2> QED BY <1>1, <1>2, <2>1, <2>2
<1> DEFINE T == {k \in 0 .. n : a[k] <= lb /\ IsFiniteSet(Ends(a[k])) /\ Cardinality(Ends(a[k])) = k}
<1>8. 0 \in T
  <2>1. Ends(a[0]) = {}
    BY <1>1, <1>2
  <2>2. 0 \in 0 .. n /\ a[0] <= lb
    BY <1>1, <1>2, <1>4, <1>6
  <2> HIDE DEF Ends
  <2> QED BY <2>1, <2>2, FS_EmptySet
<1>9. ASSUME NEW k \in 0 .. n - 1, k \in T PROVE k + 1 \in T
  <2>1. a[k] \in s .. lb - 1 /\ k \in 0 .. LastRow
    BY <1>7
  <2>2. a[k] \in 0 .. len(e) /\ a[k] < lb /\ ~(a[k] > len(e))
    BY <1>1, <1>4, <2>1
  <2> DEFINE f == line_end(e, a[k])
  <2>3. f < lb /\ f < len(e) /\ f + 1 \in a[k] + 1 .. lb /\ IsLine(e.buf, f + 1)
    BY <2>2, LineBelow DEF lb
  <2>4. f \in a[k] .. len(e) /\ SameLine(e.buf, a[k], f)
    BY <2>2, LineEnd
  <2> HIDE DEF f
  <2>5. a[k + 1] = f + 1
    <3>1. k + 1 \in 1 .. LastRow /\ (k + 1) - 1 = k
      BY <1>1, <1>6
    <3>2. a[k + 1] = NextLine(e, a[k])
      BY <1>2, <3>1
    <3> QED BY <2>2, <2>3, <3>2 DEF NextLine, f
  <2>6. Ends(f + 1) = Ends(a[k]) \cup {f + 1}
    <3>1. e.buf[f + 1] = NL
      BY <2>2, <2>3, <2>4 DEF IsLine
    <3>2. f + 1 \in s + 1 .. f + 1
      BY <1>1, <2>1, <2>2, <2>4
    <3>3. ASSUME NEW i \in s + 1 .. f + 1, e.buf[i] = NL, i # f + 1 PROVE i \in s + 1 .. a[k]
      <4>1. i \notin a[k] + 1 .. f
        BY <2>4, <3>3 DEF SameLine
      <4>2. a[k] \in Nat /\ f \in Nat /\ i \in Nat
        BY <1>1, <2>1, <2>2, <2>4
      <4> QED BY <1>1, <2>4, <3>3, <4>1, <4>2
    <3>4. ASSUME NEW i \in s + 1 .. a[k] PROVE i \in s + 1 .. f + 1
      BY <1>1, <2>1, <2>4
    <3> QED BY <3>1, <3>2, <3>3, <3>4
  <2>7. f + 1 \notin Ends(a[k])
    BY <2>2, <2>4
  <2>8. k \in Nat /\ k + 1 \in 0 .. n /\ f + 1 <= lb
    BY <1>6, <2>1, <2>3
  <2>9. IsFiniteSet(Ends(a[k])) /\ Cardinality(Ends(a[k])) = k
    BY <1>9
  <2> HIDE DEF Ends
  <2>10. IsFiniteSet(Ends(f + 1)) /\ Cardinality(Ends(f + 1)) = k + 1
    BY <2>6, <2>7, <2>9, FS_AddElement
  <2> QED BY <2>5, <2>8, <2>10
<1>10. n \in T
  <2>1. 0 .. n \subseteq T
    <3>1. 0 \in Int /\ n \in Int
      BY <1>6
    <3> HIDE DEF T
    <3> QED BY <1>8, <1>9, <3>1, Upward
  <2>2. n \in 0 .. n
    BY <1>6
  <2> QED BY <2>1, <2>2
<1>11. a[n] = lb
  <2>1. a[n] \in s .. len(e) + 1 /\ a[n] <= lb
    BY <1>2, <1>6, <1>10
  <2> QED BY <1>1, <1>6, <2>1
<1>12. Ends(p) = Ends(lb)
  <2>1. ASSUME NEW i \in s + 1 .. p, e.buf[i] = NL PROVE i \in s + 1 .. lb
    <3>1. i \notin lb + 1 .. p
      BY <1>1, <2>1 DEF SameLine
    <3> QED BY <1>1, <3>1
  <2>2. ASSUME NEW i \in s + 1 .. lb PROVE i \in s + 1 .. p
    BY <1>1
  <2> QED BY <2>1, <2>2
<1>13. Cardinality(Ends(p)) = n
  <2> HIDE DEF Ends
  <2> QED BY <1>10, <1>11, <1>12
<1> QED BY <1>6, <1>11, <1>13 DEF lb, a

-----------------------------------------------------------------------------
(* The view *)

EditorType ==
  [buf : Seq(Byte), pos : Nat, top : Nat, offx : Nat, dirty : BOOLEAN, cmd_mode : BOOLEAN,
   cmd_len : Nat, fname : Name \cup {NoName}]

(* The cursor is in the text, and the first line shown not far beyond it.  *)
InText(e) == e \in EditorType /\ e.pos <= len(e) /\ e.top <= len(e) + 1

(* The first line shown after going up: that of the cursor if it is above. *)
Up(e) ==
  LET lb == line_begin(e, e.pos)
      up[t \in 0 .. len(e) + 1] == IF lb < t THEN up[line_begin(e, t - 1)] ELSE t
  IN  up

(* And after going down until the line of the cursor is in view.           *)
Down(e) ==
  LET lb == line_begin(e, e.pos)
      down[t \in 0 .. len(e) + 1] ==
        IF lb <= LineStarts(e, t)[TEXT_ROWS - 1] THEN t ELSE down[line_end(e, t) + 1]
  IN  down

(* Going up ends at the line of the cursor, or does not begin. *)
LEMMA UpFacts ==
  ASSUME NEW e, InText(e), NEW t \in 0 .. len(e) + 1
  PROVE  Up(e)[t] = IF line_begin(e, e.pos) < t THEN line_begin(e, e.pos) ELSE t
<1> DEFINE D == 0 .. len(e) + 1
           lb == line_begin(e, e.pos)
           Fits(f) == f = [u \in D |-> IF lb < u THEN f[line_begin(e, u - 1)] ELSE u]
           g == [u \in D |-> IF lb < u THEN lb ELSE u]
           f == Up(e)
<1>1. /\ e.buf \in Seq(Byte) /\ e.pos \in 0 .. len(e) /\ len(e) \in Nat
      /\ lb \in Nat /\ lb \in 0 .. e.pos
  <2>1. e.buf \in Seq(Byte) /\ e.pos \in Nat /\ e.pos <= len(e)
    BY DEF InText, EditorType
  <2>2. len(e) \in Nat
    BY <2>1, Length
  <2> QED BY <2>1, <2>2, LineBegin
<1>2. ASSUME NEW u \in D, lb < u
      PROVE  /\ line_begin(e, u - 1) \in D /\ line_begin(e, u - 1) < u
             /\ lb <= line_begin(e, u - 1)
  <2>1. u - 1 \in 0 .. len(e) /\ line_begin(e, u - 1) \in 0 .. u - 1 /\ lb <= line_begin(e, u - 1)
    BY <1>1, <1>2, LineAbove
  <2> QED BY <1>1, <2>1
<1> HIDE DEF lb
<1>3. Fits(g)
  <2>1. ASSUME NEW u \in D, lb < u PROVE g[line_begin(e, u - 1)] = lb
    BY <1>1, <1>2, <2>1
  <2> QED BY <2>1
<1>4. f = CHOOSE h : Fits(h)
  BY DEF Up, lb
<1>5. Fits(f)
  <2> HIDE DEF Fits, g, f
  <2> QED BY <1>3, <1>4
<1> HIDE DEF f
<1> DEFINE T == {u \in D : f[u] = IF lb < u THEN lb ELSE u}
           rank == [u \in D |-> u]
<1>6. ASSUME NEW u \in D, \A w \in D : rank[w] < rank[u] => w \in T PROVE u \in T
  <2>1. CASE lb < u
    <3>1. /\ line_begin(e, u - 1) \in D /\ line_begin(e, u - 1) < u
          /\ lb <= line_begin(e, u - 1)
      BY <1>2, <2>1
    <3>2. line_begin(e, u - 1) \in T
      BY <1>6, <3>1
    <3>3. f[line_begin(e, u - 1)] = lb
      <4>1. line_begin(e, u - 1) \in Nat
        BY <3>1
      <4> QED BY <1>1, <3>1, <3>2, <4>1
    <3>4. f[u] = lb
      BY <1>5, <2>1, <3>3
    <3> QED BY <2>1, <3>4
  <2>2. CASE ~(lb < u)
    BY <1>5, <2>2
  <2> QED BY <2>1, <2>2
<1>7. D \subseteq T
  <2>1. \A u \in D : rank[u] \in Nat
    BY <1>1
  <2> HIDE DEF T, D, rank
  <2> QED BY <1>6, <2>1, Induction
<1> QED BY <1>7 DEF f, lb

(* Going down stops at the first line from which the cursor's is in view. *)
LEMMA DownFacts ==
  ASSUME NEW e, InText(e), NEW t \in 0 .. line_begin(e, e.pos)
  PROVE  LET d == Down(e)[t]
         IN  /\ d \in t .. line_begin(e, e.pos)
             /\ line_begin(e, e.pos) <= LineStarts(e, d)[LastRow]
             /\ d = t \/ IsLine(e.buf, d)
<1> DEFINE D == 0 .. len(e) + 1
           lb == line_begin(e, e.pos)
           inview(u) == lb <= LineStarts(e, u)[LastRow]
           Fits(f) == f = [u \in D |-> IF inview(u) THEN u ELSE f[line_end(e, u) + 1]]
           stop == {u \in D : inview(u)}
           rank == [u \in D |-> len(e) + 1 - u]
           first == [u \in D |-> u]
           back == [u \in D |-> IF u \in stop THEN u ELSE line_end(e, u) + 1]
           step == [u \in D |-> [v \in D |-> v]]
           f == Down(e)
<1>1. /\ e.buf \in Seq(Byte) /\ e.pos \in 0 .. len(e) /\ len(e) \in Nat
      /\ lb \in Nat /\ lb \in 0 .. e.pos /\ lb <= len(e)
  <2>1. e.buf \in Seq(Byte) /\ e.pos \in Nat /\ e.pos <= len(e)
    BY DEF InText, EditorType
  <2>2. len(e) \in Nat
    BY <2>1, Length
  <2>3. lb \in 0 .. e.pos
    BY <2>1, <2>2, LineBegin
  <2> QED BY <2>1, <2>2, <2>3
<1>2. ASSUME NEW u \in D, ~inview(u)
      PROVE  /\ u < lb /\ line_end(e, u) + 1 \in D /\ u < line_end(e, u) + 1
             /\ line_end(e, u) + 1 <= lb /\ IsLine(e.buf, line_end(e, u) + 1)
  <2>1. LineStarts(e, u)[LastRow] \in u .. len(e) + 1
    <3>1. LastRow \in 0 .. LastRow
      BY RowFacts
    <3> QED BY <1>1, <3>1, StartsFacts
  <2>2. u < lb /\ u \in 0 .. len(e)
    BY <1>1, <1>2, <2>1
  <2>3. line_end(e, u) + 1 \in u + 1 .. lb /\ IsLine(e.buf, line_end(e, u) + 1)
    BY <1>1, <2>2, LineBelow
  <2> QED BY <1>1, <2>2, <2>3
<1>3. t \in 0 .. lb
  OBVIOUS
<1> HIDE DEF lb
<1>4. \E g : Fits(g)
  <2>1. Recursive(D, D, len(e) + 1, rank, stop, first, back, step)
    <3>1. rank \in [D -> 0 .. len(e) + 1] /\ first \in [D -> D] /\ step \in [D -> [D -> D]]
      BY <1>1
    <3>2. ASSUME NEW u \in D
          PROVE  (IF u \in stop THEN u ELSE line_end(e, u) + 1) \in D
      <4> HIDE DEF inview
      <4> QED BY <1>2
    <3>3. back \in [D -> D]
      <4> HIDE DEF stop
      <4> QED BY <3>2
    <3>4. ASSUME NEW u \in D, u \notin stop PROVE rank[back[u]] < rank[u]
      <4>1. u < line_end(e, u) + 1 /\ line_end(e, u) + 1 \in D
        <5> HIDE DEF inview
        <5> QED BY <1>2, <3>4
      <4>2. back[u] = line_end(e, u) + 1
        BY <3>4
      <4> HIDE DEF back
      <4> QED BY <1>1, <4>1, <4>2
    <3>5. len(e) + 1 \in Nat
      BY <1>1
    <3> HIDE DEF D, rank, stop, first, back, step
    <3> QED BY <3>1, <3>3, <3>4, <3>5 DEF Recursive
  <2>2. PICK g : Solves(g, D, D, stop, first, back, step)
    <3> HIDE DEF D, stop, rank, first, back, step
    <3> QED BY ONLY <2>1, Recursion
  <2>3. ASSUME NEW u \in D PROVE g[u] = IF inview(u) THEN u ELSE g[line_end(e, u) + 1]
    <3>1. CASE inview(u)
      <4> HIDE DEF inview
      <4> QED BY <2>2, <3>1 DEF Solves
    <3>2. CASE ~inview(u)
      <4>1. line_end(e, u) + 1 \in D /\ g[line_end(e, u) + 1] \in D
        <5> HIDE DEF inview
        <5> QED BY <1>2, <2>2, <3>2 DEF Solves
      <4> HIDE DEF inview
      <4> QED BY <2>2, <3>2, <4>1 DEF Solves
    <3> QED BY <3>1, <3>2
  <2>4. Fits(g)
    <3> HIDE DEF inview
    <3> QED BY <2>2, <2>3 DEF Solves
  <2> HIDE DEF Fits
  <2> QED BY <2>4
<1>5. f = CHOOSE h : Fits(h)
  BY DEF Down, lb, LastRow
<1>6. Fits(f)
  <2> HIDE DEF Fits, f
  <2> QED BY <1>4, <1>5
<1> HIDE DEF f, inview
<1> DEFINE Good(u, d) == d \in u .. lb /\ inview(d) /\ (d = u \/ IsLine(e.buf, d))
           B == 0 .. lb
           T == {u \in B : Good(u, f[u])}
<1>7. ASSUME NEW u \in B, \A w \in B : rank[w] < rank[u] => w \in T PROVE u \in T
  <2>1. u \in D
    BY <1>1
  <2>2. CASE inview(u)
    <3>1. f[u] = u
      BY <1>6, <2>1, <2>2
    <3> QED BY <1>1, <2>2, <3>1
  <2>3. CASE ~inview(u)
    <3> DEFINE w == line_end(e, u) + 1
    <3>1. w \in D /\ u < w /\ w <= lb /\ IsLine(e.buf, w)
      BY <1>2, <2>1, <2>3
    <3> HIDE DEF w
    <3>2. w \in B /\ rank[w] < rank[u]
      BY <1>1, <2>1, <3>1
    <3>3. w \in T
      <4> HIDE DEF T, rank, B
      <4> QED BY <1>7, <3>2
    <3>4. f[u] = f[w]
      BY <1>6, <2>1, <2>3 DEF w
    <3>5. Good(w, f[w])
      BY <3>3
    <3>6. Good(u, f[w])
      BY <1>1, <2>1, <3>1, <3>5
    <3> HIDE DEF Good
    <3> QED BY <3>4, <3>6
  <2> QED BY <2>2, <2>3
<1>8. B \subseteq T
  <2>1. \A u \in B : rank[u] \in Nat
    BY <1>1
  <2> HIDE DEF T, B, rank
  <2> QED BY <1>7, <2>1, Induction
<1>9. Good(t, f[t])
  <2> HIDE DEF Good
  <2> QED BY <1>3, <1>8
<1> QED BY <1>9 DEF f, lb, inview

(* scroll_fix brings the line and the column of the cursor into view and   *)
(* changes nothing but the view.                                           *)
LEMMA ScrollFixed ==
  ASSUME NEW e, InText(e)
  PROVE  LET g == scroll_fix(e)
             lb == line_begin(e, e.pos)
         IN  /\ g \in EditorType
             /\ g.buf = e.buf /\ g.pos = e.pos /\ g.dirty = e.dirty /\ g.cmd_mode = e.cmd_mode
             /\ g.cmd_len = e.cmd_len /\ g.fname = e.fname
             /\ g.top \in 0 .. lb /\ lb <= LineStarts(e, g.top)[LastRow]
             /\ IsLine(e.buf, e.top) \/ lb < e.top => IsLine(e.buf, g.top)
             /\ col_of(e, e.pos) - g.offx \in 0 .. WIDTH - 1
<1> DEFINE lb == line_begin(e, e.pos)
           c == col_of(e, e.pos)
           up == Up(e)[e.top]
           down == Down(e)[up]
           off == IF c < e.offx THEN c ELSE IF c >= e.offx + WIDTH THEN c - (WIDTH - 1) ELSE e.offx
           g == scroll_fix(e)
<1>1. /\ e \in EditorType /\ e.buf \in Seq(Byte) /\ e.pos \in 0 .. len(e) /\ len(e) \in Nat
      /\ e.top \in 0 .. len(e) + 1 /\ e.offx \in Nat
  <2>1. e \in EditorType /\ e.buf \in Seq(Byte) /\ e.pos \in Nat /\ e.pos <= len(e)
        /\ e.top \in Nat /\ e.top <= len(e) + 1 /\ e.offx \in Nat
    BY DEF InText, EditorType
  <2>2. len(e) \in Nat
    BY <2>1, Length
  <2> QED BY <2>1, <2>2
<1>2. lb \in 0 .. e.pos /\ IsLine(e.buf, lb) /\ lb \in Nat /\ c \in Nat
  BY <1>1, LineBegin, ColOf
<1>3. g = [e EXCEPT !.top = down, !.offx = off]
  BY DEF scroll_fix, Up, Down
<1> HIDE DEF lb, c
<1>4. up = IF lb < e.top THEN lb ELSE e.top
  BY <1>1, UpFacts DEF lb
<1>5. up \in 0 .. lb
  BY <1>1, <1>2, <1>4
<1> HIDE DEF up
<1>6. down \in up .. lb /\ lb <= LineStarts(e, down)[LastRow] /\ (down = up \/ IsLine(e.buf, down))
  BY <1>5, DownFacts DEF lb
<1> HIDE DEF down
<1>7. down \in 0 .. lb /\ down \in Nat
  BY <1>2, <1>5, <1>6
<1>8. IsLine(e.buf, e.top) \/ lb < e.top => IsLine(e.buf, down)
  BY <1>2, <1>4, <1>6
<1>9. off \in Nat /\ c - off \in 0 .. WIDTH - 1
  <2>1. WIDTH \in Nat \ {0} /\ e.offx \in Nat /\ c \in Nat
    BY <1>1, <1>2, SizeAssumption
  <2> QED BY <2>1
<1> HIDE DEF off, g
<1>10. g \in EditorType
  BY <1>1, <1>3, <1>7, <1>9 DEF EditorType
<1>11. /\ g.top = down /\ g.offx = off /\ g.buf = e.buf /\ g.pos = e.pos /\ g.dirty = e.dirty
       /\ g.cmd_mode = e.cmd_mode /\ g.cmd_len = e.cmd_len /\ g.fname = e.fname
  BY <1>1, <1>3 DEF EditorType
<1> QED BY <1>6, <1>7, <1>8, <1>9, <1>10, <1>11 DEF g, lb, c

-----------------------------------------------------------------------------
(* The screen *)

Mirror == [back : [Index -> Cell], front : [Index -> Cell]]

(* A place of the grid and its cell. *)
LEMMA Places ==
  ASSUME NEW x \in 0 .. WIDTH - 1, NEW y \in 0 .. HEIGHT - 1
  PROVE  At(x, y) \in Index /\ At(x, y) \div WIDTH = y /\ At(x, y) % WIDTH = x
<1>1. WIDTH \in Nat \ {0} /\ HEIGHT \in Nat \ {0} /\ y \in Nat /\ x \in Nat /\ x < WIDTH
  BY SizeAssumption
<1>2. /\ y * WIDTH \in Nat /\ y * WIDTH <= WIDTH * (HEIGHT - 1)
      /\ (y + 1) * WIDTH = y * WIDTH + WIDTH
      /\ WIDTH * (HEIGHT - 1) \in Nat /\ WIDTH * HEIGHT = WIDTH * (HEIGHT - 1) + WIDTH
  BY ONLY <1>1, GridFacts
<1>3. At(x, y) = y * WIDTH + x /\ At(x, y) \in Nat
  BY <1>1, <1>2 DEF At
<1>4. At(x, y) \in Index
  BY <1>1, <1>2, <1>3 DEF Index
<1>5. At(x, y) \div WIDTH = y
  <2>1. WIDTH * y = y * WIDTH /\ WIDTH * (y + 1) = (y + 1) * WIDTH
    BY <1>1
  <2>2. WIDTH * y <= At(x, y) /\ At(x, y) < WIDTH * (y + 1)
    BY <1>1, <1>2, <1>3, <2>1
  <2> HIDE DEF At
  <2> QED BY ONLY <1>1, <1>3, <2>2, DivAt
<1>6. At(x, y) % WIDTH = x
  <2>1. At(x, y) = WIDTH * y + x
    BY <1>1, <1>3
  <2>2. x \in 0 .. WIDTH - 1 /\ At(x, y) \in Int /\ y \in Int
    BY <1>1, <1>3
  <2> HIDE DEF At
  <2> QED BY ONLY <1>1, <2>1, <2>2, ModAt
<1> QED BY <1>4, <1>5, <1>6

(* A cell of the grid and its place. *)
LEMMA PlaceOf ==
  ASSUME NEW i \in Index
  PROVE  i % WIDTH \in 0 .. WIDTH - 1 /\ i \div WIDTH \in 0 .. HEIGHT - 1
<1>1. WIDTH \in Nat \ {0} /\ HEIGHT \in Nat /\ i \in Nat /\ i < WIDTH * HEIGHT
  <2>1. WIDTH \in Nat \ {0} /\ HEIGHT \in Nat \ {0}
    BY SizeAssumption
  <2>2. HEIGHT - 1 \in 0 .. HEIGHT - 1
    BY <2>1
  <2>3. WIDTH * (HEIGHT - 1) \in Nat /\ WIDTH * HEIGHT = WIDTH * (HEIGHT - 1) + WIDTH
    BY ONLY <2>1, <2>2, GridFacts
  <2> QED BY <2>1, <2>3 DEF Index
<1>2. i % WIDTH \in 0 .. WIDTH - 1 /\ i \div WIDTH \in Nat
  BY ONLY <1>1, DivFacts
<1>3. i \div WIDTH < HEIGHT
  BY ONLY <1>1, DivBelow
<1> QED BY <1>1, <1>2, <1>3

(* The characters and colours of the editor. *)
LEMMA Glyphs ==
  /\ BLANK \in Chars /\ NL \notin Chars /\ TAB \notin Chars /\ NL # TAB /\ Border \in Chars
  /\ ATTR_TEXT \in Color /\ ATTR_STATUS \in Color /\ ATTR_FIELD \in Color
  /\ ATTR_TEXT.bg = BLACK /\ ATTR_STATUS.bg # BLACK /\ Empty \in Cell
  /\ Marked \in Seq(Chars) /\ <<>> \in Seq(Chars) /\ Len(Marked) = 1 /\ Marked[1] = Border
<1>1. /\ BLANK \in Chars /\ NL \notin Chars /\ TAB \notin Chars /\ NL # TAB /\ Border \in Chars
      /\ BLACK \in Colours /\ WHITE \in Colours /\ BLUE \in Colours /\ BLUE # BLACK
      /\ CYAN \in Colours
  BY CharAssumption, ColourAssumption, TextAssumption
<1>2. /\ ATTR_TEXT \in Color /\ ATTR_STATUS \in Color /\ ATTR_FIELD \in Color
      /\ ATTR_TEXT.bg = BLACK /\ ATTR_STATUS.bg # BLACK /\ Empty \in Cell
  BY <1>1 DEF ATTR_TEXT, ATTR_STATUS, ATTR_FIELD, VGA_COLOR, Color, Cell, Empty, Plain
<1>3. Marked \in Seq(Chars) /\ <<>> \in Seq(Chars) /\ Len(Marked) = 1 /\ Marked[1] = Border
  BY <1>1 DEF Marked
<1> QED BY <1>1, <1>2, <1>3

(* Cells drawn over the screen. *)
LEMMA OverFacts ==
  ASSUME NEW m \in Mirror, NEW cells, \A i \in DOMAIN cells : cells[i] \in Cell
  PROVE  /\ Over(m, cells) \in Mirror /\ Over(m, cells).front = m.front
         /\ \A i \in Index : Over(m, cells).back[i] =
              IF i \in DOMAIN cells THEN cells[i] ELSE m.back[i]
<1> DEFINE b == [i \in Index |-> IF i \in DOMAIN cells THEN cells[i] ELSE m.back[i]]
<1>1. m.back \in [Index -> Cell]
  BY DEF Mirror
<1>2. b \in [Index -> Cell]
  <2>1. ASSUME NEW i \in Index PROVE (IF i \in DOMAIN cells THEN cells[i] ELSE m.back[i]) \in Cell
    BY <1>1
  <2> QED BY <2>1
<1>3. Over(m, cells) = [m EXCEPT !.back = b]
  BY DEF Over
<1> HIDE DEF b
<1>4. Over(m, cells) \in Mirror /\ Over(m, cells).front = m.front /\ Over(m, cells).back = b
  BY <1>2, <1>3 DEF Mirror
<1> QED BY <1>4 DEF b

(* A text on the screen: a cell either stays, or has a character of it, in *)
(* its colour and at its place.                                            *)
LEMMA PutFacts ==
  ASSUME NEW m \in Mirror, NEW s \in Seq(Chars), NEW attr \in Color, NEW x, NEW y, NEW maxw
  PROVE  LET u == put_sn(m, x, y, maxw, s, attr)
         IN  /\ u \in Mirror /\ u.front = m.front
             /\ \A i \in Index :
                  \/ u.back[i] = m.back[i]
                  \/ /\ u.back[i].color = attr
                     /\ \E k \in DOMAIN s : /\ Onscreen(x + Dx(s, k), y + Dy(s, k))
                                            /\ i = At(x + Dx(s, k), y + Dy(s, k))
<1> DEFINE drawn == {k \in DOMAIN s : /\ s[k] # NL /\ Onscreen(x + Dx(s, k), y + Dy(s, k))
                                      /\ maxw >= 0 => \A j \in 1 .. k : Dx(s, j) < maxw}
           place(k) == At(x + Dx(s, k), y + Dy(s, k))
           D == {place(k) : k \in drawn}
           cells == [i \in D |-> [ch |-> s[CHOOSE k \in drawn : place(k) = i], color |-> attr]]
           u == put_sn(m, x, y, maxw, s, attr)
<1>1. u = Over(m, cells)
  BY DEF put_sn
<1>2. \A k \in drawn : k \in DOMAIN s /\ Onscreen(x + Dx(s, k), y + Dy(s, k)) /\ s[k] \in Chars
  OBVIOUS
<1> HIDE DEF drawn, place
<1>3. ASSUME NEW i \in D PROVE cells[i] \in Cell /\ cells[i].color = attr
  <2>1. (CHOOSE k \in drawn : place(k) = i) \in drawn
    BY <1>3
  <2>2. s[CHOOSE k \in drawn : place(k) = i] \in Chars
    BY <1>2, <2>1
  <2> QED BY <2>2 DEF Cell
<1>4. DOMAIN cells = D
  OBVIOUS
<1>5. ASSUME NEW i \in D
      PROVE  \E k \in DOMAIN s : /\ Onscreen(x + Dx(s, k), y + Dy(s, k))
                                 /\ i = At(x + Dx(s, k), y + Dy(s, k))
  BY <1>2, <1>5 DEF place
<1> HIDE DEF cells, D, u
<1>6. /\ u \in Mirror /\ u.front = m.front
      /\ \A i \in Index : u.back[i] = IF i \in DOMAIN cells THEN cells[i] ELSE m.back[i]
  BY <1>1, <1>3, <1>4, OverFacts
<1>7. ASSUME NEW i \in Index
      PROVE  \/ u.back[i] = m.back[i]
             \/ /\ u.back[i].color = attr
                /\ \E k \in DOMAIN s : /\ Onscreen(x + Dx(s, k), y + Dy(s, k))
                                       /\ i = At(x + Dx(s, k), y + Dy(s, k))
  BY <1>3, <1>4, <1>5, <1>6
<1> QED BY <1>6, <1>7 DEF u

(* A rectangle of one cell. *)
LEMMA FillFacts ==
  ASSUME NEW m \in Mirror, NEW ch \in Chars, NEW attr \in Color, NEW x, NEW y, NEW w, NEW h
  PROVE  LET u == mirror_fill(m, x, y, w, h, ch, attr)
         IN  /\ u \in Mirror /\ u.front = m.front
             /\ \A i \in Index : u.back[i] =
                  IF Within(i, x, y, w, h) THEN [ch |-> ch, color |-> attr] ELSE m.back[i]
<1> DEFINE D == {j \in Index : Within(j, x, y, w, h)}
           cells == [i \in D |-> [ch |-> ch, color |-> attr]]
           u == mirror_fill(m, x, y, w, h, ch, attr)
<1>1. u = Over(m, cells)
  BY DEF mirror_fill
<1>2. DOMAIN cells = D /\ \A i \in D : cells[i] \in Cell /\ cells[i] = [ch |-> ch, color |-> attr]
  BY DEF Cell
<1> HIDE DEF cells, u
<1>3. /\ u \in Mirror /\ u.front = m.front
      /\ \A i \in Index : u.back[i] = IF i \in DOMAIN cells THEN cells[i] ELSE m.back[i]
  <2> HIDE DEF D
  <2> QED BY <1>1, <1>2, OverFacts
<1> QED BY <1>2, <1>3 DEF u

(* A status row is drawn in its row, all in its colours. *)
LEMMA StatusFacts ==
  ASSUME NEW m \in Mirror, NEW row \in 0 .. HEIGHT - 1, NEW left, left = <<>>,
         NEW right \in {<<>>, Marked}, NEW attr \in Color
  PROVE  LET u == mirror_status(m, row, left, right, attr)
         IN  /\ u \in Mirror /\ u.front = m.front
             /\ \A i \in Index : IF i \div WIDTH = row THEN u.back[i].color = attr
                                 ELSE u.back[i] = m.back[i]
<1> DEFINE filled == mirror_fill(m, 0, row, WIDTH, 1, BLANK, attr)
           said == put_sn(filled, 1, row, -1, <<>>, attr)
           rx == IF WIDTH - 1 - Len(right) < 1 THEN 1 ELSE WIDTH - 1 - Len(right)
           set == put_sn(said, rx, row, WIDTH - rx - 1, right, attr)
           u == mirror_status(m, row, left, right, attr)
           Rowed(v) == /\ v \in Mirror /\ v.front = m.front
                       /\ \A i \in Index : IF i \div WIDTH = row THEN v.back[i].color = attr
                                           ELSE v.back[i] = m.back[i]
<1>1. row \in Nat /\ BLANK \in Chars /\ WIDTH \in Nat
  BY Glyphs, SizeAssumption
<1>2. Rowed(filled)
  <2>1. /\ filled \in Mirror /\ filled.front = m.front
        /\ \A i \in Index : filled.back[i] =
             IF Within(i, 0, row, WIDTH, 1) THEN [ch |-> BLANK, color |-> attr] ELSE m.back[i]
    BY <1>1, FillFacts
  <2>2. ASSUME NEW i \in Index PROVE Within(i, 0, row, WIDTH, 1) <=> i \div WIDTH = row
    <3>1. i % WIDTH \in 0 .. WIDTH - 1 /\ i \div WIDTH \in 0 .. HEIGHT - 1
      BY PlaceOf
    <3>2. row .. row + 1 - 1 = {row} /\ 0 + WIDTH - 1 = WIDTH - 1
      BY <1>1
    <3> QED BY <3>1, <3>2 DEF Within
  <2> HIDE DEF filled
  <2> QED BY <2>1, <2>2
<1> HIDE DEF filled
<1>3. ASSUME NEW v, Rowed(v), NEW s \in {<<>>, Marked}, NEW x, NEW maxw
      PROVE  Rowed(put_sn(v, x, row, maxw, s, attr))
  <2> DEFINE w == put_sn(v, x, row, maxw, s, attr)
  <2>1. v \in Mirror /\ s \in Seq(Chars)
    <3>1. CASE s = <<>>
      BY <1>3, <3>1, Glyphs
    <3>2. CASE s = Marked
      BY <1>3, <3>2, Glyphs
    <3> QED BY <3>1, <3>2
  <2>2. /\ w \in Mirror /\ w.front = v.front
        /\ \A i \in Index :
             \/ w.back[i] = v.back[i]
             \/ /\ w.back[i].color = attr
                /\ \E k \in DOMAIN s : /\ Onscreen(x + Dx(s, k), row + Dy(s, k))
                                       /\ i = At(x + Dx(s, k), row + Dy(s, k))
    BY <2>1, PutFacts
  <2>3. ASSUME NEW k \in DOMAIN s PROVE row + Dy(s, k) = row
    <3>1. k = 1
      BY Glyphs, <2>3
    <3>2. Newlines(s, k) = {}
      BY <3>1 DEF Newlines
    <3> QED BY <1>1, <3>2, FS_EmptySet DEF Dy
  <2>4. ASSUME NEW k \in DOMAIN s, Onscreen(x + Dx(s, k), row + Dy(s, k))
        PROVE  At(x + Dx(s, k), row + Dy(s, k)) \div WIDTH = row
    BY <2>3, <2>4, Places DEF Onscreen
  <2> HIDE DEF w
  <2>5. ASSUME NEW i \in Index
        PROVE  IF i \div WIDTH = row THEN w.back[i].color = attr ELSE w.back[i] = m.back[i]
    BY <1>3, <2>2, <2>4
  <2> QED BY <1>3, <2>2, <2>5 DEF w
<1>4. Rowed(said)
  <2> HIDE DEF Rowed
  <2> QED BY <1>2, <1>3
<1> HIDE DEF said
<1>5. Rowed(set)
  <2> HIDE DEF Rowed, rx
  <2> QED BY <1>3, <1>4
<1>6. u = IF right = <<>> THEN said ELSE set
  BY DEF mirror_status, filled, said
<1> HIDE DEF set, u
<1>7. Rowed(u)
  <2> HIDE DEF Rowed
  <2> QED BY <1>4, <1>5, <1>6
<1> QED BY <1>7 DEF u

(* A box without a title. *)
LEMMA BoxFacts ==
  ASSUME NEW m \in Mirror, NEW attr \in Color, NEW x, NEW y, NEW w, NEW h
  PROVE  LET u == mirror_box(m, x, y, w, h, attr, <<>>) IN u \in Mirror /\ u.front = m.front
<1> DEFINE edge(i) == Within(i, x, y, w, h) /\ ~Within(i, x + 1, y + 1, w - 2, h - 2)
           cells == [i \in {j \in Index : edge(j)} |-> [ch |-> Border, color |-> attr]]
           framed == Over(m, cells)
           u == mirror_box(m, x, y, w, h, attr, <<>>)
<1>1. framed \in Mirror /\ framed.front = m.front
  <2>1. \A i \in DOMAIN cells : cells[i] \in Cell
    BY Glyphs DEF Cell
  <2> HIDE DEF cells
  <2> QED BY <2>1, OverFacts
<1>2. put_sn(framed, x + 2, y, w - 4, <<>>, attr) \in Mirror
      /\ put_sn(framed, x + 2, y, w - 4, <<>>, attr).front = m.front
  <2> DEFINE title == <<>>
             tx == x + 2
             tw == w - 4
  <2>1. title \in Seq(Chars)
    OBVIOUS
  <2> HIDE DEF framed, title, tx, tw
  <2>2. /\ put_sn(framed, tx, y, tw, title, attr) \in Mirror
        /\ put_sn(framed, tx, y, tw, title, attr).front = m.front
    BY <1>1, <2>1, PutFacts
  <2> QED BY <2>2 DEF title, tx, tw
<1>3. u = m \/ u = framed \/ u = put_sn(framed, x + 2, y, w - 4, <<>>, attr)
  BY DEF mirror_box
<1> HIDE DEF framed, u
<1>4. u \in Mirror /\ u.front = m.front
  BY <1>1, <1>2, <1>3
<1> QED BY <1>4 DEF u

(* A line on the screen shows characters of the text and blanks.           *)
LEMMA LineDrawn ==
  ASSUME NEW e, e.buf \in Seq(Byte), NEW s \in 0 .. len(e) + 1, NEW x \in 0 .. WIDTH - 1
  PROVE  draw_line(e, s)[x] \in Chars
<1> DEFINE f == IF s > len(e) THEN s ELSE line_end(e, s)
           c == Columns(e, s, f)
           shown == {i \in s + 1 .. f : c[i - 1] - e.offx = x /\ e.buf[i] # TAB}
           i == CHOOSE j \in shown : TRUE
<1>1. draw_line(e, s)[x] = IF shown = {} THEN BLANK ELSE e.buf[i]
  BY DEF draw_line
<1>2. ASSUME shown # {} PROVE e.buf[i] \in Chars
  <2>1. i \in s + 1 .. f /\ e.buf[i] # TAB
    BY <1>2
  <2>2. len(e) \in Nat /\ \A j \in 1 .. len(e) : e.buf[j] \in Byte
    BY Length
  <2>3. s \in 0 .. len(e) /\ f = line_end(e, s)
    BY <2>1, <2>2
  <2>4. line_end(e, s) \in s .. len(e) /\ SameLine(e.buf, s, line_end(e, s))
    BY <2>3, LineEnd
  <2> HIDE DEF shown, i, f
  <2>5. e.buf[i] # NL /\ i \in 1 .. len(e)
    BY <2>1, <2>2, <2>3, <2>4 DEF SameLine
  <2> QED BY <2>1, <2>2, <2>5 DEF Byte
<1> HIDE DEF shown, i
<1> QED BY <1>1, <1>2, Glyphs

(* What is drawn: the text in its rows, and status rows that are not blank.*)
LEMMA DrawFacts ==
  ASSUME NEW e, e.buf \in Seq(Byte), e.top \in 0 .. len(e) + 1, NEW m \in Mirror
  PROVE  LET u == draw(e, m)
         IN  /\ u \in Mirror /\ u.front = m.front /\ ~Blank(u)
             /\ \A x \in 0 .. WIDTH - 1, y \in TEXT_TOP .. TEXT_BOT :
                  u.back[At(x, y)].ch = draw_line(e, LineStarts(e, e.top)[y - TEXT_TOP])[x]
<1> DEFINE starts == LineStarts(e, e.top)
           lines == [row \in TEXT_TOP .. TEXT_BOT |-> draw_line(e, starts[row - TEXT_TOP])]
           b == [i \in Index |->
                   IF i \div WIDTH \in TEXT_TOP .. TEXT_BOT
                   THEN [ch |-> lines[i \div WIDTH][i % WIDTH], color |-> ATTR_TEXT] ELSE m.back[i]]
           text == [m EXCEPT !.back = b]
           top == 0
           bottom == HEIGHT - 1
           left == <<>>
           modified == IF e.dirty THEN Marked ELSE <<>>
           cancel == IF e.cmd_mode THEN Marked ELSE <<>>
           titled == mirror_status(text, top, left, modified, ATTR_STATUS)
           u == mirror_status(titled, bottom, left, cancel, ATTR_STATUS)
<1>1. /\ WIDTH \in Nat \ {0} /\ HEIGHT \in Nat /\ HEIGHT > 2 /\ LastRow \in Nat
      /\ TEXT_TOP = 1 /\ TEXT_BOT = LastRow + 1 /\ TEXT_BOT = HEIGHT - 2
  BY RowFacts
<1>2. draw(e, m) = u
  BY DEF draw
<1>3. ASSUME NEW row \in TEXT_TOP .. TEXT_BOT, NEW x \in 0 .. WIDTH - 1
      PROVE  /\ lines[row] = draw_line(e, LineStarts(e, e.top)[row - TEXT_TOP])
             /\ lines[row][x] \in Chars
  <2>1. row - TEXT_TOP \in 0 .. LastRow
    BY <1>1
  <2>2. starts[row - TEXT_TOP] \in 0 .. len(e) + 1
    <3>1. starts[row - TEXT_TOP] \in e.top .. len(e) + 1
      BY <2>1, StartsFacts
    <3>2. len(e) \in Nat
      BY Length
    <3> QED BY <3>1, <3>2
  <2>3. draw_line(e, starts[row - TEXT_TOP])[x] \in Chars
    BY <2>2, LineDrawn
  <2> QED BY <2>3
<1> HIDE DEF lines
<1>4. m.back \in [Index -> Cell]
  BY DEF Mirror
<1>5. b \in [Index -> Cell]
  <2>1. ASSUME NEW i \in Index, i \div WIDTH \in TEXT_TOP .. TEXT_BOT
        PROVE  [ch |-> lines[i \div WIDTH][i % WIDTH], color |-> ATTR_TEXT] \in Cell
    BY <1>3, <2>1, PlaceOf, Glyphs DEF Cell
  <2> QED BY <1>4, <2>1
<1>6. \A x \in 0 .. WIDTH - 1, y \in TEXT_TOP .. TEXT_BOT :
        b[At(x, y)].ch = draw_line(e, LineStarts(e, e.top)[y - TEXT_TOP])[x]
  <2> SUFFICES ASSUME NEW x \in 0 .. WIDTH - 1, NEW y \in TEXT_TOP .. TEXT_BOT
               PROVE  b[At(x, y)].ch = draw_line(e, LineStarts(e, e.top)[y - TEXT_TOP])[x]
    OBVIOUS
  <2>1. y \in 0 .. HEIGHT - 1
    BY <1>1
  <2>2. At(x, y) \in Index /\ At(x, y) \div WIDTH = y /\ At(x, y) % WIDTH = x
    BY <2>1, Places
  <2>3. b[At(x, y)] = [ch |-> lines[y][x], color |-> ATTR_TEXT]
    BY <2>2
  <2> HIDE DEF b
  <2> QED BY <1>3, <2>3
<1> HIDE DEF b
<1>7. text \in Mirror /\ text.back = b /\ text.front = m.front
  BY <1>5 DEF Mirror
<1> HIDE DEF text
<1>8. modified \in {<<>>, Marked} /\ cancel \in {<<>>, Marked}
  OBVIOUS
<1>0. left = <<>> /\ ATTR_STATUS \in Color
  BY Glyphs
<1> HIDE DEF modified, cancel, left
<1>9. /\ titled \in Mirror /\ titled.front = m.front
      /\ \A i \in Index : IF i \div WIDTH = 0 THEN titled.back[i].color = ATTR_STATUS
                          ELSE titled.back[i] = b[i]
  <2>1. top \in 0 .. HEIGHT - 1
    BY <1>1
  <2> HIDE DEF top
  <2>2. /\ titled \in Mirror /\ titled.front = text.front
        /\ \A i \in Index : IF i \div WIDTH = top THEN titled.back[i].color = ATTR_STATUS
                            ELSE titled.back[i] = text.back[i]
    BY <1>8, <1>7, <1>0, <2>1, StatusFacts
  <2> QED BY <1>7, <2>2 DEF top
<1> HIDE DEF titled
<1>10. /\ u \in Mirror /\ u.front = m.front
       /\ \A i \in Index : IF i \div WIDTH = HEIGHT - 1 THEN u.back[i].color = ATTR_STATUS
                           ELSE u.back[i] = titled.back[i]
  <2>1. bottom \in 0 .. HEIGHT - 1
    BY <1>1
  <2> HIDE DEF bottom
  <2>2. /\ u \in Mirror /\ u.front = titled.front
        /\ \A i \in Index : IF i \div WIDTH = bottom THEN u.back[i].color = ATTR_STATUS
                            ELSE u.back[i] = titled.back[i]
    BY <1>8, <1>9, <1>0, <2>1, StatusFacts
  <2> QED BY <1>9, <2>2 DEF bottom
<1> HIDE DEF u
<1>11. ~Blank(u)
  <2>1. 0 \in 0 .. WIDTH - 1 /\ 0 \in 0 .. HEIGHT - 1 /\ 0 # HEIGHT - 1
    BY <1>1
  <2>2. At(0, 0) \in Index /\ At(0, 0) \div WIDTH = 0
    BY <2>1, Places
  <2>3. u.back[At(0, 0)].color = ATTR_STATUS
    BY <1>9, <1>10, <2>1, <2>2
  <2> QED BY <2>2, <2>3, Glyphs DEF Blank
<1>12. ASSUME NEW x \in 0 .. WIDTH - 1, NEW y \in TEXT_TOP .. TEXT_BOT
       PROVE  u.back[At(x, y)].ch = draw_line(e, LineStarts(e, e.top)[y - TEXT_TOP])[x]
  <2>1. y \in 0 .. HEIGHT - 1 /\ y # 0 /\ y # HEIGHT - 1
    BY <1>1
  <2>2. At(x, y) \in Index /\ At(x, y) \div WIDTH = y
    BY <2>1, Places
  <2>3. u.back[At(x, y)] = b[At(x, y)]
    BY <1>9, <1>10, <2>1, <2>2
  <2> QED BY <1>6, <2>3
<1> QED BY <1>2, <1>10, <1>11, <1>12

-----------------------------------------------------------------------------
(* The terminal *)

(* The terminal's cells c show the cells b.                                *)
Exact(b, c) ==
  \A i \in Index : /\ c[i].ch = b[i].ch /\ c[i].color.bg = b[i].color.bg
                   /\ c[i].ch # BLANK => c[i].color = b[i].color

(* What a flush sends makes the terminal show what is drawn, if it showed  *)
(* what was sent before; the cursor stays unless the screen is blank.      *)
LEMMA SentFacts ==
  ASSUME NEW m \in Mirror, NEW t \in TerminalType, Exact(m.front, t.cells)
  PROVE  LET u == Sent(m, t)
         IN  /\ u \in TerminalType /\ Exact(m.back, u.cells)
             /\ ~Blank(m) => u.x = t.x /\ u.y = t.y
<1> DEFINE sent == [i \in Index |-> IF Differs(m, i) /\ m.back[i].ch # NL
                                    THEN m.back[i] ELSE t.cells[i]]
           empty == [i \in Index |-> Empty]
           u == Sent(m, t)
<1>1. /\ m.back \in [Index -> Cell] /\ m.front \in [Index -> Cell] /\ t.cells \in [Index -> Cell]
  BY DEF Mirror, TerminalType
<1>2. CASE Blank(m)
  <2>1. u = [t EXCEPT !.cells = empty, !.x = 0, !.y = 0]
    BY <1>2 DEF Sent, term_clear
  <2>2. 0 \in 0 .. WIDTH - 1 /\ 0 \in 0 .. HEIGHT - 1
    BY SizeAssumption
  <2>3. empty \in [Index -> Cell] /\ Exact(m.back, empty)
    <3>1. Empty.ch = BLANK /\ Empty.color.bg = BLACK
      BY DEF Empty, Plain, VGA_COLOR
    <3>2. \A i \in Index : m.back[i].ch = BLANK /\ m.back[i].color.bg = BLACK
      BY <1>2 DEF Blank
    <3> QED BY <3>1, <3>2, Glyphs DEF Exact
  <2> HIDE DEF empty, u
  <2>4. u \in TerminalType /\ u.cells = empty
    BY <2>1, <2>2, <2>3 DEF TerminalType
  <2> QED BY <1>2, <2>3, <2>4 DEF u
<1>3. CASE ~Blank(m)
  <2>1. u = [t EXCEPT !.cells = sent]
    BY <1>3 DEF Sent
  <2>2. sent \in [Index -> Cell]
    BY <1>1
  <2>3. ASSUME NEW i \in Index
        PROVE  /\ sent[i].ch = m.back[i].ch /\ sent[i].color.bg = m.back[i].color.bg
               /\ sent[i].ch # BLANK => sent[i].color = m.back[i].color
    <3>1. m.back[i].ch # NL
      BY <1>1, Glyphs DEF Cell
    <3>2. CASE Differs(m, i)
      <4>1. sent[i] = m.back[i]
        BY <3>1, <3>2
      <4> QED BY <4>1
    <3>3. CASE ~Differs(m, i)
      <4>1. sent[i] = t.cells[i]
        BY <3>3
      <4>2. m.back[i].ch = m.front[i].ch /\ m.back[i].color = m.front[i].color
        BY <3>3 DEF Differs
      <4> QED BY <4>1, <4>2 DEF Exact
    <3> QED BY <3>2, <3>3
  <2> HIDE DEF sent, u
  <2>4. u \in TerminalType /\ u.cells = sent /\ u.x = t.x /\ u.y = t.y
    BY <2>1, <2>2 DEF TerminalType
  <2> QED BY <2>3, <2>4 DEF u, Exact
<1> QED BY <1>2, <1>3

(* Moving the cursor changes no cell. *)
LEMMA MovedFacts ==
  ASSUME NEW t \in TerminalType, NEW x, NEW y
  PROVE  LET u == mirror_cursor(t, x, y)
         IN  /\ u \in TerminalType /\ u.cells = t.cells
             /\ Onscreen(x, y) => u.x = x /\ u.y = y
BY DEF mirror_cursor, Onscreen, TerminalType

(* What is drawn becomes what was sent. *)
LEMMA FlushedFacts ==
  ASSUME NEW m \in Mirror
  PROVE  Flushed(m) \in Mirror /\ Flushed(m).back = m.back /\ Flushed(m).front = m.back
BY DEF Flushed, Mirror

-----------------------------------------------------------------------------
(* The caret *)

(* What the cell under the caret should show. *)
Under(e) ==
  IF e.pos = len(e) \/ e.buf[e.pos + 1] \in {NL, TAB} THEN BLANK ELSE e.buf[e.pos + 1]

(* Columns do not depend on how far the line is looked at, and grow.       *)
LEMMA ColumnsGrow ==
  ASSUME NEW e, NEW s \in Nat, NEW p \in Nat, NEW f \in Nat, s <= p, p <= f
  PROVE  /\ Columns(e, s, f)[p] = Columns(e, s, p)[p]
         /\ \A i, j \in s .. f : i < j => Columns(e, s, f)[i] < Columns(e, s, f)[j]
<1> DEFINE c == Columns(e, s, f)
           b == Columns(e, s, p)
<1>1. /\ c[s] = 0 /\ \A i \in s .. f : c[i] \in Nat
      /\ \A i \in s + 1 .. f : c[i] = Advance(c[i - 1], e.buf[i])
  <2>1. s <= f
    OBVIOUS
  <2> QED BY <2>1, ColumnsFacts
<1>2. /\ b[s] = 0 /\ \A i \in s + 1 .. p : b[i] = Advance(b[i - 1], e.buf[i])
  BY ColumnsFacts
<1> HIDE DEF c, b
<1>3. c[p] = b[p]
  <2> DEFINE T == {i \in s .. p : c[i] = b[i]}
  <2>1. s \in T
    BY <1>1, <1>2
  <2>2. ASSUME NEW i \in s .. p - 1, i \in T PROVE i + 1 \in T
    <3>1. i + 1 \in s + 1 .. p /\ i + 1 \in s + 1 .. f /\ i + 1 \in s .. p /\ (i + 1) - 1 = i
      OBVIOUS
    <3>2. c[i] = b[i]
      BY <2>2
    <3>3. c[i + 1] = Advance(c[i], e.buf[i + 1]) /\ b[i + 1] = Advance(b[i], e.buf[i + 1])
      BY <1>1, <1>2, <3>1
    <3> QED BY <3>1, <3>2, <3>3
  <2>3. s .. p \subseteq T
    <3> HIDE DEF T
    <3> QED BY <2>1, <2>2, Upward
  <2>4. p \in s .. p
    OBVIOUS
  <2> QED BY <2>3, <2>4
<1>4. ASSUME NEW i \in s .. f - 1 PROVE c[i] \in Nat /\ c[i] < c[i + 1] /\ c[i + 1] \in Nat
  <2>1. i + 1 \in s + 1 .. f /\ (i + 1) - 1 = i /\ i \in s .. f /\ i + 1 \in s .. f
    OBVIOUS
  <2>2. c[i] \in Nat /\ c[i + 1] = Advance(c[i], e.buf[i + 1])
    BY <1>1, <2>1
  <2> QED BY <2>2, Advances
<1>5. ASSUME NEW i \in s .. f, NEW j \in s .. f, i < j PROVE c[i] < c[j]
  <2> DEFINE T == {k \in i + 1 .. j : c[i] < c[k] /\ c[k] \in Nat}
  <2>1. i + 1 \in T
    <3>1. i \in s .. f - 1 /\ i + 1 \in i + 1 .. j
      BY <1>5
    <3> QED BY <1>4, <3>1
  <2>2. ASSUME NEW k \in i + 1 .. j - 1, k \in T PROVE k + 1 \in T
    <3>1. k \in s .. f - 1 /\ k + 1 \in i + 1 .. j /\ i \in s .. f
      BY <1>5
    <3>2. c[i] < c[k] /\ c[k] < c[k + 1] /\ c[k + 1] \in Nat /\ c[k] \in Nat
      BY <1>4, <2>2, <3>1
    <3>3. c[i] \in Nat
      BY <1>1
    <3> QED BY <3>1, <3>2, <3>3
  <2>3. i + 1 .. j \subseteq T
    <3> HIDE DEF T
    <3> QED BY <2>1, <2>2, Upward
  <2>4. j \in i + 1 .. j
    BY <1>5
  <2> QED BY <2>3, <2>4
<1> QED BY <1>3, <1>5 DEF c, b

(* The line of the cursor shows, in the column of the cursor, the          *)
(* character before which the next one goes.                               *)
LEMMA CaretColumn ==
  ASSUME NEW e, e.buf \in Seq(Byte), e.pos \in 0 .. len(e), e.offx \in Nat,
         col_of(e, e.pos) - e.offx \in 0 .. WIDTH - 1
  PROVE  draw_line(e, line_begin(e, e.pos))[col_of(e, e.pos) - e.offx] = Under(e)
<1> DEFINE p == e.pos
           s == line_begin(e, p)
           f == IF s > len(e) THEN s ELSE line_end(e, s)
           c == Columns(e, s, f)
           x == col_of(e, p) - e.offx
           shown == {i \in s + 1 .. f : c[i - 1] - e.offx = x /\ e.buf[i] # TAB}
           i0 == CHOOSE j \in shown : TRUE
<1>1. /\ len(e) \in Nat /\ p \in 0 .. len(e) /\ p \in Nat /\ s \in 0 .. p /\ s \in Nat
      /\ SameLine(e.buf, s, p)
      /\ \A i \in 1 .. len(e) : e.buf[i] \in Byte
  BY LineBegin, Length
<1>2. s \in 0 .. len(e)
  BY <1>1
<1>3. /\ f \in s .. len(e) /\ f \in Nat /\ (f = len(e) \/ e.buf[f + 1] = NL)
      /\ SameLine(e.buf, s, f)
  <2>1. f = line_end(e, s)
    BY <1>1
  <2> HIDE DEF f
  <2> QED BY <1>2, <2>1, LineEnd
<1>4. x \in 0 .. WIDTH - 1 /\ e.offx \in Nat
  OBVIOUS
<1>5. draw_line(e, s)[x] = IF shown = {} THEN BLANK ELSE e.buf[i0]
  BY <1>4 DEF draw_line
<1>6. col_of(e, p) = Columns(e, s, p)[p]
  BY DEF col_of
<1>7. x = Columns(e, s, p)[p] - e.offx
  BY <1>6
<1> HIDE DEF s, x
<1>8. p <= f
  <2>1. SUFFICES ASSUME f < p PROVE FALSE
    BY <1>1, <1>3
  <2>2. f + 1 \in s + 1 .. p /\ f # len(e)
    BY <1>1, <1>3, <2>1
  <2> QED BY <1>1, <1>3, <2>2 DEF SameLine
<1> HIDE DEF f
<1>9. c[p] - e.offx = x /\ \A i, j \in s .. f : i < j => c[i] < c[j]
  <2>1. s <= p
    BY <1>1
  <2> HIDE DEF p
  <2> QED BY <1>1, <1>3, <1>7, <1>8, <2>1, ColumnsGrow
<1>10. \A i \in s .. f : c[i] \in Nat
  <2>1. s <= f
    BY <1>3, <1>1
  <2> QED BY <1>1, <1>3, <2>1, ColumnsFacts
<1> HIDE DEF c
<1>11. ASSUME NEW i \in s + 1 .. f PROVE c[i - 1] - e.offx = x <=> i = p + 1
  <2>1. i - 1 \in s .. f /\ p \in s .. f
    BY <1>1, <1>3, <1>8
  <2>2. c[i - 1] \in Nat /\ c[p] \in Nat
    BY <1>10, <2>1
  <2>3. c[i - 1] = c[p] <=> i - 1 = p
    BY <1>1, <1>3, <1>9, <2>1, <2>2
  <2>4. c[p] - e.offx = x
    BY ONLY <1>9
  <2>5. e.offx \in Nat
    BY ONLY <1>4
  <2>6. c[i - 1] - e.offx = x <=> c[i - 1] = c[p]
    BY ONLY <2>2, <2>4, <2>5
  <2>7. i - 1 = p <=> i = p + 1
    <3>1. i \in Int /\ p \in Int
      BY <1>1
    <3> QED BY ONLY <3>1
  <2> QED BY ONLY <2>3, <2>6, <2>7
<1> HIDE DEF p
<1>12. CASE p < f /\ e.buf[p + 1] # TAB
  <2>1. p + 1 \in s + 1 .. f /\ p + 1 \in 1 .. len(e) /\ p # len(e)
    BY <1>1, <1>3, <1>12
  <2>2. shown = {p + 1}
    BY <1>11, <1>12, <2>1
  <2>3. i0 = p + 1
    BY <2>2
  <2>4. e.buf[p + 1] # NL
    BY <1>3, <2>1 DEF SameLine
  <2> HIDE DEF shown, i0
  <2>5. draw_line(e, s)[x] = e.buf[p + 1]
    BY <1>5, <2>2, <2>3
  <2> QED BY <1>12, <2>1, <2>4, <2>5 DEF Under, p, s, x
<1>13. CASE ~(p < f /\ e.buf[p + 1] # TAB)
  <2>1. ASSUME NEW i \in shown PROVE FALSE
    <3>1. i \in s + 1 .. f /\ c[i - 1] - e.offx = x /\ e.buf[i] # TAB
      OBVIOUS
    <3>2. i = p + 1
      BY <1>11, <3>1
    <3> QED BY <1>1, <1>3, <1>13, <3>1, <3>2
  <2>2. shown = {}
    BY <2>1
  <2> HIDE DEF shown, i0
  <2>3. draw_line(e, s)[x] = BLANK
    BY <1>5, <2>2
  <2>4. p = len(e) \/ e.buf[p + 1] \in {NL, TAB}
    BY <1>1, <1>3, <1>8, <1>13
  <2> QED BY <2>3, <2>4 DEF Under, p, s, x
<1> QED BY <1>12, <1>13

(* A turn of the loop from editor e and terminal t: the view, the screen   *)
(* and the terminal after it.                                              *)
LEMMA TurnFacts ==
  ASSUME NEW e, InText(e), NEW m \in Mirror, NEW t \in TerminalType, Exact(m.front, t.cells)
  PROVE  LET g == scroll_fix(e)
             d == draw(g, m)
             u == Sent(d, Caret(g, t))
         IN  /\ Flushed(d) \in Mirror /\ Flushed(d).front = Flushed(d).back
             /\ u \in TerminalType /\ Exact(Flushed(d).back, u.cells)
             /\ ~e.cmd_mode => /\ u.y \in TEXT_TOP .. TEXT_BOT
                               /\ u.cells[CaretIndex(u)].ch = Under(g)
<1> DEFINE g == scroll_fix(e)
           d == draw(g, m)
           v == Caret(g, t)
           u == Sent(d, v)
           lb == line_begin(e, e.pos)
           x == col_of(e, e.pos) - g.offx
<1>1. /\ g \in EditorType
      /\ g.buf = e.buf /\ g.pos = e.pos /\ g.dirty = e.dirty /\ g.cmd_mode = e.cmd_mode
      /\ g.top \in 0 .. lb /\ lb <= LineStarts(e, g.top)[LastRow]
      /\ x \in 0 .. WIDTH - 1
  BY ScrollFixed
<1>2. e.buf \in Seq(Byte) /\ e.pos \in 0 .. len(e) /\ len(e) \in Nat
  <2>1. e.buf \in Seq(Byte) /\ e.pos \in Nat /\ e.pos <= len(e)
    BY DEF InText, EditorType
  <2>2. len(e) \in Nat
    BY <2>1, Length
  <2> QED BY <2>1, <2>2
<1>3. lb \in 0 .. e.pos
  BY <1>2, LineBegin
<1>4. /\ len(g) = len(e) /\ g.offx \in Nat /\ g.pos \in 0 .. len(g)
      /\ g.top \in 0 .. len(g) + 1 /\ g.buf \in Seq(Byte)
  BY <1>1, <1>2, <1>3 DEF len, EditorType
<1>5. /\ line_begin(g, g.pos) = lb /\ col_of(g, g.pos) = col_of(e, e.pos)
      /\ LineStarts(g, g.top) = LineStarts(e, g.top)
  <2>1. line_begin(g, g.pos) = lb
    BY <1>1 DEF line_begin
  <2>2. \A a, b : Columns(g, a, b) = Columns(e, a, b)
    BY <1>1 DEF Columns
  <2>3. \A q : line_end(g, q) = line_end(e, q)
    BY <1>1, <1>4 DEF line_end
  <2>4. LineStarts(g, g.top) = LineStarts(e, g.top)
    BY <1>1 DEF LineStarts, line_end, len
  <2>5. col_of(g, g.pos) = col_of(e, e.pos)
    BY <1>1, <2>1, <2>2 DEF col_of
  <2> QED BY <2>1, <2>4, <2>5
<1> HIDE DEF g, lb
<1>6. /\ d \in Mirror /\ d.front = m.front /\ ~Blank(d)
      /\ \A a \in 0 .. WIDTH - 1, b \in TEXT_TOP .. TEXT_BOT :
           d.back[At(a, b)].ch = draw_line(g, LineStarts(g, g.top)[b - TEXT_TOP])[a]
  BY <1>4, DrawFacts
<1> HIDE DEF d
<1>7. v \in TerminalType /\ v.cells = t.cells
  <2>1. \E a, b : v = mirror_cursor(t, a, b)
    BY DEF Caret
  <2> QED BY <2>1, MovedFacts
<1> HIDE DEF v
<1>8. /\ u \in TerminalType /\ Exact(d.back, u.cells)
      /\ u.x = v.x /\ u.y = v.y
  BY <1>6, <1>7, SentFacts
<1>9. Flushed(d) \in Mirror /\ Flushed(d).back = d.back /\ Flushed(d).front = d.back
  BY <1>6, FlushedFacts
<1> HIDE DEF u
<1>10. ASSUME ~e.cmd_mode
       PROVE  u.y \in TEXT_TOP .. TEXT_BOT /\ u.cells[CaretIndex(u)].ch = Under(g)
  <2>1. PICK n \in 0 .. LastRow :
          /\ LineStarts(e, g.top)[n] = lb
          /\ Cardinality({i \in g.top + 1 .. e.pos : e.buf[i] = NL}) = n
    <3>1. g.top \in 0 .. line_begin(e, e.pos) /\ line_begin(e, e.pos) <= LineStarts(e, g.top)[LastRow]
      BY <1>1 DEF lb
    <3>2. \E n \in 0 .. LastRow :
            /\ LineStarts(e, g.top)[n] = line_begin(e, e.pos)
            /\ Cardinality({i \in g.top + 1 .. e.pos : e.buf[i] = NL}) = n
      BY <1>2, <3>1, RowOf
    <3> QED BY <3>2 DEF lb
  <2> DEFINE y == TEXT_TOP + n
  <2>2. /\ y \in TEXT_TOP .. TEXT_BOT /\ y \in 0 .. HEIGHT - 1 /\ y - TEXT_TOP = n
        /\ WIDTH \in Nat
    BY RowFacts
  <2>3. v = mirror_cursor(t, x, y)
    BY <1>1, <1>5, <1>10, <2>1 DEF Caret, v
  <2> HIDE DEF y, x
  <2>4. v.x = x /\ v.y = y
    BY <1>1, <2>2, <2>3, MovedFacts DEF Onscreen
  <2>5. CaretIndex(u) = At(x, y) /\ At(x, y) \in Index
    BY <1>1, <1>8, <2>2, <2>4, Places DEF CaretIndex
  <2>6. u.cells[At(x, y)].ch = draw_line(g, lb)[x]
    <3>1. u.cells[At(x, y)].ch = d.back[At(x, y)].ch
      BY <1>8, <2>5 DEF Exact
    <3>2. d.back[At(x, y)].ch = draw_line(g, LineStarts(g, g.top)[y - TEXT_TOP])[x]
      BY <1>1, <1>6, <2>2
    <3> QED BY <1>5, <2>1, <2>2, <3>1, <3>2
  <2>7. draw_line(g, lb)[x] = Under(g)
    <3>1. col_of(g, g.pos) - g.offx = x
      BY <1>5 DEF x
    <3>2. draw_line(g, line_begin(g, g.pos))[col_of(g, g.pos) - g.offx] = Under(g)
      BY <1>1, <1>4, <3>1, CaretColumn
    <3> QED BY <1>5, <3>1, <3>2
  <2> QED BY <1>8, <2>2, <2>4, <2>5, <2>6, <2>7
<1> QED BY <1>8, <1>9, <1>10 DEF u, v, d, g

-----------------------------------------------------------------------------
(* Keys *)

(* The cursor in the text at or behind the first position shown.           *)
Placed(e) == e \in EditorType /\ e.pos <= len(e) /\ e.top <= e.pos

(* The first position shown begins a line, or will be moved to one.        *)
Anchored(e) == IsLine(e.buf, e.top) \/ e.pos < e.top

(* What an editor with an unmodified buffer has on disk k.                 *)
Kept(e, k) ==
  ~e.dirty /\ e.buf # <<>> => e.fname \in Name /\ k[e.fname] \in {e.buf, Damaged}

(* Editors g and e differ at most in the command line and the columns.     *)
Same(g, e) ==
  /\ g \in EditorType /\ g.buf = e.buf /\ g.pos = e.pos /\ g.top = e.top
  /\ g.dirty = e.dirty /\ g.fname = e.fname

(* What a key leaves of the text: the cursor in it, the view at a line, and*)
(* a buffer that is modified or as it was.                                 *)
Edited(g, e) ==
  /\ InText(g) /\ g.fname = e.fname
  /\ IsLine(e.buf, e.top) => Anchored(g)
  /\ g.dirty \/ (g.buf = e.buf /\ g.dirty = e.dirty)

(* The numbers of an editor. *)
LEMMA PlacedFacts ==
  ASSUME NEW e, Placed(e)
  PROVE  /\ e.buf \in Seq(Byte) /\ e.pos \in 0 .. len(e) /\ len(e) \in Nat /\ e.top \in Nat
         /\ e.top <= e.pos /\ len(e) = Len(e.buf) /\ e.pos \in Nat /\ InText(e)
<1>1. e \in EditorType /\ e.buf \in Seq(Byte) /\ e.pos \in Nat /\ e.top \in Nat
  BY DEF Placed, EditorType
<1>2. len(e) \in Nat /\ len(e) = Len(e.buf)
  BY <1>1, Length
<1> QED BY <1>1, <1>2 DEF Placed, InText

(* Such an editor is a change that no property minds. *)
LEMMA SameFacts ==
  ASSUME NEW e, Placed(e), NEW g, Same(g, e)
  PROVE  Edited(g, e) /\ Placed(g) /\ \A k : Kept(e, k) => Kept(g, k)
<1>1. len(g) = len(e)
  BY DEF Same, len
<1>2. Placed(g)
  BY <1>1 DEF Placed, Same
<1>3. InText(g)
  BY <1>2, PlacedFacts
<1> QED BY <1>2, <1>3 DEF Same, Edited, Anchored, Kept

(* Moving the cursor within the text. *)
LEMMA MovedCursor ==
  ASSUME NEW e, Placed(e), NEW p \in 0 .. len(e)
  PROVE  Edited([e EXCEPT !.pos = p], e)
<1> DEFINE g == [e EXCEPT !.pos = p]
<1>1. e \in EditorType /\ len(e) \in Nat /\ e.top <= e.pos /\ e.pos <= len(e) /\ e.top \in Nat
      /\ e.pos \in Nat
  BY PlacedFacts DEF Placed
<1>2. g \in EditorType /\ g.buf = e.buf /\ g.top = e.top /\ g.dirty = e.dirty /\ g.pos = p
      /\ g.fname = e.fname
  BY <1>1 DEF EditorType
<1> HIDE DEF g
<1>3. len(g) = len(e)
  BY <1>2 DEF len
<1>4. InText(g)
  BY <1>1, <1>2, <1>3 DEF InText
<1>5. Edited(g, e)
  BY <1>2, <1>4 DEF Edited, Anchored
<1> QED BY <1>5 DEF g

(* A piece taken out of a sequence. *)
LEMMA CutFacts ==
  ASSUME NEW S, NEW s \in Seq(S), NEW p \in 1 .. Len(s)
  PROVE  LET r == SubSeq(s, 1, p - 1) \o SubSeq(s, p + 1, Len(s))
         IN  r \in Seq(S) /\ Len(r) = Len(s) - 1 /\ \A i \in 1 .. p - 1 : r[i] = s[i]
<1>1. Len(s) \in Nat /\ p \in Nat /\ p >= 1 /\ p <= Len(s)
  OBVIOUS
<1>2. SubSeq(s, 1, p - 1) \in Seq(S) /\ Len(SubSeq(s, 1, p - 1)) = p - 1
      /\ \A i \in 1 .. p - 1 : SubSeq(s, 1, p - 1)[i] = s[i]
  BY <1>1
<1>3. SubSeq(s, p + 1, Len(s)) \in Seq(S) /\ Len(SubSeq(s, p + 1, Len(s))) = Len(s) - p
  BY <1>1
<1> DEFINE a == SubSeq(s, 1, p - 1)
           b == SubSeq(s, p + 1, Len(s))
<1> HIDE DEF a, b
<1>4. a \in Seq(S) /\ Len(a) = p - 1 /\ (\A i \in 1 .. p - 1 : a[i] = s[i])
      /\ b \in Seq(S) /\ Len(b) = Len(s) - p
  BY <1>2, <1>3 DEF a, b
<1>5. a \o b \in Seq(S) /\ Len(a \o b) = Len(s) - 1 /\ \A i \in 1 .. p - 1 : (a \o b)[i] = s[i]
  BY <1>1, <1>4
<1> QED BY <1>5 DEF a, b

(* A piece put into a sequence. *)
LEMMA PutInFacts ==
  ASSUME NEW S, NEW s \in Seq(S), NEW p \in 0 .. Len(s), NEW m \in Seq(S)
  PROVE  LET r == SubSeq(s, 1, p) \o m \o SubSeq(s, p + 1, Len(s))
         IN  r \in Seq(S) /\ Len(r) = Len(s) + Len(m) /\ \A i \in 1 .. p : r[i] = s[i]
<1>1. Len(s) \in Nat /\ p \in Nat /\ p <= Len(s) /\ Len(m) \in Nat
  OBVIOUS
<1>2. SubSeq(s, 1, p) \in Seq(S) /\ Len(SubSeq(s, 1, p)) = p
      /\ \A i \in 1 .. p : SubSeq(s, 1, p)[i] = s[i]
  BY <1>1
<1>3. SubSeq(s, p + 1, Len(s)) \in Seq(S) /\ Len(SubSeq(s, p + 1, Len(s))) = Len(s) - p
  BY <1>1
<1> DEFINE a == SubSeq(s, 1, p)
           b == SubSeq(s, p + 1, Len(s))
<1> HIDE DEF a, b
<1>4. a \in Seq(S) /\ Len(a) = p /\ (\A i \in 1 .. p : a[i] = s[i])
      /\ b \in Seq(S) /\ Len(b) = Len(s) - p
  BY <1>2, <1>3 DEF a, b
<1>5. a \o m \in Seq(S) /\ Len(a \o m) = p + Len(m) /\ \A i \in 1 .. p : (a \o m)[i] = s[i]
  BY <1>1, <1>4
<1> DEFINE c == a \o m
<1> HIDE DEF c
<1>6. c \in Seq(S) /\ Len(c) = p + Len(m) /\ \A i \in 1 .. p : c[i] = s[i]
  BY <1>5 DEF c
<1>7. /\ c \o b \in Seq(S) /\ Len(c \o b) = Len(c) + Len(b)
      /\ \A i \in 1 .. Len(c) + Len(b) :
           (c \o b)[i] = IF i <= Len(c) THEN c[i] ELSE b[i - Len(c)]
  <2>1. c \in Seq(S) /\ b \in Seq(S)
    BY <1>4, <1>6
  <2>2. c \o b \in Seq(S) /\ Len(c \o b) = Len(c) + Len(b)
    BY ONLY <2>1
  <2>3. \A i \in 1 .. Len(c) + Len(b) :
          (c \o b)[i] = IF i <= Len(c) THEN c[i] ELSE b[i - Len(c)]
    BY ONLY <2>1
  <2> QED BY <2>2, <2>3
<1>8. Len(c \o b) = Len(s) + Len(m) /\ \A i \in 1 .. p : (c \o b)[i] = s[i]
  BY <1>1, <1>4, <1>6, <1>7
<1> QED BY <1>7, <1>8 DEF a, b, c

(* Erasing may take the newline before the first line shown; the cursor is *)
(* then above the view.                                                    *)
LEMMA Backspaced ==
  ASSUME NEW e, Placed(e)
  PROVE  Edited(do_backspace(e), e)
<1>1. /\ e \in EditorType /\ e.buf \in Seq(Byte) /\ e.pos \in 0 .. len(e) /\ len(e) \in Nat
      /\ e.top \in Nat /\ e.top <= e.pos /\ len(e) = Len(e.buf) /\ e.pos \in Nat
  BY PlacedFacts DEF Placed
<1>2. CASE e.pos <= 0
  <2>1. do_backspace(e) = e
    BY <1>2 DEF do_backspace
  <2>2. Same(e, e)
    BY <1>1 DEF Same
  <2> QED BY <2>1, <2>2, SameFacts
<1>3. CASE ~(e.pos <= 0)
  <2> DEFINE b == SubSeq(e.buf, 1, e.pos - 1) \o SubSeq(e.buf, e.pos + 1, len(e))
             g == do_backspace(e)
  <2>1. b \in Seq(Byte) /\ Len(b) = len(e) - 1 /\ \A i \in 1 .. e.pos - 1 : b[i] = e.buf[i]
    <3>1. e.pos \in 1 .. Len(e.buf)
      BY <1>1, <1>3
    <3> QED BY <1>1, <3>1, CutFacts
  <2> HIDE DEF b
  <2>2. PICK modified \in BOOLEAN : modified = TRUE
    OBVIOUS
  <2>3. g = [e EXCEPT !.buf = b, !.pos = e.pos - 1, !.dirty = modified]
    BY <1>3, <2>2 DEF do_backspace, b
  <2>4. e.pos - 1 \in Nat
    BY <1>1, <1>3
  <2> HIDE DEF g
  <2>5. /\ g \in EditorType /\ g.buf = b /\ g.pos = e.pos - 1 /\ g.top = e.top
        /\ g.fname = e.fname /\ g.dirty
    BY <1>1, <2>1, <2>2, <2>3, <2>4 DEF EditorType
  <2>6. InText(g)
    BY <1>1, <1>3, <2>1, <2>5 DEF InText, len
  <2>7. ASSUME IsLine(e.buf, e.top) PROVE Anchored(g)
    <3>1. CASE e.top = e.pos
      BY <1>1, <2>5, <3>1 DEF Anchored
    <3>2. CASE e.top = 0
      BY <2>5, <3>2 DEF Anchored, IsLine
    <3>3. CASE e.top # e.pos /\ e.top # 0
      <4>1. e.top \in 1 .. e.pos - 1
        BY <1>1, <3>3
      <4> QED BY <2>1, <2>5, <2>7, <4>1 DEF Anchored, IsLine
    <3> QED BY <3>1, <3>2, <3>3
  <2>8. Edited(g, e)
    BY <2>5, <2>6, <2>7 DEF Edited
  <2> QED BY <2>8 DEF g
<1> QED BY <1>2, <1>3

(* Inserting moves nothing before the cursor, the first line shown neither.*)
LEMMA InsertedKey ==
  ASSUME NEW e, Placed(e), NEW ch \in Byte, NEW n \in Nat
  PROVE  Edited(do_insert(e, ch, n), e)
<1>1. /\ e \in EditorType /\ e.buf \in Seq(Byte) /\ e.pos \in 0 .. len(e) /\ len(e) \in Nat
      /\ e.top \in Nat /\ e.top <= e.pos /\ len(e) = Len(e.buf) /\ e.pos \in Nat
  BY PlacedFacts DEF Placed
<1>2. CASE len(e) + n >= BUF_MAX
  <2>1. do_insert(e, ch, n) = e
    BY <1>2 DEF do_insert
  <2>2. Same(e, e)
    BY <1>1 DEF Same
  <2> QED BY <2>1, <2>2, SameFacts
<1>3. CASE ~(len(e) + n >= BUF_MAX)
  <2> DEFINE m == [i \in 1 .. n |-> ch]
             b == SubSeq(e.buf, 1, e.pos) \o m \o SubSeq(e.buf, e.pos + 1, len(e))
             g == do_insert(e, ch, n)
  <2>1. m \in Seq(Byte) /\ Len(m) = n
    <3> HIDE DEF Byte
    <3> QED OBVIOUS
  <2> HIDE DEF m
  <2>2. b \in Seq(Byte) /\ Len(b) = len(e) + n /\ \A i \in 1 .. e.pos : b[i] = e.buf[i]
    <3> DEFINE s == e.buf
               p == e.pos
    <3>1. s \in Seq(Byte) /\ p \in 0 .. Len(s) /\ len(e) = Len(s)
      BY <1>1
    <3>2. b = SubSeq(s, 1, p) \o m \o SubSeq(s, p + 1, Len(s))
      BY <3>1
    <3> HIDE DEF s, p, b, Byte
    <3>3. LET r == SubSeq(s, 1, p) \o m \o SubSeq(s, p + 1, Len(s))
          IN  r \in Seq(Byte) /\ Len(r) = Len(s) + Len(m) /\ \A i \in 1 .. p : r[i] = s[i]
      BY ONLY <3>1, <2>1, PutInFacts
    <3> QED BY <2>1, <3>1, <3>2, <3>3 DEF s, p
  <2> HIDE DEF b
  <2>3. PICK modified \in BOOLEAN : modified = TRUE
    OBVIOUS
  <2>4. g = [e EXCEPT !.buf = b, !.pos = e.pos + n, !.dirty = modified]
    BY <1>3, <2>3 DEF do_insert, b, m
  <2>5. e.pos + n \in Nat
    BY <1>1
  <2> HIDE DEF g
  <2>6. /\ g \in EditorType /\ g.buf = b /\ g.pos = e.pos + n /\ g.top = e.top
        /\ g.fname = e.fname /\ g.dirty
    BY <1>1, <2>2, <2>3, <2>4, <2>5 DEF EditorType
  <2>7. InText(g)
    BY <1>1, <2>2, <2>6 DEF InText, len
  <2>8. ASSUME IsLine(e.buf, e.top) PROVE Anchored(g)
    <3>1. CASE e.top = 0
      BY <2>6, <3>1 DEF Anchored, IsLine
    <3>2. CASE e.top # 0
      <4>1. e.top \in 1 .. e.pos
        BY <1>1, <3>2
      <4> QED BY <2>2, <2>6, <2>8, <4>1 DEF Anchored, IsLine
    <3> QED BY <3>1, <3>2
  <2>9. Edited(g, e)
    BY <2>6, <2>7, <2>8 DEF Edited
  <2> QED BY <2>9 DEF g
<1> QED BY <1>2, <1>3

(* The place of a column lies in its line. *)
LEMMA PosForCol ==
  ASSUME NEW e, e.buf \in Seq(Byte), NEW start \in 0 .. len(e), NEW target \in Nat
  PROVE  pos_for_col(e, start, target) \in 0 .. len(e)
<1> DEFINE f == line_end(e, start)
           c == Columns(e, start, f)
           Stops(j) == j = f \/ c[j] >= target
           P(j) == Stops(j) /\ \A k \in start .. j - 1 : c[k] < target
           i == CHOOSE j \in start .. f : P(j)
           S == {j \in start .. f : Stops(j)}
<1>1. start \in Nat /\ f \in Nat /\ len(e) \in Nat /\ f \in start .. len(e) /\ start <= f
  BY LineEnd, Length
<1>2. \A j \in start .. f : c[j] \in Nat
  BY <1>1, ColumnsFacts
<1>3. pos_for_col(e, start, target) = IF c[i] > target /\ i > start THEN i - 1 ELSE i
  BY DEF pos_for_col
<1> HIDE DEF c, f
<1>4. \E j \in start .. f : P(j)
  <2>1. f \in S /\ S \subseteq Nat
    BY <1>1
  <2>2. PICK j \in S : \A k \in S : j <= k
    <3> HIDE DEF S
    <3> QED BY <2>1, Least
  <2>3. j \in start .. f /\ Stops(j)
    OBVIOUS
  <2>4. ASSUME NEW k \in start .. j - 1 PROVE c[k] < target
    <3>1. k \in start .. f /\ k \notin S
      <4>1. k \in start .. f /\ ~(j <= k)
        BY <1>1, <2>3
      <4> HIDE DEF S
      <4> QED BY <2>2, <4>1
    <3>2. ~(c[k] >= target) /\ c[k] \in Nat
      BY <1>2, <3>1
    <3> QED BY <3>2
  <2> QED BY <2>3, <2>4
<1>5. i \in start .. f
  <2> HIDE DEF P
  <2> QED BY <1>4
<1> HIDE DEF i
<1> QED BY <1>1, <1>3, <1>5

(* A key leaves the cursor in the text.                                    *)
LEMMA KeyFacts ==
  ASSUME NEW e, Placed(e), NEW k \in EditKeys
  PROVE  Edited(edit_key(e, k), e)
<1> DEFINE p == e.pos
           lb == line_begin(e, p)
           f == line_end(e, p)
           col == col_of(e, p)
           g == edit_key(e, k)
<1>1. /\ e \in EditorType /\ e.buf \in Seq(Byte) /\ p \in 0 .. len(e) /\ len(e) \in Nat
      /\ len(e) = Len(e.buf) /\ p \in Nat
  BY PlacedFacts DEF Placed
<1>2. lb \in 0 .. p /\ f \in p .. len(e) /\ col \in Nat
  BY <1>1, LineBegin, LineEnd, ColOf
<1> HIDE DEF lb, f, col
<1>3. CASE k = "esc"
  <2>1. PICK asked \in BOOLEAN : asked = TRUE
    OBVIOUS
  <2>2. g = [e EXCEPT !.cmd_mode = asked, !.cmd_len = 0]
    BY <1>3, <2>1 DEF edit_key
  <2> HIDE DEF g, p
  <2>3. Same(g, e)
    BY <1>1, <2>1, <2>2 DEF Same, EditorType
  <2> QED BY <2>3, SameFacts DEF g
<1>4. CASE k = "left"
  <2> DEFINE q == IF p > 0 THEN p - 1 ELSE p
  <2>1. q \in 0 .. len(e)
    BY <1>1
  <2>2. g = [e EXCEPT !.pos = q]
    BY <1>4 DEF edit_key
  <2> HIDE DEF q, g
  <2> QED BY <2>1, <2>2, MovedCursor DEF g
<1>5. CASE k = "right"
  <2> DEFINE q == IF p < len(e) THEN p + 1 ELSE p
  <2>1. q \in 0 .. len(e)
    BY <1>1
  <2>2. g = [e EXCEPT !.pos = q]
    BY <1>5 DEF edit_key
  <2> HIDE DEF q, g
  <2> QED BY <2>1, <2>2, MovedCursor DEF g
<1>6. Edited(e, e)
  <2>1. Same(e, e)
    BY <1>1 DEF Same
  <2> QED BY <2>1, SameFacts
<1>7. CASE k = "up"
  <2> DEFINE start == line_begin(e, lb - 1)
             q == pos_for_col(e, start, col)
  <2>1. g = IF lb > 0 THEN [e EXCEPT !.pos = q] ELSE e
    BY <1>7 DEF edit_key, lb, col
  <2>2. CASE lb > 0
    <3>1. lb - 1 \in 0 .. len(e)
      BY <1>1, <1>2, <2>2
    <3>2. start \in 0 .. lb - 1
      BY <1>1, <3>1, LineBegin
    <3>3. start \in 0 .. len(e)
      BY <1>1, <1>2, <3>2
    <3> HIDE DEF start
    <3>4. q \in 0 .. len(e)
      BY <1>1, <1>2, <3>3, PosForCol
    <3> HIDE DEF q, g
    <3> QED BY <2>1, <2>2, <3>4, MovedCursor DEF g
  <2> HIDE DEF q, g
  <2> QED BY <1>6, <2>1, <2>2 DEF g
<1>8. CASE k = "down"
  <2> DEFINE start == f + 1
             q == pos_for_col(e, start, col)
  <2>1. g = IF f < len(e) THEN [e EXCEPT !.pos = q] ELSE e
    BY <1>8 DEF edit_key, f, col
  <2>2. CASE f < len(e)
    <3>1. start \in 0 .. len(e)
      BY <1>1, <1>2, <2>2
    <3> HIDE DEF start
    <3>2. q \in 0 .. len(e)
      BY <1>1, <1>2, <3>1, PosForCol
    <3> HIDE DEF q, g
    <3> QED BY <2>1, <2>2, <3>2, MovedCursor DEF g
  <2> HIDE DEF q, g
  <2> QED BY <1>6, <2>1, <2>2 DEF g
<1>9. CASE k = "backspace"
  <2>1. g = do_backspace(e)
    BY <1>9 DEF edit_key
  <2> HIDE DEF g
  <2> QED BY <2>1, Backspaced DEF g
<1>10. CASE k = "tab"
  <2> DEFINE n == TAB_W - (col % TAB_W)
  <2>1. g = do_insert(e, BLANK, n)
    BY <1>10 DEF edit_key, col
  <2>2. BLANK \in Byte
    BY Glyphs DEF Byte
  <2>3. n \in Nat
    <3>1. TAB_W \in Nat \ {0}
      BY LayoutAssumption
    <3>2. col % TAB_W \in 0 .. TAB_W - 1
      BY ONLY <1>2, <3>1, DivFacts
    <3> QED BY <3>1, <3>2
  <2> HIDE DEF g, n
  <2> QED BY <2>1, <2>2, <2>3, InsertedKey DEF g
<1>11. CASE k \notin {"esc", "left", "right", "up", "down", "backspace", "tab"}
  <2> DEFINE n == 1
  <2>1. g = do_insert(e, k, n)
    BY <1>11 DEF edit_key
  <2>2. k \in Byte
    BY <1>11, TextAssumption DEF EditKeys, Byte
  <2>3. n \in Nat
    OBVIOUS
  <2> HIDE DEF g, n
  <2> QED BY <2>1, <2>2, <2>3, InsertedKey DEF g
<1> HIDE DEF g
<1>12. Edited(g, e)
  BY <1>3, <1>4, <1>5, <1>7, <1>8, <1>9, <1>10, <1>11 DEF g
<1> QED BY <1>12 DEF g

-----------------------------------------------------------------------------
(* Names and files *)

(* What the files may be. *)
FilesOK(k) == k \in [Name -> Seq(Byte) \cup {Missing, TooBig, Damaged}]

(* Names are the short sequences of their characters. *)
LEMMA NameFacts ==
  /\ \A s \in Name \cup {NoName} : s \in Seq(NameKeys) /\ Len(s) \in Nat /\ Len(s) <= FS_MAX_NAME - 1
  /\ \A s \in Seq(NameKeys) : Len(s) <= FS_MAX_NAME - 1 => s \in Name \cup {NoName}
<1>1. FS_MAX_NAME \in Nat \ {0}
  BY TextAssumption
<1>2. ASSUME NEW s \in Name \cup {NoName}
      PROVE  s \in Seq(NameKeys) /\ Len(s) \in Nat /\ Len(s) <= FS_MAX_NAME - 1
  <2>1. CASE s = <<>>
    BY <1>1, <2>1
  <2>2. CASE s \in Name
    <3>1. PICK n \in 1 .. FS_MAX_NAME - 1 : s \in [1 .. n -> NameKeys]
      BY <2>2 DEF Name
    <3>2. n \in Nat /\ n <= FS_MAX_NAME - 1
      BY <1>1
    <3> QED BY <3>1, <3>2
  <2> QED BY <2>1, <2>2 DEF NoName
<1>3. ASSUME NEW s \in Seq(NameKeys), Len(s) <= FS_MAX_NAME - 1
      PROVE  s \in Name \cup {NoName}
  <2>1. CASE Len(s) = 0
    <3>1. s = <<>>
      BY <2>1
    <3> QED BY <3>1 DEF NoName
  <2>2. CASE Len(s) # 0
    <3>1. Len(s) \in 1 .. FS_MAX_NAME - 1 /\ s \in [1 .. Len(s) -> NameKeys]
      BY <1>1, <1>3, <2>2
    <3> QED BY <3>1 DEF Name
  <2> QED BY <2>1, <2>2
<1> QED BY <1>2, <1>3

(* The first editor. *)
LEMMA NewFacts ==
  Placed(NewEditor) /\ Anchored(NewEditor) /\ NewEditor.buf = <<>> /\ NewEditor.pos = 0
  /\ NewEditor.fname = NoName /\ NewEditor.top = 0
<1>1. PICK no \in BOOLEAN : no = FALSE
  OBVIOUS
<1>2. NewEditor = [buf |-> <<>>, pos |-> 0, top |-> 0, offx |-> 0, dirty |-> no, cmd_mode |-> no,
                   cmd_len |-> 0, fname |-> NoName]
  BY <1>1 DEF NewEditor
<1>3. <<>> \in Seq(Byte) /\ NoName \in Name \cup {NoName}
  OBVIOUS
<1>4. NewEditor \in EditorType
  BY <1>2, <1>3 DEF EditorType
<1> QED BY <1>2, <1>4 DEF Placed, Anchored, IsLine, len

(* A buffer just loaded. *)
LEMMA LoadedFacts ==
  ASSUME NEW e \in EditorType, NEW name \in Name \cup {NoName}, NEW data \in Seq(Byte)
  PROVE  LET g == Loaded(e, name, data)
         IN  /\ Placed(g) /\ Anchored(g) /\ g.buf = data /\ g.fname = name /\ ~g.dirty
<1> DEFINE g == Loaded(e, name, data)
<1>1. PICK no \in BOOLEAN : no = FALSE
  OBVIOUS
<1>2. g = [e EXCEPT !.buf = data, !.pos = 0, !.top = 0, !.offx = 0, !.dirty = no, !.fname = name]
  BY <1>1 DEF Loaded
<1> HIDE DEF g
<1>3. /\ g \in EditorType /\ g.buf = data /\ g.pos = 0 /\ g.top = 0 /\ g.fname = name
      /\ g.dirty = no
  <2> HIDE DEF Byte
  <2> QED BY <1>1, <1>2 DEF EditorType
<1>4. len(g) = Len(data) /\ Len(data) \in Nat
  <2> HIDE DEF Byte
  <2> QED BY <1>3 DEF len
<1>5. Placed(g) /\ Anchored(g)
  BY <1>3, <1>4 DEF Placed, Anchored, IsLine
<1> QED BY <1>1, <1>3, <1>5 DEF g

(* A file that can be read holds text; what is read of it is on the disk.  *)
LEMMA HeldFacts ==
  ASSUME FilesOK(files), NEW name \in Name, NEW data \in Held(name)
  PROVE  data \in Seq(Byte) /\ files[name] \in {data, Damaged}
<1>1. files[name] \in Seq(Byte) \cup {Missing, TooBig, Damaged}
  BY DEF FilesOK
<1>2. Contents \subseteq Seq(Byte) /\ Damaged \notin {Missing, TooBig}
  BY TextAssumption DEF Byte
<1>3. CASE files[name] = Damaged
  BY <1>2, <1>3 DEF Held
<1>4. CASE files[name] # Damaged
  <2>1. files[name] \notin {Missing, TooBig} /\ data = files[name]
    BY <1>4 DEF Held
  <2> QED BY <1>1, <1>4, <2>1
<1> QED BY <1>3, <1>4

(* A read that fails may spoil the buffer, and changes nothing else.       *)
LEMMA FailedFacts ==
  ASSUME FilesOK(files), NEW e, Placed(e), NEW name \in Name, NEW g \in LoadFailed(e, name)
  PROVE  /\ Placed(g) /\ g.top = e.top /\ (e.buf = <<>> => g.buf = <<>>)
         /\ ~LATE_READ_FAULTS => g = e
<1>1. /\ e \in EditorType /\ e.buf \in Seq(Byte) /\ e.top <= e.pos /\ e.pos <= len(e)
      /\ len(e) = Len(e.buf)
  BY PlacedFacts DEF Placed
<1>2. CASE g = e
  BY <1>2
<1>3. CASE g # e
  <2>1. PICK data \in Held(name) : \E n \in 1 .. Len(data) - 1 : g = Overwritten(e, data, n)
    BY <1>3 DEF LoadFailed
  <2>2. LATE_READ_FAULTS
    BY <1>3 DEF LoadFailed
  <2>3. data \in Seq(Byte)
    BY HeldFacts
  <2>4. PICK n \in 1 .. Len(data) - 1 : g = Overwritten(e, data, n)
    BY <2>1
  <2> DEFINE b == [i \in DOMAIN e.buf |-> IF i <= n THEN data[i] ELSE e.buf[i]]
  <2>5. g = [e EXCEPT !.buf = b]
    BY <2>4 DEF Overwritten
  <2>6. DOMAIN e.buf = 1 .. Len(e.buf) /\ Len(e.buf) \in Nat
    BY <1>1
  <2>7. b \in Seq(Byte) /\ Len(b) = Len(e.buf) /\ (e.buf = <<>> => b = <<>>)
    <3>1. ASSUME NEW i \in 1 .. Len(e.buf)
          PROVE  (IF i <= n THEN data[i] ELSE e.buf[i]) \in Byte
      <4>1. CASE i <= n
        <5>1. i \in 1 .. Len(data)
          BY <2>3, <4>1
        <5> HIDE DEF Byte
        <5> QED BY <2>3, <4>1, <5>1
      <4>2. CASE ~(i <= n)
        <5> HIDE DEF Byte
        <5> QED BY <1>1, <4>2
      <4> QED BY <4>1, <4>2
    <3>2. b \in [1 .. Len(e.buf) -> Byte]
      <4> HIDE DEF Byte
      <4> QED BY <2>6, <3>1
    <3> HIDE DEF b, Byte
    <3>3. b \in Seq(Byte) /\ Len(b) = Len(e.buf)
      BY <2>6, <3>2
    <3> QED BY <3>3
  <2> HIDE DEF b
  <2>8. g \in EditorType /\ g.buf = b /\ g.pos = e.pos /\ g.top = e.top
    BY <1>1, <2>5, <2>7 DEF EditorType
  <2> QED BY <1>1, <2>2, <2>7, <2>8 DEF Placed, len
<1> QED BY <1>2, <1>3

(* A failed save spoils at most the file it writes. *)
LEMMA SpoiledFacts ==
  ASSUME NEW k, FilesOK(k), NEW name \in Name, NEW j \in {k, [k EXCEPT ![name] = Damaged]}
  PROVE  FilesOK(j) /\ \A e : Kept(e, k) => Kept(e, j)
<1>1. FilesOK(j)
  BY DEF FilesOK
<1>2. \A m \in Name : j[m] \in {k[m], Damaged}
  BY DEF FilesOK
<1> QED BY <1>1, <1>2 DEF Kept

(* A save that succeeds. *)
LEMMA SavedFacts ==
  ASSUME NEW k, FilesOK(k), NEW e, Placed(e), NEW name \in Name
  PROVE  LET j == [k EXCEPT ![name] = e.buf]
             g == [e EXCEPT !.fname = name, !.dirty = FALSE]
         IN  FilesOK(j) /\ Kept(g, j) /\ Placed(g) /\ (Anchored(e) => Anchored(g))
<1> DEFINE j == [k EXCEPT ![name] = e.buf]
           g == [e EXCEPT !.fname = name, !.dirty = FALSE]
<1>1. e \in EditorType /\ e.buf \in Seq(Byte)
  BY PlacedFacts DEF Placed
<1>2. PICK no \in BOOLEAN : no = FALSE
  OBVIOUS
<1>3. g = [e EXCEPT !.fname = name, !.dirty = no]
  BY <1>2
<1> HIDE DEF g
<1>4. /\ g \in EditorType /\ g.buf = e.buf /\ g.pos = e.pos /\ g.top = e.top /\ g.fname = name
  BY <1>1, <1>3 DEF EditorType
<1>5. FilesOK(j) /\ j[name] = e.buf
  BY <1>1 DEF FilesOK
<1> HIDE DEF j
<1>6. Placed(g) /\ (Anchored(e) => Anchored(g)) /\ Kept(g, j)
  BY <1>4, <1>5 DEF Placed, Anchored, Kept, len
<1> QED BY <1>5, <1>6 DEF g, j

-----------------------------------------------------------------------------
(* Turns of the loop *)

(* The inductive invariant: the buffer holds text and the cursor is in it, *)
(* what was sent is what was drawn, and the terminal shows that.           *)
EditorInv ==
  /\ FilesOK(files) /\ ed \in EditorType /\ phase \in {"start", "edit", "done"}
  /\ phase # "edit" => ed.buf = <<>>
  /\ phase = "start" => ed.pos <= Len(ed.fname)
  /\ Editing => Placed(ed)
  /\ screen \in Mirror /\ screen.front = screen.back
  /\ term \in TerminalType /\ Exact(screen.back, term.cells)

(* The caret on its character, and the view at a line. *)
CaretInv ==
  Editing => /\ IsLine(ed.buf, ed.top)
             /\ ~ed.cmd_mode => /\ term.y \in TEXT_TOP .. TEXT_BOT
                                /\ term.cells[CaretIndex(term)].ch = Under(ed)

(* A turn that shows editor e, which keeps what is on disk and the lines.  *)
Turn(e) ==
  /\ InText(e) /\ Shown(e) /\ phase' = "edit" /\ FilesOK(files')
  /\ ~LATE_READ_FAULTS => /\ CaretInv => Anchored(e)
                          /\ CleanIsSaved => Kept(e, files')

(* What is left after a turn. *)
LEMMA TurnStep ==
  ASSUME EditorInv, NEW e, Turn(e)
  PROVE  /\ EditorInv'
         /\ ~LATE_READ_FAULTS => (CaretInv => CaretInv') /\ (CleanIsSaved => CleanIsSaved')
<1> DEFINE g == scroll_fix(e)
           d == draw(g, screen)
           u == Sent(d, Caret(g, term))
<1>1. InText(e) /\ Shown(e) /\ phase' = "edit" /\ FilesOK(files')
  BY DEF Turn
<1>2. screen \in Mirror /\ term \in TerminalType /\ Exact(screen.front, term.cells)
  BY DEF EditorInv
<1>3. ed' = g /\ screen' = Flushed(d) /\ term' = u
  BY <1>1 DEF Shown
<1>4. /\ Flushed(d) \in Mirror /\ Flushed(d).front = Flushed(d).back
      /\ u \in TerminalType /\ Exact(Flushed(d).back, u.cells)
      /\ ~e.cmd_mode => /\ u.y \in TEXT_TOP .. TEXT_BOT
                        /\ u.cells[CaretIndex(u)].ch = Under(g)
  BY <1>1, <1>2, TurnFacts
<1>5. /\ g \in EditorType
      /\ g.buf = e.buf /\ g.pos = e.pos /\ g.dirty = e.dirty /\ g.cmd_mode = e.cmd_mode
      /\ g.fname = e.fname /\ g.top \in 0 .. line_begin(e, e.pos)
      /\ IsLine(e.buf, e.top) \/ line_begin(e, e.pos) < e.top => IsLine(e.buf, g.top)
  BY <1>1, ScrollFixed
<1> HIDE DEF g, d, u
<1>6. /\ e \in EditorType /\ line_begin(e, e.pos) \in 0 .. e.pos /\ e.pos \in Nat /\ e.top \in Nat
      /\ e.pos <= len(e)
  <2>1. e \in EditorType /\ e.buf \in Seq(Byte) /\ e.pos \in Nat /\ e.pos <= len(e) /\ e.top \in Nat
    BY <1>1 DEF InText, EditorType
  <2>2. e.pos \in 0 .. len(e)
    BY <2>1, Length
  <2> QED BY <2>1, <2>2, LineBegin
<1>7. Placed(g)
  BY <1>5, <1>6 DEF Placed, len
<1>8. EditorInv'
  BY <1>1, <1>3, <1>4, <1>5, <1>7 DEF EditorInv, Editing
<1>9. ASSUME ~LATE_READ_FAULTS, CaretInv PROVE CaretInv'
  <2>1. Anchored(e)
    BY <1>9 DEF Turn
  <2>2. IsLine(g.buf, g.top)
    BY <1>5, <1>6, <2>1 DEF Anchored
  <2> QED BY <1>3, <1>4, <1>5, <2>2 DEF CaretInv, Editing, Under, CaretIndex, At, len
<1>10. ASSUME ~LATE_READ_FAULTS, CleanIsSaved PROVE CleanIsSaved'
  <2>1. Kept(e, files')
    BY <1>10 DEF Turn
  <2> QED BY <1>3, <1>5, <2>1 DEF CleanIsSaved, Kept
<1> QED BY <1>8, <1>9, <1>10

(* The text of an editor that edits. *)
LEMMA EditingFacts ==
  ASSUME EditorInv, Editing
  PROVE  /\ Placed(ed) /\ phase = "edit" /\ FilesOK(files)
         /\ CaretInv => IsLine(ed.buf, ed.top)
         /\ CleanIsSaved => Kept(ed, files)
BY DEF EditorInv, Editing, CaretInv, CleanIsSaved, Kept

(* The command line and the outcome of commands that leave the text.       *)
LEMMA SameTurn ==
  ASSUME EditorInv, Editing, NEW e, Same(e, ed), Shown(e), phase' = phase,
         NEW name \in Name, files' \in {files, [files EXCEPT ![name] = Damaged]}
  PROVE  Turn(e)
<1>1. Placed(ed) /\ phase = "edit" /\ FilesOK(files)
  BY EditingFacts
<1>2. Edited(e, ed) /\ Placed(e) /\ \A k : Kept(ed, k) => Kept(e, k)
  BY <1>1, SameFacts
<1>3. FilesOK(files') /\ (Kept(ed, files) => Kept(ed, files'))
  BY <1>1, SpoiledFacts
<1>4. (CaretInv => Anchored(e)) /\ (CleanIsSaved => Kept(e, files'))
  BY <1>2, <1>3, EditingFacts DEF Edited
<1> QED BY <1>1, <1>2, <1>3, <1>4 DEF Turn, Edited

(* The same where no file is written. *)
LEMMA StayingTurn ==
  ASSUME EditorInv, Editing, NEW e, Same(e, ed), Shown(e), phase' = phase, files' = files
  PROVE  Turn(e)
<1>1. Placed(ed) /\ phase = "edit" /\ FilesOK(files)
  BY EditingFacts
<1>2. Edited(e, ed) /\ Placed(e) /\ \A k : Kept(ed, k) => Kept(e, k)
  BY <1>1, SameFacts
<1>3. (CaretInv => Anchored(e)) /\ (CleanIsSaved => Kept(e, files))
  BY <1>2, EditingFacts DEF Edited
<1> QED BY <1>1, <1>2, <1>3 DEF Turn, Edited

(* The editor that a command finds. *)
LEMMA CommandFacts ==
  ASSUME EditorInv, Editing
  PROVE  Same(Command, ed) /\ Placed(Command)
<1>1. Placed(ed) /\ ed \in EditorType
  BY EditingFacts DEF Placed
<1>2. PICK no \in BOOLEAN : no = FALSE
  OBVIOUS
<1>3. Command = [ed EXCEPT !.cmd_mode = no]
  BY <1>2 DEF Command
<1>4. Same(Command, ed)
  BY <1>1, <1>3 DEF Same, EditorType
<1> QED BY <1>1, <1>4, SameFacts

(* A key while text is edited. *)
LEMMA EditKeyTurn ==
  ASSUME EditorInv, NEW k \in EditKeys, EditKey(k)
  PROVE  Turn(edit_key(ed, k))
<1> DEFINE e == edit_key(ed, k)
<1>1. Editing /\ Shown(e) /\ files' = files /\ phase' = phase
  BY DEF EditKey
<1>2. Placed(ed) /\ phase = "edit" /\ FilesOK(files)
  BY <1>1, EditingFacts
<1>3. Edited(e, ed)
  BY <1>2, KeyFacts
<1> HIDE DEF e
<1>4. ASSUME CleanIsSaved PROVE Kept(e, files)
  <2>1. Kept(ed, files)
    BY <1>1, <1>4, EditingFacts
  <2> QED BY <1>3, <2>1 DEF Edited, Kept
<1>5. CaretInv => Anchored(e)
  BY <1>1, <1>3, EditingFacts DEF Edited
<1>6. Turn(e)
  BY <1>1, <1>2, <1>3, <1>4, <1>5 DEF Turn, Edited
<1> QED BY <1>6 DEF e

(* A key on the command line. *)
LEMMA CmdKeyTurn ==
  ASSUME EditorInv, NEW k \in {"esc", "backspace", "printable"}, CmdKey(k)
  PROVE  \E e : Turn(e)
<1> DEFINE e == CASE k = "esc" -> [ed EXCEPT !.cmd_mode = FALSE]
                  [] k = "backspace" -> IF ed.cmd_len > 0 THEN [ed EXCEPT !.cmd_len = @ - 1]
                                        ELSE [ed EXCEPT !.cmd_mode = FALSE]
                  [] k = "printable" -> [ed EXCEPT !.cmd_len = IF @ < CMD_MAX THEN @ + 1 ELSE @]
           n == IF k = "backspace" THEN ed.cmd_len - 1
                ELSE IF ed.cmd_len < CMD_MAX THEN ed.cmd_len + 1 ELSE ed.cmd_len
<1>1. Editing /\ Shown(e) /\ files' = files /\ phase' = phase
  BY DEF CmdKey
<1>2. Placed(ed) /\ ed \in EditorType /\ ed.cmd_len \in Nat
  BY <1>1, EditingFacts DEF Placed, EditorType
<1>3. e = Command \/ (n \in Nat /\ e = [ed EXCEPT !.cmd_len = n])
  BY <1>2 DEF Command
<1> HIDE DEF e, n
<1>4. Same(e, ed)
  <2>1. CASE e = Command
    BY <1>1, <2>1, CommandFacts
  <2>2. CASE n \in Nat /\ e = [ed EXCEPT !.cmd_len = n]
    BY <1>2, <2>2 DEF Same, EditorType
  <2> QED BY <1>3, <2>1, <2>2
<1>5. Turn(e)
  BY <1>1, <1>4, StayingTurn
<1> QED BY <1>5

(* Saving. *)
LEMMA SaveTurn ==
  ASSUME EditorInv, Editing, NEW name, save_file(Command, name), phase' = phase
  PROVE  \E e : Turn(e)
<1>1. Same(Command, ed) /\ Placed(Command) /\ Placed(ed) /\ phase = "edit" /\ FilesOK(files)
  BY CommandFacts, EditingFacts
<1>2. CASE Shown(Command) /\ files' = files
  BY <1>1, <1>2, StayingTurn
<1>3. CASE /\ name \in Name /\ files' = [files EXCEPT ![name] = Command.buf]
           /\ Shown([Command EXCEPT !.fname = name, !.dirty = FALSE])
  <2> DEFINE c == Command
             g == [c EXCEPT !.fname = name, !.dirty = FALSE]
             j == [files EXCEPT ![name] = c.buf]
  <2>1. Placed(c)
    BY <1>1
  <2>2. FilesOK(j) /\ Kept(g, j) /\ Placed(g) /\ (Anchored(c) => Anchored(g))
    <3> HIDE DEF c
    <3> QED BY <1>1, <1>3, <2>1, SavedFacts
  <2>3. CaretInv => Anchored(c)
    <3>1. Edited(c, ed)
      BY <1>1, SameFacts
    <3> QED BY <3>1, EditingFacts DEF Edited
  <2>4. files' = j /\ Shown(g) /\ InText(g)
    <3>1. InText(g)
      BY <2>2, PlacedFacts
    <3> QED BY <1>3, <3>1
  <2> HIDE DEF g, j
  <2>5. Turn(g)
    BY <1>1, <2>2, <2>3, <2>4 DEF Turn
  <2> QED BY <2>5
<1>4. CASE name \in Name /\ Shown(Command) /\ files' \in {files, [files EXCEPT ![name] = Damaged]}
  <2>1. Turn(Command)
    BY <1>1, <1>4, SameTurn
  <2> QED BY <2>1
<1> QED BY <1>2, <1>3, <1>4 DEF save_file

(* Loading. *)
LEMMA LoadTurn ==
  ASSUME EditorInv, NEW e \in EditorType, NEW name \in Name \cup {NoName}, NEW data \in Seq(Byte),
         data # <<>> => name \in Name /\ files[name] \in {data, Damaged},
         Shown(Loaded(e, name, data)), phase' = "edit", files' = files
  PROVE  Turn(Loaded(e, name, data))
<1> DEFINE g == Loaded(e, name, data)
<1>1. Placed(g) /\ Anchored(g) /\ g.buf = data /\ g.fname = name /\ ~g.dirty
  BY LoadedFacts
<1>2. Shown(g) /\ FilesOK(files)
  BY DEF EditorInv
<1> HIDE DEF g
<1>3. InText(g) /\ Kept(g, files)
  BY <1>1, PlacedFacts DEF Kept
<1>4. Turn(g)
  BY <1>1, <1>2, <1>3 DEF Turn
<1> QED BY <1>4 DEF g

(* Every command is a turn, or the end. *)
LEMMA CommandTurn ==
  ASSUME EditorInv, Commands
  PROVE  (\E e : Turn(e)) \/ (Quit /\ FilesOK(files'))
<1>1. FilesOK(files)
  BY DEF EditorInv
<1>2. ASSUME Editing, Shown(Command), phase' = phase, files' = files PROVE \E e : Turn(e)
  BY <1>2, CommandFacts, StayingTurn
<1>3. CASE \E k \in {"esc", "backspace", "printable"} : CmdKey(k)
  BY <1>3, CmdKeyTurn
<1>4. CASE NoCommand
  BY <1>2, <1>4 DEF NoCommand, Commanded
<1>5. CASE CmdQ
  BY <1>1, <1>2, <1>5 DEF CmdQ, Commanded
<1>6. CASE CmdWq
  <2>1. Editing
    BY <1>6 DEF CmdWq, Commanded
  <2>2. CASE ed.fname \in Name /\ files' = [files EXCEPT ![ed.fname] = ed.buf] /\ Quit
    <3>1. ed.buf \in Seq(Byte)
      BY DEF EditorInv, EditorType
    <3> QED BY <1>1, <2>2, <3>1 DEF FilesOK
  <2>3. CASE /\ ed.fname \in Name /\ files' \in {files, [files EXCEPT ![ed.fname] = Damaged]}
             /\ Shown(Command) /\ UNCHANGED phase
    <3>1. Turn(Command)
      BY <2>1, <2>3, CommandFacts, SameTurn
    <3> QED BY <3>1
  <2>4. CASE Shown(Command) /\ UNCHANGED <<files, phase>>
    BY <1>2, <2>1, <2>4
  <2> QED BY <1>6, <2>2, <2>3, <2>4 DEF CmdWq
<1> DEFINE none == <<>>
<1>0. none \in Seq(Byte) /\ none = <<>> /\ NoName \in Name \cup {NoName}
  OBVIOUS
<1> HIDE DEF none
<1>7. CASE CmdN
  <2>1. Editing /\ phase' = phase /\ files' = files /\ phase = "edit"
    BY <1>7 DEF CmdN, Commanded, Editing
  <2>2. Shown(Command) \/ Shown(Loaded(Command, NoName, none))
    BY <1>0, <1>7 DEF CmdN
  <2>3. CASE Shown(Loaded(Command, NoName, none))
    <3>1. Command \in EditorType
      BY <2>1, CommandFacts DEF Placed
    <3>2. Turn(Loaded(Command, NoName, none))
      BY <1>0, <2>1, <2>3, <3>1, LoadTurn
    <3> QED BY <3>2
  <2> QED BY <1>2, <2>1, <2>2, <2>3
<1>8. ASSUME NEW name \in Name \cup {LongName}, CmdE(name) PROVE \E e : Turn(e)
  <2>1. Editing /\ phase' = phase /\ files' = files /\ phase = "edit"
    BY <1>8 DEF CmdE, Commanded, Editing
  <2>2. CASE name \in Name /\ \E data \in Held(name) : Shown(Loaded(Command, name, data))
    <3>1. PICK data \in Held(name) : Shown(Loaded(Command, name, data))
      BY <2>2
    <3>2. data \in Seq(Byte) /\ files[name] \in {data, Damaged}
      BY <1>1, <2>2, HeldFacts
    <3>3. Command \in EditorType
      BY <2>1, CommandFacts DEF Placed
    <3>4. Turn(Loaded(Command, name, data))
      BY <2>1, <2>2, <3>1, <3>2, <3>3, LoadTurn
    <3> QED BY <3>4
  <2>3. CASE Shown(Command)
    BY <1>2, <2>1, <2>3
  <2> QED BY <1>8, <2>2, <2>3 DEF CmdE
<1>9. ASSUME NEW name \in Name \cup {LongName}, CmdEFails(name) PROVE \E e : Turn(e)
  <2>1. Editing /\ phase' = phase /\ files' = files /\ phase = "edit" /\ name \in Name
    BY <1>9 DEF CmdEFails, Commanded, Editing
  <2>2. PICK e \in LoadFailed(Command, name) : Shown(e)
    BY <1>9 DEF CmdEFails
  <2>3. Placed(Command) /\ Same(Command, ed)
    BY <2>1, CommandFacts
  <2>4. Placed(e) /\ (~LATE_READ_FAULTS => e = Command)
    BY <1>1, <2>1, <2>3, FailedFacts
  <2>5. CASE LATE_READ_FAULTS
    <3>1. InText(e)
      BY <2>4, PlacedFacts
    <3>2. Turn(e)
      BY <1>1, <2>1, <2>2, <2>5, <3>1 DEF Turn
    <3> QED BY <3>2
  <2>6. CASE ~LATE_READ_FAULTS
    BY <1>2, <2>1, <2>2, <2>4, <2>6
  <2> QED BY <2>5, <2>6
<1>10. ASSUME NEW name, CmdW(name) PROVE \E e : Turn(e)
  <2>1. Editing /\ phase' = phase /\ save_file(Command, name)
    BY <1>10 DEF CmdW, Commanded
  <2> QED BY <2>1, SaveTurn
<1> QED BY <1>3, <1>4, <1>5, <1>6, <1>7, <1>8, <1>9, <1>10 DEF Commands

(* The end: a blank screen and an empty editor. *)
LEMMA QuitStep ==
  ASSUME EditorInv, Quit, FilesOK(files')
  PROVE  EditorInv' /\ CaretInv' /\ CleanIsSaved'
<1> DEFINE b == Cells(BLANK, ATTR_TEXT)
           blank == mirror_clear(screen, ATTR_TEXT)
           u == Sent(blank, term)
<1>1. screen \in Mirror /\ term \in TerminalType /\ Exact(screen.front, term.cells)
  BY DEF EditorInv
<1>2. b \in [Index -> Cell]
  BY Glyphs DEF Cells, Cell
<1>3. blank = [screen EXCEPT !.back = b]
  BY DEF mirror_clear
<1> HIDE DEF b, blank
<1>4. blank \in Mirror /\ blank.front = screen.front
  BY <1>1, <1>2, <1>3 DEF Mirror
<1>5. u \in TerminalType /\ Exact(blank.back, u.cells)
  BY <1>1, <1>4, SentFacts
<1>6. Flushed(blank) \in Mirror /\ Flushed(blank).back = blank.back
      /\ Flushed(blank).front = blank.back
  BY <1>4, FlushedFacts
<1>7. phase' = "done" /\ ed' = NewEditor /\ screen' = Flushed(blank) /\ term' = u
  BY DEF Quit, blank
<1> HIDE DEF u
<1>8. NewEditor \in EditorType /\ NewEditor.buf = <<>>
  BY NewFacts DEF Placed
<1> QED BY <1>5, <1>6, <1>7, <1>8 DEF EditorInv, Editing, CaretInv, CleanIsSaved

-----------------------------------------------------------------------------
(* The start screen *)

(* The field on the screen. *)
LEMMA FieldFacts ==
  ASSUME NEW e \in EditorType, e.pos <= Len(e.fname), NEW m \in Mirror
  PROVE  FieldShown(e, m) \in Mirror /\ FieldShown(e, m).front = m.front
<1> DEFINE off == IF e.pos >= Field.w THEN e.pos - Field.w + 1 ELSE 0
           shown == SubSeq(e.fname, off + 1, Len(e.fname))
           one == 1
           w == Field.w
           fx == Field.x
           fy == Field.y
           filled == mirror_fill(m, fx, fy, w, one, BLANK, ATTR_FIELD)
           u == put_sn(filled, fx, fy, w, shown, ATTR_FIELD)
<1>1. FieldShown(e, m) = u
  BY DEF FieldShown
<1>2. /\ BLANK \in Chars /\ ATTR_FIELD \in Color /\ w \in Nat \ {0} /\ NameKeys \subseteq Chars
      /\ e.pos \in Nat /\ e.fname \in Name \cup {NoName}
  BY Glyphs, TextAssumption DEF EditorType
<1>3. shown \in Seq(Chars)
  <2>1. e.fname \in Seq(NameKeys) /\ Len(e.fname) \in Nat
    BY <1>2, NameFacts
  <2>2. e.fname \in Seq(Chars)
    BY <1>2, <2>1
  <2>3. off \in Nat
    BY <1>2
  <2> HIDE DEF off
  <2> QED BY <2>1, <2>2, <2>3
<1> HIDE DEF shown, one, w, fx, fy
<1>4. filled \in Mirror /\ filled.front = m.front
  <2>1. /\ filled \in Mirror /\ filled.front = m.front
        /\ \A i \in Index : filled.back[i] =
             IF Within(i, fx, fy, w, one) THEN [ch |-> BLANK, color |-> ATTR_FIELD] ELSE m.back[i]
    BY <1>2, FillFacts
  <2> QED BY <2>1
<1> HIDE DEF filled
<1>5. u \in Mirror /\ u.front = filled.front
  BY <1>2, <1>3, <1>4, PutFacts
<1> QED BY <1>1, <1>4, <1>5

(* A key in the field. *)
LEMMA FieldKeyFacts ==
  ASSUME NEW e \in EditorType, e.pos <= Len(e.fname),
         NEW k \in {"backspace", "left", "right"} \cup NameKeys
  PROVE  LET g == field_key(e, k)
         IN  g \in EditorType /\ g.buf = e.buf /\ g.pos <= Len(g.fname)
<1> DEFINE name == e.fname
           p == e.pos
           g == field_key(e, k)
<1>1. name \in Seq(NameKeys) /\ Len(name) \in Nat /\ Len(name) <= FS_MAX_NAME - 1 /\ p \in Nat
      /\ p <= Len(name)
  BY NameFacts DEF EditorType
<1>2. FS_MAX_NAME \in Nat \ {0}
  BY TextAssumption
<1>3. ASSUME NEW q \in 0 .. Len(name), g = [e EXCEPT !.pos = q]
      PROVE  g \in EditorType /\ g.buf = e.buf /\ g.pos <= Len(g.fname)
  <2> HIDE DEF g
  <2> QED BY <1>1, <1>3 DEF EditorType
<1>4. ASSUME NEW q \in Nat, NEW s \in Seq(NameKeys), Len(s) <= FS_MAX_NAME - 1, q <= Len(s),
             g = [e EXCEPT !.fname = s, !.pos = q]
      PROVE  g \in EditorType /\ g.buf = e.buf /\ g.pos <= Len(g.fname)
  <2>1. s \in Name \cup {NoName}
    BY <1>4, NameFacts
  <2> HIDE DEF g
  <2> QED BY <1>4, <2>1 DEF EditorType
<1>5. CASE g = e
  BY <1>5
<1>6. CASE k = "backspace" /\ p # 0
  <2> DEFINE s == SubSeq(name, 1, p - 1) \o SubSeq(name, p + 1, Len(name))
             q == p - 1
  <2>1. g = [e EXCEPT !.fname = s, !.pos = q]
    BY <1>6 DEF field_key
  <2>2. s \in Seq(NameKeys) /\ Len(s) = Len(name) - 1
    <3>1. p \in 1 .. Len(name)
      BY <1>1, <1>6
    <3> HIDE DEF name, p
    <3> QED BY <1>1, <3>1, CutFacts
  <2> HIDE DEF s
  <2>3. q \in Nat /\ q <= Len(s) /\ Len(s) <= FS_MAX_NAME - 1
    BY <1>1, <1>2, <1>6, <2>2
  <2> HIDE DEF q, g
  <2> QED BY <1>4, <2>1, <2>2, <2>3 DEF g
<1>7. CASE k = "left"
  <2> DEFINE q == IF p > 0 THEN p - 1 ELSE p
  <2>1. g = [e EXCEPT !.pos = q]
    BY <1>7 DEF field_key
  <2>2. q \in 0 .. Len(name)
    BY <1>1
  <2> HIDE DEF q, g
  <2> QED BY <1>3, <2>1, <2>2 DEF g
<1>8. CASE k = "right"
  <2> DEFINE q == IF p < Len(name) THEN p + 1 ELSE p
  <2>1. g = [e EXCEPT !.pos = q]
    BY <1>8 DEF field_key
  <2>2. q \in 0 .. Len(name)
    BY <1>1
  <2> HIDE DEF q, g
  <2> QED BY <1>3, <2>1, <2>2 DEF g
<1>9. CASE k \notin {"backspace", "left", "right"} /\ ~(Len(name) >= FS_MAX_NAME - 1)
  <2> DEFINE m == <<k>>
             s == SubSeq(name, 1, p) \o m \o SubSeq(name, p + 1, Len(name))
             q == p + 1
  <2>1. g = [e EXCEPT !.fname = s, !.pos = q]
    BY <1>9 DEF field_key
  <2>2. m \in Seq(NameKeys) /\ Len(m) = 1
    BY <1>9
  <2> HIDE DEF m
  <2>3. s \in Seq(NameKeys) /\ Len(s) = Len(name) + 1
    <3>1. p \in 0 .. Len(name)
      BY <1>1
    <3> HIDE DEF name, p
    <3>2. LET r == SubSeq(name, 1, p) \o m \o SubSeq(name, p + 1, Len(name))
          IN  /\ r \in Seq(NameKeys) /\ Len(r) = Len(name) + Len(m)
              /\ \A i \in 1 .. p : r[i] = name[i]
      BY ONLY <1>1, <2>2, <3>1, PutInFacts
    <3> QED BY <2>2, <3>2
  <2> HIDE DEF s
  <2>4. q \in Nat /\ q <= Len(s) /\ Len(s) <= FS_MAX_NAME - 1
    BY <1>1, <1>2, <1>9, <2>3
  <2> HIDE DEF q, g
  <2> QED BY <1>4, <2>1, <2>2, <2>3, <2>4 DEF g
<1>10. \/ g = e \/ (k = "backspace" /\ p # 0) \/ k = "left" \/ k = "right"
       \/ k \notin {"backspace", "left", "right"} /\ ~(Len(name) >= FS_MAX_NAME - 1)
  BY DEF field_key
<1> HIDE DEF g
<1>11. g \in EditorType /\ g.buf = e.buf /\ g.pos <= Len(g.fname)
  BY <1>5, <1>6, <1>7, <1>8, <1>9, <1>10 DEF g
<1> QED BY <1>11 DEF g

(* The field as asked for on a terminal that shows what was sent.          *)
LEMMA AskedFacts ==
  ASSUME NEW e \in EditorType, e.pos <= Len(e.fname), NEW m \in Mirror, NEW t \in TerminalType,
         Exact(m.front, t.cells), NEW x, NEW y
  PROVE  LET d == FieldShown(e, m)
             u == Sent(d, mirror_cursor(t, x, y))
         IN  /\ Flushed(d) \in Mirror /\ Flushed(d).front = Flushed(d).back
             /\ u \in TerminalType /\ Exact(Flushed(d).back, u.cells)
<1> DEFINE d == FieldShown(e, m)
           v == mirror_cursor(t, x, y)
           u == Sent(d, v)
<1>1. d \in Mirror /\ d.front = m.front
  BY FieldFacts
<1>2. v \in TerminalType /\ v.cells = t.cells
  BY MovedFacts
<1> HIDE DEF d, v
<1>3. u \in TerminalType /\ Exact(d.back, u.cells)
  BY <1>1, <1>2, SentFacts
<1>4. Flushed(d) \in Mirror /\ Flushed(d).back = d.back /\ Flushed(d).front = d.back
  BY <1>1, FlushedFacts
<1> HIDE DEF u
<1>5. /\ Flushed(d) \in Mirror /\ Flushed(d).front = Flushed(d).back
      /\ u \in TerminalType /\ Exact(Flushed(d).back, u.cells)
  BY <1>3, <1>4
<1> QED BY <1>5 DEF d, v, u

(* The first screen. *)
LEMMA InitFacts ==
  ASSUME Init
  PROVE  EditorInv /\ CaretInv /\ CleanIsSaved
<1> DEFINE b == Cells(BLANK, ATTR_TEXT)
           attr == ATTR_STATUS
           none == <<>>
           right == Marked
           top == 0
           bottom == HEIGHT - 1
           first == mirror_init(ATTR_TEXT)
           titled == mirror_status(first, top, none, right, attr)
           boxed == mirror_box(titled, 0, TEXT_TOP, WIDTH, TEXT_ROWS, ATTR_TEXT, <<>>)
           m == mirror_status(boxed, bottom, none, right, attr)
           x == FieldCaret(NewEditor)
           d == FieldShown(NewEditor, m)
<1>1. b \in [Index -> Cell] /\ \A i \in Index : b[i].ch = BLANK /\ b[i].color.bg = BLACK
  BY Glyphs DEF Cells, Cell
<1>2. first = [back |-> b, front |-> b]
  BY Glyphs DEF mirror_init
<1>3. StartScreen = m
  BY DEF StartScreen
<1> HIDE DEF b, first
<1>4. first \in Mirror /\ first.front = b
  BY <1>1, <1>2 DEF Mirror
<1>5. top \in 0 .. HEIGHT - 1 /\ bottom \in 0 .. HEIGHT - 1 /\ none = <<>>
      /\ right \in {<<>>, Marked} /\ attr \in Color /\ ATTR_TEXT \in Color
  BY SizeAssumption, Glyphs
<1> HIDE DEF top, bottom, none, right, attr
<1>6. titled \in Mirror /\ titled.front = b
  <2>1. /\ titled \in Mirror /\ titled.front = first.front
        /\ \A i \in Index : IF i \div WIDTH = top THEN titled.back[i].color = attr
                            ELSE titled.back[i] = first.back[i]
    <3>1. first \in Mirror
      BY <1>4
    <3>2. top \in 0 .. HEIGHT - 1
      BY <1>5
    <3>3. right \in {<<>>, Marked} /\ none = <<>>
      BY <1>5
    <3>4. attr \in Color
      BY <1>5
    <3> QED BY ONLY <3>1, <3>2, <3>3, <3>4, StatusFacts
  <2> QED BY <1>4, <2>1
<1> HIDE DEF titled
<1>7. boxed \in Mirror /\ boxed.front = b
  <2> DEFINE left == 0
  <2> HIDE DEF left
  <2>1. LET u == mirror_box(titled, left, TEXT_TOP, WIDTH, TEXT_ROWS, ATTR_TEXT, <<>>)
        IN  u \in Mirror /\ u.front = titled.front
    BY <1>5, <1>6, BoxFacts
  <2> QED BY <1>6, <2>1 DEF left
<1> HIDE DEF boxed
<1>8. m \in Mirror /\ m.front = b
  <2>1. /\ m \in Mirror /\ m.front = boxed.front
        /\ \A i \in Index : IF i \div WIDTH = bottom THEN m.back[i].color = attr
                            ELSE m.back[i] = boxed.back[i]
    <3>1. boxed \in Mirror
      BY <1>7
    <3>2. bottom \in 0 .. HEIGHT - 1
      BY <1>5
    <3>3. right \in {<<>>, Marked} /\ none = <<>>
      BY <1>5
    <3>4. attr \in Color
      BY <1>5
    <3> QED BY ONLY <3>1, <3>2, <3>3, <3>4, StatusFacts
  <2> QED BY <1>7, <2>1
<1> HIDE DEF m
<1>9. PICK c \in {BLANK, Border} :
        term = Sent(FieldShown(NewEditor, m),
                    mirror_cursor(Corner(term_clear([wm_init_term EXCEPT !.cells = Cells(c, Plain)])),
                                  x, Field.y))
  BY <1>3 DEF Init
<1> DEFINE shell == [wm_init_term EXCEPT !.cells = Cells(c, Plain)]
           empty == [i \in Index |-> Empty]
           cleared == term_clear(shell)
           t == Corner(cleared)
<1>10. cleared \in TerminalType /\ cleared.cells = empty
  <2>1. PICK no \in BOOLEAN : no = FALSE
    OBVIOUS
  <2>3. cleared = [shell EXCEPT !.cells = empty, !.x = 0, !.y = 0]
    BY DEF term_clear
  <2> DEFINE cs == Cells(c, Plain)
  <2>5. wm_init_term = [x |-> 0, y |-> 0, cells |-> empty, buf |-> <<>>, prompt |-> no]
    BY <2>1 DEF wm_init_term
  <2>6. shell = [wm_init_term EXCEPT !.cells = cs]
    OBVIOUS
  <2> HIDE DEF cs, shell, empty
  <2>2. shell = [x |-> 0, y |-> 0, cells |-> cs, buf |-> <<>>, prompt |-> no]
    BY <2>5, <2>6
  <2>4. empty \in [Index -> Cell] /\ 0 \in 0 .. WIDTH - 1 /\ 0 \in 0 .. HEIGHT - 1
        /\ <<>> \in Seq(Chars)
    BY Glyphs, SizeAssumption DEF empty
  <2> HIDE DEF cleared
  <2> QED BY <2>2, <2>3, <2>4 DEF TerminalType
<1>11. Exact(b, empty)
  <2>1. Empty.ch = BLANK /\ Empty.color.bg = BLACK
    BY DEF Empty, Plain, VGA_COLOR
  <2> QED BY <1>1, <2>1 DEF Exact
<1> HIDE DEF cleared, empty
<1>12. t \in TerminalType /\ Exact(m.front, t.cells)
  <2>1. \E a, z : t = mirror_cursor(cleared, a, z)
    BY DEF Corner
  <2>2. t \in TerminalType /\ t.cells = cleared.cells
    <3> HIDE DEF t
    <3> QED BY <1>10, <2>1, MovedFacts
  <2> QED BY <1>8, <1>10, <1>11, <2>2
<1> HIDE DEF t, x
<1>13. /\ NewEditor \in EditorType /\ NewEditor.pos <= Len(NewEditor.fname) /\ NewEditor.buf = <<>>
  BY NewFacts DEF Placed, NoName
<1> DEFINE u == Sent(d, mirror_cursor(t, x, Field.y))
           fy == Field.y
<1>14. /\ Flushed(d) \in Mirror /\ Flushed(d).front = Flushed(d).back
       /\ u \in TerminalType /\ Exact(Flushed(d).back, u.cells)
  <2> HIDE DEF fy
  <2>1. LET v == Sent(d, mirror_cursor(t, x, fy))
        IN  /\ Flushed(d) \in Mirror /\ Flushed(d).front = Flushed(d).back
            /\ v \in TerminalType /\ Exact(Flushed(d).back, v.cells)
    BY <1>8, <1>12, <1>13, AskedFacts
  <2> QED BY <2>1 DEF fy
<1>15. screen = Flushed(d) /\ term = u /\ ed = NewEditor /\ phase = "start"
  BY <1>3, <1>9 DEF Init, t, cleared
<1> HIDE DEF d, u
<1>16. FilesOK(files)
  BY TextAssumption DEF Init, FilesOK, Byte
<1> QED BY <1>13, <1>14, <1>15, <1>16 DEF EditorInv, Editing, CaretInv, CleanIsSaved

(* A key in the field, then the key that ends it. *)
LEMMA FieldKeyStep ==
  ASSUME EditorInv, NEW k \in {"backspace", "left", "right"} \cup NameKeys, FieldKey(k)
  PROVE  EditorInv' /\ CaretInv' /\ CleanIsSaved'
<1> DEFINE g == field_key(ed, k)
           d == FieldShown(g, screen)
           x == FieldCaret(g)
           y == Field.y
           u == Sent(d, mirror_cursor(term, x, y))
<1>1. /\ phase = "start" /\ phase' = "start" /\ files' = files
      /\ ed' = g /\ screen' = Flushed(d) /\ term' = u
  BY DEF FieldKey, Asking
<1>2. /\ ed \in EditorType /\ ed.pos <= Len(ed.fname) /\ ed.buf = <<>> /\ FilesOK(files)
      /\ screen \in Mirror /\ term \in TerminalType /\ Exact(screen.front, term.cells)
  BY <1>1 DEF EditorInv
<1>3. g \in EditorType /\ g.buf = ed.buf /\ g.pos <= Len(g.fname)
  BY <1>2, FieldKeyFacts
<1> HIDE DEF g, x, y
<1>4. /\ Flushed(d) \in Mirror /\ Flushed(d).front = Flushed(d).back
      /\ u \in TerminalType /\ Exact(Flushed(d).back, u.cells)
  BY <1>2, <1>3, AskedFacts
<1> HIDE DEF d, u
<1> QED BY <1>1, <1>2, <1>3, <1>4 DEF EditorInv, Editing, CaretInv, CleanIsSaved

(* The end of the start screen: an empty buffer, or the file named. *)
LEMMA StartTurn ==
  ASSUME EditorInv, FieldEscape \/ FieldEnter
  PROVE  \E e : Turn(e)
<1>1. FilesOK(files) /\ phase = "start" /\ ed.fname \in Name \cup {NoName}
  BY DEF EditorInv, EditorType, FieldEscape, FieldEnter
<1>2. Placed(NewEditor) /\ Anchored(NewEditor) /\ NewEditor.buf = <<>> /\ NewEditor \in EditorType
      /\ NewEditor.top = 0
  BY NewFacts DEF Placed
<1>3. ASSUME NEW e, Placed(e), e.top = 0, e.buf = <<>>, Begun(e) PROVE Turn(e)
  <2>1. InText(e) /\ Anchored(e) /\ Kept(e, files)
    BY <1>3, PlacedFacts DEF Anchored, IsLine, Kept
  <2> QED BY <1>1, <1>3, <2>1 DEF Turn, Begun
<1>4. CASE Begun(NewEditor)
  BY <1>2, <1>3, <1>4
<1>5. CASE ed.fname # NoName /\ \E data \in Held(ed.fname) : Begun(Loaded(NewEditor, ed.fname, data))
  <2> DEFINE name == ed.fname
  <2>1. name \in Name
    BY <1>1, <1>5
  <2>2. PICK data \in Held(name) : Begun(Loaded(NewEditor, name, data))
    BY <1>5
  <2> HIDE DEF name
  <2>3. data \in Seq(Byte) /\ files[name] \in {data, Damaged}
    BY <1>1, <2>1, HeldFacts
  <2>4. Shown(Loaded(NewEditor, name, data)) /\ phase' = "edit" /\ files' = files
    BY <2>2 DEF Begun
  <2>5. Turn(Loaded(NewEditor, name, data))
    BY <1>2, <2>1, <2>3, <2>4, LoadTurn
  <2> QED BY <2>5
<1>6. CASE ed.fname # NoName /\ \E e \in LoadFailed(NewEditor, ed.fname) :
                                  Begun([e EXCEPT !.fname = ed.fname])
  <2> DEFINE name == ed.fname
  <2>1. name \in Name
    BY <1>1, <1>6
  <2>2. PICK e \in LoadFailed(NewEditor, name) : Begun([e EXCEPT !.fname = name])
    BY <1>6
  <2> HIDE DEF name
  <2> DEFINE new == NewEditor
             g == [e EXCEPT !.fname = name]
  <2>3. Placed(new) /\ new.top = 0 /\ new.buf = <<>> /\ e \in LoadFailed(new, name)
    BY <1>2
  <2>4. Placed(e) /\ e.top = 0 /\ e.buf = <<>>
    <3> HIDE DEF new
    <3> QED BY <1>1, <2>1, <2>3, FailedFacts
  <2>5. g \in EditorType /\ g.buf = e.buf /\ g.pos = e.pos /\ g.top = e.top
    BY <2>1, <2>4 DEF Placed, EditorType
  <2>6. Begun(g)
    BY <2>2
  <2> HIDE DEF g
  <2>7. Placed(g)
    BY <2>4, <2>5 DEF Placed, len
  <2> QED BY <1>3, <2>4, <2>5, <2>6, <2>7
<1> QED BY <1>4, <1>5, <1>6 DEF FieldEscape, FieldEnter

-----------------------------------------------------------------------------
(* The theorems *)

(* Every step preserves the invariants. *)
LEMMA NextStep ==
  ASSUME EditorInv, [Next]_vars
  PROVE  /\ EditorInv'
         /\ ~LATE_READ_FAULTS => (CaretInv => CaretInv') /\ (CleanIsSaved => CleanIsSaved')
<1>1. CASE \E e : Turn(e)
  BY <1>1, TurnStep
<1>2. CASE Quit /\ FilesOK(files')
  BY <1>2, QuitStep
<1>3. CASE Starting
  BY <1>1, <1>3, FieldKeyStep, StartTurn DEF Starting
<1>4. CASE \E k \in EditKeys : EditKey(k)
  BY <1>1, <1>4, EditKeyTurn
<1>5. CASE Commands
  BY <1>1, <1>2, <1>5, CommandTurn
<1>6. CASE UNCHANGED vars
  BY <1>6 DEF vars, EditorInv, FilesOK, EditorType, Editing, Placed, len, Exact, TerminalType,
              CaretInv, IsLine, CaretIndex, At, Under, CleanIsSaved, Mirror
<1> QED BY <1>3, <1>4, <1>5, <1>6 DEF Next

(* The editor keeps text in its buffer, the cursor in the text and the     *)
(* first line shown before it.                                             *)
THEOREM EditorCorrect == Spec => []EditorInv
<1>1. Init => EditorInv
  BY InitFacts
<1>2. EditorInv /\ [Next]_vars => EditorInv'
  BY NextStep
<1> QED BY <1>1, <1>2, PTL DEF Spec

(* The screen always shows what the editor drew, though mirror_flush sends *)
(* only the cells that it believes to differ.                              *)
THEOREM TerminalAlwaysExact == Spec => []TerminalExact
<1>1. EditorInv => TerminalExact
  BY DEF EditorInv, Exact, TerminalExact
<1> QED BY <1>1, EditorCorrect, PTL

(* The caret stands on its character while text is edited, if the disk     *)
(* does not fail in the middle of a read.                                  *)
THEOREM CaretAlwaysOnCharacter == ~LATE_READ_FAULTS => (Spec => []CaretOnCharacter)
<1> SUFFICES ASSUME ~LATE_READ_FAULTS PROVE Spec => []CaretOnCharacter
  OBVIOUS
<1>1. Init => CaretInv
  BY InitFacts
<1>2. EditorInv /\ CaretInv /\ [Next]_vars => CaretInv'
  BY NextStep
<1>3. CaretInv => CaretOnCharacter
  BY DEF CaretInv, CaretOnCharacter, Under, IsLine
<1> QED BY <1>1, <1>2, <1>3, EditorCorrect, PTL DEF Spec

(* A buffer that counts as unmodified is on the disk, if the disk does not *)
(* fail in the middle of a read: nothing is lost without a question.       *)
THEOREM CleanAlwaysSaved == ~LATE_READ_FAULTS => (Spec => []CleanIsSaved)
<1> SUFFICES ASSUME ~LATE_READ_FAULTS PROVE Spec => []CleanIsSaved
  OBVIOUS
<1>1. Init => CleanIsSaved
  BY InitFacts
<1>2. EditorInv /\ CleanIsSaved /\ [Next]_vars => CleanIsSaved'
  BY NextStep
<1> QED BY <1>1, <1>2, EditorCorrect, PTL DEF Spec

=============================================================================
