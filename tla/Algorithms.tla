----------------------------- MODULE Algorithms -----------------------------
(***************************************************************************)
(* The computations of the C library (home/lib/libc.c, home/lib/stdio.c,   *)
(* lib/string.h), of the 64-bit helpers that the tcc driver adds to every  *)
(* program (home/tcc.c), and of the shell's loader that do not touch the   *)
(* system's state.  Each is translated as the code computes it.  A step    *)
(* calls one of them; the properties compare its result with what it is    *)
(* meant to be.  A word has W bits, and a long long two words.             *)
(***************************************************************************)
EXTENDS Integers, Sequences, FiniteSets

CONSTANTS
  W,           \* 32
  BYTE,        \* 256 values in a byte
  Widths,      \* field widths of a conversion
  Keys,        \* what qsort compares
  MAX_ITEMS,   \* bound on the items to sort and on arguments
  MEMORY,      \* bytes of memory that memmove works in
  Lengths,     \* lengths of arguments, with their final NUL
  STACK_TOP,   \* USER_STACK
  Days,        \* days since 1970-01-01, of years that an int can hold
  Seconds,     \* times, counted from the same day
  Capacities   \* sizes of vsnprintf's buffer

ASSUME WordAssumption == W \in Nat \ {0} /\ BYTE \in Nat \ {0, 1}
ASSUME BoundsAssumption ==
  /\ Widths \subseteq Nat /\ Keys \subseteq Int /\ MAX_ITEMS \in Nat /\ MEMORY \in Nat
  /\ Lengths \subseteq Nat \ {0} /\ STACK_TOP \in Nat
  /\ Days \subseteq Int /\ Seconds \subseteq Int /\ Capacities \subseteq Nat

VARIABLES asked, answer

libVars == <<asked, answer>>

(* Bit k as a number. *)
Two[k \in 0 .. 2 * W] == IF k = 0 THEN 1 ELSE 2 * Two[k - 1]

Word == Two[W]
Long == Two[2 * W]
Longs == 0 .. Long - 1

(* The signed value of a long long. *)
Signed(v) == IF v >= Long \div 2 THEN v - Long ELSE v
Low(v) == v % Word
High(v) == v \div Word

-----------------------------------------------------------------------------
(* Division, one bit of the dividend at a time, on pairs of words.         *)
(* A plausible bug: the borrow from the low word is forgotten. *)
Subtract_words_no_borrow(rhi, rlo, d) == [rhi |-> (rhi - High(d)) % Word, rlo |-> (rlo - Low(d)) % Word]

Subtract_words(rhi, rlo, d) ==
  [rhi |-> (rhi - High(d) - (IF rlo < Low(d) THEN 1 ELSE 0)) % Word, rlo |-> (rlo - Low(d)) % Word]

(* The remainder with bit k of n shifted in, and what is left of it. *)
DivideStep(p, n, d, k) ==
  LET rhi == (2 * p.rhi + p.rlo \div Two[W - 1]) % Word
      rlo == (2 * p.rlo + ((n \div Two[k]) % 2)) % Word
      less == Subtract_words(rhi, rlo, d)
  IN  IF rhi > High(d) \/ (rhi = High(d) /\ rlo >= Low(d))
      THEN [rhi |-> less.rhi, rlo |-> less.rlo, q |-> p.q + Two[k]]
      ELSE [rhi |-> rhi, rlo |-> rlo, q |-> p.q]

DivideRounds(n, d) ==
  LET s[i \in 0 .. 2 * W] ==
        IF i = 0 THEN [rhi |-> 0, rlo |-> 0, q |-> 0] ELSE DivideStep(s[i - 1], n, d, 2 * W - i)
  IN  s

rt_divmod(n, d) ==
  LET last == DivideRounds(n, d)[2 * W]
  IN  IF d = 0 THEN [q |-> 0, r |-> 0] ELSE [q |-> last.q, r |-> last.rhi * Word + last.rlo]

Magnitude(v) == IF Signed(v) < 0 THEN (0 - v) % Long ELSE v
Negated(neg, v) == IF neg THEN (0 - v) % Long ELSE v

divdi3(a, b) == Negated((Signed(a) < 0) # (Signed(b) < 0), rt_divmod(Magnitude(a), Magnitude(b)).q)
moddi3(a, b) == Negated(Signed(a) < 0, rt_divmod(Magnitude(a), Magnitude(b)).r)

(* Shifts by b bits, 0 <= b < 2 * W. *)
lshrdi3(u, b) ==
  IF b = 0 THEN u
  ELSE IF b >= W THEN High(u) \div Two[b - W]
  ELSE (High(u) \div Two[b]) * Word + ((Low(u) \div Two[b] + High(u) * Two[W - b]) % Word)

ashldi3(u, b) ==
  IF b = 0 THEN u
  ELSE IF b >= W THEN ((Low(u) * Two[b - W]) % Word) * Word
  ELSE (((High(u) * Two[b]) % Word) + Low(u) \div Two[W - b]) * Word + ((Low(u) * Two[b]) % Word)

SignedHigh(u) == IF High(u) >= Word \div 2 THEN High(u) - Word ELSE High(u)

ashrdi3(u, b) ==
  IF b = 0 THEN u
  ELSE IF b >= W THEN ((SignedHigh(u) \div Two[W - 1]) % Word) * Word
                      + ((SignedHigh(u) \div Two[b - W]) % Word)
  ELSE ((SignedHigh(u) \div Two[b]) % Word) * Word
       + ((Low(u) \div Two[b] + High(u) * Two[W - b]) % Word)

-----------------------------------------------------------------------------
(* Numbers as text: a digit is its value, and these are other characters.  *)
MINUS == 100
PLUS == 101
SPACE == 102
LETTER_X == 103

Numerals(base) ==
  LET d[n \in Longs] == IF n < base THEN <<n>> ELSE Append(d[n \div base], n % base) IN d
Digits(v, base) == Numerals(base)[v]

put_pad(c, n) == [i \in 1 .. n |-> c]

(* A sign or prefix and the digits, filled up to the width. *)
Padded(head, digits, width, zero, left) ==
  LET gap == width - Len(head) - Len(digits)
  IN  IF left THEN head \o digits \o put_pad(SPACE, gap)
      ELSE IF zero THEN head \o put_pad(0, gap) \o digits
      ELSE put_pad(SPACE, gap) \o head \o digits

(* %u, %x and %o. *)
put_uint(v, base, width, zero, left, alt) ==
  Padded(IF alt /\ base = 16 THEN <<0, LETTER_X>> ELSE <<>>,
         (IF v = 0 /\ base = 8 /\ alt THEN <<0>> ELSE <<>>) \o Digits(v, base), width, zero, left)

(* %d; sign is what the flags + and blank put before a number. *)
do_format_d(v, width, zero, left, sign) ==
  Padded(IF Signed(v) < 0 THEN <<MINUS>> ELSE sign,
         Digits(Magnitude(v), 10), width, zero, left)

(* itoa writes the digits backwards, the sign behind them, and reverses. *)
Backwards(s) == [i \in 1 .. Len(s) |-> s[Len(s) - i + 1]]
itoa(v) ==
  Backwards(Backwards(Digits(Magnitude(v), 10)) \o (IF Signed(v) < 0 THEN <<MINUS>> ELSE <<>>))

digit_value(s, i, base) == IF i \in DOMAIN s /\ s[i] < base THEN s[i] ELSE -1

(* The first character that is no blank, and the first that is no digit. *)
Unblank(s) ==
  CHOOSE i \in 1 .. Len(s) + 1 : /\ i > Len(s) \/ s[i] # SPACE
                                 /\ \A j \in 1 .. i - 1 : s[j] = SPACE
Undigit(s, first, base) ==
  CHOOSE i \in first .. Len(s) + 1 : /\ digit_value(s, i, base) < 0
                                     /\ \A j \in first .. i - 1 : digit_value(s, j, base) >= 0

(* The value of the digits from position first to the one before i. *)
Accumulated(s, first, base) ==
  LET acc[i \in first .. Len(s) + 1] ==
        IF i = first THEN 0 ELSE (acc[i - 1] * base + s[i - 1]) % Long
  IN  acc

(* The value, and how many characters were taken. *)
strtoull(s, base0) ==
  LET skip == Unblank(s)
      signed == skip <= Len(s) /\ s[skip] \in {MINUS, PLUS}
      p == IF signed THEN skip + 1 ELSE skip
      zero == digit_value(s, p, 1) = 0
      hex == base0 \in {0, 16} /\ zero /\ p < Len(s) /\ s[p + 1] = LETTER_X
             /\ digit_value(s, p + 2, 16) >= 0
      base == IF hex THEN 16 ELSE IF base0 # 0 THEN base0 ELSE IF zero THEN 8 ELSE 10
      first == IF hex THEN p + 2 ELSE p
      last == Undigit(s, first, base)
  IN  [value |-> Negated(signed /\ s[skip] = MINUS, Accumulated(s, first, base)[last]),
       end |-> IF last > first THEN last - 1 ELSE 0]

(* vsnprintf: what reaches a buffer of cap bytes. *)
NulAt(text, cap) == IF Len(text) < cap - 1 THEN Len(text) ELSE cap - 1
vsnprintf(text, cap) ==
  LET kept == {i \in 0 .. Len(text) - 1 : i + 1 < cap}
      nul == IF cap = 0 THEN {} ELSE {NulAt(text, cap)}
  IN  [i \in kept \cup nul |-> IF i \in nul THEN -1 ELSE text[i + 1]]

(* A 32-bit number in the header of a flat binary: build_flat writes it,   *)
(* the shell reads it.                                                     *)
Bytes2 == BYTE * BYTE
Bytes3 == BYTE * Bytes2
Bytes4 == BYTE * Bytes3
Header(v) == <<v % BYTE, (v \div BYTE) % BYTE, (v \div Bytes2) % BYTE, (v \div Bytes3) % BYTE>>
rd32_le(p) == p[1] + p[2] * BYTE + p[3] * Bytes2 + p[4] * Bytes3

-----------------------------------------------------------------------------
(* Memory.                                                                 *)
(* n bytes from s to d, one after another, from the first or the last on. *)
CopyStep(m, d, s, k) == [m EXCEPT ![d + k] = m[s + k]]
CopyRounds(m, d, s, n, upwards) ==
  LET c[i \in 0 .. n] ==
        IF i = 0 THEN m ELSE CopyStep(c[i - 1], d, s, IF upwards THEN i - 1 ELSE n - i)
  IN  c
Copied(m, d, s, n, upwards) == CopyRounds(m, d, s, n, upwards)[n]

(* A plausible bug: memcpy's direction, whatever overlaps. *)
memmove_upwards(m, d, s, n) == Copied(m, d, s, n, TRUE)

memmove(m, d, s, n) == IF d = s \/ n = 0 THEN m ELSE Copied(m, d, s, n, d < s)

(* Insertion sort: each item is swapped downwards while it is smaller than *)
(* the one below it.  An item is [key, tag]; keys are compared.            *)
Insertion(b, i) ==
  CHOOSE j \in 1 .. i : /\ j = 1 \/ b[i].key >= b[j - 1].key
                        /\ \A k \in j .. i - 1 : b[i].key < b[k].key

Inserted(b, i) ==
  LET j == Insertion(b, i)
  IN  [k \in DOMAIN b |-> IF k = j THEN b[i] ELSE IF k \in j + 1 .. i THEN b[k - 1] ELSE b[k]]

SortRounds(a) ==
  LET s[i \in 0 .. Len(a)] == IF i <= 1 THEN a ELSE Inserted(s[i - 1], i) IN s
qsort(a) == SortRounds(a)[Len(a)]

(* The argument block of a new program: where each string, the pointers to *)
(* them, envp and the entry frame lie, and the initial stack pointer.      *)
Pointers(lens) ==
  LET ptr[i \in 0 .. Len(lens)] == IF i = 0 THEN STACK_TOP ELSE ptr[i - 1] - lens[i] IN ptr

ArgvSize(argc) == (argc + 1) * 4

build_user_args(lens) ==
  LET argc == Len(lens)
      ptr == Pointers(lens)
      argv_ptr == ptr[argc] - (ptr[argc] % 4) - ArgvSize(argc)
  IN  [strings |-> [i \in 1 .. argc |-> [from |-> ptr[i], size |-> lens[i]]],
       argv |-> [from |-> argv_ptr, size |-> (argc + 1) * 4],
       envp |-> [from |-> argv_ptr - 4, size |-> 4],
       esp |-> [from |-> argv_ptr - 16, size |-> 12]]

-----------------------------------------------------------------------------
(* Time: the date of a day, counted from 1970-01-01.  C's division rounds  *)
(* towards zero, which the code allows for.                                *)
Quot(a, b) == IF a >= 0 THEN a \div b ELSE -((-a) \div b)

(* The year, from March on, of a day of the era of 400 years. *)
Yoe(doe) == (doe - doe \div 1460 + doe \div 36524 - doe \div 146096) \div 365

Era(z) == Quot(IF z >= 0 THEN z ELSE z - 146096, 146097)

localtime(days) ==
  LET z == days + 719468
      era == Era(z)
      doe == z - era * 146097
      yoe == Yoe(doe)
      doy == doe - (365 * yoe + yoe \div 4 - yoe \div 100)
      mp == (5 * doy + 2) \div 153
      m == IF mp < 10 THEN mp + 3 ELSE mp - 9
  IN  [year |-> yoe + era * 400 + (IF m <= 2 THEN 1 ELSE 0), month |-> m,
       day |-> doy - (153 * mp + 2) \div 5 + 1,
       wday |-> LET w == (days + 4) - 7 * Quot(days + 4, 7) IN IF w < 0 THEN w + 7 ELSE w]

(* A time of day from seconds, and the day it falls on. *)
DAY == 86400
Clock(secs) ==
  LET q == Quot(secs, DAY)
      rem == secs - DAY * q
      r == IF rem < 0 THEN rem + DAY ELSE rem
  IN  [days |-> IF rem < 0 THEN q - 1 ELSE q, hour |-> r \div 3600,
       min |-> (r % 3600) \div 60, sec |-> r % 60]

-----------------------------------------------------------------------------
(* One call at a time.                                                     *)
Unasked == asked.op = "none"
Answer(c, r) == asked' = c /\ answer' = r

LibInit == asked = [op |-> "none"] /\ answer = 0

Divide(a, b) ==
  Answer([op |-> "divide", a |-> a, b |-> b],
         [udiv |-> rt_divmod(a, b).q, umod |-> rt_divmod(a, b).r, div |-> divdi3(a, b), mod |-> moddi3(a, b)])

Shift(u, b) ==
  Answer([op |-> "shift", u |-> u, b |-> b], [lshr |-> lshrdi3(u, b), ashl |-> ashldi3(u, b), ashr |-> ashrdi3(u, b)])

FormatU(v, base, width, zero, left, alt) ==
  Answer([op |-> "format", v |-> v, base |-> base, width |-> width, blanks |-> 0],
         put_uint(v, base, width, zero, left, alt))

FormatD(v, width, zero, left, sign) ==
  Answer([op |-> "format", v |-> v, base |-> 10, width |-> width, blanks |-> IF sign = <<SPACE>> THEN 1 ELSE 0],
         do_format_d(v, width, zero, left, sign))

Itoa(v) == Answer([op |-> "format", v |-> v, base |-> 10, width |-> 0, blanks |-> 0], itoa(v))

Snprintf(v, cap) ==
  LET text == put_uint(v, 10, 0, FALSE, FALSE, FALSE)
  IN  Answer([op |-> "snprintf", text |-> text, cap |-> cap], vsnprintf(text, cap))

FlatHeader(v) == Answer([op |-> "header", v |-> v], rd32_le(Header(v)))

Move(d, s, n) ==
  LET m == [i \in 0 .. MEMORY - 1 |-> i]
  IN  Answer([op |-> "memmove", d |-> d, s |-> s, n |-> n], memmove(m, d, s, n))

Sort(keys) ==
  LET a == [i \in DOMAIN keys |-> [key |-> keys[i], tag |-> i]]
  IN  Answer([op |-> "qsort", a |-> a], qsort(a))

Arguments(lens) == Answer([op |-> "args", lens |-> lens], build_user_args(lens))

Date(day) == Answer([op |-> "date", day |-> day], localtime(day))

Time(secs) == Answer([op |-> "time", secs |-> secs], Clock(secs))

Return == ~Unasked /\ asked' = [op |-> "none"] /\ answer' = 0

AskNumbers ==
  \/ \E a, b \in Longs : Divide(a, b)
  \/ \E u \in Longs, b \in 0 .. 2 * W - 1 : Shift(u, b)
  \/ \E v \in Longs, width \in Widths, zero, left, alt \in BOOLEAN, base \in {8, 10, 16} :
       FormatU(v, base, width, zero, left, alt)
  \/ \E v \in Longs, width \in Widths, zero, left \in BOOLEAN, sign \in {<<>>, <<PLUS>>, <<SPACE>>} :
       FormatD(v, width, zero, left, sign)
  \/ \E v \in Longs : Itoa(v) \/ \E cap \in Capacities : Snprintf(v, cap)
  \/ \E v \in 0 .. Bytes4 - 1 : FlatHeader(v)
  \/ \E day \in Days : Date(day)
  \/ \E secs \in Seconds : Time(secs)

UpTo(n, S) == UNION {[1 .. k -> S] : k \in 0 .. n}

AskMemory ==
  \/ \E d, s, n \in 0 .. MEMORY : d + n <= MEMORY /\ s + n <= MEMORY /\ Move(d, s, n)
  \/ \E keys \in UpTo(MAX_ITEMS, Keys) : Sort(keys)
  \/ \E lens \in UpTo(MAX_ITEMS, Lengths) : Arguments(lens)

LibNext == (Unasked /\ (AskNumbers \/ AskMemory)) \/ Return

LibSpec == LibInit /\ [][LibNext]_libVars

-----------------------------------------------------------------------------
(* What the answers are meant to be.                                       *)
DivisionMeant(a, b) ==
  LET q == IF Signed(b) < 0 THEN Quot(-Signed(a), -Signed(b)) ELSE Quot(Signed(a), Signed(b))
  IN  IF b = 0 THEN [udiv |-> 0, umod |-> 0, div |-> 0, mod |-> 0]
      ELSE [udiv |-> a \div b, umod |-> a % b, div |-> q % Long, mod |-> (Signed(a) - q * Signed(b)) % Long]

(* rt_divmod and the four functions over it: long division bit by bit on   *)
(* pairs of words gives the exact quotient and remainder of every two      *)
(* numbers, signed or not, the most negative one and divisor zero included. *)
DivisionExact == asked.op = "divide" => answer = DivisionMeant(asked.a, asked.b)

ShiftMeant(u, b) ==
  [lshr |-> u \div Two[b], ashl |-> (u * Two[b]) % Long, ashr |-> (Signed(u) \div Two[b]) % Long]

(* The 64-bit shifts, put together from shifted halves, multiply and       *)
(* divide by the power of two, the arithmetic one rounding down.           *)
ShiftsExact == asked.op = "shift" => answer = ShiftMeant(asked.u, asked.b)

(* Text reads back as the number, fills the width, and is padded only to   *)
(* fill it.                                                                *)
ReadsBack(text, v, base, width, blanks) ==
  /\ strtoull(text, base).value = v
  /\ Len(text) >= width
  /\ Len(text) > width => {i \in DOMAIN text : text[i] = SPACE} \subseteq 1 .. blanks

(* What the integer conversions of printf and itoa write, with any flags,  *)
(* strtoull reads back; what build_flat writes into a program's header,    *)
(* the shell's rd32_le reads.                                              *)
NumbersReadBack ==
  /\ asked.op = "format" => ReadsBack(answer, asked.v, asked.base, asked.width, asked.blanks)
  /\ asked.op = "header" => answer = asked.v

Leap(y) == (y % 4 = 0 /\ y % 100 # 0) \/ y % 400 = 0
MonthLength(y, m) ==
  IF m = 2 THEN (IF Leap(y) THEN 29 ELSE 28) ELSE IF m \in {4, 6, 9, 11} THEN 30 ELSE 31

Tomorrow(t) ==
  LET later(y, m, d) == [year |-> y, month |-> m, day |-> d, wday |-> (t.wday + 1) % 7]
  IN  IF t.day < MonthLength(t.year, t.month) THEN later(t.year, t.month, t.day + 1)
      ELSE IF t.month < 12 THEN later(t.year, t.month + 1, 1)
      ELSE later(t.year + 1, 1, 1)

(* localtime: its arithmetic goes on from one day to the next as the       *)
(* calendar does, leap years and the days before 1970 included, and the    *)
(* time of day is the rest.                                                *)
TimeExact ==
  /\ asked.op = "date" => /\ localtime(asked.day + 1) = Tomorrow(answer)
                          /\ asked.day = 0 => answer = [year |-> 1970, month |-> 1, day |-> 1, wday |-> 4]
  /\ asked.op = "time" =>
       /\ answer.days * DAY + answer.hour * 3600 + answer.min * 60 + answer.sec = asked.secs
       /\ answer.hour \in 0 .. 23 /\ answer.min \in 0 .. 59 /\ answer.sec \in 0 .. 59

(* The library's arithmetic, on numbers, text and time, is exact. *)
NumbersExact == DivisionExact /\ ShiftsExact /\ NumbersReadBack /\ TimeExact

(* memmove copies as if through a third place, whatever overlaps. *)
MoveExact ==
  asked.op = "memmove" =>
    answer = [i \in 0 .. MEMORY - 1 |->
                IF i \in asked.d .. asked.d + asked.n - 1 THEN asked.s + i - asked.d ELSE i]

(* qsort orders its items, loses none and keeps equal ones in their order. *)
SortStable ==
  asked.op = "qsort" =>
    /\ {answer[i] : i \in DOMAIN answer} = {asked.a[i] : i \in DOMAIN asked.a}
    /\ Len(answer) = Len(asked.a)
    /\ \A i, j \in DOMAIN answer : i < j =>
         \/ answer[i].key < answer[j].key
         \/ answer[i].key = answer[j].key /\ answer[i].tag < answer[j].tag

Blocks(r) == {r.argv, r.envp, r.esp} \cup {r.strings[i] : i \in DOMAIN r.strings}
Disjoint(b, c) == b.from + b.size <= c.from \/ c.from + c.size <= b.from

(* build_user_args: the parts of a program's argument block overlap        *)
(* nowhere, lie below the stack's top and not below the initial stack      *)
(* pointer, and pointers are aligned.                                      *)
ArgumentsApart ==
  asked.op = "args" =>
    /\ \A b, c \in Blocks(answer) : b = c \/ Disjoint(b, c)
    /\ \A b \in Blocks(answer) : answer.esp.from <= b.from /\ b.from + b.size <= STACK_TOP
    /\ {answer.argv.from % 4, answer.envp.from % 4, answer.esp.from % 4} = {0}

(* vsnprintf fills no byte beyond its buffer, and what it leaves there is  *)
(* the text as far as it fits, ended.                                      *)
TextFits ==
  asked.op = "snprintf" =>
    /\ DOMAIN answer \subseteq 0 .. asked.cap - 1
    /\ asked.cap > 0 => \E n \in DOMAIN answer :
         /\ answer[n] = -1 /\ (n = Len(asked.text) \/ n = asked.cap - 1)
         /\ \A i \in 0 .. n - 1 : answer[i] = asked.text[i + 1]

(* What moves, sorts and lays out bytes harms and loses none. *)
MemoryExact == MoveExact /\ SortStable /\ ArgumentsApart /\ TextFits

=============================================================================
