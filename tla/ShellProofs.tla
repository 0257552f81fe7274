----------------------------- MODULE ShellProofs -----------------------------
(***************************************************************************)
(* Proofs about Shell.tla for every size of screen, number of terminals,   *)
(* prompt and set of commands: types, the line on the screen, the screen   *)
(* and its terminal, row copies, and terminals that keep apart.            *)
(***************************************************************************)
EXTENDS Shell, SequenceTheorems, TLAPS

-----------------------------------------------------------------------------
(* Numbers *)

(* Multiplication by a natural number is monotonic. *)
LEMMA MulMono ==
  ASSUME NEW m \in Nat, NEW a \in Int, NEW b \in Int, a <= b
  PROVE  m * a <= m * b
  OBVIOUS

(* Quotient and remainder. *)
LEMMA DivFacts ==
  ASSUME NEW a \in Nat, NEW n \in Nat \ {0}
  PROVE  /\ a \div n \in Nat /\ a % n \in 0 .. n - 1
         /\ a = n * (a \div n) + (a % n)
  OBVIOUS

(* The cells of a grid of h rows of w columns, row by row. *)
LEMMA GridFacts ==
  ASSUME NEW w \in Nat \ {0}, NEW h \in Nat \ {0}, NEW y \in 0 .. h - 1
  PROVE  /\ y * w \in Nat /\ y * w <= w * (h - 1) /\ (y + 1) * w = y * w + w
         /\ w * (h - 1) \in Nat /\ w * h = w * (h - 1) + w /\ (h - 1) * w = w * (h - 1)
<1>1. w * y <= w * (h - 1)
  BY MulMono
<1> QED BY <1>1

-----------------------------------------------------------------------------
(* The grid *)

(* Rows and columns multiply to natural numbers. *)
LEMMA GridSize ==
  /\ WIDTH \in Nat \ {0} /\ HEIGHT \in Nat \ {0}
  /\ WIDTH * (HEIGHT - 1) \in Nat /\ WIDTH * HEIGHT = WIDTH * (HEIGHT - 1) + WIDTH
  /\ WIDTH * HEIGHT \in Nat
<1>1. WIDTH \in Nat \ {0} /\ HEIGHT \in Nat \ {0}
  BY SizeAssumption
<1>2. HEIGHT - 1 \in 0 .. HEIGHT - 1
  BY <1>1
<1>3. WIDTH * (HEIGHT - 1) \in Nat /\ WIDTH * HEIGHT = WIDTH * (HEIGHT - 1) + WIDTH
  BY ONLY <1>1, <1>2, GridFacts
<1>4. WIDTH * HEIGHT \in Nat
  BY <1>1, <1>3
<1> QED BY <1>1, <1>3, <1>4

(* Where a place of the grid is in the sequence of cells. *)
LEMMA Places ==
  ASSUME NEW x \in 0 .. WIDTH - 1, NEW y \in 0 .. HEIGHT - 1
  PROVE  /\ At(x, y) \in Index /\ At(0, y) \in Nat /\ At(x, y) = At(0, y) + x
         /\ y < HEIGHT - 1 => At(0, y + 1) = At(0, y) + WIDTH
         /\ y = HEIGHT - 1 => At(0, y) = WIDTH * (HEIGHT - 1)
         /\ At(0, y) <= WIDTH * (HEIGHT - 1)
<1>1. WIDTH \in Nat \ {0} /\ HEIGHT \in Nat \ {0} /\ y \in Nat /\ x \in Nat /\ x < WIDTH
  BY SizeAssumption
<1>2. /\ y * WIDTH \in Nat /\ y * WIDTH <= WIDTH * (HEIGHT - 1)
      /\ (y + 1) * WIDTH = y * WIDTH + WIDTH
      /\ WIDTH * (HEIGHT - 1) \in Nat /\ WIDTH * HEIGHT = WIDTH * (HEIGHT - 1) + WIDTH
      /\ (HEIGHT - 1) * WIDTH = WIDTH * (HEIGHT - 1)
  BY ONLY <1>1, GridFacts
<1>3. At(0, y) = y * WIDTH /\ At(x, y) = y * WIDTH + x /\ At(0, y + 1) = y * WIDTH + WIDTH
  BY <1>1, <1>2 DEF At
<1>4. At(x, y) \in Index
  BY <1>1, <1>2, <1>3 DEF Index
<1> QED BY <1>1, <1>2, <1>3, <1>4

(* The fields of a terminal. *)
LEMMA Fields ==
  ASSUME NEW t \in TerminalType
  PROVE  /\ t.x \in 0 .. WIDTH - 1 /\ t.y \in 0 .. HEIGHT - 1
         /\ t.x \in Nat /\ t.y \in Nat /\ t.x < WIDTH /\ t.y < HEIGHT
         /\ t.cells \in [Index -> Cell] /\ t.buf \in Seq(Chars) /\ t.prompt \in BOOLEAN
         /\ CaretIndex(t) \in Index /\ CaretIndex(t) \in Nat
         /\ CaretIndex(t) = At(0, t.y) + t.x /\ At(0, t.y) \in Nat
<1>1. /\ t.x \in 0 .. WIDTH - 1 /\ t.y \in 0 .. HEIGHT - 1
      /\ t.cells \in [Index -> Cell] /\ t.buf \in Seq(Chars) /\ t.prompt \in BOOLEAN
  BY DEF TerminalType
<1>2. At(t.x, t.y) \in Index /\ At(t.x, t.y) = At(0, t.y) + t.x /\ At(0, t.y) \in Nat
  BY <1>1, Places
<1> QED BY <1>1, <1>2, GridSize DEF CaretIndex, Index

(* The blank cell that clearing writes is a cell. *)
LEMMA EmptyCell == Empty \in Cell /\ Plain \in Color /\ Empty.ch = BLANK
BY CharAssumption, ColourAssumption DEF Empty, Cell, Plain, VGA_COLOR, Color

-----------------------------------------------------------------------------
(* What the functions of wm.c keep *)

(* The column changes. *)
LEMMA SetX ==
  ASSUME NEW t \in TerminalType, NEW x \in 0 .. WIDTH - 1
  PROVE  LET u == [t EXCEPT !.x = x]
         IN  /\ u \in TerminalType /\ u.x = x /\ u.y = t.y /\ u.cells = t.cells
             /\ u.buf = t.buf /\ u.prompt = t.prompt
BY DEF TerminalType

(* The row changes. *)
LEMMA SetY ==
  ASSUME NEW t \in TerminalType, NEW y \in 0 .. HEIGHT - 1
  PROVE  LET u == [t EXCEPT !.y = y]
         IN  /\ u \in TerminalType /\ u.x = t.x /\ u.y = y /\ u.cells = t.cells
             /\ u.buf = t.buf /\ u.prompt = t.prompt
BY DEF TerminalType

(* The cells change. *)
LEMMA SetCells ==
  ASSUME NEW t \in TerminalType, NEW cells \in [Index -> Cell]
  PROVE  LET u == [t EXCEPT !.cells = cells]
         IN  /\ u \in TerminalType /\ u.x = t.x /\ u.y = t.y /\ u.cells = cells
             /\ u.buf = t.buf /\ u.prompt = t.prompt
BY DEF TerminalType

(* The line changes. *)
LEMMA SetBuf ==
  ASSUME NEW t \in TerminalType, NEW buf \in Seq(Chars)
  PROVE  LET u == [t EXCEPT !.buf = buf]
         IN  /\ u \in TerminalType /\ u.x = t.x /\ u.y = t.y /\ u.cells = t.cells
             /\ u.buf = buf /\ u.prompt = t.prompt
BY DEF TerminalType

(* The prompt is shown or taken back. *)
LEMMA SetPrompt ==
  ASSUME NEW t \in TerminalType, NEW prompt \in BOOLEAN
  PROVE  LET u == [t EXCEPT !.prompt = prompt]
         IN  /\ u \in TerminalType /\ u.x = t.x /\ u.y = t.y /\ u.cells = t.cells
             /\ u.buf = t.buf /\ u.prompt = prompt
BY DEF TerminalType

(* A step on a terminal keeps its type, its line and its prompt. *)
Kept(t, u) == u \in TerminalType /\ u.buf = t.buf /\ u.prompt = t.prompt

(* A terminal at boot. *)
LEMMA InitTerm ==
  wm_init_term \in TerminalType /\ wm_init_term.buf = <<>> /\ wm_init_term.prompt = FALSE
BY GridSize, EmptyCell DEF wm_init_term, TerminalType

(* Clearing keeps the line and the prompt. *)
LEMMA ClearKept ==
  ASSUME NEW t \in TerminalType
  PROVE  Kept(t, term_clear(t))
<1> DEFINE cells == [i \in Index |-> Empty]
           a == [t EXCEPT !.cells = cells]
           b == [a EXCEPT !.x = 0]
           c == [b EXCEPT !.y = 0]
<1>1. cells \in [Index -> Cell] /\ 0 \in 0 .. WIDTH - 1 /\ 0 \in 0 .. HEIGHT - 1
  BY EmptyCell, GridSize
<1>2. term_clear(t) = c
  BY DEF term_clear
<1> HIDE DEF cells
<1>3. a \in TerminalType /\ a.buf = t.buf /\ a.prompt = t.prompt
  BY <1>1, SetCells
<1> HIDE DEF a
<1>4. b \in TerminalType /\ b.buf = a.buf /\ b.prompt = a.prompt
  BY <1>1, <1>3, SetX
<1> HIDE DEF b
<1>5. c \in TerminalType /\ c.buf = b.buf /\ c.prompt = b.prompt
  BY <1>1, <1>4, SetY
<1> QED BY <1>2, <1>3, <1>4, <1>5 DEF Kept

(* From t to u one cell changes. *)
CellPut(t, u, i, cell) ==
  /\ Kept(t, u) /\ u.x = t.x /\ u.y = t.y /\ u.cells[i] = cell
  /\ \A j \in Index \ {i} : u.cells[j] = t.cells[j]

(* A cell is written. *)
LEMMA WriteFacts ==
  ASSUME NEW t \in TerminalType, NEW i \in Index, NEW c \in Chars, NEW color \in Color
  PROVE  CellPut(t, Write(t, i, c, color), i, [ch |-> c, color |-> color])
<1> DEFINE cells == [t.cells EXCEPT ![i] = [ch |-> c, color |-> color]]
<1>1. t.cells \in [Index -> Cell] /\ [ch |-> c, color |-> color] \in Cell
  BY Fields DEF Cell
<1>2. /\ cells \in [Index -> Cell] /\ cells[i] = [ch |-> c, color |-> color]
      /\ \A j \in Index \ {i} : cells[j] = t.cells[j]
  BY <1>1
<1>3. Write(t, i, c, color) = [t EXCEPT !.cells = cells]
  BY DEF Write
<1> HIDE DEF cells
<1> QED BY <1>2, <1>3, SetCells DEF Kept, CellPut

(* Scrolling moves every cell a row up. *)
LEMMA ScrolledFacts ==
  ASSUME NEW cells \in [Index -> Cell]
  PROVE  /\ Scrolled(cells) \in [Index -> Cell]
         /\ \A i \in Index : i < WIDTH * (HEIGHT - 1) =>
              i + WIDTH \in Index /\ Scrolled(cells)[i] = cells[i + WIDTH]
<1>1. ASSUME NEW i \in Index, i < WIDTH * (HEIGHT - 1) PROVE i + WIDTH \in Index
  BY <1>1, GridSize DEF Index
<1> QED BY <1>1, EmptyCell DEF Scrolled

(* The cursor goes to column 0, and what is above it moves along when the  *)
(* terminal scrolls.                                                       *)
LEMMA NewlineFacts ==
  ASSUME NEW t \in TerminalType
  PROVE  LET u == Newline(t)
         IN  /\ Kept(t, u) /\ u.x = 0
             /\ t.y < HEIGHT - 1 => u.y = t.y + 1 /\ u.cells = t.cells
             /\ t.y = HEIGHT - 1 => u.y = t.y /\ u.cells = Scrolled(t.cells)
<1>1. Scrolled(t.cells) \in [Index -> Cell] /\ 0 \in 0 .. WIDTH - 1 /\ HEIGHT - 1 \in 0 .. HEIGHT - 1
  BY Fields, ScrolledFacts, GridSize
<1>2. CASE t.y = HEIGHT - 1
  <2> DEFINE a == [t EXCEPT !.cells = Scrolled(t.cells)]
             b == [a EXCEPT !.y = HEIGHT - 1]
             c == [b EXCEPT !.x = 0]
  <2>1. Newline(t) = c
    BY <1>2 DEF Newline, term_scroll
  <2>2. a \in TerminalType /\ a.cells = Scrolled(t.cells) /\ a.buf = t.buf /\ a.prompt = t.prompt
    BY <1>1, SetCells
  <2> HIDE DEF a
  <2>3. /\ b \in TerminalType /\ b.y = HEIGHT - 1 /\ b.cells = a.cells
        /\ b.buf = a.buf /\ b.prompt = a.prompt
    BY <1>1, <2>2, SetY
  <2> HIDE DEF b
  <2>4. /\ c \in TerminalType /\ c.x = 0 /\ c.y = b.y /\ c.cells = b.cells
        /\ c.buf = b.buf /\ c.prompt = b.prompt
    BY <1>1, <2>3, SetX
  <2> HIDE DEF c
  <2> QED BY <1>2, <2>1, <2>2, <2>3, <2>4, GridSize DEF Kept
<1>3. CASE t.y # HEIGHT - 1
  <2> DEFINE a == [t EXCEPT !.x = 0]
             b == [a EXCEPT !.y = t.y + 1]
  <2>1. Newline(t) = b
    BY <1>3 DEF Newline
  <2>2. a \in TerminalType /\ a.x = 0 /\ a.cells = t.cells /\ a.buf = t.buf /\ a.prompt = t.prompt
    BY <1>1, SetX
  <2>3. t.y + 1 \in 0 .. HEIGHT - 1
    BY <1>3, Fields, GridSize
  <2> HIDE DEF a
  <2>4. /\ b \in TerminalType /\ b.x = a.x /\ b.y = t.y + 1 /\ b.cells = a.cells
        /\ b.buf = a.buf /\ b.prompt = a.prompt
    BY <2>2, <2>3, SetY
  <2> HIDE DEF b
  <2> QED BY <1>3, <2>1, <2>2, <2>4 DEF Kept
<1> QED BY <1>2, <1>3

(* A character goes to the cursor's cell, and the cursor one further. *)
LEMMA PutFacts ==
  ASSUME NEW t \in TerminalType, NEW c \in Chars, NEW color \in Color
  PROVE  LET w == Write(t, CaretIndex(t), c, color)
             u == term_putchar(t, c, color)
         IN  /\ t.x = WIDTH - 1 => u = Newline(w)
             /\ t.x < WIDTH - 1 => /\ Kept(w, u) /\ u.x = t.x + 1 /\ u.y = t.y
                                   /\ u.cells = w.cells
<1> DEFINE w == Write(t, CaretIndex(t), c, color)
<1>1. CellPut(t, w, CaretIndex(t), [ch |-> c, color |-> color])
  <2>1. CaretIndex(t) \in Index
    BY Fields
  <2> QED BY <2>1, WriteFacts
<1>2. term_putchar(t, c, color) = IF t.x = WIDTH - 1 THEN Newline(w) ELSE [w EXCEPT !.x = w.x + 1]
  BY CharAssumption DEF term_putchar
<1> HIDE DEF w
<1>3. w \in TerminalType /\ w.x = t.x /\ w.y = t.y
  BY <1>1 DEF CellPut, Kept
<1>4. t.x < WIDTH - 1 => t.x + 1 \in 0 .. WIDTH - 1 /\ t.x # WIDTH - 1
  BY Fields, GridSize
<1> QED BY <1>2, <1>3, <1>4, SetX DEF Kept, w

(* A character, the newline too, keeps the line and the prompt. *)
LEMMA PutKept ==
  ASSUME NEW t \in TerminalType, NEW c \in Chars \cup {NL}, NEW color \in Color
  PROVE  Kept(t, term_putchar(t, c, color))
<1>1. CASE c = NL
  BY <1>1, NewlineFacts DEF term_putchar
<1>2. CASE c # NL
  <2> DEFINE w == Write(t, CaretIndex(t), c, color)
  <2>1. Kept(t, w)
    BY <1>2, Fields, WriteFacts DEF CellPut
  <2>2. Kept(w, Newline(w))
    BY <2>1, NewlineFacts DEF Kept
  <2>3. t.x < WIDTH - 1 \/ t.x = WIDTH - 1
    BY Fields, GridSize
  <2> QED BY <1>2, <2>1, <2>2, <2>3, PutFacts DEF Kept
<1> QED BY <1>1, <1>2

(* The cursor steps back and blanks the cell it comes to. *)
LEMMA BackspaceFacts ==
  ASSUME NEW t \in TerminalType
  PROVE  LET u == term_backspace(t)
         IN  /\ Kept(t, u)
             /\ CaretIndex(t) > 0 =>
                  /\ CaretIndex(u) = CaretIndex(t) - 1
                  /\ \A i \in Index \ {CaretIndex(u)} : u.cells[i] = t.cells[i]
<1> DEFINE b == IF t.x > 0 THEN [t EXCEPT !.x = @ - 1]
                ELSE [t EXCEPT !.x = WIDTH - 1, !.y = @ - 1]
           u == term_backspace(t)
<1>1. CASE t.x = 0 /\ t.y = 0
  <2>1. u = t
    BY <1>1 DEF term_backspace
  <2>2. CaretIndex(t) = 0
    BY <1>1, GridSize DEF CaretIndex, At
  <2> QED BY <2>1, <2>2 DEF Kept
<1>2. CASE ~(t.x = 0 /\ t.y = 0)
  <2>1. Kept(t, b) /\ CaretIndex(b) = CaretIndex(t) - 1 /\ b.cells = t.cells
    <3>1. CASE t.x > 0
      <4>1. t.x - 1 \in 0 .. WIDTH - 1
        <5>1. t.x \in 0 .. WIDTH - 1
          BY Fields
        <5> QED BY <3>1, <5>1, GridSize
      <4>2. Kept(t, b) /\ b.x = t.x - 1 /\ b.y = t.y /\ b.cells = t.cells
        BY <3>1, <4>1, SetX DEF Kept
      <4> HIDE DEF b
      <4>3. CaretIndex(b) = At(0, t.y) + (t.x - 1)
        BY <4>1, <4>2, Fields DEF Kept
      <4> QED BY <4>2, <4>3, Fields
    <3>2. CASE t.x = 0
      <4> DEFINE a == [t EXCEPT !.x = WIDTH - 1]
                 d == [a EXCEPT !.y = t.y - 1]
      <4>0. b = d
        BY <3>2
      <4>1. WIDTH - 1 \in 0 .. WIDTH - 1 /\ t.y - 1 \in 0 .. HEIGHT - 1 /\ t.y - 1 < HEIGHT - 1
        BY <1>2, <3>2, Fields, GridSize
      <4>2. Kept(t, a) /\ a.x = WIDTH - 1 /\ a.y = t.y /\ a.cells = t.cells
        BY <4>1, SetX DEF Kept
      <4> HIDE DEF a
      <4>3. Kept(a, d) /\ d.x = a.x /\ d.y = t.y - 1 /\ d.cells = a.cells
        BY <4>1, <4>2, SetY DEF Kept
      <4> HIDE DEF b, d
      <4>4. CaretIndex(d) = At(0, t.y - 1) + (WIDTH - 1)
        BY <4>2, <4>3, Fields DEF Kept
      <4>5. /\ At(0, (t.y - 1) + 1) = At(0, t.y - 1) + WIDTH /\ (t.y - 1) + 1 = t.y
            /\ At(0, t.y - 1) \in Nat
        <5>1. 0 \in 0 .. WIDTH - 1 /\ t.y \in Nat
          BY GridSize, Fields
        <5>2. At(0, (t.y - 1) + 1) = At(0, t.y - 1) + WIDTH /\ At(0, t.y - 1) \in Nat
          BY <4>1, <5>1, Places
        <5> QED BY <5>1, <5>2
      <4>6. CaretIndex(t) = At(0, t.y)
        BY <3>2, Fields
      <4> QED BY <4>0, <4>2, <4>3, <4>4, <4>5, <4>6, GridSize DEF Kept
    <3> QED BY <3>1, <3>2, Fields
  <2>2. u = [b EXCEPT !.cells[CaretIndex(b)].ch = BLANK]
    BY <1>2 DEF term_backspace
  <2> HIDE DEF b
  <2>3. b \in TerminalType /\ CaretIndex(b) \in Index /\ b.cells \in [Index -> Cell]
    BY <2>1, Fields DEF Kept
  <2> DEFINE cells == [b.cells EXCEPT ![CaretIndex(b)] = [@ EXCEPT !.ch = BLANK]]
  <2>4. cells \in [Index -> Cell] /\ \A i \in Index \ {CaretIndex(b)} : cells[i] = b.cells[i]
    <3>1. [b.cells[CaretIndex(b)] EXCEPT !.ch = BLANK] \in Cell
      BY <2>3, CharAssumption DEF Cell
    <3> QED BY <2>3, <3>1
  <2>5. u = [b EXCEPT !.cells = cells]
    BY <2>2
  <2> HIDE DEF cells
  <2>6. Kept(b, u) /\ u.x = b.x /\ u.y = b.y /\ u.cells = cells
    BY <2>3, <2>4, <2>5, SetCells DEF Kept
  <2>7. CaretIndex(u) = CaretIndex(b)
    BY <2>6 DEF CaretIndex
  <2> QED BY <2>1, <2>4, <2>6, <2>7 DEF Kept
<1> QED BY <1>1, <1>2

(* System call 9 changes one cell and leaves the cursor. *)
LEMMA PutAtFacts ==
  ASSUME NEW t \in TerminalType, NEW c \in Chars \cup {NL}, NEW color \in Color,
         NEW x \in 0 .. WIDTH - 1, NEW y \in 0 .. HEIGHT - 1
  PROVE  LET u == term_putchar_at(t, c, x, y, color)
         IN  /\ Kept(t, u) /\ u.x = t.x /\ u.y = t.y
             /\ \A i \in Index \ {At(x, y)} : u.cells[i] = t.cells[i]
<1>1. At(x, y) \in Index
  BY Places
<1>2. CASE c = NL
  BY <1>2 DEF term_putchar_at, Kept
<1>3. CASE c # NL
  <2>1. c \in Chars /\ term_putchar_at(t, c, x, y, color) = Write(t, At(x, y), c, color)
    BY <1>3 DEF term_putchar_at
  <2>2. CellPut(t, term_putchar_at(t, c, x, y, color), At(x, y), [ch |-> c, color |-> color])
    BY <1>1, <2>1, WriteFacts
  <2> HIDE DEF term_putchar_at
  <2> QED BY <2>2 DEF CellPut
<1> QED BY <1>2, <1>3

(* The picture of a terminal is a screenful of cells. *)
LEMMA PictureType ==
  ASSUME NEW t \in TerminalType
  PROVE  Picture(t) \in [Index -> Cell]
<1>1. ASSUME NEW cell \in Cell PROVE Inverted(cell) \in Cell
  BY DEF Cell, Color, Inverted, VGA_COLOR
<1> QED BY <1>1, Fields DEF Picture

-----------------------------------------------------------------------------
(* Text before the cursor *)

(* The beginning of a sequence. *)
LEMMA Beginning ==
  ASSUME NEW S, NEW s \in Seq(S), NEW n \in 0 .. Len(s)
  PROVE  /\ SubSeq(s, 1, n) \in Seq(S) /\ Len(SubSeq(s, 1, n)) = n
         /\ \A k \in 1 .. n : SubSeq(s, 1, n)[k] = s[k]
<1>1. n \in Nat /\ 1 \in Int /\ n \in Int
  OBVIOUS
<1>2. \A k \in 1 .. n : s[k] \in S
  BY ElementOfSeq
<1>3. /\ SubSeq(s, 1, n) \in Seq(S)
      /\ Len(SubSeq(s, 1, n)) = IF 1 <= n THEN n - 1 + 1 ELSE 0
      /\ \A k \in 1 .. n - 1 + 1 : SubSeq(s, 1, n)[k] = s[1 + k - 1]
  BY ONLY <1>1, <1>2, SubSeqProperties
<1> QED BY <1>1, <1>3

(* The cells of s stand right before the cursor. *)
Shows(t, s) ==
  /\ Len(s) <= CaretIndex(t)
  /\ \A k \in 1 .. Len(s) : t.cells[CaretIndex(t) - Len(s) + k - 1] = s[k]

(* After a character the cursor is one further, and the cells before it    *)
(* are where they were, or a row up when the terminal scrolled.            *)
LEMMA PutMoves ==
  ASSUME NEW t \in TerminalType, NEW c \in Chars, NEW color \in Color
  PROVE  LET w == Write(t, CaretIndex(t), c, color)
             u == term_putchar(t, c, color)
         IN  \E d \in {0, WIDTH} :
               /\ CaretIndex(u) = CaretIndex(t) + 1 - d
               /\ d = 0 \/ CaretIndex(u) = WIDTH * (HEIGHT - 1)
               /\ \A i \in Index : i < CaretIndex(u) =>
                    i + d \in Index /\ u.cells[i] = w.cells[i + d]
<1> DEFINE w == Write(t, CaretIndex(t), c, color)
           u == term_putchar(t, c, color)
<1>1. /\ t.x = WIDTH - 1 => u = Newline(w)
      /\ t.x < WIDTH - 1 => Kept(w, u) /\ u.x = t.x + 1 /\ u.y = t.y /\ u.cells = w.cells
  BY PutFacts
<1>2. CellPut(t, w, CaretIndex(t), [ch |-> c, color |-> color]) /\ Kept(t, u)
  BY Fields, WriteFacts, PutKept
<1> HIDE DEF w, u
<1>3. w \in TerminalType /\ w.x = t.x /\ w.y = t.y /\ u \in TerminalType
  BY <1>2 DEF CellPut, Kept
<1>4. /\ t.x \in Nat /\ t.x < WIDTH /\ t.y \in Nat /\ t.y < HEIGHT /\ At(0, t.y) \in Nat
      /\ CaretIndex(t) = At(0, t.y) + t.x /\ CaretIndex(u) = At(0, u.y) + u.x
      /\ WIDTH \in Nat /\ HEIGHT \in Nat
  BY <1>3, Fields, GridSize
<1>5. CASE t.x < WIDTH - 1
  <2>1. CaretIndex(u) = CaretIndex(t) + 1
    BY <1>1, <1>4, <1>5
  <2>2. \A i \in Index : i + 0 \in Index /\ u.cells[i] = w.cells[i + 0]
    BY <1>1, <1>5, GridSize DEF Index
  <2> QED BY <1>4, <2>1, <2>2 DEF u, w
<1>6. CASE t.x = WIDTH - 1 /\ t.y < HEIGHT - 1
  <2>1. u.x = 0 /\ u.y = t.y + 1 /\ u.cells = w.cells
    BY <1>1, <1>3, <1>6, NewlineFacts
  <2>2. At(0, t.y + 1) = At(0, t.y) + WIDTH
    BY <1>4, <1>6, Places
  <2>3. CaretIndex(u) = CaretIndex(t) + 1
    BY <1>4, <1>6, <2>1, <2>2
  <2>4. \A i \in Index : i + 0 \in Index /\ u.cells[i] = w.cells[i + 0]
    BY <2>1, GridSize DEF Index
  <2> QED BY <1>4, <2>3, <2>4 DEF u, w
<1>7. CASE t.x = WIDTH - 1 /\ t.y = HEIGHT - 1
  <2>1. u.x = 0 /\ u.y = t.y /\ u.cells = Scrolled(w.cells)
    BY <1>1, <1>3, <1>7, NewlineFacts
  <2>2. At(0, t.y) = WIDTH * (HEIGHT - 1)
    BY <1>4, <1>7, Places
  <2>3. CaretIndex(u) = CaretIndex(t) + 1 - WIDTH /\ CaretIndex(u) = WIDTH * (HEIGHT - 1)
    BY <1>4, <1>7, <2>1, <2>2
  <2>4. w.cells \in [Index -> Cell]
    BY <1>3, Fields
  <2>5. \A i \in Index : i < CaretIndex(u) => i + WIDTH \in Index /\ u.cells[i] = w.cells[i + WIDTH]
    BY <2>1, <2>3, <2>4, ScrolledFacts
  <2> QED BY <2>3, <2>5 DEF u, w
<1> QED BY <1>4, <1>5, <1>6, <1>7

(* What is printed stands before the cursor, as long as it leaves the last *)
(* row to the cursor.                                                      *)
LEMMA PutShows ==
  ASSUME NEW t \in TerminalType, NEW s \in Seq(Cell), NEW c \in Chars, NEW color \in Color,
         Shows(t, s), Len(s) + 1 <= WIDTH * (HEIGHT - 1)
  PROVE  Shows(term_putchar(t, c, color), Append(s, [ch |-> c, color |-> color]))
<1> DEFINE cell == [ch |-> c, color |-> color]
           w == Write(t, CaretIndex(t), c, color)
           u == term_putchar(t, c, color)
           n == Len(s)
           C == CaretIndex(t)
<1>1. CellPut(t, w, C, cell)
  BY Fields, WriteFacts
<1>2. PICK d \in {0, WIDTH} :
        /\ CaretIndex(u) = C + 1 - d
        /\ d = 0 \/ CaretIndex(u) = WIDTH * (HEIGHT - 1)
        /\ \A i \in Index : i < CaretIndex(u) => i + d \in Index /\ u.cells[i] = w.cells[i + d]
  BY PutMoves
<1>3. /\ C \in Nat /\ C \in Index /\ n \in Nat /\ d \in Nat /\ n <= C
      /\ n + 1 <= WIDTH * (HEIGHT - 1) /\ WIDTH * (HEIGHT - 1) \in Nat
  BY Fields, GridSize DEF Shows
<1>4. /\ Len(Append(s, cell)) = n + 1 /\ Append(s, cell)[n + 1] = cell
      /\ \A k \in 1 .. n : Append(s, cell)[k] = s[k]
  BY DEF Cell
<1>5. w.cells[C] = cell /\ \A k \in 1 .. n : C - n + k - 1 \in Index /\ w.cells[C - n + k - 1] = s[k]
  <2>1. \A k \in 1 .. n : C - n + k - 1 \in Index \ {C}
    BY <1>3, GridSize DEF Index
  <2> QED BY <1>1, <2>1 DEF CellPut, Shows
<1> HIDE DEF w, u, cell, C, n
<1>6. n + 1 <= CaretIndex(u)
  BY <1>2, <1>3
<1>7. ASSUME NEW k \in 1 .. n + 1
      PROVE  u.cells[CaretIndex(u) - (n + 1) + k - 1] = Append(s, cell)[k]
  <2> DEFINE i == CaretIndex(u) - (n + 1) + k - 1
  <2>1. i \in Nat /\ i < CaretIndex(u) /\ i + d = C - n + k - 1
    BY <1>2, <1>3, <1>6
  <2>2. i \in Index
    BY <1>2, <1>3, <2>1, GridSize DEF Index
  <2>3. u.cells[i] = w.cells[C - n + k - 1]
    BY <1>2, <2>1, <2>2
  <2> HIDE DEF i
  <2>4. CASE k = n + 1
    <3>1. C - n + k - 1 = C
      BY <1>3, <2>4
    <3> QED BY <1>4, <1>5, <2>3, <2>4, <3>1 DEF i
  <2>5. CASE k # n + 1
    <3>1. k \in 1 .. n
      BY <1>3, <2>5
    <3> QED BY <1>4, <1>5, <2>3, <3>1 DEF i
  <2> QED BY <2>4, <2>5
<1> QED BY <1>4, <1>6, <1>7 DEF Shows, u, cell

(* Backspace takes the last cell of what stands before the cursor. *)
LEMMA BackspaceShows ==
  ASSUME NEW t \in TerminalType, NEW s \in Seq(Cell), Shows(t, s), s # <<>>
  PROVE  Shows(term_backspace(t), SubSeq(s, 1, Len(s) - 1))
<1> DEFINE u == term_backspace(t)
           n == Len(s)
           C == CaretIndex(t)
<1>1. n \in Nat \ {0}
  BY EmptySeq
<1>2. C \in Nat /\ C \in Index /\ n <= C
  BY Fields DEF Shows
<1>3. CaretIndex(u) = C - 1 /\ \A i \in Index \ {C - 1} : u.cells[i] = t.cells[i]
  BY <1>1, <1>2, BackspaceFacts
<1>4. Len(SubSeq(s, 1, n - 1)) = n - 1 /\ \A k \in 1 .. n - 1 : SubSeq(s, 1, n - 1)[k] = s[k]
  <2>1. n - 1 \in 0 .. n
    BY <1>1
  <2> QED BY <2>1, Beginning
<1> HIDE DEF u
<1>5. ASSUME NEW k \in 1 .. n - 1
      PROVE  u.cells[(C - 1) - (n - 1) + k - 1] = s[k]
  <2>1. C - n + k - 1 \in Index \ {C - 1} /\ (C - 1) - (n - 1) + k - 1 = C - n + k - 1
    BY <1>1, <1>2, GridSize DEF Index
  <2>2. t.cells[C - n + k - 1] = s[k]
    BY <1>1 DEF Shows
  <2> QED BY <1>3, <2>1, <2>2
<1> QED BY <1>1, <1>2, <1>3, <1>4, <1>5 DEF Shows, u

(* The prompt and a line of the buffer, as cells. *)
LEMMA LineFacts ==
  ASSUME NEW t \in TerminalType
  PROVE  /\ Coloured(t.buf, Input) \in Seq(Cell) /\ Len(Coloured(t.buf, Input)) = Len(t.buf)
         /\ Line(t) \in Seq(Cell) /\ Len(Line(t)) = Len(PROMPT) + Len(t.buf)
         /\ \A k \in 1 .. Len(PROMPT) : Line(t)[k] = PROMPT[k]
         /\ \A k \in 1 .. Len(t.buf) :
              Line(t)[Len(PROMPT) + k] = [ch |-> t.buf[k], color |-> Input]
<1> DEFINE b == Coloured(t.buf, Input)
<1>1. t.buf \in Seq(Chars) /\ PROMPT \in Seq(Cell) /\ Input \in Color
  BY Fields, LineAssumption, EmptyCell DEF Input
<1>2. Len(t.buf) \in Nat /\ DOMAIN t.buf = 1 .. Len(t.buf) /\ Len(PROMPT) \in Nat
  BY <1>1
<1>3. b \in Seq(Cell) /\ Len(b) = Len(t.buf)
      /\ \A k \in 1 .. Len(t.buf) : b[k] = [ch |-> t.buf[k], color |-> Input]
  BY <1>1, <1>2 DEF Coloured, Cell
<1> HIDE DEF b
<1>4. /\ PROMPT \o b \in Seq(Cell) /\ Len(PROMPT \o b) = Len(PROMPT) + Len(b)
      /\ \A k \in 1 .. Len(PROMPT) + Len(b) :
           (PROMPT \o b)[k] = IF k <= Len(PROMPT) THEN PROMPT[k] ELSE b[k - Len(PROMPT)]
  BY ONLY <1>1, <1>3, ConcatProperties
<1>5. Line(t) = PROMPT \o b
  BY DEF Line, b
<1>6. ASSUME NEW k \in 1 .. Len(PROMPT) PROVE Line(t)[k] = PROMPT[k]
  BY <1>2, <1>3, <1>4, <1>5
<1>7. ASSUME NEW k \in 1 .. Len(t.buf) PROVE Line(t)[Len(PROMPT) + k] = b[k]
  <2>1. Len(PROMPT) + k \in 1 .. Len(PROMPT) + Len(b) /\ ~(Len(PROMPT) + k <= Len(PROMPT))
        /\ (Len(PROMPT) + k) - Len(PROMPT) = k
    BY <1>2, <1>3
  <2> QED BY <1>4, <1>5, <2>1
<1> QED BY <1>3, <1>4, <1>5, <1>6, <1>7 DEF b

(* A character more, or one less, of the line. *)
LEMMA LineGrows ==
  ASSUME NEW t \in TerminalType, NEW u \in TerminalType, NEW c \in Chars,
         u.buf = Append(t.buf, c)
  PROVE  Line(u) = Append(Line(t), [ch |-> c, color |-> Input])
<1> DEFINE cell == [ch |-> c, color |-> Input]
           p == Len(PROMPT)
           m == Len(t.buf)
<1>1. cell \in Cell /\ t.buf \in Seq(Chars) /\ PROMPT \in Seq(Cell)
  BY Fields, EmptyCell, LineAssumption DEF Cell, Input
<1>2. p \in Nat /\ m \in Nat /\ Len(u.buf) = m + 1 /\ u.buf[m + 1] = c
      /\ \A k \in 1 .. m : u.buf[k] = t.buf[k]
  BY <1>1, AppendProperties
<1>3. /\ Line(t) \in Seq(Cell) /\ Len(Line(t)) = p + m
      /\ \A k \in 1 .. p : Line(t)[k] = PROMPT[k]
      /\ \A k \in 1 .. m : Line(t)[p + k] = [ch |-> t.buf[k], color |-> Input]
  BY LineFacts
<1>4. /\ Line(u) \in Seq(Cell) /\ Len(Line(u)) = p + (m + 1)
      /\ \A k \in 1 .. p : Line(u)[k] = PROMPT[k]
      /\ \A k \in 1 .. m + 1 : Line(u)[p + k] = [ch |-> u.buf[k], color |-> Input]
  BY <1>2, LineFacts
<1> HIDE DEF cell, p, m
<1>5. /\ Append(Line(t), cell) \in Seq(Cell) /\ Len(Append(Line(t), cell)) = p + m + 1
      /\ Append(Line(t), cell)[p + m + 1] = cell
      /\ \A k \in 1 .. p + m : Append(Line(t), cell)[k] = Line(t)[k]
  BY <1>1, <1>3, AppendProperties
<1>6. ASSUME NEW k \in 1 .. p + m + 1 PROVE Line(u)[k] = Append(Line(t), cell)[k]
  <2>1. CASE k \in 1 .. p
    <3>1. k \in 1 .. p + m
      BY <1>2, <2>1
    <3> QED BY <1>3, <1>4, <1>5, <2>1, <3>1
  <2>2. CASE k \in p + 1 .. p + m
    <3> DEFINE j == k - p
    <3>1. j \in 1 .. m /\ j \in 1 .. m + 1 /\ k = p + j /\ k \in 1 .. p + m
      BY <1>2, <2>2
    <3> HIDE DEF j
    <3> QED BY <1>2, <1>3, <1>4, <1>5, <3>1
  <2>3. CASE k = p + m + 1
    <3>1. m + 1 \in 1 .. m + 1 /\ p + (m + 1) = k
      BY <1>2, <2>3
    <3> QED BY <1>2, <1>4, <1>5, <2>3, <3>1 DEF cell
  <2>4. k \in 1 .. p \/ k \in p + 1 .. p + m \/ k = p + m + 1
    BY <1>2
  <2> QED BY <2>1, <2>2, <2>3, <2>4
<1>7. Len(Line(u)) = Len(Append(Line(t), cell)) /\ Len(Line(u)) = p + m + 1
  BY <1>2, <1>4, <1>5
<1>8. Line(u) = Append(Line(t), cell)
  BY <1>4, <1>5, <1>6, <1>7, SeqEqual
<1> QED BY <1>8 DEF cell

(* One character less. *)
LEMMA LineShrinks ==
  ASSUME NEW t \in TerminalType, NEW u \in TerminalType, t.buf # <<>>,
         u.buf = SubSeq(t.buf, 1, Len(t.buf) - 1)
  PROVE  /\ Line(t) # <<>> /\ Line(u) = SubSeq(Line(t), 1, Len(Line(t)) - 1)
<1> DEFINE p == Len(PROMPT)
           m == Len(t.buf)
           s == SubSeq(Line(t), 1, Len(Line(t)) - 1)
<1>1. t.buf \in Seq(Chars) /\ PROMPT \in Seq(Cell)
  BY Fields, LineAssumption
<1>2. p \in Nat /\ m \in Nat \ {0} /\ m - 1 \in 0 .. m
  BY <1>1, EmptySeq
<1>3. Len(u.buf) = m - 1 /\ \A k \in 1 .. m - 1 : u.buf[k] = t.buf[k]
  BY <1>1, <1>2, Beginning
<1>4. /\ Line(t) \in Seq(Cell) /\ Len(Line(t)) = p + m
      /\ \A k \in 1 .. p : Line(t)[k] = PROMPT[k]
      /\ \A k \in 1 .. m : Line(t)[p + k] = [ch |-> t.buf[k], color |-> Input]
  BY LineFacts
<1>5. /\ Line(u) \in Seq(Cell) /\ Len(Line(u)) = p + (m - 1)
      /\ \A k \in 1 .. p : Line(u)[k] = PROMPT[k]
      /\ \A k \in 1 .. m - 1 : Line(u)[p + k] = [ch |-> u.buf[k], color |-> Input]
  BY <1>3, LineFacts
<1> HIDE DEF p, m
<1>6. /\ s \in Seq(Cell) /\ Len(s) = p + m - 1
      /\ \A k \in 1 .. p + m - 1 : s[k] = Line(t)[k]
  <2>1. p + m - 1 \in 0 .. Len(Line(t)) /\ Len(Line(t)) - 1 = p + m - 1
    BY <1>2, <1>4
  <2> QED BY <1>4, <2>1, Beginning
<1> HIDE DEF s
<1>7. ASSUME NEW k \in 1 .. p + m - 1 PROVE Line(u)[k] = s[k]
  <2>1. CASE k \in 1 .. p
    BY <1>4, <1>5, <1>6, <2>1
  <2>2. CASE k \in p + 1 .. p + m - 1
    <3> DEFINE j == k - p
    <3>1. j \in 1 .. m /\ j \in 1 .. m - 1 /\ k = p + j
      BY <1>2, <2>2
    <3> HIDE DEF j
    <3> QED BY <1>3, <1>4, <1>5, <1>6, <3>1
  <2> QED BY <1>2, <2>1, <2>2
<1>8. Len(Line(u)) = Len(s) /\ Len(Line(u)) = p + m - 1
  BY <1>2, <1>5, <1>6
<1>9. Line(u) = s
  BY <1>5, <1>6, <1>7, <1>8, SeqEqual
<1>10. Line(t) # <<>>
  BY <1>2, <1>4
<1> QED BY <1>9, <1>10 DEF s

-----------------------------------------------------------------------------
(* The inductive invariant *)

(* Terminals that nobody types at: their line is on the screen, or there is none.   *)
OthersInv ==
  \A i \in Terms \ {current_term} :
     IF terms[i].prompt THEN ShowsLine(terms[i]) ELSE terms[i].buf = <<>>

(* The current terminal, by what the shell is doing: it waits behind its    *)
(* prompt and line; it is about to print the prompt on an empty line, or    *)
(* has printed n cells of it; or the prompt is taken back.                  *)
CurrentInv ==
  /\ mode = "wait" => wm_current.prompt /\ ShowsLine(wm_current)
  /\ mode \in {"top", "user"} \/ (mode = "print" /\ next \in {"boot", "prompted", "written"})
     => ~wm_current.prompt
  /\ mode = "top" \/ (mode = "print" /\ next \in {"boot", "prompted"}) => wm_current.buf = <<>>
  /\ mode = "print" /\ next = "prompted" =>
       \E n \in 0 .. Len(PROMPT) :
          /\ out = SubSeq(PROMPT, n + 1, Len(PROMPT))
          /\ Shows(wm_current, SubSeq(PROMPT, 1, n))

ShellInv == TypeOK /\ OthersInv /\ CurrentInv /\ ScreenShowsTerminal

-----------------------------------------------------------------------------
(* Types *)

(* The current terminal. *)
LEMMA CurrentFacts ==
  ASSUME TypeOK
  PROVE  /\ wm_current \in TerminalType /\ current_term \in Terms
         /\ Len(wm_current.buf) \in Nat /\ Len(wm_current.buf) < TERM_BUF_SIZE
         /\ TERM_BUF_SIZE \in Nat \ {0}
         /\ wm_current.prompt \in BOOLEAN /\ wm_current.buf \in Seq(Chars)
<1>1. wm_current \in TerminalType /\ current_term \in Terms /\ Len(wm_current.buf) < TERM_BUF_SIZE
  BY DEF TypeOK, wm_current
<1>2. wm_current.buf \in Seq(Chars) /\ wm_current.prompt \in BOOLEAN
  BY <1>1, Fields
<1> QED BY <1>1, <1>2, LenProperties, LineAssumption

(* The current terminal becomes t. *)
LEMMA CurrentStep ==
  ASSUME TypeOK, NEW t \in TerminalType, Len(t.buf) < TERM_BUF_SIZE, Current(t)
  PROVE  /\ terms' \in [Terms -> TerminalType]
         /\ \A i \in Terms : Len(terms'[i].buf) < TERM_BUF_SIZE
         /\ terms'[current_term] = t /\ \A i \in Terms \ {current_term} : terms'[i] = terms[i]
<1>1. terms \in [Terms -> TerminalType] /\ current_term \in Terms
      /\ \A i \in Terms : Len(terms[i].buf) < TERM_BUF_SIZE
  BY DEF TypeOK
<1>2. terms' = [terms EXCEPT ![current_term] = t]
  BY DEF Current
<1>3. terms' \in [Terms -> TerminalType] /\ terms'[current_term] = t
      /\ \A i \in Terms \ {current_term} : terms'[i] = terms[i]
  BY <1>1, <1>2
<1>4. ASSUME NEW i \in Terms PROVE Len(terms'[i].buf) < TERM_BUF_SIZE
  <2>1. CASE i = current_term
    BY <1>3, <2>1
  <2>2. CASE i # current_term
    BY <1>1, <1>3, <2>2
  <2> QED BY <2>1, <2>2
<1> QED BY <1>3, <1>4

(* A key typed at t, and one erased. *)
LEMMA TypedTerm ==
  ASSUME NEW t \in TerminalType, NEW c \in Chars
  PROVE  LET a == term_putchar(t, c, Input)
             u == [a EXCEPT !.buf = Append(@, c)]
         IN  /\ u \in TerminalType /\ u.buf = Append(t.buf, c) /\ u.prompt = t.prompt
             /\ CaretIndex(u) = CaretIndex(a) /\ u.cells = a.cells
<1> DEFINE a == term_putchar(t, c, Input)
           u == [a EXCEPT !.buf = Append(a.buf, c)]
<1>1. a \in TerminalType /\ a.buf = t.buf /\ a.prompt = t.prompt
  BY PutKept, EmptyCell DEF Kept, Input
<1> HIDE DEF a
<1>2. Append(a.buf, c) \in Seq(Chars)
  BY <1>1, Fields, AppendProperties
<1>3. /\ u \in TerminalType /\ u.x = a.x /\ u.y = a.y /\ u.cells = a.cells
      /\ u.buf = Append(a.buf, c) /\ u.prompt = a.prompt
  BY <1>1, <1>2, SetBuf
<1> HIDE DEF u
<1>4. /\ u \in TerminalType /\ u.buf = Append(t.buf, c) /\ u.prompt = t.prompt
      /\ CaretIndex(u) = CaretIndex(a) /\ u.cells = a.cells
  BY <1>1, <1>3 DEF CaretIndex
<1> QED BY <1>4 DEF u, a

(* A character erased from the line of t. *)
LEMMA ErasedTerm ==
  ASSUME NEW t \in TerminalType, t.buf # <<>>
  PROVE  LET a == term_backspace(t)
             u == [a EXCEPT !.buf = SubSeq(@, 1, Len(@) - 1)]
         IN  /\ u \in TerminalType /\ u.buf = SubSeq(t.buf, 1, Len(t.buf) - 1)
             /\ Len(u.buf) = Len(t.buf) - 1 /\ u.prompt = t.prompt
             /\ CaretIndex(u) = CaretIndex(a) /\ u.cells = a.cells
<1> DEFINE a == term_backspace(t)
           front == SubSeq(a.buf, 1, Len(a.buf) - 1)
           u == [a EXCEPT !.buf = front]
<1>1. a \in TerminalType /\ a.buf = t.buf /\ a.prompt = t.prompt
  BY BackspaceFacts DEF Kept
<1> HIDE DEF a
<1>2. front \in Seq(Chars) /\ Len(front) = Len(t.buf) - 1
  <2>1. t.buf \in Seq(Chars)
    BY Fields
  <2>2. Len(t.buf) - 1 \in 0 .. Len(t.buf)
    BY <2>1, EmptySeq
  <2> QED BY <1>1, <2>1, <2>2, Beginning
<1>3. front = SubSeq(t.buf, 1, Len(t.buf) - 1)
  BY <1>1
<1> HIDE DEF front
<1>4. /\ u \in TerminalType /\ u.x = a.x /\ u.y = a.y /\ u.cells = a.cells
      /\ u.buf = front /\ u.prompt = a.prompt
  BY <1>1, <1>2, SetBuf
<1> HIDE DEF u
<1>5. /\ u \in TerminalType /\ u.buf = SubSeq(t.buf, 1, Len(t.buf) - 1)
      /\ Len(u.buf) = Len(t.buf) - 1 /\ u.prompt = t.prompt
      /\ CaretIndex(u) = CaretIndex(a) /\ u.cells = a.cells
  BY <1>1, <1>2, <1>3, <1>4 DEF CaretIndex
<1> QED BY <1>5 DEF u, a, front

(* System call 10 moves the cursor only. *)
LEMMA SetXY ==
  ASSUME NEW t \in TerminalType, NEW x \in 0 .. WIDTH - 1, NEW y \in 0 .. HEIGHT - 1
  PROVE  LET u == [t EXCEPT !.x = x, !.y = y]
         IN  Kept(t, u) /\ u.x = x /\ u.y = y /\ u.cells = t.cells
<1> DEFINE a == [t EXCEPT !.x = x]
           u == [a EXCEPT !.y = y]
<1>1. Kept(t, a) /\ a.x = x /\ a.y = t.y /\ a.cells = t.cells
  BY SetX DEF Kept
<1>2. u = [t EXCEPT !.x = x, !.y = y]
  OBVIOUS
<1> HIDE DEF a
<1>3. Kept(a, u) /\ u.x = a.x /\ u.y = y /\ u.cells = a.cells
  BY <1>1, SetY DEF Kept
<1> HIDE DEF u
<1> QED BY <1>1, <1>2, <1>3 DEF Kept

(* The end of Enter empties the line and takes the prompt back. *)
LEMMA LineDropped ==
  ASSUME NEW t \in TerminalType
  PROVE  LET u == [t EXCEPT !.buf = <<>>, !.prompt = FALSE]
         IN  u \in TerminalType /\ u.buf = <<>> /\ u.prompt = FALSE /\ Len(u.buf) = 0
<1> DEFINE a == [t EXCEPT !.buf = <<>>]
           u == [a EXCEPT !.prompt = FALSE]
<1>1. a \in TerminalType /\ a.buf = <<>>
  BY SetBuf, EmptySeq
<1>2. u = [t EXCEPT !.buf = <<>>, !.prompt = FALSE]
  OBVIOUS
<1> HIDE DEF a
<1>3. u \in TerminalType /\ u.buf = a.buf /\ u.prompt = FALSE
  BY <1>1, SetPrompt
<1> HIDE DEF u
<1> QED BY <1>1, <1>2, <1>3, EmptySeq

(* What can be left to print. *)
LEMMA Printable ==
  /\ <<>> \in ColouredText /\ Messages \subseteq ColouredText /\ PROMPT \in ColouredText
  /\ \A text \in Texts : Coloured(text, Plain) \in ColouredText
  /\ \A text \in Messages : Newlined \o text \in ColouredText
  /\ \A text \in ColouredText : text # <<>> =>
       /\ Head(text).ch \in Chars \cup {NL} /\ Head(text).color \in Color
       /\ Tail(text) \in ColouredText
<1> DEFINE C == [ch : Chars \cup {NL}, color : Color]
<1>1. Cell \subseteq C
  BY DEF Cell
<1>2. <<>> \in ColouredText /\ Messages \subseteq ColouredText /\ PROMPT \in ColouredText
  BY <1>1, TextAssumption, LineAssumption, SeqMonotonic, EmptySeq DEF ColouredText
<1>3. ASSUME NEW text \in Texts PROVE Coloured(text, Plain) \in ColouredText
  <2>1. text \in Seq(Chars \cup {NL})
    BY TextAssumption
  <2>2. Len(text) \in Nat /\ DOMAIN text = 1 .. Len(text)
    BY <2>1
  <2>3. \A k \in 1 .. Len(text) : [ch |-> text[k], color |-> Plain] \in C
    BY <2>1, EmptyCell
  <2> QED BY <2>2, <2>3 DEF Coloured, ColouredText
<1>4. ASSUME NEW text \in Messages PROVE Newlined \o text \in ColouredText
  <2>1. [ch |-> NL, color |-> Plain] \in C /\ text \in Seq(C)
    BY TextAssumption, EmptyCell DEF ColouredText
  <2>2. Newlined \in Seq(C)
    BY <2>1 DEF Newlined
  <2> QED BY <2>1, <2>2, ConcatProperties DEF ColouredText
<1>5. ASSUME NEW text \in ColouredText, text # <<>>
      PROVE  /\ Head(text).ch \in Chars \cup {NL} /\ Head(text).color \in Color
             /\ Tail(text) \in ColouredText
  <2>1. Head(text) \in C /\ Tail(text) \in Seq(C)
    BY <1>5, HeadTailProperties DEF ColouredText
  <2> QED BY <2>1 DEF ColouredText
<1> QED BY <1>2, <1>3, <1>4, <1>5

(* The tick at which a sleep ends is a number. *)
LEMMA TargetType ==
  ASSUME NEW now \in Nat, NEW ms \in Delays
  PROVE  Target(now, ms) \in Nat
<1> DEFINE a == (pit_hz \div SECOND) * ms
           b == (((pit_hz % SECOND) * ms) % TICKS) \div SECOND
<1>1. ms \in Nat /\ pit_hz \in Nat /\ SECOND \in Nat \ {0} /\ TICKS \in Nat \ {0}
  BY TimeAssumption
<1>2. pit_hz \div SECOND \in Nat /\ pit_hz % SECOND \in Nat
  <2>1. pit_hz \div SECOND \in Nat /\ pit_hz % SECOND \in 0 .. SECOND - 1
    BY <1>1, DivFacts
  <2> QED BY <1>1, <2>1
<1>3. a \in Nat /\ (pit_hz % SECOND) * ms \in Nat
  <2> HIDE DEF a
  <2>1. \A m, n \in Nat : m * n \in Nat
    OBVIOUS
  <2> QED BY ONLY <1>1, <1>2, <2>1 DEF a
<1>4. ((pit_hz % SECOND) * ms) % TICKS \in Nat
  BY <1>1, <1>3, DivFacts
<1>5. b \in Nat
  BY <1>1, <1>4, DivFacts
<1> HIDE DEF a, b
<1>6. (now + a + b) % TICKS \in Nat
  <2>1. now + a + b \in Nat
    BY <1>3, <1>5
  <2> QED BY <1>1, <2>1, DivFacts
<1> QED BY <1>6 DEF Target, a, b

(* A row is copied to the screen. *)
LEMMA RowType ==
  ASSUME NEW t \in TerminalType, NEW screen \in [Index -> Cell], NEW y
  PROVE  wm_blit_row(screen, t, y) \in [Index -> Cell]
BY PictureType DEF wm_blit_row

(* Each action keeps the types. *)
LEMMA TypeStep == TypeOK /\ [Next]_vars => TypeOK'
<1> SUFFICES ASSUME TypeOK, [Next]_vars PROVE TypeOK'
  OBVIOUS
<1> DEFINE w == wm_current
           Rest == /\ current_term' \in Terms /\ vga' \in [Index -> Cell]
                   /\ mode' \in Modes /\ out' \in ColouredText
                   /\ next' \in {"boot", "prompted", "executed", "written", "fault"}
                   /\ ticks' \in Nat /\ target' \in Nat /\ keys' \in Nat
<1>1. /\ w \in TerminalType /\ current_term \in Terms /\ w.prompt \in BOOLEAN
      /\ Len(w.buf) \in Nat /\ Len(w.buf) < TERM_BUF_SIZE /\ TERM_BUF_SIZE \in Nat \ {0}
  BY CurrentFacts
<1>2. /\ \A i \in Terms : terms[i] \in TerminalType
      /\ current_term \in Terms /\ vga \in [Index -> Cell]
      /\ mode \in Modes /\ out \in ColouredText
      /\ next \in {"boot", "prompted", "executed", "written", "fault"}
      /\ ticks \in Nat /\ target \in Nat /\ keys \in Nat
  BY DEF TypeOK
<1>3. \A t \in TerminalType : wm_blit(t) \in [Index -> Cell]
  BY PictureType DEF wm_blit
<1>4. ASSUME NEW t \in TerminalType, Len(t.buf) < TERM_BUF_SIZE, Current(t), Rest PROVE TypeOK'
  BY <1>4, CurrentStep DEF TypeOK
<1>5. ASSUME terms' = terms, Rest PROVE TypeOK'
  BY <1>5 DEF TypeOK
<1>6. Input \in Color /\ NL \in Chars \cup {NL} /\ Typed \subseteq Chars
  BY EmptyCell, TextAssumption DEF Input
<1>7. Kept(w, term_putchar(w, NL, Input))
  BY <1>1, <1>6, PutKept
<1> HIDE DEF w
<1>8. CASE PutChar
  <2> DEFINE t == term_putchar(w, Head(out).ch, Head(out).color)
  <2>1. Head(out).ch \in Chars \cup {NL} /\ Head(out).color \in Color /\ Tail(out) \in ColouredText
    BY <1>2, <1>8, Printable DEF PutChar
  <2>2. Kept(w, t)
    BY <1>1, <2>1, PutKept
  <2>3. Current(t) /\ Rest
    BY <1>2, <1>8, <2>1 DEF PutChar, timeVars, w
  <2> HIDE DEF t, Rest
  <2> QED BY <1>1, <1>4, <2>2, <2>3 DEF Kept
<1>9. CASE Booted \/ Written \/ Faulted
  BY <1>1, <1>2, <1>3, <1>5, <1>9
     DEF Booted, Written, Faulted, Modes, termVars, printVars, timeVars, w
<1>10. CASE shell_run \/ fault_handler
  <2>1. Rest /\ terms' = terms
    BY <1>2, <1>10, Printable
       DEF shell_run, fault_handler, Prints, Modes, termVars, printVars, timeVars
  <2> HIDE DEF Rest
  <2> QED BY <1>5, <2>1
<1>11. CASE Prompted
  <2> DEFINE t == [w EXCEPT !.prompt = TRUE]
  <2>1. t \in TerminalType /\ t.buf = w.buf
    BY <1>1, SetPrompt
  <2>2. Current(t) /\ Rest
    BY <1>1, <1>2, <1>3, <1>11 DEF Prompted, Modes, printVars, timeVars, w
  <2> HIDE DEF t, Rest
  <2> QED BY <1>1, <1>4, <2>1, <2>2
<1>12. ASSUME NEW i \in Terms, switch_workspace(i) PROVE TypeOK'
  <2>1. Rest /\ terms' = terms
    BY <1>2, <1>3, <1>12, Printable
       DEF switch_workspace, Key, Prints, Modes, printVars, timeVars
  <2> HIDE DEF Rest
  <2> QED BY <1>5, <2>1
<1>13. ASSUME NEW t \in TerminalType, Len(t.buf) < TERM_BUF_SIZE, Shown(t), Key \/ Call,
              UNCHANGED <<current_term, mode, printVars>>
       PROVE  TypeOK'
  <2>1. Current(t) /\ Rest
    BY <1>2, <1>3, <1>13 DEF Shown, Key, Call, printVars, timeVars
  <2> HIDE DEF Rest
  <2> QED BY <1>4, <1>13, <2>1
<1>14. ASSUME NEW c \in Typed, Type(c) PROVE TypeOK'
  <2> DEFINE u == [term_putchar(w, c, Input) EXCEPT !.buf = Append(@, c)]
             t == IF Len(w.buf) < TERM_BUF_SIZE - 1 THEN u ELSE w
  <2>1. u \in TerminalType /\ u.buf = Append(w.buf, c)
    BY <1>1, <1>6, TypedTerm
  <2>2. Len(Append(w.buf, c)) = Len(w.buf) + 1
    BY <1>1, <1>6, Fields, AppendProperties
  <2>3. Shown(t) /\ Key /\ UNCHANGED <<current_term, mode, printVars>>
    BY <1>14 DEF Type, w
  <2> HIDE DEF u
  <2>4. t \in TerminalType /\ Len(t.buf) < TERM_BUF_SIZE
    BY <1>1, <2>1, <2>2
  <2> HIDE DEF t
  <2> QED BY <1>13, <2>3, <2>4
<1>15. CASE Backspace
  <2> DEFINE u == [term_backspace(w) EXCEPT !.buf = SubSeq(@, 1, Len(@) - 1)]
             t == IF w.buf # <<>> THEN u ELSE w
  <2>1. w.buf # <<>> => u \in TerminalType /\ Len(u.buf) = Len(w.buf) - 1
    BY <1>1, ErasedTerm
  <2>2. Shown(t) /\ Key /\ UNCHANGED <<current_term, mode, printVars>>
    BY <1>15 DEF Backspace, w
  <2> HIDE DEF u
  <2>3. t \in TerminalType /\ Len(t.buf) < TERM_BUF_SIZE
    BY <1>1, <2>1
  <2> HIDE DEF t
  <2> QED BY <1>13, <2>2, <2>3
<1>16. CASE Enter
  <2> DEFINE a == term_putchar(w, NL, Input)
             b == [a EXCEPT !.prompt = FALSE]
             c == [term_clear(a) EXCEPT !.prompt = FALSE]
  <2>1. Kept(a, term_clear(a)) /\ a \in TerminalType /\ a.buf = w.buf
    BY <1>7, ClearKept DEF Kept
  <2> HIDE DEF a
  <2>2. b \in TerminalType /\ b.buf = w.buf /\ c \in TerminalType /\ c.buf = w.buf
    BY <2>1, SetPrompt DEF Kept
  <2> HIDE DEF b, c
  <2>3. Current(a) \/ Current(b) \/ Current(c)
    BY <1>16 DEF Enter, a, b, c, w
  <2>4. Rest
    BY <1>2, <1>16, Printable DEF Enter, Key, Prints, Modes, timeVars, printVars
  <2> HIDE DEF Rest
  <2> QED BY <1>1, <1>4, <2>1, <2>2, <2>3, <2>4
<1>17. CASE EnterSleep
  <2> DEFINE a == term_putchar(w, NL, Input)
  <2>1. Current(a) /\ \E ms \in Delays : target' = Target(ticks', ms)
    BY <1>17 DEF EnterSleep, w
  <2>2. ticks' \in Nat /\ target' \in Nat
    BY <1>17, <2>1, TargetType DEF EnterSleep
  <2>3. Rest
    BY <1>2, <1>17, <2>2 DEF EnterSleep, Modes, printVars
  <2> HIDE DEF a, Rest
  <2> QED BY <1>1, <1>4, <1>7, <2>1, <2>3 DEF Kept, a
<1>18. CASE pit_sleep \/ SleepReturns \/ ExitToHalt
  <2>1. Rest /\ terms' = terms
    BY <1>2, <1>18, Printable, DivFacts, TimeAssumption
       DEF pit_sleep, SleepReturns, ExitToHalt, Prints, Modes, termVars, printVars, timeVars
  <2> HIDE DEF Rest
  <2> QED BY <1>5, <2>1
<1>19. CASE Executed
  <2> DEFINE t == [w EXCEPT !.buf = <<>>, !.prompt = FALSE]
  <2>1. t \in TerminalType /\ Len(t.buf) = 0
    BY <1>1, LineDropped
  <2>2. Current(t) /\ vga' = wm_blit(t) /\ mode' = "top"
        /\ UNCHANGED <<current_term, printVars, timeVars, keys>>
    BY <1>19 DEF Executed, Shown, w
  <2> HIDE DEF t
  <2>3. Rest
    BY <1>2, <1>3, <2>1, <2>2 DEF Modes, printVars, timeVars
  <2> HIDE DEF Rest
  <2> QED BY <1>1, <1>4, <2>1, <2>2, <2>3
<1>20. CASE sys_write
  <2>1. Rest /\ terms' = terms
    BY <1>2, <1>20, Printable DEF sys_write, Call, Prints, Modes, termVars, timeVars
  <2> HIDE DEF Rest
  <2> QED BY <1>5, <2>1
<1>21. CASE SysClear
  <2>1. Kept(w, term_clear(w))
    BY <1>1, ClearKept
  <2>2. Shown(term_clear(w)) /\ Call /\ UNCHANGED <<current_term, mode, printVars>>
    BY <1>21 DEF SysClear, w
  <2> QED BY <1>1, <1>13, <2>1, <2>2 DEF Kept
<1>22. ASSUME NEW t \in TerminalType, Len(t.buf) < TERM_BUF_SIZE, Current(t), Call,
              vga' \in [Index -> Cell], UNCHANGED <<current_term, mode, printVars>>
       PROVE  TypeOK'
  <2>1. Rest
    BY <1>2, <1>22 DEF Call, printVars, timeVars
  <2> HIDE DEF Rest
  <2> QED BY <1>4, <1>22, <2>1
<1>23. ASSUME terms' = terms, vga' = vga, Call, UNCHANGED <<current_term, mode, printVars>>
       PROVE  TypeOK'
  <2>1. Rest
    BY <1>2, <1>23 DEF Call, printVars, timeVars
  <2> HIDE DEF Rest
  <2> QED BY <1>5, <1>23, <2>1
<1>24. ASSUME NEW c \in Chars \cup {NL}, NEW x \in 0 .. WIDTH, NEW y \in 0 .. HEIGHT,
              SysPutcharAt(c, x, y, VGA_COLOR(WHITE, BLACK))
       PROVE  TypeOK'
  <2>1. CASE x < WIDTH /\ y < HEIGHT
    <3> DEFINE t == term_putchar_at(w, c, x, y, VGA_COLOR(WHITE, BLACK))
    <3>1. x \in 0 .. WIDTH - 1 /\ y \in 0 .. HEIGHT - 1 /\ VGA_COLOR(WHITE, BLACK) \in Color
      BY <2>1, GridSize, ColourAssumption DEF VGA_COLOR, Color
    <3>2. Kept(w, t)
      BY <1>1, <3>1, PutAtFacts
    <3>3. /\ Current(t) /\ vga' = wm_blit_row(vga, t, y)
          /\ Call /\ UNCHANGED <<current_term, mode, printVars>>
      BY <1>24, <2>1 DEF SysPutcharAt, w
    <3> HIDE DEF t
    <3>4. vga' \in [Index -> Cell]
      BY <1>2, <3>2, <3>3, RowType DEF Kept
    <3> QED BY <1>1, <1>22, <3>2, <3>3, <3>4 DEF Kept
  <2>2. CASE ~(x < WIDTH /\ y < HEIGHT)
    <3>1. UNCHANGED <<terms, vga>> /\ Call /\ UNCHANGED <<current_term, mode, printVars>>
      BY <1>24, <2>2 DEF SysPutcharAt
    <3> QED BY <1>23, <3>1
  <2> QED BY <2>1, <2>2
<1>25. ASSUME NEW x \in 0 .. WIDTH, NEW y \in 0 .. HEIGHT, SysSetCursor(x, y) PROVE TypeOK'
  <2>1. CASE x < WIDTH /\ y < HEIGHT
    <3> DEFINE t == [w EXCEPT !.x = x, !.y = y]
    <3>1. x \in 0 .. WIDTH - 1 /\ y \in 0 .. HEIGHT - 1
      BY <2>1, GridSize
    <3>2. Kept(w, t)
      BY <1>1, <3>1, SetXY
    <3>3. /\ Current(t) /\ vga' = wm_blit_row(wm_blit_row(vga, t, w.y), t, y)
          /\ Call /\ UNCHANGED <<current_term, mode, printVars>>
      BY <1>25, <2>1 DEF SysSetCursor, w
    <3> HIDE DEF t
    <3>4. vga' \in [Index -> Cell]
      BY <1>2, <3>2, <3>3, RowType DEF Kept
    <3> QED BY <1>1, <1>22, <3>2, <3>3, <3>4 DEF Kept
  <2>2. CASE ~(x < WIDTH /\ y < HEIGHT)
    <3>1. UNCHANGED <<terms, vga>> /\ Call /\ UNCHANGED <<current_term, mode, printVars>>
      BY <1>25, <2>2 DEF SysSetCursor
    <3> QED BY <1>23, <3>1
  <2> QED BY <2>1, <2>2
<1>26. CASE exit_to_shell
  <2> DEFINE t == [w EXCEPT !.buf = <<>>]
  <2>1. t \in TerminalType /\ t.buf = <<>>
    BY <1>1, SetBuf, EmptySeq
  <2>2. Current(t) /\ Rest
    BY <1>2, <1>26 DEF exit_to_shell, Modes, printVars, timeVars, w
  <2> HIDE DEF t, Rest
  <2> QED BY <1>1, <1>4, <2>1, <2>2, EmptySeq
<1>27. CASE UNCHANGED vars
  BY <1>27 DEF vars, TypeOK
<1> QED
  BY <1>8, <1>9, <1>10, <1>11, <1>12, <1>14, <1>15, <1>16, <1>17, <1>18, <1>19, <1>20, <1>21,
     <1>24, <1>25, <1>26, <1>27
     DEF Next, Printing, UserCall

(* At boot the types hold. *)
LEMMA TypeInit == Init => TypeOK
<1> SUFFICES ASSUME Init PROVE TypeOK
  OBVIOUS
<1>1. wm_init_term \in TerminalType /\ Len(wm_init_term.buf) < TERM_BUF_SIZE
  BY InitTerm, EmptySeq, LineAssumption
<1>2. 0 \in Terms
  BY TermsAssumption DEF Terms
<1>3. wm_blit(wm_init_term) \in [Index -> Cell]
  BY <1>1, PictureType DEF wm_blit
<1> HIDE DEF wm_init_term
<1> QED BY <1>1, <1>2, <1>3, Printable DEF Init, TypeOK, Modes

(* In every reachable state the cursors are inside the grid, the lines in  *)
(* their buffers, the current terminal is one, and the screen is a         *)
(* screenful of cells.                                                     *)
THEOREM TypeInvariant == Spec => []TypeOK
<1>1. Init => TypeOK
  BY TypeInit
<1>2. TypeOK /\ [Next]_vars => TypeOK'
  BY TypeStep
<1> QED BY <1>1, <1>2, PTL DEF Spec

-----------------------------------------------------------------------------
(* Terminals keep apart *)

(* A step changes no terminal but the current one, and the current one     *)
(* changes place only when the shell waits for a key, which leaves all     *)
(* terminals as they are.                                                  *)
LEMMA ApartStep ==
  ASSUME TypeOK, [Next]_vars
  PROVE  /\ \A i \in Terms \ {current_term} : terms'[i] = terms[i]
         /\ current_term' = current_term \/ \E i \in Terms : switch_workspace(i)
<1>1. ASSUME NEW t, Current(t) PROVE \A i \in Terms \ {current_term} : terms'[i] = terms[i]
  BY <1>1 DEF TypeOK, Current
<1>2. CASE Printing \/ shell_run \/ pit_sleep \/ SleepReturns
  BY <1>1, <1>2 DEF Printing, PutChar, Booted, Prompted, Executed, Written, Faulted, Shown,
                    shell_run, pit_sleep, SleepReturns, termVars
<1>3. ASSUME NEW i \in Terms, switch_workspace(i)
      PROVE  /\ \A j \in Terms \ {current_term} : terms'[j] = terms[j]
             /\ \E j \in Terms : switch_workspace(j)
  BY <1>3 DEF switch_workspace
<1>4. ASSUME NEW c \in Typed, Type(c)
      PROVE  /\ \A j \in Terms \ {current_term} : terms'[j] = terms[j]
             /\ current_term' = current_term
  BY <1>1, <1>4 DEF Type, Shown
<1>5. CASE Backspace \/ EnterSleep
  BY <1>1, <1>5 DEF Backspace, Shown, EnterSleep
<1>6. CASE Enter
  BY <1>1, <1>6 DEF Enter
<1>7. CASE sys_write \/ SysClear \/ exit_to_shell \/ ExitToHalt \/ fault_handler
  BY <1>1, <1>7 DEF sys_write, SysClear, exit_to_shell, ExitToHalt, fault_handler, Shown, termVars
<1>8. ASSUME NEW c, NEW x, NEW y, NEW color, SysPutcharAt(c, x, y, color) \/ SysSetCursor(x, y)
      PROVE  /\ \A j \in Terms \ {current_term} : terms'[j] = terms[j]
             /\ current_term' = current_term
  BY <1>1, <1>8 DEF SysPutcharAt, SysSetCursor
<1>9. CASE UNCHANGED vars
  BY <1>9 DEF vars
<1> QED BY <1>2, <1>3, <1>4, <1>5, <1>6, <1>7, <1>8, <1>9 DEF Next, UserCall

(* What is typed or printed in one workspace stays there. *)
THEOREM Apart == Spec => OthersUntouched
<1>1. TypeOK /\ [Next]_vars => [\A i \in Terms \ {current_term} : terms'[i] = terms[i]]_vars
  BY ApartStep
<1> QED BY <1>1, TypeInvariant, PTL DEF Spec, OthersUntouched

-----------------------------------------------------------------------------
(* The line on the screen *)

(* An empty line is the bare prompt. *)
LEMMA BareLine ==
  ASSUME NEW t \in TerminalType, t.buf = <<>>
  PROVE  Line(t) = PROMPT
<1>1. Len(t.buf) = 0 /\ PROMPT \in Seq(Cell) /\ Len(PROMPT) \in Nat
  BY EmptySeq, LineAssumption
<1>2. /\ Line(t) \in Seq(Cell) /\ Len(Line(t)) = Len(PROMPT)
      /\ \A k \in 1 .. Len(PROMPT) : Line(t)[k] = PROMPT[k]
  BY <1>1, LineFacts
<1> QED BY <1>1, <1>2, SeqEqual

(* The prompt is printed cell by cell: nothing of it stands before the     *)
(* first, all of it after the last, and each adds itself.                  *)
LEMMA PromptStarts ==
  ASSUME NEW t \in TerminalType
  PROVE  /\ 0 \in 0 .. Len(PROMPT) /\ PROMPT = SubSeq(PROMPT, 0 + 1, Len(PROMPT))
         /\ Shows(t, SubSeq(PROMPT, 1, 0))
<1>1. PROMPT \in Seq(Cell) /\ Len(PROMPT) \in Nat
  BY LineAssumption
<1>2. SubSeq(PROMPT, 1, Len(PROMPT)) = PROMPT
  BY <1>1, SubSeqFull
<1>3. SubSeq(PROMPT, 1, 0) = <<>>
  BY SubSeqEmpty
<1>4. Shows(t, <<>>)
  BY Fields, EmptySeq DEF Shows
<1>5. 0 + 1 = 1 /\ 0 \in 0 .. Len(PROMPT)
  BY <1>1
<1> QED BY <1>2, <1>3, <1>4, <1>5, Zenon

(* One more cell of the prompt. *)
LEMMA PromptGrows ==
  ASSUME NEW t \in TerminalType, NEW n \in 0 .. Len(PROMPT),
         NEW text, text = SubSeq(PROMPT, n + 1, Len(PROMPT)), text # <<>>,
         Shows(t, SubSeq(PROMPT, 1, n))
  PROVE  /\ n + 1 \in 0 .. Len(PROMPT)
         /\ Tail(text) = SubSeq(PROMPT, (n + 1) + 1, Len(PROMPT))
         /\ Shows(term_putchar(t, Head(text).ch, Head(text).color), SubSeq(PROMPT, 1, n + 1))
<1> DEFINE cell == PROMPT[n + 1]
<1>1. PROMPT \in Seq(Cell) /\ Len(PROMPT) \in Nat /\ n \in Nat
  BY LineAssumption
<1>2. n < Len(PROMPT)
  <2>1. SUFFICES ASSUME n = Len(PROMPT) PROVE FALSE
    BY <1>1
  <2> QED BY <1>1, <2>1, SubSeqEmpty
<1>3. n + 1 \in 1 .. Len(PROMPT) /\ Len(PROMPT) \in n + 1 .. Len(PROMPT)
  BY <1>1, <1>2
<1>4. Head(text) = cell /\ Tail(text) = SubSeq(PROMPT, (n + 1) + 1, Len(PROMPT))
  BY <1>1, <1>3, HeadTailOfSubSeq
<1>5. cell \in Cell
  BY <1>1, <1>3, ElementOfSeq
<1>6. SubSeq(PROMPT, 1, n) \in Seq(Cell) /\ Len(SubSeq(PROMPT, 1, n)) = n
  BY <1>1, Beginning
<1>7. SubSeq(PROMPT, 1, n + 1) = Append(SubSeq(PROMPT, 1, n), cell)
  <2>1. 1 \in 1 .. Len(PROMPT) /\ n + 1 \in 1 .. Len(PROMPT) /\ (n + 1) - 1 = n
    BY <1>1, <1>3
  <2>2. SubSeq(PROMPT, 1, n + 1) = SubSeq(PROMPT, 1, (n + 1) - 1) \o <<PROMPT[n + 1]>>
    BY <1>1, <2>1, SubSeqRecursiveSecond
  <2> QED BY <1>5, <1>6, <2>1, <2>2, AppendIsConcat
<1>8. n + 1 <= WIDTH * (HEIGHT - 1)
  BY <1>1, <1>3, LineAssumption, GridSize
<1> HIDE DEF cell
<1>9. cell.ch \in Chars /\ cell.color \in Color /\ cell = [ch |-> cell.ch, color |-> cell.color]
  BY <1>5 DEF Cell
<1>10. Shows(term_putchar(t, cell.ch, cell.color), Append(SubSeq(PROMPT, 1, n), cell))
  BY <1>6, <1>8, <1>9, PutShows
<1>11. n + 1 \in 0 .. Len(PROMPT)
  BY <1>1, <1>3
<1> QED BY <1>4, <1>7, <1>10, <1>11, Zenon

(* The prompt is complete: the terminal shows its empty line. *)
LEMMA PromptEnds ==
  ASSUME NEW t \in TerminalType, t.buf = <<>>, NEW n \in 0 .. Len(PROMPT),
         SubSeq(PROMPT, n + 1, Len(PROMPT)) = <<>>, Shows(t, SubSeq(PROMPT, 1, n))
  PROVE  LET u == [t EXCEPT !.prompt = TRUE] IN u.prompt /\ ShowsLine(u)
<1> DEFINE u == [t EXCEPT !.prompt = TRUE]
<1>1. PROMPT \in Seq(Cell) /\ Len(PROMPT) \in Nat /\ n \in Nat
  BY LineAssumption
<1>2. n = Len(PROMPT)
  <2>1. SUFFICES ASSUME n + 1 <= Len(PROMPT) PROVE FALSE
    BY <1>1
  <2>2. \A i \in n + 1 .. Len(PROMPT) : PROMPT[i] \in Cell
    BY <1>1, ElementOfSeq
  <2>3. n + 1 \in Int /\ Len(PROMPT) \in Int
    BY <1>1
  <2>4. Len(SubSeq(PROMPT, n + 1, Len(PROMPT))) =
          IF n + 1 <= Len(PROMPT) THEN Len(PROMPT) - (n + 1) + 1 ELSE 0
    BY ONLY <2>2, <2>3, SubSeqProperties
  <2>5. Len(SubSeq(PROMPT, n + 1, Len(PROMPT))) = Len(PROMPT) - (n + 1) + 1
    BY <2>1, <2>4
  <2>6. Len(SubSeq(PROMPT, n + 1, Len(PROMPT))) = 0
    BY EmptySeq
  <2> QED BY ONLY <1>1, <2>1, <2>5, <2>6
<1>3. Shows(t, PROMPT)
  BY <1>1, <1>2, SubSeqFull
<1>4. /\ u \in TerminalType /\ u.x = t.x /\ u.y = t.y /\ u.cells = t.cells
      /\ u.buf = <<>> /\ u.prompt = TRUE
  BY SetPrompt
<1> HIDE DEF u
<1>5. Line(u) = PROMPT /\ CaretIndex(u) = CaretIndex(t)
  BY <1>4, BareLine DEF CaretIndex
<1>6. ShowsLine(u)
  BY <1>3, <1>4, <1>5 DEF Shows, ShowsLine
<1> QED BY <1>4, <1>6 DEF u

(* A key adds itself to what stands before the cursor, and backspace takes *)
(* the last cell away.                                                     *)
LEMMA TypedShows ==
  ASSUME NEW t \in TerminalType, NEW c \in Chars, ShowsLine(t), Len(t.buf) < TERM_BUF_SIZE - 1
  PROVE  ShowsLine([term_putchar(t, c, Input) EXCEPT !.buf = Append(@, c)])
<1> DEFINE a == term_putchar(t, c, Input)
           u == [a EXCEPT !.buf = Append(@, c)]
<1>1. u \in TerminalType /\ u.buf = Append(t.buf, c) /\ CaretIndex(u) = CaretIndex(a) /\ u.cells = a.cells
  BY TypedTerm
<1>2. Line(t) \in Seq(Cell) /\ Len(Line(t)) = Len(PROMPT) + Len(t.buf)
  BY LineFacts
<1>3. Len(t.buf) \in Nat /\ Len(PROMPT) \in Nat
  BY Fields, LenProperties, LineAssumption
<1>4. Len(Line(t)) + 1 <= WIDTH * (HEIGHT - 1)
  BY <1>2, <1>3, LineAssumption, GridSize
<1>5. Shows(t, Line(t))
  BY DEF Shows, ShowsLine
<1>6. Shows(a, Append(Line(t), [ch |-> c, color |-> Input]))
  BY <1>2, <1>4, <1>5, PutShows, EmptyCell DEF Input
<1> HIDE DEF a, u
<1>7. Line(u) = Append(Line(t), [ch |-> c, color |-> Input])
  BY <1>1, LineGrows
<1>8. ShowsLine(u)
  BY <1>1, <1>6, <1>7 DEF Shows, ShowsLine
<1> QED BY <1>8 DEF u, a

(* Backspace shows the shorter line. *)
LEMMA ErasedShows ==
  ASSUME NEW t \in TerminalType, t.buf # <<>>, ShowsLine(t)
  PROVE  ShowsLine([term_backspace(t) EXCEPT !.buf = SubSeq(@, 1, Len(@) - 1)])
<1> DEFINE a == term_backspace(t)
           u == [a EXCEPT !.buf = SubSeq(@, 1, Len(@) - 1)]
<1>1. /\ u \in TerminalType /\ u.buf = SubSeq(t.buf, 1, Len(t.buf) - 1)
      /\ CaretIndex(u) = CaretIndex(a) /\ u.cells = a.cells
  BY ErasedTerm
<1>2. Line(t) \in Seq(Cell)
  BY LineFacts
<1>3. Shows(t, Line(t))
  BY DEF Shows, ShowsLine
<1> HIDE DEF u
<1>4. Line(t) # <<>> /\ Line(u) = SubSeq(Line(t), 1, Len(Line(t)) - 1)
  BY <1>1, LineShrinks
<1>5. Shows(a, Line(u))
  BY <1>2, <1>3, <1>4, BackspaceShows
<1> HIDE DEF a
<1>6. ShowsLine(u)
  BY <1>1, <1>5 DEF Shows, ShowsLine
<1> QED BY <1>6 DEF u, a

(* Each action keeps the lines on the screen. *)
LEMMA LineStep == ShellInv /\ [Next]_vars => OthersInv' /\ CurrentInv'
<1> SUFFICES ASSUME ShellInv, [Next]_vars PROVE OthersInv' /\ CurrentInv'
  OBVIOUS
<1> USE DEF ShellInv
<1> DEFINE w == wm_current
<1>1. /\ w \in TerminalType /\ current_term \in Terms /\ w.prompt \in BOOLEAN
      /\ Len(w.buf) \in Nat /\ Len(w.buf) < TERM_BUF_SIZE
  BY CurrentFacts
<1>2. \A i \in Terms : terms[i] \in TerminalType
  BY DEF TypeOK
<1>3. /\ mode = "wait" => w.prompt /\ ShowsLine(w)
      /\ mode \in {"top", "user"} \/ (mode = "print" /\ next \in {"boot", "prompted", "written"})
         => ~w.prompt
      /\ mode = "top" \/ (mode = "print" /\ next \in {"boot", "prompted"}) => w.buf = <<>>
      /\ mode = "print" /\ next = "prompted" =>
           \E n \in 0 .. Len(PROMPT) :
              /\ out = SubSeq(PROMPT, n + 1, Len(PROMPT))
              /\ Shows(w, SubSeq(PROMPT, 1, n))
  BY DEF CurrentInv
<1>4. OthersInv'
  <2>1. \A i \in Terms \ {current_term} : terms'[i] = terms[i]
    BY ApartStep
  <2>2. CASE current_term' = current_term
    <3>1. ASSUME NEW i \in Terms \ {current_term}
          PROVE  IF terms'[i].prompt THEN ShowsLine(terms'[i]) ELSE terms'[i].buf = <<>>
      BY <2>1 DEF OthersInv
    <3> QED BY <2>2, <3>1 DEF OthersInv
  <2>3. ASSUME NEW i \in Terms, switch_workspace(i) PROVE OthersInv'
    <3>1. terms' = terms /\ mode = "wait"
      BY <2>3 DEF switch_workspace, Key
    <3>2. ASSUME NEW j \in Terms
          PROVE  IF terms[j].prompt THEN ShowsLine(terms[j]) ELSE terms[j].buf = <<>>
      BY <1>3, <3>1 DEF OthersInv, wm_current
    <3> QED BY <3>1, <3>2 DEF OthersInv
  <2> QED BY <2>2, <2>3, ApartStep
<1>5. ASSUME NEW t, Current(t), current_term' = current_term PROVE wm_current' = t
  BY <1>5 DEF Current, wm_current, TypeOK
<1>6. ASSUME \/ mode' \in {"sleep", "halted"}
             \/ mode' = "print" /\ next' \in {"executed", "fault"}
      PROVE  CurrentInv'
  BY <1>6 DEF CurrentInv
<1>7. ASSUME NEW t \in TerminalType, t.buf = <<>>, ~t.prompt, wm_current' = t, Prints(PROMPT, "prompted")
      PROVE  CurrentInv'
  <2>1. /\ 0 \in 0 .. Len(PROMPT) /\ PROMPT = SubSeq(PROMPT, 0 + 1, Len(PROMPT))
        /\ Shows(t, SubSeq(PROMPT, 1, 0))
    BY <1>7, PromptStarts
  <2>2. mode' = "print" /\ next' = "prompted" /\ out' = PROMPT
    BY <1>7 DEF Prints
  <2>3. \E n \in 0 .. Len(PROMPT) :
          /\ out' = SubSeq(PROMPT, n + 1, Len(PROMPT)) /\ Shows(wm_current', SubSeq(PROMPT, 1, n))
    BY <1>7, <2>1, <2>2
  <2> QED BY <1>7, <2>2, <2>3 DEF CurrentInv
<1>8. ASSUME NEW t, wm_current' = t, t.prompt = w.prompt,
             mode' = "user" /\ mode = "user" PROVE CurrentInv'
  BY <1>3, <1>8 DEF CurrentInv
<1>9. ASSUME NEW t, wm_current' = t, t.prompt, ShowsLine(t), mode' = "wait" PROVE CurrentInv'
  BY <1>9 DEF CurrentInv
<1> HIDE DEF w, ShellInv
<1>10. CASE PutChar
  <2> DEFINE t == term_putchar(w, Head(out).ch, Head(out).color)
  <2>1. out \in ColouredText /\ out # <<>> /\ mode = "print"
    BY <1>10 DEF PutChar, TypeOK, ShellInv
  <2>2. Head(out).ch \in Chars \cup {NL} /\ Head(out).color \in Color
    BY <2>1, Printable
  <2>3. Kept(w, t)
    BY <1>1, <2>2, PutKept
  <2>4. Current(t) /\ current_term' = current_term
    BY <1>10 DEF PutChar, w
  <2>5. mode' = "print" /\ next' = next /\ out' = Tail(out)
    BY <1>10, <2>1 DEF PutChar
  <2>6. next = "prompted" =>
          \E n \in 0 .. Len(PROMPT) :
             /\ out' = SubSeq(PROMPT, n + 1, Len(PROMPT))
             /\ Shows(t, SubSeq(PROMPT, 1, n))
    <3> SUFFICES ASSUME next = "prompted"
                 PROVE  \E n \in 0 .. Len(PROMPT) :
                           /\ out' = SubSeq(PROMPT, n + 1, Len(PROMPT))
                           /\ Shows(t, SubSeq(PROMPT, 1, n))
      OBVIOUS
    <3>1. PICK n \in 0 .. Len(PROMPT) :
             /\ out = SubSeq(PROMPT, n + 1, Len(PROMPT)) /\ Shows(w, SubSeq(PROMPT, 1, n))
      BY <1>3, <2>1
    <3>2. /\ n + 1 \in 0 .. Len(PROMPT)
          /\ Tail(out) = SubSeq(PROMPT, (n + 1) + 1, Len(PROMPT))
          /\ Shows(t, SubSeq(PROMPT, 1, n + 1))
      BY <1>1, <2>1, <3>1, PromptGrows
    <3> HIDE DEF t
    <3> QED BY <2>5, <3>2
  <2> HIDE DEF t
  <2>7. wm_current' = t
    BY <1>5, <2>4
  <2> QED BY <1>3, <1>4, <2>1, <2>3, <2>5, <2>6, <2>7 DEF CurrentInv, Kept
<1>11. CASE Booted \/ Written
  <2>1. wm_current' = w
    BY <1>11 DEF Booted, Written, termVars, wm_current, w
  <2> QED BY <1>3, <1>4, <1>11, <2>1 DEF Booted, Written, Printed, CurrentInv
<1>12. CASE shell_run
  <2>1. wm_current' = w /\ mode = "top"
    BY <1>12 DEF shell_run, termVars, wm_current, w
  <2>2. Prints(PROMPT, "prompted")
    BY <1>3, <1>12, <2>1 DEF shell_run, w
  <2> QED BY <1>1, <1>3, <1>4, <1>7, <2>1, <2>2
<1>13. CASE Prompted
  <2> DEFINE t == [w EXCEPT !.prompt = TRUE]
  <2>1. Current(t) /\ current_term' = current_term /\ mode' = "wait"
    BY <1>13 DEF Prompted, w
  <2>2. mode = "print" /\ next = "prompted" /\ out = <<>>
    BY <1>13 DEF Prompted, Printed
  <2>3. PICK n \in 0 .. Len(PROMPT) :
           SubSeq(PROMPT, n + 1, Len(PROMPT)) = <<>> /\ Shows(w, SubSeq(PROMPT, 1, n))
    BY <1>3, <2>2
  <2>4. t.prompt /\ ShowsLine(t)
    BY <1>1, <1>3, <2>2, <2>3, PromptEnds
  <2> HIDE DEF t
  <2> QED BY <1>4, <1>5, <1>9, <2>1, <2>4
<1>14. ASSUME NEW i \in Terms, switch_workspace(i) PROVE CurrentInv'
  <2>1. wm_current' = terms[i] /\ mode = "wait"
    BY <1>14 DEF switch_workspace, Key, wm_current
  <2>2. CASE terms[i].prompt
    <3>1. mode' = "wait"
      BY <1>14, <2>1, <2>2 DEF switch_workspace
    <3>2. ShowsLine(terms[i])
      BY <1>3, <2>1, <2>2 DEF OthersInv, ShellInv, wm_current, w
    <3> QED BY <1>9, <2>1, <2>2, <3>1, <3>2
  <2>3. CASE ~terms[i].prompt
    <3>1. Prints(PROMPT, "prompted")
      BY <1>14, <2>3 DEF switch_workspace
    <3>2. terms[i].buf = <<>>
      BY <1>3, <2>1, <2>3 DEF OthersInv, ShellInv, wm_current, w
    <3> QED BY <1>2, <1>7, <2>1, <2>3, <3>1, <3>2
  <2> QED BY <2>2, <2>3
<1>15. ASSUME NEW c \in Typed, Type(c) PROVE CurrentInv'
  <2> DEFINE u == [term_putchar(w, c, Input) EXCEPT !.buf = Append(@, c)]
             t == IF Len(w.buf) < TERM_BUF_SIZE - 1 THEN u ELSE w
  <2>1. /\ Current(t) /\ current_term' = current_term /\ mode = "wait" /\ mode' = mode
    BY <1>15 DEF Type, Key, Shown, w
  <2>2. c \in Chars
    BY TextAssumption
  <2>3. w.prompt /\ ShowsLine(w)
    BY <1>3, <2>1
  <2>4. u.prompt = w.prompt /\ (Len(w.buf) < TERM_BUF_SIZE - 1 => ShowsLine(u))
    BY <1>1, <2>2, <2>3, TypedTerm, TypedShows
  <2> HIDE DEF u
  <2>5. t.prompt /\ ShowsLine(t)
    BY <2>3, <2>4
  <2> HIDE DEF t
  <2> QED BY <1>5, <1>9, <2>1, <2>5
<1>16. CASE Backspace
  <2> DEFINE u == [term_backspace(w) EXCEPT !.buf = SubSeq(@, 1, Len(@) - 1)]
             t == IF w.buf # <<>> THEN u ELSE w
  <2>1. /\ Current(t) /\ current_term' = current_term /\ mode = "wait" /\ mode' = mode
    BY <1>16 DEF Backspace, Key, Shown, w
  <2>2. w.prompt /\ ShowsLine(w)
    BY <1>3, <2>1
  <2>3. w.buf # <<>> => u.prompt = w.prompt /\ ShowsLine(u)
    BY <1>1, <2>2, ErasedTerm, ErasedShows
  <2> HIDE DEF u
  <2>4. t.prompt /\ ShowsLine(t)
    BY <2>2, <2>3
  <2> HIDE DEF t
  <2> QED BY <1>4, <1>5, <1>9, <2>1, <2>4
<1>17. CASE Enter
  <2> DEFINE a == term_putchar(w, NL, Input)
             b == [a EXCEPT !.prompt = FALSE]
             c == [term_clear(a) EXCEPT !.prompt = FALSE]
  <2>1. Kept(w, a)
    BY <1>1, PutKept, EmptyCell DEF Input
  <2>2. \/ mode' = "print" /\ next' = "executed"
        \/ mode' = "halted"
        \/ Current(b) /\ mode' = "user"
    BY <1>17 DEF Enter, Prints, a, b, w
  <2>3. current_term' = current_term
    BY <1>17 DEF Enter
  <2> HIDE DEF a
  <2>4. b.prompt = FALSE
    BY <2>1, SetPrompt DEF Kept
  <2> HIDE DEF b
  <2>5. Current(b) /\ mode' = "user" => CurrentInv'
    BY <1>5, <2>3, <2>4 DEF CurrentInv
  <2> QED BY <1>4, <1>6, <2>2, <2>5
<1>18. CASE EnterSleep \/ SleepReturns \/ ExitToHalt \/ fault_handler \/ Faulted \/ pit_sleep
  <2>1. \/ mode' \in {"sleep", "halted"}
        \/ mode' = "print" /\ next' \in {"executed", "fault"}
    BY <1>18 DEF EnterSleep, SleepReturns, ExitToHalt, fault_handler, Faulted, pit_sleep, Prints
  <2> QED BY <1>4, <1>6, <2>1
<1>19. CASE Executed
  <2> DEFINE t == [w EXCEPT !.buf = <<>>, !.prompt = FALSE]
  <2>1. t.buf = <<>> /\ t.prompt = FALSE
    BY <1>1, LineDropped
  <2>2. Current(t) /\ current_term' = current_term /\ mode' = "top"
    BY <1>19 DEF Executed, Shown, w
  <2> HIDE DEF t
  <2>3. wm_current' = t
    BY <1>5, <2>2
  <2> QED BY <1>4, <2>1, <2>2, <2>3 DEF CurrentInv
<1>20. CASE sys_write
  <2>1. wm_current' = w /\ mode = "user" /\ mode' = "print" /\ next' = "written"
    BY <1>20 DEF sys_write, Call, Prints, termVars, wm_current, w
  <2> QED BY <1>3, <1>4, <2>1 DEF CurrentInv
<1>21. CASE SysClear
  <2>1. Kept(w, term_clear(w))
    BY <1>1, ClearKept
  <2>2. Current(term_clear(w)) /\ current_term' = current_term /\ mode = "user" /\ mode' = mode
    BY <1>21 DEF SysClear, Shown, Call, w
  <2>3. wm_current' = term_clear(w)
    BY <1>5, <2>2
  <2> QED BY <1>4, <1>8, <2>1, <2>2, <2>3 DEF Kept
<1>22. ASSUME NEW t \in TerminalType, Kept(w, t), Current(t), current_term' = current_term,
              mode = "user", mode' = mode
       PROVE  CurrentInv'
  <2>1. wm_current' = t /\ t.prompt = w.prompt
    BY <1>5, <1>22 DEF Kept
  <2> QED BY <1>8, <1>22, <2>1
<1>23. ASSUME NEW c \in Chars \cup {NL}, NEW x \in 0 .. WIDTH, NEW y \in 0 .. HEIGHT,
              SysPutcharAt(c, x, y, VGA_COLOR(WHITE, BLACK))
       PROVE  CurrentInv'
  <2>1. mode = "user" /\ mode' = mode /\ current_term' = current_term
    BY <1>23 DEF SysPutcharAt, Call
  <2>2. CASE x < WIDTH /\ y < HEIGHT
    <3> DEFINE t == term_putchar_at(w, c, x, y, VGA_COLOR(WHITE, BLACK))
    <3>1. x \in 0 .. WIDTH - 1 /\ y \in 0 .. HEIGHT - 1 /\ VGA_COLOR(WHITE, BLACK) \in Color
      BY <2>2, GridSize, ColourAssumption DEF VGA_COLOR, Color
    <3>2. Kept(w, t)
      BY <1>1, <3>1, PutAtFacts
    <3>3. Current(t)
      BY <1>23, <2>2 DEF SysPutcharAt, w
    <3> HIDE DEF t
    <3> QED BY <1>22, <2>1, <3>2, <3>3 DEF Kept
  <2>3. CASE ~(x < WIDTH /\ y < HEIGHT)
    <3>1. wm_current' = w
      BY <1>23, <2>1, <2>3 DEF SysPutcharAt, wm_current, w
    <3> QED BY <1>8, <2>1, <3>1
  <2> QED BY <2>2, <2>3
<1>24. ASSUME NEW x \in 0 .. WIDTH, NEW y \in 0 .. HEIGHT, SysSetCursor(x, y) PROVE CurrentInv'
  <2>1. mode = "user" /\ mode' = mode /\ current_term' = current_term
    BY <1>24 DEF SysSetCursor, Call
  <2>2. CASE x < WIDTH /\ y < HEIGHT
    <3> DEFINE t == [w EXCEPT !.x = x, !.y = y]
    <3>1. x \in 0 .. WIDTH - 1 /\ y \in 0 .. HEIGHT - 1
      BY <2>2, GridSize
    <3>2. Kept(w, t)
      BY <1>1, <3>1, SetXY
    <3>3. Current(t)
      BY <1>24, <2>2 DEF SysSetCursor, w
    <3> HIDE DEF t
    <3> QED BY <1>22, <2>1, <3>2, <3>3 DEF Kept
  <2>3. CASE ~(x < WIDTH /\ y < HEIGHT)
    <3>1. wm_current' = w
      BY <1>24, <2>1, <2>3 DEF SysSetCursor, wm_current, w
    <3> QED BY <1>8, <2>1, <3>1
  <2> QED BY <2>2, <2>3
<1>25. CASE exit_to_shell
  <2> DEFINE t == [w EXCEPT !.buf = <<>>]
  <2>1. t.buf = <<>> /\ t.prompt = w.prompt
    BY <1>1, SetBuf, EmptySeq
  <2>2. Current(t) /\ current_term' = current_term /\ mode = "user" /\ mode' = "top"
    BY <1>25 DEF exit_to_shell, w
  <2> HIDE DEF t
  <2>3. wm_current' = t
    BY <1>5, <2>2
  <2> QED BY <1>3, <1>4, <2>1, <2>2, <2>3 DEF CurrentInv
<1>26. CASE UNCHANGED vars
  BY <1>4, <1>26 DEF vars, CurrentInv, wm_current, ShellInv
<1> QED
  BY <1>4, <1>10, <1>11, <1>12, <1>13, <1>14, <1>15, <1>16, <1>17, <1>18, <1>19, <1>20, <1>21,
     <1>23, <1>24, <1>25, <1>26
     DEF Next, Printing, UserCall

(* Wherever the shell comes to wait, the screen is copied whole.           *)
LEMMA ScreenStep == ShellInv /\ [Next]_vars => ScreenShowsTerminal'
<1> SUFFICES ASSUME ShellInv, [Next]_vars, mode' = "wait" PROVE vga' = Picture(wm_current')
  BY DEF ScreenShowsTerminal
<1>1. mode = "top" => ~wm_current.prompt
  BY DEF ShellInv, CurrentInv
<1>2. mode = "wait" => vga = Picture(wm_current)
  BY DEF ShellInv, ScreenShowsTerminal
<1>3. ASSUME NEW t, Shown(t), current_term' = current_term PROVE vga' = Picture(wm_current')
  BY <1>3 DEF Shown, Current, wm_blit, wm_current, ShellInv, TypeOK
<1>4. CASE Printing \/ shell_run \/ pit_sleep \/ SleepReturns
  <2>1. Prompted
    BY <1>1, <1>4 DEF Printing, PutChar, Booted, Executed, Written, Faulted, shell_run,
                      pit_sleep, SleepReturns, Prints
  <2> DEFINE t == [wm_current EXCEPT !.prompt = TRUE]
  <2>2. Current(t) /\ vga' = wm_blit(wm_current) /\ current_term' = current_term
    BY <2>1 DEF Prompted
  <2>3. wm_current \in TerminalType
    BY CurrentFacts DEF ShellInv
  <2>4. t.x = wm_current.x /\ t.y = wm_current.y /\ t.cells = wm_current.cells
    BY <2>3, SetPrompt
  <2> HIDE DEF t
  <2>5. wm_current' = t
    BY <2>2 DEF Current, wm_current, ShellInv, TypeOK
  <2>6. Picture(t) = Picture(wm_current)
    BY <2>4 DEF Picture, CaretIndex
  <2> QED BY <2>2, <2>5, <2>6 DEF wm_blit
<1>5. ASSUME NEW i \in Terms, switch_workspace(i) PROVE vga' = Picture(wm_current')
  BY <1>5 DEF switch_workspace, wm_blit, wm_current
<1>6. ASSUME NEW c \in Typed, Type(c) PROVE vga' = Picture(wm_current')
  BY <1>3, <1>6 DEF Type
<1>7. CASE Backspace
  BY <1>3, <1>7 DEF Backspace
<1>8. ~(Enter \/ EnterSleep \/ UserCall)
  BY DEF Enter, EnterSleep, UserCall, sys_write, SysClear, SysPutcharAt, SysSetCursor, Call,
         exit_to_shell, ExitToHalt, fault_handler, Prints
<1>9. CASE UNCHANGED vars
  BY <1>2, <1>9 DEF vars, wm_current
<1> QED BY <1>4, <1>5, <1>6, <1>7, <1>8, <1>9 DEF Next

(* At boot every line is empty and no terminal shows a prompt.             *)
LEMMA ShellInit == Init => ShellInv
<1> SUFFICES ASSUME Init PROVE ShellInv
  OBVIOUS
<1>1. TypeOK
  BY TypeInit
<1>2. \A i \in Terms : terms[i].buf = <<>> /\ terms[i].prompt = FALSE
  BY InitTerm DEF Init
<1>3. wm_current.buf = <<>> /\ wm_current.prompt = FALSE /\ mode = "print" /\ next = "boot"
  BY <1>1, <1>2 DEF Init, wm_current, TypeOK
<1>4. OthersInv
  BY <1>2 DEF OthersInv
<1>5. CurrentInv /\ ScreenShowsTerminal
  BY <1>3 DEF CurrentInv, ScreenShowsTerminal
<1> QED BY <1>1, <1>4, <1>5 DEF ShellInv

(* The invariant holds in every reachable state. *)
LEMMA ShellInvariant == Spec => []ShellInv
<1>1. Init => ShellInv
  BY ShellInit
<1>2. ShellInv /\ [Next]_vars => ShellInv'
  BY TypeStep, LineStep, ScreenStep DEF ShellInv
<1> QED BY <1>1, <1>2, PTL DEF Spec

(* A terminal that waits for a line shows its prompt and exactly the line  *)
(* that Enter will execute, right before the cursor, on a screen of any    *)
(* size and through any typing, wrapping, scrolling and switching.         *)
THEOREM LineShown == Spec => []LineOnScreen
<1>1. ShellInv => LineOnScreen
  BY DEF ShellInv, OthersInv, CurrentInv, LineOnScreen, wm_current
<1> QED BY <1>1, ShellInvariant, PTL

(* Whenever the shell waits for a key, the screen is the picture of the    *)
(* current terminal with its caret.                                        *)
THEOREM ScreenShown == Spec => []ScreenShowsTerminal
<1>1. ShellInv => ScreenShowsTerminal
  BY DEF ShellInv
<1> QED BY <1>1, ShellInvariant, PTL

-----------------------------------------------------------------------------
(* The row copies *)

(* A place is in its row. *)
LEMMA InRow ==
  ASSUME NEW x \in 0 .. WIDTH - 1, NEW y \in 0 .. HEIGHT - 1
  PROVE  At(x, y) \in Row(y)
<1>1. WIDTH - 1 \in 0 .. WIDTH - 1 /\ WIDTH \in Nat
  BY GridSize
<1>2. /\ At(x, y) = At(0, y) + x /\ At(0, y) \in Nat
      /\ At(WIDTH - 1, y) = At(0, y) + (WIDTH - 1)
  BY <1>1, Places
<1> QED BY <1>1, <1>2 DEF Row

(* A place whose cell is the same in two terminals, and which is the caret *)
(* of neither or of both, looks the same in their pictures.                *)
LEMMA SamePlace ==
  ASSUME NEW t, NEW u, NEW i \in Index, t.cells[i] = u.cells[i],
         i = CaretIndex(t) <=> i = CaretIndex(u)
  PROVE  Picture(t)[i] = Picture(u)[i]
BY DEF Picture

(* A character put into row y changes the picture in that row only.        *)
LEMMA PutInRow ==
  ASSUME NEW t \in TerminalType, NEW c \in Chars \cup {NL}, NEW color \in Color,
         NEW x \in 0 .. WIDTH - 1, NEW y \in 0 .. HEIGHT - 1
  PROVE  LET u == term_putchar_at(t, c, x, y, color)
         IN  wm_blit_row(Picture(t), u, y) = Picture(u)
<1> DEFINE u == term_putchar_at(t, c, x, y, color)
<1>1. u.x = t.x /\ u.y = t.y /\ \A i \in Index \ {At(x, y)} : u.cells[i] = t.cells[i]
  BY PutAtFacts
<1> HIDE DEF u
<1>2. CaretIndex(u) = CaretIndex(t)
  BY <1>1 DEF CaretIndex
<1>3. ASSUME NEW i \in Index, i \notin Row(y) PROVE Picture(t)[i] = Picture(u)[i]
  BY <1>1, <1>2, <1>3, InRow, SamePlace
<1>4. wm_blit_row(Picture(t), u, y) = [i \in Index |-> Picture(u)[i]]
  BY <1>3 DEF wm_blit_row
<1>5. Picture(u) = [i \in Index |-> Picture(u)[i]]
  BY DEF Picture
<1>6. wm_blit_row(Picture(t), u, y) = Picture(u)
  BY <1>4, <1>5
<1> QED BY <1>6 DEF u

(* A moved caret changes the picture in the row it leaves and the row it   *)
(* comes to.                                                               *)
LEMMA CaretInRows ==
  ASSUME NEW t \in TerminalType, NEW x \in 0 .. WIDTH - 1, NEW y \in 0 .. HEIGHT - 1
  PROVE  LET u == [t EXCEPT !.x = x, !.y = y]
         IN  wm_blit_row(wm_blit_row(Picture(t), u, t.y), u, y) = Picture(u)
<1> DEFINE u == [t EXCEPT !.x = x, !.y = y]
<1>1. Kept(t, u) /\ u.x = x /\ u.y = y /\ u.cells = t.cells
  <2> DEFINE a == [t EXCEPT !.x = x]
             b == [a EXCEPT !.y = y]
  <2>1. Kept(t, a) /\ a.x = x /\ a.y = t.y /\ a.cells = t.cells
    BY SetX DEF Kept
  <2>2. u = b
    OBVIOUS
  <2> HIDE DEF a, u
  <2>3. Kept(a, b) /\ b.x = a.x /\ b.y = y /\ b.cells = a.cells
    BY <2>1, SetY DEF Kept
  <2> HIDE DEF b
  <2> QED BY <2>1, <2>2, <2>3 DEF Kept
<1> HIDE DEF u
<1>2. CaretIndex(u) = At(x, y) /\ CaretIndex(t) = At(t.x, t.y)
  BY <1>1 DEF CaretIndex
<1>3. CaretIndex(u) \in Row(y) /\ CaretIndex(t) \in Row(t.y)
  BY <1>2, InRow, Fields
<1>4. ASSUME NEW i \in Index, i \notin Row(y), i \notin Row(t.y)
      PROVE  Picture(t)[i] = Picture(u)[i]
  BY <1>1, <1>3, <1>4, SamePlace
<1> DEFINE first == wm_blit_row(Picture(t), u, t.y)
<1>5. ASSUME NEW i \in Index, i \notin Row(y) PROVE first[i] = Picture(u)[i]
  BY <1>4, <1>5 DEF wm_blit_row
<1> HIDE DEF first
<1>6. wm_blit_row(first, u, y) = [i \in Index |-> Picture(u)[i]]
  BY <1>5 DEF wm_blit_row
<1>7. Picture(u) = [i \in Index |-> Picture(u)[i]]
  BY DEF Picture
<1>8. wm_blit_row(first, u, y) = Picture(u)
  BY <1>6, <1>7
<1> QED BY <1>8 DEF u, first

(* Call 1 leaves the screen in step with the program's terminal, and once  *)
(* they are in step the row copies of calls 9 and 10 and the full copy of  *)
(* 8 keep them there.                                                      *)
THEOREM RowsInStep == Spec => RowsKeepStep
<1> DEFINE InStep == mode = "user" /\ vga = Picture(wm_current)
           Step == mode' = "user" /\ (mode = "print" \/ InStep) => vga' = Picture(wm_current')
<1>1. ASSUME TypeOK, Next, mode = "print", mode' = "user"
      PROVE  vga' = Picture(wm_current')
  <2>1. Written
    BY <1>1 DEF Next, Printing, PutChar, Booted, Prompted, Executed, Faulted, Printed,
           shell_run, pit_sleep, SleepReturns, switch_workspace, Type, Backspace, Enter,
           EnterSleep, Key, UserCall, Call, sys_write, SysClear, SysPutcharAt, SysSetCursor,
           exit_to_shell, ExitToHalt, fault_handler
  <2> QED BY <2>1 DEF Written, termVars, wm_blit, wm_current
<1>2. ASSUME TypeOK, Next, mode = "user", mode' = "user", vga = Picture(wm_current)
      PROVE  vga' = Picture(wm_current')
  <2> USE <1>2
  <2> DEFINE w == wm_current
  <2>1. w \in TerminalType
    BY CurrentFacts
  <2>2. ASSUME NEW t, Current(t), current_term' = current_term PROVE wm_current' = t
    BY <2>2 DEF Current, wm_current, TypeOK
  <2>3. ASSUME terms' = terms, vga' = vga, current_term' = current_term
        PROVE  vga' = Picture(wm_current')
    BY <2>3 DEF wm_current
  <2>4. CASE SysClear
    <3>1. Current(term_clear(w)) /\ current_term' = current_term /\ vga' = wm_blit(term_clear(w))
      BY <2>4 DEF SysClear, Shown, w
    <3> QED BY <2>2, <3>1 DEF wm_blit
  <2>5. ASSUME NEW c \in Chars \cup {NL}, NEW x \in 0 .. WIDTH, NEW y \in 0 .. HEIGHT,
               SysPutcharAt(c, x, y, VGA_COLOR(WHITE, BLACK))
        PROVE  vga' = Picture(wm_current')
    <3>1. CASE x < WIDTH /\ y < HEIGHT
      <4> DEFINE t == term_putchar_at(w, c, x, y, VGA_COLOR(WHITE, BLACK))
      <4>1. x \in 0 .. WIDTH - 1 /\ y \in 0 .. HEIGHT - 1 /\ VGA_COLOR(WHITE, BLACK) \in Color
        BY <3>1, GridSize, ColourAssumption DEF VGA_COLOR, Color
      <4>2. wm_blit_row(Picture(w), t, y) = Picture(t)
        BY <2>1, <4>1, PutInRow
      <4>3. Current(t) /\ vga' = wm_blit_row(Picture(w), t, y) /\ current_term' = current_term
        BY <2>5, <3>1 DEF SysPutcharAt, w
      <4> HIDE DEF t
      <4> QED BY <2>2, <4>2, <4>3
    <3>2. CASE ~(x < WIDTH /\ y < HEIGHT)
      BY <2>3, <2>5, <3>2 DEF SysPutcharAt
    <3> QED BY <3>1, <3>2
  <2>6. ASSUME NEW x \in 0 .. WIDTH, NEW y \in 0 .. HEIGHT, SysSetCursor(x, y)
        PROVE  vga' = Picture(wm_current')
    <3>1. CASE x < WIDTH /\ y < HEIGHT
      <4> DEFINE t == [w EXCEPT !.x = x, !.y = y]
      <4>1. x \in 0 .. WIDTH - 1 /\ y \in 0 .. HEIGHT - 1
        BY <3>1, GridSize
      <4>2. wm_blit_row(wm_blit_row(Picture(w), t, w.y), t, y) = Picture(t)
        BY <2>1, <4>1, CaretInRows
      <4>3. /\ Current(t) /\ vga' = wm_blit_row(wm_blit_row(Picture(w), t, w.y), t, y)
            /\ current_term' = current_term
        BY <2>6, <3>1 DEF SysSetCursor, w
      <4> HIDE DEF t
      <4> QED BY <2>2, <4>2, <4>3
    <3>2. CASE ~(x < WIDTH /\ y < HEIGHT)
      BY <2>3, <2>6, <3>2 DEF SysSetCursor
    <3> QED BY <3>1, <3>2
  <2>7. \/ SysClear
        \/ \E c \in Chars \cup {NL}, x \in 0 .. WIDTH, y \in 0 .. HEIGHT :
              SysPutcharAt(c, x, y, VGA_COLOR(WHITE, BLACK))
        \/ \E x \in 0 .. WIDTH, y \in 0 .. HEIGHT : SysSetCursor(x, y)
    BY DEF Next, Printing, PutChar, Booted, Prompted, Executed, Written, Faulted, Printed,
           shell_run, pit_sleep, SleepReturns, switch_workspace, Type, Backspace, Enter,
           EnterSleep, Key, UserCall, sys_write, exit_to_shell, ExitToHalt, fault_handler, Prints
  <2> QED BY <2>4, <2>5, <2>6, <2>7
<1>3. TypeOK /\ [Next]_vars => [Step]_vars
  BY <1>1, <1>2 DEF vars
<1> QED BY <1>3, TypeInvariant, PTL DEF Spec, RowsKeepStep

=============================================================================
