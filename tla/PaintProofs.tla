----------------------------- MODULE PaintProofs -----------------------------
(***************************************************************************)
(* Proofs about Paint.tla for every size of screen and palette: what the   *)
(* program believes to be on the screen is what should be there, and the   *)
(* screen agrees with the belief.                                          *)
(***************************************************************************)
EXTENDS Paint, SequenceTheorems, TLAPS

-----------------------------------------------------------------------------
(* Numbers *)

(* Multiplication by a natural number is monotonic. *)
LEMMA MulMono ==
  ASSUME NEW m \in Nat, NEW a \in Int, NEW b \in Int, a <= b
  PROVE  m * a <= m * b
  OBVIOUS

(* Quotient and remainder. *)
LEMMA DivFacts ==
  ASSUME NEW a \in Nat, NEW n \in Nat \ {0}
  PROVE  /\ a \div n \in Nat /\ a % n \in 0 .. n - 1
         /\ a = n * (a \div n) + (a % n)
  OBVIOUS

(* The cells of a grid of h rows of w columns, row by row. *)
LEMMA GridFacts ==
  ASSUME NEW w \in Nat \ {0}, NEW h \in Nat \ {0}, NEW y \in 0 .. h - 1
  PROVE  /\ y * w \in Nat /\ y * w <= w * (h - 1) /\ (y + 1) * w = y * w + w
         /\ w * (h - 1) \in Nat /\ w * h = w * (h - 1) + w /\ (h - 1) * w = w * (h - 1)
<1>1. w * y <= w * (h - 1)
  BY MulMono
<1> QED BY <1>1

-----------------------------------------------------------------------------
(* The canvas and its cells *)

(* The canvas is the screen without its last row. *)
LEMMA CanvasSize ==
  /\ WIDTH \in Nat \ {0} /\ HEIGHT \in Nat \ {0} /\ CANV_H \in Nat \ {0}
  /\ WIDTH * CANV_H \in Nat /\ WIDTH * HEIGHT = WIDTH * CANV_H + WIDTH
  /\ Canvas \subseteq Index /\ Index = 0 .. WIDTH * HEIGHT - 1
  /\ Canvas = 0 .. WIDTH * CANV_H - 1
<1>1. WIDTH \in Nat \ {0} /\ HEIGHT \in Nat \ {0} /\ CANV_H \in Nat \ {0}
  BY SizeAssumption, CanvasAssumption DEF CANV_H
<1>2. HEIGHT - 1 \in 0 .. HEIGHT - 1
  BY <1>1
<1>3. WIDTH * (HEIGHT - 1) \in Nat /\ WIDTH * HEIGHT = WIDTH * (HEIGHT - 1) + WIDTH
  BY ONLY <1>1, <1>2, GridFacts
<1>4. WIDTH * CANV_H \in Nat /\ WIDTH * HEIGHT = WIDTH * CANV_H + WIDTH
  BY <1>3 DEF CANV_H
<1> QED BY <1>1, <1>4 DEF Canvas, Index

(* A place of the canvas is one of its cells. *)
LEMMA Place ==
  ASSUME NEW x \in 0 .. WIDTH - 1, NEW y \in 0 .. CANV_H - 1
  PROVE  At(x, y) \in Canvas
<1>1. WIDTH \in Nat \ {0} /\ CANV_H \in Nat \ {0} /\ y \in Nat /\ x \in Nat /\ x < WIDTH
  BY CanvasSize
<1>2. /\ y * WIDTH \in Nat /\ y * WIDTH <= WIDTH * (CANV_H - 1)
      /\ WIDTH * (CANV_H - 1) \in Nat /\ WIDTH * CANV_H = WIDTH * (CANV_H - 1) + WIDTH
  BY ONLY <1>1, GridFacts
<1>3. At(x, y) = y * WIDTH + x
  BY DEF At
<1> QED BY <1>1, <1>2, <1>3, CanvasSize

(* The cursor, a pixel and a place of the status row are cells. *)
LEMMA Cells ==
  /\ Cursor \in Cell /\ \A col \in Colours : Block(col) \in Cell
  /\ Unseen \in Cell /\ Empty \in Cell /\ BLACK \in Colours
  /\ Empty.ch = BLANK /\ Empty.color.bg = BLACK
  /\ Cursor # Unseen /\ \A c : [ch |-> c, color |-> ATTR_STATUS] # Unseen
<1>1. /\ BLANK \in Chars /\ Star \in Chars /\ Star # BLANK
      /\ BLACK \in Colours /\ WHITE \in Colours /\ BLUE # BLACK
  BY CharAssumption, ColourAssumption, GlyphAssumption, PaletteAssumption
<1>2. Cursor \in Cell /\ Unseen \in Cell /\ Empty \in Cell /\ \A col \in Colours : Block(col) \in Cell
  BY <1>1 DEF Cursor, ATTR_CURSOR, Unseen, Block, Empty, Plain, VGA_COLOR, Cell, Color
<1>3. Empty.ch = BLANK /\ Empty.color.bg = BLACK
  BY DEF Empty, Plain, VGA_COLOR
<1>4. Cursor # Unseen
  BY <1>1 DEF Cursor, Unseen, Block
<1>5. ASSUME NEW c PROVE [ch |-> c, color |-> ATTR_STATUS] # Unseen
  <2>1. [ch |-> c, color |-> ATTR_STATUS].color.bg = BLUE
    BY DEF ATTR_STATUS, VGA_COLOR
  <2>2. Unseen.color.bg = BLACK
    BY DEF Unseen, Block, VGA_COLOR
  <2> QED BY <1>1, <2>1, <2>2
<1> QED BY <1>1, <1>2, <1>3, <1>4, <1>5

(* The status row's cells. *)
StatusCells(line) == [i \in Statusline |-> [ch |-> line[i - WIDTH * CANV_H], color |-> ATTR_STATUS]]

(* The status line is a row of characters. *)
LEMMA StatusType ==
  ASSUME NEW d \in BOOLEAN, NEW col \in 0 .. Len(Palette) - 1
  PROVE  /\ StatusCells(status_build(d, col)) \in [Statusline -> Cell]
         /\ Statusline \subseteq Index /\ Statusline \cap Canvas = {}
<1>1. ASSUME NEW i \in Statusline PROVE i - WIDTH * CANV_H \in 0 .. WIDTH - 1
  BY CanvasSize DEF Statusline
<1>2. col + 1 \in 1 .. Len(Palette)
  BY PaletteAssumption
<1>3. Swatch[Palette[col + 1]] \in Chars /\ DRAW \in Chars /\ MOVE \in Chars /\ BLANK \in Chars
  BY <1>2, GlyphAssumption, CharAssumption
<1>4. ASSUME NEW x \in 0 .. WIDTH - 1 PROVE status_build(d, col)[x] \in Chars
  <2>1. CASE x = 0
    BY <1>3, <2>1 DEF status_build
  <2>2. CASE x = 1
    BY <1>3, <2>2 DEF status_build
  <2>3. CASE x # 0 /\ x # 1
    BY <1>3, <2>3 DEF status_build
  <2> QED BY <2>1, <2>2, <2>3
<1>5. ATTR_STATUS \in Color
  BY ColourAssumption, PaletteAssumption DEF ATTR_STATUS, VGA_COLOR, Color
<1> HIDE DEF status_build
<1>6. ASSUME NEW i \in Statusline
      PROVE  [ch |-> status_build(d, col)[i - WIDTH * CANV_H], color |-> ATTR_STATUS] \in Cell
  BY <1>1, <1>4, <1>5 DEF Cell
<1>7. Statusline \subseteq Index /\ Statusline \cap Canvas = {}
  BY DEF Statusline
<1> QED BY <1>6, <1>7 DEF StatusCells

-----------------------------------------------------------------------------
(* What drawing does *)

(* The screen agrees with the view, except that a cell of which the view   *)
(* says black pixel may be any blank on black.                             *)
Agrees(v, t) ==
  /\ v \in [Index -> Cell] /\ t \in TerminalType
  /\ \A i \in Index :
       \/ t.cells[i] = v[i]
       \/ v[i] = Unseen /\ t.cells[i].ch = BLANK /\ t.cells[i].color.bg = BLACK

(* Scene u agrees and has the cells on D, and the view v elsewhere. *)
Sent(v, u, D, cells) ==
  /\ u = Scene(u.view, u.term) /\ Agrees(u.view, u.term)
  /\ \A i \in D : u.view[i] = cells[i]
  /\ \A i \in Index \ D : u.view[i] = v[i]

(* Sending cells makes the view say so, and keeps the agreement. *)
LEMMA UpdateAgrees ==
  ASSUME NEW v, NEW t, Agrees(v, t), NEW D, D \subseteq Index, NEW cells \in [D -> Cell]
  PROVE  Sent(v, Update(Scene(v, t), cells), D, cells)
<1> DEFINE sent == {i \in D : v[i] # cells[i]}
           nv == [i \in Index |-> IF i \in sent THEN cells[i] ELSE v[i]]
           nc == [i \in Index |-> IF i \in sent THEN cells[i] ELSE t.cells[i]]
           nt == [t EXCEPT !.cells = nc]
           u == Update(Scene(v, t), cells)
<1>1. v \in [Index -> Cell] /\ t \in TerminalType /\ t.cells \in [Index -> Cell]
  BY DEF Agrees, TerminalType
<1>2. DOMAIN cells = D
  OBVIOUS
<1>3. u = [view |-> nv, term |-> nt]
  BY <1>2 DEF Update, Scene
<1>4. nv \in [Index -> Cell] /\ nc \in [Index -> Cell]
  BY <1>1
<1>5. ASSUME NEW i \in Index
      PROVE  \/ nc[i] = nv[i]
             \/ nv[i] = Unseen /\ nc[i].ch = BLANK /\ nc[i].color.bg = BLACK
  BY <1>5 DEF Agrees
<1>6. /\ \A i \in D : nv[i] = cells[i]
      /\ \A i \in Index \ D : nv[i] = v[i]
  OBVIOUS
<1> HIDE DEF nc, nv
<1>7. nt \in TerminalType /\ nt.cells = nc
  BY <1>1, <1>4 DEF TerminalType
<1> HIDE DEF nt
<1>8. Agrees(nv, nt)
  BY <1>4, <1>5, <1>7 DEF Agrees
<1> HIDE DEF u
<1>9. u.view = nv /\ u.term = nt /\ u = Scene(u.view, u.term)
  BY <1>3 DEF Scene
<1>10. Sent(v, u, D, cells)
  BY <1>6, <1>8, <1>9 DEF Sent
<1> QED BY <1>10 DEF u

(* Drawing the cursor. *)
LEMMA CursorAgrees ==
  ASSUME NEW v, NEW t, Agrees(v, t), NEW x \in 0 .. WIDTH - 1, NEW y \in 0 .. CANV_H - 1
  PROVE  LET u == draw_cursor(Scene(v, t), x, y)
         IN  /\ Agrees(u.view, u.term)
             /\ u.view[At(x, y)] = Cursor
             /\ \A i \in Index \ {At(x, y)} : u.view[i] = v[i]
<1> DEFINE k == At(x, y)
           nv == [v EXCEPT ![k] = Cursor]
           nc == [t.cells EXCEPT ![k] = Cursor]
           a == [t EXCEPT !.cells = nc]
           b == [a EXCEPT !.x = x]
           c == [b EXCEPT !.y = y]
           u == draw_cursor(Scene(v, t), x, y)
<1>1. v \in [Index -> Cell] /\ t \in TerminalType /\ t.cells \in [Index -> Cell]
  BY DEF Agrees, TerminalType
<1>2. k \in Index /\ x \in 0 .. WIDTH - 1 /\ y \in 0 .. HEIGHT - 1
  <2>1. k \in Index
    BY Place, CanvasSize
  <2> QED BY <2>1, CanvasSize DEF CANV_H
<1>3. u = [view |-> nv, term |-> c]
  <2> DEFINE s0 == [view |-> v, term |-> t]
             s1 == [s0 EXCEPT !.view = [s0.view EXCEPT ![k] = Cursor]]
             s2 == [s1 EXCEPT !.term = [s1.term EXCEPT !.cells = [s1.term.cells EXCEPT ![k] = Cursor]]]
             s3 == [s2 EXCEPT !.term = [s2.term EXCEPT !.x = x]]
             s4 == [s3 EXCEPT !.term = [s3.term EXCEPT !.y = y]]
  <2>1. u = s4
    BY DEF draw_cursor, Scene
  <2> HIDE DEF u
  <2>2. s1 = [view |-> nv, term |-> t]
    OBVIOUS
  <2> HIDE DEF s1, nv
  <2>3. s2 = [view |-> nv, term |-> a]
    BY <2>2
  <2> HIDE DEF s2, a
  <2>4. s3 = [view |-> nv, term |-> b]
    BY <2>3
  <2> HIDE DEF s3, b
  <2>5. s4 = [view |-> nv, term |-> c]
    BY <2>4
  <2> QED BY <2>1, <2>5
<1>4. nv \in [Index -> Cell] /\ nc \in [Index -> Cell]
  BY <1>1, <1>2, Cells
<1>5. ASSUME NEW i \in Index
      PROVE  \/ nc[i] = nv[i]
             \/ nv[i] = Unseen /\ nc[i].ch = BLANK /\ nc[i].color.bg = BLACK
  BY <1>1, <1>2 DEF Agrees
<1>6. nv[k] = Cursor /\ \A i \in Index \ {k} : nv[i] = v[i]
  BY <1>1, <1>2
<1> HIDE DEF nc, nv, k
<1>7. a \in TerminalType /\ a.cells = nc
  BY <1>1, <1>4 DEF TerminalType
<1> HIDE DEF a
<1>8. b \in TerminalType /\ b.cells = a.cells
  BY <1>2, <1>7 DEF TerminalType
<1> HIDE DEF b
<1>9. c \in TerminalType /\ c.cells = b.cells
  BY <1>2, <1>8 DEF TerminalType
<1> HIDE DEF c, u
<1>10. Agrees(nv, c)
  BY <1>4, <1>5, <1>7, <1>8, <1>9 DEF Agrees
<1>11. u.view = nv /\ u.term = c
  BY <1>3
<1> QED BY <1>6, <1>10, <1>11 DEF u, k

-----------------------------------------------------------------------------
(* The inductive invariant *)

(* The view is the picture of canvas p with the cursor on cell k and the   *)
(* status line below.                                                      *)
Painted(v, p, k, line) ==
  /\ v[k] = Cursor
  /\ \A i \in Canvas \ {k} : v[i] = Block(p[i])
  /\ \A i \in Statusline : v[i] = StatusCells(line)[i]

StateOK ==
  /\ pix \in [Canvas -> Colours] /\ bit \in [Canvas -> Colours] \cup {NoFile, Foreign}
  /\ cx \in 0 .. WIDTH - 1 /\ cy \in 0 .. CANV_H - 1
  /\ fgcol \in 0 .. Len(Palette) - 1 /\ drawing \in BOOLEAN
  /\ stateline = status_build(drawing, fgcol)

PaintInv ==
  StateOK /\ (running => Agrees(view, term) /\ Painted(view, pix, At(cx, cy), stateline))

(* The cursor drawn over a picture of the canvas completes it.             *)
LEMMA CursorPaints ==
  ASSUME NEW v, NEW t, Agrees(v, t), NEW p, NEW line,
         NEW x \in 0 .. WIDTH - 1, NEW y \in 0 .. CANV_H - 1,
         \A i \in Canvas \ {At(x, y)} : v[i] = Block(p[i]),
         \A i \in Statusline : v[i] = StatusCells(line)[i]
  PROVE  LET u == draw_cursor(Scene(v, t), x, y)
         IN  Agrees(u.view, u.term) /\ Painted(u.view, p, At(x, y), line)
<1> DEFINE u == draw_cursor(Scene(v, t), x, y)
           k == At(x, y)
<1>1. /\ Agrees(u.view, u.term) /\ u.view[k] = Cursor
      /\ \A i \in Index \ {k} : u.view[i] = v[i]
  BY CursorAgrees
<1>2. k \in Canvas /\ Canvas \subseteq Index /\ Statusline \subseteq Index \ Canvas
  BY Place, CanvasSize DEF Statusline
<1> HIDE DEF u, k
<1>3. Painted(u.view, p, k, line)
  BY <1>1, <1>2 DEF Painted, k
<1> QED BY <1>1, <1>3 DEF u, k

(* Drawing everything makes the screen the picture, whatever was on it. *)
LEMMA Redrawn ==
  ASSUME StateOK, NEW v, NEW t, Agrees(v, t), NEW p \in [Canvas -> Colours],
         NEW x \in 0 .. WIDTH - 1, NEW y \in 0 .. CANV_H - 1
  PROVE  LET u == redraw_all(Scene(v, t), p, x, y)
         IN  Agrees(u.view, u.term) /\ Painted(u.view, p, At(x, y), stateline)
<1> DEFINE blocks == [i \in Canvas |-> Block(p[i])]
           status == StatusCells(stateline)
           a == Update(Scene(v, t), blocks)
           b == Update(a, status)
<1>1. blocks \in [Canvas -> Cell] /\ \A i \in Canvas : blocks[i] = Block(p[i])
  BY Cells
<1>2. status \in [Statusline -> Cell] /\ Statusline \subseteq Index /\ Statusline \cap Canvas = {}
  BY StatusType DEF StateOK
<1>3. Canvas \subseteq Index
  BY CanvasSize
<1>4. redraw_all(Scene(v, t), p, x, y) = draw_cursor(b, x, y)
  BY DEF redraw_all, flush_status, StatusCells
<1> HIDE DEF blocks
<1>5. Sent(v, a, Canvas, blocks)
  BY <1>1, <1>3, UpdateAgrees
<1> HIDE DEF a, status
<1>6. Sent(a.view, b, Statusline, status)
  <2>1. a = Scene(a.view, a.term) /\ Agrees(a.view, a.term)
    BY <1>5 DEF Sent
  <2>2. Sent(a.view, Update(Scene(a.view, a.term), status), Statusline, status)
    BY <1>2, <2>1, UpdateAgrees
  <2> QED BY <2>1, <2>2
<1> HIDE DEF b
<1>7. \A i \in Canvas \ {At(x, y)} : b.view[i] = Block(p[i])
  BY <1>1, <1>2, <1>3, <1>5, <1>6 DEF Sent
<1> DEFINE u == draw_cursor(Scene(b.view, b.term), x, y)
<1>8. Agrees(u.view, u.term) /\ Painted(u.view, p, At(x, y), stateline)
  BY <1>6, <1>7, CursorPaints DEF status, Sent
<1> HIDE DEF u
<1>9. redraw_all(Scene(v, t), p, x, y) = u
  BY <1>4, <1>6 DEF u, Sent
<1> QED BY <1>8, <1>9

(* One pixel is drawn.                                                     *)
LEMMA PixelDrawn ==
  ASSUME NEW v, NEW t, Agrees(v, t), NEW p \in [Canvas -> Colours], NEW k \in Canvas
  PROVE  Sent(v, draw_content(Scene(v, t), p, k), {k}, [j \in {k} |-> Block(p[j])])
<1>1. [j \in {k} |-> Block(p[j])] \in [{k} -> Cell] /\ {k} \subseteq Index
  BY Cells, CanvasSize
<1> QED BY <1>1, UpdateAgrees DEF draw_content

(* At the start everything is drawn on a cleared screen.                   *)
LEMMA PaintInit == Init => PaintInv
<1> SUFFICES ASSUME Init PROVE PaintInv
  OBVIOUS
<1> DEFINE v == [i \in Index |-> Unseen]
           t == term_clear(wm_init_term)
           u == redraw_all(Scene(v, t), pix, 0, 0)
<1>1. StateOK
  <2>1. pix \in [Canvas -> Colours]
    BY Cells DEF Init, Empty_canvas
  <2>2. 0 \in 0 .. WIDTH - 1 /\ 0 \in 0 .. CANV_H - 1 /\ fgcol0 \in 0 .. Len(Palette) - 1
    BY CanvasSize, PaletteAssumption
  <2> QED BY <2>1, <2>2 DEF Init, StateOK
<1>2. Agrees(v, t)
  <2>1. wm_init_term \in TerminalType /\ 0 \in 0 .. WIDTH - 1 /\ 0 \in 0 .. HEIGHT - 1
    BY CanvasSize, Cells DEF wm_init_term, TerminalType
  <2> DEFINE cells == [i \in Index |-> Empty]
             a == [wm_init_term EXCEPT !.cells = cells]
             b == [a EXCEPT !.x = 0]
             c == [b EXCEPT !.y = 0]
  <2>2. cells \in [Index -> Cell] /\ \A i \in Index : cells[i] = Empty
    BY Cells
  <2>3. t = c
    BY DEF term_clear
  <2> HIDE DEF cells, wm_init_term
  <2>4. a \in TerminalType /\ a.cells = cells
    BY <2>1, <2>2 DEF TerminalType
  <2> HIDE DEF a
  <2>5. b \in TerminalType /\ b.cells = a.cells
    BY <2>1, <2>4 DEF TerminalType
  <2> HIDE DEF b
  <2>6. c \in TerminalType /\ c.cells = b.cells
    BY <2>1, <2>5 DEF TerminalType
  <2> HIDE DEF c, t
  <2>7. v \in [Index -> Cell] /\ \A i \in Index : v[i] = Unseen
    BY Cells
  <2> HIDE DEF v
  <2> QED BY <2>2, <2>3, <2>4, <2>5, <2>6, <2>7, Cells DEF Agrees
<1>3. /\ view = u.view /\ term = u.term /\ cx = 0 /\ cy = 0
  BY DEF Init
<1>4. cx \in 0 .. WIDTH - 1 /\ cy \in 0 .. CANV_H - 1 /\ pix \in [Canvas -> Colours]
  BY <1>1 DEF StateOK
<1> HIDE DEF v, t
<1>5. Agrees(u.view, u.term) /\ Painted(u.view, pix, At(0, 0), stateline)
  BY <1>1, <1>2, <1>3, <1>4, Redrawn
<1> HIDE DEF u
<1> QED BY <1>1, <1>3, <1>5 DEF PaintInv

(* An arrow key: the pixel left is drawn, the pixel entered too, and the   *)
(* cursor over it.                                                         *)
LEMMA StepPaints ==
  ASSUME PaintInv, NEW dx \in Int, NEW dy \in Int, step(dx, dy)
  PROVE  PaintInv'
<1> DEFINE nx == cx + dx
           ny == cy + dy
           p == IF drawing THEN [pix EXCEPT ![At(nx, ny)] = Palette[fgcol + 1]] ELSE pix
           k == At(cx, cy)
           n == At(nx, ny)
<1>1. /\ StateOK /\ running /\ Agrees(view, term) /\ Painted(view, pix, k, stateline)
      /\ UNCHANGED <<modeVars, bit, running>>
  BY DEF PaintInv, step
<1>2. CASE nx \notin 0 .. WIDTH - 1 \/ ny \notin 0 .. CANV_H - 1
  <2>1. UNCHANGED <<pix, cx, cy, view, term>>
    BY <1>2 DEF step
  <2> QED BY <1>1, <2>1 DEF PaintInv, StateOK, modeVars
<1>3. CASE nx \in 0 .. WIDTH - 1 /\ ny \in 0 .. CANV_H - 1
  <2> DEFINE a == draw_content(Now, pix, k)
             b == draw_content(a, p, n)
             u == draw_cursor(b, nx, ny)
  <2>1. cx' = nx /\ cy' = ny /\ pix' = p /\ view' = u.view /\ term' = u.term
    BY <1>3 DEF step, Seen
  <2>2. k \in Canvas /\ n \in Canvas
    BY <1>1, <1>3, Place DEF StateOK
  <2>3. p \in [Canvas -> Colours] /\ \A i \in Canvas \ {n} : p[i] = pix[i]
    <3>1. fgcol + 1 \in 1 .. Len(Palette) /\ Palette \in Seq(Colours)
      BY <1>1, PaletteAssumption DEF StateOK
    <3>2. Palette[fgcol + 1] \in Colours
      BY <3>1, ElementOfSeq
    <3> QED BY <1>1, <2>2, <3>2 DEF StateOK
  <2>4. StateOK'
    BY <1>1, <1>3, <2>1, <2>3 DEF StateOK, modeVars
  <2>5. Sent(view, a, {k}, [j \in {k} |-> Block(pix[j])])
    <3>1. pix \in [Canvas -> Colours]
      BY <1>1 DEF StateOK
    <3> QED BY <1>1, <2>2, <3>1, PixelDrawn DEF Now
  <2> HIDE DEF k, n, p, a
  <2>6. Sent(a.view, b, {n}, [j \in {n} |-> Block(p[j])])
    <3>1. a = Scene(a.view, a.term) /\ Agrees(a.view, a.term)
      BY <2>5 DEF Sent
    <3>2. Sent(a.view, draw_content(Scene(a.view, a.term), p, n), {n}, [j \in {n} |-> Block(p[j])])
      BY <2>2, <2>3, <3>1, PixelDrawn
    <3> QED BY <3>1, <3>2
  <2> HIDE DEF b
  <2>7. b = Scene(b.view, b.term) /\ Agrees(b.view, b.term)
    BY <2>6 DEF Sent
  <2>8. ASSUME NEW i \in Canvas \ {n} PROVE b.view[i] = Block(p[i])
    <3>1. i \in Index /\ p[i] = pix[i] /\ b.view[i] = a.view[i]
      BY <2>3, <2>6, <2>8, CanvasSize DEF Sent
    <3>2. CASE i = k
      BY <2>5, <3>1, <3>2 DEF Sent
    <3>3. CASE i # k
      BY <1>1, <2>5, <3>1, <3>3 DEF Sent, Painted
    <3> QED BY <3>2, <3>3
  <2>9. ASSUME NEW i \in Statusline PROVE b.view[i] = StatusCells(stateline)[i]
    <3>1. i \in Index /\ i # k /\ i # n
      BY <2>2 DEF Statusline
    <3> QED BY <1>1, <2>5, <2>6, <3>1 DEF Sent, Painted
  <2> DEFINE c == draw_cursor(Scene(b.view, b.term), nx, ny)
  <2>10. Agrees(c.view, c.term) /\ Painted(c.view, p, At(nx, ny), stateline)
    BY <1>3, <2>7, <2>8, <2>9, CursorPaints DEF n
  <2>11. u = c
    BY <2>7
  <2> HIDE DEF u, c
  <2>12. Agrees(view', term') /\ Painted(view', pix', At(cx', cy'), stateline')
    BY <1>1, <2>1, <2>10, <2>11 DEF modeVars
  <2> QED BY <2>4, <2>12 DEF PaintInv
<1> QED BY <1>2, <1>3

(* A new mode or colour: only the status row and the cursor are sent.      *)
LEMMA ModePaints ==
  ASSUME PaintInv, NEW d \in BOOLEAN, NEW col \in 0 .. Len(Palette) - 1, set_mode(d, col)
  PROVE  PaintInv'
<1> DEFINE line == status_build(d, col)
           status == StatusCells(line)
           b == Update(Now, status)
           u == draw_cursor(b, cx, cy)
           k == At(cx, cy)
<1>1. /\ StateOK /\ running /\ Agrees(view, term) /\ Painted(view, pix, k, stateline)
      /\ UNCHANGED <<pix, cx, cy, bit, running>>
  BY DEF PaintInv, set_mode
<1>2. drawing' = d /\ fgcol' = col /\ stateline' = line /\ view' = u.view /\ term' = u.term
  BY DEF set_mode, Seen, flush_status, StatusCells
<1>3. StateOK'
  BY <1>1, <1>2 DEF StateOK
<1>4. status \in [Statusline -> Cell] /\ Statusline \subseteq Index /\ Statusline \cap Canvas = {}
  BY StatusType
<1> HIDE DEF line, status
<1>5. Sent(view, b, Statusline, status)
  BY <1>1, <1>4, UpdateAgrees DEF Now
<1> HIDE DEF b
<1>6. b = Scene(b.view, b.term) /\ Agrees(b.view, b.term)
  BY <1>5 DEF Sent
<1>7. /\ \A i \in Canvas \ {k} : b.view[i] = Block(pix[i])
      /\ \A i \in Statusline : b.view[i] = status[i]
  BY <1>1, <1>4, <1>5, CanvasSize DEF Sent, Painted
<1> DEFINE c == draw_cursor(Scene(b.view, b.term), cx, cy)
<1>8. cx \in 0 .. WIDTH - 1 /\ cy \in 0 .. CANV_H - 1
  BY <1>1 DEF StateOK
<1>9. Agrees(c.view, c.term) /\ Painted(c.view, pix, At(cx, cy), line)
  BY <1>6, <1>7, <1>8, CursorPaints DEF status
<1>10. u = c
  BY <1>6
<1> HIDE DEF u, c
<1>11. Agrees(view', term') /\ Painted(view', pix', At(cx', cy'), stateline')
  BY <1>1, <1>2, <1>9, <1>10
<1> QED BY <1>3, <1>11 DEF PaintInv

(* Clearing and loading draw everything again.                             *)
LEMMA ResetPaints ==
  ASSUME PaintInv, NEW p \in [Canvas -> Colours], Reset(p), running,
         UNCHANGED <<modeVars, bit, running>>
  PROVE  PaintInv'
<1> DEFINE u == redraw_all(Scene(view, term), p, 0, 0)
<1>1. StateOK /\ Agrees(view, term)
  BY DEF PaintInv
<1>2. pix' = p /\ cx' = 0 /\ cy' = 0 /\ view' = u.view /\ term' = u.term
  BY DEF Reset, Seen, Now
<1>3. 0 \in 0 .. WIDTH - 1 /\ 0 \in 0 .. CANV_H - 1
  BY CanvasSize
<1>4. StateOK'
  BY <1>1, <1>2, <1>3 DEF StateOK, modeVars
<1>5. Agrees(u.view, u.term) /\ Painted(u.view, p, At(0, 0), stateline)
  BY <1>1, <1>3, Redrawn
<1> HIDE DEF u
<1>6. Agrees(view', term') /\ Painted(view', pix', At(cx', cy'), stateline')
  BY <1>2, <1>5 DEF modeVars
<1> QED BY <1>4, <1>6 DEF PaintInv

(* Saving, and a load that fails, only draw the cursor.                    *)
LEMMA CursorOnly ==
  ASSUME PaintInv, running, Seen(draw_cursor(Now, cx, cy)), UNCHANGED <<pix, cx, cy, modeVars, running>>,
         bit' \in {pix, bit, Foreign}
  PROVE  PaintInv'
<1> DEFINE u == draw_cursor(Scene(view, term), cx, cy)
<1>1. StateOK /\ Agrees(view, term) /\ Painted(view, pix, At(cx, cy), stateline)
  BY DEF PaintInv
<1>2. view' = u.view /\ term' = u.term
  BY DEF Seen, Now
<1>3. StateOK'
  BY <1>1 DEF StateOK, modeVars
<1>4. cx \in 0 .. WIDTH - 1 /\ cy \in 0 .. CANV_H - 1
  BY <1>1 DEF StateOK
<1>5. Agrees(u.view, u.term) /\ Painted(u.view, pix, At(cx, cy), stateline)
  BY <1>1, <1>4, CursorPaints DEF Painted
<1> HIDE DEF u
<1>6. Agrees(view', term') /\ Painted(view', pix', At(cx', cy'), stateline')
  BY <1>2, <1>5 DEF modeVars
<1> QED BY <1>3, <1>6 DEF PaintInv

(* Each key keeps the picture.                                             *)
LEMMA PaintStep == PaintInv /\ [Next]_vars => PaintInv'
<1> SUFFICES ASSUME PaintInv, [Next]_vars PROVE PaintInv'
  OBVIOUS
<1>1. StateOK
  BY DEF PaintInv
<1>2. CASE step(0, -1) \/ step(0, 1) \/ step(-1, 0) \/ step(1, 0)
  <2>1. 0 \in Int /\ 1 \in Int /\ -1 \in Int
    OBVIOUS
  <2> QED BY <1>2, <2>1, StepPaints
<1>3. CASE Toggle \/ Previous \/ Following
  <2>1. /\ drawing \in BOOLEAN /\ fgcol \in 0 .. Len(Palette) - 1
        /\ Len(Palette) \in Nat \ {0}
    BY <1>1, PaletteAssumption, EmptySeq DEF StateOK
  <2>2. fgcol + Len(Palette) - 1 \in Nat /\ fgcol + 1 \in Nat
    BY <2>1
  <2>3. /\ (fgcol + Len(Palette) - 1) % Len(Palette) \in 0 .. Len(Palette) - 1
        /\ (fgcol + 1) % Len(Palette) \in 0 .. Len(Palette) - 1
    BY <2>1, <2>2, DivFacts
  <2>4. (~drawing) \in BOOLEAN
    <3>1. drawing = TRUE \/ drawing = FALSE
      BY <2>1
    <3> QED BY <3>1, Zenon
  <2> QED BY <1>3, <2>1, <2>3, <2>4, ModePaints DEF Toggle, Previous, Following
<1>4. CASE clear_canvas
  <2>1. Empty_canvas \in [Canvas -> Colours]
    BY Cells DEF Empty_canvas
  <2> QED BY <1>4, <2>1, ResetPaints DEF clear_canvas
<1>5. CASE save_bit
  BY <1>5, CursorOnly DEF save_bit
<1>6. CASE load_bit
  <2>1. CASE bit \notin {NoFile, Foreign} /\ Reset(bit)
    <3>1. bit \in [Canvas -> Colours]
      BY <1>1, <2>1 DEF StateOK
    <3> QED BY <1>6, <2>1, <3>1, ResetPaints DEF load_bit
  <2>2. CASE Seen(draw_cursor(Now, cx, cy)) /\ UNCHANGED <<pix, cx, cy>>
    BY <1>6, <2>2, CursorOnly DEF load_bit
  <2> QED BY <1>6, <2>1, <2>2 DEF load_bit
<1>7. CASE Leave
  BY <1>1, <1>7 DEF Leave, PaintInv, StateOK, modeVars
<1>8. CASE UNCHANGED vars
  BY <1>8 DEF vars, PaintInv, StateOK
<1> QED BY <1>2, <1>3, <1>4, <1>5, <1>6, <1>7, <1>8 DEF Next

(* While the program runs, the terminal shows the picture: moving,         *)
(* drawing, clearing and loading leave neither a trail nor a stale cell,   *)
(* although cells that the view calls up to date are never sent.           *)
THEOREM PictureAlwaysShown == Spec => []PictureShown
<1>1. Init => PaintInv
  BY PaintInit
<1>2. PaintInv /\ [Next]_vars => PaintInv'
  BY PaintStep
<1>3. PaintInv => PictureShown
  <2> SUFFICES ASSUME PaintInv, running PROVE PictureShown
    BY DEF PictureShown
  <2> DEFINE k == At(cx, cy)
  <2>1. StateOK /\ Agrees(view, term) /\ Painted(view, pix, k, stateline)
    BY DEF PaintInv
  <2>2. k \in Canvas
    BY <2>1, Place DEF StateOK
  <2>3. Cursor # Unseen /\ \A c : [ch |-> c, color |-> ATTR_STATUS] # Unseen
    BY Cells
  <2> HIDE DEF k
  <2>4. term.cells[k] = Cursor
    BY <2>1, <2>2, <2>3, CanvasSize DEF Agrees, Painted
  <2>5. ASSUME NEW i \in Canvas \ {k}
        PROVE  term.cells[i].ch = BLANK /\ term.cells[i].color.bg = pix[i]
    <3>1. i \in Index /\ view[i] = Block(pix[i])
      BY <2>1, CanvasSize DEF Painted
    <3>2. CASE term.cells[i] = view[i]
      BY <3>1, <3>2 DEF Block, VGA_COLOR
    <3>3. CASE view[i] = Unseen /\ term.cells[i].ch = BLANK /\ term.cells[i].color.bg = BLACK
      <4>1. Block(pix[i]).color.bg = Unseen.color.bg
        BY <3>1, <3>3
      <4>2. pix[i] = BLACK
        BY <4>1 DEF Block, Unseen, VGA_COLOR
      <4> QED BY <3>3, <4>2
    <3> QED BY <2>1, <3>1, <3>2, <3>3 DEF Agrees
  <2>6. ASSUME NEW i \in Statusline
        PROVE  term.cells[i] = [ch |-> status_build(drawing, fgcol)[i - WIDTH * CANV_H],
                                color |-> ATTR_STATUS]
    <3> DEFINE cell == [ch |-> stateline[i - WIDTH * CANV_H], color |-> ATTR_STATUS]
    <3>1. i \in Index /\ view[i] = cell
      BY <2>1 DEF Statusline, Painted, StatusCells
    <3>2. cell # Unseen
      BY <2>3
    <3> HIDE DEF cell
    <3>3. term.cells[i] = cell
      BY <2>1, <3>1, <3>2 DEF Agrees
    <3> QED BY <2>1, <3>3 DEF cell, StateOK
  <2> QED BY <2>4, <2>5, <2>6 DEF PictureShown, k
<1> QED BY <1>1, <1>2, <1>3, PTL DEF Spec

=============================================================================
