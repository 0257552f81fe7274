-------------------------------- MODULE Paint --------------------------------
(***************************************************************************)
(* The drawing program home/paint.c on a kernel terminal: a canvas of      *)
(* coloured pixels above a status row.  view is what the program believes  *)
(* to be on the screen; it sends a cell only when view says otherwise.     *)
(* The status text is reduced to two glyphs, the mode's and the colour's.  *)
(***************************************************************************)
EXTENDS Terminal

CONSTANTS
  Palette,         \* the colours that [ and ] go through, in order
  fgcol0,          \* the index of the first one used
  Star,            \* '*'
  DRAW, MOVE,      \* glyphs of the two modes
  Swatch,          \* colour -> the glyph that names it
  BLUE,
  NoFile, Foreign  \* no paint.bit; one with another size or magic

ASSUME CanvasAssumption == HEIGHT > 1 /\ WIDTH >= 2
ASSUME PaletteAssumption ==
  /\ Palette \in Seq(Colours) /\ Palette # <<>> /\ BLACK = Palette[1]
  /\ BLUE \in Colours \ {BLACK} /\ fgcol0 \in 0 .. Len(Palette) - 1
ASSUME GlyphAssumption ==
  /\ Star \in Chars \ {BLANK} /\ DRAW \in Chars /\ MOVE \in Chars
  /\ \A i \in 1 .. Len(Palette) : Swatch[Palette[i]] \in Chars

VARIABLES pix, view, stateline, cx, cy, fgcol, drawing, term, bit, running

vars == <<pix, view, stateline, cx, cy, fgcol, drawing, term, bit, running>>

CANV_H == HEIGHT - 1
STATUS_ROW == HEIGHT - 1
Canvas == 0 .. WIDTH * CANV_H - 1
Statusline == Index \ Canvas

ATTR_STATUS == VGA_COLOR(BLUE, WHITE)
ATTR_CURSOR == VGA_COLOR(BLACK, WHITE)

(* A pixel: a blank on its colour. *)
Block(col) == [ch |-> BLANK, color |-> VGA_COLOR(col, col)]
Cursor == [ch |-> Star, color |-> ATTR_CURSOR]
Unseen == Block(BLACK)

(* What the code keeps of the screen: the program's view and the terminal. *)
Scene(v, t) == [view |-> v, term |-> t]
Now == Scene(view, term)

(* Cells sent to the terminal wherever the view differs from them. *)
Update(sc, cells) ==
  LET sent == {i \in DOMAIN cells : sc.view[i] # cells[i]}
  IN  [view |-> [i \in Index |-> IF i \in sent THEN cells[i] ELSE sc.view[i]],
       term |-> [sc.term EXCEPT !.cells = [i \in Index |-> IF i \in sent THEN cells[i] ELSE @[i]]]]

(* A plausible bug: the cursor is drawn behind the view's back. *)
draw_cursor_unnoted(sc, x, y) ==
  [sc EXCEPT !.term.cells[At(x, y)] = Cursor, !.term.x = x, !.term.y = y]

(* The cursor, sent whatever the view says; sys_goto_xy moves the caret. *)
draw_cursor(sc, x, y) ==
  [sc EXCEPT !.view[At(x, y)] = Cursor,
             !.term.cells[At(x, y)] = Cursor, !.term.x = x, !.term.y = y]

draw_content(sc, p, i) == Update(sc, [j \in {i} |-> Block(p[i])])

status_build(d, col) ==
  [x \in 0 .. WIDTH - 1 |-> CASE x = 0 -> IF d THEN DRAW ELSE MOVE
                              [] x = 1 -> Swatch[Palette[col + 1]]
                              [] OTHER -> BLANK]

flush_status(sc, line) ==
  Update(sc, [i \in Statusline |-> [ch |-> line[i - WIDTH * CANV_H], color |-> ATTR_STATUS]])

redraw_all(sc, p, x, y) ==
  draw_cursor(flush_status(Update(sc, [i \in Canvas |-> Block(p[i])]), stateline), x, y)

Seen(sc) == view' = sc.view /\ term' = sc.term

-----------------------------------------------------------------------------
Empty_canvas == [i \in Canvas |-> BLACK]
modeVars == <<stateline, fgcol, drawing>>

(* init_canvas, sys_clear, status_build and redraw_all, on a terminal with *)
(* anything on it.                                                         *)
Init ==
  /\ pix = Empty_canvas /\ cx = 0 /\ cy = 0 /\ fgcol = fgcol0 /\ drawing = FALSE
  /\ stateline = status_build(FALSE, fgcol0)
  /\ bit \in {NoFile, Foreign} /\ running = TRUE
  /\ LET sc == redraw_all(Scene([i \in Index |-> Unseen], term_clear(wm_init_term)), pix, 0, 0)
     IN  view = sc.view /\ term = sc.term

(* An arrow key. *)
step(dx, dy) ==
  /\ running
  /\ LET nx == cx + dx
         ny == cy + dy
         p == IF drawing THEN [pix EXCEPT ![At(nx, ny)] = Palette[fgcol + 1]] ELSE pix
     IN  IF nx \notin 0 .. WIDTH - 1 \/ ny \notin 0 .. CANV_H - 1
         THEN UNCHANGED <<pix, cx, cy, view, term>>
         ELSE /\ cx' = nx /\ cy' = ny /\ pix' = p
              /\ Seen(draw_cursor(draw_content(draw_content(Now, pix, At(cx, cy)), p, At(nx, ny)),
                                  nx, ny))
  /\ UNCHANGED <<modeVars, bit, running>>

(* Space, [ or ]: set_mode shows the new status. *)
set_mode(d, col) ==
  /\ running
  /\ drawing' = d /\ fgcol' = col /\ stateline' = status_build(d, col)
  /\ Seen(draw_cursor(flush_status(Now, status_build(d, col)), cx, cy))
  /\ UNCHANGED <<pix, cx, cy, bit, running>>

Toggle == set_mode(~drawing, fgcol)
Previous == set_mode(drawing, (fgcol + Len(Palette) - 1) % Len(Palette))
Following == set_mode(drawing, (fgcol + 1) % Len(Palette))

(* The canvas becomes p and the cursor goes to its first pixel. *)
Reset(p) == pix' = p /\ cx' = 0 /\ cy' = 0 /\ Seen(redraw_all(Now, p, 0, 0))

clear_canvas ==
  running /\ Reset(Empty_canvas) /\ UNCHANGED <<modeVars, bit, running>>

(* The file is written, or it is not, or it is left half written; nobody   *)
(* is told.                                                                *)
save_bit ==
  /\ running
  /\ bit' \in {pix, bit, Foreign}
  /\ Seen(draw_cursor(Now, cx, cy))
  /\ UNCHANGED <<pix, cx, cy, modeVars, running>>

(* A file that cannot be read, or is not a picture of this size, changes   *)
(* nothing.  The code takes any byte as a pixel; here the pictures are the *)
(* ones this program draws, in its own colours, and a file that holds      *)
(* other bytes is not followed.                                            *)
load_bit ==
  /\ running
  /\ \/ bit \notin {NoFile, Foreign} /\ Reset(bit)
     \/ Seen(draw_cursor(Now, cx, cy)) /\ UNCHANGED <<pix, cx, cy>>
  /\ UNCHANGED <<modeVars, bit, running>>

(* Escape: sys_clear and sys_exit. *)
Leave ==
  /\ running /\ running' = FALSE
  /\ term' = term_clear(term)
  /\ UNCHANGED <<pix, view, cx, cy, modeVars, bit>>

Next ==
  \/ step(0, -1) \/ step(0, 1) \/ step(-1, 0) \/ step(1, 0)
  \/ Toggle \/ Previous \/ Following
  \/ clear_canvas \/ save_bit \/ load_bit \/ Leave

Spec == Init /\ [][Next]_vars

-----------------------------------------------------------------------------
(* While the program runs the terminal shows the picture: under the cursor *)
(* a star, and everywhere else the pixel's colour (the foreground of a     *)
(* blank cannot be seen); below it the mode and colour in use.  Moving,    *)
(* clearing and loading leave neither a trail nor a stale cell.            *)
PictureShown ==
  running =>
    /\ term.cells[At(cx, cy)] = Cursor
    /\ \A i \in Canvas \ {At(cx, cy)} :
         term.cells[i].ch = BLANK /\ term.cells[i].color.bg = pix[i]
    /\ \A i \in Statusline :
         term.cells[i] = [ch |-> status_build(drawing, fgcol)[i - WIDTH * CANV_H], color |-> ATTR_STATUS]

=============================================================================
