------------------------------ MODULE Terminal ------------------------------
(***************************************************************************)
(* A text terminal of kernel/wm.c: a grid of character cells with a        *)
(* cursor, and the copy of it on the screen.  A terminal is a record; the  *)
(* operators below are the functions of wm.c, from a terminal to the       *)
(* terminal they leave behind.                                             *)
(***************************************************************************)
EXTENDS Integers, Sequences

CONSTANTS
  WIDTH,      \* 80 columns
  HEIGHT,     \* 25 rows
  Chars,      \* characters with a glyph, the blank among them
  BLANK,      \* ' '
  NL,         \* '\n', which moves the cursor and has no glyph
  Colours,
  BLACK, WHITE

ASSUME SizeAssumption == WIDTH \in Nat \ {0} /\ HEIGHT \in Nat \ {0}
ASSUME CharAssumption == BLANK \in Chars /\ NL \notin Chars
ASSUME ColourAssumption == BLACK \in Colours /\ WHITE \in Colours

VGA_COLOR(bg, fg) == [bg |-> bg, fg |-> fg]
Color == [bg : Colours, fg : Colours]
Plain == VGA_COLOR(BLACK, WHITE)

Index == 0 .. WIDTH * HEIGHT - 1
Cell == [ch : Chars, color : Color]

(* The line typed so far is buf, and prompt says that the terminal shows a *)
(* prompt before it.                                                       *)
TerminalType ==
  [x : 0 .. WIDTH - 1, y : 0 .. HEIGHT - 1, cells : [Index -> Cell],
   buf : Seq(Chars), prompt : BOOLEAN]

At(x, y) == y * WIDTH + x
CaretIndex(t) == At(t.x, t.y)

-----------------------------------------------------------------------------
Empty == [ch |-> BLANK, color |-> Plain]

term_clear(t) == [t EXCEPT !.cells = [i \in Index |-> Empty], !.x = 0, !.y = 0]

wm_init_term ==
  [x |-> 0, y |-> 0, cells |-> [i \in Index |-> Empty], buf |-> <<>>, prompt |-> FALSE]

Scrolled(cells) ==
  [i \in Index |-> IF i < WIDTH * (HEIGHT - 1) THEN cells[i + WIDTH] ELSE Empty]

term_scroll(t) == [t EXCEPT !.cells = Scrolled(t.cells), !.y = HEIGHT - 1]

Write(t, i, c, color) == [t EXCEPT !.cells[i] = [ch |-> c, color |-> color]]

(* A plausible bug: the cursor leaves the grid. *)
Newline_no_scroll(t) == [t EXCEPT !.x = 0, !.y = @ + 1]

(* Move to column 0 of the next row, which may lie below the grid. *)
Newline(t) ==
  IF t.y = HEIGHT - 1 THEN [term_scroll(t) EXCEPT !.x = 0] ELSE [t EXCEPT !.x = 0, !.y = @ + 1]

term_putchar(t, c, color) ==
  IF c = NL THEN Newline(t)
  ELSE LET w == Write(t, CaretIndex(t), c, color)
       IN  IF t.x = WIDTH - 1 THEN Newline(w) ELSE [w EXCEPT !.x = @ + 1]

term_putchar_at(t, c, x, y, color) == IF c = NL THEN t ELSE Write(t, At(x, y), c, color)

(* A plausible bug: the wrap back to the row above is forgotten. *)
term_backspace_in_row(t) ==
  IF t.x = 0 THEN t
  ELSE LET b == [t EXCEPT !.x = @ - 1] IN [b EXCEPT !.cells[CaretIndex(b)].ch = BLANK]

(* The cell loses its character and keeps its colour. *)
term_backspace(t) ==
  IF t.x = 0 /\ t.y = 0 THEN t
  ELSE LET b == IF t.x > 0 THEN [t EXCEPT !.x = @ - 1]
                ELSE [t EXCEPT !.x = WIDTH - 1, !.y = @ - 1]
       IN  [b EXCEPT !.cells[CaretIndex(b)].ch = BLANK]

-----------------------------------------------------------------------------
(* The screen: video memory, a grid of cells of its own.                   *)
Inverted(cell) == [cell EXCEPT !.color = VGA_COLOR(@.fg, @.bg)]

(* What the terminal should look like: its cells, the caret's inverted. *)
Picture(t) ==
  [i \in Index |-> IF i = CaretIndex(t) THEN Inverted(t.cells[i]) ELSE t.cells[i]]

Row(y) == At(0, y) .. At(WIDTH - 1, y)

wm_blit(t) == Picture(t)
wm_blit_row(vga, t, y) == [i \in Index |-> IF i \in Row(y) THEN Picture(t)[i] ELSE vga[i]]

=============================================================================
