------------------------------- MODULE Mirror -------------------------------
(***************************************************************************)
(* The text interface library home/lib/mirror.c.  A program draws into a   *)
(* grid of cells (back); mirror_flush sends the cells that differ from     *)
(* what it last sent (front) to the terminal, one system call for each, or *)
(* clears the terminal when nothing but blanks is left.                    *)
(***************************************************************************)
EXTENDS Terminal, FiniteSets, FiniteSetsExt

CONSTANT Border   \* the glyphs of a box

NoCell == [ch |-> "0", color |-> VGA_COLOR(BLACK, BLACK)]
Cells(ch, attr) == [i \in Index |-> [ch |-> ch, color |-> attr]]
Onscreen(x, y) == x \in 0 .. WIDTH - 1 /\ y \in 0 .. HEIGHT - 1

mirror_init(attr) ==
  [back |-> Cells(BLANK, attr),
   front |-> IF attr.bg = BLACK THEN Cells(BLANK, attr) ELSE [i \in Index |-> NoCell]]

mirror_clear(m, attr) == [m EXCEPT !.back = Cells(BLANK, attr)]

mirror_putc(m, x, y, ch, attr) ==
  IF Onscreen(x, y) THEN [m EXCEPT !.back[At(x, y)] = [ch |-> ch, color |-> attr]] ELSE m

(* sys_goto_xy: the kernel ignores a place off the screen. *)
mirror_cursor(t, x, y) == IF Onscreen(x, y) THEN [t EXCEPT !.x = x, !.y = y] ELSE t

(* Some cells drawn over the others. *)
Over(m, cells) ==
  [m EXCEPT !.back = [i \in Index |-> IF i \in DOMAIN cells THEN cells[i] ELSE @[i]]]

(* emit: where the k-th character of the text s goes, from where s began. *)
Newlines(s, k) == {j \in 1 .. k - 1 : s[j] = NL}
Dx(s, k) == k - 1 - (IF Newlines(s, k) = {} THEN 0 ELSE Max(Newlines(s, k)))
Dy(s, k) == Cardinality(Newlines(s, k))

(* The text s from (x, y) on; it ends where a line of it would pass maxw   *)
(* columns (a negative maxw is no limit).                                  *)
put_sn(m, x, y, maxw, s, attr) ==
  LET drawn == {k \in DOMAIN s : /\ s[k] # NL /\ Onscreen(x + Dx(s, k), y + Dy(s, k))
                                 /\ maxw >= 0 => \A j \in 1 .. k : Dx(s, j) < maxw}
      place(k) == At(x + Dx(s, k), y + Dy(s, k))
  IN  Over(m, [i \in {place(k) : k \in drawn} |->
                 [ch |-> s[CHOOSE k \in drawn : place(k) = i], color |-> attr]])

Within(i, x, y, w, h) == i % WIDTH \in x .. x + w - 1 /\ i \div WIDTH \in y .. y + h - 1

mirror_fill(m, x, y, w, h, ch, attr) ==
  Over(m, [i \in {j \in Index : Within(j, x, y, w, h)} |-> [ch |-> ch, color |-> attr]])

(* The border, then the title over its upper edge. *)
mirror_box(m, x, y, w, h, attr, title) ==
  LET edge(i) == Within(i, x, y, w, h) /\ ~Within(i, x + 1, y + 1, w - 2, h - 2)
      framed == Over(m, [i \in {j \in Index : edge(j)} |-> [ch |-> Border, color |-> attr]])
  IN  IF w < 2 \/ h < 2 THEN m
      ELSE IF w > 4 THEN put_sn(framed, x + 2, y, w - 4, title, attr) ELSE framed

mirror_status(m, row, left, right, attr) ==
  LET filled == mirror_fill(m, 0, row, WIDTH, 1, BLANK, attr)
      said == put_sn(filled, 1, row, -1, left, attr)
      rx == IF WIDTH - 1 - Len(right) < 1 THEN 1 ELSE WIDTH - 1 - Len(right)
  IN  IF row \notin 0 .. HEIGHT - 1 THEN m
      ELSE IF right = <<>> THEN said ELSE put_sn(said, rx, row, WIDTH - rx - 1, right, attr)

-----------------------------------------------------------------------------
(* mirror_flush: what the terminal and the record of it become.            *)
Blank(m) == \A i \in Index : m.back[i].ch = BLANK /\ m.back[i].color.bg = BLACK

(* A plausible bug: only the characters are compared. *)
Differs_ch(m, i) == m.back[i].ch # m.front[i].ch

Differs(m, i) == m.back[i].ch # m.front[i].ch \/ m.back[i].color # m.front[i].color

Sent(m, t) ==
  IF Blank(m) THEN term_clear(t)
  ELSE [t EXCEPT !.cells = [i \in Index |-> IF Differs(m, i) /\ m.back[i].ch # NL
                                            THEN m.back[i] ELSE @[i]]]

Flushed(m) == [m EXCEPT !.front = m.back]

=============================================================================
