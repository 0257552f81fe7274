------------------------------- MODULE Editor -------------------------------
(***************************************************************************)
(* The text editor home/edit.c on the mirror library and a kernel          *)
(* terminal.  One action is one turn of its loop: a key is handled, the    *)
(* view is corrected, the screen is drawn and flushed.  Positions are the  *)
(* program's: p stands before buf[p + 1], from 0 to len.                   *)
(*                                                                         *)
(* What the characters of a command line spell is chosen when it is run;   *)
(* messages are left out, and a status text is a single glyph.             *)
(***************************************************************************)
EXTENDS Mirror

CONSTANTS
  TEXT_TOP, TEXT_BOT,        \* rows of the text area
  BUF_MAX, TAB_W, CMD_MAX, FS_MAX_NAME,
  TAB,                       \* '\t'; every other byte has a glyph here
  Typed,                     \* printable characters that the user types
  NameKeys,                  \* characters of names
  Contents,                  \* contents the files may have at first
  Missing, TooBig, Damaged,  \* no file; one beyond BUF_MAX - 1; one half written
  Field,                     \* the input field of the start screen: [x, y, w]
  BLUE, CYAN,
  LATE_READ_FAULTS           \* whether the disk may fail after a read's first sector

ASSUME LayoutAssumption ==
  /\ TEXT_TOP = 1 /\ TEXT_BOT = HEIGHT - 2 /\ TEXT_BOT >= TEXT_TOP
  /\ CMD_MAX \in Nat /\ CMD_MAX + 2 < WIDTH /\ TAB_W \in Nat \ {0} /\ BUF_MAX \in Nat \ {0}
  /\ LATE_READ_FAULTS \in BOOLEAN
ASSUME TextAssumption ==
  /\ TAB \notin Chars \cup {NL} /\ Typed \cup NameKeys \cup {Border} \subseteq Chars
  /\ Contents \subseteq Seq(Chars \cup {NL, TAB}) /\ FS_MAX_NAME \in Nat \ {0}
  /\ Missing # TooBig /\ Damaged \notin {Missing, TooBig}
  /\ Field \in [x : Nat, y : Nat, w : Nat \ {0}]
  /\ BLUE \in Colours \ {BLACK} /\ CYAN \in Colours

VARIABLES ed, screen, term, files, phase

vars == <<ed, screen, term, files, phase>>

ATTR_TEXT == VGA_COLOR(BLACK, WHITE)
ATTR_STATUS == VGA_COLOR(BLUE, WHITE)
ATTR_FIELD == VGA_COLOR(CYAN, WHITE)

NoName == <<>>
Name == UNION {[1 .. n -> NameKeys] : n \in 1 .. FS_MAX_NAME - 1}

NewEditor ==
  [buf |-> <<>>, pos |-> 0, top |-> 0, offx |-> 0, dirty |-> FALSE, cmd_mode |-> FALSE,
   cmd_len |-> 0, fname |-> NoName]

(* The buffer holds len bytes in use. *)
len(e) == Len(e.buf)
TEXT_ROWS == TEXT_BOT - TEXT_TOP + 1

-----------------------------------------------------------------------------
(* Lines and columns.                                                      *)
line_begin(e, p) ==
  CHOOSE b \in 0 .. p : /\ b = 0 \/ e.buf[b] = NL
                        /\ \A i \in b + 1 .. p : e.buf[i] # NL

line_end(e, p) ==
  CHOOSE f \in p .. len(e) : /\ f = len(e) \/ e.buf[f + 1] = NL
                             /\ \A i \in p + 1 .. f : e.buf[i] # NL

Advance(c, ch) == c + (IF ch = TAB THEN TAB_W - (c % TAB_W) ELSE 1)

(* The columns of the positions s .. f, s standing in column 0. *)
Columns(e, s, f) ==
  LET c[i \in s .. f] == IF i = s THEN 0 ELSE Advance(c[i - 1], e.buf[i]) IN c

(* A plausible bug: a tab counts as any other character. *)
col_of_flat(e, p) == p - line_begin(e, p)

col_of(e, p) == Columns(e, line_begin(e, p), p)[p]

pos_for_col(e, start, target) ==
  LET f == line_end(e, start)
      c == Columns(e, start, f)
      i == CHOOSE j \in start .. f : /\ j = f \/ c[j] >= target
                                     /\ \A k \in start .. j - 1 : c[k] < target
  IN  IF c[i] > target /\ i > start THEN i - 1 ELSE i

-----------------------------------------------------------------------------
(* Editing.                                                                *)
do_backspace(e) ==
  IF e.pos <= 0 THEN e
  ELSE [e EXCEPT !.buf = SubSeq(@, 1, e.pos - 1) \o SubSeq(@, e.pos + 1, len(e)),
                 !.pos = @ - 1, !.dirty = TRUE]

do_insert(e, ch, n) ==
  IF len(e) + n >= BUF_MAX THEN e
  ELSE [e EXCEPT !.buf = SubSeq(@, 1, e.pos) \o [i \in 1 .. n |-> ch] \o SubSeq(@, e.pos + 1, len(e)),
                 !.pos = @ + n, !.dirty = TRUE]

(* Where the lines on the screen begin when the first begins at s; beyond  *)
(* the text after the last line.                                           *)
LineStarts(e, s) ==
  LET at[n \in 0 .. TEXT_ROWS - 1] ==
        IF n = 0 THEN s
        ELSE IF at[n - 1] > len(e) THEN at[n - 1]
        ELSE IF line_end(e, at[n - 1]) < len(e) THEN line_end(e, at[n - 1]) + 1
        ELSE len(e) + 1
  IN at

(* The line of the cursor on the screen, then its column. *)
scroll_fix(e) ==
  LET lb == line_begin(e, e.pos)
      up[t \in 0 .. len(e) + 1] == IF lb < t THEN up[line_begin(e, t - 1)] ELSE t
      down[t \in 0 .. len(e) + 1] ==
        IF lb <= LineStarts(e, t)[TEXT_ROWS - 1] THEN t ELSE down[line_end(e, t) + 1]
      c == col_of(e, e.pos)
  IN  [e EXCEPT !.top = down[up[@]],
                !.offx = IF c < @ THEN c ELSE IF c >= @ + WIDTH THEN c - (WIDTH - 1) ELSE @]

-----------------------------------------------------------------------------
(* Drawing.                                                                *)
(* The characters of the row where the line from s on is shown. *)
draw_line(e, s) ==
  LET f == IF s > len(e) THEN s ELSE line_end(e, s)
      c == Columns(e, s, f)
      shown(x) == {i \in s + 1 .. f : c[i - 1] - e.offx = x /\ e.buf[i] # TAB}
  IN  [x \in 0 .. WIDTH - 1 |->
         IF shown(x) = {} THEN BLANK ELSE e.buf[CHOOSE i \in shown(x) : TRUE]]

Marked == <<Border>>

draw(e, m) ==
  LET starts == LineStarts(e, e.top)
      lines == [row \in TEXT_TOP .. TEXT_BOT |-> draw_line(e, starts[row - TEXT_TOP])]
      text == [m EXCEPT !.back = [i \in Index |->
                 IF i \div WIDTH \in TEXT_TOP .. TEXT_BOT
                 THEN [ch |-> lines[i \div WIDTH][i % WIDTH], color |-> ATTR_TEXT] ELSE @[i]]]
      titled == mirror_status(text, 0, <<>>, IF e.dirty THEN Marked ELSE <<>>, ATTR_STATUS)
  IN  mirror_status(titled, HEIGHT - 1, <<>>, IF e.cmd_mode THEN Marked ELSE <<>>, ATTR_STATUS)

Caret(e, t) ==
  IF e.cmd_mode THEN mirror_cursor(t, 2 + e.cmd_len, HEIGHT - 1)
  ELSE mirror_cursor(t, col_of(e, e.pos) - e.offx,
                     TEXT_TOP + Cardinality({i \in e.top + 1 .. e.pos : e.buf[i] = NL}))

(* The end of a turn: scroll_fix, draw and mirror_flush. *)
Shown(e) ==
  \E given \in {e} : \E fixed \in {scroll_fix(given)} : \E drawn \in {draw(fixed, screen)} :
    /\ ed' = fixed
    /\ screen' = Flushed(drawn)
    /\ \E t \in {Caret(fixed, term)} : term' = Sent(drawn, t)

-----------------------------------------------------------------------------
(* Files.  A read fails when there is no file, when it is too big, or when *)
(* the disk fails; a write may fail before or after it spoiled the file.   *)
Held(name) ==
  CASE files[name] = Damaged -> Contents
    [] files[name] \in {Missing, TooBig} -> {}
    [] OTHER -> {files[name]}

Loaded(e, name, data) ==
  [e EXCEPT !.buf = data, !.pos = 0, !.top = 0, !.offx = 0, !.dirty = FALSE, !.fname = name]

(* The first n sectors of data over the buffer, whose length stays; a      *)
(* sector is one byte here.                                                *)
Overwritten(e, data, n) == [e EXCEPT !.buf = [i \in DOMAIN @ |-> IF i <= n THEN data[i] ELSE @[i]]]

(* What the editor may be after load_into failed. *)
LoadFailed(e, name) ==
  {e} \cup UNION {{Overwritten(e, data, n) : n \in 1 .. Len(data) - 1} :
                   data \in IF LATE_READ_FAULTS THEN Held(name) ELSE {}}

(* A plausible bug: the buffer counts as saved when the disk refused it. *)
save_file_assumed(e, name) ==
  \/ /\ name \notin Name
     /\ Shown(e) /\ UNCHANGED files
  \/ /\ name \in Name
     /\ \/ files' = [files EXCEPT ![name] = e.buf]
        \/ UNCHANGED files
     /\ Shown([e EXCEPT !.fname = name, !.dirty = FALSE])

(* save_file and the turn that shows its outcome. *)
save_file(e, name) ==
  \/ /\ name \notin Name
     /\ Shown(e) /\ UNCHANGED files
  \/ /\ name \in Name
     /\ files' = [files EXCEPT ![name] = e.buf]
     /\ Shown([e EXCEPT !.fname = name, !.dirty = FALSE])
  \/ /\ name \in Name
     /\ files' \in {files, [files EXCEPT ![name] = Damaged]}
     /\ Shown(e)

(* The editor leaves, and its memory is gone: a blank screen, sys_exit. *)
Quit ==
  LET blank == mirror_clear(screen, ATTR_TEXT)
  IN  /\ phase' = "done" /\ ed' = NewEditor
      /\ screen' = Flushed(blank) /\ term' = Sent(blank, term)

-----------------------------------------------------------------------------
(* Keys.                                                                   *)
edit_key(e, k) ==
  LET lb == line_begin(e, e.pos)
      f == line_end(e, e.pos)
  IN  CASE k = "esc" -> [e EXCEPT !.cmd_mode = TRUE, !.cmd_len = 0]
        [] k = "left" -> [e EXCEPT !.pos = IF @ > 0 THEN @ - 1 ELSE @]
        [] k = "right" -> [e EXCEPT !.pos = IF @ < len(e) THEN @ + 1 ELSE @]
        [] k = "up" -> IF lb > 0
                       THEN [e EXCEPT !.pos = pos_for_col(e, line_begin(e, lb - 1), col_of(e, @))]
                       ELSE e
        [] k = "down" -> IF f < len(e) THEN [e EXCEPT !.pos = pos_for_col(e, f + 1, col_of(e, @))]
                         ELSE e
        [] k = "backspace" -> do_backspace(e)
        [] k = "tab" -> do_insert(e, BLANK, TAB_W - (col_of(e, e.pos) % TAB_W))
        [] OTHER -> do_insert(e, k, 1)

EditKeys == {"esc", "left", "right", "up", "down", "backspace", "tab", NL} \cup Typed

Editing == phase = "edit"

EditKey(k) ==
  /\ Editing /\ ~ed.cmd_mode
  /\ Shown(edit_key(ed, k))
  /\ UNCHANGED <<files, phase>>

(* A key on the command line, enter apart. *)
CmdKey(k) ==
  /\ Editing /\ ed.cmd_mode
  /\ Shown(CASE k = "esc" -> [ed EXCEPT !.cmd_mode = FALSE]
             [] k = "backspace" -> IF ed.cmd_len > 0 THEN [ed EXCEPT !.cmd_len = @ - 1]
                                   ELSE [ed EXCEPT !.cmd_mode = FALSE]
             [] k = "printable" -> [ed EXCEPT !.cmd_len = IF @ < CMD_MAX THEN @ + 1 ELSE @])
  /\ UNCHANGED <<files, phase>>

(* Enter on the command line; a line of no characters does nothing, and    *)
(* neither does one of blanks or of an unknown command.                    *)
Command == [ed EXCEPT !.cmd_mode = FALSE]
Commanded == Editing /\ ed.cmd_mode

NoCommand == Commanded /\ Shown(Command) /\ UNCHANGED <<files, phase>>

CmdQ ==
  /\ Commanded /\ ed.cmd_len > 0
  /\ \/ ed.dirty /\ Shown(Command) /\ UNCHANGED phase
     \/ Quit          \* q on a clean buffer, or q!
  /\ UNCHANGED files

CmdW(name) ==
  /\ Commanded /\ ed.cmd_len > 0
  /\ save_file(Command, name) /\ UNCHANGED phase

(* wq: leaves when the save succeeded. *)
CmdWq ==
  /\ Commanded /\ ed.cmd_len > 0
  /\ \/ ed.fname \in Name /\ files' = [files EXCEPT ![ed.fname] = ed.buf]
        /\ Quit
     \/ ed.fname \in Name /\ files' \in {files, [files EXCEPT ![ed.fname] = Damaged]}
        /\ Shown(Command) /\ UNCHANGED phase
     \/ ed.fname \notin Name /\ Shown(Command)
        /\ UNCHANGED <<files, phase>>

CmdN ==
  /\ Commanded /\ ed.cmd_len > 0
  /\ Shown(IF ed.dirty THEN Command
           ELSE Loaded(Command, NoName, <<>>))
  /\ UNCHANGED <<files, phase>>

CmdE(name) ==
  /\ Commanded /\ ed.cmd_len > 0
  /\ \/ ed.dirty /\ Shown(Command)
     \/ /\ ~ed.dirty /\ name \in Name
        /\ \E data \in Held(name) : Shown(Loaded(Command, name, data))
     \/ ~ed.dirty /\ name \notin Name /\ Shown(Command)
  /\ UNCHANGED <<files, phase>>

(* load_into fails: no such file. *)
CmdEFails(name) ==
  /\ Commanded /\ ed.cmd_len > 0 /\ ~ed.dirty /\ name \in Name
  /\ \E e \in LoadFailed(Command, name) : Shown(e)
  /\ UNCHANGED <<files, phase>>

-----------------------------------------------------------------------------
(* The start screen: mirror_input asks for a name.  During it ed.fname     *)
(* holds the name so far and ed.pos the caret in it.                       *)
FieldShown(e, m) ==
  LET off == IF e.pos >= Field.w THEN e.pos - Field.w + 1 ELSE 0
      shown == SubSeq(e.fname, off + 1, Len(e.fname))
  IN  put_sn(mirror_fill(m, Field.x, Field.y, Field.w, 1, BLANK, ATTR_FIELD),
             Field.x, Field.y, Field.w, shown, ATTR_FIELD)

FieldCaret(e) == Field.x + e.pos - (IF e.pos >= Field.w THEN e.pos - Field.w + 1 ELSE 0)

Asking(e, m, t) ==
  /\ ed' = e
  /\ screen' = Flushed(FieldShown(e, m))
  /\ term' = Sent(FieldShown(e, m), mirror_cursor(t, FieldCaret(e), Field.y))

Corner(t) == mirror_cursor(t, WIDTH - 1, HEIGHT - 1)

(* _start up to the first key: mirror_init, the dialog and its field. *)
StartScreen ==
  LET titled == mirror_status(mirror_init(ATTR_TEXT), 0, <<>>, Marked, ATTR_STATUS)
      boxed == mirror_box(titled, 0, TEXT_TOP, WIDTH, TEXT_ROWS, ATTR_TEXT, <<>>)
  IN  mirror_status(boxed, HEIGHT - 1, <<>>, Marked, ATTR_STATUS)

(* The terminal is the shell's: any characters may stand on it. *)
Init ==
  /\ files \in [Name -> Contents \cup {Missing, TooBig}]
  /\ phase = "start" /\ ed = NewEditor
  /\ screen = Flushed(FieldShown(NewEditor, StartScreen))
  /\ \E c \in {BLANK, Border} :
       LET shell == [wm_init_term EXCEPT !.cells = Cells(c, Plain)]
       IN  term = Sent(FieldShown(NewEditor, StartScreen),
                       mirror_cursor(Corner(term_clear(shell)), FieldCaret(NewEditor), Field.y))

(* What a key does to the name and the caret in it. *)
field_key(e, k) ==
  LET name == e.fname
      p == e.pos
  IN  CASE k = "backspace" -> IF p = 0 THEN e
             ELSE [e EXCEPT !.fname = SubSeq(name, 1, p - 1) \o SubSeq(name, p + 1, Len(name)),
                            !.pos = @ - 1]
        [] k = "left" -> [e EXCEPT !.pos = IF @ > 0 THEN @ - 1 ELSE @]
        [] k = "right" -> [e EXCEPT !.pos = IF @ < Len(name) THEN @ + 1 ELSE @]
        [] OTHER -> IF Len(name) >= FS_MAX_NAME - 1 THEN e
             ELSE [e EXCEPT !.fname = SubSeq(name, 1, p) \o <<k>> \o SubSeq(name, p + 1, Len(name)),
                            !.pos = @ + 1]

FieldKey(k) ==
  /\ phase = "start" /\ Asking(field_key(ed, k), screen, term)
  /\ UNCHANGED <<files, phase>>

(* Enter or escape in the field, and the rest of startup: a name that      *)
(* cannot be read starts an empty buffer that is to be saved under it.     *)
Begun(e) == Shown(e) /\ phase' = "edit" /\ UNCHANGED files

FieldEscape == phase = "start" /\ Begun(NewEditor)

FieldEnter ==
  /\ phase = "start"
  /\ \/ ed.fname = NoName /\ Begun(NewEditor)
     \/ ed.fname # NoName /\ \E data \in Held(ed.fname) : Begun(Loaded(NewEditor, ed.fname, data))
     \/ /\ ed.fname # NoName
        /\ \E e \in LoadFailed(NewEditor, ed.fname) :
             Begun([e EXCEPT !.fname = ed.fname])

-----------------------------------------------------------------------------
LongName == [i \in 1 .. FS_MAX_NAME |-> CHOOSE c \in NameKeys : TRUE]

Starting ==
  \/ \E k \in {"backspace", "left", "right"} \cup NameKeys : FieldKey(k)
  \/ FieldEscape \/ FieldEnter

Commands ==
  \/ \E k \in {"esc", "backspace", "printable"} : CmdKey(k)
  \/ NoCommand \/ CmdQ \/ CmdWq \/ CmdN
  \/ \E name \in Name \cup {LongName} : CmdW(name) \/ CmdE(name) \/ CmdEFails(name)
  \/ CmdW(ed.fname)

Next == Starting \/ (\E k \in EditKeys : EditKey(k)) \/ Commands

Spec == Init /\ [][Next]_vars

-----------------------------------------------------------------------------
(* The terminal shows the drawn screen: every cell has the character and   *)
(* the background drawn there, and the colour too unless it is a blank.    *)
(* The library sends only the cells it believes to differ.                 *)
TerminalExact ==
  \A i \in Index :
    LET drawn == screen.back[i]
        seen == term.cells[i]
    IN  /\ seen.ch = drawn.ch /\ seen.color.bg = drawn.color.bg
        /\ seen.ch # BLANK => seen.color = drawn.color

(* While text is edited the caret stands in the text area, on the cell     *)
(* that shows the character before which the next one goes, or on the      *)
(* blank behind the line: col_of and draw_line agree on tabs, scroll_fix   *)
(* keeps line and column in view, and no edit leaves top inside a line.    *)
CaretOnCharacter ==
  Editing /\ ~ed.cmd_mode =>
    /\ term.y \in TEXT_TOP .. TEXT_BOT
    /\ term.cells[CaretIndex(term)].ch =
         IF ed.pos = len(ed) \/ ed.buf[ed.pos + 1] \in {NL, TAB} THEN BLANK
         ELSE ed.buf[ed.pos + 1]
    /\ ed.top = 0 \/ ed.buf[ed.top] = NL

(* A buffer that counts as unmodified is on the disk under its name, or    *)
(* empty: q, n and e, which ask no question then, lose nothing.  Excepted  *)
(* is a buffer whose file a failed save spoiled, which the user was told.  *)
(* It holds while no read fails after its first sector (LATE_READ_FAULTS   *)
(* is FALSE): such a read leaves in buf what no file holds, and dirty as   *)
(* it was.                                                                 *)
CleanIsSaved ==
  ~ed.dirty /\ phase # "start" /\ ed.buf # <<>> =>
    ed.fname \in Name /\ files[ed.fname] \in {ed.buf, Damaged}

(* The comment of load_into: the buffer is untouched on failure. *)
UntouchedOnFailure == [][\A name \in Name : CmdEFails(name) => ed'.buf = ed.buf]_vars

=============================================================================
