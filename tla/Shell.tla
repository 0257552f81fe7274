-------------------------------- MODULE Shell --------------------------------
(***************************************************************************)
(* The shell of kernel/shell.c on its terminals: line editing, workspaces, *)
(* the execution of a line, and what a running program does to the screen  *)
(* through system calls 1, 2, 8, 9 and 10, or by faulting.                 *)
(*                                                                         *)
(* Printing goes one character at a time (`out` holds what is left), and   *)
(* `next` says what the code does after the last one.  A line of input is  *)
(* parsed as parse_line does it; what a command prints is chosen freely.   *)
(***************************************************************************)
EXTENDS Terminal, FiniteSets, TLC

CONSTANTS
  MAX_TERMS,
  TERM_BUF_SIZE,
  MAX_ARGS,
  PROMPT,         \* "sherenity > "
  GT,             \* ">"
  commands,       \* the command table: word -> what the command does
  Messages,       \* coloured texts that commands, faults and the boot print
  Texts,          \* texts programs write
  Typed,          \* characters the user types
  TICKS,          \* the tick counter wraps here: 2^32
  pit_hz,         \* ticks per second: 100
  SECOND,         \* milliseconds per second: 1000
  Delays,         \* milliseconds that a sleep command asks for
  MAX_KEYS        \* bound on keys and calls

Kinds == {"print", "clear", "run", "sleep", "stop"}
ColouredText == Seq([ch : Chars \cup {NL}, color : Color])

ASSUME TermsAssumption == MAX_TERMS \in Nat \ {0}
ASSUME LineAssumption ==
  /\ TERM_BUF_SIZE \in Nat \ {0} /\ MAX_ARGS \in Nat \ {0}
  /\ PROMPT \in Seq(Cell) /\ Len(PROMPT) + TERM_BUF_SIZE - 1 <= WIDTH * (HEIGHT - 1)
ASSUME TextAssumption ==
  /\ Messages \subseteq ColouredText /\ Texts \subseteq Seq(Chars \cup {NL})
  /\ Typed \subseteq Chars
ASSUME TimeAssumption ==
  /\ TICKS \in Nat \ {0} /\ pit_hz \in Nat /\ SECOND \in Nat \ {0}
  /\ Delays \subseteq Nat /\ MAX_KEYS \in Nat

VARIABLES terms, current_term, vga, mode, out, next, ticks, target, keys

termVars == <<terms, current_term>>
printVars == <<out, next>>
timeVars == <<ticks, target>>
vars == <<terms, current_term, vga, mode, out, next, ticks, target, keys>>

Modes == {"top", "wait", "print", "sleep", "user", "halted"}
Terms == 0 .. MAX_TERMS - 1
wm_current == terms[current_term]

Coloured(text, color) == [i \in DOMAIN text |-> [ch |-> text[i], color |-> color]]
Input == Plain
Newlined == <<[ch |-> NL, color |-> Plain]>>

(* Printing begins; after the last character the code goes on at k. *)
Prints(text, k) == mode' = "print" /\ out' = text /\ next' = k

Current(t) == terms' = [terms EXCEPT ![current_term] = t]

-----------------------------------------------------------------------------
(* parse_line: words are maximal runs without a blank, at most MAX_ARGS.   *)
Starts(line) ==
  {k \in DOMAIN line : line[k] # BLANK /\ (k = 1 \/ line[k - 1] = BLANK)}
Argv0(line) ==
  LET s == CHOOSE k \in Starts(line) : \A j \in Starts(line) : k <= j
      ends == {e \in s .. Len(line) : \A j \in s .. e : line[j] # BLANK}
  IN  SubSeq(line, s, CHOOSE e \in ends : \A f \in ends : f <= e)
(* argv[i], i > 0, is the word ">" *)
Redirected(line) ==
  \E k \in Starts(line) :
     /\ line[k] = GT /\ (k = Len(line) \/ line[k + 1] = BLANK)
     /\ Cardinality({j \in Starts(line) : j < k}) \in 1 .. MAX_ARGS - 1

(* What executing the line does: print something and come back, or one of  *)
(* the commands that touch more.  A word that names no command is reported.*)
Meaning(line) ==
  IF Starts(line) = {} THEN "nothing"
  ELSE IF Redirected(line) \/ Argv0(line) \notin DOMAIN commands THEN "print"
  ELSE commands[Argv0(line)]

-----------------------------------------------------------------------------
(* kmain: terminals cleared, terminal 0 shown, the boot messages printed.  *)
Init ==
  /\ terms = [i \in Terms |-> wm_init_term]
  /\ current_term = 0
  /\ vga = wm_blit(wm_init_term)
  /\ mode = "print" /\ out \in Messages /\ next = "boot"
  /\ ticks = 0 /\ target = 0 /\ keys = 0

PutChar ==
  /\ mode = "print" /\ out # <<>>
  /\ Current(term_putchar(wm_current, Head(out).ch, Head(out).color))
  /\ out' = Tail(out)
  /\ UNCHANGED <<current_term, vga, mode, next, timeVars, keys>>

Printed(k) == mode = "print" /\ out = <<>> /\ next = k

Booted ==
  /\ Printed("boot")
  /\ vga' = wm_blit(wm_current) /\ mode' = "top"
  /\ UNCHANGED <<termVars, printVars, timeVars, keys>>

(* The head of shell_run's loop. *)
shell_run ==
  /\ mode = "top"
  /\ \/ wm_current.prompt /\ mode' = "wait" /\ UNCHANGED printVars
     \/ ~wm_current.prompt /\ Prints(PROMPT, "prompted")
  /\ UNCHANGED <<termVars, vga, timeVars, keys>>

(* A plausible bug: the prompt is drawn but not blitted. *)
Prompted_unseen ==
  /\ Printed("prompted")
  /\ Current([wm_current EXCEPT !.prompt = TRUE]) /\ mode' = "wait"
  /\ UNCHANGED <<current_term, vga, printVars, timeVars, keys>>

Prompted ==
  /\ Printed("prompted")
  /\ Current([wm_current EXCEPT !.prompt = TRUE])
  /\ vga' = wm_blit(wm_current) /\ mode' = "wait"
  /\ UNCHANGED <<current_term, printVars, timeVars, keys>>

-----------------------------------------------------------------------------
(* A key.                                                                  *)
Key == mode = "wait" /\ keys < MAX_KEYS /\ keys' = keys + 1 /\ UNCHANGED timeVars

(* Control with 1 to 9, 0 or q to a. *)
switch_workspace(i) ==
  /\ Key
  /\ current_term' = i
  /\ vga' = wm_blit(terms[i])
  /\ \/ terms[i].prompt /\ UNCHANGED <<mode, printVars>>
     \/ ~terms[i].prompt /\ Prints(PROMPT, "prompted")
  /\ UNCHANGED terms

Shown(t) == Current(t) /\ vga' = wm_blit(t)

Type(c) ==
  /\ Key
  /\ Shown(IF Len(wm_current.buf) < TERM_BUF_SIZE - 1
           THEN [term_putchar(wm_current, c, Input) EXCEPT !.buf = Append(@, c)]
           ELSE wm_current)
  /\ UNCHANGED <<current_term, mode, printVars>>

Backspace ==
  /\ Key
  /\ Shown(IF wm_current.buf # <<>>
           THEN [term_backspace(wm_current) EXCEPT !.buf = SubSeq(@, 1, Len(@) - 1)]
           ELSE wm_current)
  /\ UNCHANGED <<current_term, mode, printVars>>

(* Enter: the newline, then execute up to its first output. *)
Enter ==
  /\ Key
  /\ LET line == wm_current.buf
         t == term_putchar(wm_current, NL, Input)
     IN  \/ /\ Meaning(line) = "nothing" /\ Current(t) /\ Prints(<<>>, "executed")
            /\ UNCHANGED vga
         \/ /\ Meaning(line) \in {"print", "run"} /\ Current(t)
            /\ \E text \in Messages : Prints(text, "executed")
            /\ UNCHANGED vga
         \/ /\ Meaning(line) = "clear"
            /\ Current([term_clear(t) EXCEPT !.prompt = FALSE]) /\ Prints(<<>>, "executed")
            /\ UNCHANGED vga
         \/ /\ Meaning(line) = "run" /\ Current([t EXCEPT !.prompt = FALSE]) /\ mode' = "user"
            /\ UNCHANGED <<vga, printVars>>
         \/ /\ Meaning(line) = "stop" /\ Current(t) /\ mode' = "halted"
            /\ UNCHANGED <<vga, printVars>>
  /\ UNCHANGED current_term

(* The tick at which a sleep of ms milliseconds is over. *)
Target(now, ms) ==
  (now + (pit_hz \div SECOND) * ms + (((pit_hz % SECOND) * ms) % TICKS) \div SECOND) % TICKS

(* A plausible bug: the sum is wider than the counter it is compared with. *)
EnterSleep_wide ==
  /\ mode = "wait" /\ keys < MAX_KEYS /\ keys' = keys + 1
  /\ Meaning(wm_current.buf) = "sleep"
  /\ Current(term_putchar(wm_current, NL, Input))
  /\ mode' = "sleep"
  /\ ticks' \in 0 .. TICKS - 1
  /\ \E ms \in Delays : target' = ticks' + (pit_hz * ms) \div SECOND
  /\ UNCHANGED <<current_term, vga, printVars>>

(* Enter on a sleep command: the tick counter stands anywhere. *)
EnterSleep ==
  /\ mode = "wait" /\ keys < MAX_KEYS /\ keys' = keys + 1
  /\ Meaning(wm_current.buf) = "sleep"
  /\ Current(term_putchar(wm_current, NL, Input))
  /\ mode' = "sleep"
  /\ ticks' \in 0 .. TICKS - 1
  /\ \E ms \in Delays : target' = Target(ticks', ms)
  /\ UNCHANGED <<current_term, vga, printVars>>

(* pit_sleep: hlt returns after a tick, and the loop tests again. *)
pit_sleep ==
  /\ mode = "sleep" /\ ticks < target
  /\ ticks' = (ticks + 1) % TICKS
  /\ UNCHANGED <<termVars, vga, mode, printVars, target, keys>>

SleepReturns ==
  /\ mode = "sleep" /\ ticks >= target
  /\ Prints(<<>>, "executed")
  /\ UNCHANGED <<termVars, vga, timeVars, keys>>

(* The end of the Enter branch. *)
Executed ==
  /\ Printed("executed")
  /\ LET t == [wm_current EXCEPT !.buf = <<>>, !.prompt = FALSE] IN Shown(t)
  /\ mode' = "top"
  /\ UNCHANGED <<current_term, printVars, timeVars, keys>>

-----------------------------------------------------------------------------
(* A program in ring 3, with the current terminal for its screen.          *)
Call == mode = "user" /\ keys < MAX_KEYS /\ keys' = keys + 1 /\ UNCHANGED timeVars

sys_write ==
  /\ Call
  /\ \E text \in Texts : Prints(Coloured(text, Plain), "written")
  /\ UNCHANGED <<termVars, vga>>

(* The copy at the end of call 1. *)
Written ==
  /\ Printed("written")
  /\ vga' = wm_blit(wm_current) /\ mode' = "user"
  /\ UNCHANGED <<termVars, printVars, timeVars, keys>>

SysClear ==
  /\ Call
  /\ Shown(term_clear(wm_current))
  /\ UNCHANGED <<current_term, mode, printVars>>

(* A plausible bug: the row is taken from the cursor. *)
SysPutcharAt_wrong_row(c, x, y, color) ==
  /\ Call
  /\ LET t == term_putchar_at(wm_current, c, x, y, color)
     IN  Current(t) /\ vga' = wm_blit_row(vga, t, t.y)
  /\ UNCHANGED <<current_term, mode, printVars>>

SysPutcharAt(c, x, y, color) ==
  /\ Call
  /\ IF x < WIDTH /\ y < HEIGHT
     THEN LET t == term_putchar_at(wm_current, c, x, y, color)
          IN  Current(t) /\ vga' = wm_blit_row(vga, t, y)
     ELSE UNCHANGED <<terms, vga>>
  /\ UNCHANGED <<current_term, mode, printVars>>

SysSetCursor(x, y) ==
  /\ Call
  /\ IF x < WIDTH /\ y < HEIGHT
     THEN LET t == [wm_current EXCEPT !.x = x, !.y = y]
          IN  /\ Current(t)
              /\ vga' = wm_blit_row(wm_blit_row(vga, t, wm_current.y), t, y)
     ELSE UNCHANGED <<terms, vga>>
  /\ UNCHANGED <<current_term, mode, printVars>>

(* A plausible bug: the first terminal is taken for the current one. *)
exit_to_shell_first ==
  /\ mode = "user"
  /\ terms' = [terms EXCEPT ![0].buf = <<>>] /\ mode' = "top"
  /\ UNCHANGED <<current_term, vga, printVars, timeVars, keys>>

(* Exit to the shell drops the line that ran the program. *)
exit_to_shell ==
  /\ mode = "user"
  /\ Current([wm_current EXCEPT !.buf = <<>>]) /\ mode' = "top"
  /\ UNCHANGED <<current_term, vga, printVars, timeVars, keys>>

ExitToHalt ==
  /\ mode = "user" /\ mode' = "halted"
  /\ UNCHANGED <<termVars, vga, printVars, timeVars, keys>>

fault_handler ==
  /\ mode = "user"
  /\ \E text \in Messages : Prints(Newlined \o text, "fault")
  /\ UNCHANGED <<termVars, vga, timeVars, keys>>

Faulted ==
  /\ Printed("fault")
  /\ vga' = wm_blit(wm_current) /\ mode' = "halted"
  /\ UNCHANGED <<termVars, printVars, timeVars, keys>>

-----------------------------------------------------------------------------
Printing == PutChar \/ Booted \/ Prompted \/ Executed \/ Written \/ Faulted

UserCall ==
  \/ sys_write \/ SysClear
  \/ \E c \in Chars \cup {NL}, x \in 0 .. WIDTH, y \in 0 .. HEIGHT, color \in {VGA_COLOR(WHITE, BLACK)} :
        SysPutcharAt(c, x, y, color)
  \/ \E x \in 0 .. WIDTH, y \in 0 .. HEIGHT : SysSetCursor(x, y)
  \/ exit_to_shell \/ ExitToHalt \/ fault_handler

Next ==
  \/ Printing \/ shell_run \/ pit_sleep \/ SleepReturns
  \/ \E i \in Terms : switch_workspace(i)
  \/ \E c \in Typed : Type(c)
  \/ Backspace \/ Enter \/ EnterSleep
  \/ UserCall

Spec == Init /\ [][Next]_vars /\ WF_vars(Printing \/ shell_run \/ pit_sleep \/ SleepReturns)

-----------------------------------------------------------------------------
(* The cursor stays inside the grid whatever is printed, so that no write  *)
(* of wm.c leaves the terminal's cells; a line stays inside its buffer.    *)
TypeOK ==
  /\ terms \in [Terms -> TerminalType]
  /\ \A i \in Terms : Len(terms[i].buf) < TERM_BUF_SIZE
  /\ current_term \in Terms
  /\ vga \in [Index -> Cell]
  /\ mode \in Modes /\ out \in ColouredText
  /\ next \in {"boot", "prompted", "executed", "written", "fault"}
  /\ ticks \in Nat /\ target \in Nat /\ keys \in Nat

(* The prompt and the line as typed. *)
Line(t) == PROMPT \o Coloured(t.buf, Input)

(* A terminal that waits for a line shows its prompt and the line it will  *)
(* execute right before the cursor, however often it wrapped, scrolled,    *)
(* was edited, left and come back to.                                      *)
ShowsLine(t) ==
  /\ Len(Line(t)) <= CaretIndex(t)
  /\ \A k \in 1 .. Len(Line(t)) : t.cells[CaretIndex(t) - Len(Line(t)) + k - 1] = Line(t)[k]

LineOnScreen ==
  \A i \in Terms : terms[i].prompt /\ (i # current_term \/ mode = "wait") => ShowsLine(terms[i])

(* Whenever the shell waits for a key, the screen is the picture of the    *)
(* current terminal, with its caret and no other.                          *)
ScreenShowsTerminal == mode = "wait" => vga = Picture(wm_current)

(* Call 1 leaves the screen in step with the program's terminal, wherever  *)
(* they stood before; and once they are in step the row copies of calls 9  *)
(* and 10 and the full copy of 8 keep them there.                          *)
RowsKeepStep ==
  [][mode' = "user" /\ (mode = "print" \/ (mode = "user" /\ vga = Picture(wm_current)))
     => vga' = Picture(wm_current')]_vars

(* A step of the shell or of a program touches no terminal but the one it  *)
(* runs on: what is typed or printed in one workspace stays there.         *)
OthersUntouched ==
  [][\A i \in Terms \ {current_term} : terms'[i] = terms[i]]_vars

(* Whatever a command prints or how long it sleeps, the shell comes back   *)
(* to its prompt, or a program runs, or the machine stops.                 *)
ShellComesBack == mode \in {"top", "print", "sleep"} ~> mode \in {"wait", "user", "halted"}

=============================================================================
