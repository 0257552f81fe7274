# LunariaOS: a TLA+ verification project

LunariaOS is a small 32-bit x86 operating system: a kernel with paging, a flat
filesystem on an ATA disk, text terminals, a shell, and ring-3 programs with a
C library. This directory models its own code, from the
frame allocator to the editor, in TLA+, checks the models with TLC
on small instances, and proves the main safety properties with TLAPS for every
size. Source paths below are relative to the repository; `map` in
`PROJECT.json` ties every definition to the lines it models.

## Inventory

| Component | State | Operations | Interaction | What is hard | What makes it correct |
|---|---|---|---|---|---|
| Memory manager `kernel/memory.c` | frame bitmap and counter, kernel page directory, process directory, break | `memory_init`, `paging_init`, `vm_create/attach/detach/destroy`, `vm_fault`, `vm_note_load`, `vm_sbrk` | called by `kmain`, the shell's loader, the fault handler, system call 11 | failing half-way, wrap of 32-bit sums, freeing what the CPU uses | frames owned once, none lost, clean and isolated pages |
| Loader, ring 3 `kernel/shell.c`, `syscall.c`, `isr.asm`, `entry.asm` | exit target, the image being loaded | `shell_run_program`, `enter_user`, calls 2, 7, 11, `fault_handler`, `exit_to_shell` | loads through `fs_read`, faults re-enter the memory manager | page faults of the kernel's own stores, bad headers, out of memory | always gets to ring 3, the prompt or a halt, with nothing left behind |
| Filesystem `drivers/fs.c` | directory, data sectors, handles, `wbuf` | `fs_write`, `fs_append`, `fs_mkdir`, `fs_delete`, `fs_open/read_fd/write_fd/seek/close`, `fs_close_all`, `fs_mount` | shell commands, calls 4-6 and 12-17, loader | power loss and disk errors between sectors, slot and extent reuse, one shared buffer | a map from names to contents, whatever fails |
| ATA driver `drivers/ata.c` | device registers | read and write sectors | under the filesystem | errors before and after the data is on the disk | reports failure |
| Keyboard `drivers/keyboard.c` | scancode ring, modifiers | IRQ1 handler, `kbd_getc`, `kbd_flush` | interrupt against a polling reader | the ring at its limit, lost releases | keys come in order, none twice |
| Terminals `kernel/wm.c`, `drivers/vga.c` | ten terminals: cells, cursor, line, prompt | `term_putchar`, `term_backspace`, `term_clear`, `wm_switch`, `wm_blit`, `wm_blit_row` | calls 1, 8, 9, 10, shell | partial redraw, wrapping and scrolling | the screen shows the active terminal |
| Shell `kernel/shell.c` | the current terminal's line and prompt | `shell_run`, `execute`, `switch_workspace`, the commands | keyboard, terminals, loader, filesystem, timer | commands that never return to the loop | the line shown is the line executed, the prompt comes back |
| Timer `drivers/pit.c` | tick counter | IRQ0, `pit_sleep` | interrupt against a waiting reader | wrap of the counter | sleeps end |
| Allocator `home/lib/libc.c` | free list, the allocator's break | `malloc`, `calloc`, `realloc`, `strdup`, `free` | call 11 | splitting and merging, size overflow, a break moved by others | every byte in one block |
| Streams `home/lib/stdio.c` | FILE: handle, flags, pushed-back byte | `fopen`, `freopen`, `fdopen`, `fclose`, reading, writing, seeking, flags | calls 12-17, `malloc` | failure half-way through opening, errors forgotten | no handle lost, no byte lost silently, end-of-file true |
| Mirror `home/lib/mirror.c` | drawn cells and the record of what was sent | drawing, `mirror_flush`, `mirror_input` | calls 8, 9, 10 | a record that is not the terminal | the terminal shows what was drawn |
| Editor `home/edit.c` | text, cursor, view, dirty flag | keys, commands, load, save | Mirror, calls 4 and 5 | tabs, scrolling, failing disks | caret on its character, clean means saved |
| Paint `home/paint.c` | pixels, cursor, view of the screen | arrows, colours, save, load | calls 8, 9, 10, files | stale cells | the terminal shows the picture |
| Algorithms (`tcc.c`, `stdio.c`, `libc.c`, `string.h`, `shell.c`) | none | 64-bit division and shifts, formatting, parsing, dates, sorting, moving, argument layout | | borrows, signs, overlaps, leap years | equal to their reference definitions |
| Seeder `tools/fs_seeder.c` | disk image | builds the initial image | initial state of the filesystem | | a legal LUNFS1 image |
| Boot loader, GDT, IDT, tinycc | | | | | not modelled |

The kernel runs one program at a time and is not re-entered by another kernel
flow, apart from page faults its own loader takes and interrupts that touch
only the keyboard ring and the tick counter. So the hard behaviours are: failure
and power loss between two steps of one operation, resources at their limit,
wrapping arithmetic, and long legal call sequences. The hazards, each at its
line, are in `PROJECT.json`.

## Modules

| Module | Models |
|---|---|
| `Memory` | `memory.c`: state and operations, parameterised by table size, page size and layout |
| `Process` | extends `Memory`: boot, the loader, ring 3, page faults, exit; the system specification |
| `MCProcess` | a 16-frame machine, seven memory maps, nine kinds of program file |
| `FileStore` | what a filesystem promises: a map from names to contents, a call in progress, and the draft of the one open writer |
| `Fs` | `fs.c` over a failing disk; refines `FileStore` |
| `MCFs` | a disk of a few two-unit sectors |
| `ByteQueue` | what the keyboard's ring promises: a bounded first-in first-out queue |
| `Keyboard` | `keyboard.c`: the ring, its interrupt handler, `kbd_getc`, `kbd_flush`; refines `ByteQueue` |
| `MCKeyboard` | a three-byte ring and six keys |
| `Terminal` | `wm.c`: a terminal's cells and cursor, and the picture of it that the screen gets |
| `Shell` | extends `Terminal`: `shell_run`, `parse_line`, the commands, system calls 1, 8, 9, 10, `pit_sleep`, faults |
| `MCShell` | two terminals of two rows of three cells |
| `Heap`, `MCHeap` | the allocator over `vm_sbrk` |
| `Stdio`, `MCStdio` | FILE streams over the kernel's handles |
| `Mirror` | extends `Terminal`: drawing and the flush of changed cells |
| `Editor`, `MCEditor` | extends `Mirror`: the text editor and its files |
| `Paint`, `MCPaint` | extends `Terminal`: the drawing program |
| `Algorithms`, `MCAlgorithms` | the pure computations and what they are meant to be |
| `ProcessProofs`, `FsProofs`, `KeyboardProofs`, `ShellProofs`, `StdioProofs`, `EditorProofs`, `PaintProofs` | theorems about the module of that name |
| `LibraryProofs` | theorems about `Heap` and `Algorithms`, and the induction on numbers that both need |

### Memory and Process

`ENTRIES = 1024`, `PAGE_SIZE = 4096` is the real machine; addresses wrap at
`WORD = ENTRIES^2 * PAGE_SIZE`. A frame's content is kept both as a page table
(`ent`) and as data, of which only the last writer matters. `page_dir` lives in
the low region and is a variable of its own; `cr3 = 0` stands for it. The page
walk (`Pte`, `Mapped`, `UserAccess`) is the CPU's.

`Process` has one control variable, `mode`. `paging_init` proceeds page by page
(`MapPage`, `NextRange`), since it can run out of frames anywhere. The loader
writes the window page by page (`fill`), upwards for `fs_read` and `memcpy`,
downwards for the argument block; a store to a missing page goes through
`vm_fault` and is retried. In ring 3 a program stores to any page it likes
(`UserWrite`, or `UserFault` where the tables forbid it), calls `sbrk` with any
increment, `exit_to` and `exit`. `vm_detach` is two steps, so that the moment
between switching and freeing exists.

System calls 4, 6 and 13 store in ring 0 to the address the program gives, and
the kernel does not check it. A store into the user window is `CallWrite` (a page
that is not there faults as the program's own store would). A store to any other
mapped page, that is to the kernel, is `CallStray`: the machine may do anything
from there, so `mode` becomes `"stray"` and the model follows it no further.
`UserIsolation`, and every other property of `Process`, is therefore a statement
about runs up to the first such call: it says what the page tables admit, to ring
3 and to these three calls inside the window, and not that the kernel's memory is
safe from a program.

Abstractions: TLB contents (the code flushes or invalidates after each change),
FPU, PAGER_TEST blocks, bytes of programs and arguments. The user window is one
directory entry wide, as `user.h` defines it. An E820 entry with a high base is
not usable. An access of a program is seen at page granularity.

### FileStore and Fs

Contents are sequences of units, `SECTOR` units to a sector; a directory's line
is one unit. `op` is the `fs_write` in progress with its locals: `WriteSector`
writes one sector, `WriteEntry` the directory entry and then starts `fs_append`
for the parent (whose failure the code ignores), `AtaError` makes the call
return, the sector in hand written or not. `PowerLoss` may come between any two
steps; `fs_mount` boots again. `Return` also drops the handle when the write is
that of `fs_close`. `Lookup` lets a failed directory read look like a missing
file, as `fs_open` does. `fs_close_all` closes the lowest open handle until none
is left, where the code's loop visits each handle once: the two agree because a
close drops its handle even when it fails, and the bound of the loop is not what
makes `ClosingEnds` true here. Any `AtaError` may follow any other, a drive
whose error bit stays set included.

Abstractions: `fs_find`'s scan of directory sectors is one step; a directory
sector is written atomically (the code writes one 512-byte sector); the
superblock is intact, so that `fs_mount` succeeds; only names shorter than
`FS_MAX_NAME`; the bytes a read returns are not recorded, positions are;
functions that only read are not actions.

The refinement mapping reads `files` off the directory and the sectors
(`Files`), hides slots, sectors and handles, and keeps of `wbuf` the draft of
its owner. `FileStore` lets a step change no file but the one being written, and
that one only in a write in place; a write that returns normally leaves exactly
its data; a draft is what was stored, with zeros in the gaps.

### ByteQueue and Keyboard

`kbd_getc` is split where it touches the ring: `Fetch` reads `buffer[tail]` once
the ring is not empty, `Take` moves `tail` and decodes, and the interrupt may
come before, between and after them (system calls come through a trap gate, and
the shell polls with interrupts on). `kbd_flush` drops one byte at a time. The
user is the environment: `Press` and `Release` put a key's bytes on the wire and
note in `due` what the key meant at that moment. A key that is held may send its
bytes again (typematic repeat), so that a held caps lock toggles each time.
`intact` becomes false when a byte is dropped or two keys of one modifier are
down: from then on the driver cannot know what is held, and `KeysAsMeant` says
nothing. The tables of characters are parameters. The refinement mapping reads
the queue off the ring.

### Terminal and Shell

A terminal is its cells, cursor, line buffer and prompt flag; `wm_blit` and
`wm_blit_row` compute the screen (`vga`) from it, with the caret's colours
swapped. Characters and colours are members of small sets, the colour byte is
the pair of its halves. `Shell` prints one character per step (`PutChar`), and
`next` names where the code goes on, so that a line may wrap and scroll
anywhere. `parse_line` is modelled on the characters of the line, since which
command is meant depends on them; what a command prints is chosen from
`Messages`. The tick counter may stand anywhere when a sleep begins, so that its
wrap at 2^32 is met. A program draws with any of the calls, at any place on and
just off the screen, and ends by exiting, halting or faulting. The loader's and
the filesystem's part of `run` and of redirection are in `Process` and `Fs`.

### Heap

A block is an address and a size with its header; the list in memory is a
sequence. All sums wrap at `WORD`, as `unsigned int` does. A call is entered
(`Enter`), and each round of malloc's loop is a step (`Take` or `Grow`), so
that a call that never returns would be seen. `live` are the blocks in the
program's hands with what it asked for; it frees only what it got.
`ProgramSbrk` is the program's own use of the break, which the allocator's
check of the returned break must survive. Bytes of blocks, and so the copying
of `realloc`, are left out.

### Stdio

The kernel's side is taken whole, as `Fs` and `FileStore` describe it: an open
handle is the bytes it can reach and a position, and there is one writer. The
size and the place of the write buffer are kept, since they decide which writes
fail. `meant` is a ghost: what a stream's file would hold had every write since
the last reported error been stored whole. `malloc` and the disk may fail at
each call. `NoSilentLoss` is about streams that are open: what `fclose` loses it
reports by its result, behind which there is no stream to ask. A program that
closes a stream's raw handle with call 16 behind the library's back is not
modelled. The console streams are left out: they hold no position and pass
bytes to system calls 1 and 3.

### Mirror, Editor and Paint

`Mirror` is a library of operators on a pair of grids, `back` and `front`; each
flush sends the changed cells to a kernel terminal. An action of `Editor` is a
turn of its loop: the key's effect, `scroll_fix`, `draw` and the flush. What
the characters of a command line spell is chosen when it is run; their number
is kept, because the caret depends on it. `Damaged` stands for a file that a
failed write left half written. `LATE_READ_FAULTS` says whether a read may fail
after its first sector: `editor` is without, `editor_load` with. `Paint` keeps
its own record of the screen; `paint.bit` holds a picture in its own colours, or
something it does not take for a picture (bytes that are no colour, which the code
would draw, are not modelled). In both the terminal is the one of `Terminal`,
which closes the loop from a key to a cell of the terminal; `Shell` shows that
the cells reach the screen.

### Algorithms

One call per step: arguments are chosen, the result computed as the code does
it (word by word, digit by digit, with its comparisons and shifts), and
compared with a reference: integer arithmetic, reading back with `strtoull`,
the calendar's rule for the next day, a copy through a third place, a stable
sort. Words have `W` bits; 32 in the code. The numbers of a call are any double
word, `Days` and `Seconds` any integers; the loops of the code are functions from
the number of rounds to the state behind that many, and a loop that looks for
something (the place of an item, the end of the digits) is the position it stops
at. There is one property for each kind of call. `NumbersExact` and `MemoryExact` are
the conjunctions of four of them each, as one question to one run; each of the
eight is a theorem of its own in `LibraryProofs`.

## Runs

| Run | Result | Shows |
|---|---|---|
| `process` | pass | frames accounted for, owned once, given back, clean, isolated; tables of the CPU never free; break above the image and monotonic; kernel code always gets somewhere |
| `fs` | pass | names unique, extents disjoint, writes harm no other file, every call returns, and `Fs` implements `FileStore` |
| `fs_handles` | pass | one owner of `wbuf`, exit ends at the prompt, refinement with drafts |
| `keyboard` | pass | the ring is a bounded queue under any interleaving, keys come out as they were meant, a waiting reader wakes |
| `shell` | pass | cursor and line stay in range, the line on the screen is the line executed, the screen shows the current terminal, row copies keep it in step, workspaces keep apart, the prompt comes back |
| `heap` | pass | every byte in one block, neighbours merged, blocks large enough, calls return |
| `stdio` | pass | every open handle has one owner, end-of-file is true, no lost byte goes unreported |
| `editor` | pass | the terminal shows what was drawn, the caret stands on its character, a clean buffer is on the disk |
| `paint` | pass | the terminal shows the picture, the cursor and the status |
| `algorithms` | pass | division, shifts, formatting, parsing, dates, times, header, sorting, moving, argument block and `vsnprintf` against their references |
| `heap_huge` | violation | a request near 2^32 makes `morecore` round its size to 0 and link a block without space |
| `editor_load` | violation | a read that fails after its first sector overwrites the edited text, although the comment says the buffer is untouched |

`KernelReachesFrames` in `process` holds for memory maps without an entry that
reaches the end of the address space. `RoomEnough` and `BytesOwnedOnce` in
`heap` hold for sizes whose sums do not wrap (`SaneRequests`); `heap_huge` drops
that. `CleanIsSaved` excepts a file that a failed save spoiled, and is checked
with `LATE_READ_FAULTS` off; `editor_load` shows why.

**Bounds.** `process`: 4-entry tables, 4-byte pages, 16 frames and two programs
one after the other; the memory maps include one with a hole, one unsorted and
unaligned that spans the window, one too small for a program, one where
`vm_create` fails, one where the kernel's map itself runs out, and one that
reaches the top of memory; the files include every outcome of the header
checks. Two programs are what it takes for a frame to be recycled. `fs`: three
slots, five sectors of two units, a file, a directory and two levels below it,
five writes or unlinks: enough to create, grow, delete and reuse a slot with an
overlap possible, to fill directory, disk and list. `fs_handles`: two handles, a
three-unit buffer, two opens or writes. `keyboard`: a ring of three bytes, which
three events fill and wrap, since an extended key takes two bytes; a letter,
shift, caps lock, both control keys and an arrow, so that each kind of branch of
the decoder is used (alt and super go as control does). `shell`: two rows of
three cells, a prompt of one and lines of two characters, so that a line fills a
row, wraps and scrolls within five keys or calls; ticks wrap at eight. `heap`:
a stack at 20 bytes, two-byte headers, pages of eight, so that two or three
growths exhaust it; requests of nothing, less and more than a page, and
products that wrap. There is no bound on the number of calls, nor in `stdio`,
`editor` and `paint`: their state spaces are finite. `stdio`: one file, which
does or does not fit the two-byte buffer, two handles and two streams (which
are alike: symmetric), positions up to `MAX_POS`. `editor`: four columns, two
rows of text and up to three bytes, with tabs of two. `paint`: four pixels,
three colours. `algorithms`: words of four bits, so that every pair of double
words is divided; all days from 1967 to 2101; up to four items. `MAX_RUNS`,
`MAX_CALLS`, `MAX_EVENTS` and `MAX_KEYS` only cap how many operations are
started, `MAX_WIRE` how far typing runs ahead of the interrupts.

**Fairness.** Kernel code that has begun goes on: boot, loader and exit steps in
`Process`, disk steps and `fs_close_all` in `Fs`, printing and the loop's head
in `Shell` are weakly fair, since nothing else runs on the CPU but returning
interrupt handlers. So are the ticks while the shell sleeps, because interrupts
are on, and the rounds of malloc's loop in `Heap`. In `Keyboard` the interrupt
is fair, because interrupts are on while a reader waits, and so is a reader that
has begun. What users, programs and the power supply do is never fair. A disk
that fails for ever is allowed. The chain of parents ends because a parent's
path is shorter.

**Deadlock** is not checked in `process` and `shell`, because a machine that
halts stops for good, in `editor` and `paint`, which end, nor in `keyboard`,
where a reader may wait for a key nobody presses; in the other runs it is.

## Proofs

For every size of tables and pages, layout, memory map, set of programs
(`SizeAssumption`, `LayoutAssumption`, `E820Assumption`, `LoaderAssumption`)
`ProcessProofs` proves type correctness, `FramesAccounted`, `NoFrameLeaks`,
`FramesOwnedOnce`, `ActiveTablesHeld`, `UserIsolation`, `NoStaleData`,
`BreakAboveImage` and `BreakNeverShrinks`. `UserIsolation` is the theorem
`Isolation` with the limit stated above: it ends where a call is given a mapped
address outside the window. None is inductive alone: ownership of
frames needs that the bitmap is exactly the union of its owners, which needs
that the tables in memory are the ones the allocator's history put there, which
needs that no store of a program or the loader reaches a table. The inductive
invariant states these together, split into named parts; each action's
preservation is a lemma, and the counter follows from cardinality facts of the
sets of frames. `KernelReachesFrames` needs more (`MapInv`): that `paging_init`'s
loops passed every frame that `memory_init` freed, and that what they passed is
mapped unless they ran out of frames for tables, after which no frame is ever
free again.

For every disk, directory, set of names and set of seeds (`SizesAssumption`,
`NamesAssumption`, `SeedsAssumption`) `FsProofs` proves `TypeOK`,
`NamesUnique`, `ExtentsDisjoint`, `WriteHarmsNoOther` and `OneWriter`. The
invariant adds to them where a write in progress stands (`Placed`: its slot is
the file's own or is free for a new name, and what it wrote lies on the disk),
that handles have names, and that a machine that is off has no call. The heart
is `WriteStarts`, that the place `fs_write` chooses is harmless, and
`EntryFits`, that the directory entry written there keeps files disjoint; the
rewriting of the parent's list is another `fs_write` and uses both again.

`StoreRefined` is the refinement `Spec => ImplementsFileStore`: each action is a
step of `FileStore` or a stutter. It needs one more invariant, `WroteInv`: the
sectors a write has behind it hold the data it was given, padded. With it the
entry's write is the single step in which a file gets its new content
(`EntryReplaces`), every sector before it changes at most the one file that is
rewritten in place (`TearsOnlyItself`), and the draft follows from how the write
buffer is filled and where its owner's position stands.

For a ring of any size and any keyboard (`RingAssumption`, `KeysAssumption`)
`KeyboardProofs` proves the refinement of `ByteQueue` and `KeysAsMeant`. The ring
between `tail` and `head` is the queue; the invariant `Peeked` says that the byte
the reader fetched is still the oldest one, whatever the interrupt did since.
`KeysAsMeant` says what a fold over the bytes under way yields. Its runs are
shown to exist and to be unique by taking the first position where they would
not, to grow at the end when a key is sent and to lose their first step when a
byte is taken (`DecodingAppend`, `DecodingTail`); the invariant `Expected` says
that they lead from the driver's state to the user's, and that no two held keys
share a modifier.

For a screen of any size, any texts and lines (`TermsAssumption`,
`LineAssumption`, `TextAssumption` and those of `Terminal`) `ShellProofs` proves
`TypeOK`, `LineOnScreen`, `ScreenShowsTerminal`, `RowsKeepStep` and
`OthersUntouched`. `RowsKeepStep` is about every step that leads back into the
program: the rows that calls 9 and 10 copy, the clearing of call 8, and call 1,
which prints to the terminal alone and copies it whole at its end.
`LineOnScreen` is inductive only with what is true while the prompt is being
printed: which part of it stands before the cursor, that the line is empty then,
and that the other workspaces rest behind prompt and line (`CurrentInv`,
`OthersInv`). That a character printed at the edge, with a wrap and a scroll,
moves what stands before the cursor as a whole is `PutShows`; that erasing takes
exactly the last one is `BackspaceShows`.

`LibraryProofs` proves `BytesOwnedOnce`, `ListMerged` and `RoomEnough` for every pool,
alignment, header and page size, as long as requests are `SaneRequests`: sizes
for which no sum in `malloc` or `morecore` wraps, which `heap_huge` shows to be
needed. The invariant `HeapInv` ties the bytes of the pool to the blocks of list
and program (`Owned`), with what the call in progress has computed. List
operations are all splices; `SpliceGood`, `FreeGood`, `TakenGood` and
`AppendedGood` say what inserting with merging, taking with splitting and growing
at the end do to any ordered list.

It also proves `NumbersExact` and `MemoryExact` of `Algorithms` and their eight
parts, a theorem each, for words of any size, any
widths, days, seconds, buffers, lists of arguments and items to sort. Nothing
carries over from one call to the next, so that the invariant (`LibInv`) says
only that the call is one that may be asked and the answer the one computed for
it; the substance is what each computation yields for every argument, from an
invariant of each loop, by induction on its rounds:

- `DivisionExact`: after `k` bits the quotient and the remainder are those of the
  dividend's leading bits, and the remainder is below the divisor
  (`DivideFacts`). The doubled remainder may need a bit more than two words, when
  the divisor has its top bit set; that it does not lose it is because the remainder
  is also at most the leading bits of the dividend. Signs come on top, the most
  negative number included, whose magnitude only fits unsigned.
- `ShiftsExact`: a double word is its halves, and the bits that go from one to the
  other do not meet those that were there.
- `NumbersReadBack`: a number's digits, added up from the left, are at every
  moment the number without the digits still to come, so that `strtoull`, which
  computes modulo two words, never wraps (`AccumulatedFacts`, `MeansBehindZeros`);
  what comes before the digits is blanks, sign, prefix and zeros, each of which it
  passes for the right reason (`PaddedFacts`, `LaidReads`).
- `TimeExact`, over integers that the code's types hold without overflow: a day is an era, a century, four years, a year and a day of the
  year, from March on, with the last of each allowed to be short or long, and
  `Yoe`'s corrections are exactly those; the next day is the next in one of them.
- `MoveExact`: after `k` bytes those are copied, and the rest of the source is
  still what it was, which is what the direction is for.
- `SortStable`: the items up to the `i`-th are in order, tags included, and the
  others are where they were.
- `ArgumentsApart`, `TextFits`: the pointers go down by the lengths, so that strings
  are apart; the final NUL and the text before it lie in the buffer.

`StdioProofs` proves `TypeOK`, `HandlesOwned`, `EofTruthful` and `NoSilentLoss` for
any number of handles and streams, any files and buffer. The last two are
inductive together (`Sound`): a stream that claims the end has nothing left to
read, and one that reports no error has in its handle what it was meant to hold.

`PaintProofs` proves `PictureShown` for every canvas and palette. It rests on
`Agrees`: the program's record is the terminal, except where it says black pixel
of a cell that it never sent, and there the terminal has some blank on black.

`EditorProofs` proves `TerminalExact` for every size of screen and buffer, every
text and all files, and `CaretOnCharacter` and `CleanIsSaved` as long as the disk
does not fail in the middle of a read (`~LATE_READ_FAULTS`): a read that does
spoils a buffer that counts as saved and may leave `top` inside a line. The
invariant `EditorInv` keeps text in the buffer and the cursor in the text, and
says that `front` is what was sent and that the terminal shows it. What the
loops of `scroll_fix` and `draw` yield is found by induction over their
functions: the lines on the screen begin where lines of the text begin and leave
none out (`StartsFacts`), the cursor's row is the number of newlines between
`top` and it (`RowOf`), going up and down ends at a line from which the cursor is
in view (`UpFacts`, `DownFacts`), and columns grow along a line, so that exactly
one cell shows a position (`ColumnsGrow`, `CaretColumn`). A key may leave the
view inside a line only by erasing the newline before it, and the cursor is then
above the view, from where `scroll_fix` repairs it (`Anchored`, `Backspaced`).

Each module of proofs begins with the few facts on division, remainders, grids
or least members that it needs, so that it can be read alone.

Only model-checked: liveness (`KernelGetsThere`, `CallsReturn`, `ClosingEnds`,
`KeyWakesReader`, `ShellComesBack`, `MallocReturns`), which is out of the
prover's reach here. Every invariant that a passing run checks is also a theorem.
Induction is over sets of numbers and their least members, since the
library's induction theorem takes an operator.

## Other differences met while modelling

The models follow the code in all of these; no run is spent on them.

- `sbrk` only compares the break with `USER_STACK`, so that it may pass the
  initial stack pointer and the argument block ("never grow into the stack",
  `memory.c:409`). The docs say it returns the old break; it returns the new one.
- `map_range`'s `v < to` (`memory.c:156`) would never become false for a range that
  ends in the last page; `map_usable`'s own check skips every entry that reaches
  there, so that no memory map gets to that loop.
- System call 7 stores a target and returns to the program ("end the program by
  calling `sys_exit()` or `sys_exit_to(mode)`", `userspace.md:35`), and exiting to
  halt, power-off or reboot skips `fs_close_all` ("Any handle a program leaves
  open is flushed", `userspace.md:137`).
- An E820 entry that ends exactly at 4 GiB is handed out but not mapped
  ("identity-map all usable RAM", `memory.c:213`).
- A directory's list keeps deleted children and repeats rewritten ones
  (`index.md:326`); new files go behind the last one and not into the "first
  free area" (`index.md:320`).
- A directory that cannot be read looks like a missing file to `fs_open`, and
  append then replaces the file (`fs.c:457`, `filetest.c:54`).
- `pit_sleep` returns early when its target wraps. `wm_blit_row` alone does not
  take away a caret in another row (`wm.c:155`); its callers copy both rows.
- The editor takes a file that is too big or unreadable at start-up for a new
  one, so that `:w` replaces it; a failed `:w` of a clean buffer may spoil the
  file while the buffer still counts as saved.
- `ungetc` replaces a byte already pushed back, and `ftell` does not count it;
  a stream in mode `a` writes elsewhere after `fseek`.
- `%p` of a null pointer prints no digits, `%#o` of 0 prints two zeros;
  `localtime` never sets `tm_yday`; a menu of no width still draws its mark.

## Not modelled

About 37,000 of the repository's 45,000 lines of C and assembly are the vendored
tinycc, third-party code that the system only runs: its output is a parameter
(the kinds of program files in `MCProcess`). Of the system's own code the
following is left out, because it holds no state of its own or nothing that a
model would show: the boot loader (BIOS calls), GDT, IDT and PIC set-up
(constants written once), port I/O and ATA polling, the print functions of
`vga.c` and the `term_cursor` functions of `wm.c` (never called), `setjmp`,
string searches, `ctype`, floating point and `sscanf`, the console streams,
Mirror's menus, progress bar and hex view, the command line of the tcc driver,
and the demo and test programs, whose expectations are used as statements about
the system.

## Plan

1. Memory, Process and their proofs: done.
2. FileStore, Fs, the proofs of the invariants of Fs and of the refinement: done.
3. ByteQueue, Keyboard and their proofs: done.
4. Terminal, Shell with the timer, and their proofs: done.
5. Heap and its proofs, for `SaneRequests`: done.
6. Stdio and its proofs: done.
7. Mirror, Editor, Paint and their proofs: done.
8. Algorithms and its proofs: done; `sscanf` and the string conversions could
   follow.
