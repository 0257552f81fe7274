------------------------------ MODULE Process ------------------------------
(***************************************************************************)
(* The life of the machine as the memory manager sees it: boot (kmain),    *)
(* the shell prompt, shell_run_program loading a program into a fresh      *)
(* address space, ring 3, the page faults of ring 3 and of the loader, the *)
(* system calls exit, exit_to and sbrk, and the release of the address     *)
(* space on the way back to the prompt.                                    *)
(*                                                                         *)
(* One program runs at a time and the kernel is never preempted by another *)
(* flow that touches memory, so mode is the machine's control state.  What *)
(* interleaves is the loader's page by page progress with the page faults  *)
(* it takes, and the free choice of what a program in ring 3 does.         *)
(***************************************************************************)
EXTENDS Memory

CONSTANTS
  USER_PROG_MAX,  \* largest file shell_run_program accepts
  TCC_FLAT_BASE,  \* where a flat binary is copied to
  TCC_FLAT_MAX,   \* largest flat binary, header included
  FLAT_HEADER,    \* bytes of the flat header (12)
  Images,         \* the files that may be run
  ArgSizes,       \* sizes of the argument block build_user_args lays out
  MAX_RUNS        \* bound: how many programs are started

(* A program file: its size and, for a tcc flat binary, the header fields. *)
Image == [size : Address, flat : BOOLEAN, fsize : Address, fentry : Address]

ASSUME LoaderAssumption ==
  /\ USER_PROG_MAX \in 0 .. USER_STACK - USER_BASE
  /\ TCC_FLAT_BASE \in USER_BASE .. USER_STACK
  /\ TCC_FLAT_BASE + USER_PROG_MAX < WORD
  /\ TCC_FLAT_MAX \in Nat /\ FLAT_HEADER \in Nat
  /\ USER_STACK % PAGE_SIZE = 0
  /\ Images \subseteq Image
  /\ ArgSizes \subseteq 1 .. USER_STACK - USER_BASE
  /\ MAX_RUNS \in Nat

VARIABLES
  mode,         \* where the kernel's single flow of control is
  pid,          \* the number of the current (last) program
  image,        \* the file being run
  fill,         \* window pages the loader has still to write
  esp,          \* the stack pointer the program starts with
  exit_target,  \* where system call 2 sends the CPU
  dying         \* the directory vm_detach still has to destroy, or 0

procVars == <<mode, pid, image, fill, esp, exit_target, dying>>
vars == <<memVars, procVars>>

Booting == {"boot", "paging", "mapping"}
Loading == {"image", "flat", "args"}
Leaving == {"detach", "destroy"}
Mode == Booting \cup Loading \cup Leaving \cup {"shell", "user", "halted", "stray"}
Targets == {"exit_to_shell", "user_halt", "user_power_off", "user_reboot"}

NoImage == [size |-> 0, flat |-> FALSE, fsize |-> 0, fentry |-> 0]

Init ==
  /\ e820 \in E820Maps
  /\ nframes = 0 /\ bitmap = {} /\ frames_free = 0
  /\ page_dir = EmptyTable
  /\ ram = [f \in Frame |-> Scribbled(KERNEL_DATA)]
  /\ mapping = [range |-> 0, v |-> 0]
  /\ cr3 = KernelDir /\ cur_dir = 0 /\ brk = 0 /\ fault_count = 0
  /\ mode = "boot" /\ pid = 0 /\ image = NoImage /\ fill = {} /\ esp = 0
  /\ exit_target = "exit_to_shell" /\ dying = 0

-----------------------------------------------------------------------------
(* kmain *)

BootMemory ==
  /\ mode = "boot"
  /\ memory_init
  /\ mode' = "paging"
  /\ UNCHANGED <<e820, page_dir, ram, mapping, cr3, cur_dir, brk, fault_count,
                 pid, image, fill, esp, exit_target, dying>>

StartPaging ==
  /\ mode = "paging"
  /\ paging_init
  /\ mode' = "mapping"
  /\ UNCHANGED <<e820, nframes, bitmap, frames_free, ram, cr3, cur_dir, brk,
                 fault_count, pid, image, fill, esp, exit_target, dying>>

BuildMap ==
  /\ mode = "mapping"
  /\ MapPage \/ NextRange
  /\ UNCHANGED <<e820, nframes, cr3, cur_dir, brk, fault_count>>
  /\ UNCHANGED procVars

(* CR0.PG is set: without the low region mapped, the CPU cannot go on. *)
EnablePaging ==
  /\ mode = "mapping" /\ MappingDone
  /\ \/ IdentityMapped(0) /\ mode' = "shell"
     \/ ~IdentityMapped(0) /\ mode' = "halted"
  /\ UNCHANGED memVars
  /\ UNCHANGED <<pid, image, fill, esp, exit_target, dying>>

-----------------------------------------------------------------------------
(* shell_run_program *)

(* The pages of the window that hold the n bytes from address a on. *)
PagesOf(a, n) == {p \in Index : \E x \in a .. a + n - 1 : Pti(x) = p}
PageAddress(p) == USER_BASE + p * PAGE_SIZE

(* fs_read refuses a file that is too big before it touches the buffer. *)
TooBig(img) == img.size > USER_PROG_MAX

shell_run_program ==
  /\ mode = "shell" /\ pid < MAX_RUNS
  /\ \E img \in Images :
       /\ vm_create
       /\ mode' = "image"
       /\ pid' = pid + 1
       /\ image' = img
       /\ fill' = IF TooBig(img) THEN {} ELSE PagesOf(USER_BASE, img.size)
  /\ UNCHANGED <<e820, nframes, page_dir, mapping, fault_count,
                 esp, exit_target, dying>>

(* "run: out of memory" *)
RunOutOfMemory ==
  /\ mode = "shell"
  /\ vm_create_fails
  /\ UNCHANGED <<e820, nframes, page_dir, mapping, fault_count>>
  /\ UNCHANGED procVars

Halt == mode' = "halted" /\ UNCHANGED <<pid, image, fill, esp, exit_target, dying>>

RunFaults ==
  /\ mode = "shell"
  /\ vm_create_faults
  /\ Halt /\ UNCHANGED memVars

(* fs_read and memcpy go up through the window, build_user_args goes down. *)
NextFill(p) == IF mode = "args" THEN IsMax(p, fill) ELSE IsMin(p, fill)

(* The loader's store hits a missing page: fault_handler in ring 0. *)
LoaderFault ==
  /\ mode \in Loading
  /\ \E p \in fill :
       /\ NextFill(p)
       /\ ~Mapped(PageAddress(p))
       /\ \/ /\ vm_fault(PageAddress(p))
             /\ UNCHANGED procVars
          \/ /\ vm_fault_fails(PageAddress(p))
             /\ Halt /\ UNCHANGED <<bitmap, frames_free, ram, fault_count>>
  /\ UNCHANGED <<e820, nframes, page_dir, mapping, cr3, cur_dir, brk>>

LoaderWrite ==
  /\ mode \in Loading
  /\ \E p \in fill :
       /\ NextFill(p)
       /\ Mapped(PageAddress(p))
       /\ ram' = [ram EXCEPT ![Pte(PageAddress(p)).frame] = Scribbled(pid)]
       /\ fill' = fill \ {p}
  /\ UNCHANGED <<e820, nframes, bitmap, frames_free, page_dir, mapping, cr3,
                 cur_dir, brk, fault_count,
                 mode, pid, image, esp, exit_target, dying>>

(* fs_read returns -1: no such file, or a disk error between two sectors. *)
LoadFails ==
  /\ mode = "image"
  /\ mode' = "detach" /\ fill' = {}
  /\ UNCHANGED memVars
  /\ UNCHANGED <<pid, image, esp, exit_target, dying>>

IsFlat == image.flat /\ image.size >= FLAT_HEADER

BadFlat ==
  \/ image.fsize > image.size - FLAT_HEADER
  \/ (image.fsize + FLAT_HEADER) % WORD > TCC_FLAT_MAX
  \/ (TCC_FLAT_BASE + image.fsize) % WORD > USER_STACK
  \/ image.fentry >= image.fsize

(* vm_note_load for n bytes, then build_user_args starts. *)
NoteLoad(n) ==
  /\ brk' = vm_note_load(n)
  /\ mode' = "args"
  /\ \E size \in ArgSizes :
       esp' = USER_STACK - size /\ fill' = PagesOf(USER_STACK - size, size)

(* fs_read has returned: -1, an ordinary image, or a flat binary. *)
ImageRead ==
  /\ mode = "image" /\ fill = {}
  /\ \/ /\ TooBig(image) \/ (IsFlat /\ BadFlat)
        /\ mode' = "detach"
        /\ UNCHANGED <<brk, fill, esp>>
     \/ ~TooBig(image) /\ ~IsFlat /\ NoteLoad(image.size)
     \/ /\ ~TooBig(image) /\ IsFlat /\ ~BadFlat
        /\ mode' = "flat"
        /\ fill' = PagesOf(TCC_FLAT_BASE, image.fsize)
        /\ UNCHANGED <<brk, esp>>
  /\ UNCHANGED <<e820, nframes, bitmap, frames_free, page_dir, ram, mapping,
                 cr3, cur_dir, fault_count, pid, image, exit_target, dying>>

(* Mutant: the break is noted as if the image had been left at USER_BASE. *)
FlatCopied_low_break ==
  /\ mode = "flat" /\ fill = {}
  /\ NoteLoad(image.fsize)
  /\ UNCHANGED <<e820, nframes, bitmap, frames_free, page_dir, ram, mapping,
                 cr3, cur_dir, fault_count, pid, image, exit_target, dying>>

FlatCopied ==
  /\ mode = "flat" /\ fill = {}
  /\ NoteLoad(TCC_FLAT_BASE - USER_BASE + image.fsize)
  /\ UNCHANGED <<e820, nframes, bitmap, frames_free, page_dir, ram, mapping,
                 cr3, cur_dir, fault_count, pid, image, exit_target, dying>>

enter_user ==
  /\ mode = "args" /\ fill = {}
  /\ mode' = "user"
  /\ UNCHANGED memVars
  /\ UNCHANGED <<pid, image, fill, esp, exit_target, dying>>

-----------------------------------------------------------------------------
(* Ring 3 and its system calls *)

(* The program stores to the page of frame-sized block b of its addresses. *)
UserWrite(b) ==
  /\ mode = "user"
  /\ UserAccess(b * PAGE_SIZE)
  /\ ram' = [ram EXCEPT ![Pte(b * PAGE_SIZE).frame] = Scribbled(pid)]
  /\ UNCHANGED <<e820, nframes, bitmap, frames_free, page_dir, mapping, cr3,
                 cur_dir, brk, fault_count>>
  /\ UNCHANGED procVars

(* Any access that ring 3 may not make enters fault_handler, and so does a *)
(* load or a store of a system call, in ring 0, that finds no page.        *)
UserFault(b) ==
  /\ mode = "user"
  /\ ~UserAccess(b * PAGE_SIZE)
  /\ \/ /\ vm_fault(b * PAGE_SIZE)
        /\ UNCHANGED procVars
     \/ /\ vm_fault_fails(b * PAGE_SIZE)
        /\ Halt /\ UNCHANGED <<bitmap, frames_free, ram, fault_count>>
  /\ UNCHANGED <<e820, nframes, page_dir, mapping, cr3, cur_dir, brk>>

(***************************************************************************)
(* Calls 4, 6 and 13 store what they read from the file system, in ring 0, *)
(* to the address the program gave, with the program's directory active.   *)
(* What ring 3 may reach says nothing of these stores: any mapped page     *)
(* takes them.  Each page a call fills is one step.                        *)
(***************************************************************************)
CallStores(b) == mode = "user" /\ Mapped(b * PAGE_SIZE)

CallWrite(b) ==
  /\ CallStores(b) /\ InWindow(b * PAGE_SIZE)
  /\ ram' = [ram EXCEPT ![Pte(b * PAGE_SIZE).frame] = Scribbled(pid)]
  /\ UNCHANGED <<e820, nframes, bitmap, frames_free, page_dir, mapping, cr3,
                 cur_dir, brk, fault_count>>
  /\ UNCHANGED procVars

(* The address is not checked.  From a store to the kernel's pages on the  *)
(* machine may do anything: the model follows it no further, and what the  *)
(* properties promise ends here.                                           *)
CallStray(b) ==
  /\ CallStores(b) /\ ~InWindow(b * PAGE_SIZE)
  /\ mode' = "stray"
  /\ UNCHANGED memVars
  /\ UNCHANGED <<pid, image, fill, esp, exit_target, dying>>

(* System call 11 *)
Sbrk(inc) ==
  /\ mode = "user"
  /\ brk' = vm_sbrk(inc)
  /\ UNCHANGED <<e820, nframes, bitmap, frames_free, page_dir, ram, mapping,
                 cr3, cur_dir, fault_count>>
  /\ UNCHANGED procVars

(* System call 7 only chooses the target; an unknown mode changes nothing. *)
ExitTo(target) ==
  /\ mode = "user"
  /\ exit_target' = target
  /\ UNCHANGED memVars
  /\ UNCHANGED <<mode, pid, image, fill, esp, dying>>

(* System call 2: iret to exit_target. *)
Exit ==
  /\ mode = "user"
  /\ mode' = IF exit_target = "exit_to_shell" THEN "detach" ELSE "halted"
  /\ UNCHANGED memVars
  /\ UNCHANGED <<pid, image, fill, esp, exit_target, dying>>

-----------------------------------------------------------------------------
(* vm_detach, called by exit_to_shell and by the loader's error paths *)

Detach ==
  /\ mode = "detach"
  /\ dying' = cur_dir
  /\ vm_switch_to_kernel
  /\ mode' = "destroy"
  /\ UNCHANGED <<e820, nframes, bitmap, frames_free, page_dir, ram, mapping,
                 brk, fault_count, pid, image, fill, esp, exit_target>>

Destroy ==
  /\ mode = "destroy"
  /\ vm_destroy(dying)
  /\ dying' = 0
  /\ mode' = "shell"
  /\ UNCHANGED <<e820, nframes, page_dir, mapping, cr3, cur_dir, brk,
                 fault_count, pid, image, fill, esp, exit_target>>

-----------------------------------------------------------------------------
BootStep == BootMemory \/ StartPaging \/ BuildMap \/ EnablePaging
LoadStep == LoaderFault \/ LoaderWrite \/ ImageRead \/ FlatCopied \/ enter_user
LeaveStep == Detach \/ Destroy
ShellStep == shell_run_program \/ RunOutOfMemory \/ RunFaults
UserStep ==
  \/ \E b \in Frame : UserWrite(b) \/ UserFault(b) \/ CallWrite(b) \/ CallStray(b)
  \/ \E inc \in Address : Sbrk(inc)
  \/ \E target \in Targets : ExitTo(target)
  \/ Exit

Next == BootStep \/ ShellStep \/ LoadStep \/ LoadFails \/ UserStep \/ LeaveStep

(***************************************************************************)
(* The kernel's own code always goes on to its next step.  Nothing makes a *)
(* user type a command, a program end or a disk read fail, so ShellStep,   *)
(* UserStep and LoadFails are not fair.                                    *)
(***************************************************************************)
Fairness == WF_vars(BootStep) /\ WF_vars(LoadStep) /\ WF_vars(LeaveStep)
Spec == Init /\ [][Next]_vars /\ Fairness

-----------------------------------------------------------------------------
(* Properties *)

(* The value every variable may take. *)
TypeOK ==
  /\ e820 \in E820Maps
  /\ nframes \in 0 .. ENTRIES * ENTRIES
  /\ bitmap \subseteq AllFrames
  /\ frames_free \in Nat
  /\ page_dir \in [Index -> Entry]
  /\ ram \in [Frame -> Page]
  /\ mapping \in [range : Nat, v : Address]
  /\ cr3 \in Frame /\ cur_dir \in Frame /\ dying \in Frame
  /\ brk \in Address
  /\ fault_count \in Nat
  /\ mode \in Mode /\ pid \in Nat /\ image \in Image
  /\ fill \subseteq Index /\ esp \in Address
  /\ exit_target \in Targets

KernelTables == FramesIn(page_dir)

(* The address space that exists, whether running or being torn down. *)
LiveDir == IF cur_dir # 0 THEN cur_dir ELSE dying

(* The counter that `free` and alloc_frame's callers rely on agrees with   *)
(* the bitmap after every mix of alloc_frame and free_frame.               *)
FramesAccounted == frames_free = Cardinality(FreeFrames)

(* No frame is lost and none is free while in use: the bits that are set   *)
(* are the reserved frames, the kernel's page tables and the frames of the *)
(* one live process.  At the prompt a program that ended, failed to load   *)
(* or was a bad flat binary has left nothing behind (vm_destroy).          *)
NoFrameLeaks ==
  mode # "boot" =>
    bitmap = ReservedFrames(nframes) \cup KernelTables \cup ProcessFrames(LiveDir)

(* alloc_frame never hands out a frame twice: reserved frames, kernel      *)
(* tables and process frames are apart, no two directory entries share a   *)
(* table, and no two pages of a program, nor a page and a table, share a   *)
(* frame.                                                                  *)
FramesOwnedOnce ==
  LET d == LiveDir
  IN  /\ KernelTables \cap ReservedFrames(nframes) = {}
      /\ ProcessFrames(d) \cap (ReservedFrames(nframes) \cup KernelTables) = {}
      /\ \A i, j \in Index :
           page_dir[i].present /\ page_dir[j].present
             /\ page_dir[i].frame = page_dir[j].frame => i = j
      /\ d # 0 =>
           /\ d # UserTable(d) /\ {d, UserTable(d)} \cap UserPages(d) = {}
           /\ \A i, j \in Index :
                LET pte == ram[UserTable(d)].ent
                IN  pte[i].present /\ pte[j].present
                      /\ pte[i].frame = pte[j].frame => i = j

(* Everything the page tables let ring 3 load from and store to lies in    *)
(* the window, and there ring 3 and calls 4, 6 and 13 find only pages of   *)
(* the running program: never the kernel, a page table, the bitmap, or a   *)
(* frame the allocator believes to be free.  The CPU's checks do not bind  *)
(* those calls, which store in ring 0: of one that is given an address     *)
(* outside the window (CallStray) this says nothing.                       *)
UserIsolation ==
  mode = "user" =>
    \A b \in Frame :
      UserAccess(b * PAGE_SIZE) \/ (Mapped(b * PAGE_SIZE) /\ InWindow(b * PAGE_SIZE)) =>
        /\ InWindow(b * PAGE_SIZE)
        /\ Pte(b * PAGE_SIZE).frame \in UserPages(cur_dir) \cap bitmap
        /\ Pte(b * PAGE_SIZE).frame \notin ReservedFrames(nframes) \cup KernelTables
                                            \cup {cr3, UserTable(cr3)}

(* vm_fault's zero fill: what a program can read in its window was zero or *)
(* was put there for this very run, never left by the kernel, the firmware *)
(* or an earlier program whose frames were recycled.                       *)
NoStaleData ==
  cur_dir # 0 =>
    \A p \in Index :
      Mapped(PageAddress(p)) => ram[Pte(PageAddress(p)).frame].data \in {0, pid}

(* The tables the CPU walks are never in the free pool: vm_detach leaves a *)
(* directory before vm_destroy gives its frames back.                      *)
ActiveTablesHeld ==
  mode \notin Booting =>
    /\ cr3 # KernelDir => cr3 \in bitmap /\ cr3 = cur_dir
    /\ \A i \in Index : DirOf(cr3)[i].present => DirOf(cr3)[i].frame \in bitmap

(* A usable entry that runs up to or past the end of the address space. *)
ReachesTop(e) == e.usable /\ HighOf(e.base, LOW_END) + e.len >= WORD

(* Every frame the allocator may hand out can be cleared by the kernel at  *)
(* its identity address, so a fault is never answered by a fault: the      *)
(* frames memory_init frees are the ones paging_init maps.  It needs a     *)
(* memory map without an entry that reaches the end of the address space.  *)
KernelReachesFrames ==
  mode \notin Booting \cup {"halted"} /\ (\A i \in DOMAIN e820 : ~ReachesTop(e820[i])) =>
    \A f \in FreeFrames : IdentityMapped(f)

(* The heap starts above the loaded image and ends at or below USER_STACK. *)
BreakAboveImage ==
  mode \in {"args", "user"} =>
    /\ brk >= IF IsFlat THEN TCC_FLAT_BASE + image.fsize ELSE USER_BASE + image.size
    /\ brk <= USER_STACK

(* vm_sbrk never takes memory back, whatever increment a program passes: a *)
(* huge one (a negative one in the program's eyes) is refused.             *)
BreakNeverShrinks == [][mode = "user" /\ mode' = "user" => brk' >= brk]_vars

(* Kernel code always gets somewhere: boot, the loader with its retries of *)
(* faulting stores, and the way out of a program end at the prompt, in     *)
(* ring 3 or in a stopped machine.                                         *)
KernelGetsThere ==
  mode \in Booting \cup Loading \cup Leaving ~> mode \in {"user", "shell", "halted"}

=============================================================================
