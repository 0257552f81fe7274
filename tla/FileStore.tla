----------------------------- MODULE FileStore -----------------------------
(***************************************************************************)
(* What src/src/drivers/fs.c promises its callers: a map from names to     *)
(* typed contents that changes one file at a time, and at most one draft,  *)
(* the whole-file buffer behind a writable handle.  Nothing is said here   *)
(* of slots, sectors or where on the disk a file lies.  Fs.tla implements  *)
(* this specification.                                                     *)
(*                                                                         *)
(* A write replaces a file's contents in one step.  Only when the new      *)
(* contents fit the room of the old ones may a failure or a crash leave a  *)
(* mixture of both, and then only in the file being written.               *)
(***************************************************************************)
EXTENDS Integers, Sequences

CONSTANTS
  Name,          \* the paths in use
  NoName,        \* the empty name, no path
  Parent,        \* the directory part of a path, NoName without a slash
  Unit,          \* units of file contents; a path is also a line of one
  Zero,          \* the unit that fills gaps
  SECTOR,        \* units in a sector
  DIR_BUF_SIZE,  \* units in the buffer a directory is rewritten through
  FD_BUF_SIZE    \* units in the buffer of a writable handle

FS_FILE == 0
FS_DIR == 1
Type == {FS_FILE, FS_DIR}

NoOp == [busy |-> FALSE]
NoDraft == [open |-> FALSE]

Sectors(n) == (n + SECTOR - 1) \div SECTOR

VARIABLES
  files,   \* the files that exist: name -> [type, data]
  op,      \* the write in progress: [busy, name, type, data]
  draft    \* the writable handle: [open, name, data, pos]

vars == <<files, op, draft>>

Write(n, type, data) == [busy |-> TRUE, name |-> n, type |-> type, data |-> data]

(* The file of op as the finished write leaves it. *)
Written ==
  [n \in DOMAIN files \cup {op.name} |->
     IF n = op.name THEN [type |-> op.type, data |-> op.data] ELSE files[n]]

(* A write of a child goes on with the list kept in its parent. *)
Listed(f, n) == Write(Parent[n], FS_DIR, Append(f[Parent[n]].data, n))

(* At most the file being written differs, and only where it may. *)
MayTear ==
  /\ DOMAIN files' = DOMAIN files
  /\ \A n \in DOMAIN files :
       \/ files'[n] = files[n]
       \/ /\ op.busy /\ n = op.name
          /\ Sectors(Len(op.data)) <= Sectors(Len(files[n].data))
          /\ files'[n].type = files[n].type
          /\ Len(files'[n].data) = Len(files[n].data)

(* The buffer after data is stored at pos: a gap is filled with Zero. *)
Stored(buf, pos, data) ==
  [i \in 1 .. (IF pos + Len(data) > Len(buf) THEN pos + Len(data) ELSE Len(buf)) |->
     IF i > pos /\ i <= pos + Len(data) THEN data[i - pos]
     ELSE IF i <= Len(buf) THEN buf[i] ELSE Zero]

Init ==
  /\ DOMAIN files \subseteq Name
  /\ op = NoOp /\ draft = NoDraft

BeginWrite ==
  /\ ~op.busy
  /\ op'.busy
  /\ \/ op' = Write(op'.name, FS_FILE, op'.data)
     \/ op' = Write(op'.name, FS_DIR, <<>>)
  /\ UNCHANGED <<files, draft>>

(* Closing the draft writes exactly what it holds. *)
BeginFlush ==
  /\ ~op.busy /\ draft.open
  /\ op' = Write(draft.name, FS_FILE, draft.data)
  /\ UNCHANGED <<files, draft>>

Progress == op.busy /\ op' = op /\ MayTear /\ UNCHANGED draft

Commit ==
  /\ op.busy
  /\ files' = Written
  /\ \/ op' = NoOp
     \/ Parent[op.name] # NoName /\ op' = Listed(files', op.name) /\ Len(op'.data) < DIR_BUF_SIZE
  /\ draft' \in {draft, NoDraft}

(* The write is given up, or is over. *)
Abandon == op.busy /\ op' = NoOp /\ MayTear /\ draft' \in {draft, NoDraft}

Delete ==
  /\ ~op.busy
  /\ \E n \in DOMAIN files : files' = [m \in DOMAIN files \ {n} |-> files[m]]
  /\ UNCHANGED <<op, draft>>

(* A draft starts as the file, or empty, and is given up without a trace. *)
Open ==
  /\ ~op.busy /\ ~draft.open
  /\ draft'.open
  /\ draft'.data \in {<<>>} \cup {files[n].data : n \in DOMAIN files \cap {draft'.name}}
  /\ draft'.pos \in {0, Len(draft'.data)}
  /\ UNCHANGED <<files, op>>

(* A new position, or data stored at the old one. *)
Edit ==
  /\ ~op.busy /\ draft.open /\ draft'.open
  /\ \/ draft' = [draft EXCEPT !.pos = draft'.pos]
     \/ \E n \in 0 .. FD_BUF_SIZE - draft.pos :
          /\ Len(draft'.data) \in draft.pos + n .. FD_BUF_SIZE
          /\ draft' = [draft EXCEPT
               !.data = Stored(@, draft.pos, SubSeq(draft'.data, draft.pos + 1, draft.pos + n)),
               !.pos = @ + n]
  /\ UNCHANGED <<files, op>>

Drop == ~op.busy /\ draft' = NoDraft /\ UNCHANGED <<files, op>>

(* The machine stops; what is on the disk stays. *)
PowerLoss == op' = NoOp /\ draft' = NoDraft /\ MayTear

Next ==
  \/ BeginWrite \/ BeginFlush \/ Progress \/ Commit \/ Abandon \/ Delete
  \/ Open \/ Edit \/ Drop \/ PowerLoss

Spec == Init /\ [][Next]_vars

=============================================================================
