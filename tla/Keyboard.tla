------------------------------ MODULE Keyboard ------------------------------
(***************************************************************************)
(* The keyboard driver of src/src/drivers/keyboard.c: the ring that the    *)
(* interrupt handler fills one byte at a time while kbd_getc or kbd_flush  *)
(* empties it, and the decoding of scancodes into keys and modifiers.      *)
(*                                                                         *)
(* Interrupts come between any two accesses of the reader to the ring: the *)
(* system call gate is a trap gate and the shell polls with interrupts on. *)
(* The environment is a keyboard whose user presses and releases keys; it  *)
(* records what the user meant by them.                                    *)
(***************************************************************************)
EXTENDS Integers, Sequences

CONSTANTS
  BUF_SIZE,         \* bytes of the ring
  Key,              \* keys in use: [code, extended]
  Letter,           \* codes whose key is a letter
  scancodes,        \* code -> what the key stands for
  scancodes_shift,  \* code -> the same with shift
  MAX_EVENTS,       \* bound: presses, repeats and releases
  MAX_WIRE          \* bound: undelivered bytes beyond which nobody types

PREFIX == 224                   \* 0xe0: an extended key follows
RELEASE == 128                  \* 0x80: the key went up
CAPS == 58                      \* 0x3a
NoChar == "none"                \* kbd_getc returns 0
Byte == 0 .. 255
Cell == 0 .. BUF_SIZE - 1
MODS == {"shift", "ctrl", "alt", "super"}

ASSUME RingAssumption == BUF_SIZE \in Nat \ {0, 1} /\ MAX_EVENTS \in Nat /\ MAX_WIRE \in Nat

(* No release code looks like the prefix, and the tables have no entry for *)
(* shift, control, alt and caps lock.                                      *)
ASSUME KeysAssumption ==
  /\ Key \subseteq [code : (0 .. RELEASE - 1) \ {PREFIX - RELEASE}, extended : BOOLEAN]
  /\ DOMAIN scancodes \cap {29, 42, 54, 56, CAPS} = {}

VARIABLES
  buffer, head, tail,  \* the ring
  kbd,                 \* extended, modifiers, caps_lock
  reader,              \* where the reader is: idle, poll, take, flush
  scancode,            \* the byte kbd_getc has read
  wire,                \* bytes the keyboard has still to deliver
  held, caps,          \* the keys the user holds; whether caps lock is on
  due,                 \* what the user typed and kbd_getc has still to return
  intact,              \* no byte was dropped, no modifier held by two keys
  events               \* presses, repeats and releases so far

ringVars == <<buffer, head, tail>>
userVars == <<held, caps, due, intact>>
vars == <<ringVars, kbd, reader, scancode, wire, userVars, events>>

-----------------------------------------------------------------------------
(* Decoding *)

(* The modifier a code stands for, if any. *)
Modifier(extended, code) ==
  {m \in MODS :
     \/ m = "shift" /\ ~extended /\ code \in {42, 54}
     \/ m = "ctrl" /\ code = 29
     \/ m = "alt" /\ code = 56
     \/ m = "super" /\ extended /\ code \in {91, 92}}

(* Mutant: the prefix is forgotten only when a key goes down. *)
Decode_keeps_prefix(k, sc) ==
  [extended |-> sc = PREFIX \/ (k.extended /\ sc >= RELEASE),
   modifiers |-> IF sc = PREFIX THEN k.modifiers
                 ELSE IF sc >= RELEASE
                 THEN k.modifiers \ Modifier(k.extended, sc - RELEASE)
                 ELSE k.modifiers \cup Modifier(k.extended, sc),
   caps_lock |-> k.caps_lock # (sc = CAPS /\ ~k.extended)]

(* What kbd_getc does to the decoder's state for byte sc. *)
Decode(k, sc) ==
  [extended |-> sc = PREFIX,
   modifiers |-> IF sc = PREFIX THEN k.modifiers
                 ELSE IF sc >= RELEASE
                 THEN k.modifiers \ Modifier(k.extended, sc - RELEASE)
                 ELSE k.modifiers \cup Modifier(k.extended, sc),
   caps_lock |-> k.caps_lock # (sc = CAPS /\ ~k.extended)]

Arrows == {<<72, "up">>, <<80, "down">>, <<75, "left">>, <<77, "right">>}

(* The key it returns: letters are upper case when shift or caps lock is   *)
(* on, but not both; other keys look at shift alone.                       *)
Char(k, sc) ==
  IF sc >= RELEASE THEN NoChar
  ELSE IF k.extended
  THEN IF \E a \in Arrows : a[1] = sc THEN (CHOOSE a \in Arrows : a[1] = sc)[2] ELSE NoChar
  ELSE IF sc \notin DOMAIN scancodes THEN NoChar
  ELSE IF ("shift" \in k.modifiers) # (sc \in Letter /\ k.caps_lock)
  THEN scancodes_shift[sc] ELSE scancodes[sc]

-----------------------------------------------------------------------------
(* The user *)

ModsOf(keys) == UNION {Modifier(k.extended, k.code) : k \in keys}

Bytes(k, code) == IF k.extended THEN <<PREFIX, code>> ELSE <<code>>

Meant(k) ==
  Char([extended |-> k.extended, modifiers |-> ModsOf(held), caps_lock |-> caps], k.code)

Event == events < MAX_EVENTS /\ Len(wire) < MAX_WIRE /\ events' = events + 1

Spoil == intact' = FALSE /\ due' = <<>>

(* A key goes down, or is held so long that the keyboard sends its code    *)
(* again: the driver takes every code for one more press, also that of a   *)
(* caps lock that was never released.                                      *)
Press(k) ==
  /\ Event
  /\ held' = held \cup {k}
  /\ caps' = (caps # (k.code = CAPS /\ ~k.extended))
  /\ wire' = wire \o Bytes(k, k.code)
  /\ \/ /\ Modifier(k.extended, k.code) \cap ModsOf(held \ {k}) = {} /\ intact
        /\ due' = IF Meant(k) = NoChar THEN due ELSE Append(due, <<Meant(k), ModsOf(held)>>)
        /\ UNCHANGED intact
     \/ /\ ~intact \/ Modifier(k.extended, k.code) \cap ModsOf(held \ {k}) # {}
        /\ Spoil
  /\ UNCHANGED <<ringVars, kbd, reader, scancode>>

Release(k) ==
  /\ Event /\ k \in held
  /\ held' = held \ {k}
  /\ wire' = wire \o Bytes(k, k.code + RELEASE)
  /\ UNCHANGED <<ringVars, kbd, reader, scancode, caps, due, intact>>

-----------------------------------------------------------------------------
(* The interrupt handler *)

Succ(i) == (i + 1) % BUF_SIZE

(* Mutant: a full ring is written to. *)
Stored_when_full ==
  /\ buffer' = [buffer EXCEPT ![head] = Head(wire)]
  /\ head' = Succ(head)
  /\ UNCHANGED <<due, intact>>

(* Mutant: the byte is stored but not announced. *)
Stored_unannounced ==
  /\ Succ(head) # tail
  /\ buffer' = [buffer EXCEPT ![head] = Head(wire)]
  /\ UNCHANGED <<head, due, intact>>

Stored ==
  /\ Succ(head) # tail
  /\ buffer' = [buffer EXCEPT ![head] = Head(wire)]
  /\ head' = Succ(head)
  /\ UNCHANGED <<due, intact>>

keyboard_handler ==
  /\ wire # <<>>
  /\ wire' = Tail(wire)
  /\ \/ Stored
     \/ Succ(head) = tail /\ Spoil /\ UNCHANGED <<buffer, head>>
  /\ UNCHANGED <<tail, kbd, reader, scancode, held, caps, events>>

-----------------------------------------------------------------------------
(* The reader: the shell, or system call 3 *)

Call ==
  /\ reader = "idle"
  /\ reader' \in {"poll", "flush"}
  /\ UNCHANGED <<ringVars, kbd, scancode, wire, userVars, events>>

(* kbd_getc, once the ring is not empty. *)
Fetch ==
  /\ reader = "poll" /\ head # tail
  /\ scancode' = buffer[tail]
  /\ reader' = "take"
  /\ UNCHANGED <<ringVars, kbd, wire, userVars, events>>

Take ==
  /\ reader = "take"
  /\ tail' = Succ(tail)
  /\ kbd' = Decode(kbd, scancode)
  /\ due' = IF Char(kbd, scancode) = NoChar \/ due = <<>> THEN due ELSE Tail(due)
  /\ reader' = "idle"
  /\ UNCHANGED <<buffer, head, scancode, wire, held, caps, intact, events>>

(* kbd_flush *)
FlushByte ==
  /\ reader = "flush" /\ head # tail
  /\ tail' = Succ(tail)
  /\ Spoil
  /\ UNCHANGED <<buffer, head, kbd, reader, scancode, wire, held, caps, events>>

FlushEnd ==
  /\ reader = "flush" /\ head = tail
  /\ kbd' = [kbd EXCEPT !.extended = FALSE]
  /\ IF kbd.extended THEN Spoil ELSE UNCHANGED <<due, intact>>
  /\ reader' = "idle"
  /\ UNCHANGED <<ringVars, scancode, wire, held, caps, events>>

-----------------------------------------------------------------------------
Init ==
  /\ buffer = [i \in Cell |-> 0] /\ head = 0 /\ tail = 0
  /\ kbd = [extended |-> FALSE, modifiers |-> {}, caps_lock |-> FALSE]
  /\ reader = "idle" /\ scancode = 0
  /\ wire = <<>> /\ held = {} /\ caps = FALSE /\ due = <<>>
  /\ intact = TRUE /\ events = 0

ReaderStep == Fetch \/ Take \/ FlushByte \/ FlushEnd

Next ==
  \/ \E k \in Key : Press(k) \/ Release(k)
  \/ keyboard_handler
  \/ Call
  \/ ReaderStep

(* The controller goes on interrupting and the reader goes on running;     *)
(* nothing makes a user type or a program ask for a key.                   *)
Spec == Init /\ [][Next]_vars /\ WF_vars(keyboard_handler) /\ WF_vars(ReaderStep)

-----------------------------------------------------------------------------
(* Properties *)

Decoder == [extended : BOOLEAN, modifiers : SUBSET MODS, caps_lock : BOOLEAN]

(* The value every variable may take. *)
TypeOK ==
  /\ buffer \in [Cell -> Byte] /\ head \in Cell /\ tail \in Cell
  /\ kbd \in Decoder
  /\ reader \in {"idle", "poll", "take", "flush"}
  /\ scancode \in Byte /\ wire \in Seq(Byte)
  /\ held \subseteq Key /\ caps \in BOOLEAN /\ intact \in BOOLEAN
  /\ events \in Nat

(* The bytes in the ring, oldest first. *)
Ring == [i \in 1 .. (head - tail) % BUF_SIZE |-> buffer[(tail + i - 1) % BUF_SIZE]]

Queue ==
  INSTANCE ByteQueue WITH CAPACITY <- BUF_SIZE - 1, queue <- Ring,
                          peeked <- reader = "take", got <- scancode

(* head, tail and buffer, written by an interrupt handler and a reader     *)
(* that never lock, are a queue: no accepted byte is overwritten, lost,    *)
(* repeated or overtaken, also when the ring is full.                      *)
ImplementsByteQueue == Queue!Spec

(* What came out of the decoder so far, r, and what it makes of one more   *)
(* byte: kbd_getc returns a key, and the modifiers are those of then.      *)
Decoded(r, sc) ==
  [kbd |-> Decode(r.kbd, sc),
   out |-> IF Char(r.kbd, sc) = NoChar THEN r.out
           ELSE Append(r.out, <<Char(r.kbd, sc), Decode(r.kbd, sc).modifiers>>)]

Decoding(k, bytes) ==
  LET done[i \in 0 .. Len(bytes)] ==
        IF i = 0 THEN [kbd |-> k, out |-> <<>>] ELSE Decoded(done[i - 1], bytes[i])
  IN  done[Len(bytes)]

(* What the driver will make of the bytes under way, one after the other. *)
Outcome == Decoding(kbd, Ring \o wire)

(* Keys that are decoded late, when someone reads them, come out as they   *)
(* were meant when they were pressed, with the modifiers of that moment;   *)
(* and when all is read no modifier is stuck: unless bytes were dropped,   *)
(* or two keys of one modifier were down at once.                          *)
KeysAsMeant ==
  intact =>
    /\ Outcome.out = due
    /\ Outcome.kbd = [extended |-> FALSE, modifiers |-> ModsOf(held), caps_lock |-> caps]

(* kbd_getc, spinning on an empty ring, returns once a byte is sent.       *)
KeyWakesReader ==
  reader = "poll" /\ wire # <<>> ~> reader = "idle"

=============================================================================
