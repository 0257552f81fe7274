----------------------------- MODULE MCKeyboard -----------------------------
(***************************************************************************)
(* A ring of three bytes, and a key of each kind: a letter, shift, caps    *)
(* lock, control on the left and, extended, on the right, an arrow.        *)
(***************************************************************************)
EXTENDS Keyboard

KeyAt(c, e) == [code |-> c, extended |-> e]
MCKeys ==
  {KeyAt(30, FALSE), KeyAt(42, FALSE), KeyAt(29, FALSE), KeyAt(29, TRUE),
   KeyAt(72, TRUE), KeyAt(CAPS, FALSE)}

MCScancodes == [c \in {30} |-> "a"]
MCScancodesShift == [c \in {30} |-> "A"]

=============================================================================
