------------------------------ MODULE MCShell ------------------------------
(***************************************************************************)
(* Two terminals of two rows of three cells, a prompt of one cell and      *)
(* lines of up to two characters: a line can fill a row exactly, wrap and  *)
(* scroll.  "r" runs a program, "s" sleeps, "c" clears; the tick counter   *)
(* wraps at eight.                                                         *)
(***************************************************************************)
EXTENDS Shell

MCPrompt == <<[ch |-> ">", color |-> VGA_COLOR(BLACK, "cyan")]>>
MCCommands ==
  (<<"r">> :> "run") @@ (<<"s">> :> "sleep") @@ (<<"c">> :> "clear") @@ (<<"h">> :> "stop")
MCMessages == {Coloured(<<"c", NL>>, VGA_COLOR(BLACK, "cyan"))}
MCTexts == {<<"s">>, <<"s", "s", "s", NL>>}

=============================================================================
