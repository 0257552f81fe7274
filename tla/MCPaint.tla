------------------------------- MODULE MCPaint -------------------------------
(***************************************************************************)
(* A canvas of two rows and two columns, and three colours.                *)
(***************************************************************************)
EXTENDS Paint

MCPalette == <<"black", "blue", "red">>
MCSwatch == [c \in {"black", "blue", "red"} |->
               CASE c = "black" -> "k" [] c = "blue" -> "b" [] c = "red" -> "r"]

=============================================================================
