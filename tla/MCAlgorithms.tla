---------------------------- MODULE MCAlgorithms ----------------------------
(***************************************************************************)
(* Words of four bits, every pair of double words; the days from 1967 to  *)
(* 2101, which hold a leap century and a common one.                       *)
(***************************************************************************)
EXTENDS Algorithms

MCDays == -800 .. 48000
MCSeconds == {day * DAY + s : day \in {-1, 0, 1}, s \in {0, 1, 59, 60, 3599, 3600, DAY - 1}}

=============================================================================
