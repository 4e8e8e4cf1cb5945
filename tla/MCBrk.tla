------------------------------- MODULE MCBrk -------------------------------
(* Eleven pages of two units, three of them the host's; arenas of three    *)
(* pages, so that the break can pass the end of its reservation and two    *)
(* arenas fit, next to each other or apart.                                *)
EXTENDS Brk

MCHostPages == {0, 1, 8}
MCIncrement == {-3, -1, 1, 2, 3, 5}
=============================================================================
