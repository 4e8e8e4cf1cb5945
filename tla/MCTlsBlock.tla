------------------------------ MODULE MCTlsBlock ------------------------------
(* Eight pages of four units, two of them the host's, and arenas of three   *)
(* pages, the first of which the block fills; increments within a page,     *)
(* across a page and past the reservation.  Three free slots, so that both  *)
(* TlsAlloc calls can be served in any order or fail.                       *)
EXTENDS TlsBlock

MCHostPages == {0, 5}
MCIncrement == {-5, -1, 1, 3, 5}
MCSlot      == 0 .. 3
MCHostSlots == {0}
MCFaulting  == {1, 2, 3}
=============================================================================
