---------------------------- MODULE MCThreadArea ----------------------------
(* Six TLS indices, two of them the host's; bases at both ends of the      *)
(* address space, so that base + offset wraps around.                      *)
EXTENDS ThreadArea

MCSlot      == 0 .. 5
MCHostSlots == {0, 2}
MCFaulting  == {1, 3, 4, 5}
=============================================================================
