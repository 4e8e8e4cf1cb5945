--------------------------- MODULE MCSyscallTrap ---------------------------
(***************************************************************************)
(* A small program: an ordinary instruction at 12, an emulated GS          *)
(* instruction of length 3 at 14 with INT 80h behind it, an ordinary       *)
(* instruction at 19, HLT at 10 and a GS instruction nobody emulates at    *)
(* 20.                                                                     *)
(***************************************************************************)
EXTENDS SyscallTrap

MCWord       == {-38, 0, 1, 2, 4} \cup {10, 12, 14, 17, 19, 20} \cup 31 .. 36
MCCodeAddr   == {10, 12, 14, 17, 19, 20}
MCInt80At    == {17}
MCGsLength   == [a \in {14} |-> 3]
MCFaultAt    == {10, 20}
MCGuestWords == {1}
MCENOSYS     == -38

\* All arguments differ, so that a register restored from the wrong slot
\* shows.  Number 0 is a stub and 4 lies outside the table; 1, which is
\* implemented and follows pointers, is what the GS instruction can load
\* into EAX, and 2 is implemented and follows none.
MCFile(id) == [eax |-> id, ebx |-> 31, ecx |-> 32, edx |-> 33,
               esi |-> 34, edi |-> 35, ebp |-> 36]
MCGuestRegs == {MCFile(0), MCFile(2), MCFile(4)}
=============================================================================
