------------------------------ MODULE Segments ------------------------------
(***************************************************************************)
(* What a Linux program may rely on when it uses GS for thread-local       *)
(* storage: set_thread_area defines a segment, mov gs loads one, and every *)
(* GS-relative access goes through the segment that was last loaded, as it *)
(* was when it was loaded.  An access with nothing loaded ends the program.*)
(***************************************************************************)
EXTENDS Integers

CONSTANTS
  Slot,      \* numbers of segment descriptors
  Base,      \* base addresses
  Offset,    \* offsets of GS-relative accesses
  Modulus    \* 2^32: addresses wrap around

NoBase == -1   \* no usable segment

VARIABLES
  table,     \* base of every descriptor the program has defined
  loaded,    \* base GS was loaded with, or NoBase
  accessed,  \* linear address of the last GS-relative access
  alive

vars == <<table, loaded, accessed, alive>>

Init ==
  /\ table = [e \in {} |-> NoBase]
  /\ loaded = NoBase
  /\ accessed = NoBase
  /\ alive = TRUE

\* set_thread_area: with entry_number -1 a free descriptor is chosen.
Define(e, b) ==
  /\ alive
  /\ table' = [d \in DOMAIN table \cup {e} |-> IF d = e THEN b ELSE table[d]]
  /\ UNCHANGED <<loaded, accessed, alive>>

\* mov gs.  The host may be out of resources the first time; then nothing is
\* loaded, and the next access ends the program.
Load(e) ==
  /\ alive
  /\ \/ e \in DOMAIN table /\ loaded' = table[e]
     \/ e \notin DOMAIN table /\ loaded' = NoBase
     \/ loaded = NoBase /\ loaded' = NoBase
  /\ UNCHANGED <<table, accessed, alive>>

Access(o) ==
  /\ alive
  /\ loaded # NoBase
  /\ accessed' = (loaded + o) % Modulus
  /\ UNCHANGED <<table, loaded, alive>>

\* An access with nothing loaded, or the host out of memory in
\* set_thread_area.
Die ==
  /\ alive
  /\ alive' = FALSE
  /\ UNCHANGED <<table, loaded, accessed>>

Next ==
  \/ \E e \in Slot, b \in Base : Define(e, b)
  \/ \E e \in Slot : Load(e)
  \/ \E o \in Offset : Access(o)
  \/ Die

Spec == Init /\ [][Next]_vars
=============================================================================
