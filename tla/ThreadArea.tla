----------------------------- MODULE ThreadArea -----------------------------
(***************************************************************************)
(* set_thread_area and the GS register on top of Win32 thread-local        *)
(* storage (sys_tls.c, gs_support.c).  A segment descriptor's number is a  *)
(* TLS index; the slot points to a copy of the program's descriptor.  One  *)
(* more slot, GsTls, points to the copy GS was last loaded with.           *)
(*                                                                         *)
(* The program passes set_thread_area -1 or a number it got from it, and   *)
(* loads GS with such a number or with one nobody has allocated.           *)
(***************************************************************************)
EXTENDS Integers, Sequences

CONSTANTS
  Slot,       \* the TLS indices of the process
  HostSlots,  \* those in use by the C runtime and Windows before start()
  Faulting,   \* those whose selector the processor refuses to load into GS
  Base,       \* base addresses the program uses
  Offset,     \* offsets of its GS-relative accesses
  Modulus,    \* 2^32
  HeapRoom    \* descriptors that malloc can deliver

\* The code relies on what the host allocated before: an index 0 would be
\* taken for "GsTls not allocated", and a mov gs the processor executes by
\* itself would never reach GSLoad.
ASSUME SlotAssumption ==
  /\ Slot \subseteq Nat
  /\ HostSlots \subseteq Slot
  /\ 0 \in HostSlots
  /\ Slot \ HostSlots \subseteq Faulting
ASSUME AddressAssumption ==
  /\ Modulus \in Nat \ {0}
  /\ Base \subseteq 0 .. Modulus - 1
  /\ Offset \subseteq 0 .. Modulus - 1
  /\ HeapRoom \in Nat

NULL      == 0
HostValue == -2            \* what a slot of the host points to
OUT       == -1            \* TLS_OUT_OF_INDEXES
NoBase    == -1

VARIABLES
  used,      \* the TLS indices that are allocated
  tls,       \* the pointer in every slot: NULL, or an index into heap
  heap,      \* the descriptors malloc'ed so far; only base_addr matters
  gsTls,     \* the static GsTls of CurrentGs(), 0 when not yet allocated
  mine,      \* the entry numbers the program has received
  accessed,  \* the address GSTranslateAddress returned last
  alive      \* FALSE after a fault inside LINE

vars == <<used, tls, heap, gsTls, mine, accessed, alive>>

Init ==
  /\ used = HostSlots
  /\ tls = [s \in Slot |-> IF s \in HostSlots THEN HostValue ELSE NULL]
  /\ heap = <<>>
  /\ gsTls = 0
  /\ mine = {}
  /\ accessed = NoBase
  /\ alive = TRUE
-----------------------------------------------------------------------------
(* The Win32 calls.  TlsSetValue and TlsGetValue do not look whether an    *)
(* index is allocated, and reject one that is out of range.                *)

\* Any free index, its slot cleared, or TLS_OUT_OF_INDEXES.
TlsAlloc ==
  {[slot |-> s, used |-> used \cup {s}, tls |-> [tls EXCEPT ![s] = NULL]]
     : s \in Slot \ used} \cup {[slot |-> OUT, used |-> used, tls |-> tls]}

TlsSetValue(t, s, p) == IF s \in Slot THEN [t EXCEPT ![s] = p] ELSE t
TlsGetValue(t, s)    == IF s \in Slot THEN t[s] ELSE NULL
-----------------------------------------------------------------------------
(* sys_set_thread_area                                                     *)

\* A fault to seed: malloc's failure is reported, but entry_number is already
\* written.
CopyDescriptor_late(s, b, t) ==
  \/ /\ Len(heap) < HeapRoom
     /\ heap' = Append(heap, b)
     /\ tls' = TlsSetValue(t, s, Len(heap) + 1)
     /\ mine' = mine \cup {s}
     /\ UNCHANGED alive
  \/ mine' = mine \cup {s} /\ tls' = t /\ UNCHANGED <<heap, alive>>

\* The descriptor is copied to fresh memory and its slot pointed there.
\* The result of malloc is not checked: memcpy to NULL ends the process.
CopyDescriptor(s, b, t) ==
  \/ /\ Len(heap) < HeapRoom
     /\ heap' = Append(heap, b)
     /\ tls' = TlsSetValue(t, s, Len(heap) + 1)
     /\ mine' = mine \cup {s}
     /\ UNCHANGED alive
  \/ alive' = FALSE /\ tls' = t /\ UNCHANGED <<heap, mine>>

\* entry_number = -1: a new index, or -LINUX_ESRCH.
AllocateThreadArea(b) ==
  /\ alive
  /\ \E a \in TlsAlloc :
       /\ used' = a.used
       /\ IF a.slot = OUT THEN UNCHANGED <<tls, heap, mine, alive>>
                          ELSE CopyDescriptor(a.slot, b, a.tls)
  /\ UNCHANGED <<gsTls, accessed>>

\* A fault to seed: the old descriptor is overwritten where it is.
ChangeThreadArea_inPlace(s, b) ==
  /\ alive
  /\ s \in mine
  /\ heap' = [heap EXCEPT ![tls[s]] = b]
  /\ UNCHANGED <<used, tls, gsTls, mine, accessed, alive>>

\* A number the program got before: a new copy replaces the old one, which
\* is neither freed nor changed.
ChangeThreadArea(s, b) ==
  /\ alive
  /\ s \in mine
  /\ CopyDescriptor(s, b, tls)
  /\ UNCHANGED <<used, gsTls, accessed>>
-----------------------------------------------------------------------------
(* gs_support.c                                                            *)

\* A fault to seed: a free slot is taken without TlsAlloc.
CurrentGs_borrows ==
  {[slot |-> s, used |-> used, tls |-> tls]
     : s \in IF gsTls = 0 THEN Slot \ used ELSE {gsTls}}

\* CurrentGs() and the TLS state it leaves.
CurrentGs ==
  IF gsTls = 0 THEN TlsAlloc
               ELSE {[slot |-> gsTls, used |-> used, tls |-> tls]}

GSLoad(s) ==
  /\ alive
  /\ s \in Faulting
  /\ s \in mine \cup (Slot \ used)
  /\ \E g \in CurrentGs :
       /\ gsTls' = g.slot
       /\ used' = g.used
       /\ tls' = TlsSetValue(g.tls, g.slot, TlsGetValue(tls, s))
  /\ UNCHANGED <<heap, mine, accessed, alive>>

\* A fault to seed: the sum is not cut to 32 bits.
LinearAddress_wide(base, o) == base + o

\* base_addr + Address
LinearAddress(base, o) == (base + o) % Modulus

\* GSReadDword and GSWriteDWord, through GSTranslateAddress.
GSAccess(o) ==
  /\ alive
  /\ \E g \in CurrentGs :
       LET pDescriptor == TlsGetValue(g.tls, g.slot) IN
       /\ gsTls' = g.slot
       /\ used' = g.used
       /\ tls' = g.tls
       /\ IF pDescriptor = NULL
            THEN alive' = FALSE /\ UNCHANGED accessed
            ELSE accessed' = LinearAddress(heap[pDescriptor], o) /\ UNCHANGED alive
  /\ UNCHANGED <<heap, mine>>

Next ==
  \/ \E b \in Base : AllocateThreadArea(b) \/ \E s \in mine : ChangeThreadArea(s, b)
  \/ \E s \in Slot : GSLoad(s)
  \/ \E o \in Offset : GSAccess(o)

Spec == Init /\ [][Next]_vars
-----------------------------------------------------------------------------
Pointer == {NULL, HostValue} \cup 1 .. Len(heap)

TypeOK ==
  /\ used \subseteq Slot
  /\ heap \in Seq(Base)
  /\ tls \in [Slot -> Pointer]
  /\ gsTls \in Slot \cup {OUT}
  /\ mine \subseteq Slot
  /\ accessed \in {NoBase} \cup 0 .. Modulus - 1
  /\ alive \in BOOLEAN

\* The slots of the host, of the program's descriptors and of GsTls are
\* different ones, each marked as allocated: no TlsAlloc, whichever of the
\* two modules makes it first, hands out another's slot.
SlotsDisjoint ==
  /\ HostSlots \cup mine \subseteq used
  /\ mine \cap HostSlots = {}
  /\ gsTls \notin {0, OUT} => gsTls \in used \ (mine \cup HostSlots)

\* A defined descriptor's slot points to a descriptor, and GsTls never to
\* anything else; a slot that nobody has allocated is empty.
PointersOK ==
  /\ \A s \in mine : tls[s] \in 1 .. Len(heap)
  /\ gsTls \notin {0, OUT} => tls[gsTls] \in {NULL} \cup 1 .. Len(heap)
  /\ \A s \in Slot \ used : tls[s] = NULL
-----------------------------------------------------------------------------
(* The refinement.                                                         *)

SeenTable == [s \in mine |-> heap[tls[s]]]

SeenLoaded ==
  IF gsTls \in {0, OUT} THEN NoBase
  ELSE IF tls[gsTls] = NULL THEN NoBase ELSE heap[tls[gsTls]]

Seg == INSTANCE Segments WITH table <- SeenTable, loaded <- SeenLoaded

\* A GS-relative access goes through the descriptor GS was loaded with last,
\* as it was at that time, whatever set_thread_area did before and after
\* (sys_tls.c:9-35, gs_support.c:7-55).
GsIsLastLoaded == Seg!Spec
=============================================================================
