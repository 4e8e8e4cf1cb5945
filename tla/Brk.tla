-------------------------------- MODULE Brk --------------------------------
(***************************************************************************)
(* sys_brk (sys_brk.c) on top of VirtualAlloc, driven by the sbrk of the   *)
(* libc that the test programs are linked with (testapps/exit-success.S).  *)
(*                                                                         *)
(* brk(NULL) reserves a new arena and moves the break to its start; brk(p) *)
(* commits memory and moves the break to p.  Addresses are counted in      *)
(* units of which PageSize make a page.                                    *)
(***************************************************************************)
EXTENDS Integers, Sequences

CONSTANTS
  PageSize,     \* of VirtualAlloc
  LastPage,     \* of the user address space
  HostPages,    \* those in use before start()
  ArenaPages,   \* 10 MB, in pages
  Increment,    \* what the program passes to sbrk
  MaxGrants     \* bound of the model: growths of one arena

Page         == 0 .. LastPage
AddressSpace == 0 .. (LastPage + 1) * PageSize - 1
PageOf(a)    == a \div PageSize
NULL         == 0

ASSUME MemoryAssumption ==
  /\ PageSize \in Nat \ {0}
  /\ LastPage \in Nat
  /\ HostPages \subseteq Page
  /\ 0 \in HostPages               \* NULL is never the result of VirtualAlloc
  /\ ArenaPages \in Nat \ {0}
  /\ Increment \subseteq Int
  /\ MaxGrants \in Nat

VARIABLES
  region,       \* first page of the reservation a page is part of, 0 if free
  committed,    \* pages that can be accessed
  Base,         \* the two static variables of sys_brk.c
  CurrentBreak,
  curbrk,       \* __curbrk of the libc: the last result of brk
  sized,        \* sbrk has just called brk(NULL)
  arena         \* memory sbrk returned since the last reservation

vars == <<region, committed, Base, CurrentBreak, curbrk, sized, arena>>

Init ==
  /\ region = [p \in Page |-> IF p \in HostPages THEN -1 ELSE 0]
  /\ committed = {}
  /\ Base = NULL /\ CurrentBreak = NULL
  /\ curbrk = NULL /\ sized = FALSE
  /\ arena = <<>>
-----------------------------------------------------------------------------
(* VirtualAlloc: the results it can have, each with the memory it leaves.  *)

AllocationFails == [memory |-> NULL, region |-> region, committed |-> committed]

\* A free run of n pages, anywhere.
Reservation(n) ==
  {lo \in Page \ {0} : \A p \in lo .. lo + n - 1 : p \in Page /\ region[p] = 0}

Reserve(n, commit) ==
  {[memory    |-> lo * PageSize,
    region    |-> [p \in Page |-> IF p \in lo .. lo + n - 1 THEN lo ELSE region[p]],
    committed |-> IF commit THEN committed \cup (lo .. lo + n - 1) ELSE committed]
     : lo \in Reservation(n)}

\* The pages of size > 0 units from address a.
Span(a, size) == PageOf(a) .. PageOf(a + size - 1)

\* MEM_COMMIT succeeds only inside one reservation.
Commit(a, size) ==
  IF /\ Span(a, size) \subseteq Page
     /\ region[PageOf(a)] > 0
     /\ \A p \in Span(a, size) : region[p] = region[PageOf(a)]
    THEN {[memory |-> a, region |-> region,
           committed |-> committed \cup Span(a, size)]}
    ELSE {}

VirtualAllocReserve == Reserve(ArenaPages, FALSE) \cup {AllocationFails}

\* With no address, MEM_COMMIT also reserves.  A size of 0 is refused, and a
\* negative one is a SIZE_T larger than any reservation.
VirtualAllocCommit(a, size) ==
  {AllocationFails} \cup
  (IF size =< 0 THEN {}
   ELSE IF a = NULL THEN Reserve(PageOf(size - 1) + 1, TRUE)
   ELSE Commit(a, size))
-----------------------------------------------------------------------------
\* A fault to seed: a failed call returns -LINUX_ENOMEM.
Result_errno(m, brk) == IF m.memory # NULL THEN brk ELSE -12

\* The value of CurrentBreak when sys_brk(brk) returns, brk # NULL.
Result(m, brk) == IF m.memory # NULL THEN brk ELSE CurrentBreak

\* A fault to seed: brk(NULL) does not set the break.
ReserveArena_base ==
  \E m \in VirtualAllocReserve :
    /\ region' = m.region
    /\ committed' = m.committed
    /\ Base' = (IF m.memory # NULL THEN m.memory ELSE Base)
    /\ curbrk' = CurrentBreak
    /\ UNCHANGED <<CurrentBreak, arena>>

\* brk(NULL)
ReserveArena ==
  \E m \in VirtualAllocReserve :
    /\ region' = m.region
    /\ committed' = m.committed
    /\ IF m.memory # NULL
         THEN Base' = m.memory /\ CurrentBreak' = m.memory /\ arena' = <<>>
         ELSE UNCHANGED <<Base, CurrentBreak, arena>>
    /\ curbrk' = CurrentBreak'

\* A fault to seed: one unit too few is committed.
SizeOf_short(brk) == brk - CurrentBreak - 1

\* A fault to seed: the distance instead of the difference.
SizeOf_distance(brk) == IF brk > CurrentBreak THEN brk - CurrentBreak
                                              ELSE CurrentBreak - brk

\* SIZE_T Size = (PBYTE)brk - (PBYTE)CurrentBreak
SizeOf(brk) == brk - CurrentBreak

\* brk(brk).  The libc takes the memory for granted if the result is not
\* below the request; sbrk then returns the old break.
MoveBreak(brk) ==
  \E m \in VirtualAllocCommit(Base, SizeOf(brk)) :
    /\ region' = m.region
    /\ committed' = m.committed
    /\ CurrentBreak' = IF m.memory # NULL THEN brk ELSE CurrentBreak
    /\ curbrk' = Result(m, brk)
    /\ arena' = IF brk > curbrk /\ curbrk' >= brk
                  THEN Append(arena, [lo |-> curbrk, hi |-> brk])
                  ELSE arena
    /\ UNCHANGED Base
-----------------------------------------------------------------------------
(* sbrk of the libc: brk(NULL) when __curbrk is 0 or __libc_multiple_libcs *)
(* is set, then brk(__curbrk + increment) unless that leaves the address   *)
(* space.                                                                  *)

SbrkQuery ==
  /\ ReserveArena
  /\ sized' = TRUE

Sbrk(increment) ==
  /\ sized \/ curbrk # NULL
  /\ increment # 0
  /\ curbrk + increment \in AddressSpace
  /\ Len(arena) < MaxGrants
  /\ IF curbrk + increment = NULL THEN ReserveArena
                                  ELSE MoveBreak(curbrk + increment)
  /\ sized' = FALSE

Next == SbrkQuery \/ \E increment \in Increment : Sbrk(increment)

Spec == Init /\ [][Next]_vars
-----------------------------------------------------------------------------
TypeOK ==
  /\ region \in [Page -> Page \cup {-1}]
  /\ committed \subseteq Page
  /\ Base \in AddressSpace /\ CurrentBreak \in AddressSpace
  /\ curbrk \in AddressSpace
  /\ sized \in BOOLEAN
  /\ arena \in Seq([lo : AddressSpace, hi : AddressSpace])

\* Memory sbrk returned is not returned again before the next brk(NULL), what
\* the libc caches in __curbrk after failed and wrapped-around calls included:
\* the pieces of an arena lie behind one another, from Base up to the break.
ArenaInOrder ==
  /\ \A i \in DOMAIN arena :
       Base =< arena[i].lo /\ arena[i].lo < arena[i].hi /\ arena[i].hi =< CurrentBreak
  /\ \A i, j \in DOMAIN arena : i < j => arena[i].hi =< arena[j].lo

\* An arena can be accessed from Base up to the size of its largest piece,
\* since every commit begins at Base (sys_brk.c:35-38); its first piece can
\* thus be accessed in full.
UsableUpToLargest ==
  Base # NULL =>
    \A i \in DOMAIN arena : \A a \in Base .. Base + (arena[i].hi - arena[i].lo) - 1 :
      PageOf(a) \in committed

\* What the libc concludes when brk does not return less than the request
\* (cmp %edx,%ebx; ja in __brk): the memory up to the new break is there.
\* Only asked when an arena could be reserved at all.
GrantedIsUsable ==
  Base # NULL =>
    \A i \in DOMAIN arena : \A a \in arena[i].lo .. arena[i].hi - 1 :
      PageOf(a) \in committed
=============================================================================
