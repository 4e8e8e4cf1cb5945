----------------------------- MODULE Brk_proofs -----------------------------
(***************************************************************************)
(* What holds of the program break although sys_brk commits from Base: no  *)
(* memory is handed out twice within an arena, and an arena can be         *)
(* accessed up to the size of its largest piece.  The second half is about *)
(* TlsBlock, which puts brk to use: that is enough for the thread's block, *)
(* which comes first.                                                      *)
(***************************************************************************)
EXTENDS TlsBlock, SequenceTheorems, TLAPS

\* What sys_brk returns is what the libc caches (sys_brk.c:46), by the way both
\* are set; the order of the pieces rests on it.
BreakAgrees == curbrk = CurrentBreak

IInv ==
  /\ TypeOK /\ BreakAgrees /\ ArenaInOrder /\ UsableUpToLargest
  /\ Base =< CurrentBreak

LEMMA PageArithmetic ==
  /\ \A a, b \in Nat : a =< b => PageOf(a) =< PageOf(b)
  /\ \A a \in Nat : PageOf(a) \in Nat
  /\ \A lo \in Page : lo * PageSize \in AddressSpace
<1> USE MemoryAssumption DEF PageOf, Page, AddressSpace
<1>1. \A a \in Nat : /\ a \div PageSize \in Nat
                     /\ PageSize * (a \div PageSize) =< a
                     /\ a < PageSize * (a \div PageSize) + PageSize
  OBVIOUS
<1>2. ASSUME NEW a \in Nat, NEW b \in Nat, a =< b
      PROVE  a \div PageSize =< b \div PageSize
  BY <1>2
<1>3. ASSUME NEW lo \in Page PROVE lo * PageSize \in AddressSpace
  <2>1. lo * PageSize =< LastPage * PageSize /\ 0 =< lo * PageSize
    BY <1>3
  <2>2. (LastPage + 1) * PageSize - 1 >= LastPage * PageSize
    OBVIOUS
  <2> QED BY <2>1, <2>2
<1> QED BY <1>1, <1>2, <1>3

\* Whatever VirtualAlloc does, the pages stay pages, and what is committed
\* stays committed.
LEMMA ReserveResult ==
  ASSUME TypeOK, NEW n \in Nat \ {0}, NEW commit \in BOOLEAN,
         NEW m \in Reserve(n, commit)
  PROVE  /\ m.memory \in AddressSpace
         /\ m.region \in [Page -> Page \cup {-1}]
         /\ m.committed \subseteq Page /\ committed \subseteq m.committed
<1>1. PICK lo \in Reservation(n) :
        m = [memory    |-> lo * PageSize,
             region    |-> [p \in Page |-> IF p \in lo .. lo + n - 1
                                             THEN lo ELSE region[p]],
             committed |-> IF commit THEN committed \cup (lo .. lo + n - 1)
                                     ELSE committed]
  BY DEF Reserve
<1>2. lo \in Page /\ lo .. lo + n - 1 \subseteq Page
  BY DEF Reservation
<1> QED BY <1>1, <1>2, PageArithmetic DEF TypeOK

LEMMA CommitResult ==
  ASSUME TypeOK, NEW a, NEW size, NEW m \in Commit(a, size)
  PROVE  /\ m.memory = a /\ m.region = region
         /\ m.committed = committed \cup Span(a, size)
         /\ Span(a, size) \subseteq Page
  BY DEF Commit

LEMMA InitIInv == Init => IInv
<1> SUFFICES ASSUME Init PROVE IInv
  OBVIOUS
<1>1. NULL \in AddressSpace
  BY PageArithmetic, MemoryAssumption DEF Page, NULL
<1>2. region \in [Page -> Page \cup {-1}]
  BY MemoryAssumption DEF Init, Page
<1>3. arena = <<>> /\ arena \in Seq([lo : AddressSpace, hi : AddressSpace])
  BY DEF Init
<1>4. DOMAIN arena = {}
  BY <1>3
<1>5. ArenaInOrder /\ UsableUpToLargest
  BY <1>4 DEF ArenaInOrder, UsableUpToLargest
<1>6. TypeOK
  BY <1>1, <1>2, <1>3 DEF Init, TypeOK
<1>7. BreakAgrees /\ Base =< CurrentBreak
  BY DEF Init, BreakAgrees, NULL
<1> QED BY <1>5, <1>6, <1>7 DEF IInv

LEMMA ReserveArenaIInv ==
  ASSUME IInv, ReserveArena, sized' \in BOOLEAN PROVE IInv'
<1>1. PICK m \in VirtualAllocReserve :
        /\ region' = m.region
        /\ committed' = m.committed
        /\ IF m.memory # NULL
             THEN Base' = m.memory /\ CurrentBreak' = m.memory /\ arena' = <<>>
             ELSE UNCHANGED <<Base, CurrentBreak, arena>>
        /\ curbrk' = CurrentBreak'
  BY DEF ReserveArena
<1>2. CASE m = AllocationFails
  BY <1>1, <1>2
     DEF AllocationFails, IInv, TypeOK, BreakAgrees, ArenaInOrder, UsableUpToLargest
<1>3. CASE m \in Reserve(ArenaPages, FALSE)
  <2>1. /\ m.memory \in AddressSpace
        /\ m.region \in [Page -> Page \cup {-1}]
        /\ m.committed \subseteq Page /\ committed \subseteq m.committed
    BY <1>3, ReserveResult, MemoryAssumption DEF IInv
  <2>2. CASE m.memory # NULL
    <3>1. DOMAIN arena' = {} /\ arena' \in Seq([lo : AddressSpace, hi : AddressSpace])
      BY <1>1, <2>2
    <3>2. m.memory \in Int
      BY <2>1, MemoryAssumption DEF AddressSpace
    <3> QED BY <1>1, <2>1, <2>2, <3>1, <3>2
            DEF IInv, TypeOK, BreakAgrees, ArenaInOrder, UsableUpToLargest
  <2>3. CASE m.memory = NULL
    BY <1>1, <2>1, <2>3
       DEF IInv, TypeOK, BreakAgrees, ArenaInOrder, UsableUpToLargest
  <2> QED BY <2>2, <2>3
<1> QED BY <1>1, <1>2, <1>3 DEF VirtualAllocReserve

\* VirtualAlloc for a growth fails, or there is something to commit.
LEMMA CommitOutcome ==
  ASSUME IInv, NEW brk \in AddressSpace, NEW m \in VirtualAllocCommit(Base, SizeOf(brk))
  PROVE  \/ m = AllocationFails /\ m.memory = NULL
         \/ /\ SizeOf(brk) > 0
            /\ Base = NULL => m \in Reserve(PageOf(SizeOf(brk) - 1) + 1, TRUE)
            /\ Base # NULL => m \in Commit(Base, SizeOf(brk))
<1>1. AllocationFails.memory = NULL
  BY DEF AllocationFails
<1>2. SizeOf(brk) \in Int
  BY MemoryAssumption DEF SizeOf, IInv, TypeOK, AddressSpace
<1>3. CASE m = AllocationFails
  BY <1>1, <1>3
<1>4. CASE m # AllocationFails /\ SizeOf(brk) =< 0
  BY <1>4 DEF VirtualAllocCommit
<1>5. CASE m # AllocationFails /\ ~ (SizeOf(brk) =< 0)
  <2>1. SizeOf(brk) > 0
    BY <1>2, <1>5
  <2>2. m \in IF Base = NULL THEN Reserve(PageOf(SizeOf(brk) - 1) + 1, TRUE)
                            ELSE Commit(Base, SizeOf(brk))
    BY <1>5 DEF VirtualAllocCommit
  <2> QED BY <2>1, <2>2
<1> QED BY <1>3, <1>4, <1>5

LEMMA MoveBreakIInv ==
  ASSUME IInv, NEW brk \in AddressSpace, MoveBreak(brk), sized' \in BOOLEAN
  PROVE  IInv'
<1>1. PICK m \in VirtualAllocCommit(Base, SizeOf(brk)) :
        /\ region' = m.region
        /\ committed' = m.committed
        /\ CurrentBreak' = IF m.memory # NULL THEN brk ELSE CurrentBreak
        /\ curbrk' = Result(m, brk)
        /\ arena' = IF brk > curbrk /\ curbrk' >= brk
                      THEN Append(arena, [lo |-> curbrk, hi |-> brk])
                      ELSE arena
        /\ UNCHANGED Base
  BY DEF MoveBreak
<1>a. /\ brk \in Nat /\ CurrentBreak \in Nat /\ Base \in Nat
      /\ AddressSpace \subseteq Nat
  BY MemoryAssumption DEF IInv, TypeOK, AddressSpace
<1>b. \/ m = AllocationFails /\ m.memory = NULL
      \/ /\ SizeOf(brk) > 0
         /\ Base = NULL => m \in Reserve(PageOf(SizeOf(brk) - 1) + 1, TRUE)
         /\ Base # NULL => m \in Commit(Base, SizeOf(brk))
  BY CommitOutcome
<1>c. SizeOf(brk) > 0 => PageOf(SizeOf(brk) - 1) + 1 \in Nat \ {0}
  BY <1>a, PageArithmetic DEF SizeOf
<1>2. CASE m.memory = NULL
  <2>1. UNCHANGED <<Base, CurrentBreak, curbrk>> /\ arena' = arena
    BY <1>1, <1>2, <1>a DEF Result, IInv, BreakAgrees
  <2>2. /\ m.region \in [Page -> Page \cup {-1}]
        /\ m.committed \subseteq Page /\ committed \subseteq m.committed
    <3>1. CASE m = AllocationFails
      BY <3>1 DEF AllocationFails, IInv, TypeOK
    <3>2. CASE SizeOf(brk) > 0 /\ m \in Reserve(PageOf(SizeOf(brk) - 1) + 1, TRUE)
      BY <3>2, <1>c, ReserveResult DEF IInv
    <3>3. CASE m \in Commit(Base, SizeOf(brk))
      BY <3>3, CommitResult DEF IInv, TypeOK
    <3> QED BY <1>b, <3>1, <3>2, <3>3
  <2> QED BY <1>1, <2>1, <2>2
          DEF IInv, TypeOK, BreakAgrees, ArenaInOrder, UsableUpToLargest
<1>3. CASE m.memory # NULL
  <2>1. SizeOf(brk) > 0 /\ brk > CurrentBreak
    <3>1. SizeOf(brk) > 0
      BY <1>3, <1>b
    <3> QED BY <1>a, <3>1 DEF SizeOf
  <2>2. /\ CurrentBreak' = brk /\ curbrk' = brk /\ curbrk = CurrentBreak
        /\ arena' = Append(arena, [lo |-> CurrentBreak, hi |-> brk])
    BY <1>1, <1>3, <1>a, <2>1 DEF Result, IInv, BreakAgrees
  <2>3. /\ m.region \in [Page -> Page \cup {-1}]
        /\ m.committed \subseteq Page /\ committed \subseteq m.committed
        /\ Base # NULL => m.committed = committed \cup Span(Base, SizeOf(brk))
    <3>1. CASE Base = NULL
      BY <1>3, <1>b, <1>c, <3>1, ReserveResult DEF IInv
    <3>2. CASE Base # NULL
      <4>1. m \in Commit(Base, SizeOf(brk))
        BY <1>3, <1>b, <3>2
      <4> QED BY <4>1, CommitResult DEF IInv, TypeOK
    <3> QED BY <3>1, <3>2
  <2>4. TypeOK'
    <3>1. [lo |-> CurrentBreak, hi |-> brk] \in [lo : AddressSpace, hi : AddressSpace]
      BY DEF IInv, TypeOK
    <3>2. arena' \in Seq([lo : AddressSpace, hi : AddressSpace])
      BY <2>2, <3>1 DEF IInv, TypeOK
    <3>3. CurrentBreak' \in AddressSpace /\ curbrk' \in AddressSpace
      BY <2>2
    <3> QED BY <1>1, <2>3, <3>2, <3>3 DEF IInv, TypeOK
  <2>5. /\ Len(arena) \in Nat
        /\ DOMAIN arena = 1 .. Len(arena) /\ DOMAIN arena' = 1 .. Len(arena) + 1
        /\ \A i \in 1 .. Len(arena) : arena'[i] = arena[i]
        /\ arena'[Len(arena) + 1] = [lo |-> CurrentBreak, hi |-> brk]
    BY <2>2 DEF IInv, TypeOK
  <2>6. \A i \in 1 .. Len(arena) : arena[i].lo \in Nat /\ arena[i].hi \in Nat
    <3>1. \A i \in 1 .. Len(arena) : arena[i] \in [lo : AddressSpace, hi : AddressSpace]
      <4>1. arena \in Seq([lo : AddressSpace, hi : AddressSpace])
        BY DEF IInv, TypeOK
      <4> QED BY ONLY <4>1, ElementOfSeq
    <3>2. \A g \in [lo : AddressSpace, hi : AddressSpace] :
            g.lo \in Nat /\ g.hi \in Nat
      BY <1>a
    <3> QED BY <3>1, <3>2
  <2>7. ArenaInOrder'
    <3>1. \A i \in 1 .. Len(arena) :
            /\ Base =< arena[i].lo /\ arena[i].lo < arena[i].hi
            /\ arena[i].hi =< CurrentBreak
      BY <2>5 DEF IInv, ArenaInOrder
    <3>2. \A i, j \in 1 .. Len(arena) : i < j => arena[i].hi =< arena[j].lo
      BY <2>5 DEF IInv, ArenaInOrder
    <3>3. \A i \in 1 .. Len(arena) + 1 :
            /\ Base =< arena'[i].lo /\ arena'[i].lo < arena'[i].hi
            /\ arena'[i].hi =< brk
      BY <1>a, <2>1, <2>5, <2>6, <3>1 DEF IInv
    <3>4. \A i, j \in 1 .. Len(arena) + 1 : i < j => arena'[i].hi =< arena'[j].lo
      <4>1. TAKE i, j \in 1 .. Len(arena) + 1
      <4>2. HAVE i < j
      <4>3. i \in 1 .. Len(arena)
        BY <2>5, <4>2
      <4>4. CASE j \in 1 .. Len(arena)
        BY <2>5, <3>2, <4>2, <4>3, <4>4
      <4>5. CASE j = Len(arena) + 1
        <5>1. arena'[j].lo = CurrentBreak /\ arena'[i] = arena[i]
          BY <2>5, <4>3, <4>5
        <5> QED BY <3>1, <4>3, <5>1
      <4> QED BY <2>5, <4>4, <4>5
    <3> QED BY <1>1, <2>2, <2>5, <3>3, <3>4 DEF ArenaInOrder
  <2>8. UsableUpToLargest'
    <3>1. ASSUME Base # NULL, NEW i \in 1 .. Len(arena) + 1,
                 NEW a \in Base .. Base + (arena'[i].hi - arena'[i].lo) - 1
          PROVE  PageOf(a) \in committed'
      <4>1. CASE i \in 1 .. Len(arena)
        BY <1>1, <2>3, <2>5, <3>1, <4>1 DEF IInv, UsableUpToLargest
      <4>2. CASE i = Len(arena) + 1
        <5>1. a \in Nat /\ Base =< a /\ a =< Base + SizeOf(brk) - 1
          BY <1>a, <2>1, <2>5, <3>1, <4>2 DEF SizeOf
        <5>2. Base + SizeOf(brk) - 1 \in Nat
          BY <1>a, <2>1 DEF SizeOf
        <5>3. PageOf(a) \in Span(Base, SizeOf(brk))
          BY <1>a, <5>1, <5>2, PageArithmetic DEF Span
        <5> QED BY <1>1, <2>3, <3>1, <5>3
      <4> QED BY <3>1, <4>1, <4>2, <2>5
    <3> QED BY <1>1, <2>5, <3>1 DEF UsableUpToLargest
  <2> QED BY <1>1, <1>a, <2>1, <2>2, <2>4, <2>7, <2>8 DEF IInv, BreakAgrees
<1> QED BY <1>2, <1>3

LEMMA SbrkIInv ==
  ASSUME IInv, NEW increment, Sbrk(increment) PROVE IInv'
<1>1. sized' \in BOOLEAN /\ curbrk + increment \in AddressSpace
  BY DEF Sbrk
<1> QED BY <1>1, ReserveArenaIInv, MoveBreakIInv DEF Sbrk

LEMMA NextIInv == IInv /\ [Next]_vars => IInv'
<1> SUFFICES ASSUME IInv, [Next]_vars PROVE IInv'
  OBVIOUS
<1>1. CASE SbrkQuery
  BY <1>1, ReserveArenaIInv DEF SbrkQuery
<1>2. ASSUME NEW increment \in Increment, Sbrk(increment) PROVE IInv'
  BY <1>2, SbrkIInv
<1>3. CASE UNCHANGED vars
  BY <1>3 DEF vars, IInv, TypeOK, BreakAgrees, ArenaInOrder, UsableUpToLargest
<1> QED BY <1>1, <1>2, <1>3 DEF Next

\* Base, the break and every granted piece stay in the address space, whatever
\* sizes wrap around and allocations fail (sys_brk.c:13-47).
THEOREM TypeCorrect == Spec => []TypeOK
<1> QED BY InitIInv, NextIInv, PTL DEF Spec, IInv

\* Within an arena no memory is handed out twice.
THEOREM NothingGrantedTwice == Spec => []ArenaInOrder
<1> QED BY InitIInv, NextIInv, PTL DEF Spec, IInv

\* However the arena grew, its pages are committed from Base up to the size
\* of the largest single growth.
THEOREM ArenaUsable == Spec => []UsableUpToLargest
<1> QED BY InitIInv, NextIInv, PTL DEF Spec, IInv
-----------------------------------------------------------------------------
(* TlsBlock.  VirtualAlloc never touches the host's pages.                 *)

HostKept == \A p \in HostPages : region[p] = -1 /\ p \notin committed

LEMMA AllocationKeepsHost ==
  ASSUME TypeOK, HostKept,
         NEW m, \/ m = AllocationFails
                \/ \E n \in Nat \ {0}, commit \in BOOLEAN : m \in Reserve(n, commit)
                \/ \E a, size : m \in Commit(a, size)
  PROVE  \A p \in HostPages : m.region[p] = -1 /\ p \notin m.committed
<1> USE MemoryAssumption DEF HostKept
<1>1. CASE m = AllocationFails
  BY <1>1 DEF AllocationFails
<1>2. ASSUME NEW n \in Nat \ {0}, NEW commit \in BOOLEAN, m \in Reserve(n, commit)
      PROVE  \A p \in HostPages : m.region[p] = -1 /\ p \notin m.committed
  <2>1. PICK lo \in Reservation(n) :
          m = [memory    |-> lo * PageSize,
               region    |-> [p \in Page |-> IF p \in lo .. lo + n - 1
                                               THEN lo ELSE region[p]],
               committed |-> IF commit THEN committed \cup (lo .. lo + n - 1)
                                       ELSE committed]
    BY <1>2 DEF Reserve
  <2>2. \A p \in lo .. lo + n - 1 : p \in Page /\ region[p] = 0
    BY DEF Reservation
  <2>3. \A p \in HostPages : p \in Page /\ p \notin lo .. lo + n - 1
    BY <2>2
  <2> QED BY <2>1, <2>3
<1>3. ASSUME NEW a, NEW size, m \in Commit(a, size)
      PROVE  \A p \in HostPages : m.region[p] = -1 /\ p \notin m.committed
  <2>1. m.region = region /\ m.committed = committed \cup Span(a, size)
    BY <1>3, CommitResult
  <2>2. /\ region[PageOf(a)] > 0
        /\ \A p \in Span(a, size) : region[p] = region[PageOf(a)]
    BY <1>3 DEF Commit
  <2> QED BY <2>1, <2>2
<1> QED BY <1>1, <1>2, <1>3

LEMMA ReserveArenaKeepsHost ==
  ASSUME IInv, HostKept, ReserveArena PROVE HostKept'
<1>1. PICK m \in VirtualAllocReserve : region' = m.region /\ committed' = m.committed
  BY DEF ReserveArena
<1>2. m = AllocationFails \/ m \in Reserve(ArenaPages, FALSE)
  BY DEF VirtualAllocReserve
<1> QED BY <1>1, <1>2, AllocationKeepsHost, MemoryAssumption DEF HostKept, IInv

\* A growth fails and changes nothing the libc sees, or adds a piece.
LEMMA MoveBreakOutcome ==
  ASSUME IInv, HostKept, NEW brk \in AddressSpace, MoveBreak(brk)
  PROVE  /\ HostKept' /\ Base' = Base
         /\ \/ /\ arena' = arena /\ curbrk' = curbrk
            \/ /\ arena' = Append(arena, [lo |-> curbrk, hi |-> brk])
               /\ curbrk' = brk
<1>1. PICK m \in VirtualAllocCommit(Base, SizeOf(brk)) :
        /\ region' = m.region
        /\ committed' = m.committed
        /\ curbrk' = Result(m, brk)
        /\ arena' = IF brk > curbrk /\ curbrk' >= brk
                      THEN Append(arena, [lo |-> curbrk, hi |-> brk])
                      ELSE arena
        /\ UNCHANGED Base
  BY DEF MoveBreak
<1>2. brk \in Nat /\ CurrentBreak \in Nat /\ curbrk = CurrentBreak
  BY MemoryAssumption DEF IInv, TypeOK, AddressSpace, BreakAgrees
<1>3. \/ m = AllocationFails /\ m.memory = NULL
      \/ /\ SizeOf(brk) > 0
         /\ Base = NULL => m \in Reserve(PageOf(SizeOf(brk) - 1) + 1, TRUE)
         /\ Base # NULL => m \in Commit(Base, SizeOf(brk))
  BY CommitOutcome
<1>4. HostKept'
  <2>1. SizeOf(brk) > 0 => PageOf(SizeOf(brk) - 1) + 1 \in Nat \ {0}
    BY <1>2, PageArithmetic DEF SizeOf
  <2>2. \/ m = AllocationFails
        \/ \E n \in Nat \ {0}, commit \in BOOLEAN : m \in Reserve(n, commit)
        \/ \E a, size : m \in Commit(a, size)
    BY <1>3, <2>1
  <2>3. \A p \in HostPages : m.region[p] = -1 /\ p \notin m.committed
    BY <2>2, AllocationKeepsHost DEF IInv
  <2> QED BY <1>1, <2>3 DEF HostKept
<1>5. CASE m.memory = NULL
  BY <1>1, <1>2, <1>4, <1>5 DEF Result
<1>6. CASE m.memory # NULL
  <2>1. SizeOf(brk) > 0
    BY <1>3, <1>6
  <2>2. brk > curbrk
    BY <1>2, <2>1 DEF SizeOf
  <2> QED BY <1>1, <1>2, <1>4, <1>6, <2>2 DEF Result
<1> QED BY <1>5, <1>6
-----------------------------------------------------------------------------
(* Where the block is.                                                     *)

\* The rounding up to MaxAlign stays inside of what was asked for.
LEMMA Rounded ==
  ASSUME NEW b \in Nat, NEW d \in Nat \ {0}
  PROVE  /\ ((b + d - 1) \div d) * d \in b .. b + d - 1
         /\ b = 0 => ((b + d - 1) \div d) * d = 0
<1> DEFINE q == (b + d - 1) \div d
           x == b + d - 1
<1>1. x \in Nat
  OBVIOUS
<1>2. q \in Nat /\ d * q =< x /\ x < d * q + d
  BY <1>1
<1>3. b = 0 => q = 0
  OBVIOUS
<1>4. q * d = d * q /\ d * q \in Nat
  BY <1>2
<1> QED BY <1>2, <1>3, <1>4

LEMMA BlockInside ==
  ASSUME block \in Nat
  PROVE  /\ Tcb \in Nat /\ Tcb >= TlsSize
         /\ Block \subseteq block .. block + Size - 1
         /\ Tcb - TlsSize .. Tcb \subseteq Block
         /\ Tcb + TcbSize =< block + Size
         /\ block = 0 => 0 \in Tcb - TlsSize .. Tcb
<1> DEFINE q == ((block + MaxAlign - 1) \div MaxAlign) * MaxAlign
<1>1. q \in block .. block + MaxAlign - 1 /\ (block = 0 => q = 0)
  BY Rounded, BlockAssumption
<1>2. Tcb = q + TlsSize
  BY DEF Tcb
<1> HIDE DEF q
<1> QED BY <1>1, <1>2, BlockAssumption DEF Block, Size

\* The block is the first piece of the arena, if there is one.
FirstPiece ==
  /\ block \in Nat
  /\ phase = "sbrk" => arena = <<>> /\ Base = CurrentBreak
  /\ arena # <<>> => /\ block = Base
                     /\ arena[1] = [lo |-> block, hi |-> block + Size]
  /\ phase \in {"descriptor", "selector", "run"} => arena # <<>>
  /\ phase \in {"selector", "run"} \/ accessed # Gs!NoBase => arena # <<>> /\ Base # NULL

\* In an arena that could be reserved, the block can be accessed in full.
LEMMA BlockUsable ==
  ASSUME IInv, FirstPiece, arena # <<>>, Base # NULL
  PROVE  \A a \in Block : Accessible(a)
<1>1. arena \in Seq([lo : AddressSpace, hi : AddressSpace]) /\ 1 \in DOMAIN arena
  BY DEF IInv, TypeOK
<1>2. Size \in Nat /\ block \in Nat
  BY BlockAssumption DEF Size, FirstPiece
<1>3. arena[1].hi - arena[1].lo = Size /\ block = Base
  BY <1>2 DEF FirstPiece
<1>4. \A a \in Base .. Base + Size - 1 : PageOf(a) \in committed
  BY <1>1, <1>3 DEF IInv, UsableUpToLargest
<1> QED BY <1>2, <1>3, <1>4, BlockInside DEF Accessible

\* One that could not lies at NULL, which is nobody's.
LEMMA NullUnusable ==
  ASSUME HostKept, FirstPiece, arena # <<>>, Base = NULL
  PROVE  ~ \A a \in Tcb - TlsSize .. Tcb : Accessible(a)
<1>1. block = 0 /\ 0 \in Tcb - TlsSize .. Tcb
  BY BlockInside DEF FirstPiece, NULL
<1>2. PageOf(0) = 0 /\ 0 \notin committed
  BY MemoryAssumption DEF PageOf, HostKept
<1> QED BY <1>1, <1>2 DEF Accessible

\* Every later piece lies behind it.
LEMMA LaterPiecesBehind ==
  ASSUME IInv, FirstPiece
  PROVE  \A i \in 2 .. Len(arena) : \A a \in Block : a < arena[i].lo
<1> SUFFICES ASSUME NEW i \in 2 .. Len(arena), NEW a \in Block PROVE a < arena[i].lo
  OBVIOUS
<1>1. /\ arena \in Seq([lo : AddressSpace, hi : AddressSpace])
      /\ i \in DOMAIN arena /\ 1 \in DOMAIN arena /\ arena # <<>>
  BY DEF IInv, TypeOK
<1>2. arena[1].hi =< arena[i].lo
  BY <1>1 DEF IInv, ArenaInOrder
<1>3. arena[i].lo \in Nat
  <2>1. arena \in Seq([lo : AddressSpace, hi : AddressSpace]) /\ i \in 1 .. Len(arena)
    BY <1>1
  <2>2. arena[i] \in [lo : AddressSpace, hi : AddressSpace]
    BY ONLY <2>1, ElementOfSeq
  <2> QED BY <2>2, MemoryAssumption DEF AddressSpace
<1>4. block \in Nat /\ arena[1].hi = block + Size /\ Size \in Nat
  BY <1>1, BlockAssumption DEF FirstPiece, Size
<1> QED BY <1>2, <1>3, <1>4, BlockInside

\* Residues of what is not too large, or too large once.
LEMMA SmallMod ==
  ASSUME NEW n \in Nat \ {0}, NEW a \in 0 .. n - 1
  PROVE  a % n = a /\ (a + n) % n = a
  OBVIOUS

\* What GS leads to, errno before the control block included.
LEMMA LeadsToBlock ==
  ASSUME IInv, FirstPiece, arena # <<>>, NEW o \in BlockOffset
  PROVE  Gs!LinearAddress(Tcb, o) \in Block
<1>1. /\ arena \in Seq([lo : AddressSpace, hi : AddressSpace]) /\ 1 \in DOMAIN arena
  BY DEF IInv, TypeOK
<1>2. arena[1].hi =< CurrentBreak /\ arena[1].hi = block + Size /\ CurrentBreak < Modulus
  BY <1>1, MemoryAssumption DEF IInv, ArenaInOrder, FirstPiece, TypeOK, AddressSpace, Modulus
<1>3. /\ Tcb \in Nat /\ Tcb >= TlsSize /\ Tcb + TcbSize =< block + Size
      /\ block \in Nat /\ Size \in Nat
  BY BlockInside, BlockAssumption DEF FirstPiece, Size
<1>4. Modulus \in Nat \ {0} /\ CurrentBreak \in Nat
  BY MemoryAssumption DEF Modulus, IInv, TypeOK, AddressSpace
<1>5. Tcb + TcbSize < Modulus
  BY <1>2, <1>3, <1>4, BlockAssumption
<1>6. CASE o \in 0 .. TcbSize - 1
  <2>1. Tcb + o \in 0 .. Modulus - 1
    BY <1>3, <1>4, <1>5, <1>6, BlockAssumption
  <2>2. (Tcb + o) % Modulus = Tcb + o
    BY ONLY <1>4, <2>1, SmallMod
  <2> QED BY <1>3, <1>6, <2>2, BlockAssumption DEF Gs!LinearAddress, Block
<1>7. CASE o = Modulus - Errno
  <2>1. Tcb - Errno \in 0 .. Modulus - 1 /\ Tcb + o = (Tcb - Errno) + Modulus
    BY <1>3, <1>4, <1>5, <1>7, BlockAssumption
  <2>2. (Tcb + o) % Modulus = Tcb - Errno
    BY <1>4, <2>1, SmallMod
  <2> QED BY <1>3, <2>2, BlockAssumption DEF Gs!LinearAddress, Block
<1> QED BY <1>6, <1>7 DEF BlockOffset
-----------------------------------------------------------------------------
(* What GS points to.                                                      *)

ThreadState ==
  /\ used \subseteq Slot /\ 0 \in used
  /\ tls \in [Slot -> Int] /\ \A s \in Slot \ used : tls[s] = Gs!NULL
  /\ phase \in {"sbrk", "descriptor"} =>
       alive = TRUE /\ gsTls = 0 /\ heap = <<>> /\ mine = {} /\ accessed = Gs!NoBase
  /\ phase = "selector" =>
       /\ alive = TRUE /\ gsTls = 0 /\ heap = <<Tcb>> /\ accessed = Gs!NoBase
       /\ mine \subseteq used /\ \A s \in mine : tls[s] = 1
  /\ phase = "run" =>
       /\ alive = TRUE /\ heap = <<Tcb>> /\ gsTls # 0
       /\ gsTls # Gs!OUT => gsTls \in Slot /\ tls[gsTls] = 1
  /\ accessed # Gs!NoBase => accessed \in Block

LEMMA SlotTaken ==
  ASSUME ThreadState, NEW a \in Gs!TlsAlloc
  PROVE  /\ a.tls = tls
         /\ \/ a.slot \in Slot \ used /\ a.slot # 0 /\ a.used = used \cup {a.slot}
            \/ a.slot = Gs!OUT /\ a.used = used
<1>1. CASE a = [slot |-> Gs!OUT, used |-> used, tls |-> tls]
  BY <1>1
<1>2. ASSUME NEW s \in Slot \ used,
             a = [slot |-> s, used |-> used \cup {s}, tls |-> [tls EXCEPT ![s] = Gs!NULL]]
      PROVE  /\ a.tls = tls
             /\ a.slot \in Slot \ used /\ a.slot # 0 /\ a.used = used \cup {a.slot}
  <2>1. [tls EXCEPT ![s] = Gs!NULL] = tls
    BY DEF ThreadState
  <2> QED BY <1>2, <2>1 DEF ThreadState
<1> QED BY <1>1, <1>2 DEF Gs!TlsAlloc

LEMMA NoSuchSlot == Gs!OUT \notin Slot /\ Gs!OUT # 0
  BY FreeSlotAssumption DEF Gs!OUT

\* Before GS is loaded an access is a fault: its slot is empty, or there is none.
LEMMA AccessWithoutGs ==
  ASSUME ThreadState, gsTls = 0, NEW o, Gs!GSAccess(o)
  PROVE  /\ alive' = FALSE /\ UNCHANGED <<tls, heap, mine, accessed>>
         /\ used' \subseteq Slot /\ used \subseteq used'
<1>1. PICK g \in Gs!TlsAlloc :
        LET pDescriptor == Gs!TlsGetValue(g.tls, g.slot)
        IN  /\ used' = g.used /\ tls' = g.tls
            /\ IF pDescriptor = Gs!NULL
                 THEN alive' = FALSE /\ UNCHANGED accessed
                 ELSE /\ accessed' = Gs!LinearAddress(heap[pDescriptor], o)
                      /\ UNCHANGED alive
  BY DEF Gs!GSAccess, Gs!CurrentGs
<1>2. Gs!TlsGetValue(g.tls, g.slot) = Gs!NULL
  BY SlotTaken, NoSuchSlot DEF ThreadState, Gs!TlsGetValue
<1>3. UNCHANGED <<heap, mine>>
  BY DEF Gs!GSAccess
<1> QED BY <1>1, <1>2, <1>3, SlotTaken DEF ThreadState

\* Once GS is loaded it goes to the block, unless there was no slot for GsTls.
LEMMA AccessWithGs ==
  ASSUME IInv, FirstPiece, ThreadState, phase = "run",
         NEW o \in BlockOffset, Gs!GSAccess(o)
  PROVE  /\ UNCHANGED <<used, tls, heap, gsTls, mine>>
         /\ \/ gsTls = Gs!OUT /\ alive' = FALSE /\ UNCHANGED accessed
            \/ gsTls # Gs!OUT /\ alive' = TRUE /\ accessed' \in Block
<1>1. gsTls # 0 /\ alive = TRUE /\ heap = <<Tcb>> /\ arena # <<>>
  BY DEF ThreadState, FirstPiece
<1>2. /\ UNCHANGED <<used, tls, heap, gsTls, mine>>
      /\ IF Gs!TlsGetValue(tls, gsTls) = Gs!NULL
           THEN alive' = FALSE /\ UNCHANGED accessed
           ELSE /\ accessed' = Gs!LinearAddress(heap[Gs!TlsGetValue(tls, gsTls)], o)
                /\ UNCHANGED alive
  <2>1. PICK g \in Gs!CurrentGs :
          /\ gsTls' = g.slot /\ used' = g.used /\ tls' = g.tls
          /\ IF Gs!TlsGetValue(g.tls, g.slot) = Gs!NULL
               THEN alive' = FALSE /\ UNCHANGED accessed
               ELSE /\ accessed' = Gs!LinearAddress(heap[Gs!TlsGetValue(g.tls, g.slot)], o)
                    /\ UNCHANGED alive
    BY DEF Gs!GSAccess
  <2>2. g = [slot |-> gsTls, used |-> used, tls |-> tls]
    BY <1>1, <2>1 DEF Gs!CurrentGs
  <2>3. g.slot = gsTls /\ g.used = used /\ g.tls = tls
    BY <2>2
  <2>4. UNCHANGED <<heap, mine>>
    BY DEF Gs!GSAccess
  <2> QED BY <2>1, <2>3, <2>4
<1>3. CASE gsTls = Gs!OUT
  BY <1>2, <1>3, NoSuchSlot DEF Gs!TlsGetValue
<1>4. CASE gsTls # Gs!OUT
  <2>1. Gs!TlsGetValue(tls, gsTls) = 1 /\ 1 # Gs!NULL
    BY <1>4 DEF ThreadState, Gs!TlsGetValue, Gs!NULL
  <2>2. accessed' = Gs!LinearAddress(Tcb, o) /\ alive' = TRUE
    BY <1>1, <1>2, <2>1
  <2> QED BY <1>1, <1>2, <1>4, <2>2, LeadsToBlock
<1> QED BY <1>3, <1>4
-----------------------------------------------------------------------------
(* The steps.                                                              *)

BInv == IInv /\ HostKept /\ FirstPiece /\ ThreadState /\ GetsThrough

LEMMA InitBInv == BlockInit => BInv
<1> SUFFICES ASSUME BlockInit PROVE BInv
  OBVIOUS
<1>1. IInv
  BY InitIInv DEF BlockInit
<1>2. HostKept
  BY MemoryAssumption DEF BlockInit, Init, HostKept
<1>3. FirstPiece
  BY DEF BlockInit, Init, Gs!Init, FirstPiece, NULL
<1>4. ThreadState
  BY FreeSlotAssumption DEF BlockInit, Gs!Init, ThreadState, Gs!NULL, Gs!HostValue
<1>5. GetsThrough
  BY DEF BlockInit, GetsThrough
<1> QED BY <1>1, <1>2, <1>3, <1>4, <1>5 DEF BInv

LEMMA QueryStep == ASSUME BInv, Query PROVE BInv'
<1>1. IInv' /\ HostKept'
  BY ReserveArenaIInv, ReserveArenaKeepsHost DEF BInv, Query, SbrkQuery
<1>2. /\ phase = "sbrk" /\ arena = <<>> /\ Base = CurrentBreak
      /\ UNCHANGED <<thread, phase, block>>
  BY DEF BInv, Query, FirstPiece
<1>3. arena' = <<>> /\ Base' = CurrentBreak'
  BY <1>2 DEF Query, SbrkQuery, ReserveArena
<1>4. FirstPiece'
  BY <1>2, <1>3 DEF BInv, FirstPiece, ThreadState, thread
<1>5. ThreadState'
  BY <1>2 DEF BInv, ThreadState, thread
<1>6. GetsThrough'
  BY <1>2 DEF GetsThrough
<1> QED BY <1>1, <1>4, <1>5, <1>6 DEF BInv

\* What sbrk does to the arena, from where it began.
LEMMA SbrkOutcome ==
  ASSUME IInv, HostKept, NEW n \in Int, Sbrk(n), curbrk + n # NULL
  PROVE  /\ IInv' /\ HostKept' /\ Base' = Base /\ curbrk \in Nat
         /\ \/ arena' = arena /\ curbrk' = curbrk
            \/ arena' = Append(arena, [lo |-> curbrk, hi |-> curbrk + n])
               /\ curbrk' = curbrk + n
<1>1. MoveBreak(curbrk + n) /\ curbrk + n \in AddressSpace
  BY DEF Sbrk
<1>2. curbrk \in Nat
  BY MemoryAssumption DEF IInv, TypeOK, AddressSpace
<1> QED BY <1>1, <1>2, SbrkIInv, MoveBreakOutcome

LEMMA AllocateBlockStep == ASSUME BInv, AllocateBlock PROVE BInv'
<1>1. /\ phase = "sbrk" /\ Sbrk(Size) /\ block' = curbrk
      /\ IF curbrk' < curbrk + Size THEN Gs!GSAccess(Modulus - Errno) ELSE UNCHANGED thread
      /\ phase' = IF alive' THEN "descriptor" ELSE "dead"
  BY DEF AllocateBlock, SbrkOrErrno
<1>2. /\ arena = <<>> /\ Base = CurrentBreak /\ curbrk = CurrentBreak /\ curbrk \in Nat
      /\ Size \in Nat \ {0} /\ curbrk + Size # NULL
      /\ alive = TRUE /\ gsTls = 0 /\ heap = <<>> /\ mine = {} /\ accessed = Gs!NoBase
  BY <1>1, MemoryAssumption, BlockAssumption
     DEF BInv, FirstPiece, ThreadState, IInv, BreakAgrees, TypeOK, AddressSpace, Size, NULL
<1>3. /\ IInv' /\ HostKept' /\ Base' = Base
      /\ \/ arena' = <<>> /\ curbrk' = curbrk
         \/ /\ arena' = Append(arena, [lo |-> curbrk, hi |-> curbrk + Size])
            /\ curbrk' = curbrk + Size
  BY <1>1, <1>2, SbrkOutcome DEF BInv
<1>4. CASE arena' = <<>> /\ curbrk' = curbrk
  <2>1. Gs!GSAccess(Modulus - Errno)
    BY <1>1, <1>2, <1>4
  <2>2. /\ alive' = FALSE /\ UNCHANGED <<tls, heap, mine, accessed>>
        /\ used' \subseteq Slot /\ used \subseteq used'
    BY <1>2, <2>1, AccessWithoutGs DEF BInv
  <2>3. phase' = "dead"
    BY <1>1, <2>2
  <2>4. FirstPiece'
    BY <1>1, <1>2, <1>4, <2>2, <2>3 DEF FirstPiece
  <2>5. ThreadState'
    BY <1>2, <2>2, <2>3 DEF BInv, ThreadState
  <2> QED BY <1>3, <1>4, <2>4, <2>5 DEF BInv, GetsThrough
<1>5. CASE /\ arena' = Append(arena, [lo |-> curbrk, hi |-> curbrk + Size])
           /\ curbrk' = curbrk + Size
  <2>1. UNCHANGED thread /\ phase' = "descriptor"
    <3>1. ~ (curbrk' < curbrk + Size)
      BY ONLY <1>2, <1>5
    <3>2. UNCHANGED thread
      BY <1>1, <3>1
    <3>3. alive' = TRUE
      BY ONLY <1>2, <3>2 DEF thread
    <3> QED BY <1>1, <3>2, <3>3
  <2>2. arena' # <<>> /\ arena'[1] = [lo |-> curbrk, hi |-> curbrk + Size]
    BY <1>2, <1>5
  <2>3. Size' = Size
    BY DEF Size
  <2>4. FirstPiece'
    BY <1>1, <1>2, <1>3, <2>1, <2>2, <2>3 DEF FirstPiece, thread
  <2>5. ThreadState'
    BY <1>2, <2>1 DEF BInv, ThreadState, thread
  <2> QED BY <1>3, <2>1, <2>4, <2>5 DEF BInv, GetsThrough
<1> QED BY <1>3, <1>4, <1>5

\* The steps that leave memory alone.
LEMMA SameMemory ==
  ASSUME IInv, HostKept, UNCHANGED <<vars, block>>
  PROVE  IInv' /\ HostKept' /\ Tcb' = Tcb /\ Block' = Block
  BY DEF IInv, HostKept, vars, TypeOK, BreakAgrees, ArenaInOrder, UsableUpToLargest,
         Tcb, Block

LEMMA SetThreadAreaStep == ASSUME BInv, SetThreadArea PROVE BInv'
<1>1. /\ phase = "descriptor" /\ UNCHANGED <<vars, block>>
      /\ arena # <<>> /\ alive = TRUE /\ gsTls = 0 /\ heap = <<>> /\ mine = {}
      /\ accessed = Gs!NoBase
  BY DEF SetThreadArea, BInv, FirstPiece, ThreadState
<1>2. IInv' /\ HostKept' /\ Tcb' = Tcb /\ Block' = Block
  BY <1>1, SameMemory DEF BInv
<1>3. CASE ~ \A a \in Tcb - TlsSize .. Tcb : Accessible(a)
  <2>1. phase' = "dead" /\ UNCHANGED thread
    BY <1>3 DEF SetThreadArea
  <2>2. Base = NULL
    BY <1>1, <1>3, BlockUsable, BlockInside DEF BInv, FirstPiece
  <2>3. FirstPiece' /\ ThreadState'
    BY <1>1, <1>2, <2>1 DEF BInv, FirstPiece, ThreadState, thread, vars, Size
  <2> QED BY <1>1, <1>2, <2>2, <2>3 DEF BInv, GetsThrough, vars
<1>4. CASE \A a \in Tcb - TlsSize .. Tcb : Accessible(a)
  <2>1. Base # NULL
    BY <1>1, <1>4, NullUnusable DEF BInv
  <2>2. PICK a \in Gs!TlsAlloc :
          /\ used' = a.used
          /\ IF a.slot = Gs!OUT THEN UNCHANGED <<tls, heap, mine, alive>>
                                ELSE Gs!CopyDescriptor(a.slot, Tcb, a.tls)
    BY <1>4 DEF SetThreadArea, Gs!AllocateThreadArea
  <2>3. /\ UNCHANGED <<gsTls, accessed>>
        /\ phase' = IF ~alive' THEN "dead" ELSE IF mine' = mine THEN "fatal" ELSE "selector"
    BY <1>4 DEF SetThreadArea, Gs!AllocateThreadArea
  <2>4. /\ a.tls = tls
        /\ \/ a.slot \in Slot \ used /\ a.slot # 0 /\ a.used = used \cup {a.slot}
           \/ a.slot = Gs!OUT /\ a.used = used
    BY SlotTaken DEF BInv
  <2>5. used' \subseteq Slot /\ used \subseteq used'
    BY <2>2, <2>4 DEF BInv, ThreadState
  <2>6. FirstPiece'
    BY <1>1, <2>1, <2>3 DEF BInv, FirstPiece, vars, Size
  <2>7. CASE a.slot = Gs!OUT
    <3>1. phase' = "fatal" /\ UNCHANGED <<tls, heap, mine, alive>>
      BY <1>1, <2>2, <2>3, <2>7
    <3>2. ThreadState'
      BY <1>1, <2>3, <2>5, <3>1 DEF BInv, ThreadState
    <3> QED BY <1>2, <2>6, <3>1, <3>2 DEF BInv, GetsThrough
  <2>8. CASE /\ a.slot # Gs!OUT
             /\ alive' = FALSE /\ tls' = a.tls /\ UNCHANGED <<heap, mine>>
    <3>1. phase' = "dead"
      BY <2>3, <2>8
    <3>2. ThreadState'
      BY <1>1, <2>3, <2>4, <2>5, <2>8, <3>1 DEF BInv, ThreadState
    <3> QED BY <1>1, <1>2, <2>6, <2>8, <3>2 DEF BInv, GetsThrough
  <2>9. CASE /\ a.slot # Gs!OUT
             /\ heap' = Append(heap, Tcb)
             /\ tls' = Gs!TlsSetValue(a.tls, a.slot, Len(heap) + 1)
             /\ mine' = mine \cup {a.slot} /\ UNCHANGED alive
    <3>1. phase' = "selector" /\ alive' = TRUE /\ mine' = {a.slot}
      BY <1>1, <2>3, <2>9
    <3>2. heap' = <<Tcb>> /\ tls' = [tls EXCEPT ![a.slot] = 1] /\ a.slot \in Slot \ used
      BY <1>1, <2>4, <2>9 DEF Gs!TlsSetValue
    <3>3. ThreadState'
      <4>1. tls' \in [Slot -> Int] /\ tls'[a.slot] = 1
        BY <3>2 DEF BInv, ThreadState
      <4>2. \A s \in Slot \ used' : tls'[s] = Gs!NULL
        BY <2>2, <2>4, <2>9, <3>2 DEF BInv, ThreadState
      <4>3. mine' \subseteq used' /\ 0 \in used'
        BY <2>2, <2>4, <2>9, <3>1 DEF BInv, ThreadState
      <4> QED BY <1>1, <1>2, <2>3, <2>5, <3>1, <3>2, <4>1, <4>2, <4>3 DEF ThreadState
    <3> QED BY <1>2, <2>6, <3>1, <3>3 DEF BInv, GetsThrough
  <2> QED BY <2>2, <2>7, <2>8, <2>9 DEF Gs!CopyDescriptor
<1> QED BY <1>3, <1>4

LEMMA LoadGsStep == ASSUME BInv, LoadGs PROVE BInv'
<1>1. /\ phase = "selector" /\ phase' = "run" /\ UNCHANGED <<vars, block>>
      /\ alive = TRUE /\ gsTls = 0 /\ heap = <<Tcb>> /\ accessed = Gs!NoBase
  BY DEF LoadGs, BInv, ThreadState
<1>2. IInv' /\ HostKept' /\ Tcb' = Tcb /\ Block' = Block
  BY <1>1, SameMemory DEF BInv
<1>3. PICK s \in mine, g \in Gs!TlsAlloc :
        /\ gsTls' = g.slot /\ used' = g.used
        /\ tls' = Gs!TlsSetValue(g.tls, g.slot, Gs!TlsGetValue(tls, s))
        /\ UNCHANGED <<heap, mine, accessed, alive>>
  BY <1>1 DEF LoadGs, Gs!GSLoad, Gs!CurrentGs
<1>4. s \in used /\ s \in Slot /\ tls[s] = 1
  BY <1>1 DEF BInv, ThreadState
<1>5. /\ g.tls = tls
      /\ \/ g.slot \in Slot \ used /\ g.slot # 0 /\ g.used = used \cup {g.slot}
         \/ g.slot = Gs!OUT /\ g.used = used
  BY SlotTaken DEF BInv
<1>6. FirstPiece'
  BY <1>1, <1>3 DEF BInv, FirstPiece, vars, Size
<1>7. ThreadState'
  <2>1. CASE g.slot = Gs!OUT
    <3>1. tls' = tls /\ used' = used /\ gsTls' = Gs!OUT
      BY <1>3, <1>5, <2>1, NoSuchSlot DEF Gs!TlsSetValue
    <3> QED BY <1>1, <1>2, <1>3, <3>1, NoSuchSlot DEF BInv, ThreadState
  <2>2. CASE g.slot \in Slot \ used /\ g.slot # 0 /\ g.used = used \cup {g.slot}
    <3>1. tls' = [tls EXCEPT ![g.slot] = 1]
      BY <1>3, <1>4, <1>5, <2>2 DEF Gs!TlsSetValue, Gs!TlsGetValue
    <3>2. tls' \in [Slot -> Int] /\ tls'[g.slot] = 1
      BY <2>2, <3>1 DEF BInv, ThreadState
    <3>3. \A t \in Slot \ used' : tls'[t] = Gs!NULL
      BY <1>3, <2>2, <3>1 DEF BInv, ThreadState
    <3>4. used' \subseteq Slot /\ 0 \in used'
      BY <1>3, <2>2 DEF BInv, ThreadState
    <3> QED BY <1>1, <1>2, <1>3, <2>2, <3>2, <3>3, <3>4 DEF ThreadState
  <2> QED BY <1>5, <2>1, <2>2
<1> QED BY <1>1, <1>2, <1>6, <1>7 DEF BInv, GetsThrough

\* An access of the running program, whatever the step does to the memory.
LEMMA RunningAccess ==
  ASSUME BInv, phase = "run", UNCHANGED block, NEW o \in BlockOffset, Gs!GSAccess(o),
         phase' = IF alive' THEN "run" ELSE "dead"
  PROVE  ThreadState' /\ GetsThrough'
<1>1. /\ UNCHANGED <<used, tls, heap, gsTls, mine>>
      /\ \/ gsTls = Gs!OUT /\ alive' = FALSE /\ UNCHANGED accessed
         \/ gsTls # Gs!OUT /\ alive' = TRUE /\ accessed' \in Block
  BY AccessWithGs DEF BInv
<1>2. Tcb' = Tcb /\ Block' = Block
  BY DEF Tcb, Block
<1>3. ThreadState'
  BY <1>1, <1>2 DEF BInv, ThreadState
<1>4. GetsThrough'
  BY <1>1 DEF GetsThrough
<1> QED BY <1>3, <1>4

LEMMA MoveHeapStep == ASSUME BInv, NEW n \in Increment, MoveHeap(n) PROVE BInv'
<1>1. /\ phase = "run" /\ Sbrk(n) /\ block' = block /\ curbrk + n >= block + Size
      /\ IF curbrk' < curbrk + n THEN Gs!GSAccess(Modulus - Errno) ELSE UNCHANGED thread
      /\ phase' = IF alive' THEN "run" ELSE "dead"
  BY DEF MoveHeap, SbrkOrErrno
<1>2. n \in Int /\ curbrk \in Nat /\ block \in Nat /\ Size \in Nat \ {0}
  BY MemoryAssumption, BlockAssumption
     DEF BInv, IInv, TypeOK, AddressSpace, FirstPiece, Size
<1>3. curbrk + n # NULL
  BY <1>1, <1>2 DEF NULL
<1>4. /\ IInv' /\ HostKept' /\ Base' = Base
      /\ arena' = arena \/ arena' = Append(arena, [lo |-> curbrk, hi |-> curbrk + n])
  BY <1>1, <1>2, <1>3, SbrkOutcome DEF BInv
<1>5. arena # <<>> /\ Base # NULL /\ block = Base
      /\ arena \in Seq([lo : AddressSpace, hi : AddressSpace])
  BY <1>1 DEF BInv, FirstPiece, IInv, TypeOK
<1>6. arena' # <<>> /\ arena'[1] = arena[1]
  BY <1>4, <1>5
<1>7. FirstPiece'
  <2>1. phase' # "sbrk" /\ Size' = Size /\ block' \in Nat
    BY <1>1, <1>2 DEF Size
  <2> QED BY <1>1, <1>4, <1>5, <1>6, <2>1 DEF BInv, FirstPiece
<1>8. ThreadState' /\ GetsThrough'
  <2>1. CASE Gs!GSAccess(Modulus - Errno)
    BY <1>1, <2>1, RunningAccess DEF BlockOffset
  <2>2. CASE UNCHANGED thread
    <3>1. phase' = "run"
      BY <1>1, <2>2 DEF BInv, ThreadState, thread
    <3> QED BY <1>1, <2>2, <3>1 DEF BInv, ThreadState, thread, GetsThrough, Tcb, Block
  <2> QED BY <1>1, <2>1, <2>2
<1> QED BY <1>4, <1>7, <1>8 DEF BInv

LEMMA AccessBlockStep == ASSUME BInv, NEW o \in BlockOffset, AccessBlock(o) PROVE BInv'
<1>1. /\ phase = "run" /\ Gs!GSAccess(o) /\ UNCHANGED <<vars, block>>
      /\ phase' = IF alive' THEN "run" ELSE "dead"
  BY DEF AccessBlock
<1>2. IInv' /\ HostKept'
  BY <1>1, SameMemory DEF BInv
<1>3. FirstPiece'
  <2>1. arena # <<>> /\ Base # NULL /\ phase' # "sbrk" /\ Size' = Size
    BY <1>1 DEF BInv, FirstPiece, Size
  <2> QED BY <1>1, <2>1 DEF BInv, FirstPiece, vars
<1>4. ThreadState' /\ GetsThrough'
  BY <1>1, RunningAccess
<1> QED BY <1>2, <1>3, <1>4 DEF BInv

LEMMA NextBInv == BInv /\ [BlockNext]_blockVars => BInv'
<1> SUFFICES ASSUME BInv, [BlockNext]_blockVars PROVE BInv'
  OBVIOUS
<1>1. CASE UNCHANGED blockVars
  <2>1. UNCHANGED <<vars, block>> /\ UNCHANGED <<thread, phase>>
    BY <1>1 DEF blockVars
  <2>2. IInv' /\ HostKept' /\ Tcb' = Tcb /\ Block' = Block
    BY <2>1, SameMemory DEF BInv
  <2> QED BY <2>1, <2>2
          DEF BInv, FirstPiece, ThreadState, GetsThrough, vars, thread, Size
<1> QED BY <1>1, QueryStep, AllocateBlockStep, SetThreadAreaStep, LoadGsStep,
           MoveHeapStep, AccessBlockStep
        DEF BlockNext

LEMMA AlwaysBInv == BlockSpec => []BInv
  BY InitBInv, NextBInv, PTL DEF BlockSpec

\* The thread's block stays committed and the program's alone for as long as
\* the program runs, however its heap grows, shrinks and fails to grow
\* (sys_brk.c:35-38).
THEOREM BlockKept == BlockSpec => []BlockStays
<1>1. BInv => BlockStays
  BY BlockUsable, LaterPiecesBehind DEF BInv, BlockStays, FirstPiece
<1> QED BY <1>1, AlwaysBInv, PTL

\* No access through GS, errno's included, leaves the block or finds it
\* without memory (gs_support.c:38, sys_brk.c:35-38).
THEOREM AccessesKept == BlockSpec => []AccessesBlock
<1>1. BInv => AccessesBlock
  BY BlockUsable DEF BInv, AccessesBlock, FirstPiece, ThreadState
<1> QED BY <1>1, AlwaysBInv, PTL

\* Only a refusal by Windows, before the program runs or of the slot for GsTls,
\* ends it; no failure of brk does once GS is loaded (sys_tls.c:9-35,
\* gs_support.c:7-55, sys_brk.c:40-46).
THEOREM OnlyRefusalsKill == BlockSpec => []GetsThrough
<1>1. BInv => GetsThrough
  BY DEF BInv
<1> QED BY <1>1, AlwaysBInv, PTL
=============================================================================
