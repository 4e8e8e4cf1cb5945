------------------------------- MODULE TlsBlock -------------------------------
(***************************************************************************)
(* sys_brk and set_thread_area together, as __libc_setup_tls of the test   *)
(* programs' libc (testapps/exit-success.S) puts them to use before main:  *)
(* the thread's block is the first memory sbrk hands out, GS is loaded     *)
(* with its address, and the program then grows its heap behind it.  brk   *)
(* itself uses the block: a failed call writes errno through GS.           *)
(***************************************************************************)
EXTENDS Brk

CONSTANTS
    Slot, HostSlots, Faulting, HeapRoom,    \* see ThreadArea
    TlsSize,     \* of the thread's variables, a multiple of MaxAlign
    TcbSize,     \* of the control block behind them
    MaxAlign,
    Errno        \* how far before the control block errno is

VARIABLES
    used, tls, heap, gsTls, mine, accessed, alive,          \* see ThreadArea
    phase,       \* of the program: "sbrk", "descriptor", "selector", "run",
                 \* "fatal" when the libc gives up, "dead" after a fault
    block        \* what sbrk returned for the block

thread == <<used, tls, heap, gsTls, mine, accessed, alive>>
blockVars == <<vars, thread, phase, block>>

Modulus == (LastPage + 1) * PageSize

\* errno is one of the thread's variables, and the block fits in memory.
ASSUME BlockAssumption ==
    /\ TlsSize \in Nat /\ TcbSize \in Nat \ {0} /\ MaxAlign \in Nat \ {0}
    /\ Errno \in 1 .. TlsSize
    /\ TlsSize + TcbSize =< Modulus

\* What ThreadArea assumes of the slots.
ASSUME FreeSlotAssumption ==
    /\ Slot \subseteq Nat /\ HostSlots \subseteq Slot /\ 0 \in HostSlots
    /\ Slot \ HostSlots \subseteq Faulting
    /\ HeapRoom \in Nat

\* The offsets of errno and of the fields of the control block.
BlockOffset == {Modulus - Errno} \cup 0 .. TcbSize - 1

Gs == INSTANCE ThreadArea WITH Base <- 0 .. Modulus - 1, Offset <- BlockOffset

BlockInit == Init /\ Gs!Init /\ phase = "sbrk" /\ block = NULL

\* Seeded fault: no room for the thread's variables.
Size_tcb == TcbSize + MaxAlign

Size == TcbSize + MaxAlign + TlsSize

\* The control block, behind the variables.
Tcb == ((block + MaxAlign - 1) \div MaxAlign) * MaxAlign + TlsSize
Block == Tcb - TlsSize .. Tcb + TcbSize - 1

Accessible(a) == PageOf(a) \in committed

\* sbrk asks brk(NULL) for the break once.
Query ==
    /\ phase = "sbrk" /\ ~sized /\ curbrk = NULL
    /\ SbrkQuery
    /\ UNCHANGED <<thread, phase, block>>

\* brk fails when its result is below the request, and says so in errno.
SbrkOrErrno(n) ==
    /\ Sbrk(n)
    /\ IF curbrk' < curbrk + n THEN Gs!GSAccess(Modulus - Errno) ELSE UNCHANGED thread

\* __libc_setup_tls does not look at the result of sbrk, but errno cannot be
\* written before GS is loaded.
AllocateBlock ==
    /\ phase = "sbrk" /\ SbrkOrErrno(Size)
    /\ phase' = IF alive' THEN "descriptor" ELSE "dead"
    /\ block' = curbrk

\* The variables and the head of the control block are written, and its
\* address becomes the base of a new descriptor; an error is fatal.
SetThreadArea ==
    /\ phase = "descriptor"
    /\ IF \A a \in Tcb - TlsSize .. Tcb : Accessible(a)
       THEN /\ Gs!AllocateThreadArea(Tcb)
            /\ phase' = IF ~alive' THEN "dead" ELSE IF mine' = mine THEN "fatal" ELSE "selector"
       ELSE phase' = "dead" /\ UNCHANGED thread
    /\ UNCHANGED <<vars, block>>

LoadGs ==
    /\ phase = "selector"
    /\ \E s \in mine : Gs!GSLoad(s)
    /\ phase' = "run" /\ UNCHANGED <<vars, block>>

\* The program: malloc grows the heap, and trims what it was granted.
MoveHeap(n) ==
    /\ phase = "run" /\ SbrkOrErrno(n)
    /\ curbrk + n >= block + Size
    /\ phase' = IF alive' THEN "run" ELSE "dead"
    /\ UNCHANGED block

AccessBlock(o) ==
    /\ phase = "run" /\ Gs!GSAccess(o)
    /\ phase' = IF alive' THEN "run" ELSE "dead"
    /\ UNCHANGED <<vars, block>>

BlockNext ==
    \/ Query \/ AllocateBlock \/ SetThreadArea \/ LoadGs
    \/ \E n \in Increment : MoveHeap(n)
    \/ \E o \in BlockOffset : AccessBlock(o)

BlockSpec == BlockInit /\ [][BlockNext]_blockVars
-----------------------------------------------------------------------------
\* The block stays committed and the program's alone, however the break moves
\* on, although of the later pieces neither need be committed: it is the first
\* piece, and every commit begins at Base (sys_brk.c:35-38).
BlockStays ==
    phase = "run" =>
        /\ \A a \in Block : Accessible(a)
        /\ \A i \in 2 .. Len(arena) : \A a \in Block : a < arena[i].lo

\* Every access through GS, that of brk to errno included, which lies before
\* the base, is one to the block (gs_support.c:38).
AccessesBlock == accessed # Gs!NoBase => accessed \in Block /\ Accessible(accessed)

\* When Windows has given the arena, its first pages, two slots and room for a
\* descriptor, the program gets through the set-up, and no later access or
\* failure of brk kills it.
GetsThrough ==
    phase = "dead" =>
        \/ arena = <<>>         \* VirtualAlloc has failed
        \/ Base = NULL
        \/ ~alive /\ mine = {}   \* malloc
        \/ gsTls = Gs!OUT       \* TlsAlloc for GsTls
=============================================================================
