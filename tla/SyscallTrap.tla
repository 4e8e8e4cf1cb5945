---------------------------- MODULE SyscallTrap ----------------------------
(***************************************************************************)
(* How LINE2 carries out a Linux system call on Windows: the processor     *)
(* faults on INT 80h, the vectored exception handler (intercept.c) pushes  *)
(* the return address on the program's own stack and redirects it to       *)
(* HandleSyscall (syscall_dispatch.c), which pushes the registers as       *)
(* arguments, calls DispatchSyscall, and pops its way back.                *)
(*                                                                         *)
(* The program is single threaded (clone and fork are stubs).  Its own     *)
(* instructions are abstracted to what they leave in the registers and on  *)
(* the stack; the handlers to the registers a C function may change.       *)
(***************************************************************************)
EXTENDS Integers

CONSTANTS
  Word,          \* what a register or a stack slot can hold
  StackTop,      \* highest word address of the stack, which grows down
  CodeAddr,      \* addresses of the program's instructions
  Int80At,       \* those where INT 80h (cd 80) stands
  GsLength,      \* length of the emulated GS instruction, by its address
  FaultAt,       \* those of instructions that fault and are not emulated
  UnknownGsAt,   \* those among them with a GS prefix and an unknown opcode
  GuestRegs,     \* register files the program's own instructions set up
  GuestWords,    \* words it pushes, and keeps at GS-relative addresses
  HandlerWords,  \* words the handlers return or leave in scratch registers
  EntryPoint,    \* e_entry of the ELF header
  NSys,          \* _countof(SysEntry)
  Implemented,   \* indices of the __IMPLEMENTED entries of syscalls.inc
  Dereferencing, \* those whose handlers go through a pointer: the program's
                 \* (uname, time, readv, ...) or an unchecked malloc's
  ENOSYS,        \* -LINUX_ENOSYS, the result of every stub
  HostRoom,      \* words below ESP that a fault and its handlers take up
  ScratchSlots   \* argument slots the compiled DispatchSyscall overwrites

Register  == {"eax", "ebx", "ecx", "edx", "esi", "edi", "ebp"}
CallSaved == {"ebx", "esi", "edi", "ebp"}

ASSUME WordAssumption ==
  /\ Word \subseteq Int
  /\ 0 \in Word
  /\ CodeAddr \subseteq Word
  /\ ENOSYS \in Word
  /\ GuestRegs \subseteq [Register -> Word]
  /\ GuestWords \subseteq Word
  /\ HandlerWords \subseteq Word
ASSUME CodeAssumption ==
  /\ EntryPoint \in CodeAddr
  /\ Int80At \subseteq CodeAddr
  /\ FaultAt \subseteq CodeAddr
  /\ UnknownGsAt \subseteq FaultAt
  /\ DOMAIN GsLength \subseteq CodeAddr
  /\ Int80At \cap DOMAIN GsLength = {}
  /\ FaultAt \cap (Int80At \cup DOMAIN GsLength) = {}
  /\ \A a \in Int80At : a + 2 \in CodeAddr
  /\ \A a \in DOMAIN GsLength : a + GsLength[a] \in CodeAddr
ASSUME TableAssumption ==
  /\ NSys \in Nat
  /\ Implemented \subseteq 0 .. NSys - 1
  /\ Dereferencing \subseteq Implemented
\* The eight words pushed by TryHandleInt80 and HandleSyscall fit the room.
ASSUME StackAssumption ==
  /\ StackTop \in Nat
  /\ HostRoom \in Nat
  /\ 8 =< HostRoom
  /\ 2 =< StackTop
\* A C function owns the slots its arguments are passed in, and the epilogue
\* reads four of them again: the build must leave these alone.  It does, as
\* DispatchSyscall assigns to no parameter.
ASSUME SlotAssumption == ScratchSlots \subseteq {0, 2, 3}

VARIABLES
  mode,      \* whose instruction runs next, see Mode
  regs,      \* the registers of the thread
  esp,       \* its stack pointer, as a word address
  mem,       \* the stack, the part below esp included
  eip,       \* the program's next instruction, while mode = "guest"
  invoked    \* the last handler called, with the arguments it received

vars == <<mode, regs, esp, mem, eip, invoked>>

\* "astray": the processor runs something nobody chose, and nothing is said
\* of it any more.
Mode == {"guest", "HandleSyscall", "DispatchSyscall", "epilogue",
         "exited", "crashed", "astray"}

StackAddr == 0 .. StackTop

\* start(): three zero words (argc, argv, envp), EAX = the entry point.
Init ==
  /\ mode = "guest"
  /\ \E file \in GuestRegs : regs = [file EXCEPT !["eax"] = EntryPoint]
  /\ eip = EntryPoint
  /\ esp = StackTop - 2
  /\ mem = [a \in StackAddr |-> 0]
  /\ invoked = <<>>
-----------------------------------------------------------------------------
(* The program's own instructions, which the processor runs unaided.       *)

Plain ==
  /\ mode = "guest"
  /\ eip \notin Int80At \cup DOMAIN GsLength \cup FaultAt

GuestRun ==
  /\ Plain
  /\ regs' \in GuestRegs
  /\ eip' \in CodeAddr
  /\ UNCHANGED <<mode, esp, mem, invoked>>

GuestPush(w) ==
  /\ Plain
  /\ esp > 0
  /\ esp' = esp - 1
  /\ mem' = [mem EXCEPT ![esp - 1] = w]
  /\ eip' \in CodeAddr
  /\ UNCHANGED <<mode, regs, invoked>>

GuestPop ==
  /\ Plain
  /\ esp =< StackTop
  /\ esp' = esp + 1
  /\ eip' \in CodeAddr
  /\ UNCHANGED <<mode, regs, mem, invoked>>
-----------------------------------------------------------------------------
(* ExceptionHandler                                                        *)

TryHandleInt80 ==
  /\ mode = "guest"
  /\ eip \in Int80At
  /\ esp >= HostRoom
  /\ esp' = esp - 1
  /\ mem' = [mem EXCEPT ![esp - 1] = eip + 2]
  /\ mode' = "HandleSyscall"
  /\ eip' = 0
  /\ UNCHANGED <<regs, invoked>>

\* The registers an instruction of HandleGsIstruction can load.
GsTargets == {"eax", "ecx", "edx", "edi"}

\* One of them is loaded (or, by a store, a compare or mov gs, ax, none) and
\* EIP moves past the instruction; or GS names no descriptor, or one with a
\* bad base, and the access inside the handler faults with none to handle it
\* (gs_support.c:36-38, 44, 51).
TryHandleGS ==
  /\ mode = "guest"
  /\ eip \in DOMAIN GsLength
  /\ esp >= HostRoom
  /\ \/ /\ \E r \in GsTargets, w \in GuestWords :
             regs' \in {regs, [regs EXCEPT ![r] = w]}
        /\ eip' = eip + GsLength[eip]
        /\ UNCHANGED mode
     \/ mode' = "crashed" /\ UNCHANGED <<regs, eip>>
  /\ UNCHANGED <<esp, mem, invoked>>

\* EXCEPTION_CONTINUE_SEARCH, and no other handler is there; or the fault
\* finds too little stack to be dispatched at all.
Unhandled ==
  /\ mode = "guest"
  /\ \/ eip \in FaultAt \ UnknownGsAt
     \/ eip \in Int80At \cup DOMAIN GsLength \cup UnknownGsAt /\ esp < HostRoom
  /\ mode' = "crashed"
  /\ UNCHANGED <<regs, esp, mem, eip, invoked>>

\* "Unexpected GS operation": the default case of HandleGsIstruction.
UnexpectedGs ==
  /\ mode = "guest"
  /\ eip \in UnknownGsAt
  /\ esp >= HostRoom
  /\ mode' = "exited"
  /\ UNCHANGED <<regs, esp, mem, eip, invoked>>
-----------------------------------------------------------------------------
(* HandleSyscall and DispatchSyscall                                       *)

\* A fault to seed: EDI and ESI are pushed the other way round.
PushOrder_swapped == <<"ebp", "esi", "edi", "edx", "ecx", "ebx", "eax">>

\* The registers in the order HandleSyscall pushes them.
PushOrder == <<"ebp", "edi", "esi", "edx", "ecx", "ebx", "eax">>

PushArguments ==
  /\ mode = "HandleSyscall"
  /\ esp' = esp - 7
  /\ mem' = [a \in StackAddr |->
               IF a \in esp - 7 .. esp - 1 THEN regs[PushOrder[esp - a]]
                                           ELSE mem[a]]
  /\ mode' = "DispatchSyscall"
  /\ UNCHANGED <<regs, eip, invoked>>

\* The frame DispatchSyscall was called with.
SyscallId == mem[esp]

\* A fault to seed: the handler takes the number for its first argument.
Args_shifted == [i \in 1 .. 6 |-> mem[esp + i - 1]]
Args == [i \in 1 .. 6 |-> mem[esp + i]]

\* The range check of DispatchSyscall, as it is written.
Accepts(id) == id >= 0 \/ id < NSys

\* The stack once a handler has stored a result through its pointers, in any
\* words of the program's live stack: a buffer of the program may be there.
Stored ==
  {[a \in StackAddr |-> IF a \in DOMAIN buffer THEN buffer[a] ELSE mem[a]] :
     buffer \in UNION {[at -> HandlerWords] : at \in SUBSET (esp + 8 .. StackTop)}}

\* A handler returns: a C function may change EAX, ECX and EDX, and the
\* slots of its arguments.
Returns(result, stack) ==
  /\ \E c \in HandlerWords, d \in HandlerWords :
       regs' = [regs EXCEPT !["eax"] = result, !["ecx"] = c, !["edx"] = d]
  /\ \E scratch \in [ScratchSlots -> HandlerWords] :
       mem' = [a \in StackAddr |-> IF a - esp \in ScratchSlots
                                     THEN scratch[a - esp] ELSE stack[a]]
  /\ mode' = "epilogue"

\* The handler is entered with its arguments.  It returns, or faults where
\* it follows a pointer (sys_uname.c:7, sys_tls.c:13, 25), and the process
\* ends: the handler of INT 80h does not handle that.
CallHandler ==
  /\ SyscallId \in 0 .. NSys - 1
  /\ invoked' = <<SyscallId, Args>>
  /\ \/ /\ SyscallId \notin Implemented
        /\ Returns(ENOSYS, mem)
     \/ /\ SyscallId \in Implemented
        /\ \E result \in HandlerWords,
              stack \in IF SyscallId \in Dereferencing THEN Stored ELSE {mem} :
             Returns(result, stack)
     \/ /\ SyscallId \in Dereferencing
        /\ mode' = "crashed"
        /\ UNCHANGED <<regs, mem>>

\* SysEntry is read outside its bounds and the word found there is called:
\* it is no code at all, or some code, which is bound by no convention.
CallOutsideTable ==
  /\ SyscallId \notin 0 .. NSys - 1
  /\ mode' \in {"crashed", "astray"}
  /\ UNCHANGED <<regs, mem, invoked>>

DispatchSyscall ==
  /\ mode = "DispatchSyscall"
  /\ IF Accepts(SyscallId)
       THEN CallHandler \/ CallOutsideTable
       ELSE mode' = "exited" /\ UNCHANGED <<regs, mem, invoked>>
  /\ UNCHANGED <<esp, eip>>

\* A fault to seed: the slot of SyscallId is not dropped.
Epilogue_keepsId ==
  /\ mode = "epilogue"
  /\ regs' = [regs EXCEPT !["ebx"] = mem[esp],
                          !["esi"] = mem[esp + 3],
                          !["edi"] = mem[esp + 4],
                          !["ebp"] = mem[esp + 5]]
  /\ eip' = mem[esp + 6]
  /\ esp' = esp + 7
  /\ mode' = "guest"
  /\ UNCHANGED <<mem, invoked>>

\* add esp, 4; pop ebx; add esp, 8; pop esi; pop edi; pop ebp; ret
Epilogue ==
  /\ mode = "epilogue"
  /\ regs' = [regs EXCEPT !["ebx"] = mem[esp + 1],
                          !["esi"] = mem[esp + 4],
                          !["edi"] = mem[esp + 5],
                          !["ebp"] = mem[esp + 6]]
  /\ eip' = mem[esp + 7]
  /\ esp' = esp + 8
  /\ mode' = "guest"
  /\ UNCHANGED <<mem, invoked>>

Next ==
  \/ GuestRun \/ GuestPop \/ (\E w \in GuestWords : GuestPush(w))
  \/ TryHandleInt80 \/ TryHandleGS \/ UnexpectedGs \/ Unhandled
  \/ PushArguments \/ DispatchSyscall \/ Epilogue

Spec == Init /\ [][Next]_vars
-----------------------------------------------------------------------------
TypeOK ==
  /\ mode \in Mode
  /\ regs \in [Register -> Word]
  /\ esp \in 0 .. StackTop + 1
  /\ mem \in [StackAddr -> Word]
  /\ eip \in CodeAddr \cup {0}

\* While a system call is under way, the stack holds the resume address and
\* every register the epilogue will restore, at the offset it reads it from
\* (syscall_dispatch.c:55-73).
FrameOK ==
  /\ mode = "HandleSyscall" =>
       /\ esp + 1 =< StackTop + 1
       /\ HostRoom =< esp + 1
       /\ mem[esp] - 2 \in Int80At
  /\ mode \in {"DispatchSyscall", "epilogue"} =>
       /\ esp + 8 =< StackTop + 1
       /\ HostRoom =< esp + 8
       /\ mem[esp + 7] - 2 \in Int80At
       /\ mem[esp + 1] = regs["ebx"]
       /\ mem[esp + 4] = regs["esi"]
       /\ mem[esp + 5] = regs["edi"]
       /\ mem[esp + 6] = regs["ebp"]
  /\ mode = "DispatchSyscall" =>
       /\ mem[esp] = regs["eax"]
       /\ mem[esp + 2] = regs["ecx"]
       /\ mem[esp + 3] = regs["edx"]
  /\ mode = "guest" => eip \in CodeAddr
-----------------------------------------------------------------------------
(* The refinement: a trap in progress still looks like the state before    *)
(* INT 80h until the handler has run, and like the state after it from     *)
(* then on.                                                                *)

Running == mode \notin {"exited", "crashed", "astray"}

SeenEsp ==
  CASE mode = "guest" -> esp
    [] mode = "HandleSyscall" -> esp + 1
    [] mode \in {"DispatchSyscall", "epilogue"} -> esp + 8
    [] OTHER -> StackTop + 1

SeenLive == [a \in SeenEsp .. StackTop |-> mem[a]]

SeenEip ==
  CASE mode = "guest" -> eip
    [] mode = "HandleSyscall" -> mem[esp] - 2
    [] mode = "DispatchSyscall" -> mem[esp + 7] - 2
    [] mode = "epilogue" -> mem[esp + 7]
    [] OTHER -> 0

\* In the epilogue the call-saved registers are those on the stack.
SeenRegs ==
  CASE mode = "epilogue" -> [regs EXCEPT !["ebx"] = mem[esp + 1],
                                         !["esi"] = mem[esp + 4],
                                         !["edi"] = mem[esp + 5],
                                         !["ebp"] = mem[esp + 6]]
    [] Running /\ mode # "epilogue" -> regs
    [] OTHER -> [r \in Register |-> 0]

Atomic == INSTANCE AtomicSyscall
            WITH running <- Running, regs <- SeenRegs, esp <- SeenEsp,
                 live <- SeenLive, eip <- SeenEip

\* The fault, the push, the argument frame, the dispatch and the epilogue
\* together are one INT 80h for every number of the table: the right handler
\* with the right arguments and, if it returns, the call-saved registers and
\* the stack untouched but for what it stores for the program, and execution
\* resumed behind the instruction (intercept.c:8-28,
\* syscall_dispatch.c:21-75).  A handler that faults ends the process after
\* it was entered with those arguments.  Of a number outside the table
\* nothing is promised.
SyscallIsAtomic == Atomic!Spec

\* DispatchSyscall's else branch: a number that is not in the table is
\* reported and ends the process (syscall_dispatch.c:32-36).
UnexpectedSyscallExits ==
  [][mode = "DispatchSyscall" /\ SyscallId \notin 0 .. NSys - 1
       => mode' = "exited"]_vars
=============================================================================
