--------------------------- MODULE AtomicSyscall ---------------------------
(***************************************************************************)
(* What the interceptor promises a Linux program: INT 80h behaves like one *)
(* instruction.  It runs the handler that EAX names with the arguments in  *)
(* EBX..EBP, puts the result in EAX, and resumes behind the instruction    *)
(* with the stack as it was and the call-saved registers intact (the table *)
(* in the comment of HandleSyscall, syscall_dispatch.c).                   *)
(***************************************************************************)
EXTENDS Integers

CONSTANTS
  Word,          \* what a register or a stack slot can hold
  StackTop,      \* highest word address of the stack, which grows down
  CodeAddr,      \* addresses of the program's instructions
  Int80At,       \* those where INT 80h (cd 80) stands
  GsLength,      \* length of the emulated GS instruction, by its address
  FaultAt,       \* those of instructions that fault and are not emulated
  GuestRegs,     \* register files the program's own instructions set up
  GuestWords,    \* words it pushes
  EntryPoint,    \* e_entry of the ELF header
  NSys,          \* entries in SysEntry
  Implemented,   \* indices of the entries that are not stubs
  Dereferencing, \* those whose handlers follow a pointer and may fault on it
  ENOSYS,        \* -LINUX_ENOSYS, the result of every stub
  HostRoom       \* words below ESP that a fault and its handlers take up

Register  == {"eax", "ebx", "ecx", "edx", "esi", "edi", "ebp"}
ArgOrder  == <<"ebx", "ecx", "edx", "esi", "edi", "ebp">>
CallSaved == {"ebx", "esi", "edi", "ebp"}
Table     == 0 .. NSys - 1
Arguments(file) == [i \in 1 .. 6 |-> file[ArgOrder[i]]]

VARIABLES
  running,   \* FALSE once the process is gone or out of control
  regs,      \* the register file
  esp,       \* the stack pointer, a word address
  live,      \* the stack from esp upwards
  eip,       \* the next instruction
  invoked    \* the last handler called, with its arguments

vars == <<running, regs, esp, live, eip, invoked>>

\* The contents of a state in which nothing is promised any more.
Blank == [regs |-> [r \in Register |-> 0], esp |-> StackTop + 1,
          live |-> [a \in (StackTop + 1) .. StackTop |-> 0], eip |-> 0]

Init ==
  /\ running = TRUE
  /\ \E file \in GuestRegs : regs = [file EXCEPT !["eax"] = EntryPoint]
  /\ eip = EntryPoint
  /\ esp = StackTop - 2                   \* argc, argv and envp, all zero
  /\ live = [a \in esp .. StackTop |-> 0]
  /\ invoked = <<>>

\* Ordinary instructions run on the processor; nothing of LINE sees them.
Plain == running /\ eip \notin Int80At \cup DOMAIN GsLength \cup FaultAt

GuestRun ==
  /\ Plain
  /\ regs' \in GuestRegs
  /\ eip' \in CodeAddr
  /\ UNCHANGED <<running, esp, live, invoked>>

GuestPush(w) ==
  /\ Plain
  /\ esp > 0
  /\ esp' = esp - 1
  /\ live' = [a \in esp' .. StackTop |-> IF a = esp' THEN w ELSE live[a]]
  /\ eip' \in CodeAddr
  /\ UNCHANGED <<running, regs, invoked>>

GuestPop ==
  /\ Plain
  /\ esp =< StackTop
  /\ esp' = esp + 1
  /\ live' = [a \in esp' .. StackTop |-> live[a]]
  /\ eip' \in CodeAddr
  /\ UNCHANGED <<running, regs, invoked>>

Gone ==
  /\ running' = FALSE
  /\ regs' = Blank.regs /\ esp' = Blank.esp /\ live' = Blank.live
  /\ eip' = Blank.eip

\* An emulated GS instruction: at most one register changes.
Emulated ==
  /\ running
  /\ eip \in DOMAIN GsLength
  /\ esp >= HostRoom
  /\ eip' = eip + GsLength[eip]
  /\ \E r \in Register : \A q \in Register \ {r} : regs'[q] = regs[q]
  /\ regs' \in [Register -> Word]
  /\ UNCHANGED <<running, esp, live, invoked>>

\* INT 80h enters the handler its number names.
Enter ==
  /\ running
  /\ eip \in Int80At
  /\ esp >= HostRoom
  /\ regs["eax"] \in Table
  /\ invoked' = <<regs["eax"], Arguments(regs)>>

\* INT 80h as the program sees it.
Syscall ==
  /\ Enter
  /\ regs' \in [Register -> Word]
  /\ \A r \in CallSaved : regs'[r] = regs[r]
  /\ regs["eax"] \notin Implemented => regs'["eax"] = ENOSYS
  /\ eip' = eip + 2
  /\ IF regs["eax"] \in Dereferencing THEN live' \in [esp .. StackTop -> Word]
                                        ELSE live' = live
  /\ UNCHANGED <<running, esp>>

\* A handler that follows a bad pointer takes the process with it.
HandlerFaults ==
  /\ Enter
  /\ regs["eax"] \in Dereferencing
  /\ Gone

\* No promise is made for a number outside the table.
UndefinedSyscall ==
  /\ running
  /\ eip \in Int80At
  /\ esp >= HostRoom
  /\ regs["eax"] \notin Table
  /\ Gone
  /\ UNCHANGED invoked

\* The process ends at a fault nobody handles, at a GS access through a
\* missing or bad segment, or when a fault finds no room on the stack.
Die ==
  /\ running
  /\ \/ eip \in FaultAt \cup DOMAIN GsLength
     \/ eip \in Int80At /\ esp < HostRoom
  /\ Gone
  /\ UNCHANGED invoked

Next ==
  \/ GuestRun \/ GuestPop \/ (\E w \in GuestWords : GuestPush(w))
  \/ Emulated \/ Syscall \/ HandlerFaults \/ UndefinedSyscall \/ Die

Spec == Init /\ [][Next]_vars
=============================================================================
