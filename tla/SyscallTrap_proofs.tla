------------------------- MODULE SyscallTrap_proofs -------------------------
(***************************************************************************)
(* The argument frame of a system call is intact whenever it is read, and  *)
(* the five steps of a trap implement one atomic INT 80h.                  *)
(***************************************************************************)
EXTENDS SyscallTrap, TLAPS

Inv == TypeOK /\ FrameOK

LEMMA InitInv == Init => Inv
  BY WordAssumption, CodeAssumption, StackAssumption
  DEF Init, Inv, TypeOK, FrameOK, Mode, StackAddr, Register

\* What a handler stores leaves every word below the program's stack alone.
LEMMA StoredBelow ==
  ASSUME TypeOK, NEW stack \in Stored \cup {mem}
  PROVE  /\ stack \in [StackAddr -> Word]
         /\ \A a \in StackAddr : a < esp + 8 => stack[a] = mem[a]
<1>1. CASE stack = mem
  BY <1>1 DEF TypeOK
<1>2. CASE stack \in Stored
  <2>1. PICK at \in SUBSET (esp + 8 .. StackTop) :
          \E buffer \in [at -> HandlerWords] :
            stack = [a \in StackAddr |-> IF a \in DOMAIN buffer THEN buffer[a]
                                                                ELSE mem[a]]
    BY <1>2 DEF Stored
  <2>2. PICK buffer \in [at -> HandlerWords] :
          stack = [a \in StackAddr |-> IF a \in DOMAIN buffer THEN buffer[a]
                                                              ELSE mem[a]]
    BY <2>1
  <2>3. \A a \in StackAddr : a < esp + 8 => a \notin at
    BY <2>1 DEF TypeOK, StackAddr
  <2>4. \A a \in StackAddr : mem[a] \in Word
    BY DEF TypeOK
  <2>5. \A a \in at : buffer[a] \in Word
    BY <2>2, WordAssumption
  <2> QED BY <2>2, <2>3, <2>4, <2>5
<1> QED BY <1>1, <1>2

\* Every step keeps the types and the frame.
LEMMA NextInv == Inv /\ [Next]_vars => Inv'
<1> SUFFICES ASSUME Inv, [Next]_vars PROVE Inv'
  OBVIOUS
<1> USE WordAssumption, CodeAssumption, StackAssumption
        DEF Inv, TypeOK, FrameOK, Mode, StackAddr
<1>1. CASE GuestRun
  BY <1>1 DEF GuestRun, Plain
<1>2. CASE GuestPop
  BY <1>2 DEF GuestPop, Plain
<1>3. ASSUME NEW w \in GuestWords, GuestPush(w) PROVE Inv'
  BY <1>3 DEF GuestPush, Plain
<1>4. CASE TryHandleInt80
  <2>1. TypeOK'
    BY <1>4 DEF TryHandleInt80
  <2>2. mem'[esp'] - 2 \in Int80At
    BY <1>4 DEF TryHandleInt80
  <2>3. FrameOK'
    BY <1>4, <2>2 DEF TryHandleInt80
  <2> QED BY <2>1, <2>3
<1>5. CASE TryHandleGS
  BY <1>5 DEF TryHandleGS, GsTargets, Register
<1>6. CASE UnexpectedGs
  BY <1>6 DEF UnexpectedGs
<1>7. CASE Unhandled
  BY <1>7 DEF Unhandled
<1>8. CASE PushArguments
  <2>1. esp' = esp - 7 /\ esp' \in 0 .. StackTop /\ esp \in 0 .. StackTop
    BY <1>8 DEF PushArguments
  <2>2. \A a \in StackAddr :
          mem'[a] = IF a \in esp - 7 .. esp - 1 THEN regs[PushOrder[esp - a]]
                                                ELSE mem[a]
    BY <1>8 DEF PushArguments
  <2>3. \A i \in 1 .. 7 : PushOrder[i] \in Register
    BY DEF PushOrder, Register
  <2>4. \A i \in 1 .. 7 : regs[PushOrder[i]] \in Word
    BY <2>3
  <2>5. mem' \in [StackAddr -> Word]
    <3>1. ASSUME NEW a \in StackAddr, a \in esp - 7 .. esp - 1
          PROVE  regs[PushOrder[esp - a]] \in Word
      <4>1. esp - a \in 1 .. 7
        BY <3>1, <2>1
      <4> QED BY <4>1, <2>4
    <3>2. ASSUME NEW a \in StackAddr, a \notin esp - 7 .. esp - 1
          PROVE  mem[a] \in Word
      OBVIOUS
    <3> QED BY <1>8, <3>1, <3>2 DEF PushArguments
  <2>6. TypeOK'
    BY <1>8, <2>1, <2>5 DEF PushArguments
  <2>7. /\ mem'[esp' + 0] = regs[PushOrder[7]]
        /\ mem'[esp' + 1] = regs[PushOrder[6]]
        /\ mem'[esp' + 2] = regs[PushOrder[5]]
        /\ mem'[esp' + 3] = regs[PushOrder[4]]
        /\ mem'[esp' + 4] = regs[PushOrder[3]]
        /\ mem'[esp' + 5] = regs[PushOrder[2]]
        /\ mem'[esp' + 6] = regs[PushOrder[1]]
        /\ mem'[esp' + 7] = mem[esp]
    <3>1. \A i \in 0 .. 6 : /\ esp' + i \in StackAddr
                            /\ esp' + i \in esp - 7 .. esp - 1
                            /\ esp - (esp' + i) = 7 - i
      BY <2>1
    <3>2. \A i \in 0 .. 6 : mem'[esp' + i] = regs[PushOrder[7 - i]]
      BY <3>1, <2>2
    <3>3. esp' + 7 = esp /\ esp \in StackAddr /\ esp \notin esp - 7 .. esp - 1
      BY <2>1
    <3>4. mem'[esp] = mem[esp]
      BY <3>3, <2>2
    <3> QED BY <3>2, <3>3, <3>4
  <2>8. FrameOK'
    <3>1. /\ PushOrder[1] = "ebp" /\ PushOrder[2] = "edi"
          /\ PushOrder[3] = "esi" /\ PushOrder[4] = "edx"
          /\ PushOrder[5] = "ecx" /\ PushOrder[6] = "ebx"
          /\ PushOrder[7] = "eax"
      BY DEF PushOrder
    <3>2. regs' = regs /\ mode' = "DispatchSyscall"
      BY <1>8 DEF PushArguments
    <3>3. /\ esp' + 8 =< StackTop + 1
          /\ HostRoom =< esp' + 8
          /\ mem[esp] - 2 \in Int80At
      BY <1>8, <2>1 DEF PushArguments
    <3>4. esp' + 0 = esp'
      BY <2>1
    <3> QED BY <2>7, <3>1, <3>2, <3>3, <3>4
  <2> QED BY <2>6, <2>8
<1>9. CASE DispatchSyscall
  <2>1. ASSUME NEW result \in Word, NEW stack \in Stored \cup {mem},
               Returns(result, stack)
        PROVE  Inv'
    <3>1. PICK scratch \in [ScratchSlots -> HandlerWords] :
            mem' = [a \in StackAddr |-> IF a - esp \in ScratchSlots
                                          THEN scratch[a - esp] ELSE stack[a]]
      BY <2>1 DEF Returns
    <3>2. /\ stack \in [StackAddr -> Word]
          /\ \A a \in StackAddr : a < esp + 8 => stack[a] = mem[a]
      BY StoredBelow
    <3>3. mem' \in [StackAddr -> Word]
      BY <3>1, <3>2
    <3>4. \A i \in {1, 4, 5, 6, 7} : mem'[esp + i] = mem[esp + i]
      <4>1. TAKE i \in {1, 4, 5, 6, 7}
      <4>2. esp + i \in StackAddr /\ (esp + i) - esp = i /\ esp + i < esp + 8
        BY <1>9 DEF DispatchSyscall
      <4>3. (esp + i) - esp \notin ScratchSlots
        BY <4>2, SlotAssumption
      <4> QED BY <3>1, <3>2, <4>2, <4>3
    <3>5. /\ regs' \in [Register -> Word]
          /\ \A r \in CallSaved : regs'[r] = regs[r]
      BY <2>1 DEF Returns, Register, CallSaved
    <3>6. mode = "DispatchSyscall" /\ mode' = "epilogue" /\ UNCHANGED <<esp, eip>>
      BY <1>9, <2>1 DEF DispatchSyscall, Returns
    <3> QED BY <3>3, <3>4, <3>5, <3>6 DEF CallSaved
  <2>2. ASSUME mode' \in {"crashed", "exited", "astray"}, UNCHANGED <<regs, mem>>
        PROVE  Inv'
    BY <1>9, <2>2 DEF DispatchSyscall
  <2>3. CASE CallHandler
    BY <2>1, <2>2, <2>3 DEF CallHandler
  <2>4. CASE CallOutsideTable
    BY <2>2, <2>4 DEF CallOutsideTable
  <2> QED BY <1>9, <2>2, <2>3, <2>4 DEF DispatchSyscall
<1>10. CASE Epilogue
  BY <1>10 DEF Epilogue, Register
<1>11. CASE UNCHANGED vars
  BY <1>11 DEF vars
<1> QED
  BY <1>1, <1>2, <1>3, <1>4, <1>5, <1>6, <1>7, <1>8, <1>9, <1>10, <1>11 DEF Next

\* The types of all variables: no path of the interceptor leaves the stack.
THEOREM TypeCorrect == Spec => []TypeOK
<1> QED BY InitInv, NextInv, PTL DEF Spec, Inv

\* Whenever the argument frame or the return address is read, it holds what
\* the program had in its registers (syscall_dispatch.c:55-73).
THEOREM FrameCorrect == Spec => []FrameOK
<1> QED BY InitInv, NextInv, PTL DEF Spec, Inv
-----------------------------------------------------------------------------
LEMMA InitAtomic == Init => Atomic!Init
<1> SUFFICES ASSUME Init PROVE Atomic!Init
  OBVIOUS
<1>1. /\ Running = TRUE /\ SeenRegs = regs /\ SeenEsp = esp /\ SeenEip = eip
      /\ SeenLive = [a \in esp .. StackTop |-> mem[a]]
  BY DEF Init, Running, SeenRegs, SeenEsp, SeenEip, SeenLive
<1>2. \A a \in esp .. StackTop : a \in StackAddr /\ mem[a] = 0
  BY StackAssumption DEF Init, StackAddr
<1>3. SeenLive = [a \in esp .. StackTop |-> 0]
  BY <1>1, <1>2
<1> QED BY <1>1, <1>3 DEF Init, Atomic!Init

\* What a state looks like from the outside, mode by mode.
Views ==
  /\ mode = "guest" =>
       /\ Running = TRUE /\ SeenRegs = regs /\ SeenEsp = esp /\ SeenEip = eip
       /\ SeenLive = [a \in esp .. StackTop |-> mem[a]]
  /\ mode = "HandleSyscall" =>
       /\ Running = TRUE /\ SeenRegs = regs /\ SeenEsp = esp + 1
       /\ SeenEip = mem[esp] - 2
       /\ SeenLive = [a \in esp + 1 .. StackTop |-> mem[a]]
  /\ mode = "DispatchSyscall" =>
       /\ Running = TRUE /\ SeenRegs = regs /\ SeenEsp = esp + 8
       /\ SeenEip = mem[esp + 7] - 2
       /\ SeenLive = [a \in esp + 8 .. StackTop |-> mem[a]]
  /\ mode = "epilogue" =>
       /\ Running = TRUE /\ SeenEsp = esp + 8 /\ SeenEip = mem[esp + 7]
       /\ SeenRegs = [regs EXCEPT !["ebx"] = mem[esp + 1],
                                  !["esi"] = mem[esp + 4],
                                  !["edi"] = mem[esp + 5],
                                  !["ebp"] = mem[esp + 6]]
       /\ SeenLive = [a \in esp + 8 .. StackTop |-> mem[a]]
  /\ mode \in {"exited", "crashed", "astray"} =>
       /\ Running = FALSE
       /\ SeenRegs = Atomic!Blank.regs /\ SeenEsp = Atomic!Blank.esp
       /\ SeenEip = Atomic!Blank.eip /\ SeenLive = Atomic!Blank.live

LEMMA ViewsHold == Views
<1>1. mode \in {"exited", "crashed", "astray"} =>
        /\ Running = FALSE
        /\ SeenRegs = Atomic!Blank.regs /\ SeenEsp = Atomic!Blank.esp
        /\ SeenEip = Atomic!Blank.eip /\ SeenLive = Atomic!Blank.live
  <2> SUFFICES ASSUME mode \in {"exited", "crashed", "astray"}
               PROVE  /\ Running = FALSE
                      /\ SeenRegs = Atomic!Blank.regs
                      /\ SeenEsp = Atomic!Blank.esp
                      /\ SeenEip = Atomic!Blank.eip
                      /\ SeenLive = Atomic!Blank.live
    OBVIOUS
  <2>1. /\ Running = FALSE /\ SeenEsp = StackTop + 1 /\ SeenEip = 0
        /\ SeenRegs = [r \in Register |-> 0]
        /\ SeenLive = [a \in StackTop + 1 .. StackTop |-> mem[a]]
    BY DEF Running, SeenRegs, SeenEsp, SeenEip, SeenLive
  <2>2. \A a \in StackTop + 1 .. StackTop : FALSE
    BY StackAssumption
  <2>3. SeenLive = [a \in (StackTop + 1) .. StackTop |-> 0]
    BY <2>1, <2>2
  <2> QED BY <2>1, <2>3 DEF Atomic!Blank, Atomic!Register, Register
<1> QED
  BY <1>1 DEF Views, Running, SeenRegs, SeenEsp, SeenEip, SeenLive

\* Every step is a step of AtomicSyscall or leaves what is seen unchanged.
LEMMA NextAtomic ==
  Inv /\ Inv' /\ [Next]_vars => [Atomic!Next]_(Atomic!vars)
<1> SUFFICES ASSUME Inv, Inv', [Next]_vars PROVE [Atomic!Next]_(Atomic!vars)
  OBVIOUS
<1>a. Views /\ Views'
  BY ViewsHold, PTL
<1> USE DEF Inv
<1>1. CASE GuestRun
  <2>1. mode = "guest" /\ mode' = "guest"
    BY <1>1 DEF GuestRun, Plain
  <2>2. /\ Running = TRUE /\ SeenRegs = regs /\ SeenEsp = esp /\ SeenEip = eip
        /\ Running' = TRUE /\ SeenRegs' = regs' /\ SeenEsp' = esp'
        /\ SeenEip' = eip'
        /\ SeenLive = [a \in esp .. StackTop |-> mem[a]]
        /\ SeenLive' = [a \in esp' .. StackTop |-> mem'[a]]
    BY <1>a, <2>1 DEF Views
  <2>3. SeenLive' = SeenLive
    BY <1>1, <2>2 DEF GuestRun
  <2>4. Atomic!GuestRun
    BY <1>1, <2>2, <2>3 DEF GuestRun, Plain, Atomic!GuestRun, Atomic!Plain
  <2> QED BY <2>4 DEF Atomic!Next
<1>2. CASE GuestPop
  <2>1. mode = "guest" /\ mode' = "guest"
    BY <1>2 DEF GuestPop, Plain
  <2>2. SeenLive' = [a \in esp' .. StackTop |-> SeenLive[a]]
    <3>1. \A a \in esp' .. StackTop : a \in esp .. StackTop
      BY <1>2 DEF GuestPop, TypeOK
    <3>2. \A a \in esp' .. StackTop : SeenLive[a] = mem[a]
      BY <3>1, <1>a, <2>1 DEF Views
    <3> QED BY <1>2, <1>a, <2>1, <3>2 DEF GuestPop, Views
  <2>3. Atomic!GuestPop
    BY <1>2, <1>a, <2>1, <2>2
       DEF GuestPop, Plain, Views, Atomic!GuestPop, Atomic!Plain
  <2> QED BY <2>3 DEF Atomic!Next
<1>3. ASSUME NEW w \in GuestWords, GuestPush(w)
      PROVE  [Atomic!Next]_(Atomic!vars)
  <2>1. mode = "guest" /\ mode' = "guest"
    BY <1>3 DEF GuestPush, Plain
  <2>2. SeenLive' = [a \in esp' .. StackTop |-> IF a = esp' THEN w ELSE SeenLive[a]]
    <3>1. \A a \in esp' .. StackTop : a = esp' \/ a \in esp .. StackTop
      BY <1>3 DEF GuestPush, TypeOK
    <3>2. \A a \in esp .. StackTop : SeenLive[a] = mem[a]
      BY <1>a, <2>1 DEF Views
    <3>3. \A a \in esp' .. StackTop : a \in StackAddr
      BY <1>3 DEF GuestPush, TypeOK, StackAddr
    <3>4. \A a \in esp' .. StackTop : mem'[a] = IF a = esp' THEN w ELSE mem[a]
      BY <1>3, <3>3 DEF GuestPush, TypeOK
    <3> QED BY <3>1, <3>2, <3>4, <1>a, <2>1 DEF Views
  <2>3. Atomic!GuestPush(w)
    BY <1>3, <1>a, <2>1, <2>2
       DEF GuestPush, Plain, Views, Atomic!GuestPush, Atomic!Plain
  <2> QED BY <2>3 DEF Atomic!Next
<1>4. CASE TryHandleInt80
  <2>1. mode = "guest" /\ mode' = "HandleSyscall"
    BY <1>4 DEF TryHandleInt80
  <2>2. esp' + 1 = esp /\ esp - 1 \in StackAddr
    BY <1>4, StackAssumption DEF TryHandleInt80, TypeOK, StackAddr
  <2>3. mem'[esp'] - 2 = eip
    BY <1>4, <2>2, CodeAssumption, WordAssumption DEF TryHandleInt80, TypeOK
  <2>4. \A a \in esp .. StackTop : mem'[a] = mem[a]
    BY <1>4 DEF TryHandleInt80, TypeOK, StackAddr
  <2>5. SeenLive' = SeenLive
    <3>1. SeenLive = [a \in esp .. StackTop |-> mem[a]]
      BY <1>a, <2>1 DEF Views
    <3>2. SeenLive' = [a \in esp' + 1 .. StackTop |-> mem'[a]]
      BY <1>a, <2>1 DEF Views
    <3> QED BY <2>2, <2>4, <3>1, <3>2
  <2>6. UNCHANGED Atomic!vars
    BY <1>4, <1>a, <2>1, <2>2, <2>3, <2>5
       DEF Views, TryHandleInt80, Atomic!vars
  <2> QED BY <2>6
<1>5. CASE TryHandleGS
  <2>1. CASE mode' = "guest"
    <3>1. mode = "guest" /\ mode' = "guest"
      BY <1>5, <2>1 DEF TryHandleGS
    <3>2. /\ \E r \in Register : \A q \in Register \ {r} : regs'[q] = regs[q]
          /\ eip' = eip + GsLength[eip]
      BY <1>5, <3>1 DEF TryHandleGS, TypeOK, GsTargets, Register
    <3>3. regs' \in [Register -> Word]
      BY DEF TypeOK
    <3>4. /\ Running = TRUE /\ SeenRegs = regs /\ SeenEsp = esp /\ SeenEip = eip
          /\ Running' = TRUE /\ SeenRegs' = regs' /\ SeenEsp' = esp'
          /\ SeenEip' = eip'
          /\ SeenLive = [a \in esp .. StackTop |-> mem[a]]
          /\ SeenLive' = [a \in esp' .. StackTop |-> mem'[a]]
      BY <1>a, <3>1 DEF Views
    <3>5. SeenLive' = SeenLive
      BY <1>5, <3>4 DEF TryHandleGS
    <3>6. Atomic!Emulated
      BY <1>5, <3>2, <3>3, <3>4, <3>5
         DEF TryHandleGS, Atomic!Emulated, Atomic!Register, Register
    <3> QED BY <3>6 DEF Atomic!Next
  <2>2. CASE mode' = "crashed"
    <3>1. Atomic!Die
      BY <1>5, <1>a, <2>2 DEF TryHandleGS, Views, Atomic!Die, Atomic!Gone
    <3> QED BY <3>1 DEF Atomic!Next
  <2> QED BY <1>5, <2>1, <2>2 DEF TryHandleGS
<1>6. CASE UnexpectedGs \/ Unhandled
  <2>1. mode = "guest" /\ mode' \in {"exited", "crashed"}
    BY <1>6 DEF UnexpectedGs, Unhandled
  <2>2. Atomic!Die
    BY <1>6, <1>a, <2>1, CodeAssumption
       DEF UnexpectedGs, Unhandled, Views, Atomic!Die, Atomic!Gone
  <2> QED BY <2>2 DEF Atomic!Next
<1>7. CASE PushArguments
  <2>1. mode = "HandleSyscall" /\ mode' = "DispatchSyscall"
    BY <1>7 DEF PushArguments
  <2>2. esp \in Int /\ esp' + 7 = esp /\ esp' + 8 = esp + 1
    BY <1>7 DEF PushArguments, TypeOK
  <2>3. esp \in StackAddr
    BY <2>1, StackAssumption DEF TypeOK, FrameOK, StackAddr
  <2>4. \A a \in esp .. StackTop : mem'[a] = mem[a]
    BY <1>7, <2>3 DEF PushArguments, TypeOK, StackAddr
  <2>5. SeenLive' = SeenLive
    <3>1. SeenLive = [a \in esp + 1 .. StackTop |-> mem[a]]
      BY <1>a, <2>1 DEF Views
    <3>2. SeenLive' = [a \in esp' + 8 .. StackTop |-> mem'[a]]
      BY <1>a, <2>1 DEF Views
    <3>3. \A a \in esp + 1 .. StackTop : a \in esp .. StackTop
      BY <2>2, StackAssumption
    <3> QED BY <2>2, <2>4, <3>1, <3>2, <3>3
  <2>6. mem'[esp' + 7] = mem[esp]
    BY <2>2, <2>3, <2>4 DEF StackAddr
  <2>7. UNCHANGED Atomic!vars
    BY <1>7, <1>a, <2>1, <2>2, <2>5, <2>6 DEF Views, PushArguments, Atomic!vars
  <2> QED BY <2>7
<1>8. CASE DispatchSyscall
  <2>1. mode = "DispatchSyscall" /\ SeenEip \in Int80At /\ SeenEsp >= HostRoom
        /\ Running = TRUE /\ SeenRegs = regs
    BY <1>8, <1>a, StackAssumption DEF DispatchSyscall, FrameOK, Views, TypeOK
  <2>2. SyscallId = regs["eax"] /\ SyscallId \in Word
    BY <2>1, WordAssumption DEF SyscallId, FrameOK, TypeOK, Register
  <2>3. ASSUME NEW result \in Word, NEW stack \in Stored \cup {mem},
               Returns(result, stack)
        PROVE  /\ Running' = TRUE /\ SeenRegs' \in [Register -> Word]
               /\ \A r \in CallSaved : SeenRegs'[r] = SeenRegs[r]
               /\ SeenRegs'["eax"] = result
               /\ SeenEip' = SeenEip + 2
               /\ SeenEsp' = SeenEsp
               /\ SeenLive' \in [SeenEsp .. StackTop -> Word]
               /\ stack = mem => SeenLive' = SeenLive
    <3>1. mode' = "epilogue" /\ esp' = esp
      BY <1>8, <2>3 DEF Returns, DispatchSyscall
    <3>2. regs' \in [Register -> Word] /\ regs'["eax"] = result
      BY <2>3 DEF Returns, TypeOK, Register
    <3>3. /\ mem'[esp + 1] = mem[esp + 1] /\ mem'[esp + 4] = mem[esp + 4]
          /\ mem'[esp + 5] = mem[esp + 5] /\ mem'[esp + 6] = mem[esp + 6]
          /\ mem'[esp + 7] = mem[esp + 7]
          /\ \A a \in esp + 8 .. StackTop : mem'[a] = stack[a] /\ stack[a] \in Word
      <4>1. PICK scratch \in [ScratchSlots -> HandlerWords] :
              mem' = [a \in StackAddr |-> IF a - esp \in ScratchSlots
                                            THEN scratch[a - esp] ELSE stack[a]]
        BY <2>3 DEF Returns
      <4>2. ASSUME NEW a \in StackAddr, a - esp \notin {0, 2, 3}
            PROVE  mem'[a] = stack[a]
        BY <4>1, <4>2, SlotAssumption
      <4>3. \A i \in {1, 4, 5, 6, 7} : /\ esp + i \in StackAddr
                                       /\ (esp + i) - esp = i
                                       /\ esp + i < esp + 8
        BY <2>1, StackAssumption DEF TypeOK, FrameOK, StackAddr
      <4>4. \A a \in esp + 8 .. StackTop : a \in StackAddr /\ a - esp >= 8
        BY DEF TypeOK, StackAddr
      <4>5. /\ stack \in [StackAddr -> Word]
            /\ \A a \in StackAddr : a < esp + 8 => stack[a] = mem[a]
        BY StoredBelow
      <4>6. \A i \in {1, 4, 5, 6, 7} : mem'[esp + i] = mem[esp + i]
        BY <4>2, <4>3, <4>5
      <4>7. \A a \in esp + 8 .. StackTop : a - esp \notin {0, 2, 3}
        BY <4>4 DEF TypeOK
      <4> QED BY <4>2, <4>4, <4>5, <4>6, <4>7
    <3>4. SeenRegs' \in [Register -> Word] /\ SeenRegs'["eax"] = result
          /\ \A r \in CallSaved : SeenRegs'[r] = SeenRegs[r]
      <4>1. SeenRegs' = [regs' EXCEPT !["ebx"] = mem'[esp + 1],
                                      !["esi"] = mem'[esp + 4],
                                      !["edi"] = mem'[esp + 5],
                                      !["ebp"] = mem'[esp + 6]]
        BY <1>a, <3>1 DEF Views
      <4>2. /\ mem[esp + 1] = regs["ebx"] /\ mem[esp + 4] = regs["esi"]
            /\ mem[esp + 5] = regs["edi"] /\ mem[esp + 6] = regs["ebp"]
        BY <2>1 DEF FrameOK
      <4>3. SeenRegs' = [regs' EXCEPT !["ebx"] = regs["ebx"],
                                      !["esi"] = regs["esi"],
                                      !["edi"] = regs["edi"],
                                      !["ebp"] = regs["ebp"]]
        BY <4>1, <4>2, <3>3
      <4> QED BY <4>3, <3>2, <2>1 DEF Register, CallSaved, TypeOK
    <3>5. /\ SeenEsp' = SeenEsp
          /\ SeenLive' \in [SeenEsp .. StackTop -> Word]
          /\ stack = mem => SeenLive' = SeenLive
      <4>1. SeenLive = [a \in esp + 8 .. StackTop |-> mem[a]]
            /\ SeenEsp = esp + 8
        BY <1>a, <2>1 DEF Views
      <4>2. SeenLive' = [a \in esp' + 8 .. StackTop |-> mem'[a]]
            /\ SeenEsp' = esp' + 8
        BY <1>a, <3>1 DEF Views
      <4> QED BY <3>1, <3>3, <4>1, <4>2
    <3>6. SeenEip' = SeenEip + 2
      <4>1. mem[esp + 7] \in Int
        <5>1. esp + 7 \in StackAddr
          BY <2>1, StackAssumption DEF FrameOK, TypeOK, StackAddr
        <5> QED BY <5>1, WordAssumption DEF TypeOK
      <4> QED BY <4>1, <1>a, <2>1, <3>1, <3>3 DEF Views
    <3> QED BY <1>a, <3>1, <3>4, <3>5, <3>6 DEF Views
  <2>4. CASE CallHandler
    <3>1. SyscallId \in 0 .. NSys - 1 /\ invoked' = <<SyscallId, Args>>
      BY <2>4 DEF CallHandler
    <3>2. Args = Atomic!Arguments(SeenRegs)
      <4>1. /\ mem[esp + 1] = regs["ebx"] /\ mem[esp + 2] = regs["ecx"]
            /\ mem[esp + 3] = regs["edx"] /\ mem[esp + 4] = regs["esi"]
            /\ mem[esp + 5] = regs["edi"] /\ mem[esp + 6] = regs["ebp"]
        BY <2>1 DEF FrameOK
      <4>2. \A i \in 1 .. 6 : mem[esp + i] = regs[Atomic!ArgOrder[i]]
        BY <4>1 DEF Atomic!ArgOrder
      <4> QED BY <4>2, <2>1 DEF Args, Atomic!Arguments
    <3>3. Atomic!Enter
      BY <2>1, <2>2, <3>1, <3>2 DEF Atomic!Enter, Atomic!Table
    <3>4. ASSUME NEW result \in Word, NEW stack \in Stored \cup {mem},
                 Returns(result, stack),
                 stack = mem \/ SyscallId \in Dereferencing,
                 SyscallId \in Implemented \/ result = ENOSYS
          PROVE  Atomic!Syscall
      <4>1. /\ Running' = TRUE /\ SeenRegs' \in [Register -> Word]
            /\ \A r \in CallSaved : SeenRegs'[r] = SeenRegs[r]
            /\ SeenRegs'["eax"] = result
            /\ SeenEip' = SeenEip + 2
            /\ SeenEsp' = SeenEsp
            /\ SeenLive' \in [SeenEsp .. StackTop -> Word]
            /\ stack = mem => SeenLive' = SeenLive
        BY <2>3, <3>4
      <4>2. IF SyscallId \in Dereferencing
              THEN SeenLive' \in [SeenEsp .. StackTop -> Word]
              ELSE SeenLive' = SeenLive
        BY <3>4, <4>1
      <4> QED BY <2>1, <2>2, <3>3, <3>4, <4>1, <4>2
                 DEF Atomic!Syscall, Atomic!Register, Register,
                     Atomic!CallSaved, CallSaved
    <3>5. CASE SyscallId \notin Implemented /\ Returns(ENOSYS, mem)
      <4>1. Atomic!Syscall
        BY <3>4, <3>5, WordAssumption
      <4> QED BY <4>1 DEF Atomic!Next
    <3>6. CASE \E result \in HandlerWords,
                  stack \in IF SyscallId \in Dereferencing THEN Stored ELSE {mem} :
                 SyscallId \in Implemented /\ Returns(result, stack)
      <4>1. PICK result \in HandlerWords,
                 stack \in IF SyscallId \in Dereferencing THEN Stored ELSE {mem} :
              SyscallId \in Implemented /\ Returns(result, stack)
        BY <3>6
      <4>2. /\ result \in Word /\ stack \in Stored \cup {mem}
            /\ stack = mem \/ SyscallId \in Dereferencing
        BY <4>1, WordAssumption
      <4>3. Atomic!Syscall
        BY <3>4, <4>1, <4>2
      <4> QED BY <4>3 DEF Atomic!Next
    <3>7. CASE SyscallId \in Dereferencing /\ mode' = "crashed"
      <4>1. Atomic!HandlerFaults
        BY <1>a, <2>2, <3>3, <3>7, <2>1
           DEF Views, Atomic!HandlerFaults, Atomic!Gone
      <4> QED BY <4>1 DEF Atomic!Next
    <3> QED BY <2>4, <3>5, <3>6, <3>7 DEF CallHandler
  <2>5. CASE ~ (SyscallId \in 0 .. NSys - 1) /\ UNCHANGED invoked
             /\ mode' \in {"exited", "crashed", "astray"}
    <3>1. Atomic!UndefinedSyscall
      BY <1>a, <2>1, <2>2, <2>5
         DEF Views, Atomic!UndefinedSyscall, Atomic!Table, Atomic!Gone
    <3> QED BY <3>1 DEF Atomic!Next
  <2>6. CASE CallOutsideTable
    BY <2>5, <2>6 DEF CallOutsideTable
  <2>7. CASE ~ Accepts(SyscallId) /\ mode' = "exited" /\ UNCHANGED invoked
    <3>1. SyscallId \notin 0 .. NSys - 1
      BY <2>7, TableAssumption DEF Accepts
    <3> QED BY <2>5, <2>7, <3>1
  <2> QED BY <1>8, <2>4, <2>6, <2>7 DEF DispatchSyscall
<1>9. CASE Epilogue
  <2>1. mode = "epilogue" /\ mode' = "guest" /\ esp' = esp + 8
        /\ regs' = SeenRegs /\ eip' = SeenEip /\ UNCHANGED <<mem, invoked>>
    BY <1>9, <1>a DEF Epilogue, Views
  <2>2. UNCHANGED Atomic!vars
    BY <1>a, <2>1 DEF Views, Atomic!vars
  <2> QED BY <2>2
<1>10. CASE UNCHANGED vars
  BY <1>10 DEF vars, Atomic!vars, Running, SeenRegs, SeenEsp, SeenEip, SeenLive
<1> QED
  BY <1>1, <1>2, <1>3, <1>4, <1>5, <1>6, <1>7, <1>8, <1>9, <1>10 DEF Next

\* The trap as a whole is one INT 80h for every number of the table: the
\* handler EAX names is entered with the program's arguments, and unless it
\* faults on a pointer it comes back with the call-saved registers and the
\* stack untouched, but for what it stores for the program, behind the
\* instruction.  Numbers outside the table are promised nothing.
THEOREM TrapIsAtomic == Spec => SyscallIsAtomic
<1>1. Spec => []Inv
  BY InitInv, NextInv, PTL DEF Spec
<1> QED
  BY <1>1, InitAtomic, NextAtomic, PTL DEF Spec, SyscallIsAtomic, Atomic!Spec
=============================================================================
