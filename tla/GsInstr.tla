------------------------------ MODULE GsInstr ------------------------------
(***************************************************************************)
(* HandleGsIstruction in intercept.c: the instructions with a GS prefix it *)
(* emulates, each recognised by its opcode and, as a whole, its ModRM      *)
(* byte.  GSReadDword and GSWriteDWord are the memory gs; what segment     *)
(* they go through, and what happens without one, is in ThreadArea.  An    *)
(* instruction is the record of the bytes HandleGsIstruction may look at:  *)
(* PC[1], PC[2], the four bytes after the opcode or the ModRM byte, and    *)
(* the immediate.  imm is a byte in a comparison.                          *)
(***************************************************************************)
EXTENDS Integers

CONSTANTS
    Modulus, ByteModulus,   \* 2^32 and 2^8 in the code
    ModRM, Disp, Imm,       \* what the program's instructions are made of
    BitXor(_, _),              \* of two words, bit by bit
    StartRegs, StartGs,     \* what the registers and the segment hold at first
    MaxSteps                \* bound on the instructions executed

ASSUME WidthAssumption ==
    /\ Modulus \in Nat /\ ByteModulus \in 2 .. Modulus - 1
    /\ ModRM \subseteq 0 .. 255
    /\ Disp \subseteq 0 .. Modulus - 1 /\ Imm \subseteq 0 .. Modulus - 1

ASSUME XorAssumption ==
    \A a, b \in 0 .. Modulus - 1 : BitXor(a, b) \in 0 .. Modulus - 1

ASSUME StartAssumption ==
    /\ StartRegs \subseteq [0 .. 7 -> 0 .. Modulus - 1]
    /\ StartGs \subseteq [0 .. Modulus - 1 -> 0 .. Modulus - 1]

Word == 0 .. Modulus - 1
eax == 0
ecx == 1
edx == 2
edi == 7
Register == 0 .. 7

\* The opcodes the switch names, and one it does not.
Opcode == {51, 161, 163, 199, 131, 137, 139, 3}
Instruction == {i \in [op : Opcode, modrm : ModRM, disp : Disp, imm : Imm] :
                    i.op = 131 => i.imm < ByteModulus}

VARIABLES regs, gs, eip, flags, last, steps, status

vars == <<regs, gs, eip, flags, last, steps, status>>

NoInstruction == [op |-> 3, modrm |-> 0, disp |-> 0, imm |-> 0]

Init ==
    /\ regs \in StartRegs /\ gs \in StartGs /\ eip = 0
    /\ flags = [CF |-> FALSE, ZF |-> FALSE, SF |-> TRUE]
    /\ last = NoInstruction /\ steps = 0 /\ status = "running"

TypeOK ==
    /\ regs \in [Register -> Word]
    /\ gs \in [Word -> Word]
    /\ eip \in Word
    /\ flags \in [CF : BOOLEAN, ZF : BOOLEAN, SF : BOOLEAN]
    /\ last \in Instruction \union {NoInstruction}
    /\ status \in {"running", "exited", "faulted"}

(***************************************************************************)
(* The cases.  Each continues behind the instruction.                      *)
(***************************************************************************)
\* Seeded fault: EIP does not wrap around.
Continue_far(n) == eip' = eip + n

Continue(n) == eip' = (eip + n) % Modulus

\* Seeded fault: the register numbers follow the names' alphabet.
XorTarget_swapped == [b \in {21, 13, 5} |-> CASE b = 21 -> ecx [] b = 13 -> edx [] b = 5 -> eax]

XorTarget == [b \in {21, 13, 5} |-> CASE b = 21 -> edx [] b = 13 -> ecx [] b = 5 -> eax]

XorFromGs(i) ==
    /\ i.op = 51 /\ i.modrm \in DOMAIN XorTarget
    /\ regs' = [regs EXCEPT ![XorTarget[i.modrm]] = BitXor(@, gs[i.disp])]
    /\ Continue(7) /\ UNCHANGED <<gs, flags>>

MovEaxFromGs(i) ==
    /\ i.op = 161
    /\ regs' = [regs EXCEPT ![eax] = gs[i.disp]]
    /\ Continue(6) /\ UNCHANGED <<gs, flags>>

MovGsFromEax(i) ==
    /\ i.op = 163
    /\ gs' = [gs EXCEPT ![i.disp] = regs[eax]]
    /\ Continue(6) /\ UNCHANGED <<regs, flags>>

MovGsImmediate(i) ==
    /\ i.op = 199 /\ i.modrm = 0
    /\ gs' = [gs EXCEPT ![regs[eax]] = i.imm]
    /\ Continue(7) /\ UNCHANGED <<regs, flags>>

\* Only the low byte of the operand in memory is compared, and the sign flag
\* is cleared and never set.
CmpGsImmediate(i) ==
    /\ i.op = 131 /\ i.modrm = 61
    /\ LET A == gs[i.disp] % ByteModulus
           B == i.imm
       IN  flags' = [CF |-> B > A, ZF |-> B = A, SF |-> FALSE]
    /\ Continue(8) /\ UNCHANGED <<regs, gs>>

\* The registers of the operands [address, source], by ModRM byte.
StoreOperands == [b \in {10, 16} |-> IF b = 10 THEN <<edx, ecx>> ELSE <<eax, edx>>]

MovGsFromRegister(i) ==
    /\ i.op = 137 /\ i.modrm \in DOMAIN StoreOperands
    /\ LET o == StoreOperands[i.modrm] IN gs' = [gs EXCEPT ![regs[o[1]]] = regs[o[2]]]
    /\ Continue(3) /\ UNCHANGED <<regs, flags>>

\* [address, target]
LoadOperands == [b \in {58, 0} |-> IF b = 58 THEN <<edx, edi>> ELSE <<eax, eax>>]

MovRegisterFromGs(i) ==
    /\ i.op = 139 /\ i.modrm \in DOMAIN LoadOperands
    /\ LET o == LoadOperands[i.modrm] IN regs' = [regs EXCEPT ![o[2]] = gs[regs[o[1]]]]
    /\ Continue(3) /\ UNCHANGED <<gs, flags>>

(***************************************************************************)
(* The rest: exit(1) for another opcode, and for another ModRM byte of a   *)
(* known one the search for a handler goes on, which the program does not  *)
(* survive.                                                                *)
(***************************************************************************)
Known(i) == \/ i.op \in {161, 163}
            \/ i.op = 51 /\ i.modrm \in DOMAIN XorTarget
            \/ i.op = 199 /\ i.modrm = 0
            \/ i.op = 131 /\ i.modrm = 61
            \/ i.op = 137 /\ i.modrm \in DOMAIN StoreOperands
            \/ i.op = 139 /\ i.modrm \in DOMAIN LoadOperands

Unhandled(i) ==
    /\ ~Known(i)
    /\ status' = IF i.op = 3 THEN "exited" ELSE "faulted"
    /\ UNCHANGED <<regs, gs, eip, flags, last, steps>>

Emulate(i) ==
    /\ \/ XorFromGs(i) \/ MovEaxFromGs(i) \/ MovGsFromEax(i) \/ MovGsImmediate(i)
       \/ CmpGsImmediate(i) \/ MovGsFromRegister(i) \/ MovRegisterFromGs(i)
    /\ last' = i /\ steps' = steps + 1 /\ status' = status

Next == /\ status = "running" /\ steps < MaxSteps
        /\ \E i \in Instruction : Emulate(i) \/ Unhandled(i)

Spec == Init /\ [][Next]_vars

-----------------------------------------------------------------------------
X86 == INSTANCE X86Gs

\* Every instruction the handler resumes behind has done to registers, memory
\* and EIP what the processor does when it decodes the ModRM byte, and after
\* a comparison of bytes ZF and CF are right (intercept.c:47-194).
EmulatesData == X86!Spec
=============================================================================
