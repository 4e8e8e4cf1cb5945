------------------------------- MODULE X86Gs -------------------------------
(***************************************************************************)
(* What a processor does with a GS-relative instruction, decoded from its  *)
(* ModRM byte: the reference for the emulation in intercept.c.  Only forms *)
(* without a SIB byte and without a displacement next to a register (mod   *)
(* 00, rm other than 100) are described.  GS memory is addressed in double *)
(* words; a word counts modulo Modulus and its low byte modulo ByteModulus,*)
(* 2^32 and 2^8 on the processor.                                          *)
(***************************************************************************)
EXTENDS Integers

CONSTANTS Modulus, ByteModulus, BitXor(_, _)

VARIABLES
    regs,    \* the general registers by number
    gs,      \* the memory GS points to
    eip,
    flags,   \* [CF, ZF, SF]
    last     \* the instruction executed last

cpuVars == <<regs, gs, eip, flags, last>>

Word == 0 .. Modulus - 1
Register == 0 .. 7   \* eax, ecx, edx, ebx, esp, ebp, esi, edi

\* The parts of the ModRM byte.
Mod(i) == i.modrm \div 64
Reg(i) == (i.modrm \div 8) % 8
Rm(i)  == i.modrm % 8

Described(i) == Mod(i) = 0 /\ Rm(i) # 4
Absolute(i) == Rm(i) = 5

Effective(i) == IF Absolute(i) THEN i.disp ELSE regs[Rm(i)]

\* Prefix, opcode and ModRM, then a displacement of 4 when there is one.
Length(i) == IF Absolute(i) THEN 7 ELSE 3

Negative(w) == 2 * w >= Modulus

\* The flags of a comparison.
Difference(a, b) == [CF |-> a < b, ZF |-> a = b, SF |-> Negative((a - b) % Modulus)]

Load(r, a, n) ==
    /\ regs' = [regs EXCEPT ![r] = gs[a]] /\ eip' = (eip + n) % Modulus
    /\ UNCHANGED <<gs, flags>>
Store(a, w, n) ==
    /\ gs' = [gs EXCEPT ![a] = w] /\ eip' = (eip + n) % Modulus
    /\ UNCHANGED <<regs, flags>>

\* Instructions whose effect the flags are no part of.
Move(i) ==
    \/ i.op = 161 /\ Load(0, i.disp, 6)
    \/ i.op = 163 /\ Store(i.disp, regs[0], 6)
    \/ i.op = 139 /\ Described(i) /\ Load(Reg(i), Effective(i), Length(i))
    \/ i.op = 137 /\ Described(i) /\ Store(Effective(i), regs[Reg(i)], Length(i))
    \/ /\ i.op = 199 /\ Described(i) /\ Reg(i) = 0
       /\ Store(Effective(i), i.imm, Length(i) + 4)

Combine(i) ==
    /\ i.op = 51 /\ Described(i)
    /\ regs' = [regs EXCEPT ![Reg(i)] = BitXor(@, gs[Effective(i)])]
    /\ eip' = (eip + Length(i)) % Modulus /\ UNCHANGED gs

Compare(i) ==
    /\ i.op = 131 /\ Described(i) /\ Reg(i) = 7
    /\ eip' = (eip + Length(i) + 1) % Modulus /\ UNCHANGED <<regs, gs>>

\* The bytes decide the comparison: neither operand has higher ones.
InBytes(i) == gs[Effective(i)] < ByteModulus /\ 2 * i.imm < ByteModulus

\* The instruction executed has its effect on registers, memory and EIP, and
\* leaves ZF and CF as it should after a comparison of bytes.
Execute(i) ==
    /\ last' = i
    /\ \/ Move(i)
       \/ Combine(i)
       \/ /\ Compare(i)
          /\ InBytes(i) =>
                LET d == Difference(gs[Effective(i)], i.imm)
                IN  flags'.ZF = d.ZF /\ flags'.CF = d.CF

Spec == [][Execute(last')]_cpuVars
=============================================================================
