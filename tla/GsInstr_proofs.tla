--------------------------- MODULE GsInstr_proofs ---------------------------
(***************************************************************************)
(* Each case of HandleGsIstruction does what the processor does, for every *)
(* width of words and bytes, every displacement and immediate and every    *)
(* content of registers and memory, and whatever xor is.  The argument is  *)
(* case by case: the parts of the ModRM byte that the code compares as a   *)
(* whole name the registers that the case uses.                            *)
(***************************************************************************)
EXTENDS GsInstr, TLAPS

LEMMA WordFacts ==
  /\ Modulus \in Nat \ {0} /\ 0 \in Word /\ Word \subseteq Nat
  /\ eax \in Register /\ ecx \in Register /\ edx \in Register /\ edi \in Register
  BY WidthAssumption DEF Word, Register, eax, ecx, edx, edi

LEMMA InstructionFacts ==
  ASSUME NEW i \in Instruction
  PROVE  i.op \in Opcode /\ i.modrm \in 0 .. 255 /\ i.disp \in Word /\ i.imm \in Word
  BY WidthAssumption DEF Instruction, Word

LEMMA InitTypeOK == Init => TypeOK
<1> SUFFICES ASSUME Init PROVE TypeOK
  OBVIOUS
<1>1. regs \in [Register -> Word] /\ gs \in [Word -> Word]
  BY StartAssumption DEF Init, Word, Register
<1>2. flags \in [CF : BOOLEAN, ZF : BOOLEAN, SF : BOOLEAN]
  BY DEF Init
<1> QED BY <1>1, <1>2, WordFacts DEF Init, TypeOK

LEMMA ContinueInWord ==
  ASSUME TypeOK, NEW n \in Nat, Continue(n) PROVE eip' \in Word
  BY WordFacts DEF TypeOK, Continue, Word

\* The registers the cases name.
LEMMA NamedRegisters ==
  /\ \A b \in DOMAIN XorTarget : XorTarget[b] \in Register
  /\ \A b \in DOMAIN StoreOperands : /\ StoreOperands[b][1] \in Register
                                     /\ StoreOperands[b][2] \in Register
  /\ \A b \in DOMAIN LoadOperands : /\ LoadOperands[b][1] \in Register
                                    /\ LoadOperands[b][2] \in Register
<1>1. \A b \in DOMAIN XorTarget : XorTarget[b] \in Register
  BY WordFacts DEF XorTarget
<1>2. \A b \in DOMAIN StoreOperands : StoreOperands[b] = IF b = 10 THEN <<edx, ecx>> ELSE <<eax, edx>>
  BY DEF StoreOperands
<1>3. \A b \in DOMAIN LoadOperands : LoadOperands[b] = IF b = 58 THEN <<edx, edi>> ELSE <<eax, eax>>
  BY DEF LoadOperands
<1> QED BY <1>1, <1>2, <1>3, WordFacts

LEMMA EmulateTypeOK ==
  ASSUME TypeOK, NEW i \in Instruction, Emulate(i)
  PROVE  TypeOK'
<1>1. last' = i /\ status' = status
  BY DEF Emulate
<1>2. eip' \in Word
  BY ContinueInWord DEF Emulate, XorFromGs, MovEaxFromGs, MovGsFromEax, MovGsImmediate,
                        CmpGsImmediate, MovGsFromRegister, MovRegisterFromGs
<1>3. i.disp \in Word /\ i.imm \in Word
  BY InstructionFacts
<1>4. \A r \in Register, w \in Word : /\ regs[r] \in Word /\ gs[w] \in Word
                                       /\ [regs EXCEPT ![r] = w] \in [Register -> Word]
  BY DEF TypeOK
<1>5. \A a, w \in Word : [gs EXCEPT ![a] = w] \in [Word -> Word]
  BY DEF TypeOK
<1>6. regs \in [Register -> Word] /\ gs \in [Word -> Word]
  BY DEF TypeOK
<1>7. regs' \in [Register -> Word] /\ gs' \in [Word -> Word]
  <2>1. CASE XorFromGs(i)
    <3> DEFINE r == XorTarget[i.modrm]
    <3>1. r \in Register
      BY <2>1, NamedRegisters DEF XorFromGs
    <3>2. BitXor(regs[r], gs[i.disp]) \in Word
      BY <1>3, <1>4, <3>1, XorAssumption DEF Word
    <3> QED BY <1>4, <1>6, <2>1, <3>1, <3>2 DEF XorFromGs
  <2>2. CASE MovEaxFromGs(i)
    BY <1>3, <1>4, <1>6, <2>2, WordFacts DEF MovEaxFromGs
  <2>3. CASE MovGsFromEax(i)
    BY <1>3, <1>4, <1>5, <1>6, <2>3, WordFacts DEF MovGsFromEax
  <2>4. CASE MovGsImmediate(i)
    BY <1>3, <1>4, <1>5, <1>6, <2>4, WordFacts DEF MovGsImmediate
  <2>5. CASE CmpGsImmediate(i)
    BY <1>6, <2>5 DEF CmpGsImmediate
  <2>6. CASE MovGsFromRegister(i)
    BY <1>4, <1>5, <1>6, <2>6, NamedRegisters DEF MovGsFromRegister
  <2>7. CASE MovRegisterFromGs(i)
    BY <1>4, <1>6, <2>7, NamedRegisters DEF MovRegisterFromGs
  <2> QED BY <2>1, <2>2, <2>3, <2>4, <2>5, <2>6, <2>7 DEF Emulate
<1>8. flags' \in [CF : BOOLEAN, ZF : BOOLEAN, SF : BOOLEAN]
  <2>1. CASE CmpGsImmediate(i)
    BY <2>1 DEF CmpGsImmediate
  <2>2. CASE ~CmpGsImmediate(i)
    <3>1. flags' = flags
      BY <2>2 DEF Emulate, XorFromGs, MovEaxFromGs, MovGsFromEax, MovGsImmediate,
                  MovGsFromRegister, MovRegisterFromGs
    <3> QED BY <3>1 DEF TypeOK
  <2> QED BY <2>1, <2>2
<1> QED BY <1>1, <1>2, <1>7, <1>8 DEF TypeOK

LEMMA NextTypeOK == TypeOK /\ [Next]_vars => TypeOK'
<1> SUFFICES ASSUME TypeOK, [Next]_vars PROVE TypeOK'
  OBVIOUS
<1>1. ASSUME NEW i \in Instruction, Emulate(i) PROVE TypeOK'
  BY <1>1, EmulateTypeOK
<1>2. ASSUME NEW i \in Instruction, Unhandled(i) PROVE TypeOK'
  BY <1>2 DEF Unhandled, TypeOK
<1>3. CASE UNCHANGED vars
  BY <1>3 DEF vars, TypeOK
<1> QED BY <1>1, <1>2, <1>3 DEF Next

\* Registers, memory and EIP stay words through every emulated instruction
\* (intercept.c:47-194).
THEOREM TypeCorrect == Spec => []TypeOK
  BY InitTypeOK, NextTypeOK, PTL DEF Spec
-----------------------------------------------------------------------------
\* The ModRM bytes of the cases, taken apart.
LEMMA ModRMParts ==
  ASSUME NEW i
  PROVE  /\ i.modrm = 21 => X86!Described(i) /\ X86!Absolute(i) /\ X86!Reg(i) = 2
         /\ i.modrm = 13 => X86!Described(i) /\ X86!Absolute(i) /\ X86!Reg(i) = 1
         /\ i.modrm = 5  => X86!Described(i) /\ X86!Absolute(i) /\ X86!Reg(i) = 0
         /\ i.modrm = 61 => X86!Described(i) /\ X86!Absolute(i) /\ X86!Reg(i) = 7
         /\ i.modrm = 0  => X86!Described(i) /\ X86!Rm(i) = 0 /\ X86!Reg(i) = 0
         /\ i.modrm = 10 => X86!Described(i) /\ X86!Rm(i) = 2 /\ X86!Reg(i) = 1
         /\ i.modrm = 16 => X86!Described(i) /\ X86!Rm(i) = 0 /\ X86!Reg(i) = 2
         /\ i.modrm = 58 => X86!Described(i) /\ X86!Rm(i) = 2 /\ X86!Reg(i) = 7
  BY DEF X86!Described, X86!Absolute, X86!Mod, X86!Rm, X86!Reg

LEMMA Operands ==
  ASSUME NEW i
  PROVE  /\ X86!Absolute(i) => X86!Effective(i) = i.disp /\ X86!Length(i) = 7
         /\ X86!Rm(i) \in {0, 2} => X86!Effective(i) = regs[X86!Rm(i)] /\ X86!Length(i) = 3
  BY DEF X86!Absolute, X86!Effective, X86!Length

LEMMA XorExecutes ==
  ASSUME NEW i, XorFromGs(i) PROVE X86!Combine(i)
<1>1. i.op = 51 /\ i.modrm \in {21, 13, 5} /\ Continue(7) /\ UNCHANGED gs
  BY DEF XorFromGs, XorTarget
<1>2. XorTarget[i.modrm] = X86!Reg(i)
  BY <1>1, ModRMParts DEF XorTarget, eax, ecx, edx
<1>3. X86!Described(i) /\ X86!Effective(i) = i.disp /\ X86!Length(i) = 7
  BY <1>1, ModRMParts, Operands
<1> QED BY <1>1, <1>2, <1>3 DEF XorFromGs, X86!Combine, Continue

LEMMA MovesExecute ==
  ASSUME NEW i, \/ MovEaxFromGs(i) \/ MovGsFromEax(i) \/ MovGsImmediate(i)
                \/ MovGsFromRegister(i) \/ MovRegisterFromGs(i)
  PROVE  X86!Move(i)
<1> USE DEF X86!Move
<1>1. CASE MovEaxFromGs(i)
  BY <1>1 DEF MovEaxFromGs, X86!Load, Continue, eax
<1>2. CASE MovGsFromEax(i)
  BY <1>2 DEF MovGsFromEax, X86!Store, Continue, eax
<1>3. CASE MovGsImmediate(i)
  <2>1. X86!Described(i) /\ X86!Reg(i) = 0 /\ X86!Effective(i) = regs[0] /\ X86!Length(i) = 3
    BY <1>3, ModRMParts, Operands DEF MovGsImmediate
  <2> QED BY <1>3, <2>1 DEF MovGsImmediate, X86!Store, Continue, eax
<1>4. CASE MovGsFromRegister(i)
  <2>1. i.modrm \in {10, 16}
    BY <1>4 DEF MovGsFromRegister, StoreOperands
  <2>2. /\ X86!Described(i) /\ X86!Length(i) = 3
        /\ StoreOperands[i.modrm][1] = X86!Rm(i) /\ X86!Effective(i) = regs[X86!Rm(i)]
        /\ StoreOperands[i.modrm][2] = X86!Reg(i)
    BY <2>1, ModRMParts, Operands DEF StoreOperands, eax, ecx, edx
  <2> QED BY <1>4, <2>2 DEF MovGsFromRegister, X86!Store, Continue
<1>5. CASE MovRegisterFromGs(i)
  <2>1. i.modrm \in {58, 0}
    BY <1>5 DEF MovRegisterFromGs, LoadOperands
  <2>2. /\ X86!Described(i) /\ X86!Length(i) = 3
        /\ LoadOperands[i.modrm][1] = X86!Rm(i) /\ X86!Effective(i) = regs[X86!Rm(i)]
        /\ LoadOperands[i.modrm][2] = X86!Reg(i)
    BY <2>1, ModRMParts, Operands DEF LoadOperands, eax, edx, edi
  <2> QED BY <1>5, <2>2 DEF MovRegisterFromGs, X86!Load, Continue
<1> QED BY <1>1, <1>2, <1>3, <1>4, <1>5

LEMMA SmallMod ==
  ASSUME NEW a \in Nat, NEW m \in Nat, a < m PROVE a % m = a
  OBVIOUS

\* A byte below ByteModulus is all of its word.
LEMMA CmpExecutes ==
  ASSUME TypeOK, NEW i \in Instruction, CmpGsImmediate(i)
  PROVE  /\ X86!Compare(i)
         /\ X86!InBytes(i) =>
              LET d == X86!Difference(gs[X86!Effective(i)], i.imm)
              IN  flags'.ZF = d.ZF /\ flags'.CF = d.CF
<1>1. i.op = 131 /\ i.modrm = 61 /\ Continue(8) /\ UNCHANGED <<regs, gs>>
  BY DEF CmpGsImmediate
<1>2. /\ X86!Described(i) /\ X86!Reg(i) = 7
      /\ X86!Effective(i) = i.disp /\ X86!Length(i) = 7
  BY <1>1, ModRMParts, Operands
<1>3. X86!Compare(i)
  <2>1. (eip + 7) + 1 = eip + 8
    BY WordFacts DEF TypeOK
  <2> QED BY <1>1, <1>2, <2>1 DEF X86!Compare, Continue
<1>4. ASSUME X86!InBytes(i)
      PROVE  flags' = [CF |-> i.imm > gs[i.disp], ZF |-> i.imm = gs[i.disp], SF |-> FALSE]
  <2>1. gs[i.disp] \in Word /\ gs[i.disp] < ByteModulus
    BY <1>2, <1>4, InstructionFacts DEF TypeOK, X86!InBytes
  <2>2. gs[i.disp] \in Nat /\ ByteModulus \in Nat
    BY <2>1, WidthAssumption DEF Word
  <2>3. gs[i.disp] % ByteModulus = gs[i.disp]
    BY ONLY <2>1, <2>2, SmallMod
  <2> QED BY <2>3 DEF CmpGsImmediate
<1>5. i.imm \in Int /\ gs[i.disp] \in Int
  BY InstructionFacts, WidthAssumption DEF TypeOK, Word
<1> QED BY <1>2, <1>3, <1>4, <1>5 DEF X86!Difference

LEMMA EmulateExecutes ==
  ASSUME TypeOK, NEW i \in Instruction, Emulate(i)
  PROVE  X86!Execute(last')
<1>1. last' = i
  BY DEF Emulate
<1>2. X86!Execute(i)
  BY <1>1, XorExecutes, MovesExecute, CmpExecutes DEF Emulate, X86!Execute
<1> QED BY <1>1, <1>2

\* Each instruction the handler resumes behind has done to registers, memory
\* and EIP, and to ZF and CF after a comparison of bytes, what the processor
\* does (intercept.c:47-194).
THEOREM DataIsEmulated == Spec => EmulatesData
<1>1. TypeOK /\ [Next]_vars => [X86!Execute(last')]_(X86!cpuVars)
  <2> SUFFICES ASSUME TypeOK, [Next]_vars
               PROVE  X86!Execute(last') \/ UNCHANGED X86!cpuVars
    OBVIOUS
  <2>1. ASSUME NEW i \in Instruction, Emulate(i) PROVE X86!Execute(last')
    BY <2>1, EmulateExecutes
  <2>2. ASSUME NEW i \in Instruction, Unhandled(i) PROVE UNCHANGED X86!cpuVars
    BY <2>2 DEF Unhandled, X86!cpuVars
  <2>3. CASE UNCHANGED vars
    BY <2>3 DEF vars, X86!cpuVars
  <2> QED BY <2>1, <2>2, <2>3 DEF Next
<1> QED BY <1>1, TypeCorrect, PTL DEF Spec, EmulatesData, X86!Spec
=============================================================================
