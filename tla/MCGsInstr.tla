----------------------------- MODULE MCGsInstr -----------------------------
EXTENDS GsInstr, Bitwise

MCXor(a, b) == a ^^ b

\* The ModRM bytes the handler knows, then one more register (35 is xor esi),
\* a SIB form and a register form.
MCModRM == {5, 13, 21, 0, 61, 10, 16, 58, 53, 4, 192}

\* Every register holds another value, and so does every double word.
MCStartRegs == {[r \in Register |-> (3 * r + k) % Modulus] : k \in {0, 7}}
MCStartGs == {[a \in Word |-> (5 * a + k) % Modulus] : k \in {0, 3}}
=============================================================================
