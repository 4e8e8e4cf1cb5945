----------------------------- MODULE MCNtHandle -----------------------------
EXTENDS NtHandle, TLC

\* Objects and values are compared and never looked into.
Permuted == Permutations(Object) \cup Permutations(Value)
=============================================================================
