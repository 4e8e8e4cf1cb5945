----------------------------- MODULE ByteStream -----------------------------
(***************************************************************************)
(* What read promises: each call hands over the bytes that come next on    *)
(* its stream, in order and without a gap, or none.  A byte is its         *)
(* position on the stream.                                                 *)
(***************************************************************************)
EXTENDS Naturals, Sequences

CONSTANT Standard   \* the streams

VARIABLES
    at,     \* how far each stream has been read
    got     \* what the last call handed over

vars == <<at, got>>

Init == at = [f \in Standard |-> 0] /\ got = <<>>

\* An error, the end of a file and an empty read hand over nothing.
Read(f) ==
    /\ got' = [i \in 1 .. Len(got') |-> at[f] + i]
    /\ at' = [at EXCEPT ![f] = @ + Len(got')]

Next == \E f \in Standard : Read(f)
=============================================================================
