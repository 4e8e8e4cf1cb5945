----------------------------- MODULE VectoredIo -----------------------------
(***************************************************************************)
(* sys_read, sys_readv and sys_writev: one NtReadFile or NtWriteFile for   *)
(* each buffer, at the position of the stream, until one fails.  The two   *)
(* files differ in nothing else, so a transfer here is either.  Data is    *)
(* counted, not represented: pos is how far each stream has come.          *)
(*                                                                         *)
(* On a handle that whoever started the process has opened for             *)
(* asynchronous transfers, one may also succeed with STATUS_PENDING:       *)
(* nothing has moved, Iosb.Information is not set, and is counted all the  *)
(* same.  Transfers on that stream then queue behind the one that is late. *)
(* When it completes, its status goes to a block on the stack whose call   *)
(* has returned or is in its loop with that block; from there on the       *)
(* thread is astray, and not followed.                                     *)
(***************************************************************************)
EXTENDS Integers, Sequences

CONSTANTS
    FileDescriptor,   \* the numbers the program passes
    Length,           \* the lengths of its buffers
    MaxBuffers,       \* how many it passes at most
    Modulus,          \* SSIZE_T counts modulo this, 2^32
    Overlapped,       \* the streams whose handles are asynchronous
    Leftover,         \* what an Iosb.Information that nobody sets may hold
    MaxCalls          \* bound on the calls

EBADF == 9

ASSUME IoAssumption ==
    /\ FileDescriptor \subseteq Nat /\ Length \subseteq Nat
    /\ MaxBuffers \in Nat /\ MaxCalls \in Nat
    /\ Modulus \in Nat /\ Modulus > 2 * EBADF
    /\ Leftover \subseteq 0 .. Modulus - 1

Standard == {0, 1, 2}
Buffers == UNION {[1 .. n -> Length] : n \in 0 .. MaxBuffers}

VARIABLES
    handles,         \* the standard streams that have a handle
    pos,             \* bytes moved on each stream since the start
    fd, iov,         \* the arguments of the call
    CurrentBuffer,   \* the buffer that is next, 0 when no call is running
    TotalBytes,      \* a word
    Status,          \* of the call's last transfer
    result,          \* what the last call returned, as an int
    before,          \* pos when the call was made
    calls,           \* how many there were
    late,            \* the streams with a transfer that has not completed
    thread           \* astray once a late one has written to the stack

vars == <<handles, pos, fd, iov, CurrentBuffer, TotalBytes, Status, result,
          before, calls, late, thread>>

TypeOK ==
    /\ handles \subseteq Standard
    /\ pos \in [Standard -> Nat] /\ before \in [Standard -> Nat]
    /\ fd \in Nat
    /\ iov \in Seq(Nat)
    /\ CurrentBuffer \in 0 .. Len(iov) + 1
    /\ TotalBytes \in 0 .. Modulus - 1
    /\ Status \in {"unset", "success", "pending", "failed"}
    /\ result \in Int
    /\ calls \in Nat
    /\ late \subseteq Overlapped
    /\ thread \in {"running", "astray"}

Init ==
    /\ handles \in SUBSET Standard
    /\ pos = [f \in Standard |-> 0] /\ before = pos
    /\ fd = 0 /\ iov = <<>> /\ CurrentBuffer = 0
    /\ TotalBytes = 0 /\ Status = "unset" /\ result = 0 /\ calls = 0
    /\ late = {} /\ thread = "running"

\* TranslateFile: NULL for other numbers, and for a stream the process was
\* started without.
TranslateFile(f) == f \in handles

Call(f, v) ==
    /\ CurrentBuffer = 0 /\ calls < MaxCalls
    /\ fd' = f /\ iov' = v /\ before' = pos /\ calls' = calls + 1
    /\ Status' = "unset"
    /\ IF TranslateFile(f)
       THEN CurrentBuffer' = 1 /\ TotalBytes' = 0 /\ UNCHANGED result
       ELSE result' = -EBADF /\ UNCHANGED <<CurrentBuffer, TotalBytes>>
    /\ UNCHANGED <<handles, pos, late, thread>>

\* sys_read is sys_readv with one buffer.
Read(f, count) == Call(f, <<count>>)

\* Seeded fault: the sum counts what was asked for.
Sum_asked(total, n) == (total + iov[CurrentBuffer]) % Modulus
\* Seeded fault: the sum is kept in more than 32 bits.
Sum_wide(total, n) == total + n

Sum(total, n) == (total + n) % Modulus

\* The next buffer moves some of its bytes, or all, or (a length of 0, an
\* empty pipe) none.
Transfer ==
    /\ CurrentBuffer \in 1 .. Len(iov) /\ fd \notin late
    /\ \E n \in 0 .. iov[CurrentBuffer] :
          /\ pos' = [pos EXCEPT ![fd] = @ + n]
          /\ TotalBytes' = Sum(TotalBytes, n)
    /\ Status' = "success" /\ CurrentBuffer' = CurrentBuffer + 1
    /\ UNCHANGED <<handles, fd, iov, result, before, calls, late, thread>>

\* STATUS_PENDING: what Iosb.Information holds is from the stack.
Pends ==
    /\ CurrentBuffer \in 1 .. Len(iov) /\ fd \in Overlapped
    /\ \E information \in Leftover :
          TotalBytes' = Sum(TotalBytes, information)
    /\ late' = late \union {fd}
    /\ Status' = "pending" /\ CurrentBuffer' = CurrentBuffer + 1
    /\ UNCHANGED <<handles, pos, fd, iov, result, before, calls, thread>>

LateCompletes ==
    /\ late # {} /\ thread' = "astray"
    /\ UNCHANGED <<handles, pos, fd, iov, CurrentBuffer, TotalBytes, Status,
                   result, before, calls, late>>

\* Seeded fault: part of a buffer has moved when the error is returned.
Fail_late(n) == pos' = [pos EXCEPT ![fd] = @ + n]

Fail(n) == UNCHANGED pos

\* The end of a file is an error, too.
TransferFails ==
    /\ CurrentBuffer \in 1 .. Len(iov)
    /\ Fail(iov[CurrentBuffer])
    /\ Status' = "failed" /\ result' = -1 /\ CurrentBuffer' = 0
    /\ UNCHANGED <<handles, fd, iov, TotalBytes, before, calls, late, thread>>

AsInt(w) == IF 2 * w < Modulus THEN w ELSE w - Modulus

Return ==
    /\ CurrentBuffer > Len(iov)
    /\ result' = AsInt(TotalBytes) /\ CurrentBuffer' = 0
    /\ UNCHANGED <<handles, pos, fd, iov, TotalBytes, Status, before, calls,
                   late, thread>>

Next ==
    /\ thread = "running"
    /\ \/ \E f \in FileDescriptor : \/ \E v \in Buffers : Call(f, v)
                                    \/ \E n \in Length : Read(f, n)
       \/ Transfer \/ Pends \/ TransferFails \/ Return
       \/ LateCompletes

Spec == Init /\ [][Next]_vars

-----------------------------------------------------------------------------
Moved == IF fd \in Standard THEN pos[fd] - before[fd] ELSE 0
Returned == CurrentBuffer = 0 /\ calls > 0

\* What a call returns is the error of a transfer that failed, or exactly what
\* it has moved, as an int: a sum that has passed 2^31 is negative (less 2^32),
\* and a call that moves 2^32 bytes, for which its buffers have to overlap, may
\* return anything.  On other streams it moves nothing.  Nothing is said of a
\* stream with a transfer that has not completed (sys_read.c:44-66).
ResultIsCount ==
    Returned =>
        /\ \A f \in Standard : f # fd => pos[f] = before[f]
        /\ fd \notin handles => pos = before /\ result = -EBADF
        /\ fd \in handles /\ Status = "failed" => result = -1
        /\ fd \in handles \ late /\ Status # "failed" /\ Moved < Modulus =>
              result = AsInt(Moved)

\* An error means that nothing has moved, when there is one buffer that is
\* small enough for an int, and no transfer of the stream is late: read is all
\* or nothing, which readv and writev are not (an error in a later buffer hides
\* what the earlier ones moved).
ReadIsAtomic ==
    /\ Returned
    /\ Len(iov) = 1 /\ fd \notin late
    /\ 2 * iov[1] < Modulus
    /\ result < 0
    => pos = before
=============================================================================
