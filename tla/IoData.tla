-------------------------------- MODULE IoData --------------------------------
(***************************************************************************)
(* VectoredIo with the data: which byte of the stream each call exchanges  *)
(* with which cell of the program's buffers.  A byte is its position on    *)
(* the stream, counted from 1.                                             *)
(***************************************************************************)
EXTENDS VectoredIo

VARIABLE memory   \* the bytes in the call's buffers, 0 where there is none

dataVars == <<vars, memory>>

DataInit == Init /\ memory = <<>>

DataCall(f, v) ==
    /\ Call(f, v)
    /\ memory' = [k \in 1 .. Len(v) |-> [c \in 1 .. v[k] |-> 0]]

\* Seeded fault: every transfer uses the first buffer.
iov_base_first(k) == 1

\* The buffer that the k-th transfer fills from its start.
iov_base(k) == k

\* NtReadFile and NtWriteFile.
DataTransfer ==
    /\ Transfer
    /\ memory' = [memory EXCEPT ![iov_base(CurrentBuffer)] =
                    [c \in 1 .. iov[CurrentBuffer] |->
                        IF c <= pos'[fd] - pos[fd] THEN pos[fd] + c ELSE 0]]

DataNext ==
    /\ thread = "running"
    /\ \/ \E f \in FileDescriptor : \/ \E v \in Buffers : DataCall(f, v)
                                    \/ \E n \in Length : DataCall(f, <<n>>)
       \/ DataTransfer
       \/ (Pends \/ TransferFails \/ Return \/ LateCompletes) /\ UNCHANGED memory

DataSpec == DataInit /\ [][DataNext]_dataVars
-----------------------------------------------------------------------------
\* The c-th byte of the k-th buffer.
Cells == UNION {{k} \X DOMAIN memory[k] : k \in DOMAIN memory}
Byte(x) == memory[x[1]][x[2]]
Filled == {x \in Cells : Byte(x) # 0}

\* The buffers lie one behind another.
Before(x, y) == x[1] < y[1] \/ (x[1] = y[1] /\ x[2] < y[2])

Position == IF fd \in Standard THEN pos[fd] ELSE 0
Start == IF fd \in Standard THEN before[fd] ELSE 0

\* Whatever transfers were short, failed or are late, each byte the call has
\* moved is in one cell, no other is, and they are in the order of the stream
\* (sys_read.c:44-64).
EachByteOnce ==
    calls > 0 =>
        /\ {Byte(x) : x \in Filled} = Start + 1 .. Position
        /\ \A x, y \in Filled : Before(x, y) => Byte(x) < Byte(y)

\* If every buffer but the last one was filled and no transfer is late, the
\* bytes that are counted are the first ones of the buffers, and nothing lies
\* behind the count: a buffer that is exhausted is the only reason to go on to
\* the next that leaves no hole (sys_read.c:58, 66).
CountedAreFirst ==
    /\ Returned /\ result >= 0 /\ Position - Start < Modulus
    /\ fd \notin late
    /\ \A x \in Cells : x[1] < Len(iov) => x \in Filled
    => /\ \A x \in Cells, y \in Filled : Before(x, y) => x \in Filled
       /\ {Byte(x) : x \in Filled} = Start + 1 .. Start + result

\* A call with one buffer, of a length that an int can count.
Plain == Len(iov) = 1 /\ 2 * iov[1] < Modulus

\* What the program takes from such a call: nothing if its transfer is late.
Taken == IF CurrentBuffer = 0 /\ Plain /\ fd \notin late /\ result > 0
         THEN [c \in 1 .. result |-> memory[1][c]] ELSE <<>>

Stream == INSTANCE ByteStream WITH
    at  <- IF CurrentBuffer = 0 THEN pos ELSE before,
    got <- Taken

\* Such calls hand over the stream without a gap and in order, failures
\* included, whatever calls with more buffers come between them, until a
\* transfer on the stream is late: the result of that one counts for nothing
\* (sys_read.c:70-80).
ReadIsStream == Stream!Init /\ [][Plain' => Stream!Next]_(Stream!vars)
=============================================================================
