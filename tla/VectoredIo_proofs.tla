-------------------------- MODULE VectoredIo_proofs --------------------------
(***************************************************************************)
(* What read, readv and writev report, for buffers of any number and       *)
(* length.  While a call runs, TotalBytes is what it has moved, cut to a   *)
(* word, unless a transfer of its stream is late, and a call with one      *)
(* buffer has moved nothing before that buffer, or if it is late.          *)
(* With the data (DataSpec), that buffer holds what the call has moved.    *)
(***************************************************************************)
EXTENDS IoData, SequenceTheorems, TLAPS

MovedOnlyHere == \A f \in Standard : /\ before[f] <= pos[f]
                                     /\ f # fd => pos[f] = before[f]

TotalIsMoved == CurrentBuffer > 0 =>
    /\ calls > 0 /\ fd \in handles /\ Status # "failed"
    /\ fd \notin late => TotalBytes = Moved % Modulus

OneBuffer == Len(iov) = 1 =>
    /\ CurrentBuffer = 1 => Moved = 0
    /\ CurrentBuffer = 2 => Moved <= iov[1]
    /\ CurrentBuffer > 0 /\ fd \in late => Moved = 0

IInv == /\ TypeOK /\ MovedOnlyHere /\ TotalIsMoved /\ OneBuffer
        /\ ResultIsCount /\ ReadIsAtomic

LEMMA ModSum ==
  ASSUME NEW a \in Nat, NEW n \in Nat
  PROVE  /\ a % Modulus \in 0 .. Modulus - 1
         /\ ((a % Modulus) + n) % Modulus = (a + n) % Modulus
         /\ a < Modulus => a % Modulus = a
<1> USE IoAssumption DEF EBADF
<1>1. \A x \in Nat : /\ x % Modulus \in 0 .. Modulus - 1
                     /\ x \div Modulus \in Nat
                     /\ x = Modulus * (x \div Modulus) + (x % Modulus)
  OBVIOUS
<1>2. \A q \in Nat, r \in 0 .. Modulus - 1 : (Modulus * q + r) % Modulus = r
  OBVIOUS
<1> DEFINE r == a % Modulus
           q == a \div Modulus
           s == (r + n) % Modulus
           p == (r + n) \div Modulus
<1>3. /\ q \in Nat /\ r \in 0 .. Modulus - 1 /\ a = Modulus * q + r
      /\ p \in Nat /\ s \in 0 .. Modulus - 1 /\ r + n = Modulus * p + s
  BY <1>1
<1>4. s = (a + n) % Modulus
  <2> HIDE DEF q, r, s, p
  <2>1. a + n = Modulus * (q + p) + s /\ q + p \in Nat
    BY <1>3
  <2> QED BY <2>1, <1>2, <1>3
<1>5. a < Modulus => a % Modulus = a
  OBVIOUS
<1> QED BY <1>1, <1>4, <1>5

LEMMA InitIInv == Init => IInv
<1> SUFFICES ASSUME Init PROVE IInv
  OBVIOUS
<1>1. TypeOK
  <2>1. iov = <<>> /\ Len(iov) = 0 /\ iov \in Seq(Nat)
    BY DEF Init
  <2> QED BY <2>1, IoAssumption DEF Init, TypeOK, EBADF
<1>2. MovedOnlyHere /\ TotalIsMoved /\ OneBuffer /\ ResultIsCount /\ ReadIsAtomic
  BY DEF Init, MovedOnlyHere, TotalIsMoved, OneBuffer, ResultIsCount, ReadIsAtomic, Returned
<1> QED BY <1>1, <1>2 DEF IInv

LEMMA CallStep ==
  ASSUME IInv, NEW f \in FileDescriptor, NEW v \in Seq(Nat), Call(f, v)
  PROVE  IInv'
<1> USE DEF IInv
<1>1. /\ fd' = f /\ iov' = v /\ before' = pos /\ pos' = pos /\ handles' = handles
      /\ calls' = calls + 1 /\ CurrentBuffer = 0 /\ Status' = "unset"
      /\ late' = late /\ thread' = thread
      /\ f \in Nat /\ Len(v) \in Nat /\ TypeOK
  BY IoAssumption DEF Call
<1>2. \A g \in Standard : pos[g] \in Nat
  BY <1>1 DEF TypeOK
<1>3. CASE TranslateFile(f)
  <2>1. CurrentBuffer' = 1 /\ TotalBytes' = 0 /\ result' = result /\ f \in handles
        /\ f \in Standard
    BY <1>1, <1>3 DEF Call, TranslateFile, TypeOK
  <2>2. TypeOK'
    BY <1>1, <2>1, IoAssumption DEF TypeOK, EBADF
  <2>3. Moved' = 0
    BY <1>1, <1>2, <2>1 DEF Moved
  <2>4. 0 % Modulus = 0
    BY ModSum, IoAssumption DEF EBADF
  <2>5. TotalIsMoved'
    BY <1>1, <2>1, <2>3, <2>4 DEF TotalIsMoved, TypeOK
  <2>6. MovedOnlyHere' /\ OneBuffer' /\ ResultIsCount' /\ ReadIsAtomic'
    BY <1>1, <1>2, <2>1, <2>3 DEF MovedOnlyHere, OneBuffer, ResultIsCount, ReadIsAtomic, Returned
  <2> QED BY <2>2, <2>5, <2>6
<1>4. CASE ~TranslateFile(f)
  <2>1. CurrentBuffer' = 0 /\ TotalBytes' = TotalBytes /\ result' = -EBADF
    BY <1>1, <1>4 DEF Call
  <2>2. TypeOK'
    BY <1>1, <2>1 DEF TypeOK, EBADF
  <2>3. MovedOnlyHere' /\ TotalIsMoved' /\ OneBuffer' /\ ReadIsAtomic'
    BY <1>1, <1>2, <2>1 DEF MovedOnlyHere, TotalIsMoved, OneBuffer, ReadIsAtomic
  <2>4. ResultIsCount'
    BY <1>1, <1>4, <2>1 DEF ResultIsCount, TranslateFile
  <2> QED BY <2>2, <2>3, <2>4
<1> QED BY <1>3, <1>4

LEMMA TransferStep == IInv /\ Transfer => IInv'
<1> SUFFICES ASSUME IInv, Transfer PROVE IInv'
  OBVIOUS
<1> USE DEF IInv
<1>1. PICK n \in 0 .. iov[CurrentBuffer] :
        /\ pos' = [pos EXCEPT ![fd] = @ + n]
        /\ TotalBytes' = (TotalBytes + n) % Modulus
  BY DEF Transfer, Sum
<1>2. /\ CurrentBuffer \in 1 .. Len(iov) /\ CurrentBuffer' = CurrentBuffer + 1
      /\ UNCHANGED <<handles, fd, iov, result, before, calls, late, thread>>
      /\ Status' = "success" /\ fd \notin late
      /\ TypeOK /\ Len(iov) \in Nat
  BY DEF Transfer, TypeOK
<1>3. iov[CurrentBuffer] \in Nat /\ n \in Nat /\ CurrentBuffer > 0
  BY <1>1, <1>2 DEF TypeOK
<1>4. fd \in handles /\ fd \in Standard /\ calls > 0 /\ TotalBytes = Moved % Modulus
  BY <1>2, <1>3 DEF TotalIsMoved, TypeOK
<1>5. /\ pos[fd] \in Nat /\ before[fd] \in Nat /\ before[fd] <= pos[fd]
      /\ pos'[fd] = pos[fd] + n
      /\ \A f \in Standard : f # fd => pos'[f] = pos[f]
  BY <1>1, <1>2, <1>4 DEF TypeOK, MovedOnlyHere
<1>6. Moved \in Nat /\ Moved' = Moved + n
  <2>1. /\ Moved = pos[fd] - before[fd] /\ Moved' = pos'[fd] - before[fd]
    BY <1>2, <1>4 DEF Moved
  <2> QED BY ONLY <2>1, <1>3, <1>5
<1>7. TotalBytes' = Moved' % Modulus /\ TotalBytes' \in 0 .. Modulus - 1
  <2>1. ((Moved % Modulus) + n) % Modulus = (Moved + n) % Modulus
    BY <1>3, <1>6, ModSum
  <2>2. (Moved + n) % Modulus \in 0 .. Modulus - 1
    <3>1. Moved + n \in Nat
      BY <1>3, <1>6
    <3> QED BY <3>1, ModSum
  <2> QED BY <1>1, <1>4, <1>6, <2>1, <2>2
<1>8. TypeOK'
  <2>1. pos' \in [Standard -> Nat]
    <3>1. pos \in [Standard -> Nat] /\ pos[fd] + n \in Nat
      BY <1>2, <1>3, <1>5 DEF TypeOK
    <3> QED BY <1>1, <3>1
  <2>2. CurrentBuffer' \in 0 .. Len(iov) + 1
    BY <1>2
  <2> QED BY <1>2, <1>7, <2>1, <2>2 DEF TypeOK
<1>9. MovedOnlyHere' /\ TotalIsMoved'
  <2>1. /\ \A f \in Standard : before[f] <= pos[f] /\ (f # fd => pos[f] = before[f])
        /\ before' = before /\ fd' = fd
    BY <1>2 DEF MovedOnlyHere
  <2>2. before[fd] <= pos'[fd]
    BY ONLY <1>3, <1>5
  <2>3. MovedOnlyHere'
    BY ONLY <2>1, <2>2, <1>5 DEF MovedOnlyHere
  <2> QED BY <2>3, <1>2, <1>4, <1>7 DEF TotalIsMoved
<1>10. OneBuffer'
  <2>1. ASSUME Len(iov) = 1 PROVE CurrentBuffer = 1 /\ Moved = 0 /\ Moved' <= iov[1]
    BY <2>1, <1>1, <1>2, <1>3, <1>6 DEF OneBuffer
  <2> QED BY <2>1, <1>2 DEF OneBuffer
<1>11. ResultIsCount' /\ ReadIsAtomic'
  BY <1>2 DEF ResultIsCount, ReadIsAtomic, Returned
<1> QED BY <1>8, <1>9, <1>10, <1>11

LEMMA TransferFailsStep == IInv /\ TransferFails => IInv'
<1> SUFFICES ASSUME IInv, TransferFails PROVE IInv'
  OBVIOUS
<1> USE DEF IInv
<1>1. /\ CurrentBuffer \in 1 .. Len(iov) /\ CurrentBuffer' = 0 /\ result' = -1
      /\ UNCHANGED <<handles, pos, fd, iov, TotalBytes, before, calls, late, thread>>
      /\ Status' = "failed"
      /\ TypeOK
  BY DEF TransferFails, Fail
<1>2. fd \in handles /\ fd \in Standard /\ Moved' = Moved
  BY <1>1 DEF TotalIsMoved, Moved, TypeOK
<1>3. TypeOK'
  BY <1>1 DEF TypeOK
<1>6. MovedOnlyHere' /\ TotalIsMoved' /\ OneBuffer'
  BY <1>1 DEF MovedOnlyHere, TotalIsMoved, OneBuffer
<1>4. ResultIsCount'
  BY <1>1, <1>2 DEF ResultIsCount, MovedOnlyHere
<1>5. ReadIsAtomic'
  <2>1. SUFFICES ASSUME Len(iov) = 1 PROVE pos = before
    BY <1>1 DEF ReadIsAtomic
  <2>2. Moved = 0
    BY <1>1, <2>1 DEF OneBuffer
  <2>3. \A f \in Standard : pos[f] = before[f] /\ pos[f] \in Nat
    BY <1>1, <1>2, <2>2 DEF Moved, MovedOnlyHere, TypeOK
  <2> QED BY <1>1, <2>3 DEF TypeOK
<1> QED BY <1>3, <1>4, <1>5, <1>6

\* A late transfer moves nothing yet, and is the first of a call with one buffer.
LEMMA PendsStep == IInv /\ Pends => IInv'
<1> SUFFICES ASSUME IInv, Pends PROVE IInv'
  OBVIOUS
<1> USE DEF IInv
<1>1. PICK information \in Leftover :
        TotalBytes' = (TotalBytes + information) % Modulus
  BY DEF Pends, Sum
<1>2. /\ CurrentBuffer \in 1 .. Len(iov) /\ CurrentBuffer' = CurrentBuffer + 1
      /\ UNCHANGED <<handles, pos, fd, iov, result, before, calls, thread>>
      /\ Status' = "pending" /\ late' = late \union {fd} /\ fd \in Overlapped
      /\ TypeOK /\ Len(iov) \in Nat
  BY DEF Pends, TypeOK
<1>3. TotalBytes' \in 0 .. Modulus - 1
  <2>1. TotalBytes \in Nat /\ information \in Nat
    BY <1>2, IoAssumption DEF TypeOK
  <2>2. TotalBytes + information \in Nat
    BY <2>1
  <2> QED BY <1>1, <2>2, ModSum
<1>4. TypeOK'
  <2>1. CurrentBuffer' \in 0 .. Len(iov) + 1
    BY <1>2
  <2> QED BY <1>2, <1>3, <2>1 DEF TypeOK
<1>5. Moved' = Moved
  BY <1>2 DEF Moved
<1>6. MovedOnlyHere' /\ TotalIsMoved'
  BY <1>2 DEF MovedOnlyHere, TotalIsMoved
<1>7. OneBuffer'
  <2>1. ASSUME Len(iov) = 1 PROVE CurrentBuffer = 1 /\ Moved = 0 /\ iov[1] \in Nat
    <3>1. iov \in Seq(Nat) /\ 1 \in 1 .. Len(iov)
      BY <1>2, <2>1 DEF TypeOK
    <3>2. iov[1] \in Nat
      BY ONLY <3>1, ElementOfSeq
    <3> QED BY <1>2, <2>1, <3>2 DEF OneBuffer
  <2> QED BY <2>1, <1>2, <1>5 DEF OneBuffer
<1>8. ResultIsCount' /\ ReadIsAtomic'
  BY <1>2 DEF ResultIsCount, ReadIsAtomic, Returned
<1> QED BY <1>4, <1>6, <1>7, <1>8

LEMMA LateCompletesStep == IInv /\ LateCompletes => IInv'
  BY DEF LateCompletes, IInv, TypeOK, MovedOnlyHere, TotalIsMoved, OneBuffer,
         ResultIsCount, ReadIsAtomic, Returned, Moved, AsInt

LEMMA ReturnStep == IInv /\ Return => IInv'
<1> SUFFICES ASSUME IInv, Return PROVE IInv'
  OBVIOUS
<1> USE DEF IInv
<1>1. /\ CurrentBuffer > Len(iov) /\ CurrentBuffer' = 0 /\ result' = AsInt(TotalBytes)
      /\ UNCHANGED <<handles, pos, fd, iov, TotalBytes, Status, before, calls, late,
                      thread>>
      /\ TypeOK /\ Len(iov) \in Nat /\ CurrentBuffer = Len(iov) + 1
  BY DEF Return, TypeOK
<1>2. /\ fd \in handles /\ fd \in Standard /\ Moved' = Moved
      /\ Status # "failed"
      /\ fd \notin late => TotalBytes = Moved % Modulus
  BY <1>1 DEF TotalIsMoved, Moved, TypeOK
<1>3. TotalBytes \in 0 .. Modulus - 1 /\ Modulus \in Nat /\ Moved \in Nat
  BY <1>1, <1>2, IoAssumption DEF TypeOK, Moved, MovedOnlyHere
<1>4. /\ result' \in Int /\ (result' >= 0 => result' = TotalBytes)
      /\ (2 * TotalBytes < Modulus => result' = TotalBytes)
  BY <1>1, <1>3 DEF AsInt
<1>5. TypeOK' /\ MovedOnlyHere' /\ TotalIsMoved' /\ OneBuffer'
  BY <1>1, <1>4 DEF TypeOK, MovedOnlyHere, TotalIsMoved, OneBuffer
<1>6. ResultIsCount'
  <2>1. ASSUME fd \notin late, Moved < Modulus PROVE result' = AsInt(Moved)
    <3>1. TotalBytes = Moved % Modulus
      BY <1>2, <2>1
    <3>2. Moved % Modulus = Moved
      BY <1>3, <2>1, ModSum
    <3> QED BY ONLY <1>1, <3>1, <3>2
  <2>2. AsInt(Moved') = AsInt(Moved)
    BY <1>2
  <2>3. \A f \in Standard : f # fd => pos[f] = before[f]
    BY DEF MovedOnlyHere
  <2>4. (AsInt(Moved))' = AsInt(Moved')
    BY DEF AsInt
  <2> HIDE DEF IInv
  <2> QED BY <1>1, <1>2, <2>1, <2>2, <2>3, <2>4 DEF ResultIsCount
<1>7. ReadIsAtomic'
  <2>1. SUFFICES ASSUME Len(iov) = 1, 2 * iov[1] < Modulus, result' < 0,
                        fd \notin late
                 PROVE  FALSE
    BY <1>1 DEF ReadIsAtomic
  <2>2. iov[1] \in Nat
    <3>1. iov \in Seq(Nat) /\ 1 \in 1 .. Len(iov)
      BY <1>1, <2>1 DEF TypeOK
    <3> QED BY ONLY <3>1, ElementOfSeq
  <2>3. Moved <= iov[1]
    BY <1>1, <2>1 DEF OneBuffer
  <2>4. 2 * Moved < Modulus /\ Moved < Modulus
    BY <1>3, <2>1, <2>2, <2>3
  <2>5. TotalBytes = Moved
    <3>1. TotalBytes = Moved % Modulus
      BY <1>2, <2>1
    <3>2. Moved % Modulus = Moved
      BY <1>3, <2>4, ModSum
    <3> QED BY ONLY <3>1, <3>2
  <2> QED BY <1>3, <1>4, <2>1, <2>4, <2>5
<1> QED BY <1>5, <1>6, <1>7

LEMMA BuffersAreSeqs == \A v \in Buffers : v \in Seq(Nat)
<1> SUFFICES ASSUME NEW v \in Buffers PROVE v \in Seq(Nat)
  OBVIOUS
<1>1. PICK k \in 0 .. MaxBuffers : v \in [1 .. k -> Length]
  BY DEF Buffers
<1>2. k \in Nat /\ Length \subseteq Nat
  BY IoAssumption
<1>3. v \in [1 .. k -> Nat]
  BY <1>1, <1>2
<1> QED BY <1>2, <1>3

LEMMA NextIInv == IInv /\ [Next]_vars => IInv'
<1> SUFFICES ASSUME IInv, [Next]_vars PROVE IInv'
  OBVIOUS
<1>1. ASSUME NEW f \in FileDescriptor, NEW v \in Buffers, Call(f, v) PROVE IInv'
  BY <1>1, BuffersAreSeqs, CallStep
<1>2. ASSUME NEW f \in FileDescriptor, NEW n \in Length, Read(f, n) PROVE IInv'
  <2>1. <<n>> \in Seq(Nat)
    BY <1>2, IoAssumption
  <2> QED BY <1>2, <2>1, CallStep DEF Read
<1>3. CASE UNCHANGED vars
  BY <1>3 DEF vars, IInv, TypeOK, MovedOnlyHere, TotalIsMoved, OneBuffer,
              ResultIsCount, ReadIsAtomic, Returned, Moved, AsInt
<1> QED BY <1>1, <1>2, <1>3, TransferStep, PendsStep, TransferFailsStep, ReturnStep,
           LateCompletesStep DEF Next

LEMMA AlwaysIInv == Spec => []IInv
  BY InitIInv, NextIInv, PTL DEF Spec

\* Positions, sums and results keep their types, the sum its width.
THEOREM TypeCorrect == Spec => []TypeOK
<1>1. IInv => TypeOK
  BY DEF IInv
<1> QED BY <1>1, AlwaysIInv, PTL

\* For any number of buffers, a call returns the error of a transfer that failed,
\* or exactly what it has moved, as an int, if that is less than 2^32 and no
\* transfer of the stream is late.  Other streams are where they were.
THEOREM ResultsCount == Spec => []ResultIsCount
<1>1. IInv => ResultIsCount
  BY DEF IInv
<1> QED BY <1>1, AlwaysIInv, PTL

\* A read that reports an error has consumed nothing, unless it is late.
THEOREM ReadsAreAtomic == Spec => []ReadIsAtomic
<1>1. IInv => ReadIsAtomic
  BY DEF IInv
<1> QED BY <1>1, AlwaysIInv, PTL
-----------------------------------------------------------------------------
\* One buffer's cells, and what they hold once its transfer is over.
HoldsMoved == Len(iov) = 1 =>
    /\ memory \in [1 .. 1 -> [1 .. iov[1] -> Nat]]
    /\ /\ fd \notin late
       /\ CurrentBuffer = 2 \/ (CurrentBuffer = 0 /\ result > 0 /\ 2 * iov[1] < Modulus)
       =>
          /\ fd \in Standard /\ Moved \in 0 .. iov[1]
          /\ \A c \in 1 .. Moved : memory[1][c] = before[fd] + c
          /\ CurrentBuffer = 0 => result = Moved

DInv == IInv /\ HoldsMoved

LEMMA DataInitDInv == DataInit => DInv
<1> SUFFICES ASSUME DataInit PROVE DInv
  OBVIOUS
<1>1. IInv /\ Len(iov) = 0
  BY InitIInv DEF DataInit, Init
<1> QED BY <1>1 DEF DInv, HoldsMoved

LEMMA DataStepIsStep == DataNext => Next
  BY DEF DataNext, Next, DataCall, DataTransfer, Read

LEMMA DataCallStep ==
  ASSUME DInv, NEW f \in FileDescriptor, NEW v \in Seq(Nat), DataCall(f, v), IInv'
  PROVE  HoldsMoved'
<1>1. /\ iov' = v /\ fd' = f
      /\ memory' = [k \in 1 .. Len(v) |-> [c \in 1 .. v[k] |-> 0]]
      /\ \/ CurrentBuffer' = 1
         \/ CurrentBuffer' = 0 /\ result' = -9
  BY DEF DInv, IInv, DataCall, Call, EBADF
<1>2. ASSUME Len(v) = 1 PROVE memory' \in [1 .. 1 -> [1 .. v[1] -> Nat]]
  BY <1>1, <1>2
<1> QED BY <1>1, <1>2 DEF HoldsMoved

LEMMA DataTransferStep ==
  ASSUME DInv, DataTransfer, IInv' PROVE HoldsMoved'
<1>1. /\ UNCHANGED <<fd, iov, before>> /\ CurrentBuffer' = CurrentBuffer + 1
      /\ CurrentBuffer \in 1 .. Len(iov) /\ Len(iov) \in Nat
      /\ fd \in handles /\ fd \in Standard
  BY DEF DInv, IInv, DataTransfer, Transfer, TotalIsMoved, TypeOK
<1> SUFFICES ASSUME Len(iov) = 1 PROVE HoldsMoved'
  BY <1>1 DEF HoldsMoved
<1>2. CurrentBuffer = 1 /\ CurrentBuffer' = 2 /\ Moved = 0
  BY <1>1 DEF DInv, IInv, OneBuffer
<1>3. iov[1] \in Nat /\ pos[fd] \in Nat /\ before[fd] \in Nat
  <2>1. /\ iov \in Seq(Nat) /\ 1 \in 1 .. Len(iov)
        /\ pos[fd] \in Nat /\ before[fd] \in Nat
    BY <1>1, <1>2 DEF DInv, IInv, TypeOK
  <2>2. iov[1] \in Nat
    BY ONLY <2>1, ElementOfSeq
  <2> QED BY <2>1, <2>2
<1>4. PICK n \in 0 .. iov[1] : pos' = [pos EXCEPT ![fd] = @ + n]
  BY <1>2 DEF DataTransfer, Transfer
<1>5. pos[fd] = before[fd] /\ pos'[fd] = pos[fd] + n /\ Moved' = n
  BY <1>1, <1>2, <1>3, <1>4 DEF Moved, DInv, IInv, TypeOK
<1>6. memory' = [memory EXCEPT ![1] =
                   [c \in 1 .. iov[1] |-> IF c <= n THEN pos[fd] + c ELSE 0]]
  <2>1. pos'[fd] - pos[fd] = n
    BY <1>3, <1>5
  <2>2. memory' = [memory EXCEPT ![CurrentBuffer] =
                     [c \in 1 .. iov[CurrentBuffer] |->
                         IF c <= pos'[fd] - pos[fd] THEN pos[fd] + c ELSE 0]]
    BY DEF DataTransfer, iov_base
  <2> QED BY ONLY <1>2, <2>1, <2>2
<1>7. memory \in [1 .. 1 -> [1 .. iov[1] -> Nat]]
  BY DEF DInv, HoldsMoved
<1>8. memory'[1] = [c \in 1 .. iov[1] |-> IF c <= n THEN pos[fd] + c ELSE 0]
  BY <1>6, <1>7
<1>9. memory' \in [1 .. 1 -> [1 .. iov[1] -> Nat]]
  BY <1>3, <1>6, <1>7
<1>10. \A c \in 1 .. n : memory'[1][c] = before[fd] + c
  BY <1>3, <1>5, <1>8
<1> QED BY <1>1, <1>2, <1>3, <1>5, <1>9, <1>10 DEF HoldsMoved

\* A result that fits an int is the count itself.
LEMMA DataReturnStep ==
  ASSUME DInv, Return, UNCHANGED memory, IInv' PROVE HoldsMoved'
<1>1. /\ UNCHANGED <<pos, fd, iov, before>> /\ CurrentBuffer' = 0 /\ Len(iov) \in Nat
      /\ CurrentBuffer = Len(iov) + 1 /\ result' = AsInt(TotalBytes)
      /\ Moved' = Moved /\ late' = late
      /\ fd \notin late => TotalBytes = Moved % Modulus
  BY DEF DInv, IInv, Return, TotalIsMoved, TypeOK, Moved
<1> SUFFICES ASSUME Len(iov) = 1, 2 * iov[1] < Modulus, fd \notin late, HoldsMoved
             PROVE  HoldsMoved'
  BY <1>1 DEF HoldsMoved, DInv
<1>2. Moved \in 0 .. iov[1]
  BY <1>1 DEF HoldsMoved
<1>3. iov[1] \in Nat
  <2>1. iov \in Seq(Nat) /\ 1 \in 1 .. Len(iov)
    BY <1>1 DEF DInv, IInv, TypeOK
  <2> QED BY ONLY <2>1, ElementOfSeq
<1>4. 2 * Moved < Modulus /\ Moved \in Nat /\ Moved < Modulus
  BY <1>2, <1>3, IoAssumption
<1>5. result' = Moved
  BY <1>1, <1>4, ModSum DEF AsInt
<1> QED BY <1>1, <1>2, <1>5 DEF HoldsMoved

LEMMA DataNextDInv == DInv /\ [DataNext]_dataVars => DInv'
<1> SUFFICES ASSUME DInv, [DataNext]_dataVars PROVE DInv'
  OBVIOUS
<1>1. IInv'
  <2>1. [Next]_vars
    BY DataStepIsStep DEF dataVars
  <2> QED BY <2>1, NextIInv DEF DInv
<1> SUFFICES HoldsMoved'
  BY <1>1 DEF DInv
<1>2. ASSUME NEW f \in FileDescriptor, NEW v \in Buffers, DataCall(f, v) PROVE HoldsMoved'
  <2>1. v \in Seq(Nat)
    BY BuffersAreSeqs
  <2> QED BY <1>1, <1>2, <2>1, DataCallStep
<1>3. ASSUME NEW f \in FileDescriptor, NEW n \in Length, DataCall(f, <<n>>) PROVE HoldsMoved'
  <2>1. <<n>> \in Seq(Nat)
    BY <1>3, IoAssumption
  <2> QED BY <1>1, <1>3, <2>1, DataCallStep
<1>4. CASE DataTransfer
  BY <1>1, <1>4, DataTransferStep
<1>5. CASE (TransferFails \/ Pends \/ LateCompletes) /\ UNCHANGED memory
  BY <1>5 DEF TransferFails, Pends, LateCompletes, HoldsMoved, DInv, Moved
<1>6. CASE Return /\ UNCHANGED memory
  BY <1>1, <1>6, DataReturnStep
<1>7. CASE UNCHANGED dataVars
  BY <1>7 DEF dataVars, vars, DInv, HoldsMoved, Moved
<1> QED BY <1>1, <1>2, <1>3, <1>4, <1>5, <1>6, <1>7 DEF DataNext

\* A call with one buffer leaves its stream alone before the transfer, and
\* while that is late.
LEMMA LateIsStill ==
  ASSUME IInv, CurrentBuffer > 0, Len(iov) = 1, fd \in late \/ CurrentBuffer = 1
  PROVE  pos = before
<1>1. Moved = 0 /\ fd \in Standard /\ TypeOK
  BY DEF IInv, OneBuffer, TotalIsMoved, TypeOK
<1>3. pos[fd] - before[fd] = 0 /\ pos[fd] \in Nat /\ before[fd] \in Nat
  BY <1>1 DEF Moved, TypeOK
<1>4. pos[fd] = before[fd]
  BY ONLY <1>3
<1>2. \A f \in Standard : pos[f] = before[f]
  BY <1>4 DEF IInv, MovedOnlyHere
<1> QED BY <1>1, <1>2 DEF TypeOK

\* Without its last call, a stream is where the next one begins.
LEMMA PlainStep ==
  ASSUME DInv, DInv', DataNext, Plain' PROVE Stream!Next \/ UNCHANGED Stream!vars
<1> DEFINE at == IF CurrentBuffer = 0 THEN pos ELSE before
           Reads == \E f \in Standard : /\ Taken' = [i \in 1 .. Len(Taken') |-> at[f] + i]
                                       /\ at' = [at EXCEPT ![f] = @ + Len(Taken')]
<1>1. Reads => Stream!Next
  BY DEF Stream!Next, Stream!Read
<1>2. TypeOK /\ TypeOK' /\ at \in [Standard -> Nat] /\ 0 \in Standard
  BY DEF DInv, IInv, TypeOK, Standard
\* A call that takes nothing and leaves the streams alone reads nothing.
<1>3. ASSUME at' = at, Taken' = <<>> PROVE Reads
  <2>1. Len(Taken') = 0 /\ Taken' = [i \in 1 .. Len(Taken') |-> at[0] + i]
    BY <1>3
  <2>2. [at EXCEPT ![0] = @ + 0] = at
    BY <1>2
  <2> QED BY <1>2, <1>3, <2>1, <2>2
<1>4. ASSUME NEW f \in FileDescriptor, NEW v \in Seq(Nat), DataCall(f, v) PROVE Reads
  <2>1. CurrentBuffer = 0 /\ before' = pos /\ pos' = pos /\ ~(CurrentBuffer' = 0 /\ result' > 0)
    BY <1>4 DEF DataCall, Call, EBADF
  <2> QED BY <2>1, <1>3 DEF Taken
<1>5. CASE DataTransfer
  <2>1. CurrentBuffer # 0 /\ CurrentBuffer' # 0 /\ before' = before
    BY <1>5, <1>2 DEF DataTransfer, Transfer, TypeOK
  <2>2. Taken = <<>> /\ Taken' = <<>> /\ at' = at
    BY <2>1 DEF Taken
  <2> QED BY <1>1, <1>3, <2>2
<1>10. CASE (Pends \/ LateCompletes) /\ UNCHANGED memory
  <2>1. CASE Pends
    <3>1. CurrentBuffer # 0 /\ CurrentBuffer' # 0 /\ before' = before
      <4>1. /\ CurrentBuffer \in 1 .. Len(iov) /\ CurrentBuffer' = CurrentBuffer + 1
            /\ before' = before
        BY <2>1 DEF Pends
      <4> QED BY ONLY <4>1
    <3>2. Taken = <<>> /\ Taken' = <<>> /\ at' = at
      BY <3>1 DEF Taken
    <3> QED BY <1>1, <1>3, <3>2
  <2>2. CASE LateCompletes
    BY <1>10, <2>2 DEF LateCompletes, Stream!vars, Taken, Plain
  <2> QED BY <1>10, <2>1, <2>2
<1>6. CASE TransferFails
  <2>1. /\ CurrentBuffer # 0 /\ CurrentBuffer' = 0 /\ result' = -1 /\ before' = before
        /\ calls' > 0 /\ Len(iov') = 1 /\ 2 * iov'[1] < Modulus
    BY <1>6, <1>2 DEF TransferFails, DInv, IInv, TotalIsMoved, TypeOK, Plain
  <2>2. pos' = before' /\ Taken' = <<>>
    <3>1. CurrentBuffer > 0 /\ Len(iov) = 1 /\ CurrentBuffer = 1
      BY <1>6, <2>1 DEF TransferFails
    <3>2. pos = before
      BY <3>1, LateIsStill DEF DInv
    <3> QED BY <1>6, <2>1, <3>2 DEF TransferFails, Fail, Taken
  <2> QED BY <1>1, <1>3, <2>1, <2>2
<1>7. CASE Return /\ UNCHANGED memory
  <2>1. /\ CurrentBuffer # 0 /\ CurrentBuffer' = 0 /\ UNCHANGED <<fd, iov, before, pos, memory>>
        /\ Len(iov) = 1 /\ CurrentBuffer = 2 /\ fd \in Standard
    <3>1. /\ CurrentBuffer' = 0 /\ UNCHANGED <<fd, iov, before, pos, memory>>
          /\ CurrentBuffer > Len(iov)
      BY <1>7 DEF Return
    <3>2. Len(iov) = 1
      BY <3>1 DEF Plain
    <3>3. CurrentBuffer = 2
      BY <3>1, <3>2, <1>2 DEF TypeOK
    <3>4. fd \in Standard
      BY <3>3, <1>2 DEF DInv, IInv, TotalIsMoved, TypeOK
    <3> QED BY <3>1, <3>2, <3>3, <3>4
  <2>2. at = before /\ at' = pos
    BY <2>1
  <2>7. CASE fd \in late
    <3>1. pos = before /\ Taken' = <<>>
      BY <1>7, <2>1, <2>7, LateIsStill DEF DInv, Return, Taken
    <3> QED BY <1>1, <1>3, <2>2, <3>1
  <2> SUFFICES ASSUME fd \notin late PROVE Stream!Next
    BY <2>7
  <2>3. /\ Moved \in 0 .. iov[1] /\ iov[1] \in Nat
        /\ \A c \in 1 .. Moved : memory[1][c] = before[fd] + c
    <3>1. iov[1] \in Nat
      <4>1. iov \in Seq(Nat) /\ 1 \in 1 .. Len(iov)
        BY <2>1, <1>2 DEF TypeOK
      <4> QED BY ONLY <4>1, ElementOfSeq
    <3> QED BY <2>1, <3>1 DEF DInv, HoldsMoved
  <2>4. result' = Moved
    <3>1. 2 * Moved < Modulus /\ Moved < Modulus /\ Moved \in Nat
      BY <2>1, <2>3, IoAssumption DEF Plain
    <3>2. TotalBytes = Moved % Modulus /\ result' = AsInt(TotalBytes)
      BY <1>7, <2>1 DEF DInv, IInv, TotalIsMoved, Return
    <3> QED BY <3>1, <3>2, ModSum DEF AsInt
  <2>5. CASE result' > 0
    <3>1. /\ result' = Moved /\ Moved \in Nat
          /\ \A c \in 1 .. Moved : memory[1][c] = before[fd] + c
      BY <2>3, <2>4
    <3>2. Taken' = [c \in 1 .. Moved |-> before[fd] + c]
      BY <1>2, <1>7, <2>1, <2>5, <3>1 DEF Taken, Return
    <3>3. Len(Taken') = Moved
      BY <3>1, <3>2
    <3>4. pos = [before EXCEPT ![fd] = @ + Moved]
      BY <1>2, <2>1, <3>1 DEF Moved, DInv, IInv, MovedOnlyHere, TypeOK
    <3> QED BY <1>1, <2>1, <2>2, <3>2, <3>3, <3>4
  <2>6. CASE ~(result' > 0)
    <3>1. Taken' = <<>>
      BY <2>6 DEF Taken
    <3>2. pos = before
      <4>1. Moved = 0
        BY <2>3, <2>4, <2>6
      <4>2. \A f \in Standard : pos[f] = before[f]
        BY <1>2, <2>1, <4>1 DEF Moved, DInv, IInv, MovedOnlyHere, TypeOK
      <4> QED BY <1>2, <4>2 DEF TypeOK
    <3> QED BY <1>1, <1>3, <2>2, <3>1, <3>2
  <2> QED BY <2>5, <2>6
<1>8. ASSUME NEW f \in FileDescriptor, NEW v \in Buffers, DataCall(f, v) PROVE Stream!Next
  <2>1. v \in Seq(Nat)
    BY BuffersAreSeqs
  <2> QED BY <1>1, <1>4, <1>8, <2>1
<1>9. ASSUME NEW f \in FileDescriptor, NEW n \in Length, DataCall(f, <<n>>) PROVE Stream!Next
  <2>1. <<n>> \in Seq(Nat)
    BY <1>9, IoAssumption
  <2> QED BY <1>1, <1>4, <1>9, <2>1
<1> HIDE DEF at, Reads
<1> QED BY <1>5, <1>6, <1>7, <1>8, <1>9, <1>10 DEF DataNext

\* Calls with one buffer hand over the stream without a gap and in order,
\* with errors, and with calls of many buffers of any length between them, until
\* a transfer of the stream is late.
THEOREM ReadsAreStream == DataSpec => ReadIsStream
<1>1. DataInit => DInv /\ Stream!Init
  <2>1. ASSUME DataInit PROVE Stream!Init
    BY <2>1 DEF DataInit, Init, Stream!Init, Taken
  <2> QED BY <2>1, DataInitDInv
<1>2. DInv /\ [DataNext]_dataVars => DInv'
  BY DataNextDInv
<1>3. DInv /\ DInv' /\ [DataNext]_dataVars => [Plain' => Stream!Next]_(Stream!vars)
  <2>1. ASSUME DInv, DInv', DataNext PROVE [Plain' => Stream!Next]_(Stream!vars)
    BY <2>1, PlainStep
  <2>2. ASSUME UNCHANGED dataVars PROVE UNCHANGED Stream!vars
    BY <2>2 DEF dataVars, vars, Stream!vars, Taken, Plain
  <2> QED BY <2>1, <2>2
<1> QED BY <1>1, <1>2, <1>3, PTL DEF DataSpec, ReadIsStream
-----------------------------------------------------------------------------
(* Where the bytes are, for any number of buffers.  Each transfer puts the *)
(* bytes that come next into a buffer that is still empty, behind all that *)
(* are filled: that is why no byte is written twice or overtakes another.  *)

\* The buffers have the lengths of the call.
Shape ==
    /\ DOMAIN memory = 1 .. Len(iov)
    /\ \A k \in 1 .. Len(iov) : memory[k] \in [1 .. iov[k] -> Nat]

BytesAreMoved == \A k \in 1 .. Len(iov) : \A c \in 1 .. iov[k] :
    memory[k][c] # 0 => memory[k][c] \in Start + 1 .. Position

MovedAreThere == \A b \in Start + 1 .. Position :
    \E k \in 1 .. Len(iov) : \E c \in 1 .. iov[k] : memory[k][c] = b

AcrossBuffers == \A k, l \in 1 .. Len(iov) : \A c \in 1 .. iov[k], d \in 1 .. iov[l] :
    k < l /\ memory[k][c] # 0 /\ memory[l][d] # 0 => memory[k][c] < memory[l][d]

\* A buffer is filled from its start, by one transfer.
InsideBuffers == \A k \in 1 .. Len(iov) : \A c, d \in 1 .. iov[k] :
    c < d /\ memory[k][d] # 0 => memory[k][c] # 0 /\ memory[k][c] < memory[k][d]

Untouched == CurrentBuffer > 0 => \A k \in 1 .. Len(iov) : \A c \in 1 .. iov[k] :
    k >= CurrentBuffer => memory[k][c] = 0

Layout == calls > 0 => /\ Shape /\ BytesAreMoved /\ MovedAreThere
                       /\ AcrossBuffers /\ InsideBuffers /\ Untouched

LEMMA PositionsAreNat == TypeOK => Start \in Nat /\ Position \in Nat
  BY DEF TypeOK, Start, Position

LEMMA CellsAre ==
  ASSUME Shape
  PROVE  /\ \A k \in 1 .. Len(iov) : \A c \in 1 .. iov[k] : <<k, c>> \in Cells
         /\ \A x \in Cells : /\ x[1] \in 1 .. Len(iov) /\ x[2] \in 1 .. iov[x[1]]
                             /\ x = <<x[1], x[2]>>
<1>1. \A k \in 1 .. Len(iov) : DOMAIN memory[k] = 1 .. iov[k]
  BY DEF Shape
<1>2. ASSUME NEW k \in 1 .. Len(iov), NEW c \in 1 .. iov[k] PROVE <<k, c>> \in Cells
  <2>1. <<k, c>> \in {k} \X DOMAIN memory[k] /\ k \in DOMAIN memory
    BY <1>1, <1>2 DEF Shape
  <2> QED BY <2>1 DEF Cells
<1>3. ASSUME NEW x \in Cells
      PROVE  x[1] \in 1 .. Len(iov) /\ x[2] \in 1 .. iov[x[1]] /\ x = <<x[1], x[2]>>
  <2>1. PICK k \in DOMAIN memory : x \in {k} \X DOMAIN memory[k]
    BY DEF Cells
  <2>2. x[1] = k /\ x[2] \in DOMAIN memory[k] /\ x = <<x[1], x[2]>>
    BY <2>1
  <2> QED BY <2>1, <2>2, <1>1 DEF Shape
<1> QED BY <1>2, <1>3

LEMMA LayoutOrders == TypeOK /\ Layout => EachByteOnce
<1> SUFFICES ASSUME TypeOK, Layout, calls > 0
             PROVE  /\ {Byte(x) : x \in Filled} = Start + 1 .. Position
                    /\ \A x, y \in Filled : Before(x, y) => Byte(x) < Byte(y)
  BY DEF EachByteOnce
<1>1. /\ Shape /\ BytesAreMoved /\ MovedAreThere /\ AcrossBuffers /\ InsideBuffers
      /\ Start \in Nat /\ Position \in Nat
  BY PositionsAreNat DEF Layout
<1>2. ASSUME NEW x \in Filled PROVE Byte(x) \in Start + 1 .. Position
  BY <1>1, <1>2, CellsAre DEF Filled, Byte, BytesAreMoved
<1>3. ASSUME NEW b \in Start + 1 .. Position PROVE \E x \in Filled : Byte(x) = b
  <2> PICK k \in 1 .. Len(iov) : \E c \in 1 .. iov[k] : memory[k][c] = b
    BY <1>1 DEF MovedAreThere
  <2>1. PICK c \in 1 .. iov[k] : memory[k][c] = b
    OBVIOUS
  <2>2. <<k, c>> \in Cells /\ Byte(<<k, c>>) = b /\ b # 0
    BY <1>1, <2>1, CellsAre DEF Byte
  <2> QED BY <2>2 DEF Filled
<1>4. ASSUME NEW x \in Filled, NEW y \in Filled, Before(x, y) PROVE Byte(x) < Byte(y)
  <2>1. /\ x[1] \in 1 .. Len(iov) /\ x[2] \in 1 .. iov[x[1]] /\ memory[x[1]][x[2]] # 0
        /\ y[1] \in 1 .. Len(iov) /\ y[2] \in 1 .. iov[y[1]] /\ memory[y[1]][y[2]] # 0
    BY <1>1, CellsAre DEF Filled, Byte
  <2>2. CASE x[1] < y[1]
    BY <1>1, <2>1, <2>2 DEF AcrossBuffers, Byte
  <2>3. CASE x[1] = y[1] /\ x[2] < y[2]
    BY <1>1, <2>1, <2>3 DEF InsideBuffers, Byte
  <2> QED BY <1>4, <2>2, <2>3 DEF Before
<1> QED BY <1>2, <1>3, <1>4

LEMMA LayoutCounts == IInv /\ Layout => CountedAreFirst
<1> SUFFICES ASSUME IInv, Layout,
                    Returned, result >= 0, Position - Start < Modulus, fd \notin late,
                    \A x \in Cells : x[1] < Len(iov) => x \in Filled
             PROVE  /\ \A x \in Cells, y \in Filled : Before(x, y) => x \in Filled
                    /\ {Byte(x) : x \in Filled} = Start + 1 .. Start + result
  BY DEF CountedAreFirst
<1>1. /\ calls > 0 /\ Shape /\ InsideBuffers /\ EachByteOnce
      /\ Start \in Nat /\ Position \in Nat /\ Len(iov) \in Nat
  BY PositionsAreNat, LayoutOrders DEF Layout, Returned, IInv, TypeOK
<1>2. Position = Start + result
  <2>1. Moved = Position - Start
    BY DEF Moved, Position, Start
  <2>2. Moved \in Nat /\ Moved < Modulus /\ Modulus \in Nat
    <3>1. Start <= Position
      BY DEF IInv, MovedOnlyHere, Position, Start
    <3> QED BY ONLY <1>1, <2>1, <3>1, Position - Start < Modulus, IoAssumption
  <2>3. ASSUME fd \in handles, Status # "failed" PROVE result = Moved
    <3>1. result = AsInt(Moved)
      BY <2>2, <2>3 DEF IInv, ResultIsCount
    <3> QED BY <2>2, <3>1 DEF AsInt
  <2>4. ASSUME ~(fd \in handles /\ Status # "failed") PROVE FALSE
    BY <2>4, IoAssumption DEF IInv, ResultIsCount, EBADF
  <2>5. result = Moved
    BY <2>3, <2>4
  <2> QED BY <1>1, <2>1, <2>5
<1>3. ASSUME NEW x \in Cells, NEW y \in Filled, Before(x, y) PROVE x \in Filled
  <2>1. /\ x[1] \in 1 .. Len(iov) /\ x[2] \in 1 .. iov[x[1]]
        /\ y[1] \in 1 .. Len(iov) /\ y[2] \in 1 .. iov[y[1]] /\ memory[y[1]][y[2]] # 0
    BY <1>1, CellsAre DEF Filled, Byte
  <2>2. CASE x[1] < y[1]
    BY <1>1, <2>1, <2>2
  <2>3. CASE x[1] = y[1] /\ x[2] < y[2]
    <3>1. memory[x[1]][x[2]] # 0
      BY <1>1, <2>1, <2>3 DEF InsideBuffers
    <3> QED BY <3>1 DEF Filled, Byte
  <2> QED BY <1>3, <2>2, <2>3 DEF Before
<1>4. {Byte(x) : x \in Filled} = Start + 1 .. Position
  BY <1>1 DEF EachByteOnce
<1> QED BY <1>2, <1>3, <1>4
-----------------------------------------------------------------------------
LInv == IInv /\ Layout

LEMMA LayoutCallStep ==
  ASSUME IInv, NEW f \in FileDescriptor, NEW v \in Seq(Nat), DataCall(f, v)
  PROVE  Layout'
<1>1. /\ fd' = f /\ iov' = v /\ before' = pos /\ pos' = pos /\ Len(v) \in Nat
      /\ memory' = [k \in 1 .. Len(v) |-> [c \in 1 .. v[k] |-> 0]]
  BY DEF DataCall, Call
<1>2. Start' = Position' /\ Position' \in Nat
  BY <1>1, IoAssumption DEF Start, Position, IInv, TypeOK
<1>3. \A b : b \notin Start' + 1 .. Position'
  BY <1>2
<1>4. Shape' /\ \A k \in 1 .. Len(v) : \A c \in 1 .. v[k] : memory'[k][c] = 0
  BY <1>1 DEF Shape
<1>5. MovedAreThere'
  BY <1>3 DEF MovedAreThere
<1>6. BytesAreMoved' /\ AcrossBuffers' /\ InsideBuffers' /\ Untouched'
  BY <1>1, <1>4 DEF BytesAreMoved, AcrossBuffers, InsideBuffers, Untouched
<1> QED BY <1>4, <1>5, <1>6 DEF Layout

LEMMA LayoutTransferStep == ASSUME LInv, DataTransfer PROVE Layout'
<1> DEFINE cur == CurrentBuffer
<1>1. /\ cur \in 1 .. Len(iov) /\ CurrentBuffer' = cur + 1 /\ Len(iov) \in Nat
      /\ UNCHANGED <<fd, iov, before, calls>>
      /\ fd \in Standard /\ calls > 0 /\ Start \in Nat /\ Position \in Nat
  BY PositionsAreNat DEF LInv, IInv, DataTransfer, Transfer, TotalIsMoved, TypeOK
<1>2. PICK n \in 0 .. iov[cur] : pos' = [pos EXCEPT ![fd] = @ + n]
  BY DEF DataTransfer, Transfer
<1>3. iov[cur] \in Nat
  <2>1. iov \in Seq(Nat) /\ cur \in 1 .. Len(iov)
    BY <1>1 DEF LInv, IInv, TypeOK
  <2> QED BY ONLY <2>1, ElementOfSeq
<1>4. n \in Nat /\ Start' = Start /\ Position' = Position + n /\ pos[fd] = Position
      /\ pos'[fd] - pos[fd] = n
  <2>1. pos[fd] \in Nat /\ pos'[fd] = pos[fd] + n /\ n \in Nat
    BY <1>1, <1>2, <1>3 DEF LInv, IInv, TypeOK
  <2> QED BY <1>1, <2>1 DEF Start, Position
<1>5. /\ Shape /\ BytesAreMoved /\ MovedAreThere /\ AcrossBuffers /\ InsideBuffers
      /\ Untouched /\ Start <= Position
  BY <1>1 DEF LInv, IInv, Layout, MovedOnlyHere, Start, Position
<1>6. memory' = [memory EXCEPT ![cur] =
                   [c \in 1 .. iov[cur] |-> IF c <= n THEN Position + c ELSE 0]]
  BY <1>4 DEF DataTransfer, iov_base
\* The buffer that is filled, and the others.
<1>7. /\ memory'[cur] = [c \in 1 .. iov[cur] |-> IF c <= n THEN Position + c ELSE 0]
      /\ \A k \in 1 .. Len(iov) : k # cur => memory'[k] = memory[k]
      /\ DOMAIN memory' = 1 .. Len(iov)
  BY <1>1, <1>5, <1>6 DEF Shape
<1> HIDE DEF cur
<1>8. /\ \A c \in 1 .. iov[cur] : memory'[cur][c] # 0 =>
           c <= n /\ memory'[cur][c] = Position + c
      /\ \A c \in 1 .. n : c \in 1 .. iov[cur] /\ memory'[cur][c] = Position + c
  BY <1>2, <1>3, <1>4, <1>7
<1>9. \A k \in 1 .. Len(iov) : \A c \in 1 .. iov[k] :
        k # cur /\ memory'[k][c] # 0 =>
          k < cur /\ memory[k][c] # 0 /\ memory'[k][c] \in Start + 1 .. Position
  BY <1>1, <1>5, <1>7 DEF Untouched, BytesAreMoved, cur
<1>10. Shape'
  <2>1. memory'[cur] \in [1 .. iov[cur] -> Nat]
    BY <1>1, <1>3, <1>4, <1>7
  <2> QED BY <1>1, <1>5, <1>7, <2>1 DEF Shape
<1>11. BytesAreMoved'
  <2>1. ASSUME NEW k \in 1 .. Len(iov), NEW c \in 1 .. iov[k], memory'[k][c] # 0
        PROVE  memory'[k][c] \in Start + 1 .. Position + n
    BY <1>1, <1>4, <1>5, <1>8, <1>9, <2>1
  <2> QED BY <1>1, <1>4, <2>1 DEF BytesAreMoved
<1>12. MovedAreThere'
  <2>1. ASSUME NEW b \in Start + 1 .. Position + n
        PROVE  \E k \in 1 .. Len(iov) : \E c \in 1 .. iov[k] : memory'[k][c] = b
    <3>1. CASE b \in Start + 1 .. Position
      <4> PICK k \in 1 .. Len(iov) : \E c \in 1 .. iov[k] : memory[k][c] = b
        BY <1>5, <3>1 DEF MovedAreThere
      <4>1. PICK c \in 1 .. iov[k] : memory[k][c] = b
        OBVIOUS
      <4>2. k # cur
        BY <1>1, <1>4, <1>5, <3>1, <4>1 DEF Untouched, cur
      <4> QED BY <1>7, <4>1, <4>2
    <3>2. CASE b \notin Start + 1 .. Position
      <4>1. b - Position \in 1 .. n /\ Position + (b - Position) = b
        BY <1>1, <1>4, <1>5, <3>2
      <4> QED BY <1>1, <1>8, <4>1
    <3> QED BY <3>1, <3>2
  <2> QED BY <1>1, <1>4, <2>1 DEF MovedAreThere
<1>13. AcrossBuffers'
  <2>1. ASSUME NEW k \in 1 .. Len(iov), NEW l \in 1 .. Len(iov),
               NEW c \in 1 .. iov[k], NEW d \in 1 .. iov[l],
               k < l, memory'[k][c] # 0, memory'[l][d] # 0
        PROVE  memory'[k][c] < memory'[l][d]
    <3>1. k # cur
      BY <1>1, <1>9, <2>1 DEF cur
    <3>2. CASE l = cur
      BY <1>1, <1>4, <1>8, <1>9, <2>1, <3>1, <3>2
    <3>3. CASE l # cur
      BY <1>5, <1>7, <1>9, <2>1, <3>1, <3>3 DEF AcrossBuffers
    <3> QED BY <3>2, <3>3
  <2> QED BY <1>1, <2>1 DEF AcrossBuffers
<1>14. InsideBuffers'
  <2>1. ASSUME NEW k \in 1 .. Len(iov), NEW c \in 1 .. iov[k], NEW d \in 1 .. iov[k],
               c < d, memory'[k][d] # 0
        PROVE  memory'[k][c] # 0 /\ memory'[k][c] < memory'[k][d]
    <3>1. CASE k = cur
      <4>1. d <= n /\ memory'[k][d] = Position + d
        BY <1>8, <2>1, <3>1
      <4>2. c \in 1 .. n
        BY <1>3, <1>4, <2>1, <3>1, <4>1
      <4> QED BY <1>1, <1>8, <2>1, <3>1, <4>1, <4>2
    <3>2. CASE k # cur
      BY <1>5, <1>7, <2>1, <3>2 DEF InsideBuffers
    <3> QED BY <3>1, <3>2
  <2> QED BY <1>1, <2>1 DEF InsideBuffers
<1>15. Untouched'
  BY <1>1, <1>5, <1>7 DEF Untouched, cur
<1> QED BY <1>10, <1>11, <1>12, <1>13, <1>14, <1>15 DEF Layout

\* The end of a call and a transfer that is late leave the buffers as they are.
LEMMA LayoutEndStep ==
  ASSUME LInv,
         CurrentBuffer' = 0 \/ (CurrentBuffer > 0 /\ CurrentBuffer' >= CurrentBuffer),
         CurrentBuffer' \in Nat,
         UNCHANGED <<pos, fd, iov, before, calls, memory>>
  PROVE  Layout'
<1>1. CurrentBuffer \in Nat /\ Len(iov) \in Nat
  BY DEF LInv, IInv, TypeOK
<1>2. ASSUME Untouched PROVE Untouched'
  <2>1. \A k \in 1 .. Len(iov) :
          CurrentBuffer' > 0 /\ k >= CurrentBuffer' /\ CurrentBuffer > 0 => k >= CurrentBuffer
    BY <1>1
  <2> QED BY <1>1, <1>2, <2>1 DEF Untouched
<1> QED BY <1>2 DEF LInv, Layout, Shape, BytesAreMoved, MovedAreThere, AcrossBuffers,
                    InsideBuffers, Start, Position

LEMMA InitLInv == DataInit => LInv
  BY InitIInv DEF DataInit, Init, LInv, Layout

LEMMA NextLInv == LInv /\ [DataNext]_dataVars => LInv'
<1> SUFFICES ASSUME LInv, [DataNext]_dataVars PROVE LInv'
  OBVIOUS
<1>6. IInv'
  BY DataStepIsStep, NextIInv DEF LInv, dataVars
<1> SUFFICES Layout'
  BY <1>6 DEF LInv
<1>1. ASSUME NEW f \in FileDescriptor, NEW v \in Buffers, DataCall(f, v) PROVE Layout'
  BY <1>1, BuffersAreSeqs, LayoutCallStep DEF LInv
<1>2. ASSUME NEW f \in FileDescriptor, NEW n \in Length, DataCall(f, <<n>>) PROVE Layout'
  <2>1. <<n>> \in Seq(Nat)
    BY <1>2, IoAssumption
  <2> QED BY <1>2, <2>1, LayoutCallStep DEF LInv
<1>3. CASE DataTransfer
  BY <1>3, LayoutTransferStep
<1>4. CASE (Pends \/ TransferFails \/ Return \/ LateCompletes) /\ UNCHANGED memory
  <2>1. CurrentBuffer \in Nat /\ CurrentBuffer' \in Nat
    BY <1>6 DEF LInv, IInv, TypeOK
  <2>2. CASE Pends
    BY <1>4, <2>1, <2>2, LayoutEndStep DEF Pends
  <2>3. CASE TransferFails
    BY <1>4, <2>1, <2>3, LayoutEndStep DEF TransferFails, Fail
  <2>4. CASE Return
    BY <1>4, <2>1, <2>4, LayoutEndStep DEF Return
  <2>5. CASE LateCompletes
    BY <1>4, <2>1, <2>5, LayoutEndStep DEF LateCompletes
  <2> QED BY <1>4, <2>2, <2>3, <2>4, <2>5
<1>5. CASE UNCHANGED dataVars
  BY <1>5 DEF dataVars, vars, LInv, Layout, Shape, BytesAreMoved, MovedAreThere,
              AcrossBuffers, InsideBuffers, Untouched, Start, Position
<1> QED BY <1>1, <1>2, <1>3, <1>4, <1>5 DEF DataNext

LEMMA AlwaysLInv == DataSpec => []LInv
  BY InitLInv, NextLInv, PTL DEF DataSpec

\* Every byte a call has moved is in one cell of its buffers and in order,
\* for any number of buffers and with short and failed transfers.
THEOREM BytesOnceInOrder == DataSpec => []EachByteOnce
<1>1. LInv => EachByteOnce
  BY LayoutOrders DEF LInv, IInv
<1> QED BY <1>1, AlwaysLInv, PTL

\* If every buffer but the last one was filled and no transfer is late, the
\* result counts the first bytes of the buffers and all that were moved.
THEOREM NoHoleBehindCount == DataSpec => []CountedAreFirst
<1>1. LInv => CountedAreFirst
  BY LayoutCounts DEF LInv
<1> QED BY <1>1, AlwaysLInv, PTL
=============================================================================
