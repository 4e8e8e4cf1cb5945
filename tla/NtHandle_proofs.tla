--------------------------- MODULE NtHandle_proofs ---------------------------
(***************************************************************************)
(* Ownership of handles, for any number of objects and values.  OwnersOK   *)
(* carries itself: what an object owns was opened for it, so nobody else   *)
(* owns it, and a careful & can close nothing but its own.                 *)
(***************************************************************************)
EXTENDS NtHandle, TLAPS

IInv == TypeOK /\ OwnersOK /\ CarefulCloses

LEMMA InitIInv == Init => IInv
  BY DEF Init, IInv, TypeOK, OwnersOK, CarefulCloses

\* An object that is constructed owns nothing yet, and none owns it.
LEMMA ConstructIInv ==
  ASSUME IInv, NEW o \in Object, NEW h \in Value \cup {NULL, Pseudo}, Construct(o, h)
  PROVE  IInv'
<1> USE DEF IInv, Construct, marks
<1>1. TypeOK'
  BY DEF TypeOK
<1>2. OwnersOK' /\ CarefulCloses'
  BY DEF TypeOK, OwnersOK, CarefulCloses
<1> QED BY <1>1, <1>2

LEMMA CopyIInv ==
  ASSUME IInv, NEW o \in Object, NEW p \in Object, Copy(o, p)
  PROVE  IInv'
<1> USE NameAssumption DEF IInv, Copy, marks
<1>1. PICK v \in Value : /\ holder[v] = Free
                         /\ holder' = [holder EXCEPT ![v] = o]
                         /\ m_Handle' = [m_Handle EXCEPT ![o] = v]
  OBVIOUS
<1>2. TypeOK'
  BY <1>1 DEF TypeOK
<1>3. OwnersOK'
  <2> SUFFICES ASSUME careful, NEW q \in Object, owns'[q]
               PROVE  q \in alive' /\ m_Handle'[q] \in Value /\ holder'[m_Handle'[q]] = q
    BY DEF OwnersOK
  <2>1. CASE q = o
    BY <1>1, <2>1 DEF TypeOK
  <2>2. CASE q # o
    <3>1. owns[q] /\ m_Handle'[q] = m_Handle[q]
      BY <1>1, <2>2 DEF TypeOK
    <3>2. q \in alive /\ m_Handle[q] \in Value /\ holder[m_Handle[q]] = q
      BY <3>1 DEF OwnersOK
    <3>3. m_Handle[q] # v
      BY <1>1, <3>2
    <3> QED BY <1>1, <3>1, <3>2, <3>3 DEF TypeOK
  <2> QED BY <2>1, <2>2
<1>4. CarefulCloses'
  BY DEF CarefulCloses
<1> QED BY <1>2, <1>3, <1>4

\* Losing a handle takes it from nobody else.
LEMMA LoseKeeps ==
  ASSUME TypeOK, NEW o \in Object, Lose(o)
  PROVE  /\ holder' \in [Value -> Object \cup {Free, Other, Leaked}]
         /\ \A v \in Value, q \in Object : q # o /\ holder[v] = q => holder'[v] = q
  BY DEF TypeOK, Lose

LEMMA AssignIInv ==
  ASSUME IInv, NEW o \in Object, NEW p \in Object, Assign(o, p) PROVE IInv'
<1> USE DEF IInv, Assign, marks
<1>1. TypeOK'
  BY LoseKeeps DEF TypeOK
<1>2. OwnersOK'
  BY LoseKeeps DEF TypeOK, OwnersOK
<1> QED BY <1>1, <1>2 DEF CarefulCloses

LEMMA DestroyIInv ==
  ASSUME IInv, NEW o \in Object, Destroy(o) PROVE IInv'
<1> USE DEF IInv, Destroy, marks
<1>1. TypeOK'
  BY NameAssumption, LoseKeeps DEF TypeOK, Ready
<1>2. OwnersOK'
  BY LoseKeeps DEF TypeOK, OwnersOK
<1> QED BY <1>1, <1>2 DEF CarefulCloses

LEMMA TakeAddressIInv ==
  ASSUME IInv, NEW o \in Object, TakeAddress(o) PROVE IInv'
<1> USE NameAssumption DEF IInv, TakeAddress, marks, NeedsClose
<1> DEFINE h == m_Handle[o]
<1>1. TypeOK'
  <2>1. holder' \in [Value -> Object \cup {Free, Other, Leaked}]
    BY DEF CloseHandle, TypeOK
  <2>2. careful' \in BOOLEAN /\ wrong' \in BOOLEAN /\ asserted' \in BOOLEAN
    BY Zenon DEF CloseHandle, TypeOK
  <2> QED BY <2>1, <2>2 DEF TypeOK
<1>2. ASSUME careful' PROVE careful /\ (h = NULL \/ owns[o])
  BY <1>2, Zenon DEF TypeOK
<1>3. ASSUME careful'
      PROVE  \/ h = NULL
             \/ owns[o] /\ h \in Value /\ holder[h] = o /\ Open(h)
  <2>1. owns[o] => h \in Value /\ holder[h] = o
    BY <1>2, <1>3 DEF OwnersOK
  <2>2. owns[o] => Open(h)
    BY <2>1 DEF Open
  <2> QED BY <1>2, <1>3, <2>1, <2>2
<1>4. OwnersOK'
  <2> SUFFICES ASSUME careful', NEW q \in Object, owns'[q]
               PROVE  q \in alive' /\ m_Handle'[q] \in Value /\ holder'[m_Handle'[q]] = q
    BY DEF OwnersOK
  <2>1. q # o /\ owns[q]
    BY DEF TypeOK
  <2>2. q \in alive /\ m_Handle[q] \in Value /\ holder[m_Handle[q]] = q
    BY <1>2, <2>1 DEF OwnersOK
  <2>3. CASE h = NULL
    BY <2>2, <2>3 DEF CloseHandle, TypeOK
  <2>4. CASE h # NULL
    <3>1. m_Handle[q] # h
      BY <1>3, <2>1, <2>2, <2>4
    <3>2. holder' = [v \in Value |-> IF v = h THEN Free ELSE holder[v]]
      BY <2>4 DEF CloseHandle
    <3> QED BY <2>2, <3>1, <3>2
  <2> QED BY <2>3, <2>4
<1>5. CarefulCloses'
  <2> SUFFICES ASSUME careful' PROVE ~wrong' /\ ~asserted'
    BY DEF CarefulCloses
  <2>1. ~wrong /\ ~asserted
    BY <1>2 DEF CarefulCloses
  <2>2. CASE h = NULL
    BY <2>1, <2>2, Zenon DEF CloseHandle
  <2>3. CASE h # NULL
    <3>1. holder[h] = o /\ Open(h)
      BY <1>3, <2>3
    <3> QED BY <2>1, <2>3, <3>1, Zenon DEF CloseHandle
  <2> QED BY <2>2, <2>3
<1> QED BY <1>1, <1>4, <1>5

LEMMA OpenedIInv ==
  ASSUME IInv, Opened PROVE IInv'
<1> USE NameAssumption DEF IInv, Opened, marks
<1>1. PICK v \in Value : /\ holder[v] = Free
                         /\ holder' = [holder EXCEPT ![v] = out]
                         /\ m_Handle' = [m_Handle EXCEPT ![out] = v]
  OBVIOUS
<1>2. out \in alive /\ out \in Object
  BY DEF Ready, TypeOK
<1>3. TypeOK'
  BY <1>1, <1>2 DEF TypeOK
<1>4. OwnersOK'
  <2> SUFFICES ASSUME careful, NEW q \in Object, owns'[q]
               PROVE  q \in alive' /\ m_Handle'[q] \in Value /\ holder'[m_Handle'[q]] = q
    BY DEF OwnersOK
  <2>1. CASE q = out
    BY <1>1, <1>2, <2>1 DEF TypeOK
  <2>2. CASE q # out
    <3>1. owns[q] /\ m_Handle'[q] = m_Handle[q]
      BY <1>1, <2>2 DEF TypeOK
    <3>2. q \in alive /\ m_Handle[q] \in Value /\ holder[m_Handle[q]] = q
      BY <3>1 DEF OwnersOK
    <3> QED BY <1>1, <3>1, <3>2 DEF TypeOK
  <2> QED BY <2>1, <2>2
<1> QED BY <1>3, <1>4 DEF CarefulCloses

\* A call that fails leaves every object what it holds and owns.
LEMMA FailedIInv ==
  ASSUME IInv, Failed PROVE IInv'
<1> USE NameAssumption DEF IInv, Failed, marks, Unwritten
<1>1. out \in alive /\ out \in Object
  BY DEF Ready, TypeOK
<1>2. m_Handle' = m_Handle
  BY <1>1 DEF TypeOK
<1>3. TypeOK'
  BY <1>1, <1>2 DEF TypeOK
<1> QED BY <1>2, <1>3 DEF OwnersOK, CarefulCloses

LEMMA OtherIInv ==
  ASSUME IInv, NEW v \in Value, OtherOpens(v) \/ OtherCloses(v) PROVE IInv'
<1> USE NameAssumption DEF IInv
<1>1. /\ UNCHANGED <<alive, m_Handle, owns, out, careful, wrong, asserted>>
      /\ holder[v] \notin Object
      /\ \/ holder' = [holder EXCEPT ![v] = Other]
         \/ holder' = [holder EXCEPT ![v] = Free]
  BY DEF OtherOpens, OtherCloses, marks
<1>2. TypeOK'
  BY <1>1 DEF TypeOK
<1>3. \A w \in Value : w # v => holder'[w] = holder[w]
  BY <1>1 DEF TypeOK
<1>4. OwnersOK'
  <2>1. ASSUME careful, NEW q \in Object, owns[q]
        PROVE  q \in alive /\ m_Handle[q] \in Value /\ holder'[m_Handle[q]] = q
    <3>1. q \in alive /\ m_Handle[q] \in Value /\ holder[m_Handle[q]] = q
      BY <2>1 DEF OwnersOK
    <3>2. m_Handle[q] # v
      BY <1>1, <3>1
    <3> QED BY <1>3, <3>1, <3>2
  <2> QED BY <1>1, <2>1 DEF OwnersOK
<1> QED BY <1>1, <1>2, <1>4 DEF CarefulCloses

LEMMA NextIInv == IInv /\ [Next]_vars => IInv'
<1> SUFFICES ASSUME IInv, [Next]_vars PROVE IInv'
  OBVIOUS
<1>1. ASSUME NEW o \in Object, Default(o) PROVE IInv'
  BY <1>1, ConstructIInv DEF Default
<1>2. ASSUME NEW o \in Object, FromHandle(o) PROVE IInv'
  BY <1>2, ConstructIInv DEF FromHandle
<1>3. ASSUME NEW o \in Object, NEW p \in Object, Copy(o, p) \/ Assign(o, p) PROVE IInv'
  BY <1>3, CopyIInv, AssignIInv
<1>4. ASSUME NEW o \in Object, Destroy(o) \/ TakeAddress(o) PROVE IInv'
  BY <1>4, DestroyIInv, TakeAddressIInv
<1>5. CASE Opened \/ Failed
  BY <1>5, OpenedIInv, FailedIInv
<1>6. ASSUME NEW v \in Value, OtherOpens(v) \/ OtherCloses(v) PROVE IInv'
  BY <1>6, OtherIInv
<1>7. CASE UNCHANGED vars
  BY <1>7 DEF IInv, vars, TypeOK, OwnersOK, CarefulCloses
<1> QED BY <1>1, <1>2, <1>3, <1>4, <1>5, <1>6, <1>7 DEF Next

LEMMA Inductive == Spec => []IInv
  BY InitIInv, NextIInv, PTL DEF Spec
-----------------------------------------------------------------------------
\* Handles, owners and flags keep their types through every construction,
\* copy, assignment and & (NtHandle.cpp:7-46).
THEOREM TypeCorrect == Spec => []TypeOK
<1>1. IInv => TypeOK
  BY DEF IInv
<1> QED BY <1>1, Inductive, PTL

\* As long as & is taken of objects that are empty or own what they hold, a
\* handle that an object has opened is open and its alone, for any number of
\* objects and of values (NtHandle.cpp:17-32).
THEOREM OwnersKeep == Spec => []OwnersOK
<1>1. IInv => OwnersOK
  BY DEF IInv
<1> QED BY <1>1, Inductive, PTL

\* With that care & never closes a handle of another, nor one that is closed:
\* the assertion of CloseHandle holds (NtHandle.cpp:39-46).
THEOREM CarefulNeverWrong == Spec => []CarefulCloses
<1>1. IInv => CarefulCloses
  BY DEF IInv
<1> QED BY <1>1, Inductive, PTL
=============================================================================
