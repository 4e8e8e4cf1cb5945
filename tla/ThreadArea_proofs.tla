------------------------- MODULE ThreadArea_proofs -------------------------
(***************************************************************************)
(* ThreadArea implements Segments: the slots never overlap, descriptors    *)
(* are never changed, so GS keeps the base it was loaded with.             *)
(***************************************************************************)
EXTENDS ThreadArea, TLAPS

IInv == TypeOK /\ SlotsDisjoint /\ PointersOK

\* What TlsAlloc does: a free, non-zero index or nothing.
LEMMA TlsAllocResult ==
  ASSUME IInv, NEW a \in TlsAlloc
  PROVE  \/ /\ a.slot \in Slot \ used /\ a.slot \notin {0, OUT, NULL}
            /\ a.used = used \cup {a.slot}
            /\ a.tls = tls
         \/ a.slot = OUT /\ a.used = used /\ a.tls = tls
<1>1. CASE a = [slot |-> OUT, used |-> used, tls |-> tls]
  BY <1>1
<1>2. ASSUME NEW s \in Slot \ used,
             a = [slot |-> s, used |-> used \cup {s},
                  tls |-> [tls EXCEPT ![s] = NULL]]
      PROVE  /\ a.slot \in Slot \ used /\ a.slot \notin {0, OUT, NULL}
             /\ a.used = used \cup {a.slot}
             /\ a.tls = tls
  <2>1. s # 0 /\ s # OUT
    BY SlotAssumption DEF IInv, SlotsDisjoint, OUT
  <2>2. [tls EXCEPT ![s] = NULL] = tls
    BY DEF IInv, TypeOK, PointersOK
  <2> QED BY <1>2, <2>1, <2>2 DEF NULL
<1> QED BY <1>1, <1>2 DEF TlsAlloc

LEMMA CurrentGsResult ==
  ASSUME IInv, NEW g \in CurrentGs
  PROVE  /\ g.tls = tls
         /\ g.slot \in Slot \cup {OUT} /\ g.slot # 0
         /\ used \subseteq g.used /\ g.used \subseteq Slot
         /\ g.slot # OUT => g.slot \in g.used \ (mine \cup HostSlots)
         /\ gsTls = 0 /\ g.slot # OUT => g.slot \in Slot \ used
         /\ gsTls # 0 => g.slot = gsTls /\ g.used = used
<1>1. CASE gsTls = 0
  <2>1. g \in TlsAlloc
    BY <1>1 DEF CurrentGs
  <2> QED BY <1>1, <2>1, TlsAllocResult
             DEF IInv, TypeOK, SlotsDisjoint, OUT, NULL
<1>2. CASE gsTls # 0
  <2>1. g = [slot |-> gsTls, used |-> used, tls |-> tls]
    BY <1>2 DEF CurrentGs
  <2> QED BY <1>2, <2>1 DEF IInv, TypeOK, SlotsDisjoint
<1> QED BY <1>1, <1>2

LEMMA InitIInv == Init => IInv
  BY SlotAssumption
  DEF Init, IInv, TypeOK, SlotsDisjoint, PointersOK, Pointer, NULL, HostValue,
      OUT, NoBase

\* Copying a descriptor to a slot that is the program's, or was just
\* allocated for it, keeps the invariant.
LEMMA CopyIInv ==
  ASSUME IInv, NEW s \in Slot, NEW b \in Base,
         s \notin HostSlots, s # gsTls,
         s \in used',
         used' \subseteq Slot, used \subseteq used',
         \/ used' = used /\ s \in mine
         \/ used' = used \cup {s},
         CopyDescriptor(s, b, tls),
         UNCHANGED <<gsTls, accessed>>
  PROVE  IInv'
<1> USE DEF IInv, TypeOK, SlotsDisjoint, PointersOK
<1>1. CASE /\ heap' = Append(heap, b)
           /\ tls' = TlsSetValue(tls, s, Len(heap) + 1)
           /\ mine' = mine \cup {s}
           /\ UNCHANGED alive
  <2>1. tls' = [tls EXCEPT ![s] = Len(heap) + 1]
    BY <1>1 DEF TlsSetValue
  <2>2. Len(heap') = Len(heap) + 1 /\ heap' \in Seq(Base) /\ Len(heap) \in Nat
    BY <1>1
  <2>3. tls' \in [Slot -> {NULL, HostValue} \cup 1 .. Len(heap')]
    BY <2>1, <2>2 DEF Pointer
  <2>4. TypeOK'
    BY <1>1, <2>2, <2>3 DEF Pointer
  <2>5. SlotsDisjoint'
    BY <1>1
  <2>6. PointersOK'
    BY <1>1, <2>1, <2>2
  <2> QED BY <2>4, <2>5, <2>6
<1>2. CASE alive' = FALSE /\ tls' = tls /\ UNCHANGED <<heap, mine>>
  BY <1>2 DEF Pointer
<1> QED BY <1>1, <1>2 DEF CopyDescriptor

LEMMA NextIInv == IInv /\ [Next]_vars => IInv'
<1> SUFFICES ASSUME IInv, [Next]_vars PROVE IInv'
  OBVIOUS
<1>1. ASSUME NEW b \in Base, AllocateThreadArea(b) PROVE IInv'
  <2>1. PICK a \in TlsAlloc :
          /\ used' = a.used
          /\ IF a.slot = OUT THEN UNCHANGED <<tls, heap, mine, alive>>
                             ELSE CopyDescriptor(a.slot, b, a.tls)
    BY <1>1 DEF AllocateThreadArea
  <2>2. UNCHANGED <<gsTls, accessed>>
    BY <1>1 DEF AllocateThreadArea
  <2>3. CASE a.slot = OUT
    BY <2>1, <2>2, <2>3, TlsAllocResult
       DEF IInv, TypeOK, SlotsDisjoint, PointersOK, Pointer
  <2>4. CASE a.slot # OUT
    <3>1. /\ a.slot \in Slot \ used /\ used' = used \cup {a.slot} /\ a.tls = tls
          /\ a.slot # 0
      BY <2>1, <2>4, TlsAllocResult
    <3>2. a.slot # gsTls /\ a.slot \notin HostSlots
      BY <2>4, <3>1 DEF IInv, SlotsDisjoint
    <3>3. used \subseteq used' /\ used' \subseteq Slot /\ a.slot \in used'
      BY <3>1 DEF IInv, TypeOK
    <3> QED BY <2>1, <2>2, <2>4, <3>1, <3>2, <3>3, CopyIInv
  <2> QED BY <2>3, <2>4
<1>2. ASSUME NEW b \in Base, NEW s \in mine, ChangeThreadArea(s, b) PROVE IInv'
  <2>1. /\ s \in Slot /\ s \in used /\ s \notin HostSlots /\ s # gsTls
        /\ used \subseteq Slot
    BY SlotAssumption DEF IInv, TypeOK, SlotsDisjoint, OUT
  <2> QED BY <1>2, <2>1, CopyIInv DEF ChangeThreadArea
<1>3. ASSUME NEW s \in Slot, GSLoad(s) PROVE IInv'
  <2>1. PICK g \in CurrentGs :
          /\ gsTls' = g.slot
          /\ used' = g.used
          /\ tls' = TlsSetValue(g.tls, g.slot, TlsGetValue(tls, s))
    BY <1>3 DEF GSLoad
  <2>2. /\ UNCHANGED <<heap, mine, accessed, alive>>
        /\ s \in mine \cup (Slot \ used)
    BY <1>3 DEF GSLoad
  <2>3. tls[s] \in {NULL} \cup 1 .. Len(heap)
    BY <2>2 DEF IInv, PointersOK
  <2>4. CASE g.slot = OUT
    <3>1. tls' = tls
      BY <2>1, <2>4, CurrentGsResult, SlotAssumption DEF TlsSetValue, OUT
    <3> QED BY <2>1, <2>2, <2>4, <3>1, CurrentGsResult
               DEF IInv, TypeOK, SlotsDisjoint, PointersOK, Pointer, OUT
  <2>5. CASE g.slot # OUT
    <3>1. /\ g.slot \in Slot /\ g.slot \in g.used \ (mine \cup HostSlots)
          /\ tls' = [tls EXCEPT ![g.slot] = tls[s]]
      BY <2>1, <2>5, CurrentGsResult DEF TlsSetValue, TlsGetValue
    <3>2. tls' \in [Slot -> Pointer]
      BY <2>3, <3>1 DEF IInv, TypeOK, Pointer
    <3> QED BY <2>1, <2>2, <2>3, <3>1, <3>2, CurrentGsResult
               DEF IInv, TypeOK, SlotsDisjoint, PointersOK, Pointer
  <2> QED BY <2>4, <2>5
<1>4. ASSUME NEW o \in Offset, GSAccess(o) PROVE IInv'
  <2>1. PICK g \in CurrentGs :
          LET pDescriptor == TlsGetValue(g.tls, g.slot) IN
          /\ gsTls' = g.slot
          /\ used' = g.used
          /\ tls' = g.tls
          /\ IF pDescriptor = NULL
               THEN alive' = FALSE /\ UNCHANGED accessed
               ELSE /\ accessed' = LinearAddress(heap[pDescriptor], o)
                    /\ UNCHANGED alive
    BY <1>4 DEF GSAccess
  <2>2. UNCHANGED <<heap, mine, tls>>
    BY <1>4, <2>1, CurrentGsResult DEF GSAccess
  <2>3. g.slot # OUT /\ gsTls = 0 => tls[g.slot] = NULL
    BY CurrentGsResult DEF IInv, PointersOK
  <2>4. g.slot # OUT => tls[g.slot] \in {NULL} \cup 1 .. Len(heap)
    BY <2>3, CurrentGsResult DEF IInv, PointersOK
  <2>5. alive' \in BOOLEAN
    BY <2>1 DEF IInv, TypeOK
  <2>6. accessed' \in {NoBase} \cup 0 .. Modulus - 1
    <3>1. CASE TlsGetValue(g.tls, g.slot) = NULL
      BY <2>1, <3>1 DEF IInv, TypeOK
    <3>2. CASE TlsGetValue(g.tls, g.slot) # NULL
      <4>1. g.slot \in Slot /\ g.slot # OUT /\ TlsGetValue(g.tls, g.slot) = tls[g.slot]
        BY <3>2, CurrentGsResult, SlotAssumption DEF TlsGetValue, OUT
      <4>2. heap[tls[g.slot]] \in Base
        BY <2>4, <3>2, <4>1 DEF IInv, TypeOK
      <4>3. heap[tls[g.slot]] + o \in Int
        BY <4>2, AddressAssumption
      <4>4. accessed' = (heap[tls[g.slot]] + o) % Modulus
        BY <2>1, <3>2, <4>1 DEF LinearAddress
      <4> QED BY <4>3, <4>4, AddressAssumption
    <3> QED BY <3>1, <3>2
  <2>7. TypeOK'
    BY <2>1, <2>2, <2>5, <2>6, CurrentGsResult DEF IInv, TypeOK, Pointer
  <2>8. SlotsDisjoint'
    BY <2>1, <2>2, CurrentGsResult DEF IInv, SlotsDisjoint
  <2>9. PointersOK'
    BY <2>1, <2>2, <2>4, CurrentGsResult DEF IInv, PointersOK
  <2> QED BY <2>7, <2>8, <2>9 DEF IInv
<1>5. CASE UNCHANGED vars
  BY <1>5 DEF vars, IInv, TypeOK, SlotsDisjoint, PointersOK, Pointer
<1> QED BY <1>1, <1>2, <1>3, <1>4, <1>5 DEF Next

\* Slots, descriptors and the index GsTls keep their types, failures of TlsAlloc
\* and malloc included (sys_tls.c:9-35, gs_support.c:7-30).
THEOREM TypeCorrect == Spec => []TypeOK
<1> QED BY InitIInv, NextIInv, PTL DEF Spec, IInv

\* The slots of the host, of the program's descriptors and of GsTls never
\* overlap (sys_tls.c:15-32, gs_support.c:7-30).
THEOREM SlotsNeverOverlap == Spec => []SlotsDisjoint
<1> QED BY InitIInv, NextIInv, PTL DEF Spec, IInv

\* GsTls points to a descriptor of the program or nowhere, so the address a
\* GS-relative access uses never comes from the host's data
\* (gs_support.c:21-39).
THEOREM PointersValid == Spec => []PointersOK
<1> QED BY InitIInv, NextIInv, PTL DEF Spec, IInv
-----------------------------------------------------------------------------
LEMMA InitSegments == Init => Seg!Init
  BY DEF Init, Seg!Init, SeenTable, SeenLoaded, NoBase, Seg!NoBase

\* A new copy leaves every other descriptor, and what GS is loaded with,
\* alone.
LEMMA CopySegments ==
  ASSUME IInv, NEW s \in Slot, NEW b \in Base, s # gsTls, alive = TRUE,
         CopyDescriptor(s, b, tls),
         UNCHANGED <<gsTls, accessed>>
  PROVE  Seg!Define(s, b) \/ Seg!Die
<1> USE DEF IInv, TypeOK, SlotsDisjoint, PointersOK
<1>1. CASE /\ heap' = Append(heap, b)
           /\ tls' = TlsSetValue(tls, s, Len(heap) + 1)
           /\ mine' = mine \cup {s}
           /\ UNCHANGED alive
  <2>1. tls' = [tls EXCEPT ![s] = Len(heap) + 1]
    BY <1>1 DEF TlsSetValue
  <2>2. /\ heap'[Len(heap) + 1] = b
        /\ \A i \in 1 .. Len(heap) : heap'[i] = heap[i]
    BY <1>1
  <2>3. \A d \in mine \cup {s} :
          heap'[tls'[d]] = IF d = s THEN b ELSE SeenTable[d]
    BY <2>1, <2>2 DEF SeenTable
  <2>4. SeenTable' = [d \in DOMAIN SeenTable \cup {s} |->
                        IF d = s THEN b ELSE SeenTable[d]]
    <3>1. DOMAIN SeenTable = mine
      BY DEF SeenTable
    <3>2. SeenTable' = [d \in mine \cup {s} |-> heap'[tls'[d]]]
      BY <1>1 DEF SeenTable
    <3> QED BY <2>3, <3>1, <3>2
  <2>5. SeenLoaded' = SeenLoaded
    <3>1. CASE gsTls \in {0, OUT}
      BY <3>1 DEF SeenLoaded
    <3>2. CASE gsTls \notin {0, OUT}
      <4>1. tls'[gsTls] = tls[gsTls]
        BY <2>1, <3>2
      <4>2. tls[gsTls] \in {NULL} \cup 1 .. Len(heap)
        BY <3>2
      <4> QED BY <2>2, <4>1, <4>2 DEF SeenLoaded
    <3> QED BY <3>1, <3>2
  <2>6. Seg!Define(s, b)
    BY <1>1, <2>4, <2>5 DEF Seg!Define
  <2> QED BY <2>6
<1>2. CASE alive' = FALSE /\ tls' = tls /\ UNCHANGED <<heap, mine>>
  BY <1>2 DEF Seg!Die, SeenTable, SeenLoaded
<1> QED BY <1>1, <1>2 DEF CopyDescriptor

LEMMA NextSegments == IInv /\ [Next]_vars => [Seg!Next]_(Seg!vars)
<1> SUFFICES ASSUME IInv, [Next]_vars PROVE [Seg!Next]_(Seg!vars)
  OBVIOUS
<1>1. ASSUME NEW b \in Base, AllocateThreadArea(b)
      PROVE  [Seg!Next]_(Seg!vars)
  <2>1. PICK a \in TlsAlloc :
          IF a.slot = OUT THEN UNCHANGED <<tls, heap, mine, alive>>
                          ELSE CopyDescriptor(a.slot, b, a.tls)
    BY <1>1 DEF AllocateThreadArea
  <2>2. UNCHANGED <<gsTls, accessed>> /\ alive = TRUE
    BY <1>1 DEF AllocateThreadArea, IInv, TypeOK
  <2>3. CASE a.slot = OUT
    BY <2>1, <2>2, <2>3 DEF Seg!vars, SeenTable, SeenLoaded
  <2>4. CASE a.slot # OUT
    <3>1. a.slot \in Slot \ used /\ a.tls = tls /\ a.slot # 0
      BY <2>4, TlsAllocResult
    <3>2. a.slot # gsTls
      BY <2>4, <3>1 DEF IInv, SlotsDisjoint
    <3> QED BY <2>1, <2>2, <2>4, <3>1, <3>2, CopySegments DEF Seg!Next
  <2> QED BY <2>3, <2>4
<1>2. ASSUME NEW b \in Base, NEW s \in mine, ChangeThreadArea(s, b)
      PROVE  [Seg!Next]_(Seg!vars)
  <2>1. s \in Slot /\ s # gsTls
    BY SlotAssumption DEF IInv, TypeOK, SlotsDisjoint, OUT
  <2>2. UNCHANGED <<gsTls, accessed>> /\ alive = TRUE
    BY <1>2 DEF ChangeThreadArea, IInv, TypeOK
  <2> QED BY <1>2, <2>1, <2>2, CopySegments DEF ChangeThreadArea, Seg!Next
<1>3. ASSUME NEW s \in Slot, GSLoad(s) PROVE [Seg!Next]_(Seg!vars)
  <2>1. PICK g \in CurrentGs :
          /\ gsTls' = g.slot
          /\ tls' = TlsSetValue(g.tls, g.slot, TlsGetValue(tls, s))
    BY <1>3 DEF GSLoad
  <2>2. /\ UNCHANGED <<heap, mine, accessed, alive>>
        /\ s \in mine \cup (Slot \ used) /\ alive
    BY <1>3 DEF GSLoad
  <2>3. g.slot \notin mine /\ g.slot # 0 /\ g.tls = tls
    BY CurrentGsResult, SlotAssumption DEF OUT, IInv, TypeOK
  <2>4. SeenTable' = SeenTable
    <3>1. \A d \in mine : tls'[d] = tls[d]
      BY <2>1, <2>3 DEF TlsSetValue, IInv, TypeOK
    <3> QED BY <2>2, <3>1 DEF SeenTable
  <2>5. CASE g.slot = OUT
    <3>1. gsTls \in {0, OUT}
      BY <2>5, CurrentGsResult
    <3>2. SeenLoaded = Seg!NoBase /\ SeenLoaded' = Seg!NoBase
      BY <2>1, <2>5, <3>1 DEF SeenLoaded, NoBase, Seg!NoBase
    <3> QED BY <2>2, <2>4, <3>2 DEF Seg!Load, Seg!Next
  <2>6. CASE g.slot # OUT
    <3>1. g.slot \in Slot /\ tls' = [tls EXCEPT ![g.slot] = tls[s]]
      BY <2>1, <2>3, <2>6, CurrentGsResult DEF TlsSetValue, TlsGetValue
    <3>2. gsTls' \notin {0, OUT} /\ tls'[gsTls'] = tls[s]
      BY <2>1, <2>3, <2>6, <3>1 DEF IInv, TypeOK
    <3>3. DOMAIN SeenTable = mine
      BY DEF SeenTable
    <3>4. CASE s \in mine
      <4>1. tls[s] # NULL
        BY <3>4 DEF IInv, PointersOK, TypeOK, NULL
      <4>2. SeenLoaded' = SeenTable[s]
        BY <2>2, <3>2, <3>4, <4>1 DEF SeenLoaded, SeenTable
      <4> QED BY <2>2, <2>4, <3>3, <3>4, <4>2 DEF Seg!Load, Seg!Next
    <3>5. CASE s \notin mine
      <4>1. tls[s] = NULL
        BY <2>2, <3>5 DEF IInv, PointersOK
      <4>2. SeenLoaded' = Seg!NoBase
        BY <3>2, <4>1 DEF SeenLoaded, NoBase, Seg!NoBase
      <4> QED BY <2>2, <2>4, <3>3, <3>5, <4>2 DEF Seg!Load, Seg!Next
    <3> QED BY <3>4, <3>5
  <2> QED BY <2>5, <2>6
<1>4. ASSUME NEW o \in Offset, GSAccess(o) PROVE [Seg!Next]_(Seg!vars)
  <2>1. PICK g \in CurrentGs :
          LET pDescriptor == TlsGetValue(g.tls, g.slot) IN
          /\ gsTls' = g.slot
          /\ tls' = g.tls
          /\ IF pDescriptor = NULL
               THEN alive' = FALSE /\ UNCHANGED accessed
               ELSE /\ accessed' = LinearAddress(heap[pDescriptor], o)
                    /\ UNCHANGED alive
    BY <1>4 DEF GSAccess
  <2>2. UNCHANGED <<heap, mine, tls>> /\ alive /\ g.tls = tls
    BY <1>4, <2>1, CurrentGsResult DEF GSAccess
  <2>3. SeenTable' = SeenTable
    BY <2>2 DEF SeenTable
  <2>4. gsTls = 0 => TlsGetValue(tls, g.slot) = NULL
    BY CurrentGsResult, SlotAssumption DEF TlsGetValue, IInv, PointersOK, OUT
  <2>5. gsTls # 0 => g.slot = gsTls
    BY CurrentGsResult
  <2>6. CASE TlsGetValue(tls, g.slot) = NULL
    <3>1. SeenLoaded' = SeenLoaded
      BY <2>1, <2>2, <2>4, <2>5, <2>6, CurrentGsResult
         DEF SeenLoaded, TlsGetValue
    <3> QED BY <2>1, <2>2, <2>3, <2>6, <3>1 DEF Seg!Die, Seg!Next
  <2>7. CASE TlsGetValue(tls, g.slot) # NULL
    <3>1. gsTls # 0 /\ g.slot = gsTls
      BY <2>4, <2>5, <2>7
    <3>2. gsTls # OUT /\ TlsGetValue(tls, g.slot) = tls[gsTls]
      BY <2>7, <3>1, SlotAssumption DEF TlsGetValue, OUT
    <3>3. tls[gsTls] \in 1 .. Len(heap)
      BY <2>7, <3>1, <3>2 DEF IInv, PointersOK
    <3>4. SeenLoaded = heap[tls[gsTls]] /\ SeenLoaded' = SeenLoaded
      BY <2>1, <2>2, <2>7, <3>1, <3>2 DEF SeenLoaded
    <3>5. SeenLoaded # Seg!NoBase
      BY <3>3, <3>4, AddressAssumption DEF IInv, TypeOK, Seg!NoBase
    <3>6. accessed' = (SeenLoaded + o) % Modulus /\ UNCHANGED alive
      BY <2>1, <2>2, <2>7, <3>2, <3>4 DEF LinearAddress
    <3>7. Seg!Access(o)
      BY <2>2, <2>3, <3>4, <3>5, <3>6 DEF Seg!Access
    <3> QED BY <3>7 DEF Seg!Next
  <2> QED BY <2>6, <2>7
<1>5. CASE UNCHANGED vars
  BY <1>5 DEF vars, Seg!vars, SeenTable, SeenLoaded
<1> QED BY <1>1, <1>2, <1>3, <1>4, <1>5 DEF Next

\* A GS-relative access goes through the base GS was loaded with last, no
\* matter which descriptors were defined or redefined since.
THEOREM GsKeepsItsBase == Spec => GsIsLastLoaded
<1>1. Spec => []IInv
  BY InitIInv, NextIInv, PTL DEF Spec
<1> QED
  BY <1>1, InitSegments, NextSegments, PTL DEF Spec, GsIsLastLoaded, Seg!Spec
=============================================================================
