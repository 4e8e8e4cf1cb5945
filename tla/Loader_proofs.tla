---------------------------- MODULE Loader_proofs ----------------------------
(***************************************************************************)
(* What the loader keeps, for every file, granularity and address space.   *)
(* The invariant follows the loader: before the view exists nothing is     *)
(* stored but what late reads leave on the stack; the boundaries enclose   *)
(* the headers the loop has passed; from MapViewOfSection on every segment *)
(* lies in the view, hence outside of the host and of the stack; and each  *)
(* store fills bytes of its own segment only.                              *)
(***************************************************************************)
EXTENDS Loader, FiniteSetTheorems, TLAPS

BeforeView == {"main", "open", "header", "magic", "sections", "strtab",
               "phdrs", "bounds", "section", "view"}
Mapped == {"segments", "interceptor", "running"}

\* Nothing was stored at a but, if it is on the stack, by a late read.
Untouched(a) == memory[a] = 0 \/ (a \in Stack /\ memory[a] = Strewn)

NothingStored == stage \in BeforeView =>
    late \subseteq {0} /\ cut = {} /\ \A a \in Address : Untouched(a)

Unwritten == stage \in BeforeView \union {"segments", "interceptor"} => written = {}

Enclosed(i) == IsLoad(phdrs[i]) /\ Fits(phdrs[i]) =>
    /\ Min <= phdrs[i].vaddr
    /\ phdrs[i].vaddr + phdrs[i].memsz <= Max

BoundsFound ==
    /\ stage = "bounds" => \A i \in 1 .. Len(phdrs) : i < next => Enclosed(i)
    /\ stage \in {"section", "view"} => \A i \in 1 .. Len(phdrs) : Enclosed(i)

\* Min is the lowest address of a segment, if there is one.
MinFound == stage \in {"bounds", "section", "view"} =>
    (AllFit => Min = Modulus - 1 \/ Granule <= Min)

LateAreLoads == \A i \in late : i # 0 => IsLoad(phdrs[i])

SegmentsInView == stage \in Mapped /\ AllFit =>
    \A i \in 1 .. Len(phdrs) :
        IsLoad(phdrs[i]) => Bytes(phdrs[i], phdrs[i].memsz) \subseteq view

ViewIsFree == view \intersect Host = {}

HostKept == AllFit => \A a \in Host : Untouched(a)

Source(p, a) == p.offset + (a - p.vaddr) + 1

Programs(a) == a \in written /\ memory[a] = OwnData

\* A byte of a segment is its own byte of the file or the program's or still
\* zero, and it is not zero when the segment has been read in full.
Own(i) == \A a \in Bytes(phdrs[i], phdrs[i].memsz) :
    \/ a \in Bytes(phdrs[i], phdrs[i].filesz) /\ memory[a] = Source(phdrs[i], a)
    \/ memory[a] = 0
    \/ Programs(a)

Complete(i) == \A a \in Bytes(phdrs[i], phdrs[i].filesz) :
    memory[a] = Source(phdrs[i], a) \/ Programs(a)

Contents == stage \in Mapped /\ AllFit /\ Disjoint =>
    \A i \in 1 .. Len(phdrs) : IsLoad(phdrs[i]) =>
        /\ Own(i)
        /\ (stage = "segments" => i < next) /\ i \notin late \union cut => Complete(i)

Keeps(i) == \A a \in Bytes(phdrs[i], phdrs[i].memsz) : a \in written => memory[a] = OwnData

Kept == stage = "running" =>
    /\ late \subseteq slow
    /\ AllFit /\ Disjoint => \A i \in 1 .. Len(phdrs) :
           IsLoad(phdrs[i]) /\ i \notin slow => Keeps(i)

IInv == /\ TypeOK /\ NothingStored /\ Unwritten /\ BoundsFound /\ MinFound
        /\ LateAreLoads /\ SegmentsInView /\ ViewIsFree /\ HostKept /\ Contents
        /\ Kept

(***************************************************************************)
(* Lemmas.                                                                 *)
(***************************************************************************)
LEMMA WordFacts ==
  ASSUME NEW p \in Phdr
  PROVE  /\ p.vaddr \in Word /\ p.memsz \in Word /\ p.filesz \in Word
         /\ p.offset \in Word
         /\ End(p) \in Word
         /\ Fits(p) /\ IsLoad(p) => End(p) = p.vaddr + p.memsz
<1>1. /\ p.vaddr \in Word /\ p.memsz \in Word /\ p.filesz \in Word
      /\ p.offset \in Word
  BY DEF Phdr
<1>2. Modulus \in Nat /\ Modulus > 0
  BY <1>1, ArithmeticAssumption DEF Word
<1>3. \A x \in Nat : x % Modulus \in Word /\ (x < Modulus => x % Modulus = x)
  BY <1>2 DEF Word
<1>4. p.vaddr + p.memsz \in Nat
  BY <1>1, <1>2 DEF Word
<1> QED BY <1>1, <1>3, <1>4 DEF End, Fits

\* A store changes bytes of its own segment only, and keeps them its own.
LEMMA StoreKeeps ==
  ASSUME NEW m \in [Address -> Byte], NEW p \in Phdr, NEW n \in 0 .. p.filesz
  PROVE  /\ Stored(m, p, n) \in [Address -> Byte]
         /\ \A a \in Address \ Bytes(p, n) : Stored(m, p, n)[a] = m[a]
         /\ \A a \in Address \cap Bytes(p, n) : Stored(m, p, n)[a] = Source(p, a)
<1>1. p.vaddr \in Nat /\ p.filesz \in Nat /\ p.offset \in Nat
  BY WordFacts, ArithmeticAssumption DEF Word
<1>2. \A a \in Bytes(p, n) : p.offset + (a - p.vaddr) + 1 \in Byte
  BY <1>1 DEF Bytes, Byte
<1> QED BY <1>2 DEF Stored, Source

\* Nor does what strikes the stack change anything else.
LEMMA StrikeKeeps ==
  ASSUME NEW m \in [Address -> Byte], NEW m2 \in Struck(m)
  PROVE  /\ m2 \in [Address -> Byte]
         /\ \A a \in Address : m2[a] = m[a] \/ (a \in Stack /\ m2[a] = Strewn)
<1>1. PICK b \in Stack : m2 = [m EXCEPT ![b] = Strewn]
  BY DEF Struck
<1>2. Strewn \in Byte
  BY DEF Byte
<1> QED BY <1>1, <1>2

LEMMA FilePart ==
  ASSUME NEW p \in Phdr, IsLoad(p), Fits(p), NEW n \in 0 .. p.filesz
  PROVE  /\ Bytes(p, n) \subseteq Bytes(p, p.filesz)
         /\ Bytes(p, p.filesz) \subseteq Bytes(p, p.memsz)
  BY WordFacts, ArithmeticAssumption DEF Bytes, Fits, Word

\* When all headers fit, a store leaves the host alone, but for what strikes
\* the stack, and every segment's bytes its own.
LEMMA StoreIsLocal ==
  ASSUME TypeOK, NEW j \in 1 .. Len(phdrs), IsLoad(phdrs[j]),
         NEW n \in 0 .. phdrs[j].filesz, AllFit, ViewIsFree,
         \A i \in 1 .. Len(phdrs) :
             IsLoad(phdrs[i]) => Bytes(phdrs[i], phdrs[i].memsz) \subseteq view,
         phdrs' = phdrs, written' = written,
         \A a \in Address : \/ memory'[a] = Stored(memory, phdrs[j], n)[a]
                            \/ a \in Stack /\ memory'[a] = Strewn
  PROVE  /\ HostKept => HostKept'
         /\ Disjoint => \A i \in 1 .. Len(phdrs) : IsLoad(phdrs[i]) =>
                /\ Own(i) => Own(i)'
                /\ Own(i) /\ Complete(i) => Complete(i)'
                /\ Own(i) /\ i = j /\ n = phdrs[j].filesz => Complete(i)'
                /\ i # j /\ Keeps(i) => Keeps(i)'
<1> DEFINE p == phdrs[j]
<1>1. p \in Phdr /\ Fits(p) /\ IsLoad(p) /\ memory \in [Address -> Byte]
  BY DEF TypeOK, AllFit
<1>2. Bytes(p, n) \subseteq Bytes(p, p.filesz) /\ Bytes(p, p.filesz) \subseteq Bytes(p, p.memsz)
  BY <1>1, FilePart
<1>3. /\ \A a \in Address \ Bytes(p, n) :
            memory'[a] = memory[a] \/ (a \in Stack /\ memory'[a] = Strewn)
      /\ \A a \in Address \cap Bytes(p, n) :
            memory'[a] = Source(p, a) \/ a \in Stack
  BY <1>1, StoreKeeps
<1>4. view \subseteq Address /\ Bytes(p, p.memsz) \subseteq view
      /\ (\A a \in view : a \notin Host /\ a \notin Stack)
  BY ArithmeticAssumption DEF TypeOK, ViewIsFree
<1>5. ASSUME HostKept PROVE HostKept'
  <2>1. AllFit' <=> AllFit
    BY DEF AllFit
  <2>2. ASSUME NEW a \in Host PROVE Untouched(a)'
    <3>1. a \in Address \ Bytes(p, n)
      BY <1>2, <1>4, ArithmeticAssumption
    <3> QED BY <3>1, <1>3, <1>5 DEF HostKept, Untouched
  <2> QED BY <2>2 DEF HostKept
<1>6. ASSUME Disjoint, NEW i \in 1 .. Len(phdrs), IsLoad(phdrs[i])
      PROVE  /\ Own(i) => Own(i)'
             /\ Own(i) /\ Complete(i) => Complete(i)'
             /\ Own(i) /\ i = j /\ n = p.filesz => Complete(i)'
             /\ i # j /\ Keeps(i) => Keeps(i)'
  <2> DEFINE q == phdrs[i]
  <2>1. q \in Phdr /\ Fits(q)
    BY DEF TypeOK, AllFit
  <2>2. q.filesz \in Nat /\ q.filesz \in 0 .. q.filesz
    BY <2>1, WordFacts, ArithmeticAssumption DEF Word
  <2>3. Bytes(q, q.filesz) \subseteq Bytes(q, q.memsz) /\ Bytes(q, q.memsz) \subseteq view
    BY <2>1, <2>2, <1>6, FilePart
  <2>4. CASE i = j
    <3>1. \A a \in Bytes(q, q.memsz) :
            IF a \in Bytes(q, n) THEN memory'[a] = Source(q, a)
                                 ELSE memory'[a] = memory[a]
      BY <2>3, <2>4, <1>3, <1>4
    <3>2. Own(i) => Own(i)'
      BY <3>1, <1>2, <2>4 DEF Own, Programs
    <3>3. Complete(i) => Complete(i)'
      BY <3>1, <2>3 DEF Complete, Programs
    <3>4. n = p.filesz => Complete(i)'
      BY <3>1, <2>3, <2>4 DEF Complete
    <3> QED BY <3>2, <3>3, <3>4, <2>4
  <2>5. CASE i # j
    <3>1. Bytes(q, q.memsz) \cap Bytes(p, p.memsz) = {}
      BY <2>5, <1>6, <1>1 DEF Disjoint
    <3>2. \A a \in Bytes(q, q.memsz) : memory'[a] = memory[a]
      BY <3>1, <2>3, <1>2, <1>3, <1>4
    <3>3. Own(i) => Own(i)'
      BY <3>2 DEF Own, Programs
    <3>4. Complete(i) => Complete(i)'
      BY <3>2, <2>3 DEF Complete, Programs
    <3>5. Keeps(i) => Keeps(i)'
      BY <3>2 DEF Keeps
    <3> QED BY <3>3, <3>4, <3>5, <2>5
  <2> QED BY <2>4, <2>5
<1> QED BY <1>5, <1>6

\* What only strikes the stack leaves the host untouched and the image alone.
LEMMA StrikeIsLocal ==
  ASSUME TypeOK, ViewIsFree, phdrs' = phdrs, written' = written, memory' \in Struck(memory)
  PROVE  /\ memory' \in [Address -> Byte]
         /\ \A a \in Address : Untouched(a) => Untouched(a)'
         /\ HostKept => HostKept'
         /\ \A i \in 1 .. Len(phdrs) :
                IsLoad(phdrs[i]) /\ Bytes(phdrs[i], phdrs[i].memsz) \subseteq view =>
                    /\ Own(i) => Own(i)'
                    /\ Fits(phdrs[i]) /\ Complete(i) => Complete(i)'
                    /\ Keeps(i) => Keeps(i)'
<1>1. memory \in [Address -> Byte]
  BY DEF TypeOK
<1>2. /\ memory' \in [Address -> Byte]
      /\ \A a \in Address : memory'[a] = memory[a] \/ (a \in Stack /\ memory'[a] = Strewn)
  BY <1>1, StrikeKeeps
<1>3. \A a \in Address : Untouched(a) => Untouched(a)'
  BY <1>2 DEF Untouched
<1>4. HostKept => HostKept'
  BY <1>3, ArithmeticAssumption DEF HostKept, AllFit
<1>5. \A a \in view : memory'[a] = memory[a]
  BY <1>2, ArithmeticAssumption DEF TypeOK, ViewIsFree
<1>6. ASSUME NEW i \in 1 .. Len(phdrs), IsLoad(phdrs[i]),
             Bytes(phdrs[i], phdrs[i].memsz) \subseteq view
      PROVE  /\ Own(i) => Own(i)'
             /\ Fits(phdrs[i]) /\ Complete(i) => Complete(i)'
             /\ Keeps(i) => Keeps(i)'
  <2>1. \A a \in Bytes(phdrs[i], phdrs[i].memsz) : memory'[a] = memory[a]
    BY <1>5, <1>6
  <2>2. ASSUME Fits(phdrs[i]), Complete(i) PROVE Complete(i)'
    <3>1. phdrs[i] \in Phdr
      BY DEF TypeOK
    <3>2. phdrs[i].filesz \in 0 .. phdrs[i].filesz
      BY <3>1, WordFacts, ArithmeticAssumption DEF Word
    <3>3. Bytes(phdrs[i], phdrs[i].filesz) \subseteq Bytes(phdrs[i], phdrs[i].memsz)
      BY <3>1, <3>2, <1>6, <2>2, FilePart
    <3> QED BY <3>3, <2>1, <2>2 DEF Complete, Programs
  <2> QED BY <2>1, <2>2 DEF Own, Keeps, Programs
<1> QED BY <1>2, <1>3, <1>4, <1>6

\* The view Map asks for encloses every segment, when all of them fit.
LEMMA ViewEncloses ==
  ASSUME TypeOK, AllFit, NEW i \in 1 .. Len(phdrs), IsLoad(phdrs[i]),
         Enclosed(i), Min = Modulus - 1 \/ Granule <= Min, NEW base \in Bases
  PROVE  Bytes(phdrs[i], phdrs[i].memsz) \subseteq base .. base + MappingSize - 1
<1> DEFINE p == phdrs[i]
           r == Min % Granule
<1>1. /\ p.vaddr \in Nat /\ p.memsz \in Nat /\ Granule <= p.vaddr
      /\ p.vaddr + p.memsz < Modulus
      /\ Min <= p.vaddr /\ p.vaddr + p.memsz <= Max
  <2>1. p \in Phdr /\ Fits(p) /\ Enclosed(i)
    BY DEF TypeOK, AllFit
  <2>2. p.vaddr \in Word /\ p.memsz \in Word
    BY <2>1, WordFacts
  <2>3. p.vaddr \in Nat /\ p.memsz \in Nat
    BY <2>2, ArithmeticAssumption DEF Word
  <2> QED BY <2>1, <2>3 DEF Fits, Enclosed
<1>2. Min \in Nat /\ Max \in Nat /\ Max < Modulus /\ Granule \in Nat /\ Granule > 0
  BY ArithmeticAssumption DEF TypeOK, Word
<1>3. r \in Nat /\ r < Granule
  BY <1>2
<1>4. Granule <= Min
  <2> HIDE DEF p
  <2>1. CASE Min = Modulus - 1
    BY <2>1, <1>1, <1>2, ArithmeticAssumption
  <2> QED BY <2>1
<1> HIDE DEF r
<1>5. MappingBase # 0 /\ MappingBase = Min - r
  BY <1>2, <1>3, <1>4 DEF MappingBase, r
<1>6. base = Min - r
  BY <1>5 DEF Bases
<1>7. (Max - Min) + r \in 0 .. Modulus - 1
  <2> HIDE DEF p
  <2>1. Min <= Max
    BY <1>1, <1>2
  <2> QED BY <2>1, <1>2, <1>3, <1>4, ArithmeticAssumption
<1>8. MappingSize = (Max - Min) + r
  <2>1. \A x \in 0 .. Modulus - 1 : x % Modulus = x
    BY ArithmeticAssumption
  <2>2. MappingSize = ((Max - Min) + r) % Modulus
    BY DEF MappingSize, r
  <2> QED BY ONLY <2>1, <2>2, <1>7
<1>9. base <= p.vaddr /\ p.vaddr + p.memsz <= base + MappingSize /\ base \in Int
  <2> HIDE DEF p
  <2>1. base + MappingSize = Max
    BY <1>2, <1>3, <1>6, <1>8
  <2> QED BY <2>1, <1>1, <1>2, <1>3, <1>6
<1>10. MappingSize \in Int
  BY <1>2, <1>3, <1>8
<1> QED BY <1>1, <1>9, <1>10 DEF Bytes

(***************************************************************************)
(* The invariant is inductive.                                             *)
(***************************************************************************)
LEMMA InitIInv == Init => IInv
<1> SUFFICES ASSUME Init PROVE IInv
  OBVIOUS
<1>1. Modulus > 0 /\ Modulus \in Nat
  BY ArithmeticAssumption
<1>2. \A a \in Address : memory[a] = 0
  BY DEF Init
<1>3. TypeOK
  <2>1. phdrs = <<>> /\ sections = <<>> /\ Len(phdrs) = 0
    BY DEF Init
  <2>2. phdrs \in Seq(Phdr) /\ sections \in Seq(SectionType)
    BY <2>1
  <2>3. Min \in Word /\ Max \in Word /\ memory \in [Address -> Byte]
    BY <1>1 DEF Init, Word, Byte
  <2>4. late \subseteq 0 .. Len(phdrs) /\ cut \subseteq 1 .. Len(phdrs)
        /\ view \subseteq Address /\ slow \subseteq 0 .. Len(phdrs)
        /\ written \subseteq view
    BY DEF Init
  <2>5. /\ stage = "main" /\ file \in Files /\ next = 1 /\ thrown = "none"
        /\ leftover \in StaleHeader /\ arrived = 0 /\ orphans = 0
    BY DEF Init
  <2>6. next \in Nat \ {0} /\ arrived \in 0 .. Fields /\ orphans \in Nat
    BY <2>5 DEF Fields
  <2> QED BY <2>2, <2>3, <2>4, <2>5, <2>6 DEF TypeOK
<1>4. NothingStored /\ Unwritten /\ BoundsFound /\ MinFound /\ LateAreLoads
  BY <1>2 DEF Init, NothingStored, Unwritten, BoundsFound, MinFound, LateAreLoads, Untouched
<1>5. SegmentsInView /\ Contents /\ Kept
  BY DEF Init, SegmentsInView, Contents, Kept, Mapped
<1>6. ViewIsFree /\ HostKept
  BY <1>2, ArithmeticAssumption DEF Init, ViewIsFree, HostKept, Untouched
<1> QED BY <1>3, <1>4, <1>5, <1>6 DEF IInv

\* The parts of the invariant that only the headers, the view and the
\* memory decide.
LEMMA Unmoved ==
  ASSUME UNCHANGED <<headerVars, boundVars, segmentVars, written>>
  PROVE  /\ AllFit' <=> AllFit
         /\ Disjoint' <=> Disjoint
         /\ ViewIsFree' <=> ViewIsFree
         /\ HostKept' <=> HostKept
         /\ LateAreLoads' <=> LateAreLoads
         /\ \A a : Untouched(a)' <=> Untouched(a)
         /\ \A i : Enclosed(i)' <=> Enclosed(i)
         /\ \A i : Own(i)' <=> Own(i)
         /\ \A i : Complete(i)' <=> Complete(i)
         /\ \A i : Keeps(i)' <=> Keeps(i)
<1>1. AllFit' <=> AllFit
  BY DEF headerVars, AllFit
<1>2. Disjoint' <=> Disjoint
  BY DEF headerVars, Disjoint
<1>3. ViewIsFree' <=> ViewIsFree
  BY DEF boundVars, ViewIsFree
<1>4. \A a : Untouched(a)' <=> Untouched(a)
  BY DEF segmentVars, Untouched
<1>5. HostKept' <=> HostKept
  BY <1>1, <1>4 DEF HostKept
<1>6. LateAreLoads' <=> LateAreLoads
  BY DEF segmentVars, headerVars, LateAreLoads
<1>7. \A i : Enclosed(i)' <=> Enclosed(i)
  BY DEF headerVars, boundVars, Enclosed
<1>8. \A i : Own(i)' <=> Own(i)
  BY DEF headerVars, segmentVars, Own, Programs
<1>9. \A i : Complete(i)' <=> Complete(i)
  BY DEF headerVars, segmentVars, Complete, Programs
<1>10. \A i : Keeps(i)' <=> Keeps(i)
  BY DEF headerVars, segmentVars, Keeps
<1> QED BY <1>1, <1>2, <1>3, <1>4, <1>5, <1>6, <1>7, <1>8, <1>9, <1>10

\* A step that only goes from one stage to the next, or ends main.
LEMMA QuietStep ==
  ASSUME IInv, UNCHANGED <<file, headerVars, boundVars, segmentVars, written>>, TypeOK',
         stage' = "running" => slow' = late,
         \/ stage' \in {"failed", "astray"}
         \/ stage \in BeforeView /\ stage' \in BeforeView \ {"bounds", "section", "view"}
         \/ stage = "bounds" /\ stage' = "section" /\ next > Len(phdrs)
         \/ stage = "section" /\ stage' = "view"
         \/ stage = "segments" /\ stage' = "interceptor" /\ next > Len(phdrs)
         \/ stage = "interceptor" /\ stage' = "running"
  PROVE  IInv'
<1> USE DEF IInv
<1>0. TypeOK /\ Len(phdrs) \in Nat /\ phdrs' = phdrs /\ Min' = Min /\ next \in Nat
  BY DEF TypeOK, headerVars, boundVars
<1>1. NothingStored'
  BY Unmoved DEF NothingStored, segmentVars, BeforeView
<1>2. BoundsFound'
  BY <1>0, Unmoved DEF BoundsFound, BeforeView
<1>3. MinFound'
  BY <1>0, Unmoved DEF MinFound, BeforeView
<1>4. SegmentsInView'
  BY <1>0, Unmoved DEF SegmentsInView, Mapped, BeforeView, boundVars
<1>5. Contents'
  <2>1. CASE stage' \notin Mapped
    BY <2>1 DEF Contents
  <2>2. CASE stage' \in Mapped
    <3>1. stage \in {"segments", "interceptor"} /\ stage' # "segments"
          /\ (stage = "segments" => next > Len(phdrs))
      BY <2>2 DEF Mapped, BeforeView
    <3>2. SUFFICES ASSUME AllFit, Disjoint, NEW i \in 1 .. Len(phdrs), IsLoad(phdrs[i])
                   PROVE  /\ Own(i)'
                          /\ i \notin late \union cut => Complete(i)'
      BY <3>1, <1>0, Unmoved DEF Contents, segmentVars
    <3>3. /\ Own(i)
          /\ (stage = "segments" => i < next) /\ i \notin late \union cut => Complete(i)
      BY <3>1, <3>2 DEF Contents, Mapped
    <3>4. stage = "segments" => i < next
      BY <3>1, <1>0
    <3> QED BY <3>3, <3>4, Unmoved
  <2> QED BY <2>1, <2>2
<1>6. Unwritten'
  BY DEF Unwritten, BeforeView
<1>7. Kept'
  BY DEF Kept, Keeps, Unwritten, BeforeView, segmentVars
<1> QED BY <1>0, <1>1, <1>2, <1>3, <1>4, <1>5, <1>6, <1>7, Unmoved

\* What the steps that do not move data have in common.
LEMMA QuietTypes ==
  ASSUME TypeOK, UNCHANGED <<file, headerVars, boundVars, segmentVars, written>>,
         stage' \in BeforeView \union Mapped \union {"failed", "astray"},
         next' \in {1, next, next + 1}, slow' \in {slow, late},
         thrown' \in {thrown, "usage", "status", "magic", "bad_alloc"}
  PROVE  TypeOK'
  BY DEF TypeOK, headerVars, boundVars, segmentVars, BeforeView, Mapped

LEMMA Thrown ==
  ASSUME IInv, NEW reason \in {"usage", "status", "magic", "bad_alloc"}, Throw(reason)
  PROVE  IInv'
<1>1. TypeOK'
  BY QuietTypes DEF Throw, IInv, programVars
<1> QED BY <1>1, QuietStep DEF Throw, programVars

LEMMA Onwards ==
  ASSUME IInv, NEW s, Goto(s), UNCHANGED <<headerVars, boundVars, segmentVars>>,
         \/ stage \in BeforeView /\ s \in BeforeView \ {"bounds", "section", "view"}
         \/ stage = "bounds" /\ s = "section" /\ next > Len(phdrs)
         \/ stage = "section" /\ s = "view"
         \/ stage = "segments" /\ s = "interceptor" /\ next > Len(phdrs)
  PROVE  IInv'
<1>1. TypeOK'
  BY QuietTypes DEF Goto, IInv, BeforeView, Mapped, programVars
<1> QED BY <1>1, QuietStep DEF Goto, programVars, BeforeView

\* What is left to show of a step before the view exists, besides what the
\* boundary loop finds.
LEMMA EarlyStep ==
  ASSUME IInv, TypeOK', stage \in BeforeView, stage' \in BeforeView,
         late' \subseteq {0}, cut' = {}, UNCHANGED <<view, memory, written>>
  PROVE  /\ NothingStored' /\ Unwritten' /\ LateAreLoads' /\ ViewIsFree' /\ HostKept'
         /\ SegmentsInView' /\ Contents' /\ Kept'
<1>1. \A a \in Address : Untouched(a)
  BY DEF IInv, NothingStored
<1>2. \A a \in Address : Untouched(a)'
  BY <1>1 DEF Untouched
<1>3. NothingStored' /\ HostKept'
  BY <1>2, ArithmeticAssumption DEF NothingStored, HostKept
<1>4. Unwritten' /\ LateAreLoads' /\ ViewIsFree'
  BY DEF IInv, Unwritten, LateAreLoads, ViewIsFree
<1>5. SegmentsInView' /\ Contents' /\ Kept'
  BY DEF SegmentsInView, Contents, Kept, Mapped, BeforeView
<1> QED BY <1>3, <1>4, <1>5

\* The steps that read the header and the tables.
LEMMA ReadHeaderStep == IInv /\ ReadHeader => IInv'
<1> SUFFICES ASSUME IInv, ReadHeader PROVE IInv'
  OBVIOUS
<1>1. CASE Throw("status")
  BY <1>1, Thrown
<1>2. CASE ~Throw("status")
  <2>1. /\ stage = "header" /\ stage' = "magic" /\ next' = 1 /\ file' = file /\ thrown' = thrown
        /\ late' \in {late, late \union {0}} /\ (arrived' \in Arrivals \/ arrived' = arrived)
        /\ UNCHANGED <<leftover, sections, phdrs, Min, Max, view, memory, orphans, cut>>
        /\ UNCHANGED <<slow, written>>
    BY <1>2 DEF ReadHeader, Goto, boundVars, programVars
  <2>2. TypeOK
    BY DEF IInv
  <2>3. late' \subseteq 0 .. Len(phdrs) /\ arrived' \in 0 .. Fields
    BY <2>1, <2>2 DEF TypeOK, Arrivals, Fields
  <2>4. TypeOK'
    BY <2>1, <2>2, <2>3 DEF TypeOK
  <2>5. late' \subseteq {0} /\ cut' = {}
    BY <2>1 DEF IInv, NothingStored, BeforeView
  <2>6. BoundsFound' /\ MinFound'
    BY <2>1 DEF BoundsFound, MinFound
  <2> QED BY <2>1, <2>4, <2>5, <2>6, EarlyStep DEF IInv, BeforeView
<1> QED BY <1>1, <1>2

LEMMA ReadTablesStep == IInv /\ (ReadSectionHeaders \/ ReadStringTable) => IInv'
<1> SUFFICES ASSUME IInv, ReadSectionHeaders \/ ReadStringTable PROVE IInv'
  OBVIOUS
<1>1. CASE \E reason \in {"status", "bad_alloc"} : Throw(reason)
  BY <1>1, Thrown
<1>2. CASE /\ stage = "sections" /\ Goto("strtab")
           /\ UNCHANGED <<headerVars, boundVars, segmentVars>>
  BY <1>2, Onwards DEF BeforeView
<1>3. CASE /\ stage = "strtab" /\ Goto("phdrs")
           /\ UNCHANGED <<headerVars, boundVars, segmentVars>>
  BY <1>3, Onwards DEF BeforeView
<1>4. ASSUME stage' \in {"sections", "phdrs"}, stage \in BeforeView,
             sections' \in Seq(SectionType), next' \in {1, next + 1}, OrphanedOrNot,
             UNCHANGED <<leftover, arrived, phdrs, boundVars, memory, late, cut, file,
                         thrown, programVars>>
      PROVE  IInv'
  <2>1. TypeOK'
    BY <1>4 DEF IInv, TypeOK, OrphanedOrNot, boundVars, programVars
  <2>2. late' \subseteq {0} /\ cut' = {} /\ UNCHANGED <<view, memory, written>>
    BY <1>4 DEF IInv, NothingStored, boundVars, programVars
  <2>3. BoundsFound' /\ MinFound'
    BY <1>4 DEF BoundsFound, MinFound
  <2> QED BY <1>4, <2>1, <2>2, <2>3, EarlyStep DEF IInv, BeforeView
<1>5. CASE /\ stage = "sections" /\ Again /\ OrphanedOrNot
           /\ \E t \in SectionType : sections' = Append(sections, t)
           /\ UNCHANGED <<leftover, arrived, phdrs, boundVars, memory, late, cut>>
  <2>1. PICK t \in SectionType : sections' = Append(sections, t)
    BY <1>5
  <2>2. sections' \in Seq(SectionType)
    BY <2>1 DEF IInv, TypeOK
  <2> QED BY <2>2, <1>5, <1>4 DEF Again, BeforeView
<1>6. CASE /\ stage = "strtab" /\ Goto("phdrs") /\ OrphanedOrNot
           /\ UNCHANGED <<headerVars, boundVars, memory, late, cut>>
  <2>1. sections' \in Seq(SectionType)
    BY <1>6 DEF IInv, TypeOK, headerVars
  <2> QED BY <2>1, <1>6, <1>4 DEF Goto, BeforeView, headerVars
<1> QED BY <1>1, <1>2, <1>3, <1>5, <1>6 DEF ReadSectionHeaders, ReadStringTable

LEMMA ReadProgramHeadersStep == IInv /\ ReadProgramHeaders => IInv'
<1> SUFFICES ASSUME IInv, ReadProgramHeaders PROVE IInv'
  OBVIOUS
<1> USE DEF IInv
<1>0. stage = "phdrs" /\ TypeOK
  BY DEF ReadProgramHeaders
<1>1. CASE Throw("status")
  BY <1>1, Thrown
<1>2. CASE /\ Goto("bounds") /\ Min' = Modulus - 1 /\ Max' = 0
           /\ UNCHANGED <<headerVars, view, segmentVars>>
  <2>1. Modulus \in Nat /\ Modulus > 0
    BY ArithmeticAssumption
  <2>2. /\ stage' = "bounds" /\ next' = 1 /\ UNCHANGED <<file, thrown, slow, written>>
        /\ UNCHANGED <<leftover, arrived, sections, phdrs, view, memory, late, orphans, cut>>
    BY <1>2 DEF Goto, headerVars, segmentVars, programVars
  <2>3. TypeOK'
    BY <1>0, <2>1, <2>2, <1>2 DEF TypeOK, Word
  <2>4. BoundsFound' /\ MinFound'
    BY <1>2, <2>2, <1>0 DEF BoundsFound, MinFound, TypeOK
  <2>5. late' \subseteq {0} /\ cut' = {}
    BY <1>0, <2>2 DEF NothingStored, BeforeView
  <2> QED BY <1>0, <2>2, <2>3, <2>4, <2>5, EarlyStep DEF BeforeView
<1>3. CASE /\ Again /\ OrphanedOrNot
           /\ \E p \in ArrivesAs(next) : phdrs' = Append(phdrs, p)
           /\ UNCHANGED <<leftover, arrived, sections, boundVars, memory, late, cut>>
  <2>1. /\ stage' = "phdrs" /\ next' = next + 1 /\ UNCHANGED <<file, thrown, slow, written>>
        /\ UNCHANGED <<leftover, arrived, sections, Min, Max, view, memory, late, cut>>
    BY <1>0, <1>3 DEF Again, boundVars, programVars
  <2>2. PICK p \in ArrivesAs(next) : phdrs' = Append(phdrs, p)
    BY <1>3
  <2>3. p \in Phdr
    <3>1. file.phdrs \in Seq(Phdr)
      BY <1>0, FilesAssumption DEF TypeOK
    <3>2. \A j \in 1 .. Len(file.phdrs) : file.phdrs[j] \in Phdr
      BY <3>1
    <3> QED BY <3>2, FilesAssumption DEF ArrivesAs
  <2>4. phdrs' \in Seq(Phdr) /\ Len(phdrs') = Len(phdrs) + 1 /\ Len(phdrs) \in Nat
    BY <1>0, <2>2, <2>3 DEF TypeOK
  <2>5. late \subseteq {0} /\ cut = {}
    BY <1>0 DEF NothingStored, BeforeView
  <2>6. orphans' \in Nat
    BY <1>0, <1>3 DEF OrphanedOrNot, TypeOK
  <2>7. slow' \subseteq 0 .. Len(phdrs')
    BY <1>0, <2>1, <2>4 DEF TypeOK
  <2>8. TypeOK'
    BY <1>0, <2>1, <2>4, <2>5, <2>6, <2>7 DEF TypeOK
  <2>9. BoundsFound' /\ MinFound'
    BY <2>1 DEF BoundsFound, MinFound
  <2> QED BY <1>0, <2>1, <2>5, <2>8, <2>9, EarlyStep DEF BeforeView
<1> QED BY <1>1, <1>2, <1>3 DEF ReadProgramHeaders

\* The loop of GetImageBoundaries.
LEMMA BoundariesStep == IInv /\ GetImageBoundaries => IInv'
<1> SUFFICES ASSUME IInv, GetImageBoundaries PROVE IInv'
  OBVIOUS
<1> USE DEF IInv
<1>0. /\ stage = "bounds" /\ TypeOK
      /\ UNCHANGED <<headerVars, view, segmentVars>>
  BY DEF GetImageBoundaries
<1>1. CASE next > Len(phdrs) /\ Goto("section") /\ UNCHANGED <<Min, Max>>
  BY <1>0, <1>1, Onwards DEF boundVars
<1>2. CASE next \in 1 .. Len(phdrs) /\ Again
  <2> DEFINE p == phdrs[next]
  <2>1. /\ stage' = "bounds" /\ next' = next + 1 /\ UNCHANGED <<file, thrown, slow, written>>
        /\ UNCHANGED <<leftover, arrived, sections, phdrs, view, memory, late, orphans, cut>>
    BY <1>0, <1>2 DEF Again, headerVars, segmentVars, programVars
  <2>2. /\ p \in Phdr
        /\ IF IsLoad(p) THEN Min' = Lower(Min, p) /\ Max' = Upper(Max, p)
                        ELSE UNCHANGED <<Min, Max>>
    BY <1>0, <1>2 DEF GetImageBoundaries, TypeOK
  <2>3. Word \subseteq Nat /\ Min \in Word /\ Max \in Word /\ Modulus \in Nat
        /\ Granule \in Nat
    BY <1>0, ArithmeticAssumption DEF TypeOK, Word
  <2>4. /\ p.vaddr \in Word /\ End(p) \in Word /\ p.memsz \in Word
        /\ Fits(p) /\ IsLoad(p) => End(p) = p.vaddr + p.memsz
    BY <2>2, WordFacts
  <2>5. /\ Min' \in Word /\ Max' \in Word /\ Min' <= Min /\ Max <= Max'
        /\ IsLoad(p) => Min' <= p.vaddr /\ End(p) <= Max'
        /\ Min' = Min \/ (IsLoad(p) /\ Min' = p.vaddr)
    <3>1. Min \in Nat /\ Max \in Nat /\ p.vaddr \in Nat /\ End(p) \in Nat
      BY <2>3, <2>4
    <3> HIDE DEF p
    <3>2. CASE IsLoad(p)
      <4>1. Min' = Lower(Min, p) /\ Max' = Upper(Max, p)
        BY <3>2, <2>2
      <4>2. Min' \in Word /\ Max' \in Word
        BY <4>1, <2>3, <2>4 DEF Lower, Upper
      <4>3. Min' <= Min /\ Min' <= p.vaddr /\ (Min' = Min \/ Min' = p.vaddr)
        BY <4>1, <3>1 DEF Lower
      <4>4. Max <= Max' /\ End(p) <= Max'
        BY <4>1, <3>1 DEF Upper
      <4> QED BY <3>2, <4>2, <4>3, <4>4
    <3>3. CASE ~IsLoad(p)
      BY <3>1, <3>3, <2>2, <2>3
    <3> QED BY <3>2, <3>3
  <2>6. TypeOK'
    BY <1>0, <2>1, <2>5 DEF TypeOK
  <2>7. late' \subseteq {0} /\ cut' = {}
    BY <1>0, <2>1 DEF NothingStored, BeforeView
  <2>8. BoundsFound'
    <3>1. SUFFICES ASSUME NEW i \in 1 .. Len(phdrs), i < next + 1 PROVE Enclosed(i)'
      BY <2>1 DEF BoundsFound
    <3>2. CASE i = next
      BY <3>2, <2>1, <2>4, <2>5 DEF Enclosed
    <3>3. CASE i < next
      <4>1. Enclosed(i) /\ phdrs[i] \in Phdr
        BY <3>3, <1>0 DEF BoundsFound, TypeOK
      <4>2. phdrs[i].vaddr \in Nat /\ phdrs[i].memsz \in Nat
        BY <4>1, <2>3, WordFacts
      <4>3. Min \in Nat /\ Max \in Nat /\ Min' \in Nat /\ Max' \in Nat
        BY <2>3, <2>5
      <4> QED BY <4>1, <4>2, <4>3, <2>1, <2>5 DEF Enclosed
    <3>4. i \in Nat /\ next \in Nat
      BY <1>0 DEF TypeOK
    <3> QED BY <3>1, <3>2, <3>3, <3>4
  <2>9. MinFound'
    <3>1. SUFFICES ASSUME AllFit PROVE Min' = Modulus - 1 \/ Granule <= Min'
      BY <2>1 DEF MinFound, AllFit
    <3>2. Fits(p) /\ (Min = Modulus - 1 \/ Granule <= Min)
      BY <1>0, <1>2, <3>1 DEF MinFound, AllFit
    <3> QED BY <3>2, <2>5 DEF Fits
  <2> QED BY <1>0, <2>1, <2>6, <2>7, <2>8, <2>9, EarlyStep DEF BeforeView
<1> QED BY <1>1, <1>2 DEF GetImageBoundaries

\* The view is mapped.
LEMMA MapViewStep == IInv /\ MapViewOfSection => IInv'
<1> SUFFICES ASSUME IInv, MapViewOfSection PROVE IInv'
  OBVIOUS
<1> USE DEF IInv
<1>0. stage = "view" /\ TypeOK
  BY DEF MapViewOfSection
<1>1. CASE Throw("status")
  BY <1>1, Thrown
<1>2. CASE ~Throw("status")
  <2>1. /\ stage' = "segments" /\ next' = 1 /\ UNCHANGED <<file, thrown, slow, written>>
        /\ UNCHANGED <<leftover, arrived, sections, phdrs, Min, Max>>
        /\ UNCHANGED <<memory, late, orphans, cut>>
        /\ view' \subseteq Address \ Host
    BY <1>2 DEF MapViewOfSection, Goto, headerVars, segmentVars, programVars
  <2>2. PICK base \in Bases : view' = base .. base + MappingSize - 1
    BY <1>2 DEF MapViewOfSection
  <2>3. late \subseteq {0} /\ cut = {} /\ written = {} /\ \A a \in Address : Untouched(a)
    BY <1>0 DEF NothingStored, Unwritten, BeforeView
  <2>4. TypeOK'
    BY <1>0, <2>1, <2>3 DEF TypeOK
  <2>5. /\ NothingStored' /\ Unwritten' /\ LateAreLoads' /\ ViewIsFree' /\ BoundsFound'
        /\ MinFound' /\ Kept'
    BY <2>1, <2>3 DEF NothingStored, Unwritten, LateAreLoads, ViewIsFree, BoundsFound,
                      MinFound, Kept, BeforeView
  <2>6. HostKept'
    BY <2>1, <2>3, ArithmeticAssumption DEF HostKept, Untouched
  <2>7. SegmentsInView'
    <3>1. SUFFICES ASSUME AllFit, NEW i \in 1 .. Len(phdrs), IsLoad(phdrs[i])
                   PROVE  Bytes(phdrs[i], phdrs[i].memsz) \subseteq view'
      BY <2>1 DEF SegmentsInView, AllFit
    <3>2. Enclosed(i) /\ (Min = Modulus - 1 \/ Granule <= Min)
      BY <1>0, <3>1 DEF BoundsFound, MinFound
    <3> QED BY <1>0, <2>2, <3>1, <3>2, ViewEncloses
  <2>8. Contents'
    <3>1. ASSUME AllFit, NEW i \in 1 .. Len(phdrs), IsLoad(phdrs[i])
          PROVE  Own(i)'
      <4>1. SegmentsInView' /\ view' \subseteq Address /\ \A a \in view' : memory[a] = 0
        BY <2>7, <2>1, <2>3, ArithmeticAssumption DEF Untouched
      <4>2. Bytes(phdrs[i], phdrs[i].memsz) \subseteq view'
        BY <3>1, <4>1, <2>1 DEF SegmentsInView, Mapped, AllFit
      <4> QED BY <4>1, <4>2, <2>1 DEF Own
    <3>2. (AllFit' <=> AllFit) /\ Len(phdrs) \in Nat
      BY <1>0, <2>1 DEF AllFit, TypeOK
    <3>3. \A i \in 1 .. Len(phdrs) : ~(i < next')
      BY <3>2, <2>1
    <3> QED BY <3>1, <3>2, <3>3, <2>1 DEF Contents
  <2> QED BY <2>4, <2>5, <2>6, <2>7, <2>8
<1> QED BY <1>1, <1>2

\* A segment is read, in full or not.
LEMMA LoadSegmentStep ==
  ASSUME IInv, stage = "segments", next \in 1 .. Len(phdrs), Again,
         LoadSegment(phdrs[next]), UNCHANGED <<headerVars, boundVars>>
  PROVE  IInv'
<1> DEFINE p == phdrs[next]
<1> USE DEF IInv
<1>1. /\ stage' = "segments" /\ next' = next + 1 /\ UNCHANGED <<file, thrown, slow, written>>
      /\ UNCHANGED <<leftover, arrived, sections, phdrs, Min, Max, view, orphans>>
  BY DEF Again, headerVars, boundVars, programVars, LoadSegment
<1>2. p \in Phdr /\ IsLoad(p) /\ TypeOK /\ memory \in [Address -> Byte]
      /\ next \in Nat /\ next # 0
  BY DEF LoadSegment, TypeOK
<1>3. (AllFit' <=> AllFit) /\ (Disjoint' <=> Disjoint)
  BY <1>1 DEF AllFit, Disjoint
<1>4. SegmentsInView' /\ BoundsFound' /\ MinFound' /\ NothingStored' /\ Unwritten' /\ Kept'
      /\ ViewIsFree'
  BY <1>1 DEF SegmentsInView, AllFit, Mapped, BoundsFound, MinFound, NothingStored,
              Unwritten, Kept, ViewIsFree, BeforeView
<1>5. CASE late' = late \union {next} /\ UNCHANGED <<memory, cut>>
  <2>1. TypeOK'
    BY <1>1, <1>2, <1>5 DEF TypeOK
  <2>2. LateAreLoads' /\ HostKept'
    BY <1>1, <1>2, <1>3, <1>5 DEF LateAreLoads, HostKept, Untouched
  <2>3. Contents'
    <3>1. SUFFICES ASSUME AllFit, Disjoint, NEW i \in 1 .. Len(phdrs), IsLoad(phdrs[i])
                   PROVE  /\ Own(i)'
                          /\ i < next + 1 /\ i \notin late' \union cut' => Complete(i)'
      BY <1>1, <1>3 DEF Contents
    <3>2. /\ Own(i)
          /\ i < next /\ i \notin late \union cut => Complete(i)
      BY <3>1 DEF Contents, Mapped
    <3>3. Own(i)' /\ (Complete(i) => Complete(i)')
      BY <3>2, <1>1, <1>5 DEF Own, Complete, Programs
    <3>4. i < next + 1 /\ i # next => i < next
      BY <1>2
    <3> QED BY <3>2, <3>3, <3>4, <1>5
  <2> QED BY <1>4, <2>1, <2>2, <2>3
<1>6. CASE \E n \in 0 .. p.filesz :
             /\ memory' = Stored(memory, p, n) /\ late' = late
             /\ cut' = IF n = p.filesz THEN cut ELSE cut \union {next}
  <2>1. PICK n \in 0 .. p.filesz :
             /\ memory' = Stored(memory, p, n) /\ late' = late
             /\ cut' = IF n = p.filesz THEN cut ELSE cut \union {next}
    BY <1>6
  <2>2. TypeOK'
    <3>1. memory' \in [Address -> Byte]
      BY <2>1, <1>2, StoreKeeps
    <3>2. cut' \subseteq 1 .. Len(phdrs)
      BY <2>1, <1>2 DEF TypeOK
    <3> QED BY <1>1, <1>2, <2>1, <3>1, <3>2 DEF TypeOK
  <2>3. LateAreLoads'
    BY <1>1, <2>1 DEF LateAreLoads
  <2>4. ASSUME AllFit
        PROVE  /\ HostKept'
               /\ Disjoint => \A i \in 1 .. Len(phdrs) : IsLoad(phdrs[i]) =>
                     /\ Own(i) => Own(i)'
                     /\ Own(i) /\ Complete(i) => Complete(i)'
                     /\ Own(i) /\ i = next /\ n = p.filesz => Complete(i)'
    <3>1. \A i \in 1 .. Len(phdrs) :
            IsLoad(phdrs[i]) => Bytes(phdrs[i], phdrs[i].memsz) \subseteq view
      BY <2>4 DEF SegmentsInView, Mapped
    <3>2. \A a \in Address : memory'[a] = Stored(memory, p, n)[a]
      BY <2>1
    <3> HIDE DEF p
    <3> QED BY <2>4, <3>1, <3>2, <1>1, <1>2, StoreIsLocal DEF p
  <2>5. HostKept'
    BY <2>4, <1>3 DEF HostKept
  <2>6. Contents'
    <3>1. SUFFICES ASSUME AllFit, Disjoint, NEW i \in 1 .. Len(phdrs), IsLoad(phdrs[i])
                   PROVE  /\ Own(i)'
                          /\ i < next + 1 /\ i \notin late' \union cut' => Complete(i)'
      BY <1>1, <1>3 DEF Contents
    <3>2. /\ Own(i)
          /\ i < next /\ i \notin late \union cut => Complete(i)
      BY <3>1 DEF Contents, Mapped
    <3>3. ASSUME i < next + 1, i \notin late' \union cut' PROVE Complete(i)'
      <4>1. i \notin late \union cut
        BY <3>3, <2>1
      <4>2. CASE i = next
        <5>1. n = p.filesz
          BY <3>3, <4>2, <2>1
        <5> QED BY <5>1, <4>2, <3>1, <3>2, <2>4
      <4>3. CASE i < next
        BY <4>3, <4>1, <3>1, <3>2, <2>4
      <4>4. i \in Nat /\ next \in Nat
        BY <1>2
      <4> QED BY <4>2, <4>3, <4>4, <3>3
    <3> QED BY <3>1, <3>2, <3>3, <2>4
  <2> QED BY <1>4, <2>2, <2>3, <2>5, <2>6
<1> QED BY <1>5, <1>6 DEF LoadSegment

LEMMA LoadSegmentsStep == IInv /\ LoadSegments => IInv'
<1> SUFFICES ASSUME IInv, LoadSegments PROVE IInv'
  OBVIOUS
<1> USE DEF IInv
<1>0. stage = "segments" /\ TypeOK
  BY DEF LoadSegments
<1>1. CASE Throw("status")
  BY <1>1, Thrown
<1>2. CASE /\ next > Len(phdrs) /\ Goto("interceptor")
           /\ UNCHANGED <<headerVars, boundVars, segmentVars>>
  BY <1>0, <1>2, Onwards
<1>3. CASE next \in 1 .. Len(phdrs) /\ Again /\ LoadSegment(phdrs[next])
           /\ UNCHANGED <<headerVars, boundVars>>
  BY <1>0, <1>3, LoadSegmentStep
<1>4. CASE next \in 1 .. Len(phdrs) /\ Again /\ ~IsLoad(phdrs[next])
           /\ UNCHANGED segmentVars /\ UNCHANGED <<headerVars, boundVars>>
  <2>1. stage' = "segments" /\ next' = next + 1 /\ UNCHANGED <<file, thrown, slow, written>>
        /\ next \in Nat
    BY <1>0, <1>4 DEF Again, programVars
  <2>2. TypeOK'
    BY <1>0, <1>4, <2>1, QuietTypes DEF Mapped
  <2>3. NothingStored' /\ Unwritten' /\ BoundsFound' /\ MinFound' /\ Kept'
    BY <1>0, <2>1 DEF NothingStored, Unwritten, BoundsFound, MinFound, Kept, BeforeView
  <2>4. SegmentsInView'
    BY <1>0, <1>4, <2>1, Unmoved DEF SegmentsInView, Mapped, headerVars, boundVars
  <2>5. Contents'
    <3>1. phdrs' = phdrs /\ late' = late /\ cut' = cut
      BY <1>4 DEF headerVars, segmentVars
    <3>2. SUFFICES ASSUME AllFit, Disjoint, NEW i \in 1 .. Len(phdrs), IsLoad(phdrs[i])
                   PROVE  /\ Own(i)'
                          /\ i < next + 1 /\ i \notin late \union cut => Complete(i)'
      BY <1>4, <2>1, <3>1, Unmoved DEF Contents
    <3>3. /\ Own(i)
          /\ i < next /\ i \notin late \union cut => Complete(i)
      BY <1>0, <3>2 DEF Contents, Mapped
    <3>4. i < next + 1 => i < next
      <4>1. i # next
        BY <3>2, <1>4
      <4> QED BY <4>1, <2>1
    <3> QED BY <1>4, <2>1, <3>3, <3>4, Unmoved
  <2> QED BY <1>4, <2>1, <2>2, <2>3, <2>4, <2>5, Unmoved
<1> QED BY <1>0, <1>1, <1>2, <1>3, <1>4 DEF LoadSegments

LEMMA StartStep == IInv /\ Start => IInv'
<1> SUFFICES ASSUME IInv, Start PROVE IInv'
  OBVIOUS
<1>1. /\ stage = "interceptor" /\ next' = 1 /\ slow' = late
      /\ stage' \in {"running", "astray"}
      /\ UNCHANGED <<file, thrown, written, headerVars, boundVars, segmentVars>>
  BY DEF Start
<1>2. TypeOK'
  BY <1>1, QuietTypes DEF IInv, Mapped
<1> QED BY <1>1, <1>2, QuietStep

LEMMA GoAstrayStep == IInv /\ GoAstray => IInv'
<1> SUFFICES ASSUME IInv, GoAstray PROVE IInv'
  OBVIOUS
<1>1. /\ stage' = "astray"
      /\ UNCHANGED <<file, next, thrown, headerVars, boundVars, segmentVars, slow, written>>
  BY DEF GoAstray, programVars
<1>2. TypeOK'
  BY <1>1, QuietTypes DEF IInv
<1> QED BY <1>1, <1>2, QuietStep

\* The header or an orphan lands: the stack is struck, nothing else.
LEMMA StrikeStep ==
  ASSUME IInv, memory' \in Struck(memory), arrived' \in 0 .. Fields,
         late' \in {late, late \ {0}}, orphans' \in Nat,
         UNCHANGED <<stage, file, next, leftover, sections, phdrs, boundVars, cut,
                     programVars, thrown>>
  PROVE  IInv'
<1> USE DEF IInv
<1>1. UNCHANGED <<stage, file, next, leftover, sections, phdrs, Min, Max, view, cut,
                  slow, written, thrown>>
  BY DEF boundVars, programVars
<1>2. TypeOK
  OBVIOUS
<1>3. /\ memory' \in [Address -> Byte]
      /\ \A a \in Address : Untouched(a) => Untouched(a)'
      /\ HostKept'
      /\ \A i \in 1 .. Len(phdrs) :
             IsLoad(phdrs[i]) /\ Bytes(phdrs[i], phdrs[i].memsz) \subseteq view =>
                 /\ Own(i) => Own(i)'
                 /\ Fits(phdrs[i]) /\ Complete(i) => Complete(i)'
                 /\ Keeps(i) => Keeps(i)'
  BY <1>1, <1>2, StrikeIsLocal
<1>4. TypeOK'
  BY <1>1, <1>2, <1>3 DEF TypeOK
<1>5. NothingStored' /\ Unwritten'
  BY <1>1, <1>3 DEF NothingStored, Unwritten
<1>6. (AllFit' <=> AllFit) /\ (Disjoint' <=> Disjoint) /\ \A k : Enclosed(k)' <=> Enclosed(k)
  BY <1>1 DEF AllFit, Disjoint, Enclosed
<1>7. BoundsFound' /\ MinFound' /\ LateAreLoads' /\ ViewIsFree' /\ SegmentsInView'
  BY <1>1, <1>6 DEF BoundsFound, MinFound, LateAreLoads, ViewIsFree, SegmentsInView
<1>8. \A i \in 1 .. Len(phdrs) : stage \in Mapped /\ AllFit /\ IsLoad(phdrs[i]) =>
         Bytes(phdrs[i], phdrs[i].memsz) \subseteq view /\ Fits(phdrs[i])
  BY DEF SegmentsInView, AllFit
<1>9. Contents'
  <2>1. SUFFICES ASSUME stage \in Mapped, AllFit, Disjoint,
                        NEW i \in 1 .. Len(phdrs), IsLoad(phdrs[i])
                 PROVE  /\ Own(i)'
                        /\ (stage = "segments" => i < next) /\ i \notin late' \union cut
                             => Complete(i)'
    BY <1>1, <1>6 DEF Contents
  <2>2. /\ Own(i)
        /\ (stage = "segments" => i < next) /\ i \notin late \union cut => Complete(i)
    BY <2>1 DEF Contents
  <2>3. i \notin late' => i \notin late
    OBVIOUS
  <2> QED BY <2>1, <2>2, <2>3, <1>3, <1>8
<1>10. Kept'
  <2>1. SUFFICES ASSUME stage = "running"
                 PROVE  /\ late' \subseteq slow
                        /\ AllFit /\ Disjoint => \A i \in 1 .. Len(phdrs) :
                             IsLoad(phdrs[i]) /\ i \notin slow => Keeps(i)'
    BY <1>1, <1>6 DEF Kept
  <2> QED BY <2>1, <1>3, <1>8 DEF Kept, Mapped
<1> QED BY <1>3, <1>4, <1>5, <1>7, <1>9, <1>10

\* The data of a segment lands, and its status on the stack.
LEMMA SegmentStep ==
  ASSUME IInv, NEW i, SegmentLands(i), stage \notin {"failed", "astray"},
         UNCHANGED <<stage, file, next, leftover, sections, phdrs, boundVars,
                     programVars, thrown>>
  PROVE  IInv'
<1> USE DEF IInv
<1> DEFINE p == phdrs[i]
<1>1. /\ UNCHANGED <<stage, file, next, leftover, arrived, sections, phdrs, Min, Max,
                     view, orphans, slow, written, thrown>>
      /\ i \in late \ {0} /\ late' = late \ {i} /\ TypeOK
  BY DEF SegmentLands, boundVars, programVars
<1>2. i \in 1 .. Len(phdrs) /\ IsLoad(p) /\ p \in Phdr /\ memory \in [Address -> Byte]
  BY <1>1 DEF TypeOK, LateAreLoads
<1>3. PICK n \in 0 .. p.filesz :
        /\ memory' \in Struck(Stored(memory, p, n))
        /\ cut' = IF n = p.filesz THEN cut ELSE cut \union {i}
  BY DEF SegmentLands
<1>4. /\ memory' \in [Address -> Byte]
      /\ \A a \in Address : \/ memory'[a] = Stored(memory, p, n)[a]
                            \/ a \in Stack /\ memory'[a] = Strewn
  BY <1>2, <1>3, StoreKeeps, StrikeKeeps
<1>5. TypeOK'
  <2>1. cut' \subseteq 1 .. Len(phdrs)
    BY <1>1, <1>2, <1>3 DEF TypeOK
  <2> QED BY <1>1, <1>4, <2>1 DEF TypeOK
<1>6. stage \in Mapped
  BY <1>1 DEF NothingStored, TypeOK, BeforeView, Mapped
<1>7. NothingStored' /\ Unwritten'
  BY <1>1, <1>6 DEF NothingStored, Unwritten, BeforeView, Mapped
<1>8. (AllFit' <=> AllFit) /\ (Disjoint' <=> Disjoint) /\ \A k : Enclosed(k)' <=> Enclosed(k)
  BY <1>1 DEF AllFit, Disjoint, Enclosed
<1>9. BoundsFound' /\ MinFound' /\ LateAreLoads' /\ ViewIsFree' /\ SegmentsInView'
  BY <1>1, <1>8 DEF BoundsFound, MinFound, LateAreLoads, ViewIsFree, SegmentsInView
<1>10. ASSUME AllFit
       PROVE  /\ HostKept'
              /\ Disjoint => \A k \in 1 .. Len(phdrs) : IsLoad(phdrs[k]) =>
                    /\ Own(k) => Own(k)'
                    /\ Own(k) /\ Complete(k) => Complete(k)'
                    /\ Own(k) /\ k = i /\ n = p.filesz => Complete(k)'
                    /\ k # i /\ Keeps(k) => Keeps(k)'
  <2>1. \A k \in 1 .. Len(phdrs) :
          IsLoad(phdrs[k]) => Bytes(phdrs[k], phdrs[k].memsz) \subseteq view
    BY <1>6, <1>10 DEF SegmentsInView
  <2> HIDE DEF p
  <2> QED BY <1>1, <1>2, <1>4, <1>10, <2>1, StoreIsLocal DEF p
<1>11. HostKept'
  BY <1>8, <1>10 DEF HostKept
<1>12. Contents'
  <2>1. SUFFICES ASSUME AllFit, Disjoint, NEW k \in 1 .. Len(phdrs), IsLoad(phdrs[k])
                 PROVE  /\ Own(k)'
                        /\ (stage = "segments" => k < next) /\ k \notin late' \union cut'
                             => Complete(k)'
    BY <1>1, <1>8 DEF Contents
  <2>2. /\ Own(k)
        /\ (stage = "segments" => k < next) /\ k \notin late \union cut => Complete(k)
    BY <1>6, <2>1 DEF Contents
  <2>3. CASE k = i
    <3>1. k \notin cut' => n = p.filesz
      BY <1>3, <2>3
    <3> QED BY <2>1, <2>2, <2>3, <3>1, <1>10
  <2>4. CASE k # i
    <3>1. k \notin late' \union cut' => k \notin late \union cut
      BY <1>1, <1>3, <2>4
    <3> QED BY <2>1, <2>2, <3>1, <1>10
  <2> QED BY <2>3, <2>4
<1>13. Kept'
  <2>1. SUFFICES ASSUME stage = "running"
                 PROVE  /\ late' \subseteq slow
                        /\ AllFit /\ Disjoint => \A k \in 1 .. Len(phdrs) :
                             IsLoad(phdrs[k]) /\ k \notin slow => Keeps(k)'
    BY <1>1, <1>8 DEF Kept
  <2>2. late \subseteq slow /\ i \in slow
    BY <1>1, <2>1 DEF Kept
  <2> QED BY <1>1, <1>10, <2>1, <2>2 DEF Kept
<1> QED BY <1>5, <1>7, <1>9, <1>11, <1>12, <1>13

\* The program stores data of its own in its image.
LEMMA ProgramStep == \A a \in Writable : IInv /\ ProgramStores(a) => IInv'
<1> SUFFICES ASSUME NEW a \in Writable, IInv, ProgramStores(a) PROVE IInv'
  OBVIOUS
<1> USE DEF IInv
<1>1. /\ stage = "running" /\ a \in view /\ TypeOK
      /\ memory' = [memory EXCEPT ![a] = OwnData]
      /\ written' = written \union {a}
      /\ UNCHANGED <<stage, file, next, leftover, arrived, sections, phdrs, Min, Max,
                     view, late, orphans, cut, slow, thrown>>
  BY DEF ProgramStores, headerVars, boundVars
<1>2. a \in Address /\ a \notin Host /\ memory \in [Address -> Byte] /\ OwnData \in Byte
  BY <1>1 DEF TypeOK, ViewIsFree, Byte
<1>3. /\ memory' \in [Address -> Byte] /\ memory'[a] = OwnData
      /\ \A b \in Address : b # a => memory'[b] = memory[b]
  BY <1>1, <1>2
<1>4. TypeOK'
  <2>1. written' \subseteq view'
    BY <1>1 DEF TypeOK
  <2> QED BY <1>1, <1>3, <2>1 DEF TypeOK
<1>5. NothingStored' /\ Unwritten' /\ BoundsFound' /\ MinFound' /\ LateAreLoads'
      /\ ViewIsFree'
  BY <1>1 DEF NothingStored, Unwritten, BoundsFound, MinFound, LateAreLoads, ViewIsFree,
              BeforeView
<1>6. (AllFit' <=> AllFit) /\ (Disjoint' <=> Disjoint)
  BY <1>1 DEF AllFit, Disjoint
<1>7. SegmentsInView' /\ HostKept'
  <2>1. SegmentsInView'
    BY <1>1, <1>6 DEF SegmentsInView
  <2>2. \A b \in Host : Untouched(b) => Untouched(b)'
    BY <1>2, <1>3, ArithmeticAssumption DEF Untouched
  <2> QED BY <1>6, <2>1, <2>2 DEF HostKept
<1>8. ASSUME AllFit, NEW i \in 1 .. Len(phdrs), IsLoad(phdrs[i])
      PROVE  /\ Own(i) => Own(i)'
             /\ Complete(i) => Complete(i)'
             /\ Keeps(i) => Keeps(i)'
  <2>1. Bytes(phdrs[i], phdrs[i].memsz) \subseteq view /\ Fits(phdrs[i]) /\ phdrs[i] \in Phdr
    BY <1>1, <1>8 DEF SegmentsInView, Mapped, AllFit, TypeOK
  <2>2. phdrs[i].filesz \in 0 .. phdrs[i].filesz
    BY <2>1, WordFacts, ArithmeticAssumption DEF Word
  <2>3. Bytes(phdrs[i], phdrs[i].filesz) \subseteq Bytes(phdrs[i], phdrs[i].memsz)
    BY <1>8, <2>1, <2>2, FilePart
  <2>4. \A b \in Bytes(phdrs[i], phdrs[i].memsz) : b \in Address
    BY <1>1, <2>1 DEF TypeOK
  <2>5. \A b \in Bytes(phdrs[i], phdrs[i].memsz) :
          IF b = a THEN Programs(b)' /\ b \in written' /\ memory'[b] = OwnData
                   ELSE memory'[b] = memory[b] /\ (b \in written' <=> b \in written)
    BY <1>1, <1>3, <2>4 DEF Programs
  <2>6. (Own(i) => Own(i)') /\ (Keeps(i) => Keeps(i)')
    BY <1>1, <2>5 DEF Own, Keeps, Programs
  <2>7. Complete(i) => Complete(i)'
    BY <1>1, <2>3, <2>5 DEF Complete, Programs
  <2> QED BY <2>6, <2>7
<1>9. Contents' /\ Kept'
  <2>1. Contents'
    BY <1>1, <1>6, <1>8 DEF Contents
  <2>2. Kept'
    BY <1>1, <1>6, <1>8 DEF Kept
  <2> QED BY <2>1, <2>2
<1> QED BY <1>4, <1>5, <1>7, <1>9

\* What is late lands.
LEMMA LandStep == IInv /\ DataLands => IInv'
<1> SUFFICES ASSUME IInv, DataLands PROVE IInv'
  OBVIOUS
<1>1. /\ stage \notin {"failed", "astray"}
      /\ UNCHANGED <<stage, file, next, leftover, sections, phdrs, boundVars,
                     programVars, thrown>>
      /\ arrived \in 0 .. Fields /\ orphans \in Nat
  BY DEF DataLands, IInv, TypeOK
<1>2. CASE HeaderLands
  BY <1>1, <1>2, StrikeStep DEF HeaderLands
<1>3. CASE OrphanLands
  BY <1>1, <1>3, StrikeStep DEF OrphanLands
<1>4. CASE \E i \in late : SegmentLands(i)
  BY <1>1, <1>4, SegmentStep
<1> QED BY <1>2, <1>3, <1>4 DEF DataLands

LEMMA NextIInv == IInv /\ [Next]_vars => IInv'
<1> SUFFICES ASSUME IInv, [Next]_vars PROVE IInv'
  OBVIOUS
<1>1. CASE Main
  BY <1>1, Thrown, Onwards DEF Main, BeforeView
<1>2. CASE OpenElfFile
  BY <1>2, Thrown, Onwards DEF OpenElfFile, BeforeView
<1>3. CASE ValidateHeader
  <2>1. CASE magic
    BY <2>1, <1>3, Onwards DEF ValidateHeader, BeforeView
  <2>2. CASE ~magic
    BY <2>2, <1>3, Thrown DEF ValidateHeader
  <2> QED BY <2>1, <2>2
<1>4. CASE CreateSection
  BY <1>4, Thrown, Onwards DEF CreateSection
<1>5. CASE UNCHANGED vars
  <2>1. /\ UNCHANGED <<file, headerVars, boundVars, segmentVars, written>>
        /\ UNCHANGED <<stage, next, thrown, slow>>
    BY <1>5 DEF vars, headerVars, boundVars, segmentVars, programVars
  <2>2. TypeOK'
    BY <2>1 DEF IInv, TypeOK, headerVars, boundVars, segmentVars
  <2>3. NothingStored' /\ Unwritten' /\ BoundsFound' /\ MinFound' /\ SegmentsInView'
        /\ Contents' /\ Kept'
    BY <2>1, Unmoved DEF IInv, NothingStored, Unwritten, BoundsFound, MinFound,
                         SegmentsInView, Contents, Kept, headerVars, boundVars, segmentVars
  <2> QED BY <2>1, <2>2, <2>3, Unmoved DEF IInv
<1> QED BY <1>1, <1>2, <1>3, <1>4, <1>5, ReadHeaderStep, ReadTablesStep,
           ReadProgramHeadersStep, BoundariesStep, MapViewStep, LoadSegmentsStep,
           StartStep, GoAstrayStep, ProgramStep, LandStep DEF Next, Thread

(***************************************************************************)
(* Theorems.                                                               *)
(***************************************************************************)
LEMMA AlwaysIInv == Spec => []IInv
  BY InitIInv, NextIInv, PTL DEF Spec

\* The loader's variables stay what the code declares them to be; the sums
\* of the boundary loop, which may wrap around, stay words.
THEOREM TypeCorrect == Spec => []TypeOK
<1>1. IInv => TypeOK
  BY DEF IInv
<1> QED BY <1>1, AlwaysIInv, PTL

\* As long as the headers fit and the thread has not gone astray, Map stores
\* in memory that was free before it, and in nothing else; of what was in use,
\* only blocks of the stack are struck, by the status of late reads or by late
\* entries of a table (ElfFile.cpp:40, 102, 160, 239-280).
THEOREM HostSafe == Spec => []HostUntouched
<1>1. IInv => HostUntouched
  BY DEF IInv, HostKept, HostUntouched, Untouched
<1> QED BY <1>1, AlwaysIInv, PTL

\* A segment whose read is complete is byte for byte that of the file, with a
\* zero bss, when the program starts and at any time data lands after that,
\* but for what the program has stored itself; and that stays, unless it is in
\* a segment that was late when the program started (ElfFile.cpp:239-280).
THEOREM ImageIsComplete == Spec => []ImageComplete
<1>1. IInv => ImageComplete
  <2> SUFFICES ASSUME IInv, stage = "running", AllFit, Disjoint,
                      NEW i \in 1 .. Len(phdrs), IsLoad(phdrs[i])
               PROVE  /\ i \notin late \union cut => Loaded(phdrs[i])
                      /\ i \notin slow => KeepsItsData(phdrs[i])
    BY DEF ImageComplete
  <2>1. ASSUME i \notin late \union cut, NEW a \in Bytes(phdrs[i], phdrs[i].memsz)
        PROVE  /\ a \in view
               /\ memory[a] = InFile(phdrs[i], a) \/ (a \in written /\ memory[a] = OwnData)
    <3>1. a \in view
      BY <2>1 DEF IInv, SegmentsInView, Mapped
    <3>2. Own(i) /\ Complete(i)
      BY <2>1 DEF IInv, Contents, Mapped
    <3> QED BY <2>1, <3>1, <3>2 DEF Own, Complete, InFile, Source, Programs
  <2>2. i \notin slow => KeepsItsData(phdrs[i])
    BY DEF IInv, Kept, Keeps, KeepsItsData
  <2> QED BY <2>1, <2>2 DEF Loaded
<1> QED BY <1>1, AlwaysIInv, PTL

(***************************************************************************)
(* The end of the loader.  Outside of the loops next is 1, inside it has   *)
(* not passed what bounds the loop by more than one, and no more program   *)
(* headers have been stored than the file, or what stood in the place of   *)
(* m_Header, says there are.                                               *)
(***************************************************************************)

Rounds ==
    /\ stage \in {"main", "open", "header", "magic", "strtab", "section", "view",
                  "interceptor"} => next = 1
    /\ stage \in {"main", "open", "header", "magic", "sections", "strtab"} => Len(phdrs) = 0
    /\ stage = "sections" => next <= Shdrs
    /\ stage = "phdrs" => next = Len(phdrs) + 1 /\ next <= Phdrs
    /\ stage \in {"bounds", "section", "view", "segments", "interceptor"} =>
         Len(phdrs) + 1 <= Phdrs
    /\ stage \in {"bounds", "segments"} => next <= Len(phdrs) + 1

Ended == {"running", "failed", "astray"}

LEMMA TablesAreSeqs ==
  ASSUME TypeOK
  PROVE  /\ Shdrs \in Nat \ {0} /\ Phdrs \in Nat \ {0}
         /\ e_shnum \in Nat /\ e_shnum < Shdrs /\ e_phnum \in Nat /\ e_phnum < Phdrs
<1>1. Len(file.shdrs) \in Nat /\ Len(file.phdrs) \in Nat
  BY FilesAssumption DEF TypeOK
<1>2. leftover.shnum \in Nat /\ leftover.phnum \in Nat
  BY FilesAssumption DEF TypeOK, Header
<1> DEFINE ls == leftover.shnum
           lp == leftover.phnum
           fs == Len(file.shdrs)
           fp == Len(file.phdrs)
<1>3. e_shnum \in {ls, fs} /\ e_phnum \in {lp, fp}
  BY DEF e_shnum, e_phnum
<1>4. Shdrs = ls + fs + 1 /\ Phdrs = lp + fp + 1
  BY DEF Shdrs, Phdrs
<1>5. ls \in Nat /\ lp \in Nat /\ fs \in Nat /\ fp \in Nat
  BY <1>1, <1>2
<1> HIDE DEF ls, lp, fs, fp
<1> QED BY ONLY <1>3, <1>4, <1>5

LEMMA LeftIs ==
  RoundsLeft = IF stage \in Ended THEN 0 ELSE ToGo(Shdrs, Phdrs)[stage] - (next - 1)
  BY DEF RoundsLeft, Ended, Shdrs, Phdrs

LEMMA ToGoIs ==
  ASSUME NEW s \in Nat, NEW p \in Nat
  PROVE  /\ ToGo(s, p)["main"] = 8 + 3*p + s
         /\ ToGo(s, p)["open"] = 7 + 3*p + s
         /\ ToGo(s, p)["header"] = 6 + 3*p + s
         /\ ToGo(s, p)["magic"] = 5 + 3*p + s
         /\ ToGo(s, p)["sections"] = 4 + 3*p + s
         /\ ToGo(s, p)["strtab"] = 4 + 3*p
         /\ ToGo(s, p)["phdrs"] = 3 + 3*p
         /\ ToGo(s, p)["bounds"] = 3 + 2*p
         /\ ToGo(s, p)["section"] = 3 + p
         /\ ToGo(s, p)["view"] = 2 + p
         /\ ToGo(s, p)["segments"] = 1 + p
         /\ ToGo(s, p)["interceptor"] = 1
  BY DEF ToGo

\* While it runs, the loader has steps before it.
LEMMA RoundsAhead ==
  ASSUME TypeOK, Rounds, stage \notin Ended
  PROVE  RoundsLeft = ToGo(Shdrs, Phdrs)[stage] - (next - 1) /\ RoundsLeft \in Nat \ {0}
<1>1. /\ Shdrs \in Nat \ {0} /\ Phdrs \in Nat \ {0} /\ next \in Nat \ {0}
      /\ RoundsLeft = ToGo(Shdrs, Phdrs)[stage] - (next - 1)
  BY TablesAreSeqs, LeftIs DEF TypeOK
<1> DEFINE s == Shdrs
           p == Phdrs
           left == ToGo(s, p)
<1>2. /\ left["main"] = 8 + 3*p + s /\ left["open"] = 7 + 3*p + s
      /\ left["header"] = 6 + 3*p + s /\ left["magic"] = 5 + 3*p + s
      /\ left["sections"] = 4 + 3*p + s /\ left["strtab"] = 4 + 3*p
      /\ left["phdrs"] = 3 + 3*p /\ left["bounds"] = 3 + 2*p
      /\ left["section"] = 3 + p /\ left["view"] = 2 + p
      /\ left["segments"] = 1 + p /\ left["interceptor"] = 1
  BY <1>1, ToGoIs
<1>3. s \in Nat \ {0} /\ p \in Nat \ {0} /\ RoundsLeft = left[stage] - (next - 1)
  BY <1>1
<1> HIDE DEF s, p, left
<1> SUFFICES RoundsLeft \in Nat \ {0}
  BY <1>1
<1>4. CASE stage \in {"main", "open", "header", "magic", "strtab", "section", "view",
                      "interceptor"}
  <2>1. next = 1
    BY <1>4 DEF Rounds
  <2>2. left[stage] \in Nat \ {0}
    BY ONLY <1>2, <1>3, <1>4
  <2> QED BY ONLY <1>3, <2>1, <2>2
<1>5. CASE stage = "sections"
  <2>1. next <= s /\ next \in Nat \ {0}
    BY <1>1, <1>5 DEF Rounds, s
  <2> QED BY ONLY <1>2, <1>3, <1>5, <2>1
<1>6. CASE stage \in {"phdrs", "bounds", "segments"}
  <2>1. next <= p /\ next \in Nat \ {0}
    <3>1. Len(phdrs) \in Nat
      BY DEF TypeOK
    <3> QED BY <1>1, <1>3, <1>6, <3>1 DEF Rounds, p
  <2> QED BY ONLY <1>2, <1>3, <1>6, <2>1
<1> QED BY <1>4, <1>5, <1>6 DEF TypeOK, Ended

\* What a step of the loader does to its place: it goes on to the next round
\* or the next stage.
Further ==
    \/ stage' \in Ended
    \/ stage' = stage /\ next' = next + 1
    \/ /\ next' = 1
       /\ \/ stage = "main"     /\ stage' = "open"
          \/ stage = "open"     /\ stage' = "header"
          \/ stage = "header"   /\ stage' = "magic"
          \/ stage = "magic"    /\ stage' = "sections"
          \/ stage = "sections" /\ stage' = "strtab"
          \/ stage = "strtab"   /\ stage' = "phdrs"
          \/ stage = "phdrs"    /\ stage' = "bounds"
          \/ stage = "bounds"   /\ stage' = "section"
          \/ stage = "section"  /\ stage' = "view"
          \/ stage = "view"     /\ stage' = "segments"
          \/ stage = "segments" /\ stage' = "interceptor"

LEMMA FurtherIsNearer ==
  ASSUME TypeOK, Rounds, stage \notin Ended, UNCHANGED <<file, leftover>>, Further
  PROVE  RoundsLeft' \in 0 .. RoundsLeft - 1
<1> DEFINE s == Shdrs
           p == Phdrs
           left == ToGo(s, p)
<1>1. /\ s \in Nat \ {0} /\ p \in Nat \ {0} /\ next \in Nat \ {0}
      /\ RoundsLeft = left[stage] - (next - 1) /\ RoundsLeft \in Nat \ {0}
  BY TablesAreSeqs, RoundsAhead DEF TypeOK
<1>2. RoundsLeft' = IF stage' \in Ended THEN 0 ELSE left[stage'] - (next' - 1)
  BY DEF RoundsLeft, Ended, Shdrs, Phdrs
<1>3. /\ left["main"] = 8 + 3*p + s /\ left["open"] = 7 + 3*p + s
      /\ left["header"] = 6 + 3*p + s /\ left["magic"] = 5 + 3*p + s
      /\ left["sections"] = 4 + 3*p + s /\ left["strtab"] = 4 + 3*p
      /\ left["phdrs"] = 3 + 3*p /\ left["bounds"] = 3 + 2*p
      /\ left["section"] = 3 + p /\ left["view"] = 2 + p
      /\ left["segments"] = 1 + p /\ left["interceptor"] = 1
  BY <1>1, ToGoIs
<1> HIDE DEF s, p, left
<1>4. CASE stage' \in Ended
  BY <1>1, <1>2, <1>4
<1>5. CASE stage' = stage /\ next' = next + 1
  <2>1. RoundsLeft' = left[stage] - next
    BY <1>1, <1>2, <1>5
  <2>2. RoundsLeft' = RoundsLeft - 1
    <3>1. left[stage] \in Int
      BY <1>1, <1>3 DEF TypeOK, Ended
    <3> QED BY ONLY <1>1, <2>1, <3>1
  <2> QED BY ONLY <1>1, <2>2
<1>6. CASE stage' \notin Ended /\ stage' # stage
  <2>1. /\ next' = 1 /\ RoundsLeft' = left[stage'] - (next' - 1)
        /\ \/ stage = "main"     /\ stage' = "open" /\ next = 1
           \/ stage = "open"     /\ stage' = "header" /\ next = 1
           \/ stage = "header"   /\ stage' = "magic" /\ next = 1
           \/ stage = "magic"    /\ stage' = "sections" /\ next = 1
           \/ stage = "sections" /\ next <= s /\ stage' = "strtab"
           \/ stage = "strtab"   /\ stage' = "phdrs" /\ next = 1
           \/ stage = "phdrs"    /\ next <= p /\ stage' = "bounds"
           \/ stage = "bounds"   /\ next <= p /\ stage' = "section"
           \/ stage = "section"  /\ stage' = "view" /\ next = 1
           \/ stage = "view"     /\ stage' = "segments" /\ next = 1
           \/ stage = "segments" /\ next <= p /\ stage' = "interceptor"
    <3>1. stage \in {"bounds", "segments"} => next <= p
      <4>1. Len(phdrs) \in Nat
        BY DEF TypeOK
      <4> QED BY <4>1, <1>1 DEF Rounds, p
    <3> QED BY <1>2, <1>6, <3>1 DEF Further, Rounds, s, p
  <2> QED BY ONLY <1>1, <1>3, <2>1
<1> QED BY <1>4, <1>5, <1>6 DEF Further

LEMMA ThreadGoesFurther ==
  ASSUME TypeOK, Rounds, Thread
  PROVE  /\ stage \notin Ended /\ UNCHANGED <<file, leftover>> /\ Further /\ Rounds'
         /\ \/ UNCHANGED late /\ OrphanedOrNot
            \/ UNCHANGED orphans /\ \E x : late' = late \union {x}
<1>1. /\ Shdrs \in Nat /\ Phdrs \in Nat /\ Len(phdrs) \in Nat /\ next \in Nat
      /\ e_shnum \in Nat /\ e_shnum < Shdrs /\ e_phnum \in Nat /\ e_phnum < Phdrs
  BY TablesAreSeqs DEF TypeOK
<1>2. stage \notin Ended /\ UNCHANGED <<file, leftover>>
  BY DEF Thread, Main, OpenElfFile, ReadHeader, ValidateHeader, ReadSectionHeaders,
         ReadStringTable, ReadProgramHeaders, GetImageBoundaries, CreateSection,
         MapViewOfSection, LoadSegments, Start, Throw, Goto, Again, Ended, headerVars
<1>3. Shdrs' = Shdrs /\ Phdrs' = Phdrs
  BY <1>2 DEF Shdrs, Phdrs
<1>4. OrphanedOrNot => orphans' \in {orphans, orphans + 1}
  BY DEF OrphanedOrNot
\* The straight part of the way.
<1>5. CASE \E reason \in {"usage", "status", "magic", "bad_alloc"} : Throw(reason)
  <2>1. stage' = "failed" /\ late' = late /\ OrphanedOrNot
    BY <1>5 DEF Throw, segmentVars, OrphanedOrNot
  <2>2. Further /\ Rounds'
    BY <2>1 DEF Further, Rounds, Ended
  <2> QED BY <1>2, <2>1, <2>2
<1>6. ASSUME UNCHANGED phdrs, next' = 1,
             \/ stage = "main"     /\ stage' = "open"
             \/ stage = "open"     /\ stage' = "header"
             \/ stage = "header"   /\ stage' = "magic"
             \/ stage = "magic"    /\ stage' = "sections"
             \/ stage = "sections" /\ stage' = "strtab"
             \/ stage = "strtab"   /\ stage' = "phdrs"
             \/ stage = "phdrs"    /\ stage' = "bounds"
             \/ stage = "bounds"   /\ stage' = "section"
             \/ stage = "section"  /\ stage' = "view"
             \/ stage = "view"     /\ stage' = "segments"
             \/ stage = "segments" /\ stage' = "interceptor"
             \/ stage = "interceptor" /\ stage' \in Ended
      PROVE  Further /\ Rounds'
  <2>1. Further
    BY <1>6 DEF Further, Ended
  <2>2. Rounds'
    BY <1>1, <1>3, <1>6, TablesAreSeqs DEF Rounds, Ended
  <2> QED BY <2>1, <2>2
<1>7. CASE Main \/ OpenElfFile \/ ValidateHeader \/ CreateSection \/ Start
  <2>1. CASE ~ \E reason \in {"usage", "status", "magic", "bad_alloc"} : Throw(reason)
    <3>1. UNCHANGED phdrs /\ next' = 1 /\ late' = late /\ orphans' = orphans
      BY <1>7, <2>1 DEF Main, OpenElfFile, ValidateHeader, CreateSection, Start, Goto,
                        headerVars, segmentVars
    <3>2. \/ stage = "main"    /\ stage' = "open"
          \/ stage = "open"    /\ stage' = "header"
          \/ stage = "magic"   /\ stage' = "sections"
          \/ stage = "section" /\ stage' = "view"
          \/ stage = "interceptor" /\ stage' \in Ended
      BY <1>7, <2>1 DEF Main, OpenElfFile, ValidateHeader, CreateSection, Start, Goto, Ended
    <3> QED BY <1>2, <1>6, <3>1, <3>2 DEF OrphanedOrNot
  <2> QED BY <1>5, <1>2, <2>1
<1>8. CASE ReadHeader \/ MapViewOfSection
  <2>1. CASE ~ Throw("status")
    <3>1. /\ UNCHANGED phdrs /\ next' = 1 /\ late' \in {late, late \union {0}}
          /\ orphans' = orphans
          /\ \/ stage = "header" /\ stage' = "magic"
             \/ stage = "view"   /\ stage' = "segments"
      BY <1>8, <2>1 DEF ReadHeader, MapViewOfSection, Goto, headerVars, segmentVars
    <3> QED BY <1>2, <1>6, <3>1 DEF OrphanedOrNot
  <2> QED BY <1>5, <1>2, <2>1
<1>9. CASE ReadStringTable /\ ~ \E reason \in {"status", "bad_alloc"} : Throw(reason)
  <2>1. /\ UNCHANGED phdrs /\ next' = 1 /\ late' = late /\ OrphanedOrNot
        /\ stage = "strtab" /\ stage' = "phdrs"
    BY <1>9 DEF ReadStringTable, Goto, headerVars, segmentVars, OrphanedOrNot
  <2> QED BY <1>2, <1>6, <2>1
\* The loops.
<1>10. CASE ReadSectionHeaders /\ ~ Throw("status")
  <2>1. /\ stage = "sections" /\ phdrs' = phdrs /\ late' = late /\ OrphanedOrNot
        /\ \/ stage' = "strtab" /\ next' = 1
           \/ next < Shdrs /\ stage' = stage /\ next' = next + 1
    BY <1>1, <1>10 DEF ReadSectionHeaders, Goto, Again, headerVars, segmentVars, OrphanedOrNot
  <2>2. CASE stage' = "strtab" /\ next' = 1
    BY <1>2, <1>6, <2>1, <2>2
  <2>3. CASE next < Shdrs /\ stage' = stage /\ next' = next + 1
    <3>1. Further /\ Rounds'
      BY <1>1, <1>3, <2>1, <2>3 DEF Further, Rounds
    <3> QED BY <1>2, <2>1, <3>1
  <2> QED BY <2>1, <2>2, <2>3
<1>11. CASE ReadProgramHeaders /\ ~ Throw("status")
  <2>1. /\ stage = "phdrs" /\ late' = late /\ OrphanedOrNot /\ next = Len(phdrs) + 1
        /\ \/ stage' = "bounds" /\ next' = 1 /\ phdrs' = phdrs
           \/ /\ next < Phdrs /\ stage' = stage /\ next' = next + 1
              /\ \E q : phdrs' = Append(phdrs, q)
    BY <1>1, <1>11 DEF ReadProgramHeaders, Goto, Again, headerVars, segmentVars, Rounds,
                       OrphanedOrNot
  <2>2. CASE stage' = "bounds" /\ next' = 1 /\ phdrs' = phdrs
    BY <1>2, <1>6, <2>1, <2>2
  <2>3. CASE /\ next < Phdrs /\ stage' = stage /\ next' = next + 1
             /\ \E q : phdrs' = Append(phdrs, q)
    <3>1. Len(phdrs') = Len(phdrs) + 1
      BY <2>3 DEF TypeOK
    <3>2. Further /\ Rounds'
      BY <1>1, <1>3, <2>1, <2>3, <3>1 DEF Further, Rounds
    <3> QED BY <1>2, <2>1, <3>2
  <2> QED BY <2>1, <2>2, <2>3
<1>12. CASE (GetImageBoundaries \/ LoadSegments) /\ ~ Throw("status")
  <2>1. /\ stage \in {"bounds", "segments"} /\ phdrs' = phdrs
        /\ \/ next' = 1 /\ stage = "bounds" /\ stage' = "section"
           \/ next' = 1 /\ stage = "segments" /\ stage' = "interceptor"
           \/ next \in 1 .. Len(phdrs) /\ stage' = stage /\ next' = next + 1
    BY <1>1, <1>12 DEF GetImageBoundaries, LoadSegments, Goto, Again, headerVars
  <2>2. orphans' = orphans /\ late' \in {late, late \union {next}}
    <3>1. CASE UNCHANGED segmentVars
      BY <3>1 DEF segmentVars
    <3>2. CASE LoadSegment(phdrs[next])
      BY <3>2 DEF LoadSegment
    <3> QED BY <1>12, <3>1, <3>2 DEF GetImageBoundaries, LoadSegments
  <2>3. CASE next' = 1 /\ stage' # stage
    <3>1. Further /\ Rounds'
      BY <1>1, <1>6, <2>1, <2>3
    <3> QED BY <1>2, <2>2, <3>1 DEF OrphanedOrNot
  <2>4. CASE next \in 1 .. Len(phdrs) /\ stage' = stage /\ next' = next + 1
    <3>1. Further /\ Rounds'
      BY <1>1, <1>3, <2>1, <2>4 DEF Further, Rounds
    <3> QED BY <1>2, <2>2, <3>1 DEF OrphanedOrNot
  <2> QED BY <1>1, <2>1, <2>3, <2>4
<1> QED BY <1>2, <1>5, <1>7, <1>8, <1>9, <1>10, <1>11, <1>12 DEF Thread

LEMMA LateIsFinite == TypeOK => IsFiniteSet(late) /\ Cardinality(late) \in Nat
<1> SUFFICES ASSUME TypeOK PROVE IsFiniteSet(late) /\ Cardinality(late) \in Nat
  OBVIOUS
<1>1. late \in SUBSET (0 .. Len(phdrs)) /\ 0 \in Int /\ Len(phdrs) \in Int
  BY DEF TypeOK
<1>2. IsFiniteSet(late)
  BY <1>1, FS_Interval, FS_Subset
<1> QED BY <1>2, FS_CardinalityType

LEMMA ThreadBringsNearer ==
  ASSUME TypeOK, Rounds, Thread PROVE Rounds' /\ StepsLeft' \in 0 .. StepsLeft - 1
<1>1. Rounds' /\ RoundsLeft' \in 0 .. RoundsLeft - 1 /\ RoundsLeft \in Nat
  BY ThreadGoesFurther, FurtherIsNearer, RoundsAhead
<1>2. Cardinality(late) \in Nat /\ orphans \in Nat
  BY LateIsFinite DEF TypeOK
<1>3. /\ Cardinality(late') \in Nat /\ orphans' \in Nat
      /\ Cardinality(late') + orphans' <= Cardinality(late) + orphans + 1
  <2>1. CASE UNCHANGED late /\ OrphanedOrNot
    BY <1>2, <2>1 DEF OrphanedOrNot
  <2>2. CASE UNCHANGED orphans /\ \E x : late' = late \union {x}
    <3>1. PICK x : late' = late \union {x}
      BY <2>2
    <3>2. Cardinality(late \union {x}) \in {Cardinality(late), Cardinality(late) + 1}
      BY LateIsFinite, FS_AddElement
    <3>3. Cardinality(late') \in {Cardinality(late), Cardinality(late) + 1}
      BY <3>1, <3>2
    <3> QED BY ONLY <1>2, <2>2, <3>3
  <2> QED BY <2>1, <2>2, ThreadGoesFurther
<1> QED BY <1>1, <1>2, <1>3 DEF StepsLeft

\* A step that is not the thread's has as many rounds left as before.
LEMMA OthersLeaveRounds ==
  ASSUME TypeOK, Rounds, UNCHANGED <<stage, file, next, leftover, phdrs>>
  PROVE  Rounds' /\ RoundsLeft' = RoundsLeft /\ RoundsLeft \in Nat
<1>1. RoundsLeft \in Nat
  BY RoundsAhead, LeftIs
<1> QED BY <1>1 DEF Rounds, RoundsLeft, Shdrs, Phdrs

LEMMA LandBringsNearer ==
  ASSUME TypeOK, Rounds, DataLands PROVE Rounds' /\ StepsLeft' \in 0 .. StepsLeft - 1
<1>1. Rounds' /\ RoundsLeft' = RoundsLeft /\ RoundsLeft \in Nat
  BY OthersLeaveRounds DEF DataLands
<1>2. Cardinality(late) \in Nat /\ orphans \in Nat
  BY LateIsFinite DEF TypeOK
<1>3. /\ Cardinality(late') \in Nat /\ orphans' \in Nat
      /\ Cardinality(late') + orphans' = Cardinality(late) + orphans - 1
  <2>1. CASE \E i \in late : late' = late \ {i} /\ orphans' = orphans
    <3>1. PICK i \in late : late' = late \ {i} /\ orphans' = orphans
      BY <2>1
    <3>2. Cardinality(late') = Cardinality(late) - 1 /\ Cardinality(late') \in Nat
      BY <3>1, LateIsFinite, FS_RemoveElement, FS_CardinalityType
    <3> QED BY ONLY <1>2, <3>1, <3>2
  <2>2. CASE OrphanLands
    BY <1>2, <2>2 DEF OrphanLands
  <2> QED BY <2>1, <2>2 DEF DataLands, HeaderLands, SegmentLands
<1> QED BY <1>1, <1>2, <1>3 DEF StepsLeft

\* Nor do the program and the thread gone astray put the end off.
LEMMA OthersPutNothingOff ==
  ASSUME TypeOK, Rounds, GoAstray \/ \E a \in Writable : ProgramStores(a)
  PROVE  Rounds' /\ StepsLeft' \in 0 .. StepsLeft
<1>1. Cardinality(late) \in Nat /\ orphans \in Nat
  BY LateIsFinite DEF TypeOK
<1>2. CASE GoAstray
  <2>1. stage' = "astray" /\ stage \notin {"failed", "astray"} /\ UNCHANGED <<late, orphans>>
    BY <1>2 DEF GoAstray, segmentVars
  <2>2. Rounds' /\ RoundsLeft' = 0 /\ RoundsLeft \in Nat
    BY <2>1, RoundsAhead, LeftIs DEF Rounds, RoundsLeft
  <2> QED BY <1>1, <2>1, <2>2 DEF StepsLeft
<1>3. CASE \E a \in Writable : ProgramStores(a)
  <2>1. UNCHANGED <<stage, file, next, leftover, phdrs, late, orphans>>
    BY <1>3 DEF ProgramStores, headerVars
  <2>2. Rounds' /\ RoundsLeft' = RoundsLeft /\ RoundsLeft \in Nat
    BY <2>1, OthersLeaveRounds
  <2> QED BY <1>1, <2>1, <2>2 DEF StepsLeft
<1> QED BY <1>2, <1>3

\* The loader takes at most as many steps as the counts in m_Header, those of
\* the file or those that stood there before, allow rounds, and as many reads
\* land late as it has made: for every file it comes to an end, unless the
\* thread goes astray first, and nothing that happens besides puts the end
\* off (ElfFile.cpp:91-195, 239-280).
THEOREM LoaderTerminates == Spec => LoaderAdvances
<1>1. Init => Rounds
  BY FilesAssumption DEF Init, Rounds, Shdrs, Phdrs
<1>2. TypeOK /\ Rounds /\ [Next]_vars =>
        /\ Rounds'
        /\ [/\ StepsLeft' \in 0 .. StepsLeft
            /\ Thread \/ DataLands => StepsLeft' < StepsLeft]_vars
  <2> SUFFICES ASSUME TypeOK, Rounds, [Next]_vars
               PROVE  /\ Rounds'
                      /\ \/ UNCHANGED vars
                         \/ /\ StepsLeft' \in 0 .. StepsLeft
                            /\ Thread \/ DataLands => StepsLeft' < StepsLeft
    OBVIOUS
  <2>1. StepsLeft \in Nat
    <3>1. RoundsLeft \in Nat
      BY RoundsAhead, LeftIs
    <3> QED BY <3>1, LateIsFinite DEF StepsLeft, TypeOK
  <2>2. CASE Thread \/ DataLands
    <3>1. Rounds' /\ StepsLeft' \in 0 .. StepsLeft - 1
      BY <2>2, ThreadBringsNearer, LandBringsNearer
    <3> QED BY <2>1, <3>1
  <2>3. CASE ~(Thread \/ DataLands) /\ (GoAstray \/ \E a \in Writable : ProgramStores(a))
    BY <2>3, OthersPutNothingOff
  <2>4. CASE UNCHANGED vars
    BY <2>4 DEF vars, Rounds, headerVars, Shdrs, Phdrs
  <2> QED BY <2>2, <2>3, <2>4 DEF Next
<1> QED BY <1>1, <1>2, TypeCorrect, PTL DEF Spec, LoaderAdvances
=============================================================================
