------------------------------- MODULE Loader -------------------------------
(***************************************************************************)
(* The ELF loader: main, and the ElfFile it constructs and maps.  The file *)
(* is read piece by piece and nothing checks how much of a piece has       *)
(* arrived: NtReadFile succeeds on a short read, and because NtOpenFile is *)
(* not asked for synchronous input it may also succeed, with               *)
(* STATUS_PENDING, before any data is there.  A read therefore ends in one *)
(* of four ways: in full, late (data and status land some steps later, if  *)
(* they do), cut (the rest never lands), or with an error, which NT_ERR_E  *)
(* throws.                                                                 *)
(*                                                                         *)
(* What is late lands where the call was told to put it: the status in a   *)
(* block on the stack of a ReadFromFile that has returned, an entry of a   *)
(* table in a variable of the loop's last round.  If by then something     *)
(* else lives there, the thread is no longer the program that was written: *)
(* it is astray, and nothing is said of it.                                *)
(*                                                                         *)
(* A byte of the memory is 0 as long as nothing is stored there, o + 1     *)
(* when it holds the byte at offset o of the file, OwnData when it was     *)
(* stored by the program that was started, and Strewn when a late read     *)
(* has struck it on the stack.  Of a section header only the type matters, *)
(* since nothing looks at the string table again.                          *)
(***************************************************************************)
EXTENDS Integers, Sequences, FiniteSets

CONSTANTS
    Modulus,    \* SIZE_T and Elf32_Addr count modulo this, 2^32 in the code
    Granule,    \* the allocation granularity of views, 64K
    UserTop,    \* no view reaches this address
    Host,       \* addresses already in use when Map runs: the loader itself
    Stack,      \* those of them where its calls leave their frames
    Files,      \* the files the loader may be given
    StaleHeader, \* what may stand in the place of m_Header before it is read
    StalePhdr,  \* what a program header may hold that is not from the table:
                \* leftovers on the stack, bytes from elsewhere in the file
    Writable    \* where the program stores data of its own

Word == 0 .. Modulus - 1
Address == 0 .. UserTop - 1

Phdr == [type : {"LOAD", "other"}, vaddr : Word, memsz : Word,
         offset : Word, filesz : Word]

SectionType == {"STRTAB", "other"}

\* What is looked at of a header, in the order in which it stands there: the
\* magic, e_entry (whether it is that of the file), e_phnum and e_shnum.
Header == [magic : BOOLEAN, entry : BOOLEAN, phnum : Nat, shnum : Nat]
Fields == 4

OwnData == -1
Strewn == -2
Byte == Nat \union {OwnData, Strewn}

ASSUME ArithmeticAssumption ==
    /\ Modulus \in Nat /\ Granule \in Nat \ {0} /\ UserTop \in 1 .. Modulus - 1
    /\ Host \subseteq Address /\ Stack \subseteq Host
    /\ Writable \subseteq Address

ASSUME FilesAssumption ==
    /\ StaleHeader \subseteq Header
    /\ StalePhdr \subseteq Phdr
    /\ \A f \in Files : /\ f.magic \in BOOLEAN
                        /\ f.shdrs \in Seq(SectionType)
                        /\ f.phdrs \in Seq(Phdr)

VARIABLES
    stage,      \* what the loader does next, or how it ended
    file,       \* the file named by argv[1]
    next,       \* CurrentSection, CurrentHeader or It of the loop running
    leftover,   \* what stood in the place of m_Header
    arrived,    \* how many of its fields have come from the file
    sections,   \* m_SectionHeaders, the types
    phdrs,      \* m_ProgramHeaders
    Min, Max,   \* the image boundaries
    view,       \* the addresses of the view of the section
    memory,     \* the bytes in the address space
    late,       \* reads whose data has not landed: 0 m_Header, i segment i
    orphans,    \* as many others, of table entries and the string table
    cut,        \* segments whose read was short
    slow,       \* segments that were late when the program started
    written,    \* where the program has stored data of its own
    thrown      \* the exception that ended the loader

vars == <<stage, file, next, leftover, arrived, sections, phdrs, Min, Max, view,
          memory, late, orphans, cut, slow, written, thrown>>
headerVars == <<leftover, arrived, sections, phdrs>>
boundVars == <<Min, Max, view>>
segmentVars == <<memory, late, orphans, cut>>
programVars == <<slow, written>>

TypeOK ==
    /\ stage \in {"main", "open", "header", "magic", "sections", "strtab",
                  "phdrs", "bounds", "section", "view", "segments",
                  "interceptor", "running", "failed", "astray"}
    /\ file \in Files
    /\ next \in Nat \ {0}
    /\ leftover \in StaleHeader /\ arrived \in 0 .. Fields
    /\ sections \in Seq(SectionType)
    /\ phdrs \in Seq(Phdr)
    /\ Min \in Word /\ Max \in Word
    /\ view \subseteq Address
    /\ memory \in [Address -> Byte]
    /\ late \subseteq 0 .. Len(phdrs)
    /\ orphans \in Nat
    /\ cut \subseteq 1 .. Len(phdrs)
    /\ slow \subseteq 0 .. Len(phdrs)
    /\ written \subseteq view
    /\ thrown \in {"none", "usage", "status", "magic", "bad_alloc"}

Init ==
    /\ stage = "main" /\ file \in Files /\ next = 1
    /\ leftover \in StaleHeader /\ arrived = 0 /\ sections = <<>> /\ phdrs = <<>>
    /\ Min = 0 /\ Max = 0 /\ view = {} /\ memory = [a \in Address |-> 0]
    /\ late = {} /\ orphans = 0 /\ cut = {} /\ slow = {} /\ written = {}
    /\ thrown = "none"

\* The fields of m_Header as they are by now.
magic   == IF arrived >= 1 THEN file.magic ELSE leftover.magic
e_entry == IF arrived >= 2 THEN TRUE ELSE leftover.entry
e_phnum == IF arrived >= 3 THEN Len(file.phdrs) ELSE leftover.phnum
e_shnum == IF arrived >= 4 THEN Len(file.shdrs) ELSE leftover.shnum

(***************************************************************************)
(* How a stage ends: the next one, another round of its loop, or an        *)
(* exception (or, for "usage", the return) that ends main.                 *)
(***************************************************************************)
Goto(s) == stage' = s /\ next' = 1 /\ UNCHANGED <<file, thrown, programVars>>

Again == next' = next + 1 /\ UNCHANGED <<stage, file, thrown, programVars>>

Throw(reason) ==
    /\ stage' = "failed" /\ thrown' = reason
    /\ UNCHANGED <<file, next, headerVars, boundVars, segmentVars, programVars>>

(***************************************************************************)
(* main up to the constructor, OpenElfFile, ReadHeader and ValidateHeader, *)
(* which looks at m_Header as it is by then.  A read that is cut brings    *)
(* the first fields only, and the rest are what stood on the stack; the    *)
(* magic at least is there when the file has it.                           *)
(***************************************************************************)
Main ==
    /\ stage = "main"
    /\ \/ Throw("usage")
       \/ Goto("open") /\ UNCHANGED <<headerVars, boundVars, segmentVars>>

OpenElfFile ==
    /\ stage = "open"
    /\ \/ Throw("status")
       \/ Goto("header") /\ UNCHANGED <<headerVars, boundVars, segmentVars>>

Arrivals == IF file.magic THEN 1 .. Fields ELSE 0 .. Fields

ReadHeader ==
    /\ stage = "header"
    /\ \/ Throw("status")
       \/ /\ Goto("magic")
          /\ \/ arrived' \in Arrivals /\ late' = late
             \/ arrived' = arrived /\ late' = late \union {0}
          /\ UNCHANGED <<leftover, sections, phdrs, boundVars, memory, orphans, cut>>

\* Seeded fault: the header is read again until it has the magic.
ValidateHeader_again ==
    /\ stage = "magic"
    /\ IF magic THEN Goto("sections") ELSE Goto("header")
    /\ UNCHANGED <<headerVars, boundVars, segmentVars>>

ValidateHeader ==
    /\ stage = "magic"
    /\ IF magic
       THEN Goto("sections") /\ UNCHANGED <<headerVars, boundVars, segmentVars>>
       ELSE Throw("magic")

(***************************************************************************)
(* The tables.  Each round compares with m_Header again, which may land in *)
(* between.  An entry that has not arrived is copied into the table all    *)
(* the same, with what its place on the stack holds: something stale, or   *)
(* an entry of an earlier round; and the table of a header that was cut or *)
(* is late is read from wherever its offset points.  resize may throw what *)
(* main does not catch.                                                    *)
(***************************************************************************)
OrphanedOrNot == orphans' \in {orphans, orphans + 1}

ReadSectionHeaders ==
    /\ stage = "sections"
    /\ IF next > e_shnum
       THEN Goto("strtab") /\ UNCHANGED <<headerVars, boundVars, segmentVars>>
       ELSE \/ Throw("status")
            \/ /\ Again /\ OrphanedOrNot
               /\ \E t \in SectionType : sections' = Append(sections, t)
               /\ UNCHANGED <<leftover, arrived, phdrs, boundVars, memory, late, cut>>

ReadStringTable ==
    /\ stage = "strtab"
    /\ IF \A i \in 1 .. Len(sections) : sections[i] # "STRTAB"
       THEN Goto("phdrs") /\ UNCHANGED <<headerVars, boundVars, segmentVars>>
       ELSE \/ \E reason \in {"status", "bad_alloc"} : Throw(reason)
            \/ /\ Goto("phdrs") /\ OrphanedOrNot
               /\ UNCHANGED <<headerVars, boundVars, memory, late, cut>>

ArrivesAs(i) ==
    {file.phdrs[j] : j \in {k \in 1 .. Len(file.phdrs) : k <= i}} \union StalePhdr

\* Seeded fault: an entry that is late is asked for again.
ReadProgramHeaders_again ==
    /\ stage = "phdrs"
    /\ IF next > e_phnum
       THEN /\ Goto("bounds") /\ Min' = Modulus - 1 /\ Max' = 0
            /\ UNCHANGED <<headerVars, view, segmentVars>>
       ELSE \/ Throw("status")
            \/ /\ Again
               /\ \E p \in ArrivesAs(next) : phdrs' = Append(phdrs, p)
               /\ UNCHANGED <<leftover, arrived, sections, boundVars, segmentVars>>
            \/ /\ orphans' = orphans + 1
               /\ UNCHANGED <<stage, file, next, thrown, programVars>>
               /\ UNCHANGED <<headerVars, boundVars, memory, late, cut>>

ReadProgramHeaders ==
    /\ stage = "phdrs"
    /\ IF next > e_phnum
       THEN /\ Goto("bounds") /\ Min' = Modulus - 1 /\ Max' = 0
            /\ UNCHANGED <<headerVars, view, segmentVars>>
       ELSE \/ Throw("status")
            \/ /\ Again /\ OrphanedOrNot
               /\ \E p \in ArrivesAs(next) : phdrs' = Append(phdrs, p)
               /\ UNCHANGED <<leftover, arrived, sections, boundVars, memory, late, cut>>

(***************************************************************************)
(* GetImageBoundaries, one header a step.                                  *)
(***************************************************************************)
IsLoad(p) == p.type = "LOAD"

\* Seeded fault: the size in the file instead of that in memory.
End_ofFile(p) == (p.vaddr + p.filesz) % Modulus
\* Seeded fault: the sum is taken in more than 32 bits.
End_wide(p) == p.vaddr + p.memsz

End(p) == (p.vaddr + p.memsz) % Modulus

Lower(bound, p) == IF p.vaddr < bound THEN p.vaddr ELSE bound

\* Seeded fault: the last segment decides.
Upper_last(bound, p) == End(p)

Upper(bound, p) == IF End(p) > bound THEN End(p) ELSE bound

GetImageBoundaries ==
    /\ stage = "bounds"
    /\ UNCHANGED <<headerVars, view, segmentVars>>
    /\ \/ next > Len(phdrs) /\ Goto("section") /\ UNCHANGED <<Min, Max>>
       \/ /\ next \in 1 .. Len(phdrs) /\ Again
          /\ IF IsLoad(phdrs[next])
             THEN Min' = Lower(Min, phdrs[next]) /\ Max' = Upper(Max, phdrs[next])
             ELSE UNCHANGED <<Min, Max>>

(***************************************************************************)
(* Map: the section, its view (at an address of the kernel's choice when   *)
(* the base comes out as NULL), and the segments.  Reading into memory     *)
(* that is not there is an error.                                          *)
(***************************************************************************)
MappingBase == Min - (Min % Granule)
MappingSize == ((Max - Min) + (Min % Granule)) % Modulus

CreateSection ==
    /\ stage = "section"
    /\ \/ Throw("status")
       \/ /\ MappingSize > 0
          /\ Goto("view") /\ UNCHANGED <<headerVars, boundVars, segmentVars>>

Bases == IF MappingBase = 0 THEN {a \in Address : a > 0 /\ a % Granule = 0}
                            ELSE {MappingBase}

MapViewOfSection ==
    /\ stage = "view"
    /\ \/ Throw("status")
       \/ /\ \E base \in Bases :
                /\ view' = base .. base + MappingSize - 1
                /\ view' \subseteq Address \ Host
          /\ Goto("segments")
          /\ UNCHANGED <<headerVars, Min, Max, segmentVars>>

\* The first n bytes of segment p.
Bytes(p, n) == p.vaddr .. p.vaddr + n - 1

\* Seeded fault: whole pages are read, up to the memory size.
Stored_whole(m, p, n) == [a \in Address |->
    IF a \in Bytes(p, IF n = p.filesz THEN p.memsz ELSE n)
    THEN p.offset + (a - p.vaddr) + 1 ELSE m[a]]

Stored(m, p, n) == [a \in Address |->
    IF a \in Bytes(p, n) THEN p.offset + (a - p.vaddr) + 1 ELSE m[a]]

\* The switch over p_flags has no effect where ASSERT is empty (a release
\* build), since the protection it chooses is not used.
LoadSegment(p) ==
    /\ IsLoad(p) /\ Bytes(p, p.filesz) \subseteq view \union Host
    /\ \/ \E n \in 0 .. p.filesz :
             /\ memory' = Stored(memory, p, n) /\ late' = late
             /\ cut' = IF n = p.filesz THEN cut ELSE cut \union {next}
       \/ late' = late \union {next} /\ UNCHANGED <<memory, cut>>
    /\ UNCHANGED orphans

LoadSegments ==
    /\ stage = "segments"
    /\ \/ /\ next > Len(phdrs) /\ Goto("interceptor")
          /\ UNCHANGED <<headerVars, boundVars, segmentVars>>
       \/ /\ next \in 1 .. Len(phdrs) /\ Again
          /\ \/ LoadSegment(phdrs[next])
             \/ ~IsLoad(phdrs[next]) /\ UNCHANGED segmentVars
          /\ UNCHANGED <<headerVars, boundVars>>
       \/ /\ next \in 1 .. Len(phdrs) /\ IsLoad(phdrs[next])
          /\ Throw("status")

\* InitSyscallInterceptor, and start at GetEntryPoint, if that is where
\* e_entry points.
Start ==
    /\ stage = "interceptor" /\ next' = 1 /\ slow' = late
    /\ stage' = IF e_entry THEN "running" ELSE "astray"
    /\ UNCHANGED <<file, thrown, written, headerVars, boundVars, segmentVars>>

(***************************************************************************)
(* A late read completes, at any time from then on: in full, in part, or,  *)
(* when it fails by then, with nothing.  Its status, and for an orphan the *)
(* entry itself, strike the stack.                                         *)
(***************************************************************************)
Struck(m) == {[m EXCEPT ![a] = Strewn] : a \in Stack}

HeaderLands ==
    /\ 0 \in late /\ late' = late \ {0}
    /\ arrived' \in 0 .. Fields
    /\ memory' \in Struck(memory)
    /\ UNCHANGED <<cut, orphans>>

SegmentLands(i) ==
    /\ i \in late \ {0} /\ late' = late \ {i}
    /\ \E n \in 0 .. phdrs[i].filesz :
          /\ memory' \in Struck(Stored(memory, phdrs[i], n))
          /\ cut' = IF n = phdrs[i].filesz THEN cut ELSE cut \union {i}
    /\ UNCHANGED <<arrived, orphans>>

OrphanLands ==
    /\ orphans > 0 /\ orphans' = orphans - 1
    /\ memory' \in Struck(memory)
    /\ UNCHANGED <<arrived, late, cut>>

DataLands ==
    /\ stage \notin {"failed", "astray"}
    /\ HeaderLands \/ OrphanLands \/ \E i \in late : SegmentLands(i)
    /\ UNCHANGED <<stage, file, next, leftover, sections, phdrs, boundVars,
                   programVars, thrown>>

(***************************************************************************)
(* The program, which keeps to its image, stores data of its own; and a    *)
(* thread whose stack was struck may find a live frame spoilt.             *)
(***************************************************************************)
ProgramStores(a) ==
    /\ stage = "running" /\ a \in view
    /\ memory' = [memory EXCEPT ![a] = OwnData]
    /\ written' = written \union {a}
    /\ UNCHANGED <<stage, file, next, headerVars, boundVars, late, orphans, cut,
                   slow, thrown>>

GoAstray ==
    /\ stage \notin {"failed", "astray"}
    /\ \E a \in Stack : memory[a] = Strewn
    /\ stage' = "astray"
    /\ UNCHANGED <<file, next, thrown, headerVars, boundVars, segmentVars,
                   programVars>>

Thread == \/ Main \/ OpenElfFile \/ ReadHeader \/ ValidateHeader
          \/ ReadSectionHeaders \/ ReadStringTable \/ ReadProgramHeaders
          \/ GetImageBoundaries \/ CreateSection \/ MapViewOfSection
          \/ LoadSegments \/ Start

Next == Thread \/ DataLands \/ GoAstray \/ \E a \in Writable : ProgramStores(a)

Spec == Init /\ [][Next]_vars

\* The scheduler runs the only thread, and a read that is pending completes.
FairSpec == Spec /\ WF_vars(Thread) /\ WF_vars(DataLands)

-----------------------------------------------------------------------------
(***************************************************************************)
(* Properties.                                                             *)
(***************************************************************************)

\* What the ELF specification and a Windows address space ask of a header.
Fits(p) == IsLoad(p) => /\ Granule <= p.vaddr
                        /\ p.filesz <= p.memsz
                        /\ p.vaddr + p.memsz < Modulus

AllFit == \A i \in 1 .. Len(phdrs) : Fits(phdrs[i])

Disjoint == \A i, j \in 1 .. Len(phdrs) :
    i # j /\ IsLoad(phdrs[i]) /\ IsLoad(phdrs[j]) =>
        Bytes(phdrs[i], phdrs[i].memsz) \intersect Bytes(phdrs[j], phdrs[j].memsz) = {}

\* With headers that fit, as those that wrap around or begin below the
\* granule break it, Map writes to no memory that was in use before it but the
\* stack: the boundaries it finds in one pass over headers in any order
\* enclose every segment, what lands late stays inside them too, and the
\* stack gets nothing of the file's.  Of a thread gone astray nothing is said
\* (ElfFile.cpp:171-280).
HostUntouched ==
    AllFit /\ stage # "astray" =>
        \A a \in Host : memory[a] = 0 \/ (a \in Stack /\ memory[a] = Strewn)

InFile(p, a) == IF a \in Bytes(p, p.filesz) THEN p.offset + (a - p.vaddr) + 1 ELSE 0

\* Segment p is in the view, its file part read and its bss zero, except where
\* the program has stored something since.
Loaded(p) == \A a \in Bytes(p, p.memsz) :
    /\ a \in view
    /\ memory[a] = InFile(p, a) \/ (a \in written /\ memory[a] = OwnData)

\* What the program has stored in segment p is still there.
KeepsItsData(p) == \A a \in Bytes(p, p.memsz) \intersect written :
    memory[a] = OwnData

\* While the program runs, each segment that was not cut and is no longer
\* late is complete, zeros after the file part included, although nothing
\* zeroes them (the memset is a comment): what other reads did, in whatever
\* order their data landed, does not show in it.  What the program stores in
\* a segment that was not late when it started stays (ElfFile.cpp:239-280).
ImageComplete ==
    stage = "running" /\ AllFit /\ Disjoint =>
        \A i \in 1 .. Len(phdrs) : IsLoad(phdrs[i]) =>
            /\ i \notin late \union cut => Loaded(phdrs[i])
            /\ i \notin slow => KeepsItsData(phdrs[i])

\* Whatever the file holds and however its reads end, the loader jumps to the
\* program or gives up: none of its loops is without an end, unless a late
\* read spoils the frame it runs in (ElfFile.cpp:69-195, 239-280,
\* main.cpp:32-56).
LoaderEnds == <>(stage \in {"running", "failed", "astray"})

\* The steps that the loader has before it at the start of a stage, with loops
\* of s rounds over the section headers and of p over the program headers.
ToGo(s, p) ==
    [main |-> 8 + 3*p + s, open |-> 7 + 3*p + s, header |-> 6 + 3*p + s,
     magic |-> 5 + 3*p + s, sections |-> 4 + 3*p + s, strtab |-> 4 + 3*p,
     phdrs |-> 3 + 3*p, bounds |-> 3 + 2*p, section |-> 3 + p,
     view |-> 2 + p, segments |-> 1 + p, interceptor |-> 1]

\* The rounds a loop can have at most: as many as there are entries in the
\* file's header or in what stood in its place, and one that leaves it.
Shdrs == leftover.shnum + Len(file.shdrs) + 1
Phdrs == leftover.phnum + Len(file.phdrs) + 1

RoundsLeft ==
    IF stage \in {"running", "failed", "astray"} THEN 0
    ELSE ToGo(Shdrs, Phdrs)[stage] - (next - 1)

\* Each step can leave one read behind.
StepsLeft == 2 * RoundsLeft + Cardinality(late) + orphans

\* Every step of the loader, and every late read that lands, brings its end
\* nearer, and nothing else puts it off: the counts in the file's header, or
\* those on the stack when it was cut or is late, and not what the tables
\* hold, bound the time that it takes (ElfFile.cpp:91-195, 239-280).
LoaderAdvances ==
    [][/\ StepsLeft' \in 0 .. StepsLeft
       /\ Thread \/ DataLands => StepsLeft' < StepsLeft]_vars

\* Nothing waits for the data of the segments, but a program that was started
\* has its whole image in the end, except for what the file lacks or the
\* program has stored over; if it does not go astray on what the late reads
\* leave on the stack.  That what lands late may replace data the program has
\* stored meanwhile is not excluded (ElfFile.cpp:243-248).
ImageArrives ==
    stage = "running" /\ AllFit /\ Disjoint ~>
        \/ stage = "astray"
        \/ \A i \in 1 .. Len(phdrs) :
              IsLoad(phdrs[i]) /\ i \notin cut => Loaded(phdrs[i])

\* "Invalid ELF magick" is what ValidateHeader says of a file without the
\* magic.  A file with it whose header lands late is refused in these words.
MagickIsTheFiles == thrown = "magic" => ~file.magic
=============================================================================
