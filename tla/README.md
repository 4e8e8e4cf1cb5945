# A verification project for LINE2

LINE2 runs 32-bit Linux programs on Windows without a virtual machine: `lnexec`
maps the segments of a static ELF executable into its own process, jumps to its
entry point, and serves the program's `INT 80h` system calls and its
GS-relative instructions, both of which fault on Windows, from a vectored
exception handler.

This directory holds TLA+ models of that loader and emulator, TLC
configurations that check them on small instances, and TLAPS proofs for every
value of the constants. Paths below are relative to `src/src/` of the repository
unless they start with `src/`.

## The system

| Part | Source | State it keeps | Operations | Hard parts | What makes it correct |
|---|---|---|---|---|---|
| Syscall interception | `lnexec/intercept.c`, `syscall_dispatch.c`, `syscalls.inc`, `stubs.c` | registers and stack of the one thread | fault, redirection, argument frame, dispatch, epilogue | a protocol spread over a handler, a naked function and a C callee that share the program's own stack | the five steps look like one `INT 80h` |
| Thread-local storage and GS | `lnexec/sys_tls.c`, `gs_support.c` | TLS slots, copies of descriptors, the static `GsTls` | `set_thread_area`, `mov gs`, GS accesses | lazily allocated slot, aliasing, stale descriptors, failures of `TlsAlloc` and `malloc` | accesses use the base loaded last; no slot has two owners |
| GS instructions | `lnexec/intercept.c:47-194` | registers, flags | one emulated instruction per encoding | hand-picked registers and lengths, operand widths, flags | the effect is the processor's |
| Program break | `lnexec/sys_brk.c` | `Base`, `CurrentBreak`, committed pages | `brk(NULL)`, `brk(p)` | sequences of growths, wrap-around, failed allocations | granted memory is usable and granted once |
| Vectored input and output | `lnexec/sys_read.c`, `sys_write.c` | the position of a stream | `read`, `readv`, `writev` | short transfers, transfers that are still pending when the call returns, an error after part of the data has moved, sums that pass an `int` | the result is what has moved; each byte lands in one place, in order |
| ELF loader | `ElfLoader/ElfFile.cpp`, `lnexec/main.cpp` | headers, the mapped image | open, read headers, image boundaries, map | asynchronous and short reads, tables in any order, 32-bit boundaries, failure between two steps | the image is the file's; the host's memory is left alone; it comes to an end |
| Handles and exceptions | `Common/*` | an NT handle | construct, duplicate, assign, `&`, out of scope | no destructor, double close, sharing by the assignment the compiler writes, values that Windows gives out again | a handle is closed by its owner or by nobody |
| Set-up of the thread's block | `sys_brk.c` and `sys_tls.c` together | those of the two, and where the block is | the libc's `sbrk`, `set_thread_area`, `mov gs`, then a growing heap | a failed `brk` writes `errno` through GS; later growths commit the first pages again | the block stays committed and the thread's own |
| Program start and end | `lnexec/main.cpp`, `stubs.c`, `intercept.c` | the words on the stack, the auxiliary vector, registered handlers, standard input | `start`, the libc's walk over the stack, its system calls before and after `main`, `exit`, `exit_group`, `hlt` | leftovers of the host's frame taken for an auxiliary vector, a read that waits for somebody, calls that should end the process and return | the program sees its own arguments, gets to `main`, and ends |
| Small system calls | `sys_open.c`, `sys_close.c`, `sys_time.c`, `sys_uname.c`, `sys_uid.c`, `sys_gid.c` | none | constants, the clock | none | the constants let the libc start |

How they interact: `main` constructs an `ElfFile`, which reads the headers, and
calls `Map`, which fills the address space; it then registers the exception
handler and jumps. From there the Linux program is in control, and LINE runs only
inside its faults: an `INT 80h` redirects it to `HandleSyscall`, which calls a
handler from the table (`sys_brk`, `sys_set_thread_area`, `sys_readv`, ...); a
`mov gs` or an instruction with a GS prefix is carried out on the saved context
through `GSLoad` and `GSTranslateAddress`, which look at the TLS slots that
`sys_set_thread_area` fills.

There is one thread: `clone` and `fork` are stubs. What interleaves
with it is the kernel, which completes asynchronous transfers at times of its own
(`Loader`, `VectoredIo`), and whoever types on standard input or closes it (`ProcessLife`);
everything else that is hard here comes from sequences of legal calls, from calls
of Windows that fail, and from 32-bit arithmetic.

## The modules

### `SyscallTrap`, refining `AtomicSyscall`

State: the program's registers, `eip`, the stack as a function of its words, and
what the trap is doing. One action per step of the code: `TryHandleInt80`
(redirection and pushed return address), `PushArguments` (the seven pushes of
`HandleSyscall`), `DispatchSyscall` (range check, table, handler), `Epilogue`.
A handler of the table may return anything, and being compiled code may change the
registers its calling convention gives it and the argument words that are its
parameters. Those that go through a pointer (`Dereferencing`: the program's, as in
`uname` or `readv`, or the result of an unchecked `malloc`) may also store into the
words of the program's live stack, which may be the buffer they were given, or fault,
and the process ends. A number outside the table sends the processor to a word that
is no table entry: the process ends, or it is astray and nothing more is said of it.
Around the trap the program runs, pushes, pops, executes GS instructions
(`TryHandleGS`, which may fault through a missing or bad descriptor, `UnexpectedGs`)
and instructions that fault for other reasons (`Unhandled`).

`AtomicSyscall` is what a program expects of a kernel: `INT 80h` enters the handler
EAX names with the arguments of the registers, and then either changes EAX (and
here ECX and EDX, see Findings), the words a dereferencing handler may store to, and
nothing else of the program's own; or such a handler faults and the process is gone.
Handlers that follow no pointer always come back. It promises nothing for a number
outside the table.

### `ThreadArea`, refining `Segments`

State: which TLS indices are allocated, the pointer in each slot, the descriptors
malloc'ed so far, the static `GsTls`. `AllocateThreadArea` and `ChangeThreadArea`
are the two branches of `sys_set_thread_area`, `GSLoad` and `GSAccess` the
functions of `gs_support.c`, with the lazy `CurrentGs` inside each. `Segments`
has a table of bases and the base GS holds: loading copies, a later change of the
table does not show through.

### `GsInstr`, refining `X86Gs`

`GsInstr` has one action per case of `HandleGsIstruction`, chosen by opcode and
whole ModRM byte as in the code. `X86Gs` is an independent reference: it takes
the ModRM byte apart and derives registers, effective address and length. `xor`
is a constant operator, which the run instantiates bit by bit, so that the proof
needs no recursive definition.

### `Brk`

State: `Base`, `CurrentBreak`, the regions and committed pages of the address
space, the libc's `__curbrk`, and the pieces granted so far. `ReserveArena` is
`brk(NULL)`, `MoveBreak` is `brk(p)` with its unsigned distance, the commit from
`Base` and the returned break. The caller is the libc of the test programs
(`src/testapps/exit-success.S`): `SbrkQuery` and `Sbrk`.

### `TlsBlock`, composing `Brk` and `ThreadArea`

The libc of the test programs takes the thread's block from `sbrk`, gives its
address to `set_thread_area`, loads GS and goes on with `sbrk` for its heap.
`TlsBlock` extends `Brk`, adds the variables of `ThreadArea` and an instance of it,
and calls the actions of both in that order; each leaves the variables of the other alone, but for one path: a `brk`
that fails makes the libc write `errno`, which is an access through GS, before GS
is loaded as well as after.

### `VectoredIo`, and `IoData` refining `ByteStream`

State: how far each stream has come, and the loop of the running call. `Call`
(with `TranslateFile`), `Transfer`, `Pends`, `TransferFails`, `Return`; `Read` is the
call with one buffer. `sys_read.c` and `sys_write.c` have the same loop, and one model.
On a stream whose handle is asynchronous (`Overlapped`) a transfer may succeed with
`STATUS_PENDING`: nothing has moved, and `Iosb.Information`, which holds whatever was
on the stack (`Leftover`), is added to the sum. When that transfer completes
(`LateCompletes`), its status is stored into a stack block that is not the call's any
more, and the thread is astray.
`IoData` adds the buffers' cells, each a pair of a buffer and a place in it, and says
which byte of the stream each of them holds. `ByteStream` hands over the next bytes of a
stream or fails; calls with one buffer refine it.

### `Loader`

State: the stage (one per function of the constructor and of `Map`, in their
order), how much of `m_Header` has come from the file and what stood there before,
the tables read so far, `Min` and `Max`, the view, the memory, the reads whose data
has not landed (`late`, and the `orphans` among them) or will not (`cut`), and what
the program has stored since its start. Every read may end in full, late, cut or with
an exception, because nothing waits for it or looks at `Iosb.Information`. A header
that is cut has its first fields from the file and the others from the stack, so that
one with the magic passes `ValidateHeader` with foreign counts and a foreign entry
point; the loops compare with `m_Header` again in each round, and so see it arrive.
The loops over headers are stepped through one header at a time.
`DataLands` is the kernel's completion of a late read; it can happen between
any two steps, also after the program has started, when it replaces what the program
has stored there (`ProgramStores`). The status block of every late read, and the
entry of a table that is late, lie in frames that are gone: their completion strikes a
word of the stack, and if something lives there by then the thread is astray
(`GoAstray`), as it is when it jumps to a foreign entry point.
`StepsLeft` counts what is before the loader: the functions and the headers that are
left, and the reads that are late. The switch over `p_flags` has
no action: all it does is to choose a protection, which nothing uses, and to
assert, which is empty in the release build that is modelled.

### `NtHandle`

State: who has opened each value of the handle table (an object of the class,
code that does not use it, or nobody), what each object in scope holds, and for
which object `&` has been taken. Actions are the uses that the language allows:
the default constructor and the one from a raw handle, duplication by the copy
constructor, the assignment that the compiler writes, `&` with the call that
fills the object or fails, and the end of a scope, at which nothing is closed.
Others open and close handles meanwhile, and closed values are given out again.
`ElfFile::Map`, with the section's handle and its parameter, is an instance.

### `ProcessLife`

From the jump in `start` to the end of the process. The program's side is the
libc of `src/testapps/exit-success.S`: it pops `argc`, scans environment and
auxiliary vector up to whatever zeros `main` and its callers happen to have on
the host's stack, calls `uname`, sets up the thread's block, takes its stack
guard from the auxiliary vector or from `open("/dev/urandom")`, asks for the ids,
allocates its first memory with `malloc`, which rounds with the page size the
auxiliary vector gives (`NonDynamicInit`), runs `main` and then the handlers of
`exit`. Of the auxiliary vector the types that decide something are kept: 3, 5, 6, 23,
25 and 32, and 11 to 14, which count only when all four are found. Whether the four ids
then agree is left open. Types 16, 17 and 33 are stored by the libc, and nothing on
this way reads them; the others are passed over. With a page size that is not the
processor's `malloc` may fail, succeed, or leave a heap whose end is wrong, and the
model has all three. LINE's side is what these calls
return: constants, -ENOSYS from stubs, and a descriptor 0 that is standard input.
`Type` and `HangUp` are the other end of standard input. What the host has left
on the stack and in EDX is a choice of `Init`, as is whether Windows grants the memory
the libc asks for (`room`). `StepsLeft` counts the phases, the
words of the stack and the exit handlers that are before the thread.

## The runs

| Run | Configuration | Shows | Bounds, and why they are enough |
|---|---|---|---|
| `syscall_trap` | `MCSyscallTrap.cfg` | `FrameOK`: whatever the epilogue reads is where it reads it. `SyscallIsAtomic`: refinement of `AtomicSyscall` | a stack of 9 words: the return address and the frame take eight, so that calls with no room, with exactly enough and with words of the program below them all happen; few values per register, distinct so that a swap shows; three table entries: a stub, a handler that follows a pointer and one that does not |
| `unexpected_syscall` | `MCSyscallTrap_UnexpectedSyscallExits.cfg` | violation, see Findings | as above |
| `thread_area` | `MCThreadArea.cfg` | `SlotsDisjoint`, `PointersOK`, and `GsIsLastLoaded` (refinement of `Segments`) | four free indices and four descriptors: the program takes two before or after GsTls takes one, replaces a descriptor that GS was loaded with, and runs out of both; base plus offset wraps around |
| `gs_instructions` | `MCGsInstr.cfg` | `EmulatesData`: every emulated instruction has the effect of the decoded one | words of 4 and bytes of 2 bits, so that the high part, the sign of a byte and wrap-around exist; two instructions, so that the effect of one is the operand of the next |
| `brk` | `MCBrk.cfg` | `ArenaInOrder`, `UsableUpToLargest` | eleven pages of two bytes, three of them the host's, arenas of three pages, four grants: growths within a page, across pages, past the reservation and wrapping around; two arenas |
| `brk_granted_memory` | `MCBrk_GrantedIsUsable.cfg` | violation | as above |
| `tls_block` | `MCTlsBlock.cfg` | `BlockStays`, `AccessesBlock`, `GetsThrough`: the block set up before `main` survives every later growth, GS leads nowhere else, and only a refusal of Windows ends the program | eight pages of four units, arenas of three pages of which the block fills the first, so that the heap starts behind it; increments within a page, across one and past the reservation, and negative ones; three free slots, so that both calls of `TlsAlloc` are served in either order or fail |
| `vectored_io` | `IoData.cfg` | `ResultIsCount`: the error of a failed transfer, or exactly what was moved, as an `int`; `ReadIsAtomic`; with the data `EachByteOnce`, `CountedAreFirst` (for calls in which every buffer but the last was filled), and `ReadIsStream` (refinement of `ByteStream`). The count of `ResultIsCount`, `ReadIsAtomic`, `CountedAreFirst` and what `ReadIsStream` takes except a stream with a late transfer, for which the code keeps none of them | two calls, so that the second finds what the first has left; two buffers of lengths 0, 5 and 12 and an int that turns negative at 10: no length, short transfers, one and two buffers that pass the int, and two that wrap a word of 20; one stream is asynchronous and its status block held 0 or 9 |
| `loader` | `MCLoader.cfg` | `HostUntouched`, `ImageComplete`; `LoaderAdvances`: every step brings the end nearer; under fairness `LoaderEnds`, `ImageArrives` | 12 addresses in three granules, used at both ends; eight files with headers in order, out of order, with others between, adjacent, overlapping, wrapping, below the granule, running into the host, and one without the magic or a segment; a stale header with the magic and one without; one word of the host's is the stack that late completions strike, one of the image is stored to by the program; each read ends in every way |
| `loader_magick` | `MCLoader_MagickIsTheFiles.cfg` | violation | as above |
| `handles` | `MCNtHandle.cfg` | `OwnersOK`, `CarefulCloses`: with `&` taken of objects that are empty or own their handle, no handle is closed by anybody but its owner | three objects and three values: a copy of a copy, and a value that is closed, given to another object and closed again; objects and values are only compared, hence the symmetry |
| `process_life` | `MCProcessLife.cfg` | `NoForeignStrings`, `EndsAtHlt`; `ProcessAdvances`: every step of the thread brings its end nearer, and standard input takes nothing back; under fairness `MainReached`, `ProgramEnds` | frames at which the walk stops at once, after a pair of every type that decides something and several values (those of the page size among them), after a TLS segment, after all four ids, after pairs it skips, in the middle of a pair, and not at all; four bytes of input, one more than the stack guard wants |

`CHECK_DEADLOCK FALSE` stands where the system really stops: the process has
ended, the loader has jumped or failed, or the bound on calls is reached.

Fairness: `ProcessLife` assumes `WF_vars(Thread)`, which is that Windows schedules
the one thread there is. Nobody is obliged to type: the read for the stack guard
waits on standard input, and `MainReached` and `ProgramEnds` have `InputComes` as
their hypothesis. `Loader` assumes `WF_vars(Thread)` for the same reason, and
`WF_vars(DataLands)`, that the kernel completes a read it has accepted; a thread that
is astray ends the obligation of both. No strong
fairness is needed: nothing disables a step of the thread, once enabled, but the
thread itself. `LoaderAdvances` and `ProcessAdvances` are the part of termination that
needs no fairness: no loop of the code goes round for ever, whatever is in the file
or on the stack. Everything else is checked without fairness: it is safety, or a
refinement of a specification without fairness, and a Linux program is under no
obligation to make another call.

Each module holds, next to the definition concerned, faulty variants marked
"Seeded fault" or "A fault to seed". None is part of a specification: put in the
place of the definition they vary, they must violate the property that
`PROJECT.json` lists them with, which shows that the property depends on that line
of the code.

## What is proved

| Module | Theorems | Inductive invariant, and why it is needed |
|---|---|---|
| `SyscallTrap_proofs` | `TypeCorrect`, `FrameCorrect`, `TrapIsAtomic` | the stack pointer and the saved words at each step of the trap, since `FrameOK` at the epilogue depends on what the pushes three steps before have stored and on what the handler may overwrite; `TrapIsAtomic` maps each step to a step of `AtomicSyscall` or a stutter, the ends of the process included: a fault in a handler is one of the abstract handler's, at the same number |
| `ThreadArea_proofs` | `TypeCorrect`, `SlotsNeverOverlap`, `PointersValid`, `GsKeepsItsBase` | the three invariants of the run together: `GsTls` stays apart from the program's slots only because both are allocated, and the refinement needs every slot's pointer to be in the heap, which only grows |
| `Brk_proofs` | `TypeCorrect`, `NothingGrantedTwice`, `ArenaUsable` | the three properties, that the libc's break is the one of `sys_brk` (`BreakAgrees`), and `Base =< CurrentBreak`, without which a lowered break would not wrap to a size that fails |
| `Brk_proofs`, about `TlsBlock` | `BlockKept`, `AccessesKept`, `OnlyRefusalsKill` | the invariant of `Brk`, and: no page of the host's is ever reserved or committed (`HostKept`); the block is the first piece of the arena and begins at `Base` (`FirstPiece`), so that what is committed from `Base` for it covers it, and a heap that grows behind it never reaches back; which slot holds which descriptor at each step of the set-up (`ThreadState`), so that an access through GS ends in the block or, before GS is loaded, in a fault that `GetsThrough` explains |
| `VectoredIo_proofs`, about `IoData` | `BytesOnceInOrder`, `NoHoleBehindCount` | where the moved bytes are (`Layout`): a filled cell has only filled cells with earlier bytes before it in its buffer, the bytes of a later buffer are later ones, the buffers the loop has not reached are empty, every cell holds a byte of this call, and each of the call's bytes is in a cell. The order of the bytes does not need the result, and the result does not need the order of buffers after a short transfer, hence two theorems. `NoHoleBehindCount` is about calls in which every buffer but the last was filled: after a shorter transfer the code does leave a hole |
| `VectoredIo_proofs` | `TypeCorrect`, `ResultsCount`, `ReadsAreAtomic`, `ReadsAreStream` | during a call none of whose transfers is late, `TotalBytes` is what was moved, modulo the word, hence the `int` exactly as long as less than 2^32 bytes were moved; one buffer moves nothing before its only transfer, after which its cells are the next bytes of the stream: the call maps to one step of `ByteStream` at its end. `ReadsAreAtomic` and `ReadsAreStream` end where a transfer of the stream is late |
| `GsInstr_proofs` | `TypeCorrect`, `DataIsEmulated` | the type invariant is inductive, and enough: each case of the handler is compared with the decoded instruction for any register contents, word size and ModRM byte, which needs the arithmetic of the ModRM fields and the widths |
| `NtHandle_proofs` | `TypeCorrect`, `OwnersKeep`, `CarefulNeverWrong` | the three together are inductive: that `&` closes nothing of another's follows from `OwnersOK` before it, and `OwnersOK` after a handle is opened from the value being free, which no owned one is |
| `ProcessLife_proofs` | `TypeCorrect`, `StringsAreOwn`, `OnlyAtHlt`, `ProcessTerminates` | where the walk is in each phase, and that from there on the frame is harmless; that the entries of the auxiliary vector then keep their defaults, and that the only handler is the program's own. For the number of steps left, without a hypothesis on the frame: the walk never passes the top of the stack by more than a pair, and a function is registered only by steps that are worth two |
| `Loader_proofs` | `TypeCorrect`, `HostSafe`, `ImageIsComplete`, `LoaderTerminates` | follows the loader: nothing is stored before the view, but on the stack by what was late; the boundaries enclose the headers the loop has passed; then every segment is in the view, hence outside of the host, and every store of file data, late ones included, fills bytes of its own segment, so that the order in which data lands cannot matter; what the program has stored is lost only to segments that were late when it started. For the number of steps left: the loops stay inside the counts, whether those are the file's or what the stack held, and a step of the loader, worth two, leaves one late read behind at most |

The assumptions are the named `ASSUME`s: arithmetic on the constants (in `TlsBlock`,
that the block fits into the address space and `errno` lies in it), and

* `SlotAssumption` in `SyscallTrap`: the build does not reuse the argument slots
  that the epilogue reads again. The C language lets a callee overwrite its
  parameters; the code relies on a compiler that does not here. It is assumed also
  that handlers store through the pointers they are given into the program's live
  stack only and not below ESP, where the argument frame is, and that the emulated
  stores through GS do not hit the stack: the model has no other memory.
* `SlotAssumption` in `ThreadArea`: TLS index 0 and every index whose selector
  the processor itself accepts belong to the host. The code uses 0 for "not
  allocated" and never sees a `mov gs` that does not fault; nothing in the code makes
  sure of either, and what goes wrong otherwise is listed with the hazards. `FreeSlotAssumption` in
  `TlsBlock` says the same of the slots there.

Some hypotheses stand inside the properties, because without them the code does go
wrong: in `Loader`, `AllFit` and `Disjoint`, headers as the ELF specification wants
them, above the first 64K, and a thread that is not astray; in `VectoredIo` and
`IoData`, that no transfer of the stream is late; in `ProcessLife`, `Undisturbed`, that
EDX is 0, memory is granted, and the walk over the host's words meets the end before a
type that decides something. `NtHandle` asks for careful uses of `&`. The runs contain
the other cases as well.

Only model-checked: `LoaderEnds`, `ImageArrives`, `MainReached` and `ProgramEnds`,
which are liveness under fairness. Liveness and `ENABLED`, induction over data
and recursive operators are out of reach for TLAPS in general; the safety
properties need none of them, because loops of the code are steps of the models.
Of `LoaderEnds` and `ProgramEnds` what is proved for every file and every frame is
the bound, `LoaderTerminates` and `ProcessTerminates`; that a loader or a thread that
has not ended can take a step, and so under fairness does, is what TLC adds.

## Findings

* `syscall_dispatch.c:28`: the range check is a disjunction that always holds, so
  a number outside the table is called as a function pointer; the report and
  `exit(1)` of the else branch are unreachable (`unexpected_syscall`).
* `sys_brk.c:35`: a growth commits its size from `Base` and not from the old
  break, so from the second growth on memory is reported as granted that is not
  committed (`brk_granted_memory`). `UsableUpToLargest` states what does hold.
* `ElfLoader/ElfFile.cpp:25,45`: the file is opened for asynchronous input and
  no read is waited for; a valid file can be refused for its magic
  (`loader_magick`), tables filled with stale headers, and segments completed
  after the program has started. `ImageComplete` and `ImageArrives` state what
  does hold.

Seen while modelling, and without a run of their own; the models have the
behaviour of the code:

* `syscall_dispatch.c:68`: EDX is not restored, and the libc relies on it. ECX has
  the same fate.
* `ElfLoader/ElfFile.cpp:252-262`: no case of the switch ends in a `break`, so
  every segment reaches `ASSERT(FALSE)` in builds with `DBG`.
* `intercept.c:126`: the emulated `cmp` compares low bytes only and never sets SF.
* `main.cpp:23`: `argc` is 0 whatever LINE was given.
* `stubs.c:15`: `exit` and `exit_group` return, and the process ends by the
  exception at `hlt`; its status is not `main`'s.
* `sys_read.c:44-58`, `sys_write.c:44-59`: on an asynchronous handle `STATUS_PENDING`
  passes for success, the count is what the stack held, and the completion writes to a
  frame that is gone; with more than one buffer, an error hides what was moved before
  it, and a short transfer leaves a hole.
* `main.cpp:25`: no auxiliary vector is pushed, and a pair of words on the host's stack
  that begins with 6 becomes the page size of the program's `malloc`.
* `sys_open.c:11`: every file opened is descriptor 0, so the libc takes its random
  bytes from standard input, and waits for them.
* `syscalls.inc:5`: `write` is a stub, although `sys_write.c` implements it, and
  what stdio holds at the end is lost.
* `Common/NtHandle.cpp:30`: `&` closes the handle and keeps its value; taken again
  after a call that failed, it closes a handle that is not its own.
* `sys_time.c:19-20`: the result is local time, and uninitialised when the
  conversion fails.

## What is not modelled

* The contents of section headers and of the string table, which nothing looks at.
* What system call handlers write through pointers, other than in their own
  modules and, as any words, to the program's stack (`SyscallTrap`); AF, PF and OF.
* What a thread does once it is astray: a late completion has struck a live frame, a
  foreign word was called, or a heap has a wrong end.
* Whether the four ids of the auxiliary vector agree, and where exactly `malloc` ends up
  with a page size that is not the processor's: both are choices (`ProcessLife`).
* The program's `main`, which is one step.
* `sys_time` and `sys_close`, which have no state and whose results nothing in the
  repository uses, other than as handlers that return any value (`SyscallTrap`);
  the exception classes, which carry a message.
* The NDK headers under `src/include/ntndk`: some 29000 lines of declarations by
  third parties, and so nearly all of the repository's source lines. They declare
  no behaviour. The definitions the code uses of them (status codes, flags of
  `NtCreateFile`) are in the models of the callers.
* The programs under `src/testapps` are used as statements of what callers expect,
  the libc inside `exit-success.S` most of all.

`PROJECT.json` lists hazards no property covers, each with the reason.

## Plan

Done, in this order: `SyscallTrap`, `ThreadArea`, `Brk`, `Loader`, `GsInstr`,
`VectoredIo` and their proofs; `ProcessLife`, `NtHandle`, `IoData` with
`ByteStream`, `TlsBlock`, the proofs about the first two and about the refinements
by `GsInstr` and `IoData`, and the liveness of `Loader` and `ProcessLife`.

Since then: the proofs about `TlsBlock` from the invariants of `Brk`, those about the
data of `IoData`, and the measures of `Loader` and `ProcessLife` with the proofs that
every step lowers them.

Left: nothing that TLAPS could prove of what the runs check. `ImageComplete`, proved,
is `ImageArrives` once no read is late, and `EndsAtHlt` is what `MainReached` needs of a
process that has ended; that it comes to that is a matter of fairness. A composition
of the trap with the state of every handler would add no interleaving: handlers run to
their end inside one action of `SyscallTrap`, and the one pair of them that meets in
the program is in `TlsBlock`.
