---------------------------- MODULE ProcessLife ----------------------------
(***************************************************************************)
(* The life of a Linux program under LINE2, from the jump in start()       *)
(* (main.cpp) to the end of the process.  What start() leaves on the stack *)
(* is three zeros; above them lies whatever the compiled main() and its    *)
(* callers have there, and the program's libc (src/testapps/               *)
(* exit-success.S) walks it as environment and auxiliary vector.  Of the   *)
(* system calls on the way some are implemented, some are stubs.           *)
(*                                                                         *)
(* There is one thread.  What the host's frame and EDX hold is any word of *)
(* the constants.                                                          *)
(***************************************************************************)
EXTENDS Integers, Sequences

CONSTANTS
    Word,        \* what a stack slot or a register can hold
    Readable,    \* those that are addresses one can read four bytes from
    Int80Stub,   \* address of the libc's own int 80h, the default of _dl_sysinfo
    Frame,       \* what the host may have on the stack above start()'s words
    Edx,         \* what EDX may hold at the jump, which nothing sets
    Status,      \* what main may return
    MaxInput,    \* bound on the bytes that arrive on standard input
    Exception    \* the status of a process that an exception has ended

ASSUME WordAssumption ==
    /\ Word \subseteq Nat /\ 0 \in Word
    /\ Int80Stub \in Word
    /\ Readable \subseteq Word \ {0}
    /\ Frame \subseteq Seq(Word)
    /\ Edx \subseteq Word
    /\ Status \subseteq Nat
    /\ MaxInput \in Nat

\* The entries of the auxiliary vector whose values decide how the start goes
\* on.  Those of 16, 17 and 33 are stored, and nothing reads them.
Phdr == 3
Phnum == 5
PageSize == 6
Secure == 23
Random == 25
SysInfo == 32
AuxType == {Phdr, Phnum, PageSize, Secure, Random, SysInfo}

\* Those of the user and the group, real and effective: all four stand in for
\* Secure.
Users == 11 .. 14
Decisive == AuxType \cup Users

EXEC_PAGESIZE == 4096

\* The numbers this libc uses here, and those __IMPLEMENTED in syscalls.inc.
SYS_exit == 1
SYS_exit_group == 252
Implemented == {3, 5, 6, 13, 45, 122, 145, 146, 199, 200, 201, 202, 243}

VARIABLES
    phase,     \* where the thread is
    stack,     \* the words from ESP up to the top of the stack
    edx,       \* what EDX happens to hold
    argc, argv,      \* argv and here are positions in the stack
    here,      \* where the walk over environment and auxiliary vector is
    auxv,      \* the entries found, and the defaults of the others
    seen,      \* those of Users and Secure that were found
    handlers,  \* functions registered for exit, in order
    source,    \* standard input: "none", "open" or "closed" by its writer
    input,     \* bytes that wait there
    taken,     \* bytes the libc has read from it before main
    room,      \* whether Windows grants all that the libc asks for
    returned,  \* what main has returned
    status     \* what the process has ended with

walk == <<argc, argv, here, auxv, seen>>
stdin == <<source, input, taken>>
chosen == <<edx, room>>
vars == <<phase, stack, walk, handlers, stdin, chosen, returned, status>>

Ended == {"exited", "died", "astray"}
Starting == {"start", "_start", "environ", "auxv", "osversion", "tls", "guard",
             "urandom", "rtld_fini", "init_first", "non_dynamic", "secure"}
Ending == {"handlers", "cleanup", "exit_group", "exit", "hlt"}
Phase == Starting \cup {"main"} \cup Ending \cup Ended

NotYet == -1   \* no status

Init ==
    /\ phase = "start"
    /\ stack \in Frame /\ edx \in Edx
    /\ argc = 0 /\ argv = 1 /\ here = 1
    /\ auxv = [t \in AuxType |-> IF t = SysInfo THEN Int80Stub
                                 ELSE IF t = PageSize THEN EXEC_PAGESIZE ELSE 0]
    /\ seen = {}
    /\ handlers = <<>>
    /\ source \in {"none", "open"} /\ input = 0 /\ taken = 0
    /\ room \in BOOLEAN
    /\ returned = NotYet /\ status = NotYet

\* An exception nobody handles: Windows ends the process.
Die ==
    /\ phase' = "died" /\ status' = Exception

\* The processor is sent to a word that is no address of a function: it
\* faults, or runs what happens to be there.
Stray == phase' = "astray" /\ UNCHANGED status
-----------------------------------------------------------------------------
(* start and _start                                                        *)

\* Seeded fault: the push of the last envp is missing.
Pushes_two == <<0, 0>>

\* Seeded fault: the file name, which is not passed on, is taken off argc.
Pushes_argc == <<-1, 0, 0>>

\* argc, last argv, last envp
Pushes == <<0, 0, 0>>

start ==
    /\ phase = "start"
    /\ stack' = Pushes \o stack
    /\ phase' = "_start"
    /\ UNCHANGED <<walk, handlers, stdin, chosen, returned, status>>

\* pop %esi; mov %esp, %ecx; EDX is passed on as rtld_fini.
_start ==
    /\ phase = "_start"
    /\ argc' = stack[1] /\ argv' = 2
    /\ here' = 2 + stack[1] + 1
    /\ phase' = "environ"
    /\ UNCHANGED <<stack, auxv, seen, handlers, stdin, chosen, returned, status>>
-----------------------------------------------------------------------------
(* __libc_start_main                                                       *)

Past == here > Len(stack)

\* The loop over the environment, up to its NULL.
ScanEnviron ==
    /\ phase = "environ"
    /\ IF Past THEN Die /\ UNCHANGED here
       ELSE /\ here' = here + 1
            /\ phase' = IF stack[here] = 0 THEN "auxv" ELSE phase
            /\ UNCHANGED status
    /\ UNCHANGED <<stack, argc, argv, auxv, seen, handlers, stdin, chosen,
                   returned>>

\* The end of the auxiliary vector.  All four ids decide unless AT_SECURE has;
\* whether they agree is left open.
AuxEnd ==
    /\ stack[here] = 0
    /\ phase' = "osversion"
    /\ IF Users \subseteq seen /\ Secure \notin seen
       THEN /\ \E differ \in {0, 1} : auxv' = [auxv EXCEPT ![Secure] = differ]
            /\ seen' = seen \cup {Secure}
       ELSE UNCHANGED <<auxv, seen>>
    /\ UNCHANGED here

\* A pair of a type and a value.
AuxPair ==
    /\ stack[here] # 0
    /\ auxv' = IF stack[here] \in AuxType
               THEN [auxv EXCEPT ![stack[here]] = stack[here + 1]] ELSE auxv
    /\ seen' = seen \cup ({stack[here]} \cap (Users \cup {Secure}))
    /\ here' = here + 2 /\ UNCHANGED phase

\* _dl_aux_init: pairs up to type 0.
AuxInit ==
    /\ phase = "auxv"
    /\ IF Past \/ (stack[here] \in Decisive /\ here = Len(stack))
       THEN Die /\ UNCHANGED <<here, auxv, seen>>
       ELSE (AuxEnd \/ AuxPair) /\ UNCHANGED status
    /\ UNCHANGED <<stack, argc, argv, handlers, stdin, chosen, returned>>

\* Seeded fault: uname reports a kernel that is too old.
Release_old == 2 * 65536 + 6 * 256 + 22

\* "3.5.0-17-generic" as the libc packs it, and what it wants at least.
Release == 3 * 65536 + 5 * 256
Required == 2 * 65536 + 6 * 256 + 23

\* uname is the first call through _dl_sysinfo, as most later ones are.
DiscoverOsVersion ==
    /\ phase = "osversion"
    /\ IF auxv[SysInfo] # Int80Stub THEN Stray
       ELSE IF Release > Required THEN phase' = "tls" /\ UNCHANGED status
       ELSE Die
    /\ UNCHANGED <<stack, walk, handlers, stdin, chosen, returned>>

\* The loops over the program headers read what the auxiliary vector points to.
HeadersFault == auxv[Phdr] # 0 /\ auxv[Phnum] # 0

\* __libc_setup_tls: a TLS segment is looked for in the program headers, then
\* sbrk, set_thread_area and mov gs; what fails there is fatal.
SetupTls ==
    /\ phase = "tls"
    /\ \/ phase' = "guard" /\ UNCHANGED status
       \/ (~room \/ HeadersFault) /\ Die
    /\ UNCHANGED <<stack, walk, handlers, stdin, chosen, returned>>

\* The stack guard: four random bytes the auxiliary vector points to.
StackGuard ==
    /\ phase = "guard" /\ auxv[Random] # 0
    /\ IF auxv[Random] \in Readable THEN phase' = "rtld_fini" /\ UNCHANGED status
       ELSE Die
    /\ UNCHANGED <<stack, walk, handlers, stdin, chosen, returned>>

sys_open == 0

\* Without them: open of /dev/urandom, whose result is not negative.
OpenUrandom ==
    /\ phase = "guard" /\ auxv[Random] = 0
    /\ phase' = IF sys_open >= 0 THEN "urandom" ELSE "rtld_fini"
    /\ UNCHANGED <<stack, walk, handlers, stdin, chosen, returned, status>>

\* read(fd, buf, 3) and close: descriptor 0 is standard input.  It waits while
\* nothing is there, and fails at the end of the input and without a handle
\* that NtReadFile takes ("none"); the libc then makes do with a fixed guard.
ReadUrandom ==
    /\ phase = "urandom"
    /\ IF source # "none" /\ input > 0
       THEN \E n \in 1 .. 3 : n =< input /\ input' = input - n /\ taken' = taken + n
       ELSE source # "open" /\ UNCHANGED <<input, taken>>
    /\ phase' = "rtld_fini"
    /\ UNCHANGED <<stack, walk, handlers, source, chosen, returned, status>>

\* EDX is registered for exit unless it is 0.
RegisterRtldFini ==
    /\ phase = "rtld_fini"
    /\ handlers' = IF edx # 0 THEN Append(handlers, edx) ELSE handlers
    /\ phase' = "init_first"
    /\ UNCHANGED <<stack, walk, stdin, chosen, returned, status>>

csu_fini == -1   \* the program's own handler; no word

\* Seeded fault: the user is not the effective one.
sys_geteuid32_other == 1000

sys_getuid32 == 0
sys_geteuid32 == 0
sys_getgid32 == 0
sys_getegid32 == 0

\* __libc_init_first up to __libc_init_secure.
InitFirst ==
    /\ phase = "init_first"
    /\ auxv' = IF Secure \in seen THEN auxv
               ELSE [auxv EXCEPT ![Secure] =
                       IF sys_geteuid32 = sys_getuid32 /\ sys_getegid32 = sys_getgid32
                       THEN 0 ELSE 1]
    /\ phase' = "non_dynamic"
    /\ UNCHANGED <<stack, argc, argv, here, seen, handlers, stdin, chosen, returned, status>>

\* _dl_non_dynamic_init, then __cxa_atexit(fini).  A page size of 0 fails an
\* assertion.  malloc rounds what it takes from sbrk with the page size: with
\* any that is not the processor's it may get too much, nothing, or a heap
\* whose end is wrong, and _dl_init_paths gives up without memory.  The program
\* headers are walked again.
NonDynamicInit ==
    /\ phase = "non_dynamic"
    /\ \/ /\ auxv[PageSize] # 0
          /\ handlers' = Append(handlers, csu_fini)
          /\ phase' = "secure" /\ UNCHANGED status
       \/ /\ ~room \/ HeadersFault \/ auxv[PageSize] # EXEC_PAGESIZE
          /\ Die /\ UNCHANGED handlers
       \/ /\ auxv[PageSize] \notin {0, EXEC_PAGESIZE}
          /\ Stray /\ UNCHANGED handlers
    /\ UNCHANGED <<stack, walk, stdin, chosen, returned>>

\* In secure mode __libc_check_standard_fds calls fcntl, a stub, and looks at
\* errno with an instruction that HandleGsIstruction does not know.
CheckStandardFds ==
    /\ phase = "secure"
    /\ IF auxv[Secure] # 0 THEN Die ELSE phase' = "main" /\ UNCHANGED status
    /\ UNCHANGED <<stack, walk, handlers, stdin, chosen, returned>>

\* The program's own code, as far as it is seen from outside.
Main ==
    /\ phase = "main"
    /\ returned' \in Status
    /\ phase' = "handlers"
    /\ UNCHANGED <<stack, walk, handlers, stdin, chosen, status>>
-----------------------------------------------------------------------------
(* exit                                                                    *)

\* Last registered, first run.
RunExitHandlers ==
    /\ phase = "handlers"
    /\ IF handlers = <<>> THEN phase' = "cleanup" /\ UNCHANGED <<handlers, status>>
       ELSE /\ handlers' = SubSeq(handlers, 1, Len(handlers) - 1)
            /\ IF handlers[Len(handlers)] = csu_fini THEN UNCHANGED <<phase, status>>
               ELSE Die \/ Stray
    /\ UNCHANGED <<stack, walk, stdin, chosen, returned>>

\* _IO_cleanup writes what stdio still holds, with write, which is a stub.
Cleanup ==
    /\ phase = "cleanup"
    /\ phase' = "exit_group"
    /\ UNCHANGED <<stack, walk, handlers, stdin, chosen, returned, status>>

\* A call that ends the process when it is implemented, and returns
\* -ENOSYS when it is a stub.
Leave(id, next) ==
    /\ phase' = IF id \in Implemented THEN "exited" ELSE next
    /\ status' = IF id \in Implemented THEN returned ELSE status
    /\ UNCHANGED <<stack, walk, handlers, stdin, chosen, returned>>

\* Seeded fault: the way out is begun again.
Exit_again == phase = "exit" /\ Leave(SYS_exit, "exit_group")

ExitGroup == phase = "exit_group" /\ Leave(SYS_exit_group, "exit")
Exit == phase = "exit" /\ Leave(SYS_exit, "hlt")

\* Seeded fault: ExceptionHandler takes the fault for one it has dealt with,
\* and the thread comes back to the same instruction.
Hlt_continued == phase = "hlt" /\ UNCHANGED vars

\* hlt is privileged and no instruction that ExceptionHandler knows.
Hlt ==
    /\ phase = "hlt" /\ Die
    /\ UNCHANGED <<stack, walk, handlers, stdin, chosen, returned>>
-----------------------------------------------------------------------------
Thread ==
    \/ start \/ _start \/ ScanEnviron \/ AuxInit \/ DiscoverOsVersion
    \/ SetupTls \/ StackGuard \/ OpenUrandom \/ ReadUrandom \/ RegisterRtldFini
    \/ InitFirst \/ NonDynamicInit \/ CheckStandardFds \/ Main
    \/ RunExitHandlers \/ Cleanup \/ ExitGroup \/ Exit \/ Hlt

\* Whoever is at the other end of standard input.
Type ==
    /\ source = "open" /\ input + taken < MaxInput
    /\ input' = input + 1
    /\ UNCHANGED <<phase, stack, walk, handlers, source, taken, chosen, returned, status>>

HangUp ==
    /\ source = "open"
    /\ source' = "closed"
    /\ UNCHANGED <<phase, stack, walk, handlers, input, taken, chosen, returned, status>>

Next == Thread \/ Type \/ HangUp

Spec == Init /\ [][Next]_vars

\* The scheduler runs the only thread.  Nobody has to type anything.
FairSpec == Spec /\ WF_vars(Thread)
-----------------------------------------------------------------------------
TypeOK ==
    /\ phase \in Phase
    /\ stack \in Seq(Word) /\ edx \in Word
    /\ argc \in Nat /\ argv \in Nat /\ here \in Nat
    /\ auxv \in [AuxType -> Word \cup {1, EXEC_PAGESIZE}]
    /\ seen \subseteq Users \cup {Secure}
    /\ handlers \in Seq(Word \cup {csu_fini})
    /\ source \in {"none", "open", "closed"} /\ input \in Nat /\ taken \in Nat
    /\ room \in BOOLEAN
    /\ returned \in Status \cup {NotYet}
    /\ status \in Status \cup {NotYet, Exception}

-----------------------------------------------------------------------------
\* The walk over the auxiliary vector, were it to begin at position k, finds
\* its end before anything that it acts on.
HarmlessFrom(k) ==
    \E m \in 0 .. Len(stack) :
        /\ k + 2 * m =< Len(stack)
        /\ stack[k + 2 * m] = 0
        /\ \A j \in 0 .. m - 1 : stack[k + 2 * j] \notin Decisive

\* A start that no leftover of the host's disturbs.
Undisturbed ==
    /\ room /\ edx = 0
    /\ HarmlessFrom(IF phase = "start" THEN 1 ELSE 4)

\* What the program takes for its arguments and its environment are words
\* that start() has pushed, and nothing that main() or its callers have on the
\* stack (main.cpp:21-25).
NoForeignStrings ==
    /\ phase = "environ" => here =< Len(Pushes)
    /\ phase \in Starting \ {"start"} => argv + argc =< Len(Pushes)

\* A program that starts undisturbed gets to main and through all of exit, and
\* ends at the hlt behind the last of the calls that should have ended it,
\* with the status of the exception: the constants of uname and of the user's
\* ids, the failing fcntl and the stub write do not stop it
\* (exit-success.S:1197-1316, stubs.c:7-16).
EndsAtHlt ==
    Undisturbed /\ phase \in Ended =>
        /\ phase = "died" /\ returned # NotYet /\ handlers = <<>>
        /\ status = Exception

\* The steps of the thread that follow each phase at most, but for the rounds
\* of its loops: the words of the stack, and the functions that exit calls.
ToGo == [start |-> 20 + Len(Pushes), _start |-> 19, environ |-> 18, auxv |-> 17,
         osversion |-> 16, tls |-> 15, guard |-> 14, urandom |-> 13,
         rtld_fini |-> 12, init_first |-> 10, non_dynamic |-> 9, secure |-> 7,
         main |-> 6, handlers |-> 5, cleanup |-> 4, exit_group |-> 3, exit |-> 2,
         hlt |-> 1]

WordsLeft == IF phase \in {"start", "_start"} THEN Len(stack)
             ELSE IF phase \in {"environ", "auxv"} THEN Len(stack) + 2 - here ELSE 0

StepsLeft == IF phase \in Ended THEN 0 ELSE ToGo[phase] + WordsLeft + Len(handlers)

\* Every step of the thread brings the end of the process nearer, and what
\* happens to standard input takes nothing back: neither the walk over the
\* host's words, whatever they are, nor the calls of exit that return go round
\* for ever (exit-success.S:1213-1224, 13492-13500, 15783-16009).
ProcessAdvances ==
    [][IF Thread THEN StepsLeft' \in 0 .. StepsLeft - 1 ELSE StepsLeft' = StepsLeft]_vars

InputComes == <>(source # "open" \/ input > 0)

\* It does get to main, when somebody types something or closes standard
\* input, on which the libc waits for its stack guard (sys_open.c:11).
MainReached == Undisturbed /\ InputComes => <>(phase = "main")

\* Every process ends, although exit and exit_group return
\* (stubs.c:15, intercept.c:221-233).
ProgramEnds == InputComes => <>(phase \in Ended)
=============================================================================
