------------------------- MODULE ProcessLife_proofs -------------------------
(***************************************************************************)
(* That a program which starts undisturbed can only end at the hlt behind  *)
(* exit, for every frame of the host's and every set of words.  The        *)
(* invariant follows the libc: the environment ends in start()'s own       *)
(* words, what is left of the auxiliary vector stays harmless, so its      *)
(* entries keep their defaults, and nothing but the program's own handler  *)
(* is registered for exit.                                                 *)
(***************************************************************************)
EXTENDS ProcessLife, SequenceTheorems, TLAPS

Defaults == [t \in AuxType |-> IF t = SysInfo THEN Int80Stub
                             ELSE IF t = PageSize THEN EXEC_PAGESIZE ELSE 0]

\* The first words are those that start() has pushed, and _start has found
\* no argument among them.
OwnWords ==
    /\ phase # "start" => /\ Len(stack) >= 3
                          /\ \A i \in 1 .. 3 : stack[i] = 0
    /\ argc = 0
    /\ phase \notin {"start", "_start"} => argv = 2
    /\ phase = "_start" => argv = 1
    /\ phase = "start" => argv = 1
    /\ phase = "environ" => here = 3
    /\ phase = "auxv" => here >= 4

\* Where the walk stands, there is nothing before its end that it acts on.
AuxvDefault ==
    Undisturbed =>
        /\ auxv = Defaults
        /\ seen = {}
        /\ phase = "auxv" => HarmlessFrom(here)

OnlyFini ==
    /\ Undisturbed => \A i \in DOMAIN handlers : handlers[i] = csu_fini
    /\ phase \in {"cleanup", "exit_group", "exit", "hlt"} => handlers = <<>>

MainHasReturned ==
    phase \in Ending => returned # NotYet

IInv ==
    /\ TypeOK /\ OwnWords /\ AuxvDefault /\ OnlyFini /\ MainHasReturned
    /\ EndsAtHlt

-----------------------------------------------------------------------------
(* The walk over the auxiliary vector.                                     *)

LEMMA Walk ==
  ASSUME stack \in Seq(Word), here \in Nat, here >= 1, HarmlessFrom(here)
  PROVE  /\ ~Past
         /\ stack[here] \notin Decisive
         /\ stack[here] # 0 => HarmlessFrom(here + 2)
<1>1. PICK m \in 0 .. Len(stack) :
        /\ here + 2 * m =< Len(stack)
        /\ stack[here + 2 * m] = 0
        /\ \A j \in 0 .. m - 1 : stack[here + 2 * j] \notin Decisive
  BY DEF HarmlessFrom
<1>2. Len(stack) \in Nat
  OBVIOUS
<1>3. CASE m = 0
  <2>1. here + 2 * m = here
    BY <1>3
  <2>2. here =< Len(stack) /\ stack[here] = 0
    BY <1>1, <2>1
  <2> QED BY <2>2, <1>2 DEF Past, Decisive, Users, AuxType, Phdr, Phnum, PageSize, Secure,
                               Random, SysInfo
<1>4. CASE m # 0
  <2>1. 0 \in 0 .. m - 1 /\ here + 2 * 0 = here
    BY <1>4
  <2>2. stack[here] \notin Decisive
    BY <1>1, <2>1
  <2>3. ~Past
    BY <1>1, <1>2, <1>4 DEF Past
  <2>4. HarmlessFrom(here + 2)
    <3>1. m - 1 \in 0 .. Len(stack) /\ (here + 2) + 2 * (m - 1) = here + 2 * m
      BY <1>2, <1>4
    <3>2. ASSUME NEW j \in 0 .. (m - 1) - 1
          PROVE  stack[(here + 2) + 2 * j] \notin Decisive
      <4>1. j + 1 \in 0 .. m - 1 /\ (here + 2) + 2 * j = here + 2 * (j + 1)
        BY <1>4
      <4> QED BY <4>1, <1>1
    <3>3. stack[(here + 2) + 2 * (m - 1)] = 0 /\ (here + 2) + 2 * (m - 1) =< Len(stack)
      BY <3>1, <1>1
    <3> QED BY <3>1, <3>2, <3>3 DEF HarmlessFrom
  <2> QED BY <2>2, <2>3, <2>4
<1> QED BY <1>3, <1>4

\* start() puts its words in front of the frame, whose walk then begins at 4.
LEMMA Pushed ==
  ASSUME stack \in Seq(Word), stack' = Pushes \o stack, HarmlessFrom(4)'
  PROVE  HarmlessFrom(1)
<1>1. /\ Len(stack') = 3 + Len(stack) /\ Len(stack) \in Nat
      /\ \A i \in 1 .. Len(stack) : stack'[i + 3] = stack[i]
  BY DEF Pushes
<1>2. PICK m \in 0 .. Len(stack') :
        /\ 4 + 2 * m =< Len(stack')
        /\ stack'[4 + 2 * m] = 0
        /\ \A j \in 0 .. m - 1 : stack'[4 + 2 * j] \notin Decisive
  BY DEF HarmlessFrom
<1>3. m \in 0 .. Len(stack) /\ 1 + 2 * m =< Len(stack)
  BY <1>1, <1>2
<1>4. \A j \in 0 .. m : stack'[4 + 2 * j] = stack[1 + 2 * j]
  <2> SUFFICES ASSUME NEW j \in 0 .. m PROVE stack'[4 + 2 * j] = stack[1 + 2 * j]
    OBVIOUS
  <2>1. 1 + 2 * j \in 1 .. Len(stack) /\ (1 + 2 * j) + 3 = 4 + 2 * j
    BY <1>1, <1>3
  <2> QED BY <2>1, <1>1
<1>5. stack[1 + 2 * m] = 0 /\ \A j \in 0 .. m - 1 : stack[1 + 2 * j] \notin Decisive
  <2>1. m \in 0 .. m /\ \A j \in 0 .. m - 1 : j \in 0 .. m
    BY <1>3, <1>1
  <2>2. stack[1 + 2 * m] = 0
    BY <2>1, <1>2, <1>4
  <2>3. \A j \in 0 .. m - 1 : stack[1 + 2 * j] \notin Decisive
    BY <2>1, <1>2, <1>4
  <2> QED BY <2>2, <2>3
<1> QED BY <1>3, <1>5 DEF HarmlessFrom

\* After start() nothing changes what decides whether a start is disturbed.
LEMMA StaysUndisturbed ==
  ASSUME UNCHANGED <<stack, edx, room>>, phase # "start", phase' # "start"
  PROVE  Undisturbed' = Undisturbed
<1>1. HarmlessFrom(4)' = HarmlessFrom(4)
  BY DEF HarmlessFrom
<1> QED BY <1>1 DEF Undisturbed
-----------------------------------------------------------------------------
LEMMA InitIInv == Init => IInv
<1> SUFFICES ASSUME Init PROVE IInv
  OBVIOUS
<1> USE WordAssumption
<1>1. auxv = Defaults /\ Defaults \in [AuxType -> Word \cup {1, EXEC_PAGESIZE}]
  BY DEF Init, Defaults
<1>2. TypeOK
  <2>1. /\ phase \in Phase /\ stack \in Seq(Word) /\ edx \in Word
        /\ room \in BOOLEAN
    BY DEF Init, Phase, Starting
  <2>2. handlers \in Seq(Word \cup {csu_fini})
    BY DEF Init
  <2>3. /\ argc \in Nat /\ argv \in Nat /\ here \in Nat
        /\ auxv \in [AuxType -> Word \cup {1, EXEC_PAGESIZE}]
        /\ seen \subseteq Users \cup {Secure}
        /\ source \in {"none", "open", "closed"} /\ input \in Nat /\ taken \in Nat
    BY <1>1 DEF Init
  <2>4. /\ returned \in Status \cup {NotYet}
        /\ status \in Status \cup {NotYet, Exception}
    BY DEF Init
  <2> QED BY <2>1, <2>2, <2>3, <2>4 DEF TypeOK
<1>3. OwnWords /\ AuxvDefault /\ OnlyFini /\ MainHasReturned /\ EndsAtHlt
  BY <1>1 DEF Init, OwnWords, AuxvDefault, OnlyFini, MainHasReturned, EndsAtHlt,
              Ending, Ended
<1> QED BY <1>2, <1>3 DEF IInv
-----------------------------------------------------------------------------
(* The type invariant, one action at a time.                               *)

LEMMA TypeStep == TypeOK /\ OwnWords /\ [Next]_vars => TypeOK'
<1> SUFFICES ASSUME TypeOK, OwnWords, [Next]_vars PROVE TypeOK'
  OBVIOUS
<1> USE WordAssumption
        DEF TypeOK, Phase, Starting, Ending, Ended, Die, Stray,
            walk, stdin, chosen
<1>1. CASE start
  <2>1. Pushes \in Seq(Word)
    BY DEF Pushes
  <2>2. stack' \in Seq(Word)
    BY <1>1, <2>1 DEF start
  <2> QED BY <1>1, <2>2 DEF start
<1>2. CASE _start
  <2>1. stack[1] \in Nat
    BY <1>2 DEF _start, OwnWords
  <2> QED BY <1>2, <2>1 DEF _start
<1>3. CASE ScanEnviron
  BY <1>3 DEF ScanEnviron
<1>4. CASE AuxInit
  <2>1. CASE AuxEnd /\ UNCHANGED status
    BY <1>4, <2>1 DEF AuxInit, AuxEnd
  <2>2. CASE AuxPair /\ UNCHANGED status /\ here < Len(stack)
    BY <1>4, <2>2 DEF AuxInit, AuxPair
  <2>3. CASE AuxPair /\ UNCHANGED status /\ stack[here] \notin AuxType
    BY <1>4, <2>3 DEF AuxInit, AuxPair
  <2>4. CASE Die /\ UNCHANGED <<here, auxv, seen>>
    BY <1>4, <2>4 DEF AuxInit
  <2> QED BY <1>4, <2>1, <2>2, <2>3, <2>4 DEF AuxInit, Past, Decisive
<1>5. CASE DiscoverOsVersion \/ SetupTls \/ StackGuard \/ OpenUrandom \/ CheckStandardFds
  BY <1>5 DEF DiscoverOsVersion, SetupTls, StackGuard, OpenUrandom, CheckStandardFds
<1>6. CASE ReadUrandom
  BY <1>6 DEF ReadUrandom
<1>7. CASE RegisterRtldFini
  BY <1>7 DEF RegisterRtldFini
<1>8. CASE InitFirst
  <2>1. auxv' \in [AuxType -> Word \cup {1, EXEC_PAGESIZE}]
    BY <1>8 DEF InitFirst
  <2> QED BY <1>8, <2>1 DEF InitFirst
<1>15. CASE NonDynamicInit
  <2>1. handlers' \in Seq(Word \cup {csu_fini})
    BY <1>15 DEF NonDynamicInit
  <2> QED BY <1>15, <2>1 DEF NonDynamicInit
<1>9. CASE Main
  BY <1>9 DEF Main
<1>10. CASE RunExitHandlers
  <2>1. handlers' \in Seq(Word \cup {csu_fini})
    <3> DEFINE S == Word \cup {csu_fini}
    <3>1. handlers \in Seq(S)
      OBVIOUS
    <3>2. CASE handlers = <<>>
      BY <1>10, <3>2, <3>1 DEF RunExitHandlers
    <3>3. CASE handlers # <<>>
      <4>1. Len(handlers) \in Nat /\ Len(handlers) # 0
        BY <3>1, <3>3
      <4>2. SubSeq(handlers, 1, Len(handlers) - 1) \in Seq(S)
        BY <3>1, <4>1
      <4> QED BY <1>10, <3>3, <4>2 DEF RunExitHandlers
    <3> QED BY <3>2, <3>3
  <2>2. phase' \in Phase /\ status' \in Status \cup {NotYet, Exception}
    BY <1>10 DEF RunExitHandlers
  <2> QED BY <1>10, <2>1, <2>2 DEF RunExitHandlers
<1>11. CASE Cleanup \/ ExitGroup \/ Exit \/ Hlt
  BY <1>11 DEF Cleanup, ExitGroup, Exit, Hlt, Leave
<1>12. CASE Type
  BY <1>12 DEF Type
<1>14. CASE HangUp
  BY <1>14 DEF HangUp
<1>13. CASE UNCHANGED vars
  BY <1>13 DEF vars
<1> QED BY <1>1, <1>2, <1>3, <1>4, <1>5, <1>6, <1>7, <1>8, <1>9, <1>10, <1>11,
           <1>12, <1>13, <1>14, <1>15 DEF Next, Thread
-----------------------------------------------------------------------------
(* The other parts of the invariant.                                       *)

\* What neither the walk nor start() does.
Onward ==
    \/ DiscoverOsVersion \/ SetupTls \/ StackGuard \/ OpenUrandom \/ ReadUrandom
    \/ RegisterRtldFini \/ InitFirst \/ NonDynamicInit \/ CheckStandardFds \/ Main
    \/ RunExitHandlers \/ Cleanup \/ ExitGroup \/ Exit \/ Hlt
    \/ Type \/ HangUp \/ UNCHANGED vars

LEMMA Steps ==
  [Next]_vars => start \/ _start \/ ScanEnviron \/ AuxInit \/ Onward
  BY DEF Next, Thread, Onward

LEMMA OnwardKeeps ==
  ASSUME Onward
  PROVE  /\ UNCHANGED <<stack, argc, argv, here, edx, room>>
         /\ phase' # phase => phase' \notin {"start", "_start", "environ", "auxv"}
         /\ phase \in {"start", "_start"} => phase' = phase
  BY DEF Onward, DiscoverOsVersion, SetupTls, StackGuard, OpenUrandom, ReadUrandom,
         RegisterRtldFini, InitFirst, NonDynamicInit, CheckStandardFds, Main,
         RunExitHandlers, Cleanup, ExitGroup, Exit, Hlt, Leave, Die, Stray, Type, HangUp,
         vars, walk, stdin, chosen

LEMMA OwnWordsStep == TypeOK /\ OwnWords /\ [Next]_vars => OwnWords'
<1> SUFFICES ASSUME TypeOK, OwnWords, [Next]_vars PROVE OwnWords'
  OBVIOUS
<1>1. CASE start
  <2>1. Len(stack') >= 3 /\ \A i \in 1 .. 3 : stack'[i] = 0
    BY <1>1 DEF start, Pushes, TypeOK
  <2> QED BY <1>1, <2>1 DEF start, OwnWords, walk
<1>2. CASE _start
  BY <1>2 DEF _start, OwnWords
<1>3. CASE ScanEnviron
  BY <1>3 DEF ScanEnviron, Past, Die, OwnWords, TypeOK
<1>4. CASE AuxInit
  <2>1. here' >= 4 /\ phase' \in {"auxv", "osversion", "died"}
    BY <1>4 DEF AuxInit, AuxEnd, AuxPair, Die, OwnWords, TypeOK
  <2> QED BY <1>4, <2>1 DEF AuxInit, OwnWords
<1>5. CASE Onward
  BY <1>5, OnwardKeeps DEF OwnWords
<1> QED BY <1>1, <1>2, <1>3, <1>4, <1>5, Steps

LEMMA UndisturbedStep ==
  ASSUME TypeOK, [Next]_vars PROVE Undisturbed' => Undisturbed
<1>1. CASE start
  BY <1>1, Pushed DEF start, Undisturbed, chosen, TypeOK
<1>2. CASE _start \/ ScanEnviron \/ AuxInit
  BY <1>2, StaysUndisturbed DEF _start, ScanEnviron, AuxInit, AuxEnd, AuxPair, Die, chosen
<1>3. CASE Onward
  <2>1. CASE phase = "start"
    <3>1. phase' = "start" /\ UNCHANGED <<stack, edx, room>>
      BY <1>3, <2>1, OnwardKeeps
    <3>2. HarmlessFrom(1)' = HarmlessFrom(1)
      BY <3>1 DEF HarmlessFrom
    <3> QED BY <2>1, <3>1, <3>2 DEF Undisturbed
  <2>2. CASE phase # "start"
    <3>1. phase' # "start" /\ UNCHANGED <<stack, edx, room>>
      BY <1>3, <2>2, OnwardKeeps
    <3> QED BY <2>2, <3>1, StaysUndisturbed
  <2> QED BY <2>1, <2>2
<1> QED BY <1>1, <1>2, <1>3, Steps

LEMMA AuxvStep == IInv /\ [Next]_vars => AuxvDefault'
<1> SUFFICES ASSUME IInv, [Next]_vars, Undisturbed'
             PROVE  /\ auxv' = Defaults
                    /\ seen' = {}
                    /\ phase' = "auxv" => HarmlessFrom(here)'
  BY DEF AuxvDefault
<1>1. /\ Undisturbed /\ TypeOK /\ OwnWords
      /\ auxv = Defaults /\ seen = {}
      /\ phase = "auxv" => HarmlessFrom(here)
  BY UndisturbedStep DEF IInv, AuxvDefault
<1>2. CASE start \/ _start
  BY <1>1, <1>2 DEF start, _start, walk
<1>3. CASE ScanEnviron
  <2>1. here' = 4 \/ phase' # "auxv"
    BY <1>1, <1>3 DEF ScanEnviron, Past, Die, OwnWords
  <2>2. HarmlessFrom(4)
    BY <1>1, <1>3 DEF ScanEnviron, Undisturbed
  <2>3. stack' = stack /\ auxv' = auxv /\ seen' = seen
    BY <1>3 DEF ScanEnviron
  <2>4. here' = 4 => HarmlessFrom(here)'
    BY <2>2, <2>3 DEF HarmlessFrom
  <2> QED BY <1>1, <2>1, <2>3, <2>4
<1>4. CASE AuxInit
  <2>1. /\ ~Past /\ stack[here] \notin Decisive
        /\ stack[here] # 0 => HarmlessFrom(here + 2)
    BY <1>1, <1>4, Walk DEF AuxInit, TypeOK, OwnWords
  <2>2. /\ auxv' = auxv /\ seen' = seen /\ stack' = stack
        /\ \/ phase' = "osversion"
           \/ stack[here] # 0 /\ here' = here + 2
    BY <1>1, <1>4, <2>1 DEF AuxInit, AuxEnd, AuxPair, Decisive, Users
  <2>3. phase' = "auxv" => HarmlessFrom(here)'
    BY <2>1, <2>2 DEF HarmlessFrom
  <2> QED BY <1>1, <2>2, <2>3
<1>5. CASE Onward
  <2>1. auxv' = Defaults /\ seen' = {}
    <3>1. CASE InitFirst
      <4>1. auxv' = [Defaults EXCEPT ![Secure] = 0]
        BY <1>1, <3>1 DEF InitFirst, sys_getuid32, sys_geteuid32, sys_getgid32,
                          sys_getegid32
      <4>2. Defaults[Secure] = 0
        BY DEF Defaults, AuxType, Secure, SysInfo, PageSize
      <4>3. [Defaults EXCEPT ![Secure] = 0] = Defaults
        BY <4>2 DEF Defaults
      <4> QED BY <1>1, <3>1, <4>1, <4>3 DEF InitFirst
    <3>2. CASE ~InitFirst
      BY <1>1, <1>5, <3>2 DEF Onward, DiscoverOsVersion, SetupTls, StackGuard,
         OpenUrandom, ReadUrandom, RegisterRtldFini, NonDynamicInit, CheckStandardFds,
         Main, RunExitHandlers, Cleanup, ExitGroup, Exit, Hlt, Leave, Type, HangUp,
         vars, walk
    <3> QED BY <3>1, <3>2
  <2>2. phase' = "auxv" => HarmlessFrom(here)'
    <3>1. UNCHANGED <<stack, here>> /\ (phase' = "auxv" => phase = "auxv")
      BY <1>5, OnwardKeeps
    <3> QED BY <1>1, <3>1 DEF HarmlessFrom
  <2> QED BY <2>1, <2>2
<1> QED BY <1>2, <1>3, <1>4, <1>5, Steps

LEMMA FiniStep == IInv /\ [Next]_vars => OnlyFini'
<1> SUFFICES ASSUME IInv, [Next]_vars PROVE OnlyFini'
  OBVIOUS
<1>1. Undisturbed' => \A i \in DOMAIN handlers' : handlers'[i] = csu_fini
  <2> SUFFICES ASSUME Undisturbed'
               PROVE  \A i \in DOMAIN handlers' : handlers'[i] = csu_fini
    OBVIOUS
  <2>1. /\ Undisturbed /\ edx = 0 /\ TypeOK
        /\ \A i \in DOMAIN handlers : handlers[i] = csu_fini
    BY UndisturbedStep DEF IInv, OnlyFini, Undisturbed
  <2>2. CASE RegisterRtldFini
    BY <2>1, <2>2 DEF RegisterRtldFini
  <2>3. CASE NonDynamicInit
    BY <2>1, <2>3 DEF NonDynamicInit, TypeOK
  <2>4. CASE RunExitHandlers
    <3>1. CASE handlers = <<>>
      BY <2>1, <2>4, <3>1 DEF RunExitHandlers
    <3>2. CASE handlers # <<>>
      <4>1. Len(handlers) \in Nat \ {0}
        BY <2>1, <3>2 DEF TypeOK
      <4>2. handlers' = SubSeq(handlers, 1, Len(handlers) - 1)
        BY <2>4, <3>2 DEF RunExitHandlers
      <4>3. /\ DOMAIN handlers' = 1 .. Len(handlers) - 1
            /\ \A i \in 1 .. Len(handlers) - 1 : handlers'[i] = handlers[i]
        BY <2>1, <4>1, <4>2 DEF TypeOK
      <4> QED BY <2>1, <4>1, <4>3 DEF TypeOK
    <3> QED BY <3>1, <3>2
  <2>5. CASE UNCHANGED handlers
    BY <2>1, <2>5
  <2>6. \/ RegisterRtldFini \/ NonDynamicInit \/ RunExitHandlers \/ UNCHANGED handlers
    BY DEF Next, Thread, start, _start, ScanEnviron, AuxInit, DiscoverOsVersion,
           SetupTls, StackGuard, OpenUrandom, ReadUrandom, InitFirst, CheckStandardFds,
           Main, Cleanup, ExitGroup, Exit, Hlt, Leave, Type, HangUp, vars
  <2> QED BY <2>2, <2>3, <2>4, <2>5, <2>6
<1>2. phase' \in {"cleanup", "exit_group", "exit", "hlt"} => handlers' = <<>>
  BY DEF Next, Thread, start, _start, ScanEnviron, AuxInit, AuxEnd, AuxPair,
         DiscoverOsVersion, SetupTls, StackGuard, OpenUrandom, ReadUrandom, RegisterRtldFini, InitFirst,
         NonDynamicInit, CheckStandardFds, Main, RunExitHandlers, Cleanup, ExitGroup, Exit, Hlt,
         Leave, Die, Stray, Type, HangUp, vars, IInv, OnlyFini
<1> QED BY <1>1, <1>2 DEF OnlyFini

LEMMA ReturnedStep == IInv /\ [Next]_vars => MainHasReturned'
<1> USE WordAssumption
<1>1. NotYet \notin Status
  BY DEF NotYet
<1> QED
  BY <1>1 DEF Next, Thread, start, _start, ScanEnviron, AuxInit, AuxEnd, AuxPair,
         DiscoverOsVersion, SetupTls, StackGuard, OpenUrandom, ReadUrandom, RegisterRtldFini, InitFirst,
         NonDynamicInit, CheckStandardFds, Main, RunExitHandlers, Cleanup, ExitGroup, Exit, Hlt,
         Leave, Die, Stray, Type, HangUp, vars, IInv, MainHasReturned, Ending

\* Of the ways to end, only the hlt is open to an undisturbed program.
LEMMA EndStep == IInv /\ [Next]_vars => EndsAtHlt'
<1> SUFFICES ASSUME IInv, [Next]_vars, Undisturbed', phase' \in Ended
             PROVE  /\ phase' = "died" /\ returned' # NotYet /\ handlers' = <<>>
                    /\ status' = Exception
  BY DEF EndsAtHlt
<1>1. /\ Undisturbed /\ edx = 0 /\ room /\ TypeOK /\ OwnWords
      /\ auxv = Defaults /\ seen = {}
      /\ phase = "auxv" => HarmlessFrom(here)
      /\ \A i \in DOMAIN handlers : handlers[i] = csu_fini
      /\ EndsAtHlt
  BY UndisturbedStep DEF IInv, AuxvDefault, OnlyFini, Undisturbed
<1>2. CASE start \/ _start
  BY <1>2 DEF start, _start, Ended
<1>3. CASE ScanEnviron
  BY <1>1, <1>3 DEF ScanEnviron, Past, OwnWords, Ended
<1>4. CASE AuxInit
  <2>1. ~Past /\ stack[here] \notin Decisive
    BY <1>1, <1>4, Walk DEF AuxInit, TypeOK, OwnWords
  <2> QED BY <1>4, <2>1 DEF AuxInit, AuxEnd, AuxPair, Ended
<1>5. CASE DiscoverOsVersion
  <2>1. auxv[SysInfo] = Int80Stub
    BY <1>1 DEF Defaults, AuxType
  <2>2. Release > Required
    BY DEF Release, Required
  <2> QED BY <1>5, <2>1, <2>2 DEF DiscoverOsVersion, Ended
<1>6. CASE SetupTls
  <2>1. auxv[Phdr] = 0
    BY <1>1 DEF Defaults, AuxType, Phdr, SysInfo, PageSize
  <2> QED BY <1>1, <1>6, <2>1 DEF SetupTls, HeadersFault, Ended
<1>7. CASE StackGuard
  <2>1. auxv[Random] = 0
    BY <1>1 DEF Defaults, AuxType, Random, SysInfo, PageSize
  <2> QED BY <1>7, <2>1 DEF StackGuard
<1>8. CASE OpenUrandom \/ ReadUrandom \/ RegisterRtldFini \/ InitFirst \/ Main \/ Cleanup
  BY <1>8 DEF OpenUrandom, ReadUrandom, RegisterRtldFini, InitFirst, Main, Cleanup, Ended
<1>9. CASE CheckStandardFds
  <2>1. auxv[Secure] = 0
    BY <1>1 DEF Defaults, AuxType, Secure, SysInfo, PageSize
  <2> QED BY <1>9, <2>1 DEF CheckStandardFds, Ended
<1>14. CASE NonDynamicInit
  <2>1. auxv[Phdr] = 0 /\ auxv[PageSize] = EXEC_PAGESIZE
    BY <1>1 DEF Defaults, AuxType, Phdr, SysInfo, PageSize
  <2> QED BY <1>1, <1>14, <2>1 DEF NonDynamicInit, HeadersFault, Ended
<1>10. CASE RunExitHandlers
  <2>1. handlers # <<>> => handlers[Len(handlers)] = csu_fini
    <3>1. ASSUME handlers # <<>> PROVE Len(handlers) \in DOMAIN handlers
      BY <1>1, <3>1 DEF TypeOK
    <3> QED BY <1>1, <3>1
  <2> QED BY <1>10, <2>1 DEF RunExitHandlers, Ended
<1>11. CASE ExitGroup \/ Exit
  <2>1. SYS_exit \notin Implemented /\ SYS_exit_group \notin Implemented
    BY DEF SYS_exit, SYS_exit_group, Implemented
  <2> QED BY <1>11, <2>1 DEF ExitGroup, Exit, Leave, Ended
<1>12. CASE Hlt
  BY <1>12 DEF Hlt, Die, IInv, OnlyFini, MainHasReturned, Ending
<1>13. CASE Type \/ HangUp \/ UNCHANGED vars
  BY <1>1, <1>13 DEF Type, HangUp, vars, EndsAtHlt
<1> QED BY <1>2, <1>3, <1>4, <1>5, <1>6, <1>7, <1>8, <1>9, <1>10, <1>11, <1>12, <1>13,
           <1>14 DEF Next, Thread

LEMMA Inductive == Spec => []IInv
<1>1. IInv /\ [Next]_vars => IInv'
  BY TypeStep, OwnWordsStep, AuxvStep, FiniStep, ReturnedStep, EndStep DEF IInv
<1> QED BY <1>1, InitIInv, PTL DEF Spec
-----------------------------------------------------------------------------
\* Every variable keeps its type; in particular argc, which _start takes from
\* the stack, is there to be taken.
THEOREM TypeCorrect == Spec => []TypeOK
<1>1. IInv => TypeOK
  BY DEF IInv
<1> QED BY <1>1, Inductive, PTL

\* The program's environment and arguments are words of start()'s, whatever
\* the host has on the stack above them (main.cpp:21-25).
THEOREM StringsAreOwn == Spec => []NoForeignStrings
<1>1. IInv => NoForeignStrings
  <2> SUFFICES ASSUME IInv PROVE NoForeignStrings
    OBVIOUS
  <2>1. Len(Pushes) = 3
    BY DEF Pushes
  <2> QED BY <2>1 DEF IInv, OwnWords, NoForeignStrings, Starting
<1> QED BY <1>1, Inductive, PTL

\* A program whose start nothing of the host's disturbs ends nowhere but at
\* the hlt behind exit_group and exit, after main has returned and its exit
\* handlers have run (exit-success.S:1197-1316, stubs.c:7-16).
THEOREM OnlyAtHlt == Spec => []EndsAtHlt
<1>1. IInv => EndsAtHlt
  BY DEF IInv
<1> QED BY <1>1, Inductive, PTL
-----------------------------------------------------------------------------
(* The end of the process.  The walk over the stack stays inside the words *)
(* that are there, but for the pair that it may have begun at the last.    *)

WalkInside == phase \in {"environ", "auxv"} => here <= Len(stack) + 2

LEMMA ToGoIs ==
  /\ ToGo["start"] = 23 /\ ToGo["_start"] = 19 /\ ToGo["environ"] = 18
  /\ ToGo["auxv"] = 17 /\ ToGo["osversion"] = 16 /\ ToGo["tls"] = 15
  /\ ToGo["guard"] = 14 /\ ToGo["urandom"] = 13 /\ ToGo["rtld_fini"] = 12
  /\ ToGo["init_first"] = 10 /\ ToGo["non_dynamic"] = 9 /\ ToGo["secure"] = 7
  /\ ToGo["main"] = 6 /\ ToGo["handlers"] = 5 /\ ToGo["cleanup"] = 4
  /\ ToGo["exit_group"] = 3 /\ ToGo["exit"] = 2 /\ ToGo["hlt"] = 1
<1>1. Len(Pushes) = 3
  BY DEF Pushes
<1> QED BY <1>1 DEF ToGo

\* What StepsLeft is before and after a step.
LEMMA StepsAre ==
  /\ StepsLeft = IF phase \in Ended THEN 0 ELSE ToGo[phase] + WordsLeft + Len(handlers)
  /\ StepsLeft' = IF phase' \in Ended THEN 0 ELSE ToGo[phase'] + WordsLeft' + Len(handlers')
<1>1. UNCHANGED ToGo
  BY DEF ToGo, Pushes
<1> QED BY <1>1 DEF StepsLeft

\* A process that has not ended has steps before it.
LEMMA StepsAhead ==
  ASSUME TypeOK, WalkInside, phase \notin Ended
  PROVE  /\ StepsLeft = ToGo[phase] + WordsLeft + Len(handlers)
         /\ ToGo[phase] \in Nat \ {0} /\ WordsLeft \in Nat /\ Len(handlers) \in Nat
<1>1. ToGo[phase] \in Nat \ {0}
  <2>1. phase \in Starting \cup {"main"} \cup Ending
    BY DEF TypeOK, Phase
  <2>2. phase \in Starting => ToGo[phase] \in Nat \ {0}
    BY ONLY ToGoIs DEF Starting
  <2>3. phase \in {"main"} \cup Ending => ToGo[phase] \in Nat \ {0}
    BY ONLY ToGoIs DEF Ending
  <2> QED BY ONLY <2>1, <2>2, <2>3
<1>2. Len(stack) \in Nat /\ Len(handlers) \in Nat /\ here \in Nat
  BY DEF TypeOK
<1>3. WordsLeft \in Nat
  BY <1>2 DEF WalkInside, WordsLeft
<1> QED BY <1>1, <1>2, <1>3, StepsAre

\* The steps after the walk, as long as no function is registered.
LEMMA StraightStep ==
  ASSUME TypeOK, WalkInside, UNCHANGED handlers,
         \/ phase = "osversion"  /\ phase' = "tls"
         \/ phase = "tls"        /\ phase' = "guard"
         \/ phase = "guard"      /\ phase' \in {"urandom", "rtld_fini"}
         \/ phase = "urandom"    /\ phase' = "rtld_fini"
         \/ phase = "init_first" /\ phase' = "non_dynamic"
         \/ phase = "secure"     /\ phase' = "main"
         \/ phase = "main"       /\ phase' = "handlers"
         \/ phase = "handlers"   /\ phase' = "cleanup"
         \/ phase = "cleanup"    /\ phase' = "exit_group"
         \/ phase = "exit_group" /\ phase' = "exit"
         \/ phase = "exit"       /\ phase' = "hlt"
  PROVE  StepsLeft' \in 0 .. StepsLeft - 1 /\ WalkInside'
<1>1. Len(handlers) \in Nat /\ WordsLeft = 0 /\ WordsLeft' = 0
  BY DEF TypeOK, WordsLeft
<1>2. StepsLeft = ToGo[phase] + Len(handlers) /\ StepsLeft' = ToGo[phase'] + Len(handlers)
  <2>1. ToGo[phase] \in Nat /\ ToGo[phase'] \in Nat /\ phase \notin Ended /\ phase' \notin Ended
    BY ToGoIs DEF Ended
  <2> QED BY <1>1, <2>1, StepsAre
<1>3. ToGo[phase] \in Nat /\ ToGo[phase'] \in Nat /\ ToGo[phase'] < ToGo[phase]
  BY ToGoIs
<1> QED BY <1>1, <1>2, <1>3 DEF WalkInside

LEMMA EndingStep ==
  ASSUME TypeOK, WalkInside, phase \notin Ended, phase' \in Ended
  PROVE  StepsLeft' \in 0 .. StepsLeft - 1 /\ WalkInside'
<1>1. StepsLeft \in Nat \ {0} /\ StepsLeft' = 0
  BY StepsAhead, StepsAre
<1> QED BY <1>1 DEF WalkInside, Ended

LEMMA ThreadAdvances ==
  ASSUME TypeOK, OwnWords, WalkInside, Thread
  PROVE  StepsLeft' \in 0 .. StepsLeft - 1 /\ WalkInside'
<1>1. Len(stack) \in Nat /\ Len(handlers) \in Nat /\ here \in Nat
  BY DEF TypeOK
<1>2. phase \notin Ended
  BY DEF Thread, start, _start, ScanEnviron, AuxInit, DiscoverOsVersion, SetupTls,
         StackGuard, OpenUrandom, ReadUrandom, RegisterRtldFini, InitFirst,
         NonDynamicInit, CheckStandardFds, Main, RunExitHandlers, Cleanup, ExitGroup, Exit, Hlt, Ended
<1>3. SUFFICES ASSUME phase' \notin Ended
               PROVE  StepsLeft' \in 0 .. StepsLeft - 1 /\ WalkInside'
  BY <1>2, EndingStep
<1>4. /\ StepsLeft = ToGo[phase] + WordsLeft + Len(handlers)
      /\ StepsLeft' = ToGo[phase'] + WordsLeft' + Len(handlers')
  BY <1>2, <1>3, StepsAre
<1>5. CASE start
  <2>1. Len(stack') = 3 + Len(stack) /\ Len(handlers') = Len(handlers)
    BY <1>5 DEF start, Pushes, TypeOK
  <2>2. phase = "start" /\ phase' = "_start" /\ WordsLeft = Len(stack) /\ WordsLeft' = Len(stack')
    BY <1>5 DEF start, WordsLeft
  <2>3. StepsLeft = 23 + Len(stack) + Len(handlers)
    BY <1>4, <2>2, ToGoIs
  <2>4. StepsLeft' = 19 + (3 + Len(stack)) + Len(handlers)
    BY <1>4, <2>1, <2>2, ToGoIs
  <2>5. WalkInside'
    BY <2>2 DEF WalkInside
  <2> QED BY ONLY <1>1, <2>3, <2>4, <2>5
<1>6. CASE _start
  <2>1. /\ phase = "_start" /\ phase' = "environ" /\ here' = 3 /\ stack' = stack
        /\ handlers' = handlers /\ Len(stack) >= 3
    BY <1>6 DEF _start, OwnWords, TypeOK
  <2>2. WordsLeft = Len(stack) /\ WordsLeft' = Len(stack) + 2 - 3
    BY <2>1 DEF WordsLeft
  <2>3. StepsLeft = 19 + Len(stack) + Len(handlers)
    BY <1>4, <2>1, <2>2, ToGoIs
  <2>4. StepsLeft' = 18 + (Len(stack) + 2 - 3) + Len(handlers)
    BY <1>4, <2>1, <2>2, ToGoIs
  <2>5. WalkInside'
    BY <1>1, <2>1 DEF WalkInside
  <2> QED BY ONLY <1>1, <2>1, <2>3, <2>4, <2>5
<1>7. CASE ScanEnviron
  <2>1. /\ phase = "environ" /\ phase' \in {"environ", "auxv"} /\ here' = here + 1
        /\ stack' = stack /\ handlers' = handlers /\ here <= Len(stack)
    BY <1>1, <1>3, <1>7 DEF ScanEnviron, Past, Die, Ended
  <2>2. WordsLeft = Len(stack) + 2 - here /\ WordsLeft' = Len(stack) + 2 - (here + 1)
    BY <2>1 DEF WordsLeft
  <2>3. StepsLeft = 18 + (Len(stack) + 2 - here) + Len(handlers)
    BY <1>4, <2>1, <2>2, ToGoIs
  <2>4. PICK n \in 17 .. 18 : ToGo[phase'] = n
    BY <2>1, ToGoIs
  <2>5. StepsLeft' = n + (Len(stack) + 2 - (here + 1)) + Len(handlers)
    BY <1>4, <2>1, <2>2, <2>4
  <2>6. WalkInside'
    BY <1>1, <2>1 DEF WalkInside
  <2>7. here <= Len(stack)
    BY <2>1
  <2> QED BY ONLY <1>1, <2>3, <2>4, <2>5, <2>6, <2>7
<1>8. CASE AuxInit
  <2>1. /\ phase = "auxv" /\ stack' = stack /\ handlers' = handlers /\ here <= Len(stack)
        /\ \/ phase' = "osversion"
           \/ phase' = "auxv" /\ here' = here + 2
    BY <1>1, <1>3, <1>8 DEF AuxInit, AuxEnd, AuxPair, Past, Die, Ended
  <2>2. WordsLeft = Len(stack) + 2 - here
    BY <2>1 DEF WordsLeft
  <2>3. StepsLeft = 17 + (Len(stack) + 2 - here) + Len(handlers)
    BY <1>4, <2>1, <2>2, ToGoIs
  <2>4. here <= Len(stack)
    BY <2>1
  <2>5. CASE phase' = "osversion"
    <3>1. WordsLeft' = 0 /\ WalkInside'
      BY <2>5 DEF WordsLeft, WalkInside
    <3>2. StepsLeft' = 16 + 0 + Len(handlers)
      BY <1>4, <2>1, <2>5, <3>1, ToGoIs
    <3> QED BY ONLY <1>1, <2>3, <2>4, <3>1, <3>2
  <2>6. CASE phase' = "auxv" /\ here' = here + 2
    <3>1. WordsLeft' = Len(stack) + 2 - (here + 2)
      BY <2>1, <2>6 DEF WordsLeft
    <3>2. StepsLeft' = 17 + (Len(stack) + 2 - (here + 2)) + Len(handlers)
      BY <1>4, <2>1, <2>6, <3>1, ToGoIs
    <3>3. WalkInside'
      BY <1>1, <2>1, <2>6 DEF WalkInside
    <3> QED BY ONLY <1>1, <2>3, <2>4, <3>2, <3>3
  <2> QED BY <2>1, <2>5, <2>6
<1>9. CASE \/ DiscoverOsVersion \/ SetupTls \/ StackGuard \/ OpenUrandom \/ ReadUrandom
           \/ InitFirst \/ CheckStandardFds \/ Main \/ Cleanup \/ ExitGroup \/ Exit \/ Hlt
  <2>1. UNCHANGED handlers
    BY <1>9 DEF DiscoverOsVersion, SetupTls, StackGuard, OpenUrandom, ReadUrandom,
                InitFirst, CheckStandardFds, Main, Cleanup, ExitGroup, Exit, Hlt, Leave
  <2>2. \/ phase = "osversion"  /\ phase' = "tls"
        \/ phase = "tls"        /\ phase' = "guard"
        \/ phase = "guard"      /\ phase' \in {"urandom", "rtld_fini"}
        \/ phase = "urandom"    /\ phase' = "rtld_fini"
        \/ phase = "init_first" /\ phase' = "non_dynamic"
        \/ phase = "secure"     /\ phase' = "main"
        \/ phase = "main"       /\ phase' = "handlers"
        \/ phase = "cleanup"    /\ phase' = "exit_group"
        \/ phase = "exit_group" /\ phase' = "exit"
        \/ phase = "exit"       /\ phase' = "hlt"
    BY <1>3, <1>9 DEF DiscoverOsVersion, SetupTls, StackGuard, OpenUrandom, ReadUrandom,
                InitFirst, CheckStandardFds, Main, Cleanup, ExitGroup, Exit, Hlt, Leave, Die, Stray, Ended
  <2> QED BY <2>1, <2>2, StraightStep
\* A function more to call is one step more, but the step that adds it is over.
<1>10. CASE RegisterRtldFini \/ NonDynamicInit
  <2>1. Len(handlers') \in {Len(handlers), Len(handlers) + 1}
    BY <1>3, <1>10 DEF RegisterRtldFini, NonDynamicInit, Die, Stray, Ended, TypeOK
  <2>2. \/ phase = "rtld_fini"   /\ phase' = "init_first"
        \/ phase = "non_dynamic" /\ phase' = "secure"
    BY <1>3, <1>10 DEF RegisterRtldFini, NonDynamicInit, Die, Stray, Ended
  <2>3. WordsLeft = 0 /\ WordsLeft' = 0
    BY <2>2 DEF WordsLeft
  <2>4. PICK n \in {9, 12} : ToGo[phase] = n /\ ToGo[phase'] = n - 2
    BY <2>2, ToGoIs
  <2>5. StepsLeft = n + 0 + Len(handlers)
    BY <1>4, <2>3, <2>4
  <2>6. StepsLeft' = (n - 2) + 0 + Len(handlers')
    BY <1>4, <2>3, <2>4
  <2>7. WalkInside'
    BY <2>2 DEF WalkInside
  <2> QED BY ONLY <1>1, <2>1, <2>4, <2>5, <2>6, <2>7
<1>11. CASE RunExitHandlers
  <2>1. CASE handlers = <<>>
    BY <1>11, <2>1, StraightStep DEF RunExitHandlers
  <2>2. CASE handlers # <<>>
    <3>1. /\ phase = "handlers" /\ phase' = "handlers"
          /\ handlers' = SubSeq(handlers, 1, Len(handlers) - 1)
      BY <1>3, <1>11, <2>2 DEF RunExitHandlers, Die, Stray, Ended
    <3>2. Len(handlers') = Len(handlers) - 1 /\ Len(handlers') \in Nat
      <4>1. handlers \in Seq(Word \cup {csu_fini})
        BY DEF TypeOK
      <4>2. Len(handlers) - 1 \in 0 .. Len(handlers)
        BY ONLY <2>2, <4>1
      <4>3. Len(SubSeq(handlers, 1, Len(handlers) - 1)) = Len(handlers) - 1
        <5> DEFINE S == Word \cup {csu_fini}
                   n == Len(handlers) - 1
        <5>1. handlers \in Seq(S) /\ n \in Int
          BY <1>1, <4>1
        <5>2. \A i \in 1 .. n : handlers[i] \in S
          <6> HIDE DEF S
          <6> QED BY ONLY <4>2, <5>1, ElementOfSeq
        <5>3. Len(SubSeq(handlers, 1, n)) = IF 1 <= n THEN n - 1 + 1 ELSE 0
          <6> HIDE DEF S, n
          <6> QED BY ONLY <5>1, <5>2, SubSeqProperties
        <5> QED BY ONLY <1>1, <4>2, <5>3
      <4> QED BY ONLY <3>1, <4>2, <4>3, <1>1
    <3>3. WordsLeft = 0 /\ WordsLeft' = 0
      BY <3>1 DEF WordsLeft
    <3>4. StepsLeft = 5 + 0 + Len(handlers) /\ StepsLeft' = 5 + 0 + Len(handlers')
      BY <1>4, <3>1, <3>3, ToGoIs
    <3>5. WalkInside'
      BY <3>1 DEF WalkInside
    <3> QED BY ONLY <1>1, <3>2, <3>4, <3>5
  <2> QED BY <2>1, <2>2
<1> QED BY <1>5, <1>6, <1>7, <1>8, <1>9, <1>10, <1>11 DEF Thread

\* For any words of the host's on the stack, and any functions registered for
\* exit, the thread has no more than StepsLeft steps before it.
THEOREM ProcessTerminates == Spec => ProcessAdvances
<1>1. Init => WalkInside
  BY DEF Init, WalkInside
<1>2. TypeOK /\ OwnWords /\ WalkInside /\ [Next]_vars =>
        /\ WalkInside'
        /\ [IF Thread THEN StepsLeft' \in 0 .. StepsLeft - 1 ELSE StepsLeft' = StepsLeft]_vars
  <2> SUFFICES ASSUME TypeOK, OwnWords, WalkInside, [Next]_vars
               PROVE  /\ WalkInside'
                      /\ [IF Thread THEN StepsLeft' \in 0 .. StepsLeft - 1
                                    ELSE StepsLeft' = StepsLeft]_vars
    OBVIOUS
  <2>1. CASE Thread
    BY <2>1, ThreadAdvances
  <2>2. CASE ~Thread
    <3>1. UNCHANGED <<phase, stack, here, handlers>>
      BY <2>2 DEF Next, Type, HangUp, vars, walk
    <3> QED BY <2>2, <3>1 DEF WalkInside, StepsLeft, WordsLeft, ToGo
  <2> QED BY <2>1, <2>2
<1>3. IInv => TypeOK /\ OwnWords
  BY DEF IInv
<1> QED BY <1>1, <1>2, <1>3, Inductive, PTL DEF Spec, ProcessAdvances
=============================================================================
