------------------------------ MODULE NtHandle ------------------------------
(***************************************************************************)
(* Common/NtHandle: a wrapper of a Windows handle whose operator & closes  *)
(* what it holds and lets the next call write a new value.  It has a copy  *)
(* constructor that duplicates, an assignment that the compiler writes,    *)
(* and no destructor.  The handle table of the process gives a closed      *)
(* value away again.                                                       *)
(*                                                                         *)
(* The objects are those of any function that uses the class;              *)
(* ElfFile::Map has one of each kind, the section's and its parameter.     *)
(***************************************************************************)
EXTENDS Naturals

CONSTANTS
    Object,     \* the variables of class NtHandle
    Value,      \* the handle values of the process
    NULL,       \* no handle
    Pseudo,     \* the value of GetCurrentProcess(), which is in no table
    Free, Other, Leaked, None

ASSUME NameAssumption ==
    /\ {NULL, Pseudo} \cap Value = {}
    /\ NULL # Pseudo
    /\ {Free, Other, Leaked, None} \cap Object = {}
    /\ Free \notin {Other, Leaked}

VARIABLES
    holder,     \* who has opened each value: an object, Other (code without
                \* NtHandle), Leaked (an object that has lost it), or Free
    alive,      \* the objects in scope
    m_Handle,
    owns,       \* whether an object has opened what it holds itself
    out,        \* the object whose & has been taken for the next call
    careful,    \* & was only taken of objects that were empty or owned theirs
    wrong,      \* an object has closed what another has opened
    asserted    \* assert(NT_SUCCESS(Status)) has failed

vars == <<holder, alive, m_Handle, owns, out, careful, wrong, asserted>>
marks == <<careful, wrong, asserted>>

TypeOK ==
    /\ holder \in [Value -> Object \cup {Free, Other, Leaked}]
    /\ alive \subseteq Object
    /\ m_Handle \in [Object -> Value \cup {NULL, Pseudo}]
    /\ owns \in [Object -> BOOLEAN]
    /\ out \in alive \cup {None}
    /\ careful \in BOOLEAN /\ wrong \in BOOLEAN /\ asserted \in BOOLEAN

Init ==
    /\ holder \in [Value -> {Free, Other}]
    /\ alive = {} /\ out = None
    /\ m_Handle = [o \in Object |-> NULL] /\ owns = [o \in Object |-> FALSE]
    /\ careful = TRUE /\ wrong = FALSE /\ asserted = FALSE

Open(v) == v \in Value /\ holder[v] # Free

\* Between & and the call it is an argument of, nothing else runs.
Ready == out = None
-----------------------------------------------------------------------------
(* Construction                                                            *)

Construct(o, h) ==
    /\ Ready /\ o \notin alive
    /\ alive' = alive \cup {o}
    /\ m_Handle' = [m_Handle EXCEPT ![o] = h]
    /\ owns' = [owns EXCEPT ![o] = FALSE]
    /\ UNCHANGED <<holder, out, marks>>

\* NtHandle() and NtHandle(HANDLE): of an open handle, or the pseudo handle.
Default(o) == Construct(o, NULL)
FromHandle(o) == \E h \in Value \cup {Pseudo} : (h = Pseudo \/ Open(h)) /\ Construct(o, h)

\* Seeded fault: the copy constructor copies the value.
Copy_shares(o, p) ==
    /\ Ready /\ o \notin alive /\ p \in alive
    /\ alive' = alive \cup {o}
    /\ m_Handle' = [m_Handle EXCEPT ![o] = m_Handle[p]]
    /\ owns' = [owns EXCEPT ![o] = TRUE]
    /\ UNCHANGED <<holder, out, marks>>

\* NtDuplicateObject of what p holds, which must be open; if it fails, the
\* exception leaves no object behind.
Copy(o, p) ==
    /\ Ready /\ o \notin alive /\ p \in alive
    /\ m_Handle[p] = Pseudo \/ Open(m_Handle[p])
    /\ \E v \in Value :
          /\ holder[v] = Free
          /\ holder' = [holder EXCEPT ![v] = o]
          /\ m_Handle' = [m_Handle EXCEPT ![o] = v]
    /\ alive' = alive \cup {o}
    /\ owns' = [owns EXCEPT ![o] = TRUE]
    /\ UNCHANGED <<out, marks>>
-----------------------------------------------------------------------------
\* What o has opened and holds no longer is open until the process ends.
Lose(o) ==
    holder' = IF owns[o] THEN [v \in Value |-> IF v = m_Handle[o] /\ holder[v] = o
                                               THEN Leaked ELSE holder[v]]
              ELSE holder

\* The assignment of the compiler: both hold the value, p goes on owning it.
Assign(o, p) ==
    /\ Ready /\ o \in alive /\ p \in alive /\ o # p
    /\ Lose(o)
    /\ m_Handle' = [m_Handle EXCEPT ![o] = m_Handle[p]]
    /\ owns' = [owns EXCEPT ![o] = FALSE]
    /\ UNCHANGED <<alive, out, marks>>

\* The end of a scope, or an exception: there is no destructor.
Destroy(o) ==
    /\ Ready /\ o \in alive
    /\ Lose(o)
    /\ alive' = alive \ {o}
    /\ m_Handle' = [m_Handle EXCEPT ![o] = NULL]
    /\ owns' = [owns EXCEPT ![o] = FALSE]
    /\ UNCHANGED <<out, marks>>

\* Seeded fault: NULL is closed like any other value.
NeedsClose_always(h) == TRUE

NeedsClose(h) == h # NULL

\* NtClose of the value that is held, which stays in m_Handle; the pseudo
\* handle can be closed without effect.  The assertion is taken for a message,
\* since release builds have none.
CloseHandle(o) ==
    LET h == m_Handle[o]
    IN  IF NeedsClose(h)
        THEN /\ holder' = [v \in Value |-> IF v = h THEN Free ELSE holder[v]]
             /\ wrong' = (wrong \/ (Open(h) /\ holder[h] # o))
             /\ asserted' = (asserted \/ (h # Pseudo /\ ~Open(h)))
        ELSE UNCHANGED <<holder, wrong, asserted>>

TakeAddress(o) ==
    /\ Ready /\ o \in alive
    /\ CloseHandle(o)
    /\ out' = o
    /\ owns' = [owns EXCEPT ![o] = FALSE]
    /\ careful' = (careful /\ (m_Handle[o] = NULL \/ owns[o]))
    /\ UNCHANGED <<alive, m_Handle>>

\* The call the address was taken for writes a new handle.
Opened ==
    /\ ~Ready
    /\ \E v \in Value :
          /\ holder[v] = Free
          /\ holder' = [holder EXCEPT ![v] = out]
          /\ m_Handle' = [m_Handle EXCEPT ![out] = v]
    /\ owns' = [owns EXCEPT ![out] = TRUE]
    /\ out' = None
    /\ UNCHANGED <<alive, marks>>

\* Seeded fault: the call leaves the address of a table entry behind.
Unwritten_entry(h) == Free

\* What a failing call leaves where the handle should go.
Unwritten(h) == h

\* It fails, and the object still holds the value that & has closed.
Failed ==
    /\ ~Ready
    /\ m_Handle' = [m_Handle EXCEPT ![out] = Unwritten(@)]
    /\ out' = None
    /\ UNCHANGED <<holder, alive, owns, marks>>

\* Code without NtHandle opens and closes handles of its own.
OtherOpens(v) ==
    /\ Ready /\ holder[v] = Free
    /\ holder' = [holder EXCEPT ![v] = Other]
    /\ UNCHANGED <<alive, m_Handle, owns, out, marks>>

OtherCloses(v) ==
    /\ Ready /\ holder[v] = Other
    /\ holder' = [holder EXCEPT ![v] = Free]
    /\ UNCHANGED <<alive, m_Handle, owns, out, marks>>

Next ==
    \/ \E o \in Object : \/ Default(o) \/ FromHandle(o)
                         \/ Destroy(o) \/ TakeAddress(o)
                         \/ \E p \in Object : Copy(o, p) \/ Assign(o, p)
    \/ Opened \/ Failed
    \/ \E v \in Value : OtherOpens(v) \/ OtherCloses(v)

Spec == Init /\ [][Next]_vars
-----------------------------------------------------------------------------
\* While & is taken with care, what an object owns is open, and was opened
\* for that object: no two objects own one handle, nobody closes it under its
\* owner, and its value is not given away again (NtHandle.cpp:17-26, 28-32).
OwnersOK ==
    careful => \A o \in Object : owns[o] => /\ o \in alive
                                            /\ m_Handle[o] \in Value
                                            /\ holder[m_Handle[o]] = o

\* With that care no call of & closes anybody else's handle, or one that is
\* closed (the assertion at NtHandle.cpp:44), whatever was copied, assigned and
\* destroyed before; so it is with the one & of this code, of a new object
\* (ElfFile.cpp:211).
CarefulCloses == careful => ~wrong /\ ~asserted
=============================================================================
