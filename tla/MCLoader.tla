------------------------------ MODULE MCLoader ------------------------------
EXTENDS Loader

MCHost == 0 .. 3 \union 10 .. 11

Load(v, m, o, f) == [type |-> "LOAD", vaddr |-> v, memsz |-> m,
                            offset |-> o, filesz |-> f]
Other == [type |-> "other", vaddr |-> 14, memsz |-> 3, offset |-> 0,
          filesz |-> 1]
Text == Load(5, 2, 0, 2)
Data == Load(7, 3, 2, 1)    \* with bss, next to the text
Bss  == Load(4, 1, 1, 0)
Wrap == Load(9, 9, 0, 2) \* not well-formed
Null == Load(2, 3, 1, 2)     \* below the granule: base 0
High == Load(10, 2, 0, 1)   \* fits, but runs into the host

File(m, s, p) == [magic |-> m, shdrs |-> s, phdrs |-> p]

MCFiles ==
    {File(TRUE, <<"STRTAB">>, <<Data, Text>>),
     File(TRUE, <<>>, <<Other, Text>>),
     File(TRUE, <<>>, <<Bss, Data>>),
     File(TRUE, <<>>, <<Data, Data>>),
     File(TRUE, <<>>, <<Wrap, Text>>),
     File(TRUE, <<"other">>, <<Null>>),
     File(TRUE, <<>>, <<High>>),
     File(FALSE, <<>>, <<>>)}

\* A leftover header without the magic, and one with it and other counts.
MCStaleHeader ==
    {[magic |-> FALSE, entry |-> FALSE, phnum |-> 1, shnum |-> 1],
     [magic |-> TRUE, entry |-> TRUE, phnum |-> 2, shnum |-> 0]}

MCStalePhdr == {Load(8, 1, 3, 1)}
=============================================================================
