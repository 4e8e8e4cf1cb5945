--------------------------- MODULE MCProcessLife ---------------------------
(***************************************************************************)
(* Frames that the walk over the auxiliary vector leaves at once, after a  *)
(* pair of every type and several values, or not at all, one with a TLS    *)
(* segment and one with all four ids.  64 is an address; 7 is a type that  *)
(* the libc passes over.                                                   *)
(***************************************************************************)
EXTENDS ProcessLife

MCWord == {0, 3, 5, 6, 7, 11, 12, 13, 14, 23, 25, 32, 64}
MCFrame ==
    {<<>>, <<0>>, <<7>>, <<25>>, <<7, 0>>, <<3, 64, 5, 7, 0>>,
     <<7, 25, 7, 25, 0>>, <<0, 23>>, <<11, 0, 12, 0, 13, 0, 14, 0, 0>>}
    \cup {<<t, v, 0>> : t \in MCWord, v \in {0, 5, 64}}
=============================================================================
