--------------------------------- MODULE Vec ---------------------------------
(***************************************************************************)
(* The operations that move the elements of a Vec                          *)
(* (rs-matter/src/utils/storage/vec.rs).  Indices count from 1.            *)
(***************************************************************************)
EXTENDS Integers, Sequences

\* Vec::remove
vec_remove(s, i) == SubSeq(s, 1, i - 1) \o SubSeq(s, i + 1, Len(s))

\* Vec::insert
vec_insert(s, i, e) == SubSeq(s, 1, i - 1) \o <<e>> \o SubSeq(s, i, Len(s))
=============================================================================
