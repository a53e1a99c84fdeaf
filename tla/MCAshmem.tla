----------------------------- MODULE MCAshmem -------------------------------
(***************************************************************************)
(* Small instances of Ashmem: an area in whose pages a hole can be, with   *)
(* two sizes for SET_SIZE to choose from, and a small one beside it on the *)
(* same LRU list.  The addresses of ranges are interchangeable.            *)
(***************************************************************************)
EXTENDS Ashmem

CONSTANTS
  a1, a2,      \* areas
  r1, r2, r3   \* ranges

MCSizes == a1 :> {2, 3} @@ a2 :> {1}

Symmetry == Permutations({r1, r2, r3})
=============================================================================
