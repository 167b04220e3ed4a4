--------------------------- MODULE MCReachability ---------------------------
(* Reachability for TLC: blocks other than the root are interchangeable,   *)
(* and so are the readers.                                                 *)
EXTENDS Reachability, TLC

Symmetry == Permutations(Block \ {Genesis}) \cup Permutations(Reader)
=============================================================================
