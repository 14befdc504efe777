--------------------------- MODULE MCRuntimeHelper ---------------------------
(* Small instances of RuntimeHelper.                                       *)
EXTENDS RuntimeHelper, TLC

ConnSymmetry == Permutations(Conns) \union Permutations(Reqs)
==============================================================================
