---------------------------- MODULE MCProtection ----------------------------
(* Small instances of Protection.                                          *)
EXTENDS Protection, TLC

WorkerSymmetry == Permutations(Workers)
=============================================================================
