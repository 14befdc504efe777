---------------------------- MODULE MCOperations ----------------------------
(* Small instances of Operations.                                          *)
EXTENDS Operations, TLC

CONSTANT JobAttempts

\* Two processes in two containers have the same pid, hence the same name.
MCNameOf == [w \in Workers |-> "worker-1"]

\* Jobs that execute and verify are enqueued with a single attempt.
MCAttempts ==
  [k \in Kind |-> IF k \in {"execute", "verify"} THEN 1 ELSE JobAttempts]

IncidentSymmetry ==
  Permutations(Workers) \union Permutations(Tries) \union Permutations(Incidents)

Symmetry == Permutations(Workers) \union Permutations(Tries)
=============================================================================
