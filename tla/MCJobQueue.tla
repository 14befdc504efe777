----------------------------- MODULE MCJobQueue -----------------------------
(* A small instance of JobQueue: three processes, two of them under one    *)
(* name.                                                                   *)
EXTENDS JobQueue

CONSTANTS w1, w2, w3, once, twice, thrice

MCNameOf == [w \in Workers |-> IF w = w3 THEN "worker-7" ELSE "worker-1"]

MCMaxAttempts ==
  [j \in Jobs |-> IF j = once THEN 1 ELSE IF j = twice THEN 2 ELSE 3]
=============================================================================
