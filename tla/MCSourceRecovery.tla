-------------------------- MODULE MCSourceRecovery --------------------------
(* Small instances of SourceRecovery.                                      *)
EXTENDS SourceRecovery, TLC

\* Two processes in two containers have the same pid, hence the same name.
MCNameOf == [w \in Workers |-> "worker-1"]

\* The preparation is run again when it fails, and so is the last watch.
MCAttempts == [k \in Kind |-> IF k \in {"verify-rollback", "watch"} THEN 2 ELSE 1]

\* Every statement of the preparation and of the closure may fail.
StatementsFail ==
  {"verify-rollback"} \X {"revert.record", "revert.review", "revert.move", "ok"}
    \union {"watch"} \X {"watch.mark", "watch.resolve"}

Symmetry == Permutations(Workers)
=============================================================================
