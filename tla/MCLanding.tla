----------------------------- MODULE MCLanding -----------------------------
(* Small instances of Landing.                                             *)
EXTENDS Landing, TLC

\* Two processes in two containers have the same pid, hence the same name.
MCNameOf == [w \in Workers |-> "worker-1"]

\* Only the jobs that change something outside get a second attempt.
MCAttempts == [k \in Kind |-> IF k \in {"land-repair", "rollback"} THEN 2 ELSE 1]

\* GitHub merged the repair, or Vercel accepted the rollback, but the answer is
\* lost.
ProviderFails ==
  {<<"land-repair", "land.find">>, <<"rollback", "rollback.move">>}

\* The watch is given a second attempt, and the answer to its last statement, which
\* enqueues the next job, is lost.
RetriedAttempts == [k \in Kind |-> IF k = "watch" THEN 2 ELSE 1]
AnswerLost == {<<"watch", "ok">>}

Symmetry == Permutations(Workers)
=============================================================================
