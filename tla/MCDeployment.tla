---------------------------- MODULE MCDeployment ----------------------------
(* Small instances of Deployment.                                          *)
EXTENDS Deployment, TLC

CONSTANT JobAttempts

\* Two processes in two containers have the same pid, hence the same name.
MCNameOf == [w \in Workers |-> "worker-1"]

MCAttempts == [k \in Kind \union {"landing"} |-> JobAttempts]

\* Vercel created the preview, or the production build, but its answer is lost.
ProviderFails ==
  {<<"preview", "preview.save">>, <<"production", "production.move">>}

Symmetry == Permutations(Workers)
=============================================================================
