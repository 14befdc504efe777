------------------------------ MODULE Promotion ------------------------------
(***************************************************************************)
(* How a repair gets into production, without saying by whom or how.       *)
(* Attempts are made one after the other, no more than the project allows; *)
(* the last one is the current one.  It is verified, and either allowed at *)
(* once or held until the administrator decides; what is promoted is the   *)
(* current attempt, verified and granted, while its incident is promoting, *)
(* and only what was promoted is handed to landing.  A pause may come at   *)
(* any time before that or after; a resume begins anew, with no current    *)
(* attempt and one more attempt allowed.                                   *)
(*                                                                         *)
(* So no attempt from before a resume, and none that was rejected, ever    *)
(* reaches production.  Deployment implements this module; LandOrRestore   *)
(* says what becomes of a promoted repair.                                 *)
(***************************************************************************)
EXTENDS Naturals

VARIABLES
  phase,      \* "making", "deciding", "promoting", "landing", "paused", "closed"
  made,       \* attempts made so far, which are their numbers
  current,    \* the current attempt, or 0
  allowance,  \* attempts that may be made
  verified, granted, rejected, promoted   \* sets of attempts

pVars == <<phase, made, current, allowance, verified, granted, rejected, promoted>>

PInit ==
  /\ phase \in {"making", "paused"}
  /\ made = 0 /\ current = 0
  /\ allowance \in Nat
  /\ verified = {} /\ granted = {} /\ rejected = {} /\ promoted = {}

Attempt ==
  /\ phase = "making"
  /\ made < allowance
  /\ made' = made + 1 /\ current' = made + 1
  /\ UNCHANGED <<phase, allowance, verified, granted, rejected, promoted>>

Verify ==
  /\ phase = "making"
  /\ current # 0
  /\ verified' = verified \union {current}
  /\ UNCHANGED <<phase, made, current, allowance, granted, rejected, promoted>>

Hold ==
  /\ phase = "making"
  /\ current \in verified
  /\ phase' = "deciding"
  /\ UNCHANGED <<made, current, allowance, verified, granted, rejected, promoted>>

Allow ==
  /\ phase = "making"
  /\ current \in verified
  /\ phase' = "promoting"
  /\ granted' = granted \union {current}
  /\ UNCHANGED <<made, current, allowance, verified, rejected, promoted>>

Accept ==
  /\ phase = "deciding"
  /\ phase' = "promoting"
  /\ UNCHANGED <<made, current, allowance, verified, granted, rejected, promoted>>

\* The approval's last statement: a decision for whatever attempt is then the current one.
Grant ==
  /\ current # 0
  /\ granted' = granted \union {current}
  /\ UNCHANGED <<phase, made, current, allowance, verified, rejected, promoted>>

Reject ==
  /\ phase = "deciding"
  /\ phase' = "closed"
  /\ rejected' = rejected \union {current}
  /\ UNCHANGED <<made, current, allowance, verified, granted, promoted>>

Promote ==
  /\ phase = "promoting"
  /\ current \in verified \intersect granted
  /\ promoted' = promoted \union {current}
  /\ UNCHANGED <<phase, made, current, allowance, verified, granted, rejected>>

Deliver ==
  /\ phase = "promoting"
  /\ current \in promoted
  /\ phase' = "landing"
  /\ UNCHANGED <<made, current, allowance, verified, granted, rejected, promoted>>

\* The Kill Switch, or an escalation.
Stop ==
  /\ phase \in {"making", "promoting", "landing"}
  /\ phase' \in {"paused", "closed"}
  /\ UNCHANGED <<made, current, allowance, verified, granted, rejected, promoted>>

Resume ==
  /\ phase = "paused"
  /\ phase' = "making"
  /\ current' = 0
  /\ allowance' = allowance + 1
  /\ UNCHANGED <<made, verified, granted, rejected, promoted>>

PNext ==
  \/ Attempt \/ Verify \/ Hold \/ Allow \/ Accept \/ Grant \/ Reject
  \/ Promote \/ Deliver \/ Stop \/ Resume

PSpec == PInit /\ [][PNext]_pVars

\* docs/PR_NOTES.md, docs/ALPHA_TEST_MATRIX.md, A8: what is promoted was verified and granted, and
\* is not rejected before or after; the attempts made are those allowed.
Promises ==
  /\ promoted \subseteq verified \intersect granted
  /\ promoted \intersect rejected = {}
  /\ made <= allowance
==============================================================================
