---------------------------- MODULE LandOrRestore ----------------------------
(***************************************************************************)
(* What becomes of a repair that was promoted, without saying by whom or   *)
(* how.  The promoted build is on trial; the trial ends in one of two ways *)
(* and never in both:                                                      *)
(*                                                                         *)
(*   - it passed all its watches and is to be landed: merged into the      *)
(*     protected branch, after which the production deployment of the      *)
(*     merge is watched in its turn;                                       *)
(*   - production is to be restored.                                       *)
(*                                                                         *)
(* An incident is resolved when the merge has passed its watches or when   *)
(* production was to be restored, not when a merged repair is rolled back; *)
(* and while it has not been closed, the deployment to go back to is       *)
(* replaced by that of the merge, after its watches, or not at all.        *)
(*                                                                         *)
(* Landing implements this module.                                         *)
(***************************************************************************)
EXTENDS Naturals

CONSTANTS
  Checks,       \* the watches of a deployment, which come in order
  Deployments,  \* what may be the deployment to go back to
  Landed        \* the production deployment of the merge

VARIABLES
  way,        \* how the trial ended: "trial" (not yet), "land", "restore"
  watched,    \* watches the promoted build has passed
  merged,     \* the repair is on the protected branch
  confirmed,  \* watches the deployment of the merge has passed
  undoing,    \* a rollback was asked for
  baseline,   \* the deployment to go back to
  closed,     \* the incident was once resolved or rolled back
  resolved    \* the incident is resolved

lrVars == <<way, watched, merged, confirmed, undoing, baseline, closed, resolved>>

LRInit ==
  /\ way = "trial"
  /\ watched = {} /\ confirmed = {}
  /\ baseline \in Deployments
  /\ ~merged /\ ~undoing /\ ~closed /\ ~resolved

InTurn(c, done) == \A d \in Checks : d < c => d \in done

Watch(c) ==
  /\ way = "trial"
  /\ InTurn(c, watched)
  /\ watched' = watched \union {c}
  /\ UNCHANGED <<way, merged, confirmed, undoing, baseline, closed, resolved>>

Land ==
  /\ way = "trial"
  /\ watched = Checks
  /\ way' = "land"
  /\ UNCHANGED <<watched, merged, confirmed, undoing, baseline, closed, resolved>>

Restore ==
  /\ way = "trial"
  /\ way' = "restore"
  /\ undoing' = TRUE
  /\ UNCHANGED <<watched, merged, confirmed, baseline, closed, resolved>>

Merge ==
  /\ way = "land"
  /\ merged' = TRUE
  /\ UNCHANGED <<way, watched, confirmed, undoing, baseline, closed, resolved>>

Confirm(c) ==
  /\ merged
  /\ InTurn(c, confirmed)
  /\ confirmed' = confirmed \union {c}
  /\ UNCHANGED <<way, watched, merged, undoing, baseline, closed, resolved>>

\* The merge is rolled back: from here it is a human's, or SourceRecovery's.
Undo ==
  /\ merged
  /\ undoing' = TRUE
  /\ UNCHANGED <<way, watched, merged, confirmed, baseline, closed, resolved>>

Establish ==
  /\ confirmed = Checks
  /\ baseline' = Landed
  /\ UNCHANGED <<way, watched, merged, confirmed, undoing, closed, resolved>>

Resolve ==
  /\ way = "restore" \/ (merged /\ confirmed = Checks)
  /\ resolved' = TRUE /\ closed' = TRUE
  /\ UNCHANGED <<way, watched, merged, confirmed, undoing, baseline>>

\* Production was rolled back.
Close ==
  /\ undoing
  /\ closed' = TRUE /\ resolved' = FALSE
  /\ UNCHANGED <<way, watched, merged, confirmed, undoing, baseline>>

\* An incident that was closed holds the known-good mark no longer, and may be paused.
Refresh ==
  /\ closed
  /\ baseline' \in Deployments
  /\ UNCHANGED <<way, watched, merged, confirmed, undoing, closed, resolved>>

Reopen ==
  /\ closed
  /\ resolved' = FALSE
  /\ UNCHANGED <<way, watched, merged, confirmed, undoing, baseline, closed>>

LRNext ==
  \/ \E c \in Checks : Watch(c) \/ Confirm(c)
  \/ Land \/ Restore \/ Merge \/ Undo \/ Establish \/ Resolve \/ Close \/ Refresh \/ Reopen

LRSpec == LRInit /\ [][LRNext]_lrVars

\* docs/ALPHA_TEST_MATRIX.md, A16, A20: a repair is merged when it has passed all its watches, and
\* then production is not to be restored as if it were not; an incident is resolved when
\* production was to be restored, or the merge has passed its watches.
Promises ==
  /\ merged => way = "land" /\ watched = Checks
  /\ resolved => way = "restore" \/ (merged /\ confirmed = Checks)
==============================================================================
