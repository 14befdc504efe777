--------------------------- MODULE IncidentStates ---------------------------
(***************************************************************************)
(* The life cycle of an incident: IncidentState of crates/nopager-core and *)
(* the sets of states the rest of the code tells apart.  Pure definitions, *)
(* used by every module that moves an incident.                            *)
(***************************************************************************)

IncidentState ==
  {"Open", "CollectingContext", "Diagnosing", "Planning", "Repairing",
   "Testing", "PreviewDeploying", "VerifyingPreview", "WaitingApproval",
   "ProductionDeploying", "VerifyingProduction", "RollingBack", "RolledBack",
   "Resolved", "Failed", "Escalated", "Cancelled", "Ignored", "Duplicate",
   "Paused"}

\* What any state may turn into.
AlwaysReachable == {"Escalated", "Failed", "Cancelled", "Paused"}

Moves ==
  {<<"Open", "CollectingContext">>,
   <<"CollectingContext", "Diagnosing">>,
   <<"Diagnosing", "Planning">>,
   <<"Planning", "Repairing">>, <<"Planning", "WaitingApproval">>,
   <<"Repairing", "Testing">>, <<"Repairing", "VerifyingProduction">>,
   <<"Testing", "Repairing">>, <<"Testing", "PreviewDeploying">>,
   <<"PreviewDeploying", "VerifyingPreview">>,
   <<"VerifyingPreview", "Repairing">>, <<"VerifyingPreview", "WaitingApproval">>,
   <<"VerifyingPreview", "ProductionDeploying">>,
   <<"WaitingApproval", "Repairing">>, <<"WaitingApproval", "ProductionDeploying">>,
   <<"ProductionDeploying", "VerifyingProduction">>,
   <<"VerifyingProduction", "Resolved">>, <<"VerifyingProduction", "RollingBack">>,
   <<"RollingBack", "RolledBack">>,
   <<"RolledBack", "Resolved">>,
   <<"Paused", "CollectingContext">>}

\* can_transition_to.
CanTransition(from, to) == <<from, to>> \in Moves \/ to \in AlwaysReachable

\* The states that do not keep a second incident with the same deduplication
\* key from being opened.
Closed == {"Resolved", "RolledBack", "Failed", "Escalated", "Cancelled",
           "Ignored", "Duplicate"}

\* The states escalate_incident leaves alone.
Settled == {"Resolved", "RolledBack", "Escalated", "Failed", "Cancelled"}
=============================================================================
