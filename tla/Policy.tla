------------------------------- MODULE Policy -------------------------------
(***************************************************************************)
(* The deterministic policy of crates/nopager-policy: what a proposed      *)
(* action may do, from facts the model never supplies.  `decide` governs   *)
(* deployment recovery, `decide_operations` every other operation.         *)
(***************************************************************************)

SafetyMode     == {"safe", "autopilot"}
ActionRisk     == {"Low", "Medium", "High", "Prohibited"}
PolicyDecision == {"Allow", "RequireApproval", "Block"}

PolicyContext ==
  [mode : SafetyMode, kill : BOOLEAN, preview : BOOLEAN, reversible : BOOLEAN]

Decide(risk, context) ==
  IF \/ context.kill
     \/ risk \in {"High", "Prohibited"}
     \/ ~context.preview
  THEN "Block"
  ELSE IF \/ ~context.reversible
          \/ context.mode = "safe"
          \/ risk = "Medium"
  THEN "RequireApproval"
  ELSE "Allow"

OperationsPolicyContext ==
  [mode : SafetyMode, kill : BOOLEAN, target : BOOLEAN, enabled : BOOLEAN,
   verification : BOOLEAN, cooldown : BOOLEAN]

DecideOperations(risk, mutating, context) ==
  IF ~mutating THEN "Allow"
  ELSE IF \/ context.kill
          \/ ~context.target
          \/ ~context.enabled
          \/ ~context.verification
          \/ ~context.cooldown
          \/ risk \in {"High", "Prohibited"}
  THEN "Block"
  ELSE IF context.mode = "safe" \/ risk = "Medium" THEN "RequireApproval"
  ELSE "Allow"
=============================================================================
