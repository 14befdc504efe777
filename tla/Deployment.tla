----------------------------- MODULE Deployment -----------------------------
(***************************************************************************)
(* Deployment recovery up to production: the handlers of                   *)
(* apps/worker/src/legacy_pipeline.rs that diagnose an incident, propose a *)
(* repair, test it in the sandbox, open a pull request, deploy and verify  *)
(* a preview, and promote it, with the administrator's calls of            *)
(* crates/nopager-db that decide about it.  Landing takes over when the    *)
(* incident reaches VerifyingProduction.                                   *)
(*                                                                         *)
(* One incident of a project connected to GitHub and Vercel, without an    *)
(* operations action.  A repair attempt is known by its number; the branch *)
(* of the incident and its pull request follow the last attempt pushed.    *)
(*                                                                         *)
(* Abstracted: source context, prompts, patches, the sandbox's commands,   *)
(* audit records and the deployments table; what a model, the sandbox or a *)
(* preview answers is a choice; time.                                      *)
(***************************************************************************)
EXTENDS Naturals, FiniteSets, IncidentStates, Policy

CONSTANTS
  Workers,      \* worker processes
  NameOf,       \* their worker ids
  Attempts,     \* Attempts[k]: max_attempts of jobs of kind k
  MaxRepair,    \* max_repair_attempts of the project
  MaxMade,      \* bound: repair attempts ever made for the incident
  MaxResumes,   \* bound: resumes of the incident
  Risks,        \* the risks a model's diagnosis may state
  Fragile,      \* bound: the points of a handler at which a call may fail
  MayCrash      \* bound: whether processes die

Kind == {"context", "diagnose", "repair", "build", "preview", "verify",
         "production"}

ASSUME DeploymentAssumption ==
  /\ Attempts \in [Kind \union {"landing"} -> Nat \ {0}]
  /\ MaxRepair \in Nat \ {0}
  /\ MaxMade \in Nat \ {0}
  /\ MaxResumes \in Nat
  /\ Risks \subseteq {"Low", "Medium", "High"}
  /\ MayCrash \in BOOLEAN

Made == 1..MaxMade

\* Idempotency keys: jobs of an attempt have its number in their key; the
\* promotion and what follows it are named after the incident alone; each resume
\* has a diagnose job of its own.
Jobs ==
  {<<"context", 0>>, <<"production", 0>>, <<"landing", 0>>}
    \union {<<"diagnose", n>> : n \in 0..MaxResumes}
    \union ({"repair", "build", "preview", "verify"} \X Made)

MaxAttempts == [j \in Jobs |-> Attempts[j[1]]]

Handled == Kind

VARIABLES
  incident, job, lease, pc, work,   \* the handlers (Handlers)
  project,    \* its safety mode, its Kill Switch, whether it has a known-good
              \* deployment to roll back to
  attempt,    \* the incident's repair attempts: how many were made, the current
              \* one if any, and those with a proposal, a pushed commit, a preview
  risk,       \* risk[a]: the diagnosis in the row of attempt a
  asked,      \* asked[a]: the diagnosis in the payload of its repair job
  chosen,     \* the attempt in the payload of the production job
  approval,   \* where a call of approve_incident stands
  verified,   \* history: attempts whose preview was READY and healthy
  granted,    \* history: attempts "approved", or "allowed" by the policy
  rejected,   \* history: attempts current when the administrator rejected
  promoted,   \* history: attempts whose preview was built for production
  stale       \* history: how many attempts had been made at the last resume

handlerVars == <<incident, job, lease, pc, work>>
rowVars     == <<attempt, risk, asked, chosen>>
ghostVars   == <<verified, granted, rejected, promoted, stale>>

vars == <<handlerVars, project, rowVars, approval, ghostVars>>

\* What a handler has read: the state and settings of its IncidentWork, and the
\* attempt it created.
Work ==
  [state : IncidentState, mode : SafetyMode, paused : BOOLEAN,
   n : Made \union {0}, risk : ActionRisk]
Blank ==
  [state |-> "Open", mode |-> "safe", paused |-> FALSE, n |-> 0, risk |-> "Low"]

INSTANCE Handlers

Point ==
  Kind \union Ends \union
  {"escalate.move",
   "context.collect", "context.enqueue",
   "diagnose.start", "diagnose.attempt", "diagnose.plan", "diagnose.enqueue",
   "repair.start", "repair.propose", "repair.enqueue",
   "build.pause", "build.start", "build.test", "build.followup", "build.again",
   "build.repair", "build.reread", "build.halt", "build.pull", "build.save",
   "build.preview",
   "preview.pause", "preview.start", "preview.create", "preview.save",
   "preview.verify", "preview.enqueue",
   "verify.check", "verify.decide", "verify.allow", "verify.require",
   "verify.block", "verify.enqueue",
   "production.pause", "production.promote", "production.move",
   "production.enqueue"}

TypeOK ==
  /\ incident \in IncidentState
  /\ Q!TypeOK
  /\ pc \in [Workers -> Point]
  /\ work \in [Workers -> Work]
  /\ project \in [mode : SafetyMode, paused : BOOLEAN, reversible : BOOLEAN]
  /\ attempt \in [made : Made \union {0}, current : Made \union {0},
                  proposed : SUBSET Made, pulled : SUBSET Made,
                  previewed : SUBSET Made]
  /\ risk \in [Made -> ActionRisk]
  /\ asked \in [Made -> ActionRisk]
  /\ chosen \in Made \union {0}
  /\ approval \in {"none", "move", "enqueue"}
  /\ {verified, rejected, promoted} \subseteq SUBSET Made
  /\ granted \subseteq {"approved", "allowed"} \X Made
  /\ stale \in Made \union {0}

\* An incident is opened with its context job, or paused under the Kill Switch.
Init ==
  /\ project \in [mode : SafetyMode, paused : BOOLEAN, reversible : BOOLEAN]
  /\ incident = IF project.paused THEN "Paused" ELSE "Open"
  /\ job = [j \in Jobs |->
              IF j = <<"context", 0>> /\ ~project.paused
              THEN [Q!Absent EXCEPT !.status = "PENDING"] ELSE Q!Absent]
  /\ lease = [w \in Workers |-> Q!NoLease]
  /\ pc = [w \in Workers |-> "idle"]
  /\ work = [w \in Workers |-> Blank]
  /\ attempt = [made |-> 0, current |-> 0, proposed |-> {}, pulled |-> {},
                previewed |-> {}]
  /\ risk = [a \in Made |-> "Low"]
  /\ asked = [a \in Made |-> "Low"]
  /\ chosen = 0
  /\ approval = "none"
  /\ verified = {} /\ granted = {} /\ rejected = {} /\ promoted = {}
  /\ stale = 0

-------------------------------------------------------------------------------
(* What the incident and the settings of the project tell each handler.    *)

\* The attempt a handler is about: the number in its job's key, or what the
\* payload of the production job says.
Subject(w) == IF KindOf(w) = "production" THEN chosen ELSE Number(w)

\* process_incident_context.
ContextEntry ==
  IF incident = "Open" THEN "context.collect"
  ELSE IF incident = "CollectingContext" THEN "context.enqueue"
  ELSE "ok"

\* process_diagnosis.
DiagnoseEntry ==
  IF incident = "CollectingContext" THEN "diagnose.start"
  ELSE IF incident = "Diagnosing" THEN "diagnose.attempt"
  ELSE "ok"

\* process_repair.
RepairEntry ==
  IF incident = "Planning" THEN "repair.start"
  ELSE IF incident = "Repairing" THEN "repair.propose"
  ELSE "ok"

\* process_build_test, with the attempt's row; its proposal was saved before its
\* build job was enqueued.
BuildEntry(w) ==
  IF project.paused THEN "build.pause"
  ELSE IF Subject(w) \in attempt.pulled THEN "build.preview"
  ELSE IF incident = "Repairing" THEN "build.start"
  ELSE IF incident = "Testing" THEN "build.test"
  ELSE "ok"

\* process_preview_deploy, with the attempt's row.
PreviewEntry ==
  IF project.paused THEN "preview.pause"
  ELSE IF incident = "Testing" THEN "preview.start"
  ELSE IF incident = "PreviewDeploying" THEN "preview.create"
  ELSE "ok"

\* verify_preview.
VerifyEntry == IF incident = "VerifyingPreview" THEN "verify.check" ELSE "ok"

\* process_production_action, with the attempt's row, which must have a proposal
\* and a preview.
ProductionEntry(w) ==
  IF project.paused
  THEN IF incident = "Paused" THEN "ok" ELSE "production.pause"
  ELSE IF Subject(w) \notin attempt.proposed THEN "err"
  ELSE IF incident # "ProductionDeploying" THEN "ok"
  ELSE IF Subject(w) \notin attempt.previewed THEN "err"
  ELSE "production.promote"

Entry(w) ==
  CASE pc[w] = "context"    -> ContextEntry
    [] pc[w] = "diagnose"   -> DiagnoseEntry
    [] pc[w] = "repair"     -> RepairEntry
    [] pc[w] = "build"      -> BuildEntry(w)
    [] pc[w] = "preview"    -> PreviewEntry
    [] pc[w] = "verify"     -> VerifyEntry
    [] pc[w] = "production" -> ProductionEntry(w)

\* incident_work (and repair_attempt): what it read is kept when it is used later.
ReadWork(w) ==
  LET to   == Entry(w)
      seen == CASE to \in {"build.pause", "preview.pause", "production.pause"} ->
                     [Blank EXCEPT !.state = incident]
                [] to = "verify.check" ->
                     [Blank EXCEPT !.mode = project.mode, !.paused = project.paused]
                [] OTHER -> Blank
  IN
  /\ pc[w] \in Kind
  /\ Read(w, pc[w], to, seen)
  /\ UNCHANGED <<incident, job, lease, project, rowVars, approval, ghostVars>>

-------------------------------------------------------------------------------
(* Context, diagnosis and repair.                                          *)

\* A step of a handler that changes the incident or the queue only.
Plainly == UNCHANGED <<project, rowVars, approval, ghostVars>>

CollectContext(w) ==
  /\ \/ Transition(w, "context.collect", "Open", "CollectingContext",
                   "context.enqueue")
     \/ EnqueueStep(w, "context.enqueue", <<"diagnose", 0>>, "ok")
  /\ Plainly

StartDiagnosis(w) ==
  /\ Transition(w, "diagnose.start", "CollectingContext", "Diagnosing",
                "diagnose.attempt")
  /\ Plainly

\* The model's answer, then create_repair_attempt: the current attempt, or a new
\* one.  An attempt that exists keeps the diagnosis it was created with.
CreateAttempt(w) ==
  /\ pc[w] = "diagnose.attempt"
  /\ \E r \in Risks :
       LET n == IF attempt.current # 0 THEN attempt.current ELSE attempt.made + 1 IN
       /\ n \in Made
       /\ attempt' = IF attempt.current # 0 THEN attempt
                     ELSE [attempt EXCEPT !.made = n, !.current = n]
       /\ risk' = IF attempt.current # 0 THEN risk ELSE [risk EXCEPT ![n] = r]
       /\ Read(w, "diagnose.attempt", "diagnose.plan",
               [Blank EXCEPT !.n = n, !.risk = r])
  /\ UNCHANGED <<incident, job, lease, project, asked, chosen, approval, ghostVars>>

PlanRepair(w) ==
  /\ Transition(w, "diagnose.plan", "Diagnosing", "Planning", "diagnose.enqueue")
  /\ Plainly

\* A repair job carries the diagnosis it was enqueued with.
EnqueueRepair(w, from, n, r) ==
  /\ EnqueueStep(w, from, <<"repair", n>>, "ok")
  /\ asked' = IF job[<<"repair", n>>].status = "absent"
              THEN [asked EXCEPT ![n] = r] ELSE asked
  /\ UNCHANGED <<project, attempt, risk, chosen, approval, ghostVars>>

EnqueueFirstRepair(w) ==
  /\ pc[w] = "diagnose.enqueue"
  /\ EnqueueRepair(w, "diagnose.enqueue", work[w].n, work[w].risk)

StartRepair(w) ==
  /\ Transition(w, "repair.start", "Planning", "Repairing", "repair.propose")
  /\ Plainly

\* A repair the diagnosis calls risky is a human's; any other is proposed.
ProposeRepair(w) ==
  /\ pc[w] = "repair.propose"
  /\ IF asked[Subject(w)] = "High"
     THEN Choose(w, "repair.propose", "escalate") /\ UNCHANGED attempt
     ELSE /\ Choose(w, "repair.propose", "repair.enqueue")
          /\ attempt' = [attempt EXCEPT !.proposed = @ \union {Subject(w)}]
  /\ UNCHANGED <<project, risk, asked, chosen, approval, ghostVars>>

EnqueueBuild(w) ==
  /\ pc[w] = "repair.enqueue"
  /\ EnqueueStep(w, "repair.enqueue", <<"build", Subject(w)>>, "ok")
  /\ Plainly

Diagnosis(w) ==
  \/ CollectContext(w) \/ StartDiagnosis(w) \/ CreateAttempt(w) \/ PlanRepair(w)
  \/ EnqueueFirstRepair(w) \/ StartRepair(w) \/ ProposeRepair(w) \/ EnqueueBuild(w)

-------------------------------------------------------------------------------
(* process_build_test and schedule_followup_repair.                        *)

\* The Kill Switch takes the incident from whatever state was read to PAUSED.
PauseRepair(w) ==
  /\ \E from \in {"build.pause", "preview.pause", "production.pause"} :
       Transition(w, from, work[w].state, "Paused", "ok")
  /\ Plainly

StartTesting(w) ==
  /\ Transition(w, "build.start", "Repairing", "Testing", "build.test")
  /\ Plainly

\* The sandbox: no base commit, or a patch that does not apply or touches other
\* files than declared, is an error; a changed dependency manifest is a human's; a
\* failed command is stored and repaired anew; otherwise the repair is validated.
TestRepair(w) ==
  /\ \E to \in {"err", "escalate", "build.followup", "build.reread"} :
       Choose(w, "build.test", to)
  /\ Plainly

\* Regression: the limit on attempts is not looked at.
FollowUpForever(w) ==
  LET n == attempt.made + 1 IN
  /\ pc[w] = "build.followup"
  /\ n \in Made
  /\ attempt' = [attempt EXCEPT !.made = n, !.current = n]
  /\ risk' = [risk EXCEPT ![n] = risk[Subject(w)]]
  /\ Read(w, "build.followup", "build.again", [Blank EXCEPT !.n = n])
  /\ UNCHANGED <<incident, job, lease, project, asked, chosen, approval, ghostVars>>

\* Regression: the follow-up does not become the current attempt.
FollowUpAside(w) ==
  LET n == attempt.made + 1 IN
  /\ pc[w] = "build.followup"
  /\ IF Subject(w) >= MaxRepair
     THEN Goto(w, "build.followup", "escalate") /\ UNCHANGED <<attempt, risk>>
     ELSE /\ n \in Made
          /\ attempt' = [attempt EXCEPT !.made = n]
          /\ risk' = [risk EXCEPT ![n] = risk[Subject(w)]]
          /\ Read(w, "build.followup", "build.again", [Blank EXCEPT !.n = n])
  /\ UNCHANGED <<incident, job, lease, project, asked, chosen, approval, ghostVars>>

\* The last attempt the project allows is followed by a human; any other by a new
\* attempt with the same diagnosis, which becomes the current one.
FollowUp(w) ==
  LET n == attempt.made + 1 IN
  /\ pc[w] = "build.followup"
  /\ IF Subject(w) >= MaxRepair
     THEN Goto(w, "build.followup", "escalate") /\ UNCHANGED <<attempt, risk>>
     ELSE /\ n \in Made
          /\ attempt' = [attempt EXCEPT !.made = n, !.current = n]
          /\ risk' = [risk EXCEPT ![n] = risk[Subject(w)]]
          /\ Read(w, "build.followup", "build.again", [Blank EXCEPT !.n = n])
  /\ UNCHANGED <<incident, job, lease, project, asked, chosen, approval, ghostVars>>

RepairAgain(w) ==
  /\ Transition(w, "build.again", "Testing", "Repairing", "build.repair")
  /\ Plainly

EnqueueNextRepair(w) ==
  /\ pc[w] = "build.repair"
  /\ EnqueueRepair(w, "build.repair", work[w].n, risk[Subject(w)])

\* Validated: the Kill Switch is read again before anything leaves for GitHub.
RereadWork(w) ==
  /\ Choose(w, "build.reread", IF project.paused THEN "build.halt" ELSE "build.pull")
  /\ Plainly

HaltBuild(w) ==
  /\ Transition(w, "build.halt", "Testing", "Paused", "ok")
  /\ Plainly

\* open_repair_pr pushes a commit to the incident's branch, replacing what is
\* there, and opens or finds the pull request; save_pull_request records both.
OpenRepairPullRequest(w) ==
  /\ Choose(w, "build.pull", "build.save")
  /\ Plainly

SavePullRequest(w) ==
  /\ pc[w] = "build.save"
  /\ Choose(w, "build.save", "build.preview")
  /\ attempt' = [attempt EXCEPT !.pulled = @ \union {Subject(w)}]
  /\ UNCHANGED <<project, risk, asked, chosen, approval, ghostVars>>

EnqueuePreview(w) ==
  /\ pc[w] = "build.preview"
  /\ EnqueueStep(w, "build.preview", <<"preview", Subject(w)>>, "ok")
  /\ Plainly

Build(w) ==
  \/ PauseRepair(w) \/ StartTesting(w) \/ TestRepair(w) \/ FollowUp(w)
  \/ RepairAgain(w) \/ EnqueueNextRepair(w) \/ RereadWork(w) \/ HaltBuild(w)
  \/ OpenRepairPullRequest(w) \/ SavePullRequest(w) \/ EnqueuePreview(w)

-------------------------------------------------------------------------------
(* process_preview_deploy and verify_preview.                              *)

StartPreview(w) ==
  /\ Transition(w, "preview.start", "Testing", "PreviewDeploying", "preview.create")
  /\ Plainly

\* A saved preview is used again; a new one is asked of Vercel, which refuses when
\* previews are exposed to secrets, and then saved.
CreatePreview(w) ==
  /\ pc[w] = "preview.create"
  /\ IF Subject(w) \in attempt.previewed
     THEN Choose(w, "preview.create", "preview.verify")
     ELSE \E to \in {"err", "preview.save"} : Choose(w, "preview.create", to)
  /\ Plainly

SavePreview(w) ==
  /\ pc[w] = "preview.save"
  /\ Choose(w, "preview.save", "preview.verify")
  /\ attempt' = [attempt EXCEPT !.previewed = @ \union {Subject(w)}]
  /\ UNCHANGED <<project, risk, asked, chosen, approval, ghostVars>>

\* Regression: the verification is not enqueued.
StartVerifyingOnly(w) ==
  /\ Transition(w, "preview.verify", "PreviewDeploying", "VerifyingPreview", "ok")
  /\ Plainly

StartVerifying(w) ==
  /\ Transition(w, "preview.verify", "PreviewDeploying", "VerifyingPreview",
                "preview.enqueue")
  /\ Plainly

EnqueueVerify(w) ==
  /\ pc[w] = "preview.enqueue"
  /\ EnqueueStep(w, "preview.enqueue", <<"verify", Subject(w)>>, "ok")
  /\ Plainly

\* Regression: a preview that is not READY or not healthy passes.
AcceptPreview(w) ==
  /\ pc[w] = "verify.check"
  /\ Choose(w, "verify.check", "verify.decide")
  /\ \/ verified' = verified \union {Subject(w)}
     \/ UNCHANGED verified
  /\ UNCHANGED <<project, rowVars, approval, granted, rejected, promoted, stale>>

\* A preview that is not READY yet, has failed or is not healthy is an error.
CheckPreview(w) ==
  /\ pc[w] = "verify.check"
  /\ \/ Choose(w, "verify.check", "err") /\ UNCHANGED verified
     \/ /\ Choose(w, "verify.check", "verify.decide")
        /\ verified' = verified \union {Subject(w)}
  /\ UNCHANGED <<project, rowVars, approval, granted, rejected, promoted, stale>>

\* Regression: the policy is asked without the diagnosis.
VerdictWithoutRisk(w) ==
  Decide("Low", [mode |-> work[w].mode, kill |-> work[w].paused, preview |-> TRUE,
                 reversible |-> project.reversible])

\* decide, on the settings read at the start and the risk in the attempt's row.
Verdict(w) ==
  Decide(risk[Subject(w)],
         [mode |-> work[w].mode, kill |-> work[w].paused, preview |-> TRUE,
          reversible |-> project.reversible])

DecideOnPreview(w) ==
  /\ pc[w] = "verify.decide"
  /\ Choose(w, "verify.decide", CASE Verdict(w) = "Allow"           -> "verify.allow"
                                  [] Verdict(w) = "RequireApproval" -> "verify.require"
                                  [] Verdict(w) = "Block"           -> "verify.block")
  /\ Plainly

AllowPromotion(w) ==
  /\ pc[w] = "verify.allow"
  /\ Transition(w, "verify.allow", "VerifyingPreview", "ProductionDeploying",
                "verify.enqueue")
  /\ granted' = IF incident = "VerifyingPreview" THEN granted \union {<<"allowed", Subject(w)>>}
                ELSE granted
  /\ UNCHANGED <<project, rowVars, approval, verified, rejected, promoted, stale>>

\* Regression: the promotion is enqueued before the administrator has decided.
HoldWithJob(w) ==
  /\ \/ Transition(w, "verify.require", "VerifyingPreview", "WaitingApproval",
                   "verify.enqueue")
     \/ Transition(w, "verify.block", "VerifyingPreview", "Paused", "ok")
  /\ Plainly

HoldPromotion(w) ==
  /\ \/ Transition(w, "verify.require", "VerifyingPreview", "WaitingApproval", "ok")
     \/ Transition(w, "verify.block", "VerifyingPreview", "Paused", "ok")
  /\ Plainly

\* The payload of the production job is that of its first insertion.
ChosenBy(n) == IF job[<<"production", 0>>].status = "absent" THEN n ELSE chosen

EnqueuePromotion(w) ==
  /\ pc[w] = "verify.enqueue"
  /\ EnqueueStep(w, "verify.enqueue", <<"production", 0>>, "ok")
  /\ chosen' = ChosenBy(Subject(w))
  /\ UNCHANGED <<project, attempt, risk, asked, approval, ghostVars>>

Preview(w) ==
  \/ StartPreview(w) \/ CreatePreview(w) \/ SavePreview(w) \/ StartVerifying(w)
  \/ EnqueueVerify(w) \/ CheckPreview(w) \/ DecideOnPreview(w) \/ AllowPromotion(w)
  \/ HoldPromotion(w) \/ EnqueuePromotion(w)

-------------------------------------------------------------------------------
(* process_production_action, promote.                                     *)

\* The preview is never the project's current target itself: promoting it builds
\* another deployment from it, and a retry builds one more.
Promote(w) ==
  /\ pc[w] = "production.promote"
  /\ Choose(w, "production.promote", "production.move")
  /\ promoted' = promoted \union {Subject(w)}
  /\ UNCHANGED <<project, rowVars, approval, verified, granted, rejected, stale>>

StartLanding(w) ==
  /\ \/ Transition(w, "production.move", "ProductionDeploying",
                   "VerifyingProduction", "production.enqueue")
     \/ EnqueueStep(w, "production.enqueue", <<"landing", 0>>, "ok")
  /\ Plainly

-------------------------------------------------------------------------------
(* The administrator.                                                      *)

\* approve_incident, the branch for an incident without an operations action: it
\* reads the incident and the Kill Switch ...
Approve ==
  /\ approval = "none"
  /\ ~project.paused
  /\ \/ incident = "WaitingApproval" /\ approval' = "move"
     \/ incident = "ProductionDeploying" /\ approval' = "enqueue"
  /\ UNCHANGED <<handlerVars, project, rowVars, ghostVars>>

\* ... moves the incident ...
ApproveMove ==
  /\ approval = "move"
  /\ IF incident = "WaitingApproval"
     THEN incident' = "ProductionDeploying" /\ approval' = "enqueue"
     ELSE UNCHANGED incident /\ approval' = "none"
  /\ UNCHANGED <<job, lease, pc, work, project, rowVars, ghostVars>>

\* ... and enqueues the promotion of the current attempt, if there is one.
ApproveEnqueue ==
  /\ approval = "enqueue"
  /\ approval' = "none"
  /\ IF attempt.current # 0
     THEN /\ job' = Q!Enqueued({<<"production", 0>>})
          /\ chosen' = ChosenBy(attempt.current)
          /\ granted' = granted \union {<<"approved", attempt.current>>}
     ELSE UNCHANGED <<job, chosen, granted>>
  /\ UNCHANGED <<incident, lease, pc, work, project, attempt, risk, asked,
                 verified, rejected, promoted, stale>>

\* A step of an approval fails, or the server dies between two of them.
ApprovalLost ==
  /\ approval # "none"
  /\ approval' = "none"
  /\ UNCHANGED <<handlerVars, project, rowVars, ghostVars>>

\* Regression: a promotion under way is cancelled too, without its job.
RejectLate ==
  /\ incident \in {"WaitingApproval", "ProductionDeploying"}
  /\ incident' = "Cancelled"
  /\ rejected' = rejected \union {attempt.current}
  /\ UNCHANGED <<job, lease, pc, work, project, rowVars, approval, verified,
                 granted, promoted, stale>>

\* reject_incident.
Reject ==
  /\ incident = "WaitingApproval"
  /\ incident' = "Cancelled"
  /\ rejected' = rejected \union ({attempt.current} \ {0})
  /\ UNCHANGED <<job, lease, pc, work, project, rowVars, approval, verified,
                 granted, promoted, stale>>

SetSafetyMode ==
  /\ \E mode \in SafetyMode \ {project.mode} : project' = [project EXCEPT !.mode = mode]
  /\ UNCHANGED <<handlerVars, rowVars, approval, ghostVars>>

Pause ==
  /\ ~project.paused
  /\ project' = [project EXCEPT !.paused = TRUE]
  /\ UNCHANGED <<handlerVars, rowVars, approval, ghostVars>>

Resumes == {n \in 1..MaxResumes : job[<<"diagnose", n>>].status # "absent"}

\* Regression: the attempt an incident was paused with may be approved at once.
ResumeForApproval ==
  /\ project.paused
  /\ project' = [project EXCEPT !.paused = FALSE]
  /\ IF incident = "Paused"
     THEN /\ incident' = "WaitingApproval"
          /\ stale' = attempt.made
     ELSE UNCHANGED <<incident, stale>>
  /\ UNCHANGED <<job, lease, pc, work, rowVars, approval, verified, granted,
                 rejected, promoted>>

\* Regression: a resumed incident keeps the attempt it was paused with.
ResumeWithAttempt ==
  /\ project.paused
  /\ project' = [project EXCEPT !.paused = FALSE]
  /\ IF incident = "Paused"
     THEN \E n \in 1..MaxResumes :
            /\ Resumes = 1..(n - 1)
            /\ incident' = "CollectingContext"
            /\ job' = Q!Enqueued({<<"diagnose", n>>})
            /\ stale' = attempt.made
     ELSE UNCHANGED <<incident, job, stale>>
  /\ UNCHANGED <<lease, pc, work, attempt, risk, asked, chosen, approval, verified,
                 granted, rejected, promoted>>

\* set_protection_paused(false): a paused incident is sent back to context
\* collection, without an attempt, with a diagnose job of its own.
Resume ==
  /\ project.paused
  /\ project' = [project EXCEPT !.paused = FALSE]
  /\ IF incident = "Paused"
     THEN \E n \in 1..MaxResumes :
            /\ Resumes = 1..(n - 1)
            /\ incident' = "CollectingContext"
            /\ attempt' = [attempt EXCEPT !.current = 0]
            /\ job' = Q!Enqueued({<<"diagnose", n>>})
            /\ stale' = attempt.made
     ELSE UNCHANGED <<incident, attempt, job, stale>>
  /\ UNCHANGED <<lease, pc, work, risk, asked, chosen, approval, verified, granted,
                 rejected, promoted>>

Administrator ==
  \/ Approve \/ ApproveMove \/ ApproveEnqueue \/ ApprovalLost \/ Reject
  \/ SetSafetyMode \/ Pause \/ Resume

-------------------------------------------------------------------------------

Loop(w) == LoopStep(w) /\ Plainly

Broken(w) == Fault(w) /\ Plainly

WorkerStep(w) ==
  \/ Loop(w) \/ ReadWork(w) \/ Diagnosis(w) \/ Build(w) \/ Preview(w)
  \/ Promote(w) \/ StartLanding(w)

Next == Administrator \/ \E w \in Workers : WorkerStep(w) \/ Broken(w)

Spec == Init /\ [][Next]_vars

\* Workers keep draining the queue and an approval that was begun is finished;
\* nothing is assumed of when administrators decide, pause or resume.
FairSpec ==
  /\ Spec
  /\ \A w \in Workers : WF_vars(WorkerStep(w))
  /\ WF_vars(ApproveMove \/ ApproveEnqueue)

-------------------------------------------------------------------------------
(* Properties.                                                             *)

\* docs/PR_NOTES.md: an unverified preview is not promoted.
PromotedWasVerified == promoted \subseteq verified

\* Nothing is promoted that neither the administrator approved nor the policy
\* allowed, whoever wrote the attempt into the promotion's payload.
PromotedWasGranted ==
  \A a \in promoted : \E by \in {"approved", "allowed"} : <<by, a>> \in granted

\* What the administrator rejected is not promoted, before or after a resume.
RejectedIsNotPromoted == promoted \intersect rejected = {}

\* docs/ALPHA_TEST_MATRIX.md, A8: automatic repair stops at the last attempt the
\* project allows (each resume starts over with one more).
AttemptsBounded ==
  attempt.made <= MaxRepair + Cardinality(Resumes)

\* Without an approval only a repair the diagnosis it came from calls low risk is
\* promoted, and only when there is a deployment to roll back to (A13, A14).
AllowedIsHarmless ==
  \A a \in Made : <<"allowed", a>> \in granted =>
    asked[a] = "Low" /\ project.reversible

\* docs/SELF_HOSTING.md: resuming does not continue stale mutation state; no
\* attempt made before a resume is promoted after it.
NoStaleMutation ==
  [][\A a \in promoted' \ promoted : a > stale]_vars

\* An incident the worker is to move on: not waiting for a decision, not paused,
\* not closed, and not Landing's.
InProgress ==
  incident \notin Closed \union {"WaitingApproval", "Paused", "VerifyingProduction"}

\* An approval that moved the incident and then failed: the incident waits for the
\* administrator to approve again.
HalfApproved ==
  /\ incident = "ProductionDeploying"
  /\ job[<<"production", 0>>].status = "absent"
  /\ approval = "none"
  /\ \A w \in Workers : pc[w] # "verify.enqueue"

\* When no call fails and no process dies, an incident that was not resumed is
\* brought to an end, to a decision, to a pause, or into production.
NoneStuck ==
  InProgress /\ Resumes = {} ~> ~InProgress \/ HalfApproved \/ Resumes # {}

-------------------------------------------------------------------------------
(* What Deployment promises, as Promotion puts it.                         *)

Phase ==
  CASE incident = "WaitingApproval"     -> "deciding"
    [] incident = "ProductionDeploying" -> "promoting"
    [] incident = "VerifyingProduction" -> "landing"
    [] incident = "Paused"              -> "paused"
    [] incident \in Closed              -> "closed"
    [] OTHER                            -> "making"

GrantedAny == {a \in Made : \E by \in {"approved", "allowed"} : <<by, a>> \in granted}

P == INSTANCE Promotion WITH
  phase     <- Phase,
  made      <- attempt.made,
  current   <- attempt.current,
  allowance <- MaxRepair + Cardinality(Resumes),
  granted   <- GrantedAny

\* docs/PR_NOTES.md, docs/SELF_HOSTING.md: what goes to production is the current attempt of an
\* incident that is being promoted, verified and granted, and made since the last resume.
ImplementsPromotion == P!PSpec
=============================================================================
