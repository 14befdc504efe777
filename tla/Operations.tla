----------------------------- MODULE Operations -----------------------------
(***************************************************************************)
(* The production-operations pipeline: the worker's handlers of            *)
(* apps/worker/src/operations_runtime.rs, the loop of main.rs that runs    *)
(* them from the job queue, the administrator's calls of crates/nopager-db *)
(* (approve, reject, pause, resume, safety mode), and the first stages of  *)
(* the repair pipeline, which a resumed incident enters.                   *)
(*                                                                         *)
(* One project with one protected container and one health check, and no   *)
(* GitHub or Vercel integration.  Handlers run on several worker processes *)
(* at once and touch the database one statement or transaction at a time:  *)
(* each such step is an action, and between two steps anything may happen. *)
(* JobQueue is the queue; RestartOnce stands for the runtime helper, which *)
(* RuntimeHelper shows to implement it; an action's id is the helper's     *)
(* request id.                                                             *)
(*                                                                         *)
(* Abstracted: evidence, prompts and audit records (except the one the     *)
(* cooldown reads); the model's answer, which is any of its actions; time: *)
(* the five minutes of a cooldown end in an action of their own.           *)
(***************************************************************************)
EXTENDS Naturals, IncidentStates, Policy

CONSTANTS
  Incidents,    \* incidents the project's health check may open
  Workers,      \* worker processes
  NameOf,       \* their worker ids
  Attempts,     \* Attempts[k]: max_attempts of jobs of kind k
  Required,     \* successful checks that count as a recovery, 2 or 3
  MaxResumes,   \* bound: resumes of one incident
  Tries,        \* requests to the helper, each used once
  Faults        \* what may go wrong: "error", statements fail; "crash",
                \* processes die

Kind == {"context", "plan", "execute", "verify", "diagnose", "repair", "build"}

ASSUME OperationsAssumption ==
  /\ Attempts \in [Kind -> Nat \ {0}]
  /\ Attempts["execute"] = 1 /\ Attempts["verify"] = 1
  /\ Required \in {2, 3}
  /\ MaxResumes \in Nat
  /\ Faults \subseteq {"error", "crash"}

\* A job's idempotency key: the incident, the kind of job, and what tells apart
\* the jobs of that kind (the number of the check, of the resume, of the
\* repair attempt).
Numbers(k) ==
  IF k = "verify" THEN 0..(Required - 1)
  ELSE IF k \in {"diagnose", "repair", "build"} THEN 1..MaxResumes
  ELSE {0}

Jobs == {j \in Incidents \X Kind \X (0..(MaxResumes + Required)) :
           j[3] \in Numbers(j[2])}

MaxAttempts == [j \in Jobs |-> Attempts[j[2]]]

VARIABLES
  incident,   \* incident[i]: its state
  action,     \* action[i]: its operations_actions row, unique per incident
  attempts,   \* attempts[i]: repair attempts made, and the current one if any
  project,    \* the project's safety mode and its Kill Switch
  cooling,    \* incidents whose restart the audit log has as a success in the
              \* last five minutes
  job,        \* the queue
  lease,      \* what each worker is running
  pc,         \* where its handler stands
  work,       \* what the handler has read, in particular its IncidentWork
  tries, phase, vouched, refused,   \* the runtime helper (RestartOnce)
  granted,    \* history: incidents whose restart was approved or allowed
  passed      \* history: passed[i]: checks passed since the last failed one

queueVars  == <<job, lease>>
helperVars == <<tries, phase, vouched, refused>>
ghostVars  == <<granted, passed>>
dataVars   == <<incident, action, attempts, project, cooling>>

vars == <<dataVars, queueVars, pc, work, helperVars, ghostVars>>

Q == INSTANCE JobQueue
RO == INSTANCE RestartOnce WITH Reqs <- Incidents

ActionStatus ==
  {"none", "PLANNED", "APPROVAL_REQUIRED", "BLOCKED", "REJECTED", "RUNNING",
   "EXECUTED", "FAILED_CLOSED", "AMBIGUOUS", "VERIFICATION_FAILED", "VERIFIED"}

Decision == PolicyDecision \union {"none", "approved", "rejected"}

Point ==
  Kind \union
  {"idle", "ok", "err", "escalate", "escalate.cas",
   "context.collect", "context.enqueue",
   "plan.start", "plan.model", "plan.propose", "plan.policy", "plan.persist",
   "plan.allow", "plan.enqueue", "plan.require", "plan.wait", "plan.block",
   "plan.pause",
   "execute.block", "execute.pause", "execute.load", "execute.claim",
   "execute.call", "execute.answer", "execute.executed", "execute.audit",
   "execute.verify", "execute.enqueue", "execute.failClosed",
   "execute.ambiguous",
   "verify.load", "verify.check", "verify.failed", "verify.next",
   "verify.verified", "verify.resolve",
   "diagnose.start", "diagnose.model", "diagnose.attempt", "diagnose.plan",
   "diagnose.enqueue",
   "repair.start", "repair.model", "repair.enqueue",
   "build.pause", "build.test"}

\* The local state of a handler: the incident and the number in its payload, the
\* IncidentWork it read, the policy decision it made, the attempt it is on.
Work == [id : Incidents, n : Nat, state : IncidentState, mode : SafetyMode,
         paused : BOOLEAN, verdict : PolicyDecision]
NoWork == <<>>
Fresh(i, number) ==
  [id |-> i, n |-> number, state |-> "Open", mode |-> "safe", paused |-> FALSE,
   verdict |-> "Block"]

TypeOK ==
  /\ incident \in [Incidents -> IncidentState \union {"absent"}]
  /\ action \in [Incidents -> [status : ActionStatus, decision : Decision]]
  /\ attempts \in [Incidents -> [made : Nat, current : Nat]]
  /\ project \in [mode : SafetyMode, paused : BOOLEAN]
  /\ cooling \subseteq Incidents
  /\ Q!TypeOK
  /\ pc \in [Workers -> Point]
  /\ work \in [Workers -> Work \union {NoWork}]
  /\ RO!ROTypeOK
  /\ granted \subseteq Incidents
  /\ passed \in [Incidents -> Nat]

Init ==
  /\ incident = [i \in Incidents |-> "absent"]
  /\ action = [i \in Incidents |-> [status |-> "none", decision |-> "none"]]
  /\ attempts = [i \in Incidents |-> [made |-> 0, current |-> 0]]
  /\ project \in [mode : SafetyMode, paused : BOOLEAN]
  /\ cooling = {}
  /\ Q!Init
  /\ pc = [w \in Workers |-> "idle"]
  /\ work = [w \in Workers |-> NoWork]
  /\ RO!ROInit
  /\ granted = {}
  /\ passed = [i \in Incidents |-> 0]

-------------------------------------------------------------------------------
(* Steps handlers are made of.                                             *)

Subject(w) == work[w].id

\* A handler at its end has no further use for what it has read.
Kept(record, to) ==
  IF to = "idle" THEN NoWork
  ELSE IF to \in {"ok", "err", "escalate"} THEN Fresh(record.id, 0)
  ELSE record

Goto(w, from, to) ==
  /\ pc[w] = from
  /\ pc' = [pc EXCEPT ![w] = to]
  /\ work' = [work EXCEPT ![w] = Kept(@, to)]

\* Where a handler that has nothing more to do goes: main completes its job, or,
\* when main itself called, looks for the next one.
Return(w) == IF lease[w] = Q!NoLease THEN "idle" ELSE "ok"

\* Where an error takes it: main fails the job, or the process ends.
Fail(w) == IF lease[w] = Q!NoLease THEN "idle" ELSE "err"

\* Regression: a transition that does not compare the state it expects.
BlindTransition(w, from, expected, next, to) ==
  /\ Goto(w, from, to)
  /\ CanTransition(expected, next)
  /\ incident' = [incident EXCEPT ![Subject(w)] = next]
  /\ UNCHANGED <<action, attempts, project, cooling, queueVars, helperVars,
                 ghostVars>>

\* The unique index on open incidents: a closed incident cannot be opened again
\* while another one of the same health check is open.
NoneOpen == \A i \in Incidents : incident[i] \in Closed \union {"absent"}

\* transition_incident: a compare-and-set of the incident's state, with its event
\* and audit record; an error when the state is no longer the expected one.
Transition(w, from, expected, next, to) ==
  /\ pc[w] = from
  /\ IF /\ CanTransition(expected, next)
        /\ incident[Subject(w)] = expected
        /\ incident[Subject(w)] \in Closed => next \in Closed \/ NoneOpen
     THEN incident' = [incident EXCEPT ![Subject(w)] = next] /\ Goto(w, from, to)
     ELSE UNCHANGED incident /\ Goto(w, from, Fail(w))
  /\ UNCHANGED <<action, attempts, project, cooling, queueVars, helperVars,
                 ghostVars>>

EnqueueStep(w, from, kind, n, to) ==
  /\ Goto(w, from, to)
  /\ job' = Q!Enqueued({<<Subject(w), kind, n>>})
  /\ UNCHANGED <<dataVars, lease, helperVars>>

\* mark_operation_status and mark_verification: an unconditional update.
MarkStep(w, from, status, to) ==
  /\ Goto(w, from, to)
  /\ action' = [action EXCEPT ![Subject(w)].status = status]
  /\ UNCHANGED <<incident, attempts, project, cooling, queueVars, helperVars,
                 ghostVars>>

\* A step that only decides where to go on, possibly on what it reads.
Choose(w, from, to) ==
  /\ Goto(w, from, to)
  /\ UNCHANGED <<dataVars, queueVars, helperVars, ghostVars>>

\* escalate_incident: read the state, leave a settled incident alone, otherwise
\* move it from the state that was read.
EscalateRead(w) ==
  LET state == incident[Subject(w)] IN
  /\ pc[w] = "escalate"
  /\ \/ state \in Settled /\ Goto(w, "escalate", Return(w))
     \/ /\ state \notin Settled
        /\ pc' = [pc EXCEPT ![w] = "escalate.cas"]
        /\ work' = [work EXCEPT ![w].state = state]
  /\ UNCHANGED <<dataVars, queueVars, helperVars, ghostVars>>

EscalateMove(w) ==
  Transition(w, "escalate.cas", work[w].state, "Escalated", Return(w))

-------------------------------------------------------------------------------
(* The worker's loop.                                                      *)

\* claim_next, and main's dispatch on the kind of job.
ClaimNext(w) ==
  /\ pc[w] = "idle"
  /\ \E j \in Jobs :
       /\ Q!ClaimNext(w, j)
       /\ pc' = [pc EXCEPT ![w] = j[2]]
       /\ work' = [work EXCEPT ![w] = Fresh(j[1], j[3])]
  /\ UNCHANGED <<dataVars, helperVars, ghostVars>>

CompleteJob(w) ==
  /\ Goto(w, "ok", "idle")
  /\ Q!CompleteJob(w)
  /\ UNCHANGED <<dataVars, helperVars, ghostVars>>

\* After the last attempt, main escalates the incident in a step of its own.
FailJob(w) ==
  /\ Goto(w, "err", IF Q!LastAttempt(w) THEN "escalate" ELSE "idle")
  /\ Q!FailJob(w)
  /\ UNCHANGED <<dataVars, helperVars, ghostVars>>

\* A statement, the model or GitHub fails, possibly after it took effect; the
\* handler returns the error.
StepFails(w) ==
  /\ "error" \in Faults
  /\ lease[w] # Q!NoLease
  /\ pc[w] # "err"
  /\ Goto(w, pc[w], "err")
  /\ UNCHANGED <<dataVars, queueVars, helperVars, ghostVars>>

\* The process dies, or ends on an error of its loop; its job stays RUNNING.
Crash(w) ==
  /\ "crash" \in Faults
  /\ pc[w] # "idle"
  /\ Goto(w, pc[w], "idle")
  /\ lease' = [lease EXCEPT ![w] = Q!NoLease]
  /\ UNCHANGED <<dataVars, job, helperVars, ghostVars>>

\* Every handler starts with incident_work, one query for the incident's state
\* and the project's settings; the state (and for some the Kill Switch) tells
\* where it goes on.  Of what it read the model keeps what a later step uses.
ContextEntry(state) ==
  IF state = "Open" THEN "context.collect"
  ELSE IF state = "CollectingContext" THEN "context.enqueue"
  ELSE "ok"

PlanEntry(state) ==
  IF state = "CollectingContext" THEN "plan.start"
  ELSE IF state = "Diagnosing" THEN "plan.model"
  ELSE "ok"

ExecuteEntry(state, paused) ==
  IF state # "Repairing" THEN "ok"
  ELSE IF paused THEN "execute.block"
  ELSE "execute.load"

VerifyEntry(state) ==
  IF state = "VerifyingProduction" THEN "verify.load" ELSE "ok"

DiagnoseEntry(state) ==
  IF state = "CollectingContext" THEN "diagnose.start"
  ELSE IF state = "Diagnosing" THEN "diagnose.model"
  ELSE "ok"

RepairEntry(state) ==
  IF state = "Planning" THEN "repair.start"
  ELSE IF state = "Repairing" THEN "repair.model"
  ELSE "ok"

\* An attempt for an incident without a commit ends in an error.
BuildEntry(state, paused) ==
  IF paused THEN "build.pause"
  ELSE IF state = "Repairing" THEN "build.test"
  ELSE IF state = "Testing" THEN "err"
  ELSE "ok"

Entry(kind, state, paused) ==
  CASE kind = "context"  -> ContextEntry(state)
    [] kind = "plan"     -> PlanEntry(state)
    [] kind = "execute"  -> ExecuteEntry(state, paused)
    [] kind = "verify"   -> VerifyEntry(state)
    [] kind = "diagnose" -> DiagnoseEntry(state)
    [] kind = "repair"   -> RepairEntry(state)
    [] kind = "build"    -> BuildEntry(state, paused)

ReadWork(w) ==
  LET state == incident[Subject(w)]
      to    == Entry(pc[w], state, project.paused)
      seen  == CASE to \in {"plan.start", "plan.model"} ->
                      [work[w] EXCEPT !.mode = project.mode, !.paused = project.paused]
                 [] to = "build.pause" -> [work[w] EXCEPT !.state = state]
                 [] OTHER -> work[w]
  IN
  /\ pc[w] \in Kind
  /\ pc' = [pc EXCEPT ![w] = to]
  /\ work' = [work EXCEPT ![w] = Kept(seen, to)]
  /\ UNCHANGED <<dataVars, queueVars, helperVars, ghostVars>>

-------------------------------------------------------------------------------
(* process_context.                                                        *)

CollectContext(w) ==
  Transition(w, "context.collect", "Open", "CollectingContext", "context.enqueue")

EnqueuePlan(w) ==
  /\ EnqueueStep(w, "context.enqueue", "plan", 0, "ok")
  /\ UNCHANGED ghostVars

-------------------------------------------------------------------------------
(* process_plan and plan_container_restart.                                *)

StartReasoning(w) ==
  Transition(w, "plan.start", "CollectingContext", "Diagnosing", "plan.model")

\* The answer is a restart of the configured container, or anything that ends
\* in an escalation (observe, escalate, a restart without external health
\* verification, deployment recovery on a project that has none).
PlanOperations(w) ==
  \E to \in {"plan.propose", "escalate"} : Choose(w, "plan.model", to)

Propose(w) == Transition(w, "plan.propose", "Diagnosing", "Planning", "plan.policy")

\* restart_cooldown_clear: no incident had a successful restart recently.
CooldownClear(i) == cooling = {}

\* The policy sees the mode and the Kill Switch as read when the job started.
\* Restarts are enabled in the environment of the process, or not.
ConsultPolicy(w) ==
  \E enabled \in BOOLEAN :
    LET verdict == DecideOperations("Low", TRUE,
                     [mode |-> work[w].mode, kill |-> work[w].paused,
                      target |-> TRUE, enabled |-> enabled,
                      verification |-> TRUE,
                      cooldown |-> CooldownClear(Subject(w))])
    IN
    /\ pc[w] = "plan.policy"
    /\ pc' = [pc EXCEPT ![w] = "plan.persist"]
    /\ work' = [work EXCEPT ![w].verdict = verdict]
    /\ granted' = IF verdict = "Allow" THEN granted \union {Subject(w)} ELSE granted
    /\ UNCHANGED <<dataVars, queueVars, helperVars, passed>>

\* INSERT .. ON CONFLICT (incident_id) DO NOTHING: an existing row is kept.
PersistAction(w) ==
  /\ Goto(w, "plan.persist",
          CASE work[w].verdict = "Allow"           -> "plan.allow"
            [] work[w].verdict = "RequireApproval" -> "plan.require"
            [] work[w].verdict = "Block"           -> "plan.block")
  /\ action' = [action EXCEPT ![Subject(w)] =
                  IF @.status = "none"
                  THEN [status |-> "PLANNED", decision |-> work[w].verdict]
                  ELSE @]
  /\ UNCHANGED <<incident, attempts, project, cooling, queueVars, helperVars,
                 ghostVars>>

AllowAction(w) == Transition(w, "plan.allow", "Planning", "Repairing", "plan.enqueue")

EnqueueExecute(w) ==
  /\ EnqueueStep(w, "plan.enqueue", "execute", 0, "ok")
  /\ UNCHANGED ghostVars

\* Regression: an action that needs approval is carried out like an allowed one.
ApprovalSkipped(w) == MarkStep(w, "plan.require", "PLANNED", "plan.allow")

\* Regression: the incident waits before its action does.
WaitBeforeMark(w) ==
  Transition(w, "plan.require", "Planning", "WaitingApproval", "plan.wait")

RequireApproval(w) == MarkStep(w, "plan.require", "APPROVAL_REQUIRED", "plan.wait")

WaitForApproval(w) == Transition(w, "plan.wait", "Planning", "WaitingApproval", "ok")

BlockAction(w) ==
  MarkStep(w, "plan.block", "BLOCKED",
           IF work[w].paused THEN "plan.pause" ELSE "escalate")

PausePlan(w) == Transition(w, "plan.pause", "Planning", "Paused", "ok")

Plan(w) ==
  \/ StartReasoning(w) \/ PlanOperations(w) \/ Propose(w) \/ ConsultPolicy(w)
  \/ PersistAction(w) \/ AllowAction(w) \/ EnqueueExecute(w)
  \/ RequireApproval(w) \/ WaitForApproval(w) \/ BlockAction(w) \/ PausePlan(w)

-------------------------------------------------------------------------------
(* process_execute, fail_closed_helper_execution, begin_verification.      *)

BlockExecution(w) == MarkStep(w, "execute.block", "BLOCKED", "execute.pause")

PauseExecution(w) == Transition(w, "execute.pause", "Repairing", "Paused", "ok")

LoadAction(w) ==
  LET status == action[Subject(w)].status IN
  Choose(w, "execute.load",
         CASE status = "EXECUTED" -> "execute.verify"
           [] status = "RUNNING"  -> "execute.ambiguous"
           [] status = "PLANNED"  -> "execute.claim"
           [] OTHER               -> "ok")

\* UPDATE .. SET status = 'RUNNING' WHERE status = 'PLANNED'.
ClaimAction(w) ==
  /\ pc[w] = "execute.claim"
  /\ IF action[Subject(w)].status = "PLANNED"
     THEN MarkStep(w, "execute.claim", "RUNNING", "execute.call")
     ELSE Choose(w, "execute.claim", "ok")

\* The request leaves for the helper, or the client cannot even be configured.
CallHelper(w) ==
  \/ /\ Goto(w, "execute.call", "execute.answer")
     /\ \E t \in Tries : RO!Try(Subject(w), t)
     /\ UNCHANGED <<dataVars, queueVars, ghostVars>>
  \/ Choose(w, "execute.call", "execute.failClosed")

\* Regression: a lost answer is asked for again.
HelperAnswersRetrying(w) ==
  /\ \/ Goto(w, "execute.answer", "execute.executed") /\ RO!Vouch(Subject(w))
     \/ Goto(w, "execute.answer", "execute.failClosed") /\ RO!Refuse(Subject(w))
     \/ Goto(w, "execute.answer", "execute.call") /\ UNCHANGED helperVars
  /\ UNCHANGED <<dataVars, queueVars, ghostVars>>

\* Success, "not started", or anything else: a lost answer may mean anything.
HelperAnswers(w) ==
  /\ \/ Goto(w, "execute.answer", "execute.executed") /\ RO!Vouch(Subject(w))
     \/ Goto(w, "execute.answer", "execute.failClosed") /\ RO!Refuse(Subject(w))
     \/ Goto(w, "execute.answer", "execute.ambiguous") /\ UNCHANGED helperVars
  /\ UNCHANGED <<dataVars, queueVars, ghostVars>>

MarkExecuted(w)   == MarkStep(w, "execute.executed", "EXECUTED", "execute.audit")
MarkFailClosed(w) == MarkStep(w, "execute.failClosed", "FAILED_CLOSED", "escalate")

\* Regression: what is not known to have happened is taken not to have happened.
AmbiguousIsNotStarted(w) ==
  MarkStep(w, "execute.ambiguous", "FAILED_CLOSED", "escalate")

\* Regression: an ambiguous outcome is recorded and nobody is told.
AmbiguousLeftAlone(w) == MarkStep(w, "execute.ambiguous", "AMBIGUOUS", "ok")

MarkAmbiguous(w)  == MarkStep(w, "execute.ambiguous", "AMBIGUOUS", "escalate")

AuditExecution(w) ==
  /\ Goto(w, "execute.audit", "execute.verify")
  /\ cooling' = cooling \union {Subject(w)}
  /\ UNCHANGED <<incident, action, attempts, project, queueVars, helperVars,
                 ghostVars>>

BeginVerification(w) ==
  Transition(w, "execute.verify", "Repairing", "VerifyingProduction",
             "execute.enqueue")

EnqueueVerify(w) ==
  /\ EnqueueStep(w, "execute.enqueue", "verify", 0, "ok")
  /\ UNCHANGED ghostVars

Execute(w) ==
  \/ BlockExecution(w) \/ PauseExecution(w) \/ LoadAction(w) \/ ClaimAction(w)
  \/ CallHelper(w) \/ HelperAnswers(w)
  \/ MarkExecuted(w) \/ MarkFailClosed(w) \/ MarkAmbiguous(w)
  \/ AuditExecution(w) \/ BeginVerification(w) \/ EnqueueVerify(w)

-------------------------------------------------------------------------------
(* process_verify.                                                         *)

LoadExecuted(w) ==
  Choose(w, "verify.load",
         IF action[Subject(w)].status = "EXECUTED" THEN "verify.check"
         ELSE "escalate")

\* Regression: one success fewer than required.
EnoughChecksOffByOne(n) == n + 2 >= Required

EnoughChecks(n) == n + 1 >= Required

\* External HTTP and container state, together: both are as required, or not.
CheckRecovery(w) ==
  /\ \/ /\ Goto(w, "verify.check",
              IF EnoughChecks(work[w].n) THEN "verify.verified" ELSE "verify.next")
        /\ passed' = [passed EXCEPT ![Subject(w)] = @ + 1]
     \/ /\ Goto(w, "verify.check", "verify.failed")
        /\ passed' = [passed EXCEPT ![Subject(w)] = 0]
  /\ UNCHANGED <<dataVars, queueVars, helperVars, granted>>

EnqueueNextCheck(w) ==
  /\ EnqueueStep(w, "verify.next", "verify", work[w].n + 1, "ok")
  /\ UNCHANGED ghostVars

\* Regression: a failed check is recorded and repeated.
RecheckAfterMark(w) ==
  MarkStep(w, "verify.failed", "VERIFICATION_FAILED", "verify.check")

MarkFailed(w)   == MarkStep(w, "verify.failed", "VERIFICATION_FAILED", "escalate")
MarkVerified(w) == MarkStep(w, "verify.verified", "VERIFIED", "verify.resolve")

Resolve(w) ==
  Transition(w, "verify.resolve", "VerifyingProduction", "Resolved", "ok")

Verify(w) ==
  \/ LoadExecuted(w) \/ CheckRecovery(w) \/ EnqueueNextCheck(w)
  \/ MarkFailed(w) \/ MarkVerified(w) \/ Resolve(w)

-------------------------------------------------------------------------------
(* The repair pipeline (legacy_pipeline.rs) on an incident without a       *)
(* commit: process_diagnosis, process_repair and process_build_test.       *)

StartDiagnosis(w) ==
  Transition(w, "diagnose.start", "CollectingContext", "Diagnosing", "diagnose.model")

Diagnose(w) == Choose(w, "diagnose.model", "diagnose.attempt")

\* create_repair_attempt: the current attempt if there is one, or a new one.
CreateAttempt(w) ==
  LET i == Subject(w)
      a == IF attempts[i].current # 0 THEN attempts[i].current
           ELSE attempts[i].made + 1
  IN
  /\ pc[w] = "diagnose.attempt"
  /\ a <= MaxResumes
  /\ pc' = [pc EXCEPT ![w] = "diagnose.plan"]
  /\ work' = [work EXCEPT ![w].n = a]
  /\ attempts' = [attempts EXCEPT ![i] =
                    [made |-> IF a > @.made THEN a ELSE @.made, current |-> a]]
  /\ UNCHANGED <<incident, action, project, cooling, queueVars, helperVars,
                 ghostVars>>

PlanRepair(w) ==
  Transition(w, "diagnose.plan", "Diagnosing", "Planning", "diagnose.enqueue")

EnqueueRepair(w) ==
  /\ EnqueueStep(w, "diagnose.enqueue", "repair", work[w].n, "ok")
  /\ UNCHANGED ghostVars

StartRepair(w) ==
  Transition(w, "repair.start", "Planning", "Repairing", "repair.model")

\* A diagnosis of high risk is escalated, any other gets a proposal.
ProposeRepair(w) ==
  \E to \in {"repair.enqueue", "escalate"} : Choose(w, "repair.model", to)

EnqueueBuild(w) ==
  /\ EnqueueStep(w, "repair.enqueue", "build", work[w].n, "ok")
  /\ UNCHANGED ghostVars

\* The Kill Switch takes the incident from whatever state was read to PAUSED.
PauseBuild(w) == Transition(w, "build.pause", work[w].state, "Paused", "ok")

StartTesting(w) == Transition(w, "build.test", "Repairing", "Testing", "err")

Repair(w) ==
  \/ StartDiagnosis(w) \/ Diagnose(w) \/ CreateAttempt(w) \/ PlanRepair(w)
  \/ EnqueueRepair(w) \/ StartRepair(w) \/ ProposeRepair(w) \/ EnqueueBuild(w)
  \/ PauseBuild(w) \/ StartTesting(w)

-------------------------------------------------------------------------------
(* The health check, the administrator and the helper.                     *)

\* open_incident_tx: at most one open incident of the same health check.
OpenIncident(i) ==
  /\ incident[i] = "absent"
  /\ NoneOpen
  /\ incident' = [incident EXCEPT ![i] = IF project.paused THEN "Paused" ELSE "Open"]
  /\ job' = IF project.paused THEN job ELSE Q!Enqueued({<<i, "context", 0>>})
  /\ UNCHANGED <<action, attempts, project, cooling, lease, pc, work, helperVars,
                 ghostVars>>

AwaitsApproval(i) ==
  action[i].status = "APPROVAL_REQUIRED" /\ incident[i] = "WaitingApproval"

Approvable(i) == ~project.paused /\ AwaitsApproval(i)

\* approve_incident, the branch for an incident with an operations action: one
\* transaction that holds the locks of action, incident and project.
Approve(i) ==
  /\ Approvable(i)
  /\ action' = [action EXCEPT ![i] = [status |-> "PLANNED", decision |-> "approved"]]
  /\ incident' = [incident EXCEPT ![i] = "Repairing"]
  /\ job' = Q!Enqueued({<<i, "execute", 0>>})
  /\ granted' = granted \union {i}
  /\ UNCHANGED <<attempts, project, cooling, lease, pc, work, helperVars, passed>>

\* Regression: any proposed action can be rejected, at any time.
RejectableAnytime(i) == action[i].status # "none"

\* reject_incident looks at the same rows, and not at the Kill Switch.
Rejectable(i) == AwaitsApproval(i)

Reject(i) ==
  /\ Rejectable(i)
  /\ action' = [action EXCEPT ![i] = [status |-> "REJECTED", decision |-> "rejected"]]
  /\ incident' = [incident EXCEPT ![i] = "Cancelled"]
  /\ UNCHANGED <<attempts, project, cooling, queueVars, pc, work, helperVars,
                 ghostVars>>

CooldownOver(i) ==
  /\ i \in cooling
  /\ cooling' = cooling \ {i}
  /\ UNCHANGED <<incident, action, attempts, project, queueVars, pc, work,
                 helperVars, ghostVars>>

SetSafetyMode ==
  /\ \E mode \in SafetyMode \ {project.mode} : project' = [project EXCEPT !.mode = mode]
  /\ UNCHANGED <<incident, action, attempts, cooling, queueVars, pc, work,
                 helperVars, ghostVars>>

Pause ==
  /\ ~project.paused
  /\ project' = [project EXCEPT !.paused = TRUE]
  /\ UNCHANGED <<incident, action, attempts, cooling, queueVars, pc, work,
                 helperVars, ghostVars>>

PausedIncidents == {i \in Incidents : incident[i] = "Paused"}

\* Each resume of an incident has a diagnose job of its own.
ResumeJobs(i) == {<<i, "diagnose", n>> : n \in
                    {m \in 1..MaxResumes :
                       /\ job[<<i, "diagnose", m>>].status = "absent"
                       /\ \A k \in 1..(m - 1) :
                            job[<<i, "diagnose", k>>].status # "absent"}}

\* set_protection_paused(false): every paused incident is sent back to context
\* collection, without an attempt, and handed to the repair pipeline.
Resume ==
  /\ project.paused
  /\ \A i \in PausedIncidents : ResumeJobs(i) # {}
  /\ project' = [project EXCEPT !.paused = FALSE]
  /\ incident' = [i \in Incidents |->
                    IF i \in PausedIncidents THEN "CollectingContext" ELSE incident[i]]
  /\ attempts' = [i \in Incidents |->
                    IF i \in PausedIncidents THEN [attempts[i] EXCEPT !.current = 0]
                    ELSE attempts[i]]
  /\ job' = Q!Enqueued(UNION {ResumeJobs(i) : i \in PausedIncidents})
  /\ UNCHANGED <<action, cooling, lease, pc, work, helperVars, ghostVars>>

\* The helper gets the container restarted, whether anyone waits or not.
HelperRestarts(i) ==
  /\ RO!Issue(i) \/ RO!Restarted(i)
  /\ UNCHANGED <<dataVars, queueVars, pc, work, ghostVars>>

WorkerStep(w) ==
  \/ ClaimNext(w) \/ ReadWork(w)
  \/ Plan(w) \/ Execute(w) \/ Verify(w) \/ Repair(w)
  \/ CollectContext(w) \/ EnqueuePlan(w)
  \/ EscalateRead(w) \/ EscalateMove(w)
  \/ CompleteJob(w) \/ FailJob(w)

Next ==
  \/ \E w \in Workers : WorkerStep(w) \/ StepFails(w) \/ Crash(w)
  \/ \E i \in Incidents : \/ OpenIncident(i) \/ Approve(i) \/ Reject(i)
                          \/ HelperRestarts(i) \/ CooldownOver(i)
  \/ SetSafetyMode \/ Pause \/ Resume

Spec == Init /\ [][Next]_vars

-------------------------------------------------------------------------------
(* Properties.                                                             *)

\* An action is sent to the helper at most once: no retry, crash, duplicate job,
\* resumed or replanned incident sends it again.
SentAtMostOnce == \A i \in Incidents : \A t, u \in tries[i] : t = u

\* Nothing is sent that was not approved, or allowed by the policy, before.
SentOnlyIfGranted == \A i \in Incidents : tries[i] # {} => i \in granted

\* What the action's row says of the restart is true of the container: failed
\* closed means it was not restarted, executed or later that it was.
RowIsTruthful ==
  \A i \in Incidents :
    /\ action[i].status = "FAILED_CLOSED" => phase[i] = "untouched"
    /\ action[i].status \in {"EXECUTED", "VERIFIED", "VERIFICATION_FAILED"} =>
         phase[i] = "done"

\* A resolved incident had its container restarted and then passed the required
\* number of checks with no failed one in between.
ResolvedMeansRecovered ==
  \A i \in Incidents :
    incident[i] = "Resolved" =>
      phase[i] = "done" /\ passed[i] >= Required

\* The incident was never handed to the repair pipeline, which knows nothing of
\* its action and may move the incident under the action's feet.
OperationsOnly(i) == attempts[i].made = 0

\* An incident waiting for approval can be approved or rejected: its action is
\* waiting too, although the two rows are written one after the other.
WaitingIsDecidable ==
  \A i \in Incidents :
    OperationsOnly(i) /\ incident[i] = "WaitingApproval" => AwaitsApproval(i)

\* An action the administrator rejected was not sent and will not be.
RejectedIsNotSent ==
  \A i \in Incidents :
    OperationsOnly(i) /\ action[i].decision = "rejected" => tries[i] = {}

\* Once the outcome of a restart is recorded no late or repeated step of the
\* pipeline rewrites it.
OutcomeIsFinal ==
  [][\A i \in Incidents :
       /\ OperationsOnly(i)
       /\ action[i].status \in {"FAILED_CLOSED", "AMBIGUOUS",
                                "VERIFICATION_FAILED", "VERIFIED"}
       => action'[i] = action[i]]_vars

\* A closed incident is not taken up again, except that the Kill Switch may turn
\* it into a paused one.
ClosedOrPaused ==
  [][\A i \in Incidents :
       incident[i] \in Closed => incident'[i] \in Closed \union {"Paused"}]_vars

\* Workers keep draining the queue; nothing is assumed of administrators, of the
\* health check, or of the helper beyond its answering or timing out.
FairSpec == Spec /\ \A w \in Workers : WF_vars(WorkerStep(w))

\* An incident the worker is to move on: not waiting for a decision, not paused,
\* not closed.
InProgress(i) ==
  incident[i] \notin Closed \union {"absent", "WaitingApproval", "Paused"}

\* When no statement fails and no process dies, every incident is brought to an
\* end, to a decision of the administrator, or to a pause.
NoneStuck == \A i \in Incidents : InProgress(i) ~> ~InProgress(i)
=============================================================================
