--------------------------- MODULE OperationsProofs ---------------------------
(***************************************************************************)
(* Proofs about Operations: its type invariant, its safety invariants, two *)
(* of its action properties, and that it implements the job queue, for any *)
(* number of incidents, workers, attempts of the retried jobs and checks.  *)
(*                                                                         *)
(* The invariant IInv is built in layers, each proved from those below it: *)
(*   Basic   the types, the queue's own invariant (JobQueueProofs), and    *)
(*           that a worker inside a handler holds the lease of that job;   *)
(*   Grants  only a granted action has an execute job;                     *)
(*   Once    before the call of the helper nothing was sent;               *)
(*   Truth   what the action's row says is true of the container;          *)
(*   Chain   the checks of an incident follow one another;                 *)
(*   Alone   an incident the repair pipeline was never handed moves in     *)
(*           step with its action.                                         *)
(*                                                                         *)
(* The steps of the model are summarised first: which action takes a       *)
(* worker from where to where (the lemmas *Flow, and CameFrom, which reads *)
(* them backwards), and who writes which row (IncidentMoves, ActionMoves,  *)
(* HelperMoves, OthersMove, NewJobs, JobsKept). The layers are proved from *)
(* these summaries and seldom open an action again.                        *)
(***************************************************************************)
EXTENDS Operations, TLAPS

QP == INSTANCE JobQueueProofs

-------------------------------------------------------------------------------
(* The parts of the handlers.                                              *)

ExecuteJob(i)   == <<i, "execute", 0>>
VerifyJob(i, n) == <<i, "verify", n>>
Enqueued(j)     == job[j].status # "absent"

ContextPoints == {"context", "context.collect", "context.enqueue"}
PlanPoints ==
  {"plan", "plan.start", "plan.model", "plan.propose", "plan.policy", "plan.persist",
   "plan.allow", "plan.enqueue", "plan.require", "plan.wait", "plan.block",
   "plan.pause"}
BeforeCall ==
  {"execute", "execute.block", "execute.pause", "execute.load", "execute.claim",
   "execute.call"}
AfterCall ==
  {"execute.answer", "execute.executed", "execute.audit", "execute.verify",
   "execute.enqueue", "execute.failClosed", "execute.ambiguous"}
ExecutePoints == BeforeCall \union AfterCall
BeforeCheck == {"verify", "verify.load", "verify.check"}
AfterCheck  == {"verify.failed", "verify.next", "verify.verified", "verify.resolve"}
VerifyPoints == BeforeCheck \union AfterCheck
DiagnosePoints ==
  {"diagnose", "diagnose.start", "diagnose.model", "diagnose.attempt",
   "diagnose.plan", "diagnose.enqueue"}
RepairPoints == {"repair", "repair.start", "repair.model", "repair.enqueue"}
BuildPoints  == {"build", "build.pause", "build.test"}

PointSets == {ContextPoints, PlanPoints, ExecutePoints, VerifyPoints, DiagnosePoints,
              RepairPoints, BuildPoints}

\* Where a handler, or its failure, hands back to the worker's loop.
Ends == {"idle", "ok", "err", "escalate"}

At(w, i, points) == pc[w] \in points /\ work[w].id = i

-------------------------------------------------------------------------------
(* The invariant.                                                          *)

\* The worker holds the lease of the job whose handler it is in.
Runs(w, kind) ==
  /\ lease[w] # Q!NoLease
  /\ lease[w].job[1] = work[w].id
  /\ lease[w].job[2] = kind

Agrees(w) ==
  /\ pc[w] = "idle" => lease[w] = Q!NoLease
  /\ pc[w] # "idle" => work[w] \in Work
  /\ pc[w] \in {"ok", "err"} => lease[w] # Q!NoLease
  /\ pc[w] = "escalate.cas" => work[w].state \notin Settled
  /\ pc[w] \in ContextPoints  => Runs(w, "context")
  /\ pc[w] \in PlanPoints     => Runs(w, "plan")
  /\ pc[w] \in ExecutePoints  => Runs(w, "execute")
  /\ pc[w] \in VerifyPoints   => Runs(w, "verify") /\ lease[w].job[3] = work[w].n
  /\ pc[w] \in DiagnosePoints => Runs(w, "diagnose")
  /\ pc[w] \in RepairPoints   => Runs(w, "repair")
  /\ pc[w] \in BuildPoints    => Runs(w, "build")
  /\ lease[w] # Q!NoLease => lease[w].attempt > 0

Agreement == \A w \in Workers : Agrees(w)

\* Nothing is enqueued for, and nobody works on, an incident that was not opened.
Present ==
  /\ \A j \in Jobs : Enqueued(j) => incident[j[1]] # "absent"
  /\ \A w \in Workers : pc[w] # "idle" => incident[work[w].id] # "absent"

Basic == TypeOK /\ QP!IInv /\ Agreement /\ Present

\* An action is granted before its execute job exists.
Grants ==
  /\ \A w \in Workers :
       \/ pc[w] \in {"plan.allow", "plan.enqueue"}
       \/ pc[w] = "plan.persist" /\ work[w].verdict = "Allow"
       => work[w].id \in granted
  /\ \A i \in Incidents : Enqueued(ExecuteJob(i)) => i \in granted
  /\ SentOnlyIfGranted

\* Nothing is sent before the execute job is claimed, nor by the worker that has
\* claimed it before it calls the helper.
Once ==
  /\ \A i \in Incidents : job[ExecuteJob(i)].attempt = 0 => tries[i] = {}
  /\ \A w \in Workers : pc[w] \in BeforeCall => tries[work[w].id] = {}
  /\ SentAtMostOnce

Outcomes == {"FAILED_CLOSED", "AMBIGUOUS", "VERIFICATION_FAILED", "VERIFIED"}

\* The container was not restarted and, the helper having refused, will not be.
NotStarted(i) == phase[i] = "untouched" /\ (tries[i] = {} \/ i \in refused)

RowTruth(i) ==
  /\ phase[i] # "untouched" => tries[i] # {}
  /\ i \in refused => phase[i] = "untouched"
  /\ action[i].status = "FAILED_CLOSED" => NotStarted(i)
  /\ action[i].status \in {"EXECUTED", "VERIFIED", "VERIFICATION_FAILED"} =>
       phase[i] = "done"
  /\ job[ExecuteJob(i)].attempt = 0 =>
       /\ action[i].status \notin Outcomes
       /\ \A n \in 0..(Required - 1) : ~Enqueued(VerifyJob(i, n))

\* Points reached only with a container that was restarted.
Executed ==
  {"execute.executed", "execute.audit", "execute.verify", "execute.enqueue",
   "verify.check"} \union AfterCheck

StepTruth(w) ==
  LET i == work[w].id IN
  /\ pc[w] \in ExecutePoints =>
       /\ action[i].status \notin Outcomes
       /\ \A n \in 0..(Required - 1) : ~Enqueued(VerifyJob(i, n))
  /\ pc[w] = "execute.failClosed" => NotStarted(i)
  /\ pc[w] \in Executed => phase[i] = "done"

Truth ==
  /\ \A i \in Incidents : RowTruth(i)
  /\ \A w \in Workers : StepTruth(w)

LastChecked(i, n) ==
  \A m \in 0..(Required - 1) : m > n => ~Enqueued(VerifyJob(i, m))

\* The verify jobs of an incident are enqueued in order, each when the checks
\* before it have passed, and only the last one may still wait to be claimed.
RowChain(i) ==
  /\ \A m, n \in 0..(Required - 1) :
       m < n /\ Enqueued(VerifyJob(i, n)) => Enqueued(VerifyJob(i, m))
  /\ \A n \in 0..(Required - 1) :
       Enqueued(VerifyJob(i, n)) /\ job[VerifyJob(i, n)].attempt = 0 =>
         passed[i] >= n /\ LastChecked(i, n)

StepChain(w) ==
  LET i == work[w].id
      n == work[w].n
  IN
  /\ pc[w] \in VerifyPoints => LastChecked(i, n)
  /\ pc[w] \in BeforeCheck => passed[i] >= n
  /\ pc[w] = "verify.next" => passed[i] >= n + 1
  /\ pc[w] \in {"verify.verified", "verify.resolve"} =>
       passed[i] >= Required /\ n = Required - 1

\* Nobody is about to run a check that could still fail.
Recovered(i) ==
  /\ phase[i] = "done"
  /\ passed[i] >= Required
  /\ job[VerifyJob(i, Required - 1)].attempt > 0
  /\ \A w \in Workers : ~At(w, i, BeforeCheck)

Chain ==
  /\ \A i \in Incidents : RowChain(i)
  /\ \A w \in Workers : StepChain(w)
  /\ \A i \in Incidents : incident[i] = "Resolved" => Recovered(i)

\* Points at which a worker has seen, or made, the incident in the state its
\* handler works in: being planned, executed, or verified.
PlanHeld ==
  {"plan.policy", "plan.persist", "plan.allow", "plan.require", "plan.wait", "plan.block",
   "plan.pause"}
ExecuteHeld == ExecutePoints \ {"execute", "execute.enqueue"}
VerifyHeld  == (VerifyPoints \ {"verify"}) \union {"execute.enqueue"}

Checking == {"verify.check", "verify.failed", "verify.next", "verify.verified"}

Late == {"Repairing", "VerifyingProduction", "Resolved", "Escalated"}

\* Points of the repair pipeline after its first write, the attempt's row.
Handed == {"diagnose.plan", "diagnose.enqueue"} \union RepairPoints \union BuildPoints

Unhanded(i) ==
  /\ \A j \in Jobs : j[1] = i /\ j[2] \in {"repair", "build"} => ~Enqueued(j)
  /\ \A w \in Workers : ~At(w, i, Handed)

StepAlone(w, i) ==
  /\ At(w, i, PlanHeld) =>
       /\ incident[i] \in {"Planning", "Escalated"}
       /\ action[i].status \notin Outcomes
       /\ \A v \in Workers : ~At(v, i, ExecuteHeld \union VerifyHeld)
  /\ At(w, i, ExecuteHeld) => incident[i] \in {"Repairing", "Escalated"}
  /\ At(w, i, VerifyHeld) => incident[i] \in {"VerifyingProduction", "Escalated"}
  /\ At(w, i, {"plan.wait"}) /\ incident[i] = "Planning" =>
       action[i].status = "APPROVAL_REQUIRED"
  /\ At(w, i, Checking) => action[i].status = "EXECUTED"

RowAlone(i) ==
  /\ incident[i] = "WaitingApproval" => action[i].status = "APPROVAL_REQUIRED"
  /\ tries[i] # {} \/ action[i].status \in Outcomes => incident[i] \in Late
  /\ action[i].decision = "rejected" =>
       tries[i] = {} /\ incident[i] = "Cancelled" /\ action[i].status = "REJECTED"

Alone ==
  \A i \in Incidents : OperationsOnly(i) =>
    Unhanded(i) /\ RowAlone(i) /\ \A w \in Workers : StepAlone(w, i)

IInv == Basic /\ Grants /\ Once /\ Truth /\ Chain /\ Alone

-------------------------------------------------------------------------------
(* The queue, and one worker at a time.                                    *)

\* The pipeline's queue is typed exactly as the job queue proved about on its own.
LEMMA QueueTypes == Q!TypeOK <=> QP!TypeOK
  BY DEF QP!TypeOK, Q!TypeOK, QP!Names, Q!Names, QP!Status, Q!Status, Q!NoLease,
         QP!NoLease, Q!NoName, QP!NoName

\* What the queue's invariant says of the pipeline's workers: a job is leased to one
\* of them, it is running at the attempt leased, and attempts stay within their limit.
LEMMA QueueFacts ==
  ASSUME QP!IInv
  PROVE  /\ \A v, w \in Workers :
              /\ lease[v] # Q!NoLease /\ lease[w] # Q!NoLease
              /\ lease[v].job = lease[w].job
              => v = w
         /\ \A w \in Workers : lease[w] # Q!NoLease =>
              /\ lease[w].job \in Jobs
              /\ job[lease[w].job].status = "RUNNING"
              /\ job[lease[w].job].attempt = lease[w].attempt
         /\ \A j \in Jobs :
              /\ job[j].attempt <= MaxAttempts[j]
              /\ job[j].status \in {"absent", "PENDING", "RETRY"} =>
                   job[j].attempt < MaxAttempts[j]
  BY DEF QP!IInv, QP!TypeOK, QP!OneRunner, QP!LeaseIsKept, QP!Holds, QP!Live,
         QP!AttemptsBounded, QP!AttemptLeft, QP!NoLease, Q!NoLease

\* A step of worker w: of its program, a failed statement, or the death of its process.
ControlStep(w) ==
  WorkerStep(w) \/ StepFails(w) \/ Crash(w)

Elsewhere(w) ==
  \A v \in Workers \ {w} :
    pc'[v] = pc[v] /\ work'[v] = work[v] /\ lease'[v] = lease[v]

\* A step of one worker leaves the others where they are.
LEMMA OneMoves ==
  ASSUME TypeOK, NEW w \in Workers, ControlStep(w)
  PROVE  Elsewhere(w)
<1>1. CASE Plan(w)
  BY <1>1 DEF Elsewhere, TypeOK, Q!TypeOK, Plan, StartReasoning, PlanOperations, Propose,
     ConsultPolicy, PersistAction, AllowAction, EnqueueExecute, RequireApproval,
     WaitForApproval, BlockAction, PausePlan, Transition, MarkStep, Choose, EnqueueStep, Goto,
     queueVars
<1>2. CASE Execute(w)
  BY <1>2 DEF Elsewhere, TypeOK, Q!TypeOK, Execute, BlockExecution, PauseExecution, LoadAction,
     ClaimAction, CallHelper, HelperAnswers, MarkExecuted, MarkFailClosed, MarkAmbiguous,
     AuditExecution, BeginVerification, EnqueueVerify, Transition, MarkStep, Choose,
     EnqueueStep, Goto, queueVars
<1>3. CASE Verify(w)
  BY <1>3 DEF Elsewhere, TypeOK, Q!TypeOK, Verify, LoadExecuted, CheckRecovery,
     EnqueueNextCheck, MarkFailed, MarkVerified, Resolve, Transition, MarkStep, Choose,
     EnqueueStep, Goto, queueVars
<1>4. CASE Repair(w)
  BY <1>4 DEF Elsewhere, TypeOK, Q!TypeOK, Repair, StartDiagnosis, Diagnose, CreateAttempt,
     PlanRepair, EnqueueRepair, StartRepair, ProposeRepair, EnqueueBuild, PauseBuild,
     StartTesting, Transition, Choose, EnqueueStep, Goto, queueVars
<1>5. CASE CollectContext(w) \/ EnqueuePlan(w) \/ EscalateRead(w) \/ EscalateMove(w)
  BY <1>5 DEF Elsewhere, TypeOK, Q!TypeOK, CollectContext, EnqueuePlan, EscalateRead,
     EscalateMove, Transition, EnqueueStep, Goto, queueVars
<1>6. CASE ClaimNext(w) \/ ReadWork(w) \/ CompleteJob(w) \/ FailJob(w) \/ StepFails(w)
           \/ Crash(w)
  BY <1>6 DEF Elsewhere, TypeOK, Q!TypeOK, ClaimNext, ReadWork, CompleteJob, FailJob,
     StepFails, Crash, Goto, Q!ClaimNext, Q!CompleteJob, Q!FailJob, Q!Release, queueVars
<1> QED BY <1>1, <1>2, <1>3, <1>4, <1>5, <1>6 DEF ControlStep, WorkerStep

\* The queue's assumption holds: every job of the pipeline may be attempted.
LEMMA JobAttempts == QP!AttemptsAssumption
  BY OperationsAssumption DEF QP!AttemptsAssumption, MaxAttempts, Jobs

\* Every step of the pipeline is a step of the job queue, or leaves it alone.
LEMMA QueueStep ==
  ASSUME TypeOK, [Next]_vars PROVE [QP!Next]_(QP!vars)
<1> USE DEF QP!vars
<1>q. ASSUME NEW j, job' = Q!Enqueued({j}), lease' = lease PROVE [QP!Next]_(QP!vars)
  <2>1. QP!Enqueue({j} \intersect Jobs)
    BY <1>q DEF QP!Enqueue, QP!Enqueued, Q!Enqueued, QP!EnqueuedRow, Q!EnqueuedRow
  <2> QED BY <2>1 DEF QP!Next
<1>1. ASSUME NEW w \in Workers, Plan(w) PROVE [QP!Next]_(QP!vars)
  BY <1>1, <1>q DEF Plan, StartReasoning, PlanOperations, Propose,
     ConsultPolicy, PersistAction, AllowAction, EnqueueExecute, RequireApproval,
     WaitForApproval, BlockAction, PausePlan, Transition, MarkStep, Choose, EnqueueStep,
     queueVars
<1>2. ASSUME NEW w \in Workers, Execute(w) PROVE [QP!Next]_(QP!vars)
  BY <1>2, <1>q DEF Execute, BlockExecution, PauseExecution, LoadAction,
     ClaimAction, CallHelper, HelperAnswers, MarkExecuted, MarkFailClosed, MarkAmbiguous,
     AuditExecution, BeginVerification, EnqueueVerify, Transition, MarkStep, Choose,
     EnqueueStep, queueVars
<1>3. ASSUME NEW w \in Workers, Verify(w) PROVE [QP!Next]_(QP!vars)
  BY <1>3, <1>q DEF Verify, LoadExecuted, CheckRecovery,
     EnqueueNextCheck, MarkFailed, MarkVerified, Resolve, Transition, MarkStep, Choose,
     EnqueueStep, queueVars
<1>4. ASSUME NEW w \in Workers, Repair(w) PROVE [QP!Next]_(QP!vars)
  BY <1>4, <1>q DEF Repair, StartDiagnosis, Diagnose, CreateAttempt,
     PlanRepair, EnqueueRepair, StartRepair, ProposeRepair, EnqueueBuild, PauseBuild,
     StartTesting, Transition, Choose, EnqueueStep, queueVars
<1>5. ASSUME NEW w \in Workers,
             CollectContext(w) \/ EnqueuePlan(w) \/ EscalateRead(w) \/ EscalateMove(w)
             \/ ReadWork(w) \/ StepFails(w)
      PROVE [QP!Next]_(QP!vars)
  BY <1>5, <1>q DEF CollectContext, EnqueuePlan, EscalateRead, ReadWork, StepFails,
     EscalateMove, Transition, EnqueueStep, queueVars
<1>6. ASSUME NEW w \in Workers, ClaimNext(w) PROVE [QP!Next]_(QP!vars)
  <2>1. PICK j \in Jobs : Q!ClaimNext(w, j)
    BY <1>6 DEF ClaimNext
  <2>2. QP!ClaimNext(w, j)
    BY <2>1 DEF Q!ClaimNext, QP!ClaimNext, Q!Claimable, QP!Claimable, Q!NoLease, QP!NoLease
  <2> QED BY <2>2 DEF QP!Next
<1>7. ASSUME NEW w \in Workers, CompleteJob(w) \/ FailJob(w)
      PROVE  [QP!Next]_(QP!vars)
  <2>1. QP!CompleteJob(w) \/ QP!FailJob(w)
    BY <1>7 DEF CompleteJob, FailJob, Q!CompleteJob, QP!CompleteJob, Q!FailJob, QP!FailJob,
       Q!Release, QP!Release, Q!Holds, QP!Holds, Q!LastAttempt, QP!LastAttempt,
       Q!NoLease, QP!NoLease, Q!NoName, QP!NoName
  <2> QED BY <2>1 DEF QP!Next
<1>8. ASSUME NEW w \in Workers, Crash(w) PROVE [QP!Next]_(QP!vars)
  <2>1. CASE lease[w] = Q!NoLease
    BY <1>8, <2>1 DEF Crash, TypeOK, Q!TypeOK
  <2>2. CASE lease[w] # Q!NoLease
    <3>1. QP!Crash(w)
      BY <1>8, <2>2 DEF Crash, QP!Crash, Q!NoLease, QP!NoLease
    <3> QED BY <3>1 DEF QP!Next
  <2> QED BY <2>1, <2>2
<1>9. ASSUME NEW i \in Incidents, OpenIncident(i) \/ Approve(i)
      PROVE  [QP!Next]_(QP!vars)
  BY <1>9, <1>q DEF OpenIncident, Approve
<1>10. ASSUME Resume PROVE [QP!Next]_(QP!vars)
  <2> DEFINE js == UNION {ResumeJobs(i) : i \in PausedIncidents}
  <2>1. QP!Enqueue(js \intersect Jobs)
    BY <1>10 DEF Resume, QP!Enqueue, QP!Enqueued, Q!Enqueued, QP!EnqueuedRow, Q!EnqueuedRow
  <2> QED BY <2>1 DEF QP!Next
<1>11. ASSUME NEW i \in Incidents, Reject(i) \/ HelperRestarts(i) \/ CooldownOver(i)
       PROVE  [QP!Next]_(QP!vars)
  BY <1>11 DEF Reject, HelperRestarts, CooldownOver, queueVars
<1>12. CASE SetSafetyMode \/ Pause \/ UNCHANGED vars
  BY <1>12 DEF SetSafetyMode, Pause, vars, queueVars
<1> QED BY <1>1, <1>2, <1>3, <1>4, <1>5, <1>6, <1>7, <1>8, <1>9, <1>10, <1>11, <1>12
        DEF Next, WorkerStep

Moved(w, from, to) ==
  /\ pc[w] = from /\ pc'[w] = to
  /\ pc' \in [Workers -> Point]
  /\ work' \in [Workers -> Work \union {NoWork}]
  /\ to # "idle" => work'[w] \in Work /\ work'[w].id = work[w].id
  /\ to \notin Ends => work'[w] = work[w]

\* Goto takes a worker from one point to another on the same work.
LEMMA GotoMoves ==
  ASSUME TypeOK, NEW w \in Workers, Agrees(w), NEW from \in Point \ {"idle"}, NEW to \in Point,
         Goto(w, from, to)
  PROVE  Moved(w, from, to)
<1>1. work[w] \in Work
  BY DEF Agrees, Goto
<1>2. Fresh(work[w].id, 0) \in Work
  BY <1>1 DEF Fresh, Work, IncidentState, SafetyMode, PolicyDecision
<1> QED BY <1>1, <1>2 DEF TypeOK, Goto, Moved, Kept, Ends, Fresh

\* A transition either finds the expected state and moves the incident, or fails.
Attempted(w, from, expected, next, to) ==
  LET i == work[w].id IN
     \/ /\ incident[i] = expected
        /\ CanTransition(expected, next)
        /\ incident' = [incident EXCEPT ![i] = next]
        /\ Moved(w, from, to)
     \/ /\ incident' = incident
        /\ Moved(w, from, IF lease[w] = Q!NoLease THEN "idle" ELSE "err")

\* Transition (worker lib's transition_incident) writes the incident and nothing else.
LEMMA TransitionMoves ==
  ASSUME TypeOK, NEW w \in Workers, Agrees(w),
         NEW from \in Point \ {"idle"}, NEW expected, NEW next, NEW to \in Point,
         Transition(w, from, expected, next, to)
  PROVE  /\ Attempted(w, from, expected, next, to)
         /\ UNCHANGED <<action, attempts, project, cooling, queueVars, helperVars, ghostVars>>
<1>1. "err" \in Point /\ "idle" \in Point
  BY DEF Point
<1> QED BY <1>1, GotoMoves DEF Transition, Fail, Subject, Attempted

\* A worker stays in its handler, or leaves it, with its lease and its incident.
Stays(w, points) ==
  /\ pc[w] \in points /\ pc'[w] \in points \union {"ok", "err", "escalate"}
  /\ pc' \in [Workers -> Point]
  /\ work' \in [Workers -> Work \union {NoWork}]
  /\ work'[w] \in Work /\ work'[w].id = work[w].id
  /\ pc'[w] \in VerifyPoints => work'[w].n = work[w].n
  /\ lease' = lease

\* A worker that stays in its handler still holds the lease of the job it runs.
LEMMA StaysAgrees ==
  ASSUME NEW w \in Workers, Agrees(w),
         NEW points \in PointSets, Stays(w, points)
  PROVE  Agrees(w)'
<1> USE DEF Agrees, Stays, Runs
<1>1. CASE points = ContextPoints
  BY <1>1 DEF PlanPoints, ContextPoints, ExecutePoints, BeforeCall, AfterCall, BeforeCheck,
     AfterCheck,
     VerifyPoints, DiagnosePoints, RepairPoints, BuildPoints
<1>2. CASE points = PlanPoints
  BY <1>2 DEF PlanPoints, ContextPoints, ExecutePoints, BeforeCall, AfterCall, BeforeCheck,
     AfterCheck,
     VerifyPoints, DiagnosePoints, RepairPoints, BuildPoints
<1>3. CASE points = ExecutePoints
  BY <1>3 DEF PlanPoints, ContextPoints, ExecutePoints, BeforeCall, AfterCall, BeforeCheck,
     AfterCheck,
     VerifyPoints, DiagnosePoints, RepairPoints, BuildPoints
<1>4. CASE points = VerifyPoints
  BY <1>4 DEF PlanPoints, ContextPoints, ExecutePoints, BeforeCall, AfterCall, BeforeCheck,
     AfterCheck,
     VerifyPoints, DiagnosePoints, RepairPoints, BuildPoints
<1>5. CASE points = DiagnosePoints
  BY <1>5 DEF PlanPoints, ContextPoints, ExecutePoints, BeforeCall, AfterCall, BeforeCheck,
     AfterCheck,
     VerifyPoints, DiagnosePoints, RepairPoints, BuildPoints
<1>6. CASE points = RepairPoints
  BY <1>6 DEF PlanPoints, ContextPoints, ExecutePoints, BeforeCall, AfterCall, BeforeCheck,
     AfterCheck,
     VerifyPoints, DiagnosePoints, RepairPoints, BuildPoints
<1>7. CASE points = BuildPoints
  BY <1>7 DEF PlanPoints, ContextPoints, ExecutePoints, BeforeCall, AfterCall, BeforeCheck,
     AfterCheck,
     VerifyPoints, DiagnosePoints, RepairPoints, BuildPoints
<1> QED BY <1>1, <1>2, <1>3, <1>4, <1>5, <1>6, <1>7 DEF PointSets

\* The points of a handler are points, and none of them is one of the loop's.
LEMMA HandlerPoints ==
  ASSUME NEW points \in PointSets
  PROVE points \subseteq Point \ Ends
  BY DEF PointSets, ContextPoints, PlanPoints, ExecutePoints, BeforeCall, AfterCall,
     VerifyPoints,
    BeforeCheck, AfterCheck, DiagnosePoints, RepairPoints, BuildPoints, Point, Kind, Ends

\* A worker inside a handler holds a lease.
LEMMA HandlerHasLease ==
  ASSUME NEW w \in Workers, Agrees(w), NEW points \in PointSets, pc[w] \in points
  PROVE lease[w] # Q!NoLease
  BY DEF Agrees, PointSets, Runs

\* A plain step inside a handler keeps the worker in it.
LEMMA GotoStays ==
  ASSUME Basic, NEW w \in Workers, NEW points \in PointSets, NEW from \in points,
         NEW to \in points \union {"ok", "err", "escalate"},
         Goto(w, from, to), lease' = lease
  PROVE  Stays(w, points)
<1>1. from \in Point \ {"idle"} /\ to \in Point
  BY HandlerPoints DEF Ends, Point
<1>2. Moved(w, from, to)
  BY <1>1, GotoMoves DEF Basic, Agreement
<1>3. to \in VerifyPoints => to \notin Ends
  BY DEF VerifyPoints, BeforeCheck, AfterCheck, Ends
<1>4. to # "idle"
  BY HandlerPoints DEF Ends
<1> QED BY <1>2, <1>3, <1>4 DEF Moved, Stays

\* A transition inside a handler keeps the worker in it, whether it moves or fails.
LEMMA TransitionStays ==
  ASSUME Basic, NEW w \in Workers, NEW points \in PointSets, NEW from \in points,
         NEW expected, NEW next,
         NEW to \in points \union {"ok", "err", "escalate"},
         Transition(w, from, expected, next, to)
  PROVE  Stays(w, points)
<1>1. Goto(w, from, to) \/ Goto(w, from, "err")
  <2>1. pc[w] = from
    BY DEF Transition
  <2> QED BY <2>1, HandlerHasLease DEF Transition, Fail, Basic, Agreement
<1> QED BY <1>1, GotoStays DEF Transition, queueVars

\* The plan handler's steps stay in it.
LEMMA PlanBasic ==
  ASSUME Basic, NEW w \in Workers, Plan(w)
  PROVE  Stays(w, PlanPoints)
<1>0. PlanPoints \in PointSets
  BY DEF PointSets
<1>1. CASE StartReasoning(w) \/ Propose(w) \/ AllowAction(w) \/ WaitForApproval(w)
             \/ PausePlan(w)
  BY <1>0, <1>1, TransitionStays DEF
     StartReasoning, Propose, AllowAction, WaitForApproval, PausePlan, PlanPoints
<1>2. CASE PlanOperations(w) \/ EnqueueExecute(w) \/ RequireApproval(w) \/ BlockAction(w)
  BY <1>0, <1>2, GotoStays DEF PlanOperations, EnqueueExecute, RequireApproval, BlockAction,
     Choose, EnqueueStep, MarkStep, PlanPoints, queueVars
<1>3. CASE ConsultPolicy(w)
  <2>1. work[w] \in Work /\ pc[w] = "plan.policy"
    BY <1>3 DEF Basic, Agreement, Agrees, ConsultPolicy
  <2>2. PICK verdict \in PolicyDecision :
          work' = [work EXCEPT ![w] = [work[w] EXCEPT !.verdict = verdict]]
    BY <1>3 DEF ConsultPolicy, DecideOperations, PolicyDecision
  <2>3. [work[w] EXCEPT !.verdict = verdict] \in Work
    BY <2>1 DEF Work
  <2>4. work' \in [Workers -> Work \union {NoWork}] /\ work'[w] \in Work /\ work'[w].id = work[w].id
     BY <2>1, <2>2, <2>3 DEF Basic, TypeOK, Work
  <2>5. pc' = [pc EXCEPT ![w] = "plan.persist"] /\ lease' = lease
     BY <1>3 DEF ConsultPolicy, queueVars
  <2>6. "plan.persist" \in PlanPoints /\ "plan.persist" \notin VerifyPoints /\ pc[w] \in PlanPoints
     BY <2>1 DEF PlanPoints, VerifyPoints, BeforeCheck, AfterCheck
  <2> QED
  BY <1>0, <2>4, <2>5, <2>6, HandlerPoints DEF Stays, Basic, TypeOK
<1>4. CASE PersistAction(w)
  <2>1. work[w].verdict \in PolicyDecision
    BY <1>4 DEF Basic, Agreement, Agrees, PersistAction, Goto, Work
  <2>2. \E to \in {"plan.allow", "plan.require", "plan.block"} : Goto(w, "plan.persist", to)
    BY <1>4, <2>1 DEF PersistAction, PolicyDecision
  <2> QED BY <1>0, <1>4, <2>2, GotoStays DEF PersistAction, PlanPoints, queueVars
<1> QED BY <1>1, <1>2, <1>3, <1>4 DEF Plan

\* The execute handler's steps stay in it.
LEMMA ExecuteBasic ==
  ASSUME Basic, NEW w \in Workers, Execute(w)
  PROVE  Stays(w, ExecutePoints)
<1>0. ExecutePoints \in PointSets
  BY DEF PointSets
<1>1. CASE PauseExecution(w) \/ BeginVerification(w)
  BY <1>0, <1>1, TransitionStays DEF PauseExecution, BeginVerification, ExecutePoints,
     BeforeCall, AfterCall
<1>2. CASE BlockExecution(w) \/ MarkExecuted(w) \/ MarkFailClosed(w) \/ MarkAmbiguous(w)
             \/ EnqueueVerify(w)
           \/ AuditExecution(w)
  BY <1>0, <1>2, GotoStays DEF BlockExecution, MarkExecuted, MarkFailClosed, MarkAmbiguous,
     EnqueueVerify,
     AuditExecution, EnqueueStep, MarkStep, ExecutePoints, BeforeCall, AfterCall, queueVars
<1>3. CASE LoadAction(w) \/ ClaimAction(w) \/ CallHelper(w) \/ HelperAnswers(w)
  BY <1>0, <1>3, GotoStays DEF LoadAction, ClaimAction, CallHelper, HelperAnswers,
     Choose, MarkStep, ExecutePoints, BeforeCall, AfterCall, queueVars
<1> QED BY <1>1, <1>2, <1>3 DEF Execute

\* The verify handler's steps stay in it.
LEMMA VerifyBasic ==
  ASSUME Basic, NEW w \in Workers, Verify(w)
  PROVE  Stays(w, VerifyPoints)
<1>0. VerifyPoints \in PointSets
  BY DEF PointSets
<1>1. CASE Resolve(w)
  BY <1>0, <1>1, TransitionStays DEF Resolve, VerifyPoints, BeforeCheck, AfterCheck
<1>2. CASE LoadExecuted(w) \/ CheckRecovery(w) \/ EnqueueNextCheck(w) \/ MarkFailed(w)
             \/ MarkVerified(w)
  BY <1>0, <1>2, GotoStays DEF LoadExecuted, CheckRecovery, EnqueueNextCheck, MarkFailed,
     MarkVerified,
     Choose, EnqueueStep, MarkStep, VerifyPoints, BeforeCheck, AfterCheck, queueVars
<1> QED BY <1>1, <1>2 DEF Verify

\* The repair pipeline's steps stay in the handler they began in.
LEMMA RepairBasic ==
  ASSUME Basic, NEW w \in Workers, Repair(w)
  PROVE  \E points \in {DiagnosePoints, RepairPoints, BuildPoints} : Stays(w, points)
<1>0. DiagnosePoints \in PointSets /\ RepairPoints \in PointSets /\ BuildPoints \in PointSets
  BY DEF PointSets
<1>1. CASE StartDiagnosis(w) \/ PlanRepair(w)
  BY <1>0, <1>1, TransitionStays DEF StartDiagnosis, PlanRepair, DiagnosePoints
<1>2. CASE Diagnose(w) \/ EnqueueRepair(w)
  BY <1>0, <1>2, GotoStays DEF Diagnose, EnqueueRepair, Choose, EnqueueStep, DiagnosePoints,
     queueVars
<1>3. CASE StartRepair(w)
  BY <1>0, <1>3, TransitionStays DEF StartRepair, RepairPoints
<1>4. CASE ProposeRepair(w) \/ EnqueueBuild(w)
  BY <1>0, <1>4, GotoStays DEF ProposeRepair, EnqueueBuild, Choose, EnqueueStep, RepairPoints,
     queueVars
<1>5. CASE PauseBuild(w) \/ StartTesting(w)
  BY <1>0, <1>5, TransitionStays DEF PauseBuild, StartTesting, BuildPoints
<1>6. CASE CreateAttempt(w)
  <2> DEFINE i == Subject(w)
             a == IF attempts[i].current # 0 THEN attempts[i].current ELSE attempts[i].made + 1
  <2>1. pc[w] = "diagnose.attempt" /\ work[w] \in Work /\ i \in Incidents
    BY <1>6 DEF CreateAttempt, Basic, Agreement, Agrees, Subject, Work
  <2>2. a \in Nat
    BY <2>1 DEF Basic, TypeOK
  <2>3. /\ pc' = [pc EXCEPT ![w] = "diagnose.plan"]
        /\ work' = [work EXCEPT ![w] = [work[w] EXCEPT !.n = a]]
        /\ lease' = lease
    BY <1>6 DEF CreateAttempt, queueVars
  <2>4. [work[w] EXCEPT !.n = a] \in Work
    BY <2>1, <2>2 DEF Work
  <2>5. work' \in [Workers -> Work \union {NoWork}] /\ work'[w] \in Work /\ work'[w].id = work[w].id
    BY <2>1, <2>3, <2>4 DEF Basic, TypeOK, Work
  <2>6. "diagnose.plan" \in DiagnosePoints /\ pc[w] \in DiagnosePoints /\ "diagnose.plan" \notin VerifyPoints
    BY <2>1 DEF DiagnosePoints, VerifyPoints, BeforeCheck, AfterCheck
  <2>7. Stays(w, DiagnosePoints)
    BY <1>0, <2>3, <2>5, <2>6, HandlerPoints DEF Stays, Basic, TypeOK
  <2> QED BY <2>7
<1> QED BY <1>1, <1>2, <1>3, <1>4, <1>5, <1>6 DEF Repair

\* The context handler's steps stay in it.
LEMMA ContextBasic ==
  ASSUME Basic, NEW w \in Workers, CollectContext(w) \/ EnqueuePlan(w)
  PROVE  Stays(w, ContextPoints)
<1>0. ContextPoints \in PointSets
  BY DEF PointSets
<1> QED BY <1>0, TransitionStays, GotoStays DEF CollectContext, EnqueuePlan, EnqueueStep,
   ContextPoints

\* Reading the job's incident stays in the handler the job is of.
LEMMA ReadBasic ==
  ASSUME Basic, NEW w \in Workers, ReadWork(w)
  PROVE  \E points \in PointSets : Stays(w, points)
<1> DEFINE state == incident[Subject(w)]
           to    == Entry(pc[w], state, project.paused)
           seen  == CASE to \in {"plan.start", "plan.model"} ->
                      [work[w] EXCEPT !.mode = project.mode, !.paused = project.paused]
                 [] to = "build.pause" -> [work[w] EXCEPT !.state = state]
                 [] OTHER -> work[w]
<1>1. \E points \in PointSets : pc[w] \in points /\ to \in points \union {"ok", "err"}
  <2>1. pc[w] \in Kind
    BY DEF ReadWork
  <2>2. CASE pc[w] = "context"
     BY <2>2 DEF Entry, ContextEntry, PointSets, ContextPoints
  <2>3. CASE pc[w] = "plan"
     BY <2>3 DEF Entry, PlanEntry, PointSets, PlanPoints
  <2>4. CASE pc[w] = "execute"
     BY <2>4 DEF Entry, ExecuteEntry, PointSets, ExecutePoints, BeforeCall
  <2>5. CASE pc[w] = "verify"
     BY <2>5 DEF Entry, VerifyEntry, PointSets, VerifyPoints, BeforeCheck
  <2>6. CASE pc[w] = "diagnose"
     BY <2>6 DEF Entry, DiagnoseEntry, PointSets, DiagnosePoints
  <2>7. CASE pc[w] = "repair"
     BY <2>7 DEF Entry, RepairEntry, PointSets, RepairPoints
  <2>8. CASE pc[w] = "build"
     BY <2>8 DEF Entry, BuildEntry, PointSets, BuildPoints
  <2> QED BY <2>1, <2>2, <2>3, <2>4, <2>5, <2>6, <2>7, <2>8 DEF Kind
<1>2. PICK points \in PointSets : pc[w] \in points /\ to \in points \union {"ok", "err"}
  BY <1>1
<1>3. work[w] \in Work /\ work[w].id \in Incidents
  <2>1. pc[w] # "idle"
    BY DEF ReadWork, Kind
  <2> QED BY <2>1 DEF Basic, Agreement, Agrees, Work
<1>4. seen \in Work /\ seen.id = work[w].id /\ seen.n = work[w].n
  <2>1. state \in IncidentState
    <3>1. pc[w] # "idle"
      BY DEF ReadWork, Kind
    <3> QED BY <1>3, <3>1 DEF Basic, Present, TypeOK, Subject
  <2>2. project.mode \in SafetyMode /\ project.paused \in BOOLEAN
    BY DEF Basic, TypeOK
  <2> QED BY <1>3, <2>1, <2>2 DEF Work
<1>5. Kept(seen, to) \in Work /\ Kept(seen, to).id = work[w].id
      /\ (to \in VerifyPoints => Kept(seen, to).n = work[w].n)
  BY <1>2, <1>3, <1>4, HandlerPoints DEF Kept, Fresh, Work, IncidentState, SafetyMode,
     PolicyDecision, Ends,
     VerifyPoints, BeforeCheck, AfterCheck
<1>6. pc' = [pc EXCEPT ![w] = to] /\ work' = [work EXCEPT ![w] = Kept(seen, to)] /\ lease' = lease
  BY DEF ReadWork, queueVars
<1>7. to \in Point
  BY <1>2, HandlerPoints DEF Point
<1> QED BY <1>2, <1>5, <1>6, <1>7 DEF Stays, Basic, TypeOK

TypedControl ==
  pc' \in [Workers -> Point] /\ work' \in [Workers -> Work \union {NoWork}]

\* The loop's own steps, a failed statement and a crash leave the worker agreeing
\* with its lease.
LEMMA LoopBasic ==
  ASSUME Basic, NEW w \in Workers,
         EscalateRead(w) \/ EscalateMove(w) \/ ClaimNext(w) \/ CompleteJob(w) \/ FailJob(w)
         \/ StepFails(w) \/ Crash(w)
  PROVE  TypedControl /\ Agrees(w)'
<1> USE DEF TypedControl
<1>a. ASSUME NEW to \in Ends, work'[w] \in Work \/ to = "idle", pc'[w] = to,
             to = "idle" => lease'[w] = Q!NoLease,
             to \in {"ok", "err"} => lease'[w] # Q!NoLease,
             lease'[w] \in {lease[w], Q!NoLease}
      PROVE  Agrees(w)'
  <2>1. \A points \in PointSets : to \notin points
    BY HandlerPoints
  <2>2. lease'[w] # Q!NoLease => lease'[w].attempt > 0
    BY <1>a DEF Basic, Agreement, Agrees
  <2> QED BY <2>1, <2>2, <1>a DEF Agrees, PointSets, Ends
<1>b. ASSUME NEW to \in Ends, pc[w] # "idle" \/ to = "idle", Goto(w, pc[w], to),
             to = "idle" => lease'[w] = Q!NoLease,
             to \in {"ok", "err"} => lease'[w] # Q!NoLease,
             lease'[w] \in {lease[w], Q!NoLease}
      PROVE  TypedControl /\ Agrees(w)'
  <2>1. to \in Point
    BY DEF Ends, Point
  <2>2. CASE pc[w] = "idle"
    BY <1>a, <1>b, <2>1, <2>2 DEF Goto, Kept, Basic, TypeOK
  <2>3. CASE pc[w] # "idle"
    <3>1. pc[w] \in Point \ {"idle"}
      BY <2>3 DEF Basic, TypeOK
    <3>2. Moved(w, pc[w], to)
      BY <1>b, <2>1, <3>1, GotoMoves DEF Basic, Agreement
    <3> QED BY <1>a, <1>b, <3>2 DEF Moved
  <2> QED BY <2>2, <2>3
<1>1. CASE EscalateRead(w)
  <2> DEFINE state == incident[Subject(w)]
  <2>1. CASE Goto(w, "escalate", Return(w)) /\ lease' = lease
    BY <1>b, <2>1 DEF Return, Ends, Goto
  <2>2. CASE state \notin Settled /\ pc[w] = "escalate"
             /\ pc' = [pc EXCEPT ![w] = "escalate.cas"]
             /\ work' = [work EXCEPT ![w].state = state] /\ lease' = lease
    <3>1. work[w] \in Work /\ state \in IncidentState
      BY <2>2 DEF Basic, Agreement, Agrees, Present, TypeOK, Subject, Work
    <3>2. [work[w] EXCEPT !.state = state] \in Work
      BY <3>1 DEF Work
    <3>3. /\ work' = [work EXCEPT ![w] = [work[w] EXCEPT !.state = state]]
          /\ [work[w] EXCEPT !.state = state].state = state
      BY <2>2, <3>1 DEF Work
    <3>4. TypedControl /\ work'[w] \in Work /\ work'[w].state \notin Settled
          /\ pc'[w] = "escalate.cas"
      BY <2>2, <3>2, <3>3 DEF Basic, TypeOK, Point
    <3>5. \A points \in PointSets : "escalate.cas" \notin points
      BY DEF PointSets, ContextPoints, PlanPoints, ExecutePoints, BeforeCall, AfterCall,
         VerifyPoints,
         BeforeCheck, AfterCheck, DiagnosePoints, RepairPoints, BuildPoints
    <3> QED BY <2>2, <3>4, <3>5 DEF Basic, Agreement, Agrees, PointSets
  <2> QED BY <1>1, <2>1, <2>2 DEF EscalateRead, queueVars
<1>2. CASE EscalateMove(w)
  <2>1. \E to \in Ends : /\ Goto(w, pc[w], to) /\ pc[w] = "escalate.cas"
                         /\ to = "idle" => lease[w] = Q!NoLease
                         /\ to \in {"ok", "err"} => lease[w] # Q!NoLease
    BY <1>2 DEF EscalateMove, Transition, Return, Fail, Ends
  <2>2. lease' = lease
    BY <1>2 DEF EscalateMove, Transition, queueVars
  <2> QED BY <2>1, <2>2, <1>b
<1>3. CASE ClaimNext(w)
  <2>1. PICK j \in Jobs : /\ Q!ClaimNext(w, j)
                         /\ pc' = [pc EXCEPT ![w] = j[2]]
                         /\ work' = [work EXCEPT ![w] = Fresh(j[1], j[3])]
    BY <1>3 DEF ClaimNext
  <2>2. j[1] \in Incidents /\ j[2] \in Kind /\ j[3] \in Nat
    BY OperationsAssumption DEF Jobs
  <2>3. lease'[w] = [job |-> j, attempt |-> job[j].attempt + 1] /\ job[j].attempt \in Nat
    BY <2>1 DEF Q!ClaimNext, Basic, TypeOK, Q!TypeOK
  <2>4. lease'[w] # Q!NoLease
    BY <2>3 DEF Q!NoLease
  <2>5. Fresh(j[1], j[3]) \in Work /\ Fresh(j[1], j[3]).id = j[1] /\ Fresh(j[1], j[3]).n = j[3]
    BY <2>2 DEF Fresh, Work, IncidentState, SafetyMode, PolicyDecision
  <2>6. TypedControl /\ pc'[w] = j[2] /\ work'[w] = Fresh(j[1], j[3])
    BY <2>1, <2>2, <2>5 DEF Basic, TypeOK, Point
  <2>7. lease'[w].attempt > 0 /\ lease'[w].job = j
    BY <2>3
  <2> QED BY <2>2, <2>4, <2>5, <2>6, <2>7 DEF Agrees, Runs, Kind, ContextPoints, PlanPoints,
     ExecutePoints, BeforeCall,
         AfterCall, VerifyPoints, BeforeCheck, AfterCheck, DiagnosePoints, RepairPoints,
         BuildPoints
<1>4. CASE CompleteJob(w) \/ FailJob(w)
  <2>1. lease'[w] = Q!NoLease
    BY <1>4 DEF CompleteJob, FailJob, Q!CompleteJob, Q!FailJob, Q!Release, Basic, TypeOK,
       Q!TypeOK
  <2>2. \E to \in {"idle", "escalate"} : Goto(w, pc[w], to) /\ pc[w] \in {"ok", "err"}
    BY <1>4 DEF CompleteJob, FailJob, Goto
  <2> QED BY <2>1, <2>2, <1>b DEF Ends
<1>5. CASE StepFails(w)
  <2>1. pc[w] # "idle"
    BY <1>5 DEF StepFails, Basic, Agreement, Agrees
  <2> QED BY <1>b, <1>5, <2>1 DEF StepFails, Ends, queueVars
<1>6. CASE Crash(w)
  <2>1. lease'[w] = Q!NoLease
    BY <1>6 DEF Crash, Basic, TypeOK, Q!TypeOK
  <2> QED BY <1>b, <1>6, <2>1 DEF Crash, Ends
<1> QED BY <1>1, <1>2, <1>3, <1>4, <1>5, <1>6

TypedData ==
  /\ incident \in [Incidents -> IncidentState \union {"absent"}]
  /\ action \in [Incidents -> [status : ActionStatus, decision : Decision]]
  /\ attempts \in [Incidents -> [made : Nat, current : Nat]]
  /\ project \in [mode : SafetyMode, paused : BOOLEAN]
  /\ cooling \subseteq Incidents
  /\ RO!ROTypeOK
  /\ granted \subseteq Incidents
  /\ passed \in [Incidents -> Nat]

\* A worker that is not idle works on an opened incident.
LEMMA SubjectTypes ==
  ASSUME Basic, NEW w \in Workers, pc[w] # "idle"
  PROVE  /\ work[w] \in Work /\ Subject(w) \in Incidents
         /\ incident[Subject(w)] \in IncidentState
  BY DEF Basic, Agreement, Agrees, Present, TypeOK, Work, Subject

\* A transition keeps the rows typed.
LEMMA TransitionTypes ==
  ASSUME Basic, TypedData, NEW w \in Workers, NEW from, NEW expected,
         NEW next \in IncidentState,
         NEW to, from # "idle", Transition(w, from, expected, next, to)
  PROVE  TypedData'
<1>1. incident' \in [Incidents -> IncidentState \union {"absent"}]
  BY DEF Transition, TypedData
<1> QED BY <1>1 DEF Transition, TypedData, helperVars, ghostVars, RO!ROTypeOK

\* Writing an action's status keeps the rows typed.
LEMMA MarkTypes ==
  ASSUME Basic, TypedData, NEW w \in Workers, NEW from, NEW status \in ActionStatus, NEW to,
         from # "idle", MarkStep(w, from, status, to)
  PROVE  TypedData'
<1>1. action' \in [Incidents -> [status : ActionStatus, decision : Decision]]
  BY DEF MarkStep, TypedData
<1> QED BY <1>1 DEF MarkStep, TypedData, helperVars, ghostVars, RO!ROTypeOK

\* Every step keeps the rows typed.
LEMMA DataTypes ==
  ASSUME Basic, [Next]_vars
  PROVE  TypedData'
<1>0. TypedData
  BY DEF Basic, TypeOK, TypedData
<1>i. {"Resolved", "Paused", "Escalated", "Repairing", "Diagnosing",
        "Planning", "WaitingApproval", "VerifyingProduction", "CollectingContext",
         "Testing", "Open", "Cancelled"} \subseteq IncidentState
  BY DEF IncidentState
<1>u. CASE UNCHANGED <<dataVars, helperVars, ghostVars>>
  BY <1>0, <1>u DEF dataVars, helperVars, ghostVars, TypedData, RO!ROTypeOK
<1>1. ASSUME NEW w \in Workers, Plan(w) PROVE TypedData'
  <2>1. CASE StartReasoning(w) \/ Propose(w) \/ AllowAction(w) \/ WaitForApproval(w)
               \/ PausePlan(w)
    BY <1>0, <1>i, <2>1, TransitionTypes
       DEF StartReasoning, Propose, AllowAction, WaitForApproval, PausePlan
  <2>2. CASE RequireApproval(w) \/ BlockAction(w)
    BY <1>0, <2>2, MarkTypes DEF RequireApproval, BlockAction, ActionStatus
  <2>3. CASE ConsultPolicy(w)
    <3>1. Subject(w) \in Incidents
      BY <2>3, SubjectTypes DEF ConsultPolicy
    <3> QED BY <1>0, <2>3, <3>1 DEF ConsultPolicy, TypedData, dataVars, helperVars, RO!ROTypeOK
  <2>4. CASE PersistAction(w)
    <3>1. Subject(w) \in Incidents /\ work[w].verdict \in PolicyDecision
      BY <2>4, SubjectTypes DEF PersistAction, Goto, Work
    <3>2. action' \in [Incidents -> [status : ActionStatus, decision : Decision]]
      BY <1>0, <2>4, <3>1 DEF PersistAction, TypedData, ActionStatus, Decision
    <3> QED BY <1>0, <2>4, <3>2 DEF PersistAction, TypedData, helperVars, ghostVars,
       RO!ROTypeOK
  <2>5. CASE PlanOperations(w) \/ EnqueueExecute(w)
    BY <1>u, <2>5 DEF PlanOperations, EnqueueExecute, Choose, EnqueueStep
  <2> QED BY <1>1, <2>1, <2>2, <2>3, <2>4, <2>5 DEF Plan
<1>2. ASSUME NEW w \in Workers, Execute(w) PROVE TypedData'
  <2>1. CASE PauseExecution(w) \/ BeginVerification(w)
    BY <1>0, <1>i, <2>1, TransitionTypes DEF PauseExecution, BeginVerification
  <2>2. CASE BlockExecution(w) \/ MarkExecuted(w) \/ MarkFailClosed(w) \/ MarkAmbiguous(w)
    BY <1>0, <2>2, MarkTypes
       DEF BlockExecution, MarkExecuted, MarkFailClosed, MarkAmbiguous, ActionStatus
  <2>3. CASE LoadAction(w) \/ EnqueueVerify(w)
    BY <1>u, <2>3 DEF LoadAction, EnqueueVerify, Choose, EnqueueStep
  <2>4. CASE ClaimAction(w)
    BY <1>0, <1>u, <2>4, MarkTypes DEF ClaimAction, Choose, ActionStatus
  <2>5. CASE CallHelper(w) \/ HelperAnswers(w)
    <3>1. Subject(w) \in Incidents
      BY <2>5, SubjectTypes DEF CallHelper, HelperAnswers, Goto, Choose
    <3>2. UNCHANGED <<dataVars, ghostVars>>
      BY <2>5 DEF CallHelper, HelperAnswers, Choose
    <3>3. UNCHANGED helperVars \/ (\E t \in Tries : RO!Try(Subject(w), t))
          \/ RO!Vouch(Subject(w)) \/ RO!Refuse(Subject(w))
      BY <2>5 DEF CallHelper, HelperAnswers, Choose
    <3>4. RO!ROTypeOK'
      BY <1>0, <3>1, <3>3 DEF TypedData, RO!ROTypeOK, RO!Try, RO!Vouch, RO!Refuse, helperVars
    <3> QED BY <1>0, <3>2, <3>4 DEF TypedData, dataVars, ghostVars
  <2>6. CASE AuditExecution(w)
    <3>1. Subject(w) \in Incidents
      BY <2>6, SubjectTypes DEF AuditExecution, Goto
    <3> QED BY <1>0, <2>6, <3>1 DEF AuditExecution, TypedData, helperVars, ghostVars,
       RO!ROTypeOK
  <2> QED BY <1>2, <2>1, <2>2, <2>3, <2>4, <2>5, <2>6 DEF Execute
<1>3. ASSUME NEW w \in Workers, Verify(w) PROVE TypedData'
  <2>1. CASE Resolve(w)
    BY <1>0, <1>i, <2>1, TransitionTypes DEF Resolve
  <2>2. CASE MarkFailed(w) \/ MarkVerified(w)
    BY <1>0, <2>2, MarkTypes DEF MarkFailed, MarkVerified, ActionStatus
  <2>3. CASE LoadExecuted(w) \/ EnqueueNextCheck(w)
    BY <1>u, <2>3 DEF LoadExecuted, EnqueueNextCheck, Choose, EnqueueStep
  <2>4. CASE CheckRecovery(w)
    BY <1>0, <2>4 DEF CheckRecovery, TypedData, dataVars, helperVars, RO!ROTypeOK
  <2> QED BY <1>3, <2>1, <2>2, <2>3, <2>4 DEF Verify
<1>4. ASSUME NEW w \in Workers, Repair(w) PROVE TypedData'
  <2>1. CASE StartDiagnosis(w) \/ PlanRepair(w) \/ StartRepair(w) \/ PauseBuild(w)
               \/ StartTesting(w)
    BY <1>0, <1>i, <2>1, TransitionTypes DEF StartDiagnosis, PlanRepair, StartRepair,
       PauseBuild, StartTesting
  <2>2. CASE Diagnose(w) \/ EnqueueRepair(w) \/ ProposeRepair(w) \/ EnqueueBuild(w)
    BY <1>u, <2>2 DEF Diagnose, EnqueueRepair, ProposeRepair, EnqueueBuild, Choose, EnqueueStep
  <2>3. CASE CreateAttempt(w)
    <3> DEFINE i == Subject(w)
               a == IF attempts[i].current # 0 THEN attempts[i].current ELSE attempts[i].made + 1
    <3>a. i \in Incidents
      BY <2>3, SubjectTypes DEF CreateAttempt
    <3>b. attempts[i].made \in Nat /\ a \in Nat
      BY <1>0, <3>a DEF TypedData
    <3>c. attempts' = [attempts EXCEPT ![i] =
             [made |-> IF a > attempts[i].made THEN a ELSE attempts[i].made, current |-> a]]
      BY <2>3 DEF CreateAttempt
    <3>1. attempts' \in [Incidents -> [made : Nat, current : Nat]]
      BY <1>0, <3>b, <3>c DEF TypedData
    <3> QED BY <1>0, <2>3, <3>1 DEF CreateAttempt, TypedData, helperVars, ghostVars,
       RO!ROTypeOK
  <2> QED BY <1>4, <2>1, <2>2, <2>3 DEF Repair
<1>5. ASSUME NEW w \in Workers, CollectContext(w) \/ EscalateMove(w) PROVE TypedData'
  BY <1>0, <1>i, <1>5, TransitionTypes DEF CollectContext, EscalateMove
<1>6. ASSUME NEW w \in Workers,
             EnqueuePlan(w) \/ EscalateRead(w) \/ ReadWork(w) \/ StepFails(w) \/ ClaimNext(w)
             \/ CompleteJob(w)
             \/ FailJob(w) \/ Crash(w)
      PROVE TypedData'
  BY <1>u, <1>6 DEF EnqueuePlan, EnqueueStep, EscalateRead, ReadWork, StepFails, ClaimNext,
     CompleteJob,
     FailJob, Crash
<1>7. ASSUME NEW i \in Incidents, OpenIncident(i) PROVE TypedData'
  BY <1>0, <1>i, <1>7 DEF OpenIncident, TypedData, helperVars, ghostVars, RO!ROTypeOK
<1>8. ASSUME NEW i \in Incidents, Approve(i) PROVE TypedData'
  BY <1>0, <1>i, <1>8 DEF Approve, TypedData, helperVars, RO!ROTypeOK, ActionStatus, Decision
<1>9. ASSUME NEW i \in Incidents, Reject(i) PROVE TypedData'
  BY <1>0, <1>i, <1>9 DEF Reject, TypedData, helperVars, ghostVars, RO!ROTypeOK, ActionStatus,
     Decision
<1>10. ASSUME NEW i \in Incidents, HelperRestarts(i) PROVE TypedData'
  BY <1>0, <1>10 DEF HelperRestarts, TypedData, dataVars, ghostVars, RO!ROTypeOK, RO!Issue,
     RO!Restarted, RO!Phase
<1>11. ASSUME NEW i \in Incidents, CooldownOver(i) PROVE TypedData'
  BY <1>0, <1>11 DEF CooldownOver, TypedData, helperVars, ghostVars, RO!ROTypeOK
<1>12. CASE SetSafetyMode \/ Pause
  BY <1>0, <1>12 DEF SetSafetyMode, Pause, TypedData, helperVars, ghostVars, RO!ROTypeOK
<1>13. CASE Resume
  <2>1. attempts' \in [Incidents -> [made : Nat, current : Nat]]
    BY <1>0, <1>13 DEF Resume, TypedData
  <2>2. incident' \in [Incidents -> IncidentState \union {"absent"}]
    BY <1>0, <1>i, <1>13 DEF Resume, TypedData
  <2> QED BY <1>0, <1>13, <2>1, <2>2 DEF Resume, TypedData, helperVars, ghostVars, RO!ROTypeOK
<1>14. CASE UNCHANGED vars
  BY <1>u, <1>14 DEF vars
<1> QED BY <1>1, <1>2, <1>3, <1>4, <1>5, <1>6, <1>7, <1>8, <1>9, <1>10, <1>11, <1>12, <1>13,
   <1>14
        DEF Next, WorkerStep

\* Basic holds of the initial states.
LEMMA BasicInit == Init => Basic
<1> SUFFICES ASSUME Init PROVE Basic
  OBVIOUS
<1>1. QP!Init
  BY DEF Init, Q!Init, QP!Init, Q!Absent, QP!Absent, Q!NoLease, QP!NoLease, Q!NoName, QP!NoName
<1>2. QP!IInv
  BY <1>1, QP!InitHolds, JobAttempts
<1>3. Q!TypeOK
  BY <1>2, QueueTypes DEF QP!IInv
<1>4. TypeOK
  BY <1>3 DEF TypeOK, Init, RO!ROTypeOK, RO!ROInit, ActionStatus, Decision, Point, RO!Phase
<1>5. Agreement /\ Present
  BY DEF Init, Agreement, Present, Agrees, Runs, Q!Init, Q!NoLease, Q!Absent, Enqueued,
     ContextPoints, PlanPoints, ExecutePoints, BeforeCall,
     AfterCall, VerifyPoints, BeforeCheck, AfterCheck, DiagnosePoints, RepairPoints,
     BuildPoints
<1> QED BY <1>2, <1>4, <1>5 DEF Basic

\* A step is one of a worker or one of the world outside.
LEMMA Parted ==
  ASSUME Next
  PROVE  (\E w \in Workers : ControlStep(w))
         \/ (\E i \in Incidents : OpenIncident(i) \/ Approve(i) \/ Reject(i)
                                 \/ HelperRestarts(i) \/ CooldownOver(i))
         \/ SetSafetyMode \/ Pause \/ Resume
BY DEF Next, ControlStep

OutsideStep(i) == OpenIncident(i) \/ Approve(i) \/ Reject(i) \/ HelperRestarts(i) \/ CooldownOver(i)

\* The administrator, the monitor and the helper do not touch the workers.
LEMMA OutsideKeepsWorkers ==
  ASSUME (\E i \in Incidents : OutsideStep(i)) \/ SetSafetyMode \/ Pause \/ Resume \/ UNCHANGED vars
  PROVE  UNCHANGED <<lease, pc, work>>
BY DEF OutsideStep, OpenIncident, Approve, Reject, HelperRestarts, CooldownOver,
   SetSafetyMode, Pause, Resume, vars, queueVars

\* Every step keeps the workers agreeing with their leases.
LEMMA AgreementKept ==
  ASSUME Basic, [Next]_vars
  PROVE  Agreement' /\ TypedControl
<1>1. ASSUME NEW w \in Workers, ControlStep(w) PROVE Agreement' /\ TypedControl
  <2>1. Agrees(w)' /\ TypedControl
    <3>1. ASSUME NEW points \in PointSets, Stays(w, points) PROVE Agrees(w)' /\ TypedControl
      BY <3>1, StaysAgrees DEF PointSets, Basic, Agreement, TypedControl, Stays
    <3>2. ContextPoints \in PointSets /\ PlanPoints \in PointSets /\ ExecutePoints \in PointSets
          /\ VerifyPoints \in PointSets /\ {DiagnosePoints, RepairPoints, BuildPoints} \subseteq PointSets
      BY DEF PointSets
    <3>3. CASE Plan(w) \/ Execute(w) \/ Verify(w) \/ Repair(w) \/ CollectContext(w)
                 \/ EnqueuePlan(w) \/ ReadWork(w)
      BY <3>1, <3>2, <3>3, PlanBasic, ExecuteBasic, VerifyBasic, RepairBasic, ContextBasic,
         ReadBasic
    <3> QED BY <1>1, <3>3, LoopBasic DEF ControlStep, WorkerStep
  <2>2. \A v \in Workers \ {w} : Agrees(v)'
    BY <1>1, OneMoves DEF Elsewhere, Basic, Agreement, Agrees, Runs
  <2> QED BY <2>1, <2>2 DEF Agreement
<1>2. CASE UNCHANGED <<lease, pc, work>>
  BY <1>2 DEF Basic, TypeOK, Agreement, Agrees, Runs, TypedControl
<1> QED BY <1>1, <1>2, Parted, OutsideKeepsWorkers DEF OutsideStep

\* Where in the handlers which kind of job is enqueued.
Enqueues ==
  {<<"context.enqueue", "plan">>, <<"plan.enqueue", "execute">>, <<"execute.enqueue", "verify">>,
   <<"verify.next", "verify">>, <<"diagnose.enqueue", "repair">>, <<"repair.enqueue", "build">>}

EnqueuedBy(w, j) ==
  /\ <<pc[w], j[2]>> \in Enqueues
  /\ pc'[w] = "ok"
  /\ j[1] = work[w].id
  /\ pc[w] = "execute.enqueue" => j[3] = 0
  /\ pc[w] = "verify.next" => j[3] = work[w].n + 1

\* Who may have enqueued a job that is new: the handler of the job before it, the
\* monitor, an approval, or a resume.
LEMMA NewJobs ==
  ASSUME Basic, [Next]_vars, NEW j \in Jobs, ~Enqueued(j), Enqueued(j)'
  PROVE  \/ \E w \in Workers : ControlStep(w) /\ EnqueuedBy(w, j)
         \/ \E i \in Incidents : OpenIncident(i) /\ j[1] = i /\ j[2] = "context"
         \/ \E i \in Incidents : Approve(i) /\ j[1] = i /\ j[2] = "execute"
         \/ Resume /\ j[1] \in PausedIncidents /\ j[2] = "diagnose"
<1>0. job[j].status = "absent" /\ job'[j].status # "absent"
  BY DEF Enqueued
<1>e. ASSUME NEW js, job' = Q!Enqueued(js) PROVE j \in js
  BY <1>0, <1>e DEF Q!Enqueued
<1>1. ASSUME NEW w \in Workers, ControlStep(w) PROVE EnqueuedBy(w, j)
  <2>1. ASSUME NEW from, NEW kind,
               NEW n, EnqueueStep(w, from, kind, n, "ok"), <<from, kind>> \in Enqueues,
               from = "execute.enqueue" => n = 0,
               from = "verify.next" => n = work[w].n + 1
        PROVE  EnqueuedBy(w, j)
    <3>1. j = <<Subject(w), kind, n>>
      BY <1>e, <2>1 DEF EnqueueStep
    <3>2. pc[w] = from /\ pc'[w] = "ok"
      BY <2>1 DEF EnqueueStep, Goto, Basic, TypeOK
    <3> QED BY <2>1, <3>1, <3>2 DEF EnqueuedBy, Subject
  <2>2. CASE job' = job
    BY <1>0, <2>2
  <2>3. CASE Plan(w)
    BY <2>1, <2>2, <2>3 DEF Plan, StartReasoning, PlanOperations, Propose, ConsultPolicy,
       PersistAction, AllowAction, EnqueueExecute,
       RequireApproval, WaitForApproval, BlockAction, PausePlan, Transition, MarkStep, Choose,
       queueVars, Enqueues
  <2>4. CASE Execute(w)
    BY <2>1, <2>2, <2>4 DEF Execute, BlockExecution, PauseExecution, LoadAction,
       ClaimAction, CallHelper, HelperAnswers, MarkExecuted, MarkFailClosed, MarkAmbiguous,
       AuditExecution, BeginVerification, EnqueueVerify, Transition, MarkStep, Choose,
       queueVars, Enqueues
  <2>5. CASE Verify(w)
    BY <2>1, <2>2, <2>5 DEF Verify, LoadExecuted, CheckRecovery,
       EnqueueNextCheck, MarkFailed, MarkVerified, Resolve, Transition, MarkStep, Choose,
       queueVars, Enqueues
  <2>6. CASE Repair(w)
    BY <2>1, <2>2, <2>6 DEF Repair, StartDiagnosis, Diagnose, CreateAttempt,
       PlanRepair, EnqueueRepair, StartRepair, ProposeRepair, EnqueueBuild, PauseBuild,
       StartTesting, Transition, Choose, queueVars, Enqueues
  <2>7. CASE CollectContext(w) \/ EnqueuePlan(w) \/ EscalateRead(w) \/ EscalateMove(w)
               \/ ReadWork(w) \/ StepFails(w) \/ Crash(w)
    BY <2>1, <2>2, <2>7 DEF CollectContext, EnqueuePlan, EscalateRead, EscalateMove, ReadWork,
       StepFails, Crash, Transition,
       queueVars, Enqueues
  <2>8. CASE ClaimNext(w)
    <3>1. PICK k \in Jobs : Q!ClaimNext(w, k)
      BY <2>8 DEF ClaimNext
    <3>2. k # j
      BY <1>0, <3>1 DEF Q!ClaimNext, Q!Claimable
    <3> QED BY <1>0, <3>1, <3>2 DEF Q!ClaimNext, Basic, TypeOK, Q!TypeOK
  <2>9. CASE CompleteJob(w) \/ FailJob(w)
    <3>1. lease[w].job # j /\ lease[w] # Q!NoLease
      BY <1>0, <2>9, QueueFacts DEF CompleteJob, FailJob, Q!CompleteJob, Q!FailJob, Basic
    <3> QED BY <1>0, <2>9, <3>1 DEF CompleteJob, FailJob, Q!CompleteJob, Q!FailJob, Q!Release,
       Basic, TypeOK, Q!TypeOK
  <2> QED BY <1>1, <2>3, <2>4, <2>5, <2>6, <2>7, <2>8, <2>9 DEF ControlStep, WorkerStep
<1>2. ASSUME NEW i \in Incidents, OpenIncident(i) PROVE j[1] = i /\ j[2] = "context"
  BY <1>0, <1>e, <1>2 DEF OpenIncident
<1>3. ASSUME NEW i \in Incidents, Approve(i) PROVE j[1] = i /\ j[2] = "execute"
  BY <1>0, <1>e, <1>3 DEF Approve
<1>4. ASSUME Resume PROVE j[1] \in PausedIncidents /\ j[2] = "diagnose"
  <2>1. PICK i \in PausedIncidents : j \in ResumeJobs(i)
    BY <1>e, <1>4 DEF Resume
  <2>2. PICK n \in 1..MaxResumes : j = <<i, "diagnose", n>>
    BY <2>1 DEF ResumeJobs
  <2> QED BY <2>2
<1>5. ASSUME (\E i \in Incidents : Reject(i) \/ HelperRestarts(i) \/ CooldownOver(i))
             \/ SetSafetyMode \/ Pause \/ UNCHANGED vars
      PROVE  FALSE
  <2>1. job' = job
    BY <1>5 DEF Reject, HelperRestarts, CooldownOver, SetSafetyMode, Pause, vars, queueVars
  <2> QED BY <1>0, <2>1
<1>6. CASE \E w \in Workers : ControlStep(w)
  BY <1>1, <1>6
<1>7. CASE (\E i \in Incidents : OpenIncident(i) \/ Approve(i)) \/ Resume
  BY <1>2, <1>3, <1>4, <1>7
<1> QED BY <1>5, <1>6, <1>7, Parted

Claims(w, j) ==
  /\ ClaimNext(w)
  /\ Enqueued(j)
  /\ pc'[w] = j[2]
  /\ work'[w] = Fresh(j[1], j[3])
  /\ lease'[w].job = j
  /\ job[j].attempt < MaxAttempts[j]
  /\ job'[j].attempt = job[j].attempt + 1
  /\ \A k \in Jobs \ {j} : job'[k] = job[k]

\* A claim takes a worker to the entry of a job's handler, at one attempt more.
LEMMA ClaimTaken ==
  ASSUME Basic, NEW w \in Workers, ClaimNext(w)
  PROVE  \E j \in Jobs : Claims(w, j)
<1>1. PICK j \in Jobs : /\ Q!ClaimNext(w, j)
                       /\ pc' = [pc EXCEPT ![w] = j[2]]
                       /\ work' = [work EXCEPT ![w] = Fresh(j[1], j[3])]
  BY DEF ClaimNext
<1>2. job[j].status \in {"PENDING", "RETRY"} /\ job[j].attempt < MaxAttempts[j]
  BY <1>1, QueueFacts DEF Q!ClaimNext, Q!Claimable, Basic
<1>3. job'[j].attempt = job[j].attempt + 1 /\ \A k \in Jobs \ {j} : job'[k] = job[k]
  BY <1>1 DEF Q!ClaimNext, Basic, TypeOK, Q!TypeOK
<1>4. pc'[w] = j[2] /\ work'[w] = Fresh(j[1], j[3]) /\ lease'[w].job = j
  BY <1>1 DEF Q!ClaimNext, Basic, TypeOK, Q!TypeOK
<1> QED BY <1>2, <1>3, <1>4 DEF Claims, Enqueued

\* A job stays enqueued, and only a claim counts an attempt.
LEMMA JobsKept ==
  ASSUME Basic, [Next]_vars, NEW j \in Jobs
  PROVE  /\ Enqueued(j) => Enqueued(j)'
         /\ \/ job'[j].attempt = job[j].attempt
            \/ \E w \in Workers : Claims(w, j)
<1> DEFINE Kept1 == /\ Enqueued(j) => Enqueued(j)'
                    /\ job'[j].attempt = job[j].attempt
<1>e. ASSUME NEW js, job' = Q!Enqueued(js) PROVE Kept1
  BY <1>e DEF Q!Enqueued, Q!EnqueuedRow, Enqueued, Basic, TypeOK, Q!TypeOK
<1>u. job' = job => Kept1
  BY DEF Enqueued
<1>1. ASSUME NEW w \in Workers, ControlStep(w), ~ClaimNext(w) PROVE Kept1
  <2>3. CASE Plan(w)
    BY <1>e, <1>u, <2>3 DEF Plan, StartReasoning, PlanOperations, Propose, ConsultPolicy,
       PersistAction, AllowAction, EnqueueExecute,
       RequireApproval, WaitForApproval, BlockAction, PausePlan, Transition, MarkStep, Choose,
       queueVars, EnqueueStep
  <2>4. CASE Execute(w)
    BY <1>e, <1>u, <2>4 DEF Execute, BlockExecution, PauseExecution, LoadAction,
       ClaimAction, CallHelper, HelperAnswers, MarkExecuted, MarkFailClosed, MarkAmbiguous,
       AuditExecution, BeginVerification, EnqueueVerify, Transition, MarkStep, Choose,
       queueVars, EnqueueStep
  <2>5. CASE Verify(w)
    BY <1>e, <1>u, <2>5 DEF Verify, LoadExecuted, CheckRecovery,
       EnqueueNextCheck, MarkFailed, MarkVerified, Resolve, Transition, MarkStep, Choose,
       queueVars, EnqueueStep
  <2>6. CASE Repair(w)
    BY <1>e, <1>u, <2>6 DEF Repair, StartDiagnosis, Diagnose, CreateAttempt,
       PlanRepair, EnqueueRepair, StartRepair, ProposeRepair, EnqueueBuild, PauseBuild,
       StartTesting, Transition, Choose, queueVars, EnqueueStep
  <2>7. CASE CollectContext(w) \/ EnqueuePlan(w) \/ EscalateRead(w) \/ EscalateMove(w)
               \/ ReadWork(w) \/ StepFails(w) \/ Crash(w)
    BY <1>e, <1>u, <2>7 DEF CollectContext, EnqueuePlan, EscalateRead, EscalateMove, ReadWork,
       StepFails, Crash, Transition,
       queueVars, EnqueueStep
  <2>8. CASE CompleteJob(w) \/ FailJob(w)
    <3> DEFINE k == lease[w].job
    <3>1. k \in Jobs
      BY <2>8, QueueFacts DEF Basic, CompleteJob, FailJob, Q!CompleteJob, Q!FailJob
    <3>2. PICK st \in {"COMPLETED", "FAILED", "RETRY"} : Q!Release(w, st)
      BY <2>8 DEF CompleteJob, FailJob, Q!CompleteJob, Q!FailJob
    <3>3. job' = job \/ job' = [job EXCEPT ![k].status = st, ![k].by = Q!NoName]
      BY <3>2 DEF Q!Release
    <3> QED BY <1>u, <3>1, <3>3 DEF Basic, TypeOK, Q!TypeOK, Enqueued
  <2> QED BY <1>1, <2>3, <2>4, <2>5, <2>6, <2>7, <2>8 DEF ControlStep, WorkerStep
<1>2. ASSUME NEW w \in Workers, ClaimNext(w)
      PROVE  Kept1 \/ (Enqueued(j)' /\ \E v \in Workers : Claims(v, j))
  <2>1. PICK k \in Jobs : Claims(w, k)
    BY <1>2, ClaimTaken
  <2>2. CASE k # j
    BY <2>1, <2>2 DEF Claims, Enqueued
  <2>3. CASE k = j
    <3>1. Q!ClaimNext(w, j)
      BY <2>1, <2>3, <1>2 DEF ClaimNext, Claims, Q!ClaimNext, Basic, TypeOK, Q!TypeOK
    <3>2. job'[j].status = "RUNNING"
      BY <3>1 DEF Q!ClaimNext, Basic, TypeOK, Q!TypeOK
    <3> QED BY <2>1, <2>3, <3>2 DEF Enqueued
  <2> QED BY <2>2, <2>3
<1>3. ASSUME NEW i \in Incidents, OutsideStep(i) PROVE Kept1
  BY <1>e, <1>u, <1>3 DEF OutsideStep, OpenIncident, Approve, Reject, HelperRestarts,
     CooldownOver, queueVars
<1>4. CASE Resume \/ Pause \/ SetSafetyMode \/ UNCHANGED vars
  BY <1>e, <1>u, <1>4 DEF Resume, Pause, SetSafetyMode, vars, queueVars
<1> QED BY <1>1, <1>2, <1>3, <1>4, Parted DEF OutsideStep

-------------------------------------------------------------------------------
(* How control flows: where each action takes the worker, and, read backwards, *)
(* by which action a worker came to a point.                                *)

Goes(w, from, points) == pc[w] = from /\ pc'[w] \in points \union {"err", "idle"}

\* Where the plan handler's steps lead.
LEMMA PlanFlow ==
  ASSUME TypeOK, NEW w \in Workers
  PROVE  /\ StartReasoning(w)  => Goes(w, "plan.start", {"plan.model"})
         /\ PlanOperations(w)  => Goes(w, "plan.model", {"plan.propose", "escalate"})
         /\ Propose(w)         => Goes(w, "plan.propose", {"plan.policy"})
         /\ ConsultPolicy(w)   => Goes(w, "plan.policy", {"plan.persist"})
         /\ AllowAction(w)     => Goes(w, "plan.allow", {"plan.enqueue"})
         /\ EnqueueExecute(w)  => Goes(w, "plan.enqueue", {"ok"})
         /\ RequireApproval(w) => Goes(w, "plan.require", {"plan.wait"})
         /\ WaitForApproval(w) => Goes(w, "plan.wait", {"ok"})
         /\ BlockAction(w)     => Goes(w, "plan.block", {"plan.pause", "escalate"})
         /\ PausePlan(w)       => Goes(w, "plan.pause", {"ok"})
BY DEF TypeOK, StartReasoning, PlanOperations, Propose, ConsultPolicy, AllowAction,
       EnqueueExecute, RequireApproval, WaitForApproval, BlockAction, PausePlan,
       Transition, MarkStep, Choose, EnqueueStep, Goto, Fail, Goes

\* The plan handler branches on the policy's verdict once the action is written.
LEMMA PersistFlow ==
  ASSUME Basic, NEW w \in Workers, PersistAction(w)
  PROVE  /\ Goes(w, "plan.persist", {"plan.allow", "plan.require", "plan.block"})
         /\ pc'[w] = "plan.allow" <=> work[w].verdict = "Allow"
         /\ work'[w] = work[w]
<1>1. work[w].verdict \in PolicyDecision /\ pc[w] = "plan.persist"
  BY DEF Basic, Agreement, Agrees, PersistAction, Goto, Work
<1> QED BY <1>1 DEF PersistAction, PolicyDecision, Goto, Kept, Basic, TypeOK, Goes

\* Where the execute handler's steps lead.
LEMMA ExecuteFlow ==
  ASSUME TypeOK, NEW w \in Workers
  PROVE  /\ BlockExecution(w) => Goes(w, "execute.block", {"execute.pause"})
         /\ PauseExecution(w) => Goes(w, "execute.pause", {"ok"})
         /\ LoadAction(w) =>
              Goes(w, "execute.load", {"execute.verify", "execute.ambiguous", "execute.claim", "ok"})
         /\ ClaimAction(w) => Goes(w, "execute.claim", {"execute.call", "ok"})
         /\ CallHelper(w) => Goes(w, "execute.call", {"execute.answer", "execute.failClosed"})
         /\ HelperAnswers(w) => Goes(w, "execute.answer",
              {"execute.executed", "execute.failClosed", "execute.ambiguous"})
         /\ MarkExecuted(w)      => Goes(w, "execute.executed", {"execute.audit"})
         /\ MarkFailClosed(w)    => Goes(w, "execute.failClosed", {"escalate"})
         /\ MarkAmbiguous(w)     => Goes(w, "execute.ambiguous", {"escalate"})
         /\ AuditExecution(w)    => Goes(w, "execute.audit", {"execute.verify"})
         /\ BeginVerification(w) => Goes(w, "execute.verify", {"execute.enqueue"})
         /\ EnqueueVerify(w)     => Goes(w, "execute.enqueue", {"ok"})
BY DEF TypeOK, BlockExecution, PauseExecution, LoadAction, ClaimAction, CallHelper,
       HelperAnswers, MarkExecuted, MarkFailClosed, MarkAmbiguous, AuditExecution,
       BeginVerification, EnqueueVerify, Transition, MarkStep, Choose, EnqueueStep,
       Goto, Fail, Goes

\* Where the verify handler's steps lead.
LEMMA VerifyFlow ==
  ASSUME TypeOK, NEW w \in Workers
  PROVE  /\ LoadExecuted(w)     => Goes(w, "verify.load", {"verify.check", "escalate"})
         /\ CheckRecovery(w)    =>
              Goes(w, "verify.check", {"verify.verified", "verify.next", "verify.failed"})
         /\ EnqueueNextCheck(w) => Goes(w, "verify.next", {"ok"})
         /\ MarkFailed(w)       => Goes(w, "verify.failed", {"escalate"})
         /\ MarkVerified(w)     => Goes(w, "verify.verified", {"verify.resolve"})
         /\ Resolve(w)          => Goes(w, "verify.resolve", {"ok"})
BY DEF TypeOK, LoadExecuted, CheckRecovery, EnqueueNextCheck, MarkFailed, MarkVerified,
       Resolve, Transition, MarkStep, Choose, EnqueueStep, Goto, Fail, Goes

\* Where the repair pipeline's steps lead.
LEMMA RepairFlow ==
  ASSUME TypeOK, NEW w \in Workers
  PROVE  /\ StartDiagnosis(w) => Goes(w, "diagnose.start", {"diagnose.model"})
         /\ Diagnose(w)       => Goes(w, "diagnose.model", {"diagnose.attempt"})
         /\ CreateAttempt(w)  => Goes(w, "diagnose.attempt", {"diagnose.plan"})
         /\ PlanRepair(w)     => Goes(w, "diagnose.plan", {"diagnose.enqueue"})
         /\ EnqueueRepair(w)  => Goes(w, "diagnose.enqueue", {"ok"})
         /\ StartRepair(w)    => Goes(w, "repair.start", {"repair.model"})
         /\ ProposeRepair(w)  => Goes(w, "repair.model", {"repair.enqueue", "escalate"})
         /\ EnqueueBuild(w)   => Goes(w, "repair.enqueue", {"ok"})
         /\ PauseBuild(w)     => Goes(w, "build.pause", {"ok"})
         /\ StartTesting(w)   => Goes(w, "build.test", {})
BY DEF TypeOK, StartDiagnosis, Diagnose, CreateAttempt, PlanRepair, EnqueueRepair,
       StartRepair, ProposeRepair, EnqueueBuild, PauseBuild, StartTesting,
       Transition, Choose, EnqueueStep, Goto, Fail, Goes

\* Where the loop's steps, the context handler's, a failed statement and a crash lead.
LEMMA LoopFlow ==
  ASSUME TypeOK, NEW w \in Workers
  PROVE  /\ CollectContext(w) => Goes(w, "context.collect", {"context.enqueue"})
         /\ EnqueuePlan(w)    => Goes(w, "context.enqueue", {"ok"})
         /\ EscalateRead(w)   => Goes(w, "escalate", {"escalate.cas", "ok"})
         /\ EscalateMove(w)   => Goes(w, "escalate.cas", {"ok"})
         /\ ClaimNext(w)      => Goes(w, "idle", Kind)
         /\ CompleteJob(w)    => Goes(w, "ok", {})
         /\ FailJob(w)        => Goes(w, "err", {"escalate"})
         /\ StepFails(w)      => pc'[w] = "err" /\ pc[w] # "err"
         /\ Crash(w)          => pc'[w] = "idle" /\ pc[w] # "idle"
         /\ ReadWork(w) =>
              pc[w] \in Kind /\ pc'[w] = Entry(pc[w], incident[work[w].id], project.paused)
BY DEF TypeOK, CollectContext, EnqueuePlan, EscalateRead, EscalateMove, ClaimNext,
       CompleteJob, FailJob, StepFails, Crash, ReadWork, Return, Jobs, Subject,
       Transition, Choose, EnqueueStep, Goto, Fail, Goes

Entries ==
  {"context.collect", "context.enqueue", "plan.start", "plan.model", "execute.block",
   "execute.load", "verify.load", "diagnose.start", "diagnose.model", "repair.start",
   "repair.model", "build.pause", "build.test", "err", "ok"}

\* A handler that has read its incident's state begins at one of the entries.
LEMMA ReadFlow ==
  ASSUME NEW w \in Workers, NEW state, NEW paused, pc[w] \in Kind
  PROVE  Entry(pc[w], state, paused) \in Entries
<1>1. CASE pc[w] \in {"context", "plan", "verify", "diagnose", "repair"}
  BY <1>1 DEF Entry, Kind, ContextEntry, PlanEntry, VerifyEntry, DiagnoseEntry,
     RepairEntry, Entries
<1>2. CASE pc[w] \in {"execute", "build"}
  BY <1>2 DEF Entry, Kind, ExecuteEntry, BuildEntry, Entries
<1> QED BY <1>1, <1>2 DEF Kind

\* By which action a worker came to a point.
LEMMA CameFrom ==
  ASSUME Basic, NEW w \in Workers, ControlStep(w)
  PROVE  /\ pc'[w] \in Kind => ClaimNext(w)
         /\ pc'[w] \in Entries \ {"ok", "err"} =>
              ReadWork(w) \/ CollectContext(w) \/ StartReasoning(w) \/ StartDiagnosis(w)
              \/ StartRepair(w)
         /\ pc'[w] = "plan.propose" => PlanOperations(w)
         /\ pc'[w] = "plan.policy" => Propose(w)
         /\ pc'[w] = "plan.persist" => ConsultPolicy(w)
         /\ pc'[w] \in {"plan.allow", "plan.require", "plan.block"} => PersistAction(w)
         /\ pc'[w] = "plan.enqueue" => AllowAction(w)
         /\ pc'[w] = "plan.wait" => RequireApproval(w)
         /\ pc'[w] = "plan.pause" => BlockAction(w)
         /\ pc'[w] = "execute.pause" => BlockExecution(w)
         /\ pc'[w] = "execute.claim" => LoadAction(w)
         /\ pc'[w] = "execute.call" => ClaimAction(w)
         /\ pc'[w] = "execute.answer" => CallHelper(w)
         /\ pc'[w] = "execute.executed" => HelperAnswers(w)
         /\ pc'[w] = "execute.audit" => MarkExecuted(w)
         /\ pc'[w] = "execute.verify" => LoadAction(w) \/ AuditExecution(w)
         /\ pc'[w] = "execute.enqueue" => BeginVerification(w)
         /\ pc'[w] = "execute.failClosed" => CallHelper(w) \/ HelperAnswers(w)
         /\ pc'[w] = "execute.ambiguous" => LoadAction(w) \/ HelperAnswers(w)
         /\ pc'[w] = "verify.check" => LoadExecuted(w)
         /\ pc'[w] \in {"verify.failed", "verify.next", "verify.verified"} => CheckRecovery(w)
         /\ pc'[w] = "verify.resolve" => MarkVerified(w)
         /\ pc'[w] = "diagnose.attempt" => Diagnose(w)
         /\ pc'[w] = "diagnose.plan" => CreateAttempt(w)
         /\ pc'[w] = "diagnose.enqueue" => PlanRepair(w)
         /\ pc'[w] = "repair.enqueue" => ProposeRepair(w)
         /\ pc'[w] = "escalate.cas" => EscalateRead(w)
<1> USE DEF Goes, Entries, Kind
<1>t. TypeOK
  BY DEF Basic
<1>1. CASE Plan(w)
  BY <1>t, <1>1, PlanFlow, PersistFlow DEF Plan
<1>2. CASE Execute(w)
  BY <1>t, <1>2, ExecuteFlow DEF Execute
<1>3. CASE Verify(w)
  BY <1>t, <1>3, VerifyFlow DEF Verify
<1>4. CASE Repair(w)
  BY <1>t, <1>4, RepairFlow DEF Repair
<1>5. CASE ReadWork(w)
  BY <1>t, <1>5, LoopFlow, ReadFlow
<1>6. CASE CollectContext(w) \/ EnqueuePlan(w) \/ EscalateRead(w) \/ EscalateMove(w)
           \/ ClaimNext(w) \/ CompleteJob(w) \/ FailJob(w) \/ StepFails(w) \/ Crash(w)
  BY <1>t, <1>6, LoopFlow
<1> QED BY <1>1, <1>2, <1>3, <1>4, <1>5, <1>6 DEF ControlStep, WorkerStep

\* A worker that is not idle after a step has just claimed a job or works on the
\* incident it worked on before.
LEMMA SameSubject ==
  ASSUME Basic, NEW w \in Workers, ControlStep(w), ~ClaimNext(w), pc'[w] # "idle"
  PROVE  pc[w] # "idle" /\ work'[w].id = work[w].id
<1>1. \A points \in PointSets : "idle" \notin points
  BY HandlerPoints DEF Ends
<1>2. ASSUME NEW points \in PointSets, Stays(w, points)
      PROVE  pc[w] # "idle" /\ work'[w].id = work[w].id
  BY <1>1, <1>2 DEF Stays
<1>3. ContextPoints \in PointSets /\ PlanPoints \in PointSets /\ ExecutePoints \in PointSets
      /\ VerifyPoints \in PointSets /\ {DiagnosePoints, RepairPoints, BuildPoints} \subseteq PointSets
  BY DEF PointSets
<1>4. CASE Plan(w) \/ Execute(w) \/ Verify(w) \/ Repair(w) \/ CollectContext(w)
             \/ EnqueuePlan(w) \/ ReadWork(w)
  BY <1>2, <1>3, <1>4, PlanBasic, ExecuteBasic, VerifyBasic, RepairBasic, ContextBasic,
     ReadBasic
<1>5. CASE EscalateRead(w) \/ EscalateMove(w) \/ CompleteJob(w) \/ FailJob(w) \/ StepFails(w)
  <2>1. pc[w] # "idle"
    BY <1>5 DEF EscalateRead, EscalateMove, Transition, CompleteJob, FailJob, Goto, StepFails,
       Basic,
       Agreement, Agrees
  <2>2. work[w] \in Work /\ w \in DOMAIN work
    BY <2>1 DEF Basic, Agreement, Agrees, TypeOK
  <2>3. \/ \E to : Goto(w, pc[w], to)
        \/ work' = [work EXCEPT ![w].state = incident[Subject(w)]]
    BY <1>5 DEF EscalateRead, EscalateMove, Transition, CompleteJob, FailJob, Goto, StepFails
  <2>4. CASE \E to : Goto(w, pc[w], to)
    BY <2>1, <2>2, <2>4 DEF Goto, Kept, Fresh, Basic, TypeOK
  <2>5. CASE work' = [work EXCEPT ![w].state = incident[Subject(w)]]
    BY <2>1, <2>2, <2>5 DEF Work
  <2> QED BY <2>3, <2>4, <2>5
<1>6. CASE Crash(w)
  BY <1>6, LoopFlow DEF Basic
<1> QED BY <1>4, <1>5, <1>6 DEF ControlStep, WorkerStep

\* An incident, once opened, stays.
LEMMA NeverAbsent ==
  ASSUME Basic, [Next]_vars, NEW i \in Incidents, incident[i] # "absent"
  PROVE  incident'[i] # "absent"
<1>i. incident \in [Incidents -> IncidentState \union {"absent"}] /\ "absent" \notin IncidentState
  BY DEF Basic, TypeOK, IncidentState
<1>t. ASSUME NEW w \in Workers, NEW from, NEW expected, NEW next, NEW to, next # "absent",
             Transition(w, from, expected, next, to)
      PROVE  incident'[i] # "absent"
  BY <1>t, <1>i DEF Transition
<1>1. ASSUME NEW w \in Workers, ControlStep(w) PROVE incident'[i] # "absent"
  <2>1. CASE Plan(w)
    BY <1>i, <1>t, <2>1 DEF Plan, StartReasoning, PlanOperations, Propose, ConsultPolicy,
       PersistAction,
       AllowAction, EnqueueExecute, RequireApproval, WaitForApproval, BlockAction, PausePlan,
       MarkStep,
       Choose, EnqueueStep, dataVars
  <2>2. CASE Execute(w)
    BY <1>i, <1>t, <2>2 DEF Execute, BlockExecution, PauseExecution, LoadAction, ClaimAction,
       CallHelper,
       HelperAnswers, MarkExecuted, MarkFailClosed, MarkAmbiguous, AuditExecution,
       BeginVerification,
       EnqueueVerify, MarkStep, Choose, EnqueueStep, dataVars
  <2>3. CASE Verify(w) \/ Repair(w)
    BY <1>i, <1>t, <2>3 DEF Verify, LoadExecuted, CheckRecovery, EnqueueNextCheck, MarkFailed,
       MarkVerified,
       Resolve, Repair, StartDiagnosis, Diagnose, CreateAttempt, PlanRepair, EnqueueRepair,
       StartRepair,
       ProposeRepair, EnqueueBuild, PauseBuild, StartTesting, MarkStep, Choose, EnqueueStep,
       dataVars
  <2>4. CASE CollectContext(w) \/ EnqueuePlan(w) \/ EscalateRead(w) \/ EscalateMove(w)
               \/ ReadWork(w)
             \/ ClaimNext(w) \/ CompleteJob(w) \/ FailJob(w) \/ StepFails(w) \/ Crash(w)
    BY <1>i, <1>t, <2>4 DEF CollectContext, EnqueuePlan, EscalateRead, EscalateMove, ReadWork,
       ClaimNext,
       CompleteJob, FailJob, StepFails, Crash, EnqueueStep, dataVars
  <2> QED BY <1>1, <2>1, <2>2, <2>3, <2>4 DEF ControlStep, WorkerStep
<1>2. ASSUME NEW k \in Incidents, OutsideStep(k) PROVE incident'[i] # "absent"
  BY <1>i, <1>2 DEF OutsideStep, OpenIncident, Approve, Reject, HelperRestarts, CooldownOver,
     dataVars
<1>3. CASE SetSafetyMode \/ Pause \/ Resume \/ UNCHANGED vars
  BY <1>i, <1>3 DEF SetSafetyMode, Pause, Resume, vars, dataVars
<1> QED BY <1>1, <1>2, <1>3, Parted DEF OutsideStep

\* Every step keeps jobs and workers on opened incidents.
LEMMA PresentKept ==
  ASSUME Basic, [Next]_vars
  PROVE  Present'
<1>1. ASSUME NEW j \in Jobs, Enqueued(j)' PROVE incident'[j[1]] # "absent"
  <2>i. j[1] \in Incidents
    BY DEF Jobs
  <2>1. CASE Enqueued(j)
    BY <2>1, <2>i, NeverAbsent DEF Basic, Present
  <2>2. ASSUME NEW w \in Workers, EnqueuedBy(w, j) PROVE incident'[j[1]] # "absent"
    <3>1. pc[w] # "idle"
      BY <2>2 DEF EnqueuedBy, Enqueues
    <3> QED BY <2>2, <2>i, <3>1, NeverAbsent DEF EnqueuedBy, Basic, Present
  <2>3. ASSUME NEW i \in Incidents, OpenIncident(i), j[1] = i PROVE incident'[j[1]] # "absent"
    BY <2>3 DEF OpenIncident, Basic, TypeOK
  <2>4. ASSUME NEW i \in Incidents, Approve(i), j[1] = i PROVE incident'[j[1]] # "absent"
    BY <2>4 DEF Approve, Basic, TypeOK
  <2>5. ASSUME Resume, j[1] \in PausedIncidents PROVE incident'[j[1]] # "absent"
    BY <2>5 DEF Resume, PausedIncidents
  <2> QED BY <1>1, <2>1, <2>2, <2>3, <2>4, <2>5, NewJobs
<1>2. ASSUME NEW w \in Workers, pc'[w] # "idle" PROVE incident'[work'[w].id] # "absent"
  <2>1. CASE pc'[w] = pc[w] /\ work'[w] = work[w]
    <3>1. work[w].id \in Incidents
      BY <1>2, <2>1 DEF Basic, Agreement, Agrees, Work
    <3> QED BY <1>2, <2>1, <3>1, NeverAbsent DEF Basic, Present
  <2>2. CASE ControlStep(w) /\ ~ClaimNext(w)
    <3>1. pc[w] # "idle" /\ work'[w].id = work[w].id
      BY <1>2, <2>2, SameSubject
    <3>2. work[w].id \in Incidents
      BY <3>1 DEF Basic, Agreement, Agrees, Work
    <3> QED BY <3>1, <3>2, NeverAbsent DEF Basic, Present
  <2>3. CASE ClaimNext(w)
    <3>1. PICK j \in Jobs : Claims(w, j)
      BY <2>3, ClaimTaken
    <3>2. j[1] \in Incidents /\ work'[w].id = j[1]
      BY <3>1 DEF Jobs, Claims, Fresh
    <3> QED BY <3>1, <3>2, NeverAbsent DEF Basic, Present, Claims
  <2>4. ASSUME NEW v \in Workers \ {w}, ControlStep(v)
        PROVE pc'[w] = pc[w] /\ work'[w] = work[w]
    BY <2>4, OneMoves DEF Elsewhere, Basic
  <2>5. UNCHANGED <<lease, pc, work>> \/ \E v \in Workers : ControlStep(v)
    BY Parted, OutsideKeepsWorkers DEF OutsideStep
  <2> QED BY <2>1, <2>2, <2>3, <2>4, <2>5
<1> QED BY <1>1, <1>2 DEF Present

\* Basic is inductive by itself.
LEMMA BasicKept ==
  ASSUME Basic, [Next]_vars
  PROVE  Basic'
<1>1. QP!IInv'
  BY QueueStep, QP!NextKeeps, JobAttempts DEF Basic
<1>2. Q!TypeOK'
  <2>1. QP!TypeOK'
    BY <1>1 DEF QP!IInv
  <2> QED BY <2>1, QueueTypes, PTL
<1>3. TypeOK'
  BY <1>2, DataTypes, AgreementKept DEF TypeOK, TypedData, TypedControl
<1> QED BY <1>1, <1>3, AgreementKept, PresentKept DEF Basic

\* In every reachable state the rows are typed, the queue's invariant holds, every
\* worker inside a handler of the worker's loop holds that job's lease, and nothing
\* is done for an incident that was never opened.
THEOREM OperationsBasic == Spec => []Basic
<1>1. Basic /\ [Next]_vars => Basic'
  BY BasicKept
<1> QED BY <1>1, BasicInit, PTL DEF Spec

\* The type invariant of the whole pipeline.
THEOREM OperationsTypeOK == Spec => []TypeOK
<1>1. Basic => TypeOK
  BY DEF Basic
<1> QED BY <1>1, OperationsBasic, PTL

-------------------------------------------------------------------------------
(* Who writes what.                                                        *)

\* The moves the handlers make: where, from which state, to which.
Moving ==
  {<<"context.collect", "Open", "CollectingContext">>,
   <<"plan.start", "CollectingContext", "Diagnosing">>,
   <<"plan.propose", "Diagnosing", "Planning">>,
   <<"plan.allow", "Planning", "Repairing">>,
   <<"plan.wait", "Planning", "WaitingApproval">>,
   <<"plan.pause", "Planning", "Paused">>,
   <<"execute.pause", "Repairing", "Paused">>,
   <<"execute.verify", "Repairing", "VerifyingProduction">>,
   <<"verify.resolve", "VerifyingProduction", "Resolved">>,
   <<"diagnose.start", "CollectingContext", "Diagnosing">>,
   <<"diagnose.plan", "Diagnosing", "Planning">>,
   <<"repair.start", "Planning", "Repairing">>,
   <<"build.test", "Repairing", "Testing">>}

MovedBy(w, i) ==
  /\ work[w].id = i
  /\ \/ <<pc[w], incident[i], incident'[i]>> \in Moving
     \/ pc[w] = "build.pause" /\ incident'[i] = "Paused"
     \/ pc[w] = "escalate.cas" /\ incident[i] \notin Settled /\ incident'[i] = "Escalated"

\* The one incident a transition writes is the worker's own, from the expected state.
LEMMA TransitionMovesBy ==
  ASSUME Basic, NEW w \in Workers, NEW i \in Incidents, incident'[i] # incident[i],
         NEW from, NEW expected, NEW next, NEW to,
         Transition(w, from, expected, next, to)
  PROVE  pc[w] = from /\ work[w].id = i /\ incident[i] = expected /\ incident'[i] = next
BY DEF Transition, Basic, TypeOK, Subject

\* Who writes an incident's row.
LEMMA IncidentMoves ==
  ASSUME Basic, [Next]_vars, NEW i \in Incidents, incident'[i] # incident[i]
  PROVE  \/ \E w \in Workers : ControlStep(w) /\ MovedBy(w, i)
         \/ OpenIncident(i) \/ Approve(i) \/ Reject(i)
         \/ Resume /\ incident[i] = "Paused" /\ incident'[i] = "CollectingContext"
<1>i. incident \in [Incidents -> IncidentState \union {"absent"}]
  BY DEF Basic, TypeOK
<1>1. ASSUME NEW w \in Workers, ControlStep(w) PROVE MovedBy(w, i)
  <2> USE TransitionMovesBy DEF MovedBy, Moving
  <2>1. CASE Plan(w)
    <3>1. CASE StartReasoning(w) \/ Propose(w) \/ AllowAction(w) \/ WaitForApproval(w)
               \/ PausePlan(w)
      BY <3>1 DEF StartReasoning, Propose, AllowAction, WaitForApproval, PausePlan
    <3>2. ~(PlanOperations(w) \/ ConsultPolicy(w) \/ PersistAction(w) \/ EnqueueExecute(w)
            \/ RequireApproval(w) \/ BlockAction(w))
      BY DEF PlanOperations, ConsultPolicy, PersistAction, EnqueueExecute, RequireApproval,
         BlockAction, MarkStep, Choose, EnqueueStep, dataVars
    <3> QED BY <2>1, <3>1, <3>2 DEF Plan
  <2>2. CASE Execute(w)
    <3>1. CASE PauseExecution(w) \/ BeginVerification(w)
      BY <3>1 DEF PauseExecution, BeginVerification
    <3>2. ~(BlockExecution(w) \/ LoadAction(w) \/ ClaimAction(w) \/ CallHelper(w)
            \/ HelperAnswers(w) \/ MarkExecuted(w) \/ MarkFailClosed(w) \/ MarkAmbiguous(w)
            \/ AuditExecution(w) \/ EnqueueVerify(w))
      BY DEF BlockExecution, LoadAction, ClaimAction, CallHelper, HelperAnswers, MarkExecuted,
         MarkFailClosed, MarkAmbiguous, AuditExecution, EnqueueVerify, MarkStep, Choose,
         EnqueueStep, dataVars
    <3> QED BY <2>2, <3>1, <3>2 DEF Execute
  <2>3. CASE Verify(w)
    BY <2>3 DEF Verify, LoadExecuted, CheckRecovery, EnqueueNextCheck, MarkFailed,
       MarkVerified,
       Resolve, MarkStep, Choose, EnqueueStep, dataVars
  <2>4. CASE Repair(w)
    <3>1. CASE StartDiagnosis(w) \/ PlanRepair(w) \/ StartRepair(w) \/ PauseBuild(w)
               \/ StartTesting(w)
      BY <3>1 DEF StartDiagnosis, PlanRepair, StartRepair, PauseBuild, StartTesting
    <3>2. ~(Diagnose(w) \/ CreateAttempt(w) \/ EnqueueRepair(w) \/ ProposeRepair(w)
            \/ EnqueueBuild(w))
      BY DEF Diagnose, CreateAttempt, EnqueueRepair, ProposeRepair, EnqueueBuild, MarkStep,
         Choose, EnqueueStep, dataVars
    <3> QED BY <2>4, <3>1, <3>2 DEF Repair
  <2>5. CASE EscalateMove(w)
    <3>1. work[w].state \notin Settled
      BY <2>5 DEF EscalateMove, Transition, Basic, Agreement, Agrees
    <3> QED BY <2>5, <3>1 DEF EscalateMove
  <2>6. CASE CollectContext(w) \/ EnqueuePlan(w) \/ EscalateRead(w) \/ ReadWork(w)
             \/ ClaimNext(w) \/ CompleteJob(w) \/ FailJob(w) \/ StepFails(w) \/ Crash(w)
    BY <2>6 DEF CollectContext, EnqueuePlan, EscalateRead, ReadWork, ClaimNext,
       CompleteJob, FailJob, StepFails, Crash, EnqueueStep, dataVars
  <2> QED BY <1>1, <2>1, <2>2, <2>3, <2>4, <2>5, <2>6 DEF ControlStep, WorkerStep
<1>2. ASSUME NEW k \in Incidents, OutsideStep(k)
      PROVE  OpenIncident(i) \/ Approve(i) \/ Reject(i)
  <2>1. k = i
    BY <1>2, <1>i DEF OutsideStep, OpenIncident, Approve, Reject, HelperRestarts,
       CooldownOver, dataVars
  <2> QED BY <1>2, <2>1 DEF OutsideStep, HelperRestarts, CooldownOver, dataVars
<1>3. ASSUME Resume PROVE incident[i] = "Paused" /\ incident'[i] = "CollectingContext"
  BY <1>3 DEF Resume, PausedIncidents
<1>4. ~(SetSafetyMode \/ Pause \/ UNCHANGED vars)
  BY DEF SetSafetyMode, Pause, vars, dataVars
<1> QED BY <1>1, <1>2, <1>3, <1>4, Parted DEF OutsideStep

\* The statuses the handlers write: where, and which.
Marking ==
  {<<"plan.require", "APPROVAL_REQUIRED">>, <<"plan.block", "BLOCKED">>,
   <<"execute.block", "BLOCKED">>, <<"execute.claim", "RUNNING">>,
   <<"execute.executed", "EXECUTED">>, <<"execute.failClosed", "FAILED_CLOSED">>,
   <<"execute.ambiguous", "AMBIGUOUS">>, <<"verify.failed", "VERIFICATION_FAILED">>,
   <<"verify.verified", "VERIFIED">>}

MarkedBy(w, i) ==
  /\ work[w].id = i
  /\ \/ /\ <<pc[w], action'[i].status>> \in Marking
        /\ action'[i].decision = action[i].decision
        /\ pc[w] = "execute.claim" => action[i].status = "PLANNED"
     \/ /\ pc[w] = "plan.persist" /\ action[i].status = "none"
        /\ action'[i] = [status |-> "PLANNED", decision |-> work[w].verdict]

\* The one action a handler marks is that of the worker's incident.
LEMMA MarkMoves ==
  ASSUME Basic, NEW w \in Workers, NEW i \in Incidents, action'[i] # action[i],
         NEW from, NEW status, NEW to, MarkStep(w, from, status, to)
  PROVE  /\ pc[w] = from /\ work[w].id = i /\ action'[i].status = status
         /\ action'[i].decision = action[i].decision
BY DEF MarkStep, Goto, Basic, TypeOK, Subject

\* Who writes an action's row.
LEMMA ActionMoves ==
  ASSUME Basic, [Next]_vars, NEW i \in Incidents, action'[i] # action[i]
  PROVE  \/ \E w \in Workers : ControlStep(w) /\ MarkedBy(w, i)
         \/ Approve(i) \/ Reject(i)
<1>i. action \in [Incidents -> [status : ActionStatus, decision : Decision]]
  BY DEF Basic, TypeOK
<1>1. ASSUME NEW w \in Workers, ControlStep(w) PROVE MarkedBy(w, i)
  <2> USE MarkMoves DEF MarkedBy, Marking
  <2>1. CASE Plan(w) /\ ~PersistAction(w)
    <3>1. CASE RequireApproval(w) \/ BlockAction(w)
      BY <3>1 DEF RequireApproval, BlockAction
    <3>2. CASE ConsultPolicy(w)
      BY <3>2 DEF ConsultPolicy, dataVars
    <3>3. CASE StartReasoning(w) \/ PlanOperations(w) \/ Propose(w) \/ AllowAction(w)
                 \/ EnqueueExecute(w)
               \/ WaitForApproval(w) \/ PausePlan(w)
      BY <3>3 DEF StartReasoning, PlanOperations, Propose, AllowAction, EnqueueExecute,
         WaitForApproval,
         PausePlan, Transition, Choose, EnqueueStep, dataVars
    <3> QED BY <2>1, <3>1, <3>2, <3>3 DEF Plan
  <2>2. CASE PersistAction(w)
    BY <1>i, <2>2 DEF PersistAction, Goto, Subject
  <2>3. CASE Execute(w)
    <3>1. ClaimAction(w) => action[i].status = "PLANNED"
      BY DEF ClaimAction, Choose, dataVars, MarkStep, Goto, Subject
    <3> QED
    BY <2>3, <3>1 DEF Execute, BlockExecution, PauseExecution, LoadAction, ClaimAction,
       CallHelper,
       HelperAnswers, MarkExecuted, MarkFailClosed, MarkAmbiguous, AuditExecution,
       BeginVerification,
       EnqueueVerify, Transition, Choose, EnqueueStep, dataVars
  <2>4. CASE Verify(w)
    BY <2>4 DEF Verify, LoadExecuted, CheckRecovery, EnqueueNextCheck, MarkFailed,
       MarkVerified,
       Resolve, Transition, Choose, EnqueueStep, dataVars
  <2>5. CASE Repair(w)
    BY <2>5 DEF Repair, StartDiagnosis, Diagnose, CreateAttempt, PlanRepair, EnqueueRepair,
       StartRepair,
       ProposeRepair, EnqueueBuild, PauseBuild, StartTesting, Transition, Choose, EnqueueStep,
       dataVars
  <2>6. CASE CollectContext(w) \/ EnqueuePlan(w) \/ EscalateRead(w) \/ EscalateMove(w)
               \/ ReadWork(w)
             \/ ClaimNext(w) \/ CompleteJob(w) \/ FailJob(w) \/ StepFails(w) \/ Crash(w)
    BY <2>6 DEF CollectContext, EnqueuePlan, EscalateRead, EscalateMove, ReadWork, ClaimNext,
       CompleteJob, FailJob, StepFails, Crash, Transition, EnqueueStep, dataVars
  <2> QED BY <1>1, <2>1, <2>2, <2>3, <2>4, <2>5, <2>6 DEF ControlStep, WorkerStep
<1>2. ASSUME NEW k \in Incidents, OutsideStep(k) PROVE Approve(i) \/ Reject(i)
  <2>1. k = i
    BY <1>2, <1>i DEF OutsideStep, OpenIncident, Approve, Reject, HelperRestarts,
       CooldownOver, dataVars
  <2> QED BY <1>2, <2>1 DEF OutsideStep, OpenIncident, HelperRestarts, CooldownOver, dataVars
<1>3. ~(SetSafetyMode \/ Pause \/ Resume \/ UNCHANGED vars)
  BY DEF SetSafetyMode, Pause, Resume, vars, dataVars
<1> QED BY <1>1, <1>2, <1>3, Parted DEF OutsideStep

\* Who sends to the helper, who restarts the container, and when the helper refuses.
LEMMA HelperMoves ==
  ASSUME Basic, [Next]_vars, NEW i \in Incidents
  PROVE  /\ tries'[i] # tries[i] =>
              \E w \in Workers : /\ CallHelper(w) /\ pc'[w] = "execute.answer" /\ work[w].id = i
                                 /\ \E t \in Tries : tries'[i] = tries[i] \union {t}
         /\ phase'[i] # phase[i] =>
              /\ HelperRestarts(i)
              /\ \/ phase[i] = "untouched" /\ tries[i] # {} /\ (i \in refused => RO!TriedAgain(i))
                 \/ phase[i] = "issued" /\ phase'[i] = "done"
         /\ (i \in refused' /\ i \notin refused) =>
              /\ \E w \in Workers : HelperAnswers(w) /\ work[w].id = i
              /\ tries[i] # {} /\ (phase[i] = "untouched" \/ RO!TriedAgain(i))
         /\ i \in refused => i \in refused'
<1> DEFINE Goal ==
         /\ tries'[i] # tries[i] =>
              \E w \in Workers : /\ CallHelper(w) /\ pc'[w] = "execute.answer" /\ work[w].id = i
                                 /\ \E t \in Tries : tries'[i] = tries[i] \union {t}
         /\ phase'[i] # phase[i] =>
              /\ HelperRestarts(i)
              /\ \/ phase[i] = "untouched" /\ tries[i] # {} /\ (i \in refused => RO!TriedAgain(i))
                 \/ phase[i] = "issued" /\ phase'[i] = "done"
         /\ (i \in refused' /\ i \notin refused) =>
              /\ \E w \in Workers : HelperAnswers(w) /\ work[w].id = i
              /\ tries[i] # {} /\ (phase[i] = "untouched" \/ RO!TriedAgain(i))
         /\ i \in refused => i \in refused'
<1>t. RO!ROTypeOK /\ pc \in [Workers -> Point]
  BY DEF Basic, TypeOK
<1>u. UNCHANGED helperVars => Goal
  BY DEF helperVars
<1>1. ASSUME NEW w \in Workers, ControlStep(w) PROVE Goal
  <2>1. CASE CallHelper(w)
    <3>1. CASE UNCHANGED helperVars
      BY <1>u, <3>1
    <3>2. CASE Goto(w, "execute.call", "execute.answer") /\ \E t \in Tries : RO!Try(Subject(w), t)
      <4>1. pc'[w] = "execute.answer" /\ UNCHANGED <<phase, refused>>
        BY <1>t, <3>2 DEF Goto, RO!Try
      <4>2. tries'[i] # tries[i] => Subject(w) = i /\ \E t \in Tries : tries'[i] = tries[i] \union {t}
        BY <1>t, <3>2 DEF RO!Try, RO!ROTypeOK
      <4> QED BY <2>1, <4>1, <4>2 DEF Subject
    <3> QED BY <2>1, <3>1, <3>2 DEF CallHelper, Choose
  <2>2. CASE HelperAnswers(w)
    <3>1. UNCHANGED <<tries, phase>>
      BY <2>2 DEF HelperAnswers, RO!Vouch, RO!Refuse, helperVars
    <3>2. refused' = refused \/ RO!Refuse(Subject(w))
      BY <2>2 DEF HelperAnswers, RO!Vouch, helperVars
    <3>3. RO!Refuse(Subject(w)) /\ i \in refused' /\ i \notin refused =>
            Subject(w) = i /\ tries[i] # {} /\ (phase[i] = "untouched" \/ RO!TriedAgain(i))
      BY DEF RO!Refuse
    <3>4. refused \subseteq refused'
      BY <3>2 DEF RO!Refuse
    <3> QED BY <2>2, <3>1, <3>2, <3>3, <3>4 DEF Subject
  <2>3. CASE Plan(w) \/ Verify(w)
    BY <1>u, <2>3 DEF Plan, StartReasoning, PlanOperations, Propose, ConsultPolicy,
       PersistAction,
       AllowAction, EnqueueExecute, RequireApproval, WaitForApproval, BlockAction, PausePlan,
       Verify, LoadExecuted, CheckRecovery, EnqueueNextCheck, MarkFailed, MarkVerified,
       Resolve,
       Transition, MarkStep, Choose, EnqueueStep
  <2>4. CASE Execute(w) /\ ~CallHelper(w) /\ ~HelperAnswers(w)
    BY <1>u, <2>4 DEF Execute, BlockExecution, PauseExecution, LoadAction, ClaimAction,
       MarkExecuted, MarkFailClosed, MarkAmbiguous, AuditExecution, BeginVerification,
       EnqueueVerify, Transition, MarkStep, Choose, EnqueueStep
  <2>5. CASE Repair(w)
    BY <1>u, <2>5 DEF Repair, StartDiagnosis, Diagnose, CreateAttempt, PlanRepair,
       EnqueueRepair,
       StartRepair, ProposeRepair, EnqueueBuild, PauseBuild, StartTesting, Transition, Choose,
       EnqueueStep
  <2>6. CASE CollectContext(w) \/ EnqueuePlan(w) \/ EscalateRead(w) \/ EscalateMove(w)
               \/ ReadWork(w)
             \/ ClaimNext(w) \/ CompleteJob(w) \/ FailJob(w) \/ StepFails(w) \/ Crash(w)
    BY <1>u, <2>6 DEF CollectContext, EnqueuePlan, EscalateRead, EscalateMove, ReadWork,
       ClaimNext,
       CompleteJob, FailJob, StepFails, Crash, Transition, EnqueueStep
  <2> QED BY <1>1, <2>1, <2>2, <2>3, <2>4, <2>5, <2>6 DEF ControlStep, WorkerStep
<1>2. ASSUME NEW k \in Incidents, HelperRestarts(k) PROVE Goal
  <2>1. UNCHANGED <<tries, refused>>
    BY <1>2 DEF HelperRestarts, RO!Issue, RO!Restarted
  <2>2. phase'[i] # phase[i] =>
          k = i /\ \/ phase[i] = "untouched" /\ tries[i] # {} /\ (i \in refused => RO!TriedAgain(i))
                   \/ phase[i] = "issued" /\ phase'[i] = "done"
    BY <1>2, <1>t DEF HelperRestarts, RO!Issue, RO!Restarted, RO!ROTypeOK
  <2> QED BY <1>2, <2>1, <2>2
<1>3. ASSUME NEW k \in Incidents, OutsideStep(k), ~HelperRestarts(k) PROVE Goal
  BY <1>u, <1>3 DEF OutsideStep, OpenIncident, Approve, Reject, CooldownOver
<1>4. CASE SetSafetyMode \/ Pause \/ Resume \/ UNCHANGED vars
  BY <1>u, <1>4 DEF SetSafetyMode, Pause, Resume, vars
<1> QED BY <1>1, <1>2, <1>3, <1>4, Parted DEF OutsideStep

\* Grants and attempts only grow, and only a check counts a pass.
LEMMA OthersMove ==
  ASSUME Basic, [Next]_vars, NEW i \in Incidents
  PROVE  /\ i \in granted => i \in granted'
         /\ passed'[i] # passed[i] => \E w \in Workers : CheckRecovery(w) /\ work[w].id = i
         /\ attempts[i].made > 0 => attempts'[i].made > 0
<1> DEFINE Goal ==
         /\ i \in granted => i \in granted'
         /\ passed'[i] # passed[i] => \E w \in Workers : CheckRecovery(w) /\ work[w].id = i
         /\ attempts[i].made > 0 => attempts'[i].made > 0
<1>t. passed \in [Incidents -> Nat] /\ attempts \in [Incidents -> [made : Nat, current : Nat]]
  BY DEF Basic, TypeOK
<1>u. UNCHANGED <<attempts, ghostVars>> => Goal
  BY DEF ghostVars
<1>1. ASSUME NEW w \in Workers, ControlStep(w) PROVE Goal
  <2>1. CASE Plan(w) /\ ~ConsultPolicy(w)
    BY <1>u, <2>1 DEF Plan, StartReasoning, PlanOperations, Propose, PersistAction,
       AllowAction, EnqueueExecute, RequireApproval, WaitForApproval, BlockAction, PausePlan,
       Transition, MarkStep, Choose, EnqueueStep, dataVars
  <2>2. CASE ConsultPolicy(w)
    BY <2>2 DEF ConsultPolicy, dataVars
  <2>3. CASE Execute(w)
    BY <1>u, <2>3 DEF Execute, BlockExecution, PauseExecution, LoadAction, ClaimAction,
       CallHelper, HelperAnswers, MarkExecuted, MarkFailClosed, MarkAmbiguous, AuditExecution,
       BeginVerification, EnqueueVerify, Transition, MarkStep, Choose, EnqueueStep, dataVars
  <2>4. CASE Verify(w) /\ ~CheckRecovery(w)
    BY <1>u, <2>4 DEF Verify, LoadExecuted, EnqueueNextCheck, MarkFailed, MarkVerified,
       Resolve,
       Transition, MarkStep, Choose, EnqueueStep, dataVars
  <2>5. CASE CheckRecovery(w)
    BY <1>t, <2>5 DEF CheckRecovery, dataVars, Subject
  <2>6. CASE Repair(w) /\ ~CreateAttempt(w)
    BY <1>u, <2>6 DEF Repair, StartDiagnosis, Diagnose, PlanRepair, EnqueueRepair,
       StartRepair, ProposeRepair, EnqueueBuild, PauseBuild, StartTesting, Transition, Choose,
       EnqueueStep, dataVars
  <2>7. CASE CreateAttempt(w)
    <3> DEFINE k == Subject(w)
               a == IF attempts[k].current # 0 THEN attempts[k].current ELSE attempts[k].made + 1
    <3>0. k \in Incidents
      BY <2>7, SubjectTypes DEF CreateAttempt
    <3>1. attempts' = [attempts EXCEPT ![k] =
                         [made |-> IF a > attempts[k].made THEN a ELSE attempts[k].made, current |-> a]]
      BY <2>7 DEF CreateAttempt
    <3>2. a \in Nat /\ attempts[k].made \in Nat /\ attempts[i].made \in Nat
      BY <1>t, <3>0
    <3>3. attempts'[i].made >= attempts[i].made
      BY <1>t, <3>0, <3>1, <3>2
    <3>4. attempts'[i].made \in Nat
      BY <1>t, <3>0, <3>1, <3>2
    <3> QED BY <2>7, <3>2, <3>3, <3>4 DEF CreateAttempt, ghostVars
  <2>8. CASE CollectContext(w) \/ EnqueuePlan(w) \/ EscalateRead(w) \/ EscalateMove(w)
               \/ ReadWork(w)
             \/ ClaimNext(w) \/ CompleteJob(w) \/ FailJob(w) \/ StepFails(w) \/ Crash(w)
    BY <1>u, <2>8 DEF CollectContext, EnqueuePlan, EscalateRead, EscalateMove, ReadWork,
       ClaimNext,
       CompleteJob, FailJob, StepFails, Crash, Transition, EnqueueStep, dataVars
  <2> QED BY <1>1, <2>1, <2>2, <2>3, <2>4, <2>5, <2>6, <2>7, <2>8 DEF ControlStep, WorkerStep
<1>2. ASSUME NEW k \in Incidents, OutsideStep(k) PROVE Goal
  BY <1>u, <1>2 DEF OutsideStep, OpenIncident, Approve, Reject, HelperRestarts, CooldownOver,
     dataVars
<1>3. CASE SetSafetyMode \/ Pause \/ UNCHANGED vars
  BY <1>u, <1>3 DEF SetSafetyMode, Pause, vars, dataVars
<1>4. CASE Resume
  BY <1>t, <1>4 DEF Resume, ghostVars
<1> QED BY <1>1, <1>2, <1>3, <1>4, Parted DEF OutsideStep

-------------------------------------------------------------------------------
(* PointSets and their jobs.                                                *)

\* A worker makes a step of its own or does not move.
LEMMA WorkerCases ==
  ASSUME Basic, [Next]_vars, NEW w \in Workers
  PROVE  ControlStep(w) \/ (pc'[w] = pc[w] /\ work'[w] = work[w] /\ lease'[w] = lease[w])
<1>1. ASSUME NEW v \in Workers, ControlStep(v), v # w
      PROVE  pc'[w] = pc[w] /\ work'[w] = work[w] /\ lease'[w] = lease[w]
  BY <1>1, OneMoves DEF Elsewhere, Basic
<1>2. UNCHANGED <<lease, pc, work>> \/ \E v \in Workers : ControlStep(v)
  BY Parted, OutsideKeepsWorkers DEF OutsideStep
<1> QED BY <1>1, <1>2

\* One worker at a time executes an incident's action, and it has claimed its job.
LEMMA ExecuteLease ==
  ASSUME Basic, NEW w \in Workers, pc[w] \in ExecutePoints
  PROVE  /\ work[w].id \in Incidents
         /\ ExecuteJob(work[w].id) \in Jobs
         /\ lease[w].job = ExecuteJob(work[w].id)
         /\ job[ExecuteJob(work[w].id)].attempt > 0
         /\ Enqueued(ExecuteJob(work[w].id))
         /\ \A v \in Workers :
              pc[v] \in ExecutePoints /\ work[v].id = work[w].id => v = w
<1>1. ASSUME NEW v \in Workers, pc[v] \in ExecutePoints
      PROVE  /\ work[v].id \in Incidents /\ lease[v] # Q!NoLease
             /\ lease[v].job = ExecuteJob(work[v].id) /\ lease[v].job \in Jobs
  <2>1. Runs(v, "execute") /\ work[v] \in Work
    BY <1>1, HandlerPoints DEF Basic, Agreement, Agrees, PointSets, Ends
  <2>2. lease[v].job \in Jobs
    BY <2>1, QueueFacts DEF Runs, Basic
  <2>3. lease[v].job = <<work[v].id, "execute", lease[v].job[3]>> /\ lease[v].job[3] = 0
    BY <2>1, <2>2 DEF Runs, Jobs, Numbers
  <2> QED BY <2>1, <2>2, <2>3 DEF Work, Runs, ExecuteJob
<1>2. job[lease[w].job].status = "RUNNING" /\ job[lease[w].job].attempt = lease[w].attempt
  BY <1>1, QueueFacts DEF Basic
<1>3. lease[w].attempt > 0
  BY <1>1 DEF Basic, Agreement, Agrees
<1> QED BY <1>1, <1>2, <1>3, QueueFacts DEF Basic, Enqueued

\* One worker at a time runs a check, and it has claimed its job.
LEMMA VerifyLease ==
  ASSUME Basic, NEW w \in Workers, pc[w] \in VerifyPoints
  PROVE  /\ work[w].id \in Incidents
         /\ work[w].n \in 0..(Required - 1)
         /\ VerifyJob(work[w].id, work[w].n) \in Jobs
         /\ lease[w].job = VerifyJob(work[w].id, work[w].n)
         /\ job[VerifyJob(work[w].id, work[w].n)].attempt > 0
         /\ Enqueued(VerifyJob(work[w].id, work[w].n))
         /\ \A v \in Workers :
              /\ pc[v] \in VerifyPoints
              /\ work[v].id = work[w].id /\ work[v].n = work[w].n
              => v = w
<1>1. ASSUME NEW v \in Workers, pc[v] \in VerifyPoints
      PROVE  /\ work[v].id \in Incidents /\ lease[v] # Q!NoLease /\ work[v].n \in 0..(Required - 1)
             /\ lease[v].job = VerifyJob(work[v].id, work[v].n) /\ lease[v].job \in Jobs
  <2>1. Runs(v, "verify") /\ work[v] \in Work /\ lease[v].job[3] = work[v].n
    BY <1>1, HandlerPoints DEF Basic, Agreement, Agrees, PointSets, Ends
  <2>2. lease[v].job \in Jobs
    BY <2>1, QueueFacts DEF Runs, Basic
  <2>3. lease[v].job = <<work[v].id, "verify", work[v].n>>
    BY <2>1, <2>2 DEF Runs, Jobs
  <2>4. work[v].n \in Numbers("verify")
    BY <2>1, <2>2 DEF Runs, Jobs
  <2> QED BY <2>1, <2>2, <2>3, <2>4 DEF Work, Runs, VerifyJob, Numbers
<1>2. job[lease[w].job].status = "RUNNING" /\ job[lease[w].job].attempt = lease[w].attempt
  BY <1>1, QueueFacts DEF Basic
<1>3. lease[w].attempt > 0
  BY <1>1 DEF Basic, Agreement, Agrees
<1> QED BY <1>1, <1>2, <1>3, QueueFacts DEF Basic, Enqueued

\* The execute job and the verify jobs of an incident are jobs of a single attempt.
LEMMA JobNames ==
  ASSUME NEW i \in Incidents
  PROVE  /\ ExecuteJob(i) \in Jobs
         /\ \A n \in 0..(Required - 1) : VerifyJob(i, n) \in Jobs
         /\ MaxAttempts[ExecuteJob(i)] = 1
         /\ \A n \in 0..(Required - 1) : MaxAttempts[VerifyJob(i, n)] = 1
<1>1. Required - 1 <= MaxResumes + Required /\ 0 <= MaxResumes + Required
      /\ MaxResumes \in Nat /\ Required \in Nat
  BY OperationsAssumption
<1>2. ExecuteJob(i) \in Jobs
  BY <1>1 DEF ExecuteJob, Jobs, Kind, Numbers
<1>3. ASSUME NEW n \in 0..(Required - 1) PROVE VerifyJob(i, n) \in Jobs
  BY <1>1 DEF VerifyJob, Jobs, Kind, Numbers
<1> QED BY <1>2, <1>3, OperationsAssumption DEF MaxAttempts, ExecuteJob, VerifyJob

\* A job's attempts never go back to zero.
LEMMA AttemptsGrow ==
  ASSUME Basic, [Next]_vars, NEW j \in Jobs
  PROVE  /\ job[j].attempt \in Nat
         /\ job'[j].attempt \in Nat
         /\ job[j].attempt > 0 => job'[j].attempt > 0
<1>1. job[j].attempt \in Nat
  BY DEF Basic, TypeOK, Q!TypeOK
<1> QED BY <1>1, JobsKept DEF Claims

\* A job of one attempt is claimed only when it was never claimed before.
LEMMA ClaimedOnce ==
  ASSUME Basic, NEW w \in Workers, NEW j \in Jobs, MaxAttempts[j] = 1, Claims(w, j)
  PROVE  job[j].attempt = 0
<1>1. job[j].attempt \in Nat
  BY DEF Basic, TypeOK, Q!TypeOK
<1> QED BY <1>1 DEF Claims

\* A worker in the execute handler has just claimed the job or was in it before.
LEMMA ExecuteCame ==
  ASSUME Basic, NEW w \in Workers, ControlStep(w), pc'[w] \in ExecutePoints
  PROVE  \/ ClaimNext(w) /\ pc'[w] = "execute"
         \/ /\ pc[w] \in ExecutePoints /\ work'[w].id = work[w].id /\ ~ClaimNext(w)
            /\ pc[w] \notin {"execute.failClosed", "execute.ambiguous", "execute.enqueue"}
            /\ pc'[w] \in BeforeCall => pc[w] \in BeforeCall \ {"execute.call"}
            /\ pc'[w] = "execute.enqueue" <=> BeginVerification(w)
<1>0. pc'[w] \notin {"idle", "err"} /\ (pc'[w] \in Kind => pc'[w] = "execute")
  BY DEF ExecutePoints, BeforeCall, AfterCall, Kind
<1>t. TypeOK
  BY DEF Basic
<1>1. CASE ClaimNext(w)
  BY <1>0, <1>1, <1>t, LoopFlow DEF Goes
<1>2. CASE ~ClaimNext(w)
  <2>1. work'[w].id = work[w].id /\ pc'[w] # "execute"
    BY <1>0, <1>2, SameSubject, CameFrom DEF Kind
  <2>2. CASE ReadWork(w)
    <3>1. pc'[w] \in Entries
      BY <2>2, <1>t, LoopFlow, ReadFlow
    <3>2. pc'[w] \in {"execute.block", "execute.load"} => pc[w] = "execute"
      BY <2>2, <1>t, LoopFlow DEF Kind, Entry, ContextEntry, PlanEntry, VerifyEntry,
         DiagnoseEntry, RepairEntry, BuildEntry
    <3>3. pc'[w] \in {"execute.block", "execute.load"}
      BY <3>1 DEF Entries, ExecutePoints, BeforeCall, AfterCall
    <3>4. ~BeginVerification(w)
      BY <1>t, <3>2, <3>3, ExecuteFlow DEF Goes
    <3> QED BY <1>2, <2>1, <3>2, <3>3, <3>4 DEF ExecutePoints, BeforeCall
  <2>3. CASE Execute(w)
    BY <1>2, <1>t, <2>1, <2>3, ExecuteFlow DEF Execute, Goes, ExecutePoints, BeforeCall,
       AfterCall
  <2>4. CASE ~Execute(w) /\ ~ReadWork(w)
    BY <1>2, <1>t, <2>1, <2>4, CameFrom, LoopFlow, PlanFlow, RepairFlow DEF Execute, Goes,
       ExecutePoints, BeforeCall, AfterCall, Entries
  <2> QED BY <2>2, <2>3, <2>4
<1> QED BY <1>1, <1>2

\* A worker in the verify handler has just claimed the job or was in it before.
LEMMA VerifyCame ==
  ASSUME Basic, NEW w \in Workers, ControlStep(w), pc'[w] \in VerifyPoints
  PROVE  \/ ClaimNext(w) /\ pc'[w] = "verify"
         \/ /\ pc[w] \in VerifyPoints /\ work'[w].id = work[w].id /\ work'[w].n = work[w].n
            /\ ~ClaimNext(w)
            /\ pc'[w] \in BeforeCheck => pc[w] \in {"verify", "verify.load"}
<1>0. pc'[w] \notin {"idle", "err"} /\ (pc'[w] \in Kind => pc'[w] = "verify")
  BY DEF VerifyPoints, BeforeCheck, AfterCheck, Kind
<1>t. TypeOK
  BY DEF Basic
<1>1. CASE ClaimNext(w)
  BY <1>0, <1>1, <1>t, LoopFlow DEF Goes
<1>2. CASE ~ClaimNext(w)
  <2>1. work'[w].id = work[w].id /\ pc'[w] # "verify"
    BY <1>0, <1>2, SameSubject, CameFrom DEF Kind
  <2>2. CASE ReadWork(w)
    <3>1. pc'[w] \in Entries
      BY <2>2, <1>t, LoopFlow, ReadFlow
    <3>2. pc'[w] = "verify.load" => pc[w] = "verify"
      BY <2>2, <1>t, LoopFlow DEF Kind, Entry, ContextEntry, PlanEntry, ExecuteEntry,
         DiagnoseEntry, RepairEntry, BuildEntry
    <3>3. pc'[w] = "verify.load"
      BY <3>1 DEF Entries, VerifyPoints, BeforeCheck, AfterCheck
    <3>4. work'[w].n = work[w].n
      BY <1>t, <2>1, <2>2, <3>3 DEF ReadWork, Kept, TypeOK
    <3> QED BY <1>2, <2>1, <3>2, <3>3, <3>4 DEF VerifyPoints, BeforeCheck
  <2>3. CASE Verify(w)
    <3>1. pc[w] \in VerifyPoints /\ (pc'[w] \in BeforeCheck => pc[w] \in {"verify", "verify.load"})
      BY <1>t, <2>3, VerifyFlow DEF Verify, Goes, VerifyPoints, BeforeCheck, AfterCheck
    <3>2. Stays(w, VerifyPoints)
      BY <2>3, VerifyBasic
    <3> QED BY <1>2, <2>1, <3>1, <3>2 DEF Stays
  <2>4. CASE ~Verify(w) /\ ~ReadWork(w)
    BY <1>2, <1>t, <2>1, <2>4, CameFrom, LoopFlow, PlanFlow, RepairFlow DEF Verify, Goes,
       VerifyPoints, BeforeCheck, AfterCheck, Entries
  <2> QED BY <2>2, <2>3, <2>4
<1> QED BY <1>1, <1>2

-------------------------------------------------------------------------------
(* Nothing is sent that was not granted.                                   *)

\* Every step keeps Grants: the policy's Allow and the approval come before the job.
LEMMA GrantsKept ==
  ASSUME Basic, Basic', Grants, [Next]_vars
  PROVE  Grants'
<1>g. granted \subseteq granted'
  BY OthersMove DEF Basic, TypeOK
<1>1. ASSUME NEW w \in Workers,
             \/ pc'[w] \in {"plan.allow", "plan.enqueue"}
             \/ pc'[w] = "plan.persist" /\ work'[w].verdict = "Allow"
      PROVE  work'[w].id \in granted'
  <2>1. CASE pc'[w] = pc[w] /\ work'[w] = work[w]
    BY <1>1, <1>g, <2>1 DEF Grants
  <2>2. CASE ControlStep(w)
    <3>0. work'[w].id = work[w].id /\ pc'[w] # "idle"
      <4>1. ~ClaimNext(w)
        BY <1>1, LoopFlow DEF Goes, Kind, Basic
      <4> QED BY <1>1, <2>2, <4>1, SameSubject
    <3>1. CASE pc'[w] = "plan.allow"
      BY <2>2, <3>0, <3>1, <1>g, CameFrom, PersistFlow DEF Grants, Goes
    <3>2. CASE pc'[w] = "plan.enqueue"
      <4>1. AllowAction(w)
        BY <2>2, <3>2, CameFrom
      <4>2. pc[w] = "plan.allow"
        BY <4>1, PlanFlow DEF Basic, Goes
      <4> QED BY <3>0, <4>2, <1>g DEF Grants
    <3>3. CASE pc'[w] = "plan.persist" /\ work'[w].verdict = "Allow"
      <4>1. ConsultPolicy(w)
        BY <2>2, <3>3, CameFrom
      <4>2. work[w] \in Work /\ work \in [Workers -> Work \union {NoWork}]
        BY <4>1 DEF ConsultPolicy, Basic, Agreement, Agrees, TypeOK
      <4>3. PICK verdict : work' = [work EXCEPT ![w].verdict = verdict]
                           /\ granted' = IF verdict = "Allow" THEN granted \union {Subject(w)} ELSE granted
        BY <4>1 DEF ConsultPolicy
      <4>4. work'[w].verdict = verdict
        BY <4>2, <4>3 DEF Work
      <4> QED BY <3>0, <3>3, <4>3, <4>4 DEF Subject
    <3> QED BY <1>1, <3>1, <3>2, <3>3
  <2> QED BY <2>1, <2>2, WorkerCases
<1>2. ASSUME NEW i \in Incidents, Enqueued(ExecuteJob(i))' PROVE i \in granted'
  <2>0. ExecuteJob(i) \in Jobs /\ ExecuteJob(i)[1] = i /\ ExecuteJob(i)[2] = "execute"
    BY JobNames DEF ExecuteJob
  <2>1. CASE Enqueued(ExecuteJob(i))
    BY <1>g, <2>1 DEF Grants
  <2>2. ASSUME NEW w \in Workers, EnqueuedBy(w, ExecuteJob(i)) PROVE i \in granted'
    BY <1>g, <2>0, <2>2 DEF EnqueuedBy, Enqueues, Grants
  <2>3. ASSUME Approve(i) PROVE i \in granted'
    BY <2>3 DEF Approve
  <2> QED BY <1>2, <2>0, <2>1, <2>2, <2>3, NewJobs
<1>3. ASSUME NEW i \in Incidents, tries'[i] # {} PROVE i \in granted'
  <2>1. CASE tries[i] # {}
    BY <1>g, <2>1 DEF Grants, SentOnlyIfGranted
  <2>2. CASE tries'[i] # tries[i]
    <3>1. PICK w \in Workers : CallHelper(w) /\ work[w].id = i
      BY <2>2, HelperMoves
    <3>2. pc[w] \in ExecutePoints
      BY <3>1 DEF CallHelper, Choose, Goto, ExecutePoints, BeforeCall
    <3> QED BY <1>g, <3>1, <3>2, ExecuteLease DEF Grants
  <2> QED BY <1>3, <2>1, <2>2
<1> QED BY <1>1, <1>2, <1>3 DEF Grants, SentOnlyIfGranted, Enqueued, ExecuteJob

\* Grants holds of the initial states.
LEMMA GrantsInit == Init => Grants
BY JobNames DEF Init, Grants, SentOnlyIfGranted, RO!ROInit, Q!Init, Q!Absent, Enqueued,
   ExecuteJob

\* Nothing is sent to the helper that neither the policy allowed nor the
\* administrator approved (plan and approve enqueue the execute job after the grant).
THEOREM OperationsSentOnlyIfGranted == Spec => []SentOnlyIfGranted
<1>1. Basic /\ Grants /\ [Next]_vars => (Basic /\ Grants)'
  BY BasicKept, GrantsKept
<1>2. Init => Basic /\ Grants
  BY BasicInit, GrantsInit
<1>3. Grants => SentOnlyIfGranted
  BY DEF Grants
<1> QED BY <1>1, <1>2, <1>3, PTL DEF Spec

-------------------------------------------------------------------------------
(* Nothing is sent twice.                                                  *)

\* Every step keeps Once: the execute job has one attempt, so one call.
LEMMA OnceKept ==
  ASSUME Basic, Basic', Once, [Next]_vars
  PROVE  Once'
<1>c. ASSUME NEW w \in Workers, CallHelper(w)
      PROVE  /\ pc[w] = "execute.call" /\ pc[w] \in ExecutePoints /\ pc[w] \in BeforeCall
             /\ ControlStep(w) /\ pc'[w] \notin BeforeCall
  <2>1. ControlStep(w) /\ Goes(w, "execute.call", {"execute.answer", "execute.failClosed"})
    BY <1>c, ExecuteFlow DEF ControlStep, WorkerStep, Execute, Basic
  <2> QED BY <2>1 DEF Goes, ExecutePoints, BeforeCall
<1>1. ASSUME NEW i \in Incidents, job'[ExecuteJob(i)].attempt = 0 PROVE tries'[i] = {}
  <2>1. job[ExecuteJob(i)].attempt = 0
    BY <1>1, JobNames, AttemptsGrow
  <2>2. CASE tries'[i] # tries[i]
    BY <1>c, <2>1, <2>2, HelperMoves, ExecuteLease
  <2> QED BY <2>1, <2>2 DEF Once
<1>2. ASSUME NEW w \in Workers, pc'[w] \in BeforeCall PROVE tries'[work'[w].id] = {}
  <2> DEFINE i == work'[w].id
  <2>0. pc'[w] \in ExecutePoints
    BY <1>2 DEF ExecutePoints
  <2>1. CASE ControlStep(w) /\ ClaimNext(w) /\ pc'[w] = "execute"
    <3>1. PICK j \in Jobs : Claims(w, j)
      BY <2>1, ClaimTaken
    <3>2. j[2] = "execute" /\ j[1] = i /\ i \in Incidents
      BY <2>1, <3>1 DEF Claims, Fresh, Jobs
    <3>3. j = ExecuteJob(i)
      BY <3>1, <3>2 DEF Jobs, Numbers, ExecuteJob
    <3>4. job[ExecuteJob(i)].attempt = 0
      BY <3>1, <3>2, <3>3, JobNames, ClaimedOnce
    <3>5. tries'[i] = tries[i]
      BY <1>c, <3>2, <3>4, HelperMoves, ExecuteLease
    <3> QED BY <3>2, <3>4, <3>5 DEF Once
  <2>2. CASE pc[w] \in BeforeCall /\ work'[w].id = work[w].id
    <3>1. pc[w] \in ExecutePoints
      BY <2>2 DEF ExecutePoints
    <3>2. i \in Incidents
      BY <2>2, <3>1, ExecuteLease
    <3>3. ASSUME tries'[i] # tries[i] PROVE FALSE
      <4>1. PICK v \in Workers : CallHelper(v) /\ work[v].id = i
        BY <3>2, <3>3, HelperMoves
      <4>2. v = w
        BY <1>c, <2>2, <3>1, <4>1, ExecuteLease
      <4> QED BY <1>2, <1>c, <4>1, <4>2
    <3> QED BY <2>2, <3>3 DEF Once
  <2> QED BY <1>2, <2>0, <2>1, <2>2, WorkerCases, ExecuteCame
<1>3. ASSUME NEW i \in Incidents, NEW t \in tries'[i], NEW u \in tries'[i] PROVE t = u
  <2>1. CASE tries'[i] = tries[i]
    BY <1>3, <2>1 DEF Once, SentAtMostOnce
  <2>2. CASE tries'[i] # tries[i]
    <3>1. PICK w \in Workers : CallHelper(w) /\ work[w].id = i /\ \E s \in Tries : tries'[i] = tries[i] \union {s}
      BY <2>2, HelperMoves
    <3>2. tries[i] = {}
      BY <1>c, <3>1 DEF Once
    <3> QED BY <1>3, <3>1, <3>2
  <2> QED BY <2>1, <2>2
<1> QED BY <1>1, <1>2, <1>3 DEF Once, SentAtMostOnce, ExecuteJob

\* Once holds of the initial states.
LEMMA OnceInit == Init => Once
BY DEF Init, Once, SentAtMostOnce, RO!ROInit, BeforeCall

\* However workers, crashes, failed statements and resumes interleave, an incident's
\* action is sent to the helper at most once.
THEOREM OperationsSentAtMostOnce == Spec => []SentAtMostOnce
<1>1. Basic /\ Once /\ [Next]_vars => (Basic /\ Once)'
  BY BasicKept, OnceKept
<1>2. Init => Basic /\ Once
  BY BasicInit, OnceInit
<1>3. Once => SentAtMostOnce
  BY DEF Once
<1> QED BY <1>1, <1>2, <1>3, PTL DEF Spec

-------------------------------------------------------------------------------
(* The action's row tells the truth.                                       *)

\* An outcome is written by the handler that has it, which then leaves.
LEMMA OutcomeBy ==
  ASSUME Basic, [Next]_vars, NEW i \in Incidents,
         action'[i].status \in Outcomes, action'[i].status # action[i].status
  PROVE  \E w \in Workers :
           /\ work[w].id = i
           /\ \/ pc[w] = "execute.failClosed" /\ action'[i].status = "FAILED_CLOSED"
              \/ pc[w] = "execute.ambiguous" /\ action'[i].status = "AMBIGUOUS"
              \/ pc[w] = "verify.failed" /\ action'[i].status = "VERIFICATION_FAILED"
              \/ pc[w] = "verify.verified" /\ action'[i].status = "VERIFIED"
           /\ pc'[w] \notin ExecutePoints
<1>1. ~Approve(i) /\ ~Reject(i)
  BY DEF Approve, Reject, Outcomes, Basic, TypeOK
<1>2. PICK w \in Workers : ControlStep(w) /\ MarkedBy(w, i)
  BY <1>1, ActionMoves
<1>3. \/ pc[w] = "execute.failClosed" /\ action'[i].status = "FAILED_CLOSED"
      \/ pc[w] = "execute.ambiguous" /\ action'[i].status = "AMBIGUOUS"
      \/ pc[w] = "verify.failed" /\ action'[i].status = "VERIFICATION_FAILED"
      \/ pc[w] = "verify.verified" /\ action'[i].status = "VERIFIED"
  BY <1>2 DEF MarkedBy, Marking, Outcomes
<1>4. pc'[w] \notin ExecutePoints
  <2>1. ASSUME ClaimNext(w) PROVE FALSE
    BY <1>3, <2>1, LoopFlow DEF Goes, Basic
  <2> QED BY <1>2, <1>3, <2>1, ExecuteCame DEF ExecutePoints, BeforeCall, AfterCall
<1> QED BY <1>2, <1>3, <1>4 DEF MarkedBy

\* A verify job is enqueued after the execution, or after the check before it.
LEMMA NewVerifyJob ==
  ASSUME Basic, [Next]_vars, NEW i \in Incidents, NEW n \in 0..(Required - 1),
         ~Enqueued(VerifyJob(i, n)), Enqueued(VerifyJob(i, n))'
  PROVE  \E w \in Workers :
           /\ work[w].id = i /\ pc'[w] = "ok" /\ ControlStep(w)
           /\ \/ pc[w] = "execute.enqueue" /\ n = 0
              \/ pc[w] = "verify.next" /\ n = work[w].n + 1
<1>1. VerifyJob(i, n) \in Jobs
  BY JobNames
<1>2. VerifyJob(i, n)[1] = i /\ VerifyJob(i, n)[2] = "verify" /\ VerifyJob(i, n)[3] = n
  BY DEF VerifyJob
<1>3. PICK w \in Workers : ControlStep(w) /\ EnqueuedBy(w, VerifyJob(i, n))
  BY <1>1, <1>2, NewJobs
<1> QED BY <1>2, <1>3 DEF EnqueuedBy, Enqueues

\* What is settled about a restart stays settled.
LEMMA SettledStays ==
  ASSUME Basic, Once, Truth, [Next]_vars, NEW i \in Incidents
  PROVE  /\ phase[i] = "done" => phase'[i] = "done"
         /\ tries[i] # {} => tries'[i] # {}
         /\ NotStarted(i) /\ tries'[i] = tries[i] => NotStarted(i)'
<1>1. ~RO!TriedAgain(i)
  BY DEF Once, SentAtMostOnce, RO!TriedAgain
<1>2. phase[i] = "done" => phase'[i] = "done"
  BY HelperMoves
<1>3. tries[i] # {} => tries'[i] # {}
  BY HelperMoves
<1>4. ASSUME NotStarted(i), tries'[i] = tries[i] PROVE NotStarted(i)'
  <2>1. phase'[i] = phase[i]
    BY <1>1, <1>4, HelperMoves DEF NotStarted
  <2>2. i \in refused => i \in refused'
    BY HelperMoves
  <2> QED BY <1>4, <2>1, <2>2 DEF NotStarted
<1> QED BY <1>2, <1>3, <1>4

\* Every step keeps Truth.
LEMMA TruthKept ==
  ASSUME Basic, Basic', Once, Truth, [Next]_vars
  PROVE  Truth'
<1>p. {"execute.failClosed", "execute.ambiguous", "execute.enqueue"} \subseteq ExecutePoints
      /\ {"verify.failed", "verify.verified", "verify.next"} \subseteq VerifyPoints
      /\ "ok" \notin ExecutePoints
  BY DEF ExecutePoints, BeforeCall, AfterCall, VerifyPoints, BeforeCheck, AfterCheck
<1>c. ASSUME NEW i \in Incidents, tries'[i] # tries[i]
      PROVE  \E w \in Workers : CallHelper(w) /\ work[w].id = i /\ pc[w] = "execute.call"
                                /\ pc[w] \in ExecutePoints /\ pc'[w] = "execute.answer"
  <2>1. PICK w \in Workers : CallHelper(w) /\ work[w].id = i /\ pc'[w] = "execute.answer"
    BY <1>c, HelperMoves
  <2>2. pc[w] = "execute.call"
    BY <2>1, ExecuteFlow DEF Goes, Basic
  <2> QED BY <2>1, <2>2 DEF ExecutePoints, BeforeCall
<1>v. ASSUME NEW w \in Workers, pc[w] \in VerifyPoints
      PROVE  /\ work[w].id \in Incidents
             /\ \E n \in 0..(Required - 1) : Enqueued(VerifyJob(work[w].id, n))
  BY <1>v, VerifyLease
\* the parts about an incident
<1>1. ASSUME NEW i \in Incidents
      PROVE  (phase'[i] # "untouched" => tries'[i] # {}) /\ (i \in refused' => phase'[i] = "untouched")
  <2>1. ~RO!TriedAgain(i)
    BY DEF Once, SentAtMostOnce, RO!TriedAgain
  <2>2. phase'[i] # "untouched" => tries'[i] # {}
    BY HelperMoves DEF Truth, RowTruth, StepTruth
  <2>3. phase'[i] # phase[i] => refused' = refused
    <3>1. HelperRestarts(i) => refused' = refused
      BY DEF HelperRestarts, RO!Issue, RO!Restarted
    <3> QED BY <3>1, HelperMoves
  <2>4. i \in refused' => phase'[i] = "untouched"
    BY <2>1, <2>3, HelperMoves DEF Truth, RowTruth, StepTruth
  <2> QED BY <2>2, <2>4
<1>2. ASSUME NEW i \in Incidents, action'[i].status = "FAILED_CLOSED" PROVE NotStarted(i)'
  <2>1. CASE action[i].status = "FAILED_CLOSED"
    <3>1. tries'[i] = tries[i]
      BY <1>c, <2>1 DEF Truth, RowTruth, StepTruth, Outcomes
    <3> QED BY <2>1, <3>1, SettledStays DEF Truth, RowTruth, StepTruth
  <2>2. CASE action[i].status # "FAILED_CLOSED"
    <3>1. PICK w \in Workers : work[w].id = i /\ pc[w] = "execute.failClosed"
      BY <1>2, <2>2, OutcomeBy DEF Outcomes
    <3>2. tries'[i] = tries[i]
      BY <1>c, <1>p, <3>1, ExecuteLease
    <3> QED BY <3>1, <3>2, SettledStays DEF Truth, RowTruth, StepTruth
  <2> QED BY <2>1, <2>2
<1>3. ASSUME NEW i \in Incidents, action'[i].status \in {"EXECUTED", "VERIFIED", "VERIFICATION_FAILED"}
      PROVE  phase'[i] = "done"
  <2>1. CASE action'[i].status = action[i].status
    BY <1>3, <2>1, SettledStays DEF Truth, RowTruth, StepTruth
  <2>2. CASE action'[i].status # action[i].status
    <3>1. ~Approve(i) /\ ~Reject(i)
      BY <1>3 DEF Approve, Reject, Basic, TypeOK
    <3>2. PICK w \in Workers : MarkedBy(w, i)
      BY <2>2, <3>1, ActionMoves
    <3>3. pc[w] \in {"execute.executed", "verify.failed", "verify.verified"} /\ work[w].id = i
      BY <1>3, <3>2 DEF MarkedBy, Marking
    <3> QED BY <3>3, SettledStays DEF Truth, RowTruth, StepTruth, Executed, AfterCheck
  <2> QED BY <2>1, <2>2
<1>4. ASSUME NEW i \in Incidents, job'[ExecuteJob(i)].attempt = 0
      PROVE  /\ action'[i].status \notin Outcomes
             /\ \A n \in 0..(Required - 1) : ~Enqueued(VerifyJob(i, n))'
  <2>0. job[ExecuteJob(i)].attempt = 0
    BY <1>4, JobNames, AttemptsGrow
  <2>1. action[i].status \notin Outcomes /\ \A n \in 0..(Required - 1) : ~Enqueued(VerifyJob(i, n))
    BY <2>0 DEF Truth, RowTruth, StepTruth
  <2>2. action'[i].status \notin Outcomes
    BY <1>p, <1>v, <2>0, <2>1, OutcomeBy, ExecuteLease
  <2>3. ASSUME NEW n \in 0..(Required - 1), Enqueued(VerifyJob(i, n))' PROVE FALSE
    BY <1>p, <1>v, <2>0, <2>1, <2>3, NewVerifyJob, ExecuteLease
  <2> QED BY <2>2, <2>3
\* the parts about a worker
<1>5. ASSUME NEW w \in Workers, NEW i \in Incidents, work'[w].id = i, pc'[w] \in ExecutePoints
      PROVE  /\ action'[i].status \notin Outcomes
             /\ \A n \in 0..(Required - 1) : ~Enqueued(VerifyJob(i, n))'
  <2>1. CASE ClaimNext(w) /\ pc'[w] = "execute"
    <3>1. PICK j \in Jobs : Claims(w, j)
      BY <2>1, ClaimTaken
    <3>2. j[2] = "execute" /\ j[1] = i /\ i \in Incidents
      BY <1>5, <2>1, <3>1 DEF Claims, Fresh, Jobs
    <3>3. j = ExecuteJob(i)
      BY <3>1, <3>2 DEF Jobs, Numbers, ExecuteJob
    <3>4. job[ExecuteJob(i)].attempt = 0
      BY <3>1, <3>2, <3>3, JobNames, ClaimedOnce
    <3>5. action[i].status \notin Outcomes /\ \A n \in 0..(Required - 1) : ~Enqueued(VerifyJob(i, n))
      BY <3>2, <3>4 DEF Truth, RowTruth, StepTruth
    <3>6. action'[i].status \notin Outcomes
      BY <1>p, <1>v, <3>2, <3>4, <3>5, OutcomeBy, ExecuteLease
    <3>7. ASSUME NEW n \in 0..(Required - 1), Enqueued(VerifyJob(i, n))' PROVE FALSE
      BY <1>p, <1>v, <3>2, <3>4, <3>5, <3>7, NewVerifyJob, ExecuteLease
    <3> QED BY <3>6, <3>7
  <2>2. CASE pc[w] \in ExecutePoints /\ work'[w].id = work[w].id
    <3>1. i = work[w].id
      BY <1>5, <2>2
    <3>2. action[i].status \notin Outcomes /\ \A n \in 0..(Required - 1) : ~Enqueued(VerifyJob(i, n))
      BY <2>2, <3>1 DEF Truth, RowTruth, StepTruth
    <3>3. action'[i].status \notin Outcomes
      BY <1>5, <1>p, <1>v, <2>2, <3>1, <3>2, OutcomeBy, ExecuteLease
    <3>4. ASSUME NEW n \in 0..(Required - 1), Enqueued(VerifyJob(i, n))' PROVE FALSE
      BY <1>5, <1>p, <1>v, <2>2, <3>1, <3>2, <3>4, NewVerifyJob, ExecuteLease
    <3> QED BY <3>3, <3>4
  <2> QED BY <1>5, <2>1, <2>2, WorkerCases, ExecuteCame
<1>6. ASSUME NEW w \in Workers,
             NEW i \in Incidents, work'[w].id = i, pc'[w] = "execute.failClosed"
      PROVE  NotStarted(i)'
  <2>1. CASE pc'[w] = pc[w] /\ work'[w] = work[w]
    <3>1. work[w].id = i
      BY <1>6, <2>1
    <3>2. tries'[i] = tries[i]
      BY <1>6, <1>c, <1>p, <2>1, <3>1, ExecuteLease
    <3> QED BY <1>6, <2>1, <3>1, <3>2, SettledStays DEF Truth, RowTruth, StepTruth
  <2>2. CASE ControlStep(w)
    <3>0. pc[w] \in ExecutePoints /\ work[w].id = i
      BY <1>6, <1>p, <2>2, ExecuteCame
    <3>i. ~RO!TriedAgain(i)
      BY <3>0, ExecuteLease DEF Once, SentAtMostOnce, RO!TriedAgain
    <3>1. CASE CallHelper(w)
      <4>1. UNCHANGED helperVars
        BY <1>6, <3>1 DEF CallHelper, Choose, Goto, Basic, TypeOK
      <4>2. tries[i] = {}
        BY <3>0, <3>1 DEF CallHelper, Choose, Goto, Once, BeforeCall
      <4> QED BY <3>0, <3>i, <4>1, <4>2 DEF helperVars, NotStarted, Truth, RowTruth
    <3>2. CASE HelperAnswers(w)
      <4>1. RO!Refuse(Subject(w))
        BY <1>6, <3>2 DEF HelperAnswers, Goto, Basic, TypeOK
      <4> QED BY <3>0, <3>i, <4>1 DEF RO!Refuse, NotStarted, Subject
    <3> QED BY <1>6, <2>2, <3>1, <3>2, CameFrom
  <2> QED BY <2>1, <2>2, WorkerCases
<1>7. ASSUME NEW w \in Workers, NEW i \in Incidents, work'[w].id = i, pc'[w] \in Executed
      PROVE  phase'[i] = "done"
  <2>e. pc'[w] \in (ExecutePoints \ {"execute"}) \union (VerifyPoints \ {"verify"})
    BY <1>7 DEF Executed, ExecutePoints, AfterCall, VerifyPoints, BeforeCheck, AfterCheck
  <2>1. CASE pc'[w] = pc[w] /\ work'[w] = work[w]
    <3>1. work[w].id = i
      BY <1>7, <2>1
    <3> QED BY <1>7, <2>1, <3>1, SettledStays DEF Truth, RowTruth, StepTruth
  <2>2. CASE ControlStep(w)
    <3>0. pc[w] \in ExecutePoints \union VerifyPoints /\ work[w].id = i
      BY <1>7, <2>2, <2>e, ExecuteCame, VerifyCame
    <3>1. CASE HelperAnswers(w) /\ pc'[w] = "execute.executed"
      <4>1. RO!Vouch(Subject(w))
        BY <3>1 DEF HelperAnswers, Goto, Basic, TypeOK
      <4> QED BY <3>0, <4>1 DEF RO!Vouch, Subject
    <3>2. CASE (LoadAction(w) /\ pc'[w] = "execute.verify")
                 \/ (LoadExecuted(w) /\ pc'[w] = "verify.check")
      <4>1. action[i].status = "EXECUTED"
        BY <3>0, <3>2 DEF LoadAction, LoadExecuted, Choose, Goto, Subject, Basic, TypeOK
      <4> QED BY <3>0, <4>1, SettledStays DEF Truth, RowTruth, StepTruth
    <3>3. CASE pc[w] \in {"execute.executed", "execute.audit", "execute.verify", "verify.check",
                          "verify.verified"}
      BY <3>0, <3>3, SettledStays DEF Truth, RowTruth, StepTruth, Executed, AfterCheck
    <3>4. /\ pc'[w] = "execute.executed" => HelperAnswers(w)
          /\ pc'[w] = "execute.audit" => MarkExecuted(w)
          /\ pc'[w] = "execute.verify" => LoadAction(w) \/ AuditExecution(w)
          /\ pc'[w] = "execute.enqueue" => BeginVerification(w)
          /\ pc'[w] = "verify.check" => LoadExecuted(w)
          /\ pc'[w] \in {"verify.failed", "verify.next", "verify.verified"} => CheckRecovery(w)
          /\ pc'[w] = "verify.resolve" => MarkVerified(w)
      BY <2>2, CameFrom
    <3>5. /\ MarkExecuted(w) => pc[w] = "execute.executed"
          /\ AuditExecution(w) => pc[w] = "execute.audit"
          /\ BeginVerification(w) => pc[w] = "execute.verify"
          /\ CheckRecovery(w) => pc[w] = "verify.check"
          /\ MarkVerified(w) => pc[w] = "verify.verified"
      BY ExecuteFlow, VerifyFlow DEF Basic, Goes
    <3> QED BY <1>7, <3>1, <3>2, <3>3, <3>4, <3>5 DEF Executed, AfterCheck
  <2> QED BY <2>1, <2>2, WorkerCases
<1>8. ASSUME NEW i \in Incidents PROVE RowTruth(i)'
  BY <1>1, <1>2, <1>3, <1>4 DEF RowTruth
<1>9. ASSUME NEW w \in Workers PROVE StepTruth(w)'
  <2>1. pc'[w] \in ExecutePoints \union Executed => work'[w].id \in Incidents
    <3>1. "idle" \notin ExecutePoints \union Executed
      BY DEF Executed, ExecutePoints, BeforeCall, AfterCall, AfterCheck
    <3> QED BY <3>1 DEF Basic, Agreement, Agrees, Work
  <2>2. pc'[w] = "execute.failClosed" => pc'[w] \in ExecutePoints
    BY <1>p
  <2> QED BY <2>1, <2>2, <1>5, <1>6, <1>7 DEF StepTruth
<1> QED BY <1>8, <1>9 DEF Truth

\* Truth holds of the initial states.
LEMMA TruthInit == Init => Truth
<1> SUFFICES ASSUME Init PROVE Truth
  OBVIOUS
<1>1. \A w \in Workers : pc[w] = "idle"
  BY DEF Init
<1>2. \A i \in Incidents : ExecuteJob(i) \in Jobs /\ \A n \in 0..(Required - 1) : ~Enqueued(VerifyJob(i, n))
  BY JobNames DEF Init, Q!Init, Q!Absent, Enqueued
<1>3. ASSUME NEW i \in Incidents PROVE RowTruth(i)
  BY <1>2, <1>3 DEF Init, RowTruth, RO!ROInit, Outcomes, NotStarted
<1>4. ASSUME NEW w \in Workers PROVE StepTruth(w)
  BY <1>1, <1>4 DEF StepTruth, Executed, ExecutePoints, BeforeCall, AfterCall, AfterCheck
<1> QED BY <1>3, <1>4 DEF Truth

\* FAILED_CLOSED is written only of a container that was not restarted and will not
\* be, EXECUTED and what follows it only of one that was, even when the helper
\* answers late, times out, or the worker dies around the call.
THEOREM OperationsRowIsTruthful == Spec => []RowIsTruthful
<1>1. Basic /\ Once /\ Truth /\ [Next]_vars => (Basic /\ Once /\ Truth)'
  BY BasicKept, OnceKept, TruthKept
<1>2. Init => Basic /\ Once /\ Truth
  BY BasicInit, OnceInit, TruthInit
<1>3. Truth => RowIsTruthful
  BY DEF Truth, RowTruth, RowIsTruthful, NotStarted
<1> QED BY <1>1, <1>2, <1>3, PTL DEF Spec

-------------------------------------------------------------------------------
(* Checks follow one another.                                              *)

\* One worker at a time verifies an incident, and while it does every verify job of
\* the incident has been claimed.
LEMMA OneChecker ==
  ASSUME Basic, Chain, NEW w \in Workers, pc[w] \in VerifyPoints
  PROVE  /\ \A v \in Workers : pc[v] \in VerifyPoints /\ work[v].id = work[w].id => v = w
         /\ \A n \in 0..(Required - 1) :
              Enqueued(VerifyJob(work[w].id, n)) =>
                n <= work[w].n /\ job[VerifyJob(work[w].id, n)].attempt # 0
<1>1. ASSUME NEW v \in Workers, pc[v] \in VerifyPoints
      PROVE  /\ work[v].id \in Incidents /\ work[v].n \in 0..(Required - 1)
             /\ Enqueued(VerifyJob(work[v].id, work[v].n))
             /\ LastChecked(work[v].id, work[v].n)
             /\ job[VerifyJob(work[v].id, work[v].n)].attempt > 0
  BY <1>1, VerifyLease DEF Chain, StepChain
<1>n. Required \in Nat
  BY OperationsAssumption
<1>2. ASSUME NEW n \in 0..(Required - 1), NEW m \in 0..(Required - 1), NEW i \in Incidents,
             Enqueued(VerifyJob(i, n)), LastChecked(i, m)
      PROVE  n <= m
  BY <1>2, <1>n DEF LastChecked
<1>3. ASSUME NEW v \in Workers, pc[v] \in VerifyPoints, work[v].id = work[w].id PROVE v = w
  <2>1. work[v].n <= work[w].n /\ work[w].n <= work[v].n
    BY <1>1, <1>2, <1>3
  <2>2. work[v].n = work[w].n
    BY <1>1, <1>3, <1>n, <2>1
  <2> QED BY <1>3, <2>2, VerifyLease
<1>4. ASSUME NEW n \in 0..(Required - 1), Enqueued(VerifyJob(work[w].id, n))
      PROVE  n <= work[w].n /\ job[VerifyJob(work[w].id, n)].attempt # 0
  <2>1. n <= work[w].n
    BY <1>1, <1>2, <1>4
  <2>2. ASSUME job[VerifyJob(work[w].id, n)].attempt = 0 PROVE FALSE
    <3>1. LastChecked(work[w].id, n)
      BY <1>1, <1>4, <2>2 DEF Chain, RowChain
    <3>2. work[w].n <= n
      BY <1>1, <1>2, <3>1
    <3>3. work[w].n = n
      BY <1>1, <1>n, <2>1, <3>2
    <3> QED BY <1>1, <2>2, <3>3
  <2> QED BY <2>1, <2>2
<1> QED BY <1>3, <1>4

\* While a verify job waits to be claimed nobody verifies the incident.
LEMMA NobodyChecks ==
  ASSUME Basic, Chain, NEW i \in Incidents, NEW n \in 0..(Required - 1),
         Enqueued(VerifyJob(i, n)), job[VerifyJob(i, n)].attempt = 0
  PROVE  \A w \in Workers : ~At(w, i, VerifyPoints)
BY OneChecker DEF At

\* Only the check itself counts, and it is then over.
LEMMA PassedBy ==
  ASSUME Basic, [Next]_vars, NEW i \in Incidents, passed'[i] # passed[i]
  PROVE  \E w \in Workers :
           /\ CheckRecovery(w) /\ work[w].id = i
           /\ pc[w] = "verify.check" /\ pc[w] \in VerifyPoints /\ pc[w] \in BeforeCheck
           /\ pc'[w] \notin BeforeCheck
<1>1. PICK w \in Workers : CheckRecovery(w) /\ work[w].id = i
  BY OthersMove
<1>2. Goes(w, "verify.check", {"verify.verified", "verify.next", "verify.failed"})
  BY <1>1, VerifyFlow DEF Basic
<1> QED BY <1>1, <1>2 DEF Goes, VerifyPoints, BeforeCheck

\* A verify job is enqueued by the worker that passed the check before it, or by the
\* one that executed the action; either is the only one to do so.
LEMMA VerifyJobBy ==
  ASSUME Basic, Truth, Chain, [Next]_vars, NEW i \in Incidents, NEW n \in 0..(Required - 1),
         ~Enqueued(VerifyJob(i, n)), Enqueued(VerifyJob(i, n))'
  PROVE  \E w \in Workers :
           /\ work[w].id = i /\ pc'[w] = "ok"
           /\ \/ /\ pc[w] = "execute.enqueue" /\ n = 0
                 /\ \A m \in 0..(Required - 1) : ~Enqueued(VerifyJob(i, m))
              \/ /\ pc[w] = "verify.next" /\ n = work[w].n + 1
                 /\ \A m \in 0..(Required - 1) : Enqueued(VerifyJob(i, m)) => m < n
           /\ passed[i] >= n
<1>1. PICK w \in Workers :
        /\ work[w].id = i /\ pc'[w] = "ok"
        /\ \/ pc[w] = "execute.enqueue" /\ n = 0
           \/ pc[w] = "verify.next" /\ n = work[w].n + 1
  BY NewVerifyJob
<1>2. passed[i] \in Nat
  BY DEF Basic, TypeOK
<1>3. CASE pc[w] = "execute.enqueue"
  BY <1>1, <1>2, <1>3 DEF Truth, StepTruth, ExecutePoints, AfterCall
<1>4. CASE pc[w] = "verify.next"
  <2>1. pc[w] \in VerifyPoints
    BY <1>4 DEF VerifyPoints, AfterCheck
  <2>2. work[w].n \in 0..(Required - 1) /\ Required \in Nat
    BY <2>1, VerifyLease, OperationsAssumption
  <2>3. \A m \in 0..(Required - 1) : Enqueued(VerifyJob(i, m)) => m <= work[w].n
    BY <1>1, <2>1, OneChecker
  <2>4. \A m \in 0..(Required - 1) : Enqueued(VerifyJob(i, m)) => m < n
    BY <1>1, <1>4, <2>2, <2>3
  <2>5. passed[i] >= n
    BY <1>1, <1>4 DEF Chain, StepChain
  <2> QED BY <1>1, <1>4, <2>4, <2>5
<1> QED BY <1>1, <1>3, <1>4

\* Every step keeps Chain.
LEMMA ChainKept ==
  ASSUME Basic, Basic', Truth, Chain, [Next]_vars
  PROVE  Chain'
<1>n. Required \in Nat /\ Required > 0 /\ Required - 1 \in 0..(Required - 1)
  BY OperationsAssumption
<1>p. "verify.next" \in VerifyPoints /\ "execute.enqueue" \in ExecutePoints
      /\ "ok" \notin VerifyPoints /\ "idle" \notin VerifyPoints
      /\ BeforeCheck \subseteq VerifyPoints
      /\ {"verify.next", "verify.verified", "verify.resolve"} \subseteq VerifyPoints \ BeforeCheck
  BY DEF VerifyPoints, BeforeCheck, AfterCheck, ExecutePoints, AfterCall
<1>k. ASSUME NEW i \in Incidents, NEW n \in 0..(Required - 1), Enqueued(VerifyJob(i, n))
      PROVE  Enqueued(VerifyJob(i, n))'
  BY <1>k, JobNames, JobsKept
<1>t. \A i \in Incidents : passed[i] \in Nat /\ passed'[i] \in Nat
  BY DEF Basic, TypeOK
\* While a verify job waits to be claimed nothing is added and nothing is checked.
<1>w. ASSUME NEW i \in Incidents, NEW n \in 0..(Required - 1),
             Enqueued(VerifyJob(i, n)), job[VerifyJob(i, n)].attempt = 0
      PROVE  passed'[i] = passed[i] /\ passed[i] >= n /\ LastChecked(i, n)'
  <2>1. \A w \in Workers : ~At(w, i, VerifyPoints)
    BY <1>w, NobodyChecks
  <2>2. passed'[i] = passed[i]
    BY <2>1, PassedBy DEF At
  <2>3. passed[i] >= n /\ LastChecked(i, n)
    BY <1>w DEF Chain, RowChain
  <2>4. ASSUME NEW m \in 0..(Required - 1), m > n, Enqueued(VerifyJob(i, m))' PROVE FALSE
    <3>1. ~Enqueued(VerifyJob(i, m))
      BY <2>3, <2>4 DEF LastChecked
    <3> QED BY <1>p, <1>w, <2>1, <2>4, <3>1, VerifyJobBy DEF At
  <2> QED BY <2>2, <2>3, <2>4 DEF LastChecked, Enqueued, VerifyJob
<1>1. ASSUME NEW i \in Incidents, NEW m \in 0..(Required - 1), NEW n \in 0..(Required - 1),
             m < n, Enqueued(VerifyJob(i, n))'
      PROVE  Enqueued(VerifyJob(i, m))'
  <2>1. CASE Enqueued(VerifyJob(i, n))
    BY <1>1, <1>k, <2>1 DEF Chain, RowChain
  <2>2. CASE ~Enqueued(VerifyJob(i, n))
    <3>1. PICK w \in Workers : work[w].id = i /\ pc[w] = "verify.next" /\ n = work[w].n + 1
      BY <1>1, <2>2, VerifyJobBy
    <3>2. work[w].n \in 0..(Required - 1) /\ Enqueued(VerifyJob(i, work[w].n))
      BY <1>p, <3>1, VerifyLease
    <3>3. m = work[w].n \/ m < work[w].n
      BY <1>1, <1>n, <3>1, <3>2
    <3>4. Enqueued(VerifyJob(i, m))
      BY <3>2, <3>3 DEF Chain, RowChain
    <3> QED BY <1>k, <3>4
  <2> QED BY <2>1, <2>2
<1>2. ASSUME NEW i \in Incidents, NEW n \in 0..(Required - 1),
             Enqueued(VerifyJob(i, n))', job'[VerifyJob(i, n)].attempt = 0
      PROVE  passed'[i] >= n /\ LastChecked(i, n)'
  <2>0. job[VerifyJob(i, n)].attempt = 0
    BY <1>2, JobNames, AttemptsGrow
  <2>1. CASE Enqueued(VerifyJob(i, n))
    BY <1>w, <2>0, <2>1
  <2>2. CASE ~Enqueued(VerifyJob(i, n))
    <3>1. PICK w \in Workers :
            /\ work[w].id = i /\ pc'[w] = "ok"
            /\ \/ /\ pc[w] = "execute.enqueue" /\ n = 0
                  /\ \A m \in 0..(Required - 1) : ~Enqueued(VerifyJob(i, m))
               \/ /\ pc[w] = "verify.next" /\ n = work[w].n + 1
                  /\ \A m \in 0..(Required - 1) : Enqueued(VerifyJob(i, m)) => m < n
            /\ passed[i] >= n
      BY <1>2, <2>2, VerifyJobBy
    <3>2. passed'[i] >= n
      <4>1. CASE n = 0
        BY <1>t, <4>1
      <4>2. CASE pc[w] = "verify.next"
        <5>1. passed'[i] = passed[i]
          BY <1>p, <3>1, <4>2, PassedBy, OneChecker
        <5> QED BY <3>1, <5>1
      <4> QED BY <3>1, <4>1, <4>2
    <3>3. ASSUME NEW m \in 0..(Required - 1), m > n, Enqueued(VerifyJob(i, m))' PROVE FALSE
      <4>1. ~Enqueued(VerifyJob(i, m))
        BY <1>n, <3>1, <3>3
      <4>2. PICK v \in Workers :
              /\ work[v].id = i
              /\ \/ pc[v] = "execute.enqueue" /\ m = 0
                 \/ pc[v] = "verify.next" /\ m = work[v].n + 1
        BY <3>3, <4>1, NewVerifyJob
      <4>3. pc[v] = "verify.next" /\ m = work[v].n + 1
        BY <1>n, <3>3, <4>2
      <4>4. Enqueued(VerifyJob(i, work[v].n)) /\ work[v].n \in 0..(Required - 1)
        BY <1>p, <4>2, <4>3, VerifyLease
      <4>5. pc[w] = "verify.next" /\ n = work[w].n + 1
        BY <3>1, <4>4
      <4>6. v = w
        BY <1>p, <3>1, <4>2, <4>3, <4>5, OneChecker
      <4> QED BY <1>n, <3>3, <4>3, <4>5, <4>6
    <3> QED BY <3>2, <3>3 DEF LastChecked, Enqueued, VerifyJob
  <2> QED BY <2>1, <2>2
<1>3. ASSUME NEW w \in Workers, NEW i \in Incidents, NEW n \in 0..(Required - 1),
             work'[w].id = i, work'[w].n = n, pc'[w] \in VerifyPoints
      PROVE  /\ LastChecked(i, n)'
             /\ pc'[w] \in BeforeCheck => passed'[i] >= n
             /\ pc'[w] = "verify.next" => passed'[i] >= n + 1
             /\ pc'[w] \in {"verify.verified", "verify.resolve"} =>
                  passed'[i] >= Required /\ n = Required - 1
  <2>1. CASE ControlStep(w) /\ ClaimNext(w) /\ pc'[w] = "verify"
    <3>1. PICK j \in Jobs : Claims(w, j)
      BY <2>1, ClaimTaken
    <3>2. j[1] = i /\ j[2] = "verify" /\ j[3] = n
      BY <1>3, <2>1, <3>1 DEF Claims, Fresh
    <3>3. j = VerifyJob(i, n)
      BY <3>2 DEF VerifyJob, Jobs
    <3>4. Enqueued(VerifyJob(i, n)) /\ job[VerifyJob(i, n)].attempt = 0
      BY <3>1, <3>3, JobNames, ClaimedOnce DEF Claims
    <3> QED BY <1>w, <2>1, <3>4
  <2>2. CASE pc[w] \in VerifyPoints /\ work[w].id = i /\ work[w].n = n
    <3>0. LastChecked(i, n)
      BY <2>2 DEF Chain, StepChain
    <3>1. ASSUME NEW m \in 0..(Required - 1), m > n, Enqueued(VerifyJob(i, m))' PROVE FALSE
      <4>1. ~Enqueued(VerifyJob(i, m))
        BY <3>0, <3>1 DEF LastChecked
      <4>2. PICK v \in Workers :
              /\ work[v].id = i /\ pc'[v] = "ok"
              /\ \/ pc[v] = "execute.enqueue" /\ m = 0
                 \/ pc[v] = "verify.next" /\ m = work[v].n + 1
        BY <3>1, <4>1, NewVerifyJob
      <4>3. pc[v] = "verify.next"
        BY <1>n, <3>1, <4>2
      <4>4. v = w
        BY <1>p, <2>2, <4>2, <4>3, OneChecker
      <4> QED BY <1>3, <1>p, <4>2, <4>4
    <3>2. LastChecked(i, n)'
      BY <3>1 DEF LastChecked, Enqueued, VerifyJob
    <3>3. ASSUME passed'[i] # passed[i]
          PROVE  CheckRecovery(w) /\ pc[w] = "verify.check" /\ pc'[w] \notin BeforeCheck
      BY <1>p, <2>2, <3>3, PassedBy, OneChecker
    <3>4. pc'[w] \in BeforeCheck => pc[w] \in BeforeCheck
      <4>1. ~ClaimNext(w)
        BY <1>p, <2>2, LoopFlow DEF Goes, Basic
      <4> QED BY <1>p, <4>1, WorkerCases, VerifyCame DEF BeforeCheck
    <3>5. pc'[w] \in BeforeCheck => passed'[i] >= n
      BY <2>2, <3>3, <3>4 DEF Chain, StepChain
    <3>6. ASSUME CheckRecovery(w), pc'[w] \in {"verify.next", "verify.verified"}
          PROVE  /\ passed'[i] >= n + 1
                 /\ pc'[w] = "verify.verified" => n = Required - 1 /\ passed'[i] >= Required
      <4>1. pc[w] = "verify.check" /\ passed[i] >= n
        BY <2>2, <3>6, VerifyFlow DEF Goes, Chain, StepChain, BeforeCheck, Basic
      <4>2. passed'[i] = passed[i] + 1
        BY <2>2, <3>6 DEF CheckRecovery, Goto, Subject, Basic, TypeOK
      <4>3. pc'[w] = "verify.verified" => n + 1 >= Required
        BY <2>2, <3>6 DEF CheckRecovery, Goto, EnoughChecks, Basic, TypeOK
      <4> QED BY <1>n, <1>t, <4>1, <4>2, <4>3
    <3>7. ASSUME pc'[w] = "verify.next" PROVE passed'[i] >= n + 1
      <4>1. CASE ControlStep(w)
        BY <3>6, <3>7, <4>1, CameFrom
      <4>2. CASE pc'[w] = pc[w]
        <5>1. passed'[i] = passed[i]
          BY <3>3, <3>7, <4>2
        <5> QED BY <2>2, <3>7, <4>2, <5>1 DEF Chain, StepChain
      <4> QED BY <4>1, <4>2, WorkerCases
    <3>8. ASSUME pc'[w] \in {"verify.verified", "verify.resolve"}
          PROVE  passed'[i] >= Required /\ n = Required - 1
      <4>1. CASE ControlStep(w) /\ pc'[w] = "verify.verified"
        BY <3>6, <4>1, CameFrom
      <4>2. CASE pc[w] \in {"verify.verified", "verify.resolve"}
        <5>1. passed'[i] = passed[i]
          BY <3>3, <4>2
        <5> QED BY <2>2, <4>2, <5>1 DEF Chain, StepChain
      <4>3. CASE ControlStep(w) /\ pc'[w] = "verify.resolve"
        <5>1. pc[w] = "verify.verified"
          BY <4>3, CameFrom, VerifyFlow DEF Goes, Basic
        <5> QED BY <4>2, <5>1
      <4> QED BY <3>8, <4>1, <4>2, <4>3, WorkerCases
    <3> QED BY <3>2, <3>5, <3>7, <3>8
  <2> QED BY <1>3, <2>1, <2>2, WorkerCases, VerifyCame
\* No check of an incident begins when its last check is done.
<1>b. ASSUME NEW i \in Incidents, job[VerifyJob(i, Required - 1)].attempt > 0,
             \A v \in Workers : ~At(v, i, BeforeCheck)
      PROVE  \A w \in Workers : ~At(w, i, BeforeCheck)'
  <2>1. Enqueued(VerifyJob(i, Required - 1))
    <3> DEFINE j == VerifyJob(i, Required - 1)
    <3>1. j \in Jobs /\ MaxAttempts[j] = 1
      BY <1>n, JobNames
    <3>2. job[j].attempt \in Nat /\ (job[j].status = "absent" => job[j].attempt < MaxAttempts[j])
      BY <3>1, QueueFacts, AttemptsGrow DEF Basic
    <3>3. ~(job[j].attempt < 1)
      BY <1>b, <3>2
    <3> QED BY <3>1, <3>2, <3>3 DEF Enqueued
  <2>2. ASSUME NEW w \in Workers, pc'[w] \in BeforeCheck, work'[w].id = i PROVE FALSE
    <3>1. CASE ControlStep(w) /\ ClaimNext(w) /\ pc'[w] = "verify"
      <4>1. PICK j \in Jobs : Claims(w, j)
        BY <3>1, ClaimTaken
      <4>2. j[1] = i /\ j[2] = "verify" /\ j[3] \in Numbers("verify")
        BY <2>2, <3>1, <4>1 DEF Claims, Fresh, Jobs
      <4>3. j[3] \in 0..(Required - 1)
        BY <4>2 DEF Numbers
      <4>4. j = VerifyJob(i, j[3])
        BY <4>2 DEF VerifyJob, Jobs
      <4>5. Enqueued(VerifyJob(i, j[3])) /\ job[VerifyJob(i, j[3])].attempt = 0
        BY <4>1, <4>3, <4>4, JobNames, ClaimedOnce DEF Claims
      <4>6. LastChecked(i, j[3])
        BY <4>3, <4>5 DEF Chain, RowChain
      <4>7. j[3] = Required - 1
        BY <1>n, <2>1, <4>3, <4>6 DEF LastChecked
      <4> QED BY <1>b, <4>5, <4>7
    <3>2. CASE pc[w] \in BeforeCheck /\ work[w].id = i
      BY <1>b, <3>2 DEF At
    <3> QED BY <1>p, <2>2, <3>1, <3>2, WorkerCases, VerifyCame DEF BeforeCheck
  <2> QED BY <2>2 DEF At
<1>4. ASSUME NEW i \in Incidents, incident'[i] = "Resolved" PROVE Recovered(i)'
  <2>1. /\ phase'[i] = "done" /\ passed'[i] >= Required
        /\ job[VerifyJob(i, Required - 1)].attempt > 0
        /\ \A w \in Workers : ~At(w, i, BeforeCheck)
    <3>1. CASE incident[i] = "Resolved"
      <4>1. Recovered(i)
        BY <3>1 DEF Chain
      <4>2. passed'[i] = passed[i]
        BY <4>1, PassedBy DEF Recovered, At
      <4> QED BY <4>1, <4>2, HelperMoves DEF Recovered
    <3>2. CASE incident[i] # "Resolved"
      <4>1. ~OpenIncident(i) /\ ~Approve(i) /\ ~Reject(i)
        BY <1>4 DEF OpenIncident, Approve, Reject, Basic, TypeOK
      <4>2. PICK w \in Workers : MovedBy(w, i)
        BY <1>4, <3>2, <4>1, IncidentMoves
      <4>3. pc[w] = "verify.resolve" /\ work[w].id = i
        BY <1>4, <4>2 DEF MovedBy, Moving
      <4>4. pc[w] \in VerifyPoints /\ pc[w] \in Executed /\ pc[w] \notin BeforeCheck
        BY <1>p, <4>3 DEF Executed, AfterCheck
      <4>5. passed[i] >= Required /\ work[w].n = Required - 1
        BY <4>3 DEF Chain, StepChain
      <4>6. phase'[i] = "done"
        BY <4>3, <4>4, HelperMoves DEF Truth, StepTruth
      <4>7. job[VerifyJob(i, Required - 1)].attempt > 0
        BY <4>3, <4>4, <4>5, VerifyLease
      <4>8. \A v \in Workers : ~At(v, i, BeforeCheck)
        BY <1>p, <4>3, <4>4, OneChecker DEF At
      <4>9. passed'[i] = passed[i]
        BY <4>8, PassedBy DEF At
      <4> QED BY <4>5, <4>6, <4>7, <4>8, <4>9
    <3> QED BY <3>1, <3>2
  <2>2. job'[VerifyJob(i, Required - 1)].attempt > 0
    BY <1>n, <2>1, JobNames, AttemptsGrow
  <2> QED BY <1>b, <2>1, <2>2 DEF Recovered, VerifyJob
<1>5. ASSUME NEW i \in Incidents PROVE RowChain(i)'
  BY <1>1, <1>2 DEF RowChain, Enqueued, VerifyJob
<1>6. ASSUME NEW w \in Workers PROVE StepChain(w)'
  <2>1. pc'[w] \in VerifyPoints => work'[w].id \in Incidents /\ work'[w].n \in 0..(Required - 1)
    <3>1. pc'[w] \in VerifyPoints =>
            /\ Runs(w, "verify")' /\ work'[w] \in Work /\ lease'[w].job[3] = work'[w].n
            /\ lease'[w].job \in Jobs
      <4>1. "idle" \notin VerifyPoints
        BY DEF VerifyPoints, BeforeCheck, AfterCheck
      <4>2. lease' \in [Workers -> [job : Jobs, attempt : Nat] \union {Q!NoLease}]
        BY DEF Basic, TypeOK, Q!TypeOK, Q!NoLease
      <4> QED BY <4>1, <4>2 DEF Basic, Agreement, Agrees, Runs, Q!NoLease
    <3> QED BY <3>1 DEF Runs, Jobs, Numbers, Work
  <2> QED BY <1>3, <1>p, <2>1 DEF StepChain
<1> QED BY <1>4, <1>5, <1>6 DEF Chain

\* Chain holds of the initial states.
LEMMA ChainInit == Init => Chain
<1> SUFFICES ASSUME Init PROVE Chain
  OBVIOUS
<1>1. ASSUME NEW i \in Incidents PROVE RowChain(i)
  BY JobNames DEF Init, Q!Init, Q!Absent, Enqueued, RowChain
<1>2. ASSUME NEW w \in Workers PROVE StepChain(w)
  BY DEF Init, StepChain, VerifyPoints, BeforeCheck, AfterCheck
<1> QED BY <1>1, <1>2 DEF Init, Chain

\* An incident is resolved only after its container was restarted and passed the
\* required checks, and no check that fails comes after.
THEOREM OperationsResolvedMeansRecovered == Spec => []ResolvedMeansRecovered
<1>1. Basic /\ Once /\ Truth /\ Chain /\ [Next]_vars => (Basic /\ Once /\ Truth /\ Chain)'
  BY BasicKept, OnceKept, TruthKept, ChainKept
<1>2. Init => Basic /\ Once /\ Truth /\ Chain
  BY BasicInit, OnceInit, TruthInit, ChainInit
<1>3. Chain => ResolvedMeansRecovered
  BY DEF Chain, Recovered, ResolvedMeansRecovered
<1> QED BY <1>1, <1>2, <1>3, PTL DEF Spec

-------------------------------------------------------------------------------
(* An incident the repair pipeline was never handed.                       *)

\* One worker at a time plans an incident.
LEMMA PlanLease ==
  ASSUME Basic, NEW w \in Workers, pc[w] \in PlanPoints
  PROVE  /\ work[w].id \in Incidents
         /\ \A v \in Workers : pc[v] \in PlanPoints /\ work[v].id = work[w].id => v = w
<1>1. ASSUME NEW v \in Workers, pc[v] \in PlanPoints
      PROVE  /\ work[v].id \in Incidents /\ lease[v] # Q!NoLease
             /\ lease[v].job = <<work[v].id, "plan", 0>>
  <2>1. Runs(v, "plan") /\ work[v] \in Work
    BY <1>1, HandlerPoints DEF Basic, Agreement, Agrees, PointSets, Ends
  <2>2. lease[v].job \in Jobs
    BY <2>1, QueueFacts DEF Runs, Basic
  <2>3. lease[v].job = <<work[v].id, "plan", lease[v].job[3]>> /\ lease[v].job[3] = 0
    BY <2>1, <2>2 DEF Runs, Jobs, Numbers
  <2> QED BY <2>1, <2>3 DEF Work, Runs
<1> QED BY <1>1, QueueFacts DEF Basic

\* How the sets of points lie in one another.
LEMMA HeldPoints ==
  /\ PlanHeld \subseteq PlanPoints
  /\ ExecuteHeld = ExecutePoints \ {"execute", "execute.enqueue"}
  /\ VerifyHeld = (VerifyPoints \ {"verify"}) \union {"execute.enqueue"}
  /\ Checking \subseteq VerifyPoints /\ Checking \subseteq VerifyHeld
  /\ Handed \intersect Kind = {"repair", "build"}
  /\ {"plan.require", "plan.block", "plan.persist", "plan.wait", "plan.allow", "plan.pause"} \subseteq PlanHeld
  /\ {"plan.propose", "plan.start"} \subseteq PlanPoints \ PlanHeld
  /\ {"execute.block", "execute.claim", "execute.call", "execute.executed", "execute.failClosed",
      "execute.ambiguous", "execute.pause", "execute.verify"} \subseteq ExecuteHeld
  /\ {"verify.failed", "verify.verified", "verify.resolve"} \subseteq VerifyHeld
  /\ {"diagnose.plan", "repair.start", "build.pause", "build.test"} \subseteq Handed
  /\ "execute.enqueue" \in ExecutePoints
  /\ {"idle", "ok", "err", "escalate", "escalate.cas", "plan.enqueue"} \intersect
       (PlanHeld \union ExecutePoints \union VerifyPoints \union Handed) = {}
BY DEF PlanHeld, PlanPoints, ExecuteHeld, ExecutePoints, BeforeCall, AfterCall, VerifyHeld,
   VerifyPoints,
   BeforeCheck, AfterCheck, Checking, Handed, RepairPoints, BuildPoints, Kind

\* Who moves an incident the repair pipeline was never handed.
LEMMA AloneMoves ==
  ASSUME Basic, Alone, [Next]_vars,
         NEW i \in Incidents, OperationsOnly(i), incident'[i] # incident[i]
  PROVE  \/ incident[i] \in {"absent", "WaitingApproval", "Paused"}
            /\ incident'[i] \in {"Open", "Paused", "Repairing", "Cancelled", "CollectingContext"}
         \/ incident[i] \notin Settled /\ incident'[i] = "Escalated"
         \/ \E w \in Workers :
              /\ ControlStep(w) /\ work[w].id = i
              /\ <<pc[w], incident[i], incident'[i]>> \in Moving
              /\ pc[w] \notin Handed
<1>1. ASSUME OpenIncident(i) \/ Approve(i) \/ Reject(i)
      PROVE  incident[i] \in {"absent", "WaitingApproval", "Paused"}
             /\ incident'[i] \in {"Open", "Paused", "Repairing", "Cancelled", "CollectingContext"}
  BY <1>1 DEF OpenIncident, Approve, Approvable, Reject, Rejectable, AwaitsApproval, Basic,
     TypeOK
<1>2. ASSUME NEW w \in Workers, ControlStep(w), MovedBy(w, i)
      PROVE  \/ incident[i] \notin Settled /\ incident'[i] = "Escalated"
             \/ work[w].id = i /\ <<pc[w], incident[i], incident'[i]>> \in Moving /\ pc[w] \notin Handed
  BY <1>2, HeldPoints DEF MovedBy, Alone, Unhanded, At
<1> QED BY <1>1, <1>2, IncidentMoves

\* Who writes the action of such an incident, and in which state the incident then is.
LEMMA AloneMarks ==
  ASSUME Basic, Truth, Alone, [Next]_vars,
         NEW i \in Incidents, OperationsOnly(i), action'[i] # action[i]
  PROVE  \/ (Approve(i) \/ Reject(i)) /\ incident[i] = "WaitingApproval"
            /\ action[i].status = "APPROVAL_REQUIRED"
         \/ \E w \in Workers :
              /\ ControlStep(w) /\ MarkedBy(w, i) /\ work[w].id = i
              /\ \/ At(w, i, PlanHeld) /\ pc[w] \in {"plan.require", "plan.block", "plan.persist"}
                 \/ At(w, i, ExecuteHeld) /\ pc[w] \in ExecutePoints
                 \/ At(w, i, VerifyHeld) /\ pc[w] \in {"verify.failed", "verify.verified"}
              /\ incident[i] \in {"Planning", "Repairing", "VerifyingProduction", "Escalated"}
<1>1. ASSUME NEW w \in Workers, ControlStep(w), MarkedBy(w, i)
      PROVE  /\ work[w].id = i
             /\ \/ At(w, i, PlanHeld) /\ pc[w] \in {"plan.require", "plan.block", "plan.persist"}
                \/ At(w, i, ExecuteHeld) /\ pc[w] \in ExecutePoints
                \/ At(w, i, VerifyHeld) /\ pc[w] \in {"verify.failed", "verify.verified"}
             /\ incident[i] \in {"Planning", "Repairing", "VerifyingProduction", "Escalated"}
  <2>1. /\ work[w].id = i
        /\ pc[w] \in {"plan.require", "plan.block", "plan.persist", "execute.block", "execute.claim",
                      "execute.executed", "execute.failClosed", "execute.ambiguous", "verify.failed",
                      "verify.verified"}
    BY <1>1 DEF MarkedBy, Marking
  <2>2. \/ At(w, i, PlanHeld) /\ pc[w] \in {"plan.require", "plan.block", "plan.persist"}
        \/ At(w, i, ExecuteHeld) /\ pc[w] \in ExecutePoints
        \/ At(w, i, VerifyHeld) /\ pc[w] \in {"verify.failed", "verify.verified"}
    BY <2>1, HeldPoints DEF At
  <2>3. incident[i] \in {"Planning", "Repairing", "VerifyingProduction", "Escalated"}
    BY <2>2 DEF Alone, StepAlone
  <2> QED BY <2>1, <2>2, <2>3
<1>2. Approve(i) \/ Reject(i) => incident[i] = "WaitingApproval" /\ action[i].status = "APPROVAL_REQUIRED"
  BY DEF Approve, Approvable, Reject, Rejectable, AwaitsApproval
<1> QED BY <1>1, <1>2, ActionMoves

\* An action is sent by a worker at the call in the execute handler.
LEMMA SentFrom ==
  ASSUME Basic, [Next]_vars, NEW i \in Incidents, tries'[i] # tries[i]
  PROVE  \E w \in Workers : At(w, i, ExecuteHeld) /\ pc[w] = "execute.call" /\ pc[w] \in ExecutePoints
<1>1. PICK w \in Workers : CallHelper(w) /\ work[w].id = i
  BY HelperMoves
<1>2. pc[w] = "execute.call"
  BY <1>1, ExecuteFlow DEF Goes, Basic
<1> QED BY <1>1, <1>2, HeldPoints DEF At

\* How a worker comes to be at work on an incident's plan, execution or check.
LEMMA HeldCame ==
  ASSUME Basic, NEW w \in Workers, ControlStep(w),
         pc'[w] \in PlanHeld \union ExecuteHeld \union VerifyHeld
  PROVE  /\ work'[w].id = work[w].id
         /\ pc'[w] \in PlanHeld => pc[w] \in PlanHeld \/ Propose(w)
         /\ pc'[w] \in ExecuteHeld =>
              pc[w] \in ExecuteHeld \/ (incident[work[w].id] = "Repairing" /\ ReadWork(w))
         /\ pc'[w] \in VerifyHeld =>
              \/ pc[w] \in VerifyPoints \ {"verify"}
              \/ BeginVerification(w) /\ pc[w] \in ExecuteHeld /\ pc'[w] = "execute.enqueue"
              \/ incident[work[w].id] = "VerifyingProduction" /\ ReadWork(w)
<1>t. TypeOK
  BY DEF Basic
<1>1. ~ClaimNext(w) /\ pc'[w] # "idle"
  <2>1. pc'[w] \notin Kind \union {"idle", "err"}
    BY DEF PlanHeld, ExecuteHeld, ExecutePoints, BeforeCall, AfterCall, VerifyHeld,
       VerifyPoints, BeforeCheck,
       AfterCheck, Kind
  <2> QED BY <1>t, <2>1, LoopFlow DEF Goes
<1>2. work'[w].id = work[w].id
  BY <1>1, SameSubject
<1>r. ASSUME ReadWork(w)
      PROVE  /\ pc'[w] \notin PlanHeld
             /\ pc'[w] \in ExecuteHeld => incident[work[w].id] = "Repairing"
             /\ pc'[w] \in VerifyHeld => incident[work[w].id] = "VerifyingProduction"
  <2>1. pc'[w] \in Entries
    BY <1>r, <1>t, LoopFlow, ReadFlow
  <2>2. pc'[w] = Entry(pc[w], incident[work[w].id], project.paused) /\ pc[w] \in Kind
    BY <1>r, <1>t, LoopFlow
  <2>3. pc'[w] \in {"execute.block", "execute.load"} => incident[work[w].id] = "Repairing"
    BY <2>2 DEF Kind, Entry, ContextEntry, PlanEntry, ExecuteEntry, VerifyEntry,
       DiagnoseEntry, RepairEntry, BuildEntry
  <2>4. pc'[w] = "verify.load" => incident[work[w].id] = "VerifyingProduction"
    BY <2>2 DEF Kind, Entry, ContextEntry, PlanEntry, ExecuteEntry, VerifyEntry,
       DiagnoseEntry, RepairEntry, BuildEntry
  <2>5. pc'[w] \in PlanHeld \union ExecuteHeld \union VerifyHeld =>
          pc'[w] \in {"execute.block", "execute.load", "verify.load"}
    BY <2>1 DEF Entries, PlanHeld, ExecuteHeld, ExecutePoints, BeforeCall, AfterCall,
       VerifyHeld, VerifyPoints, BeforeCheck,
       AfterCheck
  <2> QED BY <2>3, <2>4, <2>5 DEF PlanHeld, ExecuteHeld, ExecutePoints, BeforeCall, AfterCall,
     VerifyHeld, VerifyPoints,
          BeforeCheck, AfterCheck
<1>3. pc'[w] \in PlanHeld => pc[w] \in PlanHeld \/ Propose(w)
  <2>1. ASSUME pc'[w] \in PlanHeld
        PROVE  Propose(w) \/ ConsultPolicy(w) \/ PersistAction(w) \/ RequireApproval(w) \/ BlockAction(w)
    BY <2>1, CameFrom DEF PlanHeld
  <2> QED BY <1>t, <2>1, PlanFlow, PersistFlow DEF PlanHeld, Goes
<1>4. pc'[w] \in ExecuteHeld =>
        pc[w] \in ExecuteHeld \/ (incident[work[w].id] = "Repairing" /\ ReadWork(w))
  <2>1. ASSUME pc'[w] \in ExecuteHeld, ~ReadWork(w) PROVE pc[w] \in ExecuteHeld
    <3>1. \/ BlockExecution(w) \/ LoadAction(w) \/ ClaimAction(w) \/ CallHelper(w) \/ HelperAnswers(w)
          \/ MarkExecuted(w) \/ AuditExecution(w)
      <4>1. pc'[w] \in Entries \ {"ok", "err"} =>
              CollectContext(w) \/ StartReasoning(w) \/ StartDiagnosis(w) \/ StartRepair(w)
        BY <2>1, CameFrom
      <4>2. pc'[w] \in {"execute.block", "execute.load"} => FALSE
        BY <1>t, <4>1, LoopFlow, PlanFlow, RepairFlow DEF Entries, Goes
      <4> QED BY <2>1, <4>2, CameFrom DEF ExecuteHeld, ExecutePoints, BeforeCall, AfterCall
    <3> QED BY <1>t, <3>1, ExecuteFlow DEF ExecuteHeld, ExecutePoints, BeforeCall, AfterCall,
       Goes
  <2> QED BY <1>r, <2>1
<1>5. pc'[w] \in VerifyHeld =>
        \/ pc[w] \in VerifyPoints \ {"verify"}
        \/ BeginVerification(w) /\ pc[w] \in ExecuteHeld /\ pc'[w] = "execute.enqueue"
        \/ incident[work[w].id] = "VerifyingProduction" /\ ReadWork(w)
  <2>1. CASE pc'[w] = "execute.enqueue"
    BY <1>t, <2>1, CameFrom, ExecuteFlow DEF Goes, ExecuteHeld, ExecutePoints, AfterCall
  <2>2. ASSUME pc'[w] \in VerifyHeld, pc'[w] # "execute.enqueue", ~ReadWork(w)
        PROVE pc[w] \in VerifyPoints \ {"verify"}
    <3>1. LoadExecuted(w) \/ CheckRecovery(w) \/ MarkVerified(w)
      <4>1. pc'[w] \in Entries \ {"ok", "err"} =>
              CollectContext(w) \/ StartReasoning(w) \/ StartDiagnosis(w) \/ StartRepair(w)
        BY <2>2, CameFrom
      <4>2. pc'[w] = "verify.load" => FALSE
        BY <1>t, <4>1, LoopFlow, PlanFlow, RepairFlow DEF Entries, Goes
      <4> QED BY <2>2, <4>2, CameFrom DEF VerifyHeld, VerifyPoints, BeforeCheck, AfterCheck
    <3> QED BY <1>t, <3>1, VerifyFlow DEF VerifyPoints, BeforeCheck, AfterCheck, Goes
  <2> QED BY <1>r, <2>1, <2>2
<1> QED BY <1>2, <1>3, <1>4, <1>5

\* How a worker comes to the repair pipeline's later steps.
LEMMA HandedCame ==
  ASSUME Basic, NEW w \in Workers, ControlStep(w), pc'[w] \in Handed
  PROVE  \/ ClaimNext(w) /\ pc'[w] \in {"repair", "build"}
         \/ work'[w].id = work[w].id /\ (CreateAttempt(w) \/ pc[w] \in Handed)
<1>t. TypeOK
  BY DEF Basic
<1>1. CASE ClaimNext(w)
  BY <1>t, <1>1, LoopFlow, HeldPoints DEF Goes
<1>2. CASE ~ClaimNext(w)
  <2>1. work'[w].id = work[w].id /\ pc'[w] \notin Kind
    BY <1>2, SameSubject, CameFrom, HeldPoints
  <2>2. CASE ReadWork(w)
    <3>1. pc'[w] = Entry(pc[w], incident[work[w].id], project.paused) /\ pc[w] \in Kind /\ pc'[w] \in Entries
      BY <1>t, <2>2, LoopFlow, ReadFlow
    <3>2. pc'[w] \in {"repair.start", "repair.model", "build.pause", "build.test"}
      BY <3>1 DEF Entries, Handed, RepairPoints, BuildPoints
    <3>3. pc[w] \in {"repair", "build"}
      BY <3>1, <3>2 DEF Kind, Entry, ContextEntry, PlanEntry, ExecuteEntry, VerifyEntry,
         DiagnoseEntry
    <3> QED BY <2>1, <3>3, HeldPoints
  <2>3. CASE ~ReadWork(w)
    <3>1. pc'[w] \in Entries \ {"ok", "err"} =>
            CollectContext(w) \/ StartReasoning(w) \/ StartDiagnosis(w) \/ StartRepair(w)
      BY <2>3, CameFrom
    <3>2. CreateAttempt(w) \/ PlanRepair(w) \/ StartRepair(w) \/ ProposeRepair(w)
      <4>1. pc'[w] \in {"repair.start", "repair.model", "build.pause", "build.test"} => StartRepair(w)
        BY <1>t, <3>1, LoopFlow, PlanFlow, RepairFlow DEF Entries, Goes
      <4> QED BY <2>1, <4>1, CameFrom DEF Handed, RepairPoints, BuildPoints, Kind
    <3> QED BY <1>t, <2>1, <3>2, RepairFlow DEF Goes, Handed, RepairPoints, BuildPoints
  <2> QED BY <2>2, <2>3
<1> QED BY <1>1, <1>2

\* The incident is not moved away while a worker holds it.
LEMMA HeldIncident ==
  ASSUME Basic, Once, Truth, Chain, Alone, [Next]_vars, NEW i \in Incidents, OperationsOnly(i),
         NEW w \in Workers
  PROVE  /\ At(w, i, PlanHeld) /\ At(w, i, PlanHeld)' => incident'[i] \in {"Planning", "Escalated"}
         /\ At(w, i, ExecuteHeld) /\ At(w, i, ExecuteHeld)' => incident'[i] \in {"Repairing", "Escalated"}
         /\ At(w, i, VerifyHeld) /\ At(w, i, VerifyHeld)' =>
              incident'[i] \in {"VerifyingProduction", "Escalated"}
<1>1. CASE incident'[i] = incident[i]
  BY <1>1 DEF Alone, StepAlone, At
<1>2. CASE incident'[i] # incident[i]
  <2>1. CASE incident[i] \notin Settled /\ incident'[i] = "Escalated"
    BY <2>1
  <2>2. CASE incident[i] \in {"absent", "WaitingApproval", "Paused"}
    BY <2>2 DEF Alone, StepAlone
  <2>3. ASSUME NEW v \in Workers, ControlStep(v), work[v].id = i, pc[v] \notin Handed,
               <<pc[v], incident[i], incident'[i]>> \in Moving
        PROVE  /\ ~(At(w, i, PlanHeld) /\ At(w, i, PlanHeld)')
               /\ ~(At(w, i, ExecuteHeld) /\ At(w, i, ExecuteHeld)')
               /\ ~(At(w, i, VerifyHeld) /\ At(w, i, VerifyHeld)')
    <3>1. ASSUME At(w, i, PlanHeld), At(w, i, PlanHeld)' PROVE FALSE
      <4>1. incident[i] \in {"Planning", "Escalated"}
        BY <3>1 DEF Alone, StepAlone
      <4>2. pc[v] \in {"plan.allow", "plan.wait", "plan.pause"}
        BY <2>3, <4>1, HeldPoints DEF Moving
      <4>3. v = w
        BY <2>3, <3>1, <4>2, HeldPoints, PlanLease DEF At
      <4>4. pc[w] \in PlanHeld \ {"plan.policy", "plan.persist", "plan.require", "plan.block"} /\ ~Propose(w)
        BY <4>2, <4>3, HeldPoints, PlanFlow DEF Goes, Basic
      <4>5. pc'[w] \in PlanHeld => ConsultPolicy(w) \/ PersistAction(w) \/ RequireApproval(w) \/ BlockAction(w)
        BY <2>3, <4>3, <4>4, CameFrom DEF PlanHeld
      <4> QED BY <3>1, <4>4, <4>5, PlanFlow, PersistFlow DEF Goes, At, Basic
    <3>2. ASSUME At(w, i, ExecuteHeld), At(w, i, ExecuteHeld)' PROVE FALSE
      <4>1. incident[i] \in {"Repairing", "Escalated"}
        BY <3>2 DEF Alone, StepAlone
      <4>2. pc[v] \in {"execute.pause", "execute.verify"}
        BY <2>3, <4>1, HeldPoints DEF Moving
      <4>3. v = w
        BY <2>3, <3>2, <4>2, HeldPoints, ExecuteLease DEF At
      <4>4. pc'[w] \in ExecutePoints => pc'[w] = "execute.enqueue"
        <5>1. ~ReadWork(w) /\ ~ClaimNext(w)
          BY <4>2, <4>3, LoopFlow DEF Goes, Kind, Basic
        <5>2. \/ PauseExecution(w) \/ BeginVerification(w) \/ StepFails(w) \/ Crash(w)
          BY <2>3, <4>2, <4>3, <5>1, LoopFlow, PlanFlow, PersistFlow, ExecuteFlow, VerifyFlow,
             RepairFlow
             DEF ControlStep, WorkerStep, Plan, Execute, Verify, Repair, Goes, Basic
        <5> QED BY <5>2, ExecuteFlow, LoopFlow, HeldPoints DEF Goes, Basic
      <4> QED BY <3>2, <4>4, HeldPoints DEF At
    <3>3. ASSUME At(w, i, VerifyHeld), At(w, i, VerifyHeld)' PROVE FALSE
      <4>1. incident[i] \in {"VerifyingProduction", "Escalated"}
        BY <3>3 DEF Alone, StepAlone
      <4>2. pc[v] = "verify.resolve" /\ pc[v] \in VerifyPoints
        BY <2>3, <4>1, HeldPoints DEF Moving
      <4>3. CASE pc[w] = "execute.enqueue"
        <5>1. work[v].n \in 0..(Required - 1) /\ Enqueued(VerifyJob(i, work[v].n))
          BY <2>3, <4>2, VerifyLease
        <5> QED BY <3>3, <4>3, <5>1, HeldPoints DEF Truth, StepTruth, At
      <4>4. CASE pc[w] # "execute.enqueue"
        <5>1. v = w
          BY <2>3, <3>3, <4>2, <4>4, HeldPoints, OneChecker DEF At
        <5>2. ~ReadWork(w) /\ ~BeginVerification(w) /\ ~ClaimNext(w)
          BY <4>2, <5>1, LoopFlow, ExecuteFlow DEF Goes, Kind, Basic
        <5>3. \/ Resolve(w) \/ StepFails(w) \/ Crash(w)
          BY <2>3, <4>2, <5>1, <5>2, LoopFlow, PlanFlow, PersistFlow, ExecuteFlow, VerifyFlow,
             RepairFlow
             DEF ControlStep, WorkerStep, Plan, Execute, Verify, Repair, Goes, Basic
        <5>4. pc'[w] \in {"ok", "err", "idle"}
          BY <5>3, VerifyFlow, LoopFlow DEF Goes, Basic
        <5> QED BY <3>3, <5>4, HeldPoints DEF At
      <4> QED BY <4>3, <4>4
    <3> QED BY <3>1, <3>2, <3>3
  <2> QED BY <1>2, <2>1, <2>2, <2>3, AloneMoves
<1> QED BY <1>1, <1>2

\* An incident without an attempt's row stays out of the repair pipeline's hands.
LEMMA UnhandedKept ==
  ASSUME Basic, Alone, [Next]_vars, NEW i \in Incidents, OperationsOnly(i), OperationsOnly(i)'
  PROVE  Unhanded(i)'
<1>0. Unhanded(i)
  BY DEF Alone
<1>1. ASSUME NEW j \in Jobs, j[1] = i, j[2] \in {"repair", "build"}, Enqueued(j)' PROVE FALSE
  <2>1. ~Enqueued(j)
    BY <1>0, <1>1 DEF Unhanded
  <2>2. PICK w \in Workers : EnqueuedBy(w, j)
    BY <1>1, <2>1, NewJobs
  <2>3. pc[w] \in Handed /\ work[w].id = i
    BY <1>1, <2>2 DEF EnqueuedBy, Enqueues, Handed, RepairPoints
  <2> QED BY <1>0, <2>3 DEF Unhanded, At
<1>2. ASSUME NEW w \in Workers, pc'[w] \in Handed, work'[w].id = i PROVE FALSE
  <2>1. CASE ControlStep(w)
    <3>1. CASE ClaimNext(w) /\ pc'[w] \in {"repair", "build"}
      <4>1. PICK j \in Jobs : Claims(w, j)
        BY <3>1, ClaimTaken
      <4>2. j[1] = i /\ j[2] \in {"repair", "build"} /\ Enqueued(j)
        BY <1>2, <3>1, <4>1 DEF Claims, Fresh
      <4> QED BY <1>0, <4>2 DEF Unhanded
    <3>2. CASE CreateAttempt(w) /\ work[w].id = i
      <4> DEFINE a == IF attempts[i].current # 0 THEN attempts[i].current ELSE attempts[i].made + 1
      <4>1. attempts \in [Incidents -> [made : Nat, current : Nat]]
        BY DEF Basic, TypeOK
      <4>2. attempts'[i].made = IF a > attempts[i].made THEN a ELSE attempts[i].made
        BY <3>2, <4>1 DEF CreateAttempt, Subject
      <4>3. a \in Nat /\ a > 0 /\ attempts[i].made \in Nat
        BY <4>1
      <4>4. attempts'[i].made > 0
        BY <4>2, <4>3
      <4> QED BY <4>4 DEF OperationsOnly
    <3>3. CASE pc[w] \in Handed /\ work[w].id = i
      BY <1>0, <3>3 DEF Unhanded, At
    <3> QED BY <1>2, <2>1, <3>1, <3>2, <3>3, HandedCame
  <2>2. CASE pc'[w] = pc[w] /\ work'[w] = work[w]
    BY <1>0, <1>2, <2>2 DEF Unhanded, At
  <2> QED BY <2>1, <2>2, WorkerCases
<1> QED BY <1>1, <1>2 DEF Unhanded, At, Enqueued

\* Every step keeps the incident's row in step with its action's.
LEMMA RowAloneKept ==
  ASSUME Basic, Basic', Once, Truth, Alone, [Next]_vars, NEW i \in Incidents, OperationsOnly(i)
  PROVE  RowAlone(i)'
<1>0. RowAlone(i) /\ \A w \in Workers : StepAlone(w, i)
  BY DEF Alone
<1>t. TypeOK /\ TypeOK'
  BY DEF Basic
\* While an incident waits, or an action waits to be recorded as waiting, its row
\* changes only by the administrator's decision.
<1>w. ASSUME action'[i] # action[i],
             \/ incident[i] = "WaitingApproval"
             \/ \E w \in Workers : At(w, i, {"plan.wait"}) /\ incident[i] = "Planning"
      PROVE  (Approve(i) \/ Reject(i)) /\ incident[i] = "WaitingApproval"
  <2>1. CASE incident[i] = "WaitingApproval"
    BY <1>w, <2>1, AloneMarks
  <2>2. ASSUME NEW w \in Workers, At(w, i, {"plan.wait"}), incident[i] = "Planning" PROVE FALSE
    <3>1. PICK v \in Workers :
            /\ MarkedBy(v, i) /\ work[v].id = i
            /\ \/ At(v, i, PlanHeld) /\ pc[v] \in {"plan.require", "plan.block", "plan.persist"}
               \/ At(v, i, ExecuteHeld)
               \/ At(v, i, VerifyHeld)
      BY <1>w, <2>2, AloneMarks
    <3>2. At(w, i, PlanHeld) /\ pc[w] = "plan.wait"
      BY <2>2, HeldPoints DEF At
    <3>3. pc[v] \in {"plan.require", "plan.block", "plan.persist"}
      BY <1>0, <3>1, <3>2 DEF StepAlone, At
    <3>4. v = w
      BY <3>1, <3>2, <3>3, HeldPoints, PlanLease DEF At
    <3> QED BY <3>2, <3>3, <3>4
  <2> QED BY <1>w, <2>1, <2>2
<1>1. ASSUME incident'[i] = "WaitingApproval" PROVE action'[i].status = "APPROVAL_REQUIRED"
  <2>1. CASE incident[i] = "WaitingApproval"
    <3>1. ~Approve(i) /\ ~Reject(i)
      BY <1>1, <1>t DEF Approve, Reject, TypeOK
    <3> QED BY <1>0, <1>w, <2>1, <3>1 DEF RowAlone
  <2>2. CASE incident[i] # "WaitingApproval"
    <3>1. PICK w \in Workers : /\ work[w].id = i
                               /\ <<pc[w], incident[i], incident'[i]>> \in Moving
      BY <1>1, <2>2, AloneMoves
    <3>2. At(w, i, {"plan.wait"}) /\ incident[i] = "Planning"
      BY <1>1, <3>1 DEF Moving, At
    <3>3. action'[i] = action[i]
      BY <1>w, <3>2
    <3> QED BY <1>0, <3>2, <3>3 DEF StepAlone
  <2> QED BY <2>1, <2>2
\* Sent or settled: the incident is past its plan.
<1>2. ASSUME tries'[i] # {} \/ action'[i].status \in Outcomes PROVE incident'[i] \in Late
  <2>1. incident[i] \in Late
    <3>1. CASE tries[i] # {} \/ action[i].status \in Outcomes
      BY <1>0, <3>1 DEF RowAlone
    <3>2. CASE tries'[i] # tries[i]
      BY <1>0, <3>2, SentFrom DEF StepAlone, Late
    <3>3. CASE action'[i].status \in Outcomes /\ action'[i].status # action[i].status
      <4>1. PICK w \in Workers :
              /\ work[w].id = i
              /\ pc[w] \in {"execute.failClosed", "execute.ambiguous", "verify.failed",
                            "verify.verified"}
        BY <3>3, OutcomeBy
      <4>2. At(w, i, ExecuteHeld) \/ At(w, i, VerifyHeld)
        BY <4>1, HeldPoints DEF At
      <4> QED BY <1>0, <4>2 DEF StepAlone, Late
    <3> QED BY <1>2, <3>1, <3>2, <3>3
  <2>2. CASE incident'[i] = incident[i] \/ incident'[i] = "Escalated"
    BY <2>1, <2>2 DEF Late
  <2>3. ASSUME NEW w \in Workers, work[w].id = i, pc[w] \notin Handed, incident'[i] \notin Late,
               <<pc[w], incident[i], incident'[i]>> \in Moving
        PROVE  FALSE
    <3>1. pc[w] = "execute.pause" /\ incident[i] = "Repairing"
      BY <2>1, <2>3, HeldPoints DEF Moving, Late
    <3>2. pc[w] \in ExecutePoints /\ pc[w] \in BeforeCall
      BY <3>1 DEF ExecutePoints, BeforeCall
    <3>3. tries[i] = {} /\ action[i].status \notin Outcomes
      BY <2>3, <3>2 DEF Once, Truth, StepTruth
    <3>4. tries'[i] = tries[i]
      BY <2>3, <3>1, <3>2, SentFrom, ExecuteLease DEF At
    <3>5. PICK v \in Workers :
            /\ work[v].id = i
              /\ pc[v] \in {"execute.failClosed", "execute.ambiguous", "verify.failed",
                            "verify.verified"}
      BY <1>2, <3>3, <3>4, OutcomeBy
    <3>6. pc[v] \in {"verify.failed", "verify.verified"}
      BY <2>3, <3>1, <3>2, <3>5, HeldPoints, ExecuteLease
    <3> QED BY <1>0, <3>1, <3>5, <3>6, HeldPoints DEF StepAlone, At
  <2> QED BY <2>1, <2>2, <2>3, AloneMoves DEF Late
\* A rejected action: nothing is left that could send it.
<1>3. ASSUME action'[i].decision = "rejected"
      PROVE  tries'[i] = {} /\ incident'[i] = "Cancelled" /\ action'[i].status = "REJECTED"
  <2>1. CASE action[i].decision = "rejected"
    <3>1. tries[i] = {} /\ incident[i] = "Cancelled" /\ action[i].status = "REJECTED"
      BY <1>0, <2>1 DEF RowAlone
    <3>2. tries'[i] = tries[i]
      BY <1>0, <3>1, SentFrom DEF StepAlone
    <3>3. incident'[i] = incident[i]
      BY <3>1, AloneMoves DEF Moving, Settled
    <3>4. action'[i] = action[i]
      BY <3>1, AloneMarks
    <3> QED BY <3>1, <3>2, <3>3, <3>4
  <2>2. CASE action[i].decision # "rejected"
    <3>1. ASSUME NEW w \in Workers, ControlStep(w), MarkedBy(w, i) PROVE FALSE
      <4>1. pc[w] = "plan.persist" /\ work[w].verdict = "rejected"
        BY <1>3, <2>2, <3>1 DEF MarkedBy
      <4>2. work[w].verdict \in PolicyDecision
        BY <4>1 DEF Basic, Agreement, Agrees, Work
      <4> QED BY <4>1, <4>2 DEF PolicyDecision
    <3>2. ~Approve(i)
      BY <1>3, <1>t DEF Approve, TypeOK
    <3>3. Reject(i)
      BY <1>3, <2>2, <3>1, <3>2, ActionMoves
    <3>4. incident[i] = "WaitingApproval"
      BY <3>3 DEF Reject, Rejectable, AwaitsApproval
    <3>5. tries[i] = {}
      BY <1>0, <3>4 DEF RowAlone, Late
    <3>6. tries' = tries /\ incident'[i] = "Cancelled" /\ action'[i].status = "REJECTED"
      BY <1>t, <3>3 DEF Reject, TypeOK, helperVars
    <3> QED BY <3>5, <3>6
  <2> QED BY <2>1, <2>2
<1> QED BY <1>1, <1>2, <1>3 DEF RowAlone

\* Every step keeps each worker in step with the incident it holds.
LEMMA StepAloneKept ==
  ASSUME Basic, Basic', Once, Truth, Chain, Alone, [Next]_vars,
         NEW i \in Incidents, OperationsOnly(i),
         NEW w \in Workers
  PROVE  StepAlone(w, i)'
<1>0. RowAlone(i) /\ \A v \in Workers : StepAlone(v, i)
  BY DEF Alone
<1>t. TypeOK /\ TypeOK'
  BY DEF Basic
<1>c. ASSUME NEW v \in Workers, work'[v].id = i,
             pc'[v] \in PlanHeld \union ExecuteHeld \union VerifyHeld
      PROVE  /\ work[v].id = i
             /\ pc'[v] \in PlanHeld => pc[v] \in PlanHeld \/ (ControlStep(v) /\ Propose(v))
             /\ pc'[v] \in ExecuteHeld =>
                  pc[v] \in ExecuteHeld \/ (incident[i] = "Repairing" /\ ControlStep(v) /\ ReadWork(v))
             /\ pc'[v] \in VerifyHeld =>
                  \/ pc[v] \in VerifyHeld
                  \/ BeginVerification(v) /\ pc[v] \in ExecuteHeld /\ pc'[v] = "execute.enqueue"
                  \/ incident[i] = "VerifyingProduction" /\ ReadWork(v)
  <2>1. CASE pc'[v] = pc[v] /\ work'[v] = work[v]
    BY <1>c, <2>1
  <2>2. CASE ControlStep(v)
    BY <1>c, <2>2, HeldCame, HeldPoints
  <2> QED BY <2>1, <2>2, WorkerCases
\* proposing a restart
<1>p. ASSUME Propose(w), work[w].id = i, pc'[w] \in PlanHeld
      PROVE  /\ incident[i] = "Diagnosing" /\ incident'[i] = "Planning"
             /\ action' = action
  <2>1. Goto(w, "plan.propose", "plan.policy") /\ incident[i] = "Diagnosing"
        /\ incident' = [incident EXCEPT ![i] = "Planning"]
    <3>1. ASSUME Goto(w, "plan.propose", Fail(w)) PROVE FALSE
      BY <1>p, <1>t, <3>1, HeldPoints DEF Goto, Fail, TypeOK
    <3> QED BY <1>p, <3>1 DEF Propose, Transition, Subject
  <2> QED BY <1>p, <1>t, <2>1 DEF Propose, Transition, TypeOK
<1>1. ASSUME At(w, i, PlanHeld)'
      PROVE  /\ incident'[i] \in {"Planning", "Escalated"}
             /\ action'[i].status \notin Outcomes
             /\ \A v \in Workers : ~At(v, i, ExecuteHeld \union VerifyHeld)'
  <2>0. work[w].id = i /\ (pc[w] \in PlanHeld \/ Propose(w))
    BY <1>1, <1>c DEF At
  <2>1. incident'[i] \in {"Planning", "Escalated"}
    BY <1>1, <1>p, <2>0, HeldIncident DEF At
  <2>2. /\ action[i].status \notin Outcomes
        /\ \A v \in Workers : ~At(v, i, ExecuteHeld \union VerifyHeld)
        /\ incident[i] \in {"Planning", "Escalated", "Diagnosing"}
    <3>1. CASE pc[w] \in PlanHeld
      BY <1>0, <2>0, <3>1 DEF StepAlone, At
    <3>2. CASE Propose(w)
      <4>1. incident[i] = "Diagnosing"
        BY <1>1, <1>p, <2>0, <3>2 DEF At
      <4> QED BY <1>0, <4>1 DEF RowAlone, StepAlone, Late, At
    <3> QED BY <2>0, <3>1, <3>2
  <2>3. action'[i].status \notin Outcomes
    <3>1. ASSUME action'[i].status \in Outcomes PROVE FALSE
      <4>1. PICK v \in Workers :
              /\ work[v].id = i
              /\ pc[v] \in {"execute.failClosed", "execute.ambiguous", "verify.failed",
                            "verify.verified"}
        BY <2>2, <3>1, OutcomeBy
      <4> QED BY <2>2, <4>1, HeldPoints DEF At
    <3> QED BY <3>1
  <2>4. ASSUME NEW v \in Workers, pc'[v] \in ExecuteHeld \union VerifyHeld, work'[v].id = i PROVE FALSE
    <3>1. work[v].id = i /\ pc[v] \in ExecuteHeld \union VerifyHeld
      BY <1>c, <2>2, <2>4
    <3> QED BY <2>2, <3>1 DEF At
  <2> QED BY <2>1, <2>3, <2>4 DEF At
<1>2. ASSUME At(w, i, ExecuteHeld)' PROVE incident'[i] \in {"Repairing", "Escalated"}
  <2>1. CASE pc[w] \in ExecuteHeld
    BY <1>2, <1>c, <2>1, HeldIncident DEF At
  <2>2. CASE incident[i] = "Repairing" /\ ReadWork(w)
    BY <2>2 DEF ReadWork, dataVars
  <2> QED BY <1>2, <1>c, <2>1, <2>2 DEF At
<1>3. ASSUME At(w, i, VerifyHeld)' PROVE incident'[i] \in {"VerifyingProduction", "Escalated"}
  <2>0. work[w].id = i
    BY <1>3, <1>c DEF At
  <2>1. CASE pc[w] \in VerifyHeld
    BY <1>3, <1>c, <2>1, HeldIncident DEF At
  <2>2. CASE BeginVerification(w) /\ pc'[w] = "execute.enqueue"
    <3>1. ASSUME Goto(w, "execute.verify", Fail(w)) PROVE FALSE
      BY <1>t, <2>2, <3>1 DEF Goto, Fail, TypeOK
    <3> QED BY <1>t, <2>0, <2>2, <3>1 DEF BeginVerification, Transition, Subject, TypeOK
  <2>3. CASE incident[i] = "VerifyingProduction" /\ ReadWork(w)
    BY <2>3 DEF ReadWork, dataVars
  <2> QED BY <1>3, <1>c, <2>1, <2>2, <2>3 DEF At
<1>4. ASSUME At(w, i, {"plan.wait"})', incident'[i] = "Planning"
      PROVE  action'[i].status = "APPROVAL_REQUIRED"
  <2>0. pc'[w] = "plan.wait" /\ work'[w].id = i /\ pc'[w] \in PlanHeld
    BY <1>4, HeldPoints DEF At
  <2>1. CASE ControlStep(w)
    <3>1. RequireApproval(w)
      BY <2>0, <2>1, CameFrom
    <3>2. work[w].id = i
      BY <1>c, <2>0
    <3> QED BY <1>t, <3>1, <3>2 DEF RequireApproval, MarkStep, Subject, TypeOK
  <2>2. CASE pc[w] = "plan.wait" /\ work[w].id = i
    <3>0. At(w, i, PlanHeld) /\ pc[w] \in PlanPoints
      BY <2>2, HeldPoints DEF At
    <3>1. incident[i] = "Planning"
      <4>1. incident[i] \in {"Planning", "Escalated"}
        BY <1>0, <3>0 DEF StepAlone
      <4> QED BY <1>4, <4>1, AloneMoves DEF Moving
    <3>2. action[i].status = "APPROVAL_REQUIRED"
      BY <1>0, <2>2, <3>1 DEF StepAlone, At
    <3>3. ASSUME action'[i] # action[i] PROVE FALSE
      <4>1. PICK v \in Workers :
              /\ work[v].id = i
              /\ \/ At(v, i, PlanHeld) /\ pc[v] \in {"plan.require", "plan.block", "plan.persist"}
                 \/ At(v, i, ExecuteHeld)
                 \/ At(v, i, VerifyHeld)
        BY <3>1, <3>3, AloneMarks
      <4>2. pc[v] \in {"plan.require", "plan.block", "plan.persist"}
        BY <1>0, <3>0, <4>1 DEF StepAlone, At
      <4>3. v = w
        BY <2>2, <3>0, <4>1, <4>2, HeldPoints, PlanLease
      <4> QED BY <2>2, <4>2, <4>3
    <3> QED BY <3>2, <3>3
  <2> QED BY <2>0, <2>1, <2>2, WorkerCases
<1>5. ASSUME At(w, i, Checking)' PROVE action'[i].status = "EXECUTED"
  <2>0. pc'[w] \in Checking /\ work'[w].id = i /\ pc'[w] \in VerifyHeld /\ pc'[w] \in VerifyPoints
    BY <1>5, HeldPoints DEF At
  <2>i. work[w].id = i
    BY <1>c, <2>0
  <2>1. CASE LoadExecuted(w) /\ pc'[w] = "verify.check"
    BY <1>t, <2>i, <2>1 DEF LoadExecuted, Choose, Goto, Subject, dataVars, TypeOK
  <2>2. CASE CheckRecovery(w)
    <3>1. At(w, i, Checking)
      BY <2>i, <2>2, VerifyFlow DEF At, Checking, Goes, Basic
    <3> QED BY <1>0, <2>2, <3>1 DEF StepAlone, CheckRecovery, dataVars
  <2>3. CASE pc[w] = pc'[w]
    <3>1. At(w, i, Checking) /\ At(w, i, VerifyHeld) /\ pc[w] \in VerifyPoints
      BY <2>0, <2>i, <2>3 DEF At
    <3>2. ASSUME action'[i] # action[i] PROVE FALSE
      <4>1. incident[i] \in {"VerifyingProduction", "Escalated"}
        BY <1>0, <3>1 DEF StepAlone
      <4>2. PICK v \in Workers :
              /\ ControlStep(v) /\ MarkedBy(v, i) /\ work[v].id = i
              /\ \/ At(v, i, PlanHeld)
                 \/ At(v, i, ExecuteHeld) /\ pc[v] \in ExecutePoints
                 \/ At(v, i, VerifyHeld) /\ pc[v] \in {"verify.failed", "verify.verified"}
        BY <3>2, <4>1, AloneMarks
      <4>3. ~At(v, i, PlanHeld)
        BY <1>0, <3>1 DEF StepAlone, At
      <4>4. pc[v] \notin ExecutePoints
        <5>1. work[w].n \in 0..(Required - 1) /\ Enqueued(VerifyJob(i, work[w].n))
          BY <2>i, <3>1, VerifyLease
        <5> QED BY <4>2, <5>1 DEF Truth, StepTruth
      <4>5. v = w /\ pc[w] \in {"verify.failed", "verify.verified"}
        BY <2>i, <3>1, <4>2, <4>3, <4>4, HeldPoints, OneChecker
      <4>6. LoadExecuted(w) \/ CheckRecovery(w)
        BY <2>3, <4>2, <4>5, CameFrom
      <4> QED BY <4>5, <4>6, VerifyFlow DEF Goes, Basic
    <3> QED BY <1>0, <3>1, <3>2 DEF StepAlone
  <2> QED BY <2>0, <2>1, <2>2, <2>3, WorkerCases, CameFrom DEF Checking
<1> QED BY <1>1, <1>2, <1>3, <1>4, <1>5 DEF StepAlone, At

\* Every step keeps Alone.
LEMMA AloneKept ==
  ASSUME Basic, Basic', Once, Truth, Chain, Alone, [Next]_vars
  PROVE  Alone'
<1>1. ASSUME NEW i \in Incidents, OperationsOnly(i)'
      PROVE  Unhanded(i)' /\ RowAlone(i)' /\ \A w \in Workers : StepAlone(w, i)'
  <2>1. OperationsOnly(i)
    <3>1. attempts[i].made \in Nat
      BY DEF Basic, TypeOK
    <3> QED BY <1>1, <3>1, OthersMove DEF OperationsOnly
  <2> QED BY <1>1, <2>1, UnhandedKept, RowAloneKept, StepAloneKept
<1> QED BY <1>1 DEF Alone

\* Alone holds of the initial states.
LEMMA AloneInit == Init => Alone
<1> SUFFICES ASSUME Init PROVE Alone
  OBVIOUS
<1>1. \A w \in Workers : pc[w] = "idle"
  BY DEF Init
<1>2. ASSUME NEW i \in Incidents PROVE Unhanded(i)
  BY <1>1, HeldPoints DEF Unhanded, Init, Q!Init, Q!Absent, Enqueued, At
<1>3. ASSUME NEW i \in Incidents PROVE RowAlone(i)
  BY DEF RowAlone, Init, RO!ROInit, Outcomes
<1>4. ASSUME NEW i \in Incidents, NEW w \in Workers PROVE StepAlone(w, i)
  BY <1>1, HeldPoints DEF StepAlone, At
<1> QED BY <1>2, <1>3, <1>4 DEF Alone

\* The inductive invariant of the pipeline: all layers together.
THEOREM OperationsInductive == Spec => []IInv
<1>1. Init => IInv
  BY BasicInit, GrantsInit, OnceInit, TruthInit, ChainInit, AloneInit DEF IInv
<1>2. IInv /\ [Next]_vars => IInv'
  BY BasicKept, GrantsKept, OnceKept, TruthKept, ChainKept, AloneKept DEF IInv
<1> QED BY <1>1, <1>2, PTL DEF Spec

\* An action the administrator rejected is never sent (of incidents the repair
\* pipeline was not handed).
THEOREM OperationsRejectedIsNotSent == Spec => []RejectedIsNotSent
<1>1. IInv => RejectedIsNotSent
  BY DEF IInv, Alone, RowAlone, RejectedIsNotSent
<1> QED BY <1>1, OperationsInductive, PTL

\* An incident waiting for approval has an action waiting for approval, although
\* the plan handler writes the two rows one after the other.
THEOREM OperationsWaitingIsDecidable == Spec => []WaitingIsDecidable
<1>1. IInv => WaitingIsDecidable
  BY DEF IInv, Alone, RowAlone, WaitingIsDecidable, AwaitsApproval
<1> QED BY <1>1, OperationsInductive, PTL

\* No step rewrites an outcome.
LEMMA OutcomeStays ==
  ASSUME IInv, [Next]_vars,
         NEW i \in Incidents, OperationsOnly(i), action[i].status \in Outcomes
  PROVE  action'[i] = action[i]
<1> SUFFICES ASSUME action'[i] # action[i] PROVE FALSE
  OBVIOUS
<1>1. PICK w \in Workers :
        /\ work[w].id = i
        /\ \/ At(w, i, PlanHeld)
           \/ pc[w] \in ExecutePoints
           \/ pc[w] \in {"verify.failed", "verify.verified"}
  BY AloneMarks DEF IInv, Outcomes
<1>2. ~At(w, i, PlanHeld)
  BY DEF IInv, Alone, StepAlone
<1>3. pc[w] \notin ExecutePoints
  BY <1>1 DEF IInv, Truth, StepTruth
<1>4. At(w, i, Checking)
  BY <1>1, <1>2, <1>3 DEF At, Checking
<1> QED BY <1>4 DEF IInv, Alone, StepAlone, Outcomes

\* A recorded outcome of a restart is never rewritten by a late or repeated step.
THEOREM OperationsOutcomeIsFinal == Spec => OutcomeIsFinal
<1>1. IInv /\ [Next]_vars =>
        [\A i \in Incidents :
           /\ OperationsOnly(i)
           /\ action[i].status \in {"FAILED_CLOSED", "AMBIGUOUS", "VERIFICATION_FAILED", "VERIFIED"}
           => action'[i] = action[i]]_vars
  BY OutcomeStays DEF Outcomes
<1> QED BY <1>1, OperationsInductive, PTL DEF Spec, OutcomeIsFinal

\* A closed incident moves to another closed state or is paused.
LEMMA ClosedStays ==
  ASSUME Basic, [Next]_vars, NEW i \in Incidents, incident[i] \in Closed
  PROVE  incident'[i] \in Closed \union {"Paused"}
<1>1. ~OpenIncident(i) /\ ~Approve(i) /\ ~Reject(i)
  BY DEF OpenIncident, Approve, Approvable, Reject, Rejectable, AwaitsApproval, Closed
<1>2. CASE incident'[i] = incident[i]
  BY <1>2
<1>3. ASSUME NEW w \in Workers, MovedBy(w, i) PROVE incident'[i] \in {"Paused", "Escalated"}
  BY <1>3 DEF MovedBy, Moving, Closed
<1> QED BY <1>1, <1>2, <1>3, IncidentMoves DEF Closed

\* A closed incident is not taken up again, except that the Kill Switch may pause it.
THEOREM OperationsClosedOrPaused == Spec => ClosedOrPaused
<1>1. Basic /\ [Next]_vars =>
        [\A i \in Incidents : incident[i] \in Closed => incident'[i] \in Closed \union {"Paused"}]_vars
  BY ClosedStays
<1> QED BY <1>1, OperationsBasic, PTL DEF Spec, ClosedOrPaused

\* Operations implements the job queue: what JobQueueProofs proves of the queue
\* (one runner, attempts within their limit) holds of the pipeline's jobs.
THEOREM OperationsQueue == Spec => QP!Spec
<1>1. Init => QP!Init
  BY DEF Init, Q!Init, QP!Init, Q!Absent, QP!Absent, Q!NoLease, QP!NoLease, Q!NoName, QP!NoName
<1>2. TypeOK /\ [Next]_vars => [QP!Next]_(QP!vars)
  BY QueueStep
<1> QED BY <1>1, <1>2, OperationsTypeOK, PTL DEF Spec, QP!Spec
===============================================================================
