--------------------------- MODULE DeploymentProofs ---------------------------
(***************************************************************************)
(* Proofs about Deployment and about the policy it asks: its type          *)
(* invariant, its safety invariants, NoStaleMutation, and that it          *)
(* implements Promotion, for any number of workers, attempts, resumes and  *)
(* retries, under any names, and with crashes anywhere.                    *)
(*                                                                         *)
(* Calls may fail anywhere in TypeOK and PromotedWasGranted. The other     *)
(* properties hold where a call does not fail after its handler has handed *)
(* the incident over to the next job (Orderly): what goes wrong there is   *)
(* told in README.md.                                                      *)
(*                                                                         *)
(* The invariants, each proved from those before it:                       *)
(*   Basic      the types, the queue's own invariant (JobQueueProofs), and *)
(*              that a worker inside a handler holds the lease of its job; *)
(*   Grants     the attempt in the promotion's payload was granted;        *)
(*   Token      one worker or one job at a time has the incident in hand,  *)
(*              and may rely on its state and on its current attempt;      *)
(*   Ledger     what rows, payload and history say of each other then;     *)
(*   Budget     a new attempt for the opening and for each resume, and     *)
(*              follow-ups up to the limit;                                *)
(*   Diagnosed  rows, payloads and handlers agree on an attempt's risk;    *)
(*   Delivers   what is handed to Landing was promoted: with it, Deployment*)
(*              implements Promotion.                                      *)
(***************************************************************************)
EXTENDS Deployment, FiniteSetTheorems, TLAPS

-------------------------------------------------------------------------------
(* How the decisions of Policy move when the facts they rest on change for *)
(* the worse: the Kill Switch is pulled, Autopilot gives way to Safe Mode, *)
(* the risk is rated higher, a precondition is lost, in any combination.   *)

\* How much a decision holds back.
Restraint(decision) ==
  IF decision = "Allow" THEN 0 ELSE IF decision = "RequireApproval" THEN 1 ELSE 2

\* How much a rating of risk weighs.
RiskLevel(r) ==
  IF r = "Low" THEN 0 ELSE IF r = "Medium" THEN 1
  ELSE IF r = "High" THEN 2 ELSE 3

\* What mode and Kill Switch c allow is no more than what b allows.
Stricter(b, c) ==
  /\ b.mode = "safe" => c.mode = "safe"
  /\ b.kill => c.kill

\* No precondition of a deployment holds in c that does not hold in b.
DeploymentWorse(b, c) ==
  /\ Stricter(b, c)
  /\ c.preview => b.preview
  /\ c.reversible => b.reversible

\* The same of an operation's.
OperationWorse(b, c) ==
  /\ Stricter(b, c)
  /\ c.target => b.target
  /\ c.enabled => b.enabled
  /\ c.verification => b.verification
  /\ c.cooldown => b.cooldown

\* Facts that turn for the worse never make decide (deployment recovery) hold
\* back less: there is no order of its tests in which one hides another.
THEOREM DeploymentMonotone ==
  ASSUME NEW b \in PolicyContext, NEW c \in PolicyContext, DeploymentWorse(b, c),
         NEW r \in ActionRisk, NEW s \in ActionRisk, RiskLevel(r) <= RiskLevel(s)
  PROVE  Restraint(Decide(r, b)) <= Restraint(Decide(s, c))
  BY DEF PolicyContext, SafetyMode, ActionRisk, DeploymentWorse, Stricter, RiskLevel,
         Restraint, Decide

\* The same of decide_operations, where an observation may turn into a mutation
\* too.
THEOREM OperationMonotone ==
  ASSUME NEW b \in OperationsPolicyContext, NEW c \in OperationsPolicyContext,
         OperationWorse(b, c),
         NEW m \in BOOLEAN, NEW n \in BOOLEAN, m => n,
         NEW r \in ActionRisk, NEW s \in ActionRisk, RiskLevel(r) <= RiskLevel(s)
  PROVE  Restraint(DecideOperations(r, m, b)) <= Restraint(DecideOperations(s, n, c))
  BY DEF OperationsPolicyContext, SafetyMode, ActionRisk, OperationWorse, Stricter,
         RiskLevel, Restraint, DecideOperations

\* Where every precondition of either kind is met, the two policies agree on what
\* mode, Kill Switch and risk mean for a mutation.
THEOREM PoliciesAgree ==
  ASSUME NEW b \in PolicyContext, b.preview, b.reversible,
         NEW c \in OperationsPolicyContext, c.target, c.enabled, c.verification,
         c.cooldown, b.mode = c.mode, b.kill = c.kill,
         NEW r \in ActionRisk
  PROVE  Decide(r, b) = DecideOperations(r, TRUE, c)
  BY DEF PolicyContext, OperationsPolicyContext, SafetyMode, ActionRisk, Decide,
         DecideOperations

-------------------------------------------------------------------------------
(* The parts of the handlers, and what a worker's place says of its lease. *)

\* The queue of the handlers is the job queue proved about on its own.
QP == INSTANCE JobQueueProofs

\* The queue knows the job.
Enqueued(j) == job[j].status # "absent"

\* The points of each handler.
ContextPoints == {"context", "context.collect", "context.enqueue"}
DiagnosePoints ==
  {"diagnose", "diagnose.start", "diagnose.attempt", "diagnose.plan", "diagnose.enqueue"}
RepairPoints == {"repair", "repair.start", "repair.propose", "repair.enqueue"}
BuildPoints ==
  {"build", "build.pause", "build.start", "build.test", "build.followup", "build.again",
   "build.repair", "build.reread", "build.halt", "build.pull", "build.save",
   "build.preview"}
PreviewPoints ==
  {"preview", "preview.pause", "preview.start", "preview.create", "preview.save",
   "preview.verify", "preview.enqueue"}
VerifyPoints ==
  {"verify", "verify.check", "verify.decide", "verify.allow", "verify.require",
   "verify.block", "verify.enqueue"}
ProductionPoints ==
  {"production", "production.pause", "production.promote", "production.move",
   "production.enqueue"}

HandlerPoints ==
  {ContextPoints, DiagnosePoints, RepairPoints, BuildPoints, PreviewPoints, VerifyPoints,
   ProductionPoints}

Outer == Ends \union {"escalate.move"}

\* A worker inside a handler holds the lease of a job of that kind.
Agrees(w) ==
  /\ pc[w] = "idle" => ~Running(w)
  /\ pc[w] \notin {"idle", "escalate", "escalate.move"} => Running(w)
  /\ Running(w) => KindOf(w) \in Kind
  /\ pc[w] \in ContextPoints    => KindOf(w) = "context"
  /\ pc[w] \in DiagnosePoints   => KindOf(w) = "diagnose"
  /\ pc[w] \in RepairPoints     => KindOf(w) = "repair"
  /\ pc[w] \in BuildPoints      => KindOf(w) = "build"
  /\ pc[w] \in PreviewPoints    => KindOf(w) = "preview"
  /\ pc[w] \in VerifyPoints     => KindOf(w) = "verify"
  /\ pc[w] \in ProductionPoints => KindOf(w) = "production"

Agreement == \A w \in Workers : Agrees(w)

Production == <<"production", 0>>

\* The production job's payload names an attempt.
Named == Enqueued(Production) => chosen # 0

Basic == TypeOK /\ QP!IInv /\ Agreement /\ Named

\* The handlers' queue is typed as the job queue proved about on its own.
LEMMA QueueTypes == Q!TypeOK <=> QP!TypeOK
  BY DEF QP!TypeOK, Q!TypeOK, QP!Names, Q!Names, QP!Status, Q!Status, Q!NoLease,
         QP!NoLease, Q!NoName, QP!NoName

\* What a job's key is made of.
LEMMA JobsOf ==
  ASSUME NEW j \in Jobs
  PROVE  /\ j[1] \in Kind \union {"landing"} /\ j[2] \in Nat /\ j = <<j[1], j[2]>>
         /\ j[1] \in {"repair", "build", "preview", "verify"} => j[2] \in Made
         /\ j[1] = "production" => j = Production
  BY DeploymentAssumption DEF Jobs, Kind, Made, Production

\* The queue's assumption holds: every job may be attempted.
LEMMA JobAttempts == QP!AttemptsAssumption
  BY JobsOf, DeploymentAssumption DEF QP!AttemptsAssumption, MaxAttempts

HandlerStep(w) ==
  \/ ReadWork(w) \/ Diagnosis(w) \/ Build(w) \/ Preview(w) \/ Promote(w) \/ StartLanding(w)

ControlStep(w) == HandlerStep(w) \/ Loop(w) \/ Broken(w)

\* A handler's step enqueues a job and ends, or leaves the queue alone.
LEMMA HandlerJobs ==
  ASSUME NEW w \in Workers, HandlerStep(w)
  PROVE  /\ lease' = lease
         /\ \/ job' = job
            \/ \E from, j : EnqueueStep(w, from, j, "ok")
<1>1. CASE ReadWork(w) \/ Promote(w) \/ StartLanding(w)
  BY <1>1 DEF ReadWork, Promote, StartLanding, EnqueueStep, Choose, Transition
<1>2. CASE Diagnosis(w)
  BY <1>2 DEF Diagnosis, CollectContext, StartDiagnosis, CreateAttempt, PlanRepair,
     EnqueueFirstRepair, EnqueueRepair, StartRepair, ProposeRepair, EnqueueBuild,
     EnqueueStep, Choose, Transition
<1>3. CASE Build(w)
  BY <1>3 DEF Build, PauseRepair, StartTesting, TestRepair, FollowUp, RepairAgain,
     EnqueueNextRepair, EnqueueRepair, RereadWork, HaltBuild, OpenRepairPullRequest,
     SavePullRequest, EnqueuePreview, EnqueueStep, Choose, Transition
<1>4. CASE Preview(w)
  BY <1>4 DEF Preview, StartPreview, CreatePreview, SavePreview, StartVerifying,
     EnqueueVerify, CheckPreview, DecideOnPreview, AllowPromotion, HoldPromotion,
     EnqueuePromotion, EnqueueStep, Choose, Transition
<1> QED BY <1>1, <1>2, <1>3, <1>4 DEF HandlerStep

\* An administrator's call enqueues jobs or leaves the queue alone.
LEMMA AdministratorJobs ==
  ASSUME Administrator
  PROVE  lease' = lease /\ (job' = job \/ \E js : job' = Q!Enqueued(js))
  BY DEF Administrator, Approve, ApproveMove, ApproveEnqueue, ApprovalLost, Reject,
     SetSafetyMode, Pause, Resume, handlerVars

\* Every step is a step of the job queue, or leaves it alone.
LEMMA QueueStep ==
  ASSUME TypeOK, [Next]_vars PROVE [QP!Next]_(QP!vars)
<1> USE DEF QP!vars
<1>q. ASSUME NEW js, job' = Q!Enqueued(js), lease' = lease PROVE [QP!Next]_(QP!vars)
  <2>1. QP!Enqueue(js \intersect Jobs)
    BY <1>q DEF QP!Enqueue, QP!Enqueued, Q!Enqueued, QP!EnqueuedRow, Q!EnqueuedRow
  <2> QED BY <2>1 DEF QP!Next
<1>1. CASE UNCHANGED vars \/ Administrator
  BY <1>1, <1>q, AdministratorJobs DEF vars, handlerVars
<1>2. ASSUME NEW w \in Workers, HandlerStep(w) PROVE [QP!Next]_(QP!vars)
  BY <1>2, <1>q, HandlerJobs DEF EnqueueStep
<1>3. ASSUME NEW w \in Workers, Loop(w) PROVE [QP!Next]_(QP!vars)
  <2>1. CASE ClaimNext(w)
    <3>1. PICK j \in Jobs : Q!ClaimNext(w, j)
      BY <2>1 DEF ClaimNext
    <3>2. QP!ClaimNext(w, j)
      BY <3>1 DEF Q!ClaimNext, QP!ClaimNext, Q!Claimable, QP!Claimable, Q!NoLease, QP!NoLease
    <3> QED BY <3>2 DEF QP!Next
  <2>2. CASE CompleteJob(w) \/ FailJob(w)
    <3>1. QP!CompleteJob(w) \/ QP!FailJob(w)
      BY <2>2 DEF CompleteJob, FailJob, Q!CompleteJob, QP!CompleteJob, Q!FailJob, QP!FailJob,
         Q!Release, QP!Release, Q!Holds, QP!Holds, Q!LastAttempt, QP!LastAttempt,
         Q!NoLease, QP!NoLease, Q!NoName, QP!NoName
    <3> QED BY <3>1 DEF QP!Next
  <2>3. CASE EscalateRead(w) \/ EscalateMove(w)
    BY <2>3 DEF EscalateRead, EscalateMove, Transition
  <2> QED BY <1>3, <2>1, <2>2, <2>3 DEF Loop, LoopStep
<1>4. ASSUME NEW w \in Workers, Broken(w) PROVE [QP!Next]_(QP!vars)
  <2>1. CASE StepFails(w)
    BY <2>1 DEF StepFails
  <2>2. CASE Crash(w) /\ lease[w] = Q!NoLease
    BY <2>2 DEF Crash, TypeOK, Q!TypeOK
  <2>3. CASE Crash(w) /\ lease[w] # Q!NoLease
    <3>1. QP!Crash(w)
      BY <2>3 DEF Crash, QP!Crash, Q!NoLease, QP!NoLease
    <3> QED BY <3>1 DEF QP!Next
  <2> QED BY <1>4, <2>1, <2>2, <2>3 DEF Broken, Fault
<1> QED BY <1>1, <1>2, <1>3, <1>4 DEF Next, WorkerStep, HandlerStep

Elsewhere(w) ==
  \A v \in Workers \ {w} :
    pc'[v] = pc[v] /\ work'[v] = work[v] /\ lease'[v] = lease[v]

Moved(w, from, to) ==
  /\ pc[w] = from /\ pc'[w] = to
  /\ pc' \in [Workers -> Point]
  /\ work' \in [Workers -> Work]
  /\ Elsewhere(w)

\* A handler's step moves its own worker, which goes on with what it has seen.
LEMMA ReadMoves ==
  ASSUME TypeOK, NEW w \in Workers, NEW from, NEW to \in Point, NEW seen \in Work,
         Read(w, from, to, seen), \A v \in Workers \ {w} : lease'[v] = lease[v]
  PROVE  Moved(w, from, to)
<1>1. Blank \in Work
  BY DEF Blank, Work, IncidentState, SafetyMode, ActionRisk
<1> QED BY <1>1 DEF TypeOK, Read, Moved, Elsewhere

\* The same of a step that keeps what was read before.
LEMMA GotoMoves ==
  ASSUME TypeOK, NEW w \in Workers, NEW from, NEW to \in Point,
         Goto(w, from, to), \A v \in Workers \ {w} : lease'[v] = lease[v]
  PROVE  Moved(w, from, to)
<1>1. work[w] \in Work
  BY DEF TypeOK
<1> QED BY <1>1, ReadMoves DEF Goto

\* A worker stays among the points of its handler, or leaves it, with its lease.
StaysIn(w, points) ==
  /\ pc[w] \in points
  /\ pc'[w] \in points \union {"ok", "err", "escalate"}
  /\ Moved(w, pc[w], pc'[w])
  /\ lease' = lease

Stays(w) == \E points \in HandlerPoints : StaysIn(w, points)

\* The handlers' points are not the loop's, and belong to one handler each.
LEMMA Inside ==
  /\ \A points \in HandlerPoints : points \subseteq Point \ Outer
  /\ Kind \subseteq Point \ Outer
  /\ {"ok", "err", "escalate", "idle", "escalate.move"} \subseteq Point
  BY DEF Point, Outer, Ends, Kind, HandlerPoints, ContextPoints, DiagnosePoints, RepairPoints,
     BuildPoints, PreviewPoints, VerifyPoints, ProductionPoints

\* The kind of job a worker runs, from where it stands.
LEMMA WhichKind ==
  ASSUME Basic, NEW w \in Workers, NEW points \in HandlerPoints, pc[w] \in points
  PROVE  /\ Running(w) /\ KindOf(w) \in points
         /\ pc[w] \in Kind => KindOf(w) = pc[w]
<1>1. Agrees(w) /\ pc[w] \notin {"idle", "escalate", "escalate.move"}
  BY Inside DEF Basic, Agreement, Outer, Ends
<1> QED BY <1>1 DEF Agrees, HandlerPoints, Kind, ContextPoints, DiagnosePoints, RepairPoints,
     BuildPoints, PreviewPoints, VerifyPoints, ProductionPoints

\* A worker that stays in its handler still holds the lease of the job it runs.
LEMMA StaysAgrees ==
  ASSUME Basic, NEW w \in Workers, Stays(w)
  PROVE  Agrees(w)'
<1>1. Agrees(w)
  BY DEF Basic, Agreement
<1>2. PICK points \in HandlerPoints : StaysIn(w, points)
  BY DEF Stays
<1>3. Running(w)' /\ KindOf(w)' = KindOf(w)
  BY <1>2, WhichKind DEF StaysIn, Running, KindOf
<1>4. /\ pc[w] \in points
      /\ pc'[w] \in points \union {"ok", "err", "escalate"}
  BY <1>2 DEF StaysIn
<1> QED BY <1>1, <1>3, <1>4 DEF Agrees, HandlerPoints, ContextPoints, DiagnosePoints,
     RepairPoints, BuildPoints, PreviewPoints, VerifyPoints, ProductionPoints

\* A worker that goes from a point of a handler to another, or to its end, stays.
LEMMA GoesOn ==
  ASSUME Basic, NEW w \in Workers, NEW points \in HandlerPoints, NEW to,
         pc[w] \in points, to \in points \union {"ok", "err", "escalate"},
         lease' = lease,
         Goto(w, pc[w], to) \/ \E seen \in Work : Read(w, pc[w], to, seen)
  PROVE  StaysIn(w, points)
<1>1. to \in Point
  BY Inside
<1>2. Moved(w, pc[w], to)
  BY <1>1, GotoMoves, ReadMoves DEF Basic
<1> QED BY <1>2 DEF StaysIn, Moved

\* Entry stays in the handler.
LEMMA EntryEnters ==
  ASSUME NEW w \in Workers, pc[w] \in Kind, NEW points \in HandlerPoints, pc[w] \in points
  PROVE  Entry(w) \in points \union {"ok", "err", "escalate"}
  BY DEF Entry, ContextEntry, DiagnoseEntry, RepairEntry, BuildEntry, PreviewEntry,
     VerifyEntry,
     ProductionEntry, Kind, HandlerPoints, ContextPoints, DiagnosePoints, RepairPoints,
     BuildPoints, PreviewPoints, VerifyPoints, ProductionPoints

\* Reading the incident keeps a worker in its handler.
LEMMA ReadStays ==
  ASSUME Basic, NEW w \in Workers, ReadWork(w)
  PROVE  Stays(w) /\ pc[w] \in Kind /\ pc'[w] = Entry(w)
<1>1. pc[w] \in Kind
  BY DEF ReadWork
<1>2. PICK points \in HandlerPoints : pc[w] \in points
  BY <1>1 DEF Kind, HandlerPoints, ContextPoints, DiagnosePoints, RepairPoints,
     BuildPoints, PreviewPoints, VerifyPoints, ProductionPoints
<1>3. Entry(w) \in points \union {"ok", "err", "escalate"}
  BY <1>1, <1>2, EntryEnters
<1>4. \E seen \in Work : Read(w, pc[w], Entry(w), seen)
  <2>0. /\ incident \in IncidentState
        /\ project.mode \in SafetyMode /\ project.paused \in BOOLEAN
    BY DEF Basic, TypeOK
  <2>f. Blank \in Work
    BY DEF Blank, Work, IncidentState, SafetyMode, ActionRisk
  <2>g. [Blank EXCEPT !.state = incident] \in Work
    BY <2>0, <2>f DEF Work
  <2>h. [Blank EXCEPT !.mode = project.mode, !.paused = project.paused] \in Work
    BY <2>0, <2>f DEF Work
  <2>1. /\ Blank \in Work /\ [Blank EXCEPT !.state = incident] \in Work
        /\ [Blank EXCEPT !.mode = project.mode, !.paused = project.paused] \in Work
    BY <2>f, <2>g, <2>h
  <2> DEFINE paused == [Blank EXCEPT !.state = incident]
             policy == [Blank EXCEPT !.mode = project.mode, !.paused = project.paused]
  <2>2. \E seen \in {paused, policy, Blank} : Read(w, pc[w], Entry(w), seen)
    BY DEF ReadWork
  <2> QED BY <2>1, <2>2
<1>5. lease' = lease
  BY DEF ReadWork
<1>6. StaysIn(w, points)
  BY <1>2, <1>3, <1>4, <1>5, GoesOn
<1> QED BY <1>1, <1>2, <1>4, <1>6 DEF Stays, StaysIn, Read, Basic, TypeOK

\* Every handler's step stays in it.
LEMMA HandlerBasic ==
  ASSUME Basic, NEW w \in Workers, HandlerStep(w)
  PROVE  Stays(w)
<1>g. ASSUME NEW points \in HandlerPoints, NEW to, pc[w] \in points,
             to \in points \union {"ok", "err", "escalate"}, lease' = lease,
             Goto(w, pc[w], to) \/ \E seen \in Work : Read(w, pc[w], to, seen)
      PROVE  Stays(w)
  BY <1>g, GoesOn DEF Stays
<1>t. ASSUME NEW points \in HandlerPoints, NEW from \in points, NEW expected, NEW next,
             NEW to \in points \union {"ok"}, Transition(w, from, expected, next, to)
      PROVE  Stays(w)
  <2>1. pc[w] = from /\ lease' = lease
    BY <1>t DEF Transition, Goto, Read
  <2>2. Fail(w) = "err"
    BY <2>1, WhichKind DEF Fail
  <2>3. Goto(w, pc[w], to) \/ Goto(w, pc[w], "err")
    BY <1>t, <2>1, <2>2 DEF Transition
  <2> QED BY <2>1, <2>3, <1>g
<1>c. ASSUME NEW points \in HandlerPoints, NEW from \in points,
             NEW to \in points \union {"ok", "err", "escalate"},
             Goto(w, from, to), lease' = lease
      PROVE  Stays(w)
  <2>1. pc[w] = from
    BY <1>c DEF Goto, Read
  <2> QED BY <1>c, <2>1, <1>g
<1>p. /\ ContextPoints \in HandlerPoints /\ DiagnosePoints \in HandlerPoints
      /\ RepairPoints \in HandlerPoints /\ BuildPoints \in HandlerPoints
      /\ PreviewPoints \in HandlerPoints /\ VerifyPoints \in HandlerPoints
      /\ ProductionPoints \in HandlerPoints
  BY DEF HandlerPoints
<1>1. CASE ReadWork(w)
  BY <1>1, ReadStays
<1>2. CASE Promote(w) \/ StartLanding(w)
  <2>1. {"production.promote", "production.move", "production.enqueue"} \subseteq ProductionPoints
    BY DEF ProductionPoints
  <2> QED BY <1>2, <1>c, <1>t, <1>p, <2>1 DEF Promote, StartLanding, Choose, EnqueueStep
<1>3. CASE Diagnosis(w)
  <2>1. {"context.collect", "context.enqueue"} \subseteq ContextPoints
    BY DEF ContextPoints
  <2>2. {"diagnose.start", "diagnose.attempt", "diagnose.plan", "diagnose.enqueue"}
          \subseteq DiagnosePoints
    BY DEF DiagnosePoints
  <2>3. {"repair.start", "repair.propose", "repair.enqueue"} \subseteq RepairPoints
    BY DEF RepairPoints
  <2>4. CASE CollectContext(w)
    BY <2>4, <1>c, <1>t, <1>p, <2>1 DEF CollectContext, EnqueueStep
  <2>5. CASE StartDiagnosis(w) \/ PlanRepair(w) \/ StartRepair(w)
    BY <2>5, <1>t, <1>p, <2>2, <2>3 DEF StartDiagnosis, PlanRepair, StartRepair
  <2>6. CASE CreateAttempt(w)
    <3>1. PICK r \in Risks, n \in Made :
            Read(w, "diagnose.attempt", "diagnose.plan", [Blank EXCEPT !.n = n, !.risk = r])
      BY <2>6 DEF CreateAttempt
    <3>2. [Blank EXCEPT !.n = n, !.risk = r] \in Work
      BY DeploymentAssumption DEF Blank, Work, IncidentState, SafetyMode, ActionRisk
    <3>3. pc[w] = "diagnose.attempt" /\ lease' = lease
      BY <2>6 DEF CreateAttempt
    <3> QED BY <3>1, <3>2, <3>3, <2>2, <1>p, <1>g
  <2>7. CASE EnqueueFirstRepair(w) \/ ProposeRepair(w) \/ EnqueueBuild(w)
    BY <2>7, <1>c, <1>p, <2>2, <2>3
       DEF EnqueueFirstRepair, EnqueueRepair, ProposeRepair, EnqueueBuild, EnqueueStep, Choose
  <2> QED BY <1>3, <2>4, <2>5, <2>6, <2>7 DEF Diagnosis
<1>4. CASE Build(w)
  <2>1. {"build.pause", "build.start", "build.test", "build.followup", "build.again",
         "build.repair", "build.reread", "build.halt", "build.pull", "build.save",
         "build.preview"} \subseteq BuildPoints
    BY DEF BuildPoints
  <2>2. CASE PauseRepair(w)
    <3>1. "preview.pause" \in PreviewPoints /\ "production.pause" \in ProductionPoints
      BY DEF PreviewPoints, ProductionPoints
    <3> QED BY <2>2, <1>t, <1>p, <2>1, <3>1 DEF PauseRepair
  <2>3. CASE StartTesting(w) \/ RepairAgain(w) \/ HaltBuild(w)
    BY <2>3, <1>t, <1>p, <2>1 DEF StartTesting, RepairAgain, HaltBuild
  <2>4. CASE TestRepair(w) \/ RereadWork(w) \/ OpenRepairPullRequest(w) \/ SavePullRequest(w)
    BY <2>4, <1>c, <1>p, <2>1
       DEF TestRepair, RereadWork, OpenRepairPullRequest, SavePullRequest, Choose
  <2>5. CASE EnqueueNextRepair(w) \/ EnqueuePreview(w)
    BY <2>5, <1>c, <1>p, <2>1 DEF EnqueueNextRepair, EnqueueRepair, EnqueuePreview, EnqueueStep
  <2>6. CASE FollowUp(w)
    <3>1. pc[w] = "build.followup" /\ lease' = lease
      BY <2>6 DEF FollowUp
    <3>2. CASE Goto(w, "build.followup", "escalate")
      BY <3>1, <3>2, <1>c, <1>p, <2>1
    <3>3. CASE \E n \in Made : Read(w, "build.followup", "build.again", [Blank EXCEPT !.n = n])
      <4>1. \A n \in Made : [Blank EXCEPT !.n = n] \in Work
        BY DEF Blank, Work, IncidentState, SafetyMode, ActionRisk
      <4> QED BY <3>1, <3>3, <4>1, <1>g, <1>p, <2>1
    <3> QED BY <2>6, <3>2, <3>3 DEF FollowUp
  <2> QED BY <1>4, <2>2, <2>3, <2>4, <2>5, <2>6 DEF Build
<1>5. CASE Preview(w)
  <2>1. {"preview.start", "preview.create", "preview.save", "preview.verify",
         "preview.enqueue"} \subseteq PreviewPoints
    BY DEF PreviewPoints
  <2>2. {"verify.check", "verify.decide", "verify.allow", "verify.require", "verify.block",
         "verify.enqueue"} \subseteq VerifyPoints
    BY DEF VerifyPoints
  <2>3. CASE StartPreview(w) \/ StartVerifying(w) \/ AllowPromotion(w) \/ HoldPromotion(w)
    BY <2>3, <1>t, <1>p, <2>1, <2>2 DEF StartPreview, StartVerifying, AllowPromotion,
       HoldPromotion
  <2>4. CASE CreatePreview(w) \/ SavePreview(w) \/ CheckPreview(w)
    BY <2>4, <1>c, <1>p, <2>1, <2>2 DEF CreatePreview, SavePreview, CheckPreview, Choose
  <2>5. CASE EnqueueVerify(w) \/ EnqueuePromotion(w)
    BY <2>5, <1>c, <1>p, <2>1, <2>2 DEF EnqueueVerify, EnqueuePromotion, EnqueueStep
  <2>6. CASE DecideOnPreview(w)
    <3>1. \E to \in {"verify.allow", "verify.require", "verify.block"} :
            Choose(w, "verify.decide", to)
      BY <2>6 DEF DecideOnPreview, Verdict, Decide
    <3> QED BY <3>1, <1>c, <1>p, <2>2 DEF Choose
  <2> QED BY <1>5, <2>3, <2>4, <2>5, <2>6 DEF Preview
<1> QED BY <1>1, <1>2, <1>3, <1>4, <1>5 DEF HandlerStep

\* The loop's steps, a failed call and a crash leave the worker agreeing with its lease,
\* and lead into a handler only at its start.
LEMMA LoopBasic ==
  ASSUME Basic, NEW w \in Workers, Loop(w) \/ Broken(w)
  PROVE  /\ Moved(w, pc[w], pc'[w])
         /\ Agrees(w)'
         /\ pc'[w] \in Kind \union Ends \union {"escalate.move"}
<1>0. Agrees(w) /\ lease \in [Workers -> [job : Jobs, attempt : Nat] \union {Q!NoLease}]
      /\ pc \in [Workers -> Point]
  BY DEF Basic, Agreement, TypeOK, Q!TypeOK
<1>g. ASSUME NEW to \in Point, Goto(w, pc[w], to),
             \A v \in Workers \ {w} : lease'[v] = lease[v]
      PROVE  Moved(w, pc[w], pc'[w]) /\ pc'[w] = to
  BY <1>g, GotoMoves DEF Moved, Basic
<1>o. \A p \in Outer, points \in HandlerPoints : p \notin points
  BY Inside
<1>p. {ContextPoints, DiagnosePoints, RepairPoints, BuildPoints, PreviewPoints, VerifyPoints,
       ProductionPoints} = HandlerPoints
  BY DEF HandlerPoints
<1> USE Inside DEF Ends
<1>1. CASE ClaimNext(w)
  <2>1. PICK j \in Jobs : j[1] \in Kind /\ Q!ClaimNext(w, j) /\ Goto(w, "idle", j[1])
    BY <1>1 DEF ClaimNext, Handled
  <2>3. lease' = [lease EXCEPT ![w] = [job |-> j, attempt |-> job[j].attempt + 1]]
    BY <2>1 DEF Q!ClaimNext
  <2>4. lease'[w] = [job |-> j, attempt |-> job[j].attempt + 1]
        /\ \A v \in Workers \ {w} : lease'[v] = lease[v]
    BY <2>3, <1>0
  <2>5. lease'[w] # Q!NoLease /\ lease'[w].job[1] = j[1]
    BY <2>4 DEF Q!NoLease
  <2>6. Moved(w, pc[w], pc'[w]) /\ pc'[w] = j[1]
    <3>1. pc[w] = "idle"
      BY <2>1 DEF Goto, Read
    <3> QED BY <2>1, <3>1, <2>4, <1>g
  <2>7. Agrees(w)'
    BY <2>1, <2>5, <2>6 DEF Agrees, Running, KindOf, Outer, Kind, ContextPoints,
       DiagnosePoints,
       RepairPoints, BuildPoints, PreviewPoints, VerifyPoints, ProductionPoints
  <2> QED BY <2>1, <2>6, <2>7
<1>2. CASE CompleteJob(w) \/ FailJob(w) \/ Crash(w)
  <2>1. lease' = [lease EXCEPT ![w] = Q!NoLease]
    BY <1>2 DEF CompleteJob, FailJob, Crash, Q!CompleteJob, Q!FailJob, Q!Release
  <2>2. \E to \in {"idle", "escalate"} : Goto(w, pc[w], to)
    BY <1>2 DEF CompleteJob, FailJob, Crash, Goto, Read
  <2>3. ~Running(w)' /\ \A v \in Workers \ {w} : lease'[v] = lease[v]
    BY <2>1, <1>0 DEF Running
  <2>4. Moved(w, pc[w], pc'[w]) /\ pc'[w] \in {"idle", "escalate"}
    BY <2>2, <2>3, <1>g
  <2> QED BY <2>3, <2>4, <1>o, <1>p DEF Agrees, Outer
<1>3. CASE EscalateRead(w)
  <2>1. [Blank EXCEPT !.state = incident] \in Work
    BY DEF Basic, TypeOK, Blank, Work, SafetyMode, ActionRisk
  <2>2. \E to \in {"ok", "idle", "escalate.move"} :
          /\ Read(w, "escalate", to, [Blank EXCEPT !.state = incident])
          /\ to = "ok" => Running(w)
          /\ to = "idle" => ~Running(w)
    BY <1>3 DEF EscalateRead, Return
  <2>3. lease' = lease
    BY <1>3 DEF EscalateRead
  <2>4. /\ Moved(w, pc[w], pc'[w]) /\ pc'[w] \in {"ok", "idle", "escalate.move"}
        /\ pc'[w] = "ok" => Running(w)
        /\ pc'[w] = "idle" => ~Running(w)
    BY <2>1, <2>2, <2>3, ReadMoves DEF Moved, Basic
  <2> QED BY <2>3, <2>4, <1>o, <1>p, <1>0 DEF KindOf, Agrees, Outer, Running
<1>4. CASE EscalateMove(w)
  <2>1. \E to \in {"ok", "idle", "err"} :
          /\ Goto(w, "escalate.move", to)
          /\ to \in {"ok", "err"} => Running(w)
          /\ to = "idle" => ~Running(w)
    BY <1>4 DEF EscalateMove, Transition, Return, Fail
  <2>2. lease' = lease
    BY <1>4 DEF EscalateMove, Transition
  <2>3. /\ Moved(w, pc[w], pc'[w]) /\ pc'[w] \in {"ok", "idle", "err"}
        /\ pc'[w] \in {"ok", "err"} => Running(w)
        /\ pc'[w] = "idle" => ~Running(w)
    BY <2>1, <2>2, GotoMoves DEF Moved, Basic
  <2> QED BY <2>2, <2>3, <1>o, <1>p, <1>0 DEF KindOf, Agrees, Outer, Running
<1>5. CASE StepFails(w)
  <2>1. Goto(w, pc[w], "err") /\ lease' = lease /\ Running(w)
    BY <1>5 DEF StepFails
  <2>2. Moved(w, pc[w], pc'[w]) /\ pc'[w] = "err"
    BY <2>1, <1>g
  <2> QED BY <2>1, <2>2, <1>o, <1>p, <1>0 DEF KindOf, Agrees, Outer, Running
<1> QED BY <1>1, <1>2, <1>3, <1>4, <1>5 DEF Loop, LoopStep, Broken, Fault

\* Every step keeps the workers agreeing with their leases.
LEMMA AgreementKept ==
  ASSUME Basic, [Next]_vars
  PROVE  Agreement' /\ pc' \in [Workers -> Point] /\ work' \in [Workers -> Work]
<1>1. ASSUME NEW w \in Workers, ControlStep(w)
      PROVE  Agreement' /\ pc' \in [Workers -> Point] /\ work' \in [Workers -> Work]
  <2>1. Agrees(w)' /\ Moved(w, pc[w], pc'[w])
    BY <1>1, HandlerBasic, StaysAgrees, LoopBasic DEF Stays, StaysIn, ControlStep
  <2>2. \A v \in Workers \ {w} : Agrees(v)'
    BY <2>1 DEF Moved, Elsewhere, Basic, Agreement, Agrees, Running, KindOf
  <2> QED BY <2>1, <2>2 DEF Agreement, Moved
<1>2. CASE UNCHANGED <<lease, pc, work>>
  BY <1>2 DEF Basic, TypeOK, Agreement, Agrees, Running, KindOf
<1>3. CASE Administrator \/ UNCHANGED vars
  BY <1>2, <1>3 DEF Administrator, Approve, ApproveMove, ApproveEnqueue, ApprovalLost, Reject,
     SetSafetyMode, Pause, Resume, vars, handlerVars
<1> QED BY <1>1, <1>3 DEF Next, WorkerStep, ControlStep, HandlerStep

\* A job that is run is a job that was enqueued.
LEMMA Numbers ==
  ASSUME Basic, NEW w \in Workers, Running(w)
  PROVE  /\ lease[w].job \in Jobs /\ lease[w].job = <<KindOf(w), Number(w)>>
         /\ Enqueued(lease[w].job)
         /\ job[lease[w].job].status = "RUNNING"
         /\ KindOf(w) \in {"repair", "build", "preview", "verify"} => Number(w) \in Made
         /\ KindOf(w) = "production" => lease[w].job = Production /\ Subject(w) \in Made
<1>1. lease[w].job \in Jobs /\ job[lease[w].job].status = "RUNNING"
  BY DEF Basic, Running, QP!IInv, QP!TypeOK, QP!LeaseIsKept, QP!Live, QP!Holds, QP!NoLease,
     Q!NoLease
<1>2. Enqueued(Production) => chosen \in Made
  BY DEF Basic, TypeOK, Named
<1> QED BY <1>1, <1>2, JobsOf DEF Enqueued, KindOf, Number, Subject

\* The part of TypeOK about the incident, its attempts and the history.
DataOK ==
  /\ incident \in IncidentState
  /\ project \in [mode : SafetyMode, paused : BOOLEAN, reversible : BOOLEAN]
  /\ attempt \in [made : Made \union {0}, current : Made \union {0},
                  proposed : SUBSET Made, pulled : SUBSET Made,
                  previewed : SUBSET Made]
  /\ risk \in [Made -> ActionRisk]
  /\ asked \in [Made -> ActionRisk]
  /\ chosen \in Made \union {0}
  /\ approval \in {"none", "move", "enqueue"}
  /\ {verified, rejected, promoted} \subseteq SUBSET Made
  /\ granted \subseteq {"approved", "allowed"} \X Made
  /\ stale \in Made \union {0}

\* The attempt a handler of the given points is about.
LEMMA SubjectOf ==
  ASSUME Basic, NEW w \in Workers
  PROVE  /\ pc[w] \in RepairPoints \union BuildPoints \union PreviewPoints
                     \union VerifyPoints =>
              Subject(w) \in Made /\ Subject(w) = Number(w)
         /\ pc[w] \in ProductionPoints =>
              Subject(w) \in Made /\ Subject(w) = chosen /\ lease[w].job = Production
<1>p. /\ RepairPoints \in HandlerPoints /\ BuildPoints \in HandlerPoints
      /\ PreviewPoints \in HandlerPoints /\ VerifyPoints \in HandlerPoints
      /\ ProductionPoints \in HandlerPoints
  BY DEF HandlerPoints
<1>1. ASSUME pc[w] \in RepairPoints \union BuildPoints \union PreviewPoints \union VerifyPoints
      PROVE  Running(w) /\ KindOf(w) \in {"repair", "build", "preview", "verify"}
  BY <1>1, <1>p, Inside DEF Basic, Agreement, Agrees, Outer, Ends
<1>2. ASSUME pc[w] \in ProductionPoints
      PROVE  Running(w) /\ KindOf(w) = "production"
  BY <1>2, <1>p, Inside DEF Basic, Agreement, Agrees, Outer, Ends
<1> QED BY <1>1, <1>2, Numbers DEF Subject

\* Every step keeps it.
LEMMA DataTypes ==
  ASSUME Basic, [Next]_vars
  PROVE  DataOK'
<1> USE DEF DataOK
<1>0. TypeOK
  BY DEF Basic
<1>c. {"Open", "CollectingContext", "Diagnosing", "Planning", "Repairing", "Testing",
       "PreviewDeploying", "VerifyingPreview", "WaitingApproval", "ProductionDeploying",
       "VerifyingProduction", "Paused", "Escalated", "Cancelled"} \subseteq IncidentState
  BY DEF IncidentState
<1>a. CASE Administrator \/ UNCHANGED vars
  <2>1. CASE Approve \/ ApproveMove \/ ApprovalLost \/ Reject
    BY <1>0, <1>c, <2>1 DEF Approve, ApproveMove, ApprovalLost, Reject, TypeOK, handlerVars,
       rowVars, ghostVars
  <2>2. CASE ApproveEnqueue
    <3>1. attempt.current # 0 =>
            attempt.current \in Made /\ ChosenBy(attempt.current) \in Made \union {0}
      BY <1>0 DEF TypeOK, ChosenBy
    <3> QED BY <1>0, <2>2, <3>1 DEF ApproveEnqueue, TypeOK
  <2>3. CASE SetSafetyMode \/ Pause
    BY <1>0, <2>3 DEF SetSafetyMode, Pause, TypeOK, handlerVars, rowVars, ghostVars
  <2>4. CASE Resume
    BY <1>0, <1>c, <2>4 DEF Resume, TypeOK
  <2>5. CASE UNCHANGED vars
    BY <1>0, <2>5 DEF vars, handlerVars, rowVars, ghostVars, TypeOK
  <2> QED BY <1>a, <2>1, <2>2, <2>3, <2>4, <2>5 DEF Administrator
<1>p. ASSUME Plainly, incident' \in IncidentState
      PROVE  DataOK'
  BY <1>0, <1>p DEF Plainly, TypeOK, rowVars, ghostVars
<1>1. ASSUME NEW w \in Workers, Loop(w) \/ Broken(w)
      PROVE  DataOK'
  <2>1. Plainly /\ incident' \in IncidentState
    BY <1>0, <1>c, <1>1 DEF Loop, Broken, LoopStep, Fault, ClaimNext, CompleteJob, FailJob,
       EscalateRead, EscalateMove, Transition, StepFails, Crash, TypeOK
  <2> QED BY <2>1, <1>p
<1>2. ASSUME NEW w \in Workers, ReadWork(w)
      PROVE  DataOK'
  BY <1>0, <1>2 DEF ReadWork, TypeOK, rowVars, ghostVars
<1>q. ASSUME NEW w \in Workers, NEW from, NEW n \in Made \union {0}, NEW r \in ActionRisk,
             EnqueueRepair(w, from, n, r)
      PROVE  DataOK'
  BY <1>0, <1>q DEF EnqueueRepair, EnqueueStep, TypeOK, ghostVars
<1>3. ASSUME NEW w \in Workers, Diagnosis(w)
      PROVE  DataOK'
  <2>1. CASE CollectContext(w) \/ StartDiagnosis(w) \/ PlanRepair(w) \/ StartRepair(w)
             \/ EnqueueBuild(w)
    <3>1. Plainly /\ incident' \in IncidentState
      BY <1>0, <1>c, <2>1 DEF CollectContext, StartDiagnosis, PlanRepair, StartRepair,
         EnqueueBuild,
         EnqueueStep, Transition, TypeOK
    <3> QED BY <3>1, <1>p
  <2>2. CASE CreateAttempt(w)
    <3>1. PICK r \in Risks, n \in Made :
            /\ attempt' \in {attempt, [attempt EXCEPT !.made = n, !.current = n]}
            /\ risk' \in {risk, [risk EXCEPT ![n] = r]}
      BY <2>2 DEF CreateAttempt
    <3>2. UNCHANGED <<incident, project, asked, chosen, approval, ghostVars>>
      BY <2>2 DEF CreateAttempt
    <3>3. r \in ActionRisk
      BY DeploymentAssumption DEF ActionRisk
    <3>4. attempt' \in [made : Made \union {0}, current : Made \union {0},
                        proposed : SUBSET Made, pulled : SUBSET Made,
                        previewed : SUBSET Made]
      BY <1>0, <3>1 DEF TypeOK
    <3>5. risk' \in [Made -> ActionRisk]
      BY <1>0, <3>1, <3>3 DEF TypeOK
    <3> QED BY <1>0, <3>2, <3>4, <3>5 DEF TypeOK, ghostVars
  <2>3. CASE EnqueueFirstRepair(w)
    <3>1. work[w].n \in Made \union {0} /\ work[w].risk \in ActionRisk
      BY <1>0 DEF TypeOK, Work
    <3> QED BY <2>3, <3>1, <1>q DEF EnqueueFirstRepair
  <2>4. CASE ProposeRepair(w)
    <3>1. pc[w] \in RepairPoints
      BY <2>4 DEF ProposeRepair, RepairPoints
    <3>2. Subject(w) \in Made
      BY <3>1, SubjectOf
    <3> QED BY <1>0, <2>4, <3>2 DEF ProposeRepair, Choose, TypeOK, ghostVars
  <2> QED BY <1>3, <2>1, <2>2, <2>3, <2>4 DEF Diagnosis
<1>4. ASSUME NEW w \in Workers, Build(w)
      PROVE  DataOK'
  <2>1. CASE PauseRepair(w) \/ StartTesting(w) \/ TestRepair(w) \/ RepairAgain(w) \/ RereadWork(w)
             \/ HaltBuild(w) \/ OpenRepairPullRequest(w) \/ EnqueuePreview(w)
    <3>1. Plainly /\ incident' \in IncidentState
      BY <1>0, <1>c, <2>1 DEF PauseRepair, StartTesting, TestRepair, RepairAgain, RereadWork,
         HaltBuild, OpenRepairPullRequest, EnqueuePreview, EnqueueStep, Transition, Choose,
         TypeOK
    <3> QED BY <3>1, <1>p
  <2>s. pc[w] \in BuildPoints => Subject(w) \in Made
    BY SubjectOf
  <2>2. CASE FollowUp(w)
    <3>1. pc[w] \in BuildPoints
      BY <2>2 DEF FollowUp, BuildPoints
    <3>2. risk[Subject(w)] \in ActionRisk
      BY <1>0, <3>1, <2>s DEF TypeOK
    <3>3. \/ UNCHANGED <<attempt, risk>>
          \/ \E n \in Made : /\ attempt' = [attempt EXCEPT !.made = n, !.current = n]
                             /\ risk' = [risk EXCEPT ![n] = risk[Subject(w)]]
      BY <2>2 DEF FollowUp
    <3>4. UNCHANGED <<incident, project, asked, chosen, approval, ghostVars>>
      BY <2>2 DEF FollowUp
    <3>5. attempt' \in [made : Made \union {0}, current : Made \union {0},
                        proposed : SUBSET Made, pulled : SUBSET Made,
                        previewed : SUBSET Made]
      BY <1>0, <3>3 DEF TypeOK
    <3>6. risk' \in [Made -> ActionRisk]
      BY <1>0, <3>2, <3>3 DEF TypeOK
    <3> QED BY <1>0, <3>4, <3>5, <3>6 DEF TypeOK, ghostVars
  <2>3. CASE EnqueueNextRepair(w)
    <3>1. pc[w] \in BuildPoints
      BY <2>3 DEF EnqueueNextRepair, BuildPoints
    <3>2. work[w].n \in Made \union {0} /\ risk[Subject(w)] \in ActionRisk
      BY <1>0, <3>1, <2>s DEF TypeOK, Work
    <3> QED BY <2>3, <3>2, <1>q DEF EnqueueNextRepair
  <2>4. CASE SavePullRequest(w)
    <3>1. pc[w] \in BuildPoints
      BY <2>4 DEF SavePullRequest, BuildPoints
    <3> QED BY <1>0, <2>4, <3>1, <2>s DEF SavePullRequest, Choose, TypeOK, ghostVars
  <2> QED BY <1>4, <2>1, <2>2, <2>3, <2>4 DEF Build
<1>5. ASSUME NEW w \in Workers, Preview(w)
      PROVE  DataOK'
  <2>s. pc[w] \in PreviewPoints \union VerifyPoints => Subject(w) \in Made
    BY SubjectOf
  <2>1. CASE StartPreview(w) \/ CreatePreview(w) \/ StartVerifying(w) \/ EnqueueVerify(w)
             \/ DecideOnPreview(w) \/ HoldPromotion(w)
    <3>1. Plainly /\ incident' \in IncidentState
      BY <1>0, <1>c, <2>1 DEF StartPreview, CreatePreview, StartVerifying, EnqueueVerify,
         DecideOnPreview, HoldPromotion, EnqueueStep, Transition, Choose, TypeOK
    <3> QED BY <3>1, <1>p
  <2>2. CASE SavePreview(w)
    <3>1. pc[w] \in PreviewPoints
      BY <2>2 DEF SavePreview, PreviewPoints
    <3> QED BY <1>0, <2>2, <3>1, <2>s DEF SavePreview, Choose, TypeOK, ghostVars
  <2>3. CASE CheckPreview(w)
    <3>1. pc[w] \in VerifyPoints
      BY <2>3 DEF CheckPreview, VerifyPoints
    <3> QED BY <1>0, <2>3, <3>1, <2>s DEF CheckPreview, Choose, TypeOK, rowVars
  <2>4. CASE AllowPromotion(w)
    <3>1. pc[w] \in VerifyPoints
      BY <2>4 DEF AllowPromotion, VerifyPoints
    <3> QED BY <1>0, <1>c, <2>4, <3>1, <2>s DEF AllowPromotion, Transition, TypeOK, rowVars
  <2>5. CASE EnqueuePromotion(w)
    <3>1. pc[w] \in VerifyPoints
      BY <2>5 DEF EnqueuePromotion, VerifyPoints
    <3> QED BY <1>0, <2>5, <3>1, <2>s DEF EnqueuePromotion, ChosenBy, EnqueueStep, TypeOK,
           ghostVars
  <2> QED BY <1>5, <2>1, <2>2, <2>3, <2>4, <2>5 DEF Preview
<1>6. ASSUME NEW w \in Workers, Promote(w) \/ StartLanding(w)
      PROVE  DataOK'
  <2>1. CASE StartLanding(w)
    <3>1. Plainly /\ incident' \in IncidentState
      BY <1>0, <1>c, <2>1 DEF StartLanding, Transition, EnqueueStep, TypeOK
    <3> QED BY <3>1, <1>p
  <2>2. CASE Promote(w)
    <3>1. pc[w] \in ProductionPoints
      BY <2>2 DEF Promote, ProductionPoints
    <3>2. Subject(w) \in Made
      BY <3>1, SubjectOf
    <3> QED BY <1>0, <2>2, <3>2 DEF Promote, Choose, TypeOK, rowVars
  <2> QED BY <1>6, <2>1, <2>2
<1> QED BY <1>a, <1>1, <1>2, <1>3, <1>4, <1>5, <1>6 DEF Next, WorkerStep

\* The production job is enqueued with an attempt.
LEMMA NamedKept ==
  ASSUME Basic, [Next]_vars
  PROVE  Named'
<1>0. Production \in Jobs /\ DOMAIN job = Jobs
  BY DEF Production, Jobs, Basic, TypeOK, Q!TypeOK
<1>1. ASSUME chosen' = chosen, job' = job
      PROVE  Named'
  BY <1>1 DEF Basic, Named, Enqueued
<1>2. ASSUME chosen' = chosen, NEW j \in Jobs \ {Production}, job' = Q!Enqueued({j})
      PROVE  Named'
  BY <1>0, <1>2 DEF Basic, Named, Enqueued, Q!Enqueued
<1>3. ASSUME NEW n \in Made, chosen' = ChosenBy(n), job' = Q!Enqueued({Production})
      PROVE  Named'
  <2>1. n # 0
    BY DEF Made
  <2> QED BY <2>1, <1>3 DEF Basic, Named, Enqueued, ChosenBy, Production
<1>4. ASSUME NEW w \in Workers, Loop(w) \/ Broken(w)
      PROVE  Named'
  <2>1. chosen' = chosen
    BY <1>4 DEF Loop, Broken, Plainly, rowVars
  <2>2. job' = job \/ (\E j \in Jobs : Q!ClaimNext(w, j))
                   \/ (\E st \in {"COMPLETED", "RETRY", "FAILED"} : Q!Release(w, st))
    <3>1. CASE CompleteJob(w) \/ FailJob(w)
      BY <3>1 DEF CompleteJob, FailJob, Q!CompleteJob, Q!FailJob
    <3>2. CASE ClaimNext(w)
      BY <3>2 DEF ClaimNext
    <3>3. CASE EscalateRead(w) \/ EscalateMove(w) \/ StepFails(w) \/ Crash(w)
      BY <3>3 DEF EscalateRead, EscalateMove, Transition, StepFails, Crash
    <3> QED BY <1>4, <3>1, <3>2, <3>3 DEF Loop, Broken, LoopStep, Fault
  <2>3. job'[Production].status # "absent" => job[Production].status # "absent"
    <3>1. ASSUME NEW j \in Jobs, Q!ClaimNext(w, j)
          PROVE  job'[Production].status # "absent" => job[Production].status # "absent"
      <4>1. job[j].status # "absent"
        BY <3>1 DEF Q!ClaimNext, Q!Claimable
      <4>2. job' = [job EXCEPT ![j].status = "RUNNING", ![j].by = NameOf[w],
                               ![j].attempt = @ + 1]
        BY <3>1 DEF Q!ClaimNext
      <4> QED BY <1>0, <4>1, <4>2
    <3>2. ASSUME NEW st, Q!Release(w, st)
          PROVE  job'[Production].status # "absent" => job[Production].status # "absent"
      BY <1>0, <3>2 DEF Q!Release, Q!Holds
    <3> QED BY <2>2, <3>1, <3>2
  <2> QED BY <2>1, <2>3 DEF Basic, Named, Enqueued
<1>5. ASSUME Administrator PROVE Named'
  <2>1. CASE ApproveEnqueue
    BY <2>1, <1>1, <1>3 DEF ApproveEnqueue, Basic, TypeOK, Production
  <2>2. CASE Resume
    <3>1. CASE incident = "Paused"
      <4>1. PICK n \in 1..MaxResumes : job' = Q!Enqueued({<<"diagnose", n>>})
        BY <2>2, <3>1 DEF Resume
      <4>2. <<"diagnose", n>> \in Jobs \ {Production}
        BY DeploymentAssumption DEF Jobs, Production
      <4> QED BY <2>2, <4>1, <4>2, <1>2 DEF Resume
    <3> QED BY <2>2, <3>1, <1>1 DEF Resume
  <2>3. CASE ~ApproveEnqueue /\ ~Resume
    BY <1>5, <2>3, <1>1 DEF Administrator, Approve, ApproveMove, ApprovalLost, Reject,
       SetSafetyMode, Pause, handlerVars, rowVars
  <2> QED BY <2>1, <2>2, <2>3
<1>6. ASSUME NEW w \in Workers, HandlerStep(w), ~EnqueuePromotion(w)
      PROVE  Named'
  <2>1. chosen' = chosen
    BY <1>6 DEF HandlerStep, ReadWork, Promote, StartLanding, Diagnosis, CollectContext,
       StartDiagnosis, CreateAttempt, PlanRepair, EnqueueFirstRepair, EnqueueRepair,
       StartRepair,
       ProposeRepair, EnqueueBuild, Build, PauseRepair, StartTesting, TestRepair, FollowUp,
       RepairAgain, EnqueueNextRepair, RereadWork, HaltBuild, OpenRepairPullRequest,
       SavePullRequest, EnqueuePreview, Preview, StartPreview, CreatePreview, SavePreview,
       StartVerifying, EnqueueVerify, CheckPreview, DecideOnPreview, AllowPromotion,
       HoldPromotion, Plainly, rowVars
  <2>2. job' = job \/ \E j : j # Production /\ job' = Q!Enqueued({j})
    BY <1>6 DEF HandlerStep, ReadWork, Promote, StartLanding, Diagnosis, CollectContext,
       StartDiagnosis, CreateAttempt, PlanRepair, EnqueueFirstRepair, EnqueueRepair,
       StartRepair,
       ProposeRepair, EnqueueBuild, Build, PauseRepair, StartTesting, TestRepair, FollowUp,
       RepairAgain, EnqueueNextRepair, RereadWork, HaltBuild, OpenRepairPullRequest,
       SavePullRequest, EnqueuePreview, Preview, StartPreview, CreatePreview, SavePreview,
       StartVerifying, EnqueueVerify, CheckPreview, DecideOnPreview, AllowPromotion,
       HoldPromotion, Choose, Transition, EnqueueStep, Production
  <2>3. ASSUME NEW j, j # Production, job' = Q!Enqueued({j})
        PROVE  job'[Production] = job[Production]
    BY <1>0, <2>3 DEF Q!Enqueued
  <2>4. job'[Production] = job[Production]
    BY <2>2, <2>3
  <2> QED BY <2>1, <2>4 DEF Basic, Named, Enqueued
<1>7. ASSUME NEW w \in Workers, EnqueuePromotion(w)
      PROVE  Named'
  <2>1. pc[w] \in VerifyPoints
    BY <1>7 DEF EnqueuePromotion, VerifyPoints
  <2> QED BY <1>7, <2>1, <1>3, SubjectOf DEF EnqueuePromotion, EnqueueStep, Production
<1> QED BY <1>1, <1>4, <1>5, <1>6, <1>7 DEF Next, WorkerStep, HandlerStep, vars, handlerVars,
       rowVars

\* Basic is inductive by itself.
LEMMA BasicKept ==
  ASSUME Basic, [Next]_vars
  PROVE  Basic'
<1>1. QP!IInv'
  BY QueueStep, QP!NextKeeps, JobAttempts DEF Basic
<1>2. Q!TypeOK'
  <2>1. QP!TypeOK'
    BY <1>1 DEF QP!IInv
  <2> QED BY <2>1, QueueTypes, PTL
<1> QED BY <1>1, <1>2, DataTypes, AgreementKept, NamedKept DEF Basic, TypeOK, DataOK

\* Basic holds of the initial states.
LEMMA BasicInit == Init => Basic
<1> SUFFICES ASSUME Init PROVE Basic
  OBVIOUS
<1>1. \A j \in Jobs : job[j] \in [status : {"absent", "PENDING"}, attempt : {0}, by : {Q!NoName}]
  BY DEF Init, Q!Absent
<1>2. QP!IInv
  <2>1. job \in [Jobs -> [status : QP!Status, attempt : Nat, by : QP!Names]]
    BY DEF Init, Q!Absent, QP!Status, QP!Names, Q!NoName, QP!NoName
  <2>2. \A j \in Jobs : job[j].attempt = 0 /\ MaxAttempts[j] \in Nat \ {0}
    BY <1>1, JobAttempts DEF QP!AttemptsAssumption
  <2>3. \A w \in Workers : lease[w] = QP!NoLease
    BY DEF Init, Q!NoLease, QP!NoLease
  <2>4. lease \in [Workers -> [job : Jobs, attempt : Nat] \union {QP!NoLease}]
    BY DEF Init, Q!NoLease, QP!NoLease
  <2>5. \A j \in Jobs : job[j].status # "RUNNING"
    BY <1>1
  <2> QED BY <2>1, <2>2, <2>3, <2>4, <2>5 DEF QP!IInv, QP!TypeOK, QP!OneRunner,
         QP!LeaseIsKept, QP!AttemptsBounded, QP!AttemptLeft, QP!Live
<1>3. Q!TypeOK
  BY <1>2, QueueTypes DEF QP!IInv
<1>4. pc \in [Workers -> Point] /\ work \in [Workers -> Work]
  BY DEF Init, Point, Ends, Work, Blank, IncidentState, SafetyMode, ActionRisk
<1>6. TypeOK
  BY <1>3, <1>4 DEF Init, TypeOK, IncidentState, ActionRisk
<1>7. Agreement
  BY Inside DEF Init, Agreement, Agrees, Running, ContextPoints, DiagnosePoints,
     RepairPoints, BuildPoints, PreviewPoints, VerifyPoints, ProductionPoints
<1>8. Named
  BY DEF Init, Named, Enqueued, Production, Jobs, Q!Absent
<1> QED BY <1>2, <1>6, <1>7, <1>8 DEF Basic

\* In every reachable state the state is typed, the queue's invariant holds, every worker
\* inside a handler holds a lease of its kind, and the production job names an attempt.
THEOREM DeploymentBasic == Spec => []Basic
  BY BasicInit, BasicKept, PTL DEF Spec

\* The type invariant.
THEOREM DeploymentTypeOK == Spec => []TypeOK
<1>1. Basic => TypeOK
  BY DEF Basic
<1> QED BY <1>1, DeploymentBasic, PTL

-------------------------------------------------------------------------------
(* What steps do to the queue and to the rows.                             *)

\* A job that a worker may claim, of a kind that has a handler here.
Ready(j) == j[1] \in Kind /\ job[j].status \in {"PENDING", "RETRY"}

\* Enqueueing a job adds that job, if it is new.
LEMMA EnqueueEffect ==
  ASSUME Basic, NEW k \in Jobs, job' = Q!Enqueued({k})
  PROVE  /\ \A j \in Jobs : Enqueued(j)' <=> Enqueued(j) \/ j = k
         /\ \A j \in Jobs : Ready(j)' => Ready(j) \/ (j = k /\ ~Enqueued(k))
<1>1. job \in [Jobs -> [status : Q!Status, attempt : Nat, by : Q!Names]]
  BY DEF Basic, TypeOK, Q!TypeOK
<1>2. ASSUME NEW j \in Jobs, ~(j = k /\ ~Enqueued(k)) PROVE job'[j] = job[j]
  BY <1>2 DEF Q!Enqueued, Q!EnqueuedRow, Enqueued
<1>3. ~Enqueued(k) => job'[k].status = "PENDING"
  BY <1>1 DEF Q!Enqueued, Q!EnqueuedRow, Enqueued
<1> QED BY <1>2, <1>3 DEF Enqueued, Ready

\* The loop enqueues nothing; only a failed job becomes ready again.
LEMMA LoopEffect ==
  ASSUME Basic, NEW w \in Workers, Loop(w) \/ Broken(w)
  PROVE  /\ \A j \in Jobs : Enqueued(j)' <=> Enqueued(j)
         /\ \A j \in Jobs : Ready(j)' => Ready(j) \/ (FailJob(w) /\ j = lease[w].job)
<1>1. job \in [Jobs -> [status : Q!Status, attempt : Nat, by : Q!Names]]
  BY DEF Basic, TypeOK, Q!TypeOK
<1>2. CASE ClaimNext(w)
  <2>1. PICK k \in Jobs : Q!ClaimNext(w, k)
    BY <1>2 DEF ClaimNext
  <2>2. /\ job[k].status \in {"PENDING", "RETRY"}
        /\ job' = [job EXCEPT ![k].status = "RUNNING", ![k].by = NameOf[w],
                              ![k].attempt = @ + 1]
    BY <2>1 DEF Q!ClaimNext, Q!Claimable
  <2>3. job'[k].status = "RUNNING" /\ \A j \in Jobs \ {k} : job'[j] = job[j]
    BY <1>1, <2>2
  <2> QED BY <2>2, <2>3 DEF Enqueued, Ready
<1>3. ASSUME NEW st \in {"COMPLETED", "RETRY", "FAILED"}, Q!Release(w, st),
             st = "RETRY" => FailJob(w)
      PROVE  /\ \A j \in Jobs : Enqueued(j)' <=> Enqueued(j)
             /\ \A j \in Jobs : Ready(j)' => Ready(j) \/ (FailJob(w) /\ j = lease[w].job)
  <2>1. CASE ~Q!Holds(w)
    BY <1>3, <2>1 DEF Q!Release, Enqueued, Ready
  <2>2. CASE Q!Holds(w)
    <3> DEFINE k == lease[w].job
    <3>1. k \in Jobs /\ job[k].status = "RUNNING"
      BY <2>2 DEF Q!Holds, Basic, TypeOK, Q!TypeOK
    <3>2. job' = [job EXCEPT ![k].status = st, ![k].by = Q!NoName]
      BY <1>3, <2>2 DEF Q!Release
    <3>3. job'[k].status = st /\ \A j \in Jobs \ {k} : job'[j] = job[j]
      BY <1>1, <3>1, <3>2
    <3> HIDE DEF k
    <3>4. \A j \in Jobs : Ready(j)' => Ready(j) \/ (FailJob(w) /\ j = k)
      BY <1>3, <3>1, <3>3 DEF Ready
    <3> QED BY <3>1, <3>3, <3>4 DEF Enqueued, k
  <2> QED BY <2>1, <2>2
<1>4. CASE CompleteJob(w)
  BY <1>3, <1>4 DEF CompleteJob, Q!CompleteJob
<1>5. CASE FailJob(w)
  BY <1>3, <1>5 DEF FailJob, Q!FailJob
<1>6. CASE EscalateRead(w) \/ EscalateMove(w) \/ StepFails(w) \/ Crash(w)
  BY <1>6 DEF EscalateRead, EscalateMove, Transition, StepFails, Crash, Enqueued, Ready
<1> QED BY <1>2, <1>4, <1>5, <1>6 DEF Loop, Broken, LoopStep, Fault

\* By which actions the rows and the history change.
LEMMA RowsMove ==
  ASSUME Basic, NEW w \in Workers, HandlerStep(w)
  PROVE  /\ approval' = approval /\ project' = project
         /\ rejected' = rejected /\ stale' = stale /\ verified \subseteq verified'
         /\ verified' = verified \/ CheckPreview(w)
         /\ chosen' = chosen \/ EnqueuePromotion(w)
         /\ granted' = granted \/ AllowPromotion(w)
         /\ promoted' = promoted \/ Promote(w)
         /\ (attempt.made' = attempt.made /\ attempt.current' = attempt.current /\ risk' = risk)
              \/ CreateAttempt(w) \/ FollowUp(w)
         /\ asked' = asked \/ EnqueueFirstRepair(w) \/ EnqueueNextRepair(w)
<1>0. attempt \in [made : Made \union {0}, current : Made \union {0}, proposed : SUBSET Made,
                  pulled : SUBSET Made, previewed : SUBSET Made]
  BY DEF Basic, TypeOK
<1>p. CASE Plainly
  BY <1>p DEF Plainly, rowVars, ghostVars
<1>1. CASE ReadWork(w) \/ Promote(w) \/ StartLanding(w)
  <2>1. CASE Promote(w)
    BY <2>1 DEF Promote, rowVars
  <2> QED BY <1>1, <1>p, <2>1 DEF ReadWork, StartLanding, Plainly
<1>2. CASE Diagnosis(w)
  <2>1. CASE CreateAttempt(w) \/ EnqueueFirstRepair(w)
    <3>1. /\ UNCHANGED <<approval, project, rejected, stale, verified, chosen, granted,
                         promoted>>
          /\ CreateAttempt(w) => asked' = asked
          /\ EnqueueFirstRepair(w) => UNCHANGED <<attempt, risk>>
      BY <2>1 DEF CreateAttempt, EnqueueFirstRepair, EnqueueRepair, ghostVars
    <3> QED BY <2>1, <3>1
  <2>2. CASE ProposeRepair(w)
    BY <1>0, <2>2 DEF ProposeRepair, ghostVars
  <2> QED BY <1>2, <1>p, <2>1, <2>2 DEF Diagnosis, CollectContext, StartDiagnosis, PlanRepair,
     StartRepair, EnqueueBuild
<1>3. CASE Build(w)
  <2>1. CASE FollowUp(w) \/ EnqueueNextRepair(w)
    <3>1. /\ UNCHANGED <<approval, project, rejected, stale, verified, chosen, granted,
                         promoted>>
          /\ FollowUp(w) => asked' = asked
          /\ EnqueueNextRepair(w) => UNCHANGED <<attempt, risk>>
      BY <2>1 DEF FollowUp, EnqueueNextRepair, EnqueueRepair, ghostVars
    <3> QED BY <2>1, <3>1
  <2>2. CASE SavePullRequest(w)
    BY <1>0, <2>2 DEF SavePullRequest, ghostVars
  <2> QED BY <1>3, <1>p, <2>1, <2>2 DEF Build, PauseRepair, StartTesting, TestRepair,
     RepairAgain, RereadWork, HaltBuild, OpenRepairPullRequest, EnqueuePreview
<1>4. CASE Preview(w)
  <2>1. CASE SavePreview(w)
    BY <1>0, <2>1 DEF SavePreview, ghostVars
  <2>2. CASE CheckPreview(w)
    BY <2>2 DEF CheckPreview, rowVars
  <2>3. CASE AllowPromotion(w)
    <3>1. UNCHANGED <<approval, project, rejected, stale, verified, chosen, promoted, attempt,
                      risk, asked>>
      BY <2>3 DEF AllowPromotion, rowVars
    <3> QED BY <2>3, <3>1
  <2>4. CASE EnqueuePromotion(w)
    <3>1. UNCHANGED <<approval, project, rejected, stale, verified, granted, promoted, attempt,
                      risk, asked>>
      BY <2>4 DEF EnqueuePromotion, ghostVars
    <3> QED BY <2>4, <3>1
  <2> QED BY <1>4, <1>p, <2>1, <2>2, <2>3, <2>4 DEF Preview, StartPreview, CreatePreview,
     StartVerifying, EnqueueVerify, DecideOnPreview, HoldPromotion
<1> QED BY <1>1, <1>2, <1>3, <1>4 DEF HandlerStep

-------------------------------------------------------------------------------
(* What is promoted was granted.                                           *)

Granted(a) == \E by \in {"approved", "allowed"} : <<by, a>> \in granted

\* The attempt in the promotion's payload was granted, and so was the one a handler is
\* about to write there; only the former is promoted.
Grants ==
  /\ chosen # 0 => Enqueued(Production) /\ Granted(chosen)
  /\ \A w \in Workers : pc[w] = "verify.enqueue" => <<"allowed", Number(w)>> \in granted
  /\ promoted \subseteq {chosen}

\* A handler is about to enqueue the promotion only when the policy allowed it and the
\* incident was moved.
LEMMA ComesToEnqueue ==
  ASSUME Basic, NEW w \in Workers, ControlStep(w), pc'[w] = "verify.enqueue"
  PROVE  /\ AllowPromotion(w) /\ pc[w] = "verify.allow"
         /\ incident = "VerifyingPreview" /\ incident' = "ProductionDeploying"
         /\ lease' = lease
<1>0. pc \in [Workers -> Point]
  BY DEF Basic, TypeOK
<1>1. CASE Loop(w) \/ Broken(w)
  BY <1>1, LoopBasic DEF Kind, Ends
<1>2. CASE ReadWork(w)
  BY <1>2, ReadStays DEF Entry, ContextEntry, DiagnoseEntry, RepairEntry, BuildEntry,
     PreviewEntry, VerifyEntry, ProductionEntry, Kind
<1>3. CASE Promote(w) \/ StartLanding(w)
  BY <1>0, <1>3 DEF Promote, StartLanding, Transition, Choose, EnqueueStep, Goto, Read, Fail
<1>4. CASE Diagnosis(w)
  BY <1>0, <1>4 DEF Diagnosis, CollectContext, StartDiagnosis, CreateAttempt, PlanRepair,
     EnqueueFirstRepair, EnqueueRepair, StartRepair, ProposeRepair, EnqueueBuild,
     Transition, Choose, EnqueueStep, Goto, Read, Fail
<1>5. CASE Build(w)
  BY <1>0, <1>5 DEF Build, PauseRepair, StartTesting, TestRepair, FollowUp, RepairAgain,
     EnqueueNextRepair, EnqueueRepair, RereadWork, HaltBuild, OpenRepairPullRequest,
     SavePullRequest, EnqueuePreview, Transition, Choose, EnqueueStep, Goto, Read, Fail
<1>6. CASE AllowPromotion(w)
  BY <1>0, <1>6 DEF AllowPromotion, Transition, Goto, Read, Fail
<1>7. CASE Preview(w) /\ ~AllowPromotion(w)
  BY <1>0, <1>7 DEF Preview, StartPreview, CreatePreview, SavePreview, StartVerifying,
     EnqueueVerify, CheckPreview, DecideOnPreview, Verdict, Decide, HoldPromotion,
     EnqueuePromotion, Transition, Choose, EnqueueStep, Goto, Read, Fail
<1> QED BY <1>1, <1>2, <1>3, <1>4, <1>5, <1>6, <1>7 DEF ControlStep, HandlerStep

\* Every step moves one worker, or none.
LEMMA WhoMoves ==
  ASSUME Basic, [Next]_vars
  PROVE  \/ \E w \in Workers : ControlStep(w) /\ Moved(w, pc[w], pc'[w])
         \/ (Administrator \/ UNCHANGED vars) /\ UNCHANGED <<pc, work, lease>>
<1>1. ASSUME NEW w \in Workers, ControlStep(w) PROVE Moved(w, pc[w], pc'[w])
  BY <1>1, HandlerBasic, LoopBasic DEF ControlStep, Stays, StaysIn
<1>2. CASE Administrator \/ UNCHANGED vars
  BY <1>2 DEF Administrator, Approve, ApproveMove, ApproveEnqueue, ApprovalLost, Reject,
     SetSafetyMode, Pause, Resume, vars, handlerVars
<1> QED BY <1>1, <1>2 DEF Next, WorkerStep, ControlStep, HandlerStep

\* The queue forgets no job.
LEMMA EnqueuedGrows ==
  ASSUME Basic, [Next]_vars, NEW j \in Jobs, Enqueued(j)
  PROVE  Enqueued(j)'
<1>q. ASSUME NEW js, job' = Q!Enqueued(js) PROVE Enqueued(j)'
  BY <1>q DEF Q!Enqueued, Q!EnqueuedRow, Enqueued
<1>1. ASSUME NEW w \in Workers, HandlerStep(w) PROVE Enqueued(j)'
  BY <1>q, <1>1, HandlerJobs DEF EnqueueStep, Enqueued
<1>2. ASSUME NEW w \in Workers, Loop(w) \/ Broken(w) PROVE Enqueued(j)'
  BY <1>2, LoopEffect
<1>3. CASE Administrator
  BY <1>q, <1>3, AdministratorJobs DEF Enqueued
<1>4. CASE UNCHANGED vars
  BY <1>4 DEF vars, handlerVars, Enqueued
<1> QED BY <1>1, <1>2, <1>3, <1>4 DEF Next, WorkerStep, HandlerStep

\* Grants are inductive.
LEMMA GrantsKept ==
  ASSUME Basic, Grants, [Next]_vars
  PROVE  Grants'
<1>p. Production \in Jobs
  BY DEF Production, Jobs
<1>e. Enqueued(Production) => Enqueued(Production)'
  BY <1>p, EnqueuedGrows
<1>n. ~Enqueued(Production) => chosen = 0 /\ promoted = {}
  BY DEF Grants, Basic, TypeOK, Made
<1>g. ASSUME chosen' = chosen, promoted' = promoted, granted \subseteq granted',
             \A w \in Workers : pc'[w] = "verify.enqueue" =>
               <<"allowed", Number(w)'>> \in granted'
      PROVE  Grants'
  BY <1>g, <1>e DEF Grants, Granted
<1>s. ASSUME NEW w \in Workers, Moved(w, pc[w], pc'[w]), granted \subseteq granted',
             pc'[w] # "verify.enqueue" \/ <<"allowed", Number(w)'>> \in granted'
      PROVE  \A v \in Workers : pc'[v] = "verify.enqueue" =>
               <<"allowed", Number(v)'>> \in granted'
  BY <1>s DEF Moved, Elsewhere, Grants, Number
<1>1. CASE Administrator \/ UNCHANGED vars
  <2>1. \A w \in Workers : pc'[w] = pc[w] /\ Number(w)' = Number(w)
    BY <1>1 DEF Administrator, Approve, ApproveMove, ApproveEnqueue, ApprovalLost, Reject,
       SetSafetyMode, Pause, Resume, vars, handlerVars, Number
  <2>2. CASE ApproveEnqueue /\ attempt.current # 0
    <3>1. /\ job' = Q!Enqueued({Production}) /\ chosen' = ChosenBy(attempt.current)
          /\ granted' = granted \union {<<"approved", attempt.current>>}
          /\ promoted' = promoted
      BY <2>2 DEF ApproveEnqueue, Production
    <3>2. Enqueued(Production)'
      BY <3>1, <1>p, EnqueueEffect
    <3>3. chosen' = (IF Enqueued(Production) THEN chosen ELSE attempt.current)
      BY <3>1 DEF ChosenBy, Enqueued, Production
    <3> QED BY <1>n, <2>1, <3>1, <3>2, <3>3 DEF Grants, Granted
  <2>3. CASE ~(ApproveEnqueue /\ attempt.current # 0)
    <3>1. chosen' = chosen /\ promoted' = promoted /\ granted' = granted
      BY <1>1, <2>3 DEF Administrator, Approve, ApproveMove, ApproveEnqueue, ApprovalLost,
         Reject,
         SetSafetyMode, Pause, Resume, vars, handlerVars, rowVars, ghostVars
    <3> QED BY <2>1, <3>1, <1>g DEF Grants
  <2> QED BY <2>2, <2>3
<1>2. ASSUME NEW w \in Workers, ControlStep(w), Moved(w, pc[w], pc'[w])
      PROVE  Grants'
  <2>1. CASE Loop(w) \/ Broken(w)
    <3>1. UNCHANGED <<chosen, promoted, granted>>
      BY <2>1 DEF Loop, Broken, Plainly, rowVars, ghostVars
    <3>2. pc'[w] # "verify.enqueue"
      BY <2>1, LoopBasic DEF Kind, Ends
    <3> QED BY <1>2, <1>s, <1>g, <3>1, <3>2
  <2>2. CASE AllowPromotion(w)
    <3>1. /\ UNCHANGED <<chosen, promoted>> /\ granted \subseteq granted'
          /\ incident = "VerifyingPreview" => <<"allowed", Subject(w)>> \in granted'
          /\ lease' = lease
      BY <2>2 DEF AllowPromotion, Transition, rowVars
    <3>2. pc[w] \in VerifyPoints
      BY <2>2 DEF AllowPromotion, VerifyPoints
    <3>3. pc'[w] # "verify.enqueue" \/ <<"allowed", Number(w)'>> \in granted'
      BY <1>2, <3>1, <3>2, SubjectOf, ComesToEnqueue DEF Number
    <3> QED BY <1>2, <1>s, <1>g, <3>1, <3>3
  <2>3. CASE EnqueuePromotion(w)
    <3>1. /\ job' = Q!Enqueued({Production}) /\ chosen' = ChosenBy(Subject(w))
          /\ UNCHANGED <<granted, promoted, lease>> /\ pc[w] = "verify.enqueue"
          /\ Goto(w, "verify.enqueue", "ok")
      BY <2>3 DEF EnqueuePromotion, EnqueueStep, Production, ghostVars
    <3>2. Enqueued(Production)'
      BY <3>1, <1>p, EnqueueEffect
    <3>3. chosen' = (IF Enqueued(Production) THEN chosen ELSE Subject(w))
      BY <3>1 DEF ChosenBy, Enqueued, Production
    <3>4. Subject(w) = Number(w)
      BY <3>1, SubjectOf DEF VerifyPoints
    <3>5. pc'[w] = "ok"
      BY <3>1 DEF Goto, Read, Basic, TypeOK
    <3>6. \A v \in Workers :
            pc'[v] = "verify.enqueue" => <<"allowed", Number(v)'>> \in granted'
      BY <1>2, <1>s, <3>1, <3>5
    <3> QED BY <1>n, <3>1, <3>2, <3>3, <3>4, <3>6 DEF Grants, Granted
  <2>4. CASE Promote(w)
    <3>1. /\ promoted' = promoted \union {Subject(w)} /\ UNCHANGED <<chosen, granted>>
          /\ pc[w] = "production.promote" /\ Goto(w, "production.promote", "production.move")
      BY <2>4 DEF Promote, rowVars, Choose
    <3>2. Subject(w) = chosen
      BY <3>1, SubjectOf DEF ProductionPoints
    <3>3. pc'[w] = "production.move"
      BY <3>1 DEF Goto, Read, Basic, TypeOK
    <3>4. \A v \in Workers :
            pc'[v] = "verify.enqueue" => <<"allowed", Number(v)'>> \in granted'
      BY <1>2, <1>s, <3>1, <3>3
    <3> QED BY <1>e, <3>1, <3>2, <3>4 DEF Grants, Granted
  <2>5. CASE HandlerStep(w) /\ ~AllowPromotion(w) /\ ~EnqueuePromotion(w) /\ ~Promote(w)
    <3>1. UNCHANGED <<chosen, promoted, granted>>
      BY <2>5, RowsMove
    <3>2. pc'[w] # "verify.enqueue"
      BY <1>2, <2>5, ComesToEnqueue
    <3> QED BY <1>2, <1>s, <1>g, <3>1, <3>2
  <2> QED BY <1>2, <2>1, <2>2, <2>3, <2>4, <2>5 DEF ControlStep
<1> QED BY <1>1, <1>2, WhoMoves

\* Whoever wrote the payload of the promotion, what goes to production was approved by the
\* administrator or allowed by the policy: for any failing calls and crashes.
THEOREM DeploymentPromotedWasGranted == Spec => []PromotedWasGranted
<1>1. Init => Basic /\ Grants
  BY BasicInit DEF Init, Grants
<1>2. Basic /\ Grants /\ [Next]_vars => Basic' /\ Grants'
  BY BasicKept, GrantsKept
<1>3. Basic /\ Grants => PromotedWasGranted
  BY DEF Basic, TypeOK, Made, Grants, Granted, PromotedWasGranted
<1> QED BY <1>1, <1>2, <1>3, PTL DEF Spec

-------------------------------------------------------------------------------
(* One thing at a time.                                                    *)

\* Where a handler has handed the incident over to the next job: a call that fails from
\* here on has its job attempted once more beside that one.
HandOver ==
  (Kind \X {"ok"}) \union
  {<<"verify", "verify.enqueue">>, <<"build", "build.again">>, <<"build", "build.repair">>,
   <<"diagnose", "diagnose.plan">>}

\* The theorems below are about faults at any other point, and about crashes anywhere.
Orderly == Fragile \intersect HandOver = {}

Late      == {"ProductionDeploying", "VerifyingProduction"}
Early     == {"Open", "CollectingContext", "Diagnosing"}
Quiet     == {"Paused", "WaitingApproval", "Cancelled", "Escalated"}
OfAttempt == {"repair", "build", "preview", "verify"}

\* A worker that may still do something to the incident or its attempts.
Active(w) == pc[w] \notin {"idle", "ok", "verify.enqueue"}

Alone(w) == (\A v \in Workers \ {w} : ~Active(v)) /\ (\A j \in Jobs : ~Ready(j))
Only(j)  == (\A v \in Workers : ~Active(v)) /\ (\A k \in Jobs \ {j} : ~Ready(k))
Still    == (\A v \in Workers : ~Active(v)) /\ (\A j \in Jobs : ~Ready(j))

\* One worker is active, or one job is ready, or nothing is going on.
Serial ==
  /\ \A w \in Workers : Active(w) => Alone(w)
  /\ \A j \in Jobs : Ready(j) => Only(j)

\* A job that is ready or run is the promotion exactly when one is under way, then of the
\* current attempt, which was verified since the last resume.
Timely(j) ==
  /\ incident \notin Quiet
  /\ (incident \in Late) <=> (j = Production)
  /\ j = Production => /\ chosen \in verified /\ chosen > stale
                       /\ chosen = attempt.current

\* It is about the current attempt, and there is none before the diagnosis.
Current(j) ==
  /\ j[1] \in OfAttempt => j[2] = attempt.current
  /\ incident \in Early => attempt.current = 0

\* The incident's state, from where a handler stands (p) and what it has read (s).
Standing(p, s) ==
  /\ p = "context.collect" => incident = "Open"
  /\ p \in {"context.enqueue", "diagnose.start"} => incident = "CollectingContext"
  /\ p \in {"diagnose.attempt", "diagnose.plan"} => incident = "Diagnosing"
  /\ p \in {"diagnose.enqueue", "repair.start"} => incident = "Planning"
  /\ p \in {"repair.propose", "repair.enqueue", "build.start", "build.repair"} =>
       incident = "Repairing"
  /\ p \in {"build.test", "build.followup", "build.again", "build.reread", "build.halt",
            "build.pull", "build.save", "preview.start"} => incident = "Testing"
  /\ p \in {"preview.create", "preview.save", "preview.verify"} =>
       incident = "PreviewDeploying"
  /\ p \in {"preview.enqueue", "verify.check", "verify.decide", "verify.allow",
            "verify.require", "verify.block"} => incident = "VerifyingPreview"
  /\ p \in {"production.promote", "production.move"} => incident = "ProductionDeploying"
  /\ p = "production.enqueue" => incident = "VerifyingProduction"
  /\ p \in {"build.pause", "preview.pause", "production.pause", "escalate.move"} =>
       incident = s

\* What an active worker may rely on.
At(w) ==
  /\ Standing(pc[w], work[w].state)
  /\ IF Running(w)
     THEN /\ Timely(lease[w].job)
          /\ pc[w] \notin {"diagnose.plan", "build.again", "build.repair"} =>
               Current(lease[w].job)
     ELSE incident \notin Quiet /\ (incident \in Late => Enqueued(Production))
  /\ pc[w] \in {"diagnose.plan", "diagnose.enqueue", "build.again", "build.repair"} =>
       work[w].n = attempt.current /\ attempt.current # 0
  /\ pc[w] \in {"verify.decide", "verify.allow", "verify.require", "verify.block"} =>
       Number(w) \in verified

Token ==
  /\ Serial
  /\ \A w \in Workers : Active(w) => At(w)
  /\ \A j \in Jobs : Ready(j) => Timely(j) /\ Current(j)

\* A worker at a point of a handler is active, except where it is about to enqueue the
\* promotion.
LEMMA HandlersAreActive ==
  ASSUME Basic, NEW w \in Workers, HandlerStep(w)
  PROVE  /\ Active(w) \/ EnqueuePromotion(w)
         /\ lease' = lease /\ Running(w)
<1>0. Stays(w)
  BY HandlerBasic
<1>1. PICK points \in HandlerPoints : StaysIn(w, points)
  BY <1>0 DEF Stays
<1>2. pc[w] \in points /\ lease' = lease
  BY <1>1 DEF StaysIn
<1>3. pc[w] \notin {"idle", "ok"} /\ Running(w)
  BY <1>2, Inside, WhichKind DEF Outer, Ends
<1>4. pc[w] = "verify.enqueue" => EnqueuePromotion(w)
  BY DEF HandlerStep, ReadWork, Kind, Promote, StartLanding, Choose, Transition, EnqueueStep,
     Goto, Read, Diagnosis, CollectContext, StartDiagnosis, CreateAttempt, PlanRepair,
     EnqueueFirstRepair, EnqueueRepair, StartRepair, ProposeRepair, EnqueueBuild, Build,
     PauseRepair, StartTesting, TestRepair, FollowUp, RepairAgain, EnqueueNextRepair,
     RereadWork, HaltBuild, OpenRepairPullRequest, SavePullRequest, EnqueuePreview, Preview,
     StartPreview, CreatePreview, SavePreview, StartVerifying, EnqueueVerify, CheckPreview,
     DecideOnPreview, AllowPromotion, HoldPromotion
<1> QED BY <1>2, <1>3, <1>4 DEF Active

\* A step that adds neither an active worker nor a ready job, and changes nothing they
\* rely on.
LEMMA TokenStays ==
  ASSUME Basic, Token, [Next]_vars,
         UNCHANGED <<incident, chosen, stale>>, attempt'.current = attempt.current,
         verified \subseteq verified',
         \A v \in Workers : Active(v)' =>
           Active(v) /\ pc'[v] = pc[v] /\ work'[v] = work[v] /\ lease'[v] = lease[v],
         \A j \in Jobs : Ready(j)' => Ready(j)
  PROVE  Token'
<1>1. Serial'
  BY DEF Token, Serial, Alone, Only
<1>2. ASSUME NEW w \in Workers, Active(w)' PROVE At(w)'
  <2>1. At(w) /\ pc'[w] = pc[w] /\ work'[w] = work[w] /\ lease'[w] = lease[w]
    BY <1>2 DEF Token
  <2>2. Production \in Jobs
    BY DEF Production, Jobs
  <2>3. Enqueued(Production) => Enqueued(Production)'
    BY <2>2, EnqueuedGrows
  <2> QED BY <2>1, <2>3 DEF At, Running, Number, Timely, Current, Standing
<1>3. ASSUME NEW j \in Jobs, Ready(j)' PROVE Timely(j)' /\ Current(j)'
  BY <1>3 DEF Token, Timely, Current
<1> QED BY <1>1, <1>2, <1>3 DEF Token

\* A step of the one active worker.
LEMMA TokenMoves ==
  ASSUME Token, NEW w \in Workers, Active(w), Moved(w, pc[w], pc'[w]),
         \A j \in Jobs : Ready(j)' => Ready(j),
         Active(w)' => At(w)'
  PROVE  Token'
<1>1. \A v \in Workers \ {w} : ~Active(v)'
  BY DEF Token, Serial, Alone, Moved, Elsewhere, Active
<1>2. \A j \in Jobs : ~Ready(j)'
  BY DEF Token, Serial, Alone
<1> QED BY <1>1, <1>2 DEF Token, Serial, Alone, Only

\* A step that makes the one active worker's place, or nobody's, that of a job.
LEMMA TokenPasses ==
  ASSUME NEW k \in Jobs, \A v \in Workers : ~Active(v)',
         \A j \in Jobs : Ready(j)' => j = k,
         Ready(k)' => Timely(k)' /\ Current(k)'
  PROVE  Token'
  BY DEF Token, Serial, Alone, Only

-------------------------------------------------------------------------------
(* What the rows and the history say of each other.                        *)

\* Attempts are numbered in order, and the current one is the last, made since the resume.
Fresh ==
  /\ attempt.current # 0 => attempt.current = attempt.made /\ attempt.made > stale
  /\ stale <= attempt.made /\ chosen <= attempt.made

\* Somebody is about to enqueue the promotion for the first time: nothing else is going on,
\* and it is the current attempt's.
Held ==
  ~Enqueued(Production) =>
    /\ approval = "enqueue" => incident = "ProductionDeploying" /\ Still
    /\ \A w \in Workers : pc[w] = "verify.enqueue" =>
         /\ incident = "ProductionDeploying" /\ Still
         /\ Number(w) = attempt.current

\* What waits for an approval or for its promotion was verified.
Checked ==
  incident \in {"WaitingApproval", "ProductionDeploying"} => attempt.current \in verified

\* What was to be promoted before the last resume is not the current attempt.
Old ==
  Enqueued(Production) /\ incident \notin Late \union {"Paused", "Escalated"} =>
    chosen <= stale

Ledger ==
  /\ Fresh /\ Held /\ Checked /\ Old
  /\ rejected # {} => incident = "Cancelled"
  /\ PromotedWasVerified /\ RejectedIsNotPromoted

\* While a promotion that was not enqueued is due, nothing is going on.
LEMMA NothingYet ==
  ASSUME Basic, Token, incident \in Late, ~Enqueued(Production)
  PROVE  Still
<1>1. ASSUME NEW j \in Jobs, Ready(j) PROVE FALSE
  BY <1>1 DEF Token, Timely, Ready, Enqueued
<1>2. ASSUME NEW w \in Workers, Active(w) PROVE FALSE
  BY <1>2, Numbers DEF Token, At, Timely
<1> QED BY <1>1, <1>2 DEF Still

\* A step beside the active worker and the ready job changes none of this.
LEMMA LedgerRests ==
  ASSUME Basic, Token, Ledger,
         UNCHANGED <<incident, chosen, stale, rejected, promoted>>,
         attempt'.made = attempt.made, attempt'.current = attempt.current,
         verified \subseteq verified',
         Enqueued(Production)' <=> Enqueued(Production),
         approval' = "enqueue" => approval = "enqueue" \/ incident = "ProductionDeploying",
         \A v \in Workers : pc'[v] = "verify.enqueue" =>
           pc[v] = "verify.enqueue" /\ lease'[v] = lease[v],
         \A v \in Workers : Active(v)' => Active(v),
         \A j \in Jobs : Ready(j)' => Ready(j)
  PROVE  Ledger'
<1>1. Fresh' /\ Checked' /\ Old'
  BY DEF Ledger, Fresh, Checked, Old
<1>2. Still => Still'
  BY DEF Still
<1>3. Held'
  BY <1>2, NothingYet DEF Ledger, Held, Late, Number
<1> QED BY <1>1, <1>3 DEF Ledger, PromotedWasVerified, RejectedIsNotPromoted

\* Where an active worker may take the incident without a word to the rows.
Onward ==
  \/ incident' = incident
  \/ incident \notin Late /\ incident' \notin Late \union Quiet
  \/ incident' \in {"Paused", "Escalated"}
  \/ incident = "ProductionDeploying" /\ incident' = "VerifyingProduction"

\* A step of the active worker that leaves the attempts alone.
LEMMA LedgerStays ==
  ASSUME Basic, Token, Ledger, NEW w \in Workers, Active(w), Moved(w, pc[w], pc'[w]),
         UNCHANGED <<chosen, stale, rejected, approval>>, Onward,
         attempt'.made = attempt.made, attempt'.current = attempt.current,
         verified \subseteq verified', promoted' \subseteq verified',
         Enqueued(Production)' <=> Enqueued(Production),
         pc'[w] # "verify.enqueue"
  PROVE  Ledger'
<1>1. At(w) /\ ~Still /\ incident \notin Quiet
  BY DEF Token, Still, At, Timely
<1>2. rejected = {}
  BY <1>1 DEF Ledger, Quiet
<1>3. Held'
  <2>1. ~Enqueued(Production) =>
          approval # "enqueue" /\ \A v \in Workers : pc[v] # "verify.enqueue"
    BY <1>1 DEF Ledger, Held
  <2> QED BY <2>1 DEF Held, Moved, Elsewhere
<1>4. Checked'
  BY <1>1 DEF Ledger, Checked, Onward, Late, Quiet
<1>5. Old'
  BY <1>1 DEF Ledger, Old, Onward, Late, Quiet
<1>6. Fresh'
  BY DEF Ledger, Fresh
<1> QED BY <1>2, <1>3, <1>4, <1>5, <1>6 DEF Ledger, PromotedWasVerified, RejectedIsNotPromoted

-------------------------------------------------------------------------------
(* The active worker's steps.                                              *)

\* An active worker goes on in its handler and may rely on what it could before.
LEMMA AtMoves ==
  ASSUME Basic, Token, NEW w \in Workers, Active(w), Running(w), lease' = lease,
         attempt'.current = attempt.current, UNCHANGED <<chosen, stale>>,
         verified \subseteq verified',
         pc[w] \notin {"diagnose.plan", "build.again", "build.repair"},
         incident' \notin Quiet, incident' \in Late <=> incident \in Late,
         incident' \in Early => incident \in Early,
         Standing(pc[w], work[w].state)',
         pc'[w] \notin {"diagnose.plan", "diagnose.enqueue", "build.again", "build.repair"},
         pc'[w] \in {"verify.decide", "verify.allow", "verify.require", "verify.block"} =>
           Number(w) \in verified'
  PROVE  At(w)'
<1>1. At(w)
  BY DEF Token
<1>2. Running(w)' /\ Number(w)' = Number(w) /\ lease'[w] = lease[w]
  BY DEF Running, Number
<1>3. Timely(lease[w].job)' /\ Current(lease[w].job)'
  BY <1>1 DEF At, Timely, Current
<1> QED BY <1>2, <1>3 DEF At

\* A handler's step that leaves the queue and the attempts alone.
LEMMA Advance ==
  ASSUME Basic, Token, Ledger, NEW w \in Workers, HandlerStep(w), Active(w), job' = job,
         ~CreateAttempt(w), ~FollowUp(w) \/ attempt' = attempt,
         Onward, promoted' \subseteq verified',
         pc'[w] # "verify.enqueue", Active(w)' => At(w)'
  PROVE  Token' /\ Ledger'
<1>1. Moved(w, pc[w], pc'[w])
  BY HandlerBasic DEF Stays, StaysIn
<1>2. /\ UNCHANGED <<chosen, stale, rejected, approval>> /\ verified \subseteq verified'
      /\ attempt'.made = attempt.made /\ attempt'.current = attempt.current
  BY RowsMove DEF Active, EnqueuePromotion
<1>3. \A j \in Jobs : (Ready(j)' => Ready(j)) /\ (Enqueued(j)' <=> Enqueued(j))
  BY DEF Ready, Enqueued
<1>4. Production \in Jobs
  BY DEF Production, Jobs
<1> QED BY <1>1, <1>2, <1>3, <1>4, TokenMoves, LedgerStays

\* A handler's last step: it enqueues the next job.
LEMMA HandsOn ==
  ASSUME Basic, Token, Ledger, NEW w \in Workers, HandlerStep(w), Active(w),
         NEW from, NEW k \in Jobs \ {Production}, EnqueueStep(w, from, k, "ok"),
         promoted' = promoted, attempt' = attempt,
         k[1] \in Kind => /\ incident \notin Late
                          /\ k[1] \in OfAttempt => k[2] = attempt.current
                          /\ incident \in Early => attempt.current = 0
  PROVE  Token' /\ Ledger'
<1>1. Moved(w, pc[w], pc'[w]) /\ pc'[w] = "ok"
  BY HandlerBasic DEF Stays, StaysIn, EnqueueStep, Goto, Read, Basic, TypeOK
<1>2. /\ UNCHANGED <<incident, chosen, stale, rejected, approval>> /\ verified \subseteq verified'
  BY RowsMove DEF Active, EnqueuePromotion, EnqueueStep
<1>3. /\ \A j \in Jobs : Enqueued(j)' <=> Enqueued(j) \/ j = k
      /\ \A j \in Jobs : Ready(j)' => j = k
  BY EnqueueEffect DEF EnqueueStep, Token, Serial, Alone
<1>4. \A v \in Workers : ~Active(v)'
  BY <1>1 DEF Token, Serial, Alone, Moved, Elsewhere, Active
<1>5. Ready(k)' => Timely(k)' /\ Current(k)'
  <2>1. incident \notin Quiet
    BY DEF Token, At, Timely
  <2> QED BY <2>1, <1>2 DEF Ready, Timely, Current
<1>6. Token'
  BY <1>3, <1>4, <1>5, TokenPasses
<1>7. Ledger'
  <2>1. promoted' \subseteq verified'
    BY <1>2 DEF Ledger, PromotedWasVerified
  <2>2. Production \in Jobs
    BY DEF Production, Jobs
  <2> QED BY <1>1, <1>2, <1>3, <2>1, <2>2, LedgerStays DEF Onward
<1> QED BY <1>6, <1>7

\* A compare-and-set of an incident that is where it is expected succeeds.
LEMMA Transits ==
  ASSUME Basic, NEW w \in Workers, NEW from, NEW expected, NEW next, NEW to,
         Transition(w, from, expected, next, to), incident = expected,
         CanTransition(expected, next)
  PROVE  /\ pc[w] = from /\ pc'[w] = to /\ incident' = next
         /\ job' = job /\ lease' = lease
         /\ to \notin Ends => work'[w] = work[w]
  BY DEF Transition, Goto, Read, Basic, TypeOK

\* Reading the incident.
LEMMA ReadTokens ==
  ASSUME Basic, Token, Ledger, NEW w \in Workers, ReadWork(w)
  PROVE  Token' /\ Ledger'
<1>1. HandlerStep(w) /\ Active(w) /\ Running(w) /\ lease' = lease
  BY HandlersAreActive DEF HandlerStep, ReadWork, EnqueuePromotion, Kind
<1>2. pc[w] \in Kind /\ pc'[w] = Entry(w)
  BY ReadStays
<1>3. UNCHANGED <<incident, job, attempt, chosen, stale, verified, promoted>>
  BY DEF ReadWork, rowVars, ghostVars
<1>4. incident \notin Quiet
  BY <1>1 DEF Token, At, Timely
<1>5. \/ pc'[w] \notin {"build.pause", "preview.pause", "production.pause"}
      \/ work'[w].state = incident
  BY <1>2 DEF ReadWork, Read, Basic, TypeOK, Work, Blank, Ends
<1>6. /\ pc'[w] \notin {"escalate.move", "verify.enqueue", "diagnose.plan", "diagnose.enqueue",
                        "build.again", "build.repair", "verify.decide", "verify.allow",
                        "verify.require", "verify.block"}
      /\ Standing(pc'[w], incident)
  BY <1>2 DEF Entry, ContextEntry, DiagnoseEntry, RepairEntry, BuildEntry, PreviewEntry,
     VerifyEntry, ProductionEntry, Kind, Standing
<1>7. Standing(pc[w], work[w].state)'
  BY <1>3, <1>5, <1>6 DEF Standing
<1>8. At(w)'
  <2>1. pc[w] \notin {"diagnose.plan", "build.again", "build.repair"}
    BY <1>2 DEF Kind
  <2> QED BY <1>1, <1>3, <1>4, <1>6, <1>7, <2>1, AtMoves
<1>9. promoted' \subseteq verified'
  BY <1>3 DEF Ledger, PromotedWasVerified
<1>10. ~CreateAttempt(w) /\ ~FollowUp(w)
  BY <1>2 DEF CreateAttempt, FollowUp, Kind
<1> QED BY <1>1, <1>3, <1>6, <1>8, <1>9, <1>10, Advance DEF Onward

\* What a step of an active handler may rely on.
LEMMA Relies ==
  ASSUME Basic, Token, Ledger, NEW w \in Workers, Active(w), Running(w)
  PROVE  /\ Standing(pc[w], work[w].state) /\ At(w)
         /\ incident \notin Quiet /\ rejected = {}
         /\ (incident \in Late) <=> (lease[w].job = Production)
         /\ lease[w].job = <<KindOf(w), Number(w)>>
         /\ pc[w] \notin {"diagnose.plan", "build.again", "build.repair"} =>
              Current(lease[w].job)
         /\ promoted \subseteq verified
<1>1. At(w)
  BY DEF Token
<1> QED BY <1>1, Numbers DEF At, Timely, Ledger, Quiet, PromotedWasVerified

\* The context's and the diagnosis's steps.
LEMMA DiagnosisTokens ==
  ASSUME Basic, Token, Ledger, NEW w \in Workers, Diagnosis(w)
  PROVE  Token' /\ Ledger'
<1>0. HandlerStep(w)
  BY DEF HandlerStep
<1>1. pc[w] # "verify.enqueue"
  BY DEF Diagnosis, CollectContext, StartDiagnosis, CreateAttempt, PlanRepair,
     EnqueueFirstRepair, EnqueueRepair, StartRepair, ProposeRepair, EnqueueBuild, Transition,
     EnqueueStep, Goto, Read
<1>2. Active(w) /\ Running(w) /\ lease' = lease
  BY <1>0, <1>1, HandlersAreActive DEF EnqueuePromotion
<1>3. /\ Standing(pc[w], work[w].state) /\ At(w)
      /\ incident \notin Quiet
      /\ (incident \in Late) <=> (lease[w].job = Production)
      /\ lease[w].job = <<KindOf(w), Number(w)>>
      /\ pc[w] \notin {"diagnose.plan", "build.again", "build.repair"} =>
           Current(lease[w].job)
      /\ promoted \subseteq verified
  BY <1>2, Relies
<1>4. /\ pc[w] \in ContextPoints => KindOf(w) = "context"
      /\ pc[w] \in DiagnosePoints => KindOf(w) = "diagnose"
      /\ pc[w] \in RepairPoints => KindOf(w) = "repair" /\ Number(w) \in Made
                                   /\ Subject(w) = Number(w)
  BY SubjectOf DEF Basic, Agreement, Agrees
<1>m. UNCHANGED <<chosen, stale, promoted, rejected, approval>> /\ verified \subseteq verified'
  BY <1>0, <1>1, RowsMove DEF EnqueuePromotion, Promote, Choose, Goto, Read, Diagnosis,
     CollectContext, StartDiagnosis, CreateAttempt, PlanRepair, EnqueueFirstRepair,
     EnqueueRepair, StartRepair, ProposeRepair, EnqueueBuild, Transition, EnqueueStep
<1>5. ASSUME NEW from, NEW expected, NEW next, NEW to,
             Transition(w, from, expected, next, to), incident = expected,
             <<from, expected, next, to>> \in
               {<<"context.collect", "Open", "CollectingContext", "context.enqueue">>,
                <<"diagnose.start", "CollectingContext", "Diagnosing", "diagnose.attempt">>,
                <<"diagnose.plan", "Diagnosing", "Planning", "diagnose.enqueue">>,
                <<"repair.start", "Planning", "Repairing", "repair.propose">>},
             Plainly
      PROVE  Token' /\ Ledger'
  <2>1. /\ pc[w] = from /\ pc'[w] = to /\ incident' = next /\ job' = job /\ work'[w] = work[w]
    BY <1>5, Transits DEF CanTransition, Moves, Ends
  <2>2. attempt' = attempt
    BY <1>5 DEF Plainly, rowVars
  <2>3. At(w)'
    <3>1. CASE from # "diagnose.plan"
      BY <1>2, <1>3, <1>5, <1>m, <2>1, <2>2, <3>1, AtMoves DEF Standing, Quiet, Late, Early
    <3>2. CASE from = "diagnose.plan"
      <4>1. KindOf(w) = "diagnose" /\ lease[w].job # Production
        BY <1>3, <1>4, <2>1, <3>2 DEF DiagnosePoints, Production
      <4>2. lease[w].job[1] = "diagnose"
        BY <1>3, <4>1
      <4> QED BY <1>2, <1>3, <1>5, <1>m, <2>1, <2>2, <3>2, <4>1, <4>2
           DEF At, Timely, Current, Standing, Running, Quiet, Late, Early, OfAttempt
    <3> QED BY <3>1, <3>2
  <2>4. Onward
    BY <1>5, <2>1 DEF Onward, Late, Quiet
  <2>5. ~CreateAttempt(w) /\ ~FollowUp(w)
    BY <1>5, <2>1 DEF CreateAttempt, FollowUp
  <2> QED BY <1>0, <1>2, <1>3, <1>5, <1>m, <2>1, <2>2, <2>3, <2>4, <2>5, Advance
<1>6. CASE CollectContext(w) \/ StartDiagnosis(w) \/ PlanRepair(w) \/ StartRepair(w)
  <2>1. CASE EnqueueStep(w, "context.enqueue", <<"diagnose", 0>>, "ok") /\ Plainly
    <3>1. pc[w] = "context.enqueue" /\ attempt' = attempt
      BY <2>1 DEF EnqueueStep, Goto, Read, Plainly, rowVars
    <3>2. <<"diagnose", 0>> \in Jobs \ {Production}
      BY DeploymentAssumption DEF Jobs, Production
    <3>3. incident = "CollectingContext" /\ attempt.current = 0
      BY <1>3, <3>1 DEF Standing, Current, Early
    <3> QED BY <1>0, <1>2, <1>m, <2>1, <3>1, <3>2, <3>3, HandsOn DEF Late, OfAttempt
  <2>2. CASE Transition(w, "context.collect", "Open", "CollectingContext", "context.enqueue")
             /\ Plainly
    <3>1. incident = "Open"
      BY <1>3, <2>2 DEF Standing, Transition, Goto, Read
    <3> QED BY <1>5, <2>2, <3>1
  <2>3. CASE StartDiagnosis(w)
    <3>1. incident = "CollectingContext"
      BY <1>3, <2>3 DEF StartDiagnosis, Standing, Transition, Goto, Read
    <3> QED BY <1>5, <2>3, <3>1 DEF StartDiagnosis
  <2>4. CASE PlanRepair(w)
    <3>1. incident = "Diagnosing"
      BY <1>3, <2>4 DEF PlanRepair, Standing, Transition, Goto, Read
    <3> QED BY <1>5, <2>4, <3>1 DEF PlanRepair
  <2>5. CASE StartRepair(w)
    <3>1. incident = "Planning"
      BY <1>3, <2>5 DEF StartRepair, Standing, Transition, Goto, Read
    <3> QED BY <1>5, <2>5, <3>1 DEF StartRepair
  <2> QED BY <1>6, <2>1, <2>2, <2>3, <2>4, <2>5 DEF CollectContext
<1>7. CASE CreateAttempt(w)
  <2>1. pc[w] = "diagnose.attempt" /\ UNCHANGED <<incident, job>>
    BY <1>7 DEF CreateAttempt
  <2>2. incident = "Diagnosing" /\ attempt.current = 0
    BY <1>3, <2>1 DEF Standing, Current, Early
  <2>3. PICK r \in Risks :
          /\ attempt.made + 1 \in Made
          /\ attempt' = [attempt EXCEPT !.made = attempt.made + 1, !.current = attempt.made + 1]
          /\ Read(w, "diagnose.attempt", "diagnose.plan",
                  [Blank EXCEPT !.n = attempt.made + 1, !.risk = r])
    BY <1>7, <2>2 DEF CreateAttempt
  <2>4. attempt'.made = attempt.made + 1 /\ attempt'.current = attempt.made + 1
        /\ attempt.made \in Nat /\ stale \in Nat /\ chosen \in Nat
    BY <2>3, DeploymentAssumption DEF Basic, TypeOK, Made
  <2>5. pc'[w] = "diagnose.plan" /\ work'[w].n = attempt.made + 1
    BY <2>3, DeploymentAssumption DEF Read, Ends, Basic, TypeOK, Work, Blank, ActionRisk
  <2>6. Moved(w, pc[w], pc'[w])
    BY <1>0, HandlerBasic DEF Stays, StaysIn
  <2>7. At(w)'
    BY <1>2, <1>3, <1>m, <2>1, <2>2, <2>4, <2>5
       DEF At, Timely, Standing, Running, Quiet, Late
  <2>8. \A j \in Jobs : (Ready(j)' => Ready(j)) /\ (Enqueued(j)' <=> Enqueued(j))
    BY <2>1 DEF Ready, Enqueued
  <2>9. Token'
    BY <1>2, <2>6, <2>7, <2>8, TokenMoves
  <2>10. Fresh'
    BY <1>m, <2>4 DEF Ledger, Fresh
  <2>11. Held'
    <3>1. ~Still /\ Production \in Jobs
      BY <1>2 DEF Still, Production, Jobs
    <3> QED BY <1>m, <2>5, <2>6, <2>8, <3>1 DEF Ledger, Held, Moved, Elsewhere
  <2>12. Checked' /\ Old'
    <3>1. Production \in Jobs
      BY DEF Production, Jobs
    <3> QED BY <1>m, <2>1, <2>2, <2>8, <3>1 DEF Ledger, Checked, Old
  <2> QED BY <1>2, <1>3, <1>m, <2>1, <2>9, <2>10, <2>11, <2>12, Relies
         DEF Ledger, PromotedWasVerified, RejectedIsNotPromoted
<1>8. CASE EnqueueFirstRepair(w)
  <2>1. pc[w] = "diagnose.enqueue" /\ attempt' = attempt
        /\ EnqueueStep(w, "diagnose.enqueue", <<"repair", work[w].n>>, "ok")
    BY <1>8 DEF EnqueueFirstRepair, EnqueueRepair
  <2>2. work[w].n = attempt.current /\ attempt.current \in Made /\ incident = "Planning"
    BY <1>3, <2>1 DEF At, Standing, Basic, TypeOK
  <2>3. <<"repair", work[w].n>> \in Jobs \ {Production}
    BY <2>2 DEF Jobs, Production
  <2> QED BY <1>0, <1>2, <1>m, <2>1, <2>2, <2>3, HandsOn DEF Late, Early
<1>9. CASE ProposeRepair(w)
  <2>1. pc[w] = "repair.propose" /\ job' = job /\ incident' = incident
        /\ (Goto(w, "repair.propose", "escalate") \/ Goto(w, "repair.propose", "repair.enqueue"))
        /\ attempt'.current = attempt.current
    BY <1>9 DEF ProposeRepair, Choose, Basic, TypeOK
  <2>2. incident = "Repairing"
    BY <1>3, <2>1 DEF Standing
  <2>3. pc'[w] \in {"escalate", "repair.enqueue"}
    BY <2>1 DEF Goto, Read, Basic, TypeOK
  <2>4. At(w)'
    BY <1>2, <1>3, <1>m, <2>1, <2>2, <2>3, AtMoves DEF Standing
  <2>5. ~CreateAttempt(w) /\ ~FollowUp(w)
    BY <2>1 DEF CreateAttempt, FollowUp
  <2> QED BY <1>0, <1>2, <1>3, <1>m, <2>1, <2>3, <2>4, <2>5, Advance DEF Onward
<1>10. CASE EnqueueBuild(w)
  <2>1. pc[w] = "repair.enqueue" /\ attempt' = attempt
        /\ EnqueueStep(w, "repair.enqueue", <<"build", Subject(w)>>, "ok")
    BY <1>10 DEF EnqueueBuild, Plainly, rowVars
  <2>2. /\ Number(w) \in Made /\ Subject(w) = Number(w) /\ KindOf(w) = "repair"
        /\ lease[w].job = <<"repair", Number(w)>>
    BY <1>3, <1>4, <2>1 DEF RepairPoints
  <2>3. Current(lease[w].job) /\ incident = "Repairing"
    BY <1>3, <2>1 DEF Standing
  <2>4. Number(w) = attempt.current
    BY <2>2, <2>3 DEF Current, OfAttempt
  <2>5. <<"build", Subject(w)>> \in Jobs \ {Production}
    BY <2>2 DEF Jobs, Production
  <2> QED BY <1>0, <1>2, <1>m, <2>1, <2>2, <2>3, <2>4, <2>5, HandsOn DEF Late, Early
<1> QED BY <1>6, <1>7, <1>8, <1>9, <1>10 DEF Diagnosis

\* The build's steps.
LEMMA BuildTokens ==
  ASSUME Basic, Token, Ledger, NEW w \in Workers, Build(w)
  PROVE  Token' /\ Ledger'
<1>0. HandlerStep(w)
  BY DEF HandlerStep
<1>1. pc[w] # "verify.enqueue" /\ ~CreateAttempt(w) /\ ~Promote(w)
  BY DEF Build, PauseRepair, StartTesting, TestRepair, FollowUp, RepairAgain,
     EnqueueNextRepair, EnqueueRepair, RereadWork, HaltBuild, OpenRepairPullRequest,
     SavePullRequest, EnqueuePreview, CreateAttempt, Promote, Transition, EnqueueStep, Choose,
     Goto, Read
<1>2. Active(w) /\ Running(w) /\ lease' = lease
  BY <1>0, <1>1, HandlersAreActive DEF EnqueuePromotion
<1>3. /\ Standing(pc[w], work[w].state) /\ At(w)
      /\ incident \notin Quiet
      /\ (incident \in Late) <=> (lease[w].job = Production)
      /\ lease[w].job = <<KindOf(w), Number(w)>>
      /\ pc[w] \notin {"diagnose.plan", "build.again", "build.repair"} =>
           Current(lease[w].job)
      /\ promoted \subseteq verified
  BY <1>2, Relies
<1>4. /\ pc[w] \in BuildPoints =>
           KindOf(w) = "build" /\ Number(w) \in Made /\ Subject(w) = Number(w)
      /\ pc[w] \in BuildPoints /\ pc[w] \notin {"build.again", "build.repair"} =>
           Number(w) = attempt.current
  BY <1>3, SubjectOf DEF Basic, Agreement, Agrees, Current, OfAttempt, BuildPoints
<1>m. UNCHANGED <<chosen, stale, promoted, rejected, approval>> /\ verified \subseteq verified'
  BY <1>0, <1>1, RowsMove DEF EnqueuePromotion
<1>5. ASSUME NEW from, NEW to, Choose(w, from, to), attempt'.current = attempt.current,
             ~FollowUp(w),
             \/ from = "build.test" /\ to \in {"err", "escalate", "build.followup", "build.reread"}
             \/ from = "build.reread" /\ to \in {"build.halt", "build.pull"}
             \/ from = "build.pull" /\ to = "build.save"
             \/ from = "build.save" /\ to = "build.preview"
      PROVE  Token' /\ Ledger'
  <2>1. pc[w] = from /\ pc'[w] = to /\ incident' = incident /\ job' = job
    BY <1>5 DEF Choose, Goto, Read, Basic, TypeOK
  <2>2. incident = "Testing"
    BY <1>3, <1>5, <2>1 DEF Standing
  <2>3. At(w)'
    BY <1>2, <1>3, <1>5, <1>m, <2>1, <2>2, AtMoves DEF Standing
  <2> QED BY <1>0, <1>1, <1>2, <1>3, <1>5, <1>m, <2>1, <2>3, Advance DEF Onward
<1>6. CASE PauseRepair(w)
  <2>1. PICK from \in {"build.pause", "preview.pause", "production.pause"} :
          Transition(w, from, work[w].state, "Paused", "ok")
    BY <1>6 DEF PauseRepair
  <2>2. incident = work[w].state
    BY <1>3, <2>1 DEF Standing, Transition, Goto, Read
  <2>3. pc[w] = from /\ pc'[w] = "ok" /\ incident' = "Paused" /\ job' = job
    <3>1. CanTransition(work[w].state, "Paused")
      BY DEF CanTransition, AlwaysReachable
    <3> QED BY <2>1, <2>2, <3>1, Transits
  <2>4. ~FollowUp(w)
    BY <2>3 DEF FollowUp
  <2>5. ~Active(w)'
    BY <2>3 DEF Active
  <2> QED BY <1>0, <1>1, <1>2, <1>3, <1>m, <2>3, <2>4, <2>5, Advance DEF Onward
<1>7. CASE StartTesting(w)
  <2>1. Transition(w, "build.start", "Repairing", "Testing", "build.test") /\ attempt' = attempt
    BY <1>7 DEF StartTesting, Plainly, rowVars
  <2>2. incident = "Repairing"
    BY <1>3, <2>1 DEF Standing, Transition, Goto, Read
  <2>3. pc[w] = "build.start" /\ pc'[w] = "build.test" /\ incident' = "Testing" /\ job' = job
    BY <2>1, <2>2, Transits DEF CanTransition, Moves
  <2>4. At(w)'
    BY <1>2, <1>3, <1>m, <2>1, <2>2, <2>3, AtMoves DEF Standing, Quiet, Late, Early
  <2> QED BY <1>0, <1>1, <1>2, <1>3, <1>m, <2>1, <2>2, <2>3, <2>4, Advance DEF Onward, Late,
     Quiet
<1>8. CASE HaltBuild(w)
  <2>1. Transition(w, "build.halt", "Testing", "Paused", "ok") /\ attempt' = attempt
    BY <1>8 DEF HaltBuild, Plainly, rowVars
  <2>2. incident = "Testing"
    BY <1>3, <2>1 DEF Standing, Transition, Goto, Read
  <2>3. pc[w] = "build.halt" /\ pc'[w] = "ok" /\ incident' = "Paused" /\ job' = job
    BY <2>1, <2>2, Transits DEF CanTransition, AlwaysReachable
  <2>4. ~Active(w)'
    BY <2>3 DEF Active
  <2> QED BY <1>0, <1>1, <1>2, <1>3, <1>m, <2>1, <2>3, <2>4, Advance DEF Onward
<1>9. CASE TestRepair(w) \/ RereadWork(w) \/ OpenRepairPullRequest(w) \/ SavePullRequest(w)
  <2>1. attempt'.current = attempt.current /\ ~FollowUp(w)
    BY <1>9 DEF TestRepair, RereadWork, OpenRepairPullRequest, SavePullRequest, Plainly,
       rowVars,
       FollowUp, Choose, Goto, Read, Basic, TypeOK
  <2>2. CASE TestRepair(w)
    BY <2>1, <2>2, <1>5 DEF TestRepair
  <2>3. CASE RereadWork(w)
    BY <2>1, <2>3, <1>5 DEF RereadWork
  <2>4. CASE OpenRepairPullRequest(w)
    BY <2>1, <2>4, <1>5 DEF OpenRepairPullRequest
  <2>5. CASE SavePullRequest(w)
    BY <2>1, <2>5, <1>5 DEF SavePullRequest
  <2> QED BY <1>9, <2>2, <2>3, <2>4, <2>5
<1>10. CASE FollowUp(w)
  <2>1. pc[w] = "build.followup" /\ UNCHANGED <<incident, job>>
    BY <1>10 DEF FollowUp
  <2>2. incident = "Testing" /\ Number(w) = attempt.current /\ Subject(w) = Number(w)
    BY <1>3, <1>4, <2>1 DEF Standing, BuildPoints
  <2>3. CASE Subject(w) >= MaxRepair
    <3>1. attempt' = attempt /\ pc'[w] = "escalate"
      BY <1>10, <2>3 DEF FollowUp, Goto, Read, Basic, TypeOK
    <3>2. At(w)'
      BY <1>2, <1>3, <1>m, <2>1, <3>1, AtMoves DEF Standing
    <3> QED BY <1>0, <1>1, <1>2, <1>3, <1>m, <2>1, <3>1, <3>2, Advance DEF Onward
  <2>4. CASE ~(Subject(w) >= MaxRepair)
    <3>1. /\ attempt.made + 1 \in Made
          /\ attempt' = [attempt EXCEPT !.made = attempt.made + 1, !.current = attempt.made + 1]
          /\ Read(w, "build.followup", "build.again", [Blank EXCEPT !.n = attempt.made + 1])
      BY <1>10, <2>4 DEF FollowUp
    <3>2. attempt'.made = attempt.made + 1 /\ attempt'.current = attempt.made + 1
          /\ attempt.made \in Nat /\ stale \in Nat /\ chosen \in Nat
      BY <3>1, DeploymentAssumption DEF Basic, TypeOK, Made
    <3>3. pc'[w] = "build.again" /\ work'[w].n = attempt.made + 1
      BY <3>1 DEF Read, Ends, Basic, TypeOK, Work, Blank
    <3>4. Moved(w, pc[w], pc'[w])
      BY <1>0, HandlerBasic DEF Stays, StaysIn
    <3>5. At(w)'
      BY <1>2, <1>3, <1>m, <2>1, <2>2, <3>2, <3>3
         DEF At, Timely, Standing, Running, Quiet, Late
    <3>6. \A j \in Jobs : (Ready(j)' => Ready(j)) /\ (Enqueued(j)' <=> Enqueued(j))
      BY <2>1 DEF Ready, Enqueued
    <3>7. Token'
      BY <1>2, <3>4, <3>5, <3>6, TokenMoves
    <3>8. Fresh'
      BY <1>m, <3>2 DEF Ledger, Fresh
    <3>p. ~Still /\ Production \in Jobs
      BY <1>2 DEF Still, Production, Jobs
    <3>9. Held'
      BY <1>m, <3>3, <3>4, <3>6, <3>p DEF Ledger, Held, Moved, Elsewhere
    <3>10. Checked' /\ Old'
      BY <1>m, <2>1, <2>2, <3>6, <3>p DEF Ledger, Checked, Old
    <3> QED BY <1>2, <1>3, <1>m, <2>1, <3>7, <3>8, <3>9, <3>10, Relies
           DEF Ledger, PromotedWasVerified, RejectedIsNotPromoted
  <2> QED BY <2>3, <2>4
<1>11. CASE RepairAgain(w)
  <2>1. Transition(w, "build.again", "Testing", "Repairing", "build.repair") /\ attempt' = attempt
    BY <1>11 DEF RepairAgain, Plainly, rowVars
  <2>2. incident = "Testing"
    BY <1>3, <2>1 DEF Standing, Transition, Goto, Read
  <2>3. pc[w] = "build.again" /\ pc'[w] = "build.repair" /\ incident' = "Repairing" /\ job' = job
        /\ work'[w] = work[w]
    BY <2>1, <2>2, Transits DEF CanTransition, Moves, Ends
  <2>4. KindOf(w) = "build"
    BY <1>4, <2>3 DEF BuildPoints
  <2>5. lease[w].job # Production
    BY <1>3, <2>4 DEF Production
  <2>6. At(w)'
    BY <1>2, <1>3, <1>m, <2>1, <2>2, <2>3, <2>5
       DEF At, Timely, Standing, Running, Quiet, Late
  <2> QED BY <1>0, <1>1, <1>2, <1>3, <1>m, <2>1, <2>2, <2>3, <2>6, Advance DEF Onward, Late,
     Quiet
<1>12. CASE EnqueueNextRepair(w)
  <2>1. pc[w] = "build.repair" /\ attempt' = attempt
        /\ EnqueueStep(w, "build.repair", <<"repair", work[w].n>>, "ok")
    BY <1>12 DEF EnqueueNextRepair, EnqueueRepair
  <2>2. work[w].n = attempt.current /\ attempt.current \in Made /\ incident = "Repairing"
    BY <1>3, <2>1 DEF At, Standing, Basic, TypeOK
  <2>3. <<"repair", work[w].n>> \in Jobs \ {Production}
    BY <2>2 DEF Jobs, Production
  <2> QED BY <1>0, <1>2, <1>m, <2>1, <2>2, <2>3, HandsOn DEF Late, Early
<1>13. CASE EnqueuePreview(w)
  <2>1. pc[w] = "build.preview" /\ attempt' = attempt
        /\ EnqueueStep(w, "build.preview", <<"preview", Subject(w)>>, "ok")
    BY <1>13 DEF EnqueuePreview, Plainly, rowVars
  <2>2. Number(w) \in Made /\ Subject(w) = Number(w) /\ KindOf(w) = "build"
        /\ Number(w) = attempt.current
    BY <1>4, <2>1 DEF BuildPoints
  <2>3. lease[w].job # Production /\ Current(lease[w].job)
    BY <1>3, <2>1, <2>2 DEF Production
  <2>4. incident \notin Late /\ (incident \in Early => attempt.current = 0)
    BY <1>3, <2>3 DEF Current
  <2>5. <<"preview", Subject(w)>> \in Jobs \ {Production}
    BY <2>2 DEF Jobs, Production
  <2> QED BY <1>0, <1>2, <1>m, <2>1, <2>2, <2>4, <2>5, HandsOn
<1> QED BY <1>6, <1>7, <1>8, <1>9, <1>10, <1>11, <1>12, <1>13 DEF Build

\* The preview's and the verification's steps.
LEMMA PreviewTokens ==
  ASSUME Basic, Token, Ledger, NEW w \in Workers, Preview(w), ~EnqueuePromotion(w)
  PROVE  Token' /\ Ledger'
<1>0. HandlerStep(w)
  BY DEF HandlerStep
<1>1. ~CreateAttempt(w) /\ ~FollowUp(w) /\ ~Promote(w)
  BY DEF Preview, StartPreview, CreatePreview, SavePreview, StartVerifying, EnqueueVerify,
     CheckPreview, DecideOnPreview, AllowPromotion, HoldPromotion, EnqueuePromotion,
     CreateAttempt, FollowUp, Promote, Transition, EnqueueStep, Choose, Goto, Read
<1>2. Active(w) /\ Running(w) /\ lease' = lease
  BY <1>0, HandlersAreActive
<1>3. /\ Standing(pc[w], work[w].state) /\ At(w)
      /\ incident \notin Quiet
      /\ (incident \in Late) <=> (lease[w].job = Production)
      /\ lease[w].job = <<KindOf(w), Number(w)>>
      /\ pc[w] \notin {"diagnose.plan", "build.again", "build.repair"} =>
           Current(lease[w].job)
      /\ promoted \subseteq verified
  BY <1>2, Relies
<1>4. /\ pc[w] \in PreviewPoints => KindOf(w) = "preview"
      /\ pc[w] \in VerifyPoints => KindOf(w) = "verify"
      /\ pc[w] \in PreviewPoints \union VerifyPoints =>
           Number(w) \in Made /\ Subject(w) = Number(w) /\ Number(w) = attempt.current
  BY <1>3, SubjectOf DEF Basic, Agreement, Agrees, Current, OfAttempt, PreviewPoints,
     VerifyPoints
<1>m. /\ UNCHANGED <<chosen, stale, promoted, rejected, approval>> /\ verified \subseteq verified'
      /\ attempt'.made = attempt.made /\ attempt'.current = attempt.current
  BY <1>0, <1>1, RowsMove
<1>5. ASSUME NEW from, NEW to, Choose(w, from, to),
             \/ from = "preview.create" /\ to \in {"err", "preview.save", "preview.verify"}
             \/ from = "preview.save" /\ to = "preview.verify"
             \/ from = "verify.check" /\ to = "err"
             \/ from = "verify.check" /\ to = "verify.decide" /\ Number(w) \in verified'
             \/ from = "verify.decide"
                /\ to \in {"verify.allow", "verify.require", "verify.block"}
      PROVE  Token' /\ Ledger'
  <2>1. pc[w] = from /\ pc'[w] = to /\ incident' = incident /\ job' = job
    BY <1>5 DEF Choose, Goto, Read, Basic, TypeOK
  <2>2. /\ from \in {"preview.create", "preview.save"} => incident = "PreviewDeploying"
        /\ from \in {"verify.check", "verify.decide"} => incident = "VerifyingPreview"
        /\ from = "verify.decide" => Number(w) \in verified
    BY <1>3, <2>1 DEF Standing, At
  <2>3. Standing(pc[w], work[w].state)'
    BY <1>5, <2>1, <2>2 DEF Standing
  <2>4. At(w)'
    BY <1>2, <1>3, <1>5, <1>m, <2>1, <2>2, <2>3, AtMoves
  <2> QED BY <1>0, <1>1, <1>2, <1>3, <1>5, <1>m, <2>1, <2>4, Advance DEF Onward
<1>6. CASE CreatePreview(w) \/ SavePreview(w) \/ CheckPreview(w) \/ DecideOnPreview(w)
  <2>1. CASE CreatePreview(w)
    BY <2>1, <1>5 DEF CreatePreview
  <2>2. CASE SavePreview(w)
    BY <2>2, <1>5 DEF SavePreview
  <2>3. CASE CheckPreview(w)
    <3>1. Subject(w) = Number(w)
      BY <2>3, <1>4 DEF CheckPreview, VerifyPoints
    <3> QED BY <2>3, <3>1, <1>5 DEF CheckPreview
  <2>4. CASE DecideOnPreview(w)
    <3>1. \E to \in {"verify.allow", "verify.require", "verify.block"} :
            Choose(w, "verify.decide", to)
      BY <2>4 DEF DecideOnPreview, Verdict, Decide
    <3> QED BY <3>1, <1>5
  <2> QED BY <1>6, <2>1, <2>2, <2>3, <2>4
<1>7. CASE StartPreview(w)
  <2>1. Transition(w, "preview.start", "Testing", "PreviewDeploying", "preview.create")
    BY <1>7 DEF StartPreview
  <2>2. incident = "Testing"
    BY <1>3, <2>1 DEF Standing, Transition, Goto, Read
  <2>3. pc[w] = "preview.start" /\ pc'[w] = "preview.create" /\ incident' = "PreviewDeploying"
        /\ job' = job
    BY <2>1, <2>2, Transits DEF CanTransition, Moves
  <2>4. At(w)'
    BY <1>2, <1>3, <1>m, <2>2, <2>3, AtMoves DEF Standing, Quiet, Late, Early
  <2> QED BY <1>0, <1>1, <1>2, <1>3, <1>m, <2>2, <2>3, <2>4, Advance DEF Onward, Late, Quiet
<1>8. CASE StartVerifying(w)
  <2>1. Transition(w, "preview.verify", "PreviewDeploying", "VerifyingPreview",
                   "preview.enqueue")
    BY <1>8 DEF StartVerifying
  <2>2. incident = "PreviewDeploying"
    BY <1>3, <2>1 DEF Standing, Transition, Goto, Read
  <2>3. pc[w] = "preview.verify" /\ pc'[w] = "preview.enqueue" /\ incident' = "VerifyingPreview"
        /\ job' = job
    BY <2>1, <2>2, Transits DEF CanTransition, Moves
  <2>4. At(w)'
    BY <1>2, <1>3, <1>m, <2>2, <2>3, AtMoves DEF Standing, Quiet, Late, Early
  <2> QED BY <1>0, <1>1, <1>2, <1>3, <1>m, <2>2, <2>3, <2>4, Advance DEF Onward, Late, Quiet
<1>9. CASE EnqueueVerify(w)
  <2>1. pc[w] = "preview.enqueue" /\ attempt' = attempt
        /\ EnqueueStep(w, "preview.enqueue", <<"verify", Subject(w)>>, "ok")
    BY <1>9 DEF EnqueueVerify, Plainly, rowVars
  <2>2. Number(w) \in Made /\ Subject(w) = Number(w) /\ Number(w) = attempt.current
    BY <1>4, <2>1 DEF PreviewPoints
  <2>3. incident = "VerifyingPreview"
    BY <1>3, <2>1 DEF Standing
  <2>4. <<"verify", Subject(w)>> \in Jobs \ {Production}
    BY <2>2 DEF Jobs, Production
  <2> QED BY <1>0, <1>2, <1>m, <2>1, <2>2, <2>3, <2>4, HandsOn DEF Late, Early
\* The verdict: the incident waits, is paused, or is on its way.
<1>10. ASSUME NEW next \in {"WaitingApproval", "Paused", "ProductionDeploying"}, NEW to,
              NEW from \in {"verify.allow", "verify.require", "verify.block"},
              Transition(w, from, "VerifyingPreview", next, to),
              to = "ok" \/ (to = "verify.enqueue" /\ next = "ProductionDeploying")
      PROVE  Token' /\ Ledger'
  <2>1. pc[w] = from
    BY <1>10 DEF Transition, Goto, Read
  <2>2. incident = "VerifyingPreview" /\ Number(w) \in verified /\ Number(w) = attempt.current
    BY <1>3, <1>4, <2>1 DEF Standing, At, VerifyPoints
  <2>3. pc'[w] = to /\ incident' = next /\ job' = job
    BY <1>10, <2>2, Transits DEF CanTransition, Moves, AlwaysReachable
  <2>4. Moved(w, pc[w], pc'[w]) /\ ~Active(w)'
    BY <1>0, <1>10, <2>3, HandlerBasic DEF Stays, StaysIn, Active
  <2>5. Production \in Jobs
        /\ \A j \in Jobs : (Ready(j)' <=> Ready(j)) /\ (Enqueued(j)' <=> Enqueued(j))
    BY <2>3 DEF Ready, Enqueued, Production, Jobs
  <2>6. Token'
    BY <1>2, <2>4, <2>5, TokenMoves
  <2>7. Still' /\ ~Still
    BY <1>2, <2>4, <2>5 DEF Still, Token, Serial, Alone, Moved, Elsewhere, Active
  <2>8. Held'
    BY <1>2, <1>10, <1>m, <2>2, <2>3, <2>4, <2>5, <2>7
       DEF Ledger, Held, Moved, Elsewhere, Number
  <2>9. Checked'
    BY <1>m, <2>2 DEF Checked
  <2>10. Old'
    BY <1>10, <1>m, <2>2, <2>3, <2>5 DEF Ledger, Old, Late
  <2>11. rejected' = {}
    BY <1>m, <2>2 DEF Ledger
  <2> QED BY <1>3, <1>m, <2>6, <2>8, <2>9, <2>10, <2>11
         DEF Ledger, Fresh, PromotedWasVerified, RejectedIsNotPromoted
<1>11. CASE AllowPromotion(w) \/ HoldPromotion(w)
  BY <1>10, <1>11 DEF AllowPromotion, HoldPromotion
<1> QED BY <1>6, <1>7, <1>8, <1>9, <1>11 DEF Preview

\* The promotion, and the handover to Landing.  What is promoted was verified since the last
\* resume.
LEMMA PromotionTokens ==
  ASSUME Basic, Token, Ledger, NEW w \in Workers, Promote(w) \/ StartLanding(w)
  PROVE  /\ Token' /\ Ledger'
         /\ \A a \in promoted' \ promoted : a > stale
<1>0. HandlerStep(w) /\ ~EnqueuePromotion(w) /\ ~CreateAttempt(w) /\ ~FollowUp(w)
  BY DEF HandlerStep, Promote, StartLanding, EnqueuePromotion, CreateAttempt, FollowUp,
     Transition, EnqueueStep, Choose, Goto, Read
<1>2. Active(w) /\ Running(w) /\ lease' = lease
  BY <1>0, HandlersAreActive
<1>3. /\ Standing(pc[w], work[w].state) /\ At(w) /\ promoted \subseteq verified
      /\ incident \notin Quiet
  BY <1>2, Relies
<1>4. pc[w] \in ProductionPoints =>
        Subject(w) = chosen /\ lease[w].job = Production /\ chosen \in verified /\ chosen > stale
  <2>1. pc[w] \in ProductionPoints => Subject(w) = chosen /\ lease[w].job = Production
    BY SubjectOf
  <2>2. Timely(lease[w].job)
    BY <1>2, <1>3 DEF At
  <2> QED BY <2>1, <2>2 DEF Timely
<1>m. UNCHANGED <<chosen, stale, rejected, approval>> /\ verified \subseteq verified'
      /\ attempt'.made = attempt.made /\ attempt'.current = attempt.current
  BY <1>0, RowsMove
<1>5. CASE Promote(w)
  <2>1. /\ pc[w] = "production.promote" /\ promoted' = promoted \union {Subject(w)}
        /\ Choose(w, "production.promote", "production.move")
    BY <1>5 DEF Promote
  <2>2. pc'[w] = "production.move" /\ incident' = incident /\ job' = job
    BY <2>1 DEF Choose, Goto, Read, Basic, TypeOK
  <2>3. Subject(w) = chosen /\ chosen \in verified /\ chosen > stale
    BY <1>4, <2>1 DEF ProductionPoints
  <2>4. At(w)'
    BY <1>2, <1>3, <1>m, <2>1, <2>2, AtMoves DEF Standing
  <2> QED BY <1>0, <1>2, <1>3, <1>m, <2>1, <2>2, <2>3, <2>4, Advance DEF Onward
<1>6. CASE StartLanding(w)
  <2>0. promoted' = promoted /\ attempt' = attempt
    BY <1>6 DEF StartLanding, Plainly, rowVars, ghostVars
  <2>1. CASE Transition(w, "production.move", "ProductionDeploying", "VerifyingProduction",
                        "production.enqueue")
    <3>1. incident = "ProductionDeploying"
      BY <1>3, <2>1 DEF Standing, Transition, Goto, Read
    <3>2. pc[w] = "production.move" /\ pc'[w] = "production.enqueue"
          /\ incident' = "VerifyingProduction" /\ job' = job
      BY <2>1, <3>1, Transits DEF CanTransition, Moves
    <3>3. At(w)'
      BY <1>2, <1>3, <1>m, <3>1, <3>2, AtMoves DEF Standing, Quiet, Late, Early
    <3> QED BY <1>0, <1>2, <1>3, <1>m, <2>0, <3>1, <3>2, <3>3, Advance DEF Onward
  <2>2. CASE EnqueueStep(w, "production.enqueue", <<"landing", 0>>, "ok")
    <3>1. <<"landing", 0>> \in Jobs \ {Production} /\ "landing" \notin Kind
      BY DEF Jobs, Production, Kind
    <3> QED BY <1>0, <1>2, <2>0, <2>2, <3>1, HandsOn
  <2> QED BY <1>6, <2>0, <2>1, <2>2 DEF StartLanding
<1> QED BY <1>5, <1>6

\* A step of a worker that is not active, and does not become so, adds nothing.
LEMMA IdleStep ==
  ASSUME Basic, Token, Ledger, [Next]_vars, NEW w \in Workers, Moved(w, pc[w], pc'[w]),
         UNCHANGED <<incident, chosen, stale, rejected, promoted, approval>>,
         attempt' = attempt, verified' = verified,
         pc'[w] \in {"idle", "ok"},
         Enqueued(Production)' <=> Enqueued(Production),
         \A j \in Jobs : Ready(j)' => Ready(j)
  PROVE  Token' /\ Ledger'
<1>1. \A v \in Workers \ {w} : pc'[v] = pc[v] /\ work'[v] = work[v] /\ lease'[v] = lease[v]
  BY DEF Moved, Elsewhere
<1>2. \A v \in Workers : Active(v)' =>
        Active(v) /\ pc'[v] = pc[v] /\ work'[v] = work[v] /\ lease'[v] = lease[v]
  BY <1>1 DEF Active
<1>3. \A v \in Workers : pc'[v] = "verify.enqueue" =>
        pc[v] = "verify.enqueue" /\ lease'[v] = lease[v]
  BY <1>1
<1>4. Token'
  BY <1>2, TokenStays
<1>5. Ledger'
  BY <1>2, <1>3, LedgerRests
<1> QED BY <1>4, <1>5

\* Enqueueing the promotion of the current attempt, when nothing else is going on.
LEMMA PromotionEnqueued ==
  ASSUME Basic, Token, Ledger, [Next]_vars, incident = "ProductionDeploying", Still,
         ~Enqueued(Production),
         job' = Q!Enqueued({Production}), chosen' = attempt.current,
         UNCHANGED <<incident, attempt, stale, rejected, promoted, verified>>,
         \A v \in Workers : ~Active(v)'
  PROVE  Token' /\ Ledger'
<1>1. Production \in Jobs
  BY DEF Production, Jobs
<1>2. Enqueued(Production)' /\ \A j \in Jobs : Ready(j)' => j = Production
  BY <1>1, EnqueueEffect DEF Still
<1>3. attempt.current \in verified /\ attempt.current \in Made /\ attempt.current \in Nat
      /\ attempt.current # 0
  BY DEF Ledger, Checked, Basic, TypeOK, Made
<1>4. Timely(Production)' /\ Current(Production)'
  <2>1. attempt.current > stale
    BY <1>3 DEF Ledger, Fresh
  <2> QED BY <1>3, <2>1 DEF Timely, Current, Production, Quiet, Late, Early, OfAttempt
<1>5. Token'
  BY <1>1, <1>2, <1>4, TokenPasses
<1>6. Fresh'
  BY <1>3 DEF Ledger, Fresh, Basic, TypeOK
<1>7. Held' /\ Checked' /\ Old'
  BY <1>2 DEF Held, Old, Late, Ledger, Checked
<1> QED BY <1>5, <1>6, <1>7 DEF Ledger, PromotedWasVerified, RejectedIsNotPromoted

\* The handler whose verdict was to go on enqueues the promotion, unless it is there.
LEMMA EnqueuePromotionTokens ==
  ASSUME Basic, Token, Ledger, [Next]_vars, NEW w \in Workers, EnqueuePromotion(w)
  PROVE  Token' /\ Ledger'
<1>0. Production \in Jobs
  BY DEF Production, Jobs
<1>1. /\ job' = Q!Enqueued({Production}) /\ chosen' = ChosenBy(Subject(w))
      /\ pc[w] = "verify.enqueue" /\ Goto(w, "verify.enqueue", "ok")
      /\ UNCHANGED <<incident, lease, attempt, stale, rejected, promoted, verified, approval>>
  BY DEF EnqueuePromotion, EnqueueStep, Production, ghostVars
<1>2. Moved(w, pc[w], pc'[w]) /\ pc'[w] = "ok"
  BY <1>1, HandlerBasic DEF HandlerStep, Preview, Stays, StaysIn, Goto, Read, Basic, TypeOK
<1>3. Subject(w) = Number(w)
  BY <1>1, SubjectOf DEF VerifyPoints
<1>4. CASE Enqueued(Production)
  <2>1. chosen' = chosen
    BY <1>1, <1>4 DEF ChosenBy, Enqueued, Production
  <2>2. (Enqueued(Production)' <=> Enqueued(Production)) /\ \A j \in Jobs : Ready(j)' => Ready(j)
    BY <1>0, <1>1, <1>4, EnqueueEffect
  <2> QED BY <1>1, <1>2, <2>1, <2>2, IdleStep
<1>5. CASE ~Enqueued(Production)
  <2>1. incident = "ProductionDeploying" /\ Still /\ Number(w) = attempt.current
    BY <1>1, <1>5 DEF Ledger, Held
  <2>2. chosen' = attempt.current
    BY <1>1, <1>3, <1>5, <2>1 DEF ChosenBy, Enqueued, Production
  <2>3. \A v \in Workers : ~Active(v)'
    BY <1>2, <2>1 DEF Still, Moved, Elsewhere, Active
  <2> QED BY <1>1, <1>5, <2>1, <2>2, <2>3, PromotionEnqueued
<1> QED BY <1>4, <1>5

\* A claim makes a ready job's place a worker's.
LEMMA ClaimTokens ==
  ASSUME Basic, Token, Ledger, [Next]_vars, NEW w \in Workers, ClaimNext(w), Plainly
  PROVE  Token' /\ Ledger'
<1>1. PICK k \in Jobs : k[1] \in Kind /\ Q!ClaimNext(w, k) /\ Goto(w, "idle", k[1])
  BY DEF ClaimNext, Handled
<1>2. Moved(w, pc[w], pc'[w]) /\ pc[w] = "idle" /\ pc'[w] = k[1]
  <2>1. Loop(w)
    BY DEF Loop, LoopStep
  <2> QED BY <1>1, <2>1, LoopBasic DEF Goto, Read, Basic, TypeOK
<1>3. lease' = [lease EXCEPT ![w] = [job |-> k, attempt |-> job[k].attempt + 1]]
  BY <1>1 DEF Q!ClaimNext
<1>4. lease'[w].job = k
  BY <1>3 DEF Basic, TypeOK, Q!TypeOK
<1>5. Ready(k)
  BY <1>1 DEF Ready, Q!ClaimNext, Q!Claimable
<1>6. Only(k) /\ Timely(k) /\ Current(k)
  BY <1>5 DEF Token, Serial
<1>7. job' = [job EXCEPT ![k].status = "RUNNING", ![k].by = NameOf[w], ![k].attempt = @ + 1]
  BY <1>1 DEF Q!ClaimNext
<1>8. \A j \in Jobs : ~Ready(j)' /\ (Enqueued(j)' <=> Enqueued(j))
  <2>1. job'[k].status = "RUNNING" /\ \A j \in Jobs \ {k} : job'[j] = job[j]
    BY <1>7 DEF Basic, TypeOK, Q!TypeOK
  <2> QED BY <1>5, <1>6, <2>1 DEF Only, Ready, Enqueued
<1>9. UNCHANGED <<incident, attempt, chosen, stale, verified, promoted, rejected, approval>>
  BY DEF ClaimNext, Plainly, rowVars, ghostVars
<1>10. Running(w)'
  <2>1. Loop(w) /\ pc'[w] \in Kind
    BY <1>1, <1>2 DEF Loop, LoopStep
  <2>2. Agrees(w)'
    BY <2>1, LoopBasic
  <2> QED BY <2>1, <2>2 DEF Agrees, Kind
<1>11. At(w)'
  BY <1>1, <1>2, <1>4, <1>6, <1>9, <1>10 DEF At, Timely, Current, Standing, Kind
<1>12. \A v \in Workers \ {w} : ~Active(v)' /\ pc'[v] = pc[v] /\ lease'[v] = lease[v]
  BY <1>2, <1>6 DEF Only, Moved, Elsewhere, Active
<1>13. Token'
  BY <1>8, <1>11, <1>12 DEF Token, Serial, Alone, Only
<1>14. ~Still /\ Production \in Jobs /\ pc'[w] # "verify.enqueue"
  BY <1>1, <1>2, <1>5 DEF Still, Production, Jobs, Kind
<1>15. Held'
  BY <1>8, <1>9, <1>12, <1>14 DEF Ledger, Held
<1> QED BY <1>8, <1>9, <1>13, <1>14, <1>15
     DEF Ledger, Fresh, Checked, Old, PromotedWasVerified, RejectedIsNotPromoted

\* A failed job is tried again by whoever claims it, or its worker escalates.
LEMMA FailTokens ==
  ASSUME Basic, Token, Ledger, NEW w \in Workers, FailJob(w), Plainly
  PROVE  Token' /\ Ledger'
<1>0. Loop(w)
  BY DEF Loop, LoopStep
<1>1. Moved(w, pc[w], pc'[w]) /\ pc[w] = "err" /\ Active(w)
  BY <1>0, LoopBasic DEF FailJob, Goto, Read, Active
<1>r. Running(w)
  BY <1>1 DEF Basic, Agreement, Agrees
<1>k. PICK k \in Jobs : k = lease[w].job
  BY <1>r, Numbers
<1>2. Running(w) /\ k \in Jobs /\ job[k].status = "RUNNING" /\ Enqueued(k)
  BY <1>r, <1>k, Numbers
<1>3. /\ incident \notin Quiet /\ Timely(k) /\ Current(k)
      /\ promoted \subseteq verified
  BY <1>1, <1>2, <1>k, Relies DEF At
<1>4. UNCHANGED <<incident, attempt, chosen, stale, verified, promoted, rejected, approval>>
  BY DEF FailJob, Plainly, rowVars, ghostVars
<1>5. /\ \A j \in Jobs : Enqueued(j)' <=> Enqueued(j)
      /\ \A j \in Jobs : Ready(j)' => j = k
  BY <1>0, <1>1, <1>k, LoopEffect DEF Token, Serial, Alone
<1>p. Production \in Jobs
  BY DEF Production, Jobs
<1>6. pc'[w] = (IF Q!LastAttempt(w) THEN "escalate" ELSE "idle")
  BY DEF FailJob, Goto, Read, Basic, TypeOK
<1>7. lease' = [lease EXCEPT ![w] = Q!NoLease]
      /\ job' = (IF Q!Holds(w)
                 THEN [job EXCEPT ![k].status = IF Q!LastAttempt(w) THEN "FAILED" ELSE "RETRY",
                                  ![k].by = Q!NoName]
                 ELSE job)
  BY <1>k DEF FailJob, Q!FailJob, Q!Release
<1>8. CASE Q!LastAttempt(w)
  <2>1. ~Ready(k)'
    BY <1>2, <1>7, <1>8 DEF Ready, Basic, TypeOK, Q!TypeOK
  <2>2. ~Running(w)'
    BY <1>7 DEF Running, Basic, TypeOK, Q!TypeOK
  <2>3. At(w)'
    BY <1>2, <1>3, <1>4, <1>5, <1>6, <1>8, <1>p, <2>2 DEF At, Standing, Timely
  <2>4. Token'
    BY <1>1, <1>5, <2>1, <2>3, TokenMoves
  <2> QED BY <1>1, <1>3, <1>4, <1>5, <1>6, <1>8, <1>p, <2>4, LedgerStays DEF Onward
<1>9. CASE ~Q!LastAttempt(w)
  <2>1. \A v \in Workers : ~Active(v)'
    BY <1>1, <1>6, <1>9 DEF Token, Serial, Alone, Moved, Elsewhere, Active
  <2>2. Timely(k)' /\ Current(k)'
    BY <1>3, <1>4 DEF Timely, Current
  <2>3. Token'
    BY <1>2, <1>5, <2>1, <2>2, TokenPasses
  <2> QED BY <1>1, <1>3, <1>4, <1>5, <1>6, <1>9, <1>p, <2>3, LedgerStays DEF Onward
<1> QED BY <1>8, <1>9

\* The other steps of the loop, and faults.
LEMMA LoopTokens ==
  ASSUME Orderly, Basic, Token, Ledger, [Next]_vars, NEW w \in Workers,
         Loop(w) \/ Broken(w)
  PROVE  Token' /\ Ledger'
<1>1. Moved(w, pc[w], pc'[w])
  BY LoopBasic
<1>2. /\ UNCHANGED <<attempt, chosen, stale, verified, promoted, rejected, approval>>
      /\ Plainly
  BY DEF Loop, Broken, Plainly, rowVars, ghostVars
<1>3. Production \in Jobs
  BY DEF Production, Jobs
<1>4. /\ \A j \in Jobs : Enqueued(j)' <=> Enqueued(j)
      /\ ~FailJob(w) => \A j \in Jobs : Ready(j)' => Ready(j)
  BY LoopEffect
<1>5. promoted' \subseteq verified'
  BY <1>2 DEF Ledger, PromotedWasVerified
<1>g. ASSUME Active(w), ~FailJob(w), Active(w)' => At(w)', Onward, pc'[w] # "verify.enqueue"
      PROVE  Token' /\ Ledger'
  BY <1>g, <1>1, <1>2, <1>3, <1>4, <1>5, TokenMoves, LedgerStays
<1>6. CASE ClaimNext(w)
  BY <1>2, <1>6, ClaimTokens
<1>7. CASE FailJob(w)
  BY <1>2, <1>7, FailTokens
<1>8. CASE CompleteJob(w)
  <2>1. pc'[w] = "idle" /\ incident' = incident /\ ~FailJob(w)
    BY <1>8 DEF CompleteJob, FailJob, Goto, Read, Basic, TypeOK
  <2> QED BY <1>1, <1>2, <1>3, <1>4, <2>1, IdleStep
<1>9. CASE Crash(w)
  <2>1. pc'[w] = "idle" /\ incident' = incident /\ job' = job
    BY <1>9 DEF Crash, Goto, Read, Basic, TypeOK
  <2>2. \A j \in Jobs : Ready(j)' => Ready(j)
    BY <2>1 DEF Ready
  <2>3. CASE Active(w)
    <3>1. ~Active(w)'
      BY <2>1 DEF Active
    <3> QED BY <1>1, <1>2, <1>3, <1>4, <1>5, <2>1, <2>2, <2>3, <3>1, TokenMoves, LedgerStays
         DEF Onward
  <2>4. CASE ~Active(w)
    BY <1>1, <1>2, <1>3, <1>4, <2>1, <2>2, IdleStep
  <2> QED BY <2>3, <2>4
<1>10. CASE StepFails(w)
  <2>1. /\ Running(w) /\ <<KindOf(w), pc[w]>> \in Fragile /\ pc'[w] = "err"
        /\ UNCHANGED <<incident, job, lease>>
    BY <1>10 DEF StepFails, Goto, Read, Basic, TypeOK
  <2>2. KindOf(w) \in Kind /\ pc[w] # "idle" /\ Agrees(w)
    BY <2>1 DEF Basic, Agreement, Agrees
  <2>3. <<KindOf(w), pc[w]>> \notin HandOver
    BY <2>1 DEF Orderly
  <2>4. pc[w] \notin {"ok", "verify.enqueue", "build.again", "build.repair", "diagnose.plan"}
    BY <2>2, <2>3 DEF HandOver, Agrees, VerifyPoints, BuildPoints, DiagnosePoints
  <2>5. Active(w)
    BY <2>2, <2>4 DEF Active
  <2>6. incident \notin Quiet
    BY <2>1, <2>5, Relies
  <2>7. At(w)'
    BY <1>2, <2>1, <2>4, <2>5, <2>6, AtMoves DEF Standing
  <2>8. \A j \in Jobs : Ready(j)' => Ready(j)
    BY <2>1 DEF Ready
  <2> QED BY <1>1, <1>2, <1>3, <1>4, <1>5, <2>1, <2>5, <2>7, <2>8, TokenMoves, LedgerStays
       DEF Onward
<1>11. CASE EscalateRead(w)
  <2>1. /\ pc[w] = "escalate" /\ UNCHANGED <<incident, job, lease>>
        /\ pc'[w] \in {"ok", "idle", "escalate.move"}
        /\ pc'[w] = "escalate.move" => work'[w].state = incident
    BY <1>11 DEF EscalateRead, Read, Return, Ends, Basic, TypeOK, Work, Blank
  <2>2. Active(w) /\ At(w)
    BY <2>1 DEF Active, Token
  <2>3. Active(w)' => At(w)'
    BY <1>2, <1>3, <1>4, <2>1, <2>2 DEF At, Active, Standing, Running, Timely, Current
  <2>4. ~FailJob(w)
    BY <2>1 DEF FailJob, Goto, Read
  <2> QED BY <1>g, <2>1, <2>2, <2>3, <2>4 DEF Onward
<1>12. CASE EscalateMove(w)
  <2>1. /\ pc[w] = "escalate.move"
        /\ Transition(w, "escalate.move", work[w].state, "Escalated", Return(w))
    BY <1>12 DEF EscalateMove
  <2>2. Active(w) /\ At(w)
    BY <2>1 DEF Active, Token
  <2>3. incident = work[w].state
    BY <2>1, <2>2 DEF At, Standing
  <2>4. incident' = "Escalated" /\ pc'[w] = Return(w)
    <3>1. CanTransition(work[w].state, "Escalated")
      BY DEF CanTransition, AlwaysReachable
    <3> QED BY <2>1, <2>3, <3>1, Transits
  <2>5. pc'[w] \in {"ok", "idle"}
    BY <2>4 DEF Return
  <2>6. ~Active(w)' /\ ~FailJob(w)
    BY <2>1, <2>5 DEF Active, FailJob, Goto, Read
  <2> QED BY <1>g, <2>2, <2>4, <2>5, <2>6 DEF Onward
<1> QED BY <1>6, <1>7, <1>8, <1>9, <1>10, <1>11, <1>12 DEF Loop, Broken, LoopStep, Fault

\* The administrator's calls.
LEMMA AdministratorTokens ==
  ASSUME Basic, Grants, Token, Ledger, [Next]_vars, Administrator
  PROVE  Token' /\ Ledger'
<1>0. Production \in Jobs
  BY DEF Production, Jobs
<1>1. UNCHANGED <<lease, pc, work>> /\ verified' = verified
  BY DEF Administrator, Approve, ApproveMove, ApproveEnqueue, ApprovalLost, Reject,
     SetSafetyMode, Pause, Resume, handlerVars, ghostVars
<1>2. \A v \in Workers : Active(v)' <=> Active(v)
  BY <1>1 DEF Active
<1>g. ASSUME UNCHANGED <<incident, chosen, stale, rejected, promoted, attempt>>,
             Enqueued(Production)' <=> Enqueued(Production),
             \A j \in Jobs : Ready(j)' => Ready(j),
             approval' = "enqueue" => approval = "enqueue" \/ incident = "ProductionDeploying"
      PROVE  Token' /\ Ledger'
  <2>1. Token'
    BY <1>g, <1>1, <1>2, TokenStays
  <2>2. Ledger'
    BY <1>g, <1>1, <1>2, LedgerRests
  <2> QED BY <2>1, <2>2
<1>j. ASSUME job' = job
      PROVE  /\ Enqueued(Production)' <=> Enqueued(Production)
             /\ \A j \in Jobs : Ready(j)' <=> Ready(j)
  BY <1>j DEF Enqueued, Ready
<1>q. incident \in Quiet => Still
  BY DEF Token, At, Timely, Still
<1>3. CASE Approve \/ ApprovalLost \/ SetSafetyMode \/ Pause
  <2>1. /\ UNCHANGED <<incident, chosen, stale, rejected, promoted, attempt, job>>
        /\ approval' = "enqueue" => approval = "enqueue" \/ incident = "ProductionDeploying"
    BY <1>3 DEF Approve, ApprovalLost, SetSafetyMode, Pause, handlerVars, rowVars, ghostVars
  <2> QED BY <1>g, <1>j, <2>1
<1>4. CASE ApproveMove
  <2>1. UNCHANGED <<chosen, stale, rejected, promoted, attempt, job>>
    BY <1>4 DEF ApproveMove, rowVars, ghostVars
  <2>2. CASE incident = "WaitingApproval"
    <3>1. incident' = "ProductionDeploying" /\ approval' = "enqueue"
      BY <1>4, <2>2 DEF ApproveMove
    <3>2. Still /\ Still'
      BY <1>2, <1>j, <1>q, <2>1, <2>2 DEF Still, Quiet
    <3>3. Token'
      BY <3>2 DEF Still, Token, Serial
    <3>4. Held'
      BY <1>1, <1>j, <2>1, <2>2, <3>1, <3>2 DEF Ledger, Held, Number
    <3>5. Checked' /\ Old'
      BY <1>1, <2>1, <2>2, <3>1 DEF Ledger, Checked, Old, Late
    <3>6. rejected = {}
      BY <2>2 DEF Ledger
    <3> QED BY <1>1, <2>1, <3>3, <3>4, <3>5, <3>6
           DEF Ledger, Fresh, PromotedWasVerified, RejectedIsNotPromoted
  <2>3. CASE incident # "WaitingApproval"
    BY <1>4, <1>g, <1>j, <2>1, <2>3 DEF ApproveMove
  <2> QED BY <2>2, <2>3
<1>5. CASE ApproveEnqueue
  <2>1. UNCHANGED <<incident, stale, rejected, promoted, attempt>> /\ approval' = "none"
        /\ approval = "enqueue"
    BY <1>5 DEF ApproveEnqueue
  <2>2. CASE attempt.current = 0
    BY <1>5, <1>g, <1>j, <2>1, <2>2 DEF ApproveEnqueue
  <2>3. CASE attempt.current # 0
    <3>1. job' = Q!Enqueued({Production}) /\ chosen' = ChosenBy(attempt.current)
      BY <1>5, <2>3 DEF ApproveEnqueue, Production
    <3>2. CASE Enqueued(Production)
      <4>1. chosen' = chosen
        BY <3>1, <3>2 DEF ChosenBy, Enqueued, Production
      <4>2. (Enqueued(Production)' <=> Enqueued(Production))
            /\ \A j \in Jobs : Ready(j)' => Ready(j)
        BY <1>0, <3>1, <3>2, EnqueueEffect
      <4> QED BY <1>g, <2>1, <4>1, <4>2
    <3>3. CASE ~Enqueued(Production)
      <4>1. chosen' = attempt.current
        BY <3>1, <3>3 DEF ChosenBy, Enqueued, Production
      <4>2. incident = "ProductionDeploying" /\ Still
        BY <2>1, <3>3 DEF Ledger, Held
      <4>3. \A v \in Workers : ~Active(v)'
        BY <1>2, <4>2 DEF Still
      <4> QED BY <1>1, <2>1, <3>1, <3>3, <4>1, <4>2, <4>3, PromotionEnqueued
    <3> QED BY <3>2, <3>3
  <2> QED BY <2>2, <2>3
<1>6. CASE Reject
  <2>1. /\ incident = "WaitingApproval" /\ incident' = "Cancelled"
        /\ rejected' = rejected \union ({attempt.current} \ {0})
        /\ UNCHANGED <<job, attempt, chosen, approval, promoted, stale>>
    BY <1>6 DEF Reject, rowVars
  <2>2. Still /\ Still'
    BY <1>2, <1>j, <1>q, <2>1 DEF Still, Quiet
  <2>3. Token'
    BY <2>2 DEF Still, Token, Serial
  <2>4. Fresh' /\ Checked' /\ Old'
    BY <1>1, <1>j, <2>1 DEF Ledger, Fresh, Checked, Old, Late
  <2>5. Held'
    BY <1>1, <1>j, <2>1 DEF Ledger, Held
  <2>6. rejected = {}
    BY <2>1 DEF Ledger
  <2>7. attempt.current # 0 => attempt.current \notin promoted
    <3>1. SUFFICES ASSUME attempt.current # 0, attempt.current \in promoted PROVE FALSE
      OBVIOUS
    <3>2. chosen = attempt.current /\ chosen # 0
      BY <3>1 DEF Grants
    <3>3. chosen <= stale
      BY <2>1, <3>2 DEF Grants, Ledger, Old, Late
    <3> QED BY <3>1, <3>2, <3>3 DEF Ledger, Fresh, Basic, TypeOK, Made
  <2>8. PromotedWasVerified' /\ RejectedIsNotPromoted'
    BY <1>1, <2>1, <2>6, <2>7 DEF Ledger, PromotedWasVerified, RejectedIsNotPromoted
  <2> QED BY <2>1, <2>3, <2>4, <2>5, <2>8 DEF Ledger
<1>7. CASE Resume
  <2>1. UNCHANGED <<chosen, rejected, promoted, approval>>
    BY <1>7 DEF Resume
  <2>2. CASE incident # "Paused"
    BY <1>7, <1>g, <1>j, <2>1, <2>2 DEF Resume
  <2>3. CASE incident = "Paused"
    <3>1. PICK n \in 1..MaxResumes :
            /\ Resumes = 1..(n - 1)
            /\ incident' = "CollectingContext"
            /\ attempt' = [attempt EXCEPT !.current = 0]
            /\ job' = Q!Enqueued({<<"diagnose", n>>})
            /\ stale' = attempt.made
      BY <1>7, <2>3 DEF Resume
    <3> DEFINE k == <<"diagnose", n>>
    <3>2. k \in Jobs /\ k # Production
      BY DeploymentAssumption DEF Jobs, Production
    <3>3. attempt'.current = 0 /\ attempt'.made = attempt.made
      BY <3>1 DEF Basic, TypeOK
    <3>4. /\ \A j \in Jobs : Enqueued(j)' <=> Enqueued(j) \/ j = k
          /\ \A j \in Jobs : Ready(j)' => Ready(j) \/ j = k
      BY <3>1, <3>2, EnqueueEffect
    <3>5. Still
      BY <1>q, <2>3 DEF Quiet
    <3>6. Timely(k)' /\ Current(k)'
      BY <3>1, <3>2, <3>3 DEF Timely, Current, Quiet, Late, Early, OfAttempt
    <3> HIDE DEF k
    <3>7. Token'
      BY <1>2, <3>2, <3>4, <3>5, <3>6, TokenPasses DEF Still
    <3>8. Fresh'
      BY <2>1, <3>1, <3>3 DEF Ledger, Fresh, Basic, TypeOK, Made
    <3>9. Held'
      BY <1>0, <1>1, <2>1, <2>3, <3>2, <3>4 DEF Ledger, Held
    <3>10. Checked'
      BY <3>1 DEF Checked
    <3>11. Old'
      BY <2>1, <3>1 DEF Ledger, Fresh, Old
    <3>12. rejected = {}
      BY <2>3 DEF Ledger
    <3> QED BY <1>1, <2>1, <3>7, <3>8, <3>9, <3>10, <3>11, <3>12
         DEF Ledger, PromotedWasVerified, RejectedIsNotPromoted
  <2> QED BY <2>2, <2>3
<1> QED BY <1>3, <1>4, <1>5, <1>6, <1>7 DEF Administrator

\* Every step keeps the token and the ledger.
LEMMA TokenKept ==
  ASSUME Orderly, Basic, Grants, Token, Ledger, [Next]_vars
  PROVE  Token' /\ Ledger'
<1>1. CASE Administrator
  BY <1>1, AdministratorTokens
<1>2. ASSUME NEW w \in Workers, WorkerStep(w) \/ Broken(w) PROVE Token' /\ Ledger'
  BY <1>2, ReadTokens, DiagnosisTokens, BuildTokens, PreviewTokens, EnqueuePromotionTokens,
     PromotionTokens, LoopTokens DEF WorkerStep
<1>3. CASE UNCHANGED vars
  <2>1. /\ UNCHANGED <<incident, chosen, stale, rejected, promoted, verified, attempt, approval,
                       job, pc, work, lease>>
    BY <1>3 DEF vars, handlerVars, rowVars, ghostVars
  <2>2. /\ \A v \in Workers : Active(v)' => Active(v)
        /\ \A j \in Jobs : Ready(j)' => Ready(j)
        /\ Enqueued(Production)' <=> Enqueued(Production)
    BY <2>1 DEF Active, Ready, Enqueued
  <2>3. Token'
    BY <2>1, <2>2, TokenStays
  <2>4. Ledger'
    BY <2>1, <2>2, LedgerRests
  <2> QED BY <2>3, <2>4
<1> QED BY <1>1, <1>2, <1>3 DEF Next

\* They hold when the incident is opened.
LEMMA TokenInit ==
  ASSUME Init, Basic PROVE Token /\ Ledger
<1>1. \A w \in Workers : ~Active(w) /\ pc[w] # "verify.enqueue"
  BY DEF Init, Active
<1>2. \A j \in Jobs : Ready(j) => j = <<"context", 0>> /\ incident = "Open"
  BY DEF Init, Ready, Q!Absent
<1>3. attempt.current = 0 /\ attempt.made = 0 /\ stale = 0 /\ chosen = 0
      /\ promoted = {} /\ rejected = {} /\ approval = "none"
  BY DEF Init
<1>4. Token
  BY <1>1, <1>2, <1>3 DEF Token, Serial, Alone, Only, Timely, Current, Quiet, Late, OfAttempt,
     Production
<1>5. Ledger
  BY <1>1, <1>3 DEF Init, Ledger, Fresh, Held, Checked, Old, PromotedWasVerified,
     RejectedIsNotPromoted
<1> QED BY <1>4, <1>5

\* The inductive invariant of the theorems about promotion.
Sound == Basic /\ Grants /\ Token /\ Ledger

\* The token and the ledger hold in every reachable state: handlers and retries, crashes,
\* resumes and the administrator's calls never have two of them work on the incident at once.
THEOREM DeploymentSound == ASSUME Orderly PROVE Spec => []Sound
<1>1. Init => Sound
  BY BasicInit, TokenInit DEF Init, Grants, Sound
<1>2. Sound /\ [Next]_vars => Sound'
  BY BasicKept, GrantsKept, TokenKept DEF Sound
<1> QED BY <1>1, <1>2, PTL DEF Spec

\* Only an attempt whose preview was READY and healthy is built for production.
THEOREM DeploymentPromotedWasVerified == ASSUME Orderly PROVE Spec => []PromotedWasVerified
<1>1. Sound => PromotedWasVerified
  BY DEF Sound, Ledger
<1> QED BY <1>1, DeploymentSound, PTL

\* An attempt the administrator rejected is not built for production, before or after a resume.
THEOREM DeploymentRejectedIsNotPromoted ==
  ASSUME Orderly PROVE Spec => []RejectedIsNotPromoted
<1>1. Sound => RejectedIsNotPromoted
  BY DEF Sound, Ledger
<1> QED BY <1>1, DeploymentSound, PTL

\* No attempt made before a resume is built for production after it, though its promotion's
\* job may still be in the queue.
THEOREM DeploymentNoStaleMutation == ASSUME Orderly PROVE Spec => NoStaleMutation
<1>1. ASSUME Sound, [Next]_vars PROVE \A a \in promoted' \ promoted : a > stale
  <2>1. ASSUME NEW w \in Workers, HandlerStep(w)
        PROVE  \A a \in promoted' \ promoted : a > stale
    BY <1>1, <2>1, RowsMove, PromotionTokens DEF Sound
  <2>2. CASE Administrator \/ UNCHANGED vars \/ \E w \in Workers : Loop(w) \/ Broken(w)
    <3>1. promoted' = promoted
      BY <2>2 DEF Administrator, Approve, ApproveMove, ApproveEnqueue, ApprovalLost, Reject,
         SetSafetyMode, Pause, Resume, vars, ghostVars, Loop, Broken, Plainly
    <3> QED BY <3>1
  <2> QED BY <1>1, <2>1, <2>2 DEF Next, WorkerStep, HandlerStep
<1>2. Sound /\ [Next]_vars => [\A a \in promoted' \ promoted : a > stale]_vars
  BY <1>1
<1> QED BY <1>2, DeploymentSound, PTL DEF Spec, NoStaleMutation

-------------------------------------------------------------------------------
(* Automatic repair stops.                                                 *)

\* One attempt is made after the opening and after each resume, and follow-ups stop at
\* the project's limit.
Budget ==
  attempt.made + (IF attempt.current = 0 THEN 1 ELSE 0) <= MaxRepair + Cardinality(Resumes)

\* The number of resumes is a number.
LEMMA ResumesFinite == IsFiniteSet(Resumes) /\ Cardinality(Resumes) \in Nat
<1>1. IsFiniteSet(1..MaxResumes)
  BY FS_Interval, DeploymentAssumption
<1> QED BY <1>1, FS_Subset, FS_CardinalityType DEF Resumes

\* Only a resume enqueues a resume's diagnosis.
LEMMA HandlersDoNotResume ==
  ASSUME Basic, NEW w \in Workers, HandlerStep(w)
  PROVE  Resumes' = Resumes
<1>1. \/ job' = job
      \/ \E j : (j[1] # "diagnose" \/ j[2] = 0) /\ job' = Q!Enqueued({j})
  <2>1. CASE ReadWork(w) \/ Promote(w) \/ StartLanding(w)
    BY <2>1 DEF ReadWork, Promote, StartLanding, Choose, Transition, EnqueueStep
  <2>2. CASE Diagnosis(w)
    BY <2>2 DEF Diagnosis, CollectContext, StartDiagnosis, CreateAttempt, PlanRepair,
       EnqueueFirstRepair, EnqueueRepair, StartRepair, ProposeRepair, EnqueueBuild,
       Choose, Transition, EnqueueStep
  <2>3. CASE Build(w)
    BY <2>3 DEF Build, PauseRepair, StartTesting, TestRepair, FollowUp, RepairAgain,
       EnqueueNextRepair, EnqueueRepair, RereadWork, HaltBuild, OpenRepairPullRequest,
       SavePullRequest, EnqueuePreview, Choose, Transition, EnqueueStep
  <2>4. CASE Preview(w)
    BY <2>4 DEF Preview, StartPreview, CreatePreview, SavePreview, StartVerifying,
       EnqueueVerify, CheckPreview, DecideOnPreview, AllowPromotion, HoldPromotion,
       EnqueuePromotion, Choose, Transition, EnqueueStep
  <2> QED BY <2>1, <2>2, <2>3, <2>4 DEF HandlerStep
<1>2. \A n \in 1..MaxResumes : <<"diagnose", n>> \in Jobs
  BY DeploymentAssumption DEF Jobs
<1>3. ASSUME NEW j, j[1] # "diagnose" \/ j[2] = 0, job' = Q!Enqueued({j})
      PROVE  \A n \in 1..MaxResumes : job'[<<"diagnose", n>>] = job[<<"diagnose", n>>]
  <2>1. ASSUME NEW n \in 1..MaxResumes
        PROVE  job'[<<"diagnose", n>>] = job[<<"diagnose", n>>]
    <3> DEFINE k == <<"diagnose", n>>
    <3>1. k[1] = "diagnose" /\ k[2] = n /\ n # 0
      BY DeploymentAssumption
    <3>2. k \in Jobs
      BY <1>2
    <3>3. k # j
      BY <1>3, <3>1
    <3> HIDE DEF k
    <3>4. job'[k] = job[k]
      BY <1>3, <3>2, <3>3 DEF Q!Enqueued
    <3> QED BY <3>4 DEF k
  <2> QED BY <2>1
<1>4. \A n \in 1..MaxResumes : job'[<<"diagnose", n>>] = job[<<"diagnose", n>>]
  BY <1>1, <1>3
<1> QED BY <1>4 DEF Resumes

\* A resume adds one, and nothing else does.
LEMMA ResumesStay ==
  ASSUME Basic, [Next]_vars, ~(Resume /\ incident = "Paused")
  PROVE  Resumes' = Resumes
<1>0. \A n \in 1..MaxResumes : <<"diagnose", n>> \in Jobs /\ <<"diagnose", n>> # Production
  BY DeploymentAssumption DEF Jobs, Production
<1>1. ASSUME NEW w \in Workers, HandlerStep(w) PROVE Resumes' = Resumes
  BY <1>1, HandlersDoNotResume
<1>2. ASSUME NEW w \in Workers, Loop(w) \/ Broken(w) PROVE Resumes' = Resumes
  BY <1>0, <1>2, LoopEffect DEF Resumes, Enqueued
<1>3. CASE Administrator \/ UNCHANGED vars
  <2>1. job' = job \/ job' = Q!Enqueued({Production})
    BY <1>3 DEF Administrator, Approve, ApproveMove, ApproveEnqueue, ApprovalLost, Reject,
       SetSafetyMode, Pause, Resume, vars, handlerVars, Production
  <2>2. \A n \in 1..MaxResumes : job'[<<"diagnose", n>>] = job[<<"diagnose", n>>]
    BY <1>0, <2>1 DEF Q!Enqueued
  <2> QED BY <2>2 DEF Resumes
<1> QED BY <1>1, <1>2, <1>3 DEF Next, WorkerStep, HandlerStep

LEMMA ResumesGrow ==
  ASSUME Basic, Resume, incident = "Paused"
  PROVE  /\ Cardinality(Resumes') = Cardinality(Resumes) + 1
         /\ attempt'.current = 0 /\ attempt'.made = attempt.made
         /\ incident' = "CollectingContext"
<1>1. PICK n \in 1..MaxResumes :
        /\ Resumes = 1..(n - 1)
        /\ incident' = "CollectingContext"
        /\ attempt' = [attempt EXCEPT !.current = 0]
        /\ job' = Q!Enqueued({<<"diagnose", n>>})
  BY DEF Resume
<1>2. attempt'.current = 0 /\ attempt'.made = attempt.made
  BY <1>1 DEF Basic, TypeOK
<1>3. \A m \in 1..MaxResumes : <<"diagnose", m>> \in Jobs
  BY DeploymentAssumption DEF Jobs
<1>4. \A m \in 1..MaxResumes :
        Enqueued(<<"diagnose", m>>)' <=> Enqueued(<<"diagnose", m>>) \/ m = n
  BY <1>1, <1>3, EnqueueEffect
<1>5. Resumes' = Resumes \union {n}
  BY <1>4 DEF Resumes, Enqueued
<1>6. n \notin Resumes
  BY <1>1, DeploymentAssumption
<1> QED BY <1>1, <1>2, <1>5, <1>6, ResumesFinite, FS_AddElement

\* Every step keeps within the budget: a follow-up is made of the last attempt only, so its
\* number is the number of attempts.
LEMMA BudgetKept ==
  ASSUME Orderly, Sound, Budget, [Next]_vars
  PROVE  Budget'
<1>0. /\ attempt.made \in Nat /\ attempt.current \in Nat
      /\ MaxRepair \in Nat /\ MaxRepair > 0
      /\ Cardinality(Resumes) \in Nat /\ IsFiniteSet(Resumes)
      /\ attempt \in [made : Made \union {0}, current : Made \union {0}, proposed : SUBSET Made,
                      pulled : SUBSET Made, previewed : SUBSET Made]
  BY DeploymentAssumption, ResumesFinite DEF Sound, Basic, TypeOK, Made
<1>g. ASSUME attempt'.made = attempt.made, attempt'.current = attempt.current,
             Resumes' = Resumes
      PROVE  Budget'
  BY <1>g DEF Budget
<1>1. ASSUME NEW w \in Workers, HandlerStep(w) PROVE Budget'
  <2>0. Resumes' = Resumes
    BY <1>1, HandlersDoNotResume DEF Sound
  <2>1. CASE CreateAttempt(w)
    <3>1. CASE attempt.current # 0
      <4>1. attempt' = attempt
        BY <2>1, <3>1 DEF CreateAttempt
      <4> QED BY <4>1, <2>0, <1>g
    <3>2. CASE attempt.current = 0
      <4>1. attempt' = [attempt EXCEPT !.made = attempt.made + 1, !.current = attempt.made + 1]
        BY <2>1, <3>2 DEF CreateAttempt
      <4>2. attempt'.made = attempt.made + 1 /\ attempt'.current = attempt.made + 1
        BY <1>0, <4>1
      <4> QED BY <1>0, <2>0, <3>2, <4>2 DEF Budget
    <3> QED BY <3>1, <3>2
  <2>2. CASE FollowUp(w)
    <3>1. CASE Subject(w) >= MaxRepair
      <4>1. attempt' = attempt
        BY <2>2, <3>1 DEF FollowUp
      <4> QED BY <4>1, <2>0, <1>g
    <3>2. CASE ~(Subject(w) >= MaxRepair)
      <4>1. attempt' = [attempt EXCEPT !.made = attempt.made + 1, !.current = attempt.made + 1]
            /\ pc[w] = "build.followup"
        BY <2>2, <3>2 DEF FollowUp
      <4>2. attempt'.made = attempt.made + 1 /\ attempt'.current = attempt.made + 1
        BY <1>0, <4>1
      <4>3. Subject(w) \in Made /\ Subject(w) = Number(w) /\ Running(w)
            /\ lease[w].job = <<KindOf(w), Number(w)>> /\ KindOf(w) = "build"
        <5>1. pc[w] \in BuildPoints /\ pc[w] \notin {"idle", "escalate", "escalate.move"}
          BY <4>1 DEF BuildPoints
        <5> QED BY <5>1, SubjectOf, Numbers DEF Sound, Basic, Agreement, Agrees
      <4>4. Number(w) = attempt.current
        <5>1. Active(w)
          BY <4>1 DEF Active
        <5>2. Current(lease[w].job)
          BY <4>1, <4>3, <5>1 DEF Sound, Token, At
        <5> QED BY <4>3, <5>2 DEF Current, OfAttempt
      <4>5. attempt.made = Subject(w) /\ Subject(w) \in Nat /\ Subject(w) # 0
        BY <4>3, <4>4, DeploymentAssumption DEF Sound, Ledger, Fresh, Made
      <4> QED BY <1>0, <2>0, <3>2, <4>2, <4>5 DEF Budget
    <3> QED BY <3>1, <3>2
  <2>3. CASE ~CreateAttempt(w) /\ ~FollowUp(w)
    <3>1. attempt'.made = attempt.made /\ attempt'.current = attempt.current
      BY <1>1, <2>3, RowsMove DEF Sound
    <3> QED BY <2>0, <3>1, <1>g
  <2> QED BY <2>1, <2>2, <2>3
<1>2. CASE Resume /\ incident = "Paused"
  BY <1>0, <1>2, ResumesGrow DEF Budget, Sound
<1>3. CASE attempt' = attempt /\ ~(Resume /\ incident = "Paused")
  BY <1>3, <1>g, ResumesStay DEF Sound
<1>4. ASSUME ~(Resume /\ incident = "Paused"),
             Administrator \/ UNCHANGED vars \/ \E w \in Workers : Loop(w) \/ Broken(w)
      PROVE  attempt' = attempt
  BY <1>4 DEF Administrator, Approve, ApproveMove, ApproveEnqueue, ApprovalLost, Reject,
     SetSafetyMode, Pause, Resume, vars, rowVars, Loop, Broken, Plainly
<1> QED BY <1>1, <1>2, <1>3, <1>4 DEF Next, WorkerStep, HandlerStep

\* Automatic repair stops at the limit of the project, and each resume adds one attempt.
THEOREM DeploymentAttemptsBounded == ASSUME Orderly PROVE Spec => []AttemptsBounded
<1>1. Init => Budget
  <2> SUFFICES ASSUME Init PROVE Budget
    OBVIOUS
  <2>1. attempt.made = 0 /\ attempt.current = 0
    BY DEF Init
  <2> QED BY <2>1, ResumesFinite, DeploymentAssumption DEF Budget
<1>2. Sound /\ Budget /\ [Next]_vars => Budget'
  BY BudgetKept
<1>3. Sound /\ Budget => AttemptsBounded
  BY ResumesFinite, DeploymentAssumption DEF Budget, AttemptsBounded, Sound, Basic, TypeOK,
     Made
<1> QED BY <1>1, <1>2, <1>3, DeploymentSound, PTL DEF Spec

-------------------------------------------------------------------------------
(* The diagnosis an attempt was made with is the one its promotion is decided by. *)

Carriers ==
  {"diagnose.plan", "diagnose.enqueue", "build.again", "build.repair", "verify.allow"}

\* What a handler has read of the attempt it will enqueue a repair of, or has decided of
\* the one it is about to allow, is still what the rows say.
Carries(w) ==
  /\ pc[w] \in {"diagnose.plan", "diagnose.enqueue"} =>
       work[w].n \in 1..attempt.made /\ work[w].risk = risk[work[w].n]
  /\ pc[w] \in {"build.again", "build.repair"} =>
       work[w].n \in 1..attempt.made /\ risk[work[w].n] = risk[Number(w)]
  /\ pc[w] = "verify.allow" => risk[Number(w)] = "Low" /\ project.reversible

\* An attempt whose repair was enqueued was made, and its job has the diagnosis of its row.
Asked(n) == n <= attempt.made /\ asked[n] = risk[n]

Diagnosed ==
  /\ \A k \in OfAttempt, n \in Made : Enqueued(<<k, n>>) => Enqueued(<<"repair", n>>)
  /\ \A n \in Made : Enqueued(<<"repair", n>>) => Asked(n)
  /\ \A w \in Workers : Carries(w)
  /\ \A n \in Made : <<"allowed", n>> \in granted =>
       Enqueued(<<"repair", n>>) /\ risk[n] = "Low" /\ project.reversible

\* The jobs of attempts are jobs.
LEMMA AttemptJobs == \A k \in OfAttempt, n \in Made : <<k, n>> \in Jobs
  BY DEF OfAttempt, Jobs

\* The attempt a handler is about was made, and its repair was enqueued.
LEMMA SubjectAsked ==
  ASSUME Basic, Diagnosed, NEW w \in Workers,
         pc[w] \in RepairPoints \union BuildPoints \union PreviewPoints \union VerifyPoints
  PROVE  /\ Number(w) \in Made /\ Subject(w) = Number(w)
         /\ Enqueued(<<"repair", Number(w)>>) /\ Asked(Number(w))
<1>p. /\ RepairPoints \in HandlerPoints /\ BuildPoints \in HandlerPoints
      /\ PreviewPoints \in HandlerPoints /\ VerifyPoints \in HandlerPoints
  BY DEF HandlerPoints
<1>1. Running(w) /\ KindOf(w) \in OfAttempt
  BY <1>p, Inside DEF Basic, Agreement, Agrees, Outer, Ends, OfAttempt
<1>2. Number(w) \in Made /\ Subject(w) = Number(w) /\ Enqueued(<<KindOf(w), Number(w)>>)
  BY <1>1, Numbers, SubjectOf
<1> QED BY <1>1, <1>2 DEF Diagnosed

\* Rows that exist keep their diagnosis.
Rests ==
  /\ \A n \in Made : n <= attempt.made => risk'[n] = risk[n]
  /\ attempt.made <= attempt'.made
  /\ project'.reversible = project.reversible

\* What a handler carries stays true while other workers and the administrator move.
LEMMA CarriesRests ==
  ASSUME Basic, Basic', Diagnosed, Rests, NEW v \in Workers,
         pc'[v] = pc[v], work'[v] = work[v], lease'[v] = lease[v]
  PROVE  Carries(v)'
<1>0. attempt.made \in Nat /\ attempt'.made \in Nat /\ attempt.made <= MaxMade
      /\ attempt'.made <= MaxMade /\ MaxMade \in Nat
  BY DeploymentAssumption DEF Basic, TypeOK, Made
<1>1. Carries(v)
  BY DEF Diagnosed
<1>2. \A n \in 1..attempt.made : n \in 1..attempt'.made /\ risk'[n] = risk[n]
  BY <1>0 DEF Rests, Made
<1>3. pc[v] \in BuildPoints \union VerifyPoints => risk'[Number(v)] = risk[Number(v)]
  BY SubjectAsked DEF Rests, Asked
<1>4. Number(v)' = Number(v)
  BY DEF Number
<1> QED BY <1>1, <1>2, <1>3, <1>4 DEF Carries, Rests, BuildPoints, VerifyPoints

\* A step that enqueues no repair.
LEMMA DiagnosedRests ==
  ASSUME Basic, Basic', Diagnosed, [Next]_vars, Rests, asked' = asked,
         \A k \in OfAttempt, n \in Made : Enqueued(<<k, n>>)' =>
           Enqueued(<<k, n>>) \/ (k # "repair" /\ Enqueued(<<"repair", n>>)),
         \A v \in Workers : Carries(v)',
         \A n \in Made : <<"allowed", n>> \in granted' =>
           \/ <<"allowed", n>> \in granted
           \/ Enqueued(<<"repair", n>>) /\ risk[n] = "Low" /\ project.reversible
  PROVE  Diagnosed'
<1>0. attempt.made \in Nat /\ attempt'.made \in Nat /\ Made \subseteq Nat
  BY DeploymentAssumption DEF Basic, TypeOK, Made
<1>1. \A n \in Made : Asked(n) => Asked(n)'
  BY <1>0 DEF Asked, Rests
<1>2. "repair" \in OfAttempt
  BY DEF OfAttempt
<1>3. \A n \in Made : Enqueued(<<"repair", n>>)' <=> Enqueued(<<"repair", n>>)
  BY <1>2, AttemptJobs, EnqueuedGrows
<1>4. \A k \in OfAttempt, n \in Made : Enqueued(<<k, n>>)' => Enqueued(<<"repair", n>>)'
  BY <1>3 DEF Diagnosed
<1>5. \A n \in Made : Enqueued(<<"repair", n>>)' => Asked(n)'
  BY <1>1, <1>3 DEF Diagnosed
<1>6. \A n \in Made : <<"allowed", n>> \in granted' =>
        Enqueued(<<"repair", n>>)' /\ risk'[n] = "Low" /\ project'.reversible
  BY <1>3 DEF Diagnosed, Rests, Asked
<1> QED BY <1>4, <1>5, <1>6 DEF Diagnosed

\* Which steps lead to where a diagnosis is carried.
LEMMA ComesToCarry ==
  ASSUME Basic, NEW w \in Workers, HandlerStep(w), pc'[w] \in Carriers
  PROVE  CreateAttempt(w) \/ PlanRepair(w) \/ FollowUp(w) \/ RepairAgain(w)
         \/ DecideOnPreview(w)
<1>0. pc \in [Workers -> Point]
  BY DEF Basic, TypeOK
<1> USE DEF Carriers
<1>1. CASE ReadWork(w)
  BY <1>1, ReadStays DEF Entry, ContextEntry, DiagnoseEntry, RepairEntry, BuildEntry,
     PreviewEntry, VerifyEntry, ProductionEntry, Kind
<1>2. CASE Promote(w) \/ StartLanding(w)
  BY <1>0, <1>2 DEF Promote, StartLanding, Transition, Choose, EnqueueStep, Goto, Read, Fail
<1>3. CASE Diagnosis(w)
  BY <1>0, <1>3 DEF Diagnosis, CollectContext, StartDiagnosis, EnqueueFirstRepair,
     EnqueueRepair, StartRepair, ProposeRepair, EnqueueBuild, Transition, Choose,
     EnqueueStep, Goto, Read, Fail
<1>4. CASE Build(w)
  BY <1>0, <1>4 DEF Build, PauseRepair, StartTesting, TestRepair, EnqueueNextRepair,
     EnqueueRepair, RereadWork, HaltBuild, OpenRepairPullRequest, SavePullRequest,
     EnqueuePreview, Transition, Choose, EnqueueStep, Goto, Read, Fail
<1>5. CASE Preview(w)
  BY <1>0, <1>5 DEF Preview, StartPreview, CreatePreview, SavePreview, StartVerifying,
     EnqueueVerify, CheckPreview, AllowPromotion, HoldPromotion, EnqueuePromotion,
     Transition, Choose, EnqueueStep, Goto, Read, Fail
<1> QED BY <1>1, <1>2, <1>3, <1>4, <1>5 DEF HandlerStep

\* Which steps enqueue jobs of an attempt: a repair by its number, any other job for the
\* attempt the handler is about.
LEMMA EnqueuesAttempt ==
  ASSUME Basic, NEW w \in Workers, HandlerStep(w),
         ~EnqueueFirstRepair(w), ~EnqueueNextRepair(w)
  PROVE  \/ job' = job
         \/ job' = Q!Enqueued({<<"diagnose", 0>>})
         \/ job' = Q!Enqueued({Production}) \/ job' = Q!Enqueued({<<"landing", 0>>})
         \/ \E k \in OfAttempt :
              /\ k # "repair" /\ job' = Q!Enqueued({<<k, Subject(w)>>})
              /\ pc[w] \in RepairPoints \union BuildPoints \union PreviewPoints
<1>1. CASE ReadWork(w) \/ Promote(w) \/ StartLanding(w)
  BY <1>1 DEF ReadWork, Promote, StartLanding, Choose, Transition, EnqueueStep
<1>2. CASE Diagnosis(w)
  BY <1>2 DEF Diagnosis, CollectContext, StartDiagnosis, CreateAttempt, PlanRepair,
     StartRepair, ProposeRepair, EnqueueBuild, Choose, Transition, EnqueueStep, OfAttempt,
     RepairPoints
<1>3. CASE Build(w)
  BY <1>3 DEF Build, PauseRepair, StartTesting, TestRepair, FollowUp, RepairAgain,
     RereadWork, HaltBuild, OpenRepairPullRequest, SavePullRequest, EnqueuePreview,
     Choose, Transition, EnqueueStep, OfAttempt, BuildPoints
<1>4. CASE Preview(w)
  BY <1>4 DEF Preview, StartPreview, CreatePreview, SavePreview, StartVerifying,
     EnqueueVerify, CheckPreview, DecideOnPreview, AllowPromotion, HoldPromotion,
     EnqueuePromotion, Choose, Transition, EnqueueStep, OfAttempt, PreviewPoints, Production
<1> QED BY <1>1, <1>2, <1>3, <1>4 DEF HandlerStep

\* A step that enqueues a repair with the diagnosis in the row of its attempt.
LEMMA RepairEnqueued ==
  ASSUME Basic, Basic', Diagnosed, [Next]_vars, NEW w \in Workers, NEW from,
         NEW n \in 1..attempt.made, EnqueueRepair(w, from, n, risk[n]),
         Moved(w, pc[w], pc'[w])
  PROVE  Diagnosed'
<1>0. attempt.made \in Nat /\ Made \subseteq Nat /\ n \in Made
  BY DeploymentAssumption DEF Basic, TypeOK, Made
<1>1. /\ job' = Q!Enqueued({<<"repair", n>>}) /\ pc'[w] = "ok"
      /\ UNCHANGED <<attempt, risk, project, granted>>
  BY DEF EnqueueRepair, EnqueueStep, Goto, Read, ghostVars, Basic, TypeOK
<1>2. asked' = (IF Enqueued(<<"repair", n>>) THEN asked ELSE [asked EXCEPT ![n] = risk[n]])
  BY DEF EnqueueRepair, Enqueued
<1>3. \A k \in OfAttempt, m \in Made :
        Enqueued(<<k, m>>)' <=> Enqueued(<<k, m>>) \/ <<k, m>> = <<"repair", n>>
  <2>1. <<"repair", n>> \in Jobs
    BY <1>0 DEF Jobs
  <2> QED BY <1>1, <2>1, AttemptJobs, EnqueueEffect
<1>4. \A m \in Made : Enqueued(<<"repair", m>>)' <=> Enqueued(<<"repair", m>>) \/ m = n
  BY <1>3 DEF OfAttempt
<1>5. \A k \in OfAttempt, m \in Made : Enqueued(<<k, m>>)' => Enqueued(<<"repair", m>>)'
  BY <1>3, <1>4 DEF Diagnosed
<1>6. ASSUME NEW m \in Made, Enqueued(<<"repair", m>>)' PROVE Asked(m)'
  <2>1. CASE Enqueued(<<"repair", m>>)
    <3>1. asked'[m] = asked[m]
      BY <1>2, <2>1 DEF Basic, TypeOK
    <3> QED BY <1>1, <2>1, <3>1 DEF Diagnosed, Asked
  <2>2. CASE ~Enqueued(<<"repair", m>>)
    <3>1. m = n
      BY <1>4, <1>6, <2>2
    <3>2. asked'[m] = risk[m]
      BY <1>0, <1>2, <2>2, <3>1 DEF Basic, TypeOK
    <3> QED BY <1>0, <1>1, <3>1, <3>2 DEF Asked
  <2> QED BY <2>1, <2>2
<1>7. \A m \in Made : <<"allowed", m>> \in granted' =>
        Enqueued(<<"repair", m>>)' /\ risk'[m] = "Low" /\ project'.reversible
  BY <1>1, <1>4 DEF Diagnosed
<1>8. ASSUME NEW v \in Workers PROVE Carries(v)'
  <2>1. CASE v = w
    BY <1>1, <2>1 DEF Carries
  <2>2. CASE v # w
    <3>1. Rests
      BY <1>0, <1>1 DEF Rests
    <3> QED BY <2>2, <3>1, CarriesRests DEF Moved, Elsewhere
  <2> QED BY <2>1, <2>2
<1> QED BY <1>5, <1>6, <1>7, <1>8 DEF Diagnosed

\* A handler's step that leaves the repairs alone.
LEMMA HandlerRests ==
  ASSUME Basic, Basic', Diagnosed, [Next]_vars, NEW w \in Workers, HandlerStep(w), Rests,
         ~EnqueueFirstRepair(w), ~EnqueueNextRepair(w), Carries(w)',
         granted' = granted \/ (AllowPromotion(w) /\ pc[w] = "verify.allow")
  PROVE  Diagnosed'
<1>0. Moved(w, pc[w], pc'[w]) /\ asked' = asked
  BY HandlerBasic, RowsMove DEF Stays, StaysIn
<1>1. \A v \in Workers : Carries(v)'
  BY <1>0, CarriesRests DEF Moved, Elsewhere
<1>2. \A k \in OfAttempt, n \in Made : Enqueued(<<k, n>>)' =>
           Enqueued(<<k, n>>) \/ (k # "repair" /\ Enqueued(<<"repair", n>>))
  <2>1. CASE job' = job
    BY <2>1 DEF Enqueued
  <2>2. ASSUME NEW j \in Jobs, j[1] \notin OfAttempt, job' = Q!Enqueued({j})
        PROVE  \A k \in OfAttempt, n \in Made : Enqueued(<<k, n>>)' => Enqueued(<<k, n>>)
    <3>1. \A k \in OfAttempt, n \in Made : <<k, n>> # j
      BY <2>2
    <3> QED BY <2>2, <3>1, AttemptJobs, EnqueueEffect
  <2>3. ASSUME NEW k \in OfAttempt \ {"repair"}, job' = Q!Enqueued({<<k, Subject(w)>>}),
               pc[w] \in RepairPoints \union BuildPoints \union PreviewPoints
        PROVE  \A j \in OfAttempt, n \in Made : Enqueued(<<j, n>>)' =>
                 Enqueued(<<j, n>>) \/ (j # "repair" /\ Enqueued(<<"repair", n>>))
    <3>1. Subject(w) \in Made /\ Enqueued(<<"repair", Subject(w)>>)
      BY <2>3, SubjectAsked
    <3> QED BY <2>3, <3>1, AttemptJobs, EnqueueEffect
  <2>4. /\ <<"diagnose", 0>> \in Jobs /\ Production \in Jobs /\ <<"landing", 0>> \in Jobs
        /\ {<<"diagnose", 0>>[1], Production[1], <<"landing", 0>>[1]} \intersect OfAttempt = {}
    BY DeploymentAssumption DEF Jobs, Production, OfAttempt
  <2> QED BY <2>1, <2>2, <2>3, <2>4, EnqueuesAttempt
<1>3. ASSUME NEW n \in Made, <<"allowed", n>> \in granted', <<"allowed", n>> \notin granted
      PROVE  Enqueued(<<"repair", n>>) /\ risk[n] = "Low" /\ project.reversible
  <2>1. AllowPromotion(w) /\ pc[w] = "verify.allow"
    BY <1>3
  <2>2. n = Subject(w)
    BY <1>3, <2>1 DEF AllowPromotion
  <2>3. Subject(w) = Number(w) /\ Enqueued(<<"repair", Number(w)>>)
    BY <2>1, SubjectAsked DEF VerifyPoints
  <2> QED BY <2>1, <2>2, <2>3 DEF Diagnosed, Carries
<1> QED BY <1>0, <1>1, <1>2, <1>3, DiagnosedRests

\* A handler's steps.
LEMMA HandlersDiagnosed ==
  ASSUME Orderly, Sound, Basic', Diagnosed, [Next]_vars, NEW w \in Workers, HandlerStep(w)
  PROVE  Diagnosed'
<1>0. /\ Basic /\ Carries(w) /\ Moved(w, pc[w], pc'[w]) /\ lease' = lease
      /\ project' = project /\ Number(w)' = Number(w)
  BY HandlerBasic, RowsMove, HandlersAreActive DEF Sound, Diagnosed, Stays, StaysIn, Number
<1>t. /\ attempt.made \in Nat /\ Made \subseteq Nat /\ risk \in [Made -> ActionRisk]
      /\ pc \in [Workers -> Point] /\ work \in [Workers -> Work]
      /\ attempt \in [made : Made \union {0}, current : Made \union {0}, proposed : SUBSET Made,
                      pulled : SUBSET Made, previewed : SUBSET Made]
  BY <1>0, DeploymentAssumption DEF Basic, TypeOK, Made
<1>g. ASSUME Rests, ~EnqueueFirstRepair(w), ~EnqueueNextRepair(w), Carries(w)',
             granted' = granted
      PROVE  Diagnosed'
  BY <1>0, <1>g, HandlerRests
<1>r. (attempt'.made = attempt.made /\ risk' = risk) => Rests
  BY <1>0, <1>t DEF Rests
<1>1. CASE CreateAttempt(w)
  <2>1. pc[w] = "diagnose.attempt" /\ granted' = granted
    BY <1>1 DEF CreateAttempt, ghostVars
  <2>2. attempt.current = 0
    <3>1. Active(w) /\ Running(w)
      BY <1>0, <1>1, <2>1, HandlersAreActive DEF Active
    <3>2. At(w)
      BY <3>1 DEF Sound, Token
    <3> QED BY <2>1, <3>1, <3>2 DEF At, Standing, Current, Early
  <2>3. PICK r \in Risks :
          /\ attempt.made + 1 \in Made
          /\ attempt' = [attempt EXCEPT !.made = attempt.made + 1, !.current = attempt.made + 1]
          /\ risk' = [risk EXCEPT ![attempt.made + 1] = r]
          /\ Read(w, "diagnose.attempt", "diagnose.plan",
                  [Blank EXCEPT !.n = attempt.made + 1, !.risk = r])
    BY <1>1, <2>2 DEF CreateAttempt
  <2>4. /\ attempt'.made = attempt.made + 1 /\ risk'[attempt.made + 1] = r
        /\ \A n \in Made : n <= attempt.made => risk'[n] = risk[n]
    BY <1>t, <2>3
  <2>5. /\ pc'[w] = "diagnose.plan"
        /\ work'[w].n = attempt.made + 1 /\ work'[w].risk = r
    BY <1>t, <2>3 DEF Read, Ends, Blank
  <2>6. Rests
    BY <1>0, <1>t, <2>4 DEF Rests
  <2>7. Carries(w)'
    BY <1>t, <2>4, <2>5 DEF Carries
  <2>8. ~EnqueueFirstRepair(w) /\ ~EnqueueNextRepair(w)
    BY <2>1 DEF EnqueueFirstRepair, EnqueueNextRepair
  <2> QED BY <1>g, <2>1, <2>6, <2>7, <2>8
<1>2. CASE FollowUp(w)
  <2>1. pc[w] = "build.followup" /\ granted' = granted
    BY <1>2 DEF FollowUp, ghostVars
  <2>2. ~EnqueueFirstRepair(w) /\ ~EnqueueNextRepair(w)
    BY <2>1 DEF EnqueueFirstRepair, EnqueueNextRepair
  <2>3. CASE Subject(w) >= MaxRepair
    <3>1. attempt' = attempt /\ risk' = risk /\ pc'[w] = "escalate"
      BY <1>2, <1>t, <2>3 DEF FollowUp, Goto, Read
    <3>2. Carries(w)'
      BY <3>1 DEF Carries
    <3> QED BY <1>g, <1>r, <2>1, <2>2, <3>1, <3>2
  <2>4. CASE ~(Subject(w) >= MaxRepair)
    <3>1. /\ attempt.made + 1 \in Made
          /\ attempt' = [attempt EXCEPT !.made = attempt.made + 1, !.current = attempt.made + 1]
          /\ risk' = [risk EXCEPT ![attempt.made + 1] = risk[Subject(w)]]
          /\ Read(w, "build.followup", "build.again", [Blank EXCEPT !.n = attempt.made + 1])
      BY <1>2, <2>4 DEF FollowUp
    <3>2. Number(w) \in Made /\ Subject(w) = Number(w) /\ Number(w) <= attempt.made
      BY <1>0, <2>1, SubjectAsked DEF BuildPoints, Asked
    <3>3. /\ attempt'.made = attempt.made + 1
          /\ risk'[attempt.made + 1] = risk[Number(w)]
          /\ \A n \in Made : n <= attempt.made => risk'[n] = risk[n]
      BY <1>t, <3>1, <3>2
    <3>4. pc'[w] = "build.again" /\ work'[w].n = attempt.made + 1
      BY <1>t, <3>1 DEF Read, Ends, Blank
    <3>5. Rests
      BY <1>0, <1>t, <3>3 DEF Rests
    <3>6. Carries(w)'
      <4>1. work'[w].n \in 1..attempt'.made
        BY <1>t, <3>3, <3>4
      <4>2. risk'[work'[w].n] = risk'[Number(w)]
        BY <3>2, <3>3, <3>4
      <4>3. risk'[work'[w].n] = risk'[Number(w)']
        BY <1>0, <4>2
      <4> QED BY <3>4, <4>1, <4>3 DEF Carries
    <3> QED BY <1>g, <2>1, <2>2, <3>5, <3>6
  <2> QED BY <2>3, <2>4
<1>3. CASE PlanRepair(w) \/ RepairAgain(w)
  <2>1. /\ granted' = granted /\ attempt' = attempt /\ risk' = risk
        /\ \/ pc[w] = "diagnose.plan" /\ pc'[w] \in {"diagnose.enqueue", "err", "idle"}
           \/ pc[w] = "build.again" /\ pc'[w] \in {"build.repair", "err", "idle"}
        /\ pc'[w] \in {"diagnose.enqueue", "build.repair"} => work'[w] = work[w]
    BY <1>3, <1>t DEF PlanRepair, RepairAgain, Plainly, Transition, Goto, Read, Fail, Ends,
       rowVars, ghostVars
  <2>2. ~EnqueueFirstRepair(w) /\ ~EnqueueNextRepair(w)
    BY <2>1 DEF EnqueueFirstRepair, EnqueueNextRepair
  <2>3. Carries(w)'
    BY <1>0, <2>1 DEF Carries
  <2> QED BY <1>g, <1>r, <2>1, <2>2, <2>3
<1>4. CASE DecideOnPreview(w)
  <2>1. /\ granted' = granted /\ attempt' = attempt /\ risk' = risk
        /\ pc[w] = "verify.decide"
        /\ pc'[w] \in {"verify.allow", "verify.require", "verify.block"}
        /\ pc'[w] = "verify.allow" => Verdict(w) = "Allow"
    BY <1>4, <1>t DEF DecideOnPreview, Plainly, Choose, Goto, Read, rowVars, ghostVars,
       Verdict,
       Decide
  <2>2. ~EnqueueFirstRepair(w) /\ ~EnqueueNextRepair(w)
    BY <2>1 DEF EnqueueFirstRepair, EnqueueNextRepair
  <2>3. Number(w) \in Made /\ Subject(w) = Number(w)
    BY <1>0, <2>1, SubjectAsked DEF VerifyPoints
  <2>4. Verdict(w) = "Allow" => risk[Number(w)] = "Low" /\ project.reversible
    <3>1. risk[Number(w)] \in {"Low", "Medium", "High", "Prohibited"}
          /\ project.reversible \in BOOLEAN
      BY <1>0, <1>t, <2>3 DEF ActionRisk, Basic, TypeOK
    <3> QED BY <2>3, <3>1 DEF Verdict, Decide
  <2>5. Carries(w)'
    BY <1>0, <2>1, <2>4 DEF Carries
  <2> QED BY <1>g, <1>r, <2>1, <2>2, <2>5
<1>5. CASE EnqueueFirstRepair(w)
  <2>1. pc[w] = "diagnose.enqueue"
        /\ EnqueueRepair(w, "diagnose.enqueue", work[w].n, work[w].risk)
    BY <1>5 DEF EnqueueFirstRepair
  <2>2. work[w].n \in 1..attempt.made /\ work[w].risk = risk[work[w].n]
    BY <1>0, <2>1 DEF Carries
  <2> QED BY <1>0, <2>1, <2>2, RepairEnqueued
<1>6. CASE EnqueueNextRepair(w)
  <2>1. pc[w] = "build.repair"
        /\ EnqueueRepair(w, "build.repair", work[w].n, risk[Subject(w)])
    BY <1>6 DEF EnqueueNextRepair
  <2>2. work[w].n \in 1..attempt.made /\ risk[Number(w)] = risk[work[w].n]
        /\ Subject(w) = Number(w)
    BY <1>0, <2>1, SubjectOf DEF Carries, BuildPoints
  <2> QED BY <1>0, <2>1, <2>2, RepairEnqueued
<1>7. CASE /\ ~CreateAttempt(w) /\ ~PlanRepair(w) /\ ~FollowUp(w) /\ ~RepairAgain(w)
           /\ ~DecideOnPreview(w) /\ ~EnqueueFirstRepair(w) /\ ~EnqueueNextRepair(w)
  <2>1. pc'[w] \notin Carriers
    BY <1>0, <1>7, ComesToCarry
  <2>2. Carries(w)'
    BY <2>1 DEF Carries, Carriers
  <2>3. /\ attempt'.made = attempt.made /\ risk' = risk
        /\ granted' = granted \/ (AllowPromotion(w) /\ pc[w] = "verify.allow")
    BY <1>0, <1>7, RowsMove DEF AllowPromotion
  <2> QED BY <1>0, <1>7, <1>r, <2>2, <2>3, HandlerRests
<1> QED BY <1>1, <1>2, <1>3, <1>4, <1>5, <1>6, <1>7

\* Every step keeps what the rows say of the diagnoses.
LEMMA DiagnosedKept ==
  ASSUME Orderly, Sound, Basic', Diagnosed, [Next]_vars
  PROVE  Diagnosed'
<1>0. Basic /\ attempt.made \in Nat
  BY DeploymentAssumption DEF Sound, Basic, TypeOK, Made
<1>1. ASSUME NEW w \in Workers, Loop(w) \/ Broken(w) PROVE Diagnosed'
  <2>1. UNCHANGED <<attempt, risk, project, asked, granted>>
    BY <1>1 DEF Loop, Broken, Plainly, rowVars, ghostVars
  <2>2. Rests
    BY <1>0, <2>1 DEF Rests
  <2>3. Moved(w, pc[w], pc'[w]) /\ pc'[w] \notin Carriers
    BY <1>0, <1>1, LoopBasic DEF Carriers, Kind, Ends
  <2>4. Carries(w)'
    BY <2>3 DEF Carries, Carriers
  <2>5. \A v \in Workers : Carries(v)'
    BY <1>0, <2>2, <2>3, <2>4, CarriesRests DEF Moved, Elsewhere
  <2>6. \A k \in OfAttempt, n \in Made : Enqueued(<<k, n>>)' => Enqueued(<<k, n>>)
    BY <1>0, <1>1, LoopEffect, AttemptJobs
  <2> QED BY <1>0, <2>1, <2>2, <2>5, <2>6, DiagnosedRests
<1>2. CASE Administrator \/ UNCHANGED vars
  <2>1. /\ UNCHANGED <<risk, asked, pc, work, lease>>
        /\ attempt'.made = attempt.made /\ project'.reversible = project.reversible
    BY <1>0, <1>2 DEF Administrator, Approve, ApproveMove, ApproveEnqueue, ApprovalLost,
       Reject, SetSafetyMode, Pause, Resume, vars, handlerVars, rowVars, Basic, TypeOK
  <2>2. granted' = granted \/ granted' = granted \union {<<"approved", attempt.current>>}
    BY <1>2 DEF Administrator, Approve, ApproveMove, ApproveEnqueue, ApprovalLost,
       Reject, SetSafetyMode, Pause, Resume, vars, ghostVars
  <2>3. \/ job' = job \/ job' = Q!Enqueued({Production})
        \/ \E n \in 1..MaxResumes : job' = Q!Enqueued({<<"diagnose", n>>})
    BY <1>2 DEF Administrator, Approve, ApproveMove, ApproveEnqueue, ApprovalLost,
       Reject, SetSafetyMode, Pause, Resume, vars, handlerVars, Production
  <2>4. Rests
    BY <1>0, <2>1 DEF Rests
  <2>5. \A v \in Workers : Carries(v)'
    BY <1>0, <2>1, <2>4, CarriesRests
  <2>6. \A k \in OfAttempt, n \in Made : Enqueued(<<k, n>>)' => Enqueued(<<k, n>>)
    <3>1. CASE job' = job
      BY <3>1 DEF Enqueued
    <3>2. ASSUME NEW j \in Jobs, j[1] \notin OfAttempt, job' = Q!Enqueued({j})
          PROVE  \A k \in OfAttempt, n \in Made : Enqueued(<<k, n>>)' => Enqueued(<<k, n>>)
      <4>1. \A k \in OfAttempt, n \in Made : <<k, n>> # j
        BY <3>2
      <4> QED BY <1>0, <3>2, <4>1, AttemptJobs, EnqueueEffect
    <3>3. /\ Production \in Jobs /\ Production[1] \notin OfAttempt
          /\ \A n \in 1..MaxResumes :
               <<"diagnose", n>> \in Jobs /\ <<"diagnose", n>>[1] \notin OfAttempt
      BY DeploymentAssumption DEF Jobs, Production, OfAttempt
    <3> QED BY <2>3, <3>1, <3>2, <3>3
  <2> QED BY <1>0, <2>1, <2>2, <2>4, <2>5, <2>6, DiagnosedRests
<1> QED BY <1>1, <1>2, HandlersDiagnosed DEF Next, WorkerStep, HandlerStep

\* What the policy allowed without an approval was a repair of a low-risk diagnosis, the same
\* in the row the policy was asked about and in the job the repair was made from, and there was
\* a deployment to roll back to.
THEOREM DeploymentAllowedIsHarmless == ASSUME Orderly PROVE Spec => []AllowedIsHarmless
<1>1. Init => Diagnosed
  <2> SUFFICES ASSUME Init PROVE Diagnosed
    OBVIOUS
  <2>1. \A k \in OfAttempt, n \in Made : ~Enqueued(<<k, n>>)
    BY AttemptJobs DEF Init, Enqueued, Q!Absent, OfAttempt
  <2>2. "repair" \in OfAttempt
    BY DEF OfAttempt
  <2> QED BY <2>1, <2>2 DEF Init, Diagnosed, Carries
<1>2. Sound /\ Basic' /\ Diagnosed /\ [Next]_vars => Diagnosed'
  BY DiagnosedKept
<1>3. Sound /\ Diagnosed => AllowedIsHarmless
  BY DEF Sound, Diagnosed, Asked, AllowedIsHarmless
<1>4. Sound => Basic
  BY DEF Sound
<1> QED BY <1>1, <1>2, <1>3, <1>4, DeploymentSound, PTL DEF Spec

-------------------------------------------------------------------------------
(* How a repair gets into production: Deployment implements Promotion.     *)

Making ==
  {"Open", "CollectingContext", "Diagnosing", "Planning", "Repairing", "Testing",
   "PreviewDeploying", "VerifyingPreview"}

\* The incident is in a state this pipeline knows, and a handler that takes it to landing has
\* promoted the attempt.
Delivers ==
  /\ incident \in Making \union Late \union Quiet
  /\ \A w \in Workers : pc[w] = "production.move" => chosen \in promoted

\* A handler reaches the move to landing by promoting.
LEMMA ComesToMove ==
  ASSUME Basic, NEW w \in Workers, ControlStep(w), pc'[w] = "production.move"
  PROVE  Promote(w)
<1>0. pc \in [Workers -> Point]
  BY DEF Basic, TypeOK
<1>1. CASE Loop(w) \/ Broken(w)
  BY <1>1, LoopBasic DEF Kind, Ends
<1>2. CASE ReadWork(w)
  BY <1>2, ReadStays DEF Entry, ContextEntry, DiagnoseEntry, RepairEntry, BuildEntry,
     PreviewEntry, VerifyEntry, ProductionEntry, Kind
<1>3. CASE Promote(w) \/ StartLanding(w)
  BY <1>0, <1>3 DEF StartLanding, Transition, EnqueueStep, Goto, Read, Fail
<1>4. CASE Diagnosis(w)
  <2>1. CASE CreateAttempt(w)
    <3>1. \E seen : Read(w, "diagnose.attempt", "diagnose.plan", seen)
      BY <2>1 DEF CreateAttempt
    <3> QED BY <1>0, <3>1 DEF Read
  <2>2. CASE Diagnosis(w) /\ ~CreateAttempt(w)
    BY <1>0, <2>2 DEF Diagnosis, CollectContext, StartDiagnosis, PlanRepair,
       EnqueueFirstRepair, EnqueueRepair, StartRepair, ProposeRepair, EnqueueBuild,
       Transition, Choose, EnqueueStep, Goto, Read, Fail
  <2> QED BY <1>4, <2>1, <2>2
<1>5. CASE Build(w)
  BY <1>0, <1>5 DEF Build, PauseRepair, StartTesting, TestRepair, FollowUp, RepairAgain,
     EnqueueNextRepair, EnqueueRepair, RereadWork, HaltBuild, OpenRepairPullRequest,
     SavePullRequest, EnqueuePreview, Transition, Choose, EnqueueStep, Goto, Read, Fail
<1>6. CASE Preview(w)
  BY <1>0, <1>6 DEF Preview, StartPreview, CreatePreview, SavePreview, StartVerifying,
     EnqueueVerify, CheckPreview, DecideOnPreview, Verdict, Decide, AllowPromotion,
     HoldPromotion, EnqueuePromotion, Transition, Choose, EnqueueStep, Goto, Read, Fail
<1> QED BY <1>1, <1>2, <1>3, <1>4, <1>5, <1>6 DEF ControlStep, HandlerStep

\* How a worker may move the incident.
WayOn(w) ==
  \/ incident \in Making /\ incident' \in Making /\ Plainly
  \/ incident' \in {"Paused", "Escalated"} /\ Plainly
  \/ /\ HoldPromotion(w) /\ pc[w] = "verify.require"
     /\ incident = "VerifyingPreview" /\ incident' = "WaitingApproval"
  \/ /\ AllowPromotion(w)
     /\ incident = "VerifyingPreview" /\ incident' = "ProductionDeploying"
  \/ /\ StartLanding(w) /\ pc[w] = "production.move"
     /\ incident = "ProductionDeploying" /\ incident' = "VerifyingProduction"

LEMMA IncidentMoves ==
  ASSUME NEW w \in Workers, HandlerStep(w) \/ Loop(w) \/ Broken(w), incident' # incident
  PROVE  WayOn(w) /\ job' = job
<1>1. CASE Loop(w) \/ Broken(w)
  <2>1. EscalateMove(w) /\ Plainly
    BY <1>1 DEF Loop, LoopStep, Broken, Fault, ClaimNext, CompleteJob, FailJob, EscalateRead,
       StepFails, Crash
  <2> QED BY <2>1 DEF EscalateMove, Transition, WayOn
<1>2. CASE ReadWork(w) \/ Promote(w)
  BY <1>2 DEF ReadWork, Promote, Choose
<1>3. CASE StartLanding(w)
  BY <1>3 DEF StartLanding, Transition, EnqueueStep, Goto, Read, WayOn
<1>4. CASE Diagnosis(w)
  <2>1. CollectContext(w) \/ StartDiagnosis(w) \/ PlanRepair(w) \/ StartRepair(w)
    <3>1. ASSUME CreateAttempt(w) PROVE incident' = incident
      BY <3>1 DEF CreateAttempt
    <3>2. ~ProposeRepair(w)
      BY DEF ProposeRepair, Choose
    <3> QED BY <1>4, <3>1, <3>2 DEF Diagnosis, EnqueueFirstRepair, EnqueueRepair, EnqueueBuild,
           EnqueueStep
  <2> QED BY <2>1 DEF CollectContext, StartDiagnosis, PlanRepair, StartRepair, Transition,
         EnqueueStep, WayOn, Making
<1>5. CASE Build(w)
  <2>1. PauseRepair(w) \/ StartTesting(w) \/ RepairAgain(w) \/ HaltBuild(w)
    BY <1>5 DEF Build, TestRepair, FollowUp, EnqueueNextRepair, EnqueueRepair, RereadWork,
       OpenRepairPullRequest, SavePullRequest, EnqueuePreview, EnqueueStep, Choose
  <2> QED BY <2>1 DEF PauseRepair, StartTesting, RepairAgain, HaltBuild, Transition, WayOn,
         Making
<1>6. CASE Preview(w)
  <2>1. \/ StartPreview(w) \/ StartVerifying(w) \/ AllowPromotion(w) \/ HoldPromotion(w)
    BY <1>6 DEF Preview, CreatePreview, SavePreview, EnqueueVerify, CheckPreview,
       DecideOnPreview, EnqueuePromotion, EnqueueStep, Choose
  <2>2. CASE StartPreview(w) \/ StartVerifying(w)
    BY <2>2 DEF StartPreview, StartVerifying, Transition, WayOn, Making
  <2>3. CASE AllowPromotion(w)
    BY <2>3 DEF AllowPromotion, Transition, WayOn
  <2>4. CASE HoldPromotion(w)
    BY <2>4 DEF HoldPromotion, Transition, Goto, Read, WayOn
  <2> QED BY <2>1, <2>2, <2>3, <2>4
<1> QED BY <1>1, <1>2, <1>3, <1>4, <1>5, <1>6 DEF HandlerStep

\* Both are kept.
LEMMA DeliversKept ==
  ASSUME Sound, Delivers, [Next]_vars
  PROVE  Delivers'
<1>0. Basic /\ Production \in Jobs
  BY DEF Sound, Production, Jobs
<1>1. incident' \in Making \union Late \union Quiet
  <2>1. ASSUME NEW w \in Workers, HandlerStep(w) \/ Loop(w) \/ Broken(w), incident' # incident
        PROVE  incident' \in Making \union Late \union Quiet
    BY <2>1, IncidentMoves DEF WayOn, Late, Quiet
  <2>2. CASE Administrator \/ UNCHANGED vars
    BY <2>2 DEF Administrator, Approve, ApproveMove, ApproveEnqueue, ApprovalLost, Reject,
       SetSafetyMode, Pause, Resume, vars, handlerVars, Delivers, Making, Late, Quiet
  <2> QED BY <2>1, <2>2 DEF Delivers, Next, WorkerStep, HandlerStep
<1>2. ASSUME NEW v \in Workers, pc'[v] = "production.move" PROVE chosen' \in promoted'
  <2>1. ASSUME ~(\E w \in Workers : Promote(w)) PROVE pc[v] = "production.move"
    <3>1. pc'[v] = pc[v] \/ ControlStep(v)
      BY <1>0, WhoMoves DEF Moved, Elsewhere
    <3> QED BY <1>0, <1>2, <2>1, <3>1, ComesToMove
  <2>2. CASE \E w \in Workers : Promote(w)
    <3>1. PICK w \in Workers : Promote(w)
      BY <2>2
    <3>2. pc[w] \in ProductionPoints /\ promoted' = promoted \union {Subject(w)}
          /\ chosen' = chosen
      BY <3>1 DEF Promote, ProductionPoints, rowVars
    <3>3. Subject(w) = chosen
      BY <1>0, <3>2, SubjectOf
    <3> QED BY <3>2, <3>3
  <2>3. CASE ~(\E w \in Workers : Promote(w))
    <3>1. chosen \in promoted /\ Enqueued(Production)
      <4>1. pc[v] = "production.move"
        BY <2>1, <2>3
      <4>2. chosen \in promoted
        BY <4>1 DEF Delivers
      <4>3. chosen # 0
        BY <4>2 DEF Sound, Basic, TypeOK, Made
      <4> QED BY <4>2, <4>3 DEF Sound, Grants
    <3>2. chosen' = chosen /\ promoted' = promoted
      <4>1. ASSUME NEW w \in Workers, HandlerStep(w)
            PROVE  chosen' = chosen /\ promoted' = promoted
        <5>1. promoted' = promoted /\ (chosen' = chosen \/ EnqueuePromotion(w))
          BY <1>0, <2>3, <4>1, RowsMove
        <5> QED BY <3>1, <5>1 DEF EnqueuePromotion, ChosenBy, Enqueued, Production
      <4>2. ASSUME NEW w \in Workers, Loop(w) \/ Broken(w)
            PROVE  chosen' = chosen /\ promoted' = promoted
        BY <4>2 DEF Loop, Broken, Plainly, rowVars, ghostVars
      <4>3. CASE Administrator \/ UNCHANGED vars
        BY <3>1, <4>3 DEF Administrator, Approve, ApproveMove, ApproveEnqueue, ApprovalLost,
           Reject, SetSafetyMode, Pause, Resume, vars, rowVars, ghostVars, ChosenBy, Enqueued,
           Production
      <4> QED BY <4>1, <4>2, <4>3 DEF Next, WorkerStep, HandlerStep
    <3> QED BY <3>1, <3>2
  <2> QED BY <2>2, <2>3
<1> QED BY <1>1, <1>2 DEF Delivers

\* A handler that verifies, or promotes, is at work on the current attempt.
LEMMA VerifiesCurrent ==
  ASSUME Basic, Token, NEW w \in Workers, pc[w] \in VerifyPoints \ {"verify.enqueue"}
  PROVE  /\ Subject(w) = attempt.current
         /\ pc[w] \in {"verify.decide", "verify.allow", "verify.require", "verify.block"} =>
              attempt.current \in verified
<1>1. Active(w) /\ Running(w) /\ KindOf(w) = "verify"
  <2>1. VerifyPoints \in HandlerPoints
    BY DEF HandlerPoints
  <2> QED BY <2>1, Inside, WhichKind DEF VerifyPoints, Active, Basic, Agreement, Agrees
<1>2. At(w) /\ lease[w].job = <<KindOf(w), Number(w)>> /\ Subject(w) = Number(w)
  BY <1>1, Numbers, SubjectOf DEF Token
<1>3. Current(lease[w].job)
  BY <1>1, <1>2 DEF At, VerifyPoints
<1> QED BY <1>1, <1>2, <1>3 DEF Current, OfAttempt, At

LEMMA PromotesCurrent ==
  ASSUME Basic, Token, NEW w \in Workers, pc[w] \in ProductionPoints
  PROVE  /\ Subject(w) = chosen /\ chosen = attempt.current /\ chosen \in verified
         /\ Enqueued(Production) /\ Standing(pc[w], work[w].state)
<1>1. Active(w) /\ Running(w)
  <2>1. ProductionPoints \in HandlerPoints
    BY DEF HandlerPoints
  <2> QED BY <2>1, Inside, WhichKind DEF ProductionPoints, Active
<1>2. At(w) /\ lease[w].job = Production /\ Subject(w) = chosen
  BY <1>1, SubjectOf DEF Token
<1>3. Enqueued(lease[w].job)
  BY <1>1, Numbers
<1> QED BY <1>1, <1>2, <1>3 DEF At, Timely

\* Two states of the rows and the history that look the same to Promotion, but for the incident.
SameRows ==
  /\ attempt'.made = attempt.made /\ attempt'.current = attempt.current
  /\ Resumes' = Resumes
  /\ UNCHANGED <<verified, rejected, promoted>>

Entire == Sound /\ Budget /\ Delivers

\* The rows are typed, and what a production handler works on is the current attempt, as far as
\* one is current.
LEMMA EntireFacts ==
  ASSUME Entire
  PROVE  /\ attempt.made \in Nat /\ attempt.current \in Made \union {0}
         /\ 0 \notin verified /\ 0 \notin promoted /\ 0 \notin Made
         /\ incident \in Making \union Late \union Quiet
         /\ incident \in {"WaitingApproval", "ProductionDeploying"} =>
              attempt.current \in verified
  BY DeploymentAssumption DEF Entire, Sound, Basic, TypeOK, Made, Delivers, Ledger, Checked

\* The incident moves and nothing else does.
LEMMA MoveImplements ==
  ASSUME Entire, NEW w \in Workers, WayOn(w), HandlerStep(w) \/ Loop(w) \/ Broken(w),
         incident' # incident, SameRows
  PROVE  [P!PNext]_(P!pVars)
<1>b. Basic /\ Token /\ Ledger
  BY DEF Entire, Sound
<1>f. /\ attempt.current \in Made \union {0} /\ 0 \notin verified
      /\ incident \in Making \union Late \union Quiet
  BY EntireFacts
<1>1. CASE incident' \in Making /\ incident \in Making /\ Plainly
  <2>1. Phase' = Phase /\ GrantedAny' = GrantedAny
    BY <1>1 DEF Phase, GrantedAny, Plainly, ghostVars, Making, Closed
  <2> QED BY <2>1 DEF SameRows, P!pVars
<1>2. CASE incident' \in {"Paused", "Escalated"} /\ Plainly
  <2>1. incident \notin Quiet
    <3>1. Active(w)
      <4>1. CASE HandlerStep(w)
        BY <1>2, <1>b, <4>1, HandlersAreActive DEF EnqueuePromotion, EnqueueStep
      <4>2. CASE Loop(w) \/ Broken(w)
        BY <4>2 DEF Loop, LoopStep, Broken, Fault, ClaimNext, CompleteJob, FailJob, EscalateRead,
           EscalateMove, StepFails, Crash, Transition, Active
      <4> QED BY <4>1, <4>2
    <3> QED BY <1>b, <3>1 DEF Token, At, Timely
  <2>2. Phase \in {"making", "promoting", "landing"} /\ Phase' \in {"paused", "closed"}
    BY <1>2, <1>f, <2>1 DEF Phase, Making, Late, Quiet, Closed
  <2>3. GrantedAny' = GrantedAny
    BY <1>2 DEF GrantedAny, Plainly, ghostVars
  <2> QED BY <2>2, <2>3 DEF SameRows, P!Stop, P!PNext
<1>3. CASE HoldPromotion(w) /\ pc[w] = "verify.require" /\ incident = "VerifyingPreview"
           /\ incident' = "WaitingApproval"
  <2>1. Phase = "making" /\ Phase' = "deciding"
    BY <1>3 DEF Phase, Closed
  <2>2. GrantedAny' = GrantedAny
    BY <1>3 DEF GrantedAny, HoldPromotion, Plainly, ghostVars
  <2>3. attempt.current \in verified
    BY <1>3, <1>b, VerifiesCurrent DEF VerifyPoints
  <2> QED BY <2>1, <2>2, <2>3 DEF SameRows, P!Hold, P!PNext
<1>4. CASE AllowPromotion(w) /\ incident = "VerifyingPreview"
           /\ incident' = "ProductionDeploying"
  <2>1. Phase = "making" /\ Phase' = "promoting"
    BY <1>4 DEF Phase, Closed
  <2>2. /\ pc[w] = "verify.allow"
        /\ granted' = granted \union {<<"allowed", Subject(w)>>}
    BY <1>4 DEF AllowPromotion
  <2>3. attempt.current \in verified /\ Subject(w) = attempt.current
    BY <1>b, <2>2, VerifiesCurrent DEF VerifyPoints
  <2>4. GrantedAny' = GrantedAny \union {attempt.current}
    BY <1>f, <2>2, <2>3 DEF GrantedAny
  <2> QED BY <2>1, <2>3, <2>4 DEF SameRows, P!Allow, P!PNext
<1>5. CASE StartLanding(w) /\ pc[w] = "production.move" /\ incident = "ProductionDeploying"
           /\ incident' = "VerifyingProduction"
  <2>1. Phase = "promoting" /\ Phase' = "landing"
    BY <1>5 DEF Phase, Closed
  <2>2. GrantedAny' = GrantedAny
    BY <1>5 DEF GrantedAny, StartLanding, Plainly, ghostVars
  <2>3. chosen \in promoted
    BY <1>5 DEF Entire, Delivers
  <2>4. chosen = attempt.current
    BY <1>5, <1>b, PromotesCurrent DEF ProductionPoints
  <2> QED BY <2>1, <2>2, <2>3, <2>4 DEF SameRows, P!Deliver, P!PNext
<1> QED BY <1>1, <1>2, <1>3, <1>4, <1>5 DEF WayOn

\* Where attempts are made, and what else happens then: nothing.
NextAttempt == [attempt EXCEPT !.made = attempt.made + 1, !.current = attempt.made + 1]

LEMMA CreatesNext ==
  ASSUME NEW w \in Workers, CreateAttempt(w)
  PROVE  /\ pc[w] = "diagnose.attempt" /\ attempt' \in {attempt, NextAttempt}
         /\ UNCHANGED <<incident, verified, granted, rejected, promoted>>
  BY DEF CreateAttempt, NextAttempt, ghostVars

LEMMA FollowUpIsNext ==
  ASSUME NEW w \in Workers, FollowUp(w)
  PROVE  /\ pc[w] = "build.followup" /\ attempt' \in {attempt, NextAttempt}
         /\ UNCHANGED <<incident, verified, granted, rejected, promoted>>
  BY DEF FollowUp, NextAttempt, ghostVars

\* A handler makes the next attempt.
LEMMA AttemptImplements ==
  ASSUME Entire, Budget', NEW w \in Workers, CreateAttempt(w) \/ FollowUp(w),
         Resumes' = Resumes
  PROVE  [P!PNext]_(P!pVars)
<1>b. Basic /\ Token /\ Ledger
  BY DEF Entire, Sound
<1>0. /\ attempt \in [made : Made \union {0}, current : Made \union {0}, proposed : SUBSET Made,
                      pulled : SUBSET Made, previewed : SUBSET Made]
      /\ attempt.made \in Nat /\ MaxRepair \in Nat /\ Cardinality(Resumes) \in Nat
  BY <1>b, DeploymentAssumption, ResumesFinite DEF Basic, TypeOK, Made
<1>1. /\ UNCHANGED <<incident, verified, granted, rejected, promoted>>
      /\ pc[w] \in {"diagnose.attempt", "build.followup"}
      /\ attempt' \in {attempt, NextAttempt}
  BY CreatesNext, FollowUpIsNext
<1>2. Phase' = Phase /\ GrantedAny' = GrantedAny
  BY <1>1 DEF Phase, GrantedAny
<1>3. CASE attempt' = attempt
  BY <1>1, <1>2, <1>3 DEF P!pVars
<1>4. CASE attempt' = NextAttempt
  <2>1. attempt'.made = attempt.made + 1 /\ attempt'.current = attempt.made + 1
    BY <1>0, <1>4 DEF NextAttempt
  <2>2. attempt.made + 1 <= MaxRepair + Cardinality(Resumes)
    BY <1>0, <2>1, DeploymentAssumption DEF Budget
  <2>3. Active(w)
    BY <1>1 DEF Active
  <2>4. incident \in {"Diagnosing", "Testing"}
    BY <1>1, <2>3, <1>b DEF Token, At, Standing
  <2>5. Phase = "making"
    BY <2>4 DEF Phase, Closed
  <2>6. attempt.made < MaxRepair + Cardinality(Resumes)
    BY <1>0, <2>2
  <2> QED BY <1>1, <1>2, <2>1, <2>5, <2>6 DEF P!Attempt, P!PNext
<1> QED BY <1>1, <1>3, <1>4

\* A preview is verified.
LEMMA VerifyImplements ==
  ASSUME Entire, NEW w \in Workers, CheckPreview(w), Resumes' = Resumes
  PROVE  [P!PNext]_(P!pVars)
<1>b. Basic /\ Token /\ Ledger
  BY DEF Entire, Sound
<1>1. /\ UNCHANGED <<incident, attempt, granted, rejected, promoted>>
      /\ pc[w] = "verify.check"
      /\ verified' = verified \/ verified' = verified \union {Subject(w)}
  BY DEF CheckPreview, Choose, rowVars
<1>2. Phase' = Phase /\ GrantedAny' = GrantedAny
  BY <1>1 DEF Phase, GrantedAny
<1>3. Subject(w) = attempt.current /\ Subject(w) \in Made
  BY <1>1, <1>b, VerifiesCurrent, SubjectOf DEF VerifyPoints
<1>4. incident = "VerifyingPreview"
  <2>1. Active(w)
    BY <1>1 DEF Active
  <2> QED BY <1>1, <1>b, <2>1 DEF Token, At, Standing
<1>5. Phase = "making"
  BY <1>4 DEF Phase, Closed
<1>6. CASE verified' = verified
  BY <1>1, <1>2, <1>6 DEF P!pVars
<1>7. CASE verified' = verified \union {attempt.current}
  BY <1>1, <1>2, <1>3, <1>5, <1>7, DeploymentAssumption DEF P!Verify, P!PNext, Made
<1> QED BY <1>1, <1>3, <1>6, <1>7

\* The attempt in the payload, which is the current one, is promoted.
LEMMA PromoteImplements ==
  ASSUME Entire, NEW w \in Workers, Promote(w), Resumes' = Resumes
  PROVE  [P!PNext]_(P!pVars)
<1>b. Basic /\ Token /\ Ledger /\ Grants
  BY DEF Entire, Sound
<1>1. /\ UNCHANGED <<incident, attempt, granted, rejected, verified>>
      /\ pc[w] = "production.promote"
      /\ promoted' = promoted \union {Subject(w)}
  BY DEF Promote, Choose, rowVars
<1>2. Phase' = Phase /\ GrantedAny' = GrantedAny
  BY <1>1 DEF Phase, GrantedAny
<1>3. /\ Subject(w) = chosen /\ chosen = attempt.current /\ chosen \in verified
      /\ incident = "ProductionDeploying"
  BY <1>1, <1>b, PromotesCurrent DEF ProductionPoints, Standing
<1>4. chosen \in GrantedAny
  <2>1. chosen \in Made /\ chosen # 0
    BY <1>b, <1>3, DeploymentAssumption DEF Basic, TypeOK, Made
  <2> QED BY <1>b, <2>1 DEF Grants, Granted, GrantedAny
<1>5. Phase = "promoting"
  BY <1>3 DEF Phase, Closed
<1> QED BY <1>1, <1>2, <1>3, <1>4, <1>5 DEF P!Promote, P!PNext

\* What the administrator does.
LEMMA AdministratorImplements ==
  ASSUME Entire, [Next]_vars, Administrator
  PROVE  [P!PNext]_(P!pVars)
<1>b. Basic
  BY DEF Entire, Sound
<1>f. /\ attempt.current \in Made \union {0} /\ 0 \notin verified /\ 0 \notin Made
      /\ incident = "WaitingApproval" => attempt.current \in verified
  BY EntireFacts
<1>1. CASE Resume /\ incident = "Paused"
  <2>1. /\ Cardinality(Resumes') = Cardinality(Resumes) + 1
        /\ attempt'.current = 0 /\ attempt'.made = attempt.made
        /\ incident' = "CollectingContext"
    BY <1>1, <1>b, ResumesGrow
  <2>2. UNCHANGED <<verified, granted, rejected, promoted>>
    BY <1>1 DEF Resume
  <2>3. Phase = "paused" /\ Phase' = "making" /\ GrantedAny' = GrantedAny
    BY <1>1, <2>1, <2>2 DEF Phase, Closed, GrantedAny
  <2>4. MaxRepair + Cardinality(Resumes') = (MaxRepair + Cardinality(Resumes)) + 1
    BY <2>1, ResumesFinite, DeploymentAssumption
  <2>5. P!Resume
    BY <2>1, <2>2, <2>3, <2>4 DEF P!Resume
  <2> QED BY <2>5 DEF P!PNext
<1>2. CASE ~(Resume /\ incident = "Paused")
  <2>0. Resumes' = Resumes
    BY <1>2, <1>b, ResumesStay
  <2>1. CASE Reject
    <3>1. /\ incident = "WaitingApproval" /\ incident' = "Cancelled"
          /\ rejected' = rejected \union ({attempt.current} \ {0})
          /\ UNCHANGED <<attempt, verified, granted, promoted>>
      BY <2>1 DEF Reject, rowVars
    <3>2. rejected' = rejected \union {attempt.current}
      BY <1>f, <3>1
    <3>3. Phase = "deciding" /\ Phase' = "closed" /\ GrantedAny' = GrantedAny
      BY <3>1 DEF Phase, Closed, GrantedAny
    <3> QED BY <2>0, <3>1, <3>2, <3>3 DEF P!Reject, P!PNext
  <2>2. CASE ApproveMove /\ incident = "WaitingApproval"
    <3>1. /\ incident' = "ProductionDeploying"
          /\ UNCHANGED <<attempt, verified, granted, rejected, promoted>>
      BY <2>2 DEF ApproveMove, rowVars, ghostVars
    <3>2. Phase = "deciding" /\ Phase' = "promoting" /\ GrantedAny' = GrantedAny
      BY <2>2, <3>1 DEF Phase, Closed, GrantedAny
    <3> QED BY <2>0, <3>1, <3>2 DEF P!Accept, P!PNext
  <2>3. CASE ApproveEnqueue /\ attempt.current # 0
    <3>1. /\ granted' = granted \union {<<"approved", attempt.current>>}
          /\ UNCHANGED <<incident, attempt, verified, rejected, promoted>>
      BY <2>3 DEF ApproveEnqueue
    <3>2. Phase' = Phase /\ GrantedAny' = GrantedAny \union {attempt.current}
      BY <1>f, <2>3, <3>1 DEF Phase, GrantedAny
    <3> QED BY <2>0, <2>3, <3>1, <3>2 DEF P!Grant, P!PNext
  <2>4. CASE ~Reject /\ ~(ApproveMove /\ incident = "WaitingApproval")
             /\ ~(ApproveEnqueue /\ attempt.current # 0)
    <3>1. UNCHANGED <<incident, attempt, verified, granted, rejected, promoted>>
      BY <1>2, <2>4 DEF Administrator, Approve, ApproveMove, ApproveEnqueue, ApprovalLost,
         SetSafetyMode, Pause, Resume, handlerVars, rowVars, ghostVars
    <3>2. Phase' = Phase /\ GrantedAny' = GrantedAny
      BY <3>1 DEF Phase, GrantedAny
    <3> QED BY <2>0, <3>1, <3>2 DEF P!pVars
  <2> QED BY <2>1, <2>2, <2>3, <2>4
<1> QED BY <1>1, <1>2

\* Every step is one of Promotion's, or none.
LEMMA StepImplements ==
  ASSUME Entire, Budget', [Next]_vars
  PROVE  [P!PNext]_(P!pVars)
<1>b. Basic
  BY DEF Entire, Sound
<1>r. ASSUME UNCHANGED <<incident, verified, granted, rejected, promoted>>,
             attempt'.made = attempt.made, attempt'.current = attempt.current,
             Resumes' = Resumes
      PROVE  UNCHANGED P!pVars
  BY <1>r DEF Phase, GrantedAny, P!pVars
<1>1. ASSUME NEW w \in Workers, HandlerStep(w), Resumes' = Resumes
      PROVE  [P!PNext]_(P!pVars)
  <2>1. CASE CreateAttempt(w) \/ FollowUp(w) \/ CheckPreview(w) \/ Promote(w)
    BY <1>1, <2>1, AttemptImplements, VerifyImplements, PromoteImplements
  <2>2. CASE ~CreateAttempt(w) /\ ~FollowUp(w) /\ ~CheckPreview(w) /\ ~Promote(w)
    <3>1. /\ UNCHANGED <<verified, rejected, promoted>>
          /\ attempt'.made = attempt.made /\ attempt'.current = attempt.current
          /\ granted' = granted \/ AllowPromotion(w)
      BY <1>1, <1>b, <2>2, RowsMove
    <3>2. CASE incident' # incident
      <4>1. WayOn(w)
        BY <1>1, <3>2, IncidentMoves
      <4> QED BY <1>1, <3>1, <3>2, <4>1, MoveImplements DEF SameRows
    <3>3. CASE incident' = incident
      <4>1. AllowPromotion(w) => granted' = granted
        BY <3>3 DEF AllowPromotion, Transition, CanTransition, Moves
      <4> QED BY <1>1, <1>r, <3>1, <3>3, <4>1
    <3> QED BY <3>2, <3>3
  <2> QED BY <2>1, <2>2
<1>2. ASSUME NEW w \in Workers, Loop(w) \/ Broken(w), Resumes' = Resumes
      PROVE  [P!PNext]_(P!pVars)
  <2>1. UNCHANGED <<attempt, verified, granted, rejected, promoted>>
    BY <1>2 DEF Loop, Broken, Plainly, rowVars, ghostVars
  <2>2. CASE incident' # incident
    <3>1. WayOn(w)
      BY <1>2, <2>2, IncidentMoves
    <3> QED BY <1>2, <2>1, <2>2, <3>1, MoveImplements DEF SameRows
  <2>3. CASE incident' = incident
    BY <1>2, <1>r, <2>1, <2>3
  <2> QED BY <2>2, <2>3
<1>3. CASE UNCHANGED vars
  BY <1>r, <1>3 DEF vars, handlerVars, rowVars, ghostVars, Resumes
<1>4. CASE Administrator
  BY <1>4, AdministratorImplements
<1>5. ~Administrator => Resumes' = Resumes
  BY <1>b, ResumesStay DEF Administrator
<1> QED BY <1>1, <1>2, <1>3, <1>4, <1>5 DEF Next, WorkerStep, HandlerStep

\* What goes to production is the current attempt of an incident that is being promoted,
\* verified and granted; attempts are within the allowance; what was rejected, or made before
\* a resume, stays behind: handlers, administrator's calls, retries and crashes implement it.
THEOREM DeploymentImplements == ASSUME Orderly PROVE Spec => ImplementsPromotion
<1>1. Init => Entire /\ P!PInit
  <2> SUFFICES ASSUME Init PROVE Entire /\ P!PInit
    OBVIOUS
  <2>1. Sound
    BY BasicInit, TokenInit DEF Init, Grants, Sound
  <2>2. /\ attempt.made = 0 /\ attempt.current = 0
        /\ verified = {} /\ granted = {} /\ rejected = {} /\ promoted = {}
        /\ incident \in {"Open", "Paused"}
        /\ \A w \in Workers : pc[w] # "production.move"
    BY DEF Init
  <2>3. Budget
    BY <2>2, ResumesFinite, DeploymentAssumption DEF Budget
  <2>4. Delivers
    BY <2>2 DEF Delivers, Making, Quiet
  <2>5. Phase \in {"making", "paused"} /\ GrantedAny = {}
    BY <2>2 DEF Phase, Closed, GrantedAny
  <2>6. MaxRepair + Cardinality(Resumes) \in Nat
    BY ResumesFinite, DeploymentAssumption
  <2> QED BY <2>1, <2>2, <2>3, <2>4, <2>5, <2>6 DEF Entire, P!PInit
<1>2. Entire /\ [Next]_vars => Entire' /\ [P!PNext]_(P!pVars)
  <2> SUFFICES ASSUME Entire, [Next]_vars PROVE Entire' /\ [P!PNext]_(P!pVars)
    OBVIOUS
  <2>1. Sound'
    BY BasicKept, GrantsKept, TokenKept DEF Sound, Entire
  <2>2. Budget' /\ Delivers'
    BY BudgetKept, DeliversKept DEF Entire
  <2> QED BY <2>1, <2>2, StepImplements DEF Entire
<1> QED BY <1>1, <1>2, PTL DEF Spec, ImplementsPromotion, P!PSpec

\* What keeps Promotion's promises: an attempt is promoted only after the phases in which it is
\* made and decided about, and these are never entered again with it.
PInv ==
  /\ attempt.made \in Nat /\ MaxRepair + Cardinality(Resumes) \in Nat
  /\ attempt.current \in {0, attempt.made}
  /\ promoted \subseteq 1..attempt.made /\ 0 \notin verified
  /\ rejected # {} => Phase = "closed"
  /\ Phase \in {"making", "deciding"} => attempt.current \notin promoted
  /\ P!Promises

\* Promotion keeps its promises, in whatever way its steps are made.
THEOREM PromotionPromises == P!PSpec => []P!Promises
<1>1. P!PInit => PInv
  BY DEF P!PInit, PInv, P!Promises
<1>2. PInv /\ [P!PNext]_(P!pVars) => PInv'
  <2> SUFFICES ASSUME PInv, [P!PNext]_(P!pVars) PROVE PInv'
    OBVIOUS
  <2>1. CASE P!Attempt
    BY <2>1 DEF P!Attempt, PInv, P!Promises
  <2>2. CASE P!Verify \/ P!Grant
    BY <2>2 DEF P!Verify, P!Grant, PInv, P!Promises
  <2>3. CASE P!Hold \/ P!Accept
    BY <2>3 DEF P!Hold, P!Accept, PInv, P!Promises
  <2>4. CASE P!Allow
    BY <2>4 DEF P!Allow, PInv, P!Promises
  <2>5. CASE P!Reject
    BY <2>5 DEF P!Reject, PInv, P!Promises
  <2>6. CASE P!Promote
    <3>1. /\ Phase = "promoting" /\ promoted' = promoted \union {attempt.current}
          /\ attempt.current \in verified /\ attempt.current \in GrantedAny
          /\ UNCHANGED <<Phase, attempt.made, attempt.current, verified,
                         GrantedAny, rejected, MaxRepair + Cardinality(Resumes)>>
      BY <2>6 DEF P!Promote, PInv
    <3>2. attempt.current \in 1..attempt.made /\ rejected = {}
      BY <3>1 DEF PInv
    <3> QED BY <3>1, <3>2 DEF PInv, P!Promises
  <2>7. CASE P!Deliver \/ P!Stop
    BY <2>7 DEF P!Deliver, P!Stop, PInv, P!Promises
  <2>8. CASE P!Resume
    BY <2>8 DEF P!Resume, PInv, P!Promises
  <2>9. CASE UNCHANGED P!pVars
    BY <2>9 DEF P!pVars, PInv, P!Promises
  <2> QED BY <2>1, <2>2, <2>3, <2>4, <2>5, <2>6, <2>7, <2>8, <2>9 DEF P!PNext
<1>3. PInv => P!Promises
  BY DEF PInv
<1> QED BY <1>1, <1>2, <1>3, PTL DEF P!PSpec
===============================================================================
