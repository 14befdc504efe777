# NoPager in TLA+

NoPager watches one production application. When its health check fails, it
opens an incident, collects evidence, asks a model for a plan, puts the plan
through a fixed policy and an administrator, restarts one enrolled container
through a privileged host helper, and verifies that the application recovered.
For projects with source and deployment integrations it repairs the code
instead: a patch, a sandbox build, a preview, a production promotion, and a
rollback when production does not get better.

This directory models the parts of the program where the order of steps of
several processes, a crash between two of them, or a lost answer decides whether
the program keeps its word. Paths are relative to the repository root. "Run"
names are those of `PROJECT.json`.

Contents: [inventory](#the-system) · [modules](#modules) ·
[correspondence](#how-the-modules-correspond-to-the-code) · [runs](#runs) ·
[bounds](#bounds) · [fairness](#fairness) · [proofs](#proofs) ·
[where code and documents disagree](#where-the-code-and-its-documents-disagree) ·
[not modelled](#not-modelled) · [plan](#plan)

## The system

```
 browser / CLI          GitHub, Vercel webhooks
      |                         |
  apps/server  ------------------            (axum; one transaction per request)
      |
  PostgreSQL  : projects, health_checks, incidents, operations_actions,
      |         repair_attempts, deployments, jobs, audit_events
      |
  apps/worker  (1..n processes; each drains the job queue, one job at a time)
      |      \------ model providers, GitHub, Vercel, sandbox (HTTP, processes)
      |
  Unix socket, one request per connection, client timeout 30 s by default
      |
  apps/runtime-helper (root, on the host; journal directory) --> docker restart
```

| Component | State it keeps | Operations | Hard behaviour | What makes it correct |
|---|---|---|---|---|
| **Runtime helper** `apps/runtime-helper`, protocol in `crates/nopager-runtime-protocol` | one journal file per request id; at most 16 connection tasks | `handle`, `restart`, `claim`, `complete`, `inspect_enrolled` | concurrent connections with one request id; tasks dropped at an `await`; the process killed; power failure before `fsync` | one request id restarts the container at most once; "not started" and "success" are true; a success that was answered survives a crash |
| **Helper client** `crates/nopager-connectors/src/docker_ops.rs` | none | `restart_container`, `exchange` | the answer is lost or late | never claims "not started" of a restart that may have happened |
| **Job queue** `crates/nopager-db` (`enqueue` … `fail_job`) and the loop of `apps/worker/src/main.rs` | `jobs` rows: status, attempt, locked_by | enqueue with an idempotency key, claim with `SKIP LOCKED`, complete, fail with backoff | several workers, possibly under one name (`worker-<pid>`); workers dying with a job | one runner per job, at most `max_attempts` runs, finished jobs stay finished |
| **Operations pipeline** `apps/worker/src/operations_runtime.rs` | incident state, the one `operations_actions` row of the incident, audit log | context, plan, execute, verify handlers | each handler is a chain of separately committed statements; it may fail or die between any two; it decides on a snapshot read at its start; the administrator acts meanwhile | no unapproved or repeated restart; rows tell the truth; no incident is lost |
| **Administrator's calls** `crates/nopager-db` (`approve_incident`, `reject_incident`, `set_protection_paused`, `set_safety_mode`), routes in `apps/server` | project mode and Kill Switch | one transaction each | race with handlers already past their check | a rejection and the Kill Switch hold; a waiting incident can be decided |
| **Incident state machine** `crates/nopager-core`, `transition_incident` | `incidents.status` | compare-and-set along an allowed edge, plus "close everything" edges from any state | a stale expected state; edges out of closed states | closed incidents stay closed |
| **Policy** `crates/nopager-policy` | none (pure) | `decide`, `decide_operations` | interplay of mode, Kill Switch, cooldown, risk | a change of facts for the worse never relaxes the decision |
| **Health monitor** `crates/nopager-monitor`, `record_health_observation`, `open_incident_tx` | check row: status and two counters; incidents | probe, record, open one incident | probes of several workers recorded in any order; flapping | every outage opens exactly one incident and none opens for less than three failures |
| **Repair pipeline** `apps/worker/src/legacy_pipeline.rs` | `repair_attempts`, incident state, pull request and preview | context, diagnose, repair, build/test, follow-up, preview, verify, promote | retries after half of a handler; jobs of earlier attempts after a resume; approvals in several statements | attempts are bounded; nothing unverified, rejected or stale reaches production; no incident is stuck |
| **Production landing and rollback** `apps/worker/src/main.rs`, `production.rs` | deployments, incident state, payload of the rollback | verify, watch, merge, verify and watch again, roll back, verify that | provider answers lost after the provider acted; other people deploying | merged only after the watch; resolved only when production is well; the baseline stays until then |
| **Source recovery** `apps/worker/src/source_recovery.rs` | audit record of the revert, deployments | open a revert, poll its review and its deployment, watch, close | a mutation sent once whose answer is lost; people pushing and merging meanwhile | one revert; closed only by the reviewed revert that serves production |
| **Known-good tracking** migration `0005`, `save_deployment`, `mark_deployment_known_good` | `deployments.known_good` | trigger on health rows, upserts | reports of deployments late, repeated and in any order | exactly one baseline, a finished production build |
| **Server, setup, webhooks** `apps/server`, `crates/nopager-webhooks` | accounts, sessions, projects, `webhook_deliveries` | create the account, log in, protect an application, accept a webhook, poll Vercel | deliveries repeated, reordered or lost, racing with polls; two setups | one incident per failure, and every failure has one |
| **Connectors, providers, sandbox, crypto, security, config, CLI, web** | none that matters here | I/O | – | – |

Interactions: the server and the worker share nothing but the database; the
worker reaches the helper through its socket only; job handlers talk to each
other by enqueueing the next job after they moved the incident, in a second
statement.

## Modules

| Module | Stands for | Uses |
|---|---|---|
| `RestartOnce` | what the helper promises its clients: a restart per request id, at most once, truthful answers (abstract specification) | – |
| `RuntimeHelper` | helper, journal, socket, client | implements `RestartOnce` |
| `RuntimeHelperProofs` | its invariant, its safety properties, the refinement | |
| `JobQueue` | the `jobs` table and the worker loop around a handler | – |
| `JobQueueProofs` | its invariant and all its properties | |
| `IncidentStates` | `IncidentState` and `can_transition_to` | – |
| `Policy` | `decide`, `decide_operations` | – |
| `Operations` | context, plan, execute, verify; diagnose, repair, build as far as a resumed incident without integrations gets; administrator's calls | composes `JobQueue`, `RestartOnce`, `IncidentStates`, `Policy` |
| `OperationsProofs` | its invariant, its safety and action properties, that it implements `JobQueue` | `JobQueueProofs` |
| `HealthMonitor` | probes, the check row, opening of incidents, the debouncer | – |
| `HealthMonitorProofs` | its invariant, its properties, its types | |
| `Handlers` | what every handler of the worker is made of: claim, read, transition, enqueue, fail, escalate, crash | composes `JobQueue`, `IncidentStates` |
| `Promotion` | how an attempt gets into production: made, verified, granted, promoted, or left behind (abstract specification) | – |
| `Deployment` | the repair of an incident from its context to its promotion; approve, reject, pause, resume | instantiates `Handlers`; `Policy`; implements `Promotion` |
| `DeploymentProofs` | its types, all its safety properties, the refinement; how the decisions of `Policy` move when facts change for the worse | `JobQueueProofs` |
| `LandOrRestore` | what becomes of a promoted repair: landed and watched, or production restored, never both (abstract specification) | – |
| `Landing` | from the promotion to the end of the incident: watch, merge, watch, roll back | instantiates `Handlers`; implements `LandOrRestore` |
| `LandingProofs` | its types, the chain of watches, the baseline, how an incident is resolved, the refinement | `JobQueueProofs` |
| `SourceRecovery` | reverting a merged repair that was rolled back | instantiates `Handlers` |
| `SourceRecoveryProofs` | its types, one revert, what a closure rests on | `JobQueueProofs` |
| `Protection` | account and setup, webhooks and polls, the deployments table and its trigger, incidents opened for failures | – |
| `ProtectionProofs` | its types, one incident per failure, one sound baseline | |
| `MC*` | constants for TLC | the module in the name |

`Operations` takes the helper as `RestartOnce`, not as `RuntimeHelper`: run
`runtime_helper` and theorem `Refinement` show that the helper implements it,
so what is checked of `Operations` needs none of the helper's detail.

`Deployment`, `Landing` and `SourceRecovery` follow one incident one after the
other. They meet in its state: `Landing` starts in VERIFYING_PRODUCTION, where
`Deployment` ends, and `SourceRecovery` in ROLLED_BACK, where `Landing` leaves a
merged repair. A job kind the next module handles is enqueued by the module
before it and not claimed there. The abstract specifications meet in the same place:
the phase "landing" in which `Promotion` ends is the trial with which `LandOrRestore` begins.

## How the modules correspond to the code

`PROJECT.json` maps every definition to its lines. The principles:

**RuntimeHelper.** One process per connection; `pc[c]` is where the tokio task
of `serve_connection` stands. `Connect`, `Accept`, `Handle` are the client's
connect, the accept loop and the checks of `handle`; `CreateNew` …
`SyncClaim` are the `O_EXCL` open, the write and the two `fsync`s of
`claim`; `InspectBefore`, `RestartExact`, `BackendReturns`, `InspectAfter` the
Docker calls of `restart`; `RenameCompleted`, `SyncCompleted` the steps of
`complete`. `journal[r]` is the file another task reads at this moment, with
the value `"torn"` between creation and the end of the write (a reader's JSON
parse fails); `durable[r]` is what a power failure leaves: nothing before the
`fsync`, and for a torn or renamed file either old or new. `DropConnection` is
the lifetime timeout that drops a task at an `await`, `HelperCrash` a killed
helper (Docker goes on), `HostCrash` a power failure. `command[c]` is Docker's
side: a command once issued may take effect after its issuer is gone.

**JobQueue.** `job[j]` is the row under the idempotency key `j`, `lease[w]` the
`Job` value the worker loop holds. `ClaimNext`, `CompleteJob`, `FailJob` are the
three statements with their `WHERE` clauses (`locked_by` is a name, and names
collide: `worker-<pid>` is `worker-1` in every container). `Crash` is a process
that dies; the loop exits the process on a failed statement as well. No
statement of the code reclaims a RUNNING row.

**Operations.** Every database statement or transaction of a handler, every call
to the helper and every question to the model is one action; `pc[w]` says where
the handler stands (`"plan.wait"`: in `process_plan`, about to move the incident
to WAITING_APPROVAL). `work[w]` is the `IncidentWork` read once at the start
(`ReadWork`), so decisions taken on it are stale exactly as in the code:
`Entry` dispatches on that snapshot like the handler's first `if`s. `StepFails`
is any `?` on the way: the job fails, is retried or escalates; `Crash` a dying
worker. `Transition` is the compare-and-set of `transition_incident` (an error
when the state is not the expected one or the edge not allowed) and `MarkStep`
the unconditional updates of the action row. `cooling` is the set of incidents
with a successful execution in the audit log less than five minutes old;
`CooldownOver` is the passage of time. `granted` and `passed` are history.
Resuming (`Resume`) sends a paused incident to the repair pipeline as
`set_protection_paused` does; of that pipeline the stages are modelled that an
incident without GitHub and Vercel integrations reaches before an error.

**HealthMonitor.** `Probe` is `process_health_check` up to its observation,
`Record` the transaction `record_health_observation` with `open_incident_tx`
inside. Probing and recording are apart, so observations are recorded in any
order. `debouncer` is `HealthDebouncer` of `crates/nopager-monitor` (not used by
the worker; its tests define what "down" means) fed with the same observations.

**Policy.** The two functions, clause by clause.

**Handlers.** `pc[w]` and `work[w]` as in `Operations`; `work` holds only what a
handler uses after other statements have run (the state it read when it pauses the
incident, the mode it hands to the policy, the deployment to go back to), so it is
as stale as in the code. A job is `<<kind, number>>`, one idempotency key. `Fragile` names the
points at which a call may fail or its answer be lost.

**Deployment.** An attempt is a number; `attempt` says which have a proposal, a
pushed commit and a preview, as the columns of `repair_attempts` do. `risk[a]` is
the diagnosis in the row, `asked[a]` the one in the payload of the repair job:
`create_repair_attempt` keeps the first, a retried diagnose job may enqueue another.
`chosen` is the payload of the production job, whose key names the incident
alone. Approving takes three steps, as the three statements of `approve_incident`
outside a transaction do. What model, sandbox and preview answer is a choice.

**Landing.** A deployment is named by what it was built from: the baseline, the
repair, its merge, anything else. `current` is Vercel's production target, which
`find_current_production_for_commit` and `get_project` read; others may change it (`TargetDrifts`), a
promoted or merged build becomes it when it is ready (`BuildActivates`), and an
accepted rollback restores its deployment later (`VercelRestores`). `rows` and
`knownGood` are the READY rows of the table and the mark; `RefreshKnownGood` is
the trigger, held back by `resolvedAt`, the column, not by the incident's state.

**SourceRecovery.** A revert is the number of its pull request. `CreateRevert` is
the mutation that is sent once, with its lost answers; `attested` the audit record that makes
a later run trust it. People merge, push and deploy at any time.

**Protection.** `rows` is the table in the order of `created_at`, which is the
order in which NoPager learns of deployments. A poll reads one page and goes
through it from the newest to the oldest, with `save_deployment` and `open_incident`
for each; webhooks do the same for one deployment. `LookForActive` and
`InsertIncident` are the two statements of `open_incident_tx`, and the unique
index of migration 0002 decides between two workers.

Every module but `IncidentStates`, `Policy`, `RestartOnce`, `Promotion`, `LandOrRestore` and `Handlers`
also holds a few operators marked "Regression": a definition as a plausible bug
would have it. They take no part in the specification; substituted for the
definition they stand before, they break the property they are paired with in
`PROJECT.json`, which shows that the property depends on that piece of code.

## Runs

| Run | Instance | Checks |
|---|---|---|
| `runtime_helper` | 3 connections, 2 request ids, every crash and lost message; 516 000 states | `AtMostOneRestart`: of all connections with one request id at most one ever hands Docker a restart, across helper crashes and power failures. `SuccessMeansRestarted`, `NotStartedIsTrue`: what any client is told is true. `AcknowledgedIsDurable`: a success answered first-hand is on stable storage before it is answered. `CompletionIsFinal`: a recorded outcome is not replaced. `ImplementsRestartOnce`: refinement |
| `job_queue` | 3 processes, two under one name; jobs with 1, 2, 3 attempts; 2 900 states | `OneRunner`, `LeaseIsKept` (nobody takes a job from a living process, even under its name), `AttemptsBounded`, `FinishedForGood` |
| `operations` | 1 incident, 2 workers, failing statements and crashes, one resume; 1.39 M states | `SentAtMostOnce`, `SentOnlyIfGranted`, `RejectedIsNotSent`, `RowIsTruthful`, `ResolvedMeansRecovered`, `WaitingIsDecidable` (what waits for approval can be approved and rejected), `OutcomeIsFinal`, `ClosedOrPaused` |
| `operations_live` | 1 incident, 2 workers, no faults, fairness | `NoneStuck`: every incident in the hands of the worker leaves them |
| `health_monitor` | 3 workers, 3 incidents, 12 probes; 7 600 states | `OneActiveIncident`, `OutageIsAttended`, `OpensAfterThree` |
| `deployment` | 1 incident, 2 workers, 2 attempts per job, 2 repair attempts, lost answers of Vercel; 368 000 states | `PromotedWasVerified`: only attempts whose preview was READY and healthy are promoted, though the promotion names the attempt in a payload that an approval or a handler wrote. `PromotedWasGranted`: that attempt was approved or allowed. `RejectedIsNotPromoted`. `AttemptsBounded`: the project's limit holds. `AllowedIsHarmless`: without an approval only what the diagnosis behind the repair calls low risk goes to production. `ImplementsPromotion`: refinement, with retries and follow-ups |
| `deployment_resume` | 1 incident, 2 workers, one resume, no faults, fairness; 176 000 states | `NoStaleMutation`: what was made before a resume does not reach production after it. `NoneStuck`, for incidents that were not resumed. `ImplementsPromotion`: refinement, with a resume |
| `landing` | 1 incident, 2 workers, lost answers of GitHub and Vercel, one foreign change of the target; 688 000 states | `MergedAfterWatch`, `ResolvedMeansRecovered` (a merged repair is resolved only after the watches of the merge), `BaselineKept` (the deployment to roll back to does not move before that), `ImplementsLandOrRestore`: refinement, with one attempt for the jobs that end a trial |
| `source_recovery` | 1 incident, 2 workers, crashes, failing statements, 2 reverts; 989 000 states | `RevertedOnce`, `ClosedMeansRecovered` |
| `protection` | 2 workers, 1 browser, 2 deployments, 1 workflow run, fairness; 381 000 states | `OneActivePerCause`, `BaselineIsSound`, `FailureIsAttended` (liveness) |
| `repair_reopened` | 2 workers, 2 browsers, 2 deployments | finding, below |
| `landing_retried` | 1 incident, 1 worker, two attempts for the watch, the answer to its last statement lost | finding, below |

The type invariants are theorems, and no run repeats them.

Three properties of `Operations` are restricted to `OperationsOnly(i)`: incidents
that were never given a repair attempt. A resumed incident may run through the
repair pipeline, which does not know `operations_actions`; with three resumes a
build job left over from the first one can turn an escalated incident into a
paused one, whose plan is then made again. `ClosedOrPaused` states what remains
true of closing: "closed stays closed" does not hold, for the same reason (the
edge to Paused exists from every state, `can_transition_to`, and the build
handler takes it without looking, `legacy_pipeline.rs:332`).

`CHECK_DEADLOCK FALSE` is used where the system may come to rest: every incident
closed and the bounds used up (`Operations`, `Deployment`, `Landing`,
`SourceRecovery`), every probe made (`HealthMonitor`). `JobQueue`,
`RuntimeHelper` and `Protection` are checked for deadlock; there it says little, since an enqueue
without effect, a power failure or a poll are always possible.

## Bounds

- *Connections and requests.* Two tasks with one request id meet in the
  journal; the third connection is the one that comes after a crash of the other
  two, and the second id shows that requests do not disturb each other. No
  property relates more.
- *Workers.* Two suffice for a handler to overtake another; three in `JobQueue`
  and `HealthMonitor`, so that two under one name and one under another, or
  three observations in flight, occur.
- *Attempts.* Execute and verify jobs have one attempt, as in the code; that is an
  assumption of `Operations` (`OperationsAssumption`). All other
  jobs have three in `operations_live`, the code's number for all but context jobs
  (five), and one in `operations`, where two workers, failing statements and crashes
  make up the cases; a crash is never followed by a retry anyway, since nothing reclaims
  the job. That a handler which failed anywhere is run again and does no harm is proved
  for any number of attempts (`OperationsProofs`).
- *`MaxResumes` = 1.* A resume starts the only pipeline there is beside the
  operations pipeline; more resumes repeat it. What needs three is stated above.
- *`Tries` = 2.* Enough to tell "once" from "twice": `SentAtMostOnce` compares
  two.
- *`Required` = 2.* The code takes 2 or 3 from the model's plan; a failed check
  is terminal, so the count is only ever 1, …, `Required`.
- *`MaxProbes` = 12.* An outage takes three, a recovery two: two full outages
  and a start of a third.
- *Jobs of `Deployment`.* Two attempts each: a handler that fails, at a point of
  `Fragile` or on an error of its own, is run once more; `DeploymentProofs` has any
  number of attempts, failures at almost any point and crashes. `MaxRepair` = 2 of the project's three attempts: one follow-up is
  allowed and the next refused; `MaxMade` = 3 leaves room for the one that must
  not be made. With a resume the jobs have one attempt and there is one repair
  attempt before and after it.
- *`Fragile`* lists where a provider's answer may be lost after it acted: preview
  and promotion in `deployment`, merge and rollback in `landing`; in
  `source_recovery` every statement of the preparation and the closure. Explicit
  errors ("not READY yet", "head moved", "no such pull request") are choices of
  the handlers and need no entry.
- *Jobs of `Landing`.* Merging and rolling back have two attempts, the other jobs
  one, and no process dies. With a lost answer of a watch that is retried,
  `ResolvedMeansRecovered` fails: the run
  `landing_retried` shows it, and A20 under the disagreements says how.
- *Polls.* `MaxPoll` = 0 in `landing`: one poll that finds nothing, then the time-out;
  60 would only repeat the first. `MaxReview` = `MaxPoll` = `Early` = 1 in
  `source_recovery` for the same reason.
- *`MaxDrifts`, `MaxServes`.* How often the production target changes by somebody
  else's hand: once at any moment (`landing`), twice (`source_recovery`: the revert's
  deployment becomes current, and something else afterwards).
- *`MaxReverts` = 2.* One more than there must be.
- *`MaxDeployed`, `PageSize` = 2.* An earlier and a later deployment, so that
  reports arrive out of order; both fit on a page, which is what
  `FailureIsAttended` assumes of the failures between two polls.
- *`MaxEnded`, `MaxLost` = 1.* An incident that ends while its failure is still on
  the page; a webhook or poll that is lost at any point.
- Symmetry is used with safety properties only.

## Fairness

`FairSpec` asks weak fairness of `WorkerStep(w)` for each worker: the loop in
`apps/worker/src/main.rs` polls every 750 ms and the handlers have no other
source of waiting than calls with a timeout. No fairness is asked of
administrators, of the health check, of Docker or of the end of a cooldown; a
call to the helper that is not answered times out, which is a `WorkerStep`. It
is enough for `NoneStuck` and it is not enough for anything that depends on a
person, so `InProgress` leaves out incidents that wait for one. `NoneStuck` is
checked without faults: with them it is false (hazards of
kind partial_failure and crash_recovery in `PROJECT.json`).

`Deployment` has the same fairness, and asks that an approval that was begun is
finished; an approval that the server loses half-way (`HalfApproved`) is one of the
ends `NoneStuck` admits, since only the administrator can repeat it.
`Protection` asks weak fairness of each handler that has begun, and strong
fairness of polling by some worker: the scheduler enqueues a poll every 30 s and
claims are made in order, so a worker that is free again and again polls again
and again. No delivery of a webhook is assumed.

## Proofs

All theorems hold for every value of the constants that the named assumptions of the
modules admit. The assumptions are types and bounds (`AttemptsAssumption`,
`MonitorAssumption`, `ProtectionAssumption`, `LandingAssumption`,
`SourceRecoveryAssumption`); only `OperationsAssumption` says more, that an execute or
verify job has one attempt, which is the number its callers pass
(`operations_runtime.rs:374`, `:592`, `:667`; db:877). tlapm checks the proofs with Z3,
Zenon and LS4.

**RuntimeHelperProofs** (no assumption on the constants).
`AtMostOneRestart` is not inductive: it says nothing of the connection that has
created the file and not yet called Docker. The invariant adds *Ownership* (two
connections of one request that won the claim are one), *OwnerRecord* (how far
the owner has come determines the file as seen and as stored), *DurableRecord*
(a command was issued only under a synced record; the directory is never behind
the disk), and what each connection may have been told where it stands. Crashes
are the delicate step: all owners vanish, and only `DurableRecord` keeps the next
connection from winning the claim. `Refinement` proves
`Spec => ImplementsRestartOnce` step by step: 26 kinds of steps are stutters or
one of the five steps of `RestartOnce`.

**JobQueueProofs.** The invariant links rows and leases: a lease is of a RUNNING
row with the same attempt number, and two leases of one job are one. It needs no
assumption on names, which is the point: `locked_by` alone would not protect a
job.

**HealthMonitorProofs.** The invariant relates the row to the debouncer that
sees the same observations (equal failure counts; while the row is DOWN the debouncer is Down,
with the same successes) and adds that a row that is down has been attended since.

`OpensAfterThree` needs a second invariant, `Window`: the failure counter never
exceeds the run of failures at the end of the observations recorded so far.

**ProtectionProofs.** `OneActivePerCause` rests on the guard of the insert alone,
which is what a unique index is for: no fact about what handlers have read is
needed. `BaselineIsSound` is not inductive: a report in hand may still be written,
and a mark may move to any READY row. The invariant adds that Vercel's final states
stay, that every row, every page in hand and every deployment a setup found says what
Vercel said of it; an upsert then keeps the one mark (`SaveKeepsMarks`) and the trigger
moves it to a finished production build. `ProtectionTypeOK` rests on both, and on
Vercel numbering its deployments in order (`ProjectTypes`): only so has the setup a
newest deployment to date the project by.

**Handlers above the queue.** `Operations`, `Deployment`, `Landing` and
`SourceRecovery` are users of one queue, and their proofs begin alike. `Basic` is the type invariant, the
invariant of `JobQueueProofs` taken over by `INSTANCE` (each step of the module is a
step of the queue or leaves it alone, lemma `QueueStep`), and *Agreement*: a worker
that stands inside a handler holds the lease of a job of that handler's kind. Lemmas
then say once which action takes a worker from where to where (`CameFrom`) and who
enqueues what (`NewJobs`), so that the proofs of the properties seldom open an action.
The theorems `OperationsQueue`, `LandingQueue` and `RecoveryQueue` state the use of the queue:
what is proved of `JobQueue` holds of the jobs of these pipelines.

**OperationsProofs.** `IInv` has five more layers, each proved from those before it.
*Grants*: an execute job exists only for a granted action. *Once*: as long as the
execute job has not been claimed, and while its worker stands before the call,
nothing was sent; that the job can be claimed once (one attempt, from the assumption) and that one
worker has its lease make `SentAtMostOnce` of it. *Truth*: while the container may
still change, no outcome is recorded; a refusal excludes that the command was carried
out. *Chain*: verify jobs come one after the other, each when the checks before it
passed, so an incident that is resolved has passed all of them; here it matters that no two workers
check one incident at a time. *Alone*: an incident that was never handed to the repair
pipeline moves in step with its action; `RejectedIsNotSent`, `WaitingIsDecidable` and
`OutcomeIsFinal` are read off it. It is the most delicate layer, since the incident and
the action are two rows written in separate statements, and the administrator may
write either in between. `ClosedOrPaused` needs only `Basic`.

**SourceRecoveryProofs.** `RevertedOnce` rests on the queue: there is one
`verify-rollback` job and one worker in it, so nobody opens a revert between that
worker's search and its creation, and a retry finds the revert whose answer was lost.
`ClosedMeansRecovered` rests on monotony instead: what makes a recovery sound, except that
the pull request stays as created, only grows, and once merged it cannot drift (`Grows`,
`RecoveredStays`); each job of the chain review, production, watch is enqueued by a worker
that has seen its share of it (`Follows`).

**LandingProofs.** `Follows` says that what the key of an enqueued job claims of the
watches before it is true; since `passed` only grows, no mutual exclusion is needed, and
retries, lost answers and crashes do no harm to `MergedAfterWatch` and `BaselineKept`.
For `ResolvedMeansRecovered` this is not enough: a landing and a rollback may both be under
way (`landing_retried`). What holds whatever fails is `LandingResolvedEitherWay`: an
incident is resolved only after the watches of the merge or with a rollback asked for.

`LandingResolvedMeansRecovered` needs mutual exclusion. *OneTrial*: the promoted build is in
one hand at a time, that of a worker that verifies or watches it and has not handed over, or of
a job that waits to be claimed. Each step gives it to nobody new, or from a worker to a
job (by an enqueue, or when the job is to be retried), or from a job to a worker (by a claim):
lemma `TrialMoves`. *Apart*: the trial ends in one of two ways, a landing job or a rollback
job that does not say "merged"; either way there is no trial left that could begin the other,
everything after the merge comes after the landing job, and an incident is resolved at the end
of one of them. The theorem assumes *Orderly*: no call fails when the trial has handed over,
that is at `<<"verify-production", "ok">>` and `<<"watch", "ok">>`. Calls may fail anywhere
else, every job may have any number of attempts, and processes may die anywhere; the run
`landing` satisfies it. Neither point can be spared. With the second, TLC finds
`landing_retried`; with the first alone, and two attempts, it finds that a first verification
retried after the merge takes the repair, which is no longer the production target, for a
failed promotion and begins a rollback that does not know of the merge, verified and
resolved like the other.

`LandingImplements` is the refinement of `LandOrRestore`, under *Orderly* as well. The way a trial
ended is read off the queue (a landing job, or a rollback that does not say "merged", was
enqueued), the watches off `passed`, a closed incident off the column `resolvedAt`. Steps are
classed by what they change of this, one lemma per kind of change: a watch passed, a job
enqueued, the merge, the mark, the incident. *Follows* says that watches come in order, that
the merge comes after them and the mark after those of the merge; *Apart* that a trial ends
once; *Stamped*, a small invariant of its own, that a resolved or rolled back incident has
`resolvedAt` set, and that it stays set: the trigger then moves the mark only when the abstract
incident is closed.

**DeploymentProofs.** `DeploymentTypeOK` and `DeploymentPromotedWasGranted` hold for
any faults: whatever fails or dies, and whoever came first to write the payload of the
promotion, the attempt that goes to production was approved or allowed.

The other theorems assume *Orderly*: a call may fail at any point of a handler except
those where it has already handed the incident over. These are the handler's last
statement, mostly the enqueue of the next job, when it takes effect and its answer is
lost (`<<kind, "ok">>`), and the last statements of a diagnosis that has created its
attempt, of a follow-up that has created the next one, and of a verification that has
moved the incident to PRODUCTION_DEPLOYING. Processes may die at any point, these
included, since a job left RUNNING is not retried; a failing `complete_job` or `fail_job`
ends the worker and is such a death. Both runs of `Deployment` satisfy Orderly. It is a
restriction of the faults, not of the code: a retry after the hand-over runs beside the
next job of the same incident. With one such point at a time and two attempts per job
TLC finds

| Lost at | violated |
| --- | --- |
| `<<"build", "ok">>`, `build.again`, `build.repair` | `AttemptsBounded` |
| `diagnose.plan` | `AllowedIsHarmless` |
| `<<"preview", "ok">>`, `<<"verify", "ok">>`, `<<"production", "ok">>` | `NoStaleMutation`, with one resume |
| `verify.enqueue` | none, with and without a resume |
| `<<"context", "ok">>`, `<<"diagnose", "ok">>`, `<<"repair", "ok">>` | none in the part reached |

so seven of the eleven restrictions are needed, and the disagreements below tell what
happens there; of the other four the proof has nothing to say.

Under it the incident passes from hand to hand like a *Token*: one worker is active, or
one job is ready, or nothing is going on, and whoever has it may rely on the incident's
state at its point of its handler, on the current attempt being its own, and, for the
promotion, on its having been verified since the last resume. A pause, a rejection or an
escalation puts the token down; a resume or an approval takes it up, and cannot do so
twice. The *Ledger* says what the rows, the payload of the production job and the history
mean meanwhile: attempts are numbered in order and the current one is the last, what waits for an
approval was verified, and a promotion enqueued before a resume names an attempt that is
stale. `PromotedWasVerified`, `RejectedIsNotPromoted` and `NoStaleMutation` follow. The
delicate steps are the approval, whose three statements leave the token on the table
between them (*Held*), and the production job, whose key survives a resume (*Old*).

`AttemptsBounded` adds the *Budget*: a follow-up is made of the last attempt only, so its
number is the number of attempts made, and one is reserved after a resume.
`AllowedIsHarmless` adds *Diagnosed*: the diagnosis in the row of an attempt, in the payload of its repair
job, and in the hands of a handler that is about to enqueue one, are the same.

`DeploymentImplements` is the refinement of `Promotion`, under *Orderly* as well. The phase is
read off the incident, granted is what was approved or allowed, and the allowance is the
project's limit plus one for each resume. Token, Ledger and Budget carry over; one small
invariant is added, *Delivers*: a handler that is about to move the incident from
PRODUCTION_DEPLOYING to VERIFYING_PRODUCTION has promoted the current attempt. Steps are classed by what they
change: the incident, the attempts, the sets of verified and promoted attempts, the
administrator's. An approval is two steps of `Promotion`, `Accept` and `Grant`, since the code
writes the incident and the decision in different statements; the second may come when the
incident has moved on, but then (*Held*) the production job is there already and keeps the
attempt it was enqueued for.

Two further theorems are about the abstract specifications alone, so that what they
are refined for does not rest on reading them: `PromotionPromises` (only verified and granted attempts are
promoted, none that is rejected before or after, and no more than the allowance are made) and,
in `LandingProofs`, `LandOrRestorePromises` (a repair is merged after all its watches and instead of a
restoration; an incident is resolved when production was to be restored, or the merge
has passed its watches).

The same module holds three theorems about `Policy`: two facts, one worse than the other in
any combination of respects, are compared case by case; the functions have no state, so
there is no run for them.

Left to TLC:

- liveness (`NoneStuck`, `FailureIsAttended`), which is out of the provers' reach.

Every safety invariant and action property of a passing run is a theorem.

## Where the code and its documents disagree

Two runs end with a counterexample (`PROJECT.json`, "findings").

`repair_reopened`: a failed deployment stays on the page that is polled every 30 s, and
`open_incident_tx` takes no notice of an ESCALATED incident with the same key, so
that repair of the failure an administrator was called for starts over
(`legacy_pipeline.rs:1718`; `docs/ALPHA_TEST_MATRIX.md:14`, A8).

`landing_retried`: the last watch of the promoted build enqueues `land-repair` and then
fails to learn so. Its retry finds production ill and begins a rollback whose payload
says that the repair is not merged, while `land-repair` merges it. The verification of
the rollback believes the payload and resolves the incident, with the failed repair on
the protected branch (`main.rs:552`; `docs/ALPHA_TEST_MATRIX.md:29`, A20: the incident
remains ESCALATED).

The following were met while modelling. The modules have the behaviour, and the
properties are stated so as to leave it out; file names without a directory are in
`apps/worker/src`, `db` is `crates/nopager-db/src/lib.rs`, A-numbers are those of
`docs/ALPHA_TEST_MATRIX.md`.

*Helper and operations.*
- A duplicate that reads the claim file between its creation and its write fails to
  parse it and is answered "not started" while the first request goes on
  (`apps/runtime-helper/src/lib.rs:319`; `docs/RUNTIME_HELPER_SECURITY.md:55`:
  ambiguous). `NotStartedIsTrue` is the part that holds; the worker sends each
  request once.
- The Kill Switch is read at the start of the handler only; a restart is sent after
  it was pulled (`operations_runtime.rs:438`; `docs/OPERATIONS_QUICKSTART.md:141`).
- A handler that decided to pause on a stale snapshot pauses the incident after
  protection was resumed; nothing takes it up again (`operations_runtime.rs:440`;
  `docs/SELF_HOSTING.md:130`).
- A process that dies between recording AMBIGUOUS and escalating leaves the incident
  in REPAIRING, its job RUNNING (`operations_runtime.rs:559`; `README.md:116`).
- When a statement of the plan handler fails after it enqueued the execution, the
  next incident is planned before the first restart is in the audit log and restarts
  the container within the cooldown, which is not read again
  (`operations_runtime.rs:477`; `docs/OPERATIONS_QUICKSTART.md:132`).
- A plan made on a snapshot in Autopilot is carried out without approval after the
  switch to Safe Mode (`operations_runtime.rs:326`; `README.md:112`).
- Resuming hands an incident of an operations-only project to the repair pipeline
  (db:1307; `docs/OPERATIONS_QUICKSTART.md:119`).
- When an incident is resolved while its check is still DOWN, three more failures
  open nothing (db:450; A2). One failed probe after a single success takes a check
  from DOWN to FAILING, so that an outage ends without two successes (db:445;
  `README.md:168`).

*Deployment.*
- `approve_incident` promotes the incident's current attempt; when a retried build
  job made a new one meanwhile, that is not the attempt whose preview was verified
  (db:909; `docs/PR_NOTES.md:7`). The same retries make one attempt more than the limit (A8).
  Both need a call of a build job that fails after it created or enqueued the next
  attempt, and `deployment` has none (`Orderly`, under the proofs). Likewise a diagnose
  job that is retried after it created its attempt may enqueue the repair with another
  diagnosis than that in the row, which is the one the policy is asked about.
- A preview job whose last enqueue takes effect while its answer is lost is retried.
  Meanwhile verification allows the promotion and the production job's handler has read
  the incident and the Kill Switch, once, at its start (`legacy_pipeline.rs:793`). The
  Kill Switch is pulled, the retried preview pauses the incident, the administrator
  resumes, and the waiting handler promotes the attempt from before the pause
  (`docs/SELF_HOSTING.md:130`: "Resuming does not blindly continue stale mutation
  state"). A retried verification or production job does the same. `deployment_resume`
  has no such fault, and there `NoStaleMutation` holds.
- The production job's key names the incident alone: when it was used up before a
  pause, the approval after the resume enqueues nothing and the incident stays in
  PRODUCTION_DEPLOYING (`docs/SELF_HOSTING.md:130`). `NoneStuck` is therefore stated of
  incidents that were not resumed.
- A promotion whose answer was lost is asked for again and builds once more.

*Landing.*
- A20, beside `landing_retried`: a failure between marking the merge known good and
  resolving, followed by an ill check, rolls back to the deployment that is ill.
- A22: `escalate_incident` leaves a ROLLED_BACK incident as it is, so a rollback that
  cannot be verified calls nobody (`main.rs:927`, db:758).
- A21: from ROLLED_BACK on the incident has a `resolved_at`, and the trigger may mark
  the failed repair, the newest READY row, known good; the verification of the
  rollback then waits for the wrong deployment (migration `0005`, line 21).
- A23: the target may change between `get_project` and the rollback (`main.rs:276`).
- A15: verification of a rollback and preparation of a revert do not read the Kill
  Switch. Any error of Vercel's API during a watch starts a rollback; an incident whose repair is
  merged and whose landing job then fails for good is escalated with the repair serving.

*Source recovery.* A review that finds the incident not yet escalated gives up after
poll 3 with its key used up; one error of GitHub's or Vercel's ends the automatic
closure.

*Protection.*
- An ESCALATED, FAILED or CANCELLED incident has no `resolved_at` and holds the
  trigger back for good.
- A page is saved newest first, so of two new READY deployments the older one has the
  later `created_at` and takes the mark.
- The deployment a setup request found may have been replaced when the project is
  created (A34); deployments made before that are never polled.
- Webhooks open incidents for failed previews, polls do not; polls report canceled
  deployments, webhooks do not; a failure that has left the page of 20 is missed when
  its webhook was lost.

## Not modelled

- Time. Intervals, backoff and delays are dropped (anything enabled may happen
  now or later); the two timeouts that matter (the client of the helper, a task
  of the helper), the end of a cooldown and the exhaustion of polls are modelled.
- Contents: evidence, source context, prompts, patches, HTTP bodies, audit entries other
  than those that are read again (cooldown, created reverts), passwords,
  signatures and encryption.
- Several incidents of one project at a time in the deployment pipeline. They share
  only the Kill Switch and the known-good mark; the latter is in `Protection`.
- Enrolling a container (`apps/server/src/operations_setup.rs`): one transaction
  under an advisory lock, for a project without deployments; the helper's own list
  of enrolled containers is a file read at start.
- PostgreSQL itself: a statement or a transaction with its locks is one atomic
  action.
- The older handlers `verify_production`, `process_post_deploy_watch` and
  `verify_rollback` of `legacy_pipeline.rs`: `main.rs` takes their jobs before they
  are reached.
- The HTTP side of GitHub, Vercel and model providers: their outcome is a choice in the
  modules that call them. Sandbox: runs processes, pass or fail. CLI, web interface,
  configuration, cryptography: no state of their own.

## Plan

Done: the modules above with their runs; the proofs of `RuntimeHelper`, `JobQueue`,
`HealthMonitor`, `Policy`, `Protection`, `Operations`, `SourceRecovery`, `Landing` and
`Deployment`, with the refinements of `RestartOnce`, `Promotion` and `LandOrRestore`. Next, in this order:

1. `DeploymentProofs` without *Orderly* at the four points where TLC finds no violation
   (`verify.enqueue` and the last statements of context, diagnosis and repair): a
   retried job that finds the incident moved on does nothing, so the token may be
   shared with jobs that will find so. A resume makes such a job live again, which
   the Token as it stands excludes.
2. What `SourceRecovery` promises as an abstract specification that begins where
   `LandOrRestore` undoes a merge.
