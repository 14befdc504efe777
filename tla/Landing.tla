------------------------------ MODULE Landing ------------------------------
(***************************************************************************)
(* From the promotion of a verified repair to the end of the incident: the *)
(* handlers of apps/worker/src/main.rs that verify and watch the promoted  *)
(* build, merge the repair into the protected branch, verify and watch the *)
(* production deployment of the merge, and roll production back when a     *)
(* check fails; with the deployments table and the trigger of migration    *)
(* 0005 that keeps its known-good mark.                                    *)
(*                                                                         *)
(* Starts where Deployment stops: the incident is VerifyingProduction with *)
(* its first verification queued.  When a merged repair was rolled back,   *)
(* SourceRecovery takes over.                                              *)
(*                                                                         *)
(* Abstracted: a deployment is named by what it was built from; audit      *)
(* records and the cleanup of sandboxes; what a health check answers is a  *)
(* choice; time.                                                           *)
(***************************************************************************)
EXTENDS Naturals, Sequences, IncidentStates

CONSTANTS
  Workers,      \* worker processes
  NameOf,       \* their worker ids
  Attempts,     \* Attempts[k]: max_attempts of jobs of kind k
  MaxPoll,      \* polls for a deployment to become current (60 in the code)
  MaxDrifts,    \* bound: changes of the production target by somebody else
  Fragile,      \* bound: the points of a handler at which a call may fail
  MayCrash      \* bound: whether processes die

Kind == {"verify-production", "watch", "land-repair", "verify-durable",
         "durable-watch", "rollback", "verify-rollback"}

ASSUME LandingAssumption ==
  /\ Attempts \in [Kind -> Nat \ {0}]
  /\ MaxPoll \in Nat
  /\ MaxDrifts \in Nat
  /\ MayCrash \in BOOLEAN

Polls  == 0..(MaxPoll + 1)
Checks == 0..2

Jobs ==
  {<<"verify-durable", 0>>, <<"rollback", 0>>}
    \union ({"watch", "durable-watch"} \X Checks)
    \union ({"verify-production", "land-repair", "verify-rollback"} \X Polls)

MaxAttempts == [j \in Jobs |-> Attempts[j[1]]]

Handled == Kind

\* The deployment known good before the incident, the promoted build of the
\* repair, that of its merge commit, and any other (the failing one included).
Built == {"good", "repair", "merge", "other"}

VARIABLES
  incident, job, lease, pc, work,   \* the handlers (Handlers)
  paused,      \* the project's Kill Switch
  blame,       \* payload of the rollback job: whether the repair was merged, and
               \* the deployment expected to be current
  rows,        \* READY production deployments in the table, oldest first
  knownGood,   \* the one marked known good, or "none"
  resolvedAt,  \* whether the incident has a resolved_at
  merged,      \* GitHub: the repair is on the protected branch
  current,     \* Vercel: the production target; "none" in the middle of a rollout
  restoring,   \* Vercel: the deployment a rollback that was accepted is to restore
  activated,   \* Vercel: the builds of NoPager's that have become the target
  drifts,      \* bound: how often somebody else changed the target
  passed       \* history: the watches that passed

handlerVars == <<incident, job, lease, pc, work>>
tableVars   == <<blame, rows, knownGood>>
outsideVars == <<merged, current, restoring, activated, drifts>>

vars == <<handlerVars, paused, tableVars, resolvedAt, outsideVars, passed>>

\* What a handler has read: the incident's state, the known-good deployment.
Work  == [state : IncidentState, good : Built \union {"none"}]
Blank == [state |-> "Open", good |-> "none"]

INSTANCE Handlers

Point ==
  Kind \union Ends \union
  {"escalate.move", "pause", "begin", "begin.move", "begin.enqueue",
   "verify.find", "verify.next", "verify.save", "verify.health", "verify.watch",
   "watch.current", "watch.health", "watch.next", "watch.land",
   "land.merge", "land.find", "land.next", "land.save", "land.verify",
   "durable.current", "durable.health", "durable.next",
   "durable.mark", "durable.resolve",
   "rollback.target", "rollback.request", "rollback.move", "rollback.enqueue",
   "restored.current", "restored.next", "restored.health", "restored.revert",
   "restored.resolve"}

TypeOK ==
  /\ incident \in IncidentState
  /\ Q!TypeOK
  /\ pc \in [Workers -> Point]
  /\ work \in [Workers -> Work]
  /\ {paused, resolvedAt, merged} \subseteq BOOLEAN
  /\ blame \in [merged : BOOLEAN, expected : Built \union {"none"}]
  /\ rows \in Seq(Built)
  /\ {knownGood, current, restoring} \subseteq Built \union {"none"}
  /\ activated \subseteq {"repair", "merge"}
  /\ drifts \in 0..MaxDrifts
  /\ passed \subseteq {"watch", "durable-watch"} \X Checks

\* Production is served by the known-good deployment or by the one that failed.
Init ==
  /\ incident = "VerifyingProduction"
  /\ job = [j \in Jobs |->
              IF j = <<"verify-production", 0>>
              THEN [Q!Absent EXCEPT !.status = "PENDING"] ELSE Q!Absent]
  /\ lease = [w \in Workers |-> Q!NoLease]
  /\ pc = [w \in Workers |-> "idle"]
  /\ work = [w \in Workers |-> Blank]
  /\ paused = FALSE
  /\ blame = [merged |-> FALSE, expected |-> "none"]
  /\ knownGood \in {"good", "none"}
  /\ rows = IF knownGood = "none" THEN <<>> ELSE <<"good">>
  /\ resolvedAt = FALSE
  /\ merged = FALSE
  /\ current \in {"good", "other"}
  /\ restoring = "none"
  /\ activated = {}
  /\ drifts = 0
  /\ passed = {}

-------------------------------------------------------------------------------
(* What each handler does with the incident it reads.                      *)

\* Whether a handler that was to wait for a deployment has waited long enough.
TimedOut(w) == Number(w) > MaxPoll

PausedEntry == IF incident = "Paused" THEN "ok" ELSE "pause"

\* process_rollback_action; without a known-good deployment it is an error.
RollbackEntry ==
  IF paused THEN PausedEntry
  ELSE IF incident # "RollingBack" THEN "ok"
  ELSE IF knownGood = "none" THEN "err"
  ELSE "rollback.target"

\* persist_verified_repair.
LandEntry(w) ==
  IF paused THEN PausedEntry
  ELSE IF incident # "VerifyingProduction" THEN "ok"
  ELSE IF TimedOut(w) THEN "err"
  ELSE "land.merge"

\* verify_rolled_back_production.
RestoredEntry(w) ==
  IF incident # "RolledBack" THEN "ok"
  ELSE IF knownGood = "none" THEN "err"
  ELSE IF TimedOut(w) THEN "escalate"
  ELSE "restored.current"

\* The four that verify a repair in production.
VerifyEntry(w) ==
  IF incident # "VerifyingProduction" THEN "ok"
  ELSE CASE pc[w] = "verify-production" -> IF TimedOut(w) THEN "begin" ELSE "verify.find"
         [] pc[w] = "watch"             -> "watch.current"
         [] OTHER                       -> "durable.current"

Entry(w) ==
  CASE pc[w] = "rollback"        -> RollbackEntry
    [] pc[w] = "land-repair"     -> LandEntry(w)
    [] pc[w] = "verify-rollback" -> RestoredEntry(w)
    [] OTHER                     -> VerifyEntry(w)

ReadWork(w) ==
  /\ pc[w] \in Kind
  /\ LET to == Entry(w) IN
     Read(w, pc[w], to, CASE to = "pause" -> [Blank EXCEPT !.state = incident]
                          [] pc[w] \in {"rollback", "verify-rollback"} ->
                               [Blank EXCEPT !.good = knownGood]
                          [] OTHER -> Blank)
  /\ UNCHANGED <<incident, job, lease, paused, tableVars, resolvedAt, outsideVars,
                 passed>>

-------------------------------------------------------------------------------
(* Steps that several handlers take.                                       *)

\* transition_incident stamps resolved_at, once and for all.
Stamp == resolvedAt' = (resolvedAt \/ incident' \in {"Resolved", "RolledBack"})

\* A step of a handler that changes the incident or the queue only.
Plainly == Stamp /\ UNCHANGED <<paused, tableVars, outsideVars, passed>>

\* The Kill Switch takes the incident from whatever state was read to PAUSED.
PauseLanding(w) ==
  /\ pc[w] = "pause"
  /\ Transition(w, "pause", work[w].state, "Paused", "ok")
  /\ Plainly

\* get_deployment or list_deployments, which report a deployment as a production
\* deployment only while it is the project's current target.
FindCurrent(w, from, d, found, missing) ==
  Choose(w, from, IF current = d THEN found ELSE missing)

\* require_healthy.
CheckHealth(w, from, well, ill) == Choose(w, from, well) \/ Choose(w, from, ill)

\* save_deployment of a READY deployment: an upsert.
Saved(d) == IF \E i \in DOMAIN rows : rows[i] = d THEN rows ELSE Append(rows, d)

\* Regression: the rollback of a merged repair does not say that it was merged.
BlameNothing(w) == [merged |-> FALSE, expected |-> "none"]

\* What the two verifications of the merge, and those of the promoted build, say
\* in the payload of the rollback job.
Blame(w) ==
  IF KindOf(w) \in {"verify-durable", "durable-watch"}
  THEN [merged |-> TRUE, expected |-> "merge"]
  ELSE [merged |-> FALSE, expected |-> "none"]

\* begin_rollback and begin_durable_rollback.
BeginRollback(w) ==
  \/ /\ Choose(w, "begin", IF knownGood = "none" THEN "escalate" ELSE "begin.move")
     /\ Plainly
  \/ /\ Transition(w, "begin.move", "VerifyingProduction", "RollingBack", "begin.enqueue")
     /\ Plainly
  \/ /\ pc[w] = "begin.enqueue"
     /\ EnqueueStep(w, "begin.enqueue", <<"rollback", 0>>, "ok")
     /\ blame' = IF job[<<"rollback", 0>>].status = "absent" THEN Blame(w) ELSE blame
     /\ Stamp
     /\ UNCHANGED <<paused, rows, knownGood, outsideVars, passed>>

EnqueueNext(w, from) ==
  /\ pc[w] = from
  /\ EnqueueStep(w, from, <<KindOf(w), Number(w) + 1>>, "ok")
  /\ Plainly

-------------------------------------------------------------------------------
(* The promoted build: verify_promoted_production, watch_promoted_production. *)

\* find_promoted_production; an error of Vercel's is taken for a failed deployment.
FindPromoted(w) ==
  /\ \/ FindCurrent(w, "verify.find", "repair", "verify.save", "verify.next")
     \/ Choose(w, "verify.find", "begin")
  /\ Plainly

SavePromoted(w) ==
  /\ Choose(w, "verify.save", "verify.health")
  /\ rows' = Saved("repair")
  /\ Stamp
  /\ UNCHANGED <<paused, blame, knownGood, outsideVars, passed>>

CheckPromoted(w) ==
  /\ CheckHealth(w, "verify.health", "verify.watch", "begin")
  /\ Plainly

EnqueueWatch(w) ==
  /\ EnqueueStep(w, "verify.watch", <<"watch", 0>>, "ok")
  /\ Plainly

VerifyPromoted(w) ==
  \/ FindPromoted(w) \/ EnqueueNext(w, "verify.next") \/ SavePromoted(w)
  \/ CheckPromoted(w) \/ EnqueueWatch(w)

WatchCurrent(w) ==
  /\ \/ FindCurrent(w, "watch.current", "repair", "watch.health", "begin")
     \/ Choose(w, "watch.current", "begin")
  /\ Plainly

\* Regression: one watch less.
WatchTwice(w) ==
  /\ pc[w] = "watch.health"
  /\ CheckHealth(w, "watch.health", IF Number(w) < 1 THEN "watch.next" ELSE "watch.land",
                 "begin")
  /\ passed' = IF pc'[w] = "begin" THEN passed ELSE passed \union {<<"watch", Number(w)>>}
  /\ Stamp
  /\ UNCHANGED <<paused, tableVars, outsideVars>>

WatchHealth(w) ==
  /\ pc[w] = "watch.health"
  /\ CheckHealth(w, "watch.health", IF Number(w) < 2 THEN "watch.next" ELSE "watch.land",
                 "begin")
  /\ passed' = IF pc'[w] = "begin" THEN passed ELSE passed \union {<<"watch", Number(w)>>}
  /\ Stamp
  /\ UNCHANGED <<paused, tableVars, outsideVars>>

EnqueueLanding(w) ==
  /\ EnqueueStep(w, "watch.land", <<"land-repair", 0>>, "ok")
  /\ Plainly

WatchPromoted(w) ==
  \/ WatchCurrent(w) \/ WatchHealth(w) \/ EnqueueNext(w, "watch.next")
  \/ EnqueueLanding(w)

-------------------------------------------------------------------------------
(* persist_verified_repair, land_and_find_production and land_repair_pr.   *)

\* An error when Vercel and GitHub disagree about the source, when no pull request
\* is found at the verified head, or when its head or base has moved.  A pull
\* request that is already merged is as good as one merged now.
MergeRepair(w) ==
  /\ \/ Choose(w, "land.merge", "err") /\ UNCHANGED merged
     \/ Choose(w, "land.merge", "land.find") /\ merged' = TRUE
  /\ Stamp
  /\ UNCHANGED <<paused, tableVars, current, restoring, activated, drifts, passed>>

FindLanded(w) ==
  /\ \/ FindCurrent(w, "land.find", "merge", "land.save", "land.next")
     \/ Choose(w, "land.find", "err")
  /\ Plainly

SaveLanded(w) ==
  /\ Choose(w, "land.save", "land.verify")
  /\ rows' = Saved("merge")
  /\ Stamp
  /\ UNCHANGED <<paused, blame, knownGood, outsideVars, passed>>

EnqueueDurable(w) ==
  /\ EnqueueStep(w, "land.verify", <<"verify-durable", 0>>, "ok")
  /\ Plainly

LandRepair(w) ==
  \/ MergeRepair(w) \/ FindLanded(w) \/ EnqueueNext(w, "land.next") \/ SaveLanded(w)
  \/ EnqueueDurable(w)

-------------------------------------------------------------------------------
(* verify_durable_production and watch_durable_production.                 *)

DurableCurrent(w) ==
  /\ \/ FindCurrent(w, "durable.current", "merge", "durable.health", "begin")
     \/ Choose(w, "durable.current", "begin")
  /\ Plainly

\* A rollback when production is ill; otherwise the next check, or after the last
\* one the end.
DurableHealth(w) ==
  LET last == KindOf(w) = "durable-watch" /\ Number(w) = 2 IN
  /\ pc[w] = "durable.health"
  /\ CheckHealth(w, "durable.health", IF last THEN "durable.mark" ELSE "durable.next",
                 "begin")
  /\ passed' = IF KindOf(w) = "verify-durable" \/ pc'[w] = "begin" THEN passed
               ELSE passed \union {<<"durable-watch", Number(w)>>}
  /\ Stamp
  /\ UNCHANGED <<paused, tableVars, outsideVars>>

EnqueueDurableWatch(w) ==
  /\ pc[w] = "durable.next"
  /\ EnqueueStep(w, "durable.next",
                 <<"durable-watch",
                   IF KindOf(w) = "verify-durable" THEN 0 ELSE Number(w) + 1>>, "ok")
  /\ Plainly

\* mark_deployment_known_good.
MarkKnownGood(w) ==
  /\ Choose(w, "durable.mark", "durable.resolve")
  /\ knownGood' = "merge"
  /\ Stamp
  /\ UNCHANGED <<paused, blame, rows, outsideVars, passed>>

ResolveLanded(w) ==
  /\ Transition(w, "durable.resolve", "VerifyingProduction", "Resolved", "ok")
  /\ Plainly

Durable(w) ==
  \/ DurableCurrent(w) \/ DurableHealth(w) \/ EnqueueDurableWatch(w)
  \/ MarkKnownGood(w) \/ ResolveLanded(w)

-------------------------------------------------------------------------------
(* process_rollback_action.                                                *)

\* rollback_target_is_controlled.
Controlled(good) ==
  \/ current = good
  \/ blame.expected # "none" /\ current = blame.expected
  \/ ~blame.merged /\ current = "repair"

\* The project's current target: unknown during a rollout, or not NoPager's to
\* replace, is a human's.
CheckTarget(w) ==
  /\ pc[w] = "rollback.target"
  /\ Choose(w, "rollback.target",
            IF current # "none" /\ Controlled(work[w].good) THEN "rollback.request"
            ELSE "escalate")
  /\ Plainly

RequestRollback(w) ==
  /\ pc[w] = "rollback.request"
  /\ Choose(w, "rollback.request", "rollback.move")
  /\ restoring' = work[w].good
  /\ Stamp
  /\ UNCHANGED <<paused, tableVars, merged, current, activated, drifts, passed>>

RollBack(w) ==
  /\ Transition(w, "rollback.move", "RollingBack", "RolledBack", "rollback.enqueue")
  /\ Plainly

EnqueueRestored(w) ==
  /\ EnqueueStep(w, "rollback.enqueue", <<"verify-rollback", 0>>, "ok")
  /\ Plainly

Rollback(w) ==
  \/ CheckTarget(w) \/ RequestRollback(w) \/ RollBack(w) \/ EnqueueRestored(w)

-------------------------------------------------------------------------------
(* verify_rolled_back_production.                                          *)

RestoredCurrent(w) ==
  /\ pc[w] = "restored.current"
  /\ \/ FindCurrent(w, "restored.current", work[w].good, "restored.health", "restored.next")
     \/ Choose(w, "restored.current", "escalate")
  /\ Plainly

\* Regression: a rollback that is verified ends the incident, whatever was merged.
RestoredIsEnough(w) ==
  /\ CheckHealth(w, "restored.health", "restored.resolve", "escalate")
  /\ Plainly

RestoredHealth(w) ==
  /\ CheckHealth(w, "restored.health",
                 IF blame.merged THEN "restored.revert" ELSE "restored.resolve", "escalate")
  /\ Plainly

ResolveRestored(w) ==
  /\ Transition(w, "restored.resolve", "RolledBack", "Resolved", "ok")
  /\ Plainly

\* prepare_draft_source_revert, whatever it finds, leaves the incident to a human
\* (SourceRecovery).
RevertSource(w) ==
  /\ Transition(w, "restored.revert", "RolledBack", "Escalated", "ok")
  /\ Plainly

VerifyRestored(w) ==
  \/ RestoredCurrent(w) \/ EnqueueNext(w, "restored.next") \/ RestoredHealth(w)
  \/ ResolveRestored(w) \/ RevertSource(w)

-------------------------------------------------------------------------------
(* Vercel, the project's feed of deployments, and the administrator.       *)

\* The promoted build, and that of the merge once there is one, become the
\* production target when they are ready, if they ever are.
BuildActivates ==
  /\ \E d \in ({"repair"} \union (IF merged THEN {"merge"} ELSE {})) \ activated :
       /\ current' = d
       /\ activated' = activated \union {d}
  /\ UNCHANGED <<handlerVars, paused, tableVars, resolvedAt, merged, restoring, drifts, passed>>

\* Somebody else deploys, goes back to an earlier deployment, or begins a rollout,
\* during which the target is unknown.
TargetDrifts ==
  /\ drifts < MaxDrifts
  /\ drifts' = drifts + 1
  /\ \E d \in {"good", "other", "none"} : d # current /\ current' = d
  /\ UNCHANGED <<handlerVars, paused, tableVars, resolvedAt, merged, restoring, activated,
                 passed>>

VercelRestores ==
  /\ restoring # "none"
  /\ current' = restoring
  /\ restoring' = "none"
  /\ UNCHANGED <<handlerVars, paused, tableVars, resolvedAt, merged, activated, drifts, passed>>

\* A webhook or the poll reports the production deployment that became READY.
FeedReports ==
  /\ current # "none"
  /\ rows' = Saved(current)
  /\ UNCHANGED <<handlerVars, paused, blame, knownGood, resolvedAt, outsideVars, passed>>

\* Regression: an incident that is being worked on does not hold the trigger back.
RefreshAnyway ==
  /\ rows # <<>>
  /\ knownGood' = rows[Len(rows)]
  /\ UNCHANGED <<handlerVars, paused, blame, rows, resolvedAt, outsideVars, passed>>

\* The health monitor records a healthy observation.  The trigger, unless an
\* incident of the project has no resolved_at, marks the newest READY production
\* deployment known good.
RefreshKnownGood ==
  /\ resolvedAt
  /\ rows # <<>>
  /\ knownGood' = rows[Len(rows)]
  /\ UNCHANGED <<handlerVars, paused, blame, rows, resolvedAt, outsideVars, passed>>

Pause ==
  /\ ~paused
  /\ paused' = TRUE
  /\ UNCHANGED <<handlerVars, tableVars, resolvedAt, outsideVars, passed>>

\* set_protection_paused(false): a paused incident starts again from its context
\* (Deployment).
Resume ==
  /\ paused
  /\ paused' = FALSE
  /\ incident' = IF incident = "Paused" THEN "CollectingContext" ELSE incident
  /\ UNCHANGED <<job, lease, pc, work, tableVars, resolvedAt, outsideVars, passed>>

Outside ==
  \/ BuildActivates \/ TargetDrifts \/ VercelRestores \/ FeedReports \/ RefreshKnownGood
  \/ Pause \/ Resume

-------------------------------------------------------------------------------

Loop(w) == LoopStep(w) /\ Plainly

Broken(w) == Fault(w) /\ Plainly

WorkerStep(w) ==
  \/ Loop(w) \/ ReadWork(w) \/ PauseLanding(w) \/ BeginRollback(w)
  \/ VerifyPromoted(w) \/ WatchPromoted(w) \/ LandRepair(w) \/ Durable(w)
  \/ Rollback(w) \/ VerifyRestored(w)

Next == Outside \/ \E w \in Workers : WorkerStep(w) \/ Broken(w)

Spec == Init /\ [][Next]_vars

-------------------------------------------------------------------------------
(* Properties.                                                             *)

\* The repair is merged into the protected branch only after the promoted build
\* passed all three watches.
MergedAfterWatch == merged => {"watch"} \X Checks \subseteq passed

\* docs/ALPHA_TEST_MATRIX.md, A16, A18, A20: an incident whose repair is on the
\* protected branch is resolved only after the three watches of its production
\* deployment; otherwise a rollback resolved it.
ResolvedMeansRecovered ==
  incident = "Resolved" =>
    IF merged THEN {"durable-watch"} \X Checks \subseteq passed
    ELSE job[<<"rollback", 0>>].status # "absent"

\* A21: until the merge has passed its three watches, the deployment to roll back
\* to stays what it was when the incident began, as long as the incident is open.
BaselineKept ==
  [][~resolvedAt /\ knownGood' # knownGood =>
       {"durable-watch"} \X Checks \subseteq passed]_vars

-------------------------------------------------------------------------------
(* Landing implements LandOrRestore.                                       *)

Enqueued(j) == job[j].status # "absent"

\* The two ways a trial ends: the repair is to be landed, or it is to be rolled back
\* before it was merged.
LandingAsked  == \E j \in Jobs : j[1] = "land-repair" /\ Enqueued(j)
FirstRollback == Enqueued(<<"rollback", 0>>) /\ ~blame.merged

LR == INSTANCE LandOrRestore WITH
  Deployments <- Built \union {"none"},
  Landed      <- "merge",
  way         <- IF LandingAsked THEN "land" ELSE IF FirstRollback THEN "restore" ELSE "trial",
  watched     <- {c \in Checks : <<"watch", c>> \in passed},
  confirmed   <- {c \in Checks : <<"durable-watch", c>> \in passed},
  undoing     <- Enqueued(<<"rollback", 0>>),
  baseline    <- knownGood,
  closed      <- resolvedAt,
  resolved    <- incident = "Resolved"

\* docs/ALPHA_TEST_MATRIX.md, A16, A18, A20, A21: a promoted repair is landed or restored as
\* LandOrRestore says, whatever fails or dies, unless the answer to the statement that ends its
\* trial is lost (the run landing_retried).
ImplementsLandOrRestore == LR!LRSpec
=============================================================================
