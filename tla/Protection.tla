----------------------------- MODULE Protection -----------------------------
(***************************************************************************)
(* How an application comes under protection and how its deployments come  *)
(* to NoPager's attention: the administrator's account and the setup       *)
(* request (apps/server/src/main.rs), the webhooks the server accepts, the *)
(* worker's Vercel poll and webhook jobs (legacy_pipeline.rs), the rows    *)
(* of the deployments table, the incidents opened for failures, and the    *)
(* trigger of migration 0005 that moves the known-good mark.               *)
(*                                                                         *)
(* Polls and webhooks tell of the same deployments, late, in any order and *)
(* more than once.  A poll is scheduled every 30 seconds whatever became   *)
(* of the last one, so that any free worker may poll at any time.          *)
(*                                                                         *)
(* Abstracted: which check refuses a setup; an incident is open (or        *)
(* paused), given up or recovered, and what happens in between is          *)
(* Deployment's and Landing's; how the health check's status comes about   *)
(* is HealthMonitor's; time, passwords, signatures and encryption.         *)
(***************************************************************************)
EXTENDS Naturals, Sequences

CONSTANTS
  Workers,      \* worker processes
  Browsers,     \* clients of the server
  Bearers,      \* those that send the configured administrator token
  MaxDeployed,  \* bound: deployments Vercel makes, numbered in the order it does
  Production,   \* those with target production; the others are previews
  Runs,         \* failing GitHub workflow runs
  PageSize,     \* deployments on one page of a poll (20 in the code)
  MaxEnded,     \* bound: incidents that end
  MaxLost       \* bound: polls and webhook jobs lost to an error or a crash

Deployments == 1..MaxDeployed

\* What an incident is opened for: its deduplication key is made of it.
Causes == (Deployments \X {"vercel"}) \union (Runs \X {"github"})

ASSUME ProtectionAssumption ==
  /\ MaxDeployed \in Nat
  /\ Production \subseteq Deployments
  /\ Bearers \subseteq Browsers
  /\ PageSize \in Nat /\ MaxEnded \in Nat /\ MaxLost \in Nat

VARIABLES
  admins,      \* rows of local_admins, by the browser that made them
  sessions,    \* browsers with a session that has not expired
  step,        \* where a browser's request stands
  found,       \* found[b]: the deployment b's setup request found in production
  project,     \* the row of projects: the deployments made before it
  vercel,      \* Vercel: the state of each deployment
  current,     \* Vercel: the one serving production, or 0
  rows,        \* the deployments table, in the order of its created_at
  deliveries,  \* rows of webhook_deliveries
  hooks,       \* webhook jobs still to be done
  incidents,   \* incidents[c]: how many were opened for c and how they stand
  pc,          \* where a worker's handler stands
  work,        \* what it has in hand
  lost,        \* polls and webhook jobs lost so far
  ended        \* incidents ended so far

setupVars  == <<admins, sessions, step, found>>
vercelVars == <<vercel, current>>
workerVars == <<pc, work, lost>>
incidentVars == <<incidents, ended>>
hookVars   == <<deliveries, hooks>>
vars == <<setupVars, project, vercelVars, rows, hookVars, incidentVars, workerVars>>

Build       == {"none", "BUILDING", "READY", "ERROR", "CANCELED"}
Failing     == {"ERROR", "CANCELED"}
Unprotected == [since |-> 0, protected |-> FALSE]
NoCause     == <<>>
NoPage      == <<>>

\* The rest of a page with the states it was read with, and the cause to open an
\* incident for; a poll has no webhook job.
NoWork == [page |-> NoPage, hook |-> NoCause, cause |-> NoCause]

TypeOK ==
  /\ admins \subseteq Browsers /\ sessions \subseteq Browsers
  /\ step \in [Browsers -> {"idle", "list", "create"}]
  /\ found \in [Browsers -> Deployments \union {0}]
  /\ project \in [since : Nat, protected : BOOLEAN]
  /\ vercel \in [Deployments -> Build]
  /\ current \in Deployments \union {0}
  /\ rows \in Seq([id : Deployments, status : Build, good : BOOLEAN,
                   environment : {"production", "preview"}])
  /\ deliveries \subseteq Causes /\ hooks \subseteq deliveries
  /\ incidents \in [Causes -> [active : Nat, escalated : Nat, resolved : Nat]]
  /\ pc \in [Workers -> {"idle", "page", "hook", "open", "insert"}]
  /\ \A w \in Workers :
       /\ DOMAIN work[w].page \subseteq Deployments
       /\ {work[w].hook, work[w].cause} \subseteq Causes \union {NoCause}
  /\ lost \in 0..MaxLost /\ ended \in 0..MaxEnded

Init ==
  /\ admins = {} /\ sessions = {}
  /\ step = [b \in Browsers |-> "idle"]
  /\ found = [b \in Browsers |-> 0]
  /\ project = Unprotected
  /\ vercel = [d \in Deployments |-> "none"]
  /\ current = 0
  /\ rows = <<>>
  /\ deliveries = {} /\ hooks = {}
  /\ incidents = [c \in Causes |-> [active |-> 0, escalated |-> 0, resolved |-> 0]]
  /\ pc = [w \in Workers |-> "idle"]
  /\ work = [w \in Workers |-> NoWork]
  /\ lost = 0 /\ ended = 0

-------------------------------------------------------------------------------
(* Vercel.                                                                 *)

Made == {d \in Deployments : vercel[d] # "none"}

Deploy(d) ==
  /\ vercel[d] = "none"
  /\ \A e \in Deployments : e < d => e \in Made
  /\ vercel' = [vercel EXCEPT ![d] = "BUILDING"]
  /\ UNCHANGED <<setupVars, project, current, rows, hookVars, incidentVars, workerVars>>

\* A finished production build serves production, unless a later one does.
Finish(d, state) ==
  /\ vercel[d] = "BUILDING"
  /\ vercel' = [vercel EXCEPT ![d] = state]
  /\ current' = IF state = "READY" /\ d \in Production /\ d > current
                THEN d ELSE current
  /\ UNCHANGED <<setupVars, project, rows, hookVars, incidentVars, workerVars>>

-------------------------------------------------------------------------------
(* The deployments table.                                                  *)

Environment(d) == IF d \in Production THEN "production" ELSE "preview"

\* Regression: the update takes the mark from the values to be inserted.
SavedUnmarked(d, status) ==
  LET new == [id |-> d, status |-> status, good |-> FALSE,
              environment |-> Environment(d)]
  IN  IF \E i \in DOMAIN rows : rows[i].id = d
      THEN [i \in DOMAIN rows |-> IF rows[i].id = d THEN new ELSE rows[i]]
      ELSE Append(rows, new)

\* save_deployment: insert a row or update it, keeping its known-good mark.
Saved(d, status) ==
  LET new == [id |-> d, status |-> status, good |-> FALSE,
              environment |-> Environment(d)]
  IN  IF \E i \in DOMAIN rows : rows[i].id = d
      THEN [i \in DOMAIN rows |->
              IF rows[i].id = d THEN [new EXCEPT !.good = rows[i].good] ELSE rows[i]]
      ELSE Append(rows, new)

Unresolved(c) == incidents[c].active + incidents[c].escalated > 0

\* The newest row of a READY production deployment: that recorded last.
Candidates ==
  {i \in DOMAIN rows : rows[i].environment = "production" /\ rows[i].status = "READY"}

IsCandidate(i) == i \in Candidates /\ \A k \in Candidates : k <= i

\* A healthy observation is recorded, and the trigger on health_checks moves the
\* mark: only while every incident of the project is resolved.
ObserveHealthy ==
  /\ project.protected
  /\ \A c \in Causes : ~Unresolved(c)
  /\ \E i \in Candidates :
       /\ IsCandidate(i)
       /\ rows' = [k \in DOMAIN rows |->
                     IF rows[k].environment = "production"
                     THEN [rows[k] EXCEPT !.good = (k = i)] ELSE rows[k]]
  /\ UNCHANGED <<setupVars, project, vercelVars, hookVars, incidentVars, workerVars>>

-------------------------------------------------------------------------------
(* The administrator and the setup request (apps/server/src/main.rs).      *)

Advance(b, from, to) ==
  /\ step[b] = from
  /\ step' = [step EXCEPT ![b] = to]

serverOnly == <<project, vercelVars, rows, hookVars, incidentVars, workerVars>>

\* issue_session: its insert may fail after the administrator was created, or the
\* password verified.
SessionIssued(b) == sessions' \in {sessions, sessions \union {b}}

\* create_admin: once, under an advisory lock.
CreateAdmin(b) ==
  /\ step[b] = "idle"
  /\ admins = {}
  /\ admins' = {b}
  /\ SessionIssued(b)
  /\ UNCHANGED <<step, found, serverOnly>>

Login(b) ==
  /\ step[b] = "idle"
  /\ admins # {}
  /\ SessionIssued(b)
  /\ UNCHANGED <<admins, step, found, serverOnly>>

SessionExpires(b) ==
  /\ sessions' = sessions \ {b}
  /\ sessions' # sessions
  /\ UNCHANGED <<admins, step, found, serverOnly>>

\* authorized is asked once, at the start of a request.  The addresses, the health
\* check, GitHub and the Vercel project are then found in order.
ProtectApp(b) ==
  /\ b \in sessions \union Bearers
  /\ Advance(b, "idle", "list")
  /\ UNCHANGED <<admins, sessions, found, serverOnly>>

\* list_deployments, normalised to the deployment that serves production now; the
\* model provider answers and the credentials are encrypted.
ListDeployments(b) ==
  /\ current # 0
  /\ Advance(b, "list", "create")
  /\ found' = [found EXCEPT ![b] = current]
  /\ UNCHANGED <<admins, sessions, serverOnly>>

\* Any of the checks fails, or the statement that follows them.
Refuse(b) ==
  /\ \E from \in {"list", "create"} : Advance(b, from, "idle")
  /\ found' = [found EXCEPT ![b] = 0]
  /\ UNCHANGED <<admins, sessions, serverOnly>>

\* create_protected_app: the project, its health check and the row of the
\* deployment found, in one transaction; ProjectAlreadyExists is a refusal.
CreateProtectedApp(b) ==
  /\ ~project.protected
  /\ Advance(b, "create", "idle")
  /\ project' = [since |-> CHOOSE d \in Made : \A e \in Made : e <= d,
                 protected |-> TRUE]
  /\ rows' = Append(rows, [id |-> found[b], status |-> "READY", good |-> TRUE,
                           environment |-> "production"])
  /\ found' = [found EXCEPT ![b] = 0]
  /\ UNCHANGED <<admins, sessions, vercelVars, hookVars, incidentVars, workerVars>>

-------------------------------------------------------------------------------
(* Webhooks.                                                               *)

\* What Vercel and GitHub report: a finished build and a failed run.  A canceled
\* build is reported by an event process_webhook takes no notice of.
Reported ==
  (Runs \X {"github"})
    \union {c \in Deployments \X {"vercel"} : vercel[c[1]] \in {"READY", "ERROR"}}

\* accept_webhook: the delivery and its job in one transaction.  A delivery that
\* comes again is answered from its row and changes nothing.
AcceptWebhook(c) ==
  /\ c \in Reported
  /\ c \notin deliveries
  /\ deliveries' = deliveries \union {c}
  /\ hooks' = hooks \union {c}
  /\ UNCHANGED <<setupVars, project, vercelVars, rows, incidentVars, workerVars>>

-------------------------------------------------------------------------------
(* The worker.                                                             *)

Proceed(w, to, hand) ==
  /\ pc' = [pc EXCEPT ![w] = to]
  /\ work' = [work EXCEPT ![w] = hand]

\* After an incident is opened, or found open: the rest of the page, or the end
\* of the webhook's job.
Continue(w) ==
  /\ IF work[w].page = NoPage
     THEN Proceed(w, "idle", NoWork)
     ELSE Proceed(w, "page", [work[w] EXCEPT !.cause = NoCause])
  /\ hooks' = hooks \ {work[w].hook}

Later(d) == {e \in Made : e > d}

\* A page of the poll: the newest deployments made since the project was, those
\* with target production.
Page ==
  {d \in Production \intersect Later(project.since) :
     \E n \in 0..(PageSize - 1) : d + n = CHOOSE e \in Made : Later(e) = {}}

VercelPoll(w) ==
  /\ pc[w] = "idle"
  /\ project.protected
  /\ Page # {}
  /\ Proceed(w, "page", [NoWork EXCEPT !.page = [d \in Page |-> vercel[d]]])
  /\ UNCHANGED <<setupVars, project, vercelVars, rows, hookVars, incidentVars, lost>>

\* The page is gone through from the newest deployment to the oldest.
SavePolled(w) ==
  /\ pc[w] = "page"
  /\ \E d \in DOMAIN work[w].page :
       LET page == work[w].page
           rest == [e \in DOMAIN page \ {d} |-> page[e]]
       IN  /\ \A e \in DOMAIN page : e <= d
           /\ rows' = Saved(d, page[d])
           /\ IF page[d] \in Failing
              THEN Proceed(w, "open", [work[w] EXCEPT !.page = rest,
                                                      !.cause = <<d, "vercel">>])
              ELSE IF DOMAIN rest = {} THEN Proceed(w, "idle", NoWork)
              ELSE Proceed(w, "page", [work[w] EXCEPT !.page = rest])
  /\ UNCHANGED <<setupVars, project, vercelVars, hookVars, incidentVars, lost>>

ClaimHook(w, c) ==
  /\ pc[w] = "idle"
  /\ c \in hooks
  /\ \A v \in Workers : work[v].hook # c
  /\ Proceed(w, "hook", [NoWork EXCEPT !.hook = c])
  /\ UNCHANGED <<setupVars, project, vercelVars, rows, hookVars, incidentVars, lost>>

\* process_webhook, on a project that is not protected and on a finished build.
IgnoreHook(w) ==
  /\ pc[w] = "hook"
  /\ ~project.protected
  /\ Continue(w)
  /\ UNCHANGED <<setupVars, project, vercelVars, rows, deliveries, incidentVars, lost>>

SaveReported(w) ==
  /\ pc[w] = "hook"
  /\ project.protected
  /\ LET c == work[w].hook
     IN  /\ c[2] = "vercel" /\ vercel[c[1]] = "READY"
         /\ rows' = Saved(c[1], "READY")
  /\ Continue(w)
  /\ UNCHANGED <<setupVars, project, vercelVars, deliveries, incidentVars, lost>>

\* A failure reported: that of a preview as well.
FailureReported(w) ==
  /\ pc[w] = "hook"
  /\ project.protected
  /\ LET c == work[w].hook
     IN  /\ c[2] = "vercel" => vercel[c[1]] = "ERROR"
         /\ Proceed(w, "open", [work[w] EXCEPT !.cause = c])
  /\ UNCHANGED <<setupVars, project, vercelVars, rows, hookVars, incidentVars, lost>>

\* Regression: any active incident of the project is enough.
AnyOpen(c) == \E k \in Causes : incidents[k].active > 0

AlreadyOpen(c) == incidents[c].active > 0

\* open_incident_tx first looks for an active incident with the same key ...
LookForActive(w) ==
  /\ pc[w] = "open"
  /\ IF AlreadyOpen(work[w].cause)
     THEN Continue(w)
     ELSE Proceed(w, "insert", work[w]) /\ UNCHANGED hooks
  /\ UNCHANGED <<setupVars, project, vercelVars, rows, deliveries, incidentVars, lost>>

\* Regression: no unique index.
InsertAnyway(w) ==
  /\ pc[w] = "insert"
  /\ incidents' = [incidents EXCEPT ![work[w].cause].active = @ + 1]
  /\ Continue(w)
  /\ UNCHANGED <<setupVars, project, vercelVars, rows, deliveries, ended, lost>>

\* ... and inserts one.  When another worker did so in between, the unique index
\* of migration 0002 makes the insert fail and the job with it.
InsertIncident(w) ==
  /\ pc[w] = "insert"
  /\ IF AlreadyOpen(work[w].cause)
     THEN /\ Proceed(w, "idle", NoWork)
          /\ UNCHANGED <<incidents, hooks>>
     ELSE /\ incidents' = [incidents EXCEPT ![work[w].cause].active = @ + 1]
          /\ Continue(w)
  /\ UNCHANGED <<setupVars, project, vercelVars, rows, deliveries, ended, lost>>

\* An error or a crash: a poll comes again, a webhook's job is retried unless this
\* was its last attempt or its process died.
Lose(w) ==
  /\ pc[w] # "idle"
  /\ lost < MaxLost
  /\ lost' = lost + 1
  /\ Proceed(w, "idle", NoWork)
  /\ hooks' \in {hooks, hooks \ {work[w].hook}}
  /\ UNCHANGED <<setupVars, project, vercelVars, rows, deliveries, incidentVars>>

\* The incident ends: recovered (RESOLVED, ROLLED_BACK: resolved_at is set), or
\* given up (ESCALATED, FAILED, CANCELLED: it is not).
EndIncident(c, how) ==
  /\ incidents[c].active > 0
  /\ ended < MaxEnded
  /\ ended' = ended + 1
  /\ incidents' = [incidents EXCEPT ![c].active = @ - 1, ![c][how] = @ + 1]
  /\ UNCHANGED <<setupVars, project, vercelVars, rows, hookVars, workerVars>>

-------------------------------------------------------------------------------
VercelStep ==
  \E d \in Deployments :
    Deploy(d) \/ \E state \in Build \ {"none", "BUILDING"} : Finish(d, state)

ServerStep ==
  \/ \E b \in Browsers :
       \/ CreateAdmin(b) \/ Login(b) \/ SessionExpires(b)
       \/ ProtectApp(b) \/ ListDeployments(b) \/ Refuse(b) \/ CreateProtectedApp(b)
  \/ \E c \in Causes : AcceptWebhook(c)

HandlerStep(w) ==
  \/ SavePolled(w) \/ IgnoreHook(w) \/ SaveReported(w) \/ FailureReported(w)
  \/ LookForActive(w) \/ InsertIncident(w)

WorkerStep(w) ==
  VercelPoll(w) \/ (\E c \in Causes : ClaimHook(w, c)) \/ HandlerStep(w)

Next ==
  \/ VercelStep
  \/ ServerStep
  \/ \E w \in Workers : WorkerStep(w) \/ Lose(w)
  \/ ObserveHealthy
  \/ \E c \in Causes, how \in {"escalated", "resolved"} : EndIncident(c, how)

Spec == Init /\ [][Next]_vars

\* A worker goes on with its job, and every now and then one of them polls: the
\* scheduler enqueues a poll every 30 seconds and claims are made in order.
FairSpec ==
  /\ Spec
  /\ \A w \in Workers : WF_vars(HandlerStep(w))
  /\ SF_vars(\E w \in Workers : VercelPoll(w))

-------------------------------------------------------------------------------
(* Properties.                                                             *)

\* README.md, "one deduplicated incident": a failure that a webhook and several
\* polls report at once never has two incidents in hand at a time.
OneActivePerCause == \A c \in Causes : incidents[c].active <= 1

\* A protected application has exactly one deployment to roll back to, and that
\* is a production deployment whose build Vercel finished.
BaselineIsSound ==
  project.protected =>
    \E i \in DOMAIN rows :
      /\ \A k \in DOMAIN rows : rows[k].good <=> k = i
      /\ rows[i].id \in Production /\ vercel[rows[i].id] = "READY"

\* A production build that fails after the application came under protection does
\* not go unnoticed, whatever webhooks and polls are lost: an incident is opened
\* for it.  A later page still shows it as long as PageSize covers what follows.
FailureIsAttended ==
  \A d \in Production :
    (project.protected /\ d > project.since /\ vercel[d] \in Failing)
      ~> incidents[<<d, "vercel">>] # [active |-> 0, escalated |-> 0, resolved |-> 0]

\* docs/ALPHA_TEST_MATRIX.md, A8: once an incident has been escalated, automatic
\* repair of that failure stops.
RepairStops ==
  \A c \in Causes : incidents[c].escalated > 0 => incidents[c].active = 0
=============================================================================
