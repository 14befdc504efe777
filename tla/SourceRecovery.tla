--------------------------- MODULE SourceRecovery ---------------------------
(***************************************************************************)
(* After a merged repair was rolled back (Landing): the handlers of        *)
(* apps/worker/src/source_recovery.rs that open a draft pull request       *)
(* reverting the repair, wait for a human to review and merge it, verify   *)
(* and watch its production deployment, and close the incident.            *)
(*                                                                         *)
(* A revert is known by the number of its pull request, which also names   *)
(* its merge commit and the production deployment built from that commit.  *)
(*                                                                         *)
(* Abstracted: audit records but the one that proves a revert NoPager's;   *)
(* what a health check answers is a choice; time.                          *)
(***************************************************************************)
EXTENDS Naturals, FiniteSets, IncidentStates

CONSTANTS
  Workers,      \* worker processes
  NameOf,       \* their worker ids
  Attempts,     \* Attempts[k]: max_attempts of jobs of kind k
  Early,        \* polls while the incident is not yet Escalated (3 in the code)
  MaxReview,    \* polls for the review of a revert (2016 in the code)
  MaxPoll,      \* polls for its production deployment (60 in the code)
  MaxReverts,   \* bound: revert pull requests ever opened
  MaxServes,    \* bound: changes of the production target
  Fragile,      \* bound: the points of a handler at which a call may fail
  MayCrash      \* bound: whether processes die

Kind == {"verify-rollback", "review", "production", "watch"}

ASSUME SourceRecoveryAssumption ==
  /\ Attempts \in [Kind -> Nat \ {0}]
  /\ {Early, MaxReview, MaxPoll, MaxServes} \subseteq Nat
  /\ MaxReverts \in Nat \ {0}
  /\ MayCrash \in BOOLEAN

Revert == 1..MaxReverts
Checks == 0..2

ReviewPolls == 0..(IF Early > MaxReview THEN Early ELSE MaxReview)

\* Keys: <<kind, <<poll or check, revert>>>>.
Jobs ==
  {<<"verify-rollback", <<0, 0>>>>}
    \union {<<"review", k>> : k \in ReviewPolls \X Revert}
    \union {<<"production", k>> : k \in (0..(MaxPoll + 1)) \X Revert}
    \union {<<"watch", k>> : k \in Checks \X Revert}

MaxAttempts == [j \in Jobs |-> Attempts[j[1]]]

Handled == Kind

VARIABLES
  incident, job, lease, pc, work,   \* the handlers (Handlers)
  attested,   \* reverts an audit record says NoPager created
  knownGood,  \* the deployment marked known good: 0 for that before the incident
  opened,     \* GitHub: how many reverts of the repair were opened
  merged,     \* GitHub: those a human merged
  drifted,    \* GitHub: those whose head or base changed after they were opened
  head,       \* GitHub: what is at the head of the protected branch: a revert's
              \* merge, or 0 for any other commit
  current,    \* Vercel: the production target: a revert's deployment, or 0
  serves,     \* bound: how often the target has changed
  watched,    \* history: the checks of a revert's deployment that passed
  aligned     \* history: reverts found at the head of the protected branch

handlerVars == <<incident, job, lease, pc, work>>
githubVars  == <<opened, merged, drifted, head>>
vercelVars  == <<current, serves>>
ghostVars   == <<watched, aligned>>

vars == <<handlerVars, attested, knownGood, githubVars, vercelVars, ghostVars>>

\* What a handler has read: the incident's state, the revert it is about.
Work  == [state : IncidentState, revert : Revert \union {0}]
Blank == [state |-> "Open", revert |-> 0]

INSTANCE Handlers

Point ==
  Kind \union Ends \union
  {"escalate.move",
   "revert.search", "revert.create", "revert.record", "revert.review", "revert.move",
   "review.status", "review.next", "review.merged",
   "production.find", "production.next", "production.save", "production.watch",
   "watch.check", "watch.next", "watch.head", "watch.mark", "watch.resolve"}

TypeOK ==
  /\ incident \in IncidentState
  /\ Q!TypeOK
  /\ pc \in [Workers -> Point]
  /\ work \in [Workers -> Work]
  /\ {attested, merged, drifted, aligned} \subseteq SUBSET Revert
  /\ {knownGood, opened, head, current} \subseteq Revert \union {0}
  /\ serves \in 0..MaxServes
  /\ watched \subseteq Checks \X Revert

\* The rollback of a merged repair is to be verified.
Init ==
  /\ incident = "RolledBack"
  /\ job = [j \in Jobs |->
              IF j[1] = "verify-rollback"
              THEN [Q!Absent EXCEPT !.status = "PENDING"] ELSE Q!Absent]
  /\ lease = [w \in Workers |-> Q!NoLease]
  /\ pc = [w \in Workers |-> "idle"]
  /\ work = [w \in Workers |-> Blank]
  /\ attested = {} /\ knownGood = 0
  /\ opened = 0 /\ merged = {} /\ drifted = {} /\ head = 0
  /\ current = 0 /\ serves = 0
  /\ watched = {} /\ aligned = {}

-------------------------------------------------------------------------------
(* What each handler does with the incident it reads.                      *)

Poll(w)    == Number(w)[1]
Subject(w) == Number(w)[2]

\* verify_rolled_back_production, with production restored and healthy.
RollbackEntry == IF incident = "RolledBack" THEN "revert.search" ELSE "ok"

\* verify_source_revert_review: a review that starts before the incident has been
\* escalated is looked at again a few times.  A revert without the record of its
\* creation is nobody's to follow.
ReviewEntry(w) ==
  IF incident = "RolledBack" THEN IF Poll(w) < Early THEN "review.next" ELSE "ok"
  ELSE IF incident # "Escalated" \/ Subject(w) \notin attested THEN "ok"
  ELSE "review.status"

\* verify_source_recovery_production and watch_source_recovery_production.
ProductionEntry(w) ==
  IF incident # "Escalated" \/ Subject(w) \notin attested \/ Poll(w) > MaxPoll
  THEN "ok" ELSE "production.find"

WatchEntry(w) ==
  IF incident # "Escalated" \/ Subject(w) \notin attested THEN "ok" ELSE "watch.check"

Entry(w) ==
  CASE pc[w] = "verify-rollback" -> RollbackEntry
    [] pc[w] = "review"          -> ReviewEntry(w)
    [] pc[w] = "production"      -> ProductionEntry(w)
    [] pc[w] = "watch"           -> WatchEntry(w)

Plainly == UNCHANGED <<attested, knownGood, githubVars, vercelVars, ghostVars>>

ReadWork(w) ==
  /\ pc[w] \in Kind
  /\ Choose(w, pc[w], Entry(w))
  /\ Plainly

\* The next poll or check of the same revert.
EnqueueNext(w, from) ==
  /\ pc[w] = from
  /\ EnqueueStep(w, from, <<KindOf(w), <<Poll(w) + 1, Subject(w)>>>>, "ok")
  /\ Plainly

-------------------------------------------------------------------------------
(* prepare_draft_source_revert and open_revert_pull_request_once.          *)

\* Regression: earlier reverts are not looked for.
CreateAtOnce(w) ==
  /\ Choose(w, "revert.search", "revert.create")
  /\ Plainly

\* The merged repair is not found as it was verified, or the history is too long to
\* rule an earlier revert out: a human's.  An earlier revert is the newest that
\* carries the marker; NoPager follows it only if it knows that it created it.
SearchRevert(w) ==
  /\ \/ Choose(w, "revert.search", "revert.move")
     \/ /\ opened = 0
        /\ Choose(w, "revert.search", "revert.create")
     \/ /\ opened # 0
        /\ Read(w, "revert.search",
                IF opened \in attested \ drifted THEN "revert.review" ELSE "revert.move",
                [Blank EXCEPT !.revert = opened])
        /\ UNCHANGED <<incident, job, lease>>
  /\ Plainly

\* The mutation is sent once.  It fails, or its answer is lost or not as expected
\* although the revert was opened: a human's.
CreateRevert(w) ==
  /\ pc[w] = "revert.create"
  /\ \/ Choose(w, "revert.create", "revert.move") /\ UNCHANGED opened
     \/ /\ opened < MaxReverts
        /\ opened' = opened + 1
        /\ \E to \in {"revert.record", "revert.move"} :
             Read(w, "revert.create", to, [Blank EXCEPT !.revert = opened'])
        /\ UNCHANGED <<incident, job, lease>>
  /\ UNCHANGED <<attested, knownGood, merged, drifted, head, vercelVars, ghostVars>>

RecordRevert(w) ==
  /\ Choose(w, "revert.record", "revert.review")
  /\ attested' = attested \union {work[w].revert}
  /\ UNCHANGED <<knownGood, githubVars, vercelVars, ghostVars>>

EnqueueReview(w) ==
  /\ pc[w] = "revert.review"
  /\ EnqueueStep(w, "revert.review", <<"review", <<0, work[w].revert>>>>, "revert.move")
  /\ Plainly

AwaitReview(w) ==
  /\ Transition(w, "revert.move", "RolledBack", "Escalated", "ok")
  /\ Plainly

Prepare(w) ==
  \/ SearchRevert(w) \/ CreateRevert(w) \/ RecordRevert(w) \/ EnqueueReview(w)
  \/ AwaitReview(w)

-------------------------------------------------------------------------------
(* verify_source_revert_review.                                            *)

\* Regression: the identity of the pull request is not compared.
TrustStatus(w) ==
  /\ pc[w] = "review.status"
  /\ \/ Choose(w, "review.status", "ok")
     \/ Choose(w, "review.status",
               IF Subject(w) \in merged THEN "review.merged"
               ELSE IF Poll(w) >= MaxReview THEN "ok" ELSE "review.next")
  /\ Plainly

\* An error of GitHub's, another identity than the one recorded, or too many polls
\* end the automatic review; nobody starts it again.
ReviewStatus(w) ==
  /\ pc[w] = "review.status"
  /\ \/ Choose(w, "review.status", "ok")
     \/ /\ Subject(w) \notin drifted
        /\ Choose(w, "review.status",
                  IF Subject(w) \in merged THEN "review.merged"
                  ELSE IF Poll(w) >= MaxReview THEN "ok" ELSE "review.next")
  /\ Plainly

EnqueueProduction(w) ==
  /\ pc[w] = "review.merged"
  /\ EnqueueStep(w, "review.merged", <<"production", <<0, Subject(w)>>>>, "ok")
  /\ Plainly

Review(w) ==
  \/ ReviewStatus(w) \/ EnqueueNext(w, "review.next") \/ EnqueueProduction(w)

-------------------------------------------------------------------------------
(* verify_source_recovery_production.                                      *)

\* find_current_production_for_commit and the project's current target.
FindRecovered(w) ==
  /\ pc[w] = "production.find"
  /\ \/ Choose(w, "production.find", "ok")
     \/ Choose(w, "production.find",
               IF current = Subject(w) THEN "production.save" ELSE "production.next")
  /\ Plainly

\* save_deployment, then a first health check that counts for none of the three.
SaveRecovered(w) ==
  /\ \E to \in {"production.watch", "ok"} : Choose(w, "production.save", to)
  /\ Plainly

EnqueueWatch(w) ==
  /\ pc[w] = "production.watch"
  /\ EnqueueStep(w, "production.watch", <<"watch", <<0, Subject(w)>>>>, "ok")
  /\ Plainly

Production(w) ==
  \/ FindRecovered(w) \/ EnqueueNext(w, "production.next") \/ SaveRecovered(w)
  \/ EnqueueWatch(w)

-------------------------------------------------------------------------------
(* watch_source_recovery_production and resolve_escalated_source_recovery. *)

\* The revert's deployment is current and production healthy; otherwise the
\* automatic closure ends.
WatchRecovered(w) ==
  /\ pc[w] = "watch.check"
  /\ \/ Choose(w, "watch.check", "ok") /\ UNCHANGED watched
     \/ /\ current = Subject(w)
        /\ Choose(w, "watch.check", IF Poll(w) < 2 THEN "watch.next" ELSE "watch.head")
        /\ watched' = watched \union {Number(w)}
  /\ UNCHANGED <<attested, knownGood, githubVars, vercelVars, aligned>>

\* verify_protected_branch_head.
CheckHead(w) ==
  /\ pc[w] = "watch.head"
  /\ \/ Choose(w, "watch.head", "ok") /\ UNCHANGED aligned
     \/ /\ head = Subject(w)
        /\ Choose(w, "watch.head", "watch.mark")
        /\ aligned' = aligned \union {Subject(w)}
  /\ UNCHANGED <<attested, knownGood, githubVars, vercelVars, watched>>

\* mark_deployment_known_good.
MarkRecovered(w) ==
  /\ pc[w] = "watch.mark"
  /\ Choose(w, "watch.mark", "watch.resolve")
  /\ knownGood' = Subject(w)
  /\ UNCHANGED <<attested, githubVars, vercelVars, ghostVars>>

\* One transaction, which does nothing to an incident that is no longer Escalated.
\* The life cycle itself has no way from Escalated to Resolved.
ResolveRecovered(w) ==
  /\ Goto(w, "watch.resolve", "ok")
  /\ incident' = IF incident = "Escalated" THEN "Resolved" ELSE incident
  /\ UNCHANGED <<job, lease>>
  /\ Plainly

Watch(w) ==
  \/ WatchRecovered(w) \/ EnqueueNext(w, "watch.next") \/ CheckHead(w)
  \/ MarkRecovered(w) \/ ResolveRecovered(w)

-------------------------------------------------------------------------------
(* GitHub and Vercel.                                                      *)

HumanMerges ==
  /\ \E n \in 1..opened \ merged :
       /\ merged' = merged \union {n}
       /\ head' = n
  /\ UNCHANGED <<handlerVars, attested, knownGood, opened, drifted, vercelVars, ghostVars>>

\* Somebody pushes to the branch of an open revert.
RevertDrifts ==
  /\ \E n \in 1..opened \ (merged \union drifted) : drifted' = drifted \union {n}
  /\ UNCHANGED <<handlerVars, attested, knownGood, opened, merged, head, vercelVars, ghostVars>>

BranchAdvances ==
  /\ head # 0
  /\ head' = 0
  /\ UNCHANGED <<handlerVars, attested, knownGood, opened, merged, drifted, vercelVars,
                 ghostVars>>

TargetChanges ==
  /\ serves < MaxServes
  /\ serves' = serves + 1
  /\ \E d \in merged \union {0} : d # current /\ current' = d
  /\ UNCHANGED <<handlerVars, attested, knownGood, githubVars, ghostVars>>

Outside == HumanMerges \/ RevertDrifts \/ BranchAdvances \/ TargetChanges

-------------------------------------------------------------------------------

Loop(w) == LoopStep(w) /\ Plainly

Broken(w) == Fault(w) /\ Plainly

WorkerStep(w) ==
  \/ Loop(w) \/ ReadWork(w) \/ Prepare(w) \/ Review(w) \/ Production(w) \/ Watch(w)

Next == Outside \/ \E w \in Workers : WorkerStep(w) \/ Broken(w)

Spec == Init /\ [][Next]_vars

-------------------------------------------------------------------------------
(* Properties.                                                             *)

\* docs/ALPHA_TEST_MATRIX.md, A25: however often the preparation fails and is run
\* again, the repair is reverted once.
RevertedOnce == opened <= 1

\* What the automatic closure rests on: a revert NoPager created and nobody changed,
\* merged by a human, at the head of the protected branch, and whose deployment
\* passed all three checks.
Recovered(n) ==
  /\ n \in (attested \intersect merged) \ drifted
  /\ n \in aligned
  /\ Checks \X {n} \subseteq watched

\* A26 to A30: the incident is closed, and production's known-good deployment
\* replaced, by a recovery that held in all its parts.
ClosedMeansRecovered ==
  /\ incident = "Resolved" => \E n \in Revert : Recovered(n)
  /\ knownGood # 0 => Recovered(knownGood)
=============================================================================
