------------------------------ MODULE JobQueue ------------------------------
(***************************************************************************)
(* The durable job queue in PostgreSQL (crates/nopager-db) and the loop of *)
(* apps/worker/src/main.rs that drains it.  A job is named by its          *)
(* idempotency key.  Each worker process takes one job at a time, under    *)
(* the name worker-<pid>: two processes in two containers may well share a *)
(* name.  A process may die at any point; nothing reclaims the job it was  *)
(* running.                                                                *)
(*                                                                         *)
(* Abstracted: what a job does (its outcome is a choice here, Operations   *)
(* fills it in), available_at and the backoff (a job that is waiting may   *)
(* be claimed now or later), the order of claims.                          *)
(***************************************************************************)
EXTENDS Naturals

CONSTANTS
  Jobs,         \* idempotency keys
  Workers,      \* worker processes
  NameOf,       \* NameOf[w]: the worker id w writes into locked_by
  MaxAttempts   \* MaxAttempts[j]: the attempts job j is enqueued with

ASSUME AttemptsAssumption == MaxAttempts \in [Jobs -> Nat \ {0}]

VARIABLES
  job,    \* job[j]: the row of j
  lease   \* lease[w]: the job w believes it is running, with w's copy of the
          \* attempt number

vars == <<job, lease>>

Status  == {"absent", "PENDING", "RETRY", "RUNNING", "COMPLETED", "FAILED"}
NoName  == "nobody"
NoLease == <<>>

Names == {NameOf[w] : w \in Workers} \union {NoName}

TypeOK ==
  /\ job \in [Jobs -> [status : Status, attempt : Nat, by : Names]]
  /\ lease \in [Workers -> [job : Jobs, attempt : Nat] \union {NoLease}]

Absent == [status |-> "absent", attempt |-> 0, by |-> NoName]

Init ==
  /\ job = [j \in Jobs |-> Absent]
  /\ lease = [w \in Workers |-> NoLease]

-------------------------------------------------------------------------------

\* Regression: a conflicting insert that schedules the existing row afresh.
RequeuedRow(row) == [row EXCEPT !.status = "PENDING"]

\* What INSERT .. ON CONFLICT (idempotency_key) makes of a row.
EnqueuedRow(row) ==
  IF row.status = "absent" THEN [row EXCEPT !.status = "PENDING"] ELSE row

\* The queue after enqueueing every job of a set: resuming protection enqueues
\* a job for every paused incident in one transaction.
Enqueued(js) == [j \in Jobs |-> IF j \in js THEN EnqueuedRow(job[j]) ELSE job[j]]

Enqueue(js) ==
  /\ job' = Enqueued(js)
  /\ UNCHANGED lease

\* Regression: a claim that also picks up jobs somebody is running.
ClaimableOrRunning(j) == job[j].status \in {"PENDING", "RETRY", "RUNNING"}

Claimable(j) == job[j].status \in {"PENDING", "RETRY"}

\* claim_next: select and update in one transaction, under SKIP LOCKED.
ClaimNext(w, j) ==
  /\ lease[w] = NoLease
  /\ Claimable(j)
  /\ job' = [job EXCEPT ![j].status = "RUNNING", ![j].by = NameOf[w],
                        ![j].attempt = @ + 1]
  /\ lease' = [lease EXCEPT ![w] = [job |-> j, attempt |-> job[j].attempt + 1]]

Holds(w) ==
  /\ lease[w] # NoLease
  /\ job[lease[w].job].status = "RUNNING"
  /\ job[lease[w].job].by = NameOf[w]

\* A compare-and-set on the row.  When it finds the lease lost, JobLeaseLost
\* ends the process.
Release(w, status) ==
  /\ job' = IF Holds(w)
            THEN [job EXCEPT ![lease[w].job].status = status,
                             ![lease[w].job].by = NoName]
            ELSE job
  /\ lease' = [lease EXCEPT ![w] = NoLease]

CompleteJob(w) ==
  /\ lease[w] # NoLease
  /\ Release(w, "COMPLETED")

\* Regression: one attempt too many.
OneMoreAttempt(w) == lease[w].attempt > MaxAttempts[lease[w].job]

LastAttempt(w) == lease[w].attempt >= MaxAttempts[lease[w].job]

\* Regression: a status no claim knows, so that the job is never run again.
FailJobBackoff(w) ==
  /\ lease[w] # NoLease
  /\ Release(w, IF LastAttempt(w) THEN "FAILED" ELSE "BACKOFF")

FailJob(w) ==
  /\ lease[w] # NoLease
  /\ Release(w, IF LastAttempt(w) THEN "FAILED" ELSE "RETRY")

\* Regression: a dying process hands its job back although another process of
\* the same name may be running it.
CrashHandsBack(w) ==
  /\ lease[w] # NoLease
  /\ lease' = [lease EXCEPT ![w] = NoLease]
  /\ job' = [j \in Jobs |->
               IF job[j].status = "RUNNING" /\ job[j].by = NameOf[w]
               THEN [job[j] EXCEPT !.status = "RETRY", !.by = NoName]
               ELSE job[j]]

\* The process dies (or the connection to the database fails in the loop).  It
\* is started again under the same or another name.
Crash(w) ==
  /\ lease[w] # NoLease
  /\ lease' = [lease EXCEPT ![w] = NoLease]
  /\ UNCHANGED job

Next ==
  \/ \E js \in SUBSET Jobs : Enqueue(js)
  \/ \E w \in Workers : \/ \E j \in Jobs : ClaimNext(w, j)
                        \/ CompleteJob(w) \/ FailJob(w) \/ Crash(w)

Spec == Init /\ [][Next]_vars

-------------------------------------------------------------------------------
(* Properties.                                                             *)

Live(w) == lease[w] # NoLease

\* A job is run by at most one living process at a time, even when processes
\* share a worker id.
OneRunner ==
  \A v, w \in Workers :
    Live(v) /\ Live(w) /\ lease[v].job = lease[w].job => v = w

\* A process that is running a job owns its row under its own attempt number,
\* so complete_job and fail_job never report JobLeaseLost.
LeaseIsKept ==
  \A w \in Workers :
    Live(w) => /\ Holds(w)
               /\ job[lease[w].job].attempt = lease[w].attempt

\* No job is started more often than it was enqueued for.
AttemptsBounded == \A j \in Jobs : job[j].attempt <= MaxAttempts[j]

\* A job that has completed or failed for good is never run again, however often
\* its key is enqueued: this is what "exactly one execution job" rests on.
FinishedForGood ==
  [][\A j \in Jobs : job[j].status \in {"COMPLETED", "FAILED"} =>
       job'[j] = job[j]]_vars
=============================================================================
