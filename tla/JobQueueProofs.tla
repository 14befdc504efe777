--------------------------- MODULE JobQueueProofs ---------------------------
(***************************************************************************)
(* Proofs about JobQueue, for any jobs, processes, names and attempts: the *)
(* queue's invariants, and that a finished job stays finished.             *)
(***************************************************************************)
EXTENDS JobQueue, TLAPS

\* A job that has not been started, or is to be started again, has an attempt
\* left.  This is what bounds the attempts when the job is claimed.
AttemptLeft ==
  \A j \in Jobs :
    job[j].status \in {"absent", "PENDING", "RETRY"} =>
      job[j].attempt < MaxAttempts[j]

\* The inductive invariant.  LeaseIsKept gives OneRunner its step (a job a process
\* runs is RUNNING, so nobody can claim it) and equates the attempt a process
\* compares with its limit with the attempt in the row.
IInv ==
  /\ TypeOK
  /\ OneRunner
  /\ LeaseIsKept
  /\ AttemptsBounded
  /\ AttemptLeft

\* Rows and leases agree from the start.
LEMMA InitHolds == Init => IInv
  BY AttemptsAssumption
     DEF Init, IInv, TypeOK, OneRunner, LeaseIsKept, AttemptsBounded, AttemptLeft,
         Absent, Status, Names, NoName, NoLease, Live, Holds

\* Enqueueing leaves every row alone but those of absent jobs.
LEMMA EnqueueKeeps ==
  ASSUME IInv, NEW js \in SUBSET Jobs, Enqueue(js)
  PROVE  IInv'
<1>1. /\ lease' = lease
      /\ job' \in [Jobs -> [status : Status, attempt : Nat, by : Names]]
      /\ \A k \in Jobs : job'[k] = job[k]
                         \/ /\ job[k].status = "absent"
                            /\ job'[k] = [job[k] EXCEPT !.status = "PENDING"]
  BY DEF Enqueue, Enqueued, EnqueuedRow, IInv, TypeOK, Status
<1>2. TypeOK'
  BY <1>1 DEF IInv, TypeOK, Names
<1>3. OneRunner'
  BY <1>1 DEF IInv, OneRunner, Live
<1>4. LeaseIsKept'
  BY <1>1 DEF IInv, TypeOK, LeaseIsKept, Live, Holds
<1>5. AttemptsBounded' /\ AttemptLeft'
  BY <1>1 DEF IInv, TypeOK, AttemptsBounded, AttemptLeft
<1> QED BY <1>2, <1>3, <1>4, <1>5 DEF IInv

\* A claim moves one waiting job to RUNNING, and nobody was running it.
LEMMA ClaimKeeps ==
  ASSUME IInv, NEW w \in Workers, NEW j \in Jobs, ClaimNext(w, j)
  PROVE  IInv'
<1>1. /\ lease[w] = NoLease
      /\ job[j].status \in {"PENDING", "RETRY"}
      /\ job' = [job EXCEPT ![j] = [status |-> "RUNNING", by |-> NameOf[w],
                                    attempt |-> job[j].attempt + 1]]
      /\ lease' = [lease EXCEPT ![w] = [job |-> j, attempt |-> job[j].attempt + 1]]
  BY DEF ClaimNext, Claimable, IInv, TypeOK
<1>2. TypeOK'
  BY <1>1 DEF IInv, TypeOK, Status, Names
<1>3. \A v \in Workers : Live(v) => lease[v].job # j
  BY <1>1 DEF IInv, LeaseIsKept, Live, Holds
<1>4. lease'[w] = [job |-> j, attempt |-> job[j].attempt + 1]
  BY <1>1 DEF IInv, TypeOK
<1>5. \A v \in Workers \ {w} : lease'[v] = lease[v]
  BY <1>1 DEF IInv, TypeOK
<1>6. OneRunner'
  BY <1>3, <1>4, <1>5 DEF IInv, OneRunner, Live
<1>7. LeaseIsKept'
  <2> SUFFICES ASSUME NEW v \in Workers, Live(v)'
               PROVE  Holds(v)' /\ job'[lease'[v].job].attempt = lease'[v].attempt
    BY DEF LeaseIsKept
  <2>1. CASE v = w
    BY <2>1, <1>1, <1>4 DEF IInv, TypeOK, Live, Holds, NoLease
  <2>2. CASE v # w
    <3>1. Live(v) /\ lease'[v] = lease[v] /\ lease[v].job \in Jobs \ {j}
      BY <2>2, <1>3, <1>5 DEF IInv, TypeOK, Live
    <3>2. job'[lease[v].job] = job[lease[v].job]
      BY <3>1, <1>1 DEF IInv, TypeOK
    <3> QED BY <3>1, <3>2 DEF IInv, LeaseIsKept, Live, Holds
  <2> QED BY <2>1, <2>2
<1>8. /\ job'[j].attempt = job[j].attempt + 1
      /\ job'[j].status = "RUNNING"
      /\ \A k \in Jobs \ {j} : job'[k] = job[k]
  BY <1>1 DEF IInv, TypeOK
<1>9. job[j].attempt < MaxAttempts[j]
  BY <1>1 DEF IInv, AttemptLeft
<1>10. job[j].attempt \in Nat /\ MaxAttempts[j] \in Nat
  BY AttemptsAssumption DEF IInv, TypeOK
<1>11. AttemptsBounded' /\ AttemptLeft'
  BY <1>8, <1>9, <1>10 DEF IInv, AttemptsBounded, AttemptLeft
<1> QED BY <1>2, <1>6, <1>7, <1>11 DEF IInv

\* A process that is done with its job gives up its lease and writes a status
\* into its own row; a row that is to be retried has an attempt left.
LEMMA ReleaseKeeps ==
  ASSUME IInv, NEW w \in Workers, lease[w] # NoLease,
         NEW status \in {"COMPLETED", "FAILED", "RETRY"},
         status = "RETRY" => ~LastAttempt(w),
         Release(w, status)
  PROVE  IInv'
<1> DEFINE k == lease[w].job
<1>1. k \in Jobs /\ Holds(w) /\ job[k].attempt = lease[w].attempt
  BY DEF IInv, TypeOK, LeaseIsKept, Live
<1>2. /\ job' = [job EXCEPT ![k].status = status, ![k].by = NoName]
      /\ lease' = [lease EXCEPT ![w] = NoLease]
  BY <1>1 DEF Release
<1>3. TypeOK'
  BY <1>1, <1>2 DEF IInv, TypeOK, Status, Names
<1>4. /\ job'[k].status = status /\ job'[k].attempt = job[k].attempt
      /\ \A j \in Jobs \ {k} : job'[j] = job[j]
  BY <1>1, <1>2 DEF IInv, TypeOK
<1>5. lease'[w] = NoLease /\ \A v \in Workers \ {w} : lease'[v] = lease[v]
  BY <1>2 DEF IInv, TypeOK
<1>6. OneRunner'
  BY <1>5 DEF IInv, OneRunner, Live
<1>7. LeaseIsKept'
  <2> SUFFICES ASSUME NEW v \in Workers, Live(v)'
               PROVE  Holds(v)' /\ job'[lease'[v].job].attempt = lease'[v].attempt
    BY DEF LeaseIsKept
  <2>1. v # w /\ lease'[v] = lease[v] /\ Live(v)
    BY <1>5 DEF Live
  <2>2. lease[v].job \in Jobs /\ lease[v].job # k
    BY <2>1 DEF IInv, TypeOK, OneRunner, Live
  <2>3. job'[lease[v].job] = job[lease[v].job]
    BY <2>2, <1>4
  <2> QED BY <2>1, <2>3 DEF IInv, LeaseIsKept, Live, Holds
<1>8. status = "RETRY" => job[k].attempt < MaxAttempts[k]
  <2>1. status = "RETRY" => ~(job[k].attempt >= MaxAttempts[k])
    BY <1>1 DEF LastAttempt
  <2> QED BY <2>1, <1>1, AttemptsAssumption DEF IInv, TypeOK
<1>9. AttemptsBounded' /\ AttemptLeft'
  BY <1>1, <1>8, <1>4 DEF IInv, TypeOK, AttemptsBounded, AttemptLeft
<1> QED BY <1>3, <1>6, <1>7, <1>9 DEF IInv

\* A process that dies leaves the rows as they are.
LEMMA CrashKeeps ==
  ASSUME IInv, NEW w \in Workers, Crash(w)
  PROVE  IInv'
<1>1. /\ job' = job
      /\ lease' \in [Workers -> [job : Jobs, attempt : Nat] \union {NoLease}]
      /\ \A v \in Workers : lease'[v] \in {lease[v], NoLease}
  BY DEF Crash, IInv, TypeOK
<1> QED BY <1>1 DEF IInv, TypeOK, Names, OneRunner, LeaseIsKept, AttemptsBounded,
                    AttemptLeft, Live, Holds

\* Every statement of the queue, and every crash, keeps them in agreement.
LEMMA NextKeeps == IInv /\ [Next]_vars => IInv'
<1> SUFFICES ASSUME IInv, [Next]_vars PROVE IInv'
  OBVIOUS
<1>1. ASSUME NEW js \in SUBSET Jobs, Enqueue(js) PROVE IInv'
  BY <1>1, EnqueueKeeps
<1>2. ASSUME NEW j \in Jobs, NEW w \in Workers, ClaimNext(w, j) PROVE IInv'
  BY <1>2, ClaimKeeps
<1>3. ASSUME NEW w \in Workers, CompleteJob(w) PROVE IInv'
  BY <1>3, ReleaseKeeps DEF CompleteJob
<1>4. ASSUME NEW w \in Workers, FailJob(w) PROVE IInv'
  BY <1>4, ReleaseKeeps DEF FailJob
<1>5. ASSUME NEW w \in Workers, Crash(w) PROVE IInv'
  BY <1>5, CrashKeeps
<1>6. CASE UNCHANGED vars
  BY <1>6 DEF vars, IInv, TypeOK, Names, OneRunner, LeaseIsKept, AttemptsBounded,
              AttemptLeft, Live, Holds
<1> QED BY <1>1, <1>2, <1>3, <1>4, <1>5, <1>6 DEF Next

\* The queue's invariant holds whatever processes call, share names or die.
THEOREM QueueInvariant == Spec => []IInv
  BY InitHolds, NextKeeps, PTL DEF Spec

\* The queue's variables keep their types.
THEOREM QueueTypeCorrect == Spec => []TypeOK
<1>1. IInv => TypeOK
  BY DEF IInv
<1> QED BY <1>1, QueueInvariant, PTL

\* A job is run by at most one living process, even under a shared worker id.
THEOREM QueueOneRunner == Spec => []OneRunner
<1>1. IInv => OneRunner
  BY DEF IInv
<1> QED BY <1>1, QueueInvariant, PTL

\* complete_job and fail_job never report JobLeaseLost.
THEOREM QueueLeaseIsKept == Spec => []LeaseIsKept
<1>1. IInv => LeaseIsKept
  BY DEF IInv
<1> QED BY <1>1, QueueInvariant, PTL

\* No job is started more often than max_attempts says.
THEOREM QueueAttemptsBounded == Spec => []AttemptsBounded
<1>1. IInv => AttemptsBounded
  BY DEF IInv
<1> QED BY <1>1, QueueInvariant, PTL

\* A job that completed or failed for good is never taken up again: a row changes
\* only when its job is enqueued for the first time, claimed, or released, and a
\* finished job is none of those.
THEOREM QueueFinishedForGood == Spec => FinishedForGood
<1>1. IInv /\ [Next]_vars =>
        [\A j \in Jobs : job[j].status \in {"COMPLETED", "FAILED"} =>
           job'[j] = job[j]]_vars
  <2> SUFFICES ASSUME IInv, Next, NEW j \in Jobs,
                      job[j].status \in {"COMPLETED", "FAILED"}
               PROVE  job'[j] = job[j]
    OBVIOUS
  <2>1. ASSUME NEW js \in SUBSET Jobs, Enqueue(js) PROVE job'[j] = job[j]
    BY <2>1 DEF Enqueue, Enqueued, EnqueuedRow
  <2>2. ASSUME NEW i \in Jobs, NEW w \in Workers, ClaimNext(w, i)
        PROVE  job'[j] = job[j]
    BY <2>2 DEF ClaimNext, Claimable, IInv, TypeOK
  <2>3. ASSUME NEW w \in Workers, NEW status, Release(w, status)
        PROVE  job'[j] = job[j]
    BY <2>3 DEF Release, Holds, IInv, TypeOK
  <2>4. ASSUME NEW w \in Workers, CompleteJob(w) \/ FailJob(w) \/ Crash(w)
        PROVE  job'[j] = job[j]
    BY <2>3, <2>4 DEF CompleteJob, FailJob, Crash
  <2> QED BY <2>1, <2>2, <2>4 DEF Next
<1> QED BY <1>1, QueueInvariant, PTL DEF Spec, FinishedForGood
=============================================================================
