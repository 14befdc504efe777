----------------------------- MODULE LandingProofs -----------------------------
(***************************************************************************)
(* Proofs about Landing, for any workers, attempts, polls, drifts, failing *)
(* calls and crashes: its type invariant; that a repair is merged only     *)
(* after its three watches, and the known-good mark moved only after those *)
(* of the merge; that an incident is resolved either after the latter or   *)
(* with a rollback asked for; that Landing implements LandOrRestore; and   *)
(* that the handlers use the job queue as JobQueue allows.                 *)
(*                                                                         *)
(* Most rest on one invariant, Follows: what a job's key says about the    *)
(* watches that must have passed is true from the moment the job is        *)
(* enqueued, because passed only grows (PassedGrows) and each job is       *)
(* enqueued by a handler of the job before it.  No mutual exclusion is     *)
(* needed, so retries and lost answers do no harm here.                    *)
(*                                                                         *)
(* ResolvedMeansRecovered does need it: that the promoted build is in one  *)
(* hand at a time (OneTrial), until it is landed or rolled back (Apart).   *)
(* Both hold as long as the answer that ends a trial is not lost           *)
(* (Orderly); when it is, the property fails (the run landing_retried).    *)
(***************************************************************************)
EXTENDS Landing, TLAPS

QP == INSTANCE JobQueueProofs

\* The points of each handler, or of what several share.
VerifyPoints ==
  {"verify.find", "verify.next", "verify.save", "verify.health", "verify.watch"}
WatchPoints == {"watch.current", "watch.health", "watch.next", "watch.land"}
LandPoints  == {"land.merge", "land.find", "land.next", "land.save", "land.verify"}
DurablePoints ==
  {"durable.current", "durable.health", "durable.next", "durable.mark", "durable.resolve"}
BeginPoints == {"begin", "begin.move", "begin.enqueue"}
RollbackPoints ==
  {"rollback.target", "rollback.request", "rollback.move", "rollback.enqueue"}
RestoredPoints ==
  {"restored.current", "restored.next", "restored.health", "restored.revert",
   "restored.resolve"}
PausePoints == {"pause"}

\* At which points a handler of each kind may stand.
Within(p, kind) ==
  \/ p = kind
  \/ p \in VerifyPoints   /\ kind = "verify-production"
  \/ p \in WatchPoints    /\ kind = "watch"
  \/ p \in LandPoints     /\ kind = "land-repair"
  \/ p \in DurablePoints  /\ kind \in {"verify-durable", "durable-watch"}
  \/ p \in BeginPoints    /\ kind \in {"verify-production", "watch", "verify-durable",
                                       "durable-watch"}
  \/ p \in RollbackPoints /\ kind = "rollback"
  \/ p \in RestoredPoints /\ kind = "verify-rollback"
  \/ p = "pause"          /\ kind \in {"land-repair", "rollback"}

\* The points of the worker's loop.
Outer == Ends \union {"escalate.move"}

\* A worker inside a handler holds the lease of a job of a kind that reaches that point.
Agrees(w) ==
  /\ pc[w] = "idle" => ~Running(w)
  /\ pc[w] \notin {"idle", "escalate", "escalate.move"} => Running(w)
  /\ pc[w] \notin Outer => Within(pc[w], KindOf(w))

Agreement == \A w \in Workers : Agrees(w)

Basic == TypeOK /\ QP!IInv /\ Agreement

\* The handlers' queue is typed as the job queue proved about on its own.
LEMMA QueueTypes == Q!TypeOK <=> QP!TypeOK
  BY DEF QP!TypeOK, Q!TypeOK, QP!Names, Q!Names, QP!Status, Q!Status, Q!NoLease,
         QP!NoLease, Q!NoName, QP!NoName

\* What a job's key is made of.
LEMMA JobsOf ==
  ASSUME NEW j \in Jobs
  PROVE  /\ j[1] \in Kind /\ j[2] \in Nat /\ j = <<j[1], j[2]>>
         /\ j[1] \in {"watch", "durable-watch"} => j[2] \in Checks
  BY LandingAssumption DEF Jobs, Kind, Checks, Polls

\* The queue's assumption holds: every job may be attempted.
LEMMA JobAttempts == QP!AttemptsAssumption
  BY JobsOf, LandingAssumption DEF QP!AttemptsAssumption, MaxAttempts

HandlerStep(w) ==
  \/ ReadWork(w) \/ PauseLanding(w) \/ BeginRollback(w)
  \/ VerifyPromoted(w) \/ WatchPromoted(w) \/ LandRepair(w) \/ Durable(w)
  \/ Rollback(w) \/ VerifyRestored(w)

ControlStep(w) == HandlerStep(w) \/ Loop(w) \/ Broken(w)

\* Every step is a step of the job queue, or leaves it alone.
LEMMA QueueStep ==
  ASSUME TypeOK, [Next]_vars PROVE [QP!Next]_(QP!vars)
<1> USE DEF QP!vars
<1>q. ASSUME NEW j, job' = Q!Enqueued({j}), lease' = lease PROVE [QP!Next]_(QP!vars)
  <2>1. QP!Enqueue({j} \intersect Jobs)
    BY <1>q DEF QP!Enqueue, QP!Enqueued, Q!Enqueued, QP!EnqueuedRow, Q!EnqueuedRow
  <2> QED BY <2>1 DEF QP!Next
<1>1. CASE UNCHANGED vars \/ Outside
  BY <1>1 DEF vars, handlerVars, Outside, BuildActivates, TargetDrifts, VercelRestores,
     FeedReports, RefreshKnownGood, Pause, Resume
<1>2. ASSUME NEW w \in Workers, HandlerStep(w) PROVE [QP!Next]_(QP!vars)
  <2>1. CASE ReadWork(w) \/ PauseLanding(w) \/ BeginRollback(w)
    BY <2>1, <1>q DEF ReadWork, PauseLanding, BeginRollback, EnqueueStep, Choose, Transition
  <2>2. CASE VerifyPromoted(w) \/ WatchPromoted(w)
    BY <2>2, <1>q DEF VerifyPromoted, FindPromoted, SavePromoted, CheckPromoted, EnqueueWatch,
       WatchPromoted, WatchCurrent, WatchHealth, EnqueueLanding, EnqueueNext, FindCurrent,
       CheckHealth, EnqueueStep, Choose
  <2>3. CASE LandRepair(w) \/ Durable(w)
    BY <2>3, <1>q DEF LandRepair, MergeRepair, FindLanded, SaveLanded, EnqueueDurable, Durable,
       DurableCurrent, DurableHealth, EnqueueDurableWatch, MarkKnownGood, ResolveLanded,
       EnqueueNext, FindCurrent, CheckHealth, EnqueueStep, Choose, Transition
  <2>4. CASE Rollback(w) \/ VerifyRestored(w)
    BY <2>4, <1>q DEF Rollback, CheckTarget, RequestRollback, RollBack, EnqueueRestored,
       VerifyRestored, RestoredCurrent, RestoredHealth, ResolveRestored, RevertSource,
       EnqueueNext, FindCurrent, CheckHealth, EnqueueStep, Choose, Transition
  <2> QED BY <1>2, <2>1, <2>2, <2>3, <2>4 DEF HandlerStep
<1>3. ASSUME NEW w \in Workers, Loop(w) PROVE [QP!Next]_(QP!vars)
  <2>1. CASE ClaimNext(w)
    <3>1. PICK j \in Jobs : Q!ClaimNext(w, j)
      BY <2>1 DEF ClaimNext
    <3>2. QP!ClaimNext(w, j)
      BY <3>1 DEF Q!ClaimNext, QP!ClaimNext, Q!Claimable, QP!Claimable, Q!NoLease, QP!NoLease
    <3> QED BY <3>2 DEF QP!Next
  <2>2. CASE CompleteJob(w) \/ FailJob(w)
    <3>1. QP!CompleteJob(w) \/ QP!FailJob(w)
      BY <2>2 DEF CompleteJob, FailJob, Q!CompleteJob, QP!CompleteJob, Q!FailJob, QP!FailJob,
         Q!Release, QP!Release, Q!Holds, QP!Holds, Q!LastAttempt, QP!LastAttempt,
         Q!NoLease, QP!NoLease, Q!NoName, QP!NoName
    <3> QED BY <3>1 DEF QP!Next
  <2>3. CASE EscalateRead(w) \/ EscalateMove(w)
    BY <2>3 DEF EscalateRead, EscalateMove, Transition
  <2> QED BY <1>3, <2>1, <2>2, <2>3 DEF Loop, LoopStep
<1>4. ASSUME NEW w \in Workers, Broken(w) PROVE [QP!Next]_(QP!vars)
  <2>1. CASE StepFails(w)
    BY <2>1 DEF StepFails
  <2>2. CASE Crash(w) /\ lease[w] = Q!NoLease
    BY <2>2 DEF Crash, TypeOK, Q!TypeOK
  <2>3. CASE Crash(w) /\ lease[w] # Q!NoLease
    <3>1. QP!Crash(w)
      BY <2>3 DEF Crash, QP!Crash, Q!NoLease, QP!NoLease
    <3> QED BY <3>1 DEF QP!Next
  <2> QED BY <1>4, <2>1, <2>2, <2>3 DEF Broken, Fault
<1> QED BY <1>1, <1>2, <1>3, <1>4 DEF Next, WorkerStep, HandlerStep

Elsewhere(w) ==
  \A v \in Workers \ {w} :
    pc'[v] = pc[v] /\ work'[v] = work[v] /\ lease'[v] = lease[v]

Moved(w, from, to) ==
  /\ pc[w] = from /\ pc'[w] = to
  /\ pc' \in [Workers -> Point]
  /\ work' \in [Workers -> Work]
  /\ Elsewhere(w)

\* A handler's step moves its own worker, which goes on with what it has seen.
LEMMA ReadMoves ==
  ASSUME TypeOK, NEW w \in Workers, NEW from, NEW to \in Point, NEW seen \in Work,
         Read(w, from, to, seen), \A v \in Workers \ {w} : lease'[v] = lease[v]
  PROVE  Moved(w, from, to)
<1>1. Blank \in Work
  BY DEF Blank, Work, IncidentState, Built
<1> QED BY <1>1 DEF TypeOK, Read, Moved, Elsewhere

\* The same of a step that keeps what was read before.
LEMMA GotoMoves ==
  ASSUME TypeOK, NEW w \in Workers, NEW from, NEW to \in Point,
         Goto(w, from, to), \A v \in Workers \ {w} : lease'[v] = lease[v]
  PROVE  Moved(w, from, to)
<1>1. work[w] \in Work
  BY DEF TypeOK
<1> QED BY <1>1, ReadMoves DEF Goto

\* A worker stays in its handler, or leaves it, with its lease.
Stays(w) ==
  /\ Moved(w, pc[w], pc'[w])
  /\ pc[w] \notin Outer
  /\ pc'[w] \in {"ok", "err", "escalate"} \/ (pc'[w] \notin Outer /\ Within(pc'[w], KindOf(w)))
  /\ lease' = lease

\* A worker that stays in its handler still holds the lease of the job it runs.
LEMMA StaysAgrees ==
  ASSUME Basic, NEW w \in Workers, Stays(w)
  PROVE  Agrees(w)'
<1>1. Agrees(w)
  BY DEF Basic, Agreement
<1> QED BY <1>1 DEF Agrees, Stays, Running, KindOf, Outer, Ends

\* The handlers' points are not the loop's.
LEMMA Inside ==
  /\ VerifyPoints \union WatchPoints \union LandPoints \union DurablePoints \union BeginPoints
       \union RollbackPoints \union RestoredPoints \union {"pause"} \union Kind
       \subseteq Point \ Outer
  /\ {"ok", "err", "escalate", "idle", "escalate.move"} \subseteq Point
  BY DEF Point, Outer, Ends, Kind, VerifyPoints, WatchPoints, LandPoints, DurablePoints,
     BeginPoints, RollbackPoints, RestoredPoints

\* A worker that goes to a point of its own handler, or to its end, stays.
LEMMA ChooseStays ==
  ASSUME Basic, NEW w \in Workers, NEW from \in Point \ Outer, NEW to \in Point,
         Goto(w, from, to), lease' = lease,
         to \in {"ok", "err", "escalate"} \/ (to \notin Outer /\ Within(to, KindOf(w)))
  PROVE  Stays(w)
  BY GotoMoves DEF Basic, Moved, Stays

\* The kind of job a worker runs, from where it stands.
LEMMA WhichKind ==
  ASSUME Basic, NEW w \in Workers, pc[w] \notin Outer
  PROVE  /\ Running(w)
         /\ pc[w] \in Kind => KindOf(w) = pc[w]
         /\ pc[w] \in VerifyPoints => KindOf(w) = "verify-production"
         /\ pc[w] \in WatchPoints => KindOf(w) = "watch"
         /\ pc[w] \in LandPoints => KindOf(w) = "land-repair"
         /\ pc[w] \in DurablePoints => KindOf(w) \in {"verify-durable", "durable-watch"}
         /\ pc[w] \in BeginPoints => KindOf(w) \in {"verify-production", "watch",
                                                    "verify-durable", "durable-watch"}
         /\ pc[w] \in RollbackPoints => KindOf(w) = "rollback"
         /\ pc[w] \in RestoredPoints => KindOf(w) = "verify-rollback"
         /\ pc[w] = "pause" => KindOf(w) \in {"land-repair", "rollback"}
<1>1. Running(w) /\ Within(pc[w], KindOf(w))
  BY DEF Basic, Agreement, Agrees, Outer, Ends
<1>2. KindOf(w) \in Kind
  BY <1>1, JobsOf DEF Basic, TypeOK, Q!TypeOK, Running, KindOf
<1> QED BY <1>1, <1>2 DEF Within, Kind, VerifyPoints, WatchPoints, LandPoints, DurablePoints,
      BeginPoints, RollbackPoints, RestoredPoints

\* The same for a step within one group of points, or from it to a rollback.
LEMMA GoesOn ==
  ASSUME Basic, NEW w \in Workers, NEW points, NEW to,
         points \in {VerifyPoints, WatchPoints, LandPoints, DurablePoints, BeginPoints,
                     RollbackPoints, RestoredPoints, PausePoints},
         pc[w] \in points, Goto(w, pc[w], to), lease' = lease,
         \/ to \in points \union {"ok", "err", "escalate"}
         \/ to = "begin" /\ points \in {VerifyPoints, WatchPoints, DurablePoints}
  PROVE  Stays(w)
<1>1. pc[w] \notin Outer
  BY Inside DEF PausePoints
<1>2. to \in Point
  BY Inside DEF PausePoints, BeginPoints
<1>3. to \in {"ok", "err", "escalate"} \/ (to \notin Outer /\ Within(to, KindOf(w)))
  <2>1. CASE points = VerifyPoints
    BY <1>1, <2>1, Inside, WhichKind DEF Within, BeginPoints
  <2>2. CASE points = WatchPoints
    BY <1>1, <2>2, Inside, WhichKind DEF Within, BeginPoints
  <2>3. CASE points = LandPoints
    BY <1>1, <2>3, Inside, WhichKind DEF Within, LandPoints, BeginPoints, VerifyPoints,
       WatchPoints, DurablePoints
  <2>4. CASE points = DurablePoints
    BY <1>1, <2>4, Inside, WhichKind DEF Within, BeginPoints
  <2>5. CASE points = BeginPoints
    BY <1>1, <2>5, Inside, WhichKind DEF Within, BeginPoints, VerifyPoints, WatchPoints,
       DurablePoints
  <2>6. CASE points = RollbackPoints \/ points = RestoredPoints \/ points = PausePoints
    BY <1>1, <2>6, Inside, WhichKind DEF PausePoints, Within, RollbackPoints, RestoredPoints,
       BeginPoints, VerifyPoints, WatchPoints, DurablePoints
  <2> QED BY <2>1, <2>2, <2>3, <2>4, <2>5, <2>6
<1>4. pc[w] \in Point
  BY DEF Basic, TypeOK
<1> QED BY <1>1, <1>2, <1>3, <1>4, ChooseStays

\* Where a handler begins when it has read the incident.
EnterPoints == [k \in Kind |->
  CASE k = "verify-production" -> {"ok", "begin", "verify.find"}
    [] k = "watch" -> {"ok", "watch.current"}
    [] k \in {"verify-durable", "durable-watch"} -> {"ok", "durable.current"}
    [] k = "land-repair" -> {"ok", "err", "pause", "land.merge"}
    [] k = "rollback" -> {"ok", "err", "pause", "rollback.target"}
    [] OTHER -> {"ok", "err", "escalate", "restored.current"}]

\* Entry leads there.
LEMMA EntryEnters ==
  ASSUME NEW w \in Workers, pc[w] \in Kind
  PROVE  Entry(w) \in EnterPoints[pc[w]]
  BY DEF EnterPoints, Entry, RollbackEntry, LandEntry, RestoredEntry, VerifyEntry,
     PausedEntry, Kind

\* Reading the incident keeps a worker in its handler.
LEMMA ReadStays ==
  ASSUME Basic, NEW w \in Workers, ReadWork(w)
  PROVE  Stays(w) /\ pc[w] \in Kind /\ pc'[w] = Entry(w)
<1>1. pc[w] \in Kind /\ pc[w] \notin Outer
  BY Inside DEF ReadWork
<1>2. KindOf(w) = pc[w]
  BY <1>1, WhichKind
<1>3. Entry(w) \in EnterPoints[pc[w]]
  BY <1>1, EntryEnters
<1>4. /\ Entry(w) \in Point
      /\ \/ Entry(w) \in {"ok", "err", "escalate"}
         \/ Entry(w) \notin Outer /\ Within(Entry(w), KindOf(w))
  BY <1>1, <1>2, <1>3, Inside DEF EnterPoints, Kind, Within, VerifyPoints, WatchPoints,
     LandPoints, DurablePoints, BeginPoints, RollbackPoints, RestoredPoints
<1>5. \E seen \in Work : Read(w, pc[w], Entry(w), seen)
  BY DEF ReadWork, Basic, TypeOK, Work, Blank, IncidentState
<1>6. lease' = lease
  BY DEF ReadWork
<1> QED BY <1>1, <1>4, <1>5, <1>6, ReadMoves DEF Basic, Moved, Stays

\* Every handler's step stays in it.
LEMMA HandlerBasic ==
  ASSUME Basic, NEW w \in Workers, HandlerStep(w)
  PROVE  Stays(w)
<1>1. CASE ReadWork(w)
  BY <1>1, ReadStays
<1>2. CASE PauseLanding(w)
  <2>1. pc[w] \in PausePoints /\ lease' = lease
    BY <1>2 DEF PausePoints, PauseLanding, Transition
  <2>2. Goto(w, pc[w], "ok") \/ Goto(w, pc[w], "err")
    BY <1>2, <2>1, WhichKind, Inside DEF PausePoints, PauseLanding, Transition, Fail
  <2> QED BY <2>1, <2>2, GoesOn
<1>3. CASE BeginRollback(w)
  <2>1. pc[w] \in BeginPoints /\ lease' = lease
    BY <1>3 DEF BeginRollback, Transition, Choose, EnqueueStep, Goto, Read, BeginPoints
  <2>2. \E to \in {"ok", "err", "escalate", "begin.move", "begin.enqueue"} : Goto(w, pc[w], to)
    BY <1>3, <2>1, WhichKind, Inside
       DEF BeginRollback, Transition, Choose, EnqueueStep, Fail, Goto, Read
  <2>3. {"begin.move", "begin.enqueue"} \subseteq BeginPoints
    BY DEF BeginPoints
  <2> QED BY <2>1, <2>2, <2>3, GoesOn
<1>4. CASE VerifyPromoted(w)
  <2>1. pc[w] \in VerifyPoints /\ lease' = lease
        /\ \E to \in {"verify.next", "verify.save", "verify.health", "verify.watch", "ok",
                      "begin"} :
             Goto(w, pc[w], to)
    BY <1>4 DEF VerifyPromoted, FindPromoted, SavePromoted, CheckPromoted, EnqueueWatch,
       EnqueueNext, FindCurrent, CheckHealth, EnqueueStep, Choose, VerifyPoints, Goto, Read
  <2>2. {"verify.next", "verify.save", "verify.health", "verify.watch"} \subseteq VerifyPoints
    BY DEF VerifyPoints
  <2> QED BY <2>1, <2>2, GoesOn
<1>5. CASE WatchPromoted(w)
  <2>1. pc[w] \in WatchPoints /\ lease' = lease
        /\ \E to \in {"watch.health", "watch.next", "watch.land", "ok", "begin"} :
             Goto(w, pc[w], to)
    BY <1>5 DEF WatchPromoted, WatchCurrent, WatchHealth, EnqueueLanding,
       EnqueueNext, FindCurrent, CheckHealth, EnqueueStep, Choose, WatchPoints, Goto, Read
  <2>2. {"watch.health", "watch.next", "watch.land"} \subseteq WatchPoints
    BY DEF WatchPoints
  <2> QED BY <2>1, <2>2, GoesOn
<1>6. CASE LandRepair(w)
  <2>1. pc[w] \in LandPoints /\ lease' = lease
        /\ \E to \in {"land.find", "land.next", "land.save", "land.verify", "ok", "err"} :
             Goto(w, pc[w], to)
    BY <1>6 DEF LandRepair, MergeRepair, FindLanded, SaveLanded, EnqueueDurable,
       EnqueueNext, FindCurrent, EnqueueStep, Choose, LandPoints, Goto, Read
  <2>2. {"land.find", "land.next", "land.save", "land.verify"} \subseteq LandPoints
    BY DEF LandPoints
  <2> QED BY <2>1, <2>2, GoesOn
<1>7. CASE Durable(w)
  <2>1. pc[w] \in DurablePoints /\ lease' = lease
    BY <1>7 DEF Durable, DurableCurrent, DurableHealth, EnqueueDurableWatch, MarkKnownGood,
       ResolveLanded, FindCurrent, CheckHealth, EnqueueStep, Choose, Transition, DurablePoints,
       Goto, Read
  <2>2. \E to \in {"durable.health", "durable.next", "durable.mark", "durable.resolve", "ok",
                   "err", "begin"} : Goto(w, pc[w], to)
    <3>1. Running(w)
      BY <2>1, WhichKind, Inside
    <3> QED BY <1>7, <3>1 DEF Durable, DurableCurrent, DurableHealth, EnqueueDurableWatch,
       MarkKnownGood, ResolveLanded, FindCurrent, CheckHealth, EnqueueStep, Choose, Transition,
       Fail, Goto, Read
  <2>3. {"durable.health", "durable.next", "durable.mark", "durable.resolve"}
           \subseteq DurablePoints
    BY DEF DurablePoints
  <2> QED BY <2>1, <2>2, <2>3, GoesOn
<1>8. CASE Rollback(w)
  <2>1. pc[w] \in RollbackPoints /\ lease' = lease
    BY <1>8 DEF Rollback, CheckTarget, RequestRollback, RollBack, EnqueueRestored,
       EnqueueStep, Choose, Transition, RollbackPoints, Goto, Read
  <2>2. \E to \in {"rollback.request", "rollback.move", "rollback.enqueue", "ok", "err",
                   "escalate"} : Goto(w, pc[w], to)
    <3>1. Running(w)
      BY <2>1, WhichKind, Inside
    <3> QED BY <1>8, <3>1 DEF Rollback, CheckTarget, RequestRollback, RollBack,
       EnqueueRestored, EnqueueStep, Choose, Transition, Fail, Goto, Read
  <2>3. {"rollback.request", "rollback.move", "rollback.enqueue"} \subseteq RollbackPoints
    BY DEF RollbackPoints
  <2> QED BY <2>1, <2>2, <2>3, GoesOn
<1>9. CASE VerifyRestored(w)
  <2>1. pc[w] \in RestoredPoints /\ lease' = lease
    BY <1>9 DEF VerifyRestored, RestoredCurrent, RestoredHealth, ResolveRestored, RevertSource,
       EnqueueNext, FindCurrent, CheckHealth, EnqueueStep, Choose, Transition, RestoredPoints,
       Goto, Read
  <2>2. \E to \in {"restored.next", "restored.health", "restored.revert", "restored.resolve",
                   "ok", "err", "escalate"} : Goto(w, pc[w], to)
    <3>1. Running(w)
      BY <2>1, WhichKind, Inside
    <3> QED BY <1>9, <3>1 DEF VerifyRestored, RestoredCurrent, RestoredHealth, ResolveRestored,
       RevertSource, EnqueueNext, FindCurrent, CheckHealth, EnqueueStep, Choose, Transition,
       Fail, Goto, Read
  <2>3. {"restored.next", "restored.health", "restored.revert", "restored.resolve"}
           \subseteq RestoredPoints
    BY DEF RestoredPoints
  <2> QED BY <2>1, <2>2, <2>3, GoesOn
<1> QED BY <1>1, <1>2, <1>3, <1>4, <1>5, <1>6, <1>7, <1>8, <1>9 DEF HandlerStep

\* The loop's steps, a failed call and a crash leave the worker agreeing with its lease,
\* and lead into a handler only at its start.
LEMMA LoopBasic ==
  ASSUME Basic, NEW w \in Workers, Loop(w) \/ Broken(w)
  PROVE  /\ Moved(w, pc[w], pc'[w])
         /\ Agrees(w)'
         /\ pc'[w] \in Kind \union Ends \union {"escalate.move"}
<1>0. Agrees(w) /\ lease \in [Workers -> [job : Jobs, attempt : Nat] \union {Q!NoLease}]
      /\ pc \in [Workers -> Point]
  BY DEF Basic, Agreement, TypeOK, Q!TypeOK
<1>p. Kind \union {"idle", "ok", "err", "escalate", "escalate.move"} \subseteq Point
  BY DEF Point, Ends
<1>k. \A k \in Kind : k \notin Outer
  BY DEF Kind, Outer, Ends
<1>g. ASSUME NEW to \in Point, Goto(w, pc[w], to),
             \A v \in Workers \ {w} : lease'[v] = lease[v]
      PROVE  Moved(w, pc[w], pc'[w]) /\ pc'[w] = to
  BY <1>g, GotoMoves DEF Moved, Basic
<1> USE DEF Agrees, Running, KindOf, Ends
<1>1. CASE ClaimNext(w)
  <2>1. PICK j \in Jobs : Q!ClaimNext(w, j) /\ Goto(w, "idle", j[1])
    BY <1>1 DEF ClaimNext
  <2>2. j[1] \in Kind /\ pc[w] = "idle"
    BY <2>1, JobsOf DEF Goto, Read
  <2>3. lease' = [lease EXCEPT ![w] = [job |-> j, attempt |-> job[j].attempt + 1]]
    BY <2>1 DEF Q!ClaimNext
  <2>4. lease'[w] = [job |-> j, attempt |-> job[j].attempt + 1]
        /\ \A v \in Workers \ {w} : lease'[v] = lease[v]
    BY <2>3, <1>0
  <2>5. lease'[w] # Q!NoLease
    BY <2>4 DEF Q!NoLease
  <2>6. Moved(w, pc[w], pc'[w]) /\ pc'[w] = j[1]
    BY <2>1, <2>2, <2>4, <1>g, <1>p
  <2>7. Within(pc'[w], lease'[w].job[1])
    BY <2>4, <2>6 DEF Within
  <2> QED BY <2>2, <2>4, <2>5, <2>6, <2>7, <1>k DEF Outer
<1>2. CASE CompleteJob(w) \/ FailJob(w) \/ Crash(w)
  <2>1. lease' = [lease EXCEPT ![w] = Q!NoLease]
    BY <1>2 DEF CompleteJob, FailJob, Crash, Q!CompleteJob, Q!FailJob, Q!Release
  <2>2. \E to \in {"idle", "escalate"} : Goto(w, pc[w], to)
    BY <1>2 DEF CompleteJob, FailJob, Crash, Goto, Read
  <2> QED BY <2>1, <2>2, <1>0, <1>g, <1>p DEF Outer
<1>3. CASE EscalateRead(w)
  <2>1. [Blank EXCEPT !.state = incident] \in Work
    BY DEF Basic, TypeOK, Blank, Work
  <2>2. \E to \in {"ok", "idle", "escalate.move"} :
          /\ Read(w, "escalate", to, [Blank EXCEPT !.state = incident])
          /\ to = "ok" => Running(w)
          /\ to = "idle" => ~Running(w)
    BY <1>3 DEF EscalateRead, Return
  <2>3. lease' = lease
    BY <1>3 DEF EscalateRead
  <2> QED BY <2>1, <2>2, <2>3, <1>p, ReadMoves DEF Moved, Basic, Outer
<1>4. CASE EscalateMove(w)
  <2>1. \E to \in {"ok", "idle", "err"} :
          /\ Goto(w, "escalate.move", to)
          /\ to \in {"ok", "err"} => Running(w)
          /\ to = "idle" => ~Running(w)
    BY <1>4 DEF EscalateMove, Transition, Return, Fail
  <2>2. lease' = lease
    BY <1>4 DEF EscalateMove, Transition
  <2> QED BY <2>1, <2>2, <1>p, GotoMoves DEF Moved, Basic, Outer
<1>5. CASE StepFails(w)
  <2>1. Goto(w, pc[w], "err") /\ lease' = lease /\ Running(w)
    BY <1>5 DEF StepFails
  <2> QED BY <2>1, <1>p, <1>g DEF Outer
<1> QED BY <1>1, <1>2, <1>3, <1>4, <1>5 DEF Loop, LoopStep, Broken, Fault

\* Every step keeps the workers agreeing with their leases.
LEMMA AgreementKept ==
  ASSUME Basic, [Next]_vars
  PROVE  Agreement' /\ pc' \in [Workers -> Point] /\ work' \in [Workers -> Work]
<1>1. ASSUME NEW w \in Workers, ControlStep(w)
      PROVE  Agreement' /\ pc' \in [Workers -> Point] /\ work' \in [Workers -> Work]
  <2>1. Agrees(w)' /\ Moved(w, pc[w], pc'[w])
    BY <1>1, HandlerBasic, StaysAgrees, LoopBasic DEF Stays, ControlStep
  <2>2. \A v \in Workers \ {w} : Agrees(v)'
    BY <2>1 DEF Moved, Elsewhere, Basic, Agreement, Agrees, Running, KindOf
  <2> QED BY <2>1, <2>2 DEF Agreement, Moved
<1>2. CASE UNCHANGED <<lease, pc, work>>
  BY <1>2 DEF Basic, TypeOK, Agreement, Agrees, Running, KindOf
<1>3. CASE Outside \/ UNCHANGED vars
  BY <1>2, <1>3 DEF Outside, BuildActivates, TargetDrifts, VercelRestores, FeedReports,
     RefreshKnownGood, Pause, Resume, vars, handlerVars
<1> QED BY <1>1, <1>3 DEF Next, WorkerStep, ControlStep, HandlerStep

\* A job that is run is a job that was enqueued.
LEMMA Numbers ==
  ASSUME Basic, NEW w \in Workers, Running(w)
  PROVE  /\ lease[w].job \in Jobs /\ lease[w].job = <<KindOf(w), Number(w)>>
         /\ Enqueued(lease[w].job)
         /\ KindOf(w) \in Kind /\ Number(w) \in Nat
         /\ KindOf(w) \in {"watch", "durable-watch"} => Number(w) \in Checks
<1>1. lease[w].job \in Jobs /\ job[lease[w].job].status = "RUNNING"
  BY DEF Basic, Running, QP!IInv, QP!TypeOK, QP!LeaseIsKept, QP!Live, QP!Holds, QP!NoLease,
     Q!NoLease
<1> QED BY <1>1, JobsOf DEF Enqueued, KindOf, Number

\* resolved_at is stamped for good.
LEMMA Flags ==
  ASSUME Basic, Stamp PROVE resolvedAt' \in BOOLEAN /\ (resolvedAt => resolvedAt')
  BY DEF Stamp

\* Saving a deployment keeps the table typed.
LEMMA SavedTypes ==
  ASSUME Basic, NEW d \in Built PROVE Saved(d) \in Seq(Built)
  BY DEF Saved, Basic, TypeOK

\* The part of TypeOK about the incident, the tables and the providers.
DataOK ==
  /\ incident \in IncidentState
  /\ {paused, resolvedAt, merged} \subseteq BOOLEAN
  /\ blame \in [merged : BOOLEAN, expected : Built \union {"none"}]
  /\ rows \in Seq(Built)
  /\ {knownGood, current, restoring} \subseteq Built \union {"none"}
  /\ activated \subseteq {"repair", "merge"}
  /\ drifts \in 0..MaxDrifts
  /\ passed \subseteq {"watch", "durable-watch"} \X Checks

\* Every step keeps it.
LEMMA DataTypes ==
  ASSUME Basic, [Next]_vars
  PROVE  DataOK'
<1> USE DEF DataOK
<1>0. TypeOK
  BY DEF Basic
<1>c. "Paused" \in IncidentState /\ "CollectingContext" \in IncidentState
      /\ {"good", "repair", "merge", "other"} = Built
      /\ {"RollingBack", "Resolved", "RolledBack", "Escalated"} \subseteq IncidentState
  BY DEF IncidentState, Built
<1>a. CASE Outside \/ UNCHANGED vars
  <2>1. CASE BuildActivates
    BY <1>0, <1>c, <2>1 DEF BuildActivates, TypeOK, handlerVars, tableVars
  <2>2. CASE TargetDrifts \/ VercelRestores
    <3>1. drifts' \in 0..MaxDrifts
      BY <1>0, <2>2, LandingAssumption DEF TargetDrifts, VercelRestores, TypeOK
    <3> QED BY <1>0, <1>c, <2>2, <3>1 DEF TargetDrifts, VercelRestores, TypeOK, handlerVars,
           tableVars
  <2>3. CASE FeedReports
    <3>1. current \in Built
      BY <1>0, <2>3 DEF FeedReports, TypeOK
    <3> QED BY <1>0, <2>3, <3>1, SavedTypes DEF FeedReports, TypeOK, handlerVars, outsideVars
  <2>4. CASE RefreshKnownGood
    <3>1. rows[Len(rows)] \in Built
      BY <1>0, <2>4 DEF RefreshKnownGood, TypeOK
    <3> QED BY <1>0, <2>4, <3>1 DEF RefreshKnownGood, TypeOK, handlerVars, outsideVars
  <2>5. CASE Pause
    BY <1>0, <2>5 DEF Pause, TypeOK, handlerVars, outsideVars, tableVars
  <2>6. CASE Resume
    BY <1>0, <1>c, <2>6 DEF Resume, TypeOK, handlerVars, outsideVars, tableVars
  <2>7. CASE UNCHANGED vars
    BY <1>0, <2>7 DEF vars, TypeOK, handlerVars, outsideVars, tableVars
  <2> QED BY <1>a, <2>1, <2>2, <2>3, <2>4, <2>5, <2>6, <2>7 DEF Outside
<1>p. ASSUME Plainly, incident' \in IncidentState
      PROVE  DataOK'
  BY <1>0, <1>p, Flags DEF Plainly, TypeOK, tableVars, outsideVars
<1>1. ASSUME NEW w \in Workers, Loop(w) \/ Broken(w)
      PROVE  Plainly /\ incident' \in IncidentState
  BY <1>0, <1>c, <1>1 DEF Loop, Broken, LoopStep, Fault, ClaimNext, CompleteJob, FailJob,
     EscalateRead, EscalateMove, Transition, StepFails, Crash, TypeOK
<1>2. ASSUME NEW w \in Workers, ReadWork(w)
      PROVE  UNCHANGED <<incident, paused, tableVars, resolvedAt, outsideVars, passed>>
  BY <1>2 DEF ReadWork
<1>3. ASSUME NEW w \in Workers,
             PauseLanding(w) \/ (Rollback(w) /\ ~RequestRollback(w)) \/ VerifyRestored(w)
      PROVE  Plainly /\ incident' \in IncidentState
  BY <1>0, <1>c, <1>3 DEF PauseLanding, Rollback, CheckTarget, RollBack, EnqueueRestored,
     VerifyRestored,
     RestoredCurrent, RestoredHealth, ResolveRestored, RevertSource, EnqueueNext, FindCurrent,
     CheckHealth, EnqueueStep, Choose, Transition, TypeOK
<1>4. ASSUME NEW w \in Workers, RequestRollback(w)
      PROVE  /\ UNCHANGED <<incident, paused, tableVars, merged, current, activated, drifts,
                             passed>>
             /\ restoring' \in Built \union {"none"} /\ Stamp
  BY <1>0, <1>4 DEF RequestRollback, TypeOK, Work, Choose
<1>5. ASSUME NEW w \in Workers, BeginRollback(w)
      PROVE  /\ incident' \in IncidentState /\ Stamp
             /\ blame' \in [merged : BOOLEAN, expected : Built \union {"none"}]
             /\ UNCHANGED <<paused, rows, knownGood, outsideVars, passed>>
  <2>1. Blame(w) \in [merged : BOOLEAN, expected : Built \union {"none"}]
    BY DEF Blame, Built
  <2> QED BY <1>0, <1>5, <1>c, <2>1 DEF BeginRollback, TypeOK, Choose, Transition,
     EnqueueStep, Plainly, tableVars
<1>6. ASSUME NEW w \in Workers, VerifyPromoted(w) \/ LandRepair(w)
      PROVE  /\ incident' = incident /\ Stamp /\ merged' \in BOOLEAN
             /\ rows' \in Seq(Built)
             /\ UNCHANGED <<paused, blame, knownGood, current, restoring, activated, drifts,
                             passed>>
  <2>1. CASE SavePromoted(w) \/ SaveLanded(w)
    BY <1>0, <1>c, <2>1, SavedTypes DEF SavePromoted, SaveLanded, Choose, outsideVars, TypeOK
  <2>2. CASE MergeRepair(w)
    BY <1>0, <2>2 DEF MergeRepair, Choose, tableVars, TypeOK
  <2>3. CASE FindPromoted(w) \/ CheckPromoted(w) \/ EnqueueWatch(w) \/ FindLanded(w)
             \/ EnqueueDurable(w) \/ EnqueueNext(w, "verify.next")
             \/ EnqueueNext(w, "land.next")
    BY <1>0, <2>3 DEF FindPromoted, CheckPromoted, EnqueueWatch, FindLanded, EnqueueDurable,
       EnqueueNext, FindCurrent, CheckHealth, EnqueueStep, Choose, Plainly, tableVars,
       outsideVars,
       TypeOK
  <2> QED BY <1>6, <2>1, <2>2, <2>3 DEF VerifyPromoted, LandRepair
<1>7. ASSUME NEW w \in Workers, WatchPromoted(w)
      PROVE  /\ incident' = incident /\ Stamp
             /\ passed' \subseteq {"watch", "durable-watch"} \X Checks
             /\ UNCHANGED <<paused, tableVars, outsideVars>>
  <2>1. CASE WatchHealth(w)
    <3>1. pc[w] \in WatchPoints
      BY <2>1 DEF WatchHealth, WatchPoints
    <3>2. Number(w) \in Checks
      BY <3>1, Numbers, WhichKind, Inside
    <3> QED BY <1>0, <2>1, <3>2 DEF WatchHealth, CheckHealth, Choose, TypeOK
  <2>2. CASE WatchCurrent(w) \/ EnqueueNext(w, "watch.next") \/ EnqueueLanding(w)
    BY <1>0, <2>2 DEF WatchCurrent, EnqueueNext, EnqueueLanding, FindCurrent, EnqueueStep,
       Choose,
       Plainly, TypeOK
  <2> QED BY <1>7, <2>1, <2>2 DEF WatchPromoted
<1>8. ASSUME NEW w \in Workers, Durable(w)
      PROVE  /\ incident' \in IncidentState /\ Stamp
             /\ passed' \subseteq {"watch", "durable-watch"} \X Checks
             /\ knownGood' \in Built \union {"none"}
             /\ UNCHANGED <<paused, blame, rows, outsideVars>>
  <2>1. CASE DurableHealth(w)
    <3>1. pc[w] \in DurablePoints
      BY <2>1 DEF DurableHealth, DurablePoints
    <3>2. KindOf(w) # "verify-durable" => Number(w) \in Checks
      BY <3>1, Numbers, WhichKind, Inside
    <3> QED BY <1>0, <2>1, <3>2 DEF DurableHealth, CheckHealth, Choose, TypeOK, tableVars
  <2>2. CASE DurableCurrent(w) \/ EnqueueDurableWatch(w) \/ ResolveLanded(w)
    BY <1>0, <1>c, <2>2 DEF DurableCurrent, EnqueueDurableWatch, ResolveLanded, FindCurrent,
       EnqueueStep,
       Choose, Transition, Plainly, TypeOK, tableVars
  <2>3. CASE MarkKnownGood(w)
    BY <1>0, <1>c, <2>3 DEF MarkKnownGood, Choose, TypeOK
  <2> QED BY <1>8, <2>1, <2>2, <2>3 DEF Durable
<1>b. ASSUME NEW w \in Workers, ControlStep(w)
      PROVE  DataOK'
  <2>1. CASE Loop(w) \/ Broken(w)
    BY <1>p, <1>1, <2>1
  <2>2. CASE ReadWork(w)
    BY <1>0, <1>2, <2>2 DEF TypeOK, tableVars, outsideVars
  <2>3. CASE PauseLanding(w) \/ (Rollback(w) /\ ~RequestRollback(w)) \/ VerifyRestored(w)
    BY <1>p, <1>3, <2>3
  <2>4. CASE RequestRollback(w)
    BY <1>0, <1>4, <2>4, Flags DEF TypeOK, tableVars
  <2>5. CASE BeginRollback(w)
    BY <1>0, <1>5, <2>5, Flags DEF TypeOK, outsideVars
  <2>6. CASE VerifyPromoted(w) \/ LandRepair(w)
    BY <1>0, <1>6, <2>6, Flags DEF TypeOK
  <2>7. CASE WatchPromoted(w)
    BY <1>0, <1>7, <2>7, Flags DEF TypeOK, tableVars, outsideVars
  <2>8. CASE Durable(w)
    BY <1>0, <1>8, <2>8, Flags DEF TypeOK, outsideVars
  <2> QED BY <1>b, <2>1, <2>2, <2>3, <2>4, <2>5, <2>6, <2>7, <2>8 DEF ControlStep, HandlerStep
<1> QED BY <1>a, <1>b DEF Next, WorkerStep, ControlStep, HandlerStep

\* Basic is inductive by itself.
LEMMA BasicKept ==
  ASSUME Basic, [Next]_vars
  PROVE  Basic'
<1>1. QP!IInv'
  BY QueueStep, QP!NextKeeps, JobAttempts DEF Basic
<1>2. Q!TypeOK'
  <2>1. QP!TypeOK'
    BY <1>1 DEF QP!IInv
  <2> QED BY <2>1, QueueTypes, PTL
<1> QED BY <1>1, <1>2, DataTypes, AgreementKept DEF Basic, TypeOK, DataOK

\* Basic holds of the initial states.
LEMMA BasicInit == Init => Basic
<1> SUFFICES ASSUME Init PROVE Basic
  OBVIOUS
<1>2. QP!IInv
  <2>1. job \in [Jobs -> [status : QP!Status, attempt : Nat, by : QP!Names]]
    BY DEF Init, Q!Absent, QP!Status, QP!Names, Q!NoName, QP!NoName
  <2>2. \A j \in Jobs : job[j].attempt = 0 /\ MaxAttempts[j] \in Nat \ {0}
    BY JobAttempts DEF Init, Q!Absent, QP!AttemptsAssumption
  <2>3. \A w \in Workers : lease[w] = QP!NoLease
    BY DEF Init, Q!NoLease, QP!NoLease
  <2>4. lease \in [Workers -> [job : Jobs, attempt : Nat] \union {QP!NoLease}]
    BY DEF Init, Q!NoLease, QP!NoLease
  <2>5. \A j \in Jobs : job[j].status # "RUNNING"
    BY DEF Init, Q!Absent
  <2> QED BY <2>1, <2>2, <2>3, <2>4, <2>5 DEF QP!IInv, QP!TypeOK, QP!OneRunner,
         QP!LeaseIsKept, QP!AttemptsBounded, QP!AttemptLeft, QP!Live
<1>3. Q!TypeOK
  BY <1>2, QueueTypes DEF QP!IInv
<1>4. pc \in [Workers -> Point] /\ work \in [Workers -> Work]
  BY DEF Init, Point, Ends, Work, Blank, IncidentState
<1>5. rows \in Seq(Built) /\ drifts \in 0..MaxDrifts
  <2>1. <<>> \in Seq(Built) /\ <<"good">> \in Seq(Built)
    BY DEF Built
  <2> QED BY <2>1, LandingAssumption DEF Init
<1>6. TypeOK
  BY <1>3, <1>4, <1>5 DEF Init, TypeOK, IncidentState, Built
<1>7. Agreement
  BY DEF Init, Agreement, Agrees, Running, Outer, Ends
<1> QED BY <1>2, <1>6, <1>7 DEF Basic

\* In every reachable state the state is typed, the queue's invariant holds and every
\* worker inside a handler holds a lease of its kind.
THEOREM LandingBasic == Spec => []Basic
  BY BasicInit, BasicKept, PTL DEF Spec

\* The type invariant.
THEOREM LandingTypeOK == Spec => []TypeOK
<1>1. Basic => TypeOK
  BY DEF Basic
<1> QED BY <1>1, LandingBasic, PTL

\* A step of one worker leaves the others where they are.
LEMMA MovesAlone ==
  ASSUME Basic, [Next]_vars, NEW w \in Workers,
         pc'[w] # pc[w] \/ lease'[w] # lease[w]
  PROVE  ControlStep(w)
<1>1. ASSUME NEW v \in Workers, ControlStep(v) PROVE Elsewhere(v)
  BY <1>1, HandlerBasic, LoopBasic DEF ControlStep, Stays, Moved
<1>2. \E v \in Workers : ControlStep(v)
  BY DEF Next, Outside, BuildActivates, TargetDrifts, VercelRestores, FeedReports,
     RefreshKnownGood, Pause, Resume, vars, handlerVars, WorkerStep, ControlStep, HandlerStep
<1> QED BY <1>1, <1>2 DEF Elsewhere

-------------------------------------------------------------------------------

Watched(kind) == {kind} \X Checks \subseteq passed

\* What must have passed before a job is enqueued.
RowFollows(j) ==
  /\ j[1] \in {"watch", "durable-watch"} =>
       \A c \in Checks : c < j[2] => <<j[1], c>> \in passed
  /\ j[1] = "land-repair" => Watched("watch")
  /\ j[1] = "verify-rollback" => Enqueued(<<"rollback", 0>>)

\* What a worker that came so far has seen.
StepFollows(w) ==
  /\ pc[w] = "watch.next" => <<"watch", Number(w)>> \in passed
  /\ pc[w] = "watch.land" => Watched("watch")
  /\ pc[w] = "durable.next" /\ KindOf(w) = "durable-watch" =>
       <<"durable-watch", Number(w)>> \in passed
  /\ pc[w] \in {"durable.mark", "durable.resolve"} => Watched("durable-watch")

\* An incident is resolved when the merge has passed its watches, or in the course of a
\* rollback.
ResolvedEitherWay ==
  incident = "Resolved" => Watched("durable-watch") \/ Enqueued(<<"rollback", 0>>)

Follows ==
  /\ \A j \in Jobs : Enqueued(j) => RowFollows(j)
  /\ \A w \in Workers : StepFollows(w)
  /\ MergedAfterWatch
  /\ ResolvedEitherWay

\* A watch that passed has passed.
LEMMA PassedGrows ==
  ASSUME Basic, [Next]_vars
  PROVE  passed \subseteq passed'
<1>1. ASSUME NEW w \in Workers, ControlStep(w) PROVE passed \subseteq passed'
  BY <1>1 DEF ControlStep, HandlerStep, Loop, Broken, ReadWork, PauseLanding, BeginRollback,
     VerifyPromoted, FindPromoted, SavePromoted, CheckPromoted, EnqueueWatch, WatchPromoted,
     WatchCurrent, WatchHealth, EnqueueLanding, LandRepair, MergeRepair, FindLanded,
     SaveLanded,
     EnqueueDurable, Durable, DurableCurrent, DurableHealth, EnqueueDurableWatch,
     MarkKnownGood,
     ResolveLanded, Rollback, CheckTarget, RequestRollback, RollBack, EnqueueRestored,
     VerifyRestored, RestoredCurrent, RestoredHealth, ResolveRestored, RevertSource,
     EnqueueNext, Plainly
<1>2. CASE Outside \/ UNCHANGED vars
  BY <1>2 DEF Outside, BuildActivates, TargetDrifts, VercelRestores, FeedReports,
     RefreshKnownGood, Pause, Resume, vars
<1> QED BY <1>1, <1>2 DEF Next, WorkerStep, ControlStep, HandlerStep

\* By which action a worker came to the points that matter.
LEMMA CameFrom ==
  ASSUME Basic, NEW w \in Workers, ControlStep(w)
  PROVE  /\ pc'[w] \in {"watch.next", "watch.land"} => WatchHealth(w) /\ pc[w] = "watch.health"
         /\ pc'[w] \in {"durable.next", "durable.mark"} =>
              DurableHealth(w) /\ pc[w] = "durable.health"
         /\ pc'[w] = "durable.resolve" => MarkKnownGood(w) /\ pc[w] = "durable.mark"
<1>0. pc \in [Workers -> Point]
  BY DEF Basic, TypeOK
<1>1. CASE Loop(w) \/ Broken(w)
  BY <1>1, LoopBasic DEF Kind, Ends
<1>2. CASE ReadWork(w)
  <2>1. pc'[w] \in EnterPoints[pc[w]] /\ pc[w] \in Kind
    BY <1>2, ReadStays, EntryEnters
  <2> QED BY <2>1 DEF EnterPoints, Kind
<1>3. CASE PauseLanding(w) \/ BeginRollback(w)
  BY <1>0, <1>3 DEF PauseLanding, BeginRollback, Transition, Choose, EnqueueStep, Goto, Read,
     Fail
<1>4. CASE VerifyPromoted(w)
  BY <1>0, <1>4 DEF VerifyPromoted, FindPromoted, SavePromoted, CheckPromoted, EnqueueWatch,
       EnqueueNext, FindCurrent, CheckHealth, EnqueueStep, Choose, Goto, Read
<1>5. CASE WatchPromoted(w)
  BY <1>0, <1>5 DEF WatchPromoted, WatchCurrent, WatchHealth, EnqueueLanding,
       EnqueueNext, FindCurrent, CheckHealth, EnqueueStep, Choose, Goto, Read
<1>6. CASE LandRepair(w)
  BY <1>0, <1>6 DEF LandRepair, MergeRepair, FindLanded, SaveLanded, EnqueueDurable,
       EnqueueNext, FindCurrent, EnqueueStep, Choose, Goto, Read
<1>7. CASE Durable(w)
  BY <1>0, <1>7 DEF Durable, DurableCurrent, DurableHealth, EnqueueDurableWatch,
       MarkKnownGood, ResolveLanded, FindCurrent, CheckHealth, EnqueueStep, Choose, Transition,
       Fail, Goto, Read
<1>8. CASE Rollback(w)
  BY <1>0, <1>8 DEF Rollback, CheckTarget, RequestRollback, RollBack,
       EnqueueRestored, EnqueueStep, Choose, Transition, Fail, Goto, Read
<1>9. CASE VerifyRestored(w)
  BY <1>0, <1>9 DEF VerifyRestored, RestoredCurrent, RestoredHealth, ResolveRestored,
       RevertSource, EnqueueNext, FindCurrent, CheckHealth, EnqueueStep, Choose, Transition,
       Fail, Goto, Read
<1> QED BY <1>1, <1>2, <1>3, <1>4, <1>5, <1>6, <1>7, <1>8, <1>9 DEF ControlStep, HandlerStep

\* Who may have enqueued a job that is new.
LEMMA NewJobs ==
  ASSUME Basic, [Next]_vars, NEW j \in Jobs, ~Enqueued(j), Enqueued(j)'
  PROVE  \/ j[1] \in {"verify-production", "verify-durable", "rollback"}
         \/ \E w \in Workers :
              \/ j = <<"watch", 0>>
              \/ pc[w] = "watch.next" /\ j = <<"watch", Number(w) + 1>>
              \/ pc[w] = "watch.land" /\ j[1] = "land-repair"
              \/ pc[w] \in LandPoints /\ j[1] = "land-repair"
              \/ j = <<"durable-watch", 0>>
              \/ /\ pc[w] = "durable.next" /\ KindOf(w) = "durable-watch"
                 /\ j = <<"durable-watch", Number(w) + 1>>
              \/ pc[w] \in RollbackPoints \union RestoredPoints /\ j[1] = "verify-rollback"
<1>a. job' # job
  BY DEF Enqueued
<1>e. ASSUME NEW w \in Workers, NEW from, NEW k, NEW to, EnqueueStep(w, from, k, to)
      PROVE  pc[w] = from /\ j = k
  BY <1>e DEF EnqueueStep, Goto, Read, Q!Enqueued, Q!EnqueuedRow, Enqueued
<1>1. ASSUME NEW w \in Workers, HandlerStep(w)
      PROVE  \/ EnqueueStep(w, "begin.enqueue", <<"rollback", 0>>, "ok")
             \/ EnqueueNext(w, "verify.next") \/ EnqueueWatch(w)
             \/ EnqueueNext(w, "watch.next") \/ EnqueueLanding(w)
             \/ EnqueueNext(w, "land.next") \/ EnqueueDurable(w)
             \/ EnqueueDurableWatch(w) \/ EnqueueRestored(w) \/ EnqueueNext(w, "restored.next")
  BY <1>1, <1>a DEF HandlerStep, ReadWork, PauseLanding, BeginRollback,
     VerifyPromoted, FindPromoted, SavePromoted, CheckPromoted, WatchPromoted,
     WatchCurrent, WatchHealth, LandRepair, MergeRepair, FindLanded, SaveLanded,
     Durable, DurableCurrent, DurableHealth, MarkKnownGood,
     ResolveLanded, Rollback, CheckTarget, RequestRollback, RollBack,
     VerifyRestored, RestoredCurrent, RestoredHealth, ResolveRestored, RevertSource,
     FindCurrent, CheckHealth, Choose, Transition
<1>2. ASSUME NEW w \in Workers, EnqueueNext(w, "verify.next")
      PROVE  j[1] = "verify-production"
  <2>1. pc[w] \in VerifyPoints /\ j = <<KindOf(w), Number(w) + 1>>
    BY <1>2, <1>e DEF EnqueueNext, VerifyPoints
  <2> QED BY <2>1, WhichKind, Inside
<1>3. ASSUME NEW w \in Workers, EnqueueNext(w, "watch.next")
      PROVE  pc[w] = "watch.next" /\ j = <<"watch", Number(w) + 1>>
  <2>1. pc[w] = "watch.next" /\ j = <<KindOf(w), Number(w) + 1>> /\ pc[w] \in WatchPoints
    BY <1>3, <1>e DEF EnqueueNext, WatchPoints
  <2> QED BY <2>1, WhichKind, Inside
<1>4. ASSUME NEW w \in Workers, EnqueueNext(w, "land.next")
      PROVE  pc[w] \in LandPoints /\ j[1] = "land-repair"
  <2>1. pc[w] \in LandPoints /\ j = <<KindOf(w), Number(w) + 1>>
    BY <1>4, <1>e DEF EnqueueNext, LandPoints
  <2> QED BY <2>1, WhichKind, Inside
<1>5. ASSUME NEW w \in Workers, EnqueueNext(w, "restored.next")
      PROVE  pc[w] \in RestoredPoints /\ j[1] = "verify-rollback"
  <2>1. pc[w] \in RestoredPoints /\ j = <<KindOf(w), Number(w) + 1>>
    BY <1>5, <1>e DEF EnqueueNext, RestoredPoints
  <2> QED BY <2>1, WhichKind, Inside
<1>6. ASSUME NEW w \in Workers, EnqueueDurableWatch(w)
      PROVE  \/ j = <<"durable-watch", 0>>
             \/ /\ pc[w] = "durable.next" /\ KindOf(w) = "durable-watch"
                /\ j = <<"durable-watch", Number(w) + 1>>
  <2>1. /\ pc[w] = "durable.next" /\ pc[w] \in DurablePoints
        /\ j = <<"durable-watch", IF KindOf(w) = "verify-durable" THEN 0 ELSE Number(w) + 1>>
    BY <1>6, <1>e DEF EnqueueDurableWatch, DurablePoints
  <2> QED BY <2>1, WhichKind, Inside
<1>7. ASSUME NEW w \in Workers, EnqueueRestored(w)
      PROVE  pc[w] \in RollbackPoints /\ j[1] = "verify-rollback"
  BY <1>7, <1>e DEF EnqueueRestored, RollbackPoints
<1>8. ASSUME NEW w \in Workers, EnqueueWatch(w) \/ EnqueueLanding(w) \/ EnqueueDurable(w)
             \/ EnqueueStep(w, "begin.enqueue", <<"rollback", 0>>, "ok")
      PROVE  \/ j[1] \in {"verify-durable", "rollback"}
             \/ j = <<"watch", 0>>
             \/ pc[w] = "watch.land" /\ j[1] = "land-repair"
  BY <1>8, <1>e DEF EnqueueWatch, EnqueueLanding, EnqueueDurable
<1>9. ASSUME NEW w \in Workers, Loop(w) \/ Broken(w) PROVE FALSE
  <2>1. CASE ClaimNext(w)
    <3>1. PICK k \in Jobs : Q!ClaimNext(w, k)
      BY <2>1 DEF ClaimNext
    <3> QED BY <3>1 DEF Q!ClaimNext, Q!Claimable, Enqueued, Basic, TypeOK, Q!TypeOK
  <2>2. CASE CompleteJob(w) \/ FailJob(w)
    BY <2>2, Numbers DEF CompleteJob, FailJob, Q!CompleteJob, Q!FailJob, Q!Release, Enqueued,
       Basic, TypeOK, Q!TypeOK, Running
  <2>3. CASE EscalateRead(w) \/ EscalateMove(w) \/ Broken(w)
    BY <1>a, <2>3 DEF EscalateRead, EscalateMove, Transition, Broken, Fault, StepFails, Crash
  <2> QED BY <1>9, <2>1, <2>2, <2>3 DEF Loop, LoopStep
<1>10. \E w \in Workers : ControlStep(w)
  BY <1>a DEF Next, Outside, BuildActivates, TargetDrifts, VercelRestores, FeedReports,
     RefreshKnownGood, Pause, Resume, vars, handlerVars, WorkerStep, ControlStep, HandlerStep
<1>11. PICK w \in Workers : HandlerStep(w)
  BY <1>9, <1>10 DEF ControlStep
<1>12. CASE \/ EnqueueNext(w, "verify.next") \/ EnqueueNext(w, "watch.next")
            \/ EnqueueNext(w, "land.next")
  BY <1>2, <1>3, <1>4, <1>12
<1>13. CASE EnqueueNext(w, "restored.next") \/ EnqueueDurableWatch(w) \/ EnqueueRestored(w)
  BY <1>5, <1>6, <1>7, <1>13
<1>14. CASE EnqueueWatch(w) \/ EnqueueLanding(w) \/ EnqueueDurable(w)
             \/ EnqueueStep(w, "begin.enqueue", <<"rollback", 0>>, "ok")
  BY <1>8, <1>14
<1> QED BY <1>1, <1>11, <1>12, <1>13, <1>14

\* A job that was enqueued stays in the table.
LEMMA StaysEnqueued ==
  ASSUME Basic, Basic', [Next]_vars, NEW j \in Jobs, Enqueued(j)
  PROVE  Enqueued(j)'
<1>1. CASE job' = job
  BY <1>1 DEF Enqueued
<1>2. ASSUME NEW js, job' = Q!Enqueued(js) PROVE Enqueued(j)'
  BY <1>2 DEF Q!Enqueued, Q!EnqueuedRow, Enqueued
<1>3. ASSUME NEW w \in Workers, ClaimNext(w) \/ CompleteJob(w) \/ FailJob(w)
      PROVE  Enqueued(j)'
  <2>1. CASE ClaimNext(w)
    <3>1. PICK k \in Jobs : Q!ClaimNext(w, k)
      BY <2>1 DEF ClaimNext
    <3> QED BY <3>1 DEF Q!ClaimNext, Q!Claimable, Enqueued, Basic, TypeOK, Q!TypeOK
  <2>2. CASE CompleteJob(w) \/ FailJob(w)
    <3>1. PICK status \in {"COMPLETED", "FAILED", "RETRY"} : Q!Release(w, status)
      BY <2>2 DEF CompleteJob, FailJob, Q!CompleteJob, Q!FailJob
    <3>2. lease[w].job \in Jobs
      BY <2>2, Numbers DEF CompleteJob, FailJob, Q!CompleteJob, Q!FailJob, Running
    <3>3. job' = job \/ job' = [job EXCEPT ![lease[w].job].status = status,
                                          ![lease[w].job].by = Q!NoName]
      BY <3>1 DEF Q!Release
    <3>4. job'[j].status \in {job[j].status, status}
      BY <3>2, <3>3 DEF Basic, TypeOK, Q!TypeOK
    <3> QED BY <3>4 DEF Enqueued
  <2> QED BY <1>3, <2>1, <2>2
<1>4. ASSUME NEW w \in Workers, HandlerStep(w)
      PROVE  job' = job \/ \E js : job' = Q!Enqueued(js)
  BY <1>4 DEF HandlerStep, ReadWork, PauseLanding, BeginRollback,
     VerifyPromoted, FindPromoted, SavePromoted, CheckPromoted, EnqueueWatch, WatchPromoted,
     WatchCurrent, WatchHealth, EnqueueLanding, LandRepair, MergeRepair, FindLanded,
     SaveLanded,
     EnqueueDurable, Durable, DurableCurrent, DurableHealth, EnqueueDurableWatch,
     MarkKnownGood,
     ResolveLanded, Rollback, CheckTarget, RequestRollback, RollBack, EnqueueRestored,
     VerifyRestored, RestoredCurrent, RestoredHealth, ResolveRestored, RevertSource,
     EnqueueNext, EnqueueStep, FindCurrent, CheckHealth, Choose, Transition
<1>5. ASSUME NEW w \in Workers, EscalateRead(w) \/ EscalateMove(w) \/ Broken(w)
      PROVE  job' = job
  BY <1>5 DEF EscalateRead, EscalateMove, Transition, Broken, Fault, StepFails, Crash
<1>6. CASE Outside \/ UNCHANGED vars
  BY <1>1, <1>6 DEF Outside, BuildActivates, TargetDrifts, VercelRestores, FeedReports,
     RefreshKnownGood, Pause, Resume, vars, handlerVars
<1> QED BY <1>1, <1>2, <1>3, <1>4, <1>5, <1>6 DEF Next, WorkerStep, HandlerStep, Loop, LoopStep

\* What must have passed before a worker's job was enqueued has passed.
LEMMA RunsAFollowedJob ==
  ASSUME Basic, Follows, NEW w \in Workers, pc[w] \notin Outer
  PROVE  /\ RowFollows(<<KindOf(w), Number(w)>>)
         /\ <<KindOf(w), Number(w)>> \in Jobs /\ Enqueued(<<KindOf(w), Number(w)>>)
  BY WhichKind, Numbers DEF Follows

\* Whoever lands the repair runs a job that the last watch enqueued.
LEMMA LandedFollows ==
  ASSUME Basic, Follows, NEW w \in Workers, pc[w] \in LandPoints
  PROVE  Watched("watch")
<1>1. pc[w] \notin Outer /\ KindOf(w) = "land-repair"
  BY Inside, WhichKind
<1> QED BY <1>1, RunsAFollowedJob DEF RowFollows

\* Whoever rolls back, or verifies a rollback, owes it to a rollback job.
LEMMA RolledBackFollows ==
  ASSUME Basic, Follows, NEW w \in Workers, pc[w] \in RollbackPoints \union RestoredPoints
  PROVE  Enqueued(<<"rollback", 0>>)
<1>1. pc[w] \notin Outer /\ KindOf(w) \in {"rollback", "verify-rollback"}
  BY Inside, WhichKind
<1>2. CASE KindOf(w) = "rollback"
  BY <1>1, <1>2, RunsAFollowedJob DEF Jobs, Checks, Polls
<1>3. CASE KindOf(w) = "verify-rollback"
  BY <1>1, <1>3, RunsAFollowedJob DEF RowFollows
<1> QED BY <1>1, <1>2, <1>3

\* Every step keeps StepFollows.
LEMMA StepsFollow ==
  ASSUME Basic, Basic', Follows, [Next]_vars, NEW w \in Workers
  PROVE  StepFollows(w)'
<1>0. StepFollows(w)
  BY DEF Follows
<1>1. CASE pc'[w] = pc[w] /\ lease'[w] = lease[w]
  <2>1. Number(w)' = Number(w) /\ KindOf(w)' = KindOf(w)
    BY <1>1 DEF Number, KindOf
  <2> QED BY <1>0, <1>1, <2>1, PassedGrows DEF StepFollows, Watched
<1>2. CASE ControlStep(w)
  <2>0. pc'[w] \in {"watch.next", "watch.land", "durable.next", "durable.mark",
                    "durable.resolve"} =>
          Number(w)' = Number(w) /\ KindOf(w)' = KindOf(w)
    <3>1. HandlerStep(w) => lease' = lease
      BY HandlerBasic DEF Stays
    <3>2. Loop(w) \/ Broken(w) =>
            pc'[w] \notin {"watch.next", "watch.land", "durable.next", "durable.mark",
                           "durable.resolve"}
      BY LoopBasic DEF Kind, Ends
    <3> QED BY <1>2, <3>1, <3>2 DEF ControlStep, Number, KindOf
  <2>1. ASSUME pc'[w] \in {"watch.next", "watch.land"}
        PROVE  /\ <<"watch", Number(w)>> \in passed'
               /\ pc'[w] = "watch.land" => Watched("watch")'
    <3>1. WatchHealth(w) /\ pc[w] = "watch.health" /\ pc[w] \in WatchPoints
      BY <1>2, <2>1, CameFrom DEF WatchPoints
    <3>2. <<"watch", Number(w)>> \in passed'
      BY <2>1, <3>1 DEF WatchHealth
    <3>3. ASSUME pc'[w] = "watch.land" PROVE Watched("watch")'
      <4>1. ~(Number(w) < 2)
        BY <3>1, <3>3 DEF WatchHealth, CheckHealth, Choose, Goto, Read, Basic, TypeOK
      <4>2. /\ KindOf(w) = "watch" /\ Number(w) \in Checks
            /\ RowFollows(<<"watch", Number(w)>>)
        BY <3>1, Inside, WhichKind, Numbers, RunsAFollowedJob
      <4>3. \A c \in Checks : <<"watch", c>> \in passed'
        BY <3>2, <4>1, <4>2, PassedGrows DEF RowFollows, Checks
      <4> QED BY <4>3 DEF Watched, Checks
    <3> QED BY <3>2, <3>3
  <2>2. ASSUME pc'[w] \in {"durable.next", "durable.mark"}
        PROVE  /\ KindOf(w) = "durable-watch" => <<"durable-watch", Number(w)>> \in passed'
               /\ pc'[w] = "durable.mark" => Watched("durable-watch")'
    <3>1. DurableHealth(w) /\ pc[w] = "durable.health" /\ pc[w] \in DurablePoints
      BY <1>2, <2>2, CameFrom DEF DurablePoints
    <3>2. KindOf(w) = "durable-watch" => <<"durable-watch", Number(w)>> \in passed'
      BY <2>2, <3>1 DEF DurableHealth
    <3>3. ASSUME pc'[w] = "durable.mark" PROVE Watched("durable-watch")'
      <4>1. KindOf(w) = "durable-watch" /\ Number(w) = 2
        BY <3>1, <3>3 DEF DurableHealth, CheckHealth, Choose, Goto, Read, Basic, TypeOK
      <4>2. RowFollows(<<"durable-watch", Number(w)>>)
        BY <3>1, <4>1, Inside, RunsAFollowedJob
      <4>3. \A c \in Checks : <<"durable-watch", c>> \in passed'
        BY <3>2, <4>1, <4>2, PassedGrows DEF RowFollows, Checks
      <4> QED BY <4>3 DEF Watched, Checks
    <3> QED BY <3>2, <3>3
  <2>3. ASSUME pc'[w] = "durable.resolve" PROVE Watched("durable-watch")'
    <3>1. pc[w] = "durable.mark"
      BY <1>2, <2>3, CameFrom
    <3> QED BY <1>0, <3>1, PassedGrows DEF StepFollows, Watched
  <2> QED BY <2>0, <2>1, <2>2, <2>3 DEF StepFollows
<1> QED BY <1>1, <1>2, MovesAlone

\* Every step keeps RowFollows.
LEMMA RowsFollow ==
  ASSUME Basic, Basic', Follows, [Next]_vars, NEW j \in Jobs, Enqueued(j)'
  PROVE  RowFollows(j)'
<1>r. <<"rollback", 0>> \in Jobs
  BY DEF Jobs
<1>1. CASE Enqueued(j)
  <2>1. RowFollows(j)
    BY <1>1 DEF Follows
  <2>2. Enqueued(<<"rollback", 0>>) => Enqueued(<<"rollback", 0>>)'
    BY <1>r, StaysEnqueued
  <2> QED BY <2>1, <2>2, PassedGrows DEF RowFollows, Watched
<1>2. CASE ~Enqueued(j)
  <2>1. CASE j[1] \in {"verify-production", "verify-durable", "rollback"}
    BY <2>1 DEF RowFollows
  <2>2. CASE j = <<"watch", 0>> \/ j = <<"durable-watch", 0>>
    <3>1. \A c \in Checks : ~(c < 0)
      BY DEF Checks
    <3> QED BY <2>2, <3>1 DEF RowFollows
  <2>3. ASSUME NEW w \in Workers, pc[w] = "watch.next", j = <<"watch", Number(w) + 1>>
        PROVE  RowFollows(j)'
    <3>1. pc[w] \in WatchPoints
      BY <2>3 DEF WatchPoints
    <3>2. Number(w) \in Checks /\ RowFollows(<<"watch", Number(w)>>)
      BY <3>1, Inside, WhichKind, Numbers, RunsAFollowedJob
    <3>3. <<"watch", Number(w)>> \in passed
      BY <2>3 DEF Follows, StepFollows
    <3>4. \A c \in Checks : c < Number(w) + 1 => <<"watch", c>> \in passed
      BY <3>2, <3>3 DEF RowFollows, Checks
    <3> QED BY <2>3, <3>4, PassedGrows DEF RowFollows
  <2>4. ASSUME NEW w \in Workers, pc[w] = "durable.next", KindOf(w) = "durable-watch",
               j = <<"durable-watch", Number(w) + 1>>
        PROVE  RowFollows(j)'
    <3>1. pc[w] \in DurablePoints
      BY <2>4 DEF DurablePoints
    <3>2. Number(w) \in Checks /\ RowFollows(<<"durable-watch", Number(w)>>)
      BY <2>4, <3>1, Inside, WhichKind, Numbers, RunsAFollowedJob
    <3>3. <<"durable-watch", Number(w)>> \in passed
      BY <2>4 DEF Follows, StepFollows
    <3>4. \A c \in Checks : c < Number(w) + 1 => <<"durable-watch", c>> \in passed
      BY <3>2, <3>3 DEF RowFollows, Checks
    <3> QED BY <2>4, <3>4, PassedGrows DEF RowFollows
  <2>5. ASSUME NEW w \in Workers, pc[w] = "watch.land" \/ pc[w] \in LandPoints,
               j[1] = "land-repair"
        PROVE  RowFollows(j)'
    <3>1. Watched("watch")
      BY <2>5, LandedFollows DEF Follows, StepFollows
    <3> QED BY <2>5, <3>1, PassedGrows DEF RowFollows, Watched
  <2>6. ASSUME NEW w \in Workers, pc[w] \in RollbackPoints \union RestoredPoints,
               j[1] = "verify-rollback"
        PROVE  RowFollows(j)'
    <3>1. Enqueued(<<"rollback", 0>>)'
      BY <1>r, <2>6, RolledBackFollows, StaysEnqueued
    <3> QED BY <2>6, <3>1 DEF RowFollows
  <2> QED BY <1>2, <2>1, <2>2, <2>3, <2>4, <2>5, <2>6, NewJobs
<1> QED BY <1>1, <1>2

\* Who merges the repair, resolves the incident and moves the known-good mark.
LEMMA DoneBy ==
  ASSUME Basic, [Next]_vars
  PROVE  /\ merged' # merged => \E w \in Workers : pc[w] \in LandPoints
         /\ incident' = "Resolved" /\ incident # "Resolved" =>
              \E w \in Workers : pc[w] \in {"durable.resolve", "restored.resolve"}
         /\ knownGood' # knownGood => resolvedAt \/ \E w \in Workers : pc[w] = "durable.mark"
<1>1. ASSUME NEW w \in Workers, ControlStep(w), merged' # merged
      PROVE  pc[w] \in LandPoints
  <2>1. MergeRepair(w)
    BY <1>1 DEF ControlStep, HandlerStep, Loop, Broken, ReadWork, PauseLanding, BeginRollback,
     VerifyPromoted, FindPromoted, SavePromoted, CheckPromoted, EnqueueWatch, WatchPromoted,
     WatchCurrent, WatchHealth, EnqueueLanding, LandRepair, FindLanded, SaveLanded,
     EnqueueDurable, Durable, DurableCurrent, DurableHealth, EnqueueDurableWatch,
     MarkKnownGood,
     ResolveLanded, Rollback, CheckTarget, RequestRollback, RollBack, EnqueueRestored,
     VerifyRestored, RestoredCurrent, RestoredHealth, ResolveRestored, RevertSource,
     EnqueueNext, Plainly, outsideVars
  <2> QED BY <2>1 DEF MergeRepair, Choose, Goto, Read, LandPoints
<1>2. ASSUME NEW w \in Workers, ControlStep(w), knownGood' # knownGood
      PROVE  pc[w] = "durable.mark"
  <2>1. MarkKnownGood(w)
    BY <1>2 DEF ControlStep, HandlerStep, Loop, Broken, ReadWork, PauseLanding, BeginRollback,
     VerifyPromoted, FindPromoted, SavePromoted, CheckPromoted, EnqueueWatch, WatchPromoted,
     WatchCurrent, WatchHealth, EnqueueLanding, LandRepair, MergeRepair, FindLanded,
     SaveLanded,
     EnqueueDurable, Durable, DurableCurrent, DurableHealth, EnqueueDurableWatch,
     ResolveLanded, Rollback, CheckTarget, RequestRollback, RollBack, EnqueueRestored,
     VerifyRestored, RestoredCurrent, RestoredHealth, ResolveRestored, RevertSource,
     EnqueueNext, Plainly, tableVars
  <2> QED BY <2>1 DEF MarkKnownGood, Choose, Goto, Read
<1>3. ASSUME NEW w \in Workers, ControlStep(w), incident' = "Resolved", incident # "Resolved"
      PROVE  pc[w] \in {"durable.resolve", "restored.resolve"}
  <2>1. CASE Loop(w) \/ Broken(w)
    BY <1>3, <2>1 DEF Loop, Broken, LoopStep, Fault, ClaimNext, CompleteJob, FailJob,
     EscalateRead, EscalateMove, Transition, StepFails, Crash
  <2>2. CASE HandlerStep(w)
    BY <1>3, <2>2 DEF HandlerStep, ReadWork, PauseLanding, BeginRollback,
     VerifyPromoted, FindPromoted, SavePromoted, CheckPromoted, EnqueueWatch, WatchPromoted,
     WatchCurrent, WatchHealth, EnqueueLanding, LandRepair, MergeRepair, FindLanded,
     SaveLanded,
     EnqueueDurable, Durable, DurableCurrent, DurableHealth, EnqueueDurableWatch,
     MarkKnownGood,
     ResolveLanded, Rollback, CheckTarget, RequestRollback, RollBack, EnqueueRestored,
     VerifyRestored, RestoredCurrent, RestoredHealth, ResolveRestored, RevertSource,
     EnqueueNext, EnqueueStep, FindCurrent, CheckHealth, Choose, Transition, Goto, Read
  <2> QED BY <1>3, <2>1, <2>2 DEF ControlStep
<1>4. CASE Outside \/ UNCHANGED vars
  BY <1>4 DEF Outside, BuildActivates, TargetDrifts, VercelRestores, FeedReports,
     RefreshKnownGood, Pause, Resume, vars, handlerVars, tableVars, outsideVars
<1> QED BY <1>1, <1>2, <1>3, <1>4 DEF Next, WorkerStep, ControlStep, HandlerStep

\* Every step keeps what the merge and the resolution rest on.
LEMMA EndsKept ==
  ASSUME Basic, Basic', Follows, [Next]_vars
  PROVE  MergedAfterWatch' /\ ResolvedEitherWay'
<1>1. MergedAfterWatch'
  <2>1. merged \/ (\E w \in Workers : pc[w] \in LandPoints) => Watched("watch")
    BY LandedFollows DEF Follows, MergedAfterWatch, Watched
  <2>2. merged' => Watched("watch")
    BY <2>1, DoneBy
  <2> QED BY <2>2, PassedGrows DEF MergedAfterWatch, Watched
<1>2. ResolvedEitherWay'
  <2> SUFFICES ASSUME incident' = "Resolved"
               PROVE  Watched("durable-watch")' \/ Enqueued(<<"rollback", 0>>)'
    BY DEF ResolvedEitherWay
  <2>1. ASSUME NEW w \in Workers, pc[w] \in {"durable.resolve", "restored.resolve"}
        PROVE  Watched("durable-watch") \/ Enqueued(<<"rollback", 0>>)
    BY <2>1, RolledBackFollows DEF Follows, StepFollows, RestoredPoints
  <2>2. Watched("durable-watch") \/ Enqueued(<<"rollback", 0>>)
    BY <2>1, DoneBy DEF Follows, ResolvedEitherWay
  <2>3. <<"rollback", 0>> \in Jobs
    BY DEF Jobs
  <2> QED BY <2>2, <2>3, PassedGrows, StaysEnqueued DEF Watched
<1> QED BY <1>1, <1>2

\* The invariant behind the following theorems.
THEOREM LandingFollows == Spec => []Follows
<1>1. Init => Follows
  <2> SUFFICES ASSUME Init PROVE Follows
    OBVIOUS
  <2>1. \A j \in Jobs : Enqueued(j) => j[1] = "verify-production"
    BY DEF Init, Enqueued, Q!Absent
  <2> QED BY <2>1 DEF Init, Follows, RowFollows, StepFollows, MergedAfterWatch,
     ResolvedEitherWay
<1>2. Basic /\ Basic' /\ Follows /\ [Next]_vars => Follows'
  BY StepsFollow, RowsFollow, EndsKept DEF Follows
<1> QED BY <1>1, <1>2, LandingBasic, PTL DEF Spec

\* persist_verified_repair merges the repair into the protected branch only after
\* watch_promoted_production has found the promoted build healthy three times.
THEOREM LandingMergedAfterWatch == Spec => []MergedAfterWatch
<1>1. Follows => MergedAfterWatch
  BY DEF Follows
<1> QED BY <1>1, LandingFollows, PTL

\* An incident is resolved only after the three watches of the merge, or after begin_rollback
\* has enqueued a rollback.
THEOREM LandingResolvedEitherWay == Spec => []ResolvedEitherWay
<1>1. Follows => ResolvedEitherWay
  BY DEF Follows
<1> QED BY <1>1, LandingFollows, PTL

\* While the incident is open, the deployment to roll back to is replaced only after
\* watch_durable_production has found the merge healthy three times.
THEOREM LandingBaselineKept == Spec => BaselineKept
<1>1. Basic /\ Follows /\ [Next]_vars =>
        [~resolvedAt /\ knownGood' # knownGood =>
           {"durable-watch"} \X Checks \subseteq passed]_vars
  <2> SUFFICES ASSUME Basic, Follows, [Next]_vars, ~resolvedAt, knownGood' # knownGood
               PROVE  {"durable-watch"} \X Checks \subseteq passed
    OBVIOUS
  <2>1. PICK w \in Workers : pc[w] = "durable.mark"
    BY DoneBy
  <2> QED BY <2>1 DEF Follows, StepFollows, Watched
<1> QED BY <1>1, LandingBasic, LandingFollows, PTL DEF Spec, BaselineKept

\* The handlers use the job queue as JobQueue allows; the queue starts with the first
\* verification, which Deployment enqueued.
THEOREM LandingQueue == Spec => [][QP!Next]_(QP!vars)
<1>1. TypeOK /\ [Next]_vars => [QP!Next]_(QP!vars)
  BY QueueStep
<1> QED BY <1>1, LandingTypeOK, PTL DEF Spec

-------------------------------------------------------------------------------
(* How an incident that is resolved got there.                             *)

\* The job that ends a trial has been enqueued, and the answer to that statement, or to
\* the one that completes the job, is not lost: a trial that has handed over is not
\* retried.  See ResolvedMeansRecovered below.
HandOver == {<<"verify-production", "ok">>, <<"watch", "ok">>}
Orderly  == Fragile \intersect HandOver = {}

\* The jobs that try the promoted build, the workers that run one and have not handed
\* over, the ones that wait to be claimed.
Trials     == {"verify-production", "watch"}
OnTrial(w) == pc[w] \notin {"idle", "ok"} /\ Running(w) /\ KindOf(w) \in Trials
Waiting(j) == j[1] \in Trials /\ job[j].status \in {"PENDING", "RETRY"}

NoTrial ==
  /\ \A w \in Workers : ~OnTrial(w)
  /\ \A j \in Jobs : ~Waiting(j)

\* At any time at most one of all these has the promoted build in hand.
OneTrial ==
  /\ \A v, w \in Workers : OnTrial(v) /\ OnTrial(w) => v = w
  /\ \A i, j \in Jobs : Waiting(i) /\ Waiting(j) => i = j
  /\ \A w \in Workers, j \in Jobs : ~(OnTrial(w) /\ Waiting(j))

\* The two ways a trial ends exclude each other and each ends the trial; what comes after a merge comes after
\* the landing was asked for; and an incident is resolved at the end of either way.
Apart ==
  /\ LandingAsked => NoTrial /\ ~FirstRollback
  /\ FirstRollback => NoTrial
  /\ merged => LandingAsked
  /\ \A j \in Jobs : Enqueued(j) /\ j[1] \in {"verify-durable", "durable-watch"} => merged
  /\ \A w \in Workers : pc[w] \in LandPoints \ {"land.merge"} => merged
  /\ \A w \in Workers : pc[w] = "restored.resolve" => FirstRollback
  /\ incident = "Resolved" => (merged /\ Watched("durable-watch")) \/ FirstRollback

\* Where a worker stands when it enqueues a job, by the job's kind.
Enqueues(w, k) ==
  \/ pc[w] = "verify.next"      /\ k[1] = "verify-production"
  \/ pc[w] = "verify.watch"     /\ k[1] = "watch"
  \/ pc[w] = "watch.next"       /\ k[1] = "watch"
  \/ pc[w] = "watch.land"       /\ k[1] = "land-repair"
  \/ pc[w] = "land.next"        /\ k[1] = "land-repair"
  \/ pc[w] = "land.verify"      /\ k[1] = "verify-durable"
  \/ pc[w] = "durable.next"     /\ k[1] = "durable-watch"
  \/ pc[w] = "begin.enqueue"    /\ k[1] = "rollback"
  \/ pc[w] = "rollback.enqueue" /\ k[1] = "verify-rollback"
  \/ pc[w] = "restored.next"    /\ k[1] = "verify-rollback"

\* A handler's step leaves the queue alone, or it is the last of its handler and enqueues
\* one job.
LEMMA HandlerEnqueues ==
  ASSUME Basic, NEW w \in Workers, HandlerStep(w)
  PROVE  \/ job' = job
         \/ \E k : job' = Q!Enqueued({k}) /\ pc'[w] = "ok" /\ Enqueues(w, k)
<1>0. pc \in [Workers -> Point]
  BY DEF Basic, TypeOK
<1>1. ASSUME job' # job
      PROVE  \/ EnqueueStep(w, "begin.enqueue", <<"rollback", 0>>, "ok")
             \/ EnqueueNext(w, "verify.next") \/ EnqueueWatch(w)
             \/ EnqueueNext(w, "watch.next") \/ EnqueueLanding(w)
             \/ EnqueueNext(w, "land.next") \/ EnqueueDurable(w)
             \/ EnqueueDurableWatch(w) \/ EnqueueRestored(w) \/ EnqueueNext(w, "restored.next")
  BY <1>1 DEF HandlerStep, ReadWork, PauseLanding, BeginRollback,
     VerifyPromoted, FindPromoted, SavePromoted, CheckPromoted, WatchPromoted,
     WatchCurrent, WatchHealth, LandRepair, MergeRepair, FindLanded, SaveLanded,
     Durable, DurableCurrent, DurableHealth, MarkKnownGood,
     ResolveLanded, Rollback, CheckTarget, RequestRollback, RollBack,
     VerifyRestored, RestoredCurrent, RestoredHealth, ResolveRestored, RevertSource,
     FindCurrent, CheckHealth, Choose, Transition
<1>2. ASSUME NEW from, NEW k, EnqueueStep(w, from, k, "ok")
      PROVE  pc[w] = from /\ pc'[w] = "ok" /\ job' = Q!Enqueued({k})
  BY <1>0, <1>2 DEF EnqueueStep, Goto, Read
<1>3. CASE EnqueueNext(w, "verify.next") \/ EnqueueNext(w, "watch.next")
  <2>1. PICK from \in {"verify.next", "watch.next"} :
          EnqueueStep(w, from, <<KindOf(w), Number(w) + 1>>, "ok")
    BY <1>3 DEF EnqueueNext
  <2>2. pc[w] \in VerifyPoints \union WatchPoints
    BY <1>2, <2>1 DEF VerifyPoints, WatchPoints
  <2>3. /\ from = "verify.next" => KindOf(w) = "verify-production"
        /\ from = "watch.next" => KindOf(w) = "watch"
    BY <1>2, <2>1, <2>2, WhichKind, Inside DEF VerifyPoints, WatchPoints
  <2> QED BY <1>2, <2>1, <2>3 DEF Enqueues
<1>4. CASE EnqueueNext(w, "land.next") \/ EnqueueNext(w, "restored.next")
  <2>1. PICK from \in {"land.next", "restored.next"} :
          EnqueueStep(w, from, <<KindOf(w), Number(w) + 1>>, "ok")
    BY <1>4 DEF EnqueueNext
  <2>2. pc[w] \in LandPoints \union RestoredPoints
    BY <1>2, <2>1 DEF LandPoints, RestoredPoints
  <2>3. /\ from = "land.next" => KindOf(w) = "land-repair"
        /\ from = "restored.next" => KindOf(w) = "verify-rollback"
    BY <1>2, <2>1, <2>2, WhichKind, Inside DEF LandPoints, RestoredPoints
  <2> QED BY <1>2, <2>1, <2>3 DEF Enqueues
<1>5. CASE \/ EnqueueWatch(w) \/ EnqueueLanding(w) \/ EnqueueDurable(w)
           \/ EnqueueDurableWatch(w) \/ EnqueueRestored(w)
           \/ EnqueueStep(w, "begin.enqueue", <<"rollback", 0>>, "ok")
  <2>1. PICK from, kind, n :
          /\ EnqueueStep(w, from, <<kind, n>>, "ok")
          /\ <<from, kind>> \in {<<"verify.watch", "watch">>, <<"watch.land", "land-repair">>,
                                  <<"land.verify", "verify-durable">>,
                                  <<"durable.next", "durable-watch">>,
                                  <<"rollback.enqueue", "verify-rollback">>,
                                  <<"begin.enqueue", "rollback">>}
    BY <1>5 DEF EnqueueWatch, EnqueueLanding, EnqueueDurable, EnqueueDurableWatch,
       EnqueueRestored
  <2>2. /\ pc[w] = from /\ pc'[w] = "ok" /\ job' = Q!Enqueued({<<kind, n>>})
    BY <1>2, <2>1
  <2>3. Enqueues(w, <<kind, n>>)
    BY <2>1, <2>2 DEF Enqueues
  <2> QED BY <2>2, <2>3
<1> QED BY <1>1, <1>3, <1>4, <1>5

\* Enqueueing one job leaves the others alone, and the job if it is there already.
LEMMA EnqueuedRows ==
  ASSUME NEW k, job' = Q!Enqueued({k}), NEW j \in Jobs
  PROVE  /\ j # k => job'[j] = job[j]
         /\ Enqueued(j) => job'[j] = job[j]
  BY DEF Q!Enqueued, Q!EnqueuedRow, Enqueued

\* How the promoted build goes from hand to hand: a step gives it to nobody new, or from
\* a worker to one job, or from a job to one worker.
NobodyNew ==
  /\ \A v \in Workers : OnTrial(v)' => OnTrial(v)
  /\ \A i \in Jobs : Waiting(i)' => Waiting(i)

NobodyElse(w, j) ==
  /\ \A v \in Workers \ {w} : OnTrial(v)' => OnTrial(v)
  /\ \A i \in Jobs \ {j} : Waiting(i)' => Waiting(i)

HandsOver(w, j) == OnTrial(w) /\ ~OnTrial(w)' /\ NobodyElse(w, j)
TakesUp(w, j)   == Waiting(j) /\ ~Waiting(j)' /\ NobodyElse(w, j)

Passes == NobodyNew \/ \E w \in Workers, j \in Jobs : HandsOver(w, j) \/ TakesUp(w, j)

\* A worker that does not move keeps what it has.
LEMMA OthersKeep ==
  ASSUME NEW w \in Workers, Elsewhere(w)
  PROVE  \A v \in Workers \ {w} : OnTrial(v)' => OnTrial(v)
  BY DEF Elsewhere, OnTrial, Running, KindOf

\* A step that leaves the queue and the lease alone, or loses the lease, brings a worker
\* into a trial only from within it.
LEMMA TrialGoesOn ==
  ASSUME Basic, NEW w \in Workers, pc[w] \notin {"idle", "ok"} \/ KindOf(w) \notin Trials,
         Elsewhere(w), job' = job, lease' = lease \/ ~Running(w)'
  PROVE  NobodyNew
<1>1. OnTrial(w)' => OnTrial(w)
  BY DEF OnTrial, Running, KindOf
<1>2. \A i \in Jobs : Waiting(i)' => Waiting(i)
  BY DEF Waiting
<1> QED BY <1>1, <1>2, OthersKeep DEF NobodyNew

\* A handler's step.
LEMMA HandlerPasses ==
  ASSUME Basic, NEW w \in Workers, HandlerStep(w)
  PROVE  Passes
<1>1. Stays(w) /\ pc[w] \notin Outer /\ Elsewhere(w) /\ lease' = lease
  BY HandlerBasic DEF Stays, Moved
<1>2. pc[w] \notin {"idle", "ok"}
  BY <1>1 DEF Outer, Ends
<1>3. CASE job' = job
  BY <1>1, <1>2, <1>3, TrialGoesOn DEF Passes
<1>4. CASE job' # job
  <2>1. PICK k : job' = Q!Enqueued({k}) /\ pc'[w] = "ok" /\ Enqueues(w, k)
    BY <1>4, HandlerEnqueues
  <2>2. ~OnTrial(w)'
    BY <2>1 DEF OnTrial
  <2>3. ASSUME NEW i \in Jobs, i # k, Waiting(i)'
        PROVE  Waiting(i)
    <3>1. job'[i] = job[i]
      BY <2>1, <2>3 DEF Q!Enqueued
    <3> QED BY <2>3, <3>1 DEF Waiting
  <2>4. CASE k \in Jobs /\ k[1] \in Trials
    <3>1. pc[w] \in VerifyPoints \union WatchPoints
      BY <2>1, <2>4 DEF Enqueues, Trials, VerifyPoints, WatchPoints
    <3>2. Running(w) /\ KindOf(w) \in Trials
      BY <1>1, <3>1, WhichKind DEF Trials
    <3>3. OnTrial(w)
      BY <1>2, <3>2 DEF OnTrial
    <3>4. HandsOver(w, k)
      BY <1>1, <2>2, <2>3, <3>3, OthersKeep DEF HandsOver, NobodyElse
    <3> QED BY <2>4, <3>4 DEF Passes
  <2>5. CASE ~(k \in Jobs /\ k[1] \in Trials)
    <3>1. \A i \in Jobs : Waiting(i)' => Waiting(i)
      BY <2>3, <2>5 DEF Waiting
    <3>2. \A v \in Workers : OnTrial(v)' => OnTrial(v)
      BY <1>1, <2>2, OthersKeep
    <3> QED BY <3>1, <3>2 DEF Passes, NobodyNew
  <2> QED BY <2>4, <2>5
<1> QED BY <1>3, <1>4

\* A claim takes the promoted build from the job it claims.
LEMMA ClaimPasses ==
  ASSUME Basic, NEW w \in Workers, Elsewhere(w), ClaimNext(w)
  PROVE  Passes
<1>1. PICK j \in Jobs : Q!ClaimNext(w, j)
  BY DEF ClaimNext
<1>2. /\ job[j].status \in {"PENDING", "RETRY"} /\ job'[j].status = "RUNNING"
      /\ \A i \in Jobs \ {j} : job'[i] = job[i]
      /\ lease'[w].job = j
  BY <1>1 DEF Q!ClaimNext, Q!Claimable, Basic, TypeOK, Q!TypeOK
<1>3. NobodyElse(w, j) /\ ~Waiting(j)'
  BY <1>2, OthersKeep DEF NobodyElse, Waiting
<1>4. CASE j[1] \in Trials
  <2>1. Waiting(j)
    BY <1>2, <1>4 DEF Waiting
  <2> QED BY <1>3, <2>1 DEF Passes, TakesUp
<1>5. CASE j[1] \notin Trials
  <2>1. ~OnTrial(w)'
    BY <1>2, <1>5 DEF OnTrial, KindOf
  <2> QED BY <1>3, <2>1 DEF Passes, NobodyNew, NobodyElse
<1> QED BY <1>4, <1>5

\* The end of a job takes it from the worker, and gives it back to the job when that is to
\* be retried.
LEMMA ReleasePasses ==
  ASSUME Basic, NEW w \in Workers, Elsewhere(w), CompleteJob(w) \/ FailJob(w)
  PROVE  Passes
<1> DEFINE k == lease[w].job
<1>1. /\ Running(w) /\ k \in Jobs /\ k = <<KindOf(w), Number(w)>>
      /\ pc[w] = "ok" \/ pc[w] = "err"
      /\ pc[w] = "ok" => CompleteJob(w)
  BY Numbers DEF CompleteJob, FailJob, Q!CompleteJob, Q!FailJob, Goto, Read, Running
<1>2. PICK status \in {"COMPLETED", "FAILED", "RETRY"} :
        Q!Release(w, status) /\ (status = "RETRY" => pc[w] = "err")
  BY <1>1 DEF CompleteJob, FailJob, Q!CompleteJob, Q!FailJob, Goto, Read
<1>3. ~Running(w)'
  BY <1>2 DEF Q!Release, Running, Basic, TypeOK, Q!TypeOK
<1>4. /\ \A i \in Jobs \ {k} : job'[i] = job[i]
      /\ job'[k] = job[k] \/ job'[k].status = status
  BY <1>1, <1>2 DEF Q!Release, Basic, TypeOK, Q!TypeOK
<1>5. ~OnTrial(w)'
  BY <1>3 DEF OnTrial
<1>6. NobodyElse(w, k)
  BY <1>4, OthersKeep DEF NobodyElse, Waiting
<1>7. CASE OnTrial(w)
  BY <1>1, <1>5, <1>6, <1>7 DEF Passes, HandsOver
<1>8. CASE ~OnTrial(w)
  <2>1. pc[w] = "ok" \/ k[1] \notin Trials
    BY <1>1, <1>8 DEF OnTrial, KindOf
  <2>2. job'[k] = job[k] \/ job'[k].status \notin {"PENDING", "RETRY"} \/ k[1] \notin Trials
    BY <1>2, <1>4, <2>1
  <2>3. \A i \in Jobs : Waiting(i)' => Waiting(i)
    BY <1>4, <2>2 DEF Waiting
  <2>4. \A v \in Workers : OnTrial(v)' => OnTrial(v)
    BY <1>5, OthersKeep
  <2> QED BY <2>3, <2>4 DEF Passes, NobodyNew
<1> QED BY <1>7, <1>8

\* Every step.  This is where Orderly is needed: a call that fails when the job has been
\* handed over would bring a second worker, or a second job, into the trial.
LEMMA TrialMoves ==
  ASSUME Orderly, Basic, [Next]_vars
  PROVE  Passes
<1>1. ASSUME NEW w \in Workers, ControlStep(w)
      PROVE  Passes
  <2>0. Elsewhere(w)
    BY <1>1, HandlerBasic, LoopBasic DEF ControlStep, Stays, Moved
  <2>1. CASE HandlerStep(w)
    BY <2>1, HandlerPasses
  <2>2. CASE ClaimNext(w)
    BY <2>0, <2>2, ClaimPasses
  <2>3. CASE CompleteJob(w) \/ FailJob(w)
    BY <2>0, <2>3, ReleasePasses
  <2>4. CASE EscalateRead(w) \/ EscalateMove(w)
    <3>1. job' = job /\ lease' = lease /\ pc[w] \notin {"idle", "ok"}
      BY <2>4 DEF EscalateRead, EscalateMove, Transition, Read
    <3> QED BY <2>0, <3>1, TrialGoesOn DEF Passes
  <2>5. CASE StepFails(w)
    <3>1. job' = job /\ lease' = lease /\ pc[w] # "idle"
      BY <2>5 DEF StepFails, Basic, Agreement, Agrees
    <3>2. pc[w] # "ok" \/ KindOf(w) \notin Trials
      BY <2>5 DEF StepFails, Orderly, HandOver, Trials
    <3> QED BY <2>0, <3>1, <3>2, TrialGoesOn DEF Passes
  <2>6. CASE Crash(w)
    <3>1. job' = job /\ ~Running(w)'
      BY <2>6 DEF Crash, Running, Basic, TypeOK, Q!TypeOK
    <3>2. ~OnTrial(w)'
      BY <3>1 DEF OnTrial
    <3> QED BY <2>0, <3>1, <3>2, OthersKeep DEF Passes, NobodyNew, Waiting
  <2> QED BY <1>1, <2>1, <2>2, <2>3, <2>4, <2>5, <2>6 DEF ControlStep, Loop, LoopStep, Broken,
         Fault
<1>2. CASE Outside \/ UNCHANGED vars
  <2>1. UNCHANGED <<job, lease, pc>>
    BY <1>2 DEF Outside, BuildActivates, TargetDrifts, VercelRestores, FeedReports,
       RefreshKnownGood, Pause, Resume, vars, handlerVars
  <2> QED BY <2>1 DEF Passes, NobodyNew, OnTrial, Waiting, Running, KindOf
<1> QED BY <1>1, <1>2 DEF Next, WorkerStep, ControlStep, HandlerStep

\* Every step keeps OneTrial, and a trial that has ended does not begin again.
LEMMA OneTrialKept ==
  ASSUME Orderly, Basic, OneTrial, [Next]_vars
  PROVE  OneTrial' /\ (NoTrial => NoTrial')
<1>1. CASE NobodyNew
  BY <1>1 DEF NobodyNew, OneTrial, NoTrial
<1>2. CASE \E w \in Workers, j \in Jobs : HandsOver(w, j)
  <2>1. PICK w \in Workers, j \in Jobs : HandsOver(w, j)
    BY <1>2
  <2>2. /\ OnTrial(w)
        /\ \A v \in Workers : ~OnTrial(v)'
        /\ \A i \in Jobs \ {j} : ~Waiting(i)'
    BY <2>1 DEF HandsOver, NobodyElse, OneTrial
  <2> QED BY <2>2 DEF OneTrial, NoTrial
<1>3. CASE \E w \in Workers, j \in Jobs : TakesUp(w, j)
  <2>1. PICK w \in Workers, j \in Jobs : TakesUp(w, j)
    BY <1>3
  <2>2. /\ Waiting(j)
        /\ \A i \in Jobs : ~Waiting(i)'
        /\ \A v \in Workers \ {w} : ~OnTrial(v)'
    BY <2>1 DEF TakesUp, NobodyElse, OneTrial
  <2> QED BY <2>2 DEF OneTrial, NoTrial
<1> QED BY <1>1, <1>2, <1>3, TrialMoves DEF Passes

\* The rollback's payload is that of the job that is new.
LEMMA BlameMoves ==
  ASSUME Basic, [Next]_vars, blame' # blame
  PROVE  ~Enqueued(<<"rollback", 0>>)
<1>1. PICK w \in Workers : BeginRollback(w)
  BY DEF Next, Outside, BuildActivates, TargetDrifts, VercelRestores, FeedReports,
     RefreshKnownGood, Pause, Resume, vars, WorkerStep, Loop, Broken, ReadWork, PauseLanding,
     VerifyPromoted, FindPromoted, SavePromoted, CheckPromoted, EnqueueWatch, WatchPromoted,
     WatchCurrent, WatchHealth, EnqueueLanding, LandRepair, MergeRepair, FindLanded,
     SaveLanded, EnqueueDurable, Durable, DurableCurrent, DurableHealth,
     EnqueueDurableWatch, MarkKnownGood, ResolveLanded, Rollback, CheckTarget,
     RequestRollback, RollBack, EnqueueRestored, VerifyRestored, RestoredCurrent,
     RestoredHealth, ResolveRestored, RevertSource, EnqueueNext, Plainly, tableVars
<1> QED BY <1>1 DEF BeginRollback, Plainly, tableVars, Enqueued

\* A repair that is merged stays merged, and is merged by a worker that lands it.
LEMMA MergedMoves ==
  ASSUME Basic, [Next]_vars
  PROVE  merged => merged'
<1>1. ASSUME NEW w \in Workers, ControlStep(w) PROVE merged => merged'
  BY <1>1 DEF ControlStep, HandlerStep, Loop, Broken, ReadWork, PauseLanding, BeginRollback,
     VerifyPromoted, FindPromoted, SavePromoted, CheckPromoted, EnqueueWatch, WatchPromoted,
     WatchCurrent, WatchHealth, EnqueueLanding, LandRepair, MergeRepair, FindLanded,
     SaveLanded, EnqueueDurable, Durable, DurableCurrent, DurableHealth,
     EnqueueDurableWatch, MarkKnownGood, ResolveLanded, Rollback, CheckTarget,
     RequestRollback, RollBack, EnqueueRestored, VerifyRestored, RestoredCurrent,
     RestoredHealth, ResolveRestored, RevertSource, EnqueueNext, Plainly, outsideVars
<1>2. CASE Outside \/ UNCHANGED vars
  BY <1>2 DEF Outside, BuildActivates, TargetDrifts, VercelRestores, FeedReports,
     RefreshKnownGood, Pause, Resume, vars, outsideVars
<1> QED BY <1>1, <1>2 DEF Next, WorkerStep, ControlStep, HandlerStep

\* Who enqueued a job that is new, and what else that step changed.
LEMMA EnqueuedBy ==
  ASSUME Basic, [Next]_vars, NEW j \in Jobs, ~Enqueued(j), Enqueued(j)'
  PROVE  \E w \in Workers :
           /\ HandlerStep(w) /\ Enqueues(w, j) /\ pc'[w] = "ok"
           /\ \A i \in Jobs \ {j} : job'[i] = job[i]
           /\ j[1] # "rollback" => blame' = blame
           /\ j[1] = "rollback" => blame' = Blame(w)
<1>a. job' # job
  BY DEF Enqueued
<1>1. PICK w \in Workers : ControlStep(w)
  BY <1>a DEF Next, Outside, BuildActivates, TargetDrifts, VercelRestores, FeedReports,
     RefreshKnownGood, Pause, Resume, vars, handlerVars, WorkerStep, ControlStep, HandlerStep
<1>2. ~(Loop(w) \/ Broken(w))
  <2>1. CASE ClaimNext(w)
    <3>1. PICK k \in Jobs : Q!ClaimNext(w, k)
      BY <2>1 DEF ClaimNext
    <3> QED BY <3>1 DEF Q!ClaimNext, Q!Claimable, Enqueued, Basic, TypeOK, Q!TypeOK
  <2>2. CASE CompleteJob(w) \/ FailJob(w)
    BY <2>2, Numbers DEF CompleteJob, FailJob, Q!CompleteJob, Q!FailJob, Q!Release, Enqueued,
       Basic, TypeOK, Q!TypeOK, Running
  <2>3. CASE EscalateRead(w) \/ EscalateMove(w) \/ Broken(w)
    BY <1>a, <2>3 DEF EscalateRead, EscalateMove, Transition, Broken, Fault, StepFails, Crash
  <2> QED BY <2>1, <2>2, <2>3 DEF Loop, LoopStep
<1>3. HandlerStep(w)
  BY <1>1, <1>2 DEF ControlStep
<1>4. PICK k : job' = Q!Enqueued({k}) /\ pc'[w] = "ok" /\ Enqueues(w, k)
  BY <1>a, <1>3, HandlerEnqueues
<1>5. j = k
  BY <1>4 DEF Q!Enqueued, Enqueued
<1>6. \A i \in Jobs \ {j} : job'[i] = job[i]
  BY <1>4, <1>5, EnqueuedRows
<1>7. ASSUME BeginRollback(w)
      PROVE  blame' = Blame(w) /\ j[1] = "rollback"
  <2>1. pc[w] \in BeginPoints
    BY <1>7 DEF BeginRollback, Choose, Transition, Goto, Read, BeginPoints
  <2>2. j[1] = "rollback" /\ j = <<"rollback", 0>>
    BY <1>4, <1>5, <2>1 DEF Enqueues, BeginPoints, Jobs
  <2>3. job[<<"rollback", 0>>].status = "absent"
    BY <2>2 DEF Enqueued
  <2>4. pc[w] = "begin.enqueue"
    BY <1>4, <1>5, <2>1 DEF Enqueues, BeginPoints
  <2> QED BY <1>7, <2>2, <2>3, <2>4 DEF BeginRollback, Choose, Transition, Goto, Read
<1>8. ASSUME ~BeginRollback(w)
      PROVE  blame' = blame /\ pc[w] # "begin.enqueue"
  <2>1. ReadWork(w) => pc[w] \in Kind /\ UNCHANGED blame
    BY DEF ReadWork, tableVars
  <2>2. PauseLanding(w) => pc[w] = "pause" /\ UNCHANGED blame
    BY DEF PauseLanding, Plainly, tableVars
  <2>3. VerifyPromoted(w) \/ WatchPromoted(w) \/ LandRepair(w) =>
          pc[w] # "begin.enqueue" /\ UNCHANGED blame
    BY DEF VerifyPromoted, FindPromoted, SavePromoted, CheckPromoted, EnqueueWatch,
     WatchPromoted, WatchCurrent, WatchHealth, EnqueueLanding, LandRepair, MergeRepair,
     FindLanded, SaveLanded, EnqueueDurable, EnqueueNext, FindCurrent, CheckHealth,
     EnqueueStep, Choose, Goto, Read, Plainly, tableVars
  <2>4. Durable(w) \/ Rollback(w) \/ VerifyRestored(w) =>
          pc[w] # "begin.enqueue" /\ UNCHANGED blame
    BY DEF Durable, DurableCurrent, DurableHealth,
     EnqueueDurableWatch, MarkKnownGood, ResolveLanded, Rollback, CheckTarget,
     RequestRollback, RollBack, EnqueueRestored, VerifyRestored, RestoredCurrent,
     RestoredHealth, ResolveRestored, RevertSource, EnqueueNext, FindCurrent, CheckHealth,
     EnqueueStep, Choose, Transition, Goto, Read, Plainly, tableVars
  <2> QED BY <1>3, <1>8, <2>1, <2>2, <2>3, <2>4 DEF HandlerStep, Kind
<1>9. j[1] = "rollback" => pc[w] = "begin.enqueue"
  BY <1>4, <1>5 DEF Enqueues
<1> QED BY <1>3, <1>4, <1>5, <1>6, <1>7, <1>8, <1>9

\* By which action a worker came to the points that follow a merge, or end an incident.
LEMMA CameAfter ==
  ASSUME Basic, NEW w \in Workers, ControlStep(w)
  PROVE  /\ pc'[w] \in LandPoints \ {"land.merge"} =>
              merged' = TRUE \/ pc[w] \in LandPoints \ {"land.merge"}
         /\ pc'[w] = "restored.resolve" =>
              /\ pc[w] = "restored.health" /\ ~blame.merged
              /\ UNCHANGED <<job, blame>>
<1>0. pc \in [Workers -> Point]
  BY DEF Basic, TypeOK
<1>1. CASE Loop(w) \/ Broken(w)
  BY <1>1, LoopBasic DEF Kind, Ends, LandPoints
<1>2. CASE ReadWork(w)
  <2>1. pc'[w] \in EnterPoints[pc[w]] /\ pc[w] \in Kind
    BY <1>2, ReadStays, EntryEnters
  <2> QED BY <2>1 DEF EnterPoints, Kind, LandPoints
<1>3. CASE PauseLanding(w) \/ BeginRollback(w)
  BY <1>0, <1>3 DEF PauseLanding, BeginRollback, Transition, Choose, EnqueueStep, Goto, Read,
     Fail, LandPoints
<1>4. CASE VerifyPromoted(w)
  BY <1>0, <1>4 DEF VerifyPromoted, FindPromoted, SavePromoted, CheckPromoted, EnqueueWatch,
       EnqueueNext, FindCurrent, CheckHealth, EnqueueStep, Choose, Goto, Read, LandPoints
<1>5. CASE WatchPromoted(w)
  BY <1>0, <1>5 DEF WatchPromoted, WatchCurrent, WatchHealth, EnqueueLanding,
       EnqueueNext, FindCurrent, CheckHealth, EnqueueStep, Choose, Goto, Read, LandPoints
<1>6. CASE LandRepair(w)
  BY <1>0, <1>6 DEF LandRepair, MergeRepair, FindLanded, SaveLanded, EnqueueDurable,
       EnqueueNext, FindCurrent, EnqueueStep, Choose, Goto, Read, LandPoints
<1>7. CASE Durable(w)
  BY <1>0, <1>7 DEF Durable, DurableCurrent, DurableHealth, EnqueueDurableWatch,
       MarkKnownGood, ResolveLanded, FindCurrent, CheckHealth, EnqueueStep, Choose, Transition,
       Fail, Goto, Read, LandPoints
<1>8. CASE Rollback(w)
  BY <1>0, <1>8 DEF Rollback, CheckTarget, RequestRollback, RollBack,
       EnqueueRestored, EnqueueStep, Choose, Transition, Fail, Goto, Read, LandPoints
<1>9. CASE VerifyRestored(w)
  BY <1>0, <1>9 DEF VerifyRestored, RestoredCurrent, RestoredHealth, ResolveRestored,
       RevertSource, EnqueueNext, FindCurrent, CheckHealth, EnqueueStep, Choose, Transition,
       Fail, Goto, Read, LandPoints, Plainly, tableVars
<1> QED BY <1>1, <1>2, <1>3, <1>4, <1>5, <1>6, <1>7, <1>8, <1>9 DEF ControlStep, HandlerStep

\* The worker that has the promoted build in hand ends the trial when it enqueues anything
\* but a trial.
LEMMA TrialEnds ==
  ASSUME Basic, OneTrial, NEW w \in Workers, HandlerStep(w), NEW j \in Jobs,
         pc'[w] = "ok", \A i \in Jobs \ {j} : job'[i] = job[i],
         KindOf(w) \in Trials, j[1] \notin Trials
  PROVE  OnTrial(w) /\ ~NoTrial /\ NoTrial'
<1>1. Stays(w) /\ pc[w] \notin Outer /\ Elsewhere(w)
  BY HandlerBasic DEF Stays, Moved
<1>2. OnTrial(w)
  BY <1>1, WhichKind DEF OnTrial, Outer, Ends
<1>3. ~NoTrial
  BY <1>2 DEF NoTrial
<1>4. \A v \in Workers : ~OnTrial(v)'
  <2>1. ~OnTrial(w)'
    BY DEF OnTrial
  <2> QED BY <1>1, <1>2, <2>1, OthersKeep DEF OneTrial
<1>5. \A i \in Jobs : ~Waiting(i)'
  BY <1>2 DEF OneTrial, Waiting
<1> QED BY <1>2, <1>3, <1>4, <1>5 DEF NoTrial

\* A rollback of a repair that was not merged is asked for at the end of a trial.
LEMMA FirstRollbackBegins ==
  ASSUME Basic, OneTrial, Apart, [Next]_vars, FirstRollback', ~FirstRollback
  PROVE  NoTrial' /\ ~LandingAsked'
<1> DEFINE j == <<"rollback", 0>>
<1>1. j \in Jobs /\ j[1] = "rollback" /\ j[1] \notin Trials
  BY DEF Jobs, Trials
<1>2. ~Enqueued(j) /\ Enqueued(j)'
  BY BlameMoves DEF FirstRollback
<1>3. PICK w \in Workers :
        /\ HandlerStep(w) /\ Enqueues(w, j) /\ pc'[w] = "ok"
        /\ \A i \in Jobs \ {j} : job'[i] = job[i]
        /\ blame' = Blame(w)
  BY <1>1, <1>2, EnqueuedBy
<1>4. KindOf(w) \in Trials
  <2>1. pc[w] \in BeginPoints
    BY <1>3 DEF Enqueues, BeginPoints
  <2>2. KindOf(w) \in {"verify-production", "watch", "verify-durable", "durable-watch"}
    BY <2>1, Inside, WhichKind
  <2>3. KindOf(w) \notin {"verify-durable", "durable-watch"}
    BY <1>3 DEF FirstRollback, Blame
  <2> QED BY <2>2, <2>3 DEF Trials
<1>5. NoTrial' /\ ~NoTrial
  BY <1>1, <1>3, <1>4, TrialEnds
<1>6. ~LandingAsked
  BY <1>5 DEF Apart
<1>7. ~LandingAsked'
  BY <1>1, <1>3, <1>6 DEF LandingAsked, Enqueued
<1> QED BY <1>5, <1>7

\* So is the landing.
LEMMA LandingBegins ==
  ASSUME Basic, OneTrial, Apart, [Next]_vars, LandingAsked', ~LandingAsked
  PROVE  NoTrial' /\ ~FirstRollback'
<1>1. PICK j \in Jobs : j[1] = "land-repair" /\ ~Enqueued(j) /\ Enqueued(j)'
  BY DEF LandingAsked
<1>2. PICK w \in Workers :
        /\ HandlerStep(w) /\ Enqueues(w, j) /\ pc'[w] = "ok"
        /\ \A i \in Jobs \ {j} : job'[i] = job[i]
        /\ blame' = blame
  BY <1>1, EnqueuedBy
<1>3. KindOf(w) \in Trials
  <2>1. pc[w] \in {"watch.land", "land.next"}
    BY <1>1, <1>2 DEF Enqueues
  <2>2. pc[w] # "land.next"
    <3>1. ASSUME pc[w] \in LandPoints PROVE LandingAsked
      <4>1. Running(w) /\ KindOf(w) = "land-repair"
        BY <3>1, Inside, WhichKind
      <4> QED BY <4>1, Numbers DEF LandingAsked, KindOf
    <3> QED BY <3>1 DEF LandPoints
  <2>3. pc[w] \in WatchPoints
    BY <2>1, <2>2 DEF WatchPoints
  <2> QED BY <2>3, Inside, WhichKind DEF Trials
<1>4. NoTrial' /\ ~NoTrial
  BY <1>1, <1>2, <1>3, TrialEnds DEF Trials
<1>5. ~FirstRollback
  BY <1>4 DEF Apart
<1>6. ~FirstRollback'
  <2>1. <<"rollback", 0>> \in Jobs \ {j}
    BY <1>1 DEF Jobs
  <2> QED BY <1>2, <1>5, <2>1 DEF FirstRollback, Enqueued
<1> QED BY <1>4, <1>6

\* Both last.
LEMMA WaysLast ==
  ASSUME Basic, Basic', [Next]_vars
  PROVE  /\ LandingAsked => LandingAsked'
         /\ FirstRollback => FirstRollback'
<1>1. <<"rollback", 0>> \in Jobs
  BY DEF Jobs
<1>2. FirstRollback => Enqueued(<<"rollback", 0>>)' /\ blame' = blame
  BY <1>1, StaysEnqueued, BlameMoves DEF FirstRollback
<1> QED BY <1>2, StaysEnqueued DEF LandingAsked, FirstRollback

\* Whoever watches the merge runs a job of after the merge.
LEMMA DurableMerged ==
  ASSUME Basic, Apart, NEW w \in Workers, pc[w] \in DurablePoints
  PROVE  merged
<1>1. Running(w) /\ KindOf(w) \in {"verify-durable", "durable-watch"}
  BY Inside, WhichKind
<1> QED BY <1>1, Numbers DEF Apart, KindOf

\* Every step keeps the two ways apart.
LEMMA ApartKept ==
  ASSUME Orderly, Basic, Basic', Follows, Follows', OneTrial, Apart, [Next]_vars
  PROVE  Apart'
<1>0. NoTrial => NoTrial'
  BY OneTrialKept
<1>1. FirstRollback' => NoTrial'
  BY <1>0, FirstRollbackBegins DEF Apart
<1>2. LandingAsked' => NoTrial' /\ ~FirstRollback'
  BY <1>0, FirstRollbackBegins, LandingBegins DEF Apart
<1>m. merged => merged'
  BY MergedMoves
<1>3. merged' => LandingAsked'
  <2>1. ASSUME NEW w \in Workers, pc[w] \in LandPoints
        PROVE  LandingAsked
    <3>1. Running(w) /\ KindOf(w) = "land-repair"
      BY <2>1, Inside, WhichKind
    <3> QED BY <3>1, Numbers DEF LandingAsked, KindOf
  <2>2. merged' => LandingAsked
    BY <2>1, DoneBy DEF Apart
  <2> QED BY <2>2, WaysLast
<1>4. ASSUME NEW j \in Jobs, Enqueued(j)', j[1] \in {"verify-durable", "durable-watch"}
      PROVE  merged'
  <2>1. CASE Enqueued(j)
    BY <1>4, <1>m, <2>1 DEF Apart
  <2>2. CASE ~Enqueued(j)
    <3>1. PICK w \in Workers : Enqueues(w, j)
      BY <1>4, <2>2, EnqueuedBy
    <3>2. pc[w] \in {"land.verify", "durable.next"}
      BY <1>4, <3>1 DEF Enqueues
    <3>3. CASE pc[w] = "land.verify"
      BY <1>m, <3>3 DEF Apart, LandPoints
    <3>4. CASE pc[w] = "durable.next"
      BY <1>m, <3>4, DurableMerged DEF DurablePoints
    <3> QED BY <3>2, <3>3, <3>4
  <2> QED BY <2>1, <2>2
<1>5. ASSUME NEW w \in Workers, pc'[w] \in LandPoints \ {"land.merge"}
      PROVE  merged'
  <2>1. pc[w] \in LandPoints \ {"land.merge"} => merged'
    BY <1>m DEF Apart
  <2> QED BY <1>5, <2>1, MovesAlone, CameAfter
<1>6. ASSUME NEW w \in Workers, pc'[w] = "restored.resolve"
      PROVE  FirstRollback'
  <2>1. CASE pc[w] = "restored.resolve"
    BY <2>1, WaysLast DEF Apart
  <2>2. CASE pc[w] # "restored.resolve"
    <3>1. pc[w] = "restored.health" /\ ~blame.merged
      BY <1>6, <2>2, MovesAlone, CameAfter
    <3>2. Enqueued(<<"rollback", 0>>)
      BY <3>1, RolledBackFollows DEF RestoredPoints
    <3>3. FirstRollback
      BY <3>1, <3>2 DEF FirstRollback
    <3> QED BY <3>3, WaysLast
  <2> QED BY <2>1, <2>2
<1>7. ASSUME incident' = "Resolved"
      PROVE  (merged' /\ Watched("durable-watch")') \/ FirstRollback'
  <2>1. ASSUME NEW w \in Workers, pc[w] \in {"durable.resolve", "restored.resolve"}
        PROVE  (merged /\ Watched("durable-watch")) \/ FirstRollback
    <3>1. CASE pc[w] = "durable.resolve"
      BY <3>1, DurableMerged DEF DurablePoints, Follows, StepFollows
    <3>2. CASE pc[w] = "restored.resolve"
      BY <3>2 DEF Apart
    <3> QED BY <2>1, <3>1, <3>2
  <2>2. (merged /\ Watched("durable-watch")) \/ FirstRollback
    BY <1>7, <2>1, DoneBy DEF Apart
  <2> QED BY <1>m, <2>2, WaysLast, PassedGrows DEF Watched
<1> QED BY <1>1, <1>2, <1>3, <1>4, <1>5, <1>6, <1>7 DEF Apart

\* In every reachable state at most one worker or job has the promoted build in hand, and
\* the two ways the trial may end stay apart.
THEOREM LandingApart == ASSUME Orderly PROVE Spec => [](OneTrial /\ Apart)
<1>1. Init => OneTrial /\ Apart
  <2> SUFFICES ASSUME Init PROVE OneTrial /\ Apart
    OBVIOUS
  <2>1. \A w \in Workers : pc[w] = "idle"
    BY DEF Init
  <2>2. \A j \in Jobs : Enqueued(j) => j = <<"verify-production", 0>>
    BY DEF Init, Enqueued, Q!Absent
  <2>3. \A j \in Jobs : Waiting(j) => j = <<"verify-production", 0>>
    BY <2>2 DEF Waiting, Enqueued
  <2>4. OneTrial
    BY <2>1, <2>3 DEF OneTrial, OnTrial
  <2>5. \A j \in Jobs : Enqueued(j) => j[1] = "verify-production"
    BY <2>2
  <2>6. ~LandingAsked /\ ~FirstRollback
    <3>1. <<"rollback", 0>> \in Jobs /\ <<"rollback", 0>>[1] = "rollback"
      BY DEF Jobs
    <3> QED BY <2>5, <3>1 DEF LandingAsked, FirstRollback
  <2>7. Apart
    BY <2>1, <2>5, <2>6 DEF Init, Apart, LandPoints
  <2> QED BY <2>4, <2>7
<1>2. Basic /\ Basic' /\ Follows /\ Follows' /\ OneTrial /\ Apart /\ [Next]_vars
        => OneTrial' /\ Apart'
  BY OneTrialKept, ApartKept
<1> QED BY <1>1, <1>2, LandingBasic, LandingFollows, PTL DEF Spec

\* docs/ALPHA_TEST_MATRIX.md, A16, A18, A20, wherever calls and processes fail but at the
\* answer that ends a trial: an incident whose repair is on the protected branch is resolved
\* only after the three watches of its production deployment, otherwise after a rollback.
\* Without Orderly it does not hold (the run landing_retried).
THEOREM LandingResolvedMeansRecovered == ASSUME Orderly PROVE Spec => []ResolvedMeansRecovered
<1>1. Apart => ResolvedMeansRecovered
  BY DEF Apart, ResolvedMeansRecovered, Watched, FirstRollback, Enqueued
<1> QED BY <1>1, LandingApart, PTL

-------------------------------------------------------------------------------
(* Landing implements LandOrRestore.                                       *)

\* resolved_at is stamped as soon as the incident is resolved or rolled back.
Stamped == incident \in {"Resolved", "RolledBack"} => resolvedAt

\* The watches, the merge and the mark change by these actions only.
LEMMA ShownBy ==
  ASSUME Basic, [Next]_vars, ~ UNCHANGED <<passed, merged, knownGood>>
  PROVE  \/ RefreshKnownGood
         \/ \E w \in Workers :
              WatchHealth(w) \/ DurableHealth(w) \/ MergeRepair(w) \/ MarkKnownGood(w)
  BY DEF Next, Outside, BuildActivates, TargetDrifts, VercelRestores, FeedReports, Pause,
     Resume, vars, WorkerStep, Loop, Broken, ReadWork, PauseLanding, BeginRollback,
     VerifyPromoted, FindPromoted, SavePromoted, CheckPromoted, EnqueueWatch, WatchPromoted,
     WatchCurrent, EnqueueLanding, LandRepair, FindLanded, SaveLanded, EnqueueDurable,
     Durable, DurableCurrent, EnqueueDurableWatch, ResolveLanded, Rollback, CheckTarget,
     RequestRollback, RollBack, EnqueueRestored, VerifyRestored, RestoredCurrent,
     RestoredHealth, ResolveRestored, RevertSource, EnqueueNext, Plainly, tableVars,
     outsideVars

\* A step that moves the incident does nothing else that counts here.
LEMMA IncidentAlone ==
  ASSUME Basic, [Next]_vars, incident' # incident
  PROVE  UNCHANGED <<job, blame>>
<1>1. CASE Outside \/ UNCHANGED vars
  BY <1>1 DEF Outside, BuildActivates, TargetDrifts, VercelRestores, FeedReports,
     RefreshKnownGood, Pause, Resume, vars, handlerVars, tableVars
<1>2. ASSUME NEW w \in Workers, Loop(w) \/ Broken(w) PROVE UNCHANGED <<job, blame>>
  BY <1>2 DEF Loop, Broken, LoopStep, Fault, ClaimNext, CompleteJob, FailJob, EscalateRead,
     EscalateMove, Transition, StepFails, Crash, Plainly, tableVars
<1>3. ASSUME NEW w \in Workers, HandlerStep(w) PROVE UNCHANGED <<job, blame>>
  BY <1>3 DEF HandlerStep, ReadWork, PauseLanding, BeginRollback, VerifyPromoted,
     FindPromoted, SavePromoted, CheckPromoted, EnqueueWatch, WatchPromoted, WatchCurrent,
     WatchHealth, EnqueueLanding, LandRepair, MergeRepair, FindLanded, SaveLanded,
     EnqueueDurable, Durable, DurableCurrent, DurableHealth, EnqueueDurableWatch,
     MarkKnownGood, ResolveLanded, Rollback, CheckTarget, RequestRollback, RollBack,
     EnqueueRestored, VerifyRestored, RestoredCurrent, RestoredHealth, ResolveRestored,
     RevertSource, EnqueueNext, EnqueueStep, FindCurrent, CheckHealth, Choose, Transition,
     Plainly, tableVars
<1> QED BY <1>1, <1>2, <1>3 DEF Next, WorkerStep, HandlerStep

\* When an incident is stamped.
LEMMA StampMoves ==
  ASSUME Basic, Stamped, [Next]_vars
  PROVE  /\ Stamped'
         /\ incident' = incident => resolvedAt' = resolvedAt
         /\ incident' # incident =>
              resolvedAt' = (resolvedAt \/ incident' \in {"Resolved", "RolledBack"})
<1>1. Stamp \/ (resolvedAt' = resolvedAt /\ incident' \in {incident, "CollectingContext"})
  <2>1. CASE Outside \/ UNCHANGED vars
    BY <2>1 DEF Outside, BuildActivates, TargetDrifts, VercelRestores, FeedReports,
       RefreshKnownGood, Pause, Resume, vars, handlerVars
  <2>2. ASSUME NEW w \in Workers, WorkerStep(w) \/ Broken(w), ~Stamp
        PROVE  UNCHANGED <<incident, resolvedAt>>
    BY <2>2 DEF WorkerStep, Loop, Broken, ReadWork, PauseLanding, BeginRollback,
     VerifyPromoted, FindPromoted, SavePromoted, CheckPromoted, EnqueueWatch, WatchPromoted,
     WatchCurrent, WatchHealth, EnqueueLanding, LandRepair, MergeRepair, FindLanded,
     SaveLanded, EnqueueDurable, Durable, DurableCurrent, DurableHealth,
     EnqueueDurableWatch, MarkKnownGood, ResolveLanded, Rollback, CheckTarget,
     RequestRollback, RollBack, EnqueueRestored, VerifyRestored, RestoredCurrent,
     RestoredHealth, ResolveRestored, RevertSource, EnqueueNext, Plainly
  <2> QED BY <2>1, <2>2 DEF Next
<1>2. resolvedAt \in BOOLEAN
  BY DEF Basic, TypeOK
<1> QED BY <1>1, <1>2 DEF Stamped, Stamp

\* Who rolls an incident back.
LEMMA RolledBackBy ==
  ASSUME Basic, [Next]_vars, incident' = "RolledBack", incident # "RolledBack"
  PROVE  \E w \in Workers : pc[w] = "rollback.move"
<1>1. CASE Outside \/ UNCHANGED vars
  BY <1>1 DEF Outside, BuildActivates, TargetDrifts, VercelRestores, FeedReports,
     RefreshKnownGood, Pause, Resume, vars, handlerVars
<1>2. ASSUME NEW w \in Workers, Loop(w) \/ Broken(w) PROVE FALSE
  BY <1>2 DEF Loop, Broken, LoopStep, Fault, ClaimNext, CompleteJob, FailJob, EscalateRead,
     EscalateMove, Transition, StepFails, Crash
<1>3. ASSUME NEW w \in Workers, HandlerStep(w) PROVE pc[w] = "rollback.move"
  BY <1>3 DEF HandlerStep, ReadWork, PauseLanding, BeginRollback, VerifyPromoted,
     FindPromoted, SavePromoted, CheckPromoted, EnqueueWatch, WatchPromoted, WatchCurrent,
     WatchHealth, EnqueueLanding, LandRepair, MergeRepair, FindLanded, SaveLanded,
     EnqueueDurable, Durable, DurableCurrent, DurableHealth, EnqueueDurableWatch,
     MarkKnownGood, ResolveLanded, Rollback, CheckTarget, RequestRollback, RollBack,
     EnqueueRestored, VerifyRestored, RestoredCurrent, RestoredHealth, ResolveRestored,
     RevertSource, EnqueueNext, EnqueueStep, FindCurrent, CheckHealth, Choose, Transition,
     Goto, Read
<1> QED BY <1>1, <1>2, <1>3 DEF Next, WorkerStep, HandlerStep

\* All that is known of a reachable state.
Whole == Basic /\ Follows /\ OneTrial /\ Apart /\ Stamped

Watches(kind) == {c \in Checks : <<kind, c>> \in passed}

\* A watch that passes is the next one.
LEMMA WatchInTurn ==
  ASSUME Whole, NEW w \in Workers, pc[w] \notin Outer,
         KindOf(w) \in {"watch", "durable-watch"}
  PROVE  Number(w) \in Checks /\ LR!InTurn(Number(w), Watches(KindOf(w)))
<1>1. Number(w) \in Checks /\ RowFollows(<<KindOf(w), Number(w)>>)
  BY WhichKind, Numbers, RunsAFollowedJob DEF Whole
<1> QED BY <1>1 DEF RowFollows, Watches, LR!InTurn

\* The watches of the promoted build pass while it is on trial.
LEMMA WatchImplements ==
  ASSUME Whole, NEW w \in Workers, WatchHealth(w), resolvedAt' = resolvedAt
  PROVE  [LR!LRNext]_(LR!lrVars)
<1>1. pc[w] = "watch.health" /\ pc[w] \in WatchPoints
  BY DEF WatchHealth, WatchPoints
<1>2. pc[w] \notin Outer /\ Running(w) /\ KindOf(w) = "watch"
  BY <1>1, Inside, WhichKind DEF Whole
<1>3. OnTrial(w)
  BY <1>1, <1>2 DEF OnTrial, Trials
<1>4. ~LandingAsked /\ ~FirstRollback
  BY <1>3 DEF Whole, Apart, NoTrial
<1>5. UNCHANGED <<incident, job, blame, knownGood, merged>>
  BY DEF WatchHealth, CheckHealth, Choose, tableVars, outsideVars
<1>6. UNCHANGED <<LandingAsked, FirstRollback, Enqueued(<<"rollback", 0>>)>>
  BY <1>5 DEF LandingAsked, FirstRollback, Enqueued
<1>7. CASE passed' = passed
  BY <1>5, <1>6, <1>7 DEF LR!lrVars
<1>8. CASE passed' = passed \union {<<"watch", Number(w)>>}
  <2>1. PICK c \in Checks : c = Number(w) /\ LR!InTurn(c, Watches("watch"))
    BY <1>2, WatchInTurn
  <2>2. Watches("watch")' = Watches("watch") \union {c}
    BY <1>8, <2>1 DEF Watches
  <2>3. Watches("durable-watch")' = Watches("durable-watch")
    BY <1>8 DEF Watches
  <2>4. LR!Watch(c)
    BY <1>4, <1>5, <1>6, <2>1, <2>2, <2>3 DEF LR!Watch, Watches
  <2> QED BY <2>1, <2>4 DEF LR!LRNext
<1> QED BY <1>7, <1>8 DEF WatchHealth

\* Those of the merge pass when it is merged.
LEMMA ConfirmImplements ==
  ASSUME Whole, NEW w \in Workers, DurableHealth(w), resolvedAt' = resolvedAt
  PROVE  [LR!LRNext]_(LR!lrVars)
<1>1. pc[w] = "durable.health" /\ pc[w] \in DurablePoints
  BY DEF DurableHealth, DurablePoints
<1>2. pc[w] \notin Outer /\ KindOf(w) \in {"verify-durable", "durable-watch"}
  BY <1>1, Inside, WhichKind DEF Whole
<1>3. merged
  BY <1>1, DurableMerged DEF Whole
<1>5. UNCHANGED <<incident, job, blame, knownGood, merged>>
  BY DEF DurableHealth, CheckHealth, Choose, tableVars, outsideVars
<1>6. UNCHANGED <<LandingAsked, FirstRollback, Enqueued(<<"rollback", 0>>)>>
  BY <1>5 DEF LandingAsked, FirstRollback, Enqueued
<1>7. CASE passed' = passed
  BY <1>5, <1>6, <1>7 DEF LR!lrVars
<1>8. CASE passed' = passed \union {<<"durable-watch", Number(w)>>} /\ KindOf(w) = "durable-watch"
  <2>1. PICK c \in Checks : c = Number(w) /\ LR!InTurn(c, Watches("durable-watch"))
    BY <1>2, <1>8, WatchInTurn
  <2>2. Watches("durable-watch")' = Watches("durable-watch") \union {c}
    BY <1>8, <2>1 DEF Watches
  <2>3. Watches("watch")' = Watches("watch")
    BY <1>8 DEF Watches
  <2>4. LR!Confirm(c)
    BY <1>3, <1>5, <1>6, <2>1, <2>2, <2>3 DEF LR!Confirm, Watches
  <2> QED BY <2>1, <2>4 DEF LR!LRNext
<1> QED BY <1>2, <1>7, <1>8 DEF DurableHealth

\* The repair is merged when it is to be landed.
LEMMA MergeImplements ==
  ASSUME Whole, NEW w \in Workers, MergeRepair(w), resolvedAt' = resolvedAt
  PROVE  [LR!LRNext]_(LR!lrVars)
<1>1. pc[w] \in LandPoints
  BY DEF MergeRepair, Choose, Goto, Read, LandPoints
<1>2. LandingAsked
  <2>1. Running(w) /\ KindOf(w) = "land-repair"
    BY <1>1, Inside, WhichKind DEF Whole
  <2> QED BY <2>1, Numbers DEF Whole, LandingAsked, KindOf
<1>3. UNCHANGED <<incident, job, blame, knownGood, passed>>
  BY DEF MergeRepair, Choose, tableVars
<1>4. UNCHANGED <<LandingAsked, FirstRollback, Enqueued(<<"rollback", 0>>)>>
  BY <1>3 DEF LandingAsked, FirstRollback, Enqueued
<1>5. CASE merged' = merged
  BY <1>3, <1>4, <1>5 DEF LR!lrVars
<1>6. CASE merged' = TRUE
  <2>1. LR!Merge
    BY <1>2, <1>3, <1>4, <1>6 DEF LR!Merge
  <2> QED BY <2>1 DEF LR!LRNext
<1> QED BY <1>5, <1>6 DEF MergeRepair

\* The mark moves to the merge after its watches, and otherwise only when the incident has
\* been closed.
LEMMA MarkImplements ==
  ASSUME Whole, Basic', RefreshKnownGood \/ (\E w \in Workers : MarkKnownGood(w)),
         resolvedAt' = resolvedAt
  PROVE  [LR!LRNext]_(LR!lrVars)
<1>1. UNCHANGED <<incident, job, blame, merged, passed>>
  BY DEF RefreshKnownGood, MarkKnownGood, Choose, handlerVars, outsideVars
<1>2. UNCHANGED <<LandingAsked, FirstRollback, Enqueued(<<"rollback", 0>>)>>
  BY <1>1 DEF LandingAsked, FirstRollback, Enqueued
<1>3. CASE RefreshKnownGood
  <2>1. resolvedAt /\ knownGood' \in Built \union {"none"}
    BY <1>3 DEF RefreshKnownGood, Basic, TypeOK
  <2>2. LR!Refresh
    BY <1>1, <1>2, <2>1 DEF LR!Refresh
  <2> QED BY <2>2 DEF LR!LRNext
<1>4. ASSUME NEW w \in Workers, MarkKnownGood(w) PROVE LR!Establish
  <2>1. pc[w] = "durable.mark" /\ knownGood' = "merge"
    BY <1>4 DEF MarkKnownGood, Choose, Goto, Read
  <2>2. Watches("durable-watch") = Checks
    BY <2>1 DEF Whole, Follows, StepFollows, Watched, Watches
  <2> QED BY <1>1, <1>2, <2>1, <2>2 DEF LR!Establish, Watches
<1> QED BY <1>3, <1>4 DEF LR!LRNext

\* A step that moves neither, nor the incident, at most ends the trial or asks for the
\* rollback of the merge.
LEMMA QueueImplements ==
  ASSUME Whole, Basic', Follows', [Next]_vars,
         UNCHANGED <<passed, merged, knownGood, incident, resolvedAt>>
  PROVE  [LR!LRNext]_(LR!lrVars)
<1> DEFINE back == <<"rollback", 0>>
<1>0. back \in Jobs /\ back[1] = "rollback"
  BY DEF Jobs
<1>1. /\ LandingAsked => LandingAsked' /\ ~FirstRollback'
      /\ FirstRollback => FirstRollback' /\ ~LandingAsked'
      /\ Enqueued(back) => Enqueued(back)'
  <2>1. LandingAsked => LandingAsked'
    BY WaysLast DEF Whole
  <2>2. FirstRollback => FirstRollback'
    BY WaysLast DEF Whole
  <2>3. LandingAsked => ~FirstRollback'
    BY <2>1, FirstRollbackBegins DEF Whole, Apart
  <2>4. FirstRollback => ~LandingAsked'
    BY <2>2, LandingBegins DEF Whole, Apart
  <2> QED BY <1>0, <2>1, <2>2, <2>3, <2>4, StaysEnqueued DEF Whole
<1>2. CASE LandingAsked' /\ ~LandingAsked
  <2>1. ~FirstRollback /\ ~FirstRollback'
    BY <1>1, <1>2, LandingBegins DEF Whole
  <2>2. PICK j \in Jobs : j[1] = "land-repair" /\ ~Enqueued(j) /\ Enqueued(j)'
    BY <1>2 DEF LandingAsked
  <2>3. Watches("watch") = Checks
    BY <2>2 DEF Follows, RowFollows, Watched, Watches
  <2>4. Enqueued(back)' = Enqueued(back)
    BY <1>0, <2>2, EnqueuedBy DEF Whole, Enqueued
  <2>5. LR!Land
    BY <1>2, <2>1, <2>3, <2>4 DEF LR!Land, Watches
  <2> QED BY <2>5 DEF LR!LRNext
<1>3. CASE FirstRollback' /\ ~FirstRollback
  <2>1. ~LandingAsked /\ ~LandingAsked'
    BY <1>1, <1>3, FirstRollbackBegins DEF Whole
  <2>2. Enqueued(back)'
    BY <1>3 DEF FirstRollback
  <2>3. LR!Restore
    BY <1>3, <2>1, <2>2 DEF LR!Restore
  <2> QED BY <2>3 DEF LR!LRNext
<1>4. CASE LandingAsked' = LandingAsked /\ FirstRollback' = FirstRollback
  <2>1. CASE Enqueued(back)' /\ ~Enqueued(back)
    <3>1. ~FirstRollback'
      BY <1>4, <2>1 DEF FirstRollback
    <3>2. PICK w \in Workers : HandlerStep(w) /\ Enqueues(w, back) /\ blame' = Blame(w)
      BY <1>0, <2>1, EnqueuedBy DEF Whole
    <3>3. KindOf(w) \in {"verify-durable", "durable-watch"}
      BY <2>1, <3>1, <3>2 DEF FirstRollback, Blame
    <3>4. merged
      <4>1. pc[w] \notin Outer
        BY <3>2, HandlerBasic DEF Whole, Stays
      <4> QED BY <3>3, <4>1, RunsAFollowedJob DEF Whole, Apart
    <3>5. LR!Undo
      BY <1>4, <2>1, <3>4 DEF LR!Undo
    <3> QED BY <3>5 DEF LR!LRNext
  <2>2. CASE Enqueued(back)' = Enqueued(back)
    BY <1>4, <2>2 DEF LR!lrVars
  <2> QED BY <1>1, <2>1, <2>2 DEF Enqueued
<1> QED BY <1>1, <1>2, <1>3, <1>4 DEF LandingAsked, FirstRollback, Enqueued

\* A step that moves the incident resolves it, closes it, or opens it again.
LEMMA IncidentImplements ==
  ASSUME Whole, Basic', [Next]_vars, incident' # incident,
         UNCHANGED <<passed, merged, knownGood>>
  PROVE  [LR!LRNext]_(LR!lrVars)
<1>1. UNCHANGED <<job, blame>>
  BY IncidentAlone DEF Whole
<1>2. UNCHANGED <<LandingAsked, FirstRollback, Enqueued(<<"rollback", 0>>)>>
  BY <1>1 DEF LandingAsked, FirstRollback, Enqueued
<1>3. /\ resolvedAt' = (resolvedAt \/ incident' \in {"Resolved", "RolledBack"})
      /\ resolvedAt \in BOOLEAN
  BY StampMoves DEF Whole, Basic, TypeOK
<1>4. CASE incident' = "Resolved"
  <2>1. PICK w \in Workers : pc[w] \in {"durable.resolve", "restored.resolve"}
    BY <1>4, DoneBy DEF Whole
  <2>2. CASE pc[w] = "durable.resolve"
    <3>1. merged /\ Watches("durable-watch") = Checks
      BY <2>2, DurableMerged
         DEF Whole, Follows, StepFollows, Watched, Watches, DurablePoints
    <3>2. LR!Resolve
      BY <1>2, <1>3, <1>4, <3>1 DEF LR!Resolve, Watches
    <3> QED BY <3>2 DEF LR!LRNext
  <2>3. CASE pc[w] = "restored.resolve"
    <3>1. FirstRollback /\ ~LandingAsked
      BY <2>3 DEF Whole, Apart
    <3>2. LR!Resolve
      BY <1>2, <1>3, <1>4, <3>1 DEF LR!Resolve
    <3> QED BY <3>2 DEF LR!LRNext
  <2> QED BY <2>1, <2>2, <2>3
<1>5. CASE incident' = "RolledBack"
  <2>1. Enqueued(<<"rollback", 0>>)
    BY <1>5, RolledBackBy, RolledBackFollows DEF Whole, RollbackPoints
  <2>2. LR!Close
    BY <1>2, <1>3, <1>5, <2>1 DEF LR!Close
  <2> QED BY <2>2 DEF LR!LRNext
<1>6. CASE incident' \notin {"Resolved", "RolledBack"}
  <2>1. resolvedAt' = resolvedAt
    BY <1>3, <1>6
  <2>2. CASE incident = "Resolved"
    <3>1. LR!Reopen
      BY <1>2, <1>6, <2>1, <2>2 DEF LR!Reopen, Whole, Stamped
    <3> QED BY <3>1 DEF LR!LRNext
  <2>3. CASE incident # "Resolved"
    <3>1. (incident' = "Resolved") = (incident = "Resolved")
      BY <1>6, <2>3
    <3> QED BY <1>2, <2>1, <3>1 DEF LR!lrVars
  <2> QED BY <2>2, <2>3
<1> QED BY <1>4, <1>5, <1>6

\* Every step maps to a step of LandOrRestore or to none.
LEMMA StepImplements ==
  ASSUME Whole, Basic', Follows', [Next]_vars
  PROVE  [LR!LRNext]_(LR!lrVars)
<1>1. CASE ~ UNCHANGED <<passed, merged, knownGood>>
  <2>1. \/ RefreshKnownGood
        \/ \E w \in Workers :
             WatchHealth(w) \/ DurableHealth(w) \/ MergeRepair(w) \/ MarkKnownGood(w)
    BY <1>1, ShownBy DEF Whole
  <2>2. incident' = incident
    BY <2>1 DEF RefreshKnownGood, WatchHealth, DurableHealth, MergeRepair, MarkKnownGood,
       CheckHealth, Choose, handlerVars
  <2>3. resolvedAt' = resolvedAt
    BY <2>2, StampMoves DEF Whole
  <2> QED BY <2>1, <2>3, WatchImplements, ConfirmImplements, MergeImplements, MarkImplements
<1>2. CASE UNCHANGED <<passed, merged, knownGood>> /\ incident' = incident
  <2>1. resolvedAt' = resolvedAt
    BY <1>2, StampMoves DEF Whole
  <2> QED BY <1>2, <2>1, QueueImplements
<1>3. CASE UNCHANGED <<passed, merged, knownGood>> /\ incident' # incident
  BY <1>3, IncidentImplements
<1> QED BY <1>1, <1>2, <1>3

\* docs/ALPHA_TEST_MATRIX.md, A16, A18, A20, A21, in one piece: whatever is retried, fails or
\* dies, except at the answer that ends a trial, the handlers land a promoted repair or restore
\* production as LandOrRestore says.
THEOREM LandingImplements == ASSUME Orderly PROVE Spec => ImplementsLandOrRestore
<1>1. Init => LR!LRInit
  <2> SUFFICES ASSUME Init PROVE LR!LRInit
    OBVIOUS
  <2>1. \A j \in Jobs : Enqueued(j) => j = <<"verify-production", 0>>
    BY DEF Init, Enqueued, Q!Absent
  <2>2. ~Enqueued(<<"rollback", 0>>)
    BY <2>1 DEF Jobs
  <2>3. ~LandingAsked
    BY <2>1 DEF LandingAsked
  <2>4. ~FirstRollback
    BY <2>2 DEF FirstRollback
  <2> QED BY <2>2, <2>3, <2>4 DEF Init, LR!LRInit, Built
<1>2. Init => Stamped
  BY DEF Init, Stamped
<1>3. Basic /\ Stamped /\ [Next]_vars => Stamped'
  BY StampMoves
<1>4. Basic /\ Follows /\ OneTrial /\ Apart /\ Stamped /\ Basic' /\ Follows' /\ [Next]_vars
        => [LR!LRNext]_(LR!lrVars)
  BY StepImplements DEF Whole
<1> QED BY <1>1, <1>2, <1>3, <1>4, LandingBasic, LandingFollows, LandingApart, PTL
       DEF Spec, ImplementsLandOrRestore, LR!LRSpec

\* What LandOrRestore's promises rest on: the way to land is taken after every watch.
LRInv ==
  /\ Watches("watch") \subseteq Checks /\ Watches("durable-watch") \subseteq Checks
  /\ LandingAsked => Watches("watch") = Checks
  /\ LR!Promises

\* LandOrRestore keeps its promises, in whatever way its steps are made.
THEOREM LandOrRestorePromises == LR!LRSpec => []LR!Promises
<1>1. LR!LRInit => LRInv
  BY DEF LR!LRInit, LRInv, LR!Promises, Watches
<1>2. LRInv /\ [LR!LRNext]_(LR!lrVars) => LRInv'
  <2> SUFFICES ASSUME LRInv, [LR!LRNext]_(LR!lrVars) PROVE LRInv'
    OBVIOUS
  <2>1. ASSUME NEW c \in Checks, LR!Watch(c) \/ LR!Confirm(c) PROVE LRInv'
    BY <2>1 DEF LR!Watch, LR!Confirm, LRInv, LR!Promises, Watches
  <2>2. CASE LR!Land \/ LR!Restore \/ LR!Merge \/ LR!Undo
    BY <2>2 DEF LR!Land, LR!Restore, LR!Merge, LR!Undo, LRInv, LR!Promises, Watches
  <2>3. CASE LR!Establish \/ LR!Resolve \/ LR!Close
    BY <2>3 DEF LR!Establish, LR!Resolve, LR!Close, LRInv, LR!Promises, Watches
  <2>4. CASE LR!Refresh \/ LR!Reopen \/ UNCHANGED LR!lrVars
    BY <2>4 DEF LR!Refresh, LR!Reopen, LR!lrVars, LRInv, LR!Promises, Watches
  <2> QED BY <2>1, <2>2, <2>3, <2>4 DEF LR!LRNext
<1>3. LRInv => LR!Promises
  BY DEF LRInv
<1> QED BY <1>1, <1>2, <1>3, PTL DEF LR!LRSpec
===============================================================================
