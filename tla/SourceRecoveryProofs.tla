------------------------- MODULE SourceRecoveryProofs -------------------------
(***************************************************************************)
(* Proofs about SourceRecovery, for any workers, attempts, polls, reverts, *)
(* failing statements and crashes: its type invariant, that the repair is  *)
(* reverted once, that an incident is closed, and a deployment marked      *)
(* known good, only by a recovery that held in all its parts, and that the *)
(* handlers use the job queue as JobQueue allows.                          *)
(*                                                                         *)
(* RevertedOnce rests on the queue: one worker at a time runs the only     *)
(* verify-rollback job (OneRunner), so nobody opens a revert between its   *)
(* search and its creation.  ClosedMeansRecovered needs no such exclusion: *)
(* what it rests on only grows (Grows), and each job of the chain review,  *)
(* production, watch is enqueued by a worker that has seen its share of it *)
(* (Follows).                                                              *)
(***************************************************************************)
EXTENDS SourceRecovery, TLAPS

QP == INSTANCE JobQueueProofs

Enqueued(j) == job[j].status # "absent"

\* The points of each handler.
PreparePoints ==
  {"verify-rollback", "revert.search", "revert.create", "revert.record", "revert.review",
   "revert.move"}
ReviewPoints == {"review", "review.status", "review.next", "review.merged"}
ProductionPoints ==
  {"production", "production.find", "production.next", "production.save", "production.watch"}
WatchPoints ==
  {"watch", "watch.check", "watch.next", "watch.head", "watch.mark", "watch.resolve"}

\* A worker inside a handler holds the lease of a job of that kind; one that has just
\* created a revert knows its number.
Agrees(w) ==
  /\ pc[w] = "idle" => ~Running(w)
  /\ pc[w] \in {"ok", "err"} => Running(w)
  /\ pc[w] \in PreparePoints    => Running(w) /\ KindOf(w) = "verify-rollback"
  /\ pc[w] \in ReviewPoints     => Running(w) /\ KindOf(w) = "review"
  /\ pc[w] \in ProductionPoints => Running(w) /\ KindOf(w) = "production"
  /\ pc[w] \in WatchPoints      => Running(w) /\ KindOf(w) = "watch"
  /\ pc[w] = "revert.record" => work[w].revert \in Revert

Agreement == \A w \in Workers : Agrees(w)

Basic == TypeOK /\ QP!IInv /\ Agreement

\* The handlers' queue is typed as the job queue proved about on its own.
LEMMA QueueTypes == Q!TypeOK <=> QP!TypeOK
  BY DEF QP!TypeOK, Q!TypeOK, QP!Names, Q!Names, QP!Status, Q!Status, Q!NoLease,
         QP!NoLease, Q!NoName, QP!NoName

\* The queue's assumption holds: every job may be attempted.
LEMMA JobAttempts == QP!AttemptsAssumption
<1>1. \A j \in Jobs : j[1] \in Kind
  BY DEF Jobs, Kind
<1> QED BY <1>1, SourceRecoveryAssumption DEF QP!AttemptsAssumption, MaxAttempts

\* What a job's key is made of.
LEMMA JobsOf ==
  ASSUME NEW j \in Jobs
  PROVE  /\ j[1] \in Kind
         /\ j[1] # "verify-rollback" => j[2][1] \in Nat /\ j[2][2] \in Revert
         /\ j[1] = "verify-rollback" => j = <<"verify-rollback", <<0, 0>>>>
         /\ j[1] = "watch" => j[2] \in Checks \X Revert
         /\ j = <<j[1], j[2]>> /\ j[2] = <<j[2][1], j[2][2]>>
  BY SourceRecoveryAssumption DEF Jobs, Kind, ReviewPolls, Checks

HandlerStep(w) == ReadWork(w) \/ Prepare(w) \/ Review(w) \/ Production(w) \/ Watch(w)

\* Every step is a step of the job queue, or leaves it alone.
LEMMA QueueStep ==
  ASSUME TypeOK, [Next]_vars PROVE [QP!Next]_(QP!vars)
<1> USE DEF QP!vars
<1>q. ASSUME NEW j, job' = Q!Enqueued({j}), lease' = lease PROVE [QP!Next]_(QP!vars)
  <2>1. QP!Enqueue({j} \intersect Jobs)
    BY <1>q DEF QP!Enqueue, QP!Enqueued, Q!Enqueued, QP!EnqueuedRow, Q!EnqueuedRow
  <2> QED BY <2>1 DEF QP!Next
<1>1. CASE UNCHANGED vars \/ Outside
  BY <1>1 DEF vars, handlerVars, Outside, HumanMerges, RevertDrifts, BranchAdvances,
     TargetChanges
<1>2. ASSUME NEW w \in Workers, HandlerStep(w) PROVE [QP!Next]_(QP!vars)
  BY <1>2, <1>q DEF HandlerStep, ReadWork, Prepare, SearchRevert, CreateRevert, RecordRevert,
     EnqueueReview, AwaitReview, Review, ReviewStatus, EnqueueNext, EnqueueProduction,
     Production, FindRecovered, SaveRecovered, EnqueueWatch, Watch, WatchRecovered, CheckHead,
     MarkRecovered, ResolveRecovered, EnqueueStep, Choose, Transition
<1>3. ASSUME NEW w \in Workers, Loop(w) PROVE [QP!Next]_(QP!vars)
  <2>1. CASE ClaimNext(w)
    <3>1. PICK j \in Jobs : Q!ClaimNext(w, j)
      BY <2>1 DEF ClaimNext
    <3>2. QP!ClaimNext(w, j)
      BY <3>1 DEF Q!ClaimNext, QP!ClaimNext, Q!Claimable, QP!Claimable, Q!NoLease, QP!NoLease
    <3> QED BY <3>2 DEF QP!Next
  <2>2. CASE CompleteJob(w) \/ FailJob(w)
    <3>1. QP!CompleteJob(w) \/ QP!FailJob(w)
      BY <2>2 DEF CompleteJob, FailJob, Q!CompleteJob, QP!CompleteJob, Q!FailJob, QP!FailJob,
         Q!Release, QP!Release, Q!Holds, QP!Holds, Q!LastAttempt, QP!LastAttempt,
         Q!NoLease, QP!NoLease, Q!NoName, QP!NoName
    <3> QED BY <3>1 DEF QP!Next
  <2>3. CASE EscalateRead(w) \/ EscalateMove(w)
    BY <2>3 DEF EscalateRead, EscalateMove, Transition
  <2> QED BY <1>3, <2>1, <2>2, <2>3 DEF Loop, LoopStep
<1>4. ASSUME NEW w \in Workers, Broken(w) PROVE [QP!Next]_(QP!vars)
  <2>1. CASE StepFails(w)
    BY <2>1 DEF StepFails
  <2>2. CASE Crash(w) /\ lease[w] = Q!NoLease
    BY <2>2 DEF Crash, TypeOK, Q!TypeOK
  <2>3. CASE Crash(w) /\ lease[w] # Q!NoLease
    <3>1. QP!Crash(w)
      BY <2>3 DEF Crash, QP!Crash, Q!NoLease, QP!NoLease
    <3> QED BY <3>1 DEF QP!Next
  <2> QED BY <1>4, <2>1, <2>2, <2>3 DEF Broken, Fault
<1> QED BY <1>1, <1>2, <1>3, <1>4 DEF Next, WorkerStep, HandlerStep

Elsewhere(w) ==
  \A v \in Workers \ {w} :
    pc'[v] = pc[v] /\ work'[v] = work[v] /\ lease'[v] = lease[v]

ControlStep(w) == HandlerStep(w) \/ Loop(w) \/ Broken(w)

Moved(w, from, to) ==
  /\ pc[w] = from /\ pc'[w] = to
  /\ pc' \in [Workers -> Point]
  /\ work' \in [Workers -> Work]
  /\ Elsewhere(w)

\* A handler's step moves its own worker, which goes on with what it has seen.
LEMMA ReadMoves ==
  ASSUME TypeOK, NEW w \in Workers, NEW from, NEW to \in Point, NEW seen \in Work,
         Read(w, from, to, seen), \A v \in Workers \ {w} : lease'[v] = lease[v]
  PROVE  /\ Moved(w, from, to)
         /\ to \notin Ends => work'[w] = seen
<1>1. Blank \in Work
  BY DEF Blank, Work, IncidentState
<1> QED BY <1>1 DEF TypeOK, Read, Moved, Elsewhere

\* The same of a step that keeps what was read before.
LEMMA GotoMoves ==
  ASSUME TypeOK, NEW w \in Workers, NEW from, NEW to \in Point,
         Goto(w, from, to), \A v \in Workers \ {w} : lease'[v] = lease[v]
  PROVE  /\ Moved(w, from, to)
         /\ to \notin Ends => work'[w] = work[w]
<1>1. work[w] \in Work
  BY DEF TypeOK
<1> QED BY <1>1, ReadMoves DEF Goto

HandlerPoints == {PreparePoints, ReviewPoints, ProductionPoints, WatchPoints}

\* A worker stays in its handler, or leaves it, with its lease.
Stays(w, points) ==
  /\ Moved(w, pc[w], pc'[w])
  /\ pc[w] \in points /\ pc'[w] \in points \union {"ok", "err"}
  /\ lease' = lease

\* A worker that stays in its handler still holds the lease of the job it runs.
LEMMA StaysAgrees ==
  ASSUME Basic, NEW w \in Workers, NEW points \in HandlerPoints, Stays(w, points),
         pc'[w] = "revert.record" => work'[w].revert \in Revert
  PROVE  Agrees(w)'
<1>1. Agrees(w)
  BY DEF Basic, Agreement
<1> QED BY <1>1 DEF Agrees, Stays, HandlerPoints, PreparePoints, ReviewPoints,
      ProductionPoints, WatchPoints, Running, KindOf

\* Every handler's step stays in it.
LEMMA HandlerBasic ==
  ASSUME Basic, NEW w \in Workers, HandlerStep(w)
  PROVE  \E points \in HandlerPoints : Stays(w, points)
<1>p. /\ \A points \in HandlerPoints : points \union {"ok", "err"} \subseteq Point
      /\ {PreparePoints, ReviewPoints, ProductionPoints, WatchPoints} \subseteq HandlerPoints
  BY DEF HandlerPoints, PreparePoints, ReviewPoints, ProductionPoints, WatchPoints, Point,
     Kind, Ends
<1>g. ASSUME NEW points \in HandlerPoints, NEW from \in points,
             NEW to \in points \union {"ok", "err"},
             Goto(w, from, to), lease' = lease
      PROVE  Stays(w, points)
  BY <1>g, <1>p, GotoMoves DEF Basic, Moved, Stays
<1>c. ASSUME NEW points \in HandlerPoints, NEW from \in points,
             NEW to \in points \union {"ok", "err"},
             Choose(w, from, to)
      PROVE  Stays(w, points)
  BY <1>c, <1>g DEF Choose
<1>e. ASSUME NEW points \in HandlerPoints, NEW from \in points,
             NEW to \in points \union {"ok", "err"},
             NEW j, EnqueueStep(w, from, j, to)
      PROVE  Stays(w, points)
  BY <1>e, <1>g DEF EnqueueStep
<1>1. CASE ReadWork(w)
  <2>1. pc[w] \in Kind /\ Choose(w, pc[w], Entry(w))
    BY <1>1 DEF ReadWork
  <2>2. CASE pc[w] = "verify-rollback"
    BY <2>1, <2>2, <1>p, <1>c DEF Entry, RollbackEntry, PreparePoints
  <2>3. CASE pc[w] = "review"
    BY <2>1, <2>3, <1>p, <1>c DEF Entry, ReviewEntry, ReviewPoints
  <2>4. CASE pc[w] = "production"
    BY <2>1, <2>4, <1>p, <1>c DEF Entry, ProductionEntry, ProductionPoints
  <2>5. CASE pc[w] = "watch"
    BY <2>1, <2>5, <1>p, <1>c DEF Entry, WatchEntry, WatchPoints
  <2> QED BY <2>1, <2>2, <2>3, <2>4, <2>5 DEF Kind
<1>2. CASE Prepare(w)
  <2>p. \A to \in {"revert.search", "revert.create", "revert.record", "revert.review",
                    "revert.move"} : to \in PreparePoints
    BY DEF PreparePoints
  <2>r. ASSUME NEW from \in PreparePoints, NEW to \in PreparePoints,
               NEW n \in Revert \union {0},
               Read(w, from, to, [Blank EXCEPT !.revert = n]), lease' = lease
        PROVE  Stays(w, PreparePoints)
    <3>1. [Blank EXCEPT !.revert = n] \in Work
      BY DEF Blank, Work, IncidentState
    <3> QED BY <2>r, <3>1, <1>p, ReadMoves DEF Stays, Moved, Basic
  <2>1. CASE SearchRevert(w)
    BY <2>1, <2>p, <2>r, <1>c, <1>p DEF SearchRevert, Basic, TypeOK
  <2>2. CASE CreateRevert(w)
    <3>1. CASE Choose(w, "revert.create", "revert.move")
      BY <3>1, <2>p, <1>c, <1>p
    <3>2. CASE opened < MaxReverts /\ opened' = opened + 1 /\ lease' = lease
             /\ \E to \in {"revert.record", "revert.move"} :
                    Read(w, "revert.create", to, [Blank EXCEPT !.revert = opened'])
      <4>1. opened' \in Revert
        BY <3>2, SourceRecoveryAssumption DEF Basic, TypeOK, Revert
      <4>2. Stays(w, PreparePoints)
        BY <3>2, <4>1, <2>p, <2>r
      <4> QED BY <4>2, <1>p
    <3> QED BY <2>2, <3>1, <3>2 DEF CreateRevert
  <2>3. CASE RecordRevert(w)
    BY <2>3, <2>p, <1>c, <1>p DEF RecordRevert
  <2>4. CASE EnqueueReview(w)
    BY <2>4, <2>p, <1>e, <1>p DEF EnqueueReview
  <2>5. CASE AwaitReview(w)
    <3>1. Running(w)
      BY <2>5 DEF AwaitReview, Transition, Goto, Read, Basic, Agreement, Agrees, PreparePoints
    <3>2. (Goto(w, "revert.move", "ok") \/ Goto(w, "revert.move", "err")) /\ lease' = lease
      BY <2>5, <3>1 DEF AwaitReview, Transition, Fail
    <3> QED BY <3>2, <2>p, <1>g, <1>p
  <2> QED BY <1>2, <2>1, <2>2, <2>3, <2>4, <2>5, <1>p DEF Prepare
<1>3. CASE Review(w)
  <2>p. \A to \in {"review.status", "review.next", "review.merged"} : to \in ReviewPoints
    BY DEF ReviewPoints
  <2>1. CASE ReviewStatus(w)
    BY <2>1, <2>p, <1>c, <1>p DEF ReviewStatus
  <2>2. CASE EnqueueNext(w, "review.next") \/ EnqueueProduction(w)
    BY <2>2, <2>p, <1>e, <1>p DEF EnqueueNext, EnqueueProduction
  <2> QED BY <1>3, <2>1, <2>2, <1>p DEF Review
<1>4. CASE Production(w)
  <2>p. \A to \in {"production.find", "production.next", "production.save",
                    "production.watch"} : to \in ProductionPoints
    BY DEF ProductionPoints
  <2>1. CASE FindRecovered(w) \/ SaveRecovered(w)
    BY <2>1, <2>p, <1>c, <1>p DEF FindRecovered, SaveRecovered
  <2>2. CASE EnqueueNext(w, "production.next") \/ EnqueueWatch(w)
    BY <2>2, <2>p, <1>e, <1>p DEF EnqueueNext, EnqueueWatch
  <2> QED BY <1>4, <2>1, <2>2, <1>p DEF Production
<1>5. CASE Watch(w)
  <2>p. \A to \in {"watch.check", "watch.next", "watch.head", "watch.mark", "watch.resolve"} :
           to \in WatchPoints
    BY DEF WatchPoints
  <2>1. CASE WatchRecovered(w) \/ CheckHead(w) \/ MarkRecovered(w)
    BY <2>1, <2>p, <1>c, <1>p DEF WatchRecovered, CheckHead, MarkRecovered
  <2>2. CASE EnqueueNext(w, "watch.next")
    BY <2>2, <2>p, <1>e, <1>p DEF EnqueueNext
  <2>3. CASE ResolveRecovered(w)
    BY <2>3, <2>p, <1>g, <1>p DEF ResolveRecovered
  <2> QED BY <1>5, <2>1, <2>2, <2>3, <1>p DEF Watch
<1> QED BY <1>1, <1>2, <1>3, <1>4, <1>5 DEF HandlerStep

\* The loop's steps, a failed call and a crash leave the worker agreeing with its
\* lease.
LEMMA LoopBasic ==
  ASSUME Basic, NEW w \in Workers, Loop(w) \/ Broken(w)
  PROVE  /\ Moved(w, pc[w], pc'[w])
         /\ Agrees(w)'
<1>0. Agrees(w) /\ lease \in [Workers -> [job : Jobs, attempt : Nat] \union {Q!NoLease}]
      /\ pc \in [Workers -> Point]
  BY DEF Basic, Agreement, TypeOK, Q!TypeOK
<1>p. Kind \union {"idle", "ok", "err", "escalate", "escalate.move"} \subseteq Point
  BY DEF Point, Ends
<1>g. ASSUME NEW to \in Point, Goto(w, pc[w], to),
             \A v \in Workers \ {w} : lease'[v] = lease[v]
      PROVE  Moved(w, pc[w], pc'[w]) /\ pc'[w] = to
  BY <1>g, GotoMoves DEF Moved, Basic
<1> USE DEF Agrees, PreparePoints, ReviewPoints, ProductionPoints, WatchPoints, Running, KindOf
<1>1. CASE ClaimNext(w)
  <2>1. PICK j \in Jobs : Q!ClaimNext(w, j) /\ Goto(w, "idle", j[1])
    BY <1>1 DEF ClaimNext
  <2>2. j[1] \in Kind /\ pc[w] = "idle"
    BY <2>1, JobsOf DEF Goto, Read
  <2>3. lease' = [lease EXCEPT ![w] = [job |-> j, attempt |-> job[j].attempt + 1]]
    BY <2>1 DEF Q!ClaimNext
  <2>4. lease'[w] = [job |-> j, attempt |-> job[j].attempt + 1]
        /\ \A v \in Workers \ {w} : lease'[v] = lease[v]
    BY <2>3, <1>0
  <2>5. lease'[w] # Q!NoLease
    BY <2>4 DEF Q!NoLease
  <2>6. Moved(w, pc[w], pc'[w]) /\ pc'[w] = j[1]
    BY <2>1, <2>2, <2>4, <1>g, <1>p
  <2> QED BY <2>2, <2>4, <2>5, <2>6 DEF Kind
<1>2. CASE CompleteJob(w) \/ FailJob(w) \/ Crash(w)
  <2>1. lease' = [lease EXCEPT ![w] = Q!NoLease]
    BY <1>2 DEF CompleteJob, FailJob, Crash, Q!CompleteJob, Q!FailJob, Q!Release
  <2>2. \E to \in {"idle", "escalate"} : Goto(w, pc[w], to)
    BY <1>2 DEF CompleteJob, FailJob, Crash, Goto, Read
  <2> QED BY <2>1, <2>2, <1>0, <1>g, <1>p
<1>3. CASE EscalateRead(w)
  <2>1. [Blank EXCEPT !.state = incident] \in Work
    BY DEF Basic, TypeOK, Blank, Work
  <2>2. \E to \in {"ok", "idle", "escalate.move"} :
          /\ Read(w, "escalate", to, [Blank EXCEPT !.state = incident])
          /\ to = "ok" => Running(w)
          /\ to = "idle" => ~Running(w)
    BY <1>3 DEF EscalateRead, Return
  <2>3. lease' = lease
    BY <1>3 DEF EscalateRead
  <2> QED BY <2>1, <2>2, <2>3, <1>p, ReadMoves DEF Moved, Basic
<1>4. CASE EscalateMove(w)
  <2>1. \E to \in {"ok", "idle", "err"} :
          /\ Goto(w, "escalate.move", to)
          /\ to \in {"ok", "err"} => Running(w)
          /\ to = "idle" => ~Running(w)
    BY <1>4 DEF EscalateMove, Transition, Return, Fail
  <2>2. lease' = lease
    BY <1>4 DEF EscalateMove, Transition
  <2> QED BY <2>1, <2>2, <1>p, GotoMoves DEF Moved, Basic
<1>5. CASE StepFails(w)
  BY <1>5, <1>p, <1>g DEF StepFails
<1> QED BY <1>1, <1>2, <1>3, <1>4, <1>5 DEF Loop, LoopStep, Broken, Fault

\* Where the handlers' steps lead.
Goes(w, from, points) == pc[w] = from /\ pc'[w] \in points

\* Where the steps of prepare_draft_source_revert lead.
LEMMA PrepareFlow ==
  ASSUME TypeOK, NEW w \in Workers
  PROVE  /\ SearchRevert(w) =>
              Goes(w, "revert.search", {"revert.create", "revert.review", "revert.move"})
         /\ CreateRevert(w)  => Goes(w, "revert.create", {"revert.record", "revert.move"})
         /\ RecordRevert(w)  => Goes(w, "revert.record", {"revert.review"})
         /\ EnqueueReview(w) => Goes(w, "revert.review", {"revert.move"})
         /\ AwaitReview(w)   => Goes(w, "revert.move", {"ok", "err", "idle"})
  BY DEF TypeOK, Goes, SearchRevert, CreateRevert, RecordRevert, EnqueueReview, AwaitReview,
     EnqueueStep, Transition, Choose, Goto, Read, Fail

\* Where the steps of verify_source_revert_review lead.
LEMMA ReviewFlow ==
  ASSUME TypeOK, NEW w \in Workers
  PROVE  /\ ReviewStatus(w) => Goes(w, "review.status", {"review.merged", "review.next", "ok"})
         /\ EnqueueNext(w, "review.next") => Goes(w, "review.next", {"ok"})
         /\ EnqueueProduction(w) => Goes(w, "review.merged", {"ok"})
  BY DEF TypeOK, Goes, ReviewStatus, EnqueueNext, EnqueueProduction, EnqueueStep, Choose, Goto,
     Read

\* Where the steps of verify_source_recovery_production lead.
LEMMA ProductionFlow ==
  ASSUME TypeOK, NEW w \in Workers
  PROVE  /\ FindRecovered(w) =>
              Goes(w, "production.find", {"production.save", "production.next", "ok"})
         /\ EnqueueNext(w, "production.next") => Goes(w, "production.next", {"ok"})
         /\ SaveRecovered(w) => Goes(w, "production.save", {"production.watch", "ok"})
         /\ EnqueueWatch(w) => Goes(w, "production.watch", {"ok"})
  BY DEF TypeOK, Goes, FindRecovered, EnqueueNext, SaveRecovered, EnqueueWatch, EnqueueStep,
     Choose, Goto, Read

\* Where the steps of watch_source_recovery_production lead.
LEMMA WatchFlow ==
  ASSUME TypeOK, NEW w \in Workers
  PROVE  /\ WatchRecovered(w) => Goes(w, "watch.check", {"watch.next", "watch.head", "ok"})
         /\ EnqueueNext(w, "watch.next") => Goes(w, "watch.next", {"ok"})
         /\ CheckHead(w) => Goes(w, "watch.head", {"watch.mark", "ok"})
         /\ MarkRecovered(w) => Goes(w, "watch.mark", {"watch.resolve"})
         /\ ResolveRecovered(w) => Goes(w, "watch.resolve", {"ok"})
  BY DEF TypeOK, Goes, WatchRecovered, EnqueueNext, CheckHead, MarkRecovered,
     ResolveRecovered, EnqueueStep, Choose, Goto, Read

Entries ==
  {"revert.search", "review.status", "review.next", "production.find", "watch.check", "ok"}

\* Where a handler begins when it has read the incident, and that a review is only
\* asked for of a revert NoPager is on record to have created.
LEMMA ReadFlow ==
  ASSUME TypeOK, NEW w \in Workers, ReadWork(w)
  PROVE  /\ pc[w] \in Kind /\ pc'[w] \in Entries
         /\ pc'[w] = "review.status" => Subject(w) \in attested
  BY DEF TypeOK, ReadWork, Choose, Goto, Read, Entry, RollbackEntry, ReviewEntry,
     ProductionEntry, WatchEntry, Kind, Entries

\* The loop, a failed call and a crash lead into no handler but at its start.
LEMMA LoopFlow ==
  ASSUME Basic, NEW w \in Workers, Loop(w) \/ Broken(w)
  PROVE  pc'[w] \in Kind \union Ends \union {"escalate.move"}
<1> USE DEF Goto, Read
<1>0. pc \in [Workers -> Point]
  BY DEF Basic, TypeOK
<1>1. CASE ClaimNext(w)
  BY <1>0, <1>1, JobsOf DEF ClaimNext
<1>2. CASE CompleteJob(w) \/ FailJob(w) \/ EscalateRead(w)
  BY <1>0, <1>2 DEF CompleteJob, FailJob, EscalateRead, Return, Ends
<1>3. CASE EscalateMove(w)
  BY <1>0, <1>3 DEF EscalateMove, Transition, Return, Fail, Ends
<1>4. CASE Broken(w)
  BY <1>0, <1>4 DEF Broken, Fault, StepFails, Crash, Ends
<1> QED BY <1>1, <1>2, <1>3, <1>4 DEF Loop, LoopStep

\* By which action a worker came to the points that matter.
LEMMA CameFrom ==
  ASSUME Basic, NEW w \in Workers, ControlStep(w)
  PROVE  /\ pc'[w] = "revert.create" => SearchRevert(w) /\ pc[w] = "revert.search"
         /\ pc'[w] = "revert.record" => CreateRevert(w) /\ pc[w] = "revert.create"
         /\ pc'[w] = "review.status" => ReadWork(w) /\ Subject(w) \in attested
         /\ pc'[w] = "review.merged" => ReviewStatus(w) /\ pc[w] = "review.status"
         /\ pc'[w] \in {"watch.next", "watch.head"} =>
              WatchRecovered(w) /\ pc[w] = "watch.check"
         /\ pc'[w] = "watch.mark" => CheckHead(w) /\ pc[w] = "watch.head"
         /\ pc'[w] = "watch.resolve" => MarkRecovered(w) /\ pc[w] = "watch.mark"
<1>0. TypeOK
  BY DEF Basic
<1>1. CASE Loop(w) \/ Broken(w)
  BY <1>1, LoopFlow DEF Kind, Ends
<1>2. CASE ReadWork(w)
  BY <1>0, <1>2, ReadFlow DEF Entries
<1>3. CASE Prepare(w)
  BY <1>0, <1>3, PrepareFlow DEF Prepare, Goes
<1>4. CASE Review(w)
  BY <1>0, <1>4, ReviewFlow DEF Review, Goes
<1>5. CASE Production(w)
  BY <1>0, <1>5, ProductionFlow DEF Production, Goes
<1>6. CASE Watch(w)
  BY <1>0, <1>6, WatchFlow DEF Watch, Goes
<1> QED BY <1>1, <1>2, <1>3, <1>4, <1>5, <1>6 DEF ControlStep, HandlerStep

\* A worker that has created a revert knows its number.
LEMMA Created ==
  ASSUME Basic, NEW w \in Workers, CreateRevert(w), pc'[w] = "revert.record"
  PROVE  work'[w].revert \in Revert
<1>1. PICK to \in {"revert.record", "revert.move"} :
        Read(w, "revert.create", to, [Blank EXCEPT !.revert = opened'])
  BY DEF CreateRevert, Choose, Goto, Read, Basic, TypeOK
<1>2. opened' \in Revert
  BY SourceRecoveryAssumption DEF CreateRevert, Choose, Goto, Read, Basic, TypeOK, Revert
<1>3. work'[w] = [Blank EXCEPT !.revert = opened']
  BY <1>1 DEF Read, Ends, Basic, TypeOK
<1> QED BY <1>2, <1>3 DEF Blank

\* Every step keeps the workers agreeing with their leases.
LEMMA AgreementKept ==
  ASSUME Basic, [Next]_vars
  PROVE  Agreement' /\ pc' \in [Workers -> Point] /\ work' \in [Workers -> Work]
<1>1. ASSUME NEW w \in Workers, ControlStep(w)
      PROVE  Agreement' /\ pc' \in [Workers -> Point] /\ work' \in [Workers -> Work]
  <2>1. Agrees(w)' /\ Moved(w, pc[w], pc'[w])
    <3>1. CASE HandlerStep(w)
      <4>1. pc'[w] = "revert.record" => work'[w].revert \in Revert
        BY <1>1, CameFrom, Created
      <4> QED BY <3>1, <4>1, HandlerBasic, StaysAgrees DEF Stays
    <3> QED BY <1>1, <3>1, LoopBasic DEF ControlStep
  <2>2. \A v \in Workers \ {w} : Agrees(v)'
    BY <2>1 DEF Moved, Elsewhere, Basic, Agreement, Agrees, Running, KindOf
  <2> QED BY <2>1, <2>2 DEF Agreement, Moved
<1>2. CASE UNCHANGED <<lease, pc, work>>
  BY <1>2 DEF Basic, TypeOK, Agreement, Agrees, Running, KindOf
<1>3. CASE Outside \/ UNCHANGED vars
  BY <1>2, <1>3 DEF Outside, HumanMerges, RevertDrifts, BranchAdvances, TargetChanges, vars,
     handlerVars
<1> QED BY <1>1, <1>3 DEF Next, WorkerStep, ControlStep, HandlerStep

\* A job that is run is a job that was enqueued, for a revert and a poll.
LEMMA Numbers ==
  ASSUME Basic, NEW w \in Workers, Running(w)
  PROVE  /\ lease[w].job \in Jobs /\ lease[w].job = <<KindOf(w), <<Poll(w), Subject(w)>>>>
         /\ Number(w) = <<Poll(w), Subject(w)>>
         /\ Enqueued(lease[w].job)
         /\ KindOf(w) # "verify-rollback" => Poll(w) \in Nat /\ Subject(w) \in Revert
         /\ KindOf(w) = "watch" => Poll(w) \in Checks
<1>1. lease[w].job \in Jobs /\ job[lease[w].job].status = "RUNNING"
  BY DEF Basic, Running, QP!IInv, QP!TypeOK, QP!LeaseIsKept, QP!Live, QP!Holds, QP!NoLease,
     Q!NoLease
<1> QED BY <1>1, JobsOf DEF Enqueued, KindOf, Number, Poll, Subject

\* Every step keeps the rest of the state typed.
LEMMA DataTypes ==
  ASSUME Basic, [Next]_vars
  PROVE  /\ incident' \in IncidentState
         /\ ({attested, merged, drifted, aligned} \subseteq SUBSET Revert)'
         /\ ({knownGood, opened, head, current} \subseteq Revert \union {0})'
         /\ serves' \in 0..MaxServes
         /\ watched' \subseteq Checks \X Revert
<1> USE DEF TypeOK
<1>0. TypeOK
  BY DEF Basic
<1>1. CASE Outside \/ UNCHANGED vars
  <2>1. 1..opened \subseteq Revert
    BY <1>0, SourceRecoveryAssumption DEF Revert
  <2>2. serves < MaxServes => serves + 1 \in 0..MaxServes
    BY <1>0, SourceRecoveryAssumption
  <2> QED BY <1>0, <1>1, <2>1, <2>2 DEF Outside, HumanMerges, RevertDrifts, BranchAdvances,
         TargetChanges, vars, handlerVars, vercelVars, githubVars, ghostVars
<1>2. ASSUME NEW w \in Workers, Loop(w) \/ Broken(w) PROVE
         incident' \in IncidentState /\ Plainly
  BY <1>0, <1>2 DEF Loop, Broken, LoopStep, Fault, ClaimNext, CompleteJob, FailJob,
     EscalateRead,
     EscalateMove, Transition, StepFails, Crash, IncidentState
<1>3. ASSUME NEW w \in Workers, ReadWork(w) \/ Review(w) \/ Production(w)
      PROVE  incident' = incident /\ Plainly
  BY <1>3 DEF ReadWork, Review, Production, ReviewStatus, EnqueueNext, EnqueueProduction,
     FindRecovered, SaveRecovered, EnqueueWatch, EnqueueStep, Choose
<1>4. ASSUME NEW w \in Workers, Prepare(w)
      PROVE  /\ incident' \in IncidentState
             /\ attested' \subseteq Revert /\ opened' \in Revert \union {0}
             /\ UNCHANGED <<knownGood, merged, drifted, head, vercelVars, ghostVars>>
  <2>1. CASE SearchRevert(w) \/ EnqueueReview(w)
    BY <1>0, <2>1 DEF SearchRevert, EnqueueReview, Choose, Read, EnqueueStep, Plainly,
       githubVars
  <2>2. CASE CreateRevert(w)
    BY <1>0, <2>2, SourceRecoveryAssumption DEF CreateRevert, Choose, Revert
  <2>3. CASE RecordRevert(w)
    BY <1>0, <2>3 DEF RecordRevert, Choose, Goto, Read, Basic, Agreement, Agrees, githubVars
  <2>4. CASE AwaitReview(w)
    BY <1>0, <2>4 DEF AwaitReview, Transition, Plainly, githubVars, IncidentState
  <2> QED BY <1>4, <2>1, <2>2, <2>3, <2>4 DEF Prepare
<1>5. ASSUME NEW w \in Workers, Watch(w)
      PROVE  /\ incident' \in IncidentState
             /\ knownGood' \in Revert \union {0}
             /\ watched' \subseteq Checks \X Revert /\ aligned' \subseteq Revert
             /\ UNCHANGED <<attested, githubVars, vercelVars>>
  <2>1. pc[w] \in WatchPoints
    BY <1>0, <1>5, WatchFlow DEF Watch, Goes, WatchPoints
  <2>2. Subject(w) \in Revert /\ Number(w) \in Checks \X Revert
    BY <2>1, Numbers DEF Basic, Agreement, Agrees
  <2>3. CASE WatchRecovered(w) \/ CheckHead(w) \/ EnqueueNext(w, "watch.next")
    BY <1>0, <2>2, <2>3 DEF WatchRecovered, CheckHead, EnqueueNext, EnqueueStep, Choose,
       Plainly,
       ghostVars
  <2>4. CASE MarkRecovered(w) \/ ResolveRecovered(w)
    BY <1>0, <2>2, <2>4 DEF MarkRecovered, ResolveRecovered, Choose, Plainly, ghostVars,
       IncidentState
  <2> QED BY <1>5, <2>3, <2>4 DEF Watch
<1> QED BY <1>0, <1>1, <1>2, <1>3, <1>4, <1>5 DEF Next, WorkerStep, Plainly, githubVars,
   vercelVars,
        ghostVars

\* Basic is inductive by itself.
LEMMA BasicKept ==
  ASSUME Basic, [Next]_vars
  PROVE  Basic'
<1>1. QP!IInv'
  BY QueueStep, QP!NextKeeps, JobAttempts DEF Basic
<1>2. Q!TypeOK'
  <2>1. QP!TypeOK'
    BY <1>1 DEF QP!IInv
  <2> QED BY <2>1, QueueTypes, PTL
<1> QED BY <1>1, <1>2, DataTypes, AgreementKept DEF Basic, TypeOK

\* Basic holds of the initial states.
LEMMA BasicInit == Init => Basic
<1> SUFFICES ASSUME Init PROVE Basic
  OBVIOUS
<1>2. QP!IInv
  <2>1. job \in [Jobs -> [status : QP!Status, attempt : Nat, by : QP!Names]]
    BY DEF Init, Q!Absent, QP!Status, QP!Names, Q!NoName, QP!NoName
  <2>2. \A j \in Jobs : job[j].attempt = 0 /\ MaxAttempts[j] \in Nat \ {0}
    BY JobAttempts DEF Init, Q!Absent, QP!AttemptsAssumption
  <2>3. \A w \in Workers : lease[w] = QP!NoLease
    BY DEF Init, Q!NoLease, QP!NoLease
  <2>4. lease \in [Workers -> [job : Jobs, attempt : Nat] \union {QP!NoLease}]
    BY DEF Init, Q!NoLease, QP!NoLease
  <2> QED BY <2>1, <2>2, <2>3, <2>4 DEF QP!IInv, QP!TypeOK, QP!OneRunner, QP!LeaseIsKept,
         QP!AttemptsBounded, QP!AttemptLeft, QP!Live
<1>3. Q!TypeOK
  BY <1>2, QueueTypes DEF QP!IInv
<1>4. TypeOK
  BY <1>3, SourceRecoveryAssumption DEF Init, TypeOK, Point, Ends, Work, Blank, IncidentState
<1>5. Agreement
  BY DEF Init, Agreement, Agrees, Running, PreparePoints, ReviewPoints, ProductionPoints,
     WatchPoints
<1> QED BY <1>2, <1>4, <1>5 DEF Basic

\* In every reachable state the state is typed, the queue's invariant holds and every
\* worker inside a handler holds a lease of its kind.
THEOREM RecoveryBasic == Spec => []Basic
  BY BasicInit, BasicKept, PTL DEF Spec

\* The type invariant.
THEOREM RecoveryTypeOK == Spec => []TypeOK
<1>1. Basic => TypeOK
  BY DEF Basic
<1> QED BY <1>1, RecoveryBasic, PTL

\* A step of one worker leaves the others where they are.
LEMMA MovesAlone ==
  ASSUME Basic, [Next]_vars, NEW w \in Workers,
         pc'[w] # pc[w] \/ lease'[w] # lease[w]
  PROVE  ControlStep(w)
<1>1. ASSUME NEW v \in Workers, ControlStep(v) PROVE Elsewhere(v)
  BY <1>1, HandlerBasic, LoopBasic DEF ControlStep, Stays, Moved
<1>2. \E v \in Workers : ControlStep(v)
  BY DEF Next, Outside, HumanMerges, RevertDrifts, BranchAdvances, TargetChanges, vars,
     handlerVars, WorkerStep, ControlStep, HandlerStep
<1> QED BY <1>1, <1>2 DEF Elsewhere

-------------------------------------------------------------------------------
(* One revert.                                                             *)

\* No revert has been opened when one is about to be created.
Once ==
  /\ opened <= 1
  /\ \A w \in Workers : pc[w] = "revert.create" => opened = 0

\* One worker at a time prepares the revert.
LEMMA OnePreparer ==
  ASSUME Basic, NEW v \in Workers, NEW w \in Workers, pc[v] \in PreparePoints,
         pc[w] \in PreparePoints
  PROVE  v = w
<1>1. /\ Running(v) /\ KindOf(v) = "verify-rollback"
      /\ Running(w) /\ KindOf(w) = "verify-rollback"
  BY DEF Basic, Agreement, Agrees
<1>2. lease[v].job = lease[w].job
  BY <1>1, Numbers, JobsOf DEF KindOf
<1> QED BY <1>1, <1>2 DEF Basic, QP!IInv, QP!OneRunner, QP!Live, Running, QP!NoLease, Q!NoLease

\* Only CreateRevert opens a revert, and is then done.
LEMMA OpenedBy ==
  ASSUME Basic, [Next]_vars, opened' # opened
  PROVE  \E w \in Workers : /\ CreateRevert(w) /\ opened' = opened + 1
                            /\ pc[w] = "revert.create" /\ pc'[w] # "revert.create"
<1>1. ASSUME NEW w \in Workers, ControlStep(w) PROVE CreateRevert(w)
  BY <1>1 DEF ControlStep, HandlerStep, Loop, Broken, ReadWork, Prepare, Review, Production,
     Watch, SearchRevert, RecordRevert, EnqueueReview, AwaitReview, ReviewStatus, EnqueueNext,
     EnqueueProduction, FindRecovered, SaveRecovered, EnqueueWatch, WatchRecovered, CheckHead,
     MarkRecovered, ResolveRecovered, Plainly, githubVars
<1>2. \E w \in Workers : ControlStep(w)
  BY DEF Next, Outside, HumanMerges, RevertDrifts, BranchAdvances, TargetChanges, vars,
     githubVars, WorkerStep, ControlStep, HandlerStep
<1>3. PICK w \in Workers : CreateRevert(w)
  BY <1>1, <1>2
<1>4. opened' = opened + 1
  BY <1>3 DEF CreateRevert
<1> QED BY <1>3, <1>4, PrepareFlow DEF Basic, Goes

\* Every step keeps Once.
LEMMA OnceKept ==
  ASSUME Basic, Basic', Once, [Next]_vars
  PROVE  Once'
<1>1. opened' <= 1
  BY OpenedBy DEF Once, Basic, TypeOK, Revert
<1>2. ASSUME NEW w \in Workers, pc'[w] = "revert.create" PROVE opened' = 0
  <2>1. CASE pc'[w] = pc[w]
    <3>1. opened' = opened
      <4> SUFFICES ASSUME opened' # opened PROVE FALSE
        OBVIOUS
      <4>1. PICK v \in Workers : pc[v] = "revert.create" /\ pc'[v] # "revert.create"
        BY OpenedBy
      <4> QED BY <1>2, <2>1, <4>1, OnePreparer DEF PreparePoints
    <3> QED BY <1>2, <2>1, <3>1 DEF Once
  <2>2. CASE pc'[w] # pc[w]
    <3>1. ControlStep(w)
      BY <2>2, MovesAlone
    <3>2. SearchRevert(w) /\ pc[w] = "revert.search"
      BY <1>2, <3>1, CameFrom
    <3>3. opened = 0
      BY <1>2, <3>2 DEF SearchRevert, Choose, Goto, Read, Basic, TypeOK
    <3> QED BY <3>2, <3>3 DEF SearchRevert, Plainly, githubVars
  <2> QED BY <2>1, <2>2
<1> QED BY <1>1, <1>2 DEF Once

\* However often the preparation fails, is retried, or its answers are lost, at most
\* one revert of the repair is opened (open_revert_pull_request_once).
THEOREM RecoveryRevertedOnce == Spec => []RevertedOnce
<1>1. Init => Once
  BY DEF Init, Once
<1>2. Once => RevertedOnce
  BY DEF Once, RevertedOnce
<1>3. Basic /\ Basic' /\ Once /\ [Next]_vars => Once'
  BY OnceKept
<1> QED BY <1>1, <1>2, <1>3, RecoveryBasic, PTL DEF Spec

-------------------------------------------------------------------------------
(* What the closure rests on.                                              *)

\* A revert NoPager created, merged as it was created.
Sound(n) == n \in (attested \intersect merged) \ drifted

\* The production job of a revert, and its watch jobs, exist only of a sound one, and
\* a watch job only when the checks before it have passed.
RowFollows(j) ==
  /\ j[1] \in {"production", "watch"} => Sound(j[2][2])
  /\ j[1] = "watch" => \A c \in Checks : c < j[2][1] => <<c, j[2][2]>> \in watched

\* What a worker that came so far has seen.
StepFollows(w) ==
  LET n == Subject(w) IN
  /\ pc[w] = "review.status" => n \in attested
  /\ pc[w] = "review.merged" => Sound(n)
  /\ pc[w] = "watch.next" => Number(w) \in watched
  /\ pc[w] \in {"watch.head", "watch.mark", "watch.resolve"} => Checks \X {n} \subseteq watched
  /\ pc[w] \in {"watch.mark", "watch.resolve"} => n \in aligned

Follows ==
  /\ \A j \in Jobs : Enqueued(j) => RowFollows(j)
  /\ \A w \in Workers : StepFollows(w)
  /\ ClosedMeansRecovered

\* What the closure rests on only grows; a merged revert does not drift.
LEMMA Grows ==
  ASSUME Basic, [Next]_vars
  PROVE  /\ attested \subseteq attested' /\ merged \subseteq merged'
         /\ merged \intersect drifted' \subseteq drifted
         /\ watched \subseteq watched' /\ aligned \subseteq aligned'
<1>1. ASSUME NEW w \in Workers, ControlStep(w)
      PROVE  /\ attested \subseteq attested' /\ UNCHANGED <<merged, drifted>>
             /\ watched \subseteq watched' /\ aligned \subseteq aligned'
  BY <1>1 DEF ControlStep, HandlerStep, Loop, Broken, ReadWork, Prepare, Review, Production,
     Watch, SearchRevert, CreateRevert, RecordRevert, EnqueueReview, AwaitReview, ReviewStatus,
     EnqueueNext, EnqueueProduction, FindRecovered, SaveRecovered, EnqueueWatch,
     WatchRecovered,
     CheckHead, MarkRecovered, ResolveRecovered, Plainly, githubVars, ghostVars
<1>2. CASE Outside \/ UNCHANGED vars
  BY <1>2 DEF Outside, HumanMerges, RevertDrifts, BranchAdvances, TargetChanges, vars,
     githubVars,
     ghostVars
<1> QED BY <1>1, <1>2 DEF Next, WorkerStep, ControlStep, HandlerStep

\* Once sound, or recovered, a revert stays so.
LEMMA RecoveredStays ==
  ASSUME Basic, [Next]_vars, NEW n
  PROVE  /\ Sound(n) => Sound(n)'
         /\ Recovered(n) => Recovered(n)'
  BY Grows DEF Sound, Recovered

\* Who may have enqueued a job that is new.
LEMMA NewJobs ==
  ASSUME Basic, [Next]_vars, NEW j \in Jobs, ~Enqueued(j), Enqueued(j)'
  PROVE  \/ j[1] = "review"
         \/ \E w \in Workers :
              \/ pc[w] = "review.merged" /\ j = <<"production", <<0, Subject(w)>>>>
              \/ pc[w] = "production.next" /\ j = <<"production", <<Poll(w) + 1, Subject(w)>>>>
              \/ pc[w] = "production.watch" /\ j = <<"watch", <<0, Subject(w)>>>>
              \/ pc[w] = "watch.next" /\ j = <<"watch", <<Poll(w) + 1, Subject(w)>>>>
<1>a. job' # job
  BY DEF Enqueued
<1>e. ASSUME NEW w \in Workers, NEW from, NEW k, NEW to, EnqueueStep(w, from, k, to)
      PROVE  pc[w] = from /\ j = k
  BY <1>e DEF EnqueueStep, Goto, Read, Q!Enqueued, Q!EnqueuedRow, Enqueued
<1>1. ASSUME NEW w \in Workers, EnqueueReview(w) PROVE j[1] = "review"
  BY <1>1, <1>e DEF EnqueueReview
<1>2. ASSUME NEW w \in Workers, EnqueueNext(w, "review.next") PROVE j[1] = "review"
  BY <1>2, <1>e DEF EnqueueNext, Basic, Agreement, Agrees, ReviewPoints
<1>3. ASSUME NEW w \in Workers, EnqueueProduction(w)
      PROVE  pc[w] = "review.merged" /\ j = <<"production", <<0, Subject(w)>>>>
  BY <1>3, <1>e DEF EnqueueProduction
<1>4. ASSUME NEW w \in Workers, EnqueueNext(w, "production.next")
      PROVE  pc[w] = "production.next" /\ j = <<"production", <<Poll(w) + 1, Subject(w)>>>>
  BY <1>4, <1>e DEF EnqueueNext, Basic, Agreement, Agrees, ProductionPoints
<1>5. ASSUME NEW w \in Workers, EnqueueWatch(w)
      PROVE  pc[w] = "production.watch" /\ j = <<"watch", <<0, Subject(w)>>>>
  BY <1>5, <1>e DEF EnqueueWatch
<1>6. ASSUME NEW w \in Workers, EnqueueNext(w, "watch.next")
      PROVE  pc[w] = "watch.next" /\ j = <<"watch", <<Poll(w) + 1, Subject(w)>>>>
  BY <1>6, <1>e DEF EnqueueNext, Basic, Agreement, Agrees, WatchPoints
<1>7. ASSUME NEW w \in Workers, HandlerStep(w)
      PROVE  \/ EnqueueReview(w) \/ EnqueueNext(w, "review.next") \/ EnqueueProduction(w)
             \/ EnqueueNext(w, "production.next") \/ EnqueueWatch(w)
             \/ EnqueueNext(w, "watch.next")
  BY <1>7, <1>a DEF HandlerStep, ReadWork, Prepare, Review, Production,
     Watch, SearchRevert, CreateRevert, RecordRevert, AwaitReview, ReviewStatus,
     FindRecovered, SaveRecovered, WatchRecovered,
     CheckHead, MarkRecovered, ResolveRecovered, Choose, Transition
<1>8. ASSUME NEW w \in Workers, Loop(w) \/ Broken(w) PROVE FALSE
  <2>1. CASE ClaimNext(w)
    <3>1. PICK k \in Jobs : Q!ClaimNext(w, k)
      BY <2>1 DEF ClaimNext
    <3> QED BY <3>1 DEF Q!ClaimNext, Q!Claimable, Enqueued, Basic, TypeOK, Q!TypeOK
  <2>2. CASE CompleteJob(w) \/ FailJob(w)
    BY <2>2, Numbers DEF CompleteJob, FailJob, Q!CompleteJob, Q!FailJob, Q!Release, Enqueued,
       Basic, TypeOK, Q!TypeOK, Running
  <2>3. CASE EscalateRead(w) \/ EscalateMove(w) \/ Broken(w)
    BY <1>a, <2>3 DEF EscalateRead, EscalateMove, Transition, Broken, Fault, StepFails, Crash
  <2> QED BY <1>8, <2>1, <2>2, <2>3 DEF Loop, LoopStep
<1>9. \E w \in Workers : ControlStep(w)
  BY <1>a DEF Next, Outside, HumanMerges, RevertDrifts, BranchAdvances, TargetChanges, vars,
     handlerVars, WorkerStep, ControlStep, HandlerStep
<1> QED BY <1>1, <1>2, <1>3, <1>4, <1>5, <1>6, <1>7, <1>8, <1>9 DEF ControlStep

\* Every step keeps StepFollows.
LEMMA StepsFollow ==
  ASSUME Basic, Basic', Follows, [Next]_vars, NEW w \in Workers
  PROVE  StepFollows(w)'
<1>0. StepFollows(w)
  BY DEF Follows
<1>1. CASE pc'[w] = pc[w] /\ lease'[w] = lease[w]
  <2>1. Number(w)' = Number(w) /\ Subject(w)' = Subject(w)
    BY <1>1 DEF Number, Subject
  <2>2. Sound(Subject(w)) => Sound(Subject(w))'
    BY <2>1, Grows DEF Sound
  <2> QED BY <1>0, <1>1, <2>1, <2>2, Grows DEF StepFollows
<1>2. CASE ControlStep(w)
  <2>0. pc'[w] \in {"review.status", "review.merged", "watch.next", "watch.head", "watch.mark",
                    "watch.resolve"} =>
          Number(w)' = Number(w) /\ Subject(w)' = Subject(w)
    <3>1. HandlerStep(w) => lease' = lease
      BY HandlerBasic DEF Stays
    <3>2. Loop(w) \/ Broken(w) =>
            pc'[w] \notin {"review.status", "review.merged", "watch.next", "watch.head",
                           "watch.mark", "watch.resolve"}
      BY LoopFlow DEF Kind, Ends
    <3> QED BY <1>2, <3>1, <3>2 DEF ControlStep, Number, Subject
  <2>1. pc'[w] = "review.status" => Subject(w)' \in attested'
    BY <1>2, <2>0, CameFrom, Grows
  <2>2. ASSUME pc'[w] = "review.merged" PROVE Sound(Subject(w))'
    <3>1. ReviewStatus(w) /\ pc[w] = "review.status"
      BY <1>2, <2>2, CameFrom
    <3>2. Subject(w) \in merged \ drifted
      BY <2>2, <3>1 DEF ReviewStatus, Choose, Goto, Read, Basic, TypeOK
    <3>3. Sound(Subject(w))
      BY <1>0, <3>1, <3>2 DEF StepFollows, Sound
    <3> QED BY <2>0, <2>2, <3>3, Grows DEF Sound
  <2>3. ASSUME pc'[w] \in {"watch.next", "watch.head"} PROVE Number(w) \in watched'
    <3>1. WatchRecovered(w)
      BY <1>2, <2>3, CameFrom
    <3> QED BY <2>3, <3>1 DEF WatchRecovered, Choose, Goto, Read, Basic, TypeOK
  <2>4. ASSUME pc'[w] = "watch.head" PROVE Checks \X {Subject(w)} \subseteq watched'
    <3>1. WatchRecovered(w) /\ pc[w] = "watch.check"
      BY <1>2, <2>4, CameFrom
    <3>2. /\ lease[w].job = <<"watch", <<Poll(w), Subject(w)>>>> /\ lease[w].job \in Jobs
          /\ Number(w) = <<Poll(w), Subject(w)>> /\ Enqueued(lease[w].job) /\ Poll(w) \in Checks
      BY <3>1, Numbers DEF Basic, Agreement, Agrees, WatchPoints
    <3>3. Poll(w) = 2
      BY <2>4, <3>1, <3>2 DEF WatchRecovered, Choose, Goto, Read, Basic, TypeOK, Checks
    <3>4. \A c \in Checks : c < 2 => <<c, Subject(w)>> \in watched
      <4>1. RowFollows(lease[w].job)
        BY <3>2 DEF Follows
      <4> QED BY <3>2, <3>3, <4>1 DEF RowFollows
    <3>5. \A c \in Checks : <<c, Subject(w)>> \in watched'
      BY <2>3, <2>4, <3>2, <3>3, <3>4, Grows DEF Checks
    <3> QED BY <3>5
  <2>5. ASSUME pc'[w] = "watch.mark"
        PROVE  Checks \X {Subject(w)} \subseteq watched' /\ Subject(w) \in aligned'
    <3>1. CheckHead(w) /\ pc[w] = "watch.head"
      BY <1>2, <2>5, CameFrom
    <3>2. Subject(w) \in aligned'
      BY <2>5, <3>1 DEF CheckHead, Choose, Goto, Read, Basic, TypeOK
    <3> QED BY <1>0, <3>1, <3>2, Grows DEF StepFollows
  <2>6. ASSUME pc'[w] = "watch.resolve"
        PROVE  Checks \X {Subject(w)} \subseteq watched' /\ Subject(w) \in aligned'
    <3>1. pc[w] = "watch.mark"
      BY <1>2, <2>6, CameFrom
    <3> QED BY <1>0, <3>1, Grows DEF StepFollows
  <2> QED BY <2>0, <2>1, <2>2, <2>3, <2>4, <2>5, <2>6 DEF StepFollows
<1> QED BY <1>1, <1>2, MovesAlone

\* A worker in the production or the watch handler follows a sound revert.
LEMMA SoundSubject ==
  ASSUME Basic, Follows, NEW w \in Workers, pc[w] \in ProductionPoints \union WatchPoints
  PROVE  Sound(Subject(w))
<1>1. Running(w) /\ KindOf(w) \in {"production", "watch"}
  BY DEF Basic, Agreement, Agrees
<1>2. lease[w].job \in Jobs /\ Enqueued(lease[w].job)
      /\ lease[w].job = <<KindOf(w), <<Poll(w), Subject(w)>>>>
  BY <1>1, Numbers
<1>3. RowFollows(lease[w].job)
  BY <1>2 DEF Follows
<1> QED BY <1>1, <1>2, <1>3 DEF RowFollows

\* Every step keeps RowFollows.
LEMMA RowsFollow ==
  ASSUME Basic, Basic', Follows, [Next]_vars, NEW j \in Jobs, Enqueued(j)'
  PROVE  RowFollows(j)'
<1>1. CASE Enqueued(j)
  BY <1>1, RecoveredStays, Grows DEF Follows, RowFollows
<1>2. CASE ~Enqueued(j)
  <2>1. CASE j[1] = "review"
    BY <2>1 DEF RowFollows
  <2>2. ASSUME NEW w \in Workers,
               \/ pc[w] = "review.merged" /\ j = <<"production", <<0, Subject(w)>>>>
               \/ pc[w] = "production.next" /\ j = <<"production", <<Poll(w) + 1, Subject(w)>>>>
        PROVE  RowFollows(j)'
    <3>1. Sound(Subject(w))
      BY <2>2, SoundSubject DEF ProductionPoints, Follows, StepFollows
    <3> QED BY <2>2, <3>1, RecoveredStays DEF RowFollows
  <2>3. ASSUME NEW w \in Workers, pc[w] = "production.watch",
               j = <<"watch", <<0, Subject(w)>>>>
        PROVE  RowFollows(j)'
    <3>1. Sound(Subject(w))
      BY <2>3, SoundSubject DEF ProductionPoints
    <3>2. \A c \in Checks : ~(c < 0)
      BY DEF Checks
    <3> QED BY <2>3, <3>1, <3>2, RecoveredStays DEF RowFollows
  <2>4. ASSUME NEW w \in Workers, pc[w] = "watch.next",
               j = <<"watch", <<Poll(w) + 1, Subject(w)>>>>
        PROVE  RowFollows(j)'
    <3>1. Sound(Subject(w))
      BY <2>4, SoundSubject DEF WatchPoints
    <3>2. /\ lease[w].job = <<"watch", <<Poll(w), Subject(w)>>>> /\ lease[w].job \in Jobs
          /\ Number(w) = <<Poll(w), Subject(w)>> /\ Enqueued(lease[w].job) /\ Poll(w) \in Checks
      BY <2>4, Numbers DEF Basic, Agreement, Agrees, WatchPoints
    <3>3. RowFollows(lease[w].job) /\ Number(w) \in watched
      BY <2>4, <3>2 DEF Follows, StepFollows
    <3>4. \A c \in Checks : c < Poll(w) + 1 => <<c, Subject(w)>> \in watched
      BY <3>2, <3>3 DEF RowFollows, Checks
    <3> QED BY <2>4, <3>1, <3>4, RecoveredStays, Grows DEF RowFollows
  <2> QED BY <1>2, <2>1, <2>2, <2>3, <2>4, NewJobs
<1> QED BY <1>1, <1>2

\* Who closes the incident, and who marks a deployment known good.
LEMMA ClosedBy ==
  ASSUME Basic, [Next]_vars
  PROVE  /\ incident' = "Resolved" /\ incident # "Resolved" =>
              \E w \in Workers : pc[w] = "watch.resolve"
         /\ knownGood' # knownGood =>
              \E w \in Workers : pc[w] = "watch.mark" /\ knownGood' = Subject(w)
<1>1. ASSUME NEW w \in Workers, ControlStep(w), incident' = "Resolved", incident # "Resolved"
      PROVE  pc[w] = "watch.resolve"
  BY <1>1 DEF ControlStep, HandlerStep, Loop, Broken, ReadWork, Prepare, Review, Production,
     Watch, SearchRevert, CreateRevert, RecordRevert, EnqueueReview, AwaitReview, ReviewStatus,
     EnqueueNext, EnqueueProduction, FindRecovered, SaveRecovered, EnqueueWatch,
     WatchRecovered,
     CheckHead, MarkRecovered, ResolveRecovered, Choose, Transition, EnqueueStep, Goto, Read,
     LoopStep, ClaimNext, CompleteJob, FailJob, EscalateRead, EscalateMove, Fault, StepFails,
     Crash
<1>2. ASSUME NEW w \in Workers, ControlStep(w), knownGood' # knownGood
      PROVE  pc[w] = "watch.mark" /\ knownGood' = Subject(w)
  BY <1>2 DEF ControlStep, HandlerStep, Loop, Broken, ReadWork, Prepare, Review, Production,
     Watch, SearchRevert, CreateRevert, RecordRevert, EnqueueReview, AwaitReview, ReviewStatus,
     EnqueueNext, EnqueueProduction, FindRecovered, SaveRecovered, EnqueueWatch,
     WatchRecovered,
     CheckHead, MarkRecovered, ResolveRecovered, Plainly, Choose, Goto, Read
<1>3. CASE Outside \/ UNCHANGED vars
  BY <1>3 DEF Outside, HumanMerges, RevertDrifts, BranchAdvances, TargetChanges, vars,
     handlerVars
<1> QED BY <1>1, <1>2, <1>3 DEF Next, WorkerStep, ControlStep, HandlerStep

\* Every step keeps the closure true.
LEMMA ClosureKept ==
  ASSUME Basic, Basic', Follows, [Next]_vars
  PROVE  ClosedMeansRecovered'
<1>1. ASSUME NEW w \in Workers, pc[w] \in {"watch.mark", "watch.resolve"}
      PROVE  Subject(w) \in Revert /\ Recovered(Subject(w))
  <2>1. Sound(Subject(w))
    BY <1>1, SoundSubject DEF WatchPoints
  <2>2. StepFollows(w)
    BY DEF Follows
  <2> QED BY <1>1, <2>1, <2>2 DEF StepFollows, Sound, Recovered, Basic, TypeOK
<1>2. ASSUME incident' = "Resolved" PROVE \E n \in Revert : Recovered(n)'
  <2>1. \E n \in Revert : Recovered(n)
    BY <1>1, <1>2, ClosedBy DEF Follows, ClosedMeansRecovered
  <2> QED BY <2>1, RecoveredStays
<1>3. ASSUME knownGood' # 0 PROVE Recovered(knownGood)'
  <2>1. CASE knownGood' = knownGood
    <3>1. Recovered(knownGood)
      BY <1>3, <2>1 DEF Follows, ClosedMeansRecovered
    <3> QED BY <2>1, <3>1, Grows DEF Recovered
  <2>2. CASE knownGood' # knownGood
    <3>1. PICK w \in Workers : pc[w] = "watch.mark" /\ knownGood' = Subject(w)
      BY <2>2, ClosedBy
    <3>2. Recovered(Subject(w))
      BY <1>1, <3>1
    <3> QED BY <3>1, <3>2, Grows DEF Recovered
  <2> QED BY <2>1, <2>2
<1> QED BY <1>2, <1>3 DEF ClosedMeansRecovered

\* An incident is closed automatically, or the known-good deployment replaced, only
\* when a revert that NoPager created was merged unchanged, passed its three checks
\* in production and was found at the head of the protected branch, whatever was
\* retried, delayed or lost on the way.
THEOREM RecoveryClosedMeansRecovered == Spec => []ClosedMeansRecovered
<1>1. Init => Follows
  <2> SUFFICES ASSUME Init PROVE Follows
    OBVIOUS
  <2>1. \A j \in Jobs : Enqueued(j) => j[1] = "verify-rollback"
    BY DEF Init, Enqueued, Q!Absent
  <2> QED BY <2>1 DEF Init, Follows, RowFollows, StepFollows, ClosedMeansRecovered
<1>2. Basic /\ Basic' /\ Follows /\ [Next]_vars => Follows'
  BY StepsFollow, RowsFollow, ClosureKept DEF Follows
<1>3. Follows => ClosedMeansRecovered
  BY DEF Follows
<1> QED BY <1>1, <1>2, <1>3, RecoveryBasic, PTL DEF Spec

\* The handlers use the job queue as JobQueue allows; the queue starts with the
\* verify-rollback job that Landing enqueued.
THEOREM RecoveryQueue == Spec => [][QP!Next]_(QP!vars)
<1>1. TypeOK /\ [Next]_vars => [QP!Next]_(QP!vars)
  BY QueueStep
<1> QED BY <1>1, RecoveryTypeOK, PTL DEF Spec
===============================================================================
