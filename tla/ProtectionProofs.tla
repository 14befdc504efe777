-------------------------- MODULE ProtectionProofs --------------------------
(***************************************************************************)
(* For any number of deployments, workers, browsers and faults: a failure  *)
(* has at most one incident in hand, a protected application exactly one   *)
(* deployment to roll back to, and everything has its type.                *)
(***************************************************************************)
EXTENDS Protection, SequenceTheorems, TLAPS

-------------------------------------------------------------------------------
(* At most one active incident per cause.                                  *)

Counts == [active : Nat, escalated : Nat, resolved : Nat]

Deduplicated == incidents \in [Causes -> Counts] /\ OneActivePerCause

\* Every insert is guarded by the unique index, whatever the handler read before.
LEMMA CountsKept == Spec => []Deduplicated
<1>1. Init => Deduplicated
  BY DEF Init, Deduplicated, OneActivePerCause, Counts
<1>2. Deduplicated /\ [Next]_vars => Deduplicated'
  <2> SUFFICES ASSUME Deduplicated, [Next]_vars PROVE Deduplicated'
    OBVIOUS
  <2>1. CASE UNCHANGED incidents
    BY <2>1 DEF Deduplicated, OneActivePerCause
  <2>2. ASSUME NEW w \in Workers, InsertIncident(w) PROVE Deduplicated'
    <3> DEFINE c == work[w].cause
    <3>1. CASE AlreadyOpen(c)
      BY <2>1, <2>2, <3>1 DEF InsertIncident
    <3>2. CASE ~AlreadyOpen(c)
      <4>1. incidents' = [incidents EXCEPT ![c].active = @ + 1]
        BY <2>2, <3>2 DEF InsertIncident
      <4>2. c \in Causes => incidents[c].active = 0
        BY <3>2 DEF AlreadyOpen, Deduplicated, Counts
      <4>3. CASE c \notin Causes
        BY <2>1, <4>1, <4>3 DEF Deduplicated, OneActivePerCause
      <4>4. CASE c \in Causes
        <5>1. incidents[c] \in Counts
          BY <4>4 DEF Deduplicated
        <5>2. /\ incidents' \in [Causes -> Counts]
              /\ incidents'[c].active = 1
              /\ \A k \in Causes \ {c} : incidents'[k] = incidents[k]
          BY <4>1, <4>2, <4>4, <5>1 DEF Deduplicated, Counts
        <5> QED BY <5>2 DEF Deduplicated, OneActivePerCause
      <4> QED BY <4>3, <4>4
    <3> QED BY <3>1, <3>2
  <2>3. ASSUME NEW c \in Causes, NEW how \in {"escalated", "resolved"},
               EndIncident(c, how)
        PROVE  Deduplicated'
    <3>1. CASE how = "escalated"
      BY <2>3, <3>1 DEF EndIncident, Deduplicated, OneActivePerCause, Counts
    <3>2. CASE how = "resolved"
      BY <2>3, <3>2 DEF EndIncident, Deduplicated, OneActivePerCause, Counts
    <3> QED BY <3>1, <3>2
  <2>4. CASE UNCHANGED vars
    BY <2>1, <2>4 DEF vars, incidentVars
  <2>5. VercelStep => UNCHANGED incidents
    BY DEF VercelStep, Deploy, Finish, incidentVars
  <2>6. ServerStep => UNCHANGED incidents
    BY DEF ServerStep, CreateAdmin, Login, SessionExpires, ProtectApp, ListDeployments,
           Refuse, CreateProtectedApp, AcceptWebhook, incidentVars, serverOnly
  <2>7. ObserveHealthy => UNCHANGED incidents
    BY DEF ObserveHealthy, incidentVars
  <2>8. ASSUME NEW w \in Workers, WorkerStep(w) \/ Lose(w), ~InsertIncident(w)
        PROVE  UNCHANGED incidents
    BY <2>8 DEF WorkerStep, HandlerStep, VercelPoll, ClaimHook, SavePolled, IgnoreHook,
                SaveReported, FailureReported, LookForActive, Lose, incidentVars
  <2> QED BY <2>1, <2>2, <2>3, <2>4, <2>5, <2>6, <2>7, <2>8 DEF Next
<1> QED BY <1>1, <1>2, PTL DEF Spec

\* A failure that a webhook and several polls report at once has one incident in hand.
THEOREM ProtectionDeduplicates == Spec => []OneActivePerCause
<1>1. Deduplicated => OneActivePerCause
  BY DEF Deduplicated
<1> QED BY <1>1, CountsKept, PTL

-------------------------------------------------------------------------------
(* Exactly one deployment to roll back to.                                 *)

Row == [id : Deployments, status : Build, good : BOOLEAN,
        environment : {"production", "preview"}]

Steps == {"idle", "list", "create"}

\* What a row says of a deployment was once so, and READY stays so.
Truthful(r) ==
  /\ r.environment = Environment(r.id)
  /\ r.status = "READY" => vercel[r.id] = "READY"

VercelInv ==
  /\ vercel \in [Deployments -> Build]
  /\ current # 0 => current \in Production /\ vercel[current] = "READY"

SetupInv ==
  /\ step \in [Browsers -> Steps]
  /\ found \in [Browsers -> Deployments \union {0}]
  /\ \A b \in Browsers :
       step[b] = "create" => found[b] \in Production /\ vercel[found[b]] = "READY"

\* What a worker has read of a page was so, and it reads pages only of a protected
\* application.
TrueHand(hand) ==
  /\ DOMAIN hand = {"page", "hook", "cause"}
  /\ DOMAIN hand.page \subseteq Deployments
  /\ \A d \in DOMAIN hand.page :
       hand.page[d] \in Build /\ (hand.page[d] = "READY" => vercel[d] = "READY")

HandInv(w) ==
  /\ TrueHand(work[w])
  /\ pc[w] \notin {"idle", "hook"} => project.protected
  /\ pc[w] = "hook" => work[w].hook \in Causes /\ work[w].page = NoPage

WorkerInv ==
  /\ DOMAIN work = Workers /\ DOMAIN pc = Workers
  /\ hooks \subseteq Causes
  /\ \A w \in Workers : HandInv(w)

RowsInv ==
  /\ rows \in Seq(Row)
  /\ \A i \in DOMAIN rows : Truthful(rows[i])
  /\ project.protected \in BOOLEAN
  /\ ~project.protected => rows = <<>>
  /\ BaselineIsSound

BaselineInv == VercelInv /\ SetupInv /\ WorkerInv /\ RowsInv

\* A function over 1..n is a sequence.
LEMMA FunctionIsSeq ==
  ASSUME NEW S, NEW n \in Nat, NEW f \in [1..n -> S]
  PROVE  f \in Seq(S)
BY SeqDef

\* save_deployment keeps the order, the ids and the marks of the rows there are,
\* and marks none it adds.
LEMMA SaveKeepsMarks ==
  ASSUME rows \in Seq(Row), \A i \in DOMAIN rows : Truthful(rows[i]),
         NEW d \in Deployments, NEW status \in Build,
         status = "READY" => vercel[d] = "READY"
  PROVE  LET new == Saved(d, status)
         IN  /\ new \in Seq(Row)
             /\ \A i \in DOMAIN new : Truthful(new[i])
             /\ DOMAIN rows \subseteq DOMAIN new
             /\ \A i \in DOMAIN rows :
                  new[i].good = rows[i].good /\ new[i].id = rows[i].id
             /\ \A i \in DOMAIN new \ DOMAIN rows : ~new[i].good
<1> DEFINE one == [id |-> d, status |-> status, good |-> FALSE,
                   environment |-> Environment(d)]
           new == Saved(d, status)
<1>1. one \in Row /\ Truthful(one)
  BY DEF Row, Truthful, Environment
<1>2. Len(rows) \in Nat /\ DOMAIN rows = 1..Len(rows) /\ \A i \in DOMAIN rows : rows[i] \in Row
  OBVIOUS
<1>3. CASE \E i \in DOMAIN rows : rows[i].id = d
  <2> DEFINE kept(i) == [one EXCEPT !.good = rows[i].good]
  <2>1. new = [i \in DOMAIN rows |-> IF rows[i].id = d THEN kept(i) ELSE rows[i]]
    BY <1>3 DEF Saved
  <2>2. \A i \in DOMAIN rows :
          /\ kept(i) \in Row /\ Truthful(kept(i))
          /\ kept(i).good = rows[i].good /\ kept(i).id = d
    BY <1>1, <1>2 DEF Row, Truthful
  <2>3. new \in [1..Len(rows) -> Row]
    BY <1>2, <2>1, <2>2
  <2>4. new \in Seq(Row)
    BY <1>2, <2>3, FunctionIsSeq
  <2>5. DOMAIN new = DOMAIN rows
    BY <2>1
  <2> HIDE DEF kept, new
  <2>6. \A i \in DOMAIN rows :
          new[i] = IF rows[i].id = d THEN kept(i) ELSE rows[i]
    BY <2>1
  <2> QED BY <2>2, <2>4, <2>5, <2>6 DEF new
<1>4. CASE ~\E i \in DOMAIN rows : rows[i].id = d
  <2>1. new = Append(rows, one)
    BY <1>4 DEF Saved
  <2> HIDE DEF one, new
  <2>2. /\ new \in Seq(Row) /\ DOMAIN new = 1..(Len(rows) + 1)
        /\ \A i \in 1..Len(rows) : new[i] = rows[i]
        /\ new[Len(rows) + 1] = one
    BY <1>1, <1>2, <2>1
  <2>3. ~one.good
    BY DEF one
  <2> QED BY <1>1, <1>2, <2>2, <2>3 DEF new
<1> QED BY <1>3, <1>4

\* Vercel never takes back that a build is READY.
LEMMA VercelStays ==
  ASSUME VercelInv, [Next]_vars
  PROVE  VercelInv' /\ \A d \in Deployments : vercel[d] = "READY" => vercel'[d] = "READY"
<1>1. CASE UNCHANGED vercelVars
  BY <1>1 DEF VercelInv, vercelVars
<1>2. ASSUME NEW d \in Deployments, Deploy(d)
      PROVE  VercelInv' /\ \A e \in Deployments : vercel[e] = "READY" => vercel'[e] = "READY"
  BY <1>2, ProtectionAssumption DEF Deploy, VercelInv, Build
<1>3. ASSUME NEW d \in Deployments, NEW s \in Build \ {"none", "BUILDING"}, Finish(d, s)
      PROVE  VercelInv' /\ \A e \in Deployments : vercel[e] = "READY" => vercel'[e] = "READY"
  BY <1>3, ProtectionAssumption DEF Finish, VercelInv, Build
<1>4. ~VercelStep => UNCHANGED vercelVars
  <2>1. ServerStep => UNCHANGED vercelVars
    BY DEF ServerStep, CreateAdmin, Login, SessionExpires, ProtectApp, ListDeployments,
           Refuse, CreateProtectedApp, AcceptWebhook, serverOnly
  <2>2. \A w \in Workers : WorkerStep(w) \/ Lose(w) => UNCHANGED vercelVars
    BY DEF WorkerStep, HandlerStep, VercelPoll, ClaimHook, SavePolled, IgnoreHook,
           SaveReported, FailureReported, LookForActive, InsertIncident, Lose
  <2>3. ObserveHealthy \/ UNCHANGED vars => UNCHANGED vercelVars
    BY DEF ObserveHealthy, vars
  <2>4. \A c \in Causes, how \in {"escalated", "resolved"} :
          EndIncident(c, how) => UNCHANGED vercelVars
    BY DEF EndIncident
  <2> QED BY <2>1, <2>2, <2>3, <2>4 DEF Next
<1> QED BY <1>1, <1>2, <1>3, <1>4 DEF VercelStep

\* The setup request is served step by step, and what it found stays Vercel's.
LEMMA SetupStays ==
  ASSUME VercelInv, SetupInv, [Next]_vars
  PROVE  SetupInv'
<1> USE VercelStays
<1>1. CASE UNCHANGED <<step, found>>
  BY <1>1, ProtectionAssumption DEF SetupInv
<1>2. ASSUME NEW b \in Browsers, ProtectApp(b) PROVE SetupInv'
  BY <1>2, ProtectionAssumption DEF ProtectApp, Advance, SetupInv, Steps
<1>3. ASSUME NEW b \in Browsers, ListDeployments(b) PROVE SetupInv'
  BY <1>3, ProtectionAssumption
     DEF ListDeployments, Advance, SetupInv, Steps, VercelInv, serverOnly, vercelVars
<1>4. ASSUME NEW b \in Browsers, Refuse(b) \/ CreateProtectedApp(b) PROVE SetupInv'
  BY <1>4, ProtectionAssumption DEF Refuse, CreateProtectedApp, Advance, SetupInv, Steps
<1>5. CASE VercelStep
  BY <1>1, <1>5 DEF VercelStep, Deploy, Finish, setupVars
<1>6. ASSUME NEW b \in Browsers, CreateAdmin(b) \/ Login(b) \/ SessionExpires(b) PROVE SetupInv'
  BY <1>1, <1>6 DEF CreateAdmin, Login, SessionExpires
<1>7. ASSUME NEW c \in Causes, AcceptWebhook(c) PROVE SetupInv'
  BY <1>1, <1>7 DEF AcceptWebhook, setupVars
<1>8. ASSUME NEW w \in Workers, WorkerStep(w) \/ Lose(w) PROVE SetupInv'
  BY <1>1, <1>8
     DEF WorkerStep, HandlerStep, VercelPoll, ClaimHook, SavePolled, IgnoreHook, SaveReported,
         FailureReported, LookForActive, InsertIncident, Lose, setupVars
<1>9. CASE ObserveHealthy \/ UNCHANGED vars
  BY <1>1, <1>9 DEF ObserveHealthy, vars, setupVars
<1>10. ASSUME NEW c \in Causes, NEW how \in {"escalated", "resolved"}, EndIncident(c, how)
       PROVE  SetupInv'
  BY <1>1, <1>10 DEF EndIncident, setupVars
<1> QED BY <1>2, <1>3, <1>4, <1>5, <1>6, <1>7, <1>8, <1>9, <1>10 DEF Next, ServerStep

\* A worker without work holds nothing untrue.
LEMMA EmptyHand == TrueHand(NoWork)
BY DEF TrueHand, NoWork, NoPage

\* Whatever happens around it, what a worker has in hand stays true.
LEMMA HandStays ==
  ASSUME WorkerInv, UNCHANGED <<pc, work>>, hooks' \subseteq Causes,
         project.protected => project'.protected,
         \A d \in Deployments : vercel[d] = "READY" => vercel'[d] = "READY"
  PROVE  WorkerInv'
BY DEF WorkerInv, HandInv, TrueHand

\* A worker that takes up true work leaves every worker with true work.
LEMMA ProceedKeeps ==
  ASSUME WorkerInv, NEW w \in Workers, NEW to, NEW hand, Proceed(w, to, hand),
         TrueHand(hand), hooks' \subseteq Causes, UNCHANGED <<project, vercel>>,
         to \notin {"idle", "hook"} => project.protected,
         to = "hook" => hand.hook \in Causes /\ hand.page = NoPage
  PROVE  WorkerInv'
<1>1. /\ DOMAIN work' = Workers /\ DOMAIN pc' = Workers
      /\ work'[w] = hand /\ pc'[w] = to
      /\ \A v \in Workers \ {w} : work'[v] = work[v] /\ pc'[v] = pc[v]
  BY DEF Proceed, WorkerInv
<1>2. HandInv(w)'
  BY <1>1 DEF HandInv, TrueHand
<1>3. ASSUME NEW v \in Workers, v # w PROVE HandInv(v)'
  BY <1>1, <1>3 DEF HandInv, TrueHand, WorkerInv
<1> QED BY <1>1, <1>2, <1>3 DEF WorkerInv

\* So does one that goes on with the rest of its page or ends its job.
LEMMA ContinueKeeps ==
  ASSUME WorkerInv, NEW w \in Workers, Continue(w), UNCHANGED <<project, vercel>>,
         pc[w] # "idle",
         work[w].page # NoPage => project.protected
  PROVE  WorkerInv'
<1>1. hooks' \subseteq Causes
  BY DEF Continue, WorkerInv
<1>2. CASE work[w].page = NoPage
  BY <1>1, <1>2, EmptyHand, ProceedKeeps DEF Continue
<1>3. CASE work[w].page # NoPage
  <2> DEFINE hand == [work[w] EXCEPT !.cause = NoCause]
  <2>1. Proceed(w, "page", hand)
    BY <1>3 DEF Continue
  <2>2. TrueHand(hand)
    BY DEF WorkerInv, HandInv, TrueHand
  <2> HIDE DEF hand
  <2> QED BY <1>1, <1>3, <2>1, <2>2, ProceedKeeps
<1> QED BY <1>2, <1>3

\* What the workers have in hand was true of Vercel and stays so, step by step.
LEMMA WorkersStay ==
  ASSUME VercelInv, WorkerInv, [Next]_vars
  PROVE  WorkerInv'
<1> USE VercelStays
<1>1. ASSUME NEW w \in Workers, VercelPoll(w) PROVE WorkerInv'
  <2> DEFINE hand == [NoWork EXCEPT !.page = [d \in Page |-> vercel[d]]]
  <2>1. Proceed(w, "page", hand) /\ project.protected /\ UNCHANGED <<project, vercel, hooks>>
    BY <1>1 DEF VercelPoll, vercelVars, hookVars
  <2>2. DOMAIN NoWork = {"page", "hook", "cause"}
    BY DEF NoWork
  <2>3. DOMAIN hand = {"page", "hook", "cause"} /\ hand.page = [d \in Page |-> vercel[d]]
    BY <2>2
  <2>4. Page \subseteq Deployments
    BY ProtectionAssumption DEF Page
  <2>5. TrueHand(hand)
    <3> HIDE DEF hand
    <3> QED BY <2>3, <2>4 DEF TrueHand, VercelInv
  <2> HIDE DEF hand
  <2> QED BY <2>1, <2>5, ProceedKeeps DEF WorkerInv
<1>2. ASSUME NEW w \in Workers, SavePolled(w) PROVE WorkerInv'
  <2>1. PICK d \in DOMAIN work[w].page :
          LET page == work[w].page
              rest == [e \in DOMAIN page \ {d} |-> page[e]]
          IN  IF page[d] \in Failing
              THEN Proceed(w, "open", [work[w] EXCEPT !.page = rest, !.cause = <<d, "vercel">>])
              ELSE IF DOMAIN rest = {} THEN Proceed(w, "idle", NoWork)
              ELSE Proceed(w, "page", [work[w] EXCEPT !.page = rest])
    BY <1>2 DEF SavePolled
  <2> DEFINE rest   == [e \in DOMAIN work[w].page \ {d} |-> work[w].page[e]]
             opened == [work[w] EXCEPT !.page = rest, !.cause = <<d, "vercel">>]
             passed == [work[w] EXCEPT !.page = rest]
  <2>2. UNCHANGED <<project, vercel, hooks>> /\ project.protected /\ hooks \subseteq Causes
    BY <1>2 DEF SavePolled, vercelVars, hookVars, WorkerInv, HandInv
  <2>3. TrueHand(work[w])
    BY DEF WorkerInv, HandInv
  <2>4. TrueHand(opened) /\ TrueHand(passed)
    BY <2>3 DEF TrueHand
  <2>5. \/ Proceed(w, "open", opened) \/ Proceed(w, "idle", NoWork)
        \/ Proceed(w, "page", passed)
    BY <2>1
  <2> HIDE DEF opened, passed
  <2> QED BY <2>2, <2>4, <2>5, EmptyHand, ProceedKeeps
<1>3. ASSUME NEW w \in Workers, NEW c \in Causes, ClaimHook(w, c) PROVE WorkerInv'
  <2> DEFINE hand == [NoWork EXCEPT !.hook = c]
  <2>1. Proceed(w, "hook", hand) /\ UNCHANGED <<project, vercel, hooks>>
    BY <1>3 DEF ClaimHook, vercelVars, hookVars
  <2>2. DOMAIN NoWork = {"page", "hook", "cause"} /\ NoWork.page = NoPage
    BY DEF NoWork
  <2>3. DOMAIN hand = {"page", "hook", "cause"} /\ hand.page = NoPage /\ hand.hook = c
    BY <2>2
  <2> HIDE DEF hand
  <2>4. TrueHand(hand)
    BY <2>3 DEF TrueHand, NoPage
  <2> QED BY <2>1, <2>3, <2>4, ProceedKeeps DEF WorkerInv
<1>4. ASSUME NEW w \in Workers, FailureReported(w) PROVE WorkerInv'
  <2> DEFINE hand == [work[w] EXCEPT !.cause = work[w].hook]
  <2>1. Proceed(w, "open", hand) /\ project.protected /\ UNCHANGED <<project, vercel, hooks>>
    BY <1>4 DEF FailureReported, vercelVars, hookVars
  <2>2. TrueHand(hand)
    BY DEF WorkerInv, HandInv, TrueHand
  <2> HIDE DEF hand
  <2> QED BY <2>1, <2>2, ProceedKeeps DEF WorkerInv
<1>5. ASSUME NEW w \in Workers, IgnoreHook(w) \/ SaveReported(w) PROVE WorkerInv'
  BY <1>5, ContinueKeeps DEF IgnoreHook, SaveReported, vercelVars, WorkerInv, HandInv
<1>6. ASSUME NEW w \in Workers, LookForActive(w) PROVE WorkerInv'
  <2>1. UNCHANGED <<project, vercel>> /\ pc[w] = "open" /\ project.protected
    BY <1>6 DEF LookForActive, vercelVars, WorkerInv, HandInv
  <2>2. CASE AlreadyOpen(work[w].cause)
    BY <1>6, <2>1, <2>2, ContinueKeeps DEF LookForActive
  <2>3. CASE ~AlreadyOpen(work[w].cause)
    <3>1. Proceed(w, "insert", work[w]) /\ UNCHANGED hooks
      BY <1>6, <2>3 DEF LookForActive
    <3>2. TrueHand(work[w])
      BY DEF WorkerInv, HandInv
    <3> QED BY <2>1, <3>1, <3>2, ProceedKeeps DEF WorkerInv
  <2> QED BY <2>2, <2>3
<1>7. ASSUME NEW w \in Workers, InsertIncident(w) PROVE WorkerInv'
  <2>1. UNCHANGED <<project, vercel>> /\ pc[w] = "insert" /\ project.protected
    BY <1>7 DEF InsertIncident, vercelVars, WorkerInv, HandInv
  <2>2. CASE AlreadyOpen(work[w].cause)
    BY <1>7, <2>1, <2>2, EmptyHand, ProceedKeeps DEF InsertIncident, WorkerInv
  <2>3. CASE ~AlreadyOpen(work[w].cause)
    BY <1>7, <2>1, <2>3, ContinueKeeps DEF InsertIncident
  <2> QED BY <2>2, <2>3
<1>8. ASSUME NEW w \in Workers, Lose(w) PROVE WorkerInv'
  <2>1. Proceed(w, "idle", NoWork) /\ UNCHANGED <<project, vercel>> /\ hooks' \subseteq hooks
    BY <1>8 DEF Lose, vercelVars
  <2> QED BY <2>1, EmptyHand, ProceedKeeps DEF WorkerInv
<1>9. ASSUME NEW c \in Causes, AcceptWebhook(c) PROVE WorkerInv'
  BY <1>9, HandStays DEF AcceptWebhook, workerVars, vercelVars, WorkerInv
<1>10. ASSUME NEW b \in Browsers, CreateProtectedApp(b) PROVE WorkerInv'
  BY <1>10, HandStays DEF CreateProtectedApp, workerVars, vercelVars, hookVars, WorkerInv
<1>11. ASSUME NEW b \in Browsers,
              \/ CreateAdmin(b) \/ Login(b) \/ SessionExpires(b)
              \/ ProtectApp(b) \/ ListDeployments(b) \/ Refuse(b)
       PROVE  WorkerInv'
  BY <1>11, HandStays
     DEF CreateAdmin, Login, SessionExpires, ProtectApp, ListDeployments, Refuse,
         serverOnly, workerVars, vercelVars, hookVars, WorkerInv
<1>12. CASE VercelStep
  BY <1>12, HandStays DEF VercelStep, Deploy, Finish, workerVars, hookVars, WorkerInv
<1>13. CASE ObserveHealthy \/ UNCHANGED vars
  BY <1>13, HandStays DEF ObserveHealthy, vars, workerVars, vercelVars, hookVars, WorkerInv
<1>14. ASSUME NEW c \in Causes, NEW how \in {"escalated", "resolved"}, EndIncident(c, how)
       PROVE  WorkerInv'
  BY <1>14, HandStays DEF EndIncident, workerVars, vercelVars, hookVars, WorkerInv
<1>15. ASSUME NEW w \in Workers, WorkerStep(w) PROVE WorkerInv'
  BY <1>1, <1>2, <1>3, <1>4, <1>5, <1>6, <1>7, <1>15 DEF WorkerStep, HandlerStep
<1> QED BY <1>8, <1>9, <1>10, <1>11, <1>12, <1>13, <1>14, <1>15 DEF Next, ServerStep

\* Rows saved for a protected application leave its baseline alone.
LEMMA SaveKeepsBaseline ==
  ASSUME VercelInv, RowsInv, project.protected, NEW d \in Deployments, NEW status \in Build,
         status = "READY" => vercel[d] = "READY",
         rows' = Saved(d, status), UNCHANGED <<project, vercel>>
  PROVE  RowsInv'
<1>1. /\ rows' \in Seq(Row)
      /\ \A i \in DOMAIN rows' : Truthful(rows'[i])
      /\ DOMAIN rows \subseteq DOMAIN rows'
      /\ \A i \in DOMAIN rows : rows'[i].good = rows[i].good /\ rows'[i].id = rows[i].id
      /\ \A i \in DOMAIN rows' \ DOMAIN rows : ~rows'[i].good
  BY SaveKeepsMarks DEF RowsInv
<1>2. PICK i \in DOMAIN rows :
        /\ \A k \in DOMAIN rows : rows[k].good <=> k = i
        /\ rows[i].id \in Production /\ vercel[rows[i].id] = "READY"
  BY DEF RowsInv, BaselineIsSound
<1>3. \A k \in DOMAIN rows' : rows'[k].good <=> k = i
  BY <1>1, <1>2, Zenon
<1>4. rows'[i].id \in Production /\ vercel'[rows'[i].id] = "READY"
  BY <1>1, <1>2
<1>5. i \in DOMAIN rows'
  BY <1>1, <1>2
<1>6. BaselineIsSound'
  BY <1>3, <1>4, <1>5 DEF BaselineIsSound
<1>7. \A k \in DOMAIN rows' : Truthful(rows[k])'
  BY <1>1 DEF Truthful
<1> QED BY <1>1, <1>6, <1>7 DEF RowsInv

\* Every step keeps the table truthful and its baseline sound.
LEMMA RowsStay ==
  ASSUME BaselineInv, [Next]_vars
  PROVE  RowsInv'
<1> USE VercelStays DEF BaselineInv
<1>1. CASE UNCHANGED <<rows, project>>
  <2>1. \A i \in DOMAIN rows : rows[i] \in Row
    BY DEF RowsInv
  <2>2. \A i \in DOMAIN rows : rows[i].id \in Deployments
    BY <2>1 DEF Row
  <2>3. \A i \in DOMAIN rows : Truthful(rows[i])'
    BY <1>1, <2>2 DEF RowsInv, Truthful
  <2>4. BaselineIsSound'
    BY <1>1, <2>2 DEF RowsInv, BaselineIsSound
  <2> QED BY <1>1, <2>3, <2>4 DEF RowsInv
<1>2. ASSUME NEW w \in Workers, SavePolled(w) PROVE RowsInv'
  <2>1. PICK d \in DOMAIN work[w].page : rows' = Saved(d, work[w].page[d])
    BY <1>2 DEF SavePolled
  <2>2. project.protected /\ UNCHANGED <<project, vercel>>
    BY <1>2 DEF SavePolled, vercelVars, WorkerInv, HandInv
  <2>3. /\ d \in Deployments /\ work[w].page[d] \in Build
        /\ work[w].page[d] = "READY" => vercel[d] = "READY"
    BY <2>1 DEF WorkerInv, HandInv, TrueHand
  <2> QED BY <2>1, <2>2, <2>3, SaveKeepsBaseline
<1>3. ASSUME NEW w \in Workers, SaveReported(w) PROVE RowsInv'
  <2> DEFINE d == work[w].hook[1]
  <2>1. /\ pc[w] = "hook" /\ project.protected /\ work[w].hook[2] = "vercel"
        /\ vercel[d] = "READY" /\ rows' = Saved(d, "READY") /\ UNCHANGED <<project, vercel>>
    BY <1>3 DEF SaveReported, vercelVars
  <2>2. work[w].hook \in Causes
    BY <2>1 DEF WorkerInv, HandInv
  <2>3. d \in Deployments
    BY <2>1, <2>2 DEF Causes
  <2>4. "READY" \in Build
    BY DEF Build
  <2> HIDE DEF d
  <2> QED BY <2>1, <2>3, <2>4, SaveKeepsBaseline
<1>4. ASSUME NEW b \in Browsers, CreateProtectedApp(b) PROVE RowsInv'
  <2> DEFINE first == [id |-> found[b], status |-> "READY", good |-> TRUE,
                       environment |-> "production"]
  <2>1. /\ ~project.protected /\ step[b] = "create" /\ project'.protected = TRUE
        /\ rows' = Append(rows, first) /\ UNCHANGED vercel
    BY <1>4 DEF CreateProtectedApp, Advance, vercelVars
  <2>2. rows = <<>>
    BY <2>1 DEF RowsInv
  <2>3. found[b] \in Production /\ vercel[found[b]] = "READY"
    BY <2>1 DEF SetupInv
  <2>4. first \in Row /\ first.good = TRUE /\ first.id = found[b] /\ Truthful(first)
    BY <2>3, ProtectionAssumption DEF Row, Build, Truthful, Environment
  <2> HIDE DEF first
  <2>5. rows' = <<first>>
    BY <2>1, <2>2
  <2>6. rows' \in Seq(Row) /\ DOMAIN rows' = {1} /\ rows'[1] = first
    BY <2>4, <2>5
  <2>7. BaselineIsSound'
    BY <2>1, <2>3, <2>4, <2>6 DEF BaselineIsSound
  <2>8. \A i \in DOMAIN rows' : Truthful(rows[i])'
    BY <2>1, <2>4, <2>6 DEF Truthful
  <2> QED BY <2>1, <2>6, <2>7, <2>8 DEF RowsInv
<1>5. CASE ObserveHealthy
  <2>1. PICK i \in Candidates :
          rows' = [k \in DOMAIN rows |->
                     IF rows[k].environment = "production"
                     THEN [rows[k] EXCEPT !.good = (k = i)] ELSE rows[k]]
    BY <1>5 DEF ObserveHealthy
  <2>2. project.protected /\ UNCHANGED <<project, vercel>>
    BY <1>5 DEF ObserveHealthy, vercelVars
  <2>3. /\ rows \in Seq(Row) /\ Len(rows) \in Nat /\ DOMAIN rows = 1..Len(rows)
        /\ \A k \in DOMAIN rows : rows[k] \in Row /\ Truthful(rows[k])
    BY DEF RowsInv
  <2> DEFINE marked(k) == [rows[k] EXCEPT !.good = (k = i)]
  <2>4. \A k \in DOMAIN rows :
          /\ marked(k) \in Row /\ marked(k).id = rows[k].id
          /\ marked(k).good = (k = i) /\ Truthful(marked(k))
    BY <2>3 DEF Row, Truthful
  <2>5. rows' \in [1..Len(rows) -> Row]
    BY <2>1, <2>3, <2>4
  <2>6. rows' \in Seq(Row) /\ DOMAIN rows' = DOMAIN rows
    BY <2>3, <2>5, FunctionIsSeq
  <2>7. \A k \in DOMAIN rows :
          rows'[k] = IF rows[k].environment = "production" THEN marked(k) ELSE rows[k]
    BY <2>1
  <2> HIDE DEF marked
  <2>8. \A k \in DOMAIN rows' : Truthful(rows[k])'
    BY <2>2, <2>3, <2>4, <2>6, <2>7 DEF Truthful
  <2>9. /\ i \in DOMAIN rows /\ rows[i].environment = "production"
        /\ rows[i].status = "READY"
    BY <2>1 DEF Candidates
  <2>10. \A k \in DOMAIN rows : rows[k].good => rows[k].environment = "production"
    <3>1. PICK g \in DOMAIN rows :
            (\A k \in DOMAIN rows : rows[k].good <=> k = g) /\ rows[g].id \in Production
      BY <2>2 DEF RowsInv, BaselineIsSound
    <3>2. rows[g].environment = "production"
      BY <2>3, <3>1 DEF Truthful, Environment
    <3> QED BY <3>1, <3>2
  <2>11. \A k \in DOMAIN rows' : rows'[k].good <=> k = i
    BY <2>4, <2>6, <2>7, <2>9, <2>10, Zenon
  <2>12. rows'[i].id \in Production /\ vercel'[rows'[i].id] = "READY"
    BY <2>2, <2>3, <2>4, <2>7, <2>9 DEF Truthful, Environment
  <2>13. BaselineIsSound'
    BY <2>6, <2>9, <2>11, <2>12 DEF BaselineIsSound
  <2> QED BY <2>2, <2>6, <2>8, <2>13 DEF RowsInv
<1>6. CASE VercelStep
  BY <1>1, <1>6 DEF VercelStep, Deploy, Finish
<1>7. ASSUME NEW b \in Browsers,
             \/ CreateAdmin(b) \/ Login(b) \/ SessionExpires(b)
             \/ ProtectApp(b) \/ ListDeployments(b) \/ Refuse(b)
      PROVE  RowsInv'
  BY <1>1, <1>7
     DEF CreateAdmin, Login, SessionExpires, ProtectApp, ListDeployments, Refuse, serverOnly
<1>8. ASSUME NEW c \in Causes, AcceptWebhook(c) PROVE RowsInv'
  BY <1>1, <1>8 DEF AcceptWebhook
<1>9. ASSUME NEW w \in Workers,
             \/ VercelPoll(w) \/ (\E c \in Causes : ClaimHook(w, c)) \/ IgnoreHook(w)
             \/ FailureReported(w) \/ LookForActive(w) \/ InsertIncident(w) \/ Lose(w)
      PROVE  RowsInv'
  BY <1>1, <1>9
     DEF VercelPoll, ClaimHook, IgnoreHook, FailureReported, LookForActive, InsertIncident, Lose
<1>10. ASSUME NEW c \in Causes, NEW how \in {"escalated", "resolved"}, EndIncident(c, how)
       PROVE  RowsInv'
  BY <1>1, <1>10 DEF EndIncident
<1>11. CASE UNCHANGED vars
  BY <1>1, <1>11 DEF vars
<1> QED BY <1>2, <1>3, <1>4, <1>5, <1>6, <1>7, <1>8, <1>9, <1>10, <1>11
        DEF Next, ServerStep, WorkerStep, HandlerStep

\* What the baseline rests on holds from the start and after every step.
LEMMA BaselineKept == Spec => []BaselineInv
<1>1. Init => BaselineInv
  <2> SUFFICES ASSUME Init PROVE BaselineInv
    OBVIOUS
  <2>1. VercelInv /\ SetupInv
    BY DEF Init, VercelInv, SetupInv, Build, Steps
  <2>2. WorkerInv
    BY EmptyHand DEF Init, WorkerInv, HandInv
  <2>3. RowsInv
    BY DEF Init, RowsInv, BaselineIsSound, Unprotected
  <2> QED BY <2>1, <2>2, <2>3 DEF BaselineInv
<1>2. BaselineInv /\ [Next]_vars => BaselineInv'
  BY VercelStays, SetupStays, WorkersStay, RowsStay DEF BaselineInv
<1> QED BY <1>1, <1>2, PTL DEF Spec

\* However many setups race, and however polls, webhooks and observations follow
\* one another, there is one baseline and it was built.
THEOREM ProtectionBaseline == Spec => []BaselineIsSound
<1>1. BaselineInv => BaselineIsSound
  BY DEF BaselineInv, RowsInv
<1> QED BY <1>1, BaselineKept, PTL

-------------------------------------------------------------------------------
(* The types.                                                              *)

ServerTypes ==
  /\ admins \subseteq Browsers /\ sessions \subseteq Browsers
  /\ deliveries \subseteq Causes /\ hooks \subseteq deliveries

WorkerTypes ==
  /\ pc \in [Workers -> {"idle", "page", "hook", "open", "insert"}]
  /\ \A w \in Workers : {work[w].hook, work[w].cause} \subseteq Causes \union {NoCause}
  /\ lost \in 0..MaxLost /\ ended \in 0..MaxEnded

\* Vercel numbers the deployments in order, so that there is a newest one when the
\* project is created.
ProjectTypes ==
  /\ \E n \in 0..MaxDeployed : Made = 1..n
  /\ project \in [since : Nat, protected : BOOLEAN]

OtherTypes == ServerTypes /\ WorkerTypes /\ ProjectTypes

\* A step of one part of the system leaves the types of the others alone.
LEMMA ServerTypesStay ==
  ASSUME ServerTypes, [Next]_vars
  PROVE  ServerTypes'
<1>1. CASE UNCHANGED <<admins, sessions, deliveries>> /\ hooks' \subseteq hooks
  BY <1>1 DEF ServerTypes
<1>2. ASSUME NEW b \in Browsers, CreateAdmin(b) \/ Login(b) \/ SessionExpires(b)
      PROVE  ServerTypes'
  BY <1>2 DEF CreateAdmin, Login, SessionExpires, SessionIssued, serverOnly, hookVars, ServerTypes
<1>3. ASSUME NEW c \in Causes, AcceptWebhook(c) PROVE ServerTypes'
  BY <1>3 DEF AcceptWebhook, setupVars, ServerTypes
<1>4. ASSUME NEW b \in Browsers,
             ProtectApp(b) \/ ListDeployments(b) \/ Refuse(b) \/ CreateProtectedApp(b)
      PROVE  ServerTypes'
  BY <1>1, <1>4
     DEF ProtectApp, ListDeployments, Refuse, CreateProtectedApp, serverOnly, hookVars
<1>5. ASSUME NEW w \in Workers, WorkerStep(w) \/ Lose(w) PROVE ServerTypes'
  BY <1>1, <1>5
     DEF WorkerStep, HandlerStep, VercelPoll, ClaimHook, SavePolled, IgnoreHook, SaveReported,
         FailureReported, LookForActive, InsertIncident, Lose, Continue, setupVars, hookVars
<1>6. CASE VercelStep
  BY <1>1, <1>6 DEF VercelStep, Deploy, Finish, setupVars, hookVars
<1>7. CASE ObserveHealthy \/ UNCHANGED vars
  BY <1>1, <1>7 DEF ObserveHealthy, vars, setupVars, hookVars
<1>8. ASSUME NEW c \in Causes, NEW how \in {"escalated", "resolved"}, EndIncident(c, how)
      PROVE  ServerTypes'
  BY <1>1, <1>8 DEF EndIncident, setupVars, hookVars
<1> QED BY <1>2, <1>3, <1>4, <1>5, <1>6, <1>7, <1>8 DEF Next, ServerStep

\* What a worker may name while it has a page or a webhook's job in hand.
Named(hand) == {hand.hook, hand.cause} \subseteq Causes \union {NoCause}

LEMMA ProceedTypes ==
  ASSUME WorkerInv, WorkerTypes, NEW w \in Workers, NEW hand, Named(hand),
         NEW to \in {"idle", "page", "hook", "open", "insert"}, Proceed(w, to, hand),
         lost' \in 0..MaxLost, UNCHANGED ended
  PROVE  WorkerTypes'
<1>1. /\ pc' = [pc EXCEPT ![w] = to] /\ work'[w] = hand
      /\ \A v \in Workers \ {w} : work'[v] = work[v]
  BY DEF Proceed, WorkerInv
<1> QED BY <1>1 DEF WorkerTypes, Named

LEMMA ContinueTypes ==
  ASSUME WorkerInv, WorkerTypes, NEW w \in Workers, Continue(w), UNCHANGED <<lost, ended>>
  PROVE  WorkerTypes'
<1> DEFINE rest == [work[w] EXCEPT !.cause = NoCause]
<1>1. Proceed(w, "idle", NoWork) \/ Proceed(w, "page", rest)
  BY DEF Continue
<1>2. Named(NoWork)
  BY DEF Named, NoWork
<1>3. Named(rest)
  BY DEF Named, WorkerTypes, WorkerInv, HandInv, TrueHand
<1> HIDE DEF rest
<1> QED BY <1>1, <1>2, <1>3, ProceedTypes DEF WorkerTypes

LEMMA WorkerTypesStay ==
  ASSUME WorkerInv, WorkerTypes, [Next]_vars
  PROVE  WorkerTypes'
<1>1. CASE UNCHANGED <<pc, work, lost, ended>>
  BY <1>1 DEF WorkerTypes
<1>2. ASSUME NEW w \in Workers, VercelPoll(w) PROVE WorkerTypes'
  <2> DEFINE hand == [NoWork EXCEPT !.page = [d \in Page |-> vercel[d]]]
  <2>1. Proceed(w, "page", hand) /\ UNCHANGED <<lost, ended>>
    BY <1>2 DEF VercelPoll, incidentVars
  <2>2. hand.hook = NoCause /\ hand.cause = NoCause
    BY DEF NoWork
  <2>3. Named(hand)
    BY <2>2 DEF Named
  <2> HIDE DEF hand
  <2> QED BY <2>1, <2>3, ProceedTypes DEF WorkerTypes
<1>3. ASSUME NEW w \in Workers, SavePolled(w) PROVE WorkerTypes'
  <2>1. PICK d \in DOMAIN work[w].page :
          LET page == work[w].page
              rest == [e \in DOMAIN page \ {d} |-> page[e]]
          IN  IF page[d] \in Failing
              THEN Proceed(w, "open", [work[w] EXCEPT !.page = rest, !.cause = <<d, "vercel">>])
              ELSE IF DOMAIN rest = {} THEN Proceed(w, "idle", NoWork)
              ELSE Proceed(w, "page", [work[w] EXCEPT !.page = rest])
    BY <1>3 DEF SavePolled
  <2> DEFINE rest   == [e \in DOMAIN work[w].page \ {d} |-> work[w].page[e]]
             opened == [work[w] EXCEPT !.page = rest, !.cause = <<d, "vercel">>]
             passed == [work[w] EXCEPT !.page = rest]
  <2>2. UNCHANGED <<lost, ended>>
    BY <1>3 DEF SavePolled, incidentVars
  <2>3. TrueHand(work[w]) /\ Named(work[w])
    BY DEF WorkerInv, HandInv, WorkerTypes, Named
  <2>4. <<d, "vercel">> \in Causes
    BY <2>1, <2>3 DEF TrueHand, Causes
  <2>5. Named(opened) /\ Named(passed)
    BY <2>3, <2>4 DEF TrueHand, Named
  <2>6. \/ Proceed(w, "open", opened) \/ Proceed(w, "idle", NoWork)
        \/ Proceed(w, "page", passed)
    BY <2>1
  <2>7. Named(NoWork)
    BY DEF Named, NoWork
  <2> HIDE DEF opened, passed
  <2> QED BY <2>2, <2>5, <2>6, <2>7, ProceedTypes DEF WorkerTypes
<1>4. ASSUME NEW w \in Workers, NEW c \in Causes, ClaimHook(w, c) PROVE WorkerTypes'
  <2> DEFINE hand == [NoWork EXCEPT !.hook = c]
  <2>1. Proceed(w, "hook", hand) /\ UNCHANGED <<lost, ended>>
    BY <1>4 DEF ClaimHook, incidentVars
  <2>2. Named(hand)
    BY DEF Named, NoWork
  <2> HIDE DEF hand
  <2> QED BY <2>1, <2>2, ProceedTypes DEF WorkerTypes
<1>5. ASSUME NEW w \in Workers, IgnoreHook(w) \/ SaveReported(w) PROVE WorkerTypes'
  BY <1>5, ContinueTypes DEF IgnoreHook, SaveReported, incidentVars
<1>6. ASSUME NEW w \in Workers, FailureReported(w) PROVE WorkerTypes'
  <2> DEFINE hand == [work[w] EXCEPT !.cause = work[w].hook]
  <2>1. Proceed(w, "open", hand) /\ UNCHANGED <<lost, ended>>
    BY <1>6 DEF FailureReported, incidentVars
  <2>2. Named(hand)
    BY DEF Named, WorkerTypes, WorkerInv, HandInv, TrueHand
  <2> HIDE DEF hand
  <2> QED BY <2>1, <2>2, ProceedTypes DEF WorkerTypes
<1>7. ASSUME NEW w \in Workers, LookForActive(w) PROVE WorkerTypes'
  <2>1. Continue(w) \/ Proceed(w, "insert", work[w])
    BY <1>7 DEF LookForActive
  <2>2. UNCHANGED <<lost, ended>> /\ Named(work[w])
    BY <1>7 DEF LookForActive, incidentVars, WorkerTypes, Named
  <2> QED BY <2>1, <2>2, ProceedTypes, ContinueTypes DEF WorkerTypes
<1>8. ASSUME NEW w \in Workers, InsertIncident(w) PROVE WorkerTypes'
  <2>1. Continue(w) \/ Proceed(w, "idle", NoWork)
    BY <1>8 DEF InsertIncident
  <2>2. UNCHANGED <<lost, ended>> /\ Named(NoWork)
    BY <1>8 DEF InsertIncident, Named, NoWork
  <2> QED BY <2>1, <2>2, ProceedTypes, ContinueTypes DEF WorkerTypes
<1>9. ASSUME NEW w \in Workers, Lose(w) PROVE WorkerTypes'
  <2>1. Proceed(w, "idle", NoWork) /\ UNCHANGED ended /\ lost < MaxLost /\ lost' = lost + 1
    BY <1>9 DEF Lose, incidentVars
  <2>2. lost' \in 0..MaxLost /\ Named(NoWork)
    BY <2>1, ProtectionAssumption DEF WorkerTypes, Named, NoWork
  <2> QED BY <2>1, <2>2, ProceedTypes
<1>10. ASSUME NEW c \in Causes, NEW how \in {"escalated", "resolved"}, EndIncident(c, how)
       PROVE  WorkerTypes'
  <2>1. UNCHANGED <<pc, work, lost>> /\ ended < MaxEnded /\ ended' = ended + 1
    BY <1>10 DEF EndIncident, workerVars
  <2> QED BY <2>1, ProtectionAssumption DEF WorkerTypes
<1>11. CASE ServerStep
  BY <1>1, <1>11
     DEF ServerStep, CreateAdmin, Login, SessionExpires, ProtectApp, ListDeployments, Refuse,
         CreateProtectedApp, AcceptWebhook, serverOnly, workerVars, incidentVars
<1>12. CASE VercelStep
  BY <1>1, <1>12 DEF VercelStep, Deploy, Finish, workerVars, incidentVars
<1>13. CASE ObserveHealthy \/ UNCHANGED vars
  BY <1>1, <1>13 DEF ObserveHealthy, vars, workerVars, incidentVars
<1>14. ASSUME NEW w \in Workers, WorkerStep(w) PROVE WorkerTypes'
  BY <1>2, <1>3, <1>4, <1>5, <1>6, <1>7, <1>8, <1>14 DEF WorkerStep, HandlerStep
<1> QED BY <1>9, <1>10, <1>11, <1>12, <1>13, <1>14 DEF Next

\* A setup that has found the serving deployment finds a newest one.
LEMMA ProjectTypesStay ==
  ASSUME VercelInv, SetupInv, ProjectTypes, [Next]_vars
  PROVE  ProjectTypes'
<1>1. CASE UNCHANGED <<vercel, project>>
  BY <1>1 DEF ProjectTypes, Made
<1>2. ASSUME NEW d \in Deployments, Deploy(d) PROVE ProjectTypes'
  <2>1. PICK n \in 0..MaxDeployed : Made = 1..n
    BY DEF ProjectTypes
  <2>2. /\ d \notin Made /\ \A e \in Deployments : e < d => e \in Made
        /\ vercel' = [vercel EXCEPT ![d] = "BUILDING"] /\ UNCHANGED project
    BY <1>2 DEF Deploy, Made
  <2>3. Made' = Made \union {d}
    BY <2>2 DEF Made, VercelInv
  <2>4. d = n + 1
    BY <2>1, <2>2, ProtectionAssumption DEF Deployments
  <2>5. Made' = 1..(n + 1) /\ n + 1 \in 0..MaxDeployed
    BY <2>1, <2>3, <2>4, ProtectionAssumption DEF Deployments
  <2> QED BY <2>2, <2>5 DEF ProjectTypes
<1>3. ASSUME NEW d \in Deployments, NEW s \in Build \ {"none", "BUILDING"}, Finish(d, s)
      PROVE  ProjectTypes'
  <2>1. Made' = Made /\ UNCHANGED project
    BY <1>3 DEF Finish, Made, VercelInv
  <2> QED BY <2>1 DEF ProjectTypes
<1>4. ASSUME NEW b \in Browsers, CreateProtectedApp(b) PROVE ProjectTypes'
  <2>1. PICK n \in 0..MaxDeployed : Made = 1..n
    BY DEF ProjectTypes
  <2>2. /\ step[b] = "create" /\ UNCHANGED vercel
        /\ project' = [since |-> CHOOSE d \in Made : \A e \in Made : e <= d,
                       protected |-> TRUE]
    BY <1>4 DEF CreateProtectedApp, Advance, vercelVars
  <2>3. found[b] \in Made
    BY <2>2, ProtectionAssumption DEF SetupInv, Made
  <2>4. n \in Made /\ \A e \in Made : e <= n
    BY <2>1, <2>3
  <2>5. (CHOOSE d \in Made : \A e \in Made : e <= d) \in Made
    BY <2>4
  <2>6. project' \in [since : Nat, protected : BOOLEAN]
    BY <2>1, <2>2, <2>5
  <2> QED BY <2>1, <2>2, <2>6 DEF ProjectTypes, Made
<1>5. ASSUME NEW b \in Browsers,
             \/ CreateAdmin(b) \/ Login(b) \/ SessionExpires(b)
             \/ ProtectApp(b) \/ ListDeployments(b) \/ Refuse(b)
      PROVE  ProjectTypes'
  BY <1>1, <1>5
     DEF CreateAdmin, Login, SessionExpires, ProtectApp, ListDeployments, Refuse, serverOnly,
         vercelVars
<1>6. ASSUME NEW c \in Causes, AcceptWebhook(c) PROVE ProjectTypes'
  BY <1>1, <1>6 DEF AcceptWebhook, vercelVars
<1>7. ASSUME NEW w \in Workers, WorkerStep(w) \/ Lose(w) PROVE ProjectTypes'
  BY <1>1, <1>7
     DEF WorkerStep, HandlerStep, VercelPoll, ClaimHook, SavePolled, IgnoreHook, SaveReported,
         FailureReported, LookForActive, InsertIncident, Lose, vercelVars
<1>8. CASE ObserveHealthy \/ UNCHANGED vars
  BY <1>1, <1>8 DEF ObserveHealthy, vars, vercelVars
<1>9. ASSUME NEW c \in Causes, NEW how \in {"escalated", "resolved"}, EndIncident(c, how)
      PROVE  ProjectTypes'
  BY <1>1, <1>9 DEF EndIncident, vercelVars
<1> QED BY <1>2, <1>3, <1>4, <1>5, <1>6, <1>7, <1>8, <1>9 DEF Next, ServerStep, VercelStep

\* The type invariant, with what a worker has in hand and what a setup has found.
THEOREM ProtectionTypeOK == Spec => []TypeOK
<1>1. Init => OtherTypes
  <2> SUFFICES ASSUME Init PROVE OtherTypes
    OBVIOUS
  <2>1. ServerTypes
    BY DEF Init, ServerTypes
  <2>2. WorkerTypes
    BY ProtectionAssumption DEF Init, WorkerTypes, NoWork
  <2>3. Made = 1..0 /\ 0 \in 0..MaxDeployed
    BY ProtectionAssumption DEF Init, Made
  <2>4. project \in [since : Nat, protected : BOOLEAN]
    BY DEF Init, Unprotected
  <2> QED BY <2>1, <2>2, <2>3, <2>4 DEF OtherTypes, ProjectTypes
<1>2. BaselineInv /\ OtherTypes /\ [Next]_vars => OtherTypes'
  BY ServerTypesStay, WorkerTypesStay, ProjectTypesStay DEF BaselineInv, OtherTypes
<1>3. BaselineInv /\ OtherTypes /\ Deduplicated => TypeOK
  <2> SUFFICES ASSUME BaselineInv, OtherTypes, Deduplicated PROVE TypeOK
    OBVIOUS
  <2>1. /\ admins \subseteq Browsers /\ sessions \subseteq Browsers
        /\ deliveries \subseteq Causes /\ hooks \subseteq deliveries
        /\ project \in [since : Nat, protected : BOOLEAN]
        /\ pc \in [Workers -> {"idle", "page", "hook", "open", "insert"}]
        /\ lost \in 0..MaxLost /\ ended \in 0..MaxEnded
    BY DEF OtherTypes, ServerTypes, WorkerTypes, ProjectTypes
  <2>2. /\ step \in [Browsers -> {"idle", "list", "create"}]
        /\ found \in [Browsers -> Deployments \union {0}]
        /\ vercel \in [Deployments -> Build]
    BY DEF BaselineInv, SetupInv, VercelInv, Steps
  <2>3. current \in Deployments \union {0}
    BY ProtectionAssumption DEF BaselineInv, VercelInv
  <2>4. rows \in Seq([id : Deployments, status : Build, good : BOOLEAN,
                      environment : {"production", "preview"}])
    BY DEF BaselineInv, RowsInv, Row
  <2>5. incidents \in [Causes -> [active : Nat, escalated : Nat, resolved : Nat]]
    BY DEF Deduplicated, Counts
  <2>6. \A w \in Workers :
          /\ DOMAIN work[w].page \subseteq Deployments
          /\ {work[w].hook, work[w].cause} \subseteq Causes \union {NoCause}
    BY DEF BaselineInv, WorkerInv, HandInv, TrueHand, OtherTypes, WorkerTypes
  <2> QED BY <2>1, <2>2, <2>3, <2>4, <2>5, <2>6 DEF TypeOK
<1> QED BY <1>1, <1>2, <1>3, BaselineKept, CountsKept, PTL DEF Spec
=============================================================================
