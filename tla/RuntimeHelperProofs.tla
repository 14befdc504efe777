------------------------- MODULE RuntimeHelperProofs -------------------------
(***************************************************************************)
(* Proofs about RuntimeHelper for every set of connections and requests.   *)
(*                                                                         *)
(* The argument: the winner of the O_EXCL create is the only connection    *)
(* that ever writes the record of its request (Ownership), and what the    *)
(* record says, on disk as in the directory, is determined by how far that *)
(* winner has come (OwnerRecord).  A crash stops every task, so nobody     *)
(* owns the record any more, but a record that was synced stays: nobody    *)
(* can win the claim a second time.                                        *)
(***************************************************************************)
EXTENDS RuntimeHelper, TLAPS

\* The connection has won the claim, now or before a crash.
Claimer(c) == pc[c] \in Owning \/ Commanded(c)

\* Points at which the claim is known to be on stable storage.
Synced == {"inspect", "restart", "docker", "after", "complete", "syncdir"}

Ownership ==
  \A c, d \in Conns : req[c] = req[d] /\ Claimer(c) /\ Claimer(d) => c = d

OwnerRecord ==
  \A c \in Conns :
    /\ pc[c] = "write" => journal[req[c]] = "torn"
    /\ pc[c] \in {"write", "sync"} => durable[req[c]] = "none"
    /\ pc[c] \in {"sync", "inspect", "restart", "docker", "after", "complete"}
         => journal[req[c]] = "started"
    /\ pc[c] = "syncdir" =>
         journal[req[c]] = IF reply[c] = "success" THEN "success" ELSE "rejected"
    /\ pc[c] \in Synced => durable[req[c]] = "started"

DurableRecord ==
  /\ \A c \in Conns : Commanded(c) => durable[req[c]] # "none"
  /\ \A r \in Reqs :
       /\ durable[r] # "none" => journal[r] # "none"
       /\ durable[r] \in {"rejected", "success"} => journal[r] = durable[r]

\* Where a connection stands decides what it may have done and may say.
Progress ==
  \A c \in Conns :
    /\ pc[c] \in {"fresh", "connecting", "gate", "claim", "write", "sync",
                  "inspect", "restart"}
         => command[c] = "none" /\ reply[c] = "none"
    /\ pc[c] \in {"docker", "after"} => reply[c] = "none"
    /\ pc[c] = "after" => command[c] = "done"
    /\ pc[c] \in {"complete", "syncdir"} =>
         \/ reply[c] = "success" /\ command[c] = "done"
         \/ reply[c] = "notStarted" /\ command[c] = "none"
    /\ pc[c] \in {"fresh", "connecting"} => answer[c] = "none"
    /\ reply[c] = "notStarted" => command[c] = "none"
    /\ answer[c] = "notStarted" => command[c] = "none"
    /\ answer[c] \in {"success", "notStarted"} => pc[c] = "closed"

IInv == TypeOK /\ Ownership /\ OwnerRecord /\ DurableRecord /\ Progress

-------------------------------------------------------------------------------
\* The invariant holds of a fresh helper.
LEMMA InitIInv == Init => IInv
  BY DEF Init, IInv, TypeOK, Ownership, OwnerRecord, DurableRecord, Progress,
         Claimer, Commanded, Owning, Synced, Running, PC, Outcome, Disposition,
         Record

\* Every step of a connection, and every crash, keeps it.
LEMMA NextIInv == IInv /\ [Next]_vars => IInv'
  <1> SUFFICES ASSUME IInv, [Next]_vars
               PROVE  IInv'
    OBVIOUS
  <1> USE DEF IInv, TypeOK, Ownership, OwnerRecord, DurableRecord, Progress,
              Claimer, Commanded, Owning, Synced, Running, PC, Outcome,
              Disposition, Record, Goto, Respond
  <1>1. ASSUME NEW c \in Conns, Connect(c)
        PROVE  IInv'
    BY <1>1 DEF Connect
  <1>2. ASSUME NEW c \in Conns, Accept(c)
        PROVE  IInv'
    BY <1>2 DEF Accept
  <1>3. ASSUME NEW c \in Conns, HelperUnavailable(c)
        PROVE  IInv'
    BY <1>3 DEF HelperUnavailable
  <1>4. ASSUME NEW c \in Conns, Handle(c)
        PROVE  IInv'
    BY <1>4 DEF Handle
  <1>5. ASSUME NEW c \in Conns, CreateNew(c)
        PROVE  IInv'
    BY <1>5 DEF CreateNew, Unclaimed
  <1>6. ASSUME NEW c \in Conns, AlreadyExists(c)
        PROVE  IInv'
    BY <1>6 DEF AlreadyExists, DuplicateReply
  <1>7. ASSUME NEW c \in Conns, WriteStarted(c)
        PROVE  IInv'
    BY <1>7 DEF WriteStarted
  <1>8. ASSUME NEW c \in Conns, SyncClaim(c)
        PROVE  IInv'
    BY <1>8 DEF SyncClaim
  <1>9. ASSUME NEW c \in Conns, ClaimFails(c)
        PROVE  IInv'
    BY <1>9 DEF ClaimFails
  <1>10. ASSUME NEW c \in Conns, InspectBefore(c)
         PROVE  IInv'
    BY <1>10 DEF InspectBefore
  <1>11. ASSUME NEW c \in Conns, RestartExact(c)
         PROVE  IInv'
    BY <1>11 DEF RestartExact
  <1>12. ASSUME NEW c \in Conns, BackendReturns(c)
         PROVE  IInv'
    BY <1>12 DEF BackendReturns
  <1>13. ASSUME NEW c \in Conns, InspectAfter(c)
         PROVE  IInv'
    BY <1>13 DEF InspectAfter
  <1>14. ASSUME NEW c \in Conns, RenameCompleted(c)
         PROVE  IInv'
    BY <1>14 DEF RenameCompleted
  <1>15. ASSUME NEW c \in Conns, SyncCompleted(c)
         PROVE  IInv'
    BY <1>15 DEF SyncCompleted
  <1>16. ASSUME NEW c \in Conns, CompleteFails(c)
         PROVE  IInv'
    BY <1>16 DEF CompleteFails
  <1>17. ASSUME NEW c \in Conns, Reply(c)
         PROVE  IInv'
    BY <1>17 DEF Reply
  <1>18. ASSUME NEW c \in Conns, DockerRestarts(c)
         PROVE  IInv'
    BY <1>18 DEF DockerRestarts
  <1>19. ASSUME NEW c \in Conns, GiveUp(c)
         PROVE  IInv'
    BY <1>19 DEF GiveUp, LostDisposition
  <1>20. ASSUME NEW c \in Conns, DropConnection(c)
         PROVE  IInv'
    BY <1>20 DEF DropConnection
  <1>21. CASE HelperCrash
    BY <1>21 DEF HelperCrash, Killed
  <1>22. CASE HostCrash
    BY <1>22 DEF HostCrash, Killed, Survivors
  <1>23. CASE UNCHANGED vars
    BY <1>23 DEF vars
  <1>24. QED
    BY <1>1, <1>2, <1>3, <1>4, <1>5, <1>6, <1>7, <1>8, <1>9, <1>10, <1>11,
       <1>12, <1>13, <1>14, <1>15, <1>16, <1>17, <1>18, <1>19, <1>20, <1>21,
       <1>22, <1>23
       DEF Next, ServeStep

\* The strengthened invariant holds over any connections, retries and crashes.
THEOREM InductiveInvariant == Spec => []IInv
  BY InitIInv, NextIInv, PTL DEF Spec

-------------------------------------------------------------------------------
(* What was said about a request is true of it.                            *)

Truth ==
  /\ \A c \in Conns : Told(c, "success") => req[c] \in DoneReqs
  /\ \A r \in Reqs : "success" \in {journal[r], durable[r]} => r \in DoneReqs
  /\ \A c \in Conns :
       /\ Commanded(c)
       /\ \/ answer[c] = "success"
          \/ reply[c] = "success" /\ pc[c] \in {"reply", "closed"}
       => durable[req[c]] = "success"

\* Nothing has been answered or recorded at first.
LEMMA InitTruth == Init => Truth
  BY DEF Init, Truth, Told, Commanded

\* A restart that took place stays so; only completing it writes a success.
LEMMA DoneStays == IInv /\ [Next]_vars => DoneReqs \subseteq DoneReqs'
  <1> SUFFICES ASSUME IInv, [Next]_vars, NEW d \in Conns, command[d] = "done"
               PROVE  req' = req /\ command'[d] = "done"
    BY DEF DoneReqs
  <1>1. QED
    BY DEF IInv, TypeOK, Progress, Next, vars, ServeStep, Connect, Accept,
      HelperUnavailable, Handle, CreateNew, AlreadyExists, WriteStarted,
      SyncClaim, ClaimFails, InspectBefore, RestartExact, BackendReturns,
      InspectAfter, RenameCompleted, SyncCompleted, CompleteFails, Reply,
      DockerRestarts, GiveUp, DropConnection, HelperCrash, HostCrash, Goto

\* What is recorded and answered stays true of what was done.
LEMMA NextTruth == IInv /\ Truth /\ [Next]_vars => Truth'
  <1> SUFFICES ASSUME IInv, Truth, [Next]_vars
               PROVE  Truth'
    OBVIOUS
  <1>0. DoneReqs \subseteq DoneReqs'
    BY DoneStays
  <1>a. \A c \in Conns : command[c] = "done" => req[c] \in DoneReqs
    BY DEF DoneReqs, IInv, TypeOK
  <1> USE <1>0 DEF IInv, TypeOK, Ownership, OwnerRecord, DurableRecord, Progress,
              Truth, Told, Claimer, Commanded, Owning, Synced, Goto, Respond
  <1>1. ASSUME NEW c \in Conns, AlreadyExists(c)
        PROVE  Truth'
    BY <1>1 DEF AlreadyExists, DuplicateReply
  <1>2. ASSUME NEW c \in Conns, SyncClaim(c)
        PROVE  Truth'
    BY <1>2 DEF SyncClaim
  <1>3. ASSUME NEW c \in Conns, InspectAfter(c)
        PROVE  Truth'
    BY <1>3, <1>a DEF InspectAfter
  <1>4. ASSUME NEW c \in Conns, RenameCompleted(c)
        PROVE  Truth'
    BY <1>4, <1>a DEF RenameCompleted
  <1>5. ASSUME NEW c \in Conns, SyncCompleted(c)
        PROVE  Truth'
    BY <1>5, <1>a DEF SyncCompleted
  <1>6. ASSUME NEW c \in Conns, CompleteFails(c)
        PROVE  Truth'
    <2>1. reply'[c] # "success" /\ req' = req /\ command' = command
      BY <1>6 DEF CompleteFails
    <2>2. /\ \A d \in Conns \ {c} : reply'[d] = reply[d] /\ pc'[d] = pc[d]
          /\ answer' = answer /\ journal' = journal /\ durable' = durable
      BY <1>6 DEF CompleteFails
    <2>3. QED
      BY <2>1, <2>2
  <1>7. ASSUME NEW c \in Conns, Reply(c)
        PROVE  Truth'
    BY <1>7 DEF Reply
  <1>8. ASSUME NEW c \in Conns, RestartExact(c)
        PROVE  Truth'
    BY <1>8 DEF RestartExact
  <1>9. CASE HostCrash
    BY <1>9 DEF HostCrash, Killed, Survivors, Running
  <1>10. CASE HelperCrash
    BY <1>10 DEF HelperCrash, Killed, Running
  <1>11. ASSUME NEW c \in Conns,
                Connect(c) \/ Accept(c) \/ HelperUnavailable(c) \/ Handle(c)
                \/ GiveUp(c) \/ DropConnection(c)
         PROVE  Truth'
    BY <1>11 DEF Connect, Accept, HelperUnavailable, Handle, GiveUp,
                 DropConnection, LostDisposition
  <1>12. ASSUME NEW c \in Conns, CreateNew(c) \/ WriteStarted(c)
         PROVE  Truth'
    BY <1>12 DEF CreateNew, WriteStarted, Unclaimed
  <1>13. ASSUME NEW c \in Conns,
                ClaimFails(c) \/ InspectBefore(c) \/ BackendReturns(c)
         PROVE  Truth'
    BY <1>13 DEF ClaimFails, InspectBefore, BackendReturns
  <1>14. ASSUME NEW c \in Conns, DockerRestarts(c)
         PROVE  Truth'
    BY <1>14 DEF DockerRestarts
  <1>15. CASE UNCHANGED vars
    BY <1>15 DEF vars
  <1>16. QED
    BY <1>1, <1>2, <1>3, <1>4, <1>5, <1>6, <1>7, <1>8, <1>9, <1>10, <1>11,
       <1>12, <1>13, <1>14, <1>15
       DEF Next, ServeStep

\* Hence it is always true.
LEMMA TruthHolds == Spec => []Truth
  BY InductiveInvariant, InitTruth, NextTruth, PTL DEF Spec

-------------------------------------------------------------------------------
(* The properties the runs check, for every instance.                      *)

\* The variables of the helper keep their types.
THEOREM TypeCorrect == Spec => []TypeOK
  <1>1. IInv => TypeOK
    BY DEF IInv
  <1>2. QED
    BY <1>1, InductiveInvariant, PTL

\* Docker is given at most one restart command per request, over any number of
\* concurrent connections, client retries and crashes.
THEOREM AtMostOnce == Spec => []AtMostOneRestart
  <1>1. IInv => AtMostOneRestart
    BY DEF IInv, Ownership, Claimer, AtMostOneRestart
  <1>2. QED
    BY <1>1, InductiveInvariant, PTL

\* A reported success, cached or not, is backed by a restart that took place.
THEOREM SuccessIsTruthful == Spec => []SuccessMeansRestarted
  <1>1. Truth => SuccessMeansRestarted
    BY DEF Truth, SuccessMeansRestarted
  <1>2. QED
    BY <1>1, TruthHolds, PTL

\* A "not started" given to the only carrier of a request is true.
THEOREM NotStartedIsTruthful == Spec => []NotStartedIsTrue
  <1>1. IInv => NotStartedIsTrue
    BY DEF IInv, Progress, TypeOK, NotStartedIsTrue, Told, IssuedReqs, Commanded
  <1>2. QED
    BY <1>1, InductiveInvariant, PTL

\* A first-hand success a client received is on stable storage for good.
THEOREM AcknowledgementIsDurable == Spec => []AcknowledgedIsDurable
  <1>1. Truth => AcknowledgedIsDurable
    BY DEF Truth, AcknowledgedIsDurable
  <1>2. QED
    BY <1>1, TruthHolds, PTL

\* No step, crashes included, changes a completion that reached stable storage.
THEOREM CompletionStays == Spec => CompletionIsFinal
  <1>1. IInv /\ [Next]_vars =>
          [\A r \in Reqs : durable[r] \in {"rejected", "success"} =>
             durable'[r] = durable[r] /\ journal'[r] = durable[r]]_vars
    <2> SUFFICES ASSUME IInv, Next, NEW r \in Reqs,
                        durable[r] \in {"rejected", "success"}
                 PROVE  durable'[r] = durable[r] /\ journal'[r] = durable[r]
      BY DEF vars
    <2>1. journal[r] = durable[r]
      BY DEF IInv, DurableRecord
    <2>2. \A c \in Conns : req[c] = r => pc[c] \notin Owning
      BY DEF IInv, OwnerRecord, Owning, Synced
    <2>3. CASE HostCrash
      BY <2>1, <2>3 DEF HostCrash, Survivors
    <2>4. CASE HelperCrash
      BY <2>1, <2>4 DEF HelperCrash
    <2>5. ASSUME NEW c \in Conns, CreateNew(c) \/ WriteStarted(c) \/ SyncClaim(c)
                                  \/ RenameCompleted(c) \/ SyncCompleted(c)
          PROVE  durable'[r] = durable[r] /\ journal'[r] = durable[r]
      <3>1. req[c] # r
        BY <2>1, <2>2, <2>5 DEF CreateNew, Unclaimed, WriteStarted, SyncClaim,
             RenameCompleted, SyncCompleted, Goto, Owning
      <3>2. QED
        BY <2>1, <2>5, <3>1 DEF IInv, TypeOK, CreateNew, WriteStarted, SyncClaim,
             RenameCompleted, SyncCompleted
    <2>6. ASSUME NEW c \in Conns, UNCHANGED <<journal, durable>>
          PROVE  durable'[r] = durable[r] /\ journal'[r] = durable[r]
      BY <2>1, <2>6
    <2>7. QED
      BY <2>3, <2>4, <2>5, <2>6 DEF Next, ServeStep, Connect, Accept,
         HelperUnavailable, Handle, AlreadyExists, ClaimFails, InspectBefore,
         RestartExact, BackendReturns, InspectAfter, CompleteFails, Reply,
         DockerRestarts, GiveUp, DropConnection
  <1>2. QED
    BY <1>1, InductiveInvariant, PTL DEF Spec, CompletionIsFinal

-------------------------------------------------------------------------------
(* Refinement.                                                             *)

Bars == <<triesBar, phaseBar, vouchedBar, refusedBar>>

\* The initial states of the helper are initial states of RestartOnce.
LEMMA InitRefines == Init => RO!ROInit
  BY DEF Init, RO!ROInit, triesBar, phaseBar, vouchedBar, refusedBar, Carriers,
         DoneReqs, IssuedReqs, Commanded, Answered

\* A step that opens no connection, touches no command and answers nobody
\* definitely is invisible to RestartOnce.
LEMMA Invisible ==
  ASSUME TypeOK,
         req' = req,
         \A c \in Conns : (pc'[c] = "fresh") <=> (pc[c] = "fresh"),
         \A c \in Conns : Commanded(c)' <=> Commanded(c),
         \A c \in Conns : (command'[c] = "done") <=> (command[c] = "done"),
         \A c \in Conns, a \in {"success", "notStarted"} :
           (answer'[c] = a) <=> (answer[c] = a)
  PROVE  Bars' = Bars
  <1>1. triesBar' = triesBar
    BY DEF triesBar, Carriers
  <1>2. DoneReqs' = DoneReqs /\ IssuedReqs' = IssuedReqs
    BY DEF DoneReqs, IssuedReqs
  <1>3. phaseBar' = phaseBar
    BY <1>2 DEF phaseBar
  <1>4. vouchedBar' = vouchedBar /\ refusedBar' = refusedBar
    BY DEF vouchedBar, refusedBar, Answered
  <1>5. QED
    BY <1>1, <1>3, <1>4 DEF Bars

\* Every step of the helper is a step of RestartOnce or none.
LEMMA StepRefines == IInv /\ Truth /\ [Next]_vars => [RO!RONext]_Bars
  <1> SUFFICES ASSUME IInv, Truth, [Next]_vars
               PROVE  RO!RONext \/ Bars' = Bars
    BY DEF Bars
  <1> USE DEF IInv, TypeOK, Goto, Respond
  <1>1. ASSUME NEW c \in Conns, Connect(c)
        PROVE  RO!Try(req[c], c)
    <2>1. \A s \in Reqs : c \notin triesBar[s]
      BY <1>1 DEF Connect, triesBar, Carriers
    <2>2. triesBar' = [triesBar EXCEPT ![req[c]] = @ \union {c}]
      BY <1>1 DEF Connect, triesBar, Carriers
    <2>3. phaseBar' = phaseBar /\ vouchedBar' = vouchedBar /\ refusedBar' = refusedBar
      BY <1>1 DEF Connect, phaseBar, DoneReqs, IssuedReqs, Commanded, vouchedBar,
                  refusedBar, Answered
    <2>4. QED
      BY <2>1, <2>2, <2>3 DEF RO!Try
  <1>2. ASSUME NEW c \in Conns, RestartExact(c)
        PROVE  RO!Issue(req[c])
    <2>1. req[c] \notin IssuedReqs /\ req[c] \notin DoneReqs
      BY <1>2 DEF RestartExact, IssuedReqs, DoneReqs, Ownership, Claimer, Owning,
                  Commanded, Progress
    <2>2. c \in triesBar[req[c]]
      BY <1>2 DEF RestartExact, triesBar, Carriers
    <2>3. ASSUME req[c] \in refusedBar
          PROVE  \E t, u \in triesBar[req[c]] : t # u
      <3>1. PICK d \in Conns : req[d] = req[c] /\ answer[d] = "notStarted"
        BY <2>3 DEF refusedBar, Answered
      <3>2. d # c /\ pc[d] # "fresh"
        BY <1>2, <3>1 DEF Progress, RestartExact
      <3>3. QED
        BY <2>2, <3>1, <3>2 DEF triesBar, Carriers
    <2>4. DoneReqs' = DoneReqs /\ IssuedReqs' = IssuedReqs \union {req[c]}
      BY <1>2 DEF RestartExact, DoneReqs, IssuedReqs, Commanded, Progress
    <2>5. phaseBar[req[c]] = "untouched"
          /\ phaseBar' = [phaseBar EXCEPT ![req[c]] = "issued"]
      BY <2>1, <2>4 DEF phaseBar
    <2>6. triesBar' = triesBar /\ vouchedBar' = vouchedBar /\ refusedBar' = refusedBar
      BY <1>2 DEF RestartExact, triesBar, Carriers, vouchedBar, refusedBar, Answered
    <2>7. QED
      BY <2>2, <2>3, <2>5, <2>6 DEF RO!Issue, RO!TriedAgain
  <1>3. ASSUME NEW c \in Conns, DockerRestarts(c)
        PROVE  RO!Restarted(req[c])
    <2>1. req[c] \in IssuedReqs /\ req[c] \notin DoneReqs
      BY <1>3 DEF DockerRestarts, IssuedReqs, DoneReqs, Ownership, Claimer, Commanded
    <2>2. DoneReqs' = DoneReqs \union {req[c]} /\ IssuedReqs' = IssuedReqs
      BY <1>3 DEF DockerRestarts, DoneReqs, IssuedReqs, Commanded
    <2>3. phaseBar[req[c]] = "issued"
          /\ phaseBar' = [phaseBar EXCEPT ![req[c]] = "done"]
      BY <2>1, <2>2 DEF phaseBar
    <2>4. triesBar' = triesBar /\ vouchedBar' = vouchedBar /\ refusedBar' = refusedBar
      BY <1>3 DEF DockerRestarts, triesBar, Carriers, vouchedBar, refusedBar, Answered
    <2>5. QED
      BY <2>3, <2>4 DEF RO!Restarted
  <1>4. ASSUME NEW c \in Conns, HelperUnavailable(c)
        PROVE  RO!Refuse(req[c])
    <2>1. c \in triesBar[req[c]]
      BY <1>4 DEF HelperUnavailable, triesBar, Carriers
    <2>2. refusedBar' = refusedBar \union {req[c]} /\ vouchedBar' = vouchedBar
      BY <1>4 DEF HelperUnavailable, refusedBar, vouchedBar, Answered, Progress
    <2>3. triesBar' = triesBar /\ phaseBar' = phaseBar
      BY <1>4 DEF HelperUnavailable, triesBar, Carriers, phaseBar, DoneReqs,
                  IssuedReqs, Commanded
    <2>4. phaseBar[req[c]] = "untouched" \/ \E t, u \in triesBar[req[c]] : t # u
      <3>1. CASE req[c] \notin IssuedReqs
        BY <3>1 DEF phaseBar, IssuedReqs, DoneReqs, Commanded
      <3>2. CASE req[c] \in IssuedReqs
        <4>1. PICK d \in Conns : req[d] = req[c] /\ Commanded(d)
          BY <3>2 DEF IssuedReqs
        <4>2. d # c /\ pc[d] # "fresh"
          BY <1>4, <4>1 DEF HelperUnavailable, Progress, Commanded
        <4>3. QED
          BY <2>1, <4>1, <4>2 DEF triesBar, Carriers
      <3>3. QED
        BY <3>1, <3>2
    <2>5. QED
      BY <2>1, <2>2, <2>3, <2>4 DEF RO!Refuse, RO!TriedAgain
  <1>5. ASSUME NEW c \in Conns, Reply(c)
        PROVE  RO!RONext \/ Bars' = Bars
    <2>0. triesBar' = triesBar /\ phaseBar' = phaseBar
      BY <1>5 DEF Reply, triesBar, Carriers, phaseBar, DoneReqs, IssuedReqs, Commanded
    <2>1. CASE answer[c] = "none" /\ reply[c] = "success"
      <3>1. vouchedBar' = vouchedBar \union {req[c]} /\ refusedBar' = refusedBar
        BY <1>5, <2>1 DEF Reply, vouchedBar, refusedBar, Answered
      <3>2. phaseBar[req[c]] = "done"
        BY <2>1 DEF Truth, Told, phaseBar
      <3>3. RO!Vouch(req[c])
        BY <2>0, <3>1, <3>2 DEF RO!Vouch
      <3>4. QED
        BY <3>3 DEF RO!RONext, RO!ROStep
    <2>2. CASE answer[c] = "none" /\ reply[c] = "notStarted"
      <3>1. refusedBar' = refusedBar \union {req[c]} /\ vouchedBar' = vouchedBar
        BY <1>5, <2>2 DEF Reply, vouchedBar, refusedBar, Answered
      <3>2. c \in triesBar[req[c]]
        BY <1>5 DEF Reply, triesBar, Carriers
      <3>3. phaseBar[req[c]] = "untouched" \/ \E t, u \in triesBar[req[c]] : t # u
        <4>1. CASE req[c] \notin IssuedReqs
          BY <4>1 DEF phaseBar, IssuedReqs, DoneReqs, Commanded
        <4>2. CASE req[c] \in IssuedReqs
          <5>1. PICK d \in Conns : req[d] = req[c] /\ Commanded(d)
            BY <4>2 DEF IssuedReqs
          <5>2. d # c /\ pc[d] # "fresh"
            BY <2>2, <5>1 DEF Progress, Commanded
          <5>3. QED
            BY <3>2, <5>1, <5>2 DEF triesBar, Carriers
        <4>3. QED
          BY <4>1, <4>2
      <3>4. RO!Refuse(req[c])
        BY <2>0, <3>1, <3>2, <3>3 DEF RO!Refuse, RO!TriedAgain
      <3>5. QED
        BY <3>4 DEF RO!RONext, RO!ROStep
    <2>3. CASE answer[c] # "none" \/ reply[c] \notin {"success", "notStarted"}
      <3>1. vouchedBar' = vouchedBar /\ refusedBar' = refusedBar
        BY <1>5, <2>3 DEF Reply, vouchedBar, refusedBar, Answered
      <3>2. QED
        BY <2>0, <3>1 DEF Bars
    <2>4. QED
      BY <2>1, <2>2, <2>3
  <1>6. ASSUME NEW c \in Conns,
               \/ Accept(c) \/ Handle(c) \/ CreateNew(c) \/ AlreadyExists(c)
               \/ WriteStarted(c) \/ SyncClaim(c) \/ ClaimFails(c)
               \/ InspectBefore(c) \/ BackendReturns(c) \/ InspectAfter(c)
               \/ RenameCompleted(c) \/ SyncCompleted(c) \/ CompleteFails(c)
               \/ GiveUp(c) \/ DropConnection(c)
        PROVE  Bars' = Bars
    <2>1. req' = req /\ command' = command
      BY <1>6 DEF Accept, Handle, CreateNew, AlreadyExists, WriteStarted, SyncClaim,
         ClaimFails, InspectBefore, BackendReturns, InspectAfter, RenameCompleted,
         SyncCompleted, CompleteFails, GiveUp, DropConnection
    <2>2. \A d \in Conns : (pc'[d] = "fresh") <=> (pc[d] = "fresh")
      BY <1>6 DEF Accept, Handle, CreateNew, AlreadyExists, WriteStarted, SyncClaim,
         ClaimFails, InspectBefore, BackendReturns, InspectAfter, RenameCompleted,
         SyncCompleted, CompleteFails, GiveUp, DropConnection
    <2>3. \A d \in Conns, a \in {"success", "notStarted"} :
            (answer'[d] = a) <=> (answer[d] = a)
      BY <1>6 DEF Accept, Handle, CreateNew, AlreadyExists, WriteStarted, SyncClaim,
         ClaimFails, InspectBefore, BackendReturns, InspectAfter, RenameCompleted,
         SyncCompleted, CompleteFails, GiveUp, DropConnection, LostDisposition
    <2>4. QED
      BY <2>1, <2>2, <2>3, Invisible DEF Commanded
  <1>7. CASE HelperCrash \/ HostCrash \/ UNCHANGED vars
    <2>1. /\ req' = req /\ answer' = answer
          /\ \A d \in Conns : (pc'[d] = "fresh") <=> (pc[d] = "fresh")
          /\ \A d \in Conns : Commanded(d)' <=> Commanded(d)
          /\ \A d \in Conns : (command'[d] = "done") <=> (command[d] = "done")
      BY <1>7 DEF HelperCrash, HostCrash, Killed, Running, Owning, vars, Commanded
    <2>2. QED
      BY <2>1, Invisible
  <1>8. QED
    BY <1>1, <1>2, <1>3, <1>4, <1>5, <1>6, <1>7
       DEF Next, ServeStep, RO!RONext, RO!ROStep

\* The helper, seen from its callers, is the at-most-once restarter of
\* RestartOnce.
THEOREM Refinement == Spec => ImplementsRestartOnce
  <1>1. IInv /\ Truth /\ [Next]_vars => [RO!RONext]_RO!roVars
    BY StepRefines DEF RO!roVars, Bars
  <1>2. QED
    BY <1>1, InitRefines, InductiveInvariant, TruthHolds, PTL
       DEF Spec, RO!ROSpec, ImplementsRestartOnce
==============================================================================
