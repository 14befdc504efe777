---------------------------- MODULE RuntimeHelper ----------------------------
(***************************************************************************)
(* The host runtime helper (apps/runtime-helper) serving restart requests, *)
(* with the client of crates/nopager-connectors/src/docker_ops.rs on the   *)
(* other side of the socket.                                               *)
(*                                                                         *)
(* Every connection is served by a task of its own, so several connections *)
(* that carry the same request id run concurrently.  They meet in the      *)
(* journal: one file per request id, created with O_EXCL before Docker is  *)
(* called and replaced (temporary file + rename) when the outcome is       *)
(* known.  `journal` is what a reader of the directory sees, `durable`     *)
(* what would be left after a power failure.  Tasks may be dropped at an   *)
(* await, the helper may be killed, the host may go down.                  *)
(*                                                                         *)
(* Abstracted: the one enrolled target (a request for any other one fails  *)
(* the gate), the contents of an inspection (only its verdict matters),    *)
(* error codes (only the mutation disposition matters), inspect requests   *)
(* (they change nothing).                                                  *)
(***************************************************************************)
CONSTANTS
  Conns,   \* connections; each is opened at most once and carries one request
  Reqs     \* request ids

VARIABLES
  req,       \* req[c]: the request id connection c carries
  genuine,   \* genuine[c]: version, peer uid, credential and target all match
  pc,        \* pc[c]: where the task serving c stands
  reply,     \* reply[c]: the disposition the task will answer with
  command,   \* command[c]: the restart command c handed to Docker, if any
  answer,    \* answer[c]: what the client's call returned
  journal,   \* journal[r]: the record of r as any reader sees it now
  durable    \* durable[r]: the record of r on stable storage

vars == <<req, genuine, pc, reply, command, answer, journal, durable>>

Disposition == {"notStarted", "ambiguous", "success"}
Outcome     == Disposition \union {"none"}

\* A journal file is absent, created but not fully written, Started, or
\* Completed with the rejection or the success it caches.
Record == {"none", "torn", "started", "rejected", "success"}

\* Points of a task that has won the claim of its request.
Owning == {"write", "sync", "inspect", "restart", "docker", "after",
           "complete", "syncdir"}
Running == Owning \union {"gate", "claim", "reply"}
PC      == Running \union {"fresh", "connecting", "closed", "dead"}

TypeOK ==
  /\ req \in [Conns -> Reqs]
  /\ genuine \in [Conns -> BOOLEAN]
  /\ pc \in [Conns -> PC]
  /\ reply \in [Conns -> Outcome]
  /\ command \in [Conns -> {"none", "issued", "done", "lost"}]
  /\ answer \in [Conns -> Outcome]
  /\ journal \in [Reqs -> Record]
  /\ durable \in [Reqs -> Record]

Init ==
  /\ req \in [Conns -> Reqs]
  /\ genuine \in [Conns -> BOOLEAN]
  /\ pc = [c \in Conns |-> "fresh"]
  /\ reply = [c \in Conns |-> "none"]
  /\ command = [c \in Conns |-> "none"]
  /\ answer = [c \in Conns |-> "none"]
  /\ journal = [r \in Reqs |-> "none"]
  /\ durable = [r \in Reqs |-> "none"]

Goto(c, from, to) == pc[c] = from /\ pc' = [pc EXCEPT ![c] = to]

\* The task has decided on its response; what remains is writing it out.
Respond(c, from, disposition) ==
  /\ Goto(c, from, "reply")
  /\ reply' = [reply EXCEPT ![c] = disposition]

-------------------------------------------------------------------------------
(* The connection and the gates in front of the journal.                   *)

Connect(c) ==
  /\ Goto(c, "fresh", "connecting")
  /\ UNCHANGED <<req, genuine, reply, command, answer, journal, durable>>

Accept(c) ==
  /\ Goto(c, "connecting", "gate")
  /\ UNCHANGED <<req, genuine, reply, command, answer, journal, durable>>

\* The client could not connect in time: nothing was sent.
HelperUnavailable(c) ==
  /\ Goto(c, "connecting", "closed")
  /\ answer' = [answer EXCEPT ![c] = "notStarted"]
  /\ UNCHANGED <<req, genuine, reply, command, journal, durable>>

Handle(c) ==
  /\ \/ genuine[c] /\ Goto(c, "gate", "claim") /\ UNCHANGED reply
     \/ ~genuine[c] /\ Respond(c, "gate", "notStarted")
  /\ UNCHANGED <<req, genuine, command, answer, journal, durable>>

-------------------------------------------------------------------------------
(* RequestJournal::claim.                                                  *)

\* Regression: a claim that only refuses requests it has seen completed.
UnclaimedOrStarted(r) == journal[r] \in {"none", "started"}

\* Whether create_new can succeed for this request.
Unclaimed(r) == journal[r] = "none"

CreateNew(c) ==
  /\ Unclaimed(req[c])
  /\ Goto(c, "claim", "write")
  /\ journal' = [journal EXCEPT ![req[c]] = "torn"]
  /\ UNCHANGED <<req, genuine, reply, command, answer, durable>>

\* Regression: a duplicate of a request in progress is waved through.
DuplicateReplyHopeful(record) ==
  IF record \in {"started", "success"} THEN "success" ELSE "notStarted"

\* What a duplicate is told, from the record it reads: ambiguous when the
\* record is Started, otherwise the cached response.  A record that cannot be
\* parsed makes claim fail, which restart() reports as "not started".
DuplicateReply(record) ==
  IF record = "started" THEN "ambiguous"
  ELSE IF record = "success" THEN "success"
  ELSE "notStarted"

AlreadyExists(c) ==
  /\ journal[req[c]] # "none"
  /\ Respond(c, "claim", DuplicateReply(journal[req[c]]))
  /\ UNCHANGED <<req, genuine, command, answer, journal, durable>>

WriteStarted(c) ==
  /\ Goto(c, "write", "sync")
  /\ journal' = [journal EXCEPT ![req[c]] = "started"]
  /\ UNCHANGED <<req, genuine, reply, command, answer, durable>>

\* Regression: a claim that is not synced before Docker is called.
SkipSyncClaim(c) ==
  /\ Goto(c, "sync", "inspect")
  /\ UNCHANGED <<req, genuine, reply, command, answer, journal, durable>>

\* sync_all on the file, then on the directory.
SyncClaim(c) ==
  /\ Goto(c, "sync", "inspect")
  /\ durable' = [durable EXCEPT ![req[c]] = journal[req[c]]]
  /\ UNCHANGED <<req, genuine, reply, command, answer, journal>>

\* write_all or sync_all fails: the file stays, the mutation is given up.
ClaimFails(c) ==
  /\ \E from \in {"write", "sync"} : Respond(c, from, "notStarted")
  /\ UNCHANGED <<req, genuine, command, answer, journal, durable>>

-------------------------------------------------------------------------------
(* RuntimeExecutor::restart after a successful claim.                      *)

InspectBefore(c) ==
  /\ \/ Goto(c, "inspect", "restart") /\ UNCHANGED reply
     \/ /\ Goto(c, "inspect", "complete")
        /\ reply' = [reply EXCEPT ![c] = "notStarted"]
  /\ UNCHANGED <<req, genuine, command, answer, journal, durable>>

RestartExact(c) ==
  /\ Goto(c, "restart", "docker")
  /\ command' = [command EXCEPT ![c] = "issued"]
  /\ UNCHANGED <<req, genuine, reply, answer, journal, durable>>

\* The daemon acts on the command, whether or not anyone still waits for it.
DockerRestarts(c) ==
  /\ command[c] = "issued"
  /\ command' = [command EXCEPT ![c] = "done"]
  /\ UNCHANGED <<req, genuine, pc, reply, answer, journal, durable>>

\* Regression: a restart error taken for proof that nothing happened.
BackendErrorIsNotStarted(c) ==
  /\ \/ command[c] = "done" /\ Goto(c, "docker", "after") /\ UNCHANGED reply
     \/ Respond(c, "docker", "notStarted")
  /\ UNCHANGED <<req, genuine, command, answer, journal, durable>>

\* The command line tool exited with success, or failed or timed out.
BackendReturns(c) ==
  /\ \/ command[c] = "done" /\ Goto(c, "docker", "after") /\ UNCHANGED reply
     \/ Respond(c, "docker", "ambiguous")
  /\ UNCHANGED <<req, genuine, command, answer, journal, durable>>

InspectAfter(c) ==
  /\ \/ /\ Goto(c, "after", "complete")
        /\ reply' = [reply EXCEPT ![c] = "success"]
     \/ Respond(c, "after", "ambiguous")
  /\ UNCHANGED <<req, genuine, command, answer, journal, durable>>

-------------------------------------------------------------------------------
(* RequestJournal::complete.                                               *)

RenameCompleted(c) ==
  /\ Goto(c, "complete", "syncdir")
  /\ journal' = [journal EXCEPT ![req[c]] =
                   IF reply[c] = "success" THEN "success" ELSE "rejected"]
  /\ UNCHANGED <<req, genuine, reply, command, answer, durable>>

SyncCompleted(c) ==
  /\ Goto(c, "syncdir", "reply")
  /\ durable' = [durable EXCEPT ![req[c]] = journal[req[c]]]
  /\ UNCHANGED <<req, genuine, reply, command, answer, journal>>

\* Regression: a failure of complete() that does not change the response.
CompleteFailureIgnored(c) ==
  /\ \E from \in {"complete", "syncdir"} : Respond(c, from, reply[c])
  /\ UNCHANGED <<req, genuine, command, answer, journal, durable>>

\* complete() fails: a success turns ambiguous, a rejection is sent all the
\* same (its result is ignored).
CompleteFails(c) ==
  /\ \E from \in {"complete", "syncdir"} :
       Respond(c, from, IF reply[c] = "success" THEN "ambiguous" ELSE reply[c])
  /\ UNCHANGED <<req, genuine, command, answer, journal, durable>>

-------------------------------------------------------------------------------
(* The response, the client, and failures.                                 *)

Reply(c) ==
  /\ Goto(c, "reply", "closed")
  /\ answer' = [answer EXCEPT ![c] = IF @ = "none" THEN reply[c] ELSE @]
  /\ UNCHANGED <<req, genuine, reply, command, journal, durable>>

\* Regression: the disposition exchange uses for calls that mutate nothing.
LostInspectDisposition == "notStarted"

\* What a mutating exchange reports once bytes were sent and no valid response
\* came back.
LostDisposition == "ambiguous"

\* The client's timeout expires or its stream breaks.  The helper's task, if
\* it still runs, is not told.
GiveUp(c) ==
  /\ pc[c] \notin {"fresh", "connecting"}
  /\ answer[c] = "none"
  /\ answer' = [answer EXCEPT ![c] = LostDisposition]
  /\ UNCHANGED <<req, genuine, pc, reply, command, journal, durable>>

\* The connection limit drops the stream, or its lifetime ends while the task
\* awaits: claim and complete run without an await and are not cut short.
DropConnection(c) ==
  /\ \E from \in {"gate", "inspect", "docker", "after", "reply"} :
       Goto(c, from, "dead")
  /\ UNCHANGED <<req, genuine, reply, command, answer, journal, durable>>

Killed == [c \in Conns |-> IF pc[c] \in Running THEN "dead" ELSE pc[c]]

HelperCrash ==
  /\ \E c \in Conns : pc[c] \in Running
  /\ pc' = Killed
  /\ UNCHANGED <<req, genuine, reply, command, answer, journal, durable>>

\* What may be found of a record after a power failure: the synced version,
\* the latest one, or a Started file whose content never reached the disk.
Survivors(r) ==
  {durable[r], journal[r]} \union
    (IF journal[r] = "started" /\ durable[r] # "started" THEN {"torn"} ELSE {})

HostCrash ==
  /\ pc' = Killed
  /\ journal' \in {f \in [Reqs -> Record] : \A r \in Reqs : f[r] \in Survivors(r)}
  /\ durable' = journal'
  /\ command' = [c \in Conns |-> IF command[c] = "issued" THEN "lost"
                                 ELSE command[c]]
  /\ UNCHANGED <<req, genuine, reply, answer>>

ServeStep(c) ==
  \/ Handle(c)
  \/ CreateNew(c) \/ AlreadyExists(c) \/ WriteStarted(c) \/ SyncClaim(c)
  \/ ClaimFails(c)
  \/ InspectBefore(c) \/ RestartExact(c) \/ BackendReturns(c) \/ InspectAfter(c)
  \/ RenameCompleted(c) \/ SyncCompleted(c) \/ CompleteFails(c)
  \/ Reply(c)

Next ==
  \/ \E c \in Conns : \/ Connect(c) \/ Accept(c) \/ HelperUnavailable(c)
                      \/ ServeStep(c)
                      \/ DockerRestarts(c) \/ GiveUp(c) \/ DropConnection(c)
  \/ HelperCrash
  \/ HostCrash

Spec == Init /\ [][Next]_vars

-------------------------------------------------------------------------------
(* Properties.                                                             *)

Commanded(c) == command[c] # "none"
IssuedReqs   == {r \in Reqs : \E c \in Conns : req[c] = r /\ Commanded(c)}
DoneReqs     == {r \in Reqs : \E c \in Conns : req[c] = r /\ command[c] = "done"}
Told(c, disposition) == disposition \in {reply[c], answer[c]}

\* However often a request is sent, concurrently or after a crash of the helper
\* or of its host, Docker is given at most one restart command for it: the
\* O_EXCL claim is on stable storage before the command is issued.
AtMostOneRestart ==
  \A c, d \in Conns :
    req[c] = req[d] /\ Commanded(c) /\ Commanded(d) => c = d

\* Success, cached or first-hand, is reported only for a request whose restart
\* Docker has carried out.
SuccessMeansRestarted ==
  \A c \in Conns : Told(c, "success") => req[c] \in DoneReqs

\* A caller told "not started" over a connection that was the only one to carry
\* its request can act on it: no restart command exists for the request.
NotStartedIsTrue ==
  \A c \in Conns :
    /\ Told(c, "notStarted")
    /\ \A d \in Conns \ {c} : req[d] = req[c] => pc[d] = "fresh"
    => req[c] \notin IssuedReqs

\* A first-hand success that a client received survives any later crash: its
\* record is on stable storage before the response is written.
AcknowledgedIsDurable ==
  \A c \in Conns :
    answer[c] = "success" /\ Commanded(c) => durable[req[c]] = "success"

\* Once a completion is on stable storage it is what every later reader finds.
CompletionIsFinal ==
  [][\A r \in Reqs : durable[r] \in {"rejected", "success"} =>
       durable'[r] = durable[r] /\ journal'[r] = durable[r]]_vars

-------------------------------------------------------------------------------
(* The helper implements RestartOnce.                                      *)

Carriers(r) == {c \in Conns : req[c] = r /\ pc[c] # "fresh"}
Answered(r, disposition) == \E c \in Conns : req[c] = r /\ answer[c] = disposition

triesBar   == [r \in Reqs |-> Carriers(r)]
phaseBar   == [r \in Reqs |-> IF r \in DoneReqs THEN "done"
                              ELSE IF r \in IssuedReqs THEN "issued"
                              ELSE "untouched"]
vouchedBar == {r \in Reqs : Answered(r, "success")}
refusedBar == {r \in Reqs : Answered(r, "notStarted")}

RO == INSTANCE RestartOnce WITH
        Tries <- Conns, tries <- triesBar, phase <- phaseBar,
        vouched <- vouchedBar, refused <- refusedBar

\* Seen from its callers the helper behaves as RestartOnce says.
ImplementsRestartOnce == RO!ROSpec
==============================================================================
