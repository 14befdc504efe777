------------------------------ MODULE Handlers ------------------------------
(***************************************************************************)
(* What every job handler of the worker is made of: the loop of            *)
(* apps/worker/src/main.rs that claims a job, runs its handler and records *)
(* the outcome, and the calls of crates/nopager-db by which a handler      *)
(* moves its incident and enqueues further jobs.  Deployment, Landing and  *)
(* SourceRecovery instantiate this module and add the handlers of their    *)
(* own jobs.                                                               *)
(*                                                                         *)
(* One incident.  A job is <<kind, number>>, which stands for its          *)
(* idempotency key.  Handlers run on several worker processes at once; a   *)
(* handler touches the database or a provider one call at a time, each     *)
(* call is an action, and between two of them anything may happen.  An     *)
(* operator here constrains the five variables of this module, and leaves  *)
(* the rest to the action that uses it.                                    *)
(***************************************************************************)
EXTENDS Naturals, IncidentStates

CONSTANTS
  Jobs,         \* idempotency keys
  MaxAttempts,  \* MaxAttempts[j]: the attempts job j is enqueued with
  Workers,      \* worker processes
  NameOf,       \* their worker ids
  Handled,      \* the kinds of job the instantiating module has handlers for
  Blank,        \* the local state of a handler that has read nothing
  Fragile,      \* bound: <<kind, point>>: where a call may fail
  MayCrash      \* bound: whether processes die

VARIABLES
  incident,  \* the incident's state
  job,       \* the queue
  lease,     \* what each worker is running
  pc,        \* where its handler stands
  work       \* what the handler has read

Q == INSTANCE JobQueue

\* Where a handler is done: "ok" and "err" are its two results, at "escalate" it
\* (or main, after the last attempt) calls escalate_incident.
Ends == {"idle", "ok", "err", "escalate"}

Idle ==
  /\ Q!Init
  /\ pc = [w \in Workers |-> "idle"]
  /\ work = [w \in Workers |-> Blank]

KindOf(w) == lease[w].job[1]
Number(w) == lease[w].job[2]

Running(w) == lease[w] # Q!NoLease

-------------------------------------------------------------------------------
(* Steps handlers are made of.                                             *)

\* A handler goes on with what it has read; at its end it forgets it.
Read(w, from, to, seen) ==
  /\ pc[w] = from
  /\ pc' = [pc EXCEPT ![w] = to]
  /\ work' = [work EXCEPT ![w] = IF to \in Ends THEN Blank ELSE seen]

Goto(w, from, to) == Read(w, from, to, work[w])

Choose(w, from, to) ==
  /\ Goto(w, from, to)
  /\ UNCHANGED <<incident, job, lease>>

\* Where a handler that has nothing more to do goes: main completes its job, or,
\* when main itself called, looks for the next one.
Return(w) == IF Running(w) THEN "ok" ELSE "idle"
Fail(w)   == IF Running(w) THEN "err" ELSE "idle"

\* transition_incident: a compare-and-set of the incident's state, with its event
\* and audit record; an error when the state is no longer the expected one.
Transition(w, from, expected, next, to) ==
  /\ IF CanTransition(expected, next) /\ incident = expected
     THEN incident' = next /\ Goto(w, from, to)
     ELSE UNCHANGED incident /\ Goto(w, from, Fail(w))
  /\ UNCHANGED <<job, lease>>

EnqueueStep(w, from, j, to) ==
  /\ Goto(w, from, to)
  /\ job' = Q!Enqueued({j})
  /\ UNCHANGED <<incident, lease>>

\* escalate_incident: read the state, leave a settled incident alone, otherwise
\* move it from the state that was read.
EscalateRead(w) ==
  /\ Read(w, "escalate",
          IF incident \in Settled THEN Return(w) ELSE "escalate.move",
          [Blank EXCEPT !.state = incident])
  /\ UNCHANGED <<incident, job, lease>>

EscalateMove(w) ==
  /\ pc[w] = "escalate.move"
  /\ Transition(w, "escalate.move", work[w].state, "Escalated", Return(w))

-------------------------------------------------------------------------------
(* The worker's loop.                                                      *)

\* claim_next, and main's dispatch on the kind of job.
ClaimNext(w) ==
  /\ pc[w] = "idle"
  /\ \E j \in Jobs :
       /\ j[1] \in Handled
       /\ Q!ClaimNext(w, j)
       /\ Goto(w, "idle", j[1])
  /\ UNCHANGED incident

CompleteJob(w) ==
  /\ Goto(w, "ok", "idle")
  /\ Q!CompleteJob(w)
  /\ UNCHANGED incident

\* After the last attempt, main escalates the incident in a step of its own.
FailJob(w) ==
  /\ Goto(w, "err", IF Q!LastAttempt(w) THEN "escalate" ELSE "idle")
  /\ Q!FailJob(w)
  /\ UNCHANGED incident

\* A statement or a provider fails, possibly after it took effect; the handler
\* returns the error.
StepFails(w) ==
  /\ Running(w)
  /\ <<KindOf(w), pc[w]>> \in Fragile
  /\ Goto(w, pc[w], "err")
  /\ UNCHANGED <<incident, job, lease>>

\* The process dies, or ends on an error of its loop; its job stays RUNNING.
Crash(w) ==
  /\ MayCrash
  /\ pc[w] # "idle"
  /\ Goto(w, pc[w], "idle")
  /\ lease' = [lease EXCEPT ![w] = Q!NoLease]
  /\ UNCHANGED <<incident, job>>

LoopStep(w) ==
  \/ ClaimNext(w) \/ CompleteJob(w) \/ FailJob(w)
  \/ EscalateRead(w) \/ EscalateMove(w)

Fault(w) == StepFails(w) \/ Crash(w)
=============================================================================
