---------------------------- MODULE HealthMonitor ----------------------------
(***************************************************************************)
(* Health monitoring of one protected application: the workers probe its   *)
(* URL (process_health_check) and record what they saw in the check's row  *)
(* (record_health_observation of crates/nopager-db), which may open an     *)
(* incident in the same transaction.  The HealthDebouncer of               *)
(* crates/nopager-monitor, the definition of "down" that has a test, is    *)
(* run beside the row on the same observations.                            *)
(*                                                                         *)
(* A probe is made outside any transaction, and several workers may be     *)
(* between probing and recording; a probe may be lost with its process or  *)
(* made again by a retry, so that any worker may probe at any time.        *)
(*                                                                         *)
(* Abstracted: the URL check itself (external), intervals and time, what   *)
(* happens to an incident between its opening and its end (Operations).    *)
(***************************************************************************)
EXTENDS Naturals

CONSTANTS
  Workers,     \* worker processes
  Incidents,   \* incidents the check may open, in all
  MaxProbes    \* bound: probes made

ASSUME MonitorAssumption == MaxProbes \in Nat

VARIABLES
  check,       \* the row of health_checks: status and the two counters
  incident,    \* incident[i]: absent, open (or paused), resolved, or
               \* closed otherwise (escalated for short)
  seen,        \* seen[w]: what w has seen and not yet recorded
  probes,      \* probes made, for the bound
  debouncer,   \* a HealthDebouncer fed with the recorded observations
  recent,      \* history: the last three recorded observations
  attended     \* history: an incident was open since the check last went down

ghostVars == <<debouncer, recent, attended>>

vars == <<check, incident, seen, probes, ghostVars>>

Status      == {"HEALTHY", "FAILING", "DOWN"}
Observation == {"success", "failure"}
NotSeen     == "nothing"

TypeOK ==
  /\ check \in [status : Status, failures : Nat, successes : Nat]
  /\ incident \in [Incidents -> {"absent", "open", "resolved", "escalated"}]
  /\ seen \in [Workers -> Observation \union {NotSeen}]
  /\ probes \in 0..MaxProbes
  /\ debouncer \in [status : {"Unknown", "Healthy", "Failing", "Down"},
                    failures : Nat, successes : Nat]
  /\ recent \in [1..3 -> Observation \union {NotSeen}]
  /\ attended \in BOOLEAN

\* Setup writes the row after a first successful check of its own.
Init ==
  /\ check = [status |-> "HEALTHY", failures |-> 0, successes |-> 1]
  /\ incident = [i \in Incidents |-> "absent"]
  /\ seen = [w \in Workers |-> NotSeen]
  /\ probes = 0
  /\ debouncer = [status |-> "Unknown", failures |-> 0, successes |-> 0]
  /\ recent = [k \in 1..3 |-> NotSeen]
  /\ attended = FALSE

-------------------------------------------------------------------------------
(* HealthDebouncer::observe, with the default thresholds.                  *)

FailureThreshold  == 3
RecoveryThreshold == 2

Observe(d, observation) ==
  IF observation = "failure"
  THEN [successes |-> 0,
        failures  |-> d.failures + 1,
        status    |-> IF d.status = "Down" \/ d.failures + 1 >= FailureThreshold
                      THEN "Down" ELSE "Failing"]
  ELSE [failures  |-> 0,
        successes |-> d.successes + 1,
        status    |-> IF d.status = "Down" /\ d.successes + 1 < RecoveryThreshold
                      THEN "Down" ELSE "Healthy"]

-------------------------------------------------------------------------------
(* The row.                                                                *)

\* Regression: a success does not reset the failures.
SucceededKeepsFailures(row) ==
  [failures  |-> row.failures,
   successes |-> row.successes + 1,
   status    |-> IF row.status = "DOWN" /\ row.successes + 1 < 2
                 THEN "DOWN" ELSE "HEALTHY"]

Succeeded(row) ==
  [failures  |-> 0,
   successes |-> row.successes + 1,
   status    |-> IF row.status = "DOWN" /\ row.successes + 1 < 2
                 THEN "DOWN" ELSE "HEALTHY"]

Failed(row) ==
  [failures  |-> row.failures + 1,
   successes |-> 0,
   status    |-> IF row.failures + 1 >= 3 THEN "DOWN" ELSE "FAILING"]

Updated(row, observation) ==
  IF observation = "success" THEN Succeeded(row) ELSE Failed(row)

\* Regression: an outage is expected to begin on a healthy check.
GoesDownFromHealthy(old, new) == old = "HEALTHY" /\ new = "DOWN"

GoesDown(old, new) == old # "DOWN" /\ new = "DOWN"

Active(incidents) == {i \in Incidents : incidents[i] = "open"}

\* Regression: the transaction does not look for an open incident first.
OpenedAlways(goesDown) ==
  IF goesDown
  THEN {[incident EXCEPT ![i] = "open"] : i \in {k \in Incidents : incident[k] = "absent"}}
  ELSE {incident}

\* open_incident_tx: a new incident, unless one with the same key is open.
Opened(goesDown) ==
  IF goesDown /\ Active(incident) = {}
  THEN {[incident EXCEPT ![i] = "open"] : i \in {k \in Incidents : incident[k] = "absent"}}
  ELSE {incident}

\* The last three observations when o is recorded.
Slide(o) == [k \in 1..3 |-> IF k = 3 THEN o ELSE recent[k + 1]]

\* check_http: outside any transaction, with any outcome.
Probe(w) ==
  /\ seen[w] = NotSeen
  /\ probes < MaxProbes
  /\ probes' = probes + 1
  /\ \E observation \in Observation : seen' = [seen EXCEPT ![w] = observation]
  /\ UNCHANGED <<check, incident, ghostVars>>

\* record_health_observation: one transaction, holding the lock of the row.
Record(w) ==
  /\ seen[w] # NotSeen
  /\ check' = Updated(check, seen[w])
  /\ incident' \in Opened(GoesDown(check.status, check'.status))
  /\ seen' = [seen EXCEPT ![w] = NotSeen]
  /\ debouncer' = Observe(debouncer, seen[w])
  /\ recent' = Slide(seen[w])
  /\ attended' = \/ Active(incident') # {}
                 \/ attended /\ check.status = "DOWN" /\ check'.status = "DOWN"
  /\ UNCHANGED probes

\* The process dies, or the job fails, before the transaction commits.
Lose(w) ==
  /\ seen[w] # NotSeen
  /\ seen' = [seen EXCEPT ![w] = NotSeen]
  /\ UNCHANGED <<check, incident, probes, ghostVars>>

\* The incident is resolved, or ends otherwise and is a human's concern.
CloseIncident(i) ==
  /\ incident[i] = "open"
  /\ \E outcome \in {"resolved", "escalated"} :
       incident' = [incident EXCEPT ![i] = outcome]
  /\ UNCHANGED <<check, seen, probes, ghostVars>>

\* The Kill Switch reopens a closed incident as a paused one (Operations).
ReopenIncident(i) ==
  /\ incident[i] \in {"resolved", "escalated"}
  /\ Active(incident) = {}
  /\ incident' = [incident EXCEPT ![i] = "open"]
  /\ attended' = TRUE
  /\ UNCHANGED <<check, seen, probes, debouncer, recent>>

Next ==
  \/ \E w \in Workers : Probe(w) \/ Record(w) \/ Lose(w)
  \/ \E i \in Incidents : CloseIncident(i) \/ ReopenIncident(i)

Spec == Init /\ [][Next]_vars

-------------------------------------------------------------------------------
(* Properties.                                                             *)

\* README.md, "one deduplicated incident": never two at a time, although a check
\* may go down again while the incident of the last outage is still open.
OneActiveIncident ==
  \A i, k \in Active(incident) : i = k

\* No incident opens on fewer than three failures recorded in a row.
OpensAfterThree ==
  [][\A i \in Incidents :
       incident[i] = "absent" /\ incident'[i] # "absent" =>
         recent' = [k \in 1..3 |-> "failure"]]_vars

\* No outage goes by in silence: while the check is down an incident is open, or
\* was open at some time since the check went down.
OutageIsAttended == check.status = "DOWN" => attended

\* The row never misses an outage the debouncer sees: whenever the debouncer
\* calls for an incident, one is open after the transaction.
NoLessAlarming ==
  [][debouncer.status # "Down" /\ debouncer'.status = "Down" =>
       Active(incident') # {}]_vars
=============================================================================
