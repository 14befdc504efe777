------------------------- MODULE HealthMonitorProofs -------------------------
(***************************************************************************)
(* Proofs about HealthMonitor, for any workers, incidents and bound: the   *)
(* row against the debouncer, the deduplication of incidents, and that no  *)
(* outage goes unattended.                                                 *)
(***************************************************************************)
EXTENDS HealthMonitor, TLAPS

\* The row and the debouncer count alike, and the row is down only where the
\* debouncer is.  (The reverse fails: a failure after the first success takes
\* the row out of DOWN and leaves the debouncer in it.)
Agreement ==
  /\ debouncer.failures = check.failures
  /\ check.status = "DOWN" => debouncer.status = "Down"
  /\ check.status = "DOWN" => \/ check.failures >= 3 /\ check.successes = 0
                              \/ check.failures = 0 /\ check.successes = 1
  /\ check.status = "DOWN" => debouncer.successes = check.successes

\* What of the type matters to the proofs.
Typed ==
  /\ check \in [status : Status, failures : Nat, successes : Nat]
  /\ debouncer \in [status : {"Unknown", "Healthy", "Failing", "Down"},
                    failures : Nat, successes : Nat]
  /\ incident \in [Incidents -> {"absent", "open", "resolved", "escalated"}]
  /\ seen \in [Workers -> Observation \union {NotSeen}]

IInv == Typed /\ Agreement /\ OneActiveIncident /\ OutageIsAttended

\* The row, the debouncer and the incidents agree from the start.
LEMMA InitIInv == Init => IInv
  BY DEF Init, IInv, Typed, Agreement, OneActiveIncident, OutageIsAttended, Active,
         Status, NotSeen

\* A transaction leaves one incident open when the check goes down, and opens none
\* beside an open one.
LEMMA OpenedKeepsOne ==
  ASSUME IInv, NEW down \in BOOLEAN, incident' \in Opened(down)
  PROVE  /\ incident' \in [Incidents -> {"absent", "open", "resolved", "escalated"}]
         /\ OneActiveIncident'
         /\ down => Active(incident') # {}
         /\ Active(incident) # {} => Active(incident') # {}
<1>1. CASE incident' = incident
  BY <1>1 DEF IInv, Typed, OneActiveIncident, Active, Opened
<1>2. CASE incident' # incident
  <2>1. Active(incident) = {}
    BY <1>2 DEF Opened
  <2>2. PICK k \in Incidents : incident' = [incident EXCEPT ![k] = "open"]
    BY <1>2 DEF Opened
  <2>3. Active(incident') = {k}
    BY <2>1, <2>2 DEF IInv, Typed, Active
  <2> QED BY <2>1, <2>2, <2>3 DEF IInv, Typed, OneActiveIncident
<1> QED BY <1>1, <1>2

\* The row and the debouncer after one more observation.
LEMMA ObserveAgrees ==
  ASSUME IInv, NEW o \in Observation,
         check' = Updated(check, o), debouncer' = Observe(debouncer, o)
  PROVE  /\ check' \in [status : Status, failures : Nat, successes : Nat]
         /\ debouncer' \in [status : {"Unknown", "Healthy", "Failing", "Down"},
                            failures : Nat, successes : Nat]
         /\ Agreement'
         /\ debouncer.status # "Down" /\ debouncer'.status = "Down" =>
              GoesDown(check.status, check'.status)
<1>1. CASE o = "success"
  BY <1>1 DEF IInv, Typed, Agreement, Updated, Succeeded, Observe, Status, GoesDown,
              RecoveryThreshold
<1>2. CASE o = "failure"
  BY <1>2 DEF IInv, Typed, Agreement, Updated, Failed, Observe, Status, GoesDown,
              FailureThreshold
<1> QED BY <1>1, <1>2 DEF Observation

\* One transaction keeps the agreement, and opens an incident where the debouncer
\* asks for one.
LEMMA RecordKeeps ==
  ASSUME IInv, NEW w \in Workers, Record(w)
  PROVE  /\ IInv'
         /\ debouncer.status # "Down" /\ debouncer'.status = "Down" =>
              Active(incident') # {}
<1> DEFINE down == GoesDown(check.status, check'.status)
<1>1. seen[w] \in Observation
  BY DEF IInv, Typed, Record
<1>2. /\ check' \in [status : Status, failures : Nat, successes : Nat]
      /\ debouncer' \in [status : {"Unknown", "Healthy", "Failing", "Down"},
                         failures : Nat, successes : Nat]
      /\ Agreement'
      /\ debouncer.status # "Down" /\ debouncer'.status = "Down" => down
  BY <1>1, ObserveAgrees DEF Record
<1>3. /\ incident' \in [Incidents -> {"absent", "open", "resolved", "escalated"}]
      /\ OneActiveIncident'
      /\ down => Active(incident') # {}
  <2>1. down \in BOOLEAN /\ incident' \in Opened(down)
    BY DEF Record, GoesDown
  <2> QED BY <2>1, OpenedKeepsOne
<1>4. seen' \in [Workers -> Observation \union {NotSeen}]
  BY DEF Record, IInv, Typed
<1>5. OutageIsAttended'
  BY <1>3 DEF Record, IInv, OutageIsAttended, GoesDown
<1> QED BY <1>2, <1>3, <1>4, <1>5 DEF IInv, Typed

\* So does every step.
LEMMA NextKeeps == IInv /\ [Next]_vars => IInv'
<1> SUFFICES ASSUME IInv, [Next]_vars PROVE IInv'
  OBVIOUS
<1>1. ASSUME NEW w \in Workers, Record(w) PROVE IInv'
  BY <1>1, RecordKeeps
<1>2. ASSUME NEW w \in Workers, Probe(w) \/ Lose(w) PROVE IInv'
  <2>1. /\ UNCHANGED <<check, incident, ghostVars>>
        /\ seen' \in [Workers -> Observation \union {NotSeen}]
    BY <1>2 DEF Probe, Lose, IInv, Typed
  <2> QED BY <2>1 DEF ghostVars, IInv, Typed, Agreement, OneActiveIncident, Active,
                      OutageIsAttended
<1>3. ASSUME NEW i \in Incidents, CloseIncident(i) PROVE IInv'
  BY <1>3 DEF CloseIncident, ghostVars, IInv, Typed, Agreement, OneActiveIncident,
              Active, OutageIsAttended
<1>4. ASSUME NEW i \in Incidents, ReopenIncident(i) PROVE IInv'
  BY <1>4 DEF ReopenIncident, IInv, Typed, Agreement, OneActiveIncident, Active,
              OutageIsAttended
<1>5. CASE UNCHANGED vars
  BY <1>5 DEF vars, ghostVars, IInv, Typed, Agreement, OneActiveIncident, Active,
              OutageIsAttended
<1> QED BY <1>1, <1>2, <1>3, <1>4, <1>5 DEF Next

\* The monitor's invariant holds over any interleaving of probes and incidents.
THEOREM MonitorInvariant == Spec => []IInv
  BY InitIInv, NextKeeps, PTL DEF Spec

\* Two incidents of one health check are never open together.
THEOREM MonitorDeduplicates == Spec => []OneActiveIncident
<1>1. IInv => OneActiveIncident
  BY DEF IInv
<1> QED BY <1>1, MonitorInvariant, PTL

\* A check that is down had an incident open since it went down.
THEOREM MonitorAttends == Spec => []OutageIsAttended
<1>1. IInv => OutageIsAttended
  BY DEF IInv
<1> QED BY <1>1, MonitorInvariant, PTL

\* Where the debouncer calls for an incident the row has one open: by Agreement the
\* row reaches three failures together with the debouncer and cannot be down
\* before it.
THEOREM MonitorNoLessAlarming == Spec => NoLessAlarming
<1>1. IInv /\ [Next]_vars =>
        [debouncer.status # "Down" /\ debouncer'.status = "Down" =>
           Active(incident') # {}]_vars
  <2> SUFFICES ASSUME IInv, Next, debouncer.status # "Down",
                      debouncer'.status = "Down"
               PROVE  Active(incident') # {}
    OBVIOUS
  <2>1. PICK w \in Workers : Record(w)
    BY DEF Next, Probe, Lose, CloseIncident, ReopenIncident, ghostVars
  <2> QED BY <2>1, RecordKeeps
<1> QED BY <1>1, MonitorInvariant, PTL DEF Spec, NoLessAlarming

-------------------------------------------------------------------------------
(* Three failures in a row.                                                *)

\* The window ends with as many failures as the row has counted, or with three.
Window ==
  /\ recent \in [1..3 -> Observation \union {NotSeen}]
  /\ check.failures \in Nat
  /\ \A k \in 1..3 : check.failures >= 4 - k => recent[k] = "failure"

\* Recording an observation keeps the window in step with the row.
LEMMA WindowKept == IInv /\ Window /\ [Next]_vars => Window'
<1> SUFFICES ASSUME IInv, Window, [Next]_vars PROVE Window'
  OBVIOUS
<1>1. ASSUME NEW w \in Workers, Record(w) PROVE Window'
  <2>1. seen[w] \in Observation
    BY <1>1 DEF Record, IInv, Typed
  <2>2. recent' \in [1..3 -> Observation \union {NotSeen}]
    BY <1>1, <2>1 DEF Record, Slide, Window
  <2>3. recent'[1] = recent[2] /\ recent'[2] = recent[3] /\ recent'[3] = seen[w]
    BY <1>1 DEF Record, Slide
  <2>4. CASE seen[w] = "success"
    <3>1. check'.failures = 0
      BY <1>1, <2>4 DEF Record, Updated, Succeeded
    <3> QED BY <2>2, <3>1 DEF Window
  <2>5. CASE seen[w] = "failure"
    <3>1. check'.failures = check.failures + 1
      BY <1>1, <2>5 DEF Record, Updated, Failed
    <3>2. /\ check.failures \in Nat
          /\ check.failures >= 2 => recent[2] = "failure"
          /\ check.failures >= 1 => recent[3] = "failure"
      BY DEF Window
    <3>3. ASSUME NEW k \in 1..3, check'.failures >= 4 - k PROVE recent'[k] = "failure"
      BY <2>3, <2>5, <3>1, <3>2, <3>3
    <3> QED BY <2>2, <3>1, <3>2, <3>3 DEF Window
  <2> QED BY <2>1, <2>4, <2>5 DEF Observation
<1>2. ASSUME NEW w \in Workers, Probe(w) \/ Lose(w) PROVE Window'
  BY <1>2 DEF Probe, Lose, ghostVars, Window
<1>3. ASSUME NEW i \in Incidents, CloseIncident(i) \/ ReopenIncident(i) PROVE Window'
  BY <1>3 DEF CloseIncident, ReopenIncident, ghostVars, Window
<1>4. CASE UNCHANGED vars
  BY <1>4 DEF vars, ghostVars, Window
<1> QED BY <1>1, <1>2, <1>3, <1>4 DEF Next

\* The counters of the row are what opens an incident, and they are reset by every
\* success: an incident that opens has three failures in a row behind it.
THEOREM MonitorOpensAfterThree == Spec => OpensAfterThree
<1>1. Init => Window
  BY DEF Init, Window
<1>2. Window' /\ IInv /\ [Next]_vars =>
        [\A i \in Incidents :
           incident[i] = "absent" /\ incident'[i] # "absent" =>
             recent' = [k \in 1..3 |-> "failure"]]_vars
  <2> SUFFICES ASSUME Window', IInv, Next, NEW i \in Incidents,
                      incident[i] = "absent", incident'[i] # "absent"
               PROVE  recent' = [k \in 1..3 |-> "failure"]
    OBVIOUS
  <2>1. PICK w \in Workers : Record(w)
    <3>1. ASSUME NEW w \in Workers, Probe(w) \/ Lose(w) PROVE FALSE
      BY <3>1 DEF Probe, Lose
    <3>2. ASSUME NEW k \in Incidents, CloseIncident(k) \/ ReopenIncident(k) PROVE FALSE
      BY <3>2 DEF CloseIncident, ReopenIncident, IInv, Typed
    <3> QED BY <3>1, <3>2 DEF Next
  <2>2. GoesDown(check.status, check'.status)
    BY <2>1 DEF Record, Opened
  <2>3. check'.failures >= 3
    <3>1. check' = Updated(check, seen[w]) /\ seen[w] \in Observation
      BY <2>1 DEF Record, IInv, Typed
    <3>2. check.failures \in Nat
      BY DEF IInv, Typed
    <3> QED BY <2>2, <3>1, <3>2 DEF GoesDown, Updated, Succeeded, Failed, Observation
  <2>4. \A k \in 1..3 : recent'[k] = "failure"
    BY <2>3 DEF Window
  <2> QED BY <2>4 DEF Window
<1> QED BY <1>1, <1>2, WindowKept, MonitorInvariant, PTL DEF Spec, OpensAfterThree

\* Every variable of the monitor keeps its type.
THEOREM MonitorTypeCorrect == Spec => []TypeOK
<1> DEFINE Rest == probes \in 0..MaxProbes /\ attended \in BOOLEAN
<1>1. Init => Window /\ Rest
  <2>1. Init => Window
    BY DEF Init, Window
  <2>2. Init => probes \in 0..MaxProbes
    BY MonitorAssumption DEF Init
  <2>3. Init => attended \in BOOLEAN
    BY DEF Init
  <2> QED BY <2>1, <2>2, <2>3
<1>2. Rest /\ [Next]_vars => Rest'
  <2> SUFFICES ASSUME Rest, [Next]_vars PROVE Rest'
    OBVIOUS
  <2>1. probes' \in 0..MaxProbes
    <3>1. probes' = probes \/ (probes < MaxProbes /\ probes' = probes + 1)
      <4>1. ASSUME NEW w \in Workers, Probe(w)
            PROVE  probes < MaxProbes /\ probes' = probes + 1
        BY <4>1 DEF Probe
      <4>2. ASSUME NEW w \in Workers, Record(w) \/ Lose(w) PROVE probes' = probes
        BY <4>2 DEF Record, Lose
      <4>3. ASSUME NEW i \in Incidents, CloseIncident(i) \/ ReopenIncident(i)
            PROVE  probes' = probes
        BY <4>3 DEF CloseIncident, ReopenIncident
      <4>4. CASE UNCHANGED vars
        BY <4>4 DEF vars
      <4> QED BY <4>1, <4>2, <4>3, <4>4 DEF Next
    <3>2. probes \in 0..MaxProbes
      OBVIOUS
    <3> QED BY <3>1, <3>2, MonitorAssumption
  <2>2. attended' \in BOOLEAN
    <3>1. attended \in BOOLEAN
      OBVIOUS
    <3>2. ASSUME NEW w \in Workers, Record(w) PROVE attended' \in BOOLEAN
      BY <3>2 DEF Record
    <3> QED
      BY <3>1, <3>2
         DEF Next, Probe, Lose, CloseIncident, ReopenIncident, vars, ghostVars
  <2> QED BY <2>1, <2>2
<1>3. IInv /\ Window /\ Rest => TypeOK
  BY DEF IInv, Typed, Window, TypeOK
<1> QED BY <1>1, <1>2, <1>3, WindowKept, MonitorInvariant, PTL DEF Spec
=============================================================================
