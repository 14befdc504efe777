----------------------------- MODULE RestartOnce -----------------------------
(***************************************************************************)
(* What the runtime helper promises to whoever asks it to restart the      *)
(* enrolled container, without saying how.  A request is a mutation id     *)
(* (the UUID of a persisted operations action); the same request may be    *)
(* tried several times, over several connections.                          *)
(*                                                                         *)
(*   - whatever the number of tries, the container is restarted at most    *)
(*     once on behalf of a request;                                        *)
(*   - a caller is told "success" only after that restart took place;      *)
(*   - a caller told "nothing was started" can rely on it for good as long *)
(*     as it does not try the same request again.                          *)
(*                                                                         *)
(* RuntimeHelper implements this module; Operations uses it in place of    *)
(* the helper.                                                             *)
(***************************************************************************)
CONSTANTS
  Reqs,     \* mutation ids
  Tries     \* attempts to have a request served, each used once

VARIABLES
  tries,    \* tries[r]: the attempts made so far for request r
  phase,    \* phase[r]: how far the restart itself has come
  vouched,  \* requests some caller was told "success" for
  refused   \* requests some caller was told "not started" for

roVars == <<tries, phase, vouched, refused>>

Phase == {"untouched", "issued", "done"}

ROTypeOK ==
  /\ tries \in [Reqs -> SUBSET Tries]
  /\ phase \in [Reqs -> Phase]
  /\ vouched \subseteq Reqs
  /\ refused \subseteq Reqs

ROInit ==
  /\ tries = [r \in Reqs |-> {}]
  /\ phase = [r \in Reqs |-> "untouched"]
  /\ vouched = {}
  /\ refused = {}

TriedAgain(r) == \E t, u \in tries[r] : t # u

Try(r, t) ==
  /\ \A s \in Reqs : t \notin tries[s]
  /\ tries' = [tries EXCEPT ![r] = @ \union {t}]
  /\ UNCHANGED <<phase, vouched, refused>>

\* The restart command leaves for Docker.
Issue(r) ==
  /\ phase[r] = "untouched"
  /\ tries[r] # {}
  /\ r \in refused => TriedAgain(r)
  /\ phase' = [phase EXCEPT ![r] = "issued"]
  /\ UNCHANGED <<tries, vouched, refused>>

\* Docker restarts the container.
Restarted(r) ==
  /\ phase[r] = "issued"
  /\ phase' = [phase EXCEPT ![r] = "done"]
  /\ UNCHANGED <<tries, vouched, refused>>

Vouch(r) ==
  /\ phase[r] = "done"
  /\ vouched' = vouched \union {r}
  /\ UNCHANGED <<tries, phase, refused>>

Refuse(r) ==
  /\ tries[r] # {}
  /\ phase[r] = "untouched" \/ TriedAgain(r)
  /\ refused' = refused \union {r}
  /\ UNCHANGED <<tries, phase, vouched>>

ROStep(r) == Issue(r) \/ Restarted(r) \/ Vouch(r) \/ Refuse(r)

RONext == \E r \in Reqs : ROStep(r) \/ \E t \in Tries : Try(r, t)

ROSpec == ROInit /\ [][RONext]_roVars
==============================================================================
