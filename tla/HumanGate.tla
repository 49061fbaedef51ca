----------------------------- MODULE HumanGate ------------------------------
(***************************************************************************)
(* What dispatch promises about an incident, without checkpoints, files or *)
(* processes: a human decides it once, commands are applied only between   *)
(* that decision and its settlement and only if the decision was to        *)
(* execute, and only an executed incident is closed.                       *)
(***************************************************************************)
CONSTANT Incidents

VARIABLES
  phase,    \* how far the incident has come
  verdict,  \* the decision, "none" before it
  applied,  \* incidents whose commands have been run
  outcome   \* the Outcome, "none" until closed

vars == <<phase, verdict, applied, outcome>>

\* "observed" is an executed observe_only: there is nothing to apply.
Verdicts == {"rejected", "dry-run", "executed", "observed"}

Init ==
  /\ phase = [i \in Incidents |-> "new"]
  /\ verdict = [i \in Incidents |-> "none"]
  /\ applied = {}
  /\ outcome = [i \in Incidents |-> "none"]

\* The pipeline has produced a record and stops at the gate.
Raise(i) ==
  /\ phase[i] = "new"
  /\ phase' = [phase EXCEPT ![i] = "pending"]
  /\ UNCHANGED <<verdict, applied, outcome>>

Decide(i, v) ==
  /\ phase[i] = "pending"
  /\ phase' = [phase EXCEPT ![i] = "deciding"]
  /\ verdict' = [verdict EXCEPT ![i] = v]
  /\ UNCHANGED <<applied, outcome>>

Apply(i) ==
  /\ phase[i] = "deciding"
  /\ verdict[i] = "executed"
  /\ applied' = applied \union {i}
  /\ UNCHANGED <<phase, verdict, outcome>>

Settle(i) ==
  /\ phase[i] = "deciding"
  /\ verdict[i] = "executed" => i \in applied
  /\ phase' = [phase EXCEPT ![i] = "decided"]
  /\ UNCHANGED <<verdict, applied, outcome>>

Close(i, o) ==
  /\ phase[i] = "decided"
  /\ verdict[i] \in {"executed", "observed"}
  /\ phase' = [phase EXCEPT ![i] = "closed"]
  /\ outcome' = [outcome EXCEPT ![i] = o]
  /\ UNCHANGED <<verdict, applied>>

Next ==
  \E i \in Incidents :
    \/ Raise(i)
    \/ \E v \in Verdicts : Decide(i, v)
    \/ Apply(i)
    \/ Settle(i)
    \/ \E o \in {"resolved", "unresolved"} : Close(i, o)

Spec == Init /\ [][Next]_vars
=============================================================================
