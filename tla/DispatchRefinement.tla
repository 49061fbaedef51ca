------------------------- MODULE DispatchRefinement -------------------------
(***************************************************************************)
(* Dispatch implements HumanGate.  The graph state of an incident is the   *)
(* one in the memory of the process that is ahead of the checkpoint, or    *)
(* else the checkpoint; the phase is the node it waits at.                 *)
(***************************************************************************)
EXTENDS Dispatch

Ahead(i) == {p \in Operators : dirty[p] /\ call[p].inc = i}

View(i) == IF Ahead(i) = {} THEN ckpt[i]
           ELSE mem[CHOOSE p \in Ahead(i) : TRUE]

PhaseOf(i) ==
  CASE View(i).next = "approval" -> "pending"
    [] View(i).next = "execute" -> "deciding"
    [] View(i).next = "end" ->
         IF record[i].outcome = "none" THEN "decided" ELSE "closed"
    [] OTHER -> "new"

VerdictOf(i) ==
  LET m == View(i) IN
  IF m.next \notin {"execute", "end"} THEN "none"
  ELSE IF m.decision = "reject" THEN "rejected"
  ELSE IF ~m.execute THEN "dry-run"
  ELSE IF m.prop \in Acting THEN "executed" ELSE "observed"

Gate == INSTANCE HumanGate WITH
  phase <- [i \in Incidents |-> PhaseOf(i)],
  verdict <- [i \in Incidents |-> VerdictOf(i)],
  applied <- {a.inc : a \in ran},
  outcome <- [i \in Incidents |-> record[i].outcome]

\* Every run of dispatch without a crash is a run of the gate, failing
\* writes, edited records and retried commands included: a decision is taken
\* once, commands run only after a decision to execute and before the
\* incident is finished, and only such an incident is closed.
GateSpec == Gate!Spec
=============================================================================
