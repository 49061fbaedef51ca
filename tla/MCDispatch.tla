----------------------------- MODULE MCDispatch -----------------------------
(***************************************************************************)
(* Instances of Dispatch for TLC: who works on which incident.             *)
(***************************************************************************)
EXTENDS DispatchRefinement

\* Every operator may run commands on every incident.
SharedDesk == [p \in Operators |-> Incidents]

\* Every operator has one incident of its own.
OwnDesk ==
  CHOOSE f \in [Operators -> {{i} : i \in Incidents}] :
    \A p, q \in Operators : p # q => f[p] # f[q]
=============================================================================
