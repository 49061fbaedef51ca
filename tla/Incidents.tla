----------------------------- MODULE Incidents ------------------------------
(***************************************************************************)
(* What triage makes of an export of 5gcap: triage/incidents.py over the   *)
(* flows and procedures of Capture.  An Incident keeps its plane, flow,    *)
(* procedure, shape and the codes it observed; it is what a search starts  *)
(* from.                                                                   *)
(***************************************************************************)
EXTENDS Capture

\* The name a message is looked at by: its NAS message, else its NGAP one.
Shown(i) == IF n2[i].nas.read THEN n2[i].nas.name ELSE n2[i].msg.name

CauseBearing == {"RegistrationReject", "PDUSessionEstabReject", "5GMMStatus"}
SessionNames ==
  {"PDUSessionEstabRequest", "PDUSessionEstabAccept", "PDUSessionEstabReject",
   "PDUSessionResourceSetupRequest", "PDUSessionResourceSetupResponse",
   "PDUSessionResourceSetupFailure"}
RegistrationNames == {"RegistrationRequest", "RegistrationAccept", "RegistrationReject"}

ProcsOf(f) == {k \in DOMAIN n2Procs : n2Procs[k].flow = f}
FailedOf(f) == {k \in ProcsOf(f) : n2Procs[k].outcome \notin {"accept", "unknown"}}
CausesOf(f) == {i \in OfFlow(f) : n2[i].nas.read /\ n2[i].nas.cause # NoCode}

\* _procedure: the first failed record's kind, else what the flow's messages are about.
ProcedureOf(f) ==
  LET names == {Shown(i) : i \in OfFlow(f)} IN
  CASE FailedOf(f) # {} -> n2Procs[Min(FailedOf(f))].kind
    [] FailedOf(f) = {} /\ names \cap SessionNames # {} -> "pdu_session_est"
    [] FailedOf(f) = {} /\ names \cap SessionNames = {} /\ names \cap RegistrationNames # {} ->
         "registration"
    [] OTHER -> "unknown"

\* _shape: a failed record, or a cause on a message that is no request.
ShapeOf(f) ==
  IF \/ \E k \in FailedOf(f) : n2Procs[k].outcome = "reject"
     \/ \E i \in CausesOf(f) : n2[i].nas.name \in CauseBearing
  THEN "reject" ELSE "timeout"

\* Mutant: a flow without procedures is no failure.
RecordedOnly(f) ==
  FailedOf(f) # {} \/ CausesOf(f) # {} \/ flows[f].partial

\* detect_incidents: a failed record, a cause, no record at all, or a partial flow.
IsIncident(f) ==
  \/ FailedOf(f) # {}
  \/ CausesOf(f) # {}
  \/ OfFlow(f) # {} /\ ProcsOf(f) = {}
  \/ flows[f].partial

N2Incidents ==
  {[plane |-> "n2", flow |-> f, procedure |-> ProcedureOf(f), shape |-> ShapeOf(f),
    codes |-> {n2[i].nas.cause : i \in CausesOf(f)}] : f \in {f \in FlowIds : IsIncident(f)}}

\* Sessions only: heartbeats, associations and node reports are maintenance.
SessionKinds == {50, 52, 54, 56}

N4Incidents ==
  {[plane |-> "n4", flow |-> N4ProcFlow(p), procedure |-> p.kind, shape |-> "reject",
    codes |-> {n4[p.rsp].cause}] :
     p \in {p \in n4Procs : p.kind \in SessionKinds /\ p.outcome = "reject"}}
  \cup
  {[plane |-> "n4", flow |-> N4Flow(i), procedure |-> n4[i].type, shape |-> "timeout", codes |-> {}] :
     i \in {i \in N4Timeouts : n4[i].type \in SessionKinds}}

SbiIncidents ==
  {[plane |-> "sbi", flow |-> SbiProcFlow(p), procedure |-> p.req, shape |-> p.outcome,
    codes |-> IF p.outcome = "reject" THEN {sbi[p.rsp].status} ELSE {}] :
     p \in {p \in SbiProcs : p.outcome # "accept"}}

-----------------------------------------------------------------------------

(* A flow that is no Incident succeeded on the wire: it began with its InitialUEMessage,  *)
(* some message accepted what an earlier one of it asked for, and none rejected; an       *)
(* unreadable or unanswered flow is never golden (detect_incidents over build_flows).     *)
GoldenFlowsSucceeded ==
  \A f \in FlowIds \ {x.flow : x \in N2Incidents} :
    /\ n2[CHOOSE i \in OfFlow(f) : \A j \in OfFlow(f) : i <= j].msg.name = "InitialUEMessage"
    /\ \E i, j \in OfFlow(f) :
         /\ i < j
         /\ n2[i].nas.name \in DOMAIN NasStart \/ n2[i].msg.name \in DOMAIN NgapStart
         /\ \/ n2[j].nas.name \in {"RegistrationAccept", "PDUSessionEstabAccept"}
            \/ n2[j].msg.name \in {"InitialContextSetupRequest", "PDUSessionResourceSetupResponse"}
    /\ \A i \in OfFlow(f) : n2[i].nas.name \notin Rejects
=============================================================================
