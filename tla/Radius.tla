------------------------------- MODULE Radius -------------------------------
(***************************************************************************)
(* What a Change touches: the roles a decoded capture proves, the blast    *)
(* radius around the upgraded function, the reference partners of the      *)
(* specgraph, and the critical interfaces found among them (impact:        *)
(* capture.py, specgraph.py, criticality.py).                              *)
(*                                                                         *)
(* A capture is its messages, N2 by flow, then N4, then SBI, and its       *)
(* procedures.  A message has a plane, a flow, a name, the producer of the *)
(* service its name belongs to (or "none"), two ends, and whether it is a  *)
(* request; one that was not read has no messages.  What it proves is      *)
(* computed once and handed on.  A specgraph is its entities and its       *)
(* co-mention edges.                                                       *)
(***************************************************************************)
EXTENDS Integers, Sequences, FiniteSets, SequencesExt, FiniteSetsExt

Unlocated == [role |-> "none", ip |-> "none", at |-> 0]

IsCritical(name, family) ==
  family \in {"UDM", "AUSF"} \/ name = "Namf_Communication_N1N2MessageTransfer"

Proof(role, ip, at) == [role |-> role, ip |-> ip, at |-> at]

\* The proofs of the ends of the first message that is one of those named, if there is one.
\* The name is the export's "name"; the N2 messages 5gcap exports have none ("ngap" instead).
Ends(capture, plane, name, src, dst) ==
  LET named == {i \in DOMAIN capture.messages :
                  capture.messages[i].plane = plane /\ capture.messages[i].name = name}
      i == Min(named)
  IN IF named = {} THEN <<>>
     ELSE <<Proof(src, capture.messages[i].src, i), Proof(dst, capture.messages[i].dst, i)>>

\* Each request to a producer's service proves its role; other messages prove nothing.
Producers(capture) ==
  [i \in DOMAIN capture.messages |->
     LET m == capture.messages[i] IN
     IF m.plane = "sbi" /\ m.request /\ m.family # "none"
     THEN Proof(m.family, m.dst, i) ELSE Unlocated]

\* infer_roles: the first proof of a role at an address, in the order of the proofs; a place
\* that is Unlocated proves nothing.
InferRoles(capture) ==
  LET association == Ends(capture, "n4", "Association", "SMF", "UPF")
      n4 == IF association # <<>> THEN association
            ELSE Ends(capture, "n4", "Establishment", "SMF", "UPF")
      all == Ends(capture, "n2", "InitialUEMessage", "gNB", "AMF") \o n4 \o Producers(capture)
      again(k) == \E j \in 1..(k - 1) : all[j].role = all[k].role /\ all[j].ip = all[k].ip
  IN [k \in 1..Len(all) |-> IF again(k) THEN Unlocated ELSE all[k]]

\* An address that proves several roles is known by the last of them.
RoleAt(proved, ip) ==
  LET proofs == {k \in DOMAIN proved : proved[k].ip = ip}
  IN IF proofs = {} THEN Unlocated ELSE proved[Max(proofs)]

\* The first proof of the role that is upgraded.
Target(proved, role) ==
  LET proofs == {k \in DOMAIN proved : proved[k].role = role}
  IN IF proofs = {} THEN Unlocated ELSE proved[Min(proofs)]

\* The other ends of the messages the target's address takes part in.
Peers(capture, target) ==
  LET messages == Range(capture.messages)
  IN ({m.src : m \in {m \in messages : m.dst = target.ip}}
        \cup {m.dst : m \in {m \in messages : m.src = target.ip}}) \ {target.ip}

\* Mutant: only what the target sends to is looked at.
UnknownReceivers(capture, proved, target) ==
  {m.dst : m \in {m \in Range(capture.messages) :
                    m.src = target.ip /\ RoleAt(proved, m.dst) = Unlocated}}

UnknownPeers(capture, proved, target) ==
  {ip \in Peers(capture, target) : RoleAt(proved, ip) = Unlocated}

Partners(capture, proved, target) ==
  {ip \in Peers(capture, target) : RoleAt(proved, ip).role \notin {"none", target.role}}

\* Mutant: one end of a flow's messages is looked at.
Answered(capture, proved, ip) ==
  {k \in DOMAIN capture.procedures :
     \E m \in Range(capture.messages) :
       /\ m.plane = "n2" /\ capture.procedures[k].plane = "n2"
       /\ m.flow = capture.procedures[k].flow /\ ip = m.dst}

\* The procedures of a partner: N2 and SBI by the addresses in their flow, N4 by its role.
Procedures(capture, proved, ip) ==
  {k \in DOMAIN capture.procedures :
     LET p == capture.procedures[k] IN
     IF p.plane = "n4" THEN RoleAt(proved, ip).role \in {"SMF", "UPF"}
     ELSE \E m \in Range(capture.messages) :
            /\ m.plane = p.plane /\ m.flow = p.flow /\ p.flow # "none"
            /\ ip \in {m.src, m.dst}}

Kpis(capture, proved, ip) ==
  LET procedures == Procedures(capture, proved, ip)
      with(outcome) == {k \in procedures : capture.procedures[k].outcome = outcome}
  IN [count |-> Cardinality(procedures), successes |-> Cardinality(with("accept")),
      failures |-> Cardinality(with("reject"))]

\* The critical interfaces among the messages that prove the target and its partners.
CaptureHits(capture, proved, target) ==
  {i \in {target.at} \cup {RoleAt(proved, ip).at : ip \in Partners(capture, proved, target)} :
     i # 0 /\ IsCritical(capture.messages[i].name, capture.messages[i].family)}

\* Entities co-mentioned with a service of the role: other functions' services.
References(specgraph, role) ==
  LET own == {e.id : e \in {e \in specgraph.entities : e.family = role}}
  IN {e \in specgraph.entities :
        /\ e.family \notin {"none", role}
        /\ specgraph.consulted
        /\ \E o \in own : <<o, e.id>> \in specgraph.edges \/ <<e.id, o>> \in specgraph.edges}

ReferencePartners(specgraph, role) == {e.family : e \in References(specgraph, role)}

SpecgraphHits(specgraph, role) ==
  {e \in References(specgraph, role) : IsCritical(e.name, e.family)}
=============================================================================
