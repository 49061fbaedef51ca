------------------------------ MODULE MCImpact ------------------------------
(***************************************************************************)
(* Instances of Impact for TLC: captures that locate the target or not,    *)
(* with a peer that only sends, a peer without a role, an address that     *)
(* proves two roles, a role at two addresses, and N2 messages that have no *)
(* name, as 5gcap exports them.                                            *)
(***************************************************************************)
EXTENDS Impact

Msg(plane, flow, name, family, src, dst, request) ==
  [plane |-> plane, flow |-> flow, name |-> name, family |-> family,
   src |-> src, dst |-> dst, request |-> request]

N2Msg(name, src, dst) == Msg("n2", "1", name, "none", src, dst, FALSE)
N4Msg(name, src, dst) == Msg("n4", "1", name, "none", src, dst, FALSE)
SbiMsg(name, family, src, dst) == Msg("sbi", "1", name, family, src, dst, TRUE)

Procedure(plane, flow, outcome) == [plane |-> plane, flow |-> flow, outcome |-> outcome]

Decoded(messages, procedures) ==
  [consulted |-> TRUE, messages |-> messages, procedures |-> procedures]

NoCapture == [consulted |-> FALSE, messages |-> <<>>, procedures |-> <<>>]

Session == <<N4Msg("Establishment", "smf", "upf"), N4Msg("Response", "upf", "smf")>>

SessionOnly == Decoded(Session, <<Procedure("n4", "1", "accept")>>)

\* The association shows another SMF than the sessions; a gNB that only sends.
Attached ==
  Decoded(<<N2Msg("InitialUEMessage", "gnb", "amf"), N2Msg("UplinkNAS", "gnb", "amf")>>
            \o <<N4Msg("Establishment", "smf2", "upf"), N4Msg("Association", "smf", "upf")>>
            \o <<SbiMsg("Nsmf_PDUSession", "SMF", "amf", "smf"),
                 SbiMsg("Nsmf_PDUSession", "SMF", "amf", "smf2")>>,
          <<Procedure("n2", "1", "accept"), Procedure("n2", "1", "reject"),
            Procedure("sbi", "1", "timeout"), Procedure("n4", "1", "accept")>>)

\* One peer sends to the SMF and proves no role.
Stranger == Decoded(Session \o <<Msg("sbi", "none", "unknown", "none", "nrf", "smf", FALSE)>>, <<>>)

\* The AMF sends to the SMF, and no message proves it: its N2 has no name.
Unnamed ==
  Decoded(<<N2Msg("none", "gnb", "amf")>> \o Session
            \o <<SbiMsg("Nsmf_PDUSession", "SMF", "amf", "smf")>>,
          <<Procedure("n2", "1", "accept")>>)

\* Requests to several producers go to one address, as through a service proxy.
Proxied ==
  Decoded(Session \o <<SbiMsg("Nudm_SDM", "UDM", "smf", "scp"),
                       SbiMsg("Nnssf_NSSelection", "NSSF", "smf", "scp")>>, <<>>)

Entity(id, family, name) == [id |-> id, family |-> family, name |-> name]

NoGraph == [consulted |-> FALSE, entities |-> {}, edges |-> {}]
Graph(edges) ==
  [consulted |-> TRUE, edges |-> edges,
   entities |-> {Entity(1, "SMF", "Nsmf_PDUSession"), Entity(2, "AMF", "Namf_EventExposure"),
                 Entity(3, "UDM", "Nudm_SDM"), Entity(4, "none", "cause")}]

Store(consulted, mentions) == [consulted |-> consulted, mentions |-> mentions]
Quiet == Store(TRUE, {})

SomePlan == <<[nf |-> "UPF"], [nf |-> "none"], [nf |-> "SMF"], [nf |-> "gNB"], [nf |-> "SMF"]>>

Desk(historyGiven, triage, incidents, capture, specgraph, plan) ==
  [historyGiven |-> historyGiven, triage |-> triage, dispatch |-> Quiet, reports |-> incidents,
   capture |-> capture, specgraph |-> specgraph, plan |-> plan]

SomeDesks ==
  {Desk(TRUE, Quiet, Quiet, SessionOnly, NoGraph, SomePlan),
   Desk(TRUE, Quiet, Quiet, Attached, Graph({<<1, 3>>}), SomePlan),
   Desk(TRUE, Quiet, Quiet, Stranger, NoGraph, <<>>),
   Desk(TRUE, Quiet, Quiet, Unnamed, NoGraph, SomePlan),
   Desk(TRUE, Quiet, Quiet, Proxied, NoGraph, SomePlan),
   Desk(TRUE, Quiet, Quiet, NoCapture, Graph({<<2, 1>>, <<1, 4>>}), SomePlan),
   Desk(TRUE, Quiet, Store(FALSE, {"SMF"}), NoCapture, NoGraph, <<>>),
   Desk(FALSE, Store(FALSE, {}), Quiet, SessionOnly, NoGraph, <<>>)}

Upgrade(target, report) == [type |-> "upgrade", target |-> target, role |-> "SMF", report |-> report]

\* Annotators differ in nothing but their name.
AnnotatorSymmetry == Permutations(Annotators)

\* The role is found whatever its case, the target is compared as written.
SomeChanges ==
  {Upgrade("SMF", 1), Upgrade("smf", 2),
   [type |-> "upgrade", target |-> "AMF", role |-> "AMF", report |-> 3],
   [type |-> "config", target |-> "SMF", role |-> "SMF", report |-> 1]}
=============================================================================
