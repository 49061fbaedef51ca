------------------------------ MODULE MCTriage ------------------------------
(***************************************************************************)
(* Instances of Lats and of Triage for TLC: one search in detail, or       *)
(* concurrent analyses whose searches are their results.                   *)
(***************************************************************************)
EXTENDS Lats, Triage

CONSTANTS p1, p2

VARIABLE bench    \* "search" or "analyses"

ScaledBonus ==
  <<<<0>>, <<1165, 824>>, <<1467, 1037, 847>>, <<1648, 1165, 951, 824>>,
    <<1776, 1255, 1025, 888, 794>>, <<1873, 1325, 1081, 936, 838, 765>>,
    <<1952, 1380, 1127, 976, 873, 797, 738>>,
    <<2018, 1427, 1165, 1009, 902, 824, 763, 713>>>>

BonusTable == [k \in {<<a, v>> \in (1..8) \X (1..8) : v <= a} |-> ScaledBonus[k[1]][k[2]]]

Episode(key, causes, names, procedure) ==
  [key |-> key, causes |-> causes, names |-> names, procedure |-> procedure]

\* Shared causes, the same procedure or names only: every way to be relevant, and one not.
SomeEpisodes ==
  {Episode("e1", {7}, {"reject"}, "Registration"), Episode("e2", {}, {}, "Registration"),
   Episode("e3", {}, {"reject", "status"}, "PDU Session"), Episode("e4", {7}, {}, "none"),
   Episode("e5", {}, {"status"}, "none")}

Failure == [causes |-> {7}, names |-> {"reject", "status"}, procedure |-> "Registration"]
Timeout == [causes |-> {}, names |-> {"status"}, procedure |-> "PDU Session"]

SomeIncidents == p1 :> <<Timeout, Failure, Failure>> @@ p2 :> <<Failure>>

MCInit == bench \in {"search", "analyses"} /\ LatsInit /\ TriageInit

MCNext ==
  /\ UNCHANGED bench
  /\ \/ bench = "search" /\ LatsNext /\ UNCHANGED triageVars
     \/ bench = "analyses" /\ TriageNext /\ UNCHANGED latsVars

\* The search is fair: each of its calls returns.
MCSpec ==
  /\ MCInit
  /\ [][MCNext]_<<bench, latsVars, triageVars>>
  /\ WF_<<latsVars>>(bench = "search" /\ LatsNext /\ UNCHANGED <<bench, triageVars>>)

\* SearchEnds, where there is a search.
SearchEndsOnBench == bench = "search" ~> phase = "done"
=============================================================================
