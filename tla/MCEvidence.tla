----------------------------- MODULE MCEvidence -----------------------------
(***************************************************************************)
(* What is concluded from decoded evidence: an inquiry of dispatch, or     *)
(* impact's assessments and annotations (module MCImpact).  Exports in     *)
(* which one name and time occurs twice, and evidence whose values meet in *)
(* two items, in three, in items outside the window and in items that      *)
(* disagree elsewhere.                                                     *)
(***************************************************************************)
EXTENDS Inquiry, MCImpact

CONSTANT none    \* the model value of None

VARIABLE bench   \* "inquiry" or "assessment"

Str(text) == [type |-> "str", text |-> text]
Keyed(key, value) == [key |-> key, value |-> value]

N2(flow, names, ts, cause) ==
  [plane |-> "n2", flow |-> flow, names |-> names, ts |-> ts, cause |-> cause,
   rejects |-> "Reject" \in names, status |-> 0]
N4(flow, ts, cause) ==
  [plane |-> "n4", flow |-> flow, names |-> {"Establishment"}, ts |-> ts, cause |-> cause,
   rejects |-> FALSE, status |-> 0]
Http(flow, ts, status) ==
  [plane |-> "sbi", flow |-> flow, names |-> {"Nausf"}, ts |-> ts, cause |-> none,
   rejects |-> FALSE, status |-> status]

SomeExports ==
  {<<>>,
   <<N2("1", {"Transport", "Reject"}, 20, 7), N2("2", {"Reject"}, 20, 22),
     N2(none, {"Reset"}, 60, none), N4("1", 30, 72), Http("1", 90, 404)>>,
   <<N2("1", {"Request"}, 20, none), N2("1", {"Reject"}, 24, 7), N4(none, 30, 1), N4("2", 40, 72)>>}

Claim(name, ts, cause) == [name |-> name, ts |-> ts, cause |-> cause]

SomeClaims ==
  {<<Claim("Reject", 22, 22), Claim("Reject", 20, none)>>,
   <<Claim("Reject", 20, 7), Claim("Establishment", 30, 72), Claim("Nausf", 90, none)>>,
   <<Claim("Reset", 60, none), Claim("Establishment", 30, none), Claim("Reject", none, 7)>>}

Proposed(line, wellformed, keys) == [line |-> line, wellformed |-> wellformed, keys |-> keys]
Nf == Keyed("nf", Str("amf"))

\* A value alone, shared by two lines, by three of which one is out of the window, null, of
\* another type than the export's, and items that disagree on another key.
SomeLogProposals ==
  {<<>>,
   <<Proposed(1, TRUE, <<Nf>>), Proposed(4, TRUE, <<Nf>>)>>,
   <<Proposed(1, TRUE, <<Nf, Keyed("imsi", Str("1"))>>), Proposed(4, TRUE, <<Nf, Keyed("imsi", Str("2"))>>),
     Proposed(2, TRUE, <<Nf>>), Proposed(9, TRUE, <<Nf>>), Proposed(3, TRUE, <<Nf>>)>>,
   <<Proposed(1, TRUE, <<Keyed("nf", NullValue), Keyed("flow_id", Str("1"))>>),
     Proposed(1, FALSE, <<Nf>>), Proposed(4, TRUE, <<Nf>>),
     Proposed(1, TRUE, <<Keyed("flow_id", [type |-> "int", text |-> "2"])>>)>>}

SomeAlarms ==
  {[window |-> <<10, 60>>, procedure |-> "Registration", rate |-> 9, latency |-> 20,
    log |-> <<12, none, 70, 60>>],
   [window |-> <<20, 30>>, procedure |-> "", rate |-> 5, latency |-> 21,
    log |-> <<25, none, 31, 30>>]}

GoldenKpis == [rate |-> 9, latency |-> 10]

Book(slug, added, procedure, keys) ==
  [slug |-> slug, added |-> added, procedure |-> procedure, keys |-> keys]

\* Equal scores told apart by date and by slug, more than three relevant, some irrelevant.
SomeLibrary ==
  {Book(1, 3, "Registration", {}), Book(2, 3, "Registration", {<<"nf", "amf">>}),
   Book(3, 0, "", {<<"flow_id", "1">>}), Book(4, 3, "", {<<"nf", "amf">>, <<"imsi", "1">>}),
   Book(5, 3, "", {<<"flow_id", "2">>}), Book(6, 9, "Deregistration", {<<"nf", "smf">>})}

Past(slug, added, procedure, causes, keys) ==
  [slug |-> slug, added |-> added, procedure |-> procedure, causes |-> causes, keys |-> keys]

SomeMemory ==
  {Past(1, 1, "Registration", {7}, {}), Past(2, 2, "Registration", {}, {}),
   Past(3, 3, "", {72}, {<<"flow_id", "1">>}), Past(4, 4, "", {}, {<<"flow_id", "1">>, <<"nf", "amf">>}),
   Past(5, 5, "", {}, {<<"nf", "amf">>}), Past(6, 6, "", {22, 404}, {})}

Select(action, args, prose) == [action |-> action, args |-> args, prose |-> prose]
Arg(name, value) == <<[name |-> name, value |-> value]>>

SomeSelections ==
  {Select("observe_only", <<>>, TRUE), Select("observe_only", Arg("nf", Str("amf")), TRUE),
   Select("restart_nf", Arg("nf", Str("{nf}")), TRUE), Select("restart_nf", Arg("nf", Str("upf")), TRUE),
   Select("restart_nf", Arg("nf", Str("evil")), TRUE), Select("restart_nf", Arg("nf", Str("upf")), FALSE),
   Select("reseed_subscriber", Arg("imsi", Str("{imsi}")), TRUE),
   Select("reseed_subscriber", Arg("imsi", [type |-> "int", text |-> "2"]), TRUE),
   Select("revert_config", Arg("path", Str("{nf}")), TRUE), Select("drop_database", <<>>, TRUE)}

SomePlaceholders == [text \in {"{nf}", "{imsi}"} |-> IF text = "{nf}" THEN "nf" ELSE "imsi"]

Argument(name, texts, strict) == [name |-> name, texts |-> texts, strict |-> strict]

\* A path is any text inside the sandbox, an unbound placeholder included.
AllowedArguments ==
  [action \in {"restart_nf", "reseed_subscriber", "revert_config"} |->
     CASE action = "restart_nf" -> Argument("nf", {"amf", "upf"}, TRUE)
       [] action = "reseed_subscriber" -> Argument("imsi", {"1", "2"}, FALSE)
       [] OTHER -> Argument("path", {"amf", "{nf}", ""}, FALSE)]

MCInit ==
  /\ InquiryInit /\ ImpactInit
  /\ \/ bench = "inquiry" /\ desk = CHOOSE d \in Desks : TRUE
     \/ bench = "assessment" /\ export = <<>> /\ alarm = CHOOSE a \in Alarms : TRUE

MCNext ==
  /\ UNCHANGED bench
  /\ \/ bench = "inquiry" /\ InquiryNext /\ UNCHANGED impactVars
     \/ bench = "assessment" /\ ImpactNext /\ UNCHANGED inquiryVars

MCSpec == MCInit /\ [][MCNext]_<<bench, inquiryVars, impactVars>>
=============================================================================
