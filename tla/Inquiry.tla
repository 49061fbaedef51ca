------------------------------ MODULE Inquiry -------------------------------
(***************************************************************************)
(* What dispatch concludes from evidence: the nodes of dispatch/graph.py   *)
(* from pcap_agent to propose, in the order the graph runs them.  The      *)
(* specialists turn an export, log lines and KPIs into evidence items,     *)
(* correlation.py links them, root_cause.py grounds the narrative and      *)
(* proposal.py binds and renders the selection.  What the language model   *)
(* and the subprocesses return is a choice; a failing one returns nothing. *)
(***************************************************************************)
EXTENDS Grounding

CONSTANTS
  Alarms,        \* the incidents: window, procedure, KPIs and log lines
  Exports,       \* what 5gcap may have decoded
  Golden,        \* the golden success rate and latency
  Claims,        \* the cited messages an Episode of triage may hold
  LogProposals,  \* what the log extraction may propose
  Library,       \* the committed Runbooks
  Memory,        \* the Episodes in the store
  Selections,    \* what the proposer may select
  Placeholders,  \* placeholder text -> the evidence key it names
  Allowed        \* Allowed[action]: the argument texts the executor renders

\* An export is a list of messages.
ASSUME ExportsAssumption == \A e \in Exports : e \in Seq(Range(e)) /\ \A m \in Range(e) : m.ts \in Int

\* What a tool or a model answers is a list; what is stored is finite, and told apart by its slug.
ASSUME AnswersAssumption ==
  /\ \A c \in Claims : c \in Seq(Range(c))
  /\ \A ps \in LogProposals :
       ps \in Seq(Range(ps)) /\ \A p \in Range(ps) : p.keys \in Seq(Range(p.keys))
  /\ \A S \in {Memory, Library} :
       /\ IsFiniteSet(S)
       /\ \A x \in S : x.added \in Int /\ x.slug \in Int /\ IsFiniteSet(x.keys)
       /\ \A x, y \in S : x.slug = y.slug => x = y
  /\ \A e \in Memory : IsFiniteSet(e.causes)

VARIABLES
  node,          \* the node that runs next
  alarm,
  evidence,      \* the inventory
  links,
  recalled,      \* the Episodes the search was seeded with
  root,          \* the grounded claims behind the root cause; none: no root cause
  consulted,     \* the Runbooks the proposer was shown
  selected,      \* history: the selection the proposal was built from
  proposal

inquiryVars ==
  <<export, node, alarm, evidence, links, recalled, root, consulted, selected, proposal>>

NullValue == [type |-> "null", text |-> ""]
NoProposal == [action |-> "none", args |-> <<>>]

\* An item: its keys are in the order it was given them.
Item(source, ts, cause, keys, citation) ==
  [source |-> source, ts |-> ts, cause |-> cause, keys |-> keys, citation |-> citation]
FlowKey(m) ==
  IF m.flow = None THEN <<>>
  ELSE <<[key |-> "flow_id", value |-> [type |-> "int", text |-> m.flow]]>>

InWindow(ts) == alarm.window[1] <= ts /\ ts <= alarm.window[2]

InquiryInit ==
  /\ export \in Exports /\ alarm \in Alarms
  /\ node = "pcap_agent"
  /\ evidence = <<>> /\ links = {} /\ recalled = <<>> /\ root = {}
  /\ consulted = <<>> /\ selected = NoProposal /\ proposal = NoProposal

PcapItem(i) == Item("pcap", export[i].ts, export[i].cause, FlowKey(export[i]), Handle(i))

\* run_pcap_agent: an item for every claim that is located; the export's own name, time,
\* cause and flow, not the claim's.
PcapAgent(claims) ==
  /\ node = "pcap_agent"
  /\ LET located == InOrder({k \in DOMAIN claims : Located(claims[k]) # 0})
     IN evidence' = [k \in DOMAIN located |-> PcapItem(Located(claims[located[k]]))]
  /\ node' = "kpi_agent"
  /\ UNCHANGED <<export, alarm, links, recalled, root, consulted, selected, proposal>>

\* deviations: a message's cause is one when it is a NAS reject's, a PFCP cause other than
\* accepted, or an HTTP error status.
DeviantCause(m) ==
  CASE m.plane = "n2" -> IF m.rejects THEN m.cause ELSE None
    [] m.plane = "n4" -> IF m.cause = 1 THEN None ELSE m.cause
    [] m.plane = "sbi" -> IF m.status >= 400 THEN m.status ELSE None
    [] OTHER -> None

\* Unassociated N2 messages are not looked at.
InPlanes == {i \in DOMAIN export : export[i].plane # "n2" \/ export[i].flow # None}
Latest == Max({export[i].ts : i \in InPlanes})

KpiItem(name) == Item("kpi", Latest, None, <<>>, <<"kpi", name>>)
RejectItem(m) == Item("kpi", m.ts, DeviantCause(m), FlowKey(m), <<"kpi", "failures">>)

KpiItems ==
  LET rate    == IF alarm.rate < Golden.rate THEN <<KpiItem("rate")>> ELSE <<>>
      latency == IF alarm.latency > 2 * Golden.latency THEN <<KpiItem("latency")>> ELSE <<>>
      rejects == InOrder({i \in DOMAIN export : DeviantCause(export[i]) # None})
  IN rate \o latency \o [k \in DOMAIN rejects |-> RejectItem(export[rejects[k]])]

\* run_kpi_agent; a failing analysis adds nothing.
KpiAgent(works) ==
  /\ node = "kpi_agent"
  /\ evidence' = IF works /\ InPlanes # {} THEN evidence \o KpiItems ELSE evidence
  /\ node' = "log_agent"
  /\ UNCHANGED <<export, alarm, links, recalled, root, consulted, selected, proposal>>

\* ground_log_item: the cited line must exist, have a time and lie in the window.
LogGrounded(p) ==
  /\ p.wellformed
  /\ p.line \in DOMAIN alarm.log
  /\ alarm.log[p.line] # None
  /\ InWindow(alarm.log[p.line])

LogItem(p) == Item("log", alarm.log[p.line], None, p.keys, <<"log", p.line>>)

LogAgent(proposals) ==
  /\ node = "log_agent"
  /\ LET kept == InOrder({k \in DOMAIN proposals : LogGrounded(proposals[k])})
     IN evidence' = evidence \o [k \in DOMAIN kept |-> LogItem(proposals[kept[k]])]
  /\ node' = "correlate"
  /\ UNCHANGED <<export, alarm, links, recalled, root, consulted, selected, proposal>>

-----------------------------------------------------------------------------
\* correlation.py

KeysOf(i) == {kv \in Range(evidence[i].keys) : kv.value # NullValue}
Carriers(kv) == {i \in DOMAIN evidence : kv \in KeysOf(i)}
Disagree(a, b) == \E x \in KeysOf(a), y \in KeysOf(b) : x.key = y.key /\ x.value # y.value

\* Mutant: ambiguity is looked for inside the window only.
AmbiguousInWindow(kv) == Cardinality({i \in Carriers(kv) : InWindow(evidence[i].ts)}) > 2

\* More than two items of a value, in the window or not, make it ambiguous.
Ambiguous(kv) == Cardinality(Carriers(kv)) > 2

\* The places of the values: the item, then the key.
Places == UNION {{i} \X DOMAIN evidence[i].keys : i \in DOMAIN evidence}
Earlier(p, q) == p[1] < q[1] \/ (p[1] = q[1] /\ p[2] < q[2])
Occurring == SortedBy(Places, {x \in Places \X Places : Earlier(x[1], x[2])})

Pairs(kv) ==
  {p \in Carriers(kv) \X Carriers(kv) :
     /\ p[1] < p[2] /\ ~Disagree(p[1], p[2])
     /\ InWindow(evidence[p[1]].ts) /\ InWindow(evidence[p[2]].ts)}

\* A pair is linked once.
LinkBy(found, kv) ==
  IF Ambiguous(kv) THEN found
  ELSE found \cup {[a |-> p[1], b |-> p[2], by |-> kv] :
         p \in {p \in Pairs(kv) : \A l \in found : l.a # p[1] \/ l.b # p[2]}}

\* link: value by value in the order they first occur.
Linked ==
  LET occurring == Occurring
      linked[k \in 0..Cardinality(Places)] ==
        IF k = 0 THEN {}
        ELSE LinkBy(linked[k - 1], evidence[occurring[k][1]].keys[occurring[k][2]])
  IN linked[Cardinality(Places)]

Correlate ==
  /\ node = "correlate"
  /\ links' = Linked
  /\ node' = "investigate"
  /\ UNCHANGED <<export, alarm, evidence, recalled, root, consulted, selected, proposal>>

-----------------------------------------------------------------------------
\* The shared scorer of memory.py and runbook.py.

SeenKeys == {<<kv.key, kv.value.text>> : kv \in UNION {Range(evidence[i].keys) : i \in DOMAIN evidence}}
SeenCauses == {evidence[i].cause : i \in DOMAIN evidence} \ {None}

RecallScore(e) ==
  3 * Cardinality(e.causes \cap SeenCauses) + Cardinality(e.keys \cap SeenKeys)
    + (IF alarm.procedure # "" /\ e.procedure = alarm.procedure THEN 2 ELSE 0)

\* A Runbook and an incident without a procedure share it.
RunbookScore(r) ==
  3 * Cardinality(r.keys \cap SeenKeys) + (IF r.procedure = alarm.procedure THEN 2 ELSE 0)

Scored(S, Score(_)) == {[score |-> Score(x), past |-> x] : x \in S}

Newer(x, y) == x.added > y.added \/ (x.added = y.added /\ x.slug < y.slug)

\* Mutant: the newest relevant ones, whatever their score.
NewestThree(scored) ==
  LET relevant == {x \in scored : x.score >= 2}
      ranked == SortedBy(relevant, {p \in relevant \X relevant : Newer(p[1].past, p[2].past)})
  IN [k \in DOMAIN ranked \cap 1..3 |-> ranked[k].past]

\* The best three of those that score two: by score, then newest, then by slug.
Better(x, y) == x.score > y.score \/ (x.score = y.score /\ Newer(x.past, y.past))
BestThree(scored) ==
  LET relevant == {x \in scored : x.score >= 2}
      ranked == SortedBy(relevant, {p \in relevant \X relevant : Better(p[1], p[2])})
  IN [k \in DOMAIN ranked \cap 1..3 |-> ranked[k].past]

-----------------------------------------------------------------------------

Citations == {evidence[i].citation : i \in DOMAIN evidence}

\* run_root_cause: nothing to investigate without evidence; a search that fails, or whose
\* Episode cites no item or tells nothing, gives no root cause.
Investigate(narrated, cited) ==
  /\ node = "investigate"
  /\ recalled' = IF evidence = <<>> THEN <<>> ELSE BestThree(Scored(Memory, RecallScore))
  /\ root' = IF narrated THEN cited \cap Citations ELSE {}
  /\ node' = "propose"
  /\ UNCHANGED <<export, alarm, evidence, links, consulted, selected, proposal>>

Carrying(key) == {i \in DOMAIN evidence : \E kv \in Range(evidence[i].keys) : kv.key = key}
ValueAt(i, key) == evidence[i].keys[SelectInSeq(evidence[i].keys, LAMBDA kv : kv.key = key)].value

\* Mutant: the last item's value wins.
BoundToLast(v) ==
  IF v.type = "str" /\ v.text \in DOMAIN Placeholders
  THEN ValueAt(Max(Carrying(Placeholders[v.text])), Placeholders[v.text])
  ELSE v

\* bind_placeholders: the first item that carries the key gives the value.
Bound(v) ==
  IF v.type = "str" /\ v.text \in DOMAIN Placeholders
  THEN ValueAt(Min(Carrying(Placeholders[v.text])), Placeholders[v.text])
  ELSE v

Bindable(v) ==
  v.type = "str" /\ v.text \in DOMAIN Placeholders => Carrying(Placeholders[v.text]) # {}

\* render: each action takes its own argument, of an allowed text; observe_only renders
\* nothing.
Renders(action, args) ==
  \/ action = "observe_only"
  \/ \E k \in DOMAIN args :
       /\ args[k].name = Allowed[action].name
       /\ args[k].value.text \in Allowed[action].texts
       /\ Allowed[action].strict => args[k].value.type = "str"

\* run_proposal and the render rail: what is not a valid selection is no proposal.  Without
\* evidence nothing is bound.
Propose(s) ==
  /\ node = "propose"
  /\ consulted' = BestThree(Scored(Library, RunbookScore))
  /\ LET valid == /\ s.action \in DOMAIN Allowed \cup {"observe_only"}
                  /\ s.prose
                  /\ s.action = "observe_only" => s.args = <<>>
                  /\ evidence # <<>> => \A k \in DOMAIN s.args : Bindable(s.args[k].value)
         args == IF evidence = <<>> THEN s.args
                 ELSE [k \in DOMAIN s.args |->
                         [name |-> s.args[k].name, value |-> Bound(s.args[k].value)]]
     IN IF valid /\ Renders(s.action, args)
        THEN /\ proposal' = [action |-> s.action, args |-> args]
             /\ selected' = [action |-> s.action, args |-> s.args]
        ELSE UNCHANGED <<proposal, selected>>
  /\ node' = "approval"
  /\ UNCHANGED <<export, alarm, evidence, links, recalled, root>>

\* The triage subprocess gives Episodes in which some claim is grounded, or nothing.
Results == {c \in Claims : \E k \in DOMAIN c : Grounded(c[k])} \cup {<<>>}

InquiryNext ==
  \/ \E c \in Results : PcapAgent(c)
  \/ \E works \in BOOLEAN : KpiAgent(works)
  \/ \E p \in LogProposals : LogAgent(p)
  \/ Correlate
  \/ \E narrated \in BOOLEAN : \E cited \in {Citations, {<<"log", 99>>}, {}} :
       Investigate(narrated, cited)
  \/ \E s \in Selections : Propose(s)

InquirySpec == InquiryInit /\ [][InquiryNext]_inquiryVars

-----------------------------------------------------------------------------

(* What triage accepted dispatch finds again: the Episode of a finished search, grounded   *)
(* by triage's last-wins inventory, always yields an item, and every claim triage's report *)
(* marks verified is attributed to a message ("the grounding rule mirrors triage's own").  *)
AcceptedIsLocated ==
  \A c \in Claims : \A k \in DOMAIN c :
    Grounded(c[k]) => Located(c[k]) # 0 /\ Attributed(c[k]) # 0

(* Every citation leads back to what it cites: a pcap item's handle resolves, by the       *)
(* numbering triage lists, to a message of its time, cause and flow; a log item's line is  *)
(* in the pull, inside the window, with its time; a KPI item's reject is in the export     *)
(* ("never an invented item").                                                            *)
CitationsResolve ==
  \A i \in DOMAIN evidence :
    LET item == evidence[i] IN
    CASE item.source = "pcap" ->
           /\ Resolve(item.citation) # 0
           /\ LET m == export[Resolve(item.citation)] IN
              m.ts = item.ts /\ m.cause = item.cause /\ FlowKey(m) = item.keys
      [] item.source = "log" ->
           /\ item.citation[2] \in DOMAIN alarm.log
           /\ alarm.log[item.citation[2]] = item.ts
           /\ InWindow(item.ts)
      [] OTHER ->
           \E j \in DOMAIN export :
             /\ export[j].ts = item.ts
             /\ item.cause # None => item.cause = DeviantCause(export[j])

(* The links against their definition: two items are linked, once, exactly when both lie  *)
(* in the window, they agree on every key both carry, and some value is theirs alone in    *)
(* the whole inventory (correlation.py: a value of more than two items links nothing).     *)
LinksAreExact ==
  node \in {"investigate", "propose", "approval"} =>
    LET corroborate(a, b) ==
          /\ a < b /\ InWindow(evidence[a].ts) /\ InWindow(evidence[b].ts) /\ ~Disagree(a, b)
          /\ \E kv \in KeysOf(a) : Carriers(kv) = {a, b}
    IN /\ {<<l.a, l.b>> : l \in links} =
            {p \in (DOMAIN evidence) \X (DOMAIN evidence) : corroborate(p[1], p[2])}
       /\ \A l \in links : Carriers(l.by) = {l.a, l.b}
       /\ \A l, m \in links : l # m => l.a # m.a \/ l.b # m.b

(* What the model is shown is the best of memory: at most three, all relevant, in order of *)
(* score, and nothing left out scores higher than what is shown, Episodes and Runbooks     *)
(* alike (the shared scorer).                                                              *)
ContextIsRelevant ==
  LET best(shown, S, Score(_)) ==
        /\ Len(shown) <= 3
        /\ \A i, j \in DOMAIN shown : i < j => Score(shown[i]) >= Score(shown[j])
        /\ \A i \in DOMAIN shown : Score(shown[i]) >= 2
        /\ \A x \in S \ Range(shown) :
             Score(x) >= 2 =>
               Len(shown) = 3 /\ \A i \in DOMAIN shown : Score(shown[i]) >= Score(x)
  IN /\ node \in {"propose", "approval"} /\ evidence # <<>> => best(recalled, Memory, RecallScore)
     /\ node = "approval" => best(consulted, Library, RunbookScore)

(* A proposal acts on what was found and on nothing that is not allowed: it is observe_only *)
(* without arguments, or an allowed action one of whose arguments is that action's, of an  *)
(* allowed text and type, after binding as before; action and names are those selected,    *)
(* and with evidence each argument is the value the first item of the inventory gives the  *)
(* key its placeholder names, else the text selected (bind_placeholders, the render rail). *)
ProposalIsBound ==
  proposal # NoProposal =>
    /\ IF proposal.action = "observe_only" THEN DOMAIN proposal.args = {}
       ELSE /\ proposal.action \in DOMAIN Allowed
            /\ \E k \in DOMAIN proposal.args :
                 LET arg == proposal.args[k]  allowed == Allowed[proposal.action] IN
                 /\ arg.name = allowed.name /\ arg.value.text \in allowed.texts
                 /\ allowed.strict => arg.value.type = "str"
    /\ proposal.action = selected.action /\ DOMAIN proposal.args = DOMAIN selected.args
    /\ \A k \in DOMAIN proposal.args :
         LET chosen == selected.args[k].value  value == proposal.args[k].value IN
         /\ proposal.args[k].name = selected.args[k].name
         /\ IF evidence # <<>> /\ chosen.type = "str" /\ chosen.text \in DOMAIN Placeholders
            THEN \E i \in DOMAIN evidence :
                   /\ \E kv \in Range(evidence[i].keys) :
                        kv.key = Placeholders[chosen.text] /\ kv.value = value
                   /\ \A j \in 1..(i - 1) : \A kv \in Range(evidence[j].keys) :
                        kv.key # Placeholders[chosen.text]
            ELSE value = chosen
=============================================================================
