# NetCortex in TLA+

NetCortex analyses 5G core captures and manages the incidents it finds. Four
Python packages make it up: `5gcap` decodes captures into procedures and KPIs,
`triage` investigates a capture with a tree search and a memory of Episodes,
`dispatch` takes an incident from alarm to human-approved remediation, and
`impact` grades the risk of a planned change. This directory holds the TLA+
models of their logic, the TLC runs that check them, and TLAPS proofs.

## The system

### dispatch (`dispatch/dispatch/`)

| part | state | operations | who calls it |
|---|---|---|---|
| graph (`graph.py`) | a sqlite checkpoint per incident (LangGraph thread) | nine nodes in a line: gather, pcap, kpi, log, correlate, investigate, propose, approval (interrupt), execute | `handle` starts it, `approve` and `reject` resume it |
| CLI (`cli.py`) | none; every command is a fresh process | `handle`, `approve [--execute]`, `reject`, `close`, `detect-kpi` | the operator |
| Incident Record (`record.py`) | one markdown file per incident | written by propose and execute, appended to by close, edited by humans | graph, CLI |
| Executor (`executor.py`) | the sandbox | dry_run renders, apply runs the commands | propose, execute |
| Episode store (`memory.py`) | `episodes.jsonl` | add, set_outcome, memory_context | execute, close, investigate |
| Learning loop (`learning.py`) | staged Runbook drafts | write_draft, matching_runbook | close |
| specialists (`pcap.py`, `log.py`, `kpi.py`), `correlation.py`, `root_cause.py`, `proposal.py`, `runbook.py` | none | ground what a tool or an LLM says; fall back to an honest empty result | their nodes |

Hard behaviours: three files and a database are written without a lock or a
transaction, by processes that may fail, be killed or be retried between any
two writes; the checkpointer writes behind the graph; a decision stored by one
command is carried out by another; the record is edited by hand in between.
What makes it correct: nothing executes without approval, an incident is
decided once, every decided incident is remembered, only an executed incident
is closed, the record and the checkpoint name the same proposal.

### triage (`triage/triage/`)

`search.py` is a Monte-Carlo tree search over LLM-proposed Actions: nodes with
visits, a running average value and a status, bounded rollouts, a forced
finalisation; a grounded finalisation completes a node whatever the LLM says.
`memory.py` stores finalised Episodes and consolidates duplicates (read, then
append). `incidents.py` classifies incidents, `evidence.py` and `topology.py`
are read-only views over one capture. Correctness: the search stops, never
returns an ungrounded Episode, prefers the best reward; an Episode is recorded
exactly once.

### 5gcap (`5gcap/fivegcap/`)

A batch pipeline over one capture: `ngap.py`/`nas.py`, `pfcp.py` and `sbi.py`
decode messages; `flow.py` groups NGAP messages into UE flows; PFCP and SBI
requests are paired with their responses; `correlate.py` joins SBI and N4
procedures to NGAP flows; `kpi.py` counts. Correctness: retransmissions pair
with the first send, a reused identifier does not join two UEs, an ambiguous
join joins nothing, every procedure is counted once.

### impact (`impact/impact/`)

`rubric.py` grades a change from three assessments over evidence stores
(`evidence.py`, `criticality.py`) and a grade matrix; `cli.py annotate` appends
the human's outcome to the Change History and to the report. Correctness:
LOW is given only when everything was read and known, a failed outcome is held
against the same change ever after, what stands on a report is in the history.

The hazards found while reading are listed in `PROJECT.json`, each at its line.

## Modules

| module | what it models |
|---|---|
| `Dispatch` | the life of an incident: every CLI command but `detect-kpi`, the graph with its checkpoints, the record, the Episode store, the drafts, faults and human edits |
| `HumanGate` | the abstract promise: raise, decide, apply, settle, close |
| `DispatchRefinement` | the refinement mapping from `Dispatch` to `HumanGate` |
| `Pfcp` | N4: request and response pairing, with its declarative definition |
| `Sbi` | SBI: the two directions of each TCP connection, resets, garbage, midstream starts, and the pairing by stream |
| `Flows` | N2: UE flows and their procedures, with the NAS cipher rules |
| `Capture` | the composition of the three planes of one run, their joins, and the KPIs |
| `Incidents` | the Incidents triage detects in what `Capture` read |
| `Lats` | the search tree: selection, expansion, evaluation, backpropagation, forced finalize |
| `Triage` | concurrent `triage analyze` processes over one Episode store with torn writes |
| `Grounding` | the three inventories a cited message is checked against (triage's search and report, dispatch's specialist), and the handles of the evidence views |
| `Inquiry` | dispatch's nodes from the pcap specialist to the proposal: evidence, links, recall, root cause, binding, the render rail |
| `Radius` | the roles a capture proves, the blast radius, the critical interfaces |
| `Impact` | `impact assess` and `impact annotate` over one Change History |
| `MCDispatch`, `MCCapture`, `MCTriage`, `MCImpact`, `MCEvidence` | instances for TLC |
| `Sorting` | Python's sort of distinct items by a strict order, of which the proofs use that it enumerates |
| `DispatchProofs`, `GateProofs`, `CaptureProofs`, `FlowsProofs`, `TriageProofs`, `SortingProofs`, `InquiryProofs`, `ImpactProofs` | theorems for any constants |

`Capture` is `Pfcp`, `Sbi` and `Flows` side by side with the order of
`fivegcap/cli.py`; `Incidents` reads its variables. `Dispatch` abstracts what
`Inquiry` computes to "there is a proposal": the first models the commands and
their files, the second the data that flows through one run of the graph.
`Triage` abstracts what `Lats` computes to "there is an Episode, or none".
`Inquiry` extends `Grounding`, `Impact` extends `Radius`.

### How `Dispatch` corresponds to the code

* `ckpt[i]` is the checkpoint of incident i: the node it waits at (`next`) and
  the channels the gate depends on. "none" is a thread without a checkpoint,
  "end" is `snapshot.next == ()` with values.
* `mem[p]` is the graph state in the memory of the process p, `dirty[p]` says
  that LangGraph's background writer has not saved it yet (the graph is
  compiled without a durability option). `SaveCheckpoint` saves it, `Exit`
  (a return, the interrupt, or an exception) flushes it, `Crash` loses it.
* `record[i]` is the file `<incident>.md`: its approval status, the proposal
  whose hash it shows, what a human changed in it, and its Outcome section.
* `store` is `episodes.jsonl`; `drafts` the proposed Runbooks.
* `pc[p]` is where a process is inside a command. A node is one step except
  where it writes several files: the execute node is `ExecuteGate`, `Apply`,
  `SettleRecord`, `WriteEpisode`; `close` is `StartClose`, `CloseReadStore`,
  `CloseWriteStore`, `CloseDraft`, `CloseRecord`. `StartHandle` is the record
  check and `BeginPipeline` the invocation that follows it.
* `why[p]` is how its last command ended. `calls`, `granted` and `ran` are
  history variables that no guard but the bound `MaxCalls` reads.

What is abstracted: a proposal is a model value in `Proposals` (it passed the
vocabulary check and the render rail), `Acting` says whether it renders
commands, `Textual` whether its args are all strings, which is what
`Episode.args` accepts. Evidence is reduced to the worst shape of a key value
that log extraction may emit (`KeyShapes`): a scalar, null (which an
`EvidenceKey` rejects) or unhashable (which `link` cannot use as a dict key).
Whether a committed Runbook matches an incident is a constant (`Covered`).
LLM and tool results are choices. One Episode line stands for all equal ones.

LangGraph is modelled from how the code uses it: a new input restarts the
thread and keeps the channels the input does not name; a resume continues at
the checkpointed node; its resume value reaches `interrupt()` only if the
checkpoint waits at the approval node when the command starts (`call.resume`).

`Faults` turns on, one by one: "edit" (a human edits a record and may restore
it), "io" (a write raises OSError and leaves the file, or the investigate node cannot
read the store), "torn" (it raises after
truncating it), "crash", "sandbox" (the proposal no longer renders when it is
applied), "stub" (an invalid stub file).

### How the other modules correspond to the code

**5gcap.** The package reads a whole capture and then loops over its messages.
A step of `Pfcp` or `Flows` is one iteration of such a loop (`pair_procedures`,
`build_flows`), a step of `Sbi` one event of the HTTP/2 library; so every
reachable state is a capture that ends there, and the invariants speak about
captures of every length up to the bound. `pending`, `open` and `starts` are the
dictionaries of the code; `flows` and `n2Procs` its results. Joins, latencies
and Incidents are operators over what was read, because the code computes them
from finished lists. A message keeps what pairing and joining look at: its ends,
sequence number or ids, type, cause, tunnels, SUPI, session, and how its NAS
payload is protected; a setup keeps its session items, each with its tunnels or
with how often the response lists it. `Sbi` decodes the client's direction of a connection
before the server's, as `_decode_connection` does whatever the packets' order;
the library's rules (a stream has one request, a response needs one or a stream
the server pushed) are guards. A status is a number: a response whose `:status`
is not one raises ValueError out of the decoder (`sbi.py:239`), and such a
capture yields nothing.

**The search.** `tree` is the tree, in creation order; `at` the node of the
current rollout, `phase` where `_rollout` or `run` is. What the language model
answers to expand and evaluate, a raised exception included, is a choice;
whether an action is a finalize and whether its Episode is grounded are
constants, because grounding depends on the capture only. `Bonus[<<N, v>>]` is
`1000 * C * sqrt(ln N / v)` rounded, so that `Ucb` compares integers.

**The store.** `file` is the JSONL file as lines, each the writes that ended up
on it: a write that stops half-way leaves a part of a record ("part"), a record
without its newline ("no newline"), or a cut multi-byte character, which makes
the whole file unreadable ("split"); the next append goes to the same line.
`pc[p]` is where an `analyze` is: seeding and searching incident by incident,
then the read and the append of `consolidate` as two steps. `begun` is a
history variable: the Episodes stored when it began.

`Impact` treats the Change History the same way: a record's `shape` is "whole",
"no newline" or "part", and a file may have been created and nothing written. An
annotation appends to the history, then to the report, where a write that stops
half-way may leave the heading of an Outcome alone; the heading is all that
later annotations look for.

**Inquiry.** Each action is a node of the graph; `node` is the one that runs
next. Specialists filter what a tool or the language model returned against the
export, the log pull or the KPIs. `link` is translated in its own order (value
by value) and `LinksAreExact` compares it with an order-free definition.

**Impact.** `desk` is the evidence an assessment is given; `proved` the roles
inferred from its capture, computed once; `assessed` the last report, with the
history it was graded from. `BlastFactor`, `Criticality` and `History` are the
three assessments and `Matrix` the grade matrix.

## Runs

| run | instance | what it shows |
|---|---|---|
| `gate` | 1 incident, 1 operator, 3 proposals, 6 commands, all faults but torn | type invariant; nothing applied without approval; a finished incident has its Episode; an Outcome belongs to an executed incident; record and checkpoint agree; a decision and an Outcome are final; no Episode is lost |
| `refine` | 1 incident, 1 operator, 5 commands, all faults but crash | `Dispatch` implements `HumanGate`; a rejected record means nothing was applied; a `handle` that paused left a gate |
| `apart` | 2 incidents, 2 operators with one each, 5 commands, valid data, no faults; fair steps | in every interleaving, commands are applied once, drafts come from resolved executions, and a decision past the guards finishes the incident |
| `capture` | twelve kinds of run of up to 5 messages of a plane, and merged runs | N4 pairing equals its definition; SBI answers are credited to their own requests; NGAP-only procedures stay within a signalling cycle; ciphered NAS counts only in a flow that selected the null cipher first; an outcome is counted once; only unambiguous keys join and the export is consistent with the joins; no create or establishment times two samples of a latency, and a session is timed by the only item that confirms it; a flow without an Incident went well |
| `triage` | a search of 3 rollouts, 2 branches, depth 2; or two analyses, of 3 and 1 Incidents, over one store | the tree's statistics are conserved, the tree is bounded, only grounded Episodes are returned, failed branches come last, the search ends; Episodes are stored once per analysis, what is reported stays remembered, the seeds are the best of memory |
| `evidence` | an inquiry over 3 exports, or 8 desks with 4 Changes and 2 annotators (alike but for their names: symmetry) | citations resolve, links are exact, recall and consultation are the best of memory, proposals are bound to evidence and allowed once bound; LOW is a statement of knowledge, a report omits no peer or procedure and lists the plan in order, the history has what a report has, a failure grades HIGH ever after |
| `stale_execute`, `stale_reject`, `unremembered`, `tampered` | 1 incident, 3 commands | disagreements, below |
| `lost_episode` | 2 incidents, 2 operators, 5 commands | disagreement, below |
| `unseen` | 8 desks, 4 Changes, 1 annotator | disagreement, below |

Bounds of the dispatch runs. `MaxCalls` bounds the commands of a behaviour;
nothing else is bounded. One incident needs four commands to live its whole life
(handle, approve, close, and one refused), and six leave room for two retries;
the refinement's interesting cases (a failed decision, its retry, a close and
its retry) need five. In `apart` five commands let one incident be closed while
the other is handled and decided; the two share the Episode store only. Three
proposals cover the classes that matter: acting or not, textual or not. `Desk`
says which incidents an operator works on; no passing run has two commands on
one incident at once, which nothing in the code prevents and which breaks most
of these properties (see the hazards). With several processes on one incident
the model lets the last checkpoint write win where LangGraph lets the newest
checkpoint id win; only the theorems cover that case, and their invariant does
not depend on which of the two wins.

The faults a dispatch run leaves out are left out because the property is false
with them, not to save states: `RejectedUntouched` and the refinement fail if a
crash loses the checkpoint of an approval whose commands were already run
(the gate can then be rejected); `AppliedAtMostOnce` fails if a write after the
commands fails; `DraftFromResolved` fails if `close` stages a draft, fails to
write the record and is retried as unresolved; `EpisodesStay` fails if the
rewrite of the store is torn or another command appends to it meanwhile.

Bounds of `capture`. A lab (`Labs`) is the messages a run may hold and how many
of each plane; they may come in any order and repeat. Five N4 messages hold two
exchanges and a retransmission, or a reused sequence number after an answer,
with both ends numbering alike. Five N2 messages of one UE hold a release and a
second registration after an unfinished one, with the SecurityModeCommand
between; four of two UEs hold an interleaving, an ambiguous identity and a
message without ids. Two connections with four SBI messages tell equal stream
ids of different connections apart, and a pushed stream from a requested one. A
setup of two sessions is confirmed together, twice, and with a session listed
twice. The merged labs hold the smallest cases in
which a key is declared by two flows, an establishment names tunnels of two
sessions, and two SMFs create the session of one UE.

Bounds of `triage`. Three rollouts of two branches to depth 2 reach a second
visit of an evaluated branch, the depth limit, a tree with every branch failed,
and the forced finalize; two rewards make ties and strict preferences. Three
Incidents with two of the same cause let one analysis find the same Episode
twice; a second analysis interleaves with every step of the first; all torn
writes are on.

Bounds of `evidence`. The exports repeat a name and time with different causes;
the inventories hold a value in two items, in three of which one is out of the
window, null values, equal texts of different types, and items that disagree on
another key; memory and library hold more than three relevant entries and equal
scores. The desks locate the target or not, through a proxy, with a stranger,
or by the specgraph alone; one has N2 messages without a name, as a real export
has; two annotators may both pass the check of a report
before either writes.

Deadlock is not checked because every model rests legitimately: the operator
types nothing, the capture ends, the search or the analyses are done.

Fairness. `FairSpec` (`apart`) assumes weak fairness of each process's own
steps: once started, a command is a straight-line Python program that runs until
it exits (its subprocesses and LLM calls are assumed to return). Starting a
command, saving checkpoints early, crashing and editing are never assumed to
happen. `SettlingFinishes` needs valid data and no failing writes: without them
the execute node raises, and the incident waits for another command. `LatsSpec`, and
`MCSpec` of `triage`, assume weak fairness of the search as a whole: it is one
loop in one process, whose LLM calls return or raise. No choice of the language
model is assumed fair, so `SearchEnds` holds for a model that fails every branch.

### Disagreements with the documentation

* `stale_execute` / `OnlyExecuteApplies`: an `approve --execute` that the gate
  refuses (an edited hash, a proposal that no longer renders) is already in the
  checkpoint. Once the cause is gone, a `reject` or a bare `approve` runs the
  commands (`graph.py:222-240`, against `dispatch/README.md:97-99`).
* `stale_reject` / `RejectCloses`: after an attempt to approve a record without
  a proposal, `reject` fails for good (against `dispatch/README.md:100-102`).
* `unremembered` / `DecidedIsRemembered`: args that are not strings pass the
  render rail and fail the Episode's validation after the record was settled
  (against `graph.py:100-101`).
* `tampered` / `TamperedIsNotDecided`: only the hash line of the record is
  compared (against `dispatch/README.md:95-96`).
* `lost_episode` / `EpisodesStay`: `close` writes the store back from what it
  read; an Episode appended in between is lost (against
  `dispatch/dispatch/memory.py:7-8` and `:89-91`).
* `unseen` / `CriticalTrafficIsSeen`: where several producers answer at one
  address, as behind the sandbox's service communication proxy
  (`sandbox/core/docker-compose.yml:29`), the address is known by the last role
  it proved (`impact/impact/capture.py:265`) and only that role's proving message
  is scanned, so a Nudm request of the upgraded function is missed (against
  `impact/impact/criticality.py:8-10`).

Smaller observations, which no property of a run states.

* `5gcap/fivegcap/flow.py:59` keeps the algorithm of a flow's first
  SecurityModeCommand. After a later one that selects a real cipher, payloads are
  still parsed as plaintext, against `nas.py:6-9` ("a real cipher degrades to an
  honest unparsed note"). `CipheredNeverCounts` asks about the first selection.
* The docstring at `5gcap/fivegcap/kpi.py:62-63` restricts the cross-plane means to
  complete flows; the code does not look at `partial`, nor does `Capture`.
* A response on a stream the server pushed gets neither a name nor a note
  (`sbi.py:236-249`), against the comment's "decoded XOR refused" (`sbi.py:271-273`).
* The comment at `5gcap/fivegcap/correlate.py:44` says that a refused message never
  joins; the loop over responses at `:54` does not look, so a refused response
  joins with its request.
* `impact/impact/capture.py:178` looks for the InitialUEMessage by `name`; 5gcap
  exports an N2 message's name under `ngap` (`5gcap/fivegcap/output.py:97-112`).
  On a real export no gNB or AMF is therefore proved from N2. `Radius` follows the
  code of impact; the desks hold N2 messages with the name impact's tests give
  them, and one desk whose N2 messages have none.
* `impact annotate` looks for an Outcome before it appends, so a report may carry
  two after a race, and a retry after a report that was not written records the
  outcome again. If the report's append stops after its heading
  (`impact/impact/cli.py:238-239`), the annotation failed, yet every retry is
  refused (`:231`) and the report stands without a verdict.
* A history line that cannot be parsed is skipped (`impact/impact/evidence.py:54-70`)
  and its store still counts as consulted, so a failure whose record was torn does
  not keep a Change from LOW.
* The docstring of `run_root_cause` says "any failure yields \"\"";
  `dispatch/dispatch/root_cause.py:220-225` reads the Episode store before the try,
  so an unreadable store ends the command.
* Without evidence the proposer's placeholders are left as written; the render rail
  refuses them where an argument is one of a list. A text copied from a past
  Runbook is bound by nothing: it is proposed if the allowed arguments hold it.
* `triage/triage/search.py:359` takes any float for a reward, where `evaluate` is
  asked for 0.0 to 1.0 (`:556`).
* `kpi.py` counts every PFCP cause but 1 as a deviation where 5gcap accepts 1 to 3.

## Proofs

The theorems hold for every value of the constants that satisfies the named
assumptions: captures of any length, any number of incidents, operators,
analyses and annotators, every combination of faults but those a theorem's
hypotheses exclude. Each is `Spec => []Inv` (or an action property) from an
inductive invariant, with a lemma per action. The assumptions are evaluated by
TLC on every run that extends their module.

| theorem | property | assumes |
|---|---|---|
| `DispatchProofs!TypeCorrect` | `TypeOK` | `DispatchAssumption` |
| `DispatchProofs!ApprovedOnly` | `AppliedWasApproved` | the same |
| `GateProofs!RecordAlwaysMatchesGate` | `RecordMatchesGate` | the same, `DisjointDesks` |
| `GateProofs!HandleAlwaysLeavesGate` | `HandleLeavesGate` | the same, `DisjointDesks` |
| `GateProofs!DecisionAlwaysFinal` | `DecisionIsFinal` | the same, `DisjointDesks` |
| `GateProofs!FinishedAlwaysRemembered` | `FinishedIsRemembered` | the same, `OneOperator`, `NoTornWrite` |
| `GateProofs!ClosedAlwaysExecuted` | `ClosedWasExecuted` | the same, `OneOperator`, `NoTornWrite` |
| `GateProofs!OutcomeAlwaysFinal` | `OutcomeIsFinal` | the same, `OneOperator`, `NoTornWrite` |
| `GateProofs!EpisodesAlwaysStay` | `EpisodesStay` | the same, `OneOperator`, `NoTornWrite` |
| `GateProofs!RejectedAlwaysUntouched` | `RejectedUntouched` | the same, `DisjointDesks`, `NoCrash` |
| `GateProofs!DispatchImplementsGate` | `GateSpec` | the same, `DisjointDesks`, `NoCrash` |
| `GateProofs!DraftAlwaysFromResolved` | `DraftFromResolved` | the same, `DisjointDesks`, `NoCrash`, `NoFailedWrite` |
| `GateProofs!AlwaysAppliedAtMostOnce` | `AppliedAtMostOnce` | the same, `DisjointDesks`, `NoCrash`, `NoFailedWrite`, `ValidData` |
| `CaptureProofs!PairingAlwaysExact` | `PairingIsExact` | `CaptureAssumption` |
| `CaptureProofs!AnswersAlwaysCredited` | `AnswersCredited` | `CaptureAssumption`, `SbiAssumption` |
| `CaptureProofs!JoinsAlwaysUnambiguous` | `JoinsAreUnambiguous` | the same |
| `CaptureProofs!ProceduresAlwaysFollow` | `ProceduresFollowMessages` | the same |
| `CaptureProofs!LegsAreNeverShared` | `LegsAreNotShared` | the same |
| `FlowsProofs!FallbackAlwaysWithinCycle` | `FallbackWithinCycle` | nothing |
| `FlowsProofs!RefusedIsNeverCounted` | `CipheredNeverCounts` | nothing |
| `FlowsProofs!OutcomesAlwaysCountedOnce` | `OutcomesCountedOnce` | nothing |
| `FlowsProofs!GoldenFlowsAlwaysSucceeded` | `GoldenFlowsSucceeded` | `CaptureAssumption`, `FlowsAssumption` |
| `TriageProofs!ResultAlwaysGrounded` | `ResultIsGrounded` | nothing |
| `TriageProofs!LatsTypeCorrect` | `LatsTypeOK` | `LatsAssumption` |
| `TriageProofs!SearchAlwaysBounded` | `SearchBounded` | `LatsAssumption` |
| `TriageProofs!StatisticsAlwaysConserved` | `StatisticsConserved` | `LatsAssumption` |
| `TriageProofs!FailedAlwaysLast` | `FailedComesLast` | `LatsAssumption`, `BonusAssumption`, `Rewards \subseteq Nat` |
| `TriageProofs!AlwaysStoredOnce` | `StoredOncePerAnalysis` | `TriageAssumption` |
| `TriageProofs!ReportedIsAlwaysRemembered` | `ReportedIsRemembered` | `TriageAssumption` |
| `TriageProofs!AlwaysSeededWithBest` | `SeedsAreBest` | `TriageAssumption` |
| `InquiryProofs!AcceptedAlwaysLocated` | `AcceptedIsLocated` | `ExportsAssumption` |
| `InquiryProofs!CitationsAlwaysResolve` | `CitationsResolve` | `ExportsAssumption`, `AnswersAssumption` |
| `InquiryProofs!LinksAlwaysExact` | `LinksAreExact` | the same |
| `InquiryProofs!ContextAlwaysRelevant` | `ContextIsRelevant` | the same |
| `InquiryProofs!ProposalAlwaysBound` | `ProposalIsBound` | the same |
| `ImpactProofs!LowAlwaysKnown` | `LowIsKnown` | `EvidenceAssumption` |
| `ImpactProofs!NothingIsOmitted` | `ReportOmitsNothing` | `EvidenceAssumption` |
| `ImpactProofs!AnnotatedIsAlwaysRecorded` | `AnnotatedIsRecorded` | nothing |
| `ImpactProofs!FailuresAlwaysGradeHigh` | `FailuresGradeHigh` | nothing |
| `SortingProofs!SortedByEnumerates` | (`SortedBy` of any finite set) | nothing |

The assumptions say what the code's inputs are. `CaptureAssumption`: the labs
hold N2 and N4 messages of the two sets, and a session a SetupResponse lists is
listed a positive number of times. `SbiAssumption`: the connections
are the keys of a dict, hence distinct. `FlowsAssumption`: a NAS reject bears a
cause, which TS 24.501 makes mandatory and `_fill_from` (`nas.py:105-126`)
reads. `EvidenceAssumption`: a Change is an upgrade or a config change, an N2
message of an export names its flow, and decoded data are finite lists.
`ExportsAssumption`: an export is a list of messages with integer times.
`AnswersAssumption`: what a tool or a model answers is a list, memory and library
are finite and told apart by their slugs, and what scores them is a finite set of
keys and causes. `TriageAssumption`: an Episode has its fields, its causes and
message names are finite sets, and a write stops in one of the ways of `Torn`.
`LatsAssumption`: bounds are natural numbers, rewards integers of either sign.
`BonusAssumption`: `C * sqrt(ln N / v)` (`search.py:316-322`) is positive for
N > 1, and remains so in the model's units for every N and v a search of this
size can reach.

*Dispatch.* `TypeOK` needs to know where a process may be (`Positions`: after
the guards of the execute node it holds a state whose next node is execute, so
that the edge out of it exists). `AppliedWasApproved` needs `AllSanctioned`: a
graph state past the approval node that carries a decision to execute, in a
checkpoint or in some process's memory, has its proposal in `granted`. The
approval node establishes it, checkpoint writes and resumes copy it, and nothing
past the gate changes the proposal. A new command changes a process's incident,
which is harmless because an idle process holds nothing (`Positions` again).
`IInv` is the conjunction; TLC agrees with it on two concurrent operators.

*The gate.* The code takes no lock, so the other promises of dispatch depend on
how it is used. The hypotheses are operators of `GateProofs`, each with its
reason: `DisjointDesks` (no two operators work on one incident), `OneOperator`
(commands run one at a time: `close` rewrites the whole store, and run
`lost_episode` loses an Episode to a second command), `NoTornWrite` (a torn
store is not read back), `NoCrash` (a crash loses the checkpoint of an approval
whose commands already ran), `NoFailedWrite` (the retry of a failed write
repeats the commands or keeps a draft) and `ValidData` (run `unremembered` shows
args that fail after the record is settled). None is used where it is not named.

The proof has two layers. The effects (`Moves`, `Called`, `Resumes`, `Saves`,
`Crashes`, `Edits`) say once, for each action, what it does to the one incident
it is about and that nothing else moves; `NextEffect` shows that every step has
one of them. Each invariant is then carried through the effects, never
through the actions again:

* `GateInv` (any fault): what a process holds continues its checkpoint
  (`Follows`), past the gate the record shows the selection of the graph state
  (`Shown`), a `close` past its guards works on an executed and finished
  incident (`Reviewed`), and an Outcome stands only there (`IncidentOK`).
* `MemoryInv` (one command at a time, no torn write): a state that finished is
  in the store, in memory as well as in the checkpoint (`Remembered`), what
  `close` read is still the store, and the Outcome of the store is the record's.
* `NoCrashInv` (no crash): the state of an incident is what the process running
  its graph holds, or else the checkpoint (`ViewFacts`, the `CHOOSE` of the
  mapping made definite); a verdict on the record is its verdict, and commands
  ran only if it decided to execute them (`Truthful`).
* `DraftInv` and `OnceInv` add what separates the steps of one command when no
  write fails.

*The refinement.* The four variables of `HumanGate` are functions over the
incidents (`Phase`, `VerdictNow`, `AppliedNow`, `OutcomeNow`). A lemma per
effect shows that it leaves them alone or is the gate's action: the write of the
record at propose is Raise, the approval node Decide, `Apply` is Apply, the last
write of the execute node is Settle, the last write of `close` is Close, and
what a resume, an exit, a save of a checkpoint or an edit does cannot be seen.
Initial states map to initial states, and `DispatchImplementsGate` combines the
two. Run `refine` checks the same mapping on an instance.

*Pairing.* `PairingIsExact` says what was paired and what timed out, but not why
the next response finds the right request. `N4Inv` adds that each pending key
holds the first send of an exchange nobody answered (`PendingIsWaiting`) and
that every unanswered request has its key pending (`WaitingIsPending`). The
lemma `ReadingKeepsThePast` shows that `FirstSend`, `Mirrors` and `Answers` of
the messages read do not change when one more is read; what is left is the new
message, by kind.

*SBI.* `SbiInv`: a stream of a connection has one request and one response, a
readable response has a readable request, and a response has been read only
where all requests of its connection were (`Replayed`). The last part carries
the others: the decoder reads one direction of a connection after the other,
so that nothing a response was paired with can still change.

*The three planes.* The joins are operators over what was read. The theorems
need of each plane only that its messages are a list and its pairing is right
(`CaptureInv`), and then argue over the definitions: a key joins only if one
flow declares it, so a create or an establishment belongs to the flow that
declares its SUPI or its tunnel, and in it to the one session it names or whose
requested tunnel it created. A SetupResponse lists several sessions and may end
a sample of each; that it ends no second one of the same session is because every
item it lists is a leg of its own, and two of them leave the session out.

*Flows.* `FlowsInv` says of the books of `build_flows`, over the messages read
so far, that no release of a flow came after a start still on its stack
(`StartsLive`), that an open NAS start was readable, and rightly so
(`OpenTrusted`), that a flow's cipher is null only if the first of its messages that
selects one chose the null cipher, and unset only while none has
(`CiphersSelected`), and that the procedures already completed are right. Two
theorems follow from the last part; the others make it inductive: an end message
pops a start, a release clears the flow's stacks, and a message is decoded under
the cipher its flow has at that moment.

`CountedInv` orders the procedures of one flow and kind: each ends after those
before it, all but the first come from NAS, and the start still open is newer
than any that was used (`OpenNewer`). So no end and no start is used twice, and
the attach latencies map one to one into the accepted registrations.
`TracedInv` says what an outcome stands for: everything on the books is
a message of its own flow that asked for something, an accepted procedure ends
with a message that grants it, a flow that is not partial began with its
InitialUEMessage, and a reject that was read bears a cause. A flow without an
Incident is therefore not partial, has an accepted procedure, and no reject.

*Search.* `SearchInv`: a node is complete exactly when it was executed and its
action is grounded, at most one node is complete, and none is while the search
still descends, observes or forces. The last part makes the second inductive:
the early exit and the forced finalize happen only where nothing is complete.
`ShapeInv` is the tree's: every node hangs under an earlier one, the rollout's
node exists, and depth and children keep their bounds, with one more of each
only once a finalize was forced (`Late`).

*Statistics.* `TallyInv` holds the balance of every node (`Balanced`: its own
evaluation plus the sum over its children) and what the phases know: all nodes
but the root are evaluated whenever a rollout descends, a node that waits to be
observed is not evaluated yet, and so many rollouts make only so many nodes
(`Room`). Two facts carry it. The ancestors of a node are a chain
(`AncestorsArePath`): every ancestor but the node itself has exactly one child on
it, so backprop adds the reward once to each side of each balance. And a
sum over a finite set, which the library computes in the order of `CHOOSE`, is
the same in any order (`SumsRemove`). Both are inductions over data in disguise:
they are shown by a smallest set, or a first node, for which they would fail.
`FailedAlwaysLast` needs `BonusAssumption`: a failed child and an open sibling
were both visited, so their parent was visited twice or more, where the
exploration term is positive; a failed child scores nothing. It is the one theorem
that takes the rewards to be never negative: an open sibling with a negative
average can score below a failed child's zero. `evaluate` is asked for 0.0 to 1.0,
and nothing in the code holds it to that.

*Stores.* `StoreInv` (triage) and `AnnotationInv` (impact) rest on the same fact
about an append-only file with torn writes (`FileIsWritten`, `LinesAreWritten`):
only the last write of a line may be whole, and the line has its end exactly
then. So a line that is a record stays one: no append reaches it unless it ended
without a newline, and then a torn write stands on it. `NothingTwice` ties what
an analysis has checked (`pc = "add"`) to the file, though others append between
its read and its write; `BegunIsKept` and `ResultsAreKept` carry what was
readable at the beginning and what was reported. `RecordedFirst` and
`ReportedWhenDone` say in which order an annotation writes; from them
`FailuresGradeHigh` follows through the definition of the grade. An Outcome cut
short stands on the report after its record as a whole one does, so
`AnnotatedIsAlwaysRecorded` has no case for it.

*Sorting.* The code's `sorted` is `SortedBy`: the k-th item is the one with
k - 1 before it. `SortedByEnumerates` shows that for a finite set and a strict
order this is a list of all items, each once, in order. That a list so ordered
exists is shown from a smallest set without one: take its last item away.
The rankings, the plan and the lists filtered by position all rest on it.

*Seeds.* `SeedsInv` says that what a search was seeded with is the top of the
Episodes readable then, and `BegunIsKept` that those committed when the analysis
began (the history variable `begun`) stay among them.

*Grounding.* triage's inventory keeps the last message of a name and time,
dispatch and the report look for the first. `AcceptedAlwaysLocated` shows that
what the first accepts the others find at a message of the same name, time
and cause.

*The inventory.* `CitationInv` says that every item listed is sound: it stands on
a message of the export, a line of the log or a reject, and its handle counts the
messages of its section up to that message. Each specialist adds sound items, and
none is ever changed. `LinkedIsExact` follows `link` over the values in
order: after each, the links are exact for the values handled so far
(`ExactFor`). That the recursive function exists is shown from a least length at
which it would not. `ProposeBinds` needs of the inventory only that a key bound
from it is the first to occur. That what is proposed is allowed comes from the
order of the node: the render rail reads the arguments after they were bound.

*Grades.* `EvidenceInv` ties the proved roles to the capture of the desk.
`LowAlwaysKnown` goes through the matrix backwards: only a narrow factor, no
critical interface and a history without a failure make LOW, and each is worked
back to what was read: the lines of the history as they were at the assessment,
the other ends of the target's messages, the messages that prove roles.
`NothingIsOmitted` is a count: affected, unknown and same-role peers partition
the peers, the affected functions map one to one to their addresses, the
procedures of a meeting are among those of either end, and the plan's list is the
enumeration of what lies within the window.

Model-checked only:

* Liveness (`SettlingFinishes`, `SearchEndsOnBench`) is out of the prover's
  reach, as is ENABLED. Every invariant and action property of a passing run is
  stated by a theorem above.
* With two commands at once on one incident, only `TypeCorrect` and
  `ApprovedOnly` are known; most other properties of dispatch are then false.

## Not modelled

* Byte decoding (`capture.py`, `ngap.py`, `nas.py` below the message, PFCP IEs,
  HTTP/2 framing and HPACK): third-party codecs; the order of messages and the
  refusals are modelled.
* The 3GPP specification graph and its embedding search (`specgraph.py`,
  `specrag.py`): a static corpus parsed once and a similarity search by an
  external model; what impact reads of the graph is in `Radius`.
* Wording and layout: record markdown, triage and impact reports, the 5gcap
  tables. The message timeline of a report (`triage/report.py:484`) is display
  only.
* Commands' return codes: `executor.py:102` ignores them, so what "applied" means
  in the sandbox has no counterpart here.
* Tracing, evals, the corpus builder, `detect-kpi`, the sandbox containers and
  the demo page.

## Plan

What is modelled is checked, and every safety property of a passing run is proved.
What could still be learned from proofs:

1. Type correctness of the modules other than `Dispatch` and `Lats` as theorems
   of their own; the parts of it that the proofs above need are in their invariants.
2. What the gate still promises when two operators work on one incident, besides
   `ApprovedOnly`: the weakest hypotheses of each theorem of `GateProofs`.
