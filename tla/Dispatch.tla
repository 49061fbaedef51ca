------------------------------ MODULE Dispatch ------------------------------
(***************************************************************************)
(* The life of an incident in dispatch (dispatch/dispatch/graph.py and     *)
(* cli.py): `handle` runs the LangGraph pipeline up to the approval        *)
(* interrupt, `approve [--execute]` and `reject` resume the checkpointed   *)
(* graph in fresh processes, `close` records the Outcome and stages a      *)
(* Runbook draft.                                                          *)
(*                                                                         *)
(* Four things are on disk and shared by every CLI process: the sqlite     *)
(* checkpoint of each incident, its Incident Record, the Episode store and *)
(* the staged drafts.  Nothing is locked and no two of them are written    *)
(* atomically, so every write is a step of its own and a process may stop  *)
(* between any two of them.  The checkpointer writes behind the graph      *)
(* (LangGraph's default durability): a finished node changes mem[p] and    *)
(* sets dirty[p], SaveCheckpoint writes it, an exit or an exception        *)
(* flushes it and a crash loses it.                                        *)
(***************************************************************************)
EXTENDS Naturals

CONSTANTS
  Incidents,   \* incident ids (the LangGraph thread ids)
  Operators,   \* CLI processes that may run at the same time
  Desk,        \* the incidents each of them works on
  Proposals,   \* selections that pass the vocabulary and the render rail
  Acting,      \* those that render commands (all but observe_only)
  Textual,     \* those whose args are all strings, as Episode.args demands
  NoProposal,  \* the proposal None
  KeyShapes,   \* shapes of evidence key values the log extraction may emit
  Covered,     \* incidents whose signature a committed Runbook matches
  Faults,      \* what may go wrong: a subset of FaultKinds
  MaxCalls     \* bound on the number of CLI invocations

\* "edit": a human edits the record; "io": a write raises OSError and leaves
\* the file alone, or the search cannot read the store; "torn": it raises after truncating the file; "crash": a
\* process is killed; "sandbox": the compose file no longer renders the
\* commands; "stub": the stub file is invalid.
FaultKinds == {"edit", "io", "torn", "crash", "sandbox", "stub"}

ASSUME DispatchAssumption ==
  /\ Incidents # {}
  /\ Desk \in [Operators -> SUBSET Incidents]
  /\ Acting \subseteq Proposals
  /\ Textual \subseteq Proposals
  /\ Proposals \ Acting \subseteq Textual
  /\ NoProposal \notin Proposals
  /\ KeyShapes \subseteq {"scalar", "null", "unhashable"}
  /\ Covered \subseteq Incidents
  /\ Faults \subseteq FaultKinds
  /\ MaxCalls \in Nat

VARIABLES
  ckpt,     \* the saved checkpoint of each incident
  record,   \* the Incident Record of each incident
  store,    \* episodes.jsonl, as a set of lines
  drafts,   \* incidents with a staged Runbook draft
  pc,       \* where each CLI process is
  call,     \* its arguments (those of its last invocation when idle)
  why,      \* how its last invocation ended
  mem,      \* the graph state it holds in memory
  dirty,    \* whether mem is ahead of the checkpoint
  copy,     \* the record text `close` read
  lines,    \* the store lines `close` read
  calls,    \* history: number of invocations so far
  granted,  \* history: <<incident, proposal>> approved with --execute
  ran       \* history: which invocation applied which proposal

disk == <<ckpt, record, store, drafts>>
local == <<call, mem, dirty, copy, lines>>
history == <<calls, granted, ran>>
vars == <<ckpt, record, store, drafts, pc, call, why, mem, dirty, copy,
          lines, calls, granted, ran>>

-----------------------------------------------------------------------------
(* The shape of the state.                                                 *)

Selections == Proposals \union {NoProposal}

\* The edges of the graph: one deterministic linear path.
NodeAfter ==
  [gather |-> "pcap_agent", pcap_agent |-> "kpi_agent",
   kpi_agent |-> "log_agent", log_agent |-> "correlate",
   correlate |-> "investigate", investigate |-> "propose",
   propose |-> "approval", approval |-> "execute", execute |-> "end"]

Nodes == DOMAIN NodeAfter

\* The channels the gate depends on, and the node the checkpoint waits at.
\* "none" is a thread with no checkpoint, "end" is snapshot.next == () .
Checkpoint ==
  [next : Nodes \union {"none", "end"},
   keys : {"unset", "scalar", "null", "unhashable"},
   prop : Selections,
   decision : {"unset", "approve", "reject"},
   execute : BOOLEAN]

NoCheckpoint ==
  [next |-> "none", keys |-> "unset", prop |-> NoProposal,
   decision |-> "unset", execute |-> FALSE]

Verdicts == {"rejected", "approved-dry-run", "approved-executed"}

Outcomes == {"resolved", "unresolved"}

\* What a record says: its approval status, the proposal (with its hash) the
\* code wrote, which parts a human has changed since, and the Outcome.
Record ==
  [status : {"absent", "torn", "pending"} \union Verdicts,
   prop : Selections,
   edits : SUBSET {"hash", "body"},
   outcome : {"none"} \union Outcomes]

Written(status, prop) ==
  [status |-> status, prop |-> prop, edits |-> {}, outcome |-> "none"]

NoRecord == Written("absent", NoProposal)
TornRecord == Written("torn", NoProposal)

Episode ==
  [inc : Incidents, prop : Selections, decision : Verdicts,
   outcome : {"none"} \union Outcomes]

\* "dry-run" is `approve`, "execute" is `approve --execute`.
Kinds == {"handle", "dry-run", "execute", "reject", "close"}

Call ==
  [id : Nat, inc : Incidents, kind : Kinds,
   outcome : {"none"} \union Outcomes, resume : BOOLEAN]

\* How an invocation ended, or that it has not yet.
Reasons ==
  {"none", "running", "crash", "io", "duplicate", "bad_stub", "TypeError",
   "paused", "no_checkpoint", "not_awaiting_approval", "no_proposal",
   "hash_mismatch", "rail", "invalid_episode", "decided", "undecided",
   "not_executed", "already_closed", "no_episode", "closed"}

Applied == [id : Nat, inc : Incidents, prop : Proposals, kind : Kinds]

\* Mutant: the raw decision instead of its label.
VerdictRaw(m) == m.decision

Verdict(m) ==
  IF m.decision = "reject" THEN "rejected"
  ELSE IF m.execute THEN "approved-executed" ELSE "approved-dry-run"

\* Mutant: the execute flag is not looked at.
AnyApproval(m) == m.decision = "approve"

\* The execute node applies the commands; only such an incident is closed.
ToExecute(m) == m.decision = "approve" /\ m.execute

\* Mutant: no default for the args of a missing proposal.
ProposalFits(m) == m.keys = "scalar" /\ m.prop \in Textual

\* Episode and EvidenceKey validate: string args, no null or nested value.
EpisodeFits(m) ==
  /\ m.keys = "scalar"
  /\ m.prop \in Textual \union {NoProposal}

\* _read_record_hash finds a hash and it is the checkpointed one.  The hash
\* is compared as text: a change to the body of the record goes unnoticed.
HashMatches(i, prop) ==
  /\ record[i].status \notin {"absent", "torn"}
  /\ "hash" \notin record[i].edits
  /\ record[i].prop = prop

\* Mutants: only a decided incident is a duplicate; nothing is.
DecidedAlready(i) == record[i].status \in Verdicts
NeverDuplicate(i) == FALSE

\* `handle` refuses an incident that already has a record.
Duplicate(i) == record[i].status # "absent"

\* Mutant: the decision is read off the execute flag alone.
FlagEpisode(i, m) ==
  [inc |-> i, prop |-> m.prop, outcome |-> "none",
   decision |-> IF m.execute THEN "approved-executed" ELSE "approved-dry-run"]

\* The Episode of a decision.
NewEpisode(i, m) ==
  [inc |-> i, prop |-> m.prop, decision |-> Verdict(m), outcome |-> "none"]

Mine(episodes, i) == {e \in episodes : e.inc = i}

Init ==
  /\ ckpt = [i \in Incidents |-> NoCheckpoint]
  /\ record = [i \in Incidents |-> NoRecord]
  /\ store = {}
  /\ drafts = {}
  /\ pc = [p \in Operators |-> "idle"]
  /\ call = [p \in Operators |->
               [id |-> 0, inc |-> CHOOSE i \in Incidents : TRUE,
                kind |-> "handle", outcome |-> "none", resume |-> FALSE]]
  /\ why = [p \in Operators |-> "none"]
  /\ mem = [p \in Operators |-> NoCheckpoint]
  /\ dirty = [p \in Operators |-> FALSE]
  /\ copy = [p \in Operators |-> NoRecord]
  /\ lines = [p \in Operators |-> {}]
  /\ calls = 0
  /\ granted = {}
  /\ ran = {}

-----------------------------------------------------------------------------
(* Starting, ending and losing a process.                                  *)

Invoke(p, i, kind, outcome) ==
  /\ pc[p] = "idle"
  /\ calls < MaxCalls
  /\ calls' = calls + 1
  /\ call' = [call EXCEPT ![p] =
                [id |-> calls + 1, inc |-> i, kind |-> kind,
                 outcome |-> outcome, resume |-> ckpt[i].next = "approval"]]
  /\ UNCHANGED <<disk, dirty, granted, ran>>

\* The command prints its error and exits 1 before it touches anything.
Refuse(p, reason) ==
  /\ pc' = pc
  /\ why' = [why EXCEPT ![p] = reason]
  /\ UNCHANGED <<mem, copy, lines>>

Proceed(p, where) ==
  /\ pc' = [pc EXCEPT ![p] = where]
  /\ why' = [why EXCEPT ![p] = "running"]

\* Mutant: pending checkpoint writes are dropped at exit.
Unflushed(p) == ckpt

Flushed(p) ==
  IF dirty[p] THEN [ckpt EXCEPT ![call[p].inc] = mem[p]] ELSE ckpt

\* Return, interrupt or exception: pending checkpoint writes are flushed.
Exit(p, reason) ==
  /\ pc' = [pc EXCEPT ![p] = "idle"]
  /\ why' = [why EXCEPT ![p] = reason]
  /\ ckpt' = Flushed(p)
  /\ dirty' = [dirty EXCEPT ![p] = FALSE]
  /\ mem' = [mem EXCEPT ![p] = NoCheckpoint]
  /\ copy' = [copy EXCEPT ![p] = NoRecord]
  /\ lines' = [lines EXCEPT ![p] = {}]
  /\ UNCHANGED <<call, history>>

\* The process is killed: what the checkpointer had not written is lost.
Crash(p) ==
  /\ "crash" \in Faults
  /\ pc[p] # "idle"
  /\ pc' = [pc EXCEPT ![p] = "idle"]
  /\ why' = [why EXCEPT ![p] = "crash"]
  /\ dirty' = [dirty EXCEPT ![p] = FALSE]
  /\ mem' = [mem EXCEPT ![p] = NoCheckpoint]
  /\ copy' = [copy EXCEPT ![p] = NoRecord]
  /\ lines' = [lines EXCEPT ![p] = {}]
  /\ UNCHANGED <<disk, call, history>>

\* The background checkpoint write catches up with the graph.
SaveCheckpoint(p) ==
  /\ dirty[p]
  /\ ckpt' = [ckpt EXCEPT ![call[p].inc] = mem[p]]
  /\ dirty' = [dirty EXCEPT ![p] = FALSE]
  /\ UNCHANGED <<record, store, drafts, pc, call, why, mem, copy, lines,
                 history>>

\* A write of incident i's record that fails, and with it the command.
RecordWriteFails(p, i) ==
  /\ \/ "io" \in Faults /\ UNCHANGED record
     \/ "torn" \in Faults /\ record' = [record EXCEPT ![i] = TornRecord]
  /\ UNCHANGED <<store, drafts>>
  /\ Exit(p, "io")

-----------------------------------------------------------------------------
(* handle: the duplicate check, then the pipeline up to the interrupt.     *)

StartHandle(p, i) ==
  /\ Invoke(p, i, "handle", "none")
  /\ \/ Duplicate(i) /\ Refuse(p, "duplicate")
     \/ /\ ~Duplicate(i)
        /\ Proceed(p, "admitted")
        /\ UNCHANGED <<mem, copy, lines>>

\* A new input restarts the thread at its first node; channels the input
\* does not name keep the values of the checkpoint.
BeginPipeline(p) ==
  /\ pc[p] = "admitted"
  /\ pc' = [pc EXCEPT ![p] = "run"]
  /\ mem' = [mem EXCEPT ![p] = [ckpt[call[p].inc] EXCEPT !.next = "gather"]]
  /\ dirty' = [dirty EXCEPT ![p] = TRUE]
  /\ UNCHANGED <<disk, call, why, copy, lines, history>>

At(p, node) ==
  /\ pc[p] = "run"
  /\ mem[p].next = node

\* The node returns state m; the graph moves to the next node.
Return(p, m) ==
  /\ mem' = [mem EXCEPT ![p] = [m EXCEPT !.next = NodeAfter[@]]]
  /\ dirty' = [dirty EXCEPT ![p] = TRUE]
  /\ pc' = [pc EXCEPT ![p] = "run"]
  /\ UNCHANGED <<ckpt, call, why, copy, lines>>

Gather(p) ==
  /\ At(p, "gather")
  /\ UNCHANGED <<record, store, drafts>>
  /\ \/ Return(p, mem[p]) /\ UNCHANGED history
     \/ "stub" \in Faults /\ Exit(p, "bad_stub")

\* These nodes turn every failure of their own into an honest empty result.
DegradingNode(p) ==
  /\ \E node \in {"pcap_agent", "kpi_agent"} : At(p, node)
  /\ Return(p, mem[p])
  /\ UNCHANGED <<record, store, drafts, history>>

\* The search's failures become an empty result; the memory context is read outside the
\* try, so a store that cannot be read ends the command.
Investigate(p) ==
  /\ At(p, "investigate")
  /\ UNCHANGED <<record, store, drafts>>
  /\ \/ Return(p, mem[p]) /\ UNCHANGED history
     \/ "io" \in Faults /\ Exit(p, "io")

\* Grounding checks the citation, not the types of the extracted keys.
LogAgent(p) ==
  /\ At(p, "log_agent")
  /\ \E shape \in KeyShapes : Return(p, [mem[p] EXCEPT !.keys = shape])
  /\ UNCHANGED <<record, store, drafts, history>>

\* link() puts (key, value) in a dict: a list or dict value is a TypeError.
Correlate(p) ==
  /\ At(p, "correlate")
  /\ UNCHANGED <<record, store, drafts>>
  /\ \/ mem[p].keys # "unhashable" /\ Return(p, mem[p]) /\ UNCHANGED history
     \/ mem[p].keys = "unhashable" /\ Exit(p, "TypeError")

Propose(p) ==
  /\ At(p, "propose")
  /\ \/ \E selection \in Selections :
          /\ record' = [record EXCEPT ![call[p].inc] =
                          Written("pending", selection)]
          /\ Return(p, [mem[p] EXCEPT !.prop = selection])
          /\ UNCHANGED <<store, drafts, history>>
     \/ RecordWriteFails(p, call[p].inc)

\* interrupt(): without a resume value the command ends here; with one the
\* node runs again and stores the decision it was resumed with.
Approval(p) ==
  /\ At(p, "approval")
  /\ UNCHANGED <<record, store, drafts>>
  /\ \/ ~call[p].resume /\ Exit(p, "paused")
     \/ /\ call[p].resume
        /\ Return(p, [mem[p] EXCEPT
                        !.decision = IF call[p].kind = "reject"
                                     THEN "reject" ELSE "approve",
                        !.execute = (call[p].kind = "execute")])
        /\ granted' = IF call[p].kind = "execute"
                      THEN granted \union {<<call[p].inc, mem[p].prop>>}
                      ELSE granted
        /\ UNCHANGED <<calls, ran>>

-----------------------------------------------------------------------------
(* approve and reject: resume the checkpoint, then the execute node.       *)

\* Mutant: a resumed execute node takes the decision of the new command.
ResumedAnew(i, kind) ==
  IF ckpt[i].next = "execute" /\ kind = "reject"
  THEN [ckpt[i] EXCEPT !.decision = "reject"] ELSE ckpt[i]

\* invoke() loads the checkpoint as it is: a decision stored by an earlier
\* resume stays, whatever this command was called with.
Resumed(i, kind) == ckpt[i]

StartDecide(p, i, kind) ==
  /\ Invoke(p, i, kind, "none")
  /\ \/ ckpt[i].next = "none" /\ Refuse(p, "no_checkpoint")
     \/ ckpt[i].next = "end" /\ Refuse(p, "not_awaiting_approval")
     \/ /\ ckpt[i].next \in Nodes
        /\ Proceed(p, "run")
        /\ mem' = [mem EXCEPT ![p] = Resumed(i, kind)]
        /\ UNCHANGED <<copy, lines>>

GateRaises(i, m) ==
  \/ m.prop = NoProposal /\ m.decision # "reject"
  \/ m.prop # NoProposal /\ ~HashMatches(i, m.prop)

\* The guards of the execute node.
ExecuteGate(p) ==
  LET i == call[p].inc
      m == mem[p] IN
  /\ At(p, "execute")
  /\ UNCHANGED <<record, store, drafts>>
  /\ \/ GateRaises(i, m) /\ Exit(p, IF m.prop = NoProposal
                                    THEN "no_proposal" ELSE "hash_mismatch")
     \/ /\ ~GateRaises(i, m)
        /\ pc' = [pc EXCEPT ![p] = IF ToExecute(m)
                                   THEN "apply" ELSE "settle"]
        /\ UNCHANGED <<ckpt, why, local, history>>

\* Executor.apply renders the proposal again and runs the commands.
Apply(p) ==
  /\ pc[p] = "apply"
  /\ UNCHANGED <<record, store, drafts>>
  /\ \/ "sandbox" \in Faults /\ mem[p].prop \in Acting /\ Exit(p, "rail")
     \/ /\ pc' = [pc EXCEPT ![p] = "settle"]
        /\ ran' = IF mem[p].prop \in Acting
                  THEN ran \union {[id |-> call[p].id, inc |-> call[p].inc,
                                    prop |-> mem[p].prop,
                                    kind |-> call[p].kind]}
                  ELSE ran
        /\ UNCHANGED <<ckpt, why, local, calls, granted>>

SettleRecord(p) ==
  /\ pc[p] = "settle"
  /\ \/ /\ record' = [record EXCEPT ![call[p].inc] =
                        Written(Verdict(mem[p]), mem[p].prop)]
        /\ pc' = [pc EXCEPT ![p] = "remember"]
        /\ UNCHANGED <<ckpt, store, drafts, why, local, history>>
     \/ RecordWriteFails(p, call[p].inc)

\* _write_episode: validate, then append one line; the last effect of the
\* execute node.
WriteEpisode(p) ==
  /\ pc[p] = "remember"
  /\ UNCHANGED <<record, drafts>>
  /\ \/ /\ EpisodeFits(mem[p])
        /\ store' = store \union {NewEpisode(call[p].inc, mem[p])}
        /\ Return(p, mem[p])
        /\ UNCHANGED history
     \/ ~EpisodeFits(mem[p]) /\ UNCHANGED store /\ Exit(p, "invalid_episode")
     \/ "io" \in Faults /\ UNCHANGED store /\ Exit(p, "io")

FinishDecide(p) ==
  /\ At(p, "end")
  /\ UNCHANGED <<record, store, drafts>>
  /\ Exit(p, "decided")

-----------------------------------------------------------------------------
(* close: the gates, then Episode, draft and record, in that order.        *)

\* Mutant: an unresolved incident may be closed again.
ClosedResolved(i) == record[i].outcome = "resolved"

\* The record already has an Outcome section.
Closed(i) == record[i].outcome # "none"

StartClose(p, i, outcome) ==
  /\ Invoke(p, i, "close", outcome)
  /\ \/ ckpt[i].next = "none" /\ Refuse(p, "no_checkpoint")
     \/ ckpt[i].next \in Nodes /\ Refuse(p, "undecided")
     \/ /\ ckpt[i].next = "end"
        /\ ~ToExecute(ckpt[i])
        /\ Refuse(p, "not_executed")
     \/ /\ ckpt[i].next = "end"
        /\ ToExecute(ckpt[i])
        /\ Closed(i)
        /\ Refuse(p, "already_closed")
     \/ /\ ckpt[i].next = "end"
        /\ ToExecute(ckpt[i])
        /\ ~Closed(i)
        /\ Proceed(p, "read_store")
        /\ copy' = [copy EXCEPT ![p] = record[i]]
        /\ UNCHANGED <<mem, lines>>

CloseReadStore(p) ==
  /\ pc[p] = "read_store"
  /\ UNCHANGED <<record, store, drafts>>
  /\ \/ Mine(store, call[p].inc) = {} /\ Exit(p, "no_episode")
     \/ /\ Mine(store, call[p].inc) # {}
        /\ pc' = [pc EXCEPT ![p] = "write_store"]
        /\ lines' = [lines EXCEPT ![p] = store]
        /\ UNCHANGED <<ckpt, call, why, mem, dirty, copy, history>>

\* Mutant: the matching line is dropped instead of replaced.
NotMine(episodes, i, outcome) == episodes \ Mine(episodes, i)

\* set_outcome writes the whole file back from the lines it read.
WithOutcome(episodes, i, outcome) ==
  (episodes \ Mine(episodes, i))
    \union {[e EXCEPT !.outcome = outcome] : e \in Mine(episodes, i)}

CloseWriteStore(p) ==
  /\ pc[p] = "write_store"
  /\ UNCHANGED <<record, drafts>>
  /\ \/ /\ store' = WithOutcome(lines[p], call[p].inc, call[p].outcome)
        /\ pc' = [pc EXCEPT ![p] = "draft"]
        /\ UNCHANGED <<ckpt, why, local, history>>
     \/ "io" \in Faults /\ UNCHANGED store /\ Exit(p, "io")
     \/ "torn" \in Faults /\ store' = {} /\ Exit(p, "io")

\* Mutant: an unresolved remediation is drafted too.
AnyDraft(e, outcome) == e.prop \in Acting /\ e.inc \notin Covered

\* An Episode whose action is real and whose signature no Runbook covers.
WantsDraft(e, outcome) ==
  /\ outcome = "resolved"
  /\ e.prop \in Acting
  /\ e.inc \notin Covered

\* set_outcome returns the Episode it rewrote.
CloseDraft(p) ==
  /\ pc[p] = "draft"
  /\ UNCHANGED <<record, store>>
  /\ \E e \in Mine(lines[p], call[p].inc) :
       \/ /\ drafts' = IF WantsDraft(e, call[p].outcome)
                       THEN drafts \union {call[p].inc} ELSE drafts
          /\ pc' = [pc EXCEPT ![p] = "append"]
          /\ UNCHANGED <<ckpt, why, local, history>>
       \/ /\ "io" \in Faults
          /\ WantsDraft(e, call[p].outcome)
          /\ UNCHANGED drafts
          /\ Exit(p, "io")

\* The record is written back from the text the gates read.
CloseRecord(p) ==
  /\ pc[p] = "append"
  /\ \/ /\ record' = [record EXCEPT ![call[p].inc] =
                        [copy[p] EXCEPT !.outcome = call[p].outcome]]
        /\ UNCHANGED <<store, drafts>>
        /\ Exit(p, "closed")
     \/ RecordWriteFails(p, call[p].inc)

-----------------------------------------------------------------------------
(* The human edits the record, and puts it back.                           *)

EditRecord(i, part) ==
  /\ "edit" \in Faults
  /\ record[i].status \notin {"absent", "torn"}
  /\ record' = [record EXCEPT ![i].edits = @ \union {part}]
  /\ UNCHANGED <<ckpt, store, drafts, pc, why, local, history>>

RestoreRecord(i) ==
  /\ record[i].edits # {}
  /\ record' = [record EXCEPT ![i].edits = {}]
  /\ UNCHANGED <<ckpt, store, drafts, pc, why, local, history>>

-----------------------------------------------------------------------------
Start(p) ==
  \E i \in Desk[p] :
    \/ StartHandle(p, i)
    \/ \E kind \in {"dry-run", "execute", "reject"} : StartDecide(p, i, kind)
    \/ \E outcome \in Outcomes : StartClose(p, i, outcome)

\* What a process does on its own once it has been started.
Step(p) ==
  \/ BeginPipeline(p)
  \/ Gather(p)
  \/ DegradingNode(p)
  \/ LogAgent(p)
  \/ Correlate(p)
  \/ Investigate(p)
  \/ Propose(p)
  \/ Approval(p)
  \/ ExecuteGate(p)
  \/ Apply(p)
  \/ SettleRecord(p)
  \/ WriteEpisode(p)
  \/ FinishDecide(p)
  \/ CloseReadStore(p)
  \/ CloseWriteStore(p)
  \/ CloseDraft(p)
  \/ CloseRecord(p)

Human == \E i \in Incidents :
           RestoreRecord(i) \/ \E part \in {"hash", "body"} : EditRecord(i, part)

Next ==
  \/ \E p \in Operators : Start(p) \/ Step(p) \/ SaveCheckpoint(p) \/ Crash(p)
  \/ Human

Spec == Init /\ [][Next]_vars

\* A started command runs until it exits; starting one is up to the operator.
FairSpec == Spec /\ \A p \in Operators : WF_vars(Step(p))

-----------------------------------------------------------------------------
(* What the gate promises.                                                 *)

TypeOK ==
  /\ ckpt \in [Incidents -> Checkpoint]
  /\ record \in [Incidents -> Record]
  /\ store \subseteq Episode
  /\ drafts \subseteq Incidents
  /\ pc \in [Operators -> {"idle", "admitted", "run", "apply", "settle",
                           "remember", "read_store", "write_store", "draft",
                           "append"}]
  /\ call \in [Operators -> Call]
  /\ why \in [Operators -> Reasons]
  /\ mem \in [Operators -> Checkpoint]
  /\ dirty \in [Operators -> BOOLEAN]
  /\ copy \in [Operators -> Record]
  /\ lines \in [Operators -> SUBSET Episode]
  /\ calls \in Nat
  /\ granted \subseteq (Incidents \X Selections)
  /\ ran \subseteq Applied

\* Nothing executes without approval (CONTEXT.md): every proposal whose
\* commands were run had been approved with --execute at the interrupt,
\* whichever invocation ended up running them.
AppliedWasApproved == \A a \in ran : <<a.inc, a.prop>> \in granted

\* A finished incident is remembered with the decision that finished it, so
\* its Episode is there for `close` and for later investigations.
FinishedIsRemembered ==
  \A i \in Incidents :
    ckpt[i].next = "end" =>
      \E e \in store : /\ e.inc = i
                       /\ e.prop = ckpt[i].prop
                       /\ e.decision = Verdict(ckpt[i])

\* An Outcome on a record belongs to an incident approved for execution, and
\* its executed Episode carries the same verdict.
ClosedWasExecuted ==
  \A i \in Incidents :
    record[i].outcome # "none" =>
      /\ ckpt[i].next = "end"
      /\ ToExecute(ckpt[i])
      /\ \E e \in store : /\ e.inc = i
                          /\ e.decision = "approved-executed"
                          /\ e.outcome = record[i].outcome

\* What the human reads at the gate is what the checkpoint will execute: the
\* record and the checkpoint, written at different times, name one proposal.
RecordMatchesGate ==
  \A i \in Incidents :
    ckpt[i].next \in {"approval", "execute", "end"}
      /\ record[i].status \notin {"absent", "torn"}
      => record[i].prop = ckpt[i].prop

\* A record that says "rejected: no commands applied" tells the truth.
RejectedUntouched ==
  \A i \in Incidents :
    record[i].status = "rejected" => \A a \in ran : a.inc # i

\* Commands are applied by one invocation at most.
AppliedAtMostOnce == \A a, b \in ran : a.inc = b.inc => a = b

\* A `handle` that reached the interrupt left a record and a checkpoint that
\* the next command can resume.
HandleLeavesGate ==
  \A p \in Operators :
    call[p].kind = "handle" /\ why[p] = "paused" =>
      /\ record[call[p].inc].status # "absent"
      /\ ckpt[call[p].inc].next \in {"approval", "execute", "end"}

\* A staged draft of a closed incident comes from a resolved execution that
\* no committed Runbook covers (ADR-0003).
DraftFromResolved ==
  \A i \in drafts :
    /\ i \notin Covered
    /\ ToExecute(ckpt[i])
    /\ record[i].outcome \in {"none", "resolved"}

\* An incident is decided once: a finished checkpoint never changes.
DecisionIsFinal ==
  [][\A i \in Incidents : ckpt[i].next = "end" => ckpt'[i] = ckpt[i]]_ckpt

\* A closed incident keeps its Outcome, on the record and in the store.
OutcomeIsFinal ==
  [][\A i \in Incidents :
       record[i].outcome # "none" =>
         /\ record'[i].outcome = record[i].outcome
         /\ Mine(store', i) = Mine(store, i)]_<<record, store>>

\* No Episode is ever lost: an Outcome is the only thing that may change.
EpisodesStay ==
  [][\A e \in store :
       \E f \in store' : [f EXCEPT !.outcome = e.outcome] = e]_store

\* Once the execute node has passed its guards the decision is carried out
\* and the incident finishes.
SettlingFinishes ==
  \A i \in Incidents :
    (\E p \in Operators : pc[p] \in {"apply", "settle"} /\ call[p].inc = i)
      ~> (ckpt[i].next = "end")

\* A command that resumes a decided-but-unfinished or waiting incident whose
\* record is intact is never turned away for want of a proposal when it is a
\* rejection ("`reject` is the way to close it", dispatch/README.md).
RejectCloses ==
  \A p \in Operators :
    call[p].kind = "reject" => why[p] # "no_proposal"

\* Only `--execute` applies commands (dispatch/README.md).
OnlyExecuteApplies == \A a \in ran : a.kind = "execute"

\* A tampered record refuses to be approved or rejected
\* (dispatch/README.md): no decision gets past the guards of the execute node
\* while the record differs from what the code wrote.
TamperedIsNotDecided ==
  [][\A p \in Operators :
       At(p, "execute") /\ pc'[p] \in {"apply", "settle"}
         => record[call[p].inc].edits = {}]_pc

\* Every decided incident is remembered (graph.py): once no command is
\* running, a record that shows a verdict has its Episode.
DecidedIsRemembered ==
  \A i \in Incidents :
    record[i].status \in Verdicts /\ (\A p \in Operators : pc[p] = "idle")
      => \E e \in store : e.inc = i /\ e.decision = record[i].status

=============================================================================
