----------------------------- MODULE GateProofs -----------------------------
(***************************************************************************)
(* What the gate of dispatch guarantees, beyond types and approval, and    *)
(* under which conditions.  The code locks nothing, so what it keeps true  *)
(* depends on how it is used and on what fails: the hypotheses below name  *)
(* these conditions and every theorem states the ones it needs.            *)
(*                                                                         *)
(* The proof is in two layers.  The first one says, once, what a step of a *)
(* process does to the one incident it is about, and that nothing else     *)
(* moves; the second one derives each invariant from these effects alone.  *)
(***************************************************************************)
EXTENDS DispatchRefinement, DispatchProofs

\* No two operators ever run commands on the same incident.
DisjointDesks ==
  \A p, q \in Operators : p # q => Desk[p] \cap Desk[q] = {}

\* One command at a time: nobody starts one while another is running.
OneOperator == \A p, q \in Operators : p = q

NoCrash == "crash" \notin Faults
NoTornWrite == "torn" \notin Faults
NoFailedWrite == Faults \cap {"io", "torn"} = {}

\* Evidence keys and proposal args are what EvidenceKey and Episode demand.
ValidData == KeyShapes \subseteq {"scalar"} /\ Textual = Proposals

-----------------------------------------------------------------------------
(* The effects of a step of process p on the incident of its command.      *)

\* The graph waits at the gate or is past it.
Late == {"approval", "execute", "end"}

\* p runs the graph; p is a `close` past its gates.
Holding(p) == pc[p] \in {"run", "apply", "settle", "remember"}
Closing(p) == pc[p] \in {"read_store", "write_store", "draft", "append"}

\* A step of p about incident i leaves every other process and every other
\* incident as they were.
Alone(p, i) ==
  /\ \A q \in Operators :
       q # p => /\ pc'[q] = pc[q] /\ call'[q] = call[q] /\ why'[q] = why[q]
                /\ mem'[q] = mem[q] /\ dirty'[q] = dirty[q]
                /\ copy'[q] = copy[q] /\ lines'[q] = lines[q]
  /\ \A j \in Incidents :
       j # i => /\ ckpt'[j] = ckpt[j] /\ record'[j] = record[j]
                /\ j \in drafts' <=> j \in drafts
  /\ ran \subseteq ran'
  /\ \A a \in ran' : a \in ran \/ a.inc = i

\* The command ends and the pending checkpoint write is flushed.
Ends(p, reason) ==
  /\ pc'[p] = "idle" /\ why'[p] = reason /\ call'[p] = call[p]
  /\ dirty'[p] = FALSE
  /\ ckpt'[call[p].inc] = IF dirty[p] THEN mem[p] ELSE ckpt[call[p].inc]
  /\ drafts' = drafts /\ ran' = ran

\* A write of the record at p's place may have torn it.
Torn(p) ==
  /\ "torn" \in Faults
  /\ At(p, "propose") \/ pc[p] \in {"settle", "append"}
  /\ record'[call[p].inc] = TornRecord

\* The command ends on an error, or as a finished decision.
Stops(p) ==
  /\ pc[p] # "idle"
  /\ \E reason \in Reasons \ {"none", "running", "paused"} : Ends(p, reason)
  /\ record'[call[p].inc] = record[call[p].inc] \/ Torn(p)
  /\ store' = store \/ "torn" \in Faults
  /\ pc[p] \in {"settle", "write_store", "draft", "append"} =>
       ~NoFailedWrite
  /\ pc[p] = "remember" => "io" \in Faults \/ ~EpisodeFits(mem[p])

\* The command ends at the interrupt.
Pauses(p) ==
  /\ At(p, "approval")
  /\ Ends(p, "paused")
  /\ record'[call[p].inc] = record[call[p].inc] /\ store' = store

\* The graph enters node n with the selection it had.
Enters(p, n) ==
  /\ pc'[p] = "run" /\ why'[p] = why[p] /\ call'[p] = call[p]
  /\ dirty'[p] = TRUE
  /\ mem'[p].next = n
  /\ ckpt'[call[p].inc] = ckpt[call[p].inc]
  /\ drafts' = drafts /\ ran' = ran

Begins(p) ==
  /\ pc[p] = "admitted"
  /\ Enters(p, "gather")
  /\ record'[call[p].inc] = record[call[p].inc] /\ store' = store

\* A node before propose; only the log extraction sets the keys.
Advances(p) ==
  /\ pc[p] = "run" /\ mem[p].next \in Nodes \ {"propose", "approval", "execute"}
  /\ Enters(p, NodeAfter[mem[p].next])
  /\ \/ mem[p].next = "log_agent" /\ mem'[p].keys \in KeyShapes
     \/ mem[p].next # "log_agent" /\ mem'[p].keys = mem[p].keys
  /\ record'[call[p].inc] = record[call[p].inc] /\ store' = store

Proposes(p) ==
  /\ At(p, "propose")
  /\ Enters(p, "approval")
  /\ mem'[p].keys = mem[p].keys
  /\ record'[call[p].inc] = Written("pending", mem'[p].prop)
  /\ store' = store

Decides(p) ==
  /\ At(p, "approval")
  /\ Enters(p, "execute")
  /\ mem'[p].keys = mem[p].keys /\ mem'[p].prop = mem[p].prop
  /\ mem'[p].decision \in {"approve", "reject"}
  /\ record'[call[p].inc] = record[call[p].inc] /\ store' = store

\* p moves on to w and keeps all it holds.
MovesTo(p, w) ==
  /\ pc'[p] = w /\ why'[p] = why[p] /\ call'[p] = call[p]
  /\ mem'[p] = mem[p] /\ dirty'[p] = dirty[p] /\ copy'[p] = copy[p]
  /\ ckpt'[call[p].inc] = ckpt[call[p].inc]

Passes(p) ==
  /\ At(p, "execute")
  /\ MovesTo(p, IF ToExecute(mem[p]) THEN "apply" ELSE "settle")
  /\ record'[call[p].inc] = record[call[p].inc] /\ store' = store
  /\ drafts' = drafts /\ ran' = ran

\* p's entry in the history of applied proposals.
Entry(p) == [id |-> call[p].id, inc |-> call[p].inc, prop |-> mem[p].prop,
             kind |-> call[p].kind]

Applies(p) ==
  /\ pc[p] = "apply"
  /\ MovesTo(p, "settle")
  /\ mem[p].prop \in Acting => ran' = ran \union {Entry(p)}
  /\ mem[p].prop \notin Acting => ran' = ran
  /\ record'[call[p].inc] = record[call[p].inc] /\ store' = store
  /\ drafts' = drafts

Settles(p) ==
  /\ pc[p] = "settle"
  /\ MovesTo(p, "remember")
  /\ record'[call[p].inc] = Written(Verdict(mem[p]), mem[p].prop)
  /\ store' = store /\ drafts' = drafts /\ ran' = ran

Remembers(p) ==
  /\ pc[p] = "remember" /\ mem[p].next = "execute"
  /\ Enters(p, "end")
  /\ mem'[p].keys = mem[p].keys /\ mem'[p].prop = mem[p].prop
  /\ mem'[p].decision = mem[p].decision /\ mem'[p].execute = mem[p].execute
  /\ Verdict(mem'[p]) = Verdict(mem[p])
  /\ ToExecute(mem'[p]) <=> ToExecute(mem[p])
  /\ record'[call[p].inc] = record[call[p].inc]
  /\ store' = store \union {NewEpisode(call[p].inc, mem[p])}

Reads(p) ==
  /\ pc[p] = "read_store"
  /\ MovesTo(p, "write_store")
  /\ lines'[p] = store
  /\ record'[call[p].inc] = record[call[p].inc] /\ store' = store
  /\ drafts' = drafts /\ ran' = ran

Rewrites(p) ==
  /\ pc[p] = "write_store"
  /\ MovesTo(p, "draft")
  /\ store' = WithOutcome(lines[p], call[p].inc, call[p].outcome)
  /\ record'[call[p].inc] = record[call[p].inc]
  /\ drafts' = drafts /\ ran' = ran

Drafts(p) ==
  /\ pc[p] = "draft"
  /\ MovesTo(p, "append")
  /\ \/ drafts' = drafts
     \/ /\ drafts' = drafts \union {call[p].inc}
        /\ call[p].outcome = "resolved" /\ call[p].inc \notin Covered
  /\ record'[call[p].inc] = record[call[p].inc] /\ store' = store
  /\ ran' = ran

Closes(p) ==
  /\ pc[p] = "append"
  /\ Ends(p, "closed")
  /\ record'[call[p].inc].status = copy[p].status
  /\ record'[call[p].inc].prop = copy[p].prop
  /\ record'[call[p].inc].outcome = call[p].outcome
  /\ store' = store

Moves(p) ==
  \/ Stops(p) \/ Pauses(p) \/ Begins(p) \/ Advances(p) \/ Proposes(p)
  \/ Decides(p) \/ Passes(p) \/ Applies(p) \/ Settles(p) \/ Remembers(p)
  \/ Reads(p) \/ Rewrites(p) \/ Drafts(p) \/ Closes(p)

-----------------------------------------------------------------------------
(* Every action of a running process has one of these effects.             *)

\* The record of one incident at most.
RecordOf(i) == \A j \in Incidents : j # i => record'[j] = record[j]

LEMMA ExitEffect ==
  ASSUME IInv, NEW p \in Operators, NEW reason, Exit(p, reason),
         RecordOf(call[p].inc), drafts' = drafts
  PROVE  Alone(p, call[p].inc) /\ Ends(p, reason)
<1>1. call[p].inc \in Incidents
  BY HeldTyped
<1>2. /\ pc' = [pc EXCEPT ![p] = "idle"] /\ why' = [why EXCEPT ![p] = reason]
      /\ dirty' = [dirty EXCEPT ![p] = FALSE]
      /\ mem' = [mem EXCEPT ![p] = NoCheckpoint]
      /\ copy' = [copy EXCEPT ![p] = NoRecord]
      /\ lines' = [lines EXCEPT ![p] = {}]
      /\ call' = call /\ ran' = ran
  BY DEF Exit, history
<1>3. /\ ckpt'[call[p].inc] = IF dirty[p] THEN mem[p] ELSE ckpt[call[p].inc]
      /\ \A j \in Incidents : j # call[p].inc => ckpt'[j] = ckpt[j]
  BY <1>1 DEF Exit, Flushed, IInv, TypeOK
<1>4. Alone(p, call[p].inc)
  BY <1>2, <1>3 DEF Alone, RecordOf, IInv, TypeOK
<1>5. Ends(p, reason)
  BY <1>2, <1>3 DEF Ends, IInv, TypeOK
<1>6. QED
  BY <1>4, <1>5

LEMMA ReturnEffect ==
  ASSUME IInv, NEW p \in Operators, NEW m \in Checkpoint, Return(p, m),
         m.next \in Nodes, RecordOf(call[p].inc), drafts' = drafts, ran' = ran
  PROVE  /\ Alone(p, call[p].inc)
         /\ Enters(p, NodeAfter[m.next])
         /\ mem'[p].keys = m.keys /\ mem'[p].prop = m.prop
         /\ mem'[p].decision = m.decision /\ mem'[p].execute = m.execute
<1> DEFINE n == [m EXCEPT !.next = NodeAfter[@]]
<1>1. /\ n.next = NodeAfter[m.next] /\ n.prop = m.prop /\ n.keys = m.keys
      /\ n.decision = m.decision /\ n.execute = m.execute
  BY DEF Checkpoint
<1> HIDE DEF n
<1>2. /\ mem' = [mem EXCEPT ![p] = n]
      /\ dirty' = [dirty EXCEPT ![p] = TRUE]
      /\ pc' = [pc EXCEPT ![p] = "run"]
      /\ UNCHANGED <<ckpt, call, why, copy, lines>>
  BY DEF Return, n
<1>3. Alone(p, call[p].inc)
  BY <1>2 DEF Alone, RecordOf, IInv, TypeOK
<1>4. mem'[p] = n
  BY <1>2 DEF IInv, TypeOK
<1>5. Enters(p, NodeAfter[m.next])
  BY <1>1, <1>2, <1>4 DEF Enters, IInv, TypeOK
<1>6. QED
  BY <1>1, <1>3, <1>4, <1>5

LEMMA MoveEffect ==
  ASSUME IInv, NEW p \in Operators, NEW w, pc' = [pc EXCEPT ![p] = w],
         UNCHANGED <<ckpt, why, call, mem, dirty, copy>>,
         \A q \in Operators : q # p => lines'[q] = lines[q],
         RecordOf(call[p].inc),
         \A j \in Incidents :
           j # call[p].inc => (j \in drafts' <=> j \in drafts),
         ran \subseteq ran', \A a \in ran' : a \in ran \/ a.inc = call[p].inc
  PROVE  Alone(p, call[p].inc) /\ MovesTo(p, w)
BY DEF Alone, MovesTo, RecordOf, IInv, TypeOK

LEMMA Unrecorded ==
  ASSUME record' = record, NEW i PROVE RecordOf(i) /\ record'[i] = record[i]
BY DEF RecordOf

LEMMA Recorded ==
  ASSUME IInv, NEW i \in Incidents, NEW r, record' = [record EXCEPT ![i] = r]
  PROVE  RecordOf(i) /\ record'[i] = r
BY DEF RecordOf, IInv, TypeOK

\* Leaving on an error changes the record only if the write tore it.
LEMMA StopEffect ==
  ASSUME IInv, NEW p \in Operators,
         NEW reason \in Reasons \ {"none", "running", "paused"},
         pc[p] # "idle",
         Exit(p, reason), RecordOf(call[p].inc), UNCHANGED drafts,
         record'[call[p].inc] = record[call[p].inc] \/ Torn(p),
         store' = store \/ "torn" \in Faults,
         pc[p] \in {"settle", "write_store", "draft", "append"}
           => ~NoFailedWrite,
         pc[p] = "remember" => "io" \in Faults \/ ~EpisodeFits(mem[p])
  PROVE  Alone(p, call[p].inc) /\ Moves(p)
<1>1. Alone(p, call[p].inc) /\ Ends(p, reason)
  BY ExitEffect
<1>2. Stops(p)
  BY <1>1, Zenon DEF Stops
<1>3. QED
  BY <1>1, <1>2 DEF Moves

LEMMA WriteFailsEffect ==
  ASSUME IInv, NEW p \in Operators, RecordWriteFails(p, call[p].inc),
         At(p, "propose") \/ pc[p] \in {"settle", "append"}
  PROVE  Alone(p, call[p].inc) /\ Moves(p)
<1>1. /\ \/ "io" \in Faults /\ record' = record
         \/ /\ "torn" \in Faults
            /\ record' = [record EXCEPT ![call[p].inc] = TornRecord]
      /\ store' = store /\ drafts' = drafts /\ Exit(p, "io")
  BY Zenon DEF RecordWriteFails
<1>2. call[p].inc \in Incidents
  BY HeldTyped
<1>3. /\ RecordOf(call[p].inc)
      /\ record'[call[p].inc] = record[call[p].inc] \/ Torn(p)
  <2>1. CASE record' = record
    BY <2>1, Unrecorded
  <2>2. CASE /\ "torn" \in Faults
             /\ record' = [record EXCEPT ![call[p].inc] = TornRecord]
    <3>1. RecordOf(call[p].inc) /\ record'[call[p].inc] = TornRecord
      BY <1>2, <2>2, Recorded
    <3>2. QED
      BY <2>2, <3>1 DEF Torn
  <2>3. QED
    BY <1>1, <2>1, <2>2
<1>4. ~NoFailedWrite
  BY <1>1 DEF NoFailedWrite
<1>5. pc[p] \notin {"remember", "idle"}
  BY DEF At
<1>6. "io" \in Reasons \ {"none", "running", "paused"}
  BY DEF Reasons
<1>7. QED
  BY <1>1, <1>3, <1>4, <1>5, <1>6, StopEffect, Zenon

LEMMA BeginEffect ==
  ASSUME IInv, NEW p \in Operators, BeginPipeline(p)
  PROVE  Alone(p, call[p].inc) /\ Moves(p)
<1> DEFINE m == [ckpt[call[p].inc] EXCEPT !.next = "gather"]
<1>1. m.next = "gather"
  <2>1. ckpt[call[p].inc] \in Checkpoint
    BY HeldTyped DEF IInv, TypeOK
  <2>2. QED
    BY <2>1 DEF Checkpoint
<1>2. /\ pc[p] = "admitted"
      /\ pc' = [pc EXCEPT ![p] = "run"]
      /\ mem' = [mem EXCEPT ![p] = m]
      /\ dirty' = [dirty EXCEPT ![p] = TRUE]
      /\ UNCHANGED <<ckpt, record, store, drafts, call, why, copy, lines, ran>>
  BY DEF BeginPipeline, disk, history
<1> HIDE DEF m
<1>3. Alone(p, call[p].inc)
  BY <1>2 DEF Alone, IInv, TypeOK
<1>4. mem'[p] = m
  BY <1>2 DEF IInv, TypeOK
<1>5. Begins(p)
  BY <1>1, <1>2, <1>4 DEF Begins, Enters, IInv, TypeOK
<1>6. QED
  BY <1>3, <1>5 DEF Moves

\* The nodes before propose return what they hold.
LEMMA NodeEffect ==
  ASSUME IInv, NEW p \in Operators, NEW m \in Checkpoint, pc[p] = "run",
         m.next = mem[p].next,
         m.next \in Nodes \ {"propose", "approval", "execute"},
         \/ m.next = "log_agent" /\ m.keys \in KeyShapes
         \/ m.next # "log_agent" /\ m.keys = mem[p].keys,
         Return(p, m), UNCHANGED <<record, store, drafts>>, UNCHANGED history
  PROVE  Alone(p, call[p].inc) /\ Moves(p)
<1>1. /\ RecordOf(call[p].inc) /\ record'[call[p].inc] = record[call[p].inc]
      /\ store' = store /\ drafts' = drafts /\ ran' = ran
  BY Unrecorded DEF history
<1>2. /\ Alone(p, call[p].inc)
      /\ Enters(p, NodeAfter[m.next])
      /\ mem'[p].keys = m.keys
  BY <1>1, ReturnEffect
<1>3. Advances(p)
  BY <1>1, <1>2 DEF Advances
<1>4. QED
  BY <1>2, <1>3 DEF Moves

LEMMA PipelineEffect ==
  ASSUME IInv, NEW p \in Operators,
         \/ Gather(p) \/ DegradingNode(p) \/ LogAgent(p)
         \/ Correlate(p) \/ Investigate(p)
  PROVE  Alone(p, call[p].inc) /\ Moves(p)
<1>1. mem[p] \in Checkpoint
  BY HeldTyped
<1>2. ASSUME NEW n \in {"gather", "pcap_agent", "kpi_agent", "investigate",
                        "correlate"}, At(p, n),
             Return(p, mem[p]), UNCHANGED <<record, store, drafts>>,
             UNCHANGED history
      PROVE  Alone(p, call[p].inc) /\ Moves(p)
  <2>1. /\ pc[p] = "run" /\ mem[p].next # "log_agent"
        /\ mem[p].next \in Nodes \ {"propose", "approval", "execute"}
    BY <1>2, NodeNames DEF At
  <2>2. QED
    BY <1>1, <1>2, <2>1, NodeEffect
<1>3. ASSUME NEW reason \in {"bad_stub", "TypeError", "io"}, pc[p] = "run",
             Exit(p, reason), UNCHANGED <<record, store, drafts>>
      PROVE  Alone(p, call[p].inc) /\ Moves(p)
  <2>1. RecordOf(call[p].inc) /\ record'[call[p].inc] = record[call[p].inc]
    BY <1>3, Unrecorded
  <2>2. reason \in Reasons \ {"none", "running", "paused"}
    BY DEF Reasons
  <2>3. QED
    BY <1>3, <2>1, <2>2, StopEffect
<1>4. CASE Gather(p)
  <2>1. /\ At(p, "gather") /\ pc[p] = "run"
        /\ UNCHANGED <<record, store, drafts>>
        /\ (Return(p, mem[p]) /\ UNCHANGED history) \/ Exit(p, "bad_stub")
    BY <1>4, Zenon DEF Gather, At
  <2>2. QED
    BY <1>2, <1>3, <2>1
<1>5. CASE DegradingNode(p)
  <2>1. PICK n \in {"pcap_agent", "kpi_agent"} : At(p, n)
    BY <1>5, Zenon DEF DegradingNode
  <2>2. /\ Return(p, mem[p]) /\ UNCHANGED <<record, store, drafts>>
        /\ UNCHANGED history
    BY <1>5, Zenon DEF DegradingNode
  <2>3. QED
    BY <1>2, <2>1, <2>2
<1>6. CASE LogAgent(p)
  <2>1. PICK shape \in KeyShapes : Return(p, [mem[p] EXCEPT !.keys = shape])
    BY <1>6, Zenon DEF LogAgent
  <2> DEFINE m == [mem[p] EXCEPT !.keys = shape]
  <2>2. /\ m \in Checkpoint /\ m.next = mem[p].next /\ m.keys = shape
    BY <1>1, DispatchAssumption DEF Checkpoint
  <2>3. /\ pc[p] = "run" /\ mem[p].next = "log_agent"
        /\ UNCHANGED <<record, store, drafts>> /\ UNCHANGED history
    BY <1>6, Zenon DEF LogAgent, At
  <2> HIDE DEF m
  <2>4. Return(p, m)
    BY <2>1 DEF m
  <2>5. m.next \in Nodes \ {"propose", "approval", "execute"}
    BY <2>2, <2>3, NodeNames
  <2>6. QED
    BY <2>2, <2>3, <2>4, <2>5, NodeEffect
<1>7. CASE Correlate(p)
  <2>1. /\ At(p, "correlate") /\ pc[p] = "run"
        /\ UNCHANGED <<record, store, drafts>>
        /\ (Return(p, mem[p]) /\ UNCHANGED history) \/ Exit(p, "TypeError")
    BY <1>7, Zenon DEF Correlate, At
  <2>2. QED
    BY <1>2, <1>3, <2>1
<1>8. CASE Investigate(p)
  <2>1. /\ At(p, "investigate") /\ pc[p] = "run"
        /\ UNCHANGED <<record, store, drafts>>
        /\ (Return(p, mem[p]) /\ UNCHANGED history) \/ Exit(p, "io")
    BY <1>8, Zenon DEF Investigate, At
  <2>2. QED
    BY <1>2, <1>3, <2>1
<1>9. QED
  BY <1>4, <1>5, <1>6, <1>7, <1>8

LEMMA ProposeEffect ==
  ASSUME IInv, NEW p \in Operators, Propose(p)
  PROVE  Alone(p, call[p].inc) /\ Moves(p)
<1>1. At(p, "propose") /\ call[p].inc \in Incidents /\ mem[p] \in Checkpoint
  BY HeldTyped, Zenon DEF Propose
<1>2. ASSUME NEW selection \in Selections,
             record' = [record EXCEPT ![call[p].inc] =
                          Written("pending", selection)],
             Return(p, [mem[p] EXCEPT !.prop = selection]),
             UNCHANGED <<store, drafts>>, UNCHANGED history
      PROVE  Alone(p, call[p].inc) /\ Moves(p)
  <2> DEFINE m == [mem[p] EXCEPT !.prop = selection]
  <2>1. /\ m \in Checkpoint /\ m.next = mem[p].next /\ m.keys = mem[p].keys
        /\ m.prop = selection
    BY <1>1 DEF Checkpoint
  <2>2. Return(p, m)
    BY <1>2
  <2> HIDE DEF m
  <2>3. m.next \in Nodes /\ NodeAfter[m.next] = "approval"
    BY <1>1, <2>1, NodeNames DEF At, NodeAfter
  <2>4. /\ RecordOf(call[p].inc)
        /\ record'[call[p].inc] = Written("pending", selection)
        /\ store' = store /\ drafts' = drafts /\ ran' = ran
    BY <1>1, <1>2, Recorded DEF history
  <2>5. /\ Alone(p, call[p].inc) /\ Enters(p, "approval")
        /\ mem'[p].keys = m.keys /\ mem'[p].prop = m.prop
    BY <2>1, <2>2, <2>3, <2>4, ReturnEffect
  <2>6. Proposes(p)
    BY <1>1, <2>1, <2>4, <2>5 DEF Proposes
  <2>7. QED
    BY <2>5, <2>6 DEF Moves
<1>3. CASE RecordWriteFails(p, call[p].inc)
  BY <1>1, <1>3, WriteFailsEffect
<1>4. QED
  BY <1>2, <1>3, Zenon DEF Propose

LEMMA ApprovalEffect ==
  ASSUME IInv, NEW p \in Operators, Approval(p)
  PROVE  Alone(p, call[p].inc) /\ Moves(p)
<1>1. /\ At(p, "approval")
      /\ RecordOf(call[p].inc) /\ record'[call[p].inc] = record[call[p].inc]
      /\ store' = store /\ drafts' = drafts
  BY Unrecorded DEF Approval
<1>2. CASE Exit(p, "paused")
  <2>1. Alone(p, call[p].inc) /\ Ends(p, "paused")
    BY <1>1, <1>2, ExitEffect
  <2>2. Pauses(p)
    BY <1>1, <2>1 DEF Pauses
  <2>3. QED
    BY <2>1, <2>2 DEF Moves
<1> DEFINE d == IF call[p].kind = "reject" THEN "reject" ELSE "approve"
           x == call[p].kind = "execute"
           m == [mem[p] EXCEPT !.decision = d, !.execute = x]
<1>3. CASE Return(p, m) /\ ran' = ran
  <2>1. d \in {"approve", "reject"} /\ x \in BOOLEAN
    OBVIOUS
  <2> HIDE DEF d, x
  <2>2. /\ m \in Checkpoint /\ m.next = mem[p].next /\ m.keys = mem[p].keys
        /\ m.prop = mem[p].prop /\ m.decision = d
    BY <2>1, HeldTyped DEF Checkpoint
  <2> HIDE DEF m
  <2>3. m.next \in Nodes /\ NodeAfter[m.next] = "execute"
    BY <1>1, <2>2, NodeNames DEF At, NodeAfter
  <2>4. /\ Alone(p, call[p].inc) /\ Enters(p, "execute")
        /\ mem'[p].keys = m.keys /\ mem'[p].prop = m.prop
        /\ mem'[p].decision = m.decision
    BY <1>1, <1>3, <2>2, <2>3, ReturnEffect
  <2>5. Decides(p)
    BY <1>1, <2>1, <2>2, <2>4 DEF Decides
  <2>6. QED
    BY <2>4, <2>5 DEF Moves
<1>4. QED
  BY <1>2, <1>3, Zenon DEF Approval

LEMMA ExecuteGateEffect ==
  ASSUME IInv, NEW p \in Operators, ExecuteGate(p)
  PROVE  Alone(p, call[p].inc) /\ Moves(p)
<1>1. /\ At(p, "execute") /\ pc[p] = "run"
      /\ RecordOf(call[p].inc) /\ record'[call[p].inc] = record[call[p].inc]
      /\ store' = store /\ drafts' = drafts
  BY Unrecorded DEF ExecuteGate, At
<1>2. ASSUME NEW reason \in {"no_proposal", "hash_mismatch"}, Exit(p, reason)
      PROVE  Alone(p, call[p].inc) /\ Moves(p)
  <2>1. reason \in Reasons \ {"none", "running", "paused"}
    BY DEF Reasons
  <2>2. QED
    BY <1>1, <1>2, <2>1, StopEffect
<1>3. CASE GateRaises(call[p].inc, mem[p])
  <2>1. Exit(p, IF mem[p].prop = NoProposal
                THEN "no_proposal" ELSE "hash_mismatch")
    BY <1>3, Zenon DEF ExecuteGate
  <2>2. QED
    BY <1>2, <2>1
<1>4. CASE ~GateRaises(call[p].inc, mem[p])
  <2> DEFINE w == IF ToExecute(mem[p]) THEN "apply" ELSE "settle"
  <2>1. pc' = [pc EXCEPT ![p] = w] /\ UNCHANGED <<ckpt, why, local, history>>
    BY <1>4, Zenon DEF ExecuteGate
  <2> HIDE DEF w
  <2>2. /\ UNCHANGED <<ckpt, why, call, mem, dirty, copy, lines>>
        /\ ran' = ran
    BY <2>1 DEF local, history
  <2>3. Alone(p, call[p].inc) /\ MovesTo(p, w)
    BY <1>1, <2>1, <2>2, MoveEffect
  <2>4. Passes(p)
    BY <1>1, <2>2, <2>3 DEF Passes, w
  <2>5. QED
    BY <2>3, <2>4 DEF Moves
<1>5. QED
  BY <1>3, <1>4

LEMMA ApplyEffect ==
  ASSUME IInv, NEW p \in Operators, Apply(p)
  PROVE  Alone(p, call[p].inc) /\ Moves(p)
<1>1. /\ pc[p] = "apply"
      /\ RecordOf(call[p].inc) /\ record'[call[p].inc] = record[call[p].inc]
      /\ store' = store /\ drafts' = drafts
  BY Unrecorded DEF Apply
<1>2. CASE Exit(p, "rail")
  <2>1. "rail" \in Reasons \ {"none", "running", "paused"}
    BY DEF Reasons
  <2>2. QED
    BY <1>1, <1>2, <2>1, StopEffect
<1>3. CASE /\ pc' = [pc EXCEPT ![p] = "settle"]
           /\ ran' = IF mem[p].prop \in Acting
                     THEN ran \union {Entry(p)} ELSE ran
           /\ UNCHANGED <<ckpt, why, local, calls, granted>>
  <2>1. UNCHANGED <<ckpt, why, call, mem, dirty, copy, lines>>
    BY <1>3 DEF local
  <2>2. Entry(p).inc = call[p].inc
    BY DEF Entry
  <2>3. /\ ran \subseteq ran'
        /\ \A a \in ran' : a \in ran \/ a.inc = call[p].inc
    BY <1>3, <2>2
  <2>4. Alone(p, call[p].inc) /\ MovesTo(p, "settle")
    BY <1>1, <1>3, <2>1, <2>3, MoveEffect
  <2>5. Applies(p)
    BY <1>1, <1>3, <2>1, <2>4 DEF Applies
  <2>6. QED
    BY <2>4, <2>5 DEF Moves
<1>4. QED
  BY <1>2, <1>3, Zenon DEF Apply, Entry

LEMMA SettleEffect ==
  ASSUME IInv, NEW p \in Operators, SettleRecord(p)
  PROVE  Alone(p, call[p].inc) /\ Moves(p)
<1>1. pc[p] = "settle" /\ call[p].inc \in Incidents
  BY HeldTyped DEF SettleRecord
<1>2. CASE /\ record' = [record EXCEPT ![call[p].inc] =
                           Written(Verdict(mem[p]), mem[p].prop)]
           /\ pc' = [pc EXCEPT ![p] = "remember"]
           /\ UNCHANGED <<ckpt, store, drafts, why, local, history>>
  <2>1. /\ UNCHANGED <<ckpt, why, call, mem, dirty, copy, lines>>
        /\ store' = store /\ drafts' = drafts /\ ran' = ran
    BY <1>2 DEF local, history
  <2>2. /\ RecordOf(call[p].inc)
        /\ record'[call[p].inc] = Written(Verdict(mem[p]), mem[p].prop)
    BY <1>1, <1>2, Recorded
  <2>3. Alone(p, call[p].inc) /\ MovesTo(p, "remember")
    BY <1>2, <2>1, <2>2, MoveEffect
  <2>4. Settles(p)
    BY <1>1, <2>1, <2>2, <2>3 DEF Settles
  <2>5. QED
    BY <2>3, <2>4 DEF Moves
<1>3. CASE RecordWriteFails(p, call[p].inc)
  BY <1>1, <1>3, WriteFailsEffect
<1>4. QED
  BY <1>2, <1>3, Zenon DEF SettleRecord

LEMMA WriteEpisodeEffect ==
  ASSUME IInv, NEW p \in Operators, WriteEpisode(p)
  PROVE  Alone(p, call[p].inc) /\ Moves(p)
<1>1. /\ pc[p] = "remember" /\ mem[p].next = "execute"
      /\ mem[p] \in Checkpoint
      /\ RecordOf(call[p].inc) /\ record'[call[p].inc] = record[call[p].inc]
      /\ drafts' = drafts
  BY Unrecorded, HeldTyped DEF WriteEpisode, IInv, Positions
<1>2. CASE /\ store' = store \union {NewEpisode(call[p].inc, mem[p])}
           /\ Return(p, mem[p])
           /\ UNCHANGED history
  <2>1. ran' = ran
    BY <1>2 DEF history
  <2>2. mem[p].next \in Nodes /\ NodeAfter[mem[p].next] = "end"
    BY <1>1, NodeNames DEF NodeAfter
  <2>3. /\ Alone(p, call[p].inc) /\ Enters(p, "end")
        /\ mem'[p].keys = mem[p].keys /\ mem'[p].prop = mem[p].prop
        /\ mem'[p].decision = mem[p].decision
        /\ mem'[p].execute = mem[p].execute
    BY <1>1, <1>2, <2>1, <2>2, ReturnEffect
  <2>4. /\ Verdict(mem'[p]) = Verdict(mem[p])
        /\ ToExecute(mem'[p]) <=> ToExecute(mem[p])
    BY <2>3 DEF Verdict, ToExecute
  <2>5. Remembers(p)
    BY <1>1, <1>2, <2>3, <2>4, Zenon DEF Remembers
  <2>6. QED
    BY <2>3, <2>5 DEF Moves
<1>3. ASSUME NEW reason \in {"invalid_episode", "io"}, UNCHANGED store,
             Exit(p, reason), "io" \in Faults \/ ~EpisodeFits(mem[p])
      PROVE  Alone(p, call[p].inc) /\ Moves(p)
  <2>1. reason \in Reasons \ {"none", "running", "paused"}
    BY DEF Reasons
  <2>2. QED
    BY <1>1, <1>3, <2>1, StopEffect
<1>4. \/ ~EpisodeFits(mem[p]) /\ UNCHANGED store /\ Exit(p, "invalid_episode")
      \/ "io" \in Faults /\ UNCHANGED store /\ Exit(p, "io")
      \/ /\ store' = store \union {NewEpisode(call[p].inc, mem[p])}
         /\ Return(p, mem[p])
         /\ UNCHANGED history
  BY Zenon DEF WriteEpisode
<1>5. QED
  BY <1>2, <1>3, <1>4

LEMMA FinishEffect ==
  ASSUME IInv, NEW p \in Operators, FinishDecide(p)
  PROVE  Alone(p, call[p].inc) /\ Moves(p)
<1>1. /\ pc[p] = "run" /\ Exit(p, "decided")
      /\ RecordOf(call[p].inc) /\ record'[call[p].inc] = record[call[p].inc]
      /\ store' = store /\ drafts' = drafts
  BY Unrecorded DEF FinishDecide, At
<1>2. "decided" \in Reasons \ {"none", "running", "paused"}
  BY DEF Reasons
<1>3. QED
  BY <1>1, <1>2, StopEffect

LEMMA CloseReadEffect ==
  ASSUME IInv, NEW p \in Operators, CloseReadStore(p)
  PROVE  Alone(p, call[p].inc) /\ Moves(p)
<1>1. /\ pc[p] = "read_store"
      /\ RecordOf(call[p].inc) /\ record'[call[p].inc] = record[call[p].inc]
      /\ store' = store /\ drafts' = drafts
  BY Unrecorded DEF CloseReadStore
<1>2. CASE Exit(p, "no_episode")
  <2>1. "no_episode" \in Reasons \ {"none", "running", "paused"}
    BY DEF Reasons
  <2>2. QED
    BY <1>1, <1>2, <2>1, StopEffect
<1>3. CASE /\ pc' = [pc EXCEPT ![p] = "write_store"]
           /\ lines' = [lines EXCEPT ![p] = store]
           /\ UNCHANGED <<ckpt, call, why, mem, dirty, copy, history>>
  <2>1. /\ ran' = ran /\ lines'[p] = store
        /\ \A q \in Operators : q # p => lines'[q] = lines[q]
    BY <1>3 DEF history, IInv, TypeOK
  <2>2. Alone(p, call[p].inc) /\ MovesTo(p, "write_store")
    BY <1>1, <1>3, <2>1, MoveEffect
  <2>3. Reads(p)
    BY <1>1, <2>1, <2>2 DEF Reads
  <2>4. QED
    BY <2>2, <2>3 DEF Moves
<1>4. QED
  BY <1>2, <1>3, Zenon DEF CloseReadStore

LEMMA CloseWriteEffect ==
  ASSUME IInv, NEW p \in Operators, CloseWriteStore(p)
  PROVE  Alone(p, call[p].inc) /\ Moves(p)
<1>1. /\ pc[p] = "write_store"
      /\ RecordOf(call[p].inc) /\ record'[call[p].inc] = record[call[p].inc]
      /\ drafts' = drafts
  BY Unrecorded DEF CloseWriteStore
<1>2. CASE /\ store' = WithOutcome(lines[p], call[p].inc, call[p].outcome)
           /\ pc' = [pc EXCEPT ![p] = "draft"]
           /\ UNCHANGED <<ckpt, why, local, history>>
  <2>1. UNCHANGED <<ckpt, why, call, mem, dirty, copy, lines>> /\ ran' = ran
    BY <1>2 DEF local, history
  <2>2. Alone(p, call[p].inc) /\ MovesTo(p, "draft")
    BY <1>1, <1>2, <2>1, MoveEffect
  <2>3. Rewrites(p)
    BY <1>1, <1>2, <2>1, <2>2 DEF Rewrites
  <2>4. QED
    BY <2>2, <2>3 DEF Moves
<1>3. ASSUME Exit(p, "io"), ~NoFailedWrite, store' = store \/ "torn" \in Faults
      PROVE  Alone(p, call[p].inc) /\ Moves(p)
  <2>1. "io" \in Reasons \ {"none", "running", "paused"}
    BY DEF Reasons
  <2>2. QED
    BY <1>1, <1>3, <2>1, StopEffect
<1>4. CASE "io" \in Faults /\ UNCHANGED store /\ Exit(p, "io")
  BY <1>3, <1>4 DEF NoFailedWrite
<1>5. CASE "torn" \in Faults /\ store' = {} /\ Exit(p, "io")
  BY <1>3, <1>5 DEF NoFailedWrite
<1>6. QED
  BY <1>2, <1>4, <1>5, Zenon DEF CloseWriteStore

LEMMA CloseDraftEffect ==
  ASSUME IInv, NEW p \in Operators, CloseDraft(p)
  PROVE  Alone(p, call[p].inc) /\ Moves(p)
<1>1. PICK e \in Mine(lines[p], call[p].inc) :
        \/ /\ drafts' = IF WantsDraft(e, call[p].outcome)
                        THEN drafts \union {call[p].inc} ELSE drafts
           /\ pc' = [pc EXCEPT ![p] = "append"]
           /\ UNCHANGED <<ckpt, why, local, history>>
        \/ /\ "io" \in Faults
           /\ WantsDraft(e, call[p].outcome)
           /\ UNCHANGED drafts
           /\ Exit(p, "io")
  BY Zenon DEF CloseDraft
<1>2. /\ pc[p] = "draft"
      /\ RecordOf(call[p].inc) /\ record'[call[p].inc] = record[call[p].inc]
      /\ store' = store /\ e.inc = call[p].inc
  BY Unrecorded DEF CloseDraft, Mine
<1>3. CASE /\ drafts' = IF WantsDraft(e, call[p].outcome)
                        THEN drafts \union {call[p].inc} ELSE drafts
           /\ pc' = [pc EXCEPT ![p] = "append"]
           /\ UNCHANGED <<ckpt, why, local, history>>
  <2>1. UNCHANGED <<ckpt, why, call, mem, dirty, copy, lines>> /\ ran' = ran
    BY <1>3 DEF local, history
  <2>2. \A j \in Incidents :
          j # call[p].inc => (j \in drafts' <=> j \in drafts)
    BY <1>3
  <2>3. Alone(p, call[p].inc) /\ MovesTo(p, "append")
    BY <1>2, <1>3, <2>1, <2>2, MoveEffect
  <2>4. \/ drafts' = drafts
        \/ /\ drafts' = drafts \union {call[p].inc}
           /\ call[p].outcome = "resolved" /\ call[p].inc \notin Covered
    BY <1>2, <1>3 DEF WantsDraft
  <2>5. Drafts(p)
    BY <1>2, <2>1, <2>3, <2>4 DEF Drafts
  <2>6. QED
    BY <2>3, <2>5 DEF Moves
<1>4. CASE "io" \in Faults /\ UNCHANGED drafts /\ Exit(p, "io")
  <2>1. "io" \in Reasons \ {"none", "running", "paused"} /\ ~NoFailedWrite
    BY <1>4 DEF Reasons, NoFailedWrite
  <2>2. QED
    BY <1>2, <1>4, <2>1, StopEffect
<1>5. QED
  BY <1>1, <1>3, <1>4

LEMMA CloseRecordEffect ==
  ASSUME IInv, NEW p \in Operators, CloseRecord(p)
  PROVE  Alone(p, call[p].inc) /\ Moves(p)
<1>1. pc[p] = "append" /\ call[p].inc \in Incidents
  BY HeldTyped DEF CloseRecord
<1> DEFINE r == [copy[p] EXCEPT !.outcome = call[p].outcome]
<1>2. CASE /\ record' = [record EXCEPT ![call[p].inc] = r]
           /\ UNCHANGED <<store, drafts>>
           /\ Exit(p, "closed")
  <2>1. /\ r.status = copy[p].status /\ r.prop = copy[p].prop
        /\ r.outcome = call[p].outcome
    BY DEF IInv, TypeOK, Record
  <2> HIDE DEF r
  <2>2. RecordOf(call[p].inc) /\ record'[call[p].inc] = r
    BY <1>1, <1>2, Recorded
  <2>3. Alone(p, call[p].inc) /\ Ends(p, "closed")
    BY <1>2, <2>2, ExitEffect
  <2>4. Closes(p)
    BY <1>1, <1>2, <2>1, <2>2, <2>3 DEF Closes
  <2>5. QED
    BY <2>3, <2>4 DEF Moves
<1>3. CASE RecordWriteFails(p, call[p].inc)
  BY <1>1, <1>3, WriteFailsEffect
<1>4. QED
  BY <1>2, <1>3, Zenon DEF CloseRecord

LEMMA StepEffect ==
  ASSUME IInv, NEW p \in Operators, Step(p)
  PROVE  Alone(p, call[p].inc) /\ Moves(p)
BY BeginEffect, PipelineEffect, ProposeEffect, ApprovalEffect,
   ExecuteGateEffect, ApplyEffect, SettleEffect, WriteEpisodeEffect,
   FinishEffect, CloseReadEffect, CloseWriteEffect, CloseDraftEffect,
   CloseRecordEffect, Zenon
DEF Step

-----------------------------------------------------------------------------
(* The effects of starting a command, of the background write of a         *)
(* checkpoint, of a crash and of the human.                                *)

\* An idle process is called for incident i of its desk.
Called(p, i) ==
  /\ pc[p] = "idle" /\ i \in Desk[p] /\ call'[p].inc = i
  /\ dirty'[p] = dirty[p]
  /\ UNCHANGED <<ckpt, record, store, drafts, ran>>

\* The first step of a command: it refuses, or admits an incident, resumes a
\* checkpoint or passes the gates of `close`.
Refuses(p, i) ==
  /\ Called(p, i)
  /\ pc'[p] = "idle" /\ why'[p] \notin {"none", "running", "paused"}

Admits(p, i) ==
  /\ Called(p, i)
  /\ pc'[p] = "admitted" /\ why'[p] = "running"
  /\ record[i].status = "absent"

Resumes(p, i) ==
  /\ Called(p, i)
  /\ pc'[p] = "run" /\ why'[p] = "running"
  /\ mem'[p] = ckpt[i] /\ ckpt[i].next \in Nodes

Reviews(p, i) ==
  /\ Called(p, i)
  /\ pc'[p] = "read_store" /\ why'[p] = "running"
  /\ ckpt[i].next = "end" /\ ToExecute(ckpt[i]) /\ record[i].outcome = "none"
  /\ copy'[p] = record[i] /\ call'[p].outcome \in Outcomes

Starts(p, i) ==
  Refuses(p, i) \/ Admits(p, i) \/ Resumes(p, i) \/ Reviews(p, i)

\* The pending checkpoint write is done.
Saves(p) ==
  /\ dirty[p]
  /\ ckpt'[call[p].inc] = mem[p] /\ dirty'[p] = FALSE
  /\ pc'[p] = pc[p] /\ why'[p] = why[p] /\ call'[p] = call[p]
  /\ mem'[p] = mem[p] /\ copy'[p] = copy[p] /\ lines'[p] = lines[p]
  /\ UNCHANGED <<record, store, drafts, ran>>

\* The pending checkpoint write is lost.
Crashes(p) ==
  /\ ~NoCrash /\ pc[p] # "idle"
  /\ pc'[p] = "idle" /\ why'[p] = "crash" /\ call'[p] = call[p]
  /\ dirty'[p] = FALSE
  /\ UNCHANGED <<ckpt, record, store, drafts, ran>>

\* An edit is not seen by the code, which compares the hash of its own text.
Edits ==
  /\ \A i \in Incidents : /\ record'[i].status = record[i].status
                          /\ record'[i].prop = record[i].prop
                          /\ record'[i].outcome = record[i].outcome
  /\ UNCHANGED <<ckpt, store, drafts, pc, why, call, mem, dirty, copy, lines,
                 ran>>

\* Every step of dispatch has one of these effects.
Effects ==
  \/ \E p \in Operators :
       \/ Alone(p, call[p].inc) /\ (Moves(p) \/ Saves(p) \/ Crashes(p))
       \/ \E i \in Incidents : Alone(p, i) /\ Starts(p, i)
  \/ Edits

LEMMA InvokeEffect ==
  ASSUME IInv, NEW p \in Operators, NEW i \in Desk[p], NEW kind \in Kinds,
         NEW outcome \in {"none"} \union Outcomes, Invoke(p, i, kind, outcome)
  PROVE  /\ i \in Incidents
         /\ Called(p, i)
         /\ call'[p].outcome = outcome
         /\ \A q \in Operators : q # p => call'[q] = call[q]
         /\ dirty' = dirty
<1>1. i \in Incidents
  BY DispatchAssumption
<1>2. /\ pc[p] = "idle"
      /\ call'[p].inc = i
      /\ \A q \in Operators : q # p => call'[q] = call[q]
      /\ UNCHANGED <<ckpt, record, store, drafts, dirty, granted, ran>>
  BY <1>1, InvokeFacts
<1>3. call'[p].outcome = outcome
  <2> DEFINE waiting == ckpt[i].next = "approval"
             c == [id |-> calls + 1, inc |-> i, kind |-> kind,
                   outcome |-> outcome, resume |-> waiting]
  <2>1. call' = [call EXCEPT ![p] = c]
    BY DEF Invoke
  <2> HIDE DEF waiting
  <2>2. c.outcome = outcome
    OBVIOUS
  <2> HIDE DEF c
  <2>3. QED
    BY <2>1, <2>2 DEF IInv, TypeOK
<1>4. QED
  BY <1>1, <1>2, <1>3 DEF Called

\* What a first step leaves alone.
LEMMA StartAlone ==
  ASSUME IInv, NEW p \in Operators, NEW i, NEW w, NEW reason,
         Called(p, i), \A q \in Operators : q # p => call'[q] = call[q],
         dirty' = dirty,
         pc' = [pc EXCEPT ![p] = w], why' = [why EXCEPT ![p] = reason],
         \A q \in Operators : q # p => mem'[q] = mem[q],
         \A q \in Operators : q # p => copy'[q] = copy[q],
         lines' = lines
  PROVE  Alone(p, i) /\ pc'[p] = w /\ why'[p] = reason
BY DEF Alone, Called, IInv, TypeOK

LEMMA RefuseEffect ==
  ASSUME IInv, NEW p \in Operators, NEW i \in Desk[p], NEW kind \in Kinds,
         NEW outcome \in {"none"} \union Outcomes, Invoke(p, i, kind, outcome),
         NEW reason, reason \notin {"none", "running", "paused"},
         Refuse(p, reason)
  PROVE  \E j \in Incidents : Alone(p, j) /\ Starts(p, j)
<1>1. /\ i \in Incidents /\ Called(p, i) /\ pc[p] = "idle"
      /\ \A q \in Operators : q # p => call'[q] = call[q]
      /\ dirty' = dirty
  BY InvokeEffect DEF Called
<1>2. /\ pc' = [pc EXCEPT ![p] = "idle"] /\ why' = [why EXCEPT ![p] = reason]
      /\ UNCHANGED <<mem, copy, lines>>
  BY <1>1 DEF Refuse, IInv, TypeOK
<1>3. Alone(p, i) /\ pc'[p] = "idle" /\ why'[p] = reason
  BY <1>1, <1>2, StartAlone
<1>4. Starts(p, i)
  BY <1>1, <1>3 DEF Starts, Refuses
<1>5. QED
  BY <1>1, <1>3, <1>4

LEMMA HandleEffect ==
  ASSUME IInv, NEW p \in Operators, NEW i \in Desk[p], StartHandle(p, i)
  PROVE  \E j \in Incidents : Alone(p, j) /\ Starts(p, j)
<1>1. /\ Invoke(p, i, "handle", "none")
      /\ "handle" \in Kinds /\ "none" \in {"none"} \union Outcomes
  BY Zenon DEF StartHandle, Kinds
<1>2. CASE Refuse(p, "duplicate")
  BY <1>1, <1>2, RefuseEffect
<1>3. CASE /\ ~Duplicate(i)
           /\ Proceed(p, "admitted")
           /\ UNCHANGED <<mem, copy, lines>>
  <2>1. /\ i \in Incidents /\ Called(p, i)
        /\ \A q \in Operators : q # p => call'[q] = call[q]
        /\ dirty' = dirty
    BY <1>1, InvokeEffect
  <2>2. Alone(p, i) /\ pc'[p] = "admitted" /\ why'[p] = "running"
    BY <1>3, <2>1, StartAlone DEF Proceed
  <2>3. Starts(p, i)
    BY <1>3, <2>1, <2>2 DEF Starts, Admits, Duplicate
  <2>4. QED
    BY <2>1, <2>2, <2>3
<1>4. QED
  BY <1>2, <1>3, Zenon DEF StartHandle

LEMMA DecideEffect ==
  ASSUME IInv, NEW p \in Operators, NEW i \in Desk[p],
         NEW kind \in {"dry-run", "execute", "reject"},
         StartDecide(p, i, kind)
  PROVE  \E j \in Incidents : Alone(p, j) /\ Starts(p, j)
<1>1. /\ Invoke(p, i, kind, "none")
      /\ kind \in Kinds /\ "none" \in {"none"} \union Outcomes
  BY DEF StartDecide, Kinds
<1>2. ASSUME NEW reason \in {"no_checkpoint", "not_awaiting_approval"},
             Refuse(p, reason)
      PROVE  \E j \in Incidents : Alone(p, j) /\ Starts(p, j)
  BY <1>1, <1>2, RefuseEffect
<1>3. CASE /\ ckpt[i].next \in Nodes
           /\ Proceed(p, "run")
           /\ mem' = [mem EXCEPT ![p] = Resumed(i, kind)]
           /\ UNCHANGED <<copy, lines>>
  <2>1. /\ i \in Incidents /\ Called(p, i)
        /\ \A q \in Operators : q # p => call'[q] = call[q]
        /\ dirty' = dirty
    BY <1>1, InvokeEffect
  <2>2. /\ mem'[p] = ckpt[i]
        /\ \A q \in Operators : q # p => mem'[q] = mem[q]
    BY <1>3 DEF Resumed, IInv, TypeOK
  <2>3. Alone(p, i) /\ pc'[p] = "run" /\ why'[p] = "running"
    BY <1>3, <2>1, <2>2, StartAlone DEF Proceed
  <2>4. Starts(p, i)
    BY <1>3, <2>1, <2>2, <2>3 DEF Starts, Resumes
  <2>5. QED
    BY <2>1, <2>3, <2>4
<1>4. \/ Refuse(p, "no_checkpoint") \/ Refuse(p, "not_awaiting_approval")
      \/ /\ ckpt[i].next \in Nodes
         /\ Proceed(p, "run")
         /\ mem' = [mem EXCEPT ![p] = Resumed(i, kind)]
         /\ UNCHANGED <<copy, lines>>
  BY Zenon DEF StartDecide
<1>5. QED
  BY <1>2, <1>3, <1>4

LEMMA CloseEffect ==
  ASSUME IInv, NEW p \in Operators, NEW i \in Desk[p],
         NEW outcome \in Outcomes, StartClose(p, i, outcome)
  PROVE  \E j \in Incidents : Alone(p, j) /\ Starts(p, j)
<1>1. /\ Invoke(p, i, "close", outcome)
      /\ "close" \in Kinds /\ outcome \in {"none"} \union Outcomes
  BY DEF StartClose, Kinds
<1>2. ASSUME NEW reason \in {"no_checkpoint", "undecided", "not_executed",
                             "already_closed"},
             Refuse(p, reason)
      PROVE  \E j \in Incidents : Alone(p, j) /\ Starts(p, j)
  BY <1>1, <1>2, RefuseEffect
<1>3. CASE /\ ckpt[i].next = "end"
           /\ ToExecute(ckpt[i])
           /\ ~Closed(i)
           /\ Proceed(p, "read_store")
           /\ copy' = [copy EXCEPT ![p] = record[i]]
           /\ UNCHANGED <<mem, lines>>
  <2>1. /\ i \in Incidents /\ Called(p, i) /\ call'[p].outcome = outcome
        /\ \A q \in Operators : q # p => call'[q] = call[q]
        /\ dirty' = dirty
    BY <1>1, InvokeEffect
  <2>2. /\ copy'[p] = record[i]
        /\ \A q \in Operators : q # p => copy'[q] = copy[q]
    BY <1>3 DEF IInv, TypeOK
  <2>3. Alone(p, i) /\ pc'[p] = "read_store" /\ why'[p] = "running"
    BY <1>3, <2>1, <2>2, StartAlone DEF Proceed
  <2>4. Starts(p, i)
    BY <1>3, <2>1, <2>2, <2>3 DEF Starts, Reviews, Closed
  <2>5. QED
    BY <2>1, <2>3, <2>4
<1>4. \/ Refuse(p, "no_checkpoint") \/ Refuse(p, "undecided")
      \/ Refuse(p, "not_executed") \/ Refuse(p, "already_closed")
      \/ /\ ckpt[i].next = "end"
         /\ ToExecute(ckpt[i])
         /\ ~Closed(i)
         /\ Proceed(p, "read_store")
         /\ copy' = [copy EXCEPT ![p] = record[i]]
         /\ UNCHANGED <<mem, lines>>
  BY Zenon DEF StartClose
<1>5. QED
  BY <1>2, <1>3, <1>4

LEMMA StartEffect ==
  ASSUME IInv, NEW p \in Operators, Start(p)
  PROVE  \E i \in Incidents : Alone(p, i) /\ Starts(p, i)
BY HandleEffect, DecideEffect, CloseEffect, Zenon DEF Start

LEMMA SaveEffect ==
  ASSUME IInv, NEW p \in Operators, SaveCheckpoint(p)
  PROVE  Alone(p, call[p].inc) /\ Saves(p)
<1>1. call[p].inc \in Incidents
  BY HeldTyped
<1>2. /\ dirty[p]
      /\ ckpt' = [ckpt EXCEPT ![call[p].inc] = mem[p]]
      /\ dirty' = [dirty EXCEPT ![p] = FALSE]
      /\ UNCHANGED <<record, store, drafts, pc, call, why, mem, copy, lines,
                     ran>>
  BY DEF SaveCheckpoint, history
<1>3. QED
  BY <1>1, <1>2 DEF Alone, Saves, IInv, TypeOK

LEMMA CrashEffect ==
  ASSUME IInv, NEW p \in Operators, Crash(p)
  PROVE  Alone(p, call[p].inc) /\ Crashes(p)
<1>1. /\ "crash" \in Faults /\ pc[p] # "idle"
      /\ pc' = [pc EXCEPT ![p] = "idle"]
      /\ why' = [why EXCEPT ![p] = "crash"]
      /\ dirty' = [dirty EXCEPT ![p] = FALSE]
      /\ mem' = [mem EXCEPT ![p] = NoCheckpoint]
      /\ copy' = [copy EXCEPT ![p] = NoRecord]
      /\ lines' = [lines EXCEPT ![p] = {}]
      /\ UNCHANGED <<ckpt, record, store, drafts, call, ran>>
  BY DEF Crash, disk, history
<1>2. QED
  BY <1>1 DEF Alone, Crashes, NoCrash, IInv, TypeOK

LEMMA HumanEffect ==
  ASSUME IInv, Human
  PROVE  Edits
<1>1. PICK i \in Incidents :
        \/ RestoreRecord(i)
        \/ \E part \in {"hash", "body"} : EditRecord(i, part)
  BY DEF Human
<1>2. PICK edits : record' = [record EXCEPT ![i].edits = edits]
  <2>1. CASE RestoreRecord(i)
    <3>1. record' = [record EXCEPT ![i].edits = {}]
      BY <2>1, Zenon DEF RestoreRecord
    <3>2. QED
      BY <3>1
  <2>2. ASSUME NEW part \in {"hash", "body"}, EditRecord(i, part)
        PROVE  \E edits : record' = [record EXCEPT ![i].edits = edits]
    <3>1. record' = [record EXCEPT ![i].edits = record[i].edits \union {part}]
      BY <2>2, Zenon DEF EditRecord
    <3>2. QED
      BY <3>1
  <2>3. QED
    BY <1>1, <2>1, <2>2
<1>3. \A j \in Incidents : /\ record'[j].status = record[j].status
                           /\ record'[j].prop = record[j].prop
                           /\ record'[j].outcome = record[j].outcome
  BY <1>2 DEF IInv, TypeOK, Record
<1>4. UNCHANGED <<ckpt, store, drafts, pc, why, call, mem, dirty, copy,
                  lines, ran>>
  BY <1>1 DEF RestoreRecord, EditRecord, local, history
<1>5. QED
  BY <1>3, <1>4 DEF Edits

LEMMA NextEffect ==
  ASSUME IInv, [Next]_vars
  PROVE  Effects
<1>1. CASE Next
  BY <1>1, StepEffect, StartEffect, SaveEffect, CrashEffect, HumanEffect, Zenon
  DEF Next, Effects
<1>2. CASE UNCHANGED vars
  <2>1. Edits
    BY <1>2 DEF Edits, vars
  <2>2. QED
    BY <2>1 DEF Effects
<1>3. QED
  BY <1>1, <1>2

-----------------------------------------------------------------------------
(* What holds with any fault, as long as the operators' desks are disjoint. *)

\* Past the gate's node the record is there, and if it can be read it shows
\* the selection of the graph state.
Shown(r, m) ==
  m.next \in Late =>
    /\ r.status # "absent"
    /\ r.status # "torn" => r.prop = m.prop

\* The graph state m in memory continues the checkpoint c: it never goes back
\* before the gate, and a finished checkpoint is what it was loaded from.
Follows(m, c) ==
  /\ c.next = "approval" => m.next \in Late /\ m.prop = c.prop
  /\ c.next = "execute" => m.next \in {"execute", "end"} /\ m.prop = c.prop
  /\ c.next = "end" => m = c

\* The approval node stores what it was resumed with.
Decided(m) ==
  m.next \in {"execute", "end"} => m.decision \in {"approve", "reject"}

\* A process about incident i: where it may be, what it holds while it runs
\* the graph, and what `close` knows once it is past its gates.
Placed(p, i) ==
  /\ why[p] # "none" => i \in Desk[p]
  /\ pc[p] # "idle" => why[p] = "running"
  /\ ~Holding(p) => ~dirty[p]
  /\ pc[p] = "admitted" => record[i].status = "absent"
  /\ call[p].kind = "handle" /\ why[p] = "paused" =>
       record[i].status # "absent" /\ ckpt[i].next \in Late

Holds(p, i) ==
  Holding(p) =>
    /\ mem[p].next # "none"
    /\ Decided(mem[p])
    /\ Follows(mem[p], ckpt[i])
    /\ Shown(record[i], mem[p])
    /\ ~dirty[p] => mem[p] = ckpt[i]

Reviewed(p, i) ==
  Closing(p) =>
    /\ ckpt[i].next = "end" /\ ToExecute(ckpt[i])
    /\ Shown(copy[p], ckpt[i])
    /\ record[i].outcome = "none"
    /\ call[p].outcome \in Outcomes

ProcessOK(p) ==
  Placed(p, call[p].inc) /\ Holds(p, call[p].inc) /\ Reviewed(p, call[p].inc)

\* The files of an incident agree, whoever is working on it.
IncidentOK(i) ==
  /\ Decided(ckpt[i])
  /\ Shown(record[i], ckpt[i])
  /\ record[i].outcome # "none" =>
       ckpt[i].next = "end" /\ ToExecute(ckpt[i])

GateInv ==
  /\ \A p \in Operators : ProcessOK(p)
  /\ \A i \in Incidents : IncidentOK(i)

LEMMA EarlyNodes ==
  ASSUME NEW n \in Nodes \ {"propose", "approval", "execute"}
  PROVE  /\ NodeAfter[n] \in Nodes \ {"approval", "execute"}
         /\ NodeAfter[n] \notin Late \union {"none"}
         /\ n \notin Late
BY NodeNames DEF NodeAfter, Late

\* An incident keeps its invariant, and so does the process working on it.
LEMMA MoveKeepsGate ==
  ASSUME IInv, NEW p \in Operators, NEW i \in Incidents, i = call[p].inc,
         ProcessOK(p), IncidentOK(i), Moves(p)
  PROVE  ProcessOK(p)' /\ IncidentOK(i)'
<1>1. /\ dirty[p] \in BOOLEAN
      /\ pc[p] \in {"apply", "settle", "remember"} =>
           mem[p].next = "execute"
  BY DEF IInv, TypeOK, Positions
<1> USE <1>1 DEF ProcessOK, Placed, Holds, Reviewed, IncidentOK, Shown,
                 Decided, Holding, Closing, Late
<1>2. CASE Stops(p)
  BY <1>2 DEF Stops, Ends, Torn, TornRecord, Written, Follows, At
<1>3. CASE Pauses(p)
  BY <1>3 DEF Pauses, Ends, Follows, At
<1>4. CASE Begins(p)
  BY <1>4 DEF Begins, Enters, Follows
<1>5. CASE Advances(p)
  BY <1>5, EarlyNodes DEF Advances, Enters, Follows
<1>6. CASE Proposes(p)
  BY <1>6 DEF Proposes, Enters, Follows, Written, At
<1>7. CASE Decides(p)
  BY <1>7 DEF Decides, Enters, Follows, At
<1>8. CASE Passes(p)
  BY <1>8 DEF Passes, MovesTo, At
<1>9. CASE Applies(p)
  BY <1>9 DEF Applies, MovesTo
<1>10. CASE Settles(p)
  BY <1>10, VerdictTyped DEF Settles, MovesTo, Written, Follows, Verdicts
<1>11. CASE Remembers(p)
  BY <1>11 DEF Remembers, Enters, Follows
<1>12. CASE Reads(p)
  BY <1>12 DEF Reads, MovesTo
<1>13. CASE Rewrites(p)
  BY <1>13 DEF Rewrites, MovesTo
<1>14. CASE Drafts(p)
  BY <1>14 DEF Drafts, MovesTo
<1>15. CASE Closes(p)
  BY <1>15 DEF Closes, Ends
<1>16. QED
  BY <1>2, <1>3, <1>4, <1>5, <1>6, <1>7, <1>8, <1>9, <1>10, <1>11, <1>12,
     <1>13, <1>14, <1>15 DEF Moves

LEMMA StartKeepsGate ==
  ASSUME IInv, NEW p \in Operators, NEW i \in Incidents,
         ProcessOK(p), IncidentOK(i), Starts(p, i)
  PROVE  ProcessOK(p)' /\ IncidentOK(i)'
<1> USE DEF ProcessOK, Placed, Holds, Reviewed, IncidentOK, Shown, Decided,
            Holding, Closing, Late, Called
<1>1. CASE Refuses(p, i)
  BY <1>1 DEF Refuses
<1>2. CASE Admits(p, i)
  BY <1>2 DEF Admits
<1>3. CASE Resumes(p, i)
  BY <1>3, NodeNames DEF Resumes, Follows
<1>4. CASE Reviews(p, i)
  BY <1>4 DEF Reviews
<1>5. QED
  BY <1>1, <1>2, <1>3, <1>4 DEF Starts

LEMMA SaveKeepsGate ==
  ASSUME IInv, NEW p \in Operators, NEW i \in Incidents, i = call[p].inc,
         ProcessOK(p), IncidentOK(i), Saves(p)
  PROVE  ProcessOK(p)' /\ IncidentOK(i)'
BY DEF Saves, ProcessOK, Placed, Holds, Reviewed, IncidentOK, Shown, Follows,
       Decided, Holding, Closing, Late

LEMMA CrashKeepsGate ==
  ASSUME IInv, NEW p \in Operators, NEW i \in Incidents, i = call[p].inc,
         ProcessOK(p), IncidentOK(i), Crashes(p)
  PROVE  ProcessOK(p)' /\ IncidentOK(i)'
BY DEF Crashes, ProcessOK, Placed, Holds, Reviewed, IncidentOK, Shown,
       Decided, Holding, Closing, Late

\* A process that moves is running, on an incident of its desk.
LEMMA Running ==
  ASSUME IInv, NEW p \in Operators, ProcessOK(p),
         Moves(p) \/ Saves(p) \/ Crashes(p)
  PROVE  /\ pc[p] # "idle" /\ why[p] = "running"
         /\ call[p].inc \in Desk[p] /\ call'[p] = call[p]
<1>1. CASE Moves(p)
  <2>1. pc[p] # "idle" /\ call'[p] = call[p]
    BY <1>1
    DEF Moves, Stops, Ends, Pauses, Begins, Enters, Advances, Proposes,
        Decides, Passes, MovesTo, Applies, Settles, Remembers, Reads,
        Rewrites, Drafts, Closes, At
  <2>2. QED
    BY <2>1 DEF ProcessOK, Placed
<1>2. CASE Saves(p)
  BY <1>2 DEF Saves, ProcessOK, Placed, Holding
<1>3. CASE Crashes(p)
  BY <1>3 DEF Crashes, ProcessOK, Placed
<1>4. QED
  BY <1>1, <1>2, <1>3

\* Desks being disjoint, a process that was ever started is about another
\* incident than the one p works on.
LEMMA Elsewhere ==
  ASSUME DisjointDesks, NEW p \in Operators, NEW q \in Operators, q # p,
         NEW i \in Desk[p], Placed(q, call[q].inc), why[q] # "none"
  PROVE  call[q].inc # i
BY DEF DisjointDesks, Placed

LEMMA OthersKeepGate ==
  ASSUME IInv, DisjointDesks, NEW p \in Operators, NEW i \in Desk[p],
         Alone(p, i), NEW q \in Operators, q # p, ProcessOK(q)
  PROVE  ProcessOK(q)'
<1>1. call[q].inc \in Incidents
  BY HeldTyped
<1>2. CASE why[q] = "none"
  BY <1>2 DEF Alone, ProcessOK, Placed, Holds, Reviewed, Holding, Closing
<1>3. CASE why[q] # "none"
  <2>1. call[q].inc # i
    BY <1>3, Elsewhere DEF ProcessOK
  <2>2. /\ pc'[q] = pc[q] /\ call'[q] = call[q] /\ why'[q] = why[q]
        /\ mem'[q] = mem[q] /\ dirty'[q] = dirty[q] /\ copy'[q] = copy[q]
        /\ ckpt'[call[q].inc] = ckpt[call[q].inc]
        /\ record'[call[q].inc] = record[call[q].inc]
    BY <1>1, <2>1 DEF Alone
  <2>3. QED
    BY <2>2 DEF ProcessOK, Placed, Holds, Reviewed, Holding, Closing
<1>4. QED
  BY <1>2, <1>3

LEMMA EditsKeepGate ==
  ASSUME IInv, GateInv, Edits
  PROVE  GateInv'
<1>1. ASSUME NEW p \in Operators PROVE ProcessOK(p)'
  <2>1. ProcessOK(p) /\ call[p].inc \in Incidents
    BY HeldTyped DEF GateInv
  <2>2. QED
    BY <2>1
    DEF Edits, ProcessOK, Placed, Holds, Reviewed, Shown, Holding, Closing
<1>2. ASSUME NEW i \in Incidents PROVE IncidentOK(i)'
  BY DEF GateInv, Edits, IncidentOK, Shown
<1>3. QED
  BY <1>1, <1>2 DEF GateInv

LEMMA NextGateInv ==
  ASSUME DisjointDesks, IInv, GateInv, [Next]_vars
  PROVE  GateInv'
<1>1. ASSUME NEW p \in Operators, NEW i \in Desk[p], i \in Incidents,
             Alone(p, i), ProcessOK(p)', IncidentOK(i)'
      PROVE  GateInv'
  <2>1. ASSUME NEW q \in Operators PROVE ProcessOK(q)'
    BY <1>1, OthersKeepGate DEF GateInv
  <2>2. ASSUME NEW j \in Incidents PROVE IncidentOK(j)'
    BY <1>1 DEF GateInv, Alone, IncidentOK
  <2>3. QED
    BY <2>1, <2>2 DEF GateInv
<1>2. ASSUME NEW p \in Operators, NEW i \in Incidents, i = call[p].inc,
             Alone(p, i), Moves(p) \/ Saves(p) \/ Crashes(p)
      PROVE  GateInv'
  <2>1. ProcessOK(p) /\ IncidentOK(i)
    BY DEF GateInv
  <2>2. ProcessOK(p)' /\ IncidentOK(i)'
    BY <1>2, <2>1, MoveKeepsGate, SaveKeepsGate, CrashKeepsGate
  <2>3. i \in Desk[p]
    BY <1>2, <2>1, Running
  <2>4. QED
    BY <1>1, <1>2, <2>2, <2>3
<1>3. ASSUME NEW p \in Operators, NEW i \in Incidents, Alone(p, i),
             Starts(p, i)
      PROVE  GateInv'
  <2>1. i \in Desk[p]
    BY <1>3 DEF Starts, Refuses, Admits, Resumes, Reviews, Called
  <2>2. ProcessOK(p)' /\ IncidentOK(i)'
    BY <1>3, StartKeepsGate DEF GateInv
  <2>3. QED
    BY <1>1, <1>3, <2>1, <2>2
<1>4. QED
  BY <1>2, <1>3, NextEffect, EditsKeepGate, HeldTyped DEF Effects

LEMMA InitGateInv == Init => GateInv
BY DEF Init, GateInv, ProcessOK, Placed, Holds, Reviewed, IncidentOK, Shown,
       Decided, Holding, Closing, Late, NoCheckpoint, NoRecord, Written

\* The invariant of the gate, with any fault and any number of operators.
LEMMA GateHolds ==
  ASSUME DisjointDesks
  PROVE  Spec => [](IInv /\ GateInv)
<1>1. Init => IInv /\ GateInv
  BY InitIInv, InitGateInv
<1>2. (IInv /\ GateInv) /\ [Next]_vars => (IInv /\ GateInv)'
  BY NextIInv, NextGateInv
<1>3. QED
  BY <1>1, <1>2, PTL DEF Spec

\* What the human reads at the gate is what will be executed: for any number
\* of operators who keep to their own incidents, and whatever fails, tears or
\* crashes, a record that can be read and its checkpoint name one proposal.
THEOREM RecordAlwaysMatchesGate ==
  ASSUME DisjointDesks
  PROVE  Spec => []RecordMatchesGate
<1>1. GateInv => RecordMatchesGate
  BY DEF GateInv, IncidentOK, Shown, Late, RecordMatchesGate
<1>2. QED
  BY <1>1, GateHolds, PTL

\* A `handle` that returned at the interrupt left a record and a checkpoint
\* the next command can resume, and both stay.
THEOREM HandleAlwaysLeavesGate ==
  ASSUME DisjointDesks
  PROVE  Spec => []HandleLeavesGate
<1>1. GateInv => HandleLeavesGate
  BY DEF GateInv, ProcessOK, Placed, Late, HandleLeavesGate
<1>2. QED
  BY <1>1, GateHolds, PTL

\* No step of any process changes a finished checkpoint.
LEMMA FinishedStays ==
  ASSUME IInv, GateInv, [Next]_vars, NEW i \in Incidents,
         ckpt[i].next = "end"
  PROVE  ckpt'[i] = ckpt[i]
<1>1. ASSUME NEW p \in Operators, Alone(p, call[p].inc),
             Moves(p) \/ Saves(p) \/ Crashes(p)
      PROVE  ckpt'[i] = ckpt[i]
  <2>1. CASE i # call[p].inc
    BY <1>1, <2>1 DEF Alone
  <2>2. CASE i = call[p].inc
    <3>1. \/ ckpt'[i] = ckpt[i]
          \/ dirty[p] /\ ckpt'[i] = mem[p]
      BY <1>1, <2>2
      DEF Moves, Stops, Ends, Pauses, Begins, Enters, Advances, Proposes,
          Decides, Passes, MovesTo, Applies, Settles, Remembers, Reads,
          Rewrites, Drafts, Closes, Saves, Crashes
    <3>2. dirty[p] => mem[p] = ckpt[i]
      BY <2>2 DEF GateInv, ProcessOK, Placed, Holds, Follows
    <3>3. QED
      BY <3>1, <3>2
  <2>3. QED
    BY <2>1, <2>2
<1>2. ASSUME NEW p \in Operators, NEW j \in Incidents, Starts(p, j)
      PROVE  ckpt'[i] = ckpt[i]
  BY <1>2 DEF Starts, Refuses, Admits, Resumes, Reviews, Called
<1>3. CASE Edits
  BY <1>3 DEF Edits
<1>4. QED
  BY <1>1, <1>2, <1>3, NextEffect DEF Effects

\* An incident is decided once: whatever is retried, whoever resumes it and
\* whatever is lost, a checkpoint that reached the end never changes again.
THEOREM DecisionAlwaysFinal ==
  ASSUME DisjointDesks
  PROVE  Spec => DecisionIsFinal
<1>1. (IInv /\ GateInv) /\ [Next]_vars =>
        [\A i \in Incidents : ckpt[i].next = "end" => ckpt'[i] = ckpt[i]]_ckpt
  BY FinishedStays
<1>2. QED
  BY <1>1, GateHolds, PTL DEF Spec, DecisionIsFinal

-----------------------------------------------------------------------------
(* What holds when commands run one at a time and no write is torn: the    *)
(* Episode store agrees with the checkpoints and the records.              *)

\* The episodes hold one of incident i that m finished with.
Remembered(episodes, i, m) ==
  m.next = "end" =>
    \E e \in episodes : /\ e.inc = i /\ e.prop = m.prop
                        /\ e.decision = Verdict(m)

\* Every Episode of incident i carries this Outcome.
Told(episodes, i, outcome) ==
  \A e \in Mine(episodes, i) : e.outcome = outcome

\* Nothing but an Outcome changes in an Episode.
Kept(old, new) ==
  \A e \in old : \E f \in new : /\ f.inc = e.inc /\ f.prop = e.prop
                                /\ f.decision = e.decision
                                /\ [f EXCEPT !.outcome = e.outcome] = e

ProcessRemembers(p) ==
  /\ Holding(p) => Remembered(store, call[p].inc, mem[p])
  /\ pc[p] = "write_store" => lines[p] = store
  /\ pc[p] \in {"draft", "append"} =>
       Told(store, call[p].inc, call[p].outcome)

IncidentRemembered(i) ==
  /\ Remembered(store, i, ckpt[i])
  /\ record[i].outcome # "none" => Told(store, i, record[i].outcome)

MemoryInv ==
  /\ \A p \in Operators : ProcessRemembers(p)
  /\ \A i \in Incidents : IncidentRemembered(i)

LEMMA KeptSame ==
  ASSUME NEW episodes \in SUBSET Episode
  PROVE  Kept(episodes, episodes)
<1>1. ASSUME NEW e \in Episode PROVE [e EXCEPT !.outcome = e.outcome] = e
  BY DEF Episode
<1>2. QED
  BY <1>1 DEF Kept

LEMMA KeptMore ==
  ASSUME NEW episodes \in SUBSET Episode, NEW more
  PROVE  Kept(episodes, episodes \union more)
BY KeptSame DEF Kept

\* set_outcome on incident i keeps every Episode, gives those of i the
\* Outcome and leaves those of the others alone.
LEMMA WithOutcomeKeeps ==
  ASSUME NEW episodes \in SUBSET Episode, NEW i \in Incidents, NEW outcome
  PROVE  /\ Kept(episodes, WithOutcome(episodes, i, outcome))
         /\ Told(WithOutcome(episodes, i, outcome), i, outcome)
         /\ \A j \in Incidents :
              j # i => Mine(WithOutcome(episodes, i, outcome), j)
                         = Mine(episodes, j)
<1> DEFINE new(e) == [e EXCEPT !.outcome = outcome]
<1>1. ASSUME NEW e \in Episode
      PROVE  /\ new(e).inc = e.inc /\ new(e).prop = e.prop
             /\ new(e).decision = e.decision /\ new(e).outcome = outcome
             /\ [new(e) EXCEPT !.outcome = e.outcome] = e
             /\ [e EXCEPT !.outcome = e.outcome] = e
  BY DEF Episode
<1>2. WithOutcome(episodes, i, outcome)
        = (episodes \ Mine(episodes, i)) \union {new(e) : e \in Mine(episodes, i)}
  BY DEF WithOutcome
<1> HIDE DEF new
<1>3. Kept(episodes, WithOutcome(episodes, i, outcome))
  <2>1. ASSUME NEW e \in episodes
        PROVE  \E f \in WithOutcome(episodes, i, outcome) :
                 /\ f.inc = e.inc /\ f.prop = e.prop
                 /\ f.decision = e.decision
                 /\ [f EXCEPT !.outcome = e.outcome] = e
    <3>1. CASE e \in Mine(episodes, i)
      <4>1. new(e) \in WithOutcome(episodes, i, outcome)
        BY <1>2, <3>1
      <4>2. QED
        BY <1>1, <4>1
    <3>2. CASE e \notin Mine(episodes, i)
      <4>1. e \in WithOutcome(episodes, i, outcome)
        BY <1>2, <3>2
      <4>2. QED
        BY <1>1, <4>1
    <3>3. QED
      BY <3>1, <3>2
  <2>2. QED
    BY <2>1 DEF Kept
<1>4. Told(WithOutcome(episodes, i, outcome), i, outcome)
  BY <1>1, <1>2 DEF Told, Mine
<1>5. ASSUME NEW j \in Incidents, j # i
      PROVE  Mine(WithOutcome(episodes, i, outcome), j) = Mine(episodes, j)
  BY <1>1, <1>2, <1>5 DEF Mine
<1>6. QED
  BY <1>3, <1>4, <1>5

\* What was remembered stays remembered.
LEMMA RememberedStays ==
  ASSUME NEW old, NEW new, Kept(old, new), NEW i, NEW m, Remembered(old, i, m)
  PROVE  Remembered(new, i, m)
BY DEF Kept, Remembered

\* A step of a process on the store: only _write_episode and set_outcome
\* change it, for the incident of the command.
LEMMA StoreStep ==
  ASSUME NoTornWrite, IInv, NEW p \in Operators, ProcessRemembers(p), Moves(p)
  PROVE  /\ Kept(store, store')
         /\ \A j \in Incidents :
              j # call[p].inc => Mine(store', j) = Mine(store, j)
         /\ store' = store \/ Remembers(p) \/ Rewrites(p)
<1>1. /\ store \in SUBSET Episode /\ lines[p] \in SUBSET Episode
      /\ call[p].inc \in Incidents
  BY HeldTyped DEF IInv, TypeOK
<1>2. CASE store' = store
  BY <1>1, <1>2, KeptSame
<1>3. CASE Remembers(p)
  <2>1. /\ store' = store \union {NewEpisode(call[p].inc, mem[p])}
        /\ NewEpisode(call[p].inc, mem[p]).inc = call[p].inc
    BY <1>3 DEF Remembers, NewEpisode
  <2>2. Kept(store, store')
    BY <1>1, <2>1, KeptMore
  <2>3. \A j \in Incidents :
          j # call[p].inc => Mine(store', j) = Mine(store, j)
    BY <2>1 DEF Mine
  <2>4. QED
    BY <1>3, <2>2, <2>3
<1>4. CASE Rewrites(p)
  <2>1. store' = WithOutcome(store, call[p].inc, call[p].outcome)
    BY <1>4 DEF Rewrites, ProcessRemembers
  <2>2. QED
    BY <1>1, <1>4, <2>1, WithOutcomeKeeps
<1>5. QED
  BY <1>2, <1>3, <1>4
  DEF Moves, NoTornWrite, Stops, Pauses, Begins, Advances, Proposes, Decides,
      Passes, Applies, Settles, Reads, Drafts, Closes

\* A record of incident i that has an Outcome is out of reach of the process
\* that works on i, unless it is idle.
LEMMA ClosedIsQuiet ==
  ASSUME IInv, NEW p \in Operators, ProcessOK(p), IncidentOK(call[p].inc),
         record[call[p].inc].outcome # "none"
  PROVE  /\ ~Closing(p) /\ pc[p] \notin {"apply", "settle", "remember"}
         /\ ~At(p, "propose")
<1>1. Holding(p) => mem[p].next = "end"
  BY DEF ProcessOK, Holds, IncidentOK, Follows
<1>2. QED
  BY <1>1 DEF ProcessOK, Reviewed, Holding, IInv, Positions, At

LEMMA MoveRemembers ==
  ASSUME NoTornWrite, IInv, NEW p \in Operators, NEW i \in Incidents,
         i = call[p].inc, ProcessOK(p), IncidentOK(i), ProcessRemembers(p),
         \A j \in Incidents : IncidentRemembered(j),
         Alone(p, i), Moves(p)
  PROVE  /\ ProcessRemembers(p)'
         /\ \A j \in Incidents : IncidentRemembered(j)'
<1>1. /\ Kept(store, store')
      /\ \A j \in Incidents : j # i => Mine(store', j) = Mine(store, j)
      /\ store' = store \/ Remembers(p) \/ Rewrites(p)
  BY StoreStep
<1>2. ASSUME NEW j \in Incidents, j # i
      PROVE  IncidentRemembered(j)'
  <2>1. /\ ckpt'[j] = ckpt[j] /\ record'[j] = record[j]
        /\ Mine(store', j) = Mine(store, j)
    BY <1>1, <1>2 DEF Alone
  <2>2. Remembered(store', j, ckpt[j])
    BY <1>1, RememberedStays DEF IncidentRemembered
  <2>3. QED
    BY <2>1, <2>2 DEF IncidentRemembered, Told
<1>3. /\ Remembered(store', i, ckpt[i])
      /\ Holding(p) => Remembered(store', i, mem[p])
  BY <1>1, RememberedStays DEF IncidentRemembered, ProcessRemembers
<1>4. dirty[p] => Holding(p)
  BY DEF ProcessOK, Placed
<1>5. Remembers(p) => Remembered(store', i, mem'[p])
  <2>1. ASSUME Remembers(p)
        PROVE  Remembered(store', i, mem'[p])
    <3> DEFINE e == NewEpisode(i, mem[p])
    <3>1. /\ e \in store' /\ e.inc = i /\ e.prop = mem'[p].prop
          /\ e.decision = Verdict(mem'[p])
      BY <2>1 DEF Remembers, NewEpisode
    <3>2. QED
      BY <3>1 DEF Remembered
  <2>2. QED
    BY <2>1
<1>6. /\ Rewrites(p) => Told(store', i, call[p].outcome)
      /\ pc[p] \in {"draft", "append"} /\ store' = store =>
           Told(store', i, call[p].outcome)
  <2>1. ASSUME Rewrites(p)
        PROVE  Told(store', i, call[p].outcome)
    <3>1. store' = WithOutcome(lines[p], i, call[p].outcome)
      BY <2>1 DEF Rewrites
    <3>2. lines[p] \in SUBSET Episode
      BY DEF IInv, TypeOK
    <3>3. QED
      BY <3>1, <3>2, WithOutcomeKeeps
  <2>2. QED
    BY <2>1 DEF ProcessRemembers
<1>7. /\ record[i].outcome # "none" =>
           store' = store /\ Told(store', i, record[i].outcome)
      /\ Closes(p) => Told(store', i, call[p].outcome)
  BY <1>1, <1>6, ClosedIsQuiet
  DEF IncidentRemembered, Remembers, Rewrites, Closing, Closes
<1> SUFFICES ProcessRemembers(p)' /\ IncidentRemembered(i)'
  BY <1>2
<1> USE DEF ProcessRemembers, IncidentRemembered, Holding
<1>8. CASE Stops(p)
  BY <1>3, <1>4, <1>7, <1>8 DEF Stops, Ends, Torn, NoTornWrite
<1>9. CASE Pauses(p)
  BY <1>3, <1>4, <1>7, <1>9 DEF Pauses, Ends
<1>10. CASE Begins(p)
  BY <1>3, <1>7, <1>10 DEF Begins, Enters, Remembered
<1>11. CASE Advances(p)
  BY <1>3, <1>7, <1>11, EarlyNodes DEF Advances, Enters, Remembered, Late
<1>12. CASE Proposes(p)
  BY <1>3, <1>7, <1>12 DEF Proposes, Enters, Remembered, Written
<1>13. CASE Decides(p)
  BY <1>3, <1>7, <1>13 DEF Decides, Enters, Remembered
<1>14. CASE Passes(p)
  BY <1>3, <1>7, <1>14 DEF Passes, MovesTo, At
<1>15. CASE Applies(p)
  BY <1>3, <1>7, <1>15 DEF Applies, MovesTo
<1>16. CASE Settles(p)
  BY <1>3, <1>7, <1>16 DEF Settles, MovesTo, Written
<1>17. CASE Remembers(p)
  BY <1>3, <1>5, <1>7, <1>17 DEF Remembers, Enters
<1>18. CASE Reads(p)
  BY <1>3, <1>7, <1>18 DEF Reads, MovesTo
<1>19. CASE Rewrites(p)
  BY <1>3, <1>6, <1>7, <1>19 DEF Rewrites, MovesTo
<1>20. CASE Drafts(p)
  BY <1>3, <1>6, <1>7, <1>20 DEF Drafts, MovesTo
<1>21. CASE Closes(p)
  BY <1>3, <1>4, <1>7, <1>21 DEF Closes, Ends
<1>22. QED
  BY <1>8, <1>9, <1>10, <1>11, <1>12, <1>13, <1>14, <1>15, <1>16, <1>17,
     <1>18, <1>19, <1>20, <1>21 DEF Moves

LEMMA NextMemoryInv ==
  ASSUME OneOperator, NoTornWrite, IInv, GateInv, MemoryInv, [Next]_vars
  PROVE  MemoryInv'
<1>1. ASSUME NEW p \in Operators, ProcessRemembers(p)',
             \A j \in Incidents : IncidentRemembered(j)'
      PROVE  MemoryInv'
  BY <1>1 DEF OneOperator, MemoryInv
<1>2. ASSUME NEW p \in Operators, NEW i \in Incidents, i = call[p].inc,
             Alone(p, i), Moves(p) \/ Saves(p) \/ Crashes(p)
      PROVE  MemoryInv'
  <2>1. /\ ProcessOK(p) /\ IncidentOK(i) /\ ProcessRemembers(p)
        /\ \A j \in Incidents : IncidentRemembered(j)
    BY DEF GateInv, MemoryInv
  <2>2. CASE Moves(p)
    BY <1>1, <1>2, <2>1, <2>2, MoveRemembers
  <2>3. CASE Saves(p)
    <3>1. ProcessRemembers(p)'
      BY <1>2, <2>1, <2>3 DEF Saves, ProcessRemembers, Holding
    <3>2. ASSUME NEW j \in Incidents PROVE IncidentRemembered(j)'
      BY <1>2, <2>1, <2>3
      DEF Saves, Alone, ProcessRemembers, IncidentRemembered, ProcessOK, Placed
    <3>3. QED
      BY <1>1, <3>1, <3>2
  <2>4. CASE Crashes(p)
    <3>1. ProcessRemembers(p)'
      BY <2>4 DEF Crashes, ProcessRemembers, Holding
    <3>2. ASSUME NEW j \in Incidents PROVE IncidentRemembered(j)'
      BY <2>1, <2>4 DEF Crashes, IncidentRemembered
    <3>3. QED
      BY <1>1, <3>1, <3>2
  <2>5. QED
    BY <1>2, <2>2, <2>3, <2>4
<1>3. ASSUME NEW p \in Operators, NEW i \in Incidents, Starts(p, i)
      PROVE  MemoryInv'
  <2>1. UNCHANGED <<ckpt, record, store>> /\ call'[p].inc = i
    BY <1>3 DEF Starts, Refuses, Admits, Resumes, Reviews, Called
  <2>2. ASSUME NEW j \in Incidents PROVE IncidentRemembered(j)'
    BY <2>1 DEF MemoryInv, IncidentRemembered
  <2>3. pc'[p] \notin {"write_store", "draft", "append"}
    BY <1>3 DEF Starts, Refuses, Admits, Resumes, Reviews
  <2>4. Holding(p)' => mem'[p] = ckpt[i]
    BY <1>3 DEF Starts, Refuses, Admits, Resumes, Reviews, Holding
  <2>5. ProcessRemembers(p)'
    BY <2>1, <2>3, <2>4 DEF MemoryInv, ProcessRemembers, IncidentRemembered
  <2>6. QED
    BY <1>1, <2>2, <2>5
<1>4. CASE Edits
  BY <1>4 DEF Edits, MemoryInv, ProcessRemembers, IncidentRemembered, Holding
<1>5. QED
  BY <1>2, <1>3, <1>4, NextEffect, HeldTyped DEF Effects

LEMMA InitMemoryInv == Init => MemoryInv
BY DEF Init, MemoryInv, ProcessRemembers, IncidentRemembered, Remembered,
       Holding, NoCheckpoint, NoRecord, Written

LEMMA OneIsDisjoint == OneOperator => DisjointDesks
BY DEF OneOperator, DisjointDesks

LEMMA MemoryHolds ==
  ASSUME OneOperator, NoTornWrite
  PROVE  Spec => [](IInv /\ GateInv /\ MemoryInv)
<1>1. Init => IInv /\ GateInv /\ MemoryInv
  BY InitIInv, InitGateInv, InitMemoryInv
<1>2. (IInv /\ GateInv /\ MemoryInv) /\ [Next]_vars
        => (IInv /\ GateInv /\ MemoryInv)'
  BY NextIInv, NextGateInv, NextMemoryInv, OneIsDisjoint
<1>3. QED
  BY <1>1, <1>2, PTL DEF Spec

\* A finished incident is remembered with the proposal and the decision that
\* finished it, when commands run one after the other: failed writes and
\* crashes at any point do not lose its Episode, a torn write of the store may.
THEOREM FinishedAlwaysRemembered ==
  ASSUME OneOperator, NoTornWrite
  PROVE  Spec => []FinishedIsRemembered
<1>1. MemoryInv => FinishedIsRemembered
  BY DEF MemoryInv, IncidentRemembered, Remembered, FinishedIsRemembered
<1>2. QED
  BY <1>1, MemoryHolds, PTL

\* Only an incident that was approved for execution and finished is closed,
\* and the store carries the Outcome of its record.
THEOREM ClosedAlwaysExecuted ==
  ASSUME OneOperator, NoTornWrite
  PROVE  Spec => []ClosedWasExecuted
<1>1. ASSUME GateInv, MemoryInv, NEW i \in Incidents,
             record[i].outcome # "none"
      PROVE  /\ ckpt[i].next = "end"
             /\ ToExecute(ckpt[i])
             /\ \E e \in store : /\ e.inc = i
                                 /\ e.decision = "approved-executed"
                                 /\ e.outcome = record[i].outcome
  <2>1. ckpt[i].next = "end" /\ ToExecute(ckpt[i])
    BY <1>1 DEF GateInv, IncidentOK
  <2>2. PICK e \in store : e.inc = i /\ e.decision = Verdict(ckpt[i])
    BY <1>1, <2>1 DEF MemoryInv, IncidentRemembered, Remembered
  <2>3. e.outcome = record[i].outcome
    BY <1>1, <2>2 DEF MemoryInv, IncidentRemembered, Told, Mine
  <2>4. Verdict(ckpt[i]) = "approved-executed"
    BY <2>1 DEF ToExecute, Verdict
  <2>5. QED
    BY <2>1, <2>2, <2>3, <2>4
<1>2. GateInv /\ MemoryInv => ClosedWasExecuted
  BY <1>1 DEF ClosedWasExecuted
<1>3. QED
  BY <1>2, MemoryHolds, PTL

\* No step touches the Outcome of a closed incident, nor its Episodes; none
\* loses an Episode.
LEMMA OutcomeStep ==
  ASSUME NoTornWrite, IInv, GateInv, MemoryInv, [Next]_vars
  PROVE  /\ \A i \in Incidents :
              record[i].outcome # "none" =>
                /\ record'[i].outcome = record[i].outcome
                /\ Mine(store', i) = Mine(store, i)
         /\ Kept(store, store')
<1>1. store' = store => Kept(store, store')
  BY KeptSame DEF IInv, TypeOK
<1>2. ASSUME NEW p \in Operators, Alone(p, call[p].inc), Moves(p)
      PROVE  /\ \A i \in Incidents :
                  record[i].outcome # "none" =>
                    /\ record'[i].outcome = record[i].outcome
                    /\ Mine(store', i) = Mine(store, i)
             /\ Kept(store, store')
  <2>1. /\ ProcessOK(p) /\ ProcessRemembers(p) /\ call[p].inc \in Incidents
        /\ IncidentOK(call[p].inc)
    BY HeldTyped DEF GateInv, MemoryInv
  <2>2. /\ Kept(store, store')
        /\ \A j \in Incidents :
             j # call[p].inc => Mine(store', j) = Mine(store, j)
        /\ store' = store \/ Remembers(p) \/ Rewrites(p)
    BY <1>2, <2>1, StoreStep
  <2>3. CASE record[call[p].inc].outcome # "none"
    <3>1. /\ ~Closing(p) /\ pc[p] \notin {"apply", "settle", "remember"}
          /\ ~At(p, "propose")
      BY <2>1, <2>3, ClosedIsQuiet
    <3>2. store' = store
      BY <2>2, <3>1 DEF Remembers, Rewrites, Closing
    <3>3. record'[call[p].inc] = record[call[p].inc]
      BY <1>2, <3>1
      DEF Moves, NoTornWrite, Stops, Torn, Pauses, Begins, Advances,
          Proposes, Decides, Passes, Applies, Settles, Remembers, Reads,
          Rewrites, Drafts, Closes, Closing
    <3>4. QED
      BY <1>1, <1>2, <3>2, <3>3 DEF Alone
  <2>4. CASE record[call[p].inc].outcome = "none"
    BY <1>2, <2>2, <2>4 DEF Alone
  <2>5. QED
    BY <2>3, <2>4
<1>3. ASSUME NEW p \in Operators,
             Saves(p) \/ Crashes(p) \/ \E i \in Incidents : Starts(p, i)
      PROVE  UNCHANGED <<record, store>>
  BY <1>3
  DEF Saves, Crashes, Starts, Refuses, Admits, Resumes, Reviews, Called
<1>4. CASE Edits
  BY <1>1, <1>4 DEF Edits
<1>5. QED
  BY <1>1, <1>2, <1>3, <1>4, NextEffect DEF Effects

\* A closed incident keeps its Outcome, on the record and in the store,
\* whatever else is done, retried or fails afterwards.
THEOREM OutcomeAlwaysFinal ==
  ASSUME OneOperator, NoTornWrite
  PROVE  Spec => OutcomeIsFinal
<1>1. (IInv /\ GateInv /\ MemoryInv) /\ [Next]_vars =>
        [\A i \in Incidents :
           record[i].outcome # "none" =>
             /\ record'[i].outcome = record[i].outcome
             /\ Mine(store', i) = Mine(store, i)]_<<record, store>>
  BY OutcomeStep
<1>2. QED
  BY <1>1, MemoryHolds, PTL DEF Spec, OutcomeIsFinal

\* No Episode is ever lost when commands run one after the other; with two of
\* them the rewrite of the whole store may drop one (run lost_episode).
THEOREM EpisodesAlwaysStay ==
  ASSUME OneOperator, NoTornWrite
  PROVE  Spec => EpisodesStay
<1>1. (IInv /\ GateInv /\ MemoryInv) /\ [Next]_vars =>
        [\A e \in store :
           \E f \in store' : [f EXCEPT !.outcome = e.outcome] = e]_store
  BY OutcomeStep DEF Kept
<1>2. QED
  BY <1>1, MemoryHolds, PTL DEF Spec, EpisodesStay

-----------------------------------------------------------------------------
(* What holds when no process is killed.  The state of an incident is then *)
(* the one the process running its graph holds, or else the checkpoint:    *)
(* what an exit flushes is never lost.                                     *)

\* The refinement mapping's view of an incident, without its CHOOSE.
ViewOK ==
  /\ \A p \in Operators : Holding(p) => View(call[p].inc) = mem[p]
  /\ \A i \in Incidents :
       (\A p \in Operators : ~(Holding(p) /\ call[p].inc = i))
         => View(i) = ckpt[i]

\* Two processes that run the graph run it for different incidents.
LEMMA OneHolder ==
  ASSUME DisjointDesks, GateInv, NEW p \in Operators, NEW q \in Operators,
         pc[p] # "idle", pc[q] # "idle", call[p].inc = call[q].inc
  PROVE  p = q
<1>1. call[p].inc \in Desk[p] /\ call[q].inc \in Desk[q]
  BY DEF GateInv, ProcessOK, Placed
<1>2. QED
  BY <1>1 DEF DisjointDesks

LEMMA ViewFacts ==
  ASSUME DisjointDesks, GateInv
  PROVE  ViewOK
<1>1. \A p \in Operators : dirty[p] => Holding(p)
  BY DEF GateInv, ProcessOK, Placed
<1>2. ASSUME NEW p \in Operators, Holding(p)
      PROVE  View(call[p].inc) = mem[p]
  <2>1. \A q \in Ahead(call[p].inc) : q = p
    BY <1>1, <1>2, OneHolder DEF Ahead, Holding
  <2>2. CASE dirty[p]
    <3>1. p \in Ahead(call[p].inc)
      BY <2>2 DEF Ahead
    <3>2. QED
      BY <2>1, <3>1 DEF View
  <2>3. CASE ~dirty[p]
    <3>1. Ahead(call[p].inc) = {}
      BY <2>1, <2>3 DEF Ahead
    <3>2. mem[p] = ckpt[call[p].inc]
      BY <1>2, <2>3 DEF GateInv, ProcessOK, Holds
    <3>3. QED
      BY <3>1, <3>2 DEF View
  <2>4. QED
    BY <2>2, <2>3
<1>3. ASSUME NEW i \in Incidents,
             \A p \in Operators : ~(Holding(p) /\ call[p].inc = i)
      PROVE  View(i) = ckpt[i]
  <2>1. Ahead(i) = {}
    BY <1>1, <1>3 DEF Ahead
  <2>2. QED
    BY <2>1 DEF View
<1>4. QED
  BY <1>2, <1>3 DEF ViewOK

LEMMA ViewHolds ==
  ASSUME DisjointDesks
  PROVE  Spec => [](IInv /\ GateInv /\ ViewOK)
<1>1. GateInv => ViewOK
  BY ViewFacts
<1>2. QED
  BY <1>1, GateHolds, PTL

\* How a step of p about incident i changes the view of i, and of no other.
LEMMA ViewStep ==
  ASSUME DisjointDesks, GateInv, GateInv', ViewOK, ViewOK',
         NEW p \in Operators, NEW i \in Incidents, i \in Desk[p], Alone(p, i),
         Holding(p) => call[p].inc = i, call'[p].inc = i
  PROVE  /\ View(i) = IF Holding(p) THEN mem[p] ELSE ckpt[i]
         /\ View(i)' = IF Holding(p)' THEN mem'[p] ELSE ckpt'[i]
         /\ \A j \in Incidents : j # i => View(j)' = View(j)
<1>1. \A q \in Operators : q # p => Holding(q)' = Holding(q)
  BY DEF Alone, Holding
<1>2. \A q \in Operators : q # p /\ Holding(q) => call[q].inc # i
  BY DEF DisjointDesks, GateInv, ProcessOK, Placed, Holding
<1>3. View(i) = IF Holding(p) THEN mem[p] ELSE ckpt[i]
  BY <1>2 DEF ViewOK
<1>4. View(i)' = IF Holding(p)' THEN mem'[p] ELSE ckpt'[i]
  <2>1. CASE Holding(p)'
    BY <2>1 DEF ViewOK
  <2>2. CASE ~Holding(p)'
    <3>1. \A q \in Operators : ~(Holding(q)' /\ call'[q].inc = i)
      BY <1>1, <1>2, <2>2 DEF Alone
    <3>2. QED
      BY <2>2, <3>1 DEF ViewOK
  <2>3. QED
    BY <2>1, <2>2
<1>5. ASSUME NEW j \in Incidents, j # i
      PROVE  View(j)' = View(j)
  <2>1. CASE \E q \in Operators : Holding(q) /\ call[q].inc = j
    <3>1. PICK q \in Operators : Holding(q) /\ call[q].inc = j
      BY <2>1
    <3>2. q # p
      BY <1>5, <3>1
    <3>3. Holding(q)' /\ call'[q].inc = j /\ mem'[q] = mem[q]
      BY <1>1, <3>1, <3>2 DEF Alone
    <3>4. View(j) = mem[q]
      BY <3>1 DEF ViewOK
    <3>5. View(j)' = mem'[q]
      BY <3>3 DEF ViewOK
    <3>6. QED
      BY <3>3, <3>4, <3>5
  <2>2. CASE \A q \in Operators : ~(Holding(q) /\ call[q].inc = j)
    <3>1. \A q \in Operators : ~(Holding(q)' /\ call'[q].inc = j)
      BY <1>1, <1>5, <2>2 DEF Alone
    <3>2. View(j)' = ckpt'[j]
      BY <3>1 DEF ViewOK
    <3>3. View(j) = ckpt[j]
      BY <2>2 DEF ViewOK
    <3>4. QED
      BY <1>5, <3>2, <3>3 DEF Alone
  <2>3. QED
    BY <2>1, <2>2
<1>6. QED
  BY <1>3, <1>4, <1>5

\* A verdict on the record is the one of the graph state, and commands were
\* applied only if that state carries a decision to execute them.
Truthful(i, m) ==
  /\ record[i].status \in Verdicts =>
       m.next \in {"execute", "end"} /\ Verdict(m) = record[i].status
  /\ (\E a \in ran : a.inc = i) =>
       m.next \in {"execute", "end"} /\ ToExecute(m)

\* The text `close` will write back is as truthful, and past the executor the
\* commands of a proposal that has some were run.
Carried(p, i) ==
  /\ Closing(p) /\ copy[p].status \in Verdicts =>
       copy[p].status = Verdict(ckpt[i])
  /\ pc[p] \in {"settle", "remember"} /\ ToExecute(mem[p])
       /\ mem[p].prop \in Acting => \E a \in ran : a.inc = i

NoCrashInv ==
  /\ \A p \in Operators : Carried(p, call[p].inc)
  /\ \A i \in Incidents : Truthful(i, View(i))

LEMMA MoveKeepsTruth ==
  ASSUME IInv, NEW p \in Operators, NEW i \in Incidents, i = call[p].inc,
         ProcessOK(p), IncidentOK(i), Carried(p, i), Truthful(i, View(i)),
         Moves(p),
         View(i) = IF Holding(p) THEN mem[p] ELSE ckpt[i],
         View(i)' = IF Holding(p)' THEN mem'[p] ELSE ckpt'[i]
  PROVE  Carried(p, call[p].inc)' /\ Truthful(i, View(i))'
<1>1. /\ dirty[p] \in BOOLEAN
      /\ pc[p] \in {"apply", "settle", "remember"} =>
           mem[p].next = "execute"
      /\ pc[p] = "apply" => ToExecute(mem[p])
  BY DEF IInv, TypeOK, Positions
<1>2. /\ dirty[p] => Holding(p)
      /\ (IF dirty[p] THEN mem[p] ELSE ckpt[i]) = View(i)
      /\ Closing(p) => ckpt[i].next = "end"
      /\ pc[p] = "admitted" => ckpt[i].next \notin {"execute", "end"}
  BY <1>1
  DEF ProcessOK, Placed, Holds, Reviewed, IncidentOK, Shown, Late, Holding
<1> DEFINE v == View(i)
           w == View(i)'
<1>3. /\ v = IF Holding(p) THEN mem[p] ELSE ckpt[i]
      /\ w = IF Holding(p)' THEN mem'[p] ELSE ckpt'[i]
      /\ (IF dirty[p] THEN mem[p] ELSE ckpt[i]) = v
      /\ Truthful(i, v)
  BY <1>2
<1> SUFFICES Carried(p, call[p].inc)'
             /\ (record'[i].status \in Verdicts =>
                   w.next \in {"execute", "end"} /\ Verdict(w) = record'[i].status)
             /\ ((\E a \in ran' : a.inc = i) =>
                   w.next \in {"execute", "end"} /\ ToExecute(w))
  BY DEF Truthful
<1> HIDE DEF v, w
<1> USE <1>1, <1>2, <1>3 DEF Carried, Truthful, Holding, Closing, Verdicts
<1>4. CASE Stops(p)
  BY <1>4 DEF Stops, Ends, Torn, TornRecord, Written
<1>5. CASE Pauses(p)
  BY <1>5 DEF Pauses, Ends
<1>6. CASE Begins(p)
  BY <1>6 DEF Begins, Enters
<1>7. CASE Advances(p)
  BY <1>7, NodeNames DEF Advances, Enters
<1>8. CASE Proposes(p)
  BY <1>8 DEF Proposes, Enters, Written, At
<1>9. CASE Decides(p)
  BY <1>9 DEF Decides, Enters, At
<1>10. CASE Passes(p)
  BY <1>10 DEF Passes, MovesTo, At
<1>11. CASE Applies(p)
  <2>1. mem[p].prop \in Acting => \E a \in ran' : a.inc = i
    <3>1. Entry(p).inc = i
      BY DEF Entry
    <3>2. mem[p].prop \in Acting => Entry(p) \in ran'
      BY <1>11, Zenon DEF Applies
    <3>3. QED
      BY <3>1, <3>2, Zenon
  <2>2. QED
    BY <1>11, <2>1 DEF Applies, MovesTo
<1>12. CASE Settles(p)
  BY <1>12 DEF Settles, MovesTo, Written
<1>13. CASE Remembers(p)
  BY <1>13 DEF Remembers, Enters
<1>14. CASE Reads(p)
  BY <1>14 DEF Reads, MovesTo
<1>15. CASE Rewrites(p)
  BY <1>15 DEF Rewrites, MovesTo
<1>16. CASE Drafts(p)
  BY <1>16 DEF Drafts, MovesTo
<1>17. CASE Closes(p)
  BY <1>17 DEF Closes, Ends
<1>18. QED
  BY <1>4, <1>5, <1>6, <1>7, <1>8, <1>9, <1>10, <1>11, <1>12, <1>13, <1>14,
     <1>15, <1>16, <1>17 DEF Moves

LEMMA NextNoCrashInv ==
  ASSUME DisjointDesks, NoCrash, IInv, GateInv, GateInv', ViewOK, ViewOK',
         NoCrashInv, [Next]_vars
  PROVE  NoCrashInv'
<1>1. ASSUME NEW p \in Operators, NEW i \in Incidents, i \in Desk[p],
             Alone(p, i), \A j \in Incidents : j # i => View(j)' = View(j),
             Carried(p, call[p].inc)', Truthful(i, View(i))'
      PROVE  NoCrashInv'
  <2>1. ASSUME NEW q \in Operators, q # p
        PROVE  Carried(q, call[q].inc)'
    <3>1. /\ Carried(q, call[q].inc) /\ call[q].inc \in Incidents
          /\ Placed(q, call[q].inc)
      BY HeldTyped DEF NoCrashInv, GateInv, ProcessOK
    <3>2. pc[q] # "idle" => call[q].inc # i
      BY <2>1, <3>1, <1>1, Elsewhere DEF Placed
    <3>3. /\ pc'[q] = pc[q] /\ call'[q] = call[q] /\ mem'[q] = mem[q]
          /\ copy'[q] = copy[q] /\ ran \subseteq ran'
          /\ pc[q] # "idle" => ckpt'[call[q].inc] = ckpt[call[q].inc]
      BY <1>1, <2>1, <3>1, <3>2 DEF Alone
    <3>4. QED
      BY <3>1, <3>3 DEF Carried, Closing
  <2>2. ASSUME NEW j \in Incidents, j # i
        PROVE  Truthful(j, View(j))'
    <3>1. /\ record'[j] = record[j] /\ View(j)' = View(j)
          /\ \A a \in ran' : a.inc = j => a \in ran
      BY <1>1, <2>2 DEF Alone
    <3>2. QED
      BY <3>1 DEF NoCrashInv, Truthful
  <2>3. QED
    BY <1>1, <2>1, <2>2 DEF NoCrashInv
<1>2. ASSUME NEW p \in Operators, NEW i \in Incidents, i = call[p].inc,
             Alone(p, i), Moves(p) \/ Saves(p) \/ Crashes(p)
      PROVE  NoCrashInv'
  <2>1. /\ ProcessOK(p) /\ IncidentOK(i) /\ Carried(p, i)
        /\ Truthful(i, View(i))
    BY <1>2 DEF GateInv, NoCrashInv
  <2>2. i \in Desk[p] /\ call'[p] = call[p]
    BY <1>2, <2>1, Running
  <2>3. /\ View(i) = IF Holding(p) THEN mem[p] ELSE ckpt[i]
        /\ View(i)' = IF Holding(p)' THEN mem'[p] ELSE ckpt'[i]
        /\ \A j \in Incidents : j # i => View(j)' = View(j)
    BY <1>2, <2>2, ViewStep
  <2>4. Carried(p, call[p].inc)' /\ Truthful(i, View(i))'
    <3>1. CASE Moves(p)
      BY <1>2, <2>1, <2>3, <3>1, MoveKeepsTruth
    <3>2. CASE Saves(p)
      <4>1. /\ Holding(p) /\ View(i)' = View(i)
        BY <2>1, <2>3, <3>2 DEF Saves, ProcessOK, Placed, Holding
      <4>2. Carried(p, call[p].inc)'
        BY <1>2, <2>1, <3>2, <4>1 DEF Saves, Carried, Holding, Closing
      <4>3. Truthful(i, View(i))'
        BY <2>1, <3>2, <4>1 DEF Saves, Truthful
      <4>4. QED
        BY <4>2, <4>3
    <3>3. QED
      BY <1>2, <3>1, <3>2 DEF Crashes
  <2>5. QED
    BY <1>1, <1>2, <2>2, <2>3, <2>4
<1>3. ASSUME NEW p \in Operators, NEW i \in Incidents, Alone(p, i),
             Starts(p, i)
      PROVE  NoCrashInv'
  <2>1. /\ i \in Desk[p] /\ call'[p].inc = i /\ pc[p] = "idle" /\ ~Holding(p)
        /\ UNCHANGED <<ckpt, record, ran>>
    BY <1>3
    DEF Starts, Refuses, Admits, Resumes, Reviews, Called, Holding
  <2>2. /\ View(i) = ckpt[i]
        /\ View(i)' = IF Holding(p)' THEN mem'[p] ELSE ckpt'[i]
        /\ \A j \in Incidents : j # i => View(j)' = View(j)
    BY <1>3, <2>1, ViewStep
  <2>3. View(i)' = View(i)
    BY <1>3, <2>1, <2>2
    DEF Starts, Refuses, Admits, Resumes, Reviews, Holding
  <2>4. Truthful(i, View(i))'
    BY <2>1, <2>3 DEF NoCrashInv, Truthful
  <2>5. Carried(p, call[p].inc)'
    <3>1. Closing(p)' => copy'[p] = record[i] /\ ckpt[i].next = "end"
      BY <1>3 DEF Starts, Refuses, Admits, Resumes, Reviews, Closing
    <3>2. pc'[p] \notin {"settle", "remember"}
      BY <1>3 DEF Starts, Refuses, Admits, Resumes, Reviews
    <3>3. Truthful(i, ckpt[i])
      BY <2>2 DEF NoCrashInv
    <3>4. QED
      BY <2>1, <3>1, <3>2, <3>3 DEF Carried, Truthful
  <2>6. QED
    BY <1>1, <1>3, <2>1, <2>2, <2>4, <2>5
<1>4. CASE Edits
  <2>1. \A i \in Incidents : View(i)' = View(i)
    BY <1>4 DEF Edits, View, Ahead
  <2>2. \A i \in Incidents : Truthful(i, View(i))'
    BY <1>4, <2>1 DEF Edits, NoCrashInv, Truthful
  <2>3. \A p \in Operators : Carried(p, call[p].inc)'
    BY <1>4 DEF Edits, NoCrashInv, Carried, Closing
  <2>4. QED
    BY <2>2, <2>3 DEF NoCrashInv
<1>5. QED
  BY <1>2, <1>3, <1>4, NextEffect, HeldTyped DEF Effects

LEMMA InitNoCrashInv == Init => NoCrashInv
BY DEF Init, NoCrashInv, Carried, Truthful, Closing, NoRecord, Written,
       Verdicts

LEMMA NoCrashHolds ==
  ASSUME DisjointDesks, NoCrash
  PROVE  Spec => [](IInv /\ GateInv /\ ViewOK /\ NoCrashInv)
<1>1. Init => NoCrashInv
  BY InitNoCrashInv
<1>2. /\ IInv /\ GateInv /\ ViewOK /\ GateInv' /\ ViewOK' /\ NoCrashInv
      /\ [Next]_vars
      => NoCrashInv'
  BY NextNoCrashInv
<1>3. QED
  BY <1>1, <1>2, ViewHolds, PTL DEF Spec

\* A record that says that no commands were applied tells the truth, as long
\* as no process is killed: nobody's failing, torn or edited record, failing
\* sandbox or retry makes it lie.
THEOREM RejectedAlwaysUntouched ==
  ASSUME DisjointDesks, NoCrash
  PROVE  Spec => []RejectedUntouched
<1>1. ASSUME NoCrashInv, NEW i \in Incidents, record[i].status = "rejected",
             NEW a \in ran, a.inc = i
      PROVE  FALSE
  <2>1. Verdict(View(i)) = "rejected" /\ ToExecute(View(i))
    BY <1>1 DEF NoCrashInv, Truthful, Verdicts
  <2>2. QED
    BY <2>1 DEF Verdict, ToExecute
<1>2. NoCrashInv => RejectedUntouched
  BY <1>1 DEF RejectedUntouched
<1>3. QED
  BY <1>2, NoCrashHolds, PTL

-----------------------------------------------------------------------------
(* The refinement: every step of dispatch is a step of HumanGate or leaves *)
(* its variables alone.                                                    *)

PhaseFor(next, outcome) ==
  CASE next = "approval" -> "pending"
    [] next = "execute" -> "deciding"
    [] next = "end" -> IF outcome = "none" THEN "decided" ELSE "closed"
    [] OTHER -> "new"

VerdictFor(m) ==
  IF m.next \notin {"execute", "end"} THEN "none"
  ELSE IF m.decision = "reject" THEN "rejected"
  ELSE IF ~m.execute THEN "dry-run"
  ELSE IF m.prop \in Acting THEN "executed" ELSE "observed"

Phase == [i \in Incidents |-> PhaseOf(i)]
VerdictNow == [i \in Incidents |-> VerdictOf(i)]
AppliedNow == {a.inc : a \in ran}
OutcomeNow == [i \in Incidents |-> record[i].outcome]

LEMMA PhaseValues ==
  ASSUME NEW n, NEW o
  PROVE  /\ n = "approval" => PhaseFor(n, o) = "pending"
         /\ n = "execute" => PhaseFor(n, o) = "deciding"
         /\ n = "end" /\ o = "none" => PhaseFor(n, o) = "decided"
         /\ n = "end" /\ o # "none" => PhaseFor(n, o) = "closed"
         /\ n \notin Late => PhaseFor(n, o) = "new"
BY DEF PhaseFor, Late

LEMMA VerdictValues ==
  ASSUME NEW m
  PROVE  /\ m.next \notin {"execute", "end"} => VerdictFor(m) = "none"
         /\ m.next \in {"execute", "end"} => VerdictFor(m) \in Gate!Verdicts
         /\ m.next \in {"execute", "end"} /\ ToExecute(m) =>
              VerdictFor(m) = IF m.prop \in Acting THEN "executed"
                              ELSE "observed"
         /\ VerdictFor(m) = "executed" =>
              m.decision # "reject" /\ m.execute /\ m.prop \in Acting
<1>1. m.next \notin {"execute", "end"} => VerdictFor(m) = "none"
  BY DEF VerdictFor
<1>2. ASSUME m.next \in {"execute", "end"}
      PROVE  /\ m.decision = "reject" => VerdictFor(m) = "rejected"
             /\ m.decision # "reject" /\ ~m.execute =>
                  VerdictFor(m) = "dry-run"
             /\ m.decision # "reject" /\ m.execute =>
                  VerdictFor(m) = IF m.prop \in Acting THEN "executed"
                                  ELSE "observed"
  BY <1>2 DEF VerdictFor
<1>3. QED
  BY <1>1, <1>2 DEF Gate!Verdicts, ToExecute

\* A step about incident i moves no other incident of the gate.
LEMMA MapStep ==
  ASSUME NEW i \in Incidents,
         \A j \in Incidents : j # i => /\ View(j)' = View(j)
                                       /\ record'[j] = record[j]
  PROVE  /\ Phase[i] = PhaseFor(View(i).next, record[i].outcome)
         /\ VerdictNow[i] = VerdictFor(View(i))
         /\ Phase' = [Phase EXCEPT ![i] =
                         PhaseFor(View(i)'.next, record'[i].outcome)]
         /\ VerdictNow' = [VerdictNow EXCEPT ![i] = VerdictFor(View(i)')]
         /\ OutcomeNow' = [OutcomeNow EXCEPT ![i] = record'[i].outcome]
<1>1. \A j \in Incidents :
        /\ PhaseOf(j) = PhaseFor(View(j).next, record[j].outcome)
        /\ PhaseOf(j)' = PhaseFor(View(j)'.next, record'[j].outcome)
        /\ VerdictOf(j) = VerdictFor(View(j))
        /\ VerdictOf(j)' = VerdictFor(View(j)')
  BY DEF PhaseOf, PhaseFor, VerdictOf, VerdictFor
<1>2. \A j \in Incidents :
        j # i => PhaseOf(j)' = PhaseOf(j) /\ VerdictOf(j)' = VerdictOf(j)
  BY <1>1
<1>3. QED
  BY <1>1, <1>2 DEF Phase, VerdictNow, OutcomeNow

LEMMA GateStutter ==
  ASSUME UNCHANGED <<Phase, VerdictNow, AppliedNow, OutcomeNow>>
  PROVE  UNCHANGED Gate!vars
BY DEF Gate!vars, Phase, VerdictNow, AppliedNow, OutcomeNow

LEMMA GateRaise ==
  ASSUME NEW i \in Incidents, Phase[i] = "new",
         Phase' = [Phase EXCEPT ![i] = "pending"],
         UNCHANGED <<VerdictNow, AppliedNow, OutcomeNow>>
  PROVE  Gate!Next
<1>1. Gate!Raise(i)
  BY DEF Gate!Raise, Phase, VerdictNow, AppliedNow, OutcomeNow
<1>2. QED
  BY <1>1 DEF Gate!Next

LEMMA GateDecides ==
  ASSUME NEW i \in Incidents, NEW v \in Gate!Verdicts, Phase[i] = "pending",
         Phase' = [Phase EXCEPT ![i] = "deciding"],
         VerdictNow' = [VerdictNow EXCEPT ![i] = v],
         UNCHANGED <<AppliedNow, OutcomeNow>>
  PROVE  Gate!Next
<1>1. Gate!Decide(i, v)
  BY DEF Gate!Decide, Phase, VerdictNow, AppliedNow, OutcomeNow
<1>2. QED
  BY <1>1 DEF Gate!Next

LEMMA GateApplies ==
  ASSUME NEW i \in Incidents, Phase[i] = "deciding",
         VerdictNow[i] = "executed", AppliedNow' = AppliedNow \union {i},
         UNCHANGED <<Phase, VerdictNow, OutcomeNow>>
  PROVE  Gate!Next
<1>1. Gate!Apply(i)
  BY DEF Gate!Apply, Phase, VerdictNow, AppliedNow, OutcomeNow
<1>2. QED
  BY <1>1 DEF Gate!Next

LEMMA GateSettles ==
  ASSUME NEW i \in Incidents, Phase[i] = "deciding",
         VerdictNow[i] = "executed" => i \in AppliedNow,
         Phase' = [Phase EXCEPT ![i] = "decided"],
         UNCHANGED <<VerdictNow, AppliedNow, OutcomeNow>>
  PROVE  Gate!Next
<1>1. Gate!Settle(i)
  BY DEF Gate!Settle, Phase, VerdictNow, AppliedNow, OutcomeNow
<1>2. QED
  BY <1>1 DEF Gate!Next

LEMMA GateCloses ==
  ASSUME NEW i \in Incidents, NEW o \in Outcomes, Phase[i] = "decided",
         VerdictNow[i] \in {"executed", "observed"},
         Phase' = [Phase EXCEPT ![i] = "closed"],
         OutcomeNow' = [OutcomeNow EXCEPT ![i] = o],
         UNCHANGED <<VerdictNow, AppliedNow>>
  PROVE  Gate!Next
<1>1. Gate!Close(i, o)
  BY DEF Gate!Close, Phase, VerdictNow, AppliedNow, OutcomeNow
<1>2. QED
  BY <1>1 DEF Gate!Next, Outcomes

\* The four variables of the gate are functions on the incidents.
LEMMA MapStutter ==
  ASSUME NEW i \in Incidents,
         \A j \in Incidents : j # i => /\ View(j)' = View(j)
                                       /\ record'[j] = record[j],
         PhaseFor(View(i)'.next, record'[i].outcome)
           = PhaseFor(View(i).next, record[i].outcome),
         VerdictFor(View(i)') = VerdictFor(View(i)),
         record'[i].outcome = record[i].outcome
  PROVE  UNCHANGED <<Phase, VerdictNow, OutcomeNow>>
<1>1. /\ Phase' = [Phase EXCEPT ![i] = Phase[i]]
      /\ VerdictNow' = [VerdictNow EXCEPT ![i] = VerdictNow[i]]
      /\ OutcomeNow' = [OutcomeNow EXCEPT ![i] = OutcomeNow[i]]
  BY MapStep DEF OutcomeNow
<1>2. QED
  BY <1>1 DEF Phase, VerdictNow, OutcomeNow

\* What a running command does to its incident is a step of the gate.
LEMMA MoveIsGateStep ==
  ASSUME IInv, NEW p \in Operators, NEW i \in Incidents, i = call[p].inc,
         ProcessOK(p), IncidentOK(i), ProcessOK(p)', call'[p] = call[p],
         Carried(p, i), Alone(p, i), Moves(p),
         View(i) = IF Holding(p) THEN mem[p] ELSE ckpt[i],
         View(i)' = IF Holding(p)' THEN mem'[p] ELSE ckpt'[i],
         \A j \in Incidents : j # i => View(j)' = View(j)
  PROVE  Gate!Next \/ UNCHANGED Gate!vars
<1>1. /\ dirty[p] \in BOOLEAN
      /\ pc[p] \in {"apply", "settle", "remember"} => mem[p].next = "execute"
      /\ pc[p] = "apply" => ToExecute(mem[p])
  BY DEF IInv, TypeOK, Positions
<1>2. /\ dirty[p] => Holding(p)
      /\ (IF dirty[p] THEN mem[p] ELSE ckpt[i]) = View(i)
      /\ Closing(p) => /\ ckpt[i].next = "end" /\ ToExecute(ckpt[i])
                       /\ record[i].outcome = "none"
                       /\ call[p].outcome \in Outcomes
      /\ pc[p] = "admitted" => ckpt[i].next \notin Late
      /\ Holding(p)' => Decided(mem'[p])
  BY <1>1
  DEF ProcessOK, Placed, Holds, Reviewed, IncidentOK, Shown, Holding
<1>3. record[i].outcome # "none" =>
        /\ ~Closing(p) /\ pc[p] \notin {"apply", "settle", "remember"}
        /\ ~At(p, "propose")
  BY ClosedIsQuiet
<1> DEFINE v == View(i)
           w == View(i)'
<1>4. \A j \in Incidents : j # i => /\ View(j)' = View(j)
                                    /\ record'[j] = record[j]
  BY DEF Alone
<1>5. /\ Phase[i] = PhaseFor(v.next, record[i].outcome)
      /\ VerdictNow[i] = VerdictFor(v)
      /\ Phase' = [Phase EXCEPT ![i] = PhaseFor(w.next, record'[i].outcome)]
      /\ VerdictNow' = [VerdictNow EXCEPT ![i] = VerdictFor(w)]
      /\ OutcomeNow' = [OutcomeNow EXCEPT ![i] = record'[i].outcome]
  BY <1>4, MapStep
<1>6. /\ ran' = ran => AppliedNow' = AppliedNow
      /\ (\E a \in ran : a.inc = i) => i \in AppliedNow
      /\ VerdictFor(w) = VerdictFor(v) => VerdictNow' = VerdictNow
      /\ record'[i].outcome = record[i].outcome => OutcomeNow' = OutcomeNow
  <2>1. /\ VerdictNow = [VerdictNow EXCEPT ![i] = VerdictNow[i]]
        /\ OutcomeNow = [OutcomeNow EXCEPT ![i] = record[i].outcome]
    BY DEF VerdictNow, OutcomeNow
  <2>2. VerdictFor(w) = VerdictFor(v) => VerdictNow' = VerdictNow
    BY <1>5, <2>1, Zenon
  <2>3. record'[i].outcome = record[i].outcome => OutcomeNow' = OutcomeNow
    BY <1>5, <2>1, Zenon
  <2>4. QED
    BY <2>2, <2>3 DEF AppliedNow
<1>7. /\ PhaseFor(w.next, record'[i].outcome)
             = PhaseFor(v.next, record[i].outcome)
      /\ VerdictFor(w) = VerdictFor(v)
      /\ record'[i].outcome = record[i].outcome
      => UNCHANGED <<Phase, VerdictNow, OutcomeNow>>
  BY <1>4, MapStutter
<1>8. /\ v = IF Holding(p) THEN mem[p] ELSE ckpt[i]
      /\ w = IF Holding(p)' THEN mem'[p] ELSE ckpt'[i]
      /\ (IF dirty[p] THEN mem[p] ELSE ckpt[i]) = v
  BY <1>2
<1> HIDE DEF v, w
<1>9. ASSUME v = w \/ (v.next \notin Late /\ w.next \notin Late),
             record'[i].outcome = record[i].outcome, ran' = ran
      PROVE  UNCHANGED Gate!vars
  <2>1. PhaseFor(w.next, record'[i].outcome)
          = PhaseFor(v.next, record[i].outcome)
    BY <1>9, PhaseValues
  <2>2. VerdictFor(w) = VerdictFor(v)
    BY <1>9, VerdictValues DEF Late
  <2>3. QED
    BY <1>6, <1>7, <1>9, <2>1, <2>2, GateStutter
<1>10. CASE Stops(p)
  <2>1. v = w /\ ran' = ran
    BY <1>1, <1>2, <1>3, <1>8, <1>10
    DEF Stops, Ends, Holding, Closing
  <2>2. record'[i].outcome = record[i].outcome
    BY <1>1, <1>2, <1>3, <1>8, <1>10
    DEF Stops, Torn, TornRecord, Written, Holding, Closing
  <2>3. QED
    BY <1>9, <2>1, <2>2
<1>11. CASE Pauses(p)
  <2>1. v = w
    BY <1>1, <1>2, <1>3, <1>8, <1>11
    DEF Pauses, Ends, Holding, Closing
  <2>2. ran' = ran /\ record'[i].outcome = record[i].outcome
    BY <1>11 DEF Pauses, Ends
  <2>3. QED
    BY <1>9, <2>1, <2>2
<1>12. CASE Begins(p)
  <2>1. v.next \notin Late /\ w.next \notin Late
    BY <1>1, <1>2, <1>3, <1>8, <1>12
    DEF Begins, Enters, Late, Holding, Closing
  <2>2. ran' = ran /\ record'[i].outcome = record[i].outcome
    BY <1>12 DEF Begins, Enters, Late
  <2>3. QED
    BY <1>9, <2>1, <2>2
<1>13. CASE Advances(p)
  <2>1. v.next \notin Late /\ w.next \notin Late
    BY <1>1, <1>2, <1>3, <1>8, <1>13, NodeNames
    DEF Advances, Enters, NodeAfter, Late, Holding
  <2>2. QED
    BY <1>9, <1>13, <2>1 DEF Advances, Enters
<1>14. CASE Proposes(p)
  <2>1. /\ v.next = "propose" /\ w.next = "approval" /\ ran' = ran
        /\ record[i].outcome = "none" /\ record'[i].outcome = "none"
    BY <1>1, <1>2, <1>3, <1>8, <1>14
    DEF Proposes, Enters, Written, At, Holding, Closing
  <2>2. /\ Phase[i] = "new"
        /\ Phase' = [Phase EXCEPT ![i] = "pending"]
    <3>1. /\ PhaseFor(v.next, record[i].outcome) = "new"
          /\ PhaseFor(w.next, record'[i].outcome) = "pending"
      BY <2>1, PhaseValues DEF Late
    <3>2. QED
      BY <1>5, <3>1, Zenon
  <2>3. VerdictFor(v) = VerdictFor(w)
    BY <2>1, VerdictValues
  <2>4. VerdictNow' = VerdictNow /\ OutcomeNow' = OutcomeNow
    BY <1>6, <2>1, <2>3
  <2>5. QED
    BY <1>6, <2>1, <2>2, <2>4, GateRaise
<1>15. CASE Decides(p)
  <2>1. /\ v.next = "approval" /\ w.next = "execute" /\ ran' = ran
        /\ record'[i].outcome = record[i].outcome
    BY <1>1, <1>2, <1>3, <1>8, <1>15
    DEF Decides, Enters, At, Holding, Closing
  <2>2. /\ Phase[i] = "pending"
        /\ Phase' = [Phase EXCEPT ![i] = "deciding"]
    <3>1. /\ PhaseFor(v.next, record[i].outcome) = "pending"
          /\ PhaseFor(w.next, record'[i].outcome) = "deciding"
      BY <2>1, PhaseValues
    <3>2. QED
      BY <1>5, <3>1, Zenon
  <2>3. VerdictFor(w) \in Gate!Verdicts
    BY <2>1, VerdictValues
  <2>4. OutcomeNow' = OutcomeNow
    BY <1>6, <2>1
  <2>5. QED
    BY <1>5, <1>6, <2>1, <2>2, <2>3, <2>4, GateDecides
<1>16. CASE Passes(p)
  <2>1. v = w
    BY <1>1, <1>2, <1>3, <1>8, <1>16
    DEF Passes, MovesTo, At, Holding, Closing
  <2>2. ran' = ran /\ record'[i].outcome = record[i].outcome
    BY <1>16 DEF Passes, MovesTo, At
  <2>3. QED
    BY <1>9, <2>1, <2>2
<1>17. CASE Applies(p)
  <2>1. /\ v = w /\ v.next = "execute" /\ ToExecute(v) /\ v = mem[p]
        /\ record'[i].outcome = record[i].outcome
    BY <1>1, <1>2, <1>3, <1>8, <1>17
    DEF Applies, MovesTo, Holding, Closing
  <2>2. CASE mem[p].prop \notin Acting
    BY <1>9, <1>17, <2>1, <2>2 DEF Applies
  <2>3. CASE mem[p].prop \in Acting
    <3>1. ran' = ran \union {Entry(p)}
      BY <1>17, <2>3 DEF Applies
    <3>2. AppliedNow' = AppliedNow \union {i}
      <4>1. Entry(p).inc = i
        BY DEF Entry
      <4>2. QED
        BY <3>1, <4>1 DEF AppliedNow
    <3>3. Phase[i] = "deciding"
      BY <1>5, <2>1, PhaseValues
    <3>4. VerdictNow[i] = "executed"
      BY <1>5, <2>1, <2>3, VerdictValues
    <3>5. UNCHANGED <<Phase, VerdictNow, OutcomeNow>>
      BY <1>7, <2>1
    <3>6. QED
      BY <3>2, <3>3, <3>4, <3>5, GateApplies
  <2>4. QED
    BY <2>2, <2>3
<1>18. CASE Settles(p)
  <2>1. v = w /\ ran' = ran /\ record'[i].outcome = record[i].outcome
    BY <1>1, <1>2, <1>3, <1>8, <1>18
    DEF Settles, MovesTo, Written, Holding, Closing
  <2>2. QED
    BY <1>9, <2>1
<1>19. CASE Remembers(p)
  <2>1. /\ v.next = "execute" /\ w.next = "end" /\ ran' = ran /\ v = mem[p]
        /\ w = mem'[p]
        /\ record[i].outcome = "none" /\ record'[i].outcome = "none"
    BY <1>1, <1>2, <1>3, <1>8, <1>19
    DEF Remembers, Enters, Holding, Closing
  <2>2. /\ w.prop = v.prop /\ w.decision = v.decision
        /\ w.execute = v.execute
    BY <1>19, <2>1 DEF Remembers
  <2>3. VerdictFor(w) = VerdictFor(v)
    BY <2>1, <2>2 DEF VerdictFor
  <2>4. /\ Phase[i] = "deciding"
        /\ Phase' = [Phase EXCEPT ![i] = "decided"]
    <3>1. /\ PhaseFor(v.next, record[i].outcome) = "deciding"
          /\ PhaseFor(w.next, record'[i].outcome) = "decided"
      BY <2>1, PhaseValues
    <3>2. QED
      BY <1>5, <3>1, Zenon
  <2>5. ASSUME VerdictNow[i] = "executed" PROVE i \in AppliedNow
    <3>1. v.decision # "reject" /\ v.execute /\ v.prop \in Acting
      BY <1>5, <2>5, VerdictValues
    <3>2. w.decision \in {"approve", "reject"}
      BY <1>2, <1>19, <2>1 DEF Remembers, Enters, Holding, Decided
    <3>3. ToExecute(mem[p]) /\ mem[p].prop \in Acting
      BY <2>1, <2>2, <3>1, <3>2 DEF ToExecute
    <3>4. QED
      BY <1>6, <1>19, <3>3 DEF Remembers, Carried
  <2>6. VerdictNow' = VerdictNow /\ OutcomeNow' = OutcomeNow
    BY <1>6, <2>1, <2>3
  <2>7. QED
    BY <1>6, <2>1, <2>4, <2>5, <2>6, GateSettles
<1>20. CASE Reads(p)
  <2>1. v = w /\ ran' = ran /\ record'[i].outcome = record[i].outcome
    BY <1>1, <1>2, <1>3, <1>8, <1>20
    DEF Reads, MovesTo, Holding, Closing
  <2>2. QED
    BY <1>9, <2>1
<1>21. CASE Rewrites(p)
  <2>1. v = w /\ ran' = ran /\ record'[i].outcome = record[i].outcome
    BY <1>1, <1>2, <1>3, <1>8, <1>21
    DEF Rewrites, MovesTo, Holding, Closing
  <2>2. QED
    BY <1>9, <2>1
<1>22. CASE Drafts(p)
  <2>1. v = w /\ ran' = ran /\ record'[i].outcome = record[i].outcome
    BY <1>1, <1>2, <1>3, <1>8, <1>22
    DEF Drafts, MovesTo, Holding, Closing
  <2>2. QED
    BY <1>9, <2>1
<1>23. CASE Closes(p)
  <2>1. /\ v = ckpt[i] /\ v = w /\ v.next = "end" /\ ToExecute(v)
        /\ record[i].outcome = "none" /\ ran' = ran
        /\ record'[i].outcome = call[p].outcome
        /\ call[p].outcome \in Outcomes /\ call[p].outcome # "none"
    BY <1>1, <1>2, <1>3, <1>8, <1>23
    DEF Closes, Ends, Outcomes, Holding, Closing
  <2>2. /\ Phase[i] = "decided"
        /\ Phase' = [Phase EXCEPT ![i] = "closed"]
    <3>1. /\ PhaseFor(v.next, record[i].outcome) = "decided"
          /\ PhaseFor(w.next, record'[i].outcome) = "closed"
      BY <2>1, PhaseValues
    <3>2. QED
      BY <1>5, <3>1, Zenon
  <2>3. VerdictNow[i] \in {"executed", "observed"}
    BY <1>5, <2>1, VerdictValues
  <2>4. VerdictNow' = VerdictNow
    BY <1>6, <2>1
  <2>5. QED
    BY <1>5, <1>6, <2>1, <2>2, <2>3, <2>4, GateCloses
<1>24. QED
  BY <1>10, <1>11, <1>12, <1>13, <1>14, <1>15, <1>16, <1>17, <1>18, <1>19,
     <1>20, <1>21, <1>22, <1>23 DEF Moves

LEMMA NextIsGateStep ==
  ASSUME DisjointDesks, NoCrash, IInv, GateInv, GateInv', ViewOK, ViewOK',
         NoCrashInv, [Next]_vars
  PROVE  Gate!Next \/ UNCHANGED Gate!vars
<1>1. ASSUME NEW p \in Operators, NEW i \in Incidents, i = call[p].inc,
             Alone(p, i), Moves(p) \/ Saves(p) \/ Crashes(p)
      PROVE  Gate!Next \/ UNCHANGED Gate!vars
  <2>1. /\ ProcessOK(p) /\ IncidentOK(i) /\ Carried(p, i) /\ ProcessOK(p)'
    BY <1>1 DEF GateInv, NoCrashInv
  <2>2. i \in Desk[p] /\ call'[p] = call[p]
    BY <1>1, <2>1, Running
  <2>3. /\ View(i) = IF Holding(p) THEN mem[p] ELSE ckpt[i]
        /\ View(i)' = IF Holding(p)' THEN mem'[p] ELSE ckpt'[i]
        /\ \A j \in Incidents : j # i => View(j)' = View(j)
    BY <1>1, <2>2, ViewStep
  <2>4. CASE Moves(p)
    BY <1>1, <2>1, <2>2, <2>3, <2>4, MoveIsGateStep
  <2>5. CASE Saves(p)
    <3>1. View(i)' = View(i) /\ record' = record /\ ran' = ran
      BY <1>1, <2>1, <2>3, <2>5 DEF Saves, ProcessOK, Placed, Holding
    <3>2. QED
      BY <2>3, <3>1, MapStutter, GateStutter DEF AppliedNow
  <2>6. QED
    BY <1>1, <2>4, <2>5 DEF Crashes
<1>2. ASSUME NEW p \in Operators, NEW i \in Incidents, Alone(p, i),
             Starts(p, i)
      PROVE  Gate!Next \/ UNCHANGED Gate!vars
  <2>1. /\ i \in Desk[p] /\ call'[p].inc = i /\ pc[p] = "idle" /\ ~Holding(p)
        /\ UNCHANGED <<ckpt, record, ran>>
    BY <1>2
    DEF Starts, Refuses, Admits, Resumes, Reviews, Called, Holding
  <2>2. /\ View(i) = ckpt[i]
        /\ View(i)' = IF Holding(p)' THEN mem'[p] ELSE ckpt'[i]
        /\ \A j \in Incidents : j # i => View(j)' = View(j)
    BY <1>2, <2>1, ViewStep
  <2>3. View(i)' = View(i)
    BY <1>2, <2>1, <2>2
    DEF Starts, Refuses, Admits, Resumes, Reviews, Holding
  <2>4. QED
    BY <2>1, <2>2, <2>3, MapStutter, GateStutter DEF AppliedNow
<1>3. CASE Edits
  <2>1. \A i \in Incidents : /\ View(i)' = View(i)
                             /\ record'[i].outcome = record[i].outcome
    BY <1>3 DEF Edits, View, Ahead
  <2>2. \A i \in Incidents : /\ PhaseOf(i)' = PhaseOf(i)
                             /\ VerdictOf(i)' = VerdictOf(i)
    BY <2>1 DEF PhaseOf, VerdictOf
  <2>3. QED
    BY <1>3, <2>1, <2>2, GateStutter
    DEF Phase, VerdictNow, OutcomeNow, AppliedNow, Edits
<1>4. QED
  BY <1>1, <1>2, <1>3, NextEffect, HeldTyped DEF Effects

LEMMA InitIsGateInit == Init => Gate!Init
<1>1. ASSUME Init, NEW i \in Incidents
      PROVE  /\ PhaseOf(i) = "new" /\ VerdictOf(i) = "none"
             /\ record[i].outcome = "none"
  <2>1. Ahead(i) = {} /\ record[i].outcome = "none"
    BY <1>1 DEF Init, Ahead, NoRecord, Written
  <2>2. View(i).next = "none"
    BY <1>1, <2>1 DEF View, Init, NoCheckpoint
  <2>3. QED
    BY <2>1, <2>2 DEF PhaseOf, VerdictOf
<1>2. Init => {a.inc : a \in ran} = {}
  BY DEF Init
<1>3. QED
  BY <1>1, <1>2 DEF Gate!Init

\* Without a crash and with one operator at an incident, dispatch implements
\* the gate, whatever else fails, is edited or is retried: a decision is taken
\* once, commands run only after a decision to execute and before the
\* incident is finished, and only such an incident is closed.
THEOREM DispatchImplementsGate ==
  ASSUME DisjointDesks, NoCrash
  PROVE  Spec => GateSpec
<1>1. /\ IInv /\ GateInv /\ ViewOK /\ NoCrashInv /\ GateInv' /\ ViewOK'
      /\ [Next]_vars
      => [Gate!Next]_(Gate!vars)
  BY NextIsGateStep
<1>2. QED
  BY <1>1, InitIsGateInit, NoCrashHolds, PTL DEF Spec, GateSpec, Gate!Spec

-----------------------------------------------------------------------------
(* What holds when, besides, no write fails: the steps of a command are    *)
(* then separated by nothing but other commands.                           *)

\* A process about incident i has staged a draft and is about to close it.
Staging(p, i) ==
  pc[p] = "append" /\ call[p].inc = i /\ call[p].outcome = "resolved"

Drafted(i) ==
  i \in drafts =>
    /\ i \notin Covered
    /\ ckpt[i].next = "end" /\ ToExecute(ckpt[i])
    /\ record[i].outcome = "resolved" \/ \E p \in Operators : Staging(p, i)

DraftInv == \A i \in Incidents : Drafted(i)

LEMMA MoveKeepsDraft ==
  ASSUME NoFailedWrite, IInv, NEW p \in Operators, NEW i \in Incidents,
         i = call[p].inc, ProcessOK(p), IncidentOK(i), Moves(p),
         call'[p] = call[p], ckpt[i].next = "end" => ckpt'[i] = ckpt[i],
         i \in drafts =>
           /\ i \notin Covered
           /\ ckpt[i].next = "end" /\ ToExecute(ckpt[i])
           /\ record[i].outcome = "resolved" \/ Staging(p, i),
         i \in drafts'
  PROVE  /\ i \notin Covered
         /\ ckpt'[i].next = "end" /\ ToExecute(ckpt'[i])
         /\ record'[i].outcome = "resolved" \/ Staging(p, i)'
<1>1. /\ pc[p] \in {"apply", "settle", "remember"} => Holding(p)
      /\ Closing(p) => ckpt[i].next = "end" /\ ToExecute(ckpt[i])
  BY DEF ProcessOK, Reviewed, Holding
<1>2. record[i].outcome # "none" =>
        /\ ~Closing(p) /\ pc[p] \notin {"apply", "settle", "remember"}
        /\ ~At(p, "propose")
  BY ClosedIsQuiet
<1>3. Holding(p) /\ ckpt[i].next = "end" => mem[p].next = "end"
  BY DEF ProcessOK, Holds, Follows
<1>4. CASE Drafts(p) /\ drafts' # drafts
  BY <1>1, <1>4 DEF Drafts, MovesTo, Closing, Staging
<1>5. CASE drafts' = drafts
  <2>1. i \in drafts /\ ckpt'[i] = ckpt[i]
    BY <1>5
  <2>2. CASE record[i].outcome = "resolved"
    <3>1. record'[i].outcome = record[i].outcome
      <4>1. /\ ~Closing(p) /\ pc[p] \notin {"apply", "settle", "remember"}
            /\ ~At(p, "propose")
        BY <1>2, <2>2
      <4>2. QED
        BY <4>1
        DEF Moves, Stops, Torn, Pauses, Begins, Advances, Proposes, Decides,
            Passes, Applies, Settles, Remembers, Reads, Rewrites, Drafts,
            Closes, Closing
    <3>2. QED
      BY <2>1, <2>2, <3>1
  <2>3. CASE Staging(p, i)
    <3>1. Closes(p)
      BY <2>3
      DEF Staging, Moves, Stops, Pauses, Begins, Advances, Proposes, Decides,
          Passes, Applies, Settles, Remembers, Reads, Rewrites, Drafts, At
    <3>2. record'[i].outcome = "resolved"
      BY <2>3, <3>1 DEF Staging, Closes
    <3>3. QED
      BY <2>1, <3>2
  <2>4. QED
    BY <2>1, <2>2, <2>3
<1>6. drafts' # drafts => Drafts(p)
  BY DEF Moves, Stops, Ends, Pauses, Begins, Enters, Advances, Proposes,
         Decides, Passes, Applies, Settles, Remembers, Reads, Rewrites, Closes
<1>7. QED
  BY <1>4, <1>5, <1>6

LEMMA NextDraftInv ==
  ASSUME DisjointDesks, NoCrash, NoFailedWrite, IInv, GateInv, DraftInv,
         [Next]_vars
  PROVE  DraftInv'
<1>1. ASSUME NEW i \in Incidents, i \in drafts,
             ckpt'[i] = ckpt[i], record'[i].outcome = record[i].outcome,
             \A p \in Operators : Staging(p, i) => Staging(p, i)'
      PROVE  Drafted(i)'
  BY <1>1 DEF DraftInv, Drafted
<1>2. ASSUME NEW i \in Incidents, i \notin drafts'
      PROVE  Drafted(i)'
  BY <1>2 DEF Drafted
<1>3. \A i \in Incidents : ckpt[i].next = "end" => ckpt'[i] = ckpt[i]
  BY FinishedStays
<1>4. ASSUME NEW p \in Operators, NEW i \in Incidents, i = call[p].inc,
             Alone(p, i), Moves(p) \/ Saves(p), NEW j \in Incidents
      PROVE  Drafted(j)'
  <2>1. ProcessOK(p) /\ IncidentOK(i)
    BY <1>4 DEF GateInv
  <2>2. pc[p] # "idle" /\ call'[p] = call[p]
    BY <1>4, <2>1, Running
  <2>3. CASE j # i
    <3>1. /\ ckpt'[j] = ckpt[j] /\ record'[j] = record[j]
          /\ j \in drafts' <=> j \in drafts
      BY <1>4, <2>3 DEF Alone
    <3>2. \A q \in Operators : Staging(q, j) => Staging(q, j)'
      BY <1>4, <2>3 DEF Alone, Staging
    <3>3. QED
      BY <1>1, <1>2, <3>1, <3>2
  <2>4. CASE j = i /\ Saves(p)
    <3>1. \A q \in Operators : Staging(q, j) => Staging(q, j)'
      BY <1>4, <2>4 DEF Alone, Saves, Staging
    <3>2. QED
      BY <1>1, <1>2, <1>3, <2>4, <3>1 DEF Saves, DraftInv, Drafted
  <2>5. CASE j = i /\ Moves(p) /\ i \in drafts'
    <3>1. \A q \in Operators : Staging(q, i) => q = p
      BY <1>4, <2>2, OneHolder DEF Staging
    <3>2. i \in drafts =>
            /\ i \notin Covered
            /\ ckpt[i].next = "end" /\ ToExecute(ckpt[i])
            /\ record[i].outcome = "resolved" \/ Staging(p, i)
      BY <3>1 DEF DraftInv, Drafted
    <3>3. /\ i \notin Covered
          /\ ckpt'[i].next = "end" /\ ToExecute(ckpt'[i])
          /\ record'[i].outcome = "resolved" \/ Staging(p, i)'
      BY <1>3, <1>4, <2>1, <2>2, <2>5, <3>2, MoveKeepsDraft
    <3>4. QED
      BY <2>5, <3>3 DEF Drafted
  <2>6. QED
    BY <1>2, <1>4, <2>3, <2>4, <2>5
<1>5. ASSUME NEW p \in Operators, NEW i \in Incidents, Alone(p, i),
             Starts(p, i), NEW j \in Incidents
      PROVE  Drafted(j)'
  <2>1. pc[p] = "idle" /\ UNCHANGED <<ckpt, record, drafts>>
    BY <1>5 DEF Starts, Refuses, Admits, Resumes, Reviews, Called
  <2>2. \A q \in Operators : Staging(q, j) => Staging(q, j)'
    BY <1>5, <2>1 DEF Alone, Staging
  <2>3. QED
    BY <1>1, <1>2, <2>1, <2>2
<1>6. ASSUME Edits, NEW j \in Incidents
      PROVE  Drafted(j)'
  BY <1>6 DEF Edits, DraftInv, Drafted, Staging
<1>7. Effects
  BY NextEffect
<1>8. QED
  BY <1>4, <1>5, <1>6, <1>7, HeldTyped DEF Effects, DraftInv, Crashes

\* A draft in the staging area comes from an execution that the operator
\* confirmed as resolved and that no committed Runbook covers: without a crash
\* or a failed write no other draft stays behind, however `close` is repeated.
THEOREM DraftAlwaysFromResolved ==
  ASSUME DisjointDesks, NoCrash, NoFailedWrite
  PROVE  Spec => []DraftFromResolved
<1>1. Init => DraftInv
  BY DEF Init, DraftInv, Drafted
<1>2. IInv /\ GateInv /\ DraftInv /\ [Next]_vars => DraftInv'
  BY NextDraftInv
<1>3. ASSUME GateInv, DraftInv, NEW i \in drafts, i \in Incidents
      PROVE  /\ i \notin Covered /\ ToExecute(ckpt[i])
             /\ record[i].outcome \in {"none", "resolved"}
  <2>1. \A p \in Operators : Staging(p, i) => record[i].outcome = "none"
    BY <1>3 DEF GateInv, ProcessOK, Reviewed, Staging, Closing
  <2>2. QED
    BY <1>3, <2>1 DEF DraftInv, Drafted
<1>4. IInv /\ GateInv /\ DraftInv => DraftFromResolved
  BY <1>3 DEF DraftFromResolved, IInv, TypeOK
<1>5. QED
  BY <1>1, <1>2, <1>4, GateHolds, PTL DEF Spec

-----------------------------------------------------------------------------
(* With valid data as well, commands are applied once.                     *)

\* Past the correlation the evidence keys are scalars.
Scalar(m) ==
  m.next \in {"correlate", "investigate", "propose", "approval", "execute",
              "end"} => m.keys = "scalar"

\* p has run the commands of its incident and not left the execute node.
Finishing(p, i) == pc[p] \in {"settle", "remember"} /\ call[p].inc = i

Once(i) ==
  /\ Scalar(View(i))
  /\ \A a, b \in ran : a.inc = i /\ b.inc = i => a = b
  /\ (\E a \in ran : a.inc = i) =>
       View(i).next = "end" \/ \E p \in Operators : Finishing(p, i)

OnceInv == \A i \in Incidents : Once(i)

LEMMA MoveKeepsOnce ==
  ASSUME NoFailedWrite, ValidData, IInv, NEW p \in Operators,
         NEW i \in Incidents, i = call[p].inc, ProcessOK(p), IncidentOK(i),
         Alone(p, i), Moves(p), call'[p] = call[p],
         View(i) = IF Holding(p) THEN mem[p] ELSE ckpt[i],
         View(i)' = IF Holding(p)' THEN mem'[p] ELSE ckpt'[i],
         Scalar(View(i)), \A a, b \in ran : a.inc = i /\ b.inc = i => a = b,
         (\E a \in ran : a.inc = i) =>
           View(i).next = "end" \/ Finishing(p, i)
  PROVE  /\ Scalar(View(i)')
         /\ \A a, b \in ran' : a.inc = i /\ b.inc = i => a = b
         /\ (\E a \in ran' : a.inc = i) =>
              View(i)'.next = "end" \/ Finishing(p, i)'
<1>1. /\ dirty[p] \in BOOLEAN /\ mem[p].prop \in Selections
      /\ pc[p] \in {"apply", "settle", "remember"} => mem[p].next = "execute"
  BY DEF IInv, TypeOK, Positions, Checkpoint
<1>2. /\ dirty[p] => Holding(p)
      /\ (IF dirty[p] THEN mem[p] ELSE ckpt[i]) = View(i)
      /\ Closing(p) => ckpt[i].next = "end"
      /\ pc[p] = "admitted" => ckpt[i].next \notin Late
  BY <1>1
  DEF ProcessOK, Placed, Holds, Reviewed, IncidentOK, Shown, Holding
<1> DEFINE v == View(i)
           w == View(i)'
<1>3. /\ v = IF Holding(p) THEN mem[p] ELSE ckpt[i]
      /\ w = IF Holding(p)' THEN mem'[p] ELSE ckpt'[i]
      /\ (IF dirty[p] THEN mem[p] ELSE ckpt[i]) = v
      /\ Scalar(v)
      /\ \A a, b \in ran : a.inc = i /\ b.inc = i => a = b
      /\ (\E a \in ran : a.inc = i) => v.next = "end" \/ Finishing(p, i)
  BY <1>2
<1> SUFFICES /\ Scalar(w)
             /\ \A a, b \in ran' : a.inc = i /\ b.inc = i => a = b
             /\ (\E a \in ran' : a.inc = i) =>
                  w.next = "end" \/ Finishing(p, i)'
  OBVIOUS
<1> HIDE DEF v, w
<1>4. ASSUME ran' = ran, Scalar(w),
             v.next = "end" \/ Finishing(p, i) =>
               w.next = "end" \/ Finishing(p, i)'
      PROVE  /\ Scalar(w)
             /\ \A a, b \in ran' : a.inc = i /\ b.inc = i => a = b
             /\ (\E a \in ran' : a.inc = i) =>
                  w.next = "end" \/ Finishing(p, i)'
  BY <1>3, <1>4
<1>5. EpisodeFits(mem[p]) \/ pc[p] # "remember"
  BY <1>1, <1>3 DEF EpisodeFits, ValidData, Scalar, Holding, Selections
<1>6. CASE Stops(p)
  <2>1. v = w /\ ran' = ran
    BY <1>1, <1>2, <1>3, <1>6 DEF Stops, Ends, Holding
  <2>2. ~Finishing(p, i)
    BY <1>5, <1>6 DEF Stops, Finishing, NoFailedWrite
  <2>3. QED
    BY <1>3, <1>4, <2>1, <2>2
<1>7. CASE Pauses(p)
  <2>1. v = w /\ ran' = ran /\ ~Finishing(p, i)
    BY <1>1, <1>2, <1>3, <1>7 DEF Pauses, Ends, Holding, Finishing, At
  <2>2. QED
    BY <1>3, <1>4, <2>1
<1>8. CASE Begins(p)
  <2>1. /\ v.next # "end" /\ w.next = "gather" /\ ran' = ran
        /\ ~Finishing(p, i)
    BY <1>2, <1>3, <1>8 DEF Begins, Enters, Holding, Late, Finishing
  <2>2. QED
    BY <1>4, <2>1 DEF Scalar
<1>9. CASE Advances(p)
  <2>1. v.next # "end" /\ ran' = ran /\ ~Finishing(p, i)
    BY <1>3, <1>9, NodeNames DEF Advances, Enters, Holding, Finishing
  <2>2. Scalar(w)
    BY <1>3, <1>9, NodeNames
    DEF Advances, Enters, Holding, NodeAfter, Scalar, ValidData
  <2>3. QED
    BY <1>4, <2>1, <2>2
<1>10. CASE Proposes(p)
  <2>1. v.next # "end" /\ ran' = ran /\ ~Finishing(p, i) /\ Scalar(w)
    BY <1>3, <1>10 DEF Proposes, Enters, Holding, Finishing, At, Scalar
  <2>2. QED
    BY <1>4, <2>1
<1>11. CASE Decides(p)
  <2>1. v.next # "end" /\ ran' = ran /\ ~Finishing(p, i) /\ Scalar(w)
    BY <1>3, <1>11 DEF Decides, Enters, Holding, Finishing, At, Scalar
  <2>2. QED
    BY <1>4, <2>1
<1>12. CASE Passes(p)
  <2>1. v.next # "end" /\ v = w /\ ran' = ran /\ ~Finishing(p, i)
    BY <1>3, <1>12 DEF Passes, MovesTo, Holding, Finishing, At
  <2>2. QED
    BY <1>3, <1>4, <2>1
<1>13. CASE Applies(p)
  <2>1. v = w /\ v.next # "end" /\ ~Finishing(p, i) /\ Finishing(p, i)'
    BY <1>1, <1>3, <1>13 DEF Applies, MovesTo, Holding, Finishing
  <2>2. \A a \in ran : a.inc # i
    BY <1>3, <2>1
  <2>3. \A a \in ran' : a \in ran \/ a = Entry(p)
    BY <1>13 DEF Applies
  <2>4. QED
    BY <1>3, <2>1, <2>2, <2>3
<1>14. CASE Settles(p)
  <2>1. v = w /\ ran' = ran /\ Finishing(p, i)'
    BY <1>3, <1>14 DEF Settles, MovesTo, Holding, Finishing
  <2>2. QED
    BY <1>3, <1>4, <2>1
<1>15. CASE Remembers(p)
  <2>1. w.next = "end" /\ ran' = ran /\ Scalar(w)
    BY <1>3, <1>15 DEF Remembers, Enters, Holding, Scalar
  <2>2. QED
    BY <1>4, <2>1
<1>16. CASE Reads(p)
  <2>1. v = w /\ ran' = ran /\ ~Finishing(p, i)
    BY <1>3, <1>16 DEF Reads, MovesTo, Holding, Finishing
  <2>2. QED
    BY <1>3, <1>4, <2>1
<1>17. CASE Rewrites(p)
  <2>1. v = w /\ ran' = ran /\ ~Finishing(p, i)
    BY <1>3, <1>17 DEF Rewrites, MovesTo, Holding, Finishing
  <2>2. QED
    BY <1>3, <1>4, <2>1
<1>18. CASE Drafts(p)
  <2>1. v = w /\ ran' = ran /\ ~Finishing(p, i)
    BY <1>3, <1>18 DEF Drafts, MovesTo, Holding, Finishing
  <2>2. QED
    BY <1>3, <1>4, <2>1
<1>19. CASE Closes(p)
  <2>1. v = w /\ ran' = ran /\ ~Finishing(p, i)
    BY <1>2, <1>3, <1>19 DEF Closes, Ends, Holding, Finishing
  <2>2. QED
    BY <1>3, <1>4, <2>1
<1>20. QED
  BY <1>6, <1>7, <1>8, <1>9, <1>10, <1>11, <1>12, <1>13, <1>14, <1>15, <1>16,
     <1>17, <1>18, <1>19 DEF Moves

LEMMA NextOnceInv ==
  ASSUME DisjointDesks, NoCrash, NoFailedWrite, ValidData, IInv, GateInv,
         GateInv', ViewOK, ViewOK', OnceInv, [Next]_vars
  PROVE  OnceInv'
<1>1. ASSUME NEW i \in Incidents, View(i)' = View(i),
             \A a \in ran' : a.inc = i => a \in ran,
             \A p \in Operators : Finishing(p, i) => Finishing(p, i)'
      PROVE  Once(i)'
  <2>1. Once(i)
    BY DEF OnceInv
  <2>2. Scalar(View(i))'
    BY <1>1, <2>1 DEF Once, Scalar
  <2>3. \A a, b \in ran' : a.inc = i /\ b.inc = i => a = b
    BY <1>1, <2>1 DEF Once
  <2>4. (\E a \in ran' : a.inc = i) =>
          View(i)'.next = "end" \/ \E p \in Operators : Finishing(p, i)'
    BY <1>1, <2>1 DEF Once
  <2>5. QED
    BY <2>2, <2>3, <2>4 DEF Once
<1>2. ASSUME NEW p \in Operators, NEW i \in Incidents, i = call[p].inc,
             Alone(p, i), Moves(p) \/ Saves(p), NEW j \in Incidents
      PROVE  Once(j)'
  <2>1. ProcessOK(p) /\ IncidentOK(i)
    BY <1>2 DEF GateInv
  <2>2. pc[p] # "idle" /\ i \in Desk[p] /\ call'[p] = call[p]
    BY <1>2, <2>1, Running
  <2>3. /\ View(i) = IF Holding(p) THEN mem[p] ELSE ckpt[i]
        /\ View(i)' = IF Holding(p)' THEN mem'[p] ELSE ckpt'[i]
        /\ \A k \in Incidents : k # i => View(k)' = View(k)
    BY <1>2, <2>2, ViewStep
  <2>4. CASE j # i
    <3>1. \A q \in Operators : Finishing(q, j) => Finishing(q, j)'
      BY <1>2, <2>4 DEF Alone, Finishing
    <3>2. \A a \in ran' : a.inc = j => a \in ran
      BY <1>2, <2>4 DEF Alone
    <3>3. QED
      BY <1>1, <2>3, <2>4, <3>1, <3>2
  <2>5. CASE j = i /\ Saves(p)
    <3>1. \A q \in Operators : Finishing(q, j) => Finishing(q, j)'
      BY <1>2, <2>5 DEF Alone, Saves, Finishing
    <3>2. View(i)' = View(i)
      BY <1>2, <2>1, <2>3, <2>5 DEF Saves, ProcessOK, Placed, Holding
    <3>3. QED
      BY <1>1, <2>5, <3>1, <3>2 DEF Saves
  <2>6. CASE j = i /\ Moves(p)
    <3>1. \A q \in Operators : Finishing(q, i) => q = p
      BY <1>2, <2>2, OneHolder DEF Finishing
    <3>2. /\ Scalar(View(i))
          /\ \A a, b \in ran : a.inc = i /\ b.inc = i => a = b
          /\ (\E a \in ran : a.inc = i) =>
               View(i).next = "end" \/ Finishing(p, i)
      BY <3>1 DEF OnceInv, Once
    <3>3. /\ Scalar(View(i)')
          /\ \A a, b \in ran' : a.inc = i /\ b.inc = i => a = b
          /\ (\E a \in ran' : a.inc = i) =>
               View(i)'.next = "end" \/ Finishing(p, i)'
      BY <1>2, <2>1, <2>2, <2>3, <2>6, <3>2, MoveKeepsOnce
    <3>4. Scalar(View(i))'
      BY <3>3 DEF Scalar
    <3>5. QED
      BY <2>6, <3>3, <3>4 DEF Once
  <2>7. QED
    BY <1>2, <2>4, <2>5, <2>6
<1>3. ASSUME NEW p \in Operators, NEW i \in Incidents, Alone(p, i),
             Starts(p, i), NEW j \in Incidents
      PROVE  Once(j)'
  <2>1. /\ i \in Desk[p] /\ call'[p].inc = i /\ pc[p] = "idle" /\ ~Holding(p)
        /\ UNCHANGED <<ckpt, record, ran>>
    BY <1>3
    DEF Starts, Refuses, Admits, Resumes, Reviews, Called, Holding
  <2>2. /\ View(i) = ckpt[i]
        /\ View(i)' = IF Holding(p)' THEN mem'[p] ELSE ckpt'[i]
        /\ \A k \in Incidents : k # i => View(k)' = View(k)
    BY <1>3, <2>1, ViewStep
  <2>3. View(i)' = View(i)
    BY <1>3, <2>1, <2>2
    DEF Starts, Refuses, Admits, Resumes, Reviews, Holding
  <2>4. \A q \in Operators : Finishing(q, j) => Finishing(q, j)'
    BY <1>3, <2>1 DEF Alone, Finishing
  <2>5. QED
    BY <1>1, <2>1, <2>2, <2>3, <2>4
<1>4. ASSUME Edits, NEW j \in Incidents
      PROVE  Once(j)'
  <2>1. /\ View(j)' = View(j) /\ ran' = ran
        /\ \A q \in Operators : Finishing(q, j) => Finishing(q, j)'
    BY <1>4 DEF Edits, View, Ahead, Finishing
  <2>2. QED
    BY <1>1, <2>1
<1>5. Effects
  BY NextEffect
<1>6. QED
  BY <1>2, <1>3, <1>4, <1>5, HeldTyped DEF Effects, OnceInv, Crashes

\* The commands of an incident are applied by one invocation at most, with a
\* failing sandbox, edited records and any number of retries, as long as no
\* process is killed, no write fails and the stored data are valid.
THEOREM AlwaysAppliedAtMostOnce ==
  ASSUME DisjointDesks, NoCrash, NoFailedWrite, ValidData
  PROVE  Spec => []AppliedAtMostOnce
<1>1. Init => OnceInv
  <2>1. ASSUME Init, NEW i \in Incidents PROVE View(i).next = "none"
    BY <2>1 DEF Init, View, Ahead, NoCheckpoint
  <2>2. QED
    BY <2>1 DEF Init, OnceInv, Once, Scalar
<1>2. IInv /\ GateInv /\ ViewOK /\ GateInv' /\ ViewOK' /\ OnceInv
      /\ [Next]_vars
      => OnceInv'
  BY NextOnceInv
<1>3. IInv /\ OnceInv => AppliedAtMostOnce
  BY DEF IInv, TypeOK, Applied, OnceInv, Once, AppliedAtMostOnce
<1>4. QED
  BY <1>1, <1>2, <1>3, ViewHolds, PTL DEF Spec

=============================================================================
