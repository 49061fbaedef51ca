--------------------------- MODULE DispatchProofs ---------------------------
(***************************************************************************)
(* Type correctness of dispatch, and its first safety property: nothing    *)
(* executes without approval.  Both follow from one inductive invariant,   *)
(* which says that a graph state that has passed the approval node with a  *)
(* decision to execute, in a checkpoint or in the memory of a process,     *)
(* carries a proposal that was approved with --execute for its incident.   *)
(***************************************************************************)
EXTENDS Dispatch, TLAPS

\* A graph state of incident i that would apply commands was allowed to.
Sanctioned(i, m) ==
  m.next \in {"execute", "end"} /\ ToExecute(m) => <<i, m.prop>> \in granted

\* Where a process may be, given the graph state it holds.
Positions ==
  \A p \in Operators :
    /\ pc[p] = "idle" => mem[p].next = "none"
    /\ pc[p] \in {"apply", "settle", "remember"} => mem[p].next = "execute"
    /\ pc[p] = "apply" => ToExecute(mem[p])

AllSanctioned ==
  /\ \A i \in Incidents : Sanctioned(i, ckpt[i])
  /\ \A p \in Operators : Sanctioned(call[p].inc, mem[p])

IInv ==
  /\ TypeOK
  /\ Positions
  /\ AllSanctioned
  /\ AppliedWasApproved

-----------------------------------------------------------------------------
(* The edges of the graph, and the state a fresh thread starts from.       *)

LEMMA NodeAfterFacts ==
  ASSUME NEW n \in Nodes
  PROVE  /\ NodeAfter[n] \in Nodes \union {"end"}
         /\ NodeAfter[n] = "execute" => n = "approval"
         /\ NodeAfter[n] = "end" => n = "execute"
BY DEF NodeAfter, Nodes

LEMMA NodeNames ==
  Nodes = {"gather", "pcap_agent", "kpi_agent", "log_agent", "correlate",
           "investigate", "propose", "approval", "execute"}
BY DEF NodeAfter, Nodes

LEMMA NoCheckpointTyped == NoCheckpoint \in Checkpoint
BY DEF NoCheckpoint, Checkpoint, Selections

LEMMA WrittenTyped ==
  ASSUME NEW s \in {"absent", "torn", "pending"} \union Verdicts,
         NEW q \in Selections
  PROVE  Written(s, q) \in Record
BY DEF Written, Record

LEMMA VerdictTyped == ASSUME NEW m PROVE Verdict(m) \in Verdicts
BY DEF Verdict, Verdicts

-----------------------------------------------------------------------------
(* What the three ways in which a process moves preserve.  Each lemma takes *)
(* the types of what its actions write to the disk as an assumption.        *)

DiskTyped ==
  /\ record' \in [Incidents -> Record]
  /\ store' \subseteq Episode
  /\ drafts' \subseteq Incidents

\* Exit writes the graph state it flushes to the checkpoint and forgets it.
LEMMA ExitKeeps ==
  ASSUME IInv, NEW p \in Operators, NEW reason \in Reasons,
         Exit(p, reason), DiskTyped
  PROVE  IInv'
<1>1. ckpt' = ckpt \/ ckpt' = [ckpt EXCEPT ![call[p].inc] = mem[p]]
  BY DEF Exit, Flushed
<1>2. call[p].inc \in Incidents /\ mem[p] \in Checkpoint
  BY DEF IInv, TypeOK, Call
<1>3. NoRecord \in Record
  BY WrittenTyped DEF NoRecord, Selections
<1>4. TypeOK'
  <2>1. ckpt' \in [Incidents -> Checkpoint]
    BY <1>1, <1>2 DEF IInv, TypeOK
  <2>2. /\ pc' \in [Operators -> {"idle", "admitted", "run", "apply",
                                  "settle", "remember", "read_store",
                                  "write_store", "draft", "append"}]
        /\ why' \in [Operators -> Reasons]
        /\ mem' \in [Operators -> Checkpoint]
        /\ dirty' \in [Operators -> BOOLEAN]
        /\ copy' \in [Operators -> Record]
        /\ lines' \in [Operators -> SUBSET Episode]
    BY <1>3, NoCheckpointTyped DEF IInv, TypeOK, Exit
  <2>3. QED
    BY <2>1, <2>2 DEF IInv, TypeOK, Exit, DiskTyped, history
<1>5. \A q \in Operators :
        /\ q # p => pc'[q] = pc[q] /\ mem'[q] = mem[q]
        /\ pc'[p] = "idle" /\ mem'[p] = NoCheckpoint
  BY DEF IInv, TypeOK, Exit
<1>6. Positions'
  BY <1>5 DEF IInv, Positions, NoCheckpoint, ToExecute
<1>7. AllSanctioned'
  <2>1. \A i \in Incidents : Sanctioned(i, ckpt[i])'
    BY <1>1, <1>2
    DEF IInv, TypeOK, AllSanctioned, Sanctioned, Exit, history
  <2>2. call' = call /\ granted' = granted
    BY DEF Exit, history
  <2>3. ASSUME NEW q \in Operators
        PROVE  Sanctioned(call[q].inc, mem[q])'
    <3>1. CASE q = p
      BY <1>5, <3>1 DEF Sanctioned, NoCheckpoint
    <3>2. CASE q # p
      <4>1. Sanctioned(call[q].inc, mem[q])
        BY DEF IInv, AllSanctioned
      <4>2. QED
        BY <1>5, <2>2, <3>2, <4>1 DEF Sanctioned, ToExecute
    <3>3. QED
      BY <3>1, <3>2
  <2>4. QED
    BY <2>1, <2>3 DEF AllSanctioned
<1>8. AppliedWasApproved'
  BY DEF IInv, AppliedWasApproved, Exit, history
<1>9. QED
  BY <1>4, <1>6, <1>7, <1>8 DEF IInv

\* A node returns m: the process holds m at the next node.
LEMMA ReturnKeeps ==
  ASSUME IInv, NEW p \in Operators, NEW m \in Checkpoint,
         m.next \in Nodes, Return(p, m), DiskTyped,
         calls' = calls, ran' = ran,
         granted \subseteq granted',
         granted' \subseteq (Incidents \X Selections),
         NodeAfter[m.next] \in {"execute", "end"} /\ ToExecute(m)
           => <<call[p].inc, m.prop>> \in granted'
  PROVE  IInv'
<1> DEFINE n == [m EXCEPT !.next = NodeAfter[@]]
<1>1. /\ n \in Checkpoint
      /\ n.next = NodeAfter[m.next] /\ n.prop = m.prop
      /\ n.decision = m.decision /\ n.execute = m.execute
  BY NodeAfterFacts DEF Checkpoint
<1> HIDE DEF n
<1>2. /\ mem' = [mem EXCEPT ![p] = n]
      /\ dirty' = [dirty EXCEPT ![p] = TRUE]
      /\ pc' = [pc EXCEPT ![p] = "run"]
      /\ UNCHANGED <<ckpt, call, why, copy, lines>>
  BY DEF Return, n
<1>3. TypeOK'
  BY <1>1, <1>2 DEF IInv, TypeOK, DiskTyped
<1>4. Positions'
  BY <1>2 DEF IInv, TypeOK, Positions, ToExecute
<1>5. AllSanctioned'
  BY <1>1, <1>2 DEF IInv, TypeOK, AllSanctioned, Sanctioned, ToExecute
<1>6. AppliedWasApproved'
  BY DEF IInv, AppliedWasApproved
<1>7. QED
  BY <1>3, <1>4, <1>5, <1>6 DEF IInv

\* The process goes on from one place to the next and keeps what it holds.
LEMMA MoveKeeps ==
  ASSUME IInv, NEW p \in Operators,
         NEW w \in {"apply", "settle", "remember", "draft", "append"},
         pc' = [pc EXCEPT ![p] = w],
         w \in {"apply", "settle", "remember"} => mem[p].next = "execute",
         w = "apply" => ToExecute(mem[p]),
         UNCHANGED <<ckpt, why, local, calls, granted>>,
         ran' \subseteq Applied, AppliedWasApproved', DiskTyped
  PROVE  IInv'
<1>1. TypeOK'
  BY DEF IInv, TypeOK, DiskTyped, local
<1>2. Positions'
  BY DEF IInv, TypeOK, Positions, ToExecute, local
<1>3. AllSanctioned'
  BY DEF IInv, AllSanctioned, Sanctioned, local
<1>4. QED
  BY <1>1, <1>2, <1>3 DEF IInv

-----------------------------------------------------------------------------
(* Starting a command.                                                     *)

\* What an idle process starts with: a call of its own and nothing in hand.
LEMMA InvokeFacts ==
  ASSUME IInv, NEW p \in Operators, NEW i \in Incidents, NEW kind \in Kinds,
         NEW outcome \in {"none"} \union Outcomes, Invoke(p, i, kind, outcome)
  PROVE  /\ pc[p] = "idle" /\ mem[p].next = "none"
         /\ calls' \in Nat
         /\ call' \in [Operators -> Call]
         /\ call'[p].inc = i
         /\ \A q \in Operators : q # p => call'[q] = call[q]
         /\ UNCHANGED <<ckpt, record, store, drafts, dirty, granted, ran>>
<1> DEFINE waiting == ckpt[i].next = "approval"
           c == [id |-> calls + 1, inc |-> i, kind |-> kind,
                 outcome |-> outcome, resume |-> waiting]
<1>1. waiting \in BOOLEAN
  OBVIOUS
<1>2. call' = [call EXCEPT ![p] = c]
  BY DEF Invoke
<1> HIDE DEF waiting
<1>3. c \in Call /\ c.inc = i
  <2>1. calls + 1 \in Nat
    BY DEF IInv, TypeOK
  <2>2. QED
    BY <1>1, <2>1 DEF Call
<1> HIDE DEF c
<1>4. /\ call' \in [Operators -> Call]
      /\ call'[p].inc = i
      /\ \A q \in Operators : q # p => call'[q] = call[q]
  BY <1>2, <1>3 DEF IInv, TypeOK
<1>5. /\ pc[p] = "idle" /\ mem[p].next = "none"
      /\ calls' \in Nat
      /\ UNCHANGED <<ckpt, record, store, drafts, dirty, granted, ran>>
  <2>1. /\ pc[p] = "idle"
        /\ calls' = calls + 1
        /\ UNCHANGED <<disk, dirty, granted, ran>>
    BY Zenon DEF Invoke
  <2>2. QED
    BY <2>1 DEF IInv, TypeOK, Positions, disk
<1>6. QED
  BY <1>4, <1>5

\* Whatever it does next, the new call leaves the invariant alone if the
\* process holds nothing, or the checkpoint of its incident.
LEMMA BeginKeeps ==
  ASSUME IInv, NEW p \in Operators, NEW i \in Incidents, NEW kind \in Kinds,
         NEW outcome \in {"none"} \union Outcomes, Invoke(p, i, kind, outcome),
         NEW w \in {"idle", "admitted", "run", "read_store"},
         pc' = [pc EXCEPT ![p] = w],
         why' \in [Operators -> Reasons],
         copy' \in [Operators -> Record],
         UNCHANGED lines,
         \/ mem' = mem
         \/ w = "run" /\ mem' = [mem EXCEPT ![p] = ckpt[i]]
  PROVE  IInv'
<1>1. /\ pc[p] = "idle" /\ mem[p].next = "none"
      /\ calls' \in Nat
      /\ call' \in [Operators -> Call]
      /\ call'[p].inc = i
      /\ \A q \in Operators : q # p => call'[q] = call[q]
      /\ UNCHANGED <<ckpt, record, store, drafts, dirty, granted, ran>>
  BY InvokeFacts
<1>2. TypeOK'
  BY <1>1 DEF IInv, TypeOK
<1>3. Positions'
  BY <1>1 DEF IInv, TypeOK, Positions, ToExecute
<1>4. AllSanctioned'
  BY <1>1 DEF IInv, TypeOK, AllSanctioned, Sanctioned, ToExecute
<1>5. AppliedWasApproved'
  BY <1>1 DEF IInv, AppliedWasApproved
<1>6. QED
  BY <1>2, <1>3, <1>4, <1>5 DEF IInv

LEMMA RefuseFacts ==
  ASSUME IInv, NEW p \in Operators, pc[p] = "idle",
         NEW reason \in Reasons, Refuse(p, reason)
  PROVE  /\ pc' = [pc EXCEPT ![p] = "idle"]
         /\ why' \in [Operators -> Reasons]
         /\ UNCHANGED <<mem, copy, lines>>
BY DEF IInv, TypeOK, Refuse

LEMMA ProceedFacts ==
  ASSUME IInv, NEW p \in Operators, NEW w \in {"admitted", "run", "read_store"},
         Proceed(p, w)
  PROVE  /\ pc' = [pc EXCEPT ![p] = w]
         /\ why' \in [Operators -> Reasons]
BY DEF IInv, TypeOK, Proceed, Reasons

\* The three shapes of a command's first step.
LEMMA RefuseKeeps ==
  ASSUME IInv, NEW p \in Operators, NEW i \in Incidents, NEW kind \in Kinds,
         NEW outcome \in {"none"} \union Outcomes, Invoke(p, i, kind, outcome),
         NEW reason \in Reasons, Refuse(p, reason)
  PROVE  IInv'
<1>1. pc[p] = "idle"
  BY Zenon DEF Invoke
<1>2. /\ pc' = [pc EXCEPT ![p] = "idle"]
      /\ why' \in [Operators -> Reasons]
      /\ UNCHANGED <<mem, copy, lines>>
  BY <1>1, RefuseFacts, Zenon
<1>3. copy' \in [Operators -> Record]
  BY <1>2 DEF IInv, TypeOK
<1>4. "idle" \in {"idle", "admitted", "run", "read_store"}
  OBVIOUS
<1>5. QED
  BY <1>2, <1>3, <1>4, BeginKeeps, Zenon

LEMMA ProceedKeeps ==
  ASSUME IInv, NEW p \in Operators, NEW i \in Incidents, NEW kind \in Kinds,
         NEW outcome \in {"none"} \union Outcomes, Invoke(p, i, kind, outcome),
         NEW w \in {"admitted", "run", "read_store"}, Proceed(p, w),
         copy' \in [Operators -> Record], UNCHANGED lines,
         \/ mem' = mem
         \/ w = "run" /\ mem' = [mem EXCEPT ![p] = ckpt[i]]
  PROVE  IInv'
<1>1. w \in {"idle", "admitted", "run", "read_store"}
  OBVIOUS
<1>2. pc' = [pc EXCEPT ![p] = w] /\ why' \in [Operators -> Reasons]
  BY ProceedFacts, Zenon
<1>3. QED
  BY <1>1, <1>2, BeginKeeps, Zenon

LEMMA HandleKeeps ==
  ASSUME IInv, NEW p \in Operators, NEW i \in Incidents, StartHandle(p, i)
  PROVE  IInv'
<1>1. /\ Invoke(p, i, "handle", "none")
      /\ \/ Refuse(p, "duplicate")
         \/ Proceed(p, "admitted") /\ UNCHANGED <<mem, copy, lines>>
  BY Zenon DEF StartHandle
<1>2. /\ "handle" \in Kinds
      /\ "none" \in {"none"} \union Outcomes
      /\ "duplicate" \in Reasons
      /\ "admitted" \in {"admitted", "run", "read_store"}
      /\ copy \in [Operators -> Record]
  BY DEF Kinds, Reasons, IInv, TypeOK
<1>3. CASE Refuse(p, "duplicate")
  BY <1>1, <1>2, <1>3, RefuseKeeps, Zenon
<1>4. CASE Proceed(p, "admitted") /\ UNCHANGED <<mem, copy, lines>>
  <2>1. copy' \in [Operators -> Record] /\ lines' = lines /\ mem' = mem
    BY <1>2, <1>4
  <2>2. QED
    BY <1>1, <1>2, <1>4, <2>1, ProceedKeeps, Zenon
<1>5. QED
  BY <1>1, <1>3, <1>4

LEMMA DecideKeeps ==
  ASSUME IInv, NEW p \in Operators, NEW i \in Incidents,
         NEW kind \in {"dry-run", "execute", "reject"}, StartDecide(p, i, kind)
  PROVE  IInv'
<1>1. /\ Invoke(p, i, kind, "none")
      /\ \/ Refuse(p, "no_checkpoint")
         \/ Refuse(p, "not_awaiting_approval")
         \/ /\ Proceed(p, "run")
            /\ mem' = [mem EXCEPT ![p] = ckpt[i]]
            /\ UNCHANGED <<copy, lines>>
  BY Zenon DEF StartDecide, Resumed
<1>2. /\ kind \in Kinds
      /\ "none" \in {"none"} \union Outcomes
      /\ "no_checkpoint" \in Reasons /\ "not_awaiting_approval" \in Reasons
      /\ "run" \in {"admitted", "run", "read_store"}
      /\ copy \in [Operators -> Record]
  BY DEF Kinds, Reasons, IInv, TypeOK
<1>3. ASSUME NEW reason \in Reasons, Refuse(p, reason)
      PROVE  IInv'
  BY <1>1, <1>2, <1>3, RefuseKeeps, Zenon
<1>4. CASE /\ Proceed(p, "run")
           /\ mem' = [mem EXCEPT ![p] = ckpt[i]]
           /\ UNCHANGED <<copy, lines>>
  <2>1. copy' \in [Operators -> Record] /\ lines' = lines
    BY <1>2, <1>4
  <2>2. QED
    BY <1>1, <1>2, <1>4, <2>1, ProceedKeeps, Zenon
<1>5. QED
  BY <1>1, <1>2, <1>3, <1>4, Zenon

LEMMA CloseKeeps ==
  ASSUME IInv, NEW p \in Operators, NEW i \in Incidents,
         NEW outcome \in Outcomes, StartClose(p, i, outcome)
  PROVE  IInv'
<1>1. /\ Invoke(p, i, "close", outcome)
      /\ \/ Refuse(p, "no_checkpoint")
         \/ Refuse(p, "undecided")
         \/ Refuse(p, "not_executed")
         \/ Refuse(p, "already_closed")
         \/ /\ Proceed(p, "read_store")
            /\ copy' = [copy EXCEPT ![p] = record[i]]
            /\ UNCHANGED <<mem, lines>>
  BY Zenon DEF StartClose
<1>2. /\ "close" \in Kinds
      /\ outcome \in {"none"} \union Outcomes
      /\ "no_checkpoint" \in Reasons /\ "undecided" \in Reasons
      /\ "not_executed" \in Reasons /\ "already_closed" \in Reasons
      /\ "read_store" \in {"admitted", "run", "read_store"}
      /\ [copy EXCEPT ![p] = record[i]] \in [Operators -> Record]
  BY DEF Kinds, Reasons, IInv, TypeOK
<1>3. ASSUME NEW reason \in Reasons, Refuse(p, reason)
      PROVE  IInv'
  BY <1>1, <1>2, <1>3, RefuseKeeps, Zenon
<1>4. CASE /\ Proceed(p, "read_store")
           /\ copy' = [copy EXCEPT ![p] = record[i]]
           /\ UNCHANGED <<mem, lines>>
  <2>1. copy' \in [Operators -> Record] /\ lines' = lines /\ mem' = mem
    BY <1>2, <1>4
  <2>2. QED
    BY <1>1, <1>2, <1>4, <2>1, ProceedKeeps, Zenon
<1>5. QED
  BY <1>1, <1>2, <1>3, <1>4, Zenon

LEMMA StartKeeps ==
  ASSUME IInv, NEW p \in Operators, Start(p)
  PROVE  IInv'
<1>1. Desk[p] \subseteq Incidents
  BY DispatchAssumption
<1>2. QED
  BY <1>1, HandleKeeps, DecideKeeps, CloseKeeps DEF Start

-----------------------------------------------------------------------------
(* The pipeline.                                                           *)

LEMMA HeldTyped ==
  ASSUME IInv, NEW p \in Operators
  PROVE  call[p].inc \in Incidents /\ mem[p] \in Checkpoint
BY DEF IInv, TypeOK, Call

LEMMA SameDisk ==
  ASSUME IInv, UNCHANGED <<record, store, drafts>>
  PROVE  DiskTyped
BY DEF IInv, TypeOK, DiskTyped

\* Nodes before the gate: whatever they return is not yet decided.
LEMMA OnwardKeeps ==
  ASSUME IInv, NEW p \in Operators, NEW m \in Checkpoint,
         m.next \in Nodes \ {"approval", "execute"},
         Return(p, m), DiskTyped, UNCHANGED history
  PROVE  IInv'
<1>1. NodeAfter[m.next] \notin {"execute", "end"}
  BY NodeAfterFacts
<1>2. calls' = calls /\ ran' = ran /\ granted' = granted
  BY DEF history
<1>3. granted \subseteq (Incidents \X Selections)
  BY DEF IInv, TypeOK
<1>4. m.next \in Nodes /\ granted \subseteq granted'
      /\ granted' \subseteq (Incidents \X Selections)
  BY <1>2, <1>3
<1>5. QED
  BY <1>1, <1>2, <1>4, ReturnKeeps, Zenon

LEMMA BeginPipelineKeeps ==
  ASSUME IInv, NEW p \in Operators, BeginPipeline(p)
  PROVE  IInv'
<1> DEFINE m == [ckpt[call[p].inc] EXCEPT !.next = "gather"]
<1>1. m \in Checkpoint /\ m.next = "gather"
  <2>1. call[p].inc \in Incidents
    BY HeldTyped
  <2>2. ckpt[call[p].inc] \in Checkpoint
    BY <2>1 DEF IInv, TypeOK
  <2>3. QED
    BY <2>2, NodeNames DEF Checkpoint
<1>2. /\ pc' = [pc EXCEPT ![p] = "run"]
      /\ mem' = [mem EXCEPT ![p] = m]
      /\ dirty' = [dirty EXCEPT ![p] = TRUE]
      /\ UNCHANGED <<ckpt, record, store, drafts, call, why, copy, lines,
                     calls, granted, ran>>
  BY DEF BeginPipeline, disk, history
<1> HIDE DEF m
<1>3. TypeOK'
  BY <1>1, <1>2 DEF IInv, TypeOK
<1>4. Positions'
  BY <1>2 DEF IInv, TypeOK, Positions, ToExecute
<1>5. AllSanctioned'
  BY <1>1, <1>2 DEF IInv, TypeOK, AllSanctioned, Sanctioned, ToExecute
<1>6. AppliedWasApproved'
  BY <1>2 DEF IInv, AppliedWasApproved
<1>7. QED
  BY <1>3, <1>4, <1>5, <1>6 DEF IInv

LEMMA GatherKeeps ==
  ASSUME IInv, NEW p \in Operators, Gather(p)
  PROVE  IInv'
<1>1. DiskTyped /\ mem[p] \in Checkpoint
  BY SameDisk, HeldTyped, Zenon DEF Gather
<1>2. mem[p].next \in Nodes \ {"approval", "execute"}
  BY NodeNames DEF Gather, At
<1>3. CASE Return(p, mem[p]) /\ UNCHANGED history
  BY <1>1, <1>2, <1>3, OnwardKeeps, Zenon
<1>4. CASE Exit(p, "bad_stub")
  <2>1. "bad_stub" \in Reasons
    BY DEF Reasons
  <2>2. QED
    BY <1>1, <1>4, <2>1, ExitKeeps, Zenon
<1>5. QED
  BY <1>3, <1>4, Zenon DEF Gather

LEMMA DegradingKeeps ==
  ASSUME IInv, NEW p \in Operators, DegradingNode(p)
  PROVE  IInv'
<1>1. /\ Return(p, mem[p]) /\ UNCHANGED <<record, store, drafts>>
      /\ UNCHANGED history
  BY Zenon DEF DegradingNode
<1>2. DiskTyped /\ mem[p] \in Checkpoint
  BY <1>1, SameDisk, HeldTyped, Zenon
<1>3. mem[p].next \in Nodes \ {"approval", "execute"}
  BY NodeNames DEF DegradingNode, At
<1>4. QED
  BY <1>1, <1>2, <1>3, OnwardKeeps, Zenon

LEMMA LogAgentKeeps ==
  ASSUME IInv, NEW p \in Operators, LogAgent(p)
  PROVE  IInv'
<1>1. PICK shape \in KeyShapes : Return(p, [mem[p] EXCEPT !.keys = shape])
  BY Zenon DEF LogAgent
<1> DEFINE m == [mem[p] EXCEPT !.keys = shape]
<1>2. UNCHANGED <<record, store, drafts>> /\ UNCHANGED history
  BY Zenon DEF LogAgent
<1>3. DiskTyped
  BY <1>2, SameDisk, Zenon
<1>4. m \in Checkpoint /\ m.next = "log_agent"
  BY HeldTyped, DispatchAssumption DEF LogAgent, At, Checkpoint
<1>5. m.next \in Nodes \ {"approval", "execute"}
  BY <1>4, NodeNames
<1> HIDE DEF m
<1>6. Return(p, m)
  BY <1>1 DEF m
<1>7. QED
  BY <1>2, <1>3, <1>4, <1>5, <1>6, OnwardKeeps, Zenon

LEMMA CorrelateKeeps ==
  ASSUME IInv, NEW p \in Operators, Correlate(p)
  PROVE  IInv'
<1>1. DiskTyped /\ mem[p] \in Checkpoint
  BY SameDisk, HeldTyped, Zenon DEF Correlate
<1>2. mem[p].next \in Nodes \ {"approval", "execute"}
  BY NodeNames DEF Correlate, At
<1>3. CASE Return(p, mem[p]) /\ UNCHANGED history
  BY <1>1, <1>2, <1>3, OnwardKeeps, Zenon
<1>4. CASE Exit(p, "TypeError")
  <2>1. "TypeError" \in Reasons
    BY DEF Reasons
  <2>2. QED
    BY <1>1, <1>4, <2>1, ExitKeeps, Zenon
<1>5. QED
  BY <1>3, <1>4, Zenon DEF Correlate

LEMMA InvestigateKeeps ==
  ASSUME IInv, NEW p \in Operators, Investigate(p)
  PROVE  IInv'
<1>1. DiskTyped /\ mem[p] \in Checkpoint
  BY SameDisk, HeldTyped, Zenon DEF Investigate
<1>2. mem[p].next \in Nodes \ {"approval", "execute"}
  BY NodeNames DEF Investigate, At
<1>3. CASE Return(p, mem[p]) /\ UNCHANGED history
  BY <1>1, <1>2, <1>3, OnwardKeeps, Zenon
<1>4. CASE Exit(p, "io")
  <2>1. "io" \in Reasons
    BY DEF Reasons
  <2>2. QED
    BY <1>1, <1>4, <2>1, ExitKeeps, Zenon
<1>5. QED
  BY <1>3, <1>4, Zenon DEF Investigate

\* A failing write of the record ends the command, wherever it happens.
LEMMA RecordWriteFailsKeeps ==
  ASSUME IInv, NEW p \in Operators, NEW i \in Incidents,
         RecordWriteFails(p, i)
  PROVE  IInv'
<1>1. TornRecord \in Record
  BY WrittenTyped DEF TornRecord, Selections
<1>2. DiskTyped
  BY <1>1 DEF RecordWriteFails, IInv, TypeOK, DiskTyped
<1>3. "io" \in Reasons /\ Exit(p, "io")
  BY DEF Reasons, RecordWriteFails
<1>4. QED
  BY <1>2, <1>3, ExitKeeps, Zenon

LEMMA ProposeKeeps ==
  ASSUME IInv, NEW p \in Operators, Propose(p)
  PROVE  IInv'
<1>1. mem[p].next = "propose" /\ "propose" \in Nodes \ {"approval", "execute"}
  BY NodeNames DEF Propose, At
<1>2. ASSUME NEW selection \in Selections,
             record' = [record EXCEPT ![call[p].inc] =
                          Written("pending", selection)],
             Return(p, [mem[p] EXCEPT !.prop = selection]),
             UNCHANGED <<store, drafts>>, UNCHANGED history
      PROVE  IInv'
  <2> DEFINE m == [mem[p] EXCEPT !.prop = selection]
  <2>1. m \in Checkpoint /\ m.next = mem[p].next
    BY HeldTyped DEF Checkpoint
  <2>2. Written("pending", selection) \in Record
    BY WrittenTyped
  <2>3. DiskTyped
    BY <1>2, <2>2 DEF IInv, TypeOK, DiskTyped
  <2>4. Return(p, m)
    BY <1>2
  <2> HIDE DEF m
  <2>5. m.next \in Nodes \ {"approval", "execute"}
    BY <1>1, <2>1
  <2>6. QED
    BY <1>2, <2>1, <2>3, <2>4, <2>5, OnwardKeeps, Zenon
<1>3. CASE RecordWriteFails(p, call[p].inc)
  BY <1>3, HeldTyped, RecordWriteFailsKeeps, Zenon
<1>4. QED
  BY <1>2, <1>3, Zenon DEF Propose

-----------------------------------------------------------------------------
(* The gate and the execute node.                                          *)

\* The approval node is where a decision to execute is granted.
LEMMA ApprovalKeeps ==
  ASSUME IInv, NEW p \in Operators, Approval(p)
  PROVE  IInv'
<1>1. DiskTyped
  BY SameDisk, Zenon DEF Approval
<1>2. CASE Exit(p, "paused")
  <2>1. "paused" \in Reasons
    BY DEF Reasons
  <2>2. QED
    BY <1>1, <1>2, <2>1, ExitKeeps, Zenon
<1> DEFINE d == IF call[p].kind = "reject" THEN "reject" ELSE "approve"
           x == call[p].kind = "execute"
           m == [mem[p] EXCEPT !.decision = d, !.execute = x]
           g == IF call[p].kind = "execute"
                THEN granted \union {<<call[p].inc, mem[p].prop>>}
                ELSE granted
<1>3. CASE Return(p, m) /\ granted' = g /\ UNCHANGED <<calls, ran>>
  <2>1. mem[p] \in Checkpoint /\ call[p].inc \in Incidents
    BY HeldTyped
  <2>2. d \in {"unset", "approve", "reject"} /\ x \in BOOLEAN
    OBVIOUS
  <2>3. ~x => g = granted
    OBVIOUS
  <2>4. x => g = granted \union {<<call[p].inc, mem[p].prop>>}
    OBVIOUS
  <2> HIDE DEF d, x, g
  <2>5. /\ m \in Checkpoint
        /\ m.next = mem[p].next /\ m.prop = mem[p].prop /\ m.execute = x
    BY <2>1, <2>2 DEF Checkpoint
  <2>6. m.next \in Nodes
    BY <2>5, NodeNames DEF Approval, At
  <2>7. mem[p].prop \in Selections
    BY <2>1 DEF Checkpoint
  <2>8. granted \subseteq g /\ g \subseteq (Incidents \X Selections)
    BY <2>1, <2>2, <2>3, <2>4, <2>7 DEF IInv, TypeOK
  <2> HIDE DEF m
  <2>9. ToExecute(m) => <<call[p].inc, m.prop>> \in g
    BY <2>2, <2>4, <2>5 DEF ToExecute
  <2>10. QED
    <3>1. /\ Return(p, m) /\ calls' = calls /\ ran' = ran
          /\ granted \subseteq granted'
          /\ granted' \subseteq (Incidents \X Selections)
          /\ ToExecute(m) => <<call[p].inc, m.prop>> \in granted'
      BY <1>3, <2>8, <2>9
    <3>2. QED
      BY <1>1, <2>5, <2>6, <3>1, ReturnKeeps, Zenon
<1>4. QED
  BY <1>2, <1>3, Zenon DEF Approval

LEMMA ExecuteGateKeeps ==
  ASSUME IInv, NEW p \in Operators, ExecuteGate(p)
  PROVE  IInv'
<1>1. DiskTyped
  BY SameDisk, Zenon DEF ExecuteGate
<1>2. mem[p].next = "execute"
  BY DEF ExecuteGate, At
<1>3. ASSUME NEW reason \in Reasons, Exit(p, reason)
      PROVE  IInv'
  BY <1>1, <1>3, ExitKeeps, Zenon
<1>4. ASSUME NEW w \in {"apply", "settle"},
             w = "apply" => ToExecute(mem[p]),
             pc' = [pc EXCEPT ![p] = w],
             UNCHANGED <<ckpt, why, local, history>>
      PROVE  IInv'
  <2>1. /\ UNCHANGED <<ckpt, why, local, calls, granted>>
        /\ ran' \subseteq Applied
        /\ AppliedWasApproved'
    BY <1>4 DEF history, IInv, TypeOK, AppliedWasApproved
  <2>2. /\ w \in {"apply", "settle", "remember", "draft", "append"}
        /\ w \in {"apply", "settle", "remember"} => mem[p].next = "execute"
    BY <1>2
  <2>3. QED
    BY <1>1, <1>4, <2>1, <2>2, MoveKeeps, Zenon
<1>5. CASE GateRaises(call[p].inc, mem[p])
  <2>1. /\ "no_proposal" \in Reasons /\ "hash_mismatch" \in Reasons
        /\ Exit(p, IF mem[p].prop = NoProposal
                   THEN "no_proposal" ELSE "hash_mismatch")
    BY <1>5, Zenon DEF ExecuteGate, Reasons
  <2>2. CASE mem[p].prop = NoProposal
    BY <1>3, <2>1, <2>2
  <2>3. CASE mem[p].prop # NoProposal
    BY <1>3, <2>1, <2>3
  <2>4. QED
    BY <2>2, <2>3
<1>6. CASE ~GateRaises(call[p].inc, mem[p])
  <2>1. /\ pc' = [pc EXCEPT ![p] = IF ToExecute(mem[p])
                                   THEN "apply" ELSE "settle"]
        /\ UNCHANGED <<ckpt, why, local, history>>
    BY <1>6, Zenon DEF ExecuteGate
  <2>2. CASE ToExecute(mem[p])
    BY <1>4, <2>1, <2>2
  <2>3. CASE ~ToExecute(mem[p])
    BY <1>4, <2>1, <2>3
  <2>4. QED
    BY <2>2, <2>3
<1>7. QED
  BY <1>5, <1>6

\* Applying is safe: the process holds a state that was granted execution.
LEMMA ApplyKeeps ==
  ASSUME IInv, NEW p \in Operators, Apply(p)
  PROVE  IInv'
<1>1. DiskTyped
  BY SameDisk, Zenon DEF Apply
<1>2. CASE Exit(p, "rail")
  <2>1. "rail" \in Reasons
    BY DEF Reasons
  <2>2. QED
    BY <1>1, <1>2, <2>1, ExitKeeps, Zenon
<1> DEFINE a == [id |-> call[p].id, inc |-> call[p].inc,
                 prop |-> mem[p].prop, kind |-> call[p].kind]
<1>3. CASE /\ pc' = [pc EXCEPT ![p] = "settle"]
           /\ ran' = IF mem[p].prop \in Acting THEN ran \union {a} ELSE ran
           /\ UNCHANGED <<ckpt, why, local, calls, granted>>
  <2>1. mem[p].next = "execute" /\ ToExecute(mem[p])
    BY DEF Apply, IInv, Positions
  <2>2. <<a.inc, a.prop>> \in granted
    BY <2>1 DEF IInv, AllSanctioned, Sanctioned
  <2>3. mem[p].prop \in Acting => a \in Applied
    BY DispatchAssumption DEF IInv, TypeOK, Call, Applied
  <2> HIDE DEF a
  <2>4. ran' \subseteq Applied
    BY <1>3, <2>3 DEF IInv, TypeOK
  <2>5. AppliedWasApproved'
    BY <1>3, <2>2 DEF IInv, AppliedWasApproved
  <2>6. /\ "settle" \in {"apply", "settle", "remember", "draft", "append"}
        /\ "settle" = "apply" => ToExecute(mem[p])
    OBVIOUS
  <2>7. QED
    BY <1>1, <1>3, <2>1, <2>4, <2>5, <2>6, MoveKeeps, Zenon
<1>4. QED
  BY <1>2, <1>3, Zenon DEF Apply

\* A step that moves on and leaves the histories as they are.
LEMMA PlainMoveKeeps ==
  ASSUME IInv, NEW p \in Operators,
         NEW w \in {"remember", "draft", "append"},
         w = "remember" => mem[p].next = "execute",
         pc' = [pc EXCEPT ![p] = w],
         UNCHANGED <<ckpt, why, local, history>>, DiskTyped
  PROVE  IInv'
<1>1. /\ UNCHANGED <<ckpt, why, local, calls, granted>>
      /\ ran' \subseteq Applied
      /\ AppliedWasApproved'
  BY DEF history, IInv, TypeOK, AppliedWasApproved
<1>2. /\ w \in {"apply", "settle", "remember", "draft", "append"}
      /\ w \in {"apply", "settle", "remember"} => mem[p].next = "execute"
      /\ w = "apply" => ToExecute(mem[p])
  OBVIOUS
<1>3. QED
  BY <1>1, <1>2, MoveKeeps, Zenon

LEMMA SettleRecordKeeps ==
  ASSUME IInv, NEW p \in Operators, SettleRecord(p)
  PROVE  IInv'
<1>1. mem[p].next = "execute"
  BY DEF SettleRecord, IInv, Positions
<1>2. CASE /\ record' = [record EXCEPT ![call[p].inc] =
                           Written(Verdict(mem[p]), mem[p].prop)]
           /\ pc' = [pc EXCEPT ![p] = "remember"]
           /\ UNCHANGED <<ckpt, store, drafts, why, local, history>>
  <2>1. Verdict(mem[p]) \in Verdicts
    BY VerdictTyped
  <2>2. mem[p].prop \in Selections
    BY HeldTyped DEF Checkpoint
  <2>3. Written(Verdict(mem[p]), mem[p].prop) \in Record
    BY <2>1, <2>2, WrittenTyped
  <2>4. DiskTyped
    BY <1>2, <2>3 DEF IInv, TypeOK, DiskTyped
  <2>5. /\ "remember" \in {"remember", "draft", "append"}
        /\ UNCHANGED <<ckpt, why, local, history>>
    BY <1>2
  <2>6. QED
    BY <1>1, <1>2, <2>4, <2>5, PlainMoveKeeps, Zenon
<1>3. CASE RecordWriteFails(p, call[p].inc)
  BY <1>3, HeldTyped, RecordWriteFailsKeeps, Zenon
<1>4. QED
  BY <1>2, <1>3, Zenon DEF SettleRecord

LEMMA WriteEpisodeKeeps ==
  ASSUME IInv, NEW p \in Operators, WriteEpisode(p)
  PROVE  IInv'
<1>1. mem[p].next = "execute" /\ mem[p] \in Checkpoint
  BY HeldTyped DEF WriteEpisode, IInv, Positions
<1>2. CASE /\ store' = store \union {NewEpisode(call[p].inc, mem[p])}
           /\ Return(p, mem[p])
           /\ UNCHANGED history
  <2>1. NewEpisode(call[p].inc, mem[p]) \in Episode
    BY <1>1, HeldTyped, VerdictTyped DEF NewEpisode, Episode, Checkpoint
  <2>2. DiskTyped
    BY <1>2, <2>1 DEF WriteEpisode, IInv, TypeOK, DiskTyped
  <2>3. ToExecute(mem[p]) => <<call[p].inc, mem[p].prop>> \in granted
    BY <1>1 DEF IInv, AllSanctioned, Sanctioned
  <2>4. /\ mem[p].next \in Nodes
        /\ calls' = calls /\ ran' = ran
        /\ granted \subseteq granted'
        /\ granted' \subseteq (Incidents \X Selections)
        /\ ToExecute(mem[p]) => <<call[p].inc, mem[p].prop>> \in granted'
    BY <1>1, <1>2, <2>3, NodeNames DEF history, IInv, TypeOK
  <2>5. QED
    BY <1>1, <1>2, <2>2, <2>4, ReturnKeeps, Zenon
<1>3. ASSUME NEW reason \in Reasons, UNCHANGED store, Exit(p, reason)
      PROVE  IInv'
  <2>1. DiskTyped
    BY <1>3, SameDisk, Zenon DEF WriteEpisode
  <2>2. QED
    BY <1>3, <2>1, ExitKeeps, Zenon
<1>4. "io" \in Reasons /\ "invalid_episode" \in Reasons
  BY DEF Reasons
<1>5. QED
  BY <1>2, <1>3, <1>4, Zenon DEF WriteEpisode

LEMMA FinishDecideKeeps ==
  ASSUME IInv, NEW p \in Operators, FinishDecide(p)
  PROVE  IInv'
<1>1. DiskTyped /\ Exit(p, "decided") /\ "decided" \in Reasons
  BY SameDisk, Zenon DEF FinishDecide, Reasons
<1>2. QED
  BY <1>1, ExitKeeps, Zenon

-----------------------------------------------------------------------------
(* close.                                                                  *)

LEMMA CloseReadStoreKeeps ==
  ASSUME IInv, NEW p \in Operators, CloseReadStore(p)
  PROVE  IInv'
<1>1. DiskTyped
  BY SameDisk, Zenon DEF CloseReadStore
<1>2. CASE Exit(p, "no_episode")
  <2>1. "no_episode" \in Reasons
    BY DEF Reasons
  <2>2. QED
    BY <1>1, <1>2, <2>1, ExitKeeps, Zenon
<1>3. CASE /\ pc' = [pc EXCEPT ![p] = "write_store"]
           /\ lines' = [lines EXCEPT ![p] = store]
           /\ UNCHANGED <<ckpt, call, why, mem, dirty, copy, history>>
  <2>1. TypeOK'
    BY <1>1, <1>3 DEF IInv, TypeOK, DiskTyped, history
  <2>2. Positions'
    BY <1>3 DEF IInv, TypeOK, Positions, ToExecute
  <2>3. AllSanctioned'
    BY <1>3 DEF IInv, AllSanctioned, Sanctioned, history
  <2>4. AppliedWasApproved'
    BY <1>3 DEF IInv, AppliedWasApproved, history
  <2>5. QED
    BY <2>1, <2>2, <2>3, <2>4 DEF IInv
<1>4. QED
  BY <1>2, <1>3, Zenon DEF CloseReadStore

\* An Outcome is the only thing set_outcome changes in an Episode.
LEMMA WithOutcomeTyped ==
  ASSUME NEW episodes \in SUBSET Episode, NEW i \in Incidents,
         NEW outcome \in {"none"} \union Outcomes
  PROVE  WithOutcome(episodes, i, outcome) \subseteq Episode
<1>1. ASSUME NEW e \in Episode
      PROVE  [e EXCEPT !.outcome = outcome] \in Episode
  BY DEF Episode
<1>2. QED
  BY <1>1 DEF WithOutcome, Mine

LEMMA CloseWriteStoreKeeps ==
  ASSUME IInv, NEW p \in Operators, CloseWriteStore(p)
  PROVE  IInv'
<1>1. ASSUME store' \subseteq Episode
      PROVE  DiskTyped
  BY <1>1 DEF CloseWriteStore, IInv, TypeOK, DiskTyped
<1>2. CASE /\ store' = WithOutcome(lines[p], call[p].inc, call[p].outcome)
           /\ pc' = [pc EXCEPT ![p] = "draft"]
           /\ UNCHANGED <<ckpt, why, local, history>>
  <2>1. /\ lines[p] \in SUBSET Episode /\ call[p].inc \in Incidents
        /\ call[p].outcome \in {"none"} \union Outcomes
    BY DEF IInv, TypeOK, Call
  <2>2. DiskTyped
    BY <1>1, <1>2, <2>1, WithOutcomeTyped
  <2>3. /\ "draft" \in {"remember", "draft", "append"}
        /\ "draft" = "remember" => mem[p].next = "execute"
    OBVIOUS
  <2>4. QED
    BY <1>2, <2>2, <2>3, PlainMoveKeeps, Zenon
<1>3. ASSUME store' = store \/ store' = {}, Exit(p, "io")
      PROVE  IInv'
  <2>1. DiskTyped
    BY <1>1, <1>3 DEF IInv, TypeOK
  <2>2. "io" \in Reasons
    BY DEF Reasons
  <2>3. QED
    BY <1>3, <2>1, <2>2, ExitKeeps, Zenon
<1>4. QED
  BY <1>2, <1>3, Zenon DEF CloseWriteStore

LEMMA CloseDraftKeeps ==
  ASSUME IInv, NEW p \in Operators, CloseDraft(p)
  PROVE  IInv'
<1>1. PICK e \in Mine(lines[p], call[p].inc) :
        \/ /\ drafts' = IF WantsDraft(e, call[p].outcome)
                        THEN drafts \union {call[p].inc} ELSE drafts
           /\ pc' = [pc EXCEPT ![p] = "append"]
           /\ UNCHANGED <<ckpt, why, local, history>>
        \/ /\ "io" \in Faults
           /\ WantsDraft(e, call[p].outcome)
           /\ UNCHANGED drafts
           /\ Exit(p, "io")
  BY Zenon DEF CloseDraft
<1>2. UNCHANGED <<record, store>> /\ call[p].inc \in Incidents
  BY HeldTyped DEF CloseDraft
<1>3. drafts' = drafts \/ drafts' = drafts \union {call[p].inc}
  BY <1>1
<1>4. DiskTyped
  BY <1>2, <1>3 DEF IInv, TypeOK, DiskTyped
<1>5. CASE /\ pc' = [pc EXCEPT ![p] = "append"]
           /\ UNCHANGED <<ckpt, why, local, history>>
  <2>1. /\ "append" \in {"remember", "draft", "append"}
        /\ "append" = "remember" => mem[p].next = "execute"
    OBVIOUS
  <2>2. QED
    BY <1>4, <1>5, <2>1, PlainMoveKeeps, Zenon
<1>6. CASE Exit(p, "io")
  <2>1. "io" \in Reasons
    BY DEF Reasons
  <2>2. QED
    BY <1>4, <1>6, <2>1, ExitKeeps, Zenon
<1>7. QED
  BY <1>1, <1>5, <1>6

LEMMA CloseRecordKeeps ==
  ASSUME IInv, NEW p \in Operators, CloseRecord(p)
  PROVE  IInv'
<1>1. CASE /\ record' = [record EXCEPT ![call[p].inc] =
                           [copy[p] EXCEPT !.outcome = call[p].outcome]]
           /\ UNCHANGED <<store, drafts>>
           /\ Exit(p, "closed")
  <2>1. copy[p] \in Record /\ call[p].outcome \in {"none"} \union Outcomes
    BY DEF IInv, TypeOK, Call
  <2>2. [copy[p] EXCEPT !.outcome = call[p].outcome] \in Record
    BY <2>1 DEF Record
  <2>3. DiskTyped
    BY <1>1, <2>2 DEF IInv, TypeOK, DiskTyped
  <2>4. "closed" \in Reasons
    BY DEF Reasons
  <2>5. QED
    BY <1>1, <2>3, <2>4, ExitKeeps, Zenon
<1>2. CASE RecordWriteFails(p, call[p].inc)
  BY <1>2, HeldTyped, RecordWriteFailsKeeps, Zenon
<1>3. QED
  BY <1>1, <1>2, Zenon DEF CloseRecord

-----------------------------------------------------------------------------
(* The checkpointer, a crash, and the human.                               *)

LEMMA SaveCheckpointKeeps ==
  ASSUME IInv, NEW p \in Operators, SaveCheckpoint(p)
  PROVE  IInv'
<1>1. call[p].inc \in Incidents /\ mem[p] \in Checkpoint
  BY HeldTyped
<1>2. /\ ckpt' = [ckpt EXCEPT ![call[p].inc] = mem[p]]
      /\ dirty' = [dirty EXCEPT ![p] = FALSE]
      /\ UNCHANGED <<record, store, drafts, pc, call, why, mem, copy, lines,
                     calls, granted, ran>>
  BY DEF SaveCheckpoint, history
<1>3. TypeOK'
  BY <1>1, <1>2 DEF IInv, TypeOK
<1>4. Positions' /\ AppliedWasApproved'
  BY <1>2 DEF IInv, Positions, AppliedWasApproved
<1>5. AllSanctioned'
  BY <1>1, <1>2 DEF IInv, TypeOK, AllSanctioned, Sanctioned
<1>6. QED
  BY <1>3, <1>4, <1>5 DEF IInv

LEMMA CrashKeeps ==
  ASSUME IInv, NEW p \in Operators, Crash(p)
  PROVE  IInv'
<1>1. /\ pc' = [pc EXCEPT ![p] = "idle"]
      /\ why' = [why EXCEPT ![p] = "crash"]
      /\ dirty' = [dirty EXCEPT ![p] = FALSE]
      /\ mem' = [mem EXCEPT ![p] = NoCheckpoint]
      /\ copy' = [copy EXCEPT ![p] = NoRecord]
      /\ lines' = [lines EXCEPT ![p] = {}]
      /\ UNCHANGED <<ckpt, record, store, drafts, call, calls, granted, ran>>
  BY DEF Crash, disk, history
<1>2. "crash" \in Reasons /\ NoRecord \in Record
  BY WrittenTyped DEF Reasons, NoRecord, Selections
<1>3. NoCheckpoint.next = "none"
  BY DEF NoCheckpoint
<1>4. TypeOK'
  BY <1>1, <1>2, NoCheckpointTyped DEF IInv, TypeOK
<1>5. Positions'
  BY <1>1, <1>3 DEF IInv, TypeOK, Positions
<1>6. AllSanctioned' /\ AppliedWasApproved'
  BY <1>1, <1>3
  DEF IInv, TypeOK, AllSanctioned, Sanctioned, AppliedWasApproved
<1>7. QED
  BY <1>4, <1>5, <1>6 DEF IInv

LEMMA HumanKeeps ==
  ASSUME IInv, Human
  PROVE  IInv'
<1>1. PICK i \in Incidents :
        \/ RestoreRecord(i)
        \/ \E part \in {"hash", "body"} : EditRecord(i, part)
  BY DEF Human
<1>2. ASSUME NEW edits \in SUBSET {"hash", "body"}
      PROVE  [record EXCEPT ![i].edits = edits] \in [Incidents -> Record]
  BY DEF IInv, TypeOK, Record
<1>3. record[i].edits \in SUBSET {"hash", "body"}
  BY DEF IInv, TypeOK, Record
<1>4. \E edits \in SUBSET {"hash", "body"} :
        record' = [record EXCEPT ![i].edits = edits]
  <2>1. CASE RestoreRecord(i)
    <3>1. record' = [record EXCEPT ![i].edits = {}]
      BY <2>1, Zenon DEF RestoreRecord
    <3>2. QED
      BY <3>1
  <2>2. ASSUME NEW part \in {"hash", "body"}, EditRecord(i, part)
        PROVE  \E edits \in SUBSET {"hash", "body"} :
                 record' = [record EXCEPT ![i].edits = edits]
    <3>1. record' = [record EXCEPT ![i].edits = record[i].edits \union {part}]
      BY <2>2, Zenon DEF EditRecord
    <3>2. record[i].edits \union {part} \in SUBSET {"hash", "body"}
      BY <1>3, <2>2
    <3>3. QED
      BY <3>1, <3>2
  <2>3. QED
    BY <1>1, <2>1, <2>2
<1>5. record' \in [Incidents -> Record]
  BY <1>2, <1>4
<1>6. UNCHANGED <<ckpt, store, drafts, pc, why, call, mem, dirty, copy,
                  lines, calls, granted, ran>>
  BY <1>1 DEF RestoreRecord, EditRecord, local, history
<1>7. TypeOK'
  BY <1>5, <1>6 DEF IInv, TypeOK
<1>8. Positions' /\ AllSanctioned' /\ AppliedWasApproved'
  BY <1>6 DEF IInv, Positions, AllSanctioned, Sanctioned, AppliedWasApproved
<1>9. QED
  BY <1>7, <1>8 DEF IInv

-----------------------------------------------------------------------------
(* The inductive invariant, and what it proves.                            *)

LEMMA InitIInv == Init => IInv
<1> SUFFICES ASSUME Init PROVE IInv
  OBVIOUS
<1> DEFINE c == [id |-> 0, inc |-> CHOOSE i \in Incidents : TRUE,
                 kind |-> "handle", outcome |-> "none", resume |-> FALSE]
<1>1. c \in Call
  <2>1. (CHOOSE i \in Incidents : TRUE) \in Incidents
    BY DispatchAssumption
  <2>2. QED
    BY <2>1 DEF Call, Kinds
<1>2. call = [p \in Operators |-> c]
  BY DEF Init
<1> HIDE DEF c
<1>3. NoRecord \in Record /\ "none" \in Reasons
  BY WrittenTyped DEF NoRecord, Selections, Reasons
<1>4. TypeOK
  BY <1>1, <1>2, <1>3, NoCheckpointTyped DEF Init, TypeOK
<1>5. NoCheckpoint.next = "none"
  BY DEF NoCheckpoint
<1>6. Positions /\ AllSanctioned /\ AppliedWasApproved
  BY <1>5 DEF Init, Positions, AllSanctioned, Sanctioned, AppliedWasApproved
<1>7. QED
  BY <1>4, <1>6 DEF IInv

LEMMA StepKeeps ==
  ASSUME IInv, NEW p \in Operators, Step(p)
  PROVE  IInv'
BY BeginPipelineKeeps, GatherKeeps, DegradingKeeps, LogAgentKeeps,
   CorrelateKeeps, InvestigateKeeps, ProposeKeeps, ApprovalKeeps, ExecuteGateKeeps, ApplyKeeps,
   SettleRecordKeeps, WriteEpisodeKeeps, FinishDecideKeeps,
   CloseReadStoreKeeps, CloseWriteStoreKeeps, CloseDraftKeeps,
   CloseRecordKeeps, Zenon
DEF Step

LEMMA NextIInv == IInv /\ [Next]_vars => IInv'
<1> SUFFICES ASSUME IInv, [Next]_vars PROVE IInv'
  OBVIOUS
<1>1. CASE \E p \in Operators :
             Start(p) \/ Step(p) \/ SaveCheckpoint(p) \/ Crash(p)
  BY <1>1, StartKeeps, StepKeeps, SaveCheckpointKeeps, CrashKeeps, Zenon
<1>2. CASE Human
  BY <1>2, HumanKeeps
<1>3. CASE UNCHANGED vars
  BY <1>3
  DEF vars, IInv, TypeOK, Positions, AllSanctioned, Sanctioned,
      AppliedWasApproved
<1>4. QED
  BY <1>1, <1>2, <1>3 DEF Next

\* The inductive invariant holds throughout.
THEOREM Invariance == Spec => []IInv
BY InitIInv, NextIInv, PTL DEF Spec

\* Every reachable state of dispatch is well typed, whatever the incidents,
\* the operators, the proposals and the faults.
THEOREM TypeCorrect == Spec => []TypeOK
<1>1. IInv => TypeOK
  BY DEF IInv
<1>2. QED
  BY <1>1, Invariance, PTL

\* Nothing executes without approval: with any number of incidents and of
\* concurrent commands, with failing and torn writes, crashes, edits of the
\* record and stale checkpoints, commands are applied only for a proposal
\* that was approved with --execute for that incident.
THEOREM ApprovedOnly == Spec => []AppliedWasApproved
<1>1. IInv => AppliedWasApproved
  BY DEF IInv
<1>2. QED
  BY <1>1, Invariance, PTL

=============================================================================
