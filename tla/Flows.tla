------------------------------- MODULE Flows --------------------------------
(***************************************************************************)
(* N2 of 5gcap: fivegcap/flow.py with the NAS rules of fivegcap/nas.py.    *)
(* One step is one iteration of build_flows over the decoded NGAP          *)
(* messages.  A message keeps its name, its ids, the tunnels it declares,  *)
(* the session items of a setup (requested: session id -> its tunnels,     *)
(* confirmed: session id -> how many items) and what its NAS payload is;   *)
(* an association stands for the unordered pair of SCTP ports.             *)
(***************************************************************************)
EXTENDS Integers, Sequences, FiniteSets, Functions, SequencesExt

CONSTANTS
  NoId,         \* an absent RAN or AMF UE NGAP id
  N2Messages    \* the N2 messages a capture may hold

VARIABLES
  n2,           \* the messages read: the message, its flow (0: none) and its decoded NAS
  flows,        \* the flows, by flow_id
  open,         \* <<flow, kind>> -> index of the NAS start message still open
  starts,       \* <<flow, kind>> -> indexes of the unmatched NGAP start messages
  n2Procs       \* the completed procedures, in completion order

flowVars == <<n2, flows, open, starts, n2Procs>>

Kinds == {"registration", "pdu_session_est"}

NasStart == [RegistrationRequest |-> "registration", PDUSessionEstabRequest |-> "pdu_session_est"]
NasEnd ==
  [RegistrationAccept |-> [kind |-> "registration", outcome |-> "accept"],
   RegistrationReject |-> [kind |-> "registration", outcome |-> "reject"],
   PDUSessionEstabAccept |-> [kind |-> "pdu_session_est", outcome |-> "accept"],
   PDUSessionEstabReject |-> [kind |-> "pdu_session_est", outcome |-> "reject"]]
NgapStart ==
  [InitialUEMessage |-> "registration", PDUSessionResourceSetupRequest |-> "pdu_session_est"]
NgapEnd ==
  [InitialContextSetupRequest |-> [kind |-> "registration", outcome |-> "accept"],
   InitialContextSetupFailure |-> [kind |-> "registration", outcome |-> "reject"],
   PDUSessionResourceSetupResponse |-> [kind |-> "pdu_session_est", outcome |-> "accept"],
   PDUSessionResourceSetupFailure |-> [kind |-> "pdu_session_est", outcome |-> "reject"]]
Releases ==
  {"UEContextReleaseRequest", "UEContextReleaseCommand", "UEContextReleaseComplete"}

NoAlgo == -1
NoCode == -1
NoNas == [name |-> "none", read |-> FALSE, algo |-> NoAlgo, supi |-> NoId, cause |-> NoCode]

\* The cause is a mandatory element of a reject (TS 24.501), which _fill_from reads.
Rejects == {"RegistrationReject", "PDUSessionEstabReject"}
FlowsAssumption == \A m \in N2Messages : m.nas.name \in Rejects => m.nas.cause # NoCode

ASSUME FlowsAssumption

\* Mutant: an unknown cipher is taken for the null cipher.
AssumeNull(nas, ciph) ==
  IF nas.shield # "cipher" \/ ciph \in {0, NoAlgo}
  THEN [name |-> nas.name, read |-> TRUE, algo |-> nas.algo, supi |-> nas.supi,
        cause |-> nas.cause]
  ELSE [NoNas EXCEPT !.name = "refused"]

\* A NAS payload is readable in the clear, under integrity protection alone, or under
\* the null cipher once the flow's SecurityModeCommand selected it; otherwise it is
\* refused and declares nothing.
NasDecoded(nas, ciph) ==
  IF nas.shield = "none" \/ nas.shield = "integrity" \/ (nas.shield = "cipher" /\ ciph = 0)
  THEN [name |-> nas.name, read |-> TRUE, algo |-> nas.algo, supi |-> nas.supi,
        cause |-> nas.cause]
  ELSE [NoNas EXCEPT !.name = "refused"]

FlowsInit ==
  /\ n2 = <<>>
  /\ flows = <<>>
  /\ open = [k \in {} |-> 0]
  /\ starts = [k \in {} |-> <<>>]
  /\ n2Procs = <<>>

\* A flow is found by association and RAN id; the AMF id never finds one.
FlowKey(m) == <<m.assoc, m.ran>>
FlowOf(m) == SelectInSeq(flows, LAMBDA f : f.key = FlowKey(m))

\* The procedures' bookkeeping while one message is handled.
Books == [open |-> open, starts |-> starts, procs |-> n2Procs]

Without(f, k) == Restrict(f, DOMAIN f \ {k})
With(f, k, v) == [x \in DOMAIN f \cup {k} |-> IF x = k THEN v ELSE f[x]]
Queue(b, k) == IF k \in DOMAIN b.starts THEN b.starts[k] ELSE <<>>

Procedure(fid, kind, level, start, end, outcome) ==
  [flow |-> fid, kind |-> kind, level |-> level, start |-> start, end |-> end, outcome |-> outcome]

\* Mutant: a release clears the session starts only.
ReleasedSessions(b, fid, m) ==
  IF m.name \in Releases THEN [b EXCEPT !.starts = Without(@, <<fid, "pdu_session_est">>)] ELSE b

\* A release ends the signalling cycle: its unmatched NGAP starts are dead.
Released(b, fid, m) ==
  IF m.name \in Releases
  THEN [b EXCEPT !.starts = Without(Without(@, <<fid, "registration">>), <<fid, "pdu_session_est">>)]
  ELSE b

NasHandled(b, fid, nas, i) ==
  CASE nas.read /\ nas.name \in DOMAIN NasStart ->
         [b EXCEPT !.open = With(@, <<fid, NasStart[nas.name]>>, i)]
    [] nas.read /\ nas.name \in DOMAIN NasEnd /\ <<fid, NasEnd[nas.name].kind>> \in DOMAIN b.open ->
         LET e == NasEnd[nas.name]  k == <<fid, e.kind>> IN
         [b EXCEPT !.open = Without(@, k),
                   !.procs = Append(@, Procedure(fid, e.kind, "nas", b.open[k], i, e.outcome))]
    [] OTHER -> b

\* Mutant: the fallback does not look at NAS procedures.
BesideNas(b, fid, e, i) ==
  LET k == <<fid, e.kind>> IN
  IF Queue(b, k) # <<>> /\ ~\E p \in Range(b.procs) : p.flow = fid /\ p.kind = e.kind /\ p.level = "ngap"
  THEN [b EXCEPT !.starts = With(@, k, Tail(Queue(b, k))),
                 !.procs = Append(@, Procedure(fid, e.kind, "ngap", Head(Queue(b, k)), i, e.outcome))]
  ELSE b

\* complete_ngap: only while the flow has no completed procedure of this kind.
NgapCompleted(b, fid, e, i) ==
  LET k == <<fid, e.kind>> IN
  CASE \E p \in Range(b.procs) : p.flow = fid /\ p.kind = e.kind ->
         [b EXCEPT !.starts = Without(@, k)]
    [] ~(\E p \in Range(b.procs) : p.flow = fid /\ p.kind = e.kind) /\ Queue(b, k) # <<>> ->
         [b EXCEPT !.starts = With(@, k, Tail(Queue(b, k))),
                   !.procs = Append(@, Procedure(fid, e.kind, "ngap", Head(Queue(b, k)), i, e.outcome))]
    [] OTHER -> b

NgapHandled(b, fid, m, i) ==
  CASE m.name \in DOMAIN NgapStart ->
         LET k == <<fid, NgapStart[m.name]>> IN
         [b EXCEPT !.starts = With(@, k, Append(Queue(b, k), i))]
    [] m.name \in DOMAIN NgapEnd -> NgapCompleted(b, fid, NgapEnd[m.name], i)
    [] OTHER -> b

\* A message without any UE id belongs to no flow (NGSetup, ErrorIndication).
ReadUnassociated(m) ==
  /\ m.ran = NoId /\ m.amf = NoId
  /\ n2' = Append(n2, [msg |-> m, flow |-> 0, nas |-> NoNas])
  /\ UNCHANGED <<flows, open, starts, n2Procs>>

\* The NAS outcome is handled before the NGAP fallback, so that an outcome carried by
\* the NGAP end message suppresses the fallback.
ReadAssociated(m) ==
  /\ ~(m.ran = NoId /\ m.amf = NoId)
  /\ LET i     == Len(n2) + 1
         known == IF FlowOf(m) # 0 THEN flows
                  ELSE Append(flows, [key |-> FlowKey(m), amf |-> m.amf, ciph |-> NoAlgo,
                                      partial |-> m.name # "InitialUEMessage"])
         fid   == IF FlowOf(m) # 0 THEN FlowOf(m) ELSE Len(known)
         f     == known[fid]
         nas   == IF m.nas = NoNas THEN NoNas ELSE NasDecoded(m.nas, f.ciph)
         books == NgapHandled(NasHandled(Released(Books, fid, m), fid, nas, i), fid, m, i)
     IN /\ n2' = Append(n2, [msg |-> m, flow |-> fid, nas |-> nas])
        /\ flows' = [known EXCEPT ![fid] =
                       [f EXCEPT !.amf = IF f.amf = NoId THEN m.amf ELSE f.amf,
                                 !.ciph = IF f.ciph = NoAlgo THEN nas.algo ELSE f.ciph]]
        /\ open' = books.open
        /\ starts' = books.starts
        /\ n2Procs' = books.procs

ReadN2(m) == ReadUnassociated(m) \/ ReadAssociated(m)

-----------------------------------------------------------------------------

(* A procedure paired from NGAP messages alone lies within one signalling cycle of its *)
(* flow: no release of that UE between its start and its end (flow.py, the comment on  *)
(* stale InitialUEMessages).                                                           *)
FallbackWithinCycle ==
  \A p \in Range(n2Procs) :
    p.level = "ngap" =>
      ~\E r \in p.start..p.end : n2[r].flow = p.flow /\ n2[r].msg.name \in Releases

\* The readable messages of a flow that select a cipher (its SecurityModeCommands).
SelectsCipher(i, f) == n2[i].flow = f /\ n2[i].nas.read /\ n2[i].nas.algo # NoAlgo

(* A refused NAS message never opens or closes a procedure, and a ciphered one does so   *)
(* only in a flow whose first readable selection, made before it, was the null cipher.   *)
(* What a later selection chose is not asked: flow.py:59 keeps the first one for good,   *)
(* so a payload under a real cipher selected afterwards still counts, against nas.py:6-9.*)
CipheredNeverCounts ==
  \A p \in Range(n2Procs) :
    p.level = "nas" =>
      \A i \in {p.start, p.end} :
        /\ n2[i].nas.read
        /\ n2[i].msg.nas.shield = "cipher" =>
             \E s \in 1..(i - 1) :
               /\ SelectsCipher(s, p.flow) /\ n2[s].nas.algo = 0
               /\ \A t \in 1..(s - 1) : ~SelectsCipher(t, p.flow)
=============================================================================
