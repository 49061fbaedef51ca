------------------------------ MODULE Capture -------------------------------
(***************************************************************************)
(* 5gcap on one merged run (fivegcap/cli.py analyze): the N2 capture, then *)
(* the SBI and N4 captures of the same run, and over them the joins of     *)
(* fivegcap/correlate.py, the latencies of fivegcap/kpi.py and the flow    *)
(* ids of fivegcap/output.py.  The joins are functions of what was read,   *)
(* so each state is a capture that ends there.                             *)
(***************************************************************************)
EXTENDS Pfcp, Sbi, Flows

CONSTANT Labs   \* what a run may hold: its messages and how many of each plane

CaptureAssumption ==
  /\ \A l \in Labs : l.n2 \subseteq N2Messages /\ l.n4 \subseteq N4Messages
  /\ \A m \in N2Messages : m.confirmed \in [DOMAIN m.confirmed -> Nat \ {0}]

ASSUME CaptureAssumption

VARIABLES
  lab,
  plane         \* the plane being read: "n2", "sbi" or "n4"

captureVars == <<lab, plane, pfcpVars, sbiVars, flowVars>>

CaptureInit ==
  /\ lab \in Labs
  /\ plane = "n2"
  /\ PfcpInit /\ SbiInit /\ FlowsInit

ReadPlaneN2 ==
  /\ plane = "n2"
  /\ Len(n2) < lab.maxN2
  /\ \E m \in lab.n2 : ReadN2(m)
  /\ UNCHANGED <<lab, plane, pfcpVars, sbiVars>>

ReadPlaneSbi ==
  /\ plane = "sbi" /\ direction[1] <= lab.conns
  /\ ReadSbi(lab.requests, lab.contents)
  /\ Len(sbi') <= lab.maxSbi
  /\ UNCHANGED <<lab, plane, pfcpVars, flowVars>>

ReadPlaneN4 ==
  /\ plane = "n4"
  /\ Len(n4) < lab.maxN4
  /\ \E m \in lab.n4 : ReadN4(m)
  /\ UNCHANGED <<lab, plane, sbiVars, flowVars>>

\* A capture given on its own has no N2 messages before it, and a plane may be missing.
NextPlane ==
  /\ \/ plane = "n2" /\ plane' = "sbi"
     \/ plane = "sbi" /\ plane' = "n4" /\ direction[1] > lab.conns
  /\ UNCHANGED <<lab, pfcpVars, sbiVars, flowVars>>

CaptureNext == ReadPlaneN2 \/ ReadPlaneSbi \/ ReadPlaneN4 \/ NextPlane

CaptureSpec == CaptureInit /\ [][CaptureNext]_captureVars

-----------------------------------------------------------------------------
\* correlate.py

FlowIds == DOMAIN flows
OfFlow(f) == {i \in DOMAIN n2 : n2[i].flow = f}

\* The flows whose NAS declared a SUPI, and those whose N2 declared a tunnel.
SupiClaims(s) == {n2[i].flow : i \in {i \in DOMAIN n2 : n2[i].nas.supi = s /\ s # NoId}}
TunnelClaims(t) == {n2[i].flow : i \in {i \in DOMAIN n2 : t \in n2[i].msg.teids}} \ {0}

\* Mutant: the first claim wins.
AnyClaim(claims) == IF claims = {} THEN 0 ELSE CHOOSE f \in claims : TRUE

\* A key that several flows claim joins nothing.
Sole(claims) == IF Cardinality(claims) = 1 THEN CHOOSE f \in claims : TRUE ELSE 0

RequestFlow(i) == IF sbi[i].refused THEN 0 ELSE Sole(SupiClaims(sbi[i].supi))

\* Mutant: streams are not told apart by their connection.
StreamFlow(i) ==
  IF sbi[i].side = "request" THEN RequestFlow(i)
  ELSE LET joined == {j \in DOMAIN sbi : /\ sbi[j].side = "request" /\ RequestFlow(j) # 0
                                         /\ sbi[j].stream = sbi[i].stream} IN
       IF joined = {} THEN 0 ELSE RequestFlow(CHOOSE j \in joined : \A k \in joined : k <= j)

\* A response inherits the flow of its stream's last joined request.
SbiFlow(i) ==
  IF sbi[i].side = "request" THEN RequestFlow(i)
  ELSE LET joined == {j \in DOMAIN sbi : /\ sbi[j].side = "request" /\ RequestFlow(j) # 0
                                         /\ sbi[j].conn = sbi[i].conn
                                         /\ sbi[j].stream = sbi[i].stream} IN
       IF joined = {} THEN 0 ELSE RequestFlow(CHOOSE j \in joined : \A k \in joined : k <= j)

\* An N4 message joins the one flow its unambiguous tunnels name.
N4Flow(i) ==
  IF ~n4[i].parsed THEN 0
  ELSE Sole({Sole(TunnelClaims(t)) : t \in n4[i].teids} \ {0})

\* output.py: a procedure follows its request's flow, else its response's.
N4ProcFlow(p) == IF N4Flow(p.req) # 0 THEN N4Flow(p.req) ELSE N4Flow(p.rsp)

SbiProcFlow(p) ==
  SbiFlow(SelectLastInSeq(sbi, LAMBDA m : /\ m.side = "request"
                                          /\ m.conn = sbi[p.req].conn
                                          /\ m.stream = sbi[p.req].stream))

-----------------------------------------------------------------------------
\* kpi.py, cross_plane_kpis: the legs of a flow, by session.

Creates(f) == {i \in DOMAIN sbi : SbiFlow(i) = f /\ sbi[i].side = "request" /\ sbi[i].create}
Establishments(f) ==
  {i \in DOMAIN n4 : N4Flow(i) = f /\ n4[i].type = Establishment + 1}
SetupRequests(f) == {i \in OfFlow(f) : n2[i].msg.name = "PDUSessionResourceSetupRequest"}
SetupResponses(f) == {i \in OfFlow(f) : n2[i].msg.name = "PDUSessionResourceSetupResponse"}

\* The sessions of the items of a flow's setups and of its creates.
Sessions(f) ==
  (UNION {DOMAIN n2[i].msg.requested : i \in SetupRequests(f)}
     \cup UNION {DOMAIN n2[i].msg.confirmed : i \in SetupResponses(f)}
     \cup {sbi[i].session : i \in Creates(f)}) \ {NoSession}

\* An establishment anchors to the one session whose requested tunnel it created.
Anchors(f, e) ==
  {s \in Sessions(f) : \E i \in SetupRequests(f) :
     s \in DOMAIN n2[i].msg.requested /\ n2[i].msg.requested[s] \cap n4[e].teids # {}}

\* Mutant: an establishment may anchor to several sessions.
SharedLegs(f, s) ==
  IF s = NoSession THEN Establishments(f) ELSE {e \in Establishments(f) : s \in Anchors(f, e)}

\* The candidates of each leg of one session (NoSession: the flow has no anchors).
EstLegs(f, s) ==
  IF s = NoSession THEN Establishments(f) ELSE {e \in Establishments(f) : Anchors(f, e) = {s}}
CreateLegs(f, s) ==
  LET sent == {c \in Creates(f) : sbi[c].session = s} IN
  IF Cardinality(EstLegs(f, s)) = 1
  THEN {c \in sent : \E e \in EstLegs(f, s) : sbi[c].smf = n4[e].dst}
  ELSE sent
\* Each item a response lists of the session is a leg, so a repeated item is ambiguous.
SetupLegs(f, s) ==
  IF s = NoSession THEN SetupResponses(f) \X {1}
  ELSE UNION {{i} \X (1..n2[i].msg.confirmed[s]) :
              i \in {i \in SetupResponses(f) : s \in DOMAIN n2[i].msg.confirmed}}

\* A latency needs each of its legs exactly once.
Samples(f, A(_, _), B(_, _)) ==
  LET keys == IF Sessions(f) = {} THEN {NoSession} ELSE Sessions(f) IN
  UNION {{[flow |-> f, session |-> s, from |-> a, to |-> b] : a \in A(f, s), b \in B(f, s)} :
         s \in {s \in keys : Cardinality(A(f, s)) = 1 /\ Cardinality(B(f, s)) = 1}}

SbiToN4 == UNION {Samples(f, CreateLegs, EstLegs) : f \in FlowIds}
N4ToN2 == UNION {Samples(f, EstLegs, SetupLegs) : f \in FlowIds}
SbiToN2 == UNION {Samples(f, CreateLegs, SetupLegs) : f \in FlowIds}

\* kpi.py, compute: latency over complete flows, success over all of them.
AttachTimes == {p \in Range(n2Procs) : p.kind = "registration" /\ ~flows[p.flow].partial}
Successes == {i \in DOMAIN n2Procs : n2Procs[i].outcome = "accept"}
Failures == {i \in DOMAIN n2Procs : n2Procs[i].outcome = "reject"}

-----------------------------------------------------------------------------

(* What joins, joins by a key that its flow alone declares: a request by its SUPI, an N4 *)
(* message by one of its tunnels, a response by its own request's SUPI; a refused        *)
(* request or N4 message joins nothing (correlate.py's strict key equality).             *)
JoinsAreUnambiguous ==
  /\ \A i \in DOMAIN sbi :
       SbiFlow(i) # 0 =>
         \E j \in DOMAIN sbi :
           /\ sbi[j].side = "request" /\ ~sbi[j].refused
           /\ sbi[j].conn = sbi[i].conn /\ sbi[j].stream = sbi[i].stream
           /\ \E k \in OfFlow(SbiFlow(i)) : n2[k].nas.supi = sbi[j].supi
           /\ \A k \in DOMAIN n2 : n2[k].nas.supi = sbi[j].supi => n2[k].flow = SbiFlow(i)
  /\ \A i \in DOMAIN n4 :
       N4Flow(i) # 0 =>
         /\ n4[i].parsed
         /\ \E t \in n4[i].teids :
              /\ \E k \in OfFlow(N4Flow(i)) : t \in n2[k].msg.teids
              /\ \A k \in DOMAIN n2 :
                   t \in n2[k].msg.teids => n2[k].flow \in {0, N4Flow(i)}

(* The export speaks with one voice: an SBI procedure and both its messages carry one    *)
(* flow, and an N4 procedure carries a flow only for a tunnel of its messages that this   *)
(* flow alone declared (to_sbi_dict and to_pfcp_dict against the joins).                  *)
ProceduresFollowMessages ==
  /\ \A p \in SbiProcs :
       /\ SbiProcFlow(p) = SbiFlow(p.req)
       /\ p.rsp # 0 => SbiFlow(p.rsp) = SbiProcFlow(p)
  /\ \A p \in n4Procs :
       N4ProcFlow(p) # 0 =>
         \E t \in n4[p.req].teids \cup n4[p.rsp].teids : TunnelClaims(t) = {N4ProcFlow(p)}

(* The success rate counts an outcome once that is seen both in NAS and on the NGAP       *)
(* message carrying it: one message ends at most one procedure of a kind, a flow completes *)
(* one from NGAP alone only as its first of the kind, no start is used twice, and every    *)
(* attach latency belongs to a counted outcome (build_flows, compute).                     *)
OutcomesCountedOnce ==
  /\ \A a, b \in Successes \cup Failures :
       LET p == n2Procs[a]  q == n2Procs[b] IN
       a < b /\ p.flow = q.flow /\ p.kind = q.kind =>
         /\ p.end # q.end
         /\ q.level = "nas"
         /\ p.level = q.level => p.start # q.start
  /\ Cardinality(AttachTimes) <= Cardinality(Successes) + Cardinality(Failures)

(* A mean is made of distinct exchanges: no create and no establishment is a leg of two  *)
(* samples of a latency. A SetupResponse is one only for two sessions of one flow, and a  *)
(* session's sample ends at the only item of the flow that confirms the session           *)
(* (cross_plane_kpis, "exactly once per session", "nothing is ever estimated").           *)
LegsAreNotShared ==
  /\ \A x, y \in SbiToN4 : x # y => x.from # y.from /\ x.to # y.to
  /\ \A latency \in {N4ToN2, SbiToN2} : \A x, y \in latency :
       x # y =>
         /\ x.from # y.from
         /\ x.to[1] = y.to[1] =>
              x.flow = y.flow /\ x.session # y.session /\ NoSession \notin {x.session, y.session}
  /\ \A x \in {x \in N4ToN2 \cup SbiToN2 : x.session # NoSession} :
       \A i \in SetupResponses(x.flow) :
         x.session \in DOMAIN n2[i].msg.confirmed =>
           i = x.to[1] /\ n2[i].msg.confirmed[x.session] = 1
=============================================================================
