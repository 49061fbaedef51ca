------------------------------- MODULE Impact -------------------------------
(***************************************************************************)
(* The impact command: `assess` grades a proposed Change from the evidence *)
(* on the desk (rubric.py, evidence.py, plan.py), `annotate` records a     *)
(* human's outcome, first in the Change History, then on the report        *)
(* (cli.py).  Annotations run at the same time, and each of their writes   *)
(* may stop half-way: the history is a text file whose last line then has  *)
(* no end, and a report may be left with the heading of an outcome alone.  *)
(***************************************************************************)
EXTENDS Radius, Sorting

CONSTANTS
  Changes,       \* type, target as written, the role it names, and the report it has
  Desks,         \* the evidence an assessment is given, but for the history
  Annotators     \* the invocations of `impact annotate`

\* A Change is of a ChangeType; what was decoded or read is finite, and N2 is listed by flow.
ASSUME EvidenceAssumption ==
  /\ \A c \in Changes : c.type \in {"upgrade", "config"}
  /\ \A d \in Desks :
       /\ d.capture.messages \in Seq(Range(d.capture.messages))
       /\ \A m \in Range(d.capture.messages) : m.plane = "n2" => m.flow # "none"
       /\ d.capture.procedures \in Seq(Range(d.capture.procedures))
       /\ d.plan \in Seq(Range(d.plan))
       /\ IsFiniteSet(d.specgraph.entities)

VARIABLES
  desk,          \* stores, capture, specgraph, plan; whether the history is given
  proved,        \* the roles its capture proves, in the order of their proofs
  history,       \* the lines of the Change History: the records written on each
  reports,       \* the outcomes on each report, those cut short included
  annotation,    \* each annotator's place, change and outcome
  assessed       \* the last Impact Report, and the history it was graded from

impactVars == <<desk, proved, history, reports, annotation, assessed>>

Outcomes == {"applied", "rejected", "rolled-back"}
FailedOutcomes == {"rejected", "rolled-back"}
NotAssessed == [change |-> "none", grade |-> "none", read |-> <<>>]
NoAnnotation == [pc |-> "idle", change |-> "none", outcome |-> "none"]

-----------------------------------------------------------------------------
\* What is read: evidence.py.

\* A line is a record when it holds one, and all of it but the newline.
IsChangeRecord(line) == Len(line.records) = 1 /\ line.records[1].shape # "part"
Records == {line.records[1] : line \in {l \in Range(history) : IsChangeRecord(l)}}

\* The file exists once it was opened to append to it.
HistoryConsulted == desk.historyGiven /\ history # <<>>

Stores == {desk.triage, desk.dispatch, desk.reports}

-----------------------------------------------------------------------------
\* rubric.py

\* Mutant: only what was rolled back is a failure.
RolledBack(change) ==
  \E r \in Records : /\ HistoryConsulted
                     /\ r.change.type = change.type /\ r.change.target = change.target
                     /\ r.outcome = "rolled-back"

FailedBefore(change) ==
  \E r \in Records : /\ HistoryConsulted
                     /\ r.change.type = change.type /\ r.change.target = change.target
                     /\ r.outcome \in FailedOutcomes

History(change) ==
  CASE FailedBefore(change) -> "failure match"
    [] ~FailedBefore(change) /\ (\E s \in Stores : change.role \in s.mentions) -> "contact"
    [] OTHER -> IF HistoryConsulted /\ \A s \in Stores : s.consulted THEN "none" ELSE "unknown"

Sized(count) == IF count >= 2 THEN "wide" ELSE "narrow"

\* A peer without a role keeps a small radius unknown.
BlastFactor(change) ==
  LET target == Target(proved, change.role)
      partners == Partners(desk.capture, proved, target)
      references == ReferencePartners(desk.specgraph, change.role)
  IN CASE change.type = "config" -> "unknown"
       [] change.type # "config" /\ target # Unlocated ->
            IF UnknownPeers(desk.capture, proved, target) # {} /\ Cardinality(partners) < 2
            THEN "unknown" ELSE Sized(Cardinality(partners))
       [] OTHER -> IF references # {} THEN Sized(Cardinality(references)) ELSE "unknown"

Criticality(change) ==
  LET target == Target(proved, change.role)
      hits == \/ target # Unlocated /\ CaptureHits(desk.capture, proved, target) # {}
              \/ SpecgraphHits(desk.specgraph, change.role) # {}
      quiet == IF target # Unlocated THEN UnknownPeers(desk.capture, proved, target) = {}
               ELSE ReferencePartners(desk.specgraph, change.role) # {}
  IN CASE change.type = "config" -> "unknown"
       [] change.type # "config" /\ hits -> "critical"
       [] OTHER -> IF quiet THEN "non-critical" ELSE "unknown"

\* grade_matrix
Matrix(historical, criticality, blast) ==
  CASE historical = "failure match" \/ criticality = "critical" -> "HIGH"
    [] /\ historical # "failure match" /\ criticality # "critical"
       /\ historical = "contact" \/ blast = "wide" -> "MEDIUM"
    [] OTHER -> IF historical = "none" /\ criticality = "non-critical" /\ blast = "narrow"
                THEN "LOW" ELSE "INSUFFICIENT EVIDENCE"

-----------------------------------------------------------------------------
\* The report.

\* Affected functions, each with its KPIs; a config Change has none.
Affected(change) ==
  LET target == Target(proved, change.role) IN
  IF change.type = "config" \/ target = Unlocated THEN {}
  ELSE {[ip |-> ip, role |-> RoleAt(proved, ip).role,
         kpis |-> Kpis(desk.capture, proved, ip)] : ip \in Partners(desk.capture, proved, target)}

\* The plan's items within the radius; with no target, none.
Within(change) ==
  LET roles == {change.role} \cup {nf.role : nf \in Affected(change)} IN
  IF change.type = "config" \/ Target(proved, change.role) = Unlocated THEN {}
  ELSE {k \in DOMAIN desk.plan : desk.plan[k].nf \in roles}

\* The target's items come before its partners', in plan order each (proximity_of).
Nearer(change, j, k) ==
  \/ desk.plan[j].nf = change.role /\ desk.plan[k].nf # change.role
  \/ (desk.plan[j].nf = change.role <=> desk.plan[k].nf = change.role) /\ j < k

Placed(change) ==
  SortedBy(Within(change), {p \in Within(change) \X Within(change) : Nearer(change, p[1], p[2])})

Assess(change) ==
  LET target == Target(proved, change.role) IN
  /\ assessed' =
       [change |-> change,
        grade |-> Matrix(History(change), Criticality(change), BlastFactor(change)),
        read |-> IF desk.historyGiven THEN history ELSE <<>>,
        affected |-> Affected(change),
        unknown |-> IF change.type = "config" THEN 0
                    ELSE Cardinality(UnknownPeers(desk.capture, proved, target)),
        placed |-> Placed(change),
        excluded |-> Len(desk.plan) - Len(Placed(change))]
  /\ UNCHANGED <<desk, proved, history, reports, annotation>>

-----------------------------------------------------------------------------
\* annotate

Goes(a, where) == annotation' = [annotation EXCEPT ![a].pc = where]

\* The report is checked before anything is written.
BeginAnnotation(a, change, outcome) ==
  /\ annotation[a].pc = "idle"
  /\ annotation' = [annotation EXCEPT ![a] =
       [pc |-> IF reports[change.report] = <<>> THEN "record" ELSE "refused",
        change |-> change, outcome |-> outcome]]
  /\ UNCHANGED <<desk, proved, history, reports, assessed>>

\* The shape is what the write left: "whole", "no newline", or a "part" that is no record.
Record(a, shape) ==
  [by |-> a, change |-> annotation[a].change, outcome |-> annotation[a].outcome, shape |-> shape]

\* An append goes to the last line when that line has no end.
HistoryWith(record) ==
  LET ended == record.shape = "whole" IN
  IF history # <<>> /\ ~Last(history).ended
  THEN Append(Front(history), [records |-> Append(Last(history).records, record), ended |-> ended])
  ELSE Append(history, [records |-> <<record>>, ended |-> ended])

\* The file is created by its opening: one line, still empty.
OpenedHistory == IF history = <<>> THEN <<[records |-> <<>>, ended |-> FALSE]>> ELSE history

Outcome(a, whole) == [by |-> a, outcome |-> annotation[a].outcome, whole |-> whole]

ReportsWith(a, whole) ==
  [reports EXCEPT ![annotation[a].change.report] = Append(@, Outcome(a, whole))]

\* Mutant: the report is annotated before the record is written.
ReportFirst(a) ==
  /\ annotation[a].pc = "record"
  /\ reports' = ReportsWith(a, TRUE)
  /\ Goes(a, "report")
  /\ UNCHANGED <<desk, proved, history, assessed>>

AppendRecord(a) ==
  /\ annotation[a].pc = "record"
  /\ history' = HistoryWith(Record(a, "whole"))
  /\ Goes(a, "report")
  /\ UNCHANGED <<desk, proved, reports, assessed>>

\* The disk is full, or the process is stopped, before or inside the write.
RecordTorn(a) ==
  /\ annotation[a].pc = "record"
  /\ history' \in {history, OpenedHistory}
                  \cup {HistoryWith(Record(a, shape)) : shape \in {"part", "no newline"}}
  /\ Goes(a, "failed")
  /\ UNCHANGED <<desk, proved, reports, assessed>>

AnnotateReport(a) ==
  /\ annotation[a].pc = "report"
  /\ reports' = ReportsWith(a, TRUE)
  /\ Goes(a, "done")
  /\ UNCHANGED <<desk, proved, history, assessed>>

\* The report cannot be written, or only in part: the record stays.  A retry adds another
\* record, unless the heading was written, which refuses every later annotation.
ReportFails(a) ==
  /\ annotation[a].pc = "report"
  /\ reports' \in {reports, ReportsWith(a, FALSE)}
  /\ Goes(a, "failed")
  /\ UNCHANGED <<desk, proved, history, assessed>>

ImpactInit ==
  /\ desk \in Desks
  /\ proved = InferRoles(desk.capture)
  /\ history = <<>>
  /\ reports = [r \in {c.report : c \in Changes} |-> <<>>]
  /\ annotation = [a \in Annotators |-> NoAnnotation]
  /\ assessed = NotAssessed

Annotate(a) ==
  \/ \E c \in Changes, o \in Outcomes : BeginAnnotation(a, c, o)
  \/ AppendRecord(a) \/ RecordTorn(a) \/ AnnotateReport(a) \/ ReportFails(a)

ImpactNext ==
  \/ \E c \in Changes : Assess(c)
  \/ \E a \in Annotators : Annotate(a)

ImpactSpec == ImpactInit /\ [][ImpactNext]_impactVars

-----------------------------------------------------------------------------

(* LOW is a statement of knowledge (rubric.py: "an unknowable risk is never graded LOW").  *)
(* The Change History was read and held no failure of that target and type, and every      *)
(* other store was read and does not mention the role.  In the messages themselves every   *)
(* other end has a proved role, at most one is known by another role than the upgraded     *)
(* one, and no message that proves the target or that one is of a critical interface; for  *)
(* a target no message locates, the specgraph gives one partner.  No reference of the      *)
(* specgraph is critical.                                                                  *)
LowIsKnown ==
  assessed.grade = "LOW" =>
    LET change == assessed.change
        target == Target(proved, change.role)
        exchanged == {m \in Range(desk.capture.messages) : target.ip \in {m.src, m.dst}}
        others == (UNION {{m.src, m.dst} : m \in exchanged}) \ {target.ip}
        partners == {ip \in others : RoleAt(proved, ip).role # change.role}
        proving == {target.at} \cup {RoleAt(proved, ip).at : ip \in partners}
    IN /\ change.type = "upgrade"
       /\ desk.historyGiven /\ assessed.read # <<>>
       /\ \A line \in Range(assessed.read) : IsChangeRecord(line) =>
            LET r == line.records[1] IN
            ~(/\ r.change.type = "upgrade" /\ r.change.target = change.target
              /\ r.outcome \in FailedOutcomes)
       /\ \A s \in Stores : s.consulted /\ change.role \notin s.mentions
       /\ SpecgraphHits(desk.specgraph, change.role) = {}
       /\ IF target # Unlocated
          THEN /\ \A ip \in others : \E p \in Range(proved) : p.ip = ip
               /\ Cardinality(partners) <= 1
               /\ \A i \in proving :
                    ~IsCritical(desk.capture.messages[i].name, desk.capture.messages[i].family)
          ELSE Cardinality(ReferencePartners(desk.specgraph, change.role)) = 1

(* A failure is never forgotten: once annotate has returned a failed outcome of a Change,  *)
(* each later assessment of that target and type that is given the history grades it HIGH, *)
(* unless a write that was not whole stands on the record's line (cli.py: "the store is    *)
(* what future assessments grade from").                                                   *)
FailuresGradeHigh ==
  [][\A a \in Annotators :
       /\ annotation[a].pc = "done" /\ annotation[a].outcome \in FailedOutcomes
       /\ assessed' # assessed /\ desk.historyGiven
       /\ assessed'.change.type = annotation[a].change.type
       /\ assessed'.change.target = annotation[a].change.target
       => \/ assessed'.grade = "HIGH"
          \/ \E line \in Range(history) :
               /\ \E r \in Range(line.records) : r.by = a
               /\ \E r \in Range(line.records) : r.shape # "whole"]_impactVars

(* The store is first: whatever stands on a report, whole or cut short, was written whole  *)
(* to the history before, by the same annotation and with the same outcome, and an         *)
(* annotation that was refused wrote nothing to either, whichever write failed and whoever *)
(* else annotates (cli.py: "an already-annotated report writes nothing").                  *)
AnnotatedIsRecorded ==
  /\ \A c \in Changes : \A k \in DOMAIN reports[c.report] :
       \E line \in Range(history) : \E r \in Range(line.records) :
         /\ r.by = reports[c.report][k].by /\ r.outcome = reports[c.report][k].outcome
         /\ r.change.report = c.report /\ r.shape = "whole"
  /\ \A a \in Annotators : annotation[a].pc = "refused" =>
       /\ \A c \in Changes : \A k \in DOMAIN reports[c.report] : reports[c.report][k].by # a
       /\ \A line \in Range(history) : \A r \in Range(line.records) : r.by # a

(* The report leaves nothing out: every peer of the target is affected, unknown or of its  *)
(* role; each procedure of a flow in which the target meets an affected function is in     *)
(* that function's KPIs; the items of the plan are listed, the target's first and then its *)
(* partners', each in plan order, or counted as excluded ("never dropped silently").       *)
ReportOmitsNothing ==
  assessed # NotAssessed =>
    LET change == assessed.change
        target == Target(proved, change.role)
        listed == Range(assessed.placed)
        distance(k) == IF desk.plan[k].nf = change.role THEN 0 ELSE 1
        met(ip) == {m.flow : m \in {m \in Range(desk.capture.messages) :
                                      m.plane = "n2" /\ {m.src, m.dst} = {ip, target.ip}}}
    IN /\ change.type = "upgrade" /\ target # Unlocated =>
            Cardinality(Peers(desk.capture, target)) =
              Cardinality(assessed.affected) + assessed.unknown
                + Cardinality({ip \in Peers(desk.capture, target) :
                                 RoleAt(proved, ip).role = change.role})
       /\ \A nf \in assessed.affected :
            Cardinality({k \in DOMAIN desk.capture.procedures :
                           /\ desk.capture.procedures[k].plane = "n2"
                           /\ desk.capture.procedures[k].flow \in met(nf.ip)}) <= nf.kpis.count
       /\ assessed.excluded = Cardinality((DOMAIN desk.plan) \ listed)
       /\ \A j, k \in DOMAIN assessed.placed :
            j < k => \/ distance(assessed.placed[j]) < distance(assessed.placed[k])
                     \/ /\ distance(assessed.placed[j]) = distance(assessed.placed[k])
                        /\ assessed.placed[j] < assessed.placed[k]
       /\ \A k \in DOMAIN desk.plan :
            desk.plan[k].nf \in {nf.role : nf \in assessed.affected} => k \in listed

(* What a comment of criticality.py says: "any critical traffic in the capture is visible  *)
(* at those pointers"; no message of a critical interface that the upgraded function       *)
(* exchanges escapes the criticality factor.                                               *)
CriticalTrafficIsSeen ==
  assessed # NotAssessed /\ assessed.change.type = "upgrade" =>
    LET target == Target(proved, assessed.change.role) IN
    \A m \in Range(desk.capture.messages) :
      target # Unlocated /\ target.ip \in {m.src, m.dst} /\ IsCritical(m.name, m.family) =>
        assessed.grade = "HIGH"
=============================================================================
