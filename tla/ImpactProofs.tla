---------------------------- MODULE ImpactProofs ----------------------------
(***************************************************************************)
(* What annotate promises, proved for any evidence, any Changes and any    *)
(* number of annotations at the same time; and what a grade of LOW means,  *)
(* proved for any capture and any specgraph.                               *)
(***************************************************************************)
EXTENDS Impact, SortingProofs, SequenceTheorems, TLAPS

(* Annotations.                                                            *)

Shapes == {"whole", "no newline", "part"}
Written == [by : Annotators, change : Changes, outcome : Outcomes, shape : Shapes]
Lines == [records : Seq(Written), ended : BOOLEAN]

\* Only the last record of a line may be whole, and the line has its end when it is.
LinesAreWritten ==
  /\ history \in Seq(Lines)
  /\ \A n \in DOMAIN history :
       LET records == history[n].records IN
       /\ history[n].ended => records # <<>>
       /\ records # <<>> => (history[n].ended <=> records[Len(records)].shape = "whole")
       /\ \A k \in 1..(Len(records) - 1) : records[k].shape # "whole"

AnnotationsAreTyped ==
  /\ annotation \in [Annotators -> [pc : {"idle", "record", "refused", "report", "failed", "done"},
                                    change : Changes \cup {"none"},
                                    outcome : Outcomes \cup {"none"}]]
  /\ \A a \in Annotators :
       annotation[a].pc # "idle" => annotation[a].change \in Changes /\ annotation[a].outcome \in Outcomes

ReportsAreTyped ==
  reports \in [{c.report : c \in Changes} -> Seq([by : Annotators, outcome : Outcomes, whole : BOOLEAN])]

\* The whole record of a's outcome stands on line n, as its k-th.
StandsAt(a, n, k) ==
  /\ n \in DOMAIN history /\ k \in DOMAIN history[n].records
  /\ history[n].records[k].by = a
  /\ history[n].records[k].change = annotation[a].change
  /\ history[n].records[k].outcome = annotation[a].outcome
  /\ history[n].records[k].shape = "whole"

Stands(a) == \E n, k \in Nat : StandsAt(a, n, k)

RecordedFirst ==
  \A a \in Annotators : annotation[a].pc \in {"report", "done"} => Stands(a)

\* What is on a report is of an annotation that came to its second write.
ReportedIsRecorded ==
  \A c \in Changes : \A k \in DOMAIN reports[c.report] :
    LET by == reports[c.report][k].by IN
    /\ annotation[by].pc \in {"done", "failed"}
    /\ annotation[by].change.report = c.report
    /\ annotation[by].outcome = reports[c.report][k].outcome
    /\ Stands(by)

Wrote(a) == \E n \in DOMAIN history : \E k \in DOMAIN history[n].records : history[n].records[k].by = a

NotYetWriting ==
  \A a \in Annotators : annotation[a].pc \in {"idle", "record", "refused"} => ~Wrote(a)

AnnotationInv ==
  /\ LinesAreWritten
  /\ AnnotationsAreTyped
  /\ ReportsAreTyped
  /\ RecordedFirst
  /\ ReportedIsRecorded
  /\ NotYetWriting

-----------------------------------------------------------------------------
(* Appends to the history.                                                 *)

\* A step keeps every record where it is, and adds none but a's.
Same(n, k) ==
  /\ n \in DOMAIN history /\ k \in DOMAIN history[n].records
  /\ n \in DOMAIN history' /\ k \in DOMAIN history'[n].records
  /\ history'[n].records[k] = history[n].records[k]

RecordsStay == \A n \in DOMAIN history : \A k \in DOMAIN history[n].records : Same(n, k)

OnlyBy(a) ==
  \A n \in DOMAIN history' : \A k \in DOMAIN history'[n].records :
    Same(n, k) \/ history'[n].records[k].by = a

\* Appending a record keeps every record where it is, and adds the new one at the end.
LEMMA AppendKeepsRecords ==
  ASSUME LinesAreWritten, NEW record \in Written, history' = HistoryWith(record)
  PROVE  /\ LinesAreWritten' /\ RecordsStay /\ OnlyBy(record.by)
         /\ \E n, k \in Nat : /\ n \in DOMAIN history' /\ k \in DOMAIN history'[n].records
                              /\ history'[n].records[k] = record
<1> DEFINE N == Len(history)
<1>0. N \in Nat
  BY LenProperties DEF LinesAreWritten
<1>1. history \in Seq(Lines) /\ N \in Nat /\ DOMAIN history = 1..N
  BY LenProperties DEF LinesAreWritten
<1>e. PICK ended \in BOOLEAN : ended = (record.shape = "whole")
  BY Zenon
<1>2. CASE history # <<>> /\ ~Last(history).ended
  <2>1. N \in 1..N /\ Last(history) = history[N]
    BY <1>1, <1>2, EmptySeq DEF Last
  <2>2. PICK line : line = history[N]
    OBVIOUS
  <2>3. line \in Lines /\ line.records \in Seq(Written)
    <3>1. line \in Lines
      BY <1>1, <2>1, <2>2, ElementOfSeq
    <3> QED
      BY <3>1 DEF Lines
  <2>4. PICK L : L = Len(line.records)
    OBVIOUS
  <2>5. L \in Nat /\ DOMAIN line.records = 1..L /\ (L # 0 => line.records # <<>>)
    BY <2>3, <2>4, EmptySeq, LenProperties
  <2>6. PICK recs : recs = Append(line.records, record)
    OBVIOUS
  <2>7. /\ recs \in Seq(Written) /\ Len(recs) = L + 1 /\ DOMAIN recs = 1..(L + 1)
        /\ recs[L + 1] = record /\ \A k \in 1..L : recs[k] = line.records[k]
    BY <2>3, <2>4, <2>5, <2>6, AppendProperties
  <2>8. PICK new : new = [records |-> recs, ended |-> ended]
    OBVIOUS
  <2>9. new \in Lines /\ new.records = recs /\ new.ended = ended
    BY <1>e, <2>7, <2>8 DEF Lines
  <2>10. /\ Front(history) \in Seq(Lines) /\ Len(Front(history)) = N - 1
         /\ \A n \in 1..(N - 1) : Front(history)[n] = history[n]
    <3>1. \A n \in 1..(N - 1) : history[n] \in Lines
      BY <1>1, ElementOfSeq
    <3>2. /\ SubSeq(history, 1, N - 1) \in Seq(Lines)
          /\ Len(SubSeq(history, 1, N - 1)) = N - 1
          /\ \A n \in 1..(N - 1) : SubSeq(history, 1, N - 1)[n] = history[n]
      BY <1>1, <2>1, <3>1, SubSeqProperties
    <3> QED
      BY <3>2 DEF Front
  <2>11. history' = Append(Front(history), new)
    BY <1>2, <1>e, <2>1, <2>2, <2>6, <2>8, Zenon DEF HistoryWith
  <2>12. /\ history' \in Seq(Lines) /\ DOMAIN history' = 1..N
         /\ history'[N] = new /\ \A n \in 1..(N - 1) : history'[n] = history[n]
    <3>1. PICK front : front = Front(history)
      OBVIOUS
    <3>2. /\ history' \in Seq(Lines) /\ Len(history') = N /\ history'[N] = new
          /\ \A n \in 1..(N - 1) : history'[n] = front[n]
      <4>1. front \in Seq(Lines) /\ Len(front) = N - 1 /\ history' = Append(front, new)
        BY <2>10, <2>11, <3>1
      <4>2. /\ history' \in Seq(Lines) /\ Len(history') = Len(front) + 1
            /\ history'[Len(front) + 1] = new
            /\ \A n \in 1..Len(front) : history'[n] = front[n]
        BY <2>9, <4>1, AppendProperties
      <4>3. Len(front) + 1 = N
        BY <1>0, <4>1
      <4> QED
        BY <4>1, <4>2, <4>3
    <3> QED
      BY <2>10, <3>1, <3>2, LenProperties
  <2>13. \A k \in 1..L : line.records[k].shape # "whole"
    <3>1. /\ line.records # <<>> => line.records[L].shape # "whole"
          /\ \A k \in 1..(L - 1) : line.records[k].shape # "whole"
      BY <1>1, <1>2, <2>1, <2>2, <2>4 DEF LinesAreWritten
    <3> QED
      BY <2>5, <3>1
  <2>14. \A k \in 1..L : recs[k].shape # "whole"
    BY <2>5, <2>7, <2>13
  <2>15. LinesAreWritten'
    <3> SUFFICES ASSUME NEW n \in 1..N
                 PROVE  LET records == history'[n].records IN
                        /\ history'[n].ended => records # <<>>
                        /\ records # <<>> =>
                             (history'[n].ended <=> records[Len(records)].shape = "whole")
                        /\ \A k \in 1..(Len(records) - 1) : records[k].shape # "whole"
      BY <2>12, Zenon DEF LinesAreWritten
    <3>1. CASE n = N
      <4>1. recs # <<>> /\ Len(recs) = L + 1 /\ (L + 1) - 1 = L
        BY <2>5, <2>7
      <4>2. history'[n].records = recs /\ history'[n].ended = (recs[L + 1].shape = "whole")
        BY <1>e, <2>7, <2>9, <2>12, <3>1
      <4> QED
        BY <2>14, <4>1, <4>2
    <3>2. CASE n # N
      <4>1. n \in 1..(N - 1)
        BY <1>0, <3>2
      <4>2. history'[n] = history[n] /\ n \in DOMAIN history
        BY <1>1, <2>12, <4>1
      <4> QED
        BY <4>2, Zenon DEF LinesAreWritten
    <3> QED
      BY <3>1, <3>2
  <2>16. RecordsStay
    <3> SUFFICES ASSUME NEW n \in DOMAIN history, NEW k \in DOMAIN history[n].records
                 PROVE  Same(n, k)
      BY DEF RecordsStay
    <3>1. CASE n = N
      BY <2>1, <2>2, <2>5, <2>7, <2>9, <2>12, <3>1 DEF Same
    <3>2. CASE n # N
      <4>1. n \in 1..(N - 1)
        BY <1>0, <1>1, <3>2
      <4> QED
        BY <1>1, <2>12, <4>1 DEF Same
    <3> QED
      BY <3>1, <3>2
  <2>17. OnlyBy(record.by)
    <3> SUFFICES ASSUME NEW n \in 1..N, NEW k \in DOMAIN history'[n].records
                 PROVE  Same(n, k) \/ history'[n].records[k].by = record.by
      BY <2>12 DEF OnlyBy
    <3>1. CASE n = N
      <4>1. history'[n].records = recs /\ history[n].records = line.records
        BY <2>2, <2>9, <2>12, <3>1
      <4>2. CASE k = L + 1
        BY <2>7, <4>1, <4>2
      <4>3. CASE k # L + 1
        <5>1. k \in 1..L
          BY <2>5, <2>7, <4>1, <4>3
        <5> QED
          BY <1>1, <2>5, <2>7, <2>12, <4>1, <5>1 DEF Same
      <4> QED
        BY <4>2, <4>3
    <3>2. CASE n # N
      <4>1. n \in 1..(N - 1)
        BY <1>0, <3>2
      <4> QED
        BY <1>1, <2>12, <4>1 DEF Same
    <3> QED
      BY <3>1, <3>2
  <2>18. /\ N \in Nat /\ L + 1 \in Nat /\ N \in DOMAIN history' /\ L + 1 \in DOMAIN history'[N].records
         /\ history'[N].records[L + 1] = record
    BY <1>1, <2>1, <2>5, <2>7, <2>9, <2>12
  <2> QED
    BY <2>15, <2>16, <2>17, <2>18
<1>3. CASE ~(history # <<>> /\ ~Last(history).ended)
  <2>1. PICK recs : recs = <<record>>
    OBVIOUS
  <2>2. recs \in Seq(Written) /\ recs # <<>> /\ Len(recs) = 1 /\ DOMAIN recs = {1} /\ recs[1] = record
    BY <2>1
  <2>3. PICK new : new = [records |-> recs, ended |-> ended]
    OBVIOUS
  <2>4. new \in Lines /\ new.records = recs /\ new.ended = ended
    BY <1>e, <2>2, <2>3 DEF Lines
  <2>5. history' = Append(history, new)
    BY <1>3, <1>e, <2>1, <2>3, Zenon DEF HistoryWith
  <2>6. /\ history' \in Seq(Lines) /\ DOMAIN history' = 1..(N + 1)
        /\ history'[N + 1] = new /\ \A n \in 1..N : history'[n] = history[n]
    BY <1>1, <2>4, <2>5, AppendProperties
  <2>7. LinesAreWritten'
    <3> SUFFICES ASSUME NEW n \in 1..(N + 1)
                 PROVE  LET records == history'[n].records IN
                        /\ history'[n].ended => records # <<>>
                        /\ records # <<>> =>
                             (history'[n].ended <=> records[Len(records)].shape = "whole")
                        /\ \A k \in 1..(Len(records) - 1) : records[k].shape # "whole"
      BY <2>6, Zenon DEF LinesAreWritten
    <3>1. CASE n = N + 1
      <4>1. history'[n].records = recs /\ history'[n].ended = (recs[1].shape = "whole")
        BY <1>e, <2>2, <2>4, <2>6, <3>1
      <4>2. Len(recs) = 1 /\ recs # <<>> /\ 1..(Len(recs) - 1) = {}
        BY <2>2
      <4> QED
        BY <4>1, <4>2
    <3>2. CASE n # N + 1
      <4>1. n \in 1..N
        BY <1>1, <3>2
      <4>2. history'[n] = history[n] /\ n \in DOMAIN history
        BY <1>1, <2>6, <4>1
      <4> QED
        BY <4>2, Zenon DEF LinesAreWritten
    <3> QED
      BY <3>1, <3>2
  <2>8. /\ N + 1 \in Nat /\ 1 \in Nat /\ N + 1 \in DOMAIN history' /\ 1 \in DOMAIN history'[N + 1].records
        /\ history'[N + 1].records[1] = record
    BY <1>1, <2>2, <2>4, <2>6
  <2>9. \A n \in DOMAIN history : n \in DOMAIN history' /\ history'[n] = history[n]
    BY <1>1, <2>6
  <2>10. RecordsStay
    BY <2>9 DEF RecordsStay, Same
  <2>11. OnlyBy(record.by)
    <3> SUFFICES ASSUME NEW n \in 1..(N + 1), NEW k \in DOMAIN history'[n].records
                 PROVE  Same(n, k) \/ history'[n].records[k].by = record.by
      BY <2>6 DEF OnlyBy
    <3>1. CASE n = N + 1
      BY <2>2, <2>4, <2>6, <3>1
    <3>2. CASE n # N + 1
      <4>1. n \in DOMAIN history
        BY <1>1, <3>2
      <4> QED
        BY <2>9, <4>1 DEF Same
    <3> QED
      BY <3>1, <3>2
  <2> QED
    BY <2>7, <2>8, <2>10, <2>11
<1> QED
  BY <1>2, <1>3

\* Opening the history to append to it writes nothing.
LEMMA OpeningKeepsRecords ==
  ASSUME LinesAreWritten, history' \in {history, OpenedHistory}, NEW a
  PROVE  LinesAreWritten' /\ RecordsStay /\ OnlyBy(a)
<1>1. CASE history' = history
  BY <1>1 DEF LinesAreWritten, RecordsStay, OnlyBy, Same
<1>2. CASE history = <<>> /\ history' = <<[records |-> <<>>, ended |-> FALSE]>>
  <2>1. PICK line : line = [records |-> <<>>, ended |-> FALSE]
    OBVIOUS
  <2>2. line \in Lines /\ line.records = <<>> /\ ~line.ended
    BY <2>1, EmptySeq DEF Lines
  <2>3. history' \in Seq(Lines) /\ DOMAIN history' = {1} /\ history'[1] = line
    BY <1>2, <2>1, <2>2
  <2>4. Len(<<>>) = 0 /\ DOMAIN <<>> = {}
    OBVIOUS
  <2>5. LinesAreWritten'
    BY <2>2, <2>3, <2>4 DEF LinesAreWritten
  <2>6. RecordsStay /\ OnlyBy(a)
    BY <1>2, <2>2, <2>3, <2>4 DEF RecordsStay, OnlyBy
  <2> QED
    BY <2>5, <2>6
<1> QED
  BY <1>1, <1>2 DEF OpenedHistory

LEMMA StandingStays ==
  ASSUME RecordsStay, NEW a, Stands(a),
         annotation'[a].change = annotation[a].change, annotation'[a].outcome = annotation[a].outcome
  PROVE  Stands(a)'
<1>1. PICK n, k \in Nat : StandsAt(a, n, k)
  BY DEF Stands
<1>2. StandsAt(a, n, k)'
  BY <1>1 DEF StandsAt, RecordsStay, Same
<1> QED
  BY <1>2 DEF Stands

-----------------------------------------------------------------------------
(* Each step of an annotation keeps the invariant.                         *)

LEMMA AnnotationsStart == ImpactInit => AnnotationInv
<1> SUFFICES ASSUME ImpactInit PROVE AnnotationInv
  OBVIOUS
<1>1. LinesAreWritten
  BY EmptySeq DEF ImpactInit, LinesAreWritten
<1>2. AnnotationsAreTyped
  BY DEF ImpactInit, AnnotationsAreTyped, NoAnnotation
<1>3. ReportsAreTyped
  BY EmptySeq DEF ImpactInit, ReportsAreTyped
<1>4. RecordedFirst
  BY DEF ImpactInit, RecordedFirst, NoAnnotation
<1>5. ReportedIsRecorded
  BY DEF ImpactInit, ReportedIsRecorded
<1>6. NotYetWriting
  BY DEF ImpactInit, NotYetWriting, Wrote
<1> QED
  BY <1>1, <1>2, <1>3, <1>4, <1>5, <1>6 DEF AnnotationInv

LEMMA EntriesAreAnnotations ==
  ASSUME ReportsAreTyped, NEW c \in Changes, NEW k \in DOMAIN reports[c.report]
  PROVE  reports[c.report][k].by \in Annotators
<1>1. PICK Entry : Entry = [by : Annotators, outcome : Outcomes, whole : BOOLEAN]
  OBVIOUS
<1>2. PICK entries : entries = reports[c.report]
  OBVIOUS
<1>3. entries \in Seq(Entry)
  BY <1>1, <1>2 DEF ReportsAreTyped
<1>4. k \in 1..Len(entries)
  BY <1>2, <1>3, LenProperties
<1>5. entries[k] \in Entry
  BY <1>3, <1>4, ElementOfSeq
<1> QED
  BY <1>1, <1>2, <1>5

\* A step that leaves the reports, and what came to its end, as they are.
LEMMA ReportedStays ==
  ASSUME AnnotationInv, reports' = reports, RecordsStay,
         \A b \in Annotators : annotation[b].pc \in {"done", "failed"} => annotation'[b] = annotation[b]
  PROVE  ReportedIsRecorded'
<1> SUFFICES ASSUME NEW c \in Changes, NEW k \in DOMAIN reports[c.report],
                    NEW by, by = reports[c.report][k].by
             PROVE  /\ annotation'[by].pc \in {"done", "failed"}
                    /\ annotation'[by].change.report = c.report
                    /\ annotation'[by].outcome = reports[c.report][k].outcome
                    /\ Stands(by)'
  BY DEF ReportedIsRecorded
<1>1. by \in Annotators
  BY EntriesAreAnnotations DEF AnnotationInv
<1>2. annotation[by].pc \in {"done", "failed"} /\ Stands(by)
  BY DEF AnnotationInv, ReportedIsRecorded
<1>3. annotation'[by] = annotation[by]
  BY <1>1, <1>2
<1>4. Stands(by)'
  BY <1>2, <1>3, StandingStays
<1> QED
  BY <1>2, <1>3, <1>4 DEF AnnotationInv, ReportedIsRecorded

LEMMA BeginKeeps ==
  ASSUME AnnotationInv, NEW a \in Annotators, NEW change \in Changes, NEW outcome \in Outcomes,
         BeginAnnotation(a, change, outcome)
  PROVE  AnnotationInv'
<1>1. PICK pc \in {"record", "refused"} :
        /\ annotation[a].pc = "idle"
        /\ annotation' = [annotation EXCEPT ![a] = [pc |-> pc, change |-> change, outcome |-> outcome]]
        /\ history' = history /\ reports' = reports
  BY DEF BeginAnnotation
<1>2. /\ annotation'[a] = [pc |-> pc, change |-> change, outcome |-> outcome]
      /\ \A b \in Annotators : b # a => annotation'[b] = annotation[b]
  BY <1>1 DEF AnnotationInv, AnnotationsAreTyped
<1>3. LinesAreWritten' /\ ReportsAreTyped' /\ RecordsStay
  BY <1>1 DEF AnnotationInv, LinesAreWritten, ReportsAreTyped, RecordsStay, Same
<1>4. AnnotationsAreTyped'
  BY <1>1, <1>2 DEF AnnotationInv, AnnotationsAreTyped
<1>5. RecordedFirst'
  <2> SUFFICES ASSUME NEW b \in Annotators, annotation'[b].pc \in {"report", "done"}
               PROVE  Stands(b)'
    BY DEF RecordedFirst
  <2>1. b # a /\ annotation'[b] = annotation[b]
    BY <1>2
  <2>2. Stands(b)
    BY <2>1 DEF AnnotationInv, RecordedFirst
  <2> QED
    BY <1>3, <2>1, <2>2, StandingStays
<1>6. ReportedIsRecorded'
  BY <1>1, <1>2, <1>3, ReportedStays
<1>7. NotYetWriting'
  <2> SUFFICES ASSUME NEW b \in Annotators, annotation'[b].pc \in {"idle", "record", "refused"}
               PROVE  ~Wrote(b)'
    BY DEF NotYetWriting
  <2>1. annotation[b].pc \in {"idle", "record", "refused"}
    BY <1>1, <1>2
  <2>2. ~Wrote(b)
    BY <2>1 DEF AnnotationInv, NotYetWriting
  <2> QED
    BY <1>1, <2>2 DEF Wrote
<1> QED
  BY <1>3, <1>4, <1>5, <1>6, <1>7 DEF AnnotationInv

\* The first write, in full or not: what it adds is a's.
LEMMA RecordKeeps ==
  ASSUME AnnotationInv, NEW a \in Annotators, annotation[a].pc = "record",
         LinesAreWritten', RecordsStay, OnlyBy(a), reports' = reports,
         NEW where \in {"report", "failed"}, where = "report" => Stands(a)',
         annotation' = [annotation EXCEPT ![a].pc = where]
  PROVE  AnnotationInv'
<1>1. /\ annotation'[a].pc = where /\ annotation'[a].change = annotation[a].change
      /\ annotation'[a].outcome = annotation[a].outcome
      /\ \A b \in Annotators : b # a => annotation'[b] = annotation[b]
  BY DEF AnnotationInv, AnnotationsAreTyped
<1>2. AnnotationsAreTyped' /\ ReportsAreTyped'
  BY <1>1 DEF AnnotationInv, AnnotationsAreTyped, ReportsAreTyped
<1>3. RecordedFirst'
  <2> SUFFICES ASSUME NEW b \in Annotators, annotation'[b].pc \in {"report", "done"}
               PROVE  Stands(b)'
    BY DEF RecordedFirst
  <2>1. CASE b # a
    <3>1. annotation'[b] = annotation[b] /\ Stands(b)
      BY <1>1, <2>1 DEF AnnotationInv, RecordedFirst
    <3> QED
      BY <3>1, StandingStays
  <2>2. CASE b = a
    BY <1>1, <2>2
  <2> QED
    BY <2>1, <2>2
<1>4. ReportedIsRecorded'
  BY <1>1, ReportedStays
<1>5. NotYetWriting'
  <2> SUFFICES ASSUME NEW b \in Annotators, annotation'[b].pc \in {"idle", "record", "refused"}
               PROVE  ~Wrote(b)'
    BY DEF NotYetWriting
  <2>1. b # a /\ annotation[b].pc \in {"idle", "record", "refused"}
    BY <1>1
  <2>2. ~Wrote(b)
    BY <2>1 DEF AnnotationInv, NotYetWriting
  <2> QED
    BY <2>1, <2>2 DEF Wrote, OnlyBy, Same
<1> QED
  BY <1>2, <1>3, <1>4, <1>5 DEF AnnotationInv

LEMMA AppendRecordKeeps ==
  ASSUME AnnotationInv, NEW a \in Annotators, AppendRecord(a)
  PROVE  AnnotationInv'
<1>1. PICK record : record = Record(a, "whole")
  OBVIOUS
<1>2. "whole" \in Shapes
  BY Zenon DEF Shapes
<1>3. /\ record \in Written
      /\ record.by = a /\ record.change = annotation[a].change
      /\ record.outcome = annotation[a].outcome /\ record.shape = "whole"
  BY <1>1, <1>2 DEF Record, Written, AppendRecord, AnnotationInv, AnnotationsAreTyped
<1>4. /\ LinesAreWritten' /\ RecordsStay /\ OnlyBy(a)
      /\ \E n, k \in Nat : /\ n \in DOMAIN history' /\ k \in DOMAIN history'[n].records
                           /\ history'[n].records[k] = record
  BY <1>1, <1>3, AppendKeepsRecords DEF AnnotationInv, AppendRecord
<1>5. /\ annotation[a].pc = "record" /\ reports' = reports
      /\ annotation' = [annotation EXCEPT ![a].pc = "report"]
  BY DEF AppendRecord, Goes
<1>6. annotation'[a].change = annotation[a].change /\ annotation'[a].outcome = annotation[a].outcome
  BY <1>5 DEF AnnotationInv, AnnotationsAreTyped
<1>7. Stands(a)'
  <2>1. PICK n, k \in Nat : /\ n \in DOMAIN history' /\ k \in DOMAIN history'[n].records
                            /\ history'[n].records[k] = record
    BY <1>4
  <2>2. StandsAt(a, n, k)'
    BY <1>3, <1>6, <2>1 DEF StandsAt
  <2> QED
    BY <2>2 DEF Stands
<1> QED
  BY <1>4, <1>5, <1>7, RecordKeeps

LEMMA RecordTornKeeps ==
  ASSUME AnnotationInv, NEW a \in Annotators, RecordTorn(a)
  PROVE  AnnotationInv'
<1>1. /\ annotation[a].pc = "record" /\ reports' = reports
      /\ annotation' = [annotation EXCEPT ![a].pc = "failed"]
  BY DEF RecordTorn, Goes
<1>2. LinesAreWritten' /\ RecordsStay /\ OnlyBy(a)
  <2>1. CASE history' \in {history, OpenedHistory}
    BY <2>1, OpeningKeepsRecords DEF AnnotationInv
  <2>2. ASSUME NEW shape \in Shapes, history' = HistoryWith(Record(a, shape))
        PROVE  LinesAreWritten' /\ RecordsStay /\ OnlyBy(a)
    <3>1. PICK record : record = Record(a, shape)
      OBVIOUS
    <3>2. record \in Written /\ record.by = a
      BY <1>1, <3>1 DEF Record, Written, AnnotationInv, AnnotationsAreTyped
    <3> QED
      BY <2>2, <3>1, <3>2, AppendKeepsRecords DEF AnnotationInv
  <2>3. history' \in {history, OpenedHistory} \/ \E shape \in Shapes : history' = HistoryWith(Record(a, shape))
    BY Zenon DEF RecordTorn, Shapes
  <2> QED
    BY <2>1, <2>2, <2>3
<1> QED
  BY <1>1, <1>2, RecordKeeps

\* The second write, in full, in part or not at all: the record stands already.
LEMMA ReportKeeps ==
  ASSUME AnnotationInv, NEW a \in Annotators, annotation[a].pc = "report",
         NEW where \in {"done", "failed"}, history' = history,
         annotation' = [annotation EXCEPT ![a].pc = where],
         NEW whole \in BOOLEAN, reports' = reports \/ reports' = ReportsWith(a, whole)
  PROVE  AnnotationInv'
<1>1. PICK change, outcome : change = annotation[a].change /\ outcome = annotation[a].outcome
  OBVIOUS
<1>2. change \in Changes /\ outcome \in Outcomes
  BY <1>1 DEF AnnotationInv, AnnotationsAreTyped
<1>3. /\ annotation'[a].pc = where /\ annotation'[a].change = change
      /\ annotation'[a].outcome = outcome
      /\ \A b \in Annotators : b # a => annotation'[b] = annotation[b]
  BY <1>1 DEF AnnotationInv, AnnotationsAreTyped
<1>4. LinesAreWritten' /\ AnnotationsAreTyped' /\ RecordsStay
  BY <1>1, <1>3 DEF AnnotationInv, LinesAreWritten, AnnotationsAreTyped, RecordsStay, Same
<1>5. RecordedFirst'
  <2> SUFFICES ASSUME NEW b \in Annotators, annotation'[b].pc \in {"report", "done"}
               PROVE  Stands(b)'
    BY DEF RecordedFirst
  <2>1. annotation'[b].change = annotation[b].change /\ annotation'[b].outcome = annotation[b].outcome
    BY <1>1, <1>3
  <2>2. Stands(b)
    BY <1>3 DEF AnnotationInv, RecordedFirst
  <2> QED
    BY <1>4, <2>1, <2>2, StandingStays
<1>6. NotYetWriting'
  <2> SUFFICES ASSUME NEW b \in Annotators, annotation'[b].pc \in {"idle", "record", "refused"}
               PROVE  ~Wrote(b)'
    BY DEF NotYetWriting
  <2>1. annotation[b].pc \in {"idle", "record", "refused"}
    BY <1>3
  <2>2. ~Wrote(b)
    BY <2>1 DEF AnnotationInv, NotYetWriting
  <2> QED
    BY <2>2 DEF Wrote
<1>7. CASE reports' = reports
  <2>1. \A b \in Annotators : annotation[b].pc \in {"done", "failed"} => annotation'[b] = annotation[b]
    BY <1>3
  <2>2. ReportedIsRecorded' /\ ReportsAreTyped'
    BY <1>4, <1>7, <2>1, ReportedStays DEF AnnotationInv, ReportsAreTyped
  <2> QED
    BY <1>4, <1>5, <1>6, <2>2 DEF AnnotationInv
<1>8. CASE reports' = ReportsWith(a, whole)
  <2> DEFINE Entry == [by : Annotators, outcome : Outcomes, whole : BOOLEAN]
  <2>1. PICK entry, entries : entry = Outcome(a, whole) /\ entries = reports[change.report]
    OBVIOUS
  <2>2. entry \in Entry /\ entries \in Seq(Entry) /\ entry.by = a /\ entry.outcome = outcome
    BY <1>1, <1>2, <2>1 DEF Outcome, AnnotationInv, ReportsAreTyped
  <2>3. PICK longer : longer = Append(entries, entry)
    OBVIOUS
  <2> HIDE DEF Entry
  <2>4. /\ longer \in Seq(Entry) /\ DOMAIN longer = 1..(Len(entries) + 1)
        /\ Len(entries) \in Nat /\ DOMAIN entries = 1..Len(entries)
        /\ longer[Len(entries) + 1] = entry
        /\ \A k \in 1..Len(entries) : longer[k] = entries[k]
    BY <2>2, <2>3, AppendProperties, LenProperties
  <2>5. reports' = [reports EXCEPT ![change.report] = longer]
    BY <1>1, <1>8, <2>1, <2>3, Zenon DEF ReportsWith
  <2>6. /\ reports'[change.report] = longer
        /\ DOMAIN reports' = DOMAIN reports
        /\ \A r \in DOMAIN reports : r # change.report => reports'[r] = reports[r]
    BY <1>2, <2>5 DEF AnnotationInv, ReportsAreTyped
  <2>7. ReportsAreTyped'
    BY <1>2, <2>4, <2>5 DEF AnnotationInv, ReportsAreTyped, Entry
  <2>8. Stands(a)'
    <3>1. Stands(a)
      BY DEF AnnotationInv, RecordedFirst
    <3> QED
      BY <1>1, <1>3, <1>4, <3>1, StandingStays
  <2>9. ReportedIsRecorded'
    <3> SUFFICES ASSUME NEW c \in Changes, NEW k \in DOMAIN reports'[c.report],
                        NEW by, by = reports'[c.report][k].by
                 PROVE  /\ annotation'[by].pc \in {"done", "failed"}
                        /\ annotation'[by].change.report = c.report
                        /\ annotation'[by].outcome = reports'[c.report][k].outcome
                        /\ Stands(by)'
      BY DEF ReportedIsRecorded
    <3>1. CASE k \in DOMAIN reports[c.report] /\ reports'[c.report][k] = reports[c.report][k]
      <4>1. by \in Annotators
        BY <3>1, EntriesAreAnnotations DEF AnnotationInv
      <4>2. /\ annotation[by].pc \in {"done", "failed"} /\ annotation[by].change.report = c.report
            /\ annotation[by].outcome = reports[c.report][k].outcome /\ Stands(by)
        BY <3>1 DEF AnnotationInv, ReportedIsRecorded
      <4>3. by # a /\ annotation'[by] = annotation[by]
        BY <1>3, <4>1, <4>2
      <4>4. Stands(by)'
        BY <1>4, <4>2, <4>3, StandingStays
      <4> QED
        BY <3>1, <4>2, <4>3, <4>4
    <3>2. CASE c.report = change.report /\ reports'[c.report][k] = entry
      BY <1>3, <2>2, <2>8, <3>2
    <3>3. \/ k \in DOMAIN reports[c.report] /\ reports'[c.report][k] = reports[c.report][k]
          \/ c.report = change.report /\ reports'[c.report][k] = entry
      <4>1. CASE c.report = change.report
        BY <2>1, <2>4, <2>6, <4>1
      <4>2. CASE c.report # change.report
        BY <2>6, <4>2 DEF AnnotationInv, ReportsAreTyped
      <4> QED
        BY <4>1, <4>2
    <3> QED
      BY <3>1, <3>2, <3>3
  <2> QED
    BY <1>4, <1>5, <1>6, <2>7, <2>9 DEF AnnotationInv
<1> QED
  BY <1>7, <1>8

LEMMA AnnotationKeeps == AnnotationInv /\ [ImpactNext]_impactVars => AnnotationInv'
<1> SUFFICES ASSUME AnnotationInv, [ImpactNext]_impactVars PROVE AnnotationInv'
  OBVIOUS
<1>1. ASSUME UNCHANGED <<history, reports, annotation>> PROVE AnnotationInv'
  <2>1. history' = history /\ reports' = reports /\ annotation' = annotation
    BY <1>1
  <2>2. LinesAreWritten' /\ AnnotationsAreTyped' /\ ReportsAreTyped' /\ RecordsStay
    BY <2>1 DEF AnnotationInv, LinesAreWritten, AnnotationsAreTyped, ReportsAreTyped, RecordsStay, Same
  <2>3. \A a : (Stands(a)' <=> Stands(a)) /\ (Wrote(a)' <=> Wrote(a))
    BY <2>1 DEF Stands, StandsAt, Wrote
  <2>4. RecordedFirst' /\ NotYetWriting'
    BY <2>1, <2>3 DEF AnnotationInv, RecordedFirst, NotYetWriting
  <2>5. ReportedIsRecorded'
    BY <2>1, <2>2, ReportedStays
  <2> QED
    BY <2>2, <2>4, <2>5 DEF AnnotationInv
<1>2. ASSUME NEW c \in Changes, Assess(c) PROVE AnnotationInv'
  BY <1>1, <1>2 DEF Assess
<1>3. ASSUME NEW a \in Annotators, Annotate(a) PROVE AnnotationInv'
  <2>1. CASE \E c \in Changes, o \in Outcomes : BeginAnnotation(a, c, o)
    BY <2>1, BeginKeeps
  <2>2. CASE AppendRecord(a)
    BY <2>2, AppendRecordKeeps
  <2>3. CASE RecordTorn(a)
    BY <2>3, RecordTornKeeps
  <2>4. CASE AnnotateReport(a)
    BY <2>4, ReportKeeps DEF AnnotateReport, Goes
  <2>5. CASE ReportFails(a)
    BY <2>5, ReportKeeps DEF ReportFails, Goes
  <2> QED
    BY <1>3, <2>1, <2>2, <2>3, <2>4, <2>5 DEF Annotate
<1>4. CASE UNCHANGED impactVars
  BY <1>1, <1>4 DEF impactVars
<1> QED
  BY <1>2, <1>3, <1>4 DEF ImpactNext

-----------------------------------------------------------------------------

LEMMA RecordedImpliesReported == AnnotationInv => AnnotatedIsRecorded
<1> SUFFICES ASSUME AnnotationInv PROVE AnnotatedIsRecorded
  OBVIOUS
<1>1. ASSUME NEW c \in Changes, NEW k \in DOMAIN reports[c.report]
      PROVE  \E line \in Range(history) : \E r \in Range(line.records) :
               /\ r.by = reports[c.report][k].by /\ r.outcome = reports[c.report][k].outcome
               /\ r.change.report = c.report /\ r.shape = "whole"
  <2>1. PICK by : by = reports[c.report][k].by
    OBVIOUS
  <2>2. /\ annotation[by].change.report = c.report /\ Stands(by)
        /\ annotation[by].outcome = reports[c.report][k].outcome
    BY <2>1 DEF AnnotationInv, ReportedIsRecorded
  <2>3. PICK n, i \in Nat : StandsAt(by, n, i)
    BY <2>2 DEF Stands
  <2>4. PICK line, r : line = history[n] /\ r = line.records[i]
    OBVIOUS
  <2>5. line \in Range(history) /\ r \in Range(line.records)
    BY <2>3, <2>4 DEF StandsAt, Range
  <2>6. /\ r.by = by /\ r.outcome = annotation[by].outcome
        /\ r.change = annotation[by].change /\ r.shape = "whole"
    BY <2>3, <2>4 DEF StandsAt
  <2> QED
    BY <2>1, <2>2, <2>5, <2>6
<1>2. ASSUME NEW a \in Annotators, annotation[a].pc = "refused",
             NEW c \in Changes, NEW k \in DOMAIN reports[c.report]
      PROVE  reports[c.report][k].by # a
  BY <1>2 DEF AnnotationInv, ReportedIsRecorded
<1>3. ASSUME NEW a \in Annotators, annotation[a].pc = "refused",
             NEW line \in Range(history), NEW r \in Range(line.records)
      PROVE  r.by # a
  <2>1. PICK n \in DOMAIN history : line = history[n]
    BY DEF Range
  <2>2. PICK k \in DOMAIN line.records : r = line.records[k]
    BY DEF Range
  <2>3. ~Wrote(a)
    BY <1>3 DEF AnnotationInv, NotYetWriting
  <2> QED
    BY <2>1, <2>2, <2>3 DEF Wrote
<1> QED
  BY <1>1, <1>2, <1>3 DEF AnnotatedIsRecorded

(* However many annotate at once and wherever their writes stop: what stands on a report,  *)
(* cut short or not, was recorded whole in the history before, and a refused annotation    *)
(* wrote to neither (_annotate appends the record first).                                  *)
THEOREM AnnotatedIsAlwaysRecorded == ImpactSpec => []AnnotatedIsRecorded
<1>1. ImpactInit => AnnotationInv
  BY AnnotationsStart
<1>2. AnnotationInv /\ [ImpactNext]_impactVars => AnnotationInv'
  BY AnnotationKeeps
<1>3. AnnotationInv => AnnotatedIsRecorded
  BY RecordedImpliesReported
<1> QED
  BY <1>1, <1>2, <1>3, PTL DEF ImpactSpec

-----------------------------------------------------------------------------

\* A line on which every write is whole is one record.
LEMMA WholeLineIsRecord ==
  ASSUME LinesAreWritten, NEW n \in DOMAIN history, NEW k \in DOMAIN history[n].records,
         \A r \in Range(history[n].records) : r.shape = "whole"
  PROVE  IsChangeRecord(history[n]) /\ history[n].records[1] = history[n].records[k]
<1>1. PICK records : records = history[n].records
  OBVIOUS
<1>2. history[n] \in Lines
  BY ElementOfSeq, LenProperties DEF LinesAreWritten
<1>3. records \in Seq(Written)
  BY <1>1, <1>2 DEF Lines
<1>4. Len(records) \in Nat \ {0} /\ DOMAIN records = 1..Len(records)
  BY <1>1, <1>3, EmptySeq, LenProperties
<1>5. \A j \in 1..(Len(records) - 1) : records[j].shape # "whole"
  BY <1>1 DEF LinesAreWritten
<1>6. \A j \in 1..Len(records) : records[j].shape = "whole"
  BY <1>1, <1>4 DEF Range
<1>7. Len(records) = 1
  <2> SUFFICES ASSUME Len(records) # 1 PROVE FALSE
    OBVIOUS
  <2>1. 1 \in 1..(Len(records) - 1) /\ 1 \in 1..Len(records)
    BY <1>4
  <2> QED
    BY <1>5, <1>6, <2>1
<1> QED
  BY <1>1, <1>4, <1>6, <1>7 DEF IsChangeRecord

\* A record of a failure that is read makes the grade HIGH.
LEMMA FailureMatchIsHigh ==
  ASSUME NEW change, FailedBefore(change), NEW criticality, NEW blast
  PROVE  Matrix(History(change), criticality, blast) = "HIGH"
<1>1. History(change) = "failure match"
  BY DEF History
<1> QED
  BY <1>1 DEF Matrix

LEMMA FailuresAreGraded ==
  AnnotationInv /\ [ImpactNext]_impactVars =>
    [\A a \in Annotators :
       /\ annotation[a].pc = "done" /\ annotation[a].outcome \in FailedOutcomes
       /\ assessed' # assessed /\ desk.historyGiven
       /\ assessed'.change.type = annotation[a].change.type
       /\ assessed'.change.target = annotation[a].change.target
       => \/ assessed'.grade = "HIGH"
          \/ \E line \in Range(history) :
               /\ \E r \in Range(line.records) : r.by = a
               /\ \E r \in Range(line.records) : r.shape # "whole"]_impactVars
<1> SUFFICES ASSUME AnnotationInv, [ImpactNext]_impactVars, NEW a \in Annotators,
                    annotation[a].pc = "done", annotation[a].outcome \in FailedOutcomes,
                    assessed' # assessed, desk.historyGiven,
                    assessed'.change.type = annotation[a].change.type,
                    assessed'.change.target = annotation[a].change.target,
                    \A line \in Range(history) :
                      (\E r \in Range(line.records) : r.by = a) =>
                        \A r \in Range(line.records) : r.shape = "whole"
             PROVE  assessed'.grade = "HIGH"
  OBVIOUS
<1>1. PICK c \in Changes : Assess(c)
  BY DEF ImpactNext, impactVars, Annotate, BeginAnnotation, AppendRecord, RecordTorn,
         AnnotateReport, ReportFails
<1>2. /\ assessed'.change = c
      /\ assessed'.grade = Matrix(History(c), Criticality(c), BlastFactor(c))
  BY <1>1 DEF Assess
<1>3. PICK n, k \in Nat : StandsAt(a, n, k)
  BY DEF AnnotationInv, RecordedFirst, Stands
<1>4. PICK line, r : line = history[n] /\ r = line.records[k]
  OBVIOUS
<1>5. /\ n \in DOMAIN history /\ k \in DOMAIN line.records
      /\ line \in Range(history) /\ r \in Range(line.records)
      /\ r.by = a /\ r.outcome = annotation[a].outcome /\ r.change = annotation[a].change
  BY <1>3, <1>4 DEF StandsAt, Range
<1>6. IsChangeRecord(line) /\ line.records[1] = r
  BY <1>4, <1>5, WholeLineIsRecord DEF AnnotationInv
<1>7. r \in Records
  BY <1>5, <1>6 DEF Records
<1>8. HistoryConsulted
  BY <1>5 DEF HistoryConsulted
<1>9. FailedBefore(c)
  BY <1>2, <1>5, <1>7, <1>8 DEF FailedBefore
<1> QED
  BY <1>2, <1>9, FailureMatchIsHigh

(* A failed outcome is never forgotten: whatever is on the desk and whoever annotates      *)
(* meanwhile, the assessments after it that are given the history grade that Change HIGH,  *)
(* unless a write that was not whole stands on the record's line (_assess_history).        *)
THEOREM FailuresAlwaysGradeHigh == ImpactSpec => FailuresGradeHigh
<1>1. ImpactInit => AnnotationInv
  BY AnnotationsStart
<1>2. AnnotationInv /\ [ImpactNext]_impactVars => AnnotationInv'
  BY AnnotationKeeps
<1> QED
  BY <1>1, <1>2, FailuresAreGraded, PTL DEF ImpactSpec, FailuresGradeHigh

-----------------------------------------------------------------------------
(* What a capture proves.                                                  *)

\* A place of the proofs is Unlocated, or it proves a role by a message.
IsPlace(p) == p = Unlocated \/ (p.role # "none" /\ p.at # 0)

ArePlaces(roles, n) == DOMAIN roles = 1..n /\ \A k \in 1..n : IsPlace(roles[k])

LEMMA EndsProve ==
  ASSUME NEW capture, capture.messages \in Seq(Range(capture.messages)),
         NEW plane, NEW name, NEW src, NEW dst, src # "none", dst # "none"
  PROVE  \E p, q : /\ IsPlace(p) /\ IsPlace(q)
                   /\ Ends(capture, plane, name, src, dst) \in Seq({p, q})
<1>1. PICK named : named = {i \in DOMAIN capture.messages :
                              capture.messages[i].plane = plane /\ capture.messages[i].name = name}
  OBVIOUS
<1>2. PICK i : i = Min(named)
  OBVIOUS
<1>3. PICK p, q : p = Proof(src, capture.messages[i].src, i) /\ q = Proof(dst, capture.messages[i].dst, i)
  OBVIOUS
<1>4. Ends(capture, plane, name, src, dst) = IF named = {} THEN <<>> ELSE <<p, q>>
  BY <1>1, <1>2, <1>3 DEF Ends
<1>5. CASE named = {}
  <2>1. <<>> \in Seq({Unlocated, Unlocated}) /\ IsPlace(Unlocated)
    BY DEF IsPlace
  <2> QED
    BY <1>4, <1>5, <2>1
<1>6. CASE named # {}
  <2>1. PICK count \in Nat : DOMAIN capture.messages = 1..count
    BY LenProperties
  <2>2. i \in 1..count
    BY <1>1, <1>2, <1>6, <2>1, FirstAndLastExist
  <2>3. IsPlace(p) /\ IsPlace(q)
    BY <1>3, <2>2 DEF IsPlace, Proof
  <2>4. <<p, q>> \in Seq({p, q})
    OBVIOUS
  <2> QED
    BY <1>4, <1>6, <2>3, <2>4
<1> QED
  BY <1>5, <1>6

\* infer_roles gives proofs, and nothing that is none.
LEMMA RolesAreProved ==
  ASSUME NEW capture, capture.messages \in Seq(Range(capture.messages))
  PROVE  \E n \in Nat : ArePlaces(InferRoles(capture), n)
<1>1. PICK p1, q1 : /\ IsPlace(p1) /\ IsPlace(q1)
                    /\ Ends(capture, "n2", "InitialUEMessage", "gNB", "AMF") \in Seq({p1, q1})
  BY EndsProve
<1>2. PICK p2, q2 : /\ IsPlace(p2) /\ IsPlace(q2)
                    /\ Ends(capture, "n4", "Association", "SMF", "UPF") \in Seq({p2, q2})
  BY EndsProve
<1>3. PICK p3, q3 : /\ IsPlace(p3) /\ IsPlace(q3)
                    /\ Ends(capture, "n4", "Establishment", "SMF", "UPF") \in Seq({p3, q3})
  BY EndsProve
<1>4. PICK producers : producers = Producers(capture)
  OBVIOUS
<1>5. PICK count \in Nat : DOMAIN capture.messages = 1..count
  BY LenProperties
<1>6. /\ DOMAIN producers = 1..count
      /\ \A i \in 1..count : IsPlace(producers[i])
  BY <1>4, <1>5 DEF Producers, IsPlace, Proof
<1>7. PICK T : T = {p1, q1, p2, q2, p3, q3} \cup {producers[i] : i \in 1..count}
  OBVIOUS
<1>8. producers \in Seq(T)
  <2>1. producers = [i \in 1..count |-> producers[i]]
    BY <1>4, <1>5 DEF Producers
  <2>2. [i \in 1..count |-> producers[i]] \in Seq(T)
    <3>1. \A i \in 1..count : producers[i] \in T
      BY <1>7
    <3>2. [i \in 1..count |-> producers[i]] \in [1..count -> T]
      BY <3>1
    <3> QED
      BY <3>2, IsASeq
  <2> QED
    BY <2>1, <2>2
<1>9. PICK n2 : n2 = Ends(capture, "n2", "InitialUEMessage", "gNB", "AMF")
  OBVIOUS
<1>10. PICK n4 : n4 = IF Ends(capture, "n4", "Association", "SMF", "UPF") # <<>>
                      THEN Ends(capture, "n4", "Association", "SMF", "UPF")
                      ELSE Ends(capture, "n4", "Establishment", "SMF", "UPF")
  OBVIOUS
<1>11. n2 \in Seq(T) /\ n4 \in Seq(T)
  <2>1. {p1, q1} \subseteq T /\ {p2, q2} \subseteq T /\ {p3, q3} \subseteq T
    BY <1>7
  <2>2. \A S \in SUBSET T : Seq(S) \subseteq Seq(T)
    OBVIOUS
  <2> QED
    BY <1>1, <1>2, <1>3, <1>9, <1>10, <2>1, <2>2
<1>12. PICK all : all = n2 \o n4 \o producers
  OBVIOUS
<1>13. all \in Seq(T)
  BY <1>8, <1>11, <1>12
<1>14. PICK n \in Nat : n = Len(all) /\ \A k \in 1..n : all[k] \in T
  BY <1>13, LenProperties, ElementOfSeq
<1>15. \A k \in 1..n : IsPlace(all[k])
  <2>1. \A p \in T : IsPlace(p)
    BY <1>1, <1>2, <1>3, <1>6, <1>7
  <2> QED
    BY <1>14, <2>1
<1>16. InferRoles(capture) =
         [k \in 1..n |-> IF \E j \in 1..(k - 1) : all[j].role = all[k].role /\ all[j].ip = all[k].ip
                         THEN Unlocated ELSE all[k]]
  BY <1>4, <1>9, <1>10, <1>12, <1>14 DEF InferRoles
<1>17. \A k \in 1..n : InferRoles(capture)[k] \in {Unlocated, all[k]}
  BY <1>16
<1>18. \A k \in 1..n : IsPlace(InferRoles(capture)[k])
  BY <1>15, <1>17 DEF IsPlace
<1> QED
  BY <1>16, <1>18 DEF ArePlaces

\* An address with a known role has it by a proof.
LEMMA KnownAddressIsProved ==
  ASSUME NEW n \in Nat, NEW roles, ArePlaces(roles, n), NEW ip, RoleAt(roles, ip) # Unlocated
  PROVE  /\ RoleAt(roles, ip).role # "none" /\ RoleAt(roles, ip).at # 0
         /\ \E p \in Range(roles) : p.ip = ip
<1>1. PICK I : I = {k \in DOMAIN roles : roles[k].ip = ip}
  OBVIOUS
<1>2. I # {} /\ RoleAt(roles, ip) = roles[Max(I)]
  BY <1>1 DEF RoleAt
<1>3. I \in SUBSET (1..n)
  BY <1>1 DEF ArePlaces
<1>4. PICK k \in I : RoleAt(roles, ip) = roles[k]
  BY <1>2, <1>3, FirstAndLastExist
<1>5. k \in 1..n /\ roles[k].ip = ip /\ roles[k] \in Range(roles)
  BY <1>1, <1>3, <1>4 DEF Range, ArePlaces
<1> QED
  BY <1>4, <1>5 DEF ArePlaces, IsPlace

LEMMA TargetIsProved ==
  ASSUME NEW n \in Nat, NEW roles, ArePlaces(roles, n), NEW role, Target(roles, role) # Unlocated
  PROVE  Target(roles, role).role = role /\ Target(roles, role).at # 0
<1>1. PICK I : I = {k \in DOMAIN roles : roles[k].role = role}
  OBVIOUS
<1>2. I # {} /\ Target(roles, role) = roles[Min(I)]
  BY <1>1 DEF Target
<1>3. I \in SUBSET (1..n)
  BY <1>1 DEF ArePlaces
<1>4. PICK k \in I : Target(roles, role) = roles[k]
  BY <1>2, <1>3, FirstAndLastExist
<1>5. k \in 1..n
  BY <1>3, <1>4
<1> QED
  BY <1>1, <1>4, <1>5 DEF ArePlaces, IsPlace

LEMMA PeersAreFinite ==
  ASSUME NEW capture, capture.messages \in Seq(Range(capture.messages)), NEW target
  PROVE  IsFiniteSet(Peers(capture, target))
<1>1. PICK messages : messages = capture.messages
  OBVIOUS
<1>2. PICK count \in Nat : DOMAIN messages = 1..count
  BY <1>1, LenProperties
<1>3. IsFiniteSet({messages[i].src : i \in 1..count}) /\ IsFiniteSet({messages[i].dst : i \in 1..count})
  <2>1. IsFiniteSet(1..count)
    BY FS_Interval
  <2>2. PICK src, dst : /\ src = [i \in 1..count |-> messages[i].src]
                        /\ dst = [i \in 1..count |-> messages[i].dst]
    OBVIOUS
  <2>3. IsFiniteSet({src[i] : i \in 1..count}) /\ IsFiniteSet({dst[i] : i \in 1..count})
    <3>1. DOMAIN src = 1..count /\ src = [i \in 1..count |-> src[i]]
      BY <2>2
    <3>2. DOMAIN dst = 1..count /\ dst = [i \in 1..count |-> dst[i]]
      BY <2>2
    <3> QED
      BY <2>1, <3>1, <3>2, RangesAreFinite
  <2>4. /\ {src[i] : i \in 1..count} = {messages[i].src : i \in 1..count}
        /\ {dst[i] : i \in 1..count} = {messages[i].dst : i \in 1..count}
    BY <2>2
  <2> QED
    BY <2>3, <2>4
<1>4. IsFiniteSet({messages[i].src : i \in 1..count} \cup {messages[i].dst : i \in 1..count})
  BY <1>3, FS_Union
<1>5. Peers(capture, target) \subseteq
        ({messages[i].src : i \in 1..count} \cup {messages[i].dst : i \in 1..count})
  BY <1>1, <1>2 DEF Peers, Range
<1> QED
  BY <1>4, <1>5, FS_Subset

-----------------------------------------------------------------------------
(* What LOW says.                                                          *)

EvidenceInv == desk \in Desks /\ proved = InferRoles(desk.capture)

\* What LowIsKnown says of the radius, and of the stores.
RadiusKnown(change, d, roles) ==
  LET target == Target(roles, change.role)
      exchanged == {m \in Range(d.capture.messages) : target.ip \in {m.src, m.dst}}
      others == (UNION {{m.src, m.dst} : m \in exchanged}) \ {target.ip}
      partners == {ip \in others : RoleAt(roles, ip).role # change.role}
      proving == {target.at} \cup {RoleAt(roles, ip).at : ip \in partners}
  IN /\ SpecgraphHits(d.specgraph, change.role) = {}
     /\ IF target # Unlocated
        THEN /\ \A ip \in others : \E p \in Range(roles) : p.ip = ip
             /\ Cardinality(partners) <= 1
             /\ \A i \in proving :
                  ~IsCritical(d.capture.messages[i].name, d.capture.messages[i].family)
        ELSE Cardinality(ReferencePartners(d.specgraph, change.role)) = 1

Quietly(change, d, read) ==
  /\ d.historyGiven /\ read # <<>>
  /\ \A line \in Range(read) : IsChangeRecord(line) =>
       LET r == line.records[1] IN
       ~(/\ r.change.type = "upgrade" /\ r.change.target = change.target
         /\ r.outcome \in FailedOutcomes)
  /\ \A s \in {d.triage, d.dispatch, d.reports} : s.consulted /\ change.role \notin s.mentions

LEMMA LowSays ==
  LowIsKnown <=> (assessed.grade = "LOW" =>
                    /\ assessed.change.type = "upgrade"
                    /\ Quietly(assessed.change, desk, assessed.read)
                    /\ RadiusKnown(assessed.change, desk, proved))
BY DEF LowIsKnown, Quietly, RadiusKnown, Stores

\* Every peer of a target whose radius is narrow is known, at most one is of another role,
\* and where criticality is known and absent none of them is proved by a critical interface.
LEMMA NarrowIsKnown ==
  ASSUME EvidenceInv, NEW change \in Changes, BlastFactor(change) = "narrow",
         Criticality(change) = "non-critical"
  PROVE  change.type = "upgrade" /\ RadiusKnown(change, desk, proved)
<1> DEFINE others == (UNION {{m.src, m.dst} : m \in {m \in Range(desk.capture.messages) :
                                Target(proved, change.role).ip \in {m.src, m.dst}}})
                       \ {Target(proved, change.role).ip}
           strangers == {ip \in others : RoleAt(proved, ip).role # change.role}
           proving == {Target(proved, change.role).at} \cup {RoleAt(proved, ip).at : ip \in strangers}
<1> HIDE DEF others, strangers, proving
<1>1. PICK target : target = Target(proved, change.role)
  OBVIOUS
<1>2. PICK n \in Nat : ArePlaces(proved, n)
  BY RolesAreProved, EvidenceAssumption DEF EvidenceInv
<1>3. change.type # "config" /\ change.type = "upgrade"
  BY EvidenceAssumption DEF BlastFactor
<1>6. /\ SpecgraphHits(desk.specgraph, change.role) = {}
      /\ target # Unlocated => CaptureHits(desk.capture, proved, target) = {}
  BY <1>1, <1>3 DEF Criticality
<1>4. CASE target # Unlocated
  <2>1. PICK partners : partners = Partners(desk.capture, proved, target)
    OBVIOUS
  <2>2. /\ ~(UnknownPeers(desk.capture, proved, target) # {} /\ Cardinality(partners) < 2)
        /\ Sized(Cardinality(partners)) = "narrow"
    BY <1>1, <1>3, <1>4, <2>1 DEF BlastFactor
  <2>3. IsFiniteSet(partners)
    <3>1. IsFiniteSet(Peers(desk.capture, target))
      BY PeersAreFinite, EvidenceAssumption DEF EvidenceInv
    <3> QED
      BY <2>1, <3>1, FS_Subset DEF Partners
  <2>4. Cardinality(partners) \in Nat /\ Cardinality(partners) <= 1
    BY <2>2, <2>3, FS_CardinalityType DEF Sized
  <2>5. \A ip \in Peers(desk.capture, target) : RoleAt(proved, ip) # Unlocated
    BY <2>2, <2>4 DEF UnknownPeers
  <2>6. others = Peers(desk.capture, target)
    BY <1>1 DEF others, Peers
  <2>7. \A ip \in others : /\ \E p \in Range(proved) : p.ip = ip
                           /\ RoleAt(proved, ip).role # "none" /\ RoleAt(proved, ip).at # 0
    BY <1>2, <2>5, <2>6, KnownAddressIsProved
  <2>8. target.role = change.role /\ target.at # 0
    BY <1>1, <1>2, <1>4, TargetIsProved
  <2>9. strangers = partners
    BY <2>1, <2>6, <2>7, <2>8 DEF strangers, Partners
  <2>10. ASSUME NEW i \in proving
         PROVE  ~IsCritical(desk.capture.messages[i].name, desk.capture.messages[i].family)
    <3>1. i \in {target.at} \cup {RoleAt(proved, ip).at : ip \in partners}
      BY <1>1, <2>9, <2>10 DEF proving
    <3>2. i # 0
      BY <2>6, <2>7, <2>8, <2>9, <3>1 DEF strangers
    <3> QED
      BY <1>4, <1>6, <2>1, <3>1, <3>2 DEF CaptureHits
  <2> QED
    BY <1>1, <1>3, <1>4, <1>6, <2>4, <2>7, <2>9, <2>10 DEF others, strangers, proving, RadiusKnown
<1>5. CASE target = Unlocated
  <2>1. PICK partners : partners = ReferencePartners(desk.specgraph, change.role)
    OBVIOUS
  <2>2. partners # {} /\ Sized(Cardinality(partners)) = "narrow"
    BY <1>1, <1>3, <1>5, <2>1 DEF BlastFactor
  <2>3. IsFiniteSet(partners)
    <3>1. IsFiniteSet(desk.specgraph.entities)
      BY EvidenceAssumption DEF EvidenceInv
    <3>2. IsFiniteSet(References(desk.specgraph, change.role))
      BY <3>1, FS_Subset DEF References
    <3>3. PICK S : S = References(desk.specgraph, change.role)
      OBVIOUS
    <3>4. PICK f : f = [e \in S |-> e.family]
      OBVIOUS
    <3>5. IsFiniteSet({f[e] : e \in S})
      <4>1. DOMAIN f = S /\ f = [e \in S |-> f[e]]
        BY <3>4
      <4> QED
        BY <3>2, <3>3, <4>1, RangesAreFinite
    <3>6. {f[e] : e \in S} = partners
      BY <2>1, <3>3, <3>4 DEF ReferencePartners
    <3> QED
      BY <3>5, <3>6
  <2>4. Cardinality(partners) = 1
    <3>1. Cardinality(partners) \in Nat /\ Cardinality(partners) # 0
      BY <2>2, <2>3, FS_CardinalityType, FS_EmptySet
    <3> QED
      BY <2>2, <3>1 DEF Sized
  <2> QED
    BY <1>1, <1>3, <1>5, <1>6, <2>1, <2>4 DEF RadiusKnown
<1> QED
  BY <1>4, <1>5

\* A history of "none" was consulted everywhere and found nowhere.
LEMMA NoneIsConsulted ==
  ASSUME NEW change, change.type = "upgrade", History(change) = "none"
  PROVE  Quietly(change, desk, history)
<1>1. ~FailedBefore(change) /\ ~\E s \in Stores : change.role \in s.mentions
  BY DEF History
<1>2. HistoryConsulted /\ \A s \in Stores : s.consulted
  BY <1>1 DEF History
<1>3. ASSUME NEW line \in Range(history), IsChangeRecord(line)
      PROVE  ~(/\ line.records[1].change.type = "upgrade"
               /\ line.records[1].change.target = change.target
               /\ line.records[1].outcome \in FailedOutcomes)
  <2>1. line.records[1] \in Records
    BY <1>3 DEF Records
  <2> QED
    BY <1>1, <1>2, <2>1 DEF FailedBefore
<1> QED
  BY <1>1, <1>2, <1>3 DEF HistoryConsulted, Quietly, Stores

LEMMA AssessedLowIsKnown ==
  ASSUME EvidenceInv, NEW change \in Changes,
         Matrix(History(change), Criticality(change), BlastFactor(change)) = "LOW"
  PROVE  /\ change.type = "upgrade" /\ desk.historyGiven
         /\ Quietly(change, desk, history)
         /\ RadiusKnown(change, desk, proved)
<1>1. PICK h, c, b : h = History(change) /\ c = Criticality(change) /\ b = BlastFactor(change)
  OBVIOUS
<1>2. Matrix(h, c, b) = "LOW"
  BY <1>1
<1>3. h = "none" /\ c = "non-critical" /\ b = "narrow"
  BY <1>2 DEF Matrix
<1>4. change.type = "upgrade" /\ RadiusKnown(change, desk, proved)
  BY <1>1, <1>3, NarrowIsKnown
<1>5. Quietly(change, desk, history)
  BY <1>1, <1>3, <1>4, NoneIsConsulted
<1> QED
  BY <1>4, <1>5 DEF Quietly

(* LOW is a statement of knowledge for any evidence: the history was read and held no      *)
(* failure of the Change, every other store was read and does not mention the role, the    *)
(* capture's peers of the upgraded function are all known, at most one is of another role  *)
(* and no critical interface proves either of them, or the reference graph names exactly   *)
(* one partner, and nothing critical (grade_matrix over _assess_history, _assess_blast and *)
(* _assess_criticality).                                                                   *)
THEOREM LowAlwaysKnown == ImpactSpec => []LowIsKnown
<1>1. ImpactInit => EvidenceInv /\ LowIsKnown
  BY LowSays DEF ImpactInit, EvidenceInv, NotAssessed
<1>2. ASSUME EvidenceInv, LowIsKnown, [ImpactNext]_impactVars
      PROVE  EvidenceInv' /\ LowIsKnown'
  <2>1. desk' = desk /\ proved' = proved /\ (assessed' = assessed \/ \E c \in Changes : Assess(c))
    BY <1>2 DEF ImpactNext, impactVars, Assess, Annotate, BeginAnnotation, AppendRecord,
                RecordTorn, AnnotateReport, ReportFails
  <2>2. EvidenceInv'
    BY <1>2, <2>1 DEF EvidenceInv
  <2>3. LowIsKnown' <=> (assessed'.grade = "LOW" =>
                           /\ assessed'.change.type = "upgrade"
                           /\ Quietly(assessed'.change, desk, assessed'.read)
                           /\ RadiusKnown(assessed'.change, desk, proved))
    BY <2>1 DEF LowIsKnown, Quietly, RadiusKnown, Stores
  <2>4. CASE assessed' = assessed
    BY <1>2, <2>2, <2>3, <2>4, LowSays
  <2>5. ASSUME NEW c \in Changes, Assess(c) PROVE LowIsKnown'
    <3>1. /\ assessed'.change = c
          /\ assessed'.grade = Matrix(History(c), Criticality(c), BlastFactor(c))
          /\ desk.historyGiven => assessed'.read = history
      BY <2>5 DEF Assess
    <3> QED
      BY <1>2, <2>3, <3>1, AssessedLowIsKnown
  <2> QED
    BY <2>1, <2>2, <2>4, <2>5
<1> QED
  BY <1>1, <1>2, PTL DEF ImpactSpec

-----------------------------------------------------------------------------
(* What the report lists.                                                  *)

LEMMA CardinalitiesAdd ==
  ASSUME NEW S, NEW T, NEW U, IsFiniteSet(S), IsFiniteSet(T), S \cap T = {}, U = S \cup T
  PROVE  IsFiniteSet(U) /\ Cardinality(U) = Cardinality(S) + Cardinality(T)
<1>1. IsFiniteSet(U) /\ Cardinality(U) = Cardinality(S) + Cardinality(T) - Cardinality(S \cap T)
  BY FS_Union
<1>2. Cardinality(S \cap T) = 0
  BY FS_EmptySet, Zenon
<1>3. Cardinality(S) \in Nat /\ Cardinality(T) \in Nat
  BY FS_CardinalityType
<1> QED
  BY <1>1, <1>2, <1>3

\* The three kinds of peers are all of them.
LEMMA PeersAreAccounted ==
  ASSUME EvidenceInv, NEW change \in Changes, NEW target, target = Target(proved, change.role),
         change.type = "upgrade", target # Unlocated
  PROVE  Cardinality(Peers(desk.capture, target)) =
           Cardinality(Affected(change)) + Cardinality(UnknownPeers(desk.capture, proved, target))
             + Cardinality({ip \in Peers(desk.capture, target) : RoleAt(proved, ip).role = change.role})
<1>1. PICK n \in Nat : ArePlaces(proved, n)
  BY RolesAreProved, EvidenceAssumption DEF EvidenceInv
<1>2. PICK P, A, U, O :
        /\ P = Peers(desk.capture, target)
        /\ A = Partners(desk.capture, proved, target)
        /\ U = UnknownPeers(desk.capture, proved, target)
        /\ O = {ip \in P : RoleAt(proved, ip).role = change.role}
  OBVIOUS
<1>3. target.role = change.role /\ change.role # "none"
  <2>1. target.role = change.role
    BY <1>1, TargetIsProved
  <2>2. PICK I : I = {k \in DOMAIN proved : proved[k].role = change.role}
    OBVIOUS
  <2>3. I # {} /\ target = proved[Min(I)]
    BY <2>2 DEF Target
  <2>4. Min(I) \in 1..n
    <3>1. I \in SUBSET (1..n)
      BY <1>1, <2>2 DEF ArePlaces
    <3> QED
      BY <2>3, <3>1, FirstAndLastExist
  <2> QED
    BY <1>1, <2>1, <2>3, <2>4 DEF ArePlaces, IsPlace
<1>4. Unlocated.role = "none"
  BY DEF Unlocated
<1>5. /\ P = (A \cup U) \cup O /\ A \cap U = {} /\ (A \cup U) \cap O = {}
      /\ A \subseteq P /\ U \subseteq P /\ O \subseteq P
  <2>1. \A ip \in P : ip \in U <=> RoleAt(proved, ip) = Unlocated
    BY <1>2 DEF UnknownPeers
  <2>2. \A ip \in P : ip \in A <=> RoleAt(proved, ip).role \notin {"none", change.role}
    BY <1>2, <1>3 DEF Partners
  <2>3. \A ip \in P : ip \in O <=> RoleAt(proved, ip).role = change.role
    BY <1>2
  <2>4. \A ip \in P : RoleAt(proved, ip) # Unlocated => RoleAt(proved, ip).role # "none"
    BY <1>1, KnownAddressIsProved
  <2>5. A \subseteq P /\ U \subseteq P /\ O \subseteq P
    BY <1>2 DEF Partners, UnknownPeers
  <2> QED
    BY <1>3, <1>4, <2>1, <2>2, <2>3, <2>4, <2>5
<1>6. IsFiniteSet(P) /\ IsFiniteSet(A) /\ IsFiniteSet(U) /\ IsFiniteSet(O)
  <2>1. IsFiniteSet(P)
    BY <1>2, PeersAreFinite, EvidenceAssumption DEF EvidenceInv
  <2> QED
    BY <1>5, <2>1, FS_Subset
<1>7. PICK AU : AU = A \cup U
  OBVIOUS
<1>8. IsFiniteSet(AU) /\ Cardinality(AU) = Cardinality(A) + Cardinality(U)
  BY <1>5, <1>6, <1>7, CardinalitiesAdd
<1>9. Cardinality(P) = Cardinality(AU) + Cardinality(O)
  BY <1>5, <1>6, <1>7, <1>8, CardinalitiesAdd
<1>10. Cardinality(Affected(change)) = Cardinality(A)
  <2>1. PICK record :
          record = [ip \in A |-> [ip |-> ip, role |-> RoleAt(proved, ip).role,
                                  kpis |-> Kpis(desk.capture, proved, ip)]]
    OBVIOUS
  <2>2. \A ip \in A : record[ip].ip = ip
    BY <2>1
  <2>3. Affected(change) = {record[ip] : ip \in A}
    BY <1>2, <2>1 DEF Affected
  <2>4. PICK T : T = {record[ip] : ip \in A}
    OBVIOUS
  <2>5. record \in [A -> T] /\ \A x, y \in A : record[x] = record[y] => x = y
    BY <2>1, <2>2, <2>4
  <2>6. \A t \in T : \E x \in A : record[x] = t
    BY <2>4
  <2>7. record \in Injection(A, T)
    BY <2>5 DEF Injection, IsInjective
  <2>8. record \in Surjection(A, T)
    BY <2>5, <2>6 DEF Surjection
  <2>9. ExistsBijection(A, T)
    BY <2>7, <2>8 DEF Bijection, ExistsBijection
  <2>10. Cardinality(T) = Cardinality(A)
    BY <1>6, <2>9, FS_Bijection
  <2> QED
    BY <2>3, <2>4, <2>10
<1> QED
  BY <1>2, <1>8, <1>9, <1>10

\* What the target and a partner did in the flows where they meet is in its KPIs.
LEMMA MeetingsAreCounted ==
  ASSUME EvidenceInv, NEW change \in Changes, NEW nf \in Affected(change), NEW ip
  PROVE  Cardinality({k \in DOMAIN desk.capture.procedures :
                        /\ desk.capture.procedures[k].plane = "n2"
                        /\ desk.capture.procedures[k].flow \in
                             {m.flow : m \in {m \in Range(desk.capture.messages) :
                                                m.plane = "n2" /\ {m.src, m.dst} = {nf.ip, ip}}}})
           <= nf.kpis.count
<1>1. PICK address, kpis : /\ nf.ip = address /\ nf.kpis = kpis
                           /\ kpis = Kpis(desk.capture, proved, address)
  BY DEF Affected
<1>2. PICK C : C = Procedures(desk.capture, proved, address)
  OBVIOUS
<1>3. kpis.count = Cardinality(C)
  BY <1>1, <1>2 DEF Kpis
<1>4. IsFiniteSet(C)
  <2>1. IsFiniteSet(DOMAIN desk.capture.procedures)
    <3>1. PICK n \in Nat : DOMAIN desk.capture.procedures = 1..n
      BY LenProperties, EvidenceAssumption DEF EvidenceInv
    <3> QED
      BY <3>1, FS_Interval
  <2> QED
    BY <1>2, <2>1, FS_Subset DEF Procedures
<1>5. PICK M : M = {k \in DOMAIN desk.capture.procedures :
                      /\ desk.capture.procedures[k].plane = "n2"
                      /\ desk.capture.procedures[k].flow \in
                           {m.flow : m \in {m \in Range(desk.capture.messages) :
                                              m.plane = "n2" /\ {m.src, m.dst} = {address, ip}}}}
  OBVIOUS
<1>6. M \subseteq C
  <2> SUFFICES ASSUME NEW k \in M PROVE k \in C
    OBVIOUS
  <2>1. PICK p : p = desk.capture.procedures[k]
    OBVIOUS
  <2>2. PICK m \in Range(desk.capture.messages) :
          m.plane = "n2" /\ {m.src, m.dst} = {address, ip} /\ p.flow = m.flow
    BY <1>5, <2>1
  <2>3. p.plane = "n2" /\ k \in DOMAIN desk.capture.procedures
    BY <1>5, <2>1
  <2>4. m.flow # "none"
    BY <2>2, EvidenceAssumption DEF EvidenceInv
  <2>5. address \in {m.src, m.dst}
    BY <2>2
  <2> QED
    BY <1>2, <2>1, <2>2, <2>3, <2>4, <2>5 DEF Procedures
<1> QED
  BY <1>1, <1>3, <1>4, <1>5, <1>6, FS_Subset

-----------------------------------------------------------------------------
(* The plan.                                                               *)

Distance(k, change) == IF desk.plan[k].nf = change.role THEN 0 ELSE 1

\* Nearness, then the plan's own order.
LEMMA NearerIsStrict ==
  ASSUME EvidenceInv, NEW change, NEW items, items = Within(change),
         NEW before, before = {p \in items \X items : Nearer(change, p[1], p[2])}
  PROVE  StrictOrder(items, before)
<1>1. PICK l \in Nat : DOMAIN desk.plan = 1..l
  BY LenProperties, EvidenceAssumption DEF EvidenceInv
<1>2. items \subseteq 1..l
  BY <1>1 DEF Within
<1>3. \A x, y \in items : <<x, y>> \in before <=> Nearer(change, x, y)
  OBVIOUS
<1>4. \A x \in items : x \in Int
  BY <1>2
<1>5. \A x \in items : ~Nearer(change, x, x)
  BY <1>4 DEF Nearer
<1>6. \A x, y \in items : x = y \/ Nearer(change, x, y) \/ Nearer(change, y, x)
  BY <1>4 DEF Nearer
<1>7. ASSUME NEW x \in items, NEW y \in items, NEW z \in items,
             Nearer(change, x, y), Nearer(change, y, z)
      PROVE  Nearer(change, x, z)
  BY <1>4, <1>7 DEF Nearer
<1> QED
  BY <1>3, <1>5, <1>6, <1>7 DEF StrictOrder

\* placed_items lists the items within the radius, and sorts them.
LEMMA PlacedIsSorted ==
  ASSUME EvidenceInv, NEW change
  PROVE  /\ Placed(change) \in [1..Cardinality(Within(change)) -> Within(change)]
         /\ \A x \in Within(change) : \E a \in 1..Cardinality(Within(change)) : Placed(change)[a] = x
         /\ \A j, k \in 1..Cardinality(Within(change)) :
              j < k => Nearer(change, Placed(change)[j], Placed(change)[k])
<1>1. PICK items, n : items = Within(change) /\ n = Cardinality(items)
  OBVIOUS
<1>2. PICK before : before = {p \in items \X items : Nearer(change, p[1], p[2])}
  OBVIOUS
<1>3. IsFiniteSet(items)
  <2>1. PICK l \in Nat : DOMAIN desk.plan = 1..l
    BY LenProperties, EvidenceAssumption DEF EvidenceInv
  <2>2. items \subseteq 1..l /\ IsFiniteSet(1..l)
    BY <1>1, <2>1, FS_Interval DEF Within
  <2> QED
    BY <2>2, FS_Subset
<1>4. StrictOrder(items, before)
  BY <1>1, <1>2, NearerIsStrict
<1>5. PICK s : s = SortedBy(items, before)
  OBVIOUS
<1>6. Enumerates(s, n, items, before)
  BY <1>1, <1>3, <1>4, <1>5, SortedByEnumerates
<1>7. Placed(change) = s
  BY <1>1, <1>2, <1>5 DEF Placed
<1>8. /\ s \in [1..n -> items]
      /\ \A x \in items : \E a \in 1..n : s[a] = x
      /\ \A j, k \in 1..n : j < k => Nearer(change, s[j], s[k])
  BY <1>2, <1>6 DEF Enumerates
<1> QED
  BY <1>1, <1>7, <1>8

\* So each item is listed, or it is one of the excluded.
LEMMA PlanIsListed ==
  ASSUME EvidenceInv, NEW change, NEW placed, placed = Placed(change)
  PROVE  /\ Len(desk.plan) - Len(placed) = Cardinality((DOMAIN desk.plan) \ Range(placed))
         /\ \A j, k \in DOMAIN placed : j < k => Nearer(change, placed[j], placed[k])
         /\ \A j \in DOMAIN placed : placed[j] \in DOMAIN desk.plan
         /\ Range(placed) = Within(change)
<1>1. PICK items, n : items = Within(change) /\ n = Cardinality(items)
  OBVIOUS
<1>2. PICK plan, l : plan = DOMAIN desk.plan /\ l = Len(desk.plan) /\ l \in Nat /\ plan = 1..l
  BY LenProperties, EvidenceAssumption DEF EvidenceInv
<1>3. /\ placed \in [1..n -> items]
      /\ \A x \in items : \E a \in 1..n : placed[a] = x
      /\ \A j, k \in DOMAIN placed : j < k => Nearer(change, placed[j], placed[k])
  BY <1>1, PlacedIsSorted
<1>4. placed \in [1..n -> items] /\ \A x \in items : \E a \in 1..n : placed[a] = x
  BY <1>3
<1>5. items \subseteq plan /\ IsFiniteSet(plan) /\ IsFiniteSet(items) /\ n \in Nat
  <2>1. items \subseteq plan
    BY <1>1, <1>2 DEF Within
  <2>2. IsFiniteSet(plan)
    BY <1>2, FS_Interval
  <2> QED
    BY <1>1, <2>1, <2>2, FS_Subset, FS_CardinalityType
<1>6. Range(placed) = items
  BY <1>4 DEF Range
<1>7. Len(placed) = n
  BY <1>4, <1>5
<1>8. PICK rest : rest = plan \ items
  OBVIOUS
<1>9. Cardinality(plan) = n + Cardinality(rest)
  <2>1. IsFiniteSet(rest) /\ items \cap rest = {} /\ plan = items \cup rest
    BY <1>5, <1>8, FS_Difference
  <2> QED
    BY <1>1, <1>5, <2>1, CardinalitiesAdd
<1>10. Cardinality(plan) = l /\ Cardinality(rest) \in Nat
  <2>1. Cardinality(rest) \in Nat
    BY <1>5, <1>8, FS_Difference, FS_CardinalityType
  <2>2. Cardinality(1..l) = l
    BY <1>2, FS_Interval
  <2> QED
    BY <1>2, <2>1, <2>2
<1> QED
  <2>1. l - n = Cardinality(rest)
    BY <1>2, <1>5, <1>9, <1>10
  <2>2. rest = (DOMAIN desk.plan) \ Range(placed)
    BY <1>2, <1>6, <1>8
  <2>3. Len(desk.plan) - Len(placed) = Cardinality((DOMAIN desk.plan) \ Range(placed))
    BY <1>2, <1>7, <2>1, <2>2
  <2>4. \A j \in DOMAIN placed : placed[j] \in DOMAIN desk.plan
    BY <1>2, <1>4, <1>5
  <2> QED
    BY <1>1, <1>3, <1>6, <2>3, <2>4

(* For any evidence the report accounts for every peer of the upgraded function, for       *)
(* every procedure of a flow in which it meets an affected one (blast_radius), and lists   *)
(* the plan in order (placed_items).                                                       *)
THEOREM NothingIsOmitted == ImpactSpec => []ReportOmitsNothing
<1>1. ImpactInit => EvidenceInv /\ ReportOmitsNothing
  BY DEF ImpactInit, EvidenceInv, ReportOmitsNothing
<1>2. ASSUME EvidenceInv, ReportOmitsNothing, [ImpactNext]_impactVars
      PROVE  EvidenceInv' /\ ReportOmitsNothing'
  <2>1. desk' = desk /\ proved' = proved /\ (assessed' = assessed \/ \E c \in Changes : Assess(c))
    BY <1>2 DEF ImpactNext, impactVars, Assess, Annotate, BeginAnnotation, AppendRecord,
                RecordTorn, AnnotateReport, ReportFails
  <2>2. EvidenceInv'
    BY <1>2, <2>1 DEF EvidenceInv
  <2>3. ASSUME assessed' = assessed PROVE ReportOmitsNothing'
    BY <1>2, <2>1, <2>3 DEF ReportOmitsNothing
  <2>4. ASSUME NEW c \in Changes, Assess(c) PROVE ReportOmitsNothing'
    <3>1. PICK target : target = Target(proved, c.role)
      OBVIOUS
    <3>2. /\ assessed'.change = c
          /\ assessed'.affected = Affected(c)
          /\ c.type = "upgrade" =>
               assessed'.unknown = Cardinality(UnknownPeers(desk.capture, proved, target))
          /\ assessed'.placed = Placed(c)
          /\ assessed'.excluded = Len(desk.plan) - Len(Placed(c))
      BY <2>4, <3>1 DEF Assess
    <3>3. c.type = "upgrade" /\ target # Unlocated =>
            Cardinality(Peers(desk.capture, target)) =
              Cardinality(assessed'.affected) + assessed'.unknown
                + Cardinality({ip \in Peers(desk.capture, target) :
                                 RoleAt(proved, ip).role = c.role})
      BY <1>2, <3>1, <3>2, PeersAreAccounted
    <3>4. \A nf \in assessed'.affected :
            Cardinality({k \in DOMAIN desk.capture.procedures :
                           /\ desk.capture.procedures[k].plane = "n2"
                           /\ desk.capture.procedures[k].flow \in
                                {m.flow : m \in {m \in Range(desk.capture.messages) :
                                                   m.plane = "n2" /\ {m.src, m.dst} = {nf.ip, target.ip}}}})
              <= nf.kpis.count
      BY <1>2, <3>2, MeetingsAreCounted
    <3>5. PICK placed : placed = Placed(c)
      OBVIOUS
    <3>6. assessed'.placed = placed /\ assessed'.excluded = Cardinality((DOMAIN desk.plan) \ Range(placed))
      BY <1>2, <3>2, <3>5, PlanIsListed
    <3>7. ASSUME NEW j \in DOMAIN placed, NEW k \in DOMAIN placed, j < k
          PROVE  \/ Distance(placed[j], c) < Distance(placed[k], c)
                 \/ /\ Distance(placed[j], c) = Distance(placed[k], c)
                    /\ placed[j] < placed[k]
      <4>1. Nearer(c, placed[j], placed[k])
        BY <1>2, <3>5, <3>7, PlanIsListed
      <4> QED
        BY <4>1 DEF Nearer, Distance
    <3>8. \A k \in DOMAIN desk.plan :
            desk.plan[k].nf \in {nf.role : nf \in assessed'.affected} => k \in Range(placed)
      <4>1. Range(placed) = Within(c)
        BY <1>2, <3>5, PlanIsListed
      <4>2. assessed'.affected # {} => c.type # "config" /\ Target(proved, c.role) # Unlocated
        BY <3>2 DEF Affected
      <4> QED
        BY <3>2, <4>1, <4>2 DEF Within
    <3> QED
      BY <2>1, <3>1, <3>2, <3>3, <3>4, <3>6, <3>7, <3>8, Zenon DEF ReportOmitsNothing, Distance
  <2>5. ReportOmitsNothing'
    BY <2>1, <2>3, <2>4
  <2> QED
    BY <2>2, <2>5
<1> QED
  BY <1>1, <1>2, PTL DEF ImpactSpec
=============================================================================
