--------------------------- MODULE InquiryProofs ----------------------------
(***************************************************************************)
(* What an inquiry of dispatch concludes, proved for any evidence: the     *)
(* three inventories of grounding agree, what is listed leads back to its  *)
(* evidence, and what is linked, recalled, consulted and proposed is just  *)
(* what the definitions of correlation, recall and binding say.            *)
(***************************************************************************)
EXTENDS Inquiry, SortingProofs, SequenceTheorems, TLAPS

-----------------------------------------------------------------------------
(* Grounding.                                                              *)

\* The messages are counted from one.
ExportInv == export \in Exports

LEMMA FirstFound ==
  ASSUME NEW n \in Nat, NEW I \in SUBSET (1..n), I # {}
  PROVE  First(I) # 0
<1>1. I \in SUBSET Nat
  OBVIOUS
<1>2. PICK least : least = Min(I)
  OBVIOUS
<1>3. least \in I
  BY <1>1, <1>2, FirstAndLastExist
<1>4. least # 0
  BY <1>3
<1> QED
  BY <1>2, <1>4 DEF First

LEMMA GroundedIsLocated ==
  ASSUME NEW claim, ExportInv, Grounded(claim)
  PROVE  Located(claim) # 0 /\ Attributed(claim) # 0
<1>1. PICK n \in Nat : DOMAIN export = 1..n
  BY ExportsAssumption, LenProperties DEF ExportInv
<1>2. PICK i \in 1..n : /\ Matches(i, claim)
                        /\ claim.cause # None => InventoryCause(claim.name, export[i].ts) = claim.cause
  BY <1>1 DEF Grounded
\* The message whose cause the inventory keeps is itself of that name and time.
<1>3. PICK j \in 1..n : Matches(j, claim) /\ (claim.cause # None => export[j].cause = claim.cause)
  <2>1. PICK K : K = {k \in DOMAIN export : claim.name \in export[k].names /\ export[k].ts = export[i].ts}
    OBVIOUS
  <2>2. K \in SUBSET (1..n) /\ K # {}
    BY <1>1, <1>2, <2>1 DEF Matches
  <2>3. PICK j \in K : j = Max(K)
    BY <2>2, FirstAndLastExist
  <2>4. InventoryCause(claim.name, export[i].ts) = export[j].cause
    BY <2>1, <2>3 DEF InventoryCause
  <2>5. Matches(j, claim)
    BY <1>2, <2>1, <2>3 DEF Matches
  <2>6. claim.cause # None => export[j].cause = claim.cause
    BY <1>2, <2>4
  <2> QED
    BY <2>2, <2>3, <2>5, <2>6
<1>4. PICK I : I = {k \in DOMAIN export :
                     Matches(k, claim) /\ (claim.cause # None => export[k].cause = claim.cause)}
  OBVIOUS
<1>5. PICK H : H = {k \in DOMAIN export : Matches(k, claim)}
  OBVIOUS
<1>6. I \in SUBSET (1..n) /\ I # {} /\ H \in SUBSET (1..n) /\ H # {}
  BY <1>1, <1>3, <1>4, <1>5
<1>7. First(I) # 0 /\ First(H) # 0
  BY <1>6, FirstFound
<1>8. Located(claim) = First(I) /\ Attributed(claim) = First(H)
  BY <1>4, <1>5 DEF Located, Attributed
<1> QED
  BY <1>7, <1>8

(* For any export, one name and time many times over or not, and any claim: what triage's  *)
(* search accepts as grounded, dispatch's pcap agent locates and triage's report            *)
(* attributes; the three inventories never disagree that way.                              *)
THEOREM AcceptedAlwaysLocated == InquirySpec => []AcceptedIsLocated
<1>1. InquiryInit => ExportInv
  BY DEF InquiryInit, ExportInv
<1>2. ExportInv /\ [InquiryNext]_inquiryVars => ExportInv'
  BY DEF ExportInv, InquiryNext, inquiryVars, PcapAgent, KpiAgent, LogAgent, Correlate, Investigate,
         Propose
<1>3. ExportInv => AcceptedIsLocated
  BY GroundedIsLocated DEF AcceptedIsLocated
<1> QED
  BY <1>1, <1>2, <1>3, PTL DEF InquirySpec

-----------------------------------------------------------------------------
(* Citations.                                                              *)

LEMMA InOrderEnumerates ==
  ASSUME NEW n \in Nat, NEW I \in SUBSET (1..n)
  PROVE  /\ Cardinality(I) \in Nat
         /\ InOrder(I) \in [1..Cardinality(I) -> I]
         /\ \A x \in I : \E a \in 1..Cardinality(I) : InOrder(I)[a] = x
         /\ \A a \in 1..Cardinality(I) : Cardinality({y \in I : y < InOrder(I)[a]}) = a - 1
<1>1. IsFiniteSet(I) /\ Cardinality(I) \in Nat
  <2>1. IsFiniteSet(1..n)
    BY FS_Interval
  <2> QED
    BY <2>1, FS_Subset, FS_CardinalityType
<1>2. PICK before : before = {p \in I \X I : p[1] < p[2]}
  OBVIOUS
<1>3. \A x, y \in I : <<x, y>> \in before <=> x < y
  BY <1>2
<1>4. StrictOrder(I, before)
  BY <1>3 DEF StrictOrder
<1>5. PICK s, c : s = SortedBy(I, before) /\ c = Cardinality(I)
  OBVIOUS
<1>6. Enumerates(s, c, I, before)
  BY <1>1, <1>4, <1>5, SortedByEnumerates
<1>7. InOrder(I) = s
  BY <1>2, <1>5 DEF InOrder
<1>8. s \in [1..c -> I] /\ \A x \in I : \E a \in 1..c : s[a] = x
  BY <1>6 DEF Enumerates
<1>9. ASSUME NEW a \in 1..c PROVE Cardinality({y \in I : y < s[a]}) = a - 1
  <2>1. Cardinality({y \in I : <<y, s[a]>> \in before}) = a - 1
    BY <1>1, <1>4, <1>5, <1>6, <1>9, Precede
  <2>2. {y \in I : <<y, s[a]>> \in before} = {y \in I : y < s[a]}
    BY <1>3, <1>8, <1>9
  <2> QED
    BY <2>1, <2>2
<1> QED
  BY <1>1, <1>5, <1>7, <1>8, <1>9

\* A handle counts the messages of its section as evidence.py lists them.
LEMMA HandleResolves ==
  ASSUME ExportInv, NEW i \in DOMAIN export
  PROVE  Resolve(Handle(i)) = i /\ i # 0
<1>1. PICK n \in Nat : DOMAIN export = 1..n
  BY ExportsAssumption, LenProperties DEF ExportInv
<1>2. PICK I : I = {j \in DOMAIN export : Section(j) = Section(i)}
  OBVIOUS
<1>3. PICK s, c : s = InOrder(I) /\ c = Cardinality(I)
  OBVIOUS
<1>4. I \in SUBSET (1..n) /\ i \in I
  BY <1>1, <1>2
<1>5. /\ s \in [1..c -> I]
      /\ \A x \in I : \E a \in 1..c : s[a] = x
      /\ \A a \in 1..c : Cardinality({y \in I : y < s[a]}) = a - 1
      /\ c \in Nat
  <2>1. I \in SUBSET (1..n)
    BY <1>4
  <2>2. /\ InOrder(I) \in [1..Cardinality(I) -> I]
        /\ \A x \in I : \E a \in 1..Cardinality(I) : InOrder(I)[a] = x
        /\ \A a \in 1..Cardinality(I) : Cardinality({y \in I : y < InOrder(I)[a]}) = a - 1
        /\ Cardinality(I) \in Nat
    BY <2>1, InOrderEnumerates, Zenon
  <2> QED
    BY <1>3, <2>2, Zenon
<1>6. PICK a \in 1..c : s[a] = i
  BY <1>4, <1>5
<1>7. PICK Less : Less = {y \in I : y < i}
  OBVIOUS
<1>8. Cardinality(Less) = a - 1
  BY <1>5, <1>6, <1>7
<1>9. {j \in 1..i : Section(j) = Section(i)} = Less \cup {i} /\ i \notin Less
  BY <1>1, <1>2, <1>4, <1>7
<1>10. IsFiniteSet(Less)
  <2>1. IsFiniteSet(1..n)
    BY FS_Interval
  <2>2. Less \subseteq 1..n
    BY <1>4, <1>7
  <2> QED
    BY <2>1, <2>2, FS_Subset
<1>11. Cardinality({j \in 1..i : Section(j) = Section(i)}) = a
  <2>1. Cardinality(Less \cup {i}) = Cardinality(Less) + 1
    BY <1>9, <1>10, FS_AddElement
  <2>2. Cardinality(Less \cup {i}) = a
    BY <1>5, <1>8, <2>1
  <2> QED
    BY <1>9, <2>2
<1>12. Handle(i) = <<"pcap", Section(i), a>>
  BY <1>11 DEF Handle
<1>13. InSection(Section(i)) = s
  BY <1>2, <1>3 DEF InSection
<1>14. Resolve(Handle(i)) = i
  BY <1>5, <1>6, <1>12, <1>13 DEF Resolve
<1> QED
  BY <1>1, <1>14

\* What leads back to its evidence.
Resolves(item) ==
  CASE item.source = "pcap" ->
         /\ Resolve(item.citation) # 0
         /\ LET m == export[Resolve(item.citation)] IN
            m.ts = item.ts /\ m.cause = item.cause /\ FlowKey(m) = item.keys
    [] item.source = "log" ->
         /\ item.citation[2] \in DOMAIN alarm.log
         /\ alarm.log[item.citation[2]] = item.ts
         /\ InWindow(item.ts)
    [] OTHER ->
         \E j \in DOMAIN export :
           /\ export[j].ts = item.ts
           /\ item.cause # None => item.cause = DeviantCause(export[j])

\* The items of an inventory: each lists its keys, and leads back to its evidence.
Sound(item) == item.keys \in Seq(Range(item.keys)) /\ Resolves(item)
AllSound(items) == items \in Seq(Range(items)) /\ \A x \in Range(items) : Sound(x)

LEMMA BothSound ==
  ASSUME NEW s, NEW t, AllSound(s), AllSound(t)
  PROVE  AllSound(s \o t)
<1>1. PICK S : S = Range(s) \cup Range(t)
  OBVIOUS
<1>2. s \in Seq(S) /\ t \in Seq(S)
  BY <1>1 DEF AllSound
<1>3. PICK u : u = s \o t
  OBVIOUS
<1>4. u \in Seq(S)
  BY <1>2, <1>3
<1>5. \A x \in Range(u) : x \in S
  BY <1>4 DEF Range
<1>6. u \in Seq(Range(u))
  BY <1>4 DEF Range
<1>7. \A x \in S : Sound(x)
  BY <1>1 DEF AllSound
<1> QED
  BY <1>3, <1>5, <1>6, <1>7 DEF AllSound

\* What is listed in order resolves when each of it does.
LEMMA ListedSound ==
  ASSUME NEW n \in Nat, NEW s, DOMAIN s = 1..n, s = [k \in 1..n |-> s[k]],
         \A k \in 1..n : Sound(s[k])
  PROVE  AllSound(s)
<1>1. s \in Seq(Range(s))
  BY DEF Range
<1>2. \A x \in Range(s) : Sound(x)
  BY DEF Range
<1> QED
  BY <1>1, <1>2 DEF AllSound

CitationInv ==
  /\ ExportInv
  /\ AllSound(evidence)

LEMMA FlowKeyIsListed ==
  ASSUME NEW m
  PROVE  FlowKey(m) \in Seq(Range(FlowKey(m)))
<1>1. \A x : <<x>> \in Seq(Range(<<x>>))
  BY DEF Range
<1>2. <<>> \in Seq(Range(<<>>))
  BY DEF Range
<1> QED
  BY <1>1, <1>2 DEF FlowKey

LEMMA LocatedInExport ==
  ASSUME ExportInv, NEW claim, Located(claim) # 0
  PROVE  Located(claim) \in DOMAIN export
<1>1. PICK n \in Nat : DOMAIN export = 1..n
  BY ExportsAssumption, LenProperties DEF ExportInv
<1>2. PICK I : I = {i \in DOMAIN export :
                     Matches(i, claim) /\ (claim.cause # None => export[i].cause = claim.cause)}
  OBVIOUS
<1>3. Located(claim) = First(I)
  BY <1>2 DEF Located
<1>4. I # {} /\ First(I) = Min(I)
  BY <1>3 DEF First
<1>5. Min(I) \in I
  BY <1>1, <1>2, <1>4, FirstAndLastExist
<1> QED
  BY <1>2, <1>3, <1>4, <1>5

LEMMA PcapAgentResolves ==
  ASSUME CitationInv, NEW claims \in Claims \cup {<<>>}, PcapAgent(claims)
  PROVE  AllSound(evidence')
<1>1. PICK n \in Nat : DOMAIN claims = 1..n
  BY AnswersAssumption, LenProperties
<1>2. PICK I : I = {k \in DOMAIN claims : Located(claims[k]) # 0}
  OBVIOUS
<1>3. PICK s, c : s = InOrder(I) /\ c = Cardinality(I)
  OBVIOUS
<1>4. I \in SUBSET (1..n)
  BY <1>1, <1>2
<1>5. s \in [1..c -> I] /\ c \in Nat
  BY <1>3, <1>4, InOrderEnumerates
<1>6. evidence' = [k \in DOMAIN s |-> PcapItem(Located(claims[s[k]]))]
  BY <1>2, <1>3 DEF PcapAgent
<1>7. PICK items : items = [k \in 1..c |-> PcapItem(Located(claims[s[k]]))]
  OBVIOUS
<1>8. evidence' = items
  BY <1>5, <1>6, <1>7
<1>9. ASSUME NEW k \in 1..c PROVE Sound(items[k])
  <2>1. PICK i : i = Located(claims[s[k]])
    OBVIOUS
  <2>2. i # 0
    BY <1>2, <1>5, <2>1
  <2>3. i \in DOMAIN export
    BY <2>1, <2>2, LocatedInExport DEF CitationInv
  <2>4. items[k] = PcapItem(i)
    BY <1>7, <2>1
  <2>5. Resolve(Handle(i)) = i /\ i # 0
    BY <2>3, HandleResolves DEF CitationInv
  <2> QED
    BY <2>4, <2>5, FlowKeyIsListed DEF Sound, Resolves, PcapItem, Item
<1> QED
  BY <1>5, <1>7, <1>8, <1>9, ListedSound

LEMMA KpiItemsResolve ==
  ASSUME CitationInv, InPlanes # {}
  PROVE  AllSound(KpiItems)
<1>1. PICK n \in Nat : DOMAIN export = 1..n
  BY ExportsAssumption, LenProperties DEF CitationInv, ExportInv
<1>2. AllSound(<<>>)
  BY DEF AllSound, Range
\* The latest time is some message's.
<1>3. PICK j \in DOMAIN export : export[j].ts = Latest
  <2>1. PICK T : T = {export[i].ts : i \in InPlanes}
    OBVIOUS
  <2>2. \A i \in DOMAIN export : export[i].ts \in Int
    BY ExportsAssumption DEF CitationInv, ExportInv, Range
  <2>3. InPlanes \subseteq 1..n
    BY <1>1 DEF InPlanes
  <2>4. T \in SUBSET Int /\ T # {}
    BY <1>1, <2>1, <2>2, <2>3
  <2>5. IsFiniteSet(T)
    <3>1. IsFiniteSet(1..n)
      BY FS_Interval
    <3>2. IsFiniteSet(InPlanes)
      BY <2>3, <3>1, FS_Subset
    <3>3. PICK f : f = [i \in InPlanes |-> export[i].ts]
      OBVIOUS
    <3>4. IsFiniteSet({f[i] : i \in InPlanes})
      BY <3>2, <3>3, RangesAreFinite
    <3> QED
      BY <2>1, <3>3, <3>4
  <2>6. PICK t \in T : \A u \in T : u <= t
    BY <2>4, <2>5, GreatestExists
  <2>7. Max(T) \in T
    BY <2>4, <2>6 DEF Max
  <2>8. Latest = Max(T)
    BY <2>1 DEF Latest
  <2> QED
    BY <1>1, <2>1, <2>3, <2>7, <2>8
<1>4. ASSUME NEW name PROVE AllSound(<<KpiItem(name)>>)
  <2>1. Sound(KpiItem(name))
    BY <1>3 DEF Sound, Resolves, KpiItem, Item
  <2> QED
    BY <2>1 DEF AllSound, Range
<1>5. PICK I : I = {i \in DOMAIN export : DeviantCause(export[i]) # None}
  OBVIOUS
<1>6. PICK s, c : s = InOrder(I) /\ c = Cardinality(I)
  OBVIOUS
<1>7. I \in SUBSET (1..n)
  BY <1>1, <1>5
<1>8. s \in [1..c -> I] /\ c \in Nat
  BY <1>6, <1>7, InOrderEnumerates
<1>9. PICK items : items = [k \in 1..c |-> RejectItem(export[s[k]])]
  OBVIOUS
<1>10. ASSUME NEW k \in 1..c PROVE Sound(items[k])
  <2>1. PICK i \in DOMAIN export : i = s[k]
    BY <1>5, <1>8
  <2>2. items[k] = RejectItem(export[i])
    BY <1>9, <2>1
  <2> QED
    BY <2>2, FlowKeyIsListed DEF Sound, Resolves, RejectItem, Item
<1>11. AllSound(items)
  BY <1>8, <1>9, <1>10, ListedSound
<1>12. PICK rate : rate = IF alarm.rate < Golden.rate THEN <<KpiItem("rate")>> ELSE <<>>
  OBVIOUS
<1>13. PICK latency : latency = IF alarm.latency > 2 * Golden.latency THEN <<KpiItem("latency")>> ELSE <<>>
  OBVIOUS
<1>14. AllSound(rate) /\ AllSound(latency)
  BY <1>2, <1>4, <1>12, <1>13
<1>15. items = [k \in DOMAIN s |-> RejectItem(export[s[k]])]
  BY <1>8, <1>9
<1>16. KpiItems = rate \o latency \o items
  BY <1>5, <1>6, <1>12, <1>13, <1>15, Zenon DEF KpiItems
<1> QED
  BY <1>11, <1>14, <1>16, BothSound

LEMMA LogItemsResolve ==
  ASSUME CitationInv, NEW proposals \in LogProposals, LogAgent(proposals)
  PROVE  AllSound(evidence')
<1>1. PICK n \in Nat : DOMAIN proposals = 1..n
  BY AnswersAssumption, LenProperties
<1>2. PICK I : I = {k \in DOMAIN proposals : LogGrounded(proposals[k])}
  OBVIOUS
<1>3. PICK s, c : s = InOrder(I) /\ c = Cardinality(I)
  OBVIOUS
<1>4. I \in SUBSET (1..n)
  BY <1>1, <1>2
<1>5. s \in [1..c -> I] /\ c \in Nat
  BY <1>3, <1>4, InOrderEnumerates
<1>6. PICK items : items = [k \in 1..c |-> LogItem(proposals[s[k]])]
  OBVIOUS
<1>7. evidence' = evidence \o [k \in DOMAIN s |-> LogItem(proposals[s[k]])]
  BY <1>2, <1>3 DEF LogAgent
<1>8. evidence' = evidence \o items
  BY <1>5, <1>6, <1>7
<1>9. ASSUME NEW k \in 1..c PROVE Sound(items[k])
  <2>1. PICK p : p = proposals[s[k]]
    OBVIOUS
  <2>2. LogGrounded(p)
    BY <1>2, <1>5, <2>1
  <2>3. items[k] = LogItem(p)
    BY <1>6, <2>1
  <2>4. p \in Range(proposals)
    BY <1>2, <1>5, <2>1 DEF Range
  <2>5. p.keys \in Seq(Range(p.keys))
    BY <2>4, AnswersAssumption
  <2> QED
    BY <2>2, <2>3, <2>5 DEF Sound, Resolves, LogItem, Item, LogGrounded
<1>10. AllSound(items)
  BY <1>5, <1>6, <1>9, ListedSound
<1> QED
  BY <1>8, <1>10, BothSound DEF CitationInv

LEMMA CitationsStart == InquiryInit => CitationInv
<1>1. <<>> \in Seq(Range(<<>>)) /\ Range(<<>>) = {}
  BY DEF Range
<1> QED
  BY <1>1 DEF InquiryInit, CitationInv, ExportInv, AllSound

LEMMA CitationsKeep ==
  ASSUME CitationInv, [InquiryNext]_inquiryVars
  PROVE  CitationInv'
<1>1. export' = export /\ alarm' = alarm
  BY DEF InquiryNext, inquiryVars, PcapAgent, KpiAgent, LogAgent, Correlate, Investigate,
              Propose
<1>2. AllSound(evidence')
  <2>1. CASE evidence' = evidence
    BY <2>1 DEF CitationInv
  <2>2. ASSUME NEW c \in Results, PcapAgent(c) PROVE AllSound(evidence')
    <3>1. c \in Claims \cup {<<>>}
      BY <2>2 DEF Results
    <3> QED
      BY <2>2, <3>1, PcapAgentResolves
  <2>3. ASSUME NEW works \in BOOLEAN, KpiAgent(works) PROVE AllSound(evidence')
    <3>1. CASE works /\ InPlanes # {}
      <4>1. evidence' = evidence \o KpiItems
        BY <2>3, <3>1 DEF KpiAgent
      <4> QED
        BY <3>1, <4>1, KpiItemsResolve, BothSound DEF CitationInv
    <3>2. CASE ~(works /\ InPlanes # {})
      BY <2>3, <3>2 DEF KpiAgent, CitationInv
    <3> QED
      BY <3>1, <3>2
  <2>4. ASSUME NEW p \in LogProposals, LogAgent(p) PROVE AllSound(evidence')
    BY <2>4, LogItemsResolve
  <2> QED
    BY <2>1, <2>2, <2>3, <2>4 DEF InquiryNext, inquiryVars, Correlate, Investigate, Propose
<1>3. \A x : Resolves(x) => Resolves(x)'
  <2>1. \A i : Section(i)' = Section(i)
    BY <1>1 DEF Section
  <2>2. \A s : InSection(s)' = InSection(s)
    BY <1>1, <2>1 DEF InSection
  <2>3. \A h : Resolve(h)' = Resolve(h)
    BY <2>2 DEF Resolve
  <2>4. \A t : InWindow(t)' = InWindow(t)
    BY <1>1 DEF InWindow
  <2> QED
    BY <1>1, <2>3, <2>4 DEF Resolves
<1>4. \A x : Sound(x) => Sound(x)'
  BY <1>3 DEF Sound
<1> QED
  BY <1>1, <1>2, <1>4 DEF CitationInv, ExportInv, AllSound

(* For any export, log and alarm, and anything the tools and the model answer: what the     *)
(* pcap, KPI and log agents list leads back to the message, line or reject it cites.        *)
THEOREM CitationsAlwaysResolve == InquirySpec => []CitationsResolve
<1>1. CitationInv => CitationsResolve
  <2>1. ASSUME CitationInv, NEW i \in DOMAIN evidence PROVE Sound(evidence[i])
    BY <2>1 DEF CitationInv, AllSound, Range
  <2> QED
    BY <2>1 DEF CitationsResolve, Sound, Resolves
<1> QED
  BY <1>1, CitationsStart, CitationsKeep, PTL DEF InquirySpec

-----------------------------------------------------------------------------
(* What the model is shown.                                                *)

\* The scores and the slugs by which a set of past incidents is ranked.
Rankable(scored) ==
  /\ IsFiniteSet(scored)
  /\ \A x \in scored : x.score \in Int /\ x.past.added \in Int /\ x.past.slug \in Int
  /\ \A x, y \in scored : x.past.slug = y.past.slug => x = y

\* The top of a ranking is what is shown: n of the relevant, best first, and three if any is
\* left out.
Top(top, n, shown, scored) ==
  /\ shown = [k \in 1..n |-> top[k].past]
  /\ n \in 0..3
  /\ \A k \in 1..n : top[k] \in scored /\ top[k].score >= 2
  /\ \A j, k \in 1..n : j < k => top[j].score >= top[k].score
  /\ \A x \in scored : x.score >= 2 =>
       \/ \E k \in 1..n : top[k] = x
       \/ n = 3 /\ \A k \in 1..n : top[k].score >= x.score

LEMMA BetterIsStrict ==
  ASSUME NEW scored, Rankable(scored), NEW S \in SUBSET scored,
         NEW before, before = {p \in S \X S : Better(p[1], p[2])}
  PROVE  StrictOrder(S, before)
<1>1. \A x, y \in S : <<x, y>> \in before <=> Better(x, y)
  OBVIOUS
<1>2. \A x \in S : x.score \in Int /\ x.past.added \in Int /\ x.past.slug \in Int
  BY DEF Rankable
<1>3. \A x \in S : ~Better(x, x)
  BY <1>2 DEF Better, Newer
<1>4. ASSUME NEW x \in S, NEW y \in S PROVE x = y \/ Better(x, y) \/ Better(y, x)
  <2>1. x.past.slug = y.past.slug => x = y
    BY DEF Rankable
  <2> QED
    BY <1>2, <2>1 DEF Better, Newer
<1>5. ASSUME NEW x \in S, NEW y \in S, NEW z \in S, Better(x, y), Better(y, z)
      PROVE  Better(x, z)
  BY <1>2, <1>5 DEF Better, Newer
<1> QED
  BY <1>1, <1>3, <1>4, <1>5 DEF StrictOrder

LEMMA BestThreeIsTop ==
  ASSUME NEW scored, Rankable(scored)
  PROVE  \E top, n : Top(top, n, BestThree(scored), scored)
<1>1. PICK S : S = {x \in scored : x.score >= 2}
  OBVIOUS
<1>2. PICK before : before = {p \in S \X S : Better(p[1], p[2])}
  OBVIOUS
<1>3. IsFiniteSet(S) /\ S \in SUBSET scored
  <2>1. S \subseteq scored /\ IsFiniteSet(scored)
    BY <1>1 DEF Rankable
  <2> QED
    BY <2>1, FS_Subset
<1>4. StrictOrder(S, before)
  BY <1>2, <1>3, BetterIsStrict
<1>5. PICK top, c : top = SortedBy(S, before) /\ c = Cardinality(S)
  OBVIOUS
<1>6. Enumerates(top, c, S, before) /\ c \in Nat
  BY <1>3, <1>4, <1>5, SortedByEnumerates, FS_CardinalityType
<1>7. /\ top \in [1..c -> S]
      /\ \A x \in S : \E k \in 1..c : top[k] = x
      /\ \A j, k \in 1..c : j < k => Better(top[j], top[k])
  BY <1>2, <1>6 DEF Enumerates
<1>8. PICK n \in 0..3 : DOMAIN top \cap 1..3 = 1..n /\ n <= c /\ (n = 3 \/ n = c)
  <2>1. CASE c >= 3
    BY <1>6, <1>7, <2>1
  <2>2. CASE c < 3
    <3>1. c \in 0..3 /\ DOMAIN top \cap 1..3 = 1..c
      BY <1>6, <1>7, <2>2
    <3> QED
      BY <3>1
  <2> QED
    BY <1>6, <2>1, <2>2
<1>9. BestThree(scored) = [k \in 1..n |-> top[k].past]
  BY <1>1, <1>2, <1>5, <1>8, Zenon DEF BestThree
<1>10. \A k \in 1..n : top[k] \in scored /\ top[k].score >= 2
  BY <1>1, <1>6, <1>7, <1>8
<1>11. ASSUME NEW j \in 1..c, NEW k \in 1..c, j <= k PROVE top[j].score >= top[k].score
  <2>1. top[j].score \in Int /\ top[k].score \in Int
    BY <1>3, <1>7 DEF Rankable
  <2>2. j = k \/ Better(top[j], top[k])
    BY <1>7, <1>11
  <2> QED
    BY <2>1, <2>2 DEF Better
<1>12. \A j, k \in 1..n : j < k => top[j].score >= top[k].score
  BY <1>6, <1>8, <1>11
<1>13. ASSUME NEW x \in scored, x.score >= 2
       PROVE  \/ \E k \in 1..n : top[k] = x
              \/ n = 3 /\ \A k \in 1..n : top[k].score >= x.score
  <2>1. PICK k \in 1..c : top[k] = x
    BY <1>1, <1>7, <1>13
  <2>2. CASE k <= n
    BY <2>1, <2>2
  <2>3. CASE ~(k <= n)
    <3>1. n = 3
      BY <1>6, <1>8, <2>3
    <3>2. \A j \in 1..n : j \in 1..c /\ j <= k
      BY <1>6, <1>8, <2>3
    <3> QED
      BY <1>11, <2>1, <3>1, <3>2
  <2> QED
    BY <2>2, <2>3
<1> QED
  BY <1>9, <1>10, <1>12, <1>13, Zenon DEF Top

LEMMA IntersectionIsFinite ==
  ASSUME NEW S, NEW T, IsFiniteSet(S)
  PROVE  Cardinality(S \cap T) \in Nat
<1>1. IsFiniteSet(S \cap T)
  BY FS_Intersection
<1> QED
  BY <1>1, FS_CardinalityType

\* Episodes.
LEMMA EpisodesAreRankable == Rankable(Scored(Memory, RecallScore))
<1>1. PICK f : f = [x \in Memory |-> [score |-> RecallScore(x), past |-> x]]
  OBVIOUS
<1>2. PICK scored : scored = {f[x] : x \in Memory}
  OBVIOUS
<1>3. Scored(Memory, RecallScore) = scored
  BY <1>1, <1>2 DEF Scored
<1>4. IsFiniteSet(Memory) /\ \A x \in Memory : /\ x.added \in Int /\ x.slug \in Int
                                               /\ IsFiniteSet(x.keys) /\ IsFiniteSet(x.causes)
  BY AnswersAssumption
<1>5. IsFiniteSet(scored)
  BY <1>1, <1>2, <1>4, RangesAreFinite
<1>6. ASSUME NEW x \in Memory PROVE RecallScore(x) \in Int
  <2>1. PICK causes \in Nat : causes = Cardinality(x.causes \cap SeenCauses)
    BY <1>4, IntersectionIsFinite
  <2>2. PICK keys \in Nat : keys = Cardinality(x.keys \cap SeenKeys)
    BY <1>4, IntersectionIsFinite
  <2>3. PICK same \in {0, 2} : same = IF alarm.procedure # "" /\ x.procedure = alarm.procedure THEN 2 ELSE 0
    OBVIOUS
  <2>4. RecallScore(x) = 3 * causes + keys + same
    BY <2>1, <2>2, <2>3 DEF RecallScore
  <2> QED
    BY <2>4
<1>7. \A x, y \in Memory : x.slug = y.slug => x = y
  BY AnswersAssumption
<1>8. \A x \in scored : x.score \in Int /\ x.past.added \in Int /\ x.past.slug \in Int
  BY <1>1, <1>2, <1>4, <1>6
<1>9. \A x, y \in scored : x.past.slug = y.past.slug => x = y
  BY <1>1, <1>2, <1>7
<1> QED
  BY <1>3, <1>5, <1>8, <1>9 DEF Rankable

\* Runbooks.
LEMMA RunbooksAreRankable == Rankable(Scored(Library, RunbookScore))
<1>1. PICK f : f = [x \in Library |-> [score |-> RunbookScore(x), past |-> x]]
  OBVIOUS
<1>2. PICK scored : scored = {f[x] : x \in Library}
  OBVIOUS
<1>3. Scored(Library, RunbookScore) = scored
  BY <1>1, <1>2 DEF Scored
<1>4. IsFiniteSet(Library) /\ \A x \in Library : x.added \in Int /\ x.slug \in Int /\ IsFiniteSet(x.keys)
  BY AnswersAssumption
<1>5. IsFiniteSet(scored)
  BY <1>1, <1>2, <1>4, RangesAreFinite
<1>6. ASSUME NEW x \in Library PROVE RunbookScore(x) \in Int
  <2>1. Cardinality(x.keys \cap SeenKeys) \in Nat
    BY <1>4, IntersectionIsFinite
  <2> QED
    BY <2>1 DEF RunbookScore
<1>7. \A x, y \in Library : x.slug = y.slug => x = y
  BY AnswersAssumption
<1>8. \A x \in scored : x.score \in Int /\ x.past.added \in Int /\ x.past.slug \in Int
  BY <1>1, <1>2, <1>4, <1>6
<1>9. \A x, y \in scored : x.past.slug = y.past.slug => x = y
  BY <1>1, <1>2, <1>7
<1> QED
  BY <1>3, <1>5, <1>8, <1>9 DEF Rankable

\* The best of a set, as ContextIsRelevant has it.
BestOf(shown, S, Score(_)) ==
  /\ Len(shown) <= 3
  /\ \A i, j \in DOMAIN shown : i < j => Score(shown[i]) >= Score(shown[j])
  /\ \A i \in DOMAIN shown : Score(shown[i]) >= 2
  /\ \A x \in S \ Range(shown) :
       Score(x) >= 2 =>
         Len(shown) = 3 /\ \A i \in DOMAIN shown : Score(shown[i]) >= Score(x)

LEMMA RecalledAreBest == BestOf(BestThree(Scored(Memory, RecallScore)), Memory, RecallScore)
<1>1. PICK scored, shown : scored = Scored(Memory, RecallScore) /\ shown = BestThree(scored)
  OBVIOUS
<1>2. PICK top, n : Top(top, n, shown, scored)
  BY <1>1, EpisodesAreRankable, BestThreeIsTop
<1>3. \A x \in scored : x.score = RecallScore(x.past)
  BY <1>1 DEF Scored
<1>4. DOMAIN shown = 1..n /\ Len(shown) = n /\ n \in 0..3
  BY <1>2 DEF Top
<1>5. \A k \in 1..n : RecallScore(shown[k]) = top[k].score /\ top[k].score >= 2
  BY <1>2, <1>3 DEF Top
<1>6. ASSUME NEW x \in Memory \ Range(shown), RecallScore(x) >= 2
      PROVE  n = 3 /\ \A k \in 1..n : top[k].score >= RecallScore(x)
  <2>1. PICK y \in scored : y.past = x /\ y.score = RecallScore(x)
    <3>1. PICK y : y = [score |-> RecallScore(x), past |-> x]
      OBVIOUS
    <3>2. y \in scored
      BY <1>1, <1>6, <3>1 DEF Scored
    <3> QED
      BY <3>1, <3>2
  <2>2. ASSUME NEW k \in 1..n, top[k] = y PROVE FALSE
    BY <1>2, <1>4, <1>6, <2>1, <2>2 DEF Top, Range
  <2> QED
    BY <1>2, <1>6, <2>1, <2>2 DEF Top
<1>7. \A j, k \in 1..n : j < k => top[j].score >= top[k].score
  BY <1>2 DEF Top
<1>8. \A j, k \in 1..n : j < k => RecallScore(shown[j]) >= RecallScore(shown[k])
  BY <1>5, <1>7
<1>9. \A x \in Memory \ Range(shown) :
        RecallScore(x) >= 2 => n = 3 /\ \A k \in 1..n : RecallScore(shown[k]) >= RecallScore(x)
  BY <1>5, <1>6
<1>10. \A k \in 1..n : RecallScore(shown[k]) >= 2
  BY <1>5
<1>11. n <= 3
  BY <1>4
<1>12. BestOf(shown, Memory, RecallScore)
  BY <1>4, <1>8, <1>9, <1>10, <1>11 DEF BestOf
<1> QED
  BY <1>1, <1>12

LEMMA ConsultedAreBest == BestOf(BestThree(Scored(Library, RunbookScore)), Library, RunbookScore)
<1>1. PICK scored, shown : scored = Scored(Library, RunbookScore) /\ shown = BestThree(scored)
  OBVIOUS
<1>2. PICK top, n : Top(top, n, shown, scored)
  BY <1>1, RunbooksAreRankable, BestThreeIsTop
<1>3. \A x \in scored : x.score = RunbookScore(x.past)
  BY <1>1 DEF Scored
<1>4. DOMAIN shown = 1..n /\ Len(shown) = n /\ n \in 0..3
  BY <1>2 DEF Top
<1>5. \A k \in 1..n : RunbookScore(shown[k]) = top[k].score /\ top[k].score >= 2
  BY <1>2, <1>3 DEF Top
<1>6. ASSUME NEW x \in Library \ Range(shown), RunbookScore(x) >= 2
      PROVE  n = 3 /\ \A k \in 1..n : top[k].score >= RunbookScore(x)
  <2>1. PICK y \in scored : y.past = x /\ y.score = RunbookScore(x)
    <3>1. PICK y : y = [score |-> RunbookScore(x), past |-> x]
      OBVIOUS
    <3>2. y \in scored
      BY <1>1, <1>6, <3>1 DEF Scored
    <3> QED
      BY <3>1, <3>2
  <2>2. ASSUME NEW k \in 1..n, top[k] = y PROVE FALSE
    BY <1>2, <1>4, <1>6, <2>1, <2>2 DEF Top, Range
  <2> QED
    BY <1>2, <1>6, <2>1, <2>2 DEF Top
<1>7. \A j, k \in 1..n : j < k => top[j].score >= top[k].score
  BY <1>2 DEF Top
<1>8. \A j, k \in 1..n : j < k => RunbookScore(shown[j]) >= RunbookScore(shown[k])
  BY <1>5, <1>7
<1>9. \A x \in Library \ Range(shown) :
        RunbookScore(x) >= 2 => n = 3 /\ \A k \in 1..n : RunbookScore(shown[k]) >= RunbookScore(x)
  BY <1>5, <1>6
<1>10. \A k \in 1..n : RunbookScore(shown[k]) >= 2
  BY <1>5
<1>11. n <= 3
  BY <1>4
<1>12. BestOf(shown, Library, RunbookScore)
  BY <1>4, <1>8, <1>9, <1>10, <1>11 DEF BestOf
<1> QED
  BY <1>1, <1>12

(* For any memory and library, of any size, and any evidence: the search is seeded with     *)
(* the best three Episodes and the proposer is shown the best three Runbooks, by the        *)
(* scorer that episode memory and runbooks share.                                          *)
THEOREM ContextAlwaysRelevant == InquirySpec => []ContextIsRelevant
<1>1. InquiryInit => ContextIsRelevant
  BY DEF InquiryInit, ContextIsRelevant
<1>2. ASSUME ContextIsRelevant, [InquiryNext]_inquiryVars
      PROVE  ContextIsRelevant'
  <2>1. ASSUME NEW c \in Results, PcapAgent(c) PROVE ContextIsRelevant'
    BY <2>1 DEF PcapAgent, ContextIsRelevant
  <2>2. ASSUME NEW works \in BOOLEAN, KpiAgent(works) PROVE ContextIsRelevant'
    BY <2>2 DEF KpiAgent, ContextIsRelevant
  <2>3. ASSUME NEW p \in LogProposals, LogAgent(p) PROVE ContextIsRelevant'
    BY <2>3 DEF LogAgent, ContextIsRelevant
  <2>4. CASE Correlate
    BY <2>4 DEF Correlate, ContextIsRelevant
  <2>5. ASSUME NEW narrated, NEW cited, Investigate(narrated, cited) PROVE ContextIsRelevant'
    <3>1. node' = "propose" /\ evidence' = evidence /\ alarm' = alarm
      BY <2>5 DEF Investigate
    <3>2. evidence # <<>> => recalled' = BestThree(Scored(Memory, RecallScore))
      BY <2>5 DEF Investigate
    <3>3. evidence # <<>> => BestOf(recalled', Memory, RecallScore)
      BY <3>2, RecalledAreBest
    <3>4. \A x : RecallScore(x)' = RecallScore(x)
      BY <3>1 DEF RecallScore, SeenKeys, SeenCauses
    <3> QED
      BY <3>1, <3>3, <3>4 DEF ContextIsRelevant, BestOf
  <2>6. ASSUME NEW s \in Selections, Propose(s) PROVE ContextIsRelevant'
    <3>1. node = "propose" /\ recalled' = recalled /\ evidence' = evidence /\ alarm' = alarm
      BY <2>6 DEF Propose
    <3>2. BestOf(consulted', Library, RunbookScore)
      <4>1. consulted' = BestThree(Scored(Library, RunbookScore))
        BY <2>6 DEF Propose
      <4> QED
        BY <4>1, ConsultedAreBest
    <3>3. evidence # <<>> => BestOf(recalled, Memory, RecallScore)
      BY <1>2, <3>1 DEF ContextIsRelevant, BestOf
    <3>4. \A x : RecallScore(x)' = RecallScore(x) /\ RunbookScore(x)' = RunbookScore(x)
      BY <3>1 DEF RecallScore, RunbookScore, SeenKeys, SeenCauses
    <3> QED
      BY <3>1, <3>2, <3>3, <3>4 DEF ContextIsRelevant, BestOf
  <2>7. CASE UNCHANGED inquiryVars
    <3>1. /\ node' = node /\ evidence' = evidence /\ recalled' = recalled
          /\ consulted' = consulted /\ alarm' = alarm
      BY <2>7 DEF inquiryVars
    <3>2. \A x : RecallScore(x)' = RecallScore(x) /\ RunbookScore(x)' = RunbookScore(x)
      BY <3>1 DEF RecallScore, RunbookScore, SeenKeys, SeenCauses
    <3> QED
      BY <1>2, <3>1, <3>2 DEF ContextIsRelevant
  <2> QED
    BY <1>2, <2>1, <2>2, <2>3, <2>4, <2>5, <2>6, <2>7 DEF InquiryNext
<1> QED
  BY <1>1, <1>2, PTL DEF InquirySpec

-----------------------------------------------------------------------------
(* What is proposed.                                                       *)

\* A placeholder takes the first value of its key.
LEMMA BoundToFirst ==
  ASSUME CitationInv, NEW v, v.type = "str", v.text \in DOMAIN Placeholders, Bindable(v)
  PROVE  \E i \in DOMAIN evidence :
           /\ \E kv \in Range(evidence[i].keys) : kv.key = Placeholders[v.text] /\ kv.value = Bound(v)
           /\ \A j \in 1..(i - 1) : \A kv \in Range(evidence[j].keys) : kv.key # Placeholders[v.text]
<1>1. PICK key : key = Placeholders[v.text]
  OBVIOUS
<1>2. PICK n \in Nat : DOMAIN evidence = 1..n
  BY LenProperties DEF CitationInv, AllSound
<1>3. PICK C : C = Carrying(key)
  OBVIOUS
<1>4. C \in SUBSET (1..n) /\ C # {}
  BY <1>1, <1>2, <1>3 DEF Carrying, Bindable
<1>5. PICK i \in C : i = Min(C)
  BY <1>4, FirstAndLastExist
<1>6. \A j \in C : i <= j
  <2>1. PICK m \in C : \A j \in C : m <= j
    <3>1. C \in SUBSET Nat
      BY <1>4
    <3> QED
      BY <1>4, <3>1, LeastExists
  <2> QED
    BY <1>5, <2>1 DEF Min
<1>7. PICK keys : keys = evidence[i].keys
  OBVIOUS
<1>8. PICK l \in Nat : DOMAIN keys = 1..l /\ Len(keys) = l
  <2>1. evidence[i] \in Range(evidence)
    BY <1>2, <1>4 DEF Range
  <2>2. keys \in Seq(Range(keys))
    BY <1>7, <2>1 DEF CitationInv, AllSound, Sound
  <2> QED
    BY <2>2, LenProperties
<1>9. PICK I : I = {k \in 1..Len(keys) : keys[k].key = key}
  OBVIOUS
<1>10. I \in SUBSET (1..l) /\ I # {}
  <2>1. \E kv \in Range(keys) : kv.key = key
    BY <1>3, <1>5, <1>7 DEF Carrying
  <2> QED
    BY <1>8, <1>9, <2>1 DEF Range
<1>11. PICK k \in I : k = Min(I)
  BY <1>10, FirstAndLastExist
<1>12. SelectInSeq(keys, LAMBDA kv : kv.key = key) = k
  BY <1>9, <1>10, <1>11 DEF SelectInSeq
<1>13. Bound(v) = keys[k].value
  <2>1. Bound(v) = ValueAt(i, key)
    BY <1>1, <1>3, <1>5 DEF Bound
  <2> QED
    BY <1>7, <1>12, <2>1 DEF ValueAt
<1>14. keys[k] \in Range(keys) /\ keys[k].key = key
  BY <1>8, <1>9, <1>10 DEF Range
<1>15. ASSUME NEW j \in 1..(i - 1), NEW kv \in Range(evidence[j].keys) PROVE kv.key # key
  <2>1. j \in 1..n /\ ~(i <= j)
    BY <1>4, <1>15
  <2>2. j \notin C
    BY <1>6, <2>1
  <2> QED
    BY <1>2, <1>3, <1>15, <2>1, <2>2 DEF Carrying
<1> QED
  BY <1>1, <1>2, <1>4, <1>7, <1>13, <1>14, <1>15

\* There is no proposal before the proposer ran, and then nothing changes.
ProposalInv ==
  /\ CitationInv
  /\ node # "approval" => proposal = NoProposal
  /\ ProposalIsBound

\* What of a selection is proposed, argument by argument.
IsProposedFor(value, chosen) ==
  IF evidence # <<>> /\ chosen.type = "str" /\ chosen.text \in DOMAIN Placeholders
  THEN \E i \in DOMAIN evidence :
         /\ \E kv \in Range(evidence[i].keys) :
              kv.key = Placeholders[chosen.text] /\ kv.value = value
         /\ \A j \in 1..(i - 1) : \A kv \in Range(evidence[j].keys) :
              kv.key # Placeholders[chosen.text]
  ELSE value = chosen

LEMMA ProposeBinds ==
  ASSUME CitationInv, NEW s, Propose(s), proposal = NoProposal
  PROVE  ProposalIsBound'
<1>1. evidence' = evidence
  BY DEF Propose
<1>2. CASE proposal' = proposal
  BY <1>2 DEF ProposalIsBound
<1>3. ASSUME proposal' # proposal PROVE ProposalIsBound'
  <2>1. PICK args : args = IF evidence = <<>> THEN s.args
                           ELSE [k \in DOMAIN s.args |->
                                   [name |-> s.args[k].name, value |-> Bound(s.args[k].value)]]
    OBVIOUS
  <2>2. /\ proposal' = [action |-> s.action, args |-> args]
        /\ selected' = [action |-> s.action, args |-> s.args]
        /\ s.action \in DOMAIN Allowed \cup {"observe_only"}
        /\ s.action = "observe_only" => s.args = <<>>
        /\ evidence # <<>> => \A k \in DOMAIN s.args : Bindable(s.args[k].value)
        /\ Renders(s.action, args)
    BY <1>3, <2>1, Zenon DEF Propose
  <2>3. DOMAIN args = DOMAIN s.args
    BY <2>1
  <2>4. IF s.action = "observe_only" THEN DOMAIN args = {}
        ELSE /\ s.action \in DOMAIN Allowed
             /\ \E k \in DOMAIN args :
                  /\ args[k].name = Allowed[s.action].name
                  /\ args[k].value.text \in Allowed[s.action].texts
                  /\ Allowed[s.action].strict => args[k].value.type = "str"
    BY <2>2, <2>3 DEF Renders
  <2>5. ASSUME NEW k \in DOMAIN args, evidence # <<>>
        PROVE  args[k].name = s.args[k].name /\ args[k].value = Bound(s.args[k].value)
    BY <2>1, <2>3, <2>5
  <2>6. ASSUME NEW k \in DOMAIN args
        PROVE  args[k].name = s.args[k].name /\ IsProposedFor(args[k].value, s.args[k].value)
    <3>1. CASE evidence = <<>>
      BY <2>1, <3>1 DEF IsProposedFor
    <3>2. PICK chosen : chosen = s.args[k].value
      OBVIOUS
    <3>3. CASE /\ evidence # <<>>
               /\ chosen.type = "str" /\ chosen.text \in DOMAIN Placeholders
      <4>1. Bindable(chosen) /\ args[k].value = Bound(chosen) /\ args[k].name = s.args[k].name
        BY <2>2, <2>3, <2>5, <3>2, <3>3
      <4> QED
        BY <3>2, <3>3, <4>1, BoundToFirst, Zenon DEF IsProposedFor
    <3>4. CASE /\ evidence # <<>>
               /\ ~(chosen.type = "str" /\ chosen.text \in DOMAIN Placeholders)
      <4>1. args[k].value = chosen /\ args[k].name = s.args[k].name
        BY <2>5, <3>2, <3>4 DEF Bound
      <4> QED
        BY <3>2, <3>4, <4>1, Zenon DEF IsProposedFor
    <3> QED
      BY <3>1, <3>3, <3>4
  <2>7. /\ proposal'.action = s.action /\ proposal'.args = args
        /\ selected'.action = s.action /\ selected'.args = s.args
    BY <2>2
  <2>8. /\ IF proposal'.action = "observe_only" THEN DOMAIN proposal'.args = {}
           ELSE /\ proposal'.action \in DOMAIN Allowed
                /\ \E k \in DOMAIN proposal'.args :
                     /\ proposal'.args[k].name = Allowed[proposal'.action].name
                     /\ proposal'.args[k].value.text \in Allowed[proposal'.action].texts
                     /\ Allowed[proposal'.action].strict => proposal'.args[k].value.type = "str"
        /\ proposal'.action = selected'.action /\ DOMAIN proposal'.args = DOMAIN selected'.args
    BY <2>3, <2>4, <2>7
  <2>9. \A k \in DOMAIN proposal'.args :
          /\ proposal'.args[k].name = selected'.args[k].name
          /\ IsProposedFor(proposal'.args[k].value, selected'.args[k].value)
    BY <2>6, <2>7
  <2> QED
    BY <1>1, <2>8, <2>9 DEF ProposalIsBound, IsProposedFor
<1> QED
  BY <1>2, <1>3

(* For any inventory and any selection of any number of arguments: what is proposed is      *)
(* allowed once it is bound, and it is what was selected, its placeholders bound to the     *)
(* first value the evidence gives them.                                                     *)
THEOREM ProposalAlwaysBound == InquirySpec => []ProposalIsBound
<1>1. InquiryInit => ProposalInv
  BY CitationsStart DEF InquiryInit, ProposalInv, ProposalIsBound
<1>2. ASSUME ProposalInv, [InquiryNext]_inquiryVars
      PROVE  ProposalInv'
  <2>1. CitationInv'
    BY <1>2, CitationsKeep DEF ProposalInv
  <2>2. ASSUME NEW s \in Selections, Propose(s) PROVE ProposalInv'
    <3>1. proposal = NoProposal /\ node' = "approval"
      BY <1>2, <2>2 DEF ProposalInv, Propose
    <3> QED
      BY <1>2, <2>1, <2>2, <3>1, ProposeBinds DEF ProposalInv
  <2>3. ASSUME NEW c \in Results, PcapAgent(c) PROVE ProposalInv'
    BY <1>2, <2>1, <2>3 DEF ProposalInv, ProposalIsBound, PcapAgent
  <2>4. ASSUME NEW works \in BOOLEAN, KpiAgent(works) PROVE ProposalInv'
    BY <1>2, <2>1, <2>4 DEF ProposalInv, ProposalIsBound, KpiAgent
  <2>5. ASSUME NEW p \in LogProposals, LogAgent(p) PROVE ProposalInv'
    BY <1>2, <2>1, <2>5 DEF ProposalInv, ProposalIsBound, LogAgent
  <2>6. CASE Correlate
    BY <1>2, <2>1, <2>6 DEF ProposalInv, ProposalIsBound, Correlate
  <2>7. ASSUME NEW narrated, NEW cited, Investigate(narrated, cited) PROVE ProposalInv'
    BY <1>2, <2>1, <2>7 DEF ProposalInv, ProposalIsBound, Investigate
  <2>8. CASE UNCHANGED inquiryVars
    BY <1>2, <2>1, <2>8 DEF ProposalInv, ProposalIsBound, inquiryVars
  <2> QED
    BY <1>2, <2>2, <2>3, <2>4, <2>5, <2>6, <2>7, <2>8 DEF InquiryNext
<1>3. ProposalInv => ProposalIsBound
  BY DEF ProposalInv
<1> QED
  BY <1>1, <1>2, <1>3, PTL DEF InquirySpec

-----------------------------------------------------------------------------
(* Links.                                                                  *)

\* What makes two items a link, by one of their values.
Corroborates(a, b, kv) ==
  /\ a \in DOMAIN evidence /\ b \in DOMAIN evidence /\ a < b
  /\ InWindow(evidence[a].ts) /\ InWindow(evidence[b].ts) /\ ~Disagree(a, b)
  /\ kv \in KeysOf(a) /\ Carriers(kv) = {a, b}

\* The links by the values looked at so far.
ExactFor(found, V) ==
  /\ \A l \in found : Corroborates(l.a, l.b, l.by)
  /\ \A a, b \in DOMAIN evidence, kv \in V :
       Corroborates(a, b, kv) => \E l \in found : l.a = a /\ l.b = b
  /\ \A l, m \in found : l # m => l.a # m.a \/ l.b # m.b

LEMMA PairCorroborates ==
  ASSUME CitationInv, NEW kv, ~Ambiguous(kv), NEW p \in Pairs(kv)
  PROVE  Corroborates(p[1], p[2], kv)
<1>1. PICK n \in Nat : DOMAIN evidence = 1..n
  BY LenProperties DEF CitationInv, AllSound
<1>2. PICK a, b : a = p[1] /\ b = p[2]
  OBVIOUS
<1>3. PICK C : C = Carriers(kv)
  OBVIOUS
<1>4. /\ a \in C /\ b \in C /\ a < b /\ ~Disagree(a, b)
      /\ InWindow(evidence[a].ts) /\ InWindow(evidence[b].ts)
  BY <1>2, <1>3 DEF Pairs
<1>5. C \subseteq 1..n
  BY <1>1, <1>3 DEF Carriers
<1>6. IsFiniteSet(C) /\ Cardinality(C) \in Nat
  <2>1. IsFiniteSet(1..n)
    BY FS_Interval
  <2> QED
    BY <1>5, <2>1, FS_Subset, FS_CardinalityType
<1>7. ASSUME NEW c \in C, c # a, c # b PROVE FALSE
  <2>1. a # b
    BY <1>4, <1>5
  <2>2. IsFiniteSet({a}) /\ Cardinality({a}) = 1
    BY FS_Singleton
  <2>3. IsFiniteSet({a, b}) /\ Cardinality({a, b}) = 2
    <3>1. {a, b} = {a} \cup {b} /\ b \notin {a}
      BY <2>1
    <3>2. IsFiniteSet({a} \cup {b}) /\ Cardinality({a} \cup {b}) = Cardinality({a}) + 1
      BY <2>2, <3>1, FS_AddElement
    <3> QED
      BY <2>2, <3>1, <3>2
  <2>4. IsFiniteSet({a, b, c}) /\ Cardinality({a, b, c}) = 3
    <3>1. {a, b, c} = {a, b} \cup {c} /\ c \notin {a, b}
      BY <1>7
    <3>2. IsFiniteSet({a, b} \cup {c}) /\ Cardinality({a, b} \cup {c}) = Cardinality({a, b}) + 1
      BY <2>3, <3>1, FS_AddElement
    <3> QED
      BY <2>3, <3>1, <3>2
  <2>5. {a, b, c} \subseteq C
    BY <1>4, <1>7
  <2>6. 3 <= Cardinality(C)
    BY <1>6, <2>4, <2>5, FS_Subset
  <2> QED
    BY <1>3, <1>6, <2>6 DEF Ambiguous
<1>8. C = {a, b}
  BY <1>4, <1>7
<1>9. kv \in KeysOf(a)
  BY <1>3, <1>4 DEF Carriers
<1>10. a \in DOMAIN evidence /\ b \in DOMAIN evidence
  BY <1>1, <1>4, <1>5
<1> QED
  BY <1>2, <1>3, <1>4, <1>8, <1>9, <1>10 DEF Corroborates

LEMMA CorroboratingPair ==
  ASSUME CitationInv, NEW a, NEW b, NEW kv, Corroborates(a, b, kv)
  PROVE  ~Ambiguous(kv) /\ <<a, b>> \in Pairs(kv)
<1>1. PICK n \in Nat : DOMAIN evidence = 1..n
  BY LenProperties DEF CitationInv, AllSound
<1>2. a \in 1..n /\ b \in 1..n /\ a < b
  BY <1>1 DEF Corroborates
<1>3. IsFiniteSet({a}) /\ Cardinality({a}) = 1
  BY FS_Singleton
<1>4. {a, b} = {a} \cup {b} /\ b \notin {a}
  BY <1>2
<1>5. Cardinality({a} \cup {b}) = Cardinality({a}) + 1
  BY <1>3, <1>4, FS_AddElement
<1>6. Cardinality(Carriers(kv)) = 2
  BY <1>3, <1>4, <1>5 DEF Corroborates
<1>7. ~Ambiguous(kv)
  BY <1>6 DEF Ambiguous
<1>8. <<a, b>> \in Pairs(kv)
  BY DEF Corroborates, Pairs
<1> QED
  BY <1>7, <1>8

\* A value adds the links it makes, and no second one of a pair.
LEMMA LinkByKeeps ==
  ASSUME CitationInv, NEW found, NEW V, ExactFor(found, V), NEW kv
  PROVE  ExactFor(LinkBy(found, kv), V \cup {kv})
<1>1. CASE Ambiguous(kv)
  <2>1. LinkBy(found, kv) = found
    BY <1>1 DEF LinkBy
  <2>2. \A a, b : ~Corroborates(a, b, kv)
    BY <1>1, CorroboratingPair
  <2> QED
    BY <2>1, <2>2 DEF ExactFor
<1>2. CASE ~Ambiguous(kv)
  <2>1. PICK New : New = {p \in Pairs(kv) : \A l \in found : l.a # p[1] \/ l.b # p[2]}
    OBVIOUS
  <2>2. PICK added : added = {[a |-> p[1], b |-> p[2], by |-> kv] : p \in New}
    OBVIOUS
  <2>3. LinkBy(found, kv) = found \cup added
    BY <1>2, <2>1, <2>2 DEF LinkBy
  <2>4. ASSUME NEW l \in found \cup added PROVE Corroborates(l.a, l.b, l.by)
    <3>1. CASE l \in found
      BY <3>1 DEF ExactFor
    <3>2. CASE l \in added
      <4>1. PICK p \in New : l = [a |-> p[1], b |-> p[2], by |-> kv]
        BY <2>2, <3>2
      <4>2. Corroborates(p[1], p[2], kv)
        BY <1>2, <2>1, PairCorroborates
      <4> QED
        BY <4>1, <4>2
    <3> QED
      BY <3>1, <3>2
  <2>5. ASSUME NEW a \in DOMAIN evidence, NEW b \in DOMAIN evidence, NEW k \in V \cup {kv},
               Corroborates(a, b, k)
        PROVE  \E l \in found \cup added : l.a = a /\ l.b = b
    <3>1. CASE k \in V
      BY <2>5, <3>1 DEF ExactFor
    <3>2. CASE k = kv
      <4>1. PICK p \in Pairs(kv) : p = <<a, b>>
        BY <2>5, <3>2, CorroboratingPair
      <4>2. CASE p \in New
        <5>1. PICK l \in added : l = [a |-> p[1], b |-> p[2], by |-> kv]
          BY <2>2, <4>2
        <5> QED
          BY <4>1, <5>1
      <4>3. CASE p \notin New
        <5>1. PICK l \in found : l.a = p[1] /\ l.b = p[2]
          BY <2>1, <4>3
        <5> QED
          BY <4>1, <5>1
      <4> QED
        BY <4>2, <4>3
    <3> QED
      BY <3>1, <3>2
  <2>6. ASSUME NEW l \in found \cup added, NEW m \in found \cup added, l.a = m.a, l.b = m.b
        PROVE  l = m
    <3>1. ASSUME NEW x \in found, NEW y \in added PROVE x.a # y.a \/ x.b # y.b
      <4>1. PICK p \in New : y = [a |-> p[1], b |-> p[2], by |-> kv]
        BY <2>2, <3>1
      <4> QED
        BY <2>1, <4>1
    <3>2. ASSUME NEW x \in added, NEW y \in added, x.a = y.a, x.b = y.b PROVE x = y
      <4>1. PICK p \in New : x = [a |-> p[1], b |-> p[2], by |-> kv]
        BY <2>2, <3>2
      <4>2. PICK q \in New : y = [a |-> q[1], b |-> q[2], by |-> kv]
        BY <2>2, <3>2
      <4> QED
        BY <3>2, <4>1, <4>2
    <3>3. \A x, y \in found : x # y => x.a # y.a \/ x.b # y.b
      BY DEF ExactFor
    <3> QED
      BY <2>6, <3>1, <3>2, <3>3
  <2> QED
    BY <2>3, <2>4, <2>5, <2>6 DEF ExactFor
<1> QED
  BY <1>1, <1>2

\* The links by the first k values.
Linking(f, n, values) ==
  f = [k \in 0..n |-> IF k = 0 THEN {} ELSE LinkBy(f[k - 1], values[k])]

LEMMA LinkingExists ==
  ASSUME NEW n \in Nat, NEW values
  PROVE  \E f : Linking(f, n, values)
<1>1. PICK Bad : Bad = {m \in Nat : ~\E f : Linking(f, m, values)}
  OBVIOUS
<1>2. SUFFICES ASSUME Bad # {} PROVE FALSE
  BY <1>1
<1>3. PICK m \in Bad : \A j \in Bad : m <= j
  <2>1. Bad \in SUBSET Nat
    BY <1>1
  <2> QED
    BY <1>2, <2>1, LeastExists
<1>4. m \in Nat /\ ~\E f : Linking(f, m, values)
  BY <1>1, <1>3
<1>5. CASE m = 0
  <2>1. PICK f : f = [k \in 0..0 |-> {}]
    OBVIOUS
  <2>2. f = [k \in 0..0 |-> IF k = 0 THEN {} ELSE LinkBy(f[k - 1], values[k])]
    BY <2>1
  <2> QED
    BY <1>4, <1>5, <2>2 DEF Linking
<1>6. CASE m > 0
  <2>1. PICK l \in Nat : m = l + 1
    <3>1. m - 1 \in Nat /\ m = (m - 1) + 1
      BY <1>4, <1>6
    <3> QED
      BY <3>1
  <2>2. l \notin Bad
    BY <1>3, <1>4, <2>1
  <2>3. PICK f : Linking(f, l, values)
    BY <1>1, <2>2
  <2>4. PICK g : g = [k \in 0..m |-> IF k = m THEN LinkBy(f[l], values[m]) ELSE f[k]]
    OBVIOUS
  <2>5. f = [k \in 0..l |-> IF k = 0 THEN {} ELSE LinkBy(f[k - 1], values[k])]
    BY <2>3 DEF Linking
  <2>6. f[0] = {} /\ \A k \in 1..l : f[k] = LinkBy(f[k - 1], values[k])
    <3>1. \A k \in 0..l : f[k] = IF k = 0 THEN {} ELSE LinkBy(f[k - 1], values[k])
      BY <2>5, Zenon
    <3>2. 0 \in 0..l /\ \A k \in 1..l : k \in 0..l /\ k # 0
      OBVIOUS
    <3> QED
      BY <3>1, <3>2, Zenon
  <2>7. g[0] = {} /\ \A k \in 0..l : g[k] = f[k]
    BY <2>1, <2>4, <2>6
  <2>8. ASSUME NEW k \in 1..m PROVE g[k] = LinkBy(g[k - 1], values[k])
    <3>1. CASE k = m
      <4>1. g[k] = LinkBy(f[l], values[m])
        BY <2>1, <2>4, <3>1
      <4>2. k - 1 = l /\ g[l] = f[l]
        BY <2>1, <2>7, <3>1
      <4> QED
        BY <3>1, <4>1, <4>2
    <3>2. CASE k # m
      <4>1. k \in 1..l /\ k - 1 \in 0..l
        BY <1>4, <2>1, <3>2
      <4>2. g[k] = f[k] /\ g[k - 1] = f[k - 1]
        BY <2>7, <4>1
      <4> QED
        BY <2>6, <4>1, <4>2
    <3> QED
      BY <3>1, <3>2
  <2>9. g = [k \in 0..m |-> IF k = 0 THEN {} ELSE LinkBy(g[k - 1], values[k])]
    <3>1. DOMAIN g = 0..m /\ g = [k \in 0..m |-> g[k]]
      BY <2>4
    <3>2. \A k \in 0..m : g[k] = IF k = 0 THEN {} ELSE LinkBy(g[k - 1], values[k])
      BY <1>4, <2>7, <2>8
    <3> QED
      BY <3>1, <3>2
  <2> QED
    BY <1>4, <2>9 DEF Linking
<1> QED
  BY <1>4, <1>5, <1>6

LEMMA LinkingIsExact ==
  ASSUME CitationInv, NEW n \in Nat, NEW values, NEW f, Linking(f, n, values)
  PROVE  ExactFor(f[n], {values[j] : j \in 1..n})
<1>1. f[0] = {} /\ \A k \in 1..n : f[k] = LinkBy(f[k - 1], values[k])
  <2>1. f = [k \in 0..n |-> IF k = 0 THEN {} ELSE LinkBy(f[k - 1], values[k])]
    BY DEF Linking
  <2>2. \A k \in 0..n : f[k] = IF k = 0 THEN {} ELSE LinkBy(f[k - 1], values[k])
    BY <2>1, Zenon
  <2>3. 0 \in 0..n /\ \A k \in 1..n : k \in 0..n /\ k # 0
    OBVIOUS
  <2> QED
    BY <2>2, <2>3, Zenon
<1>2. PICK Bad : Bad = {k \in 0..n : ~ExactFor(f[k], {values[j] : j \in 1..k})}
  OBVIOUS
<1>3. SUFFICES ASSUME Bad # {} PROVE FALSE
  BY <1>2
<1>4. PICK k \in Bad : \A j \in Bad : k <= j
  <2>1. Bad \in SUBSET Nat
    BY <1>2
  <2> QED
    BY <1>3, <2>1, LeastExists
<1>5. k \in 0..n /\ ~ExactFor(f[k], {values[j] : j \in 1..k})
  BY <1>2, <1>4
<1>6. CASE k = 0
  <2>1. ExactFor({}, {})
    BY DEF ExactFor
  <2>2. {values[j] : j \in 1..0} = {}
    OBVIOUS
  <2> QED
    BY <1>1, <1>5, <1>6, <2>1, <2>2
<1>7. CASE k # 0
  <2>1. PICK l \in 0..n : k = l + 1
    <3>1. k - 1 \in 0..n /\ k = (k - 1) + 1
      BY <1>5, <1>7
    <3> QED
      BY <3>1
  <2>2. l \notin Bad
    BY <1>4, <1>5, <2>1
  <2>3. ExactFor(f[l], {values[j] : j \in 1..l})
    BY <1>2, <2>2
  <2>4. f[k] = LinkBy(f[l], values[k])
    BY <1>1, <1>5, <2>1
  <2>5. {values[j] : j \in 1..k} = {values[j] : j \in 1..l} \cup {values[k]}
    <3>1. 1..k = (1..l) \cup {k}
      BY <2>1
    <3> QED
      BY <3>1
  <2> QED
    BY <1>5, <2>3, <2>4, <2>5, LinkByKeeps
<1> QED
  BY <1>6, <1>7

LEMMA PlacesAreFinite ==
  ASSUME CitationInv
  PROVE  /\ IsFiniteSet(Places)
         /\ \A x \in Places : \E i, k \in Nat : x = <<i, k>>
<1>1. PICK n \in Nat : DOMAIN evidence = 1..n
  BY LenProperties DEF CitationInv, AllSound
<1>2. PICK f : f = [i \in 1..n |-> {i} \X DOMAIN evidence[i].keys]
  OBVIOUS
<1>3. ASSUME NEW i \in 1..n PROVE \E l \in Nat : DOMAIN evidence[i].keys = 1..l
  <2>1. evidence[i] \in Range(evidence)
    BY <1>1 DEF Range
  <2>2. evidence[i].keys \in Seq(Range(evidence[i].keys))
    BY <2>1 DEF CitationInv, AllSound, Sound
  <2> QED
    BY <2>2, LenProperties
<1>4. ASSUME NEW i \in 1..n PROVE IsFiniteSet(f[i])
  <2>1. PICK l \in Nat : DOMAIN evidence[i].keys = 1..l
    BY <1>3
  <2>2. IsFiniteSet({i})
    BY FS_Singleton
  <2>3. IsFiniteSet(1..l)
    BY FS_Interval
  <2>4. IsFiniteSet({i} \X (1..l))
    BY <2>2, <2>3, FS_Product
  <2> QED
    BY <1>2, <2>1, <2>4
<1>5. PICK R : R = {f[i] : i \in 1..n}
  OBVIOUS
<1>6. IsFiniteSet(R)
  <2>1. IsFiniteSet(1..n)
    BY FS_Interval
  <2>2. DOMAIN f = 1..n /\ f = [i \in 1..n |-> f[i]]
    BY <1>2
  <2>3. IsFiniteSet({f[i] : i \in 1..n})
    BY <2>1, <2>2, RangesAreFinite
  <2> QED
    BY <1>5, <2>3
<1>7. IsFiniteSet(UNION R)
  <2>1. \A T \in R : IsFiniteSet(T)
    BY <1>4, <1>5
  <2> QED
    BY <1>6, <2>1, FS_UNION
<1>8. Places = UNION R
  BY <1>1, <1>2, <1>5 DEF Places
<1>9. ASSUME NEW x \in Places PROVE \E i, k \in Nat : x = <<i, k>>
  <2>1. PICK i \in 1..n : x \in {i} \X DOMAIN evidence[i].keys
    BY <1>1, <1>9 DEF Places
  <2>2. PICK l \in Nat : DOMAIN evidence[i].keys = 1..l
    BY <1>3
  <2> QED
    BY <2>1, <2>2
<1> QED
  BY <1>7, <1>8, <1>9

LEMMA OccurringEnumerates ==
  ASSUME CitationInv
  PROVE  /\ Cardinality(Places) \in Nat
         /\ \A x \in Places : \E k \in 1..Cardinality(Places) : Occurring[k] = x
<1>1. PICK S, before : S = Places /\ before = {x \in S \X S : Earlier(x[1], x[2])}
  OBVIOUS
<1>2. IsFiniteSet(S) /\ \A x \in S : \E i, k \in Nat : x = <<i, k>>
  BY <1>1, PlacesAreFinite
<1>3. \A x, y \in S : <<x, y>> \in before <=> Earlier(x, y)
  BY <1>1
<1>4. \A x \in S : x[1] \in Nat /\ x[2] \in Nat /\ x = <<x[1], x[2]>>
  BY <1>2
<1>5. \A x \in S : ~Earlier(x, x)
  BY <1>4 DEF Earlier
<1>6. ASSUME NEW x \in S, NEW y \in S PROVE x = y \/ Earlier(x, y) \/ Earlier(y, x)
  <2>1. x[1] = y[1] /\ x[2] = y[2] => x = y
    BY <1>4
  <2> QED
    BY <1>4, <2>1 DEF Earlier
<1>7. ASSUME NEW x \in S, NEW y \in S, NEW z \in S, Earlier(x, y), Earlier(y, z)
      PROVE  Earlier(x, z)
  BY <1>4, <1>7 DEF Earlier
<1>8. StrictOrder(S, before)
  BY <1>3, <1>5, <1>6, <1>7 DEF StrictOrder
<1>9. PICK s, c : s = SortedBy(S, before) /\ c = Cardinality(S)
  OBVIOUS
<1>10. Enumerates(s, c, S, before) /\ c \in Nat
  BY <1>2, <1>8, <1>9, SortedByEnumerates, FS_CardinalityType
<1>11. \A x \in S : \E k \in 1..c : s[k] = x
  BY <1>10 DEF Enumerates
<1>12. Occurring = s
  BY <1>1, <1>9 DEF Occurring
<1> QED
  BY <1>1, <1>9, <1>10, <1>11, <1>12

\* link looks at every value of every item.
LEMMA LinkedIsExact ==
  ASSUME CitationInv
  PROVE  ExactFor(Linked, UNION {KeysOf(i) : i \in DOMAIN evidence})
<1>1. PICK c : c = Cardinality(Places)
  OBVIOUS
<1>2. c \in Nat /\ \A x \in Places : \E k \in 1..c : Occurring[k] = x
  BY <1>1, OccurringEnumerates
<1>3. PICK values : values = [k \in 1..c |-> evidence[Occurring[k][1]].keys[Occurring[k][2]]]
  OBVIOUS
<1>4. PICK F : F = CHOOSE f : f = [k \in 0..c |->
                    IF k = 0 THEN {}
                    ELSE LinkBy(f[k - 1], evidence[Occurring[k][1]].keys[Occurring[k][2]])]
  OBVIOUS
<1>5. Linked = F[c]
  BY <1>1, <1>4, Zenon DEF Linked
<1>6. F = [k \in 0..c |->
             IF k = 0 THEN {}
             ELSE LinkBy(F[k - 1], evidence[Occurring[k][1]].keys[Occurring[k][2]])]
  <2>1. PICK f : f = [k \in 0..c |-> IF k = 0 THEN {} ELSE LinkBy(f[k - 1], values[k])]
    BY <1>2, LinkingExists DEF Linking
  <2>2. f = [k \in 0..c |->
               IF k = 0 THEN {}
               ELSE LinkBy(f[k - 1], evidence[Occurring[k][1]].keys[Occurring[k][2]])]
    <3>1. \A k \in 0..c : k # 0 => values[k] = evidence[Occurring[k][1]].keys[Occurring[k][2]]
      BY <1>2, <1>3
    <3> QED
      BY <2>1, <3>1
  <2> QED
    BY <1>4, <2>2, Zenon
<1>7. Linking(F, c, values)
  <2>1. \A k \in 0..c : k # 0 => values[k] = evidence[Occurring[k][1]].keys[Occurring[k][2]]
    BY <1>2, <1>3
  <2> QED
    BY <1>6, <2>1 DEF Linking
<1>8. ExactFor(F[c], {values[j] : j \in 1..c})
  BY <1>2, <1>7, LinkingIsExact
<1>9. ASSUME NEW i \in DOMAIN evidence, NEW kv \in KeysOf(i)
      PROVE  kv \in {values[j] : j \in 1..c}
  <2>1. PICK k \in DOMAIN evidence[i].keys : evidence[i].keys[k] = kv
    BY <1>9 DEF KeysOf, Range
  <2>2. PICK x : x = <<i, k>>
    OBVIOUS
  <2>3. x \in Places
    BY <2>1, <2>2 DEF Places
  <2>4. PICK j \in 1..c : Occurring[j] = x
    BY <1>2, <2>3
  <2>5. values[j] = kv
    BY <1>3, <2>1, <2>2, <2>4
  <2> QED
    BY <2>5
<1>10. UNION {KeysOf(i) : i \in DOMAIN evidence} \subseteq {values[j] : j \in 1..c}
  BY <1>9
<1> QED
  BY <1>5, <1>8, <1>10 DEF ExactFor

\* The definition of a link, as LinksAreExact has it.
Exact(found) ==
  LET corroborate(a, b) ==
        /\ a < b /\ InWindow(evidence[a].ts) /\ InWindow(evidence[b].ts) /\ ~Disagree(a, b)
        /\ \E kv \in KeysOf(a) : Carriers(kv) = {a, b}
  IN /\ {<<l.a, l.b>> : l \in found} =
          {p \in (DOMAIN evidence) \X (DOMAIN evidence) : corroborate(p[1], p[2])}
     /\ \A l \in found : Carriers(l.by) = {l.a, l.b}
     /\ \A l, m \in found : l # m => l.a # m.a \/ l.b # m.b

LEMMA ExactForAll ==
  ASSUME NEW found, ExactFor(found, UNION {KeysOf(i) : i \in DOMAIN evidence})
  PROVE  Exact(found)
<1>1. PICK pairs : pairs = {<<l.a, l.b>> : l \in found}
  OBVIOUS
<1>2. PICK linked :
        linked = {p \in (DOMAIN evidence) \X (DOMAIN evidence) :
                    /\ p[1] < p[2] /\ InWindow(evidence[p[1]].ts) /\ InWindow(evidence[p[2]].ts)
                    /\ ~Disagree(p[1], p[2])
                    /\ \E kv \in KeysOf(p[1]) : Carriers(kv) = {p[1], p[2]}}
  OBVIOUS
<1>3. ASSUME NEW l \in found PROVE <<l.a, l.b>> \in linked /\ Carriers(l.by) = {l.a, l.b}
  <2>1. Corroborates(l.a, l.b, l.by)
    BY DEF ExactFor
  <2> QED
    BY <1>2, <2>1 DEF Corroborates
<1>4. ASSUME NEW p \in linked PROVE p \in pairs
  <2>1. PICK a \in DOMAIN evidence, b \in DOMAIN evidence : p = <<a, b>>
    BY <1>2
  <2>2. PICK kv \in KeysOf(a) : Corroborates(a, b, kv)
    BY <1>2, <2>1 DEF Corroborates
  <2>3. PICK l \in found : l.a = a /\ l.b = b
    BY <2>2 DEF ExactFor
  <2> QED
    BY <1>1, <2>1, <2>3
<1>5. pairs = linked
  BY <1>1, <1>3, <1>4
<1>6. \A l, m \in found : l # m => l.a # m.a \/ l.b # m.b
  BY DEF ExactFor
<1> QED
  BY <1>1, <1>2, <1>3, <1>5, <1>6 DEF Exact

(* For any evidence: two items are linked, once, exactly when they lie in the window, agree  *)
(* on what both carry, and share a value that no third item of the inventory has.           *)
THEOREM LinksAlwaysExact == InquirySpec => []LinksAreExact
<1>1. InquiryInit => LinksAreExact
  BY DEF InquiryInit, LinksAreExact
<1>2. ASSUME CitationInv, LinksAreExact, [InquiryNext]_inquiryVars
      PROVE  LinksAreExact'
  <2>1. ASSUME node' \notin {"investigate", "propose", "approval"} PROVE LinksAreExact'
    BY <2>1 DEF LinksAreExact
  <2>2. CASE Correlate
    <3>1. links' = Linked /\ evidence' = evidence /\ alarm' = alarm
      BY <2>2 DEF Correlate
    <3>2. Exact(links')
      BY <1>2, <3>1, LinkedIsExact, ExactForAll
    <3> QED
      BY <3>1, <3>2 DEF LinksAreExact, Exact, InWindow, Disagree, KeysOf, Carriers
  <2>3. ASSUME links' = links, evidence' = evidence, alarm' = alarm,
               node \in {"investigate", "propose", "approval"}
        PROVE  LinksAreExact'
    BY <1>2, <2>3 DEF LinksAreExact, InWindow, Disagree, KeysOf, Carriers
  <2> QED
    BY <1>2, <2>1, <2>2, <2>3
    DEF InquiryNext, inquiryVars, PcapAgent, KpiAgent, LogAgent, Investigate, Propose
<1> QED
  BY <1>1, <1>2, CitationsStart, CitationsKeep, PTL DEF InquirySpec

=============================================================================
