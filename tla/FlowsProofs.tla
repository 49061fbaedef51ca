---------------------------- MODULE FlowsProofs -----------------------------
(***************************************************************************)
(* The procedures of N2, proved for captures of any length and any         *)
(* messages: what build_flows may pair, through NAS or beside it.          *)
(***************************************************************************)
EXTENDS Incidents, SequenceTheorems, FiniteSetTheorems, WellFoundedInduction, TLAPS

\* No release of flow f among the messages from s to e.
Undisturbed(f, s, e, ms) ==
  \A r \in s..e : ~(ms[r].flow = f /\ ms[r].msg.name \in Releases)

\* Message i selects a cipher for flow f.
Selecting(f, i, ms) == ms[i].flow = f /\ ms[i].nas.read /\ ms[i].nas.algo # NoAlgo

Unselected(f, i, ms) == \A t \in 1..i : ~Selecting(f, t, ms)

\* The first selection of flow f is the null cipher, at message i or before it.
NullSelected(f, i, ms) ==
  \E s \in 1..i : Selecting(f, s, ms) /\ ms[s].nas.algo = 0 /\ Unselected(f, s - 1, ms)

\* Message i was readable, and rightly so.
Trusted(f, i, ms) ==
  ms[i].nas.read /\ (ms[i].msg.nas.shield = "cipher" => NullSelected(f, i - 1, ms))

StartsLive(ss, ms) ==
  \A k \in DOMAIN ss :
    /\ k = <<k[1], k[2]>> /\ k[1] # 0 /\ k[2] \in Kinds
    /\ ss[k] \in Seq(1..Len(ms))
    /\ \A j \in 1..Len(ss[k]) : Undisturbed(k[1], ss[k][j], Len(ms), ms)

OpenTrusted(opened, ms) ==
  \A k \in DOMAIN opened : opened[k] \in 1..Len(ms) /\ Trusted(k[1], opened[k], ms)

ProcedureOK(p, ms) ==
  /\ p.start \in 1..Len(ms) /\ p.end \in 1..Len(ms)
  /\ p.level = "ngap" => Undisturbed(p.flow, p.start, p.end, ms)
  /\ p.level = "nas" => Trusted(p.flow, p.start, ms) /\ Trusted(p.flow, p.end, ms)

ProcsOK(procs, ms) ==
  /\ \E S : procs \in Seq(S)
  /\ \A j \in 1..Len(procs) : ProcedureOK(procs[j], ms)

BooksOK(b, ms) ==
  /\ b = [open |-> b.open, starts |-> b.starts, procs |-> b.procs]
  /\ StartsLive(b.starts, ms)
  /\ OpenTrusted(b.open, ms)
  /\ ProcsOK(b.procs, ms)

IsFlow(f) == f = [key |-> f.key, amf |-> f.amf, ciph |-> f.ciph, partial |-> f.partial]

CiphersSelected(fs, ms) ==
  /\ \E S : fs \in Seq(S)
  /\ \A f \in 1..Len(fs) :
       /\ IsFlow(fs[f])
       /\ fs[f].ciph = 0 => NullSelected(f, Len(ms), ms)
       /\ fs[f].ciph = NoAlgo => Unselected(f, Len(ms), ms)
  /\ \A t \in 1..Len(ms) : ms[t].flow \in 0..Len(fs)

FlowsInv ==
  /\ \E S : n2 \in Seq(S)
  /\ BooksOK(Books, n2)
  /\ CiphersSelected(flows, n2)

-----------------------------------------------------------------------------
(* What was so of the messages read stays so when one more is read.        *)

LEMMA LongerFacts ==
  ASSUME NEW S, NEW ms \in Seq(S), NEW x, NEW longer, longer = Append(ms, x)
  PROVE  /\ \E T : longer \in Seq(T)
         /\ Len(ms) \in Nat /\ Len(longer) = Len(ms) + 1
         /\ longer[Len(ms) + 1] = x /\ \A i \in 1..Len(ms) : longer[i] = ms[i]
<1>1. PICK T : T = S \cup {x}
  OBVIOUS
<1>2. ms \in Seq(T) /\ x \in T
  BY <1>1, SeqMonotonic
<1> QED
  BY <1>2, AppendProperties, LenProperties

LEMMA StaysSelected ==
  ASSUME NEW S, NEW ms \in Seq(S), NEW x, NEW longer, longer = Append(ms, x),
         NEW f, NEW i \in 0..Len(ms)
  PROVE  /\ NullSelected(f, i, ms) => NullSelected(f, i, longer)
         /\ Unselected(f, i, ms) => Unselected(f, i, longer)
<1>1. Len(ms) \in Nat /\ \A k \in 1..Len(ms) : longer[k] = ms[k]
  BY LongerFacts
<1>2. \A j \in 0..Len(ms) : \A s \in 1..j : s \in 1..Len(ms) /\ longer[s] = ms[s]
  BY <1>1
<1>3. ASSUME NEW j \in 0..Len(ms)
      PROVE  Unselected(f, j, ms) => Unselected(f, j, longer)
  BY <1>2 DEF Unselected, Selecting
<1>4. ASSUME NEW j \in 0..Len(ms), NullSelected(f, j, ms)
      PROVE  NullSelected(f, j, longer)
  <2>1. PICK s \in 1..j : Selecting(f, s, ms) /\ ms[s].nas.algo = 0 /\ Unselected(f, s - 1, ms)
    BY <1>4 DEF NullSelected
  <2>2. longer[s] = ms[s]
    BY <1>2
  <2>3. s - 1 \in 0..Len(ms)
    BY <1>1
  <2> QED
    BY <1>3, <2>1, <2>2, <2>3 DEF NullSelected, Selecting
<1> QED
  BY <1>3, <1>4

LEMMA StaysTrusted ==
  ASSUME NEW S, NEW ms \in Seq(S), NEW x, NEW longer, longer = Append(ms, x),
         NEW f, NEW i \in 1..Len(ms)
  PROVE  Trusted(f, i, ms) => Trusted(f, i, longer)
<1>1. Len(ms) \in Nat /\ \A k \in 1..Len(ms) : longer[k] = ms[k]
  BY LongerFacts
<1>2. PICK j \in 0..Len(ms) : j = i - 1
  BY <1>1
<1>3. NullSelected(f, j, ms) => NullSelected(f, j, longer)
  BY StaysSelected
<1> QED
  BY <1>1, <1>2, <1>3 DEF Trusted

LEMMA ProcsStay ==
  ASSUME NEW S, NEW ms \in Seq(S), NEW x, NEW longer, longer = Append(ms, x),
         NEW procs, ProcsOK(procs, ms)
  PROVE  ProcsOK(procs, longer)
<1>1. Len(ms) \in Nat /\ Len(longer) = Len(ms) + 1 /\ \A k \in 1..Len(ms) : longer[k] = ms[k]
  BY LongerFacts
<1>2. ASSUME NEW j \in 1..Len(procs), NEW p, p = procs[j]
      PROVE  ProcedureOK(p, longer)
  <2>1. ProcedureOK(p, ms)
    BY <1>2 DEF ProcsOK
  <2>2. p.start \in 1..Len(longer) /\ p.end \in 1..Len(longer)
    BY <1>1, <2>1 DEF ProcedureOK
  <2>3. p.level = "ngap" => Undisturbed(p.flow, p.start, p.end, longer)
    <3>1. \A r \in p.start..p.end : r \in 1..Len(ms)
      BY <1>1, <2>1 DEF ProcedureOK
    <3> QED
      BY <1>1, <2>1, <3>1 DEF ProcedureOK, Undisturbed
  <2>4. p.level = "nas" => Trusted(p.flow, p.start, longer) /\ Trusted(p.flow, p.end, longer)
    BY <2>1, StaysTrusted DEF ProcedureOK
  <2> QED
    BY <2>2, <2>3, <2>4 DEF ProcedureOK
<1> QED
  BY <1>2 DEF ProcsOK

LEMMA OpenStays ==
  ASSUME NEW S, NEW ms \in Seq(S), NEW x, NEW longer, longer = Append(ms, x),
         NEW opened, OpenTrusted(opened, ms)
  PROVE  OpenTrusted(opened, longer)
<1>1. Len(ms) \in Nat /\ Len(longer) = Len(ms) + 1
  BY LongerFacts
<1> SUFFICES ASSUME NEW k \in DOMAIN opened
             PROVE  opened[k] \in 1..Len(longer) /\ Trusted(k[1], opened[k], longer)
  BY DEF OpenTrusted
<1>2. PICK i : i = opened[k]
  OBVIOUS
<1>3. i \in 1..Len(ms) /\ Trusted(k[1], i, ms)
  BY <1>2 DEF OpenTrusted
<1>4. Trusted(k[1], i, longer)
  BY <1>3, StaysTrusted
<1>5. i \in 1..Len(longer)
  BY <1>1, <1>3
<1> QED
  BY <1>2, <1>4, <1>5

\* The starts of the flows that the new message does not release.
LEMMA StartsStay ==
  ASSUME NEW S, NEW ms \in Seq(S), NEW x, NEW longer, longer = Append(ms, x),
         NEW ss, StartsLive(ss, ms), NEW left \in SUBSET DOMAIN ss,
         \A k \in left : ~(x.flow = k[1] /\ x.msg.name \in Releases)
  PROVE  StartsLive([k \in left |-> ss[k]], longer)
<1>1. /\ Len(ms) \in Nat /\ Len(longer) = Len(ms) + 1
      /\ longer[Len(ms) + 1] = x /\ \A i \in 1..Len(ms) : longer[i] = ms[i]
  BY LongerFacts
<1> SUFFICES ASSUME NEW k \in left
             PROVE  /\ k = <<k[1], k[2]>> /\ k[1] # 0 /\ k[2] \in Kinds
                    /\ ss[k] \in Seq(1..Len(longer))
                    /\ \A j \in 1..Len(ss[k]) : Undisturbed(k[1], ss[k][j], Len(longer), longer)
  BY DEF StartsLive
<1>2. PICK q : q = ss[k]
  OBVIOUS
<1>3. /\ k = <<k[1], k[2]>> /\ k[1] # 0 /\ k[2] \in Kinds
      /\ q \in Seq(1..Len(ms))
      /\ \A j \in 1..Len(q) : Undisturbed(k[1], q[j], Len(ms), ms)
  BY <1>2 DEF StartsLive
<1>4. q \in Seq(1..Len(longer))
  <2>1. (1..Len(ms)) \subseteq (1..Len(longer))
    BY <1>1
  <2> QED
    BY <1>3, <2>1, SeqMonotonic
<1>5. ASSUME NEW j \in 1..Len(q) PROVE Undisturbed(k[1], q[j], Len(longer), longer)
  <2>1. q[j] \in 1..Len(ms)
    BY <1>3, ElementOfSeq
  <2>2. \A r \in q[j]..Len(longer) : (r \in q[j]..Len(ms) /\ r \in 1..Len(ms)) \/ r = Len(ms) + 1
    BY <1>1, <2>1
  <2> QED
    BY <1>1, <1>3, <2>2 DEF Undisturbed
<1> QED
  BY <1>2, <1>3, <1>4, <1>5

-----------------------------------------------------------------------------
(* The stages of one message: the release, its NAS payload, its NGAP name. *)

LEMMA ReleasedOK ==
  ASSUME NEW S, NEW ms \in Seq(S), NEW x, NEW longer, longer = Append(ms, x),
         NEW fid, NEW m, x.flow = fid, x.msg = m, NEW b, BooksOK(b, ms)
  PROVE  BooksOK(Released(b, fid, m), longer)
<1>1. PICK ss, opened, procs : b = [open |-> opened, starts |-> ss, procs |-> procs]
  BY DEF BooksOK
<1>2. StartsLive(ss, ms) /\ OpenTrusted(opened, longer) /\ ProcsOK(procs, longer)
  BY <1>1, OpenStays, ProcsStay DEF BooksOK
<1>3. CASE m.name \in Releases
  <2>1. PICK left : left = (DOMAIN ss \ {<<fid, "registration">>}) \ {<<fid, "pdu_session_est">>}
    OBVIOUS
  <2>2. PICK kept : kept = [k \in left |-> ss[k]]
    OBVIOUS
  <2>3. Without(Without(ss, <<fid, "registration">>), <<fid, "pdu_session_est">>) = kept
    BY <2>1, <2>2 DEF Without, Restrict
  <2>4. Released(b, fid, m) = [open |-> opened, starts |-> kept, procs |-> procs]
    BY <1>1, <1>3, <2>3 DEF Released
  <2>5. \A k \in left : k[1] # fid
    BY <1>2, <2>1 DEF StartsLive, Kinds
  <2>6. StartsLive(kept, longer)
    <3>1. left \in SUBSET DOMAIN ss
      BY <2>1
    <3>2. \A k \in left : ~(x.flow = k[1] /\ x.msg.name \in Releases)
      BY <2>5
    <3>3. StartsLive([k \in left |-> ss[k]], longer)
      BY <1>2, <3>1, <3>2, StartsStay
    <3> QED
      BY <2>2, <3>3
  <2> QED
    BY <1>2, <2>4, <2>6 DEF BooksOK
<1>4. CASE m.name \notin Releases
  <2>1. Released(b, fid, m) = b
    BY <1>4 DEF Released
  <2>2. StartsLive([k \in DOMAIN ss |-> ss[k]], longer)
    BY <1>2, <1>4, StartsStay
  <2>3. StartsLive(ss, longer)
    BY <2>2 DEF StartsLive
  <2> QED
    BY <1>1, <1>2, <2>1, <2>3 DEF BooksOK
<1> QED
  BY <1>3, <1>4

LEMMA ProcAdded ==
  ASSUME NEW ms, NEW procs, ProcsOK(procs, ms), NEW p, ProcedureOK(p, ms)
  PROVE  ProcsOK(Append(procs, p), ms)
<1>1. PICK S : procs \in Seq(S)
  BY DEF ProcsOK
<1>2. PICK longer : longer = Append(procs, p)
  OBVIOUS
<1>3. /\ \E T : longer \in Seq(T)
      /\ Len(procs) \in Nat /\ Len(longer) = Len(procs) + 1
      /\ longer[Len(procs) + 1] = p /\ \A i \in 1..Len(procs) : longer[i] = procs[i]
  BY <1>1, <1>2, LongerFacts
<1>4. \A j \in 1..Len(longer) : j \in 1..Len(procs) \/ j = Len(procs) + 1
  BY <1>3
<1> QED
  BY <1>2, <1>3, <1>4 DEF ProcsOK

\* Message names: a start is neither an end nor a release.
LEMMA NamesApart ==
  /\ \A n \in DOMAIN NasStart : n \notin DOMAIN NasEnd /\ NasStart[n] \in Kinds
  /\ \A n \in DOMAIN NgapStart :
       n \notin DOMAIN NgapEnd /\ n \notin Releases /\ NgapStart[n] \in Kinds
  /\ \A n \in DOMAIN NgapEnd : n \notin Releases /\ NgapEnd[n].kind \in Kinds
BY DEF NasStart, NasEnd, NgapStart, NgapEnd, Releases, Kinds

LEMMA NasHandledOK ==
  ASSUME NEW ms, NEW b, BooksOK(b, ms), NEW fid, NEW nas, NEW i \in 1..Len(ms),
         nas.read => Trusted(fid, i, ms)
  PROVE  BooksOK(NasHandled(b, fid, nas, i), ms)
<1>1. PICK ss, opened, procs : b = [open |-> opened, starts |-> ss, procs |-> procs]
  BY DEF BooksOK
<1>2. StartsLive(ss, ms) /\ OpenTrusted(opened, ms) /\ ProcsOK(procs, ms)
  BY <1>1 DEF BooksOK
<1>3. CASE nas.read /\ nas.name \in DOMAIN NasStart
  <2>1. PICK k, wider : k = <<fid, NasStart[nas.name]>> /\ wider = With(opened, k, i)
    OBVIOUS
  <2>2. NasHandled(b, fid, nas, i) = [open |-> wider, starts |-> ss, procs |-> procs]
    <3>1. NasHandled(b, fid, nas, i) = [b EXCEPT !.open = With(b.open, <<fid, NasStart[nas.name]>>, i)]
      BY <1>3, NamesApart, Zenon DEF NasHandled
    <3>2. b.open = opened
      BY <1>1
    <3>3. NasHandled(b, fid, nas, i) = [b EXCEPT !.open = wider]
      BY <2>1, <3>1, <3>2, Zenon
    <3> QED
      BY <1>1, <3>3
  <2>3. OpenTrusted(wider, ms)
    BY <1>2, <1>3, <2>1 DEF OpenTrusted, With
  <2> QED
    BY <1>2, <2>2, <2>3 DEF BooksOK
<1>4. CASE /\ ~(nas.read /\ nas.name \in DOMAIN NasStart)
           /\ nas.read /\ nas.name \in DOMAIN NasEnd
           /\ <<fid, NasEnd[nas.name].kind>> \in DOMAIN opened
  <2>1. PICK kind, outcome : kind = NasEnd[nas.name].kind /\ outcome = NasEnd[nas.name].outcome
    OBVIOUS
  <2>2. PICK k, fewer : k = <<fid, kind>> /\ fewer = Without(opened, k)
    OBVIOUS
  <2>3. PICK p : p = Procedure(fid, kind, "nas", opened[k], i, outcome)
    OBVIOUS
  <2>4. NasHandled(b, fid, nas, i) = [open |-> fewer, starts |-> ss, procs |-> Append(procs, p)]
    <3>1. NasHandled(b, fid, nas, i)
            = [b EXCEPT !.open = Without(b.open, <<fid, NasEnd[nas.name].kind>>),
                        !.procs = Append(b.procs, Procedure(fid, NasEnd[nas.name].kind, "nas",
                                           b.open[<<fid, NasEnd[nas.name].kind>>], i,
                                           NasEnd[nas.name].outcome))]
      BY <1>1, <1>4, Zenon DEF NasHandled
    <3>2. b.open = opened /\ b.procs = procs
      BY <1>1
    <3>3. NasHandled(b, fid, nas, i) = [b EXCEPT !.open = fewer, !.procs = Append(procs, p)]
      BY <2>1, <2>2, <2>3, <3>1, <3>2, Zenon
    <3> QED
      BY <1>1, <3>3
  <2>5. OpenTrusted(fewer, ms)
    BY <1>2, <2>2 DEF OpenTrusted, Without, Restrict
  <2>6. opened[k] \in 1..Len(ms) /\ Trusted(fid, opened[k], ms)
    BY <1>2, <1>4, <2>1, <2>2 DEF OpenTrusted
  <2>7. ProcedureOK(p, ms)
    BY <1>4, <2>3, <2>6 DEF ProcedureOK, Procedure
  <2>8. ProcsOK(Append(procs, p), ms)
    BY <1>2, <2>7, ProcAdded
  <2> QED
    BY <1>2, <2>4, <2>5, <2>8 DEF BooksOK
<1>5. CASE /\ ~(nas.read /\ nas.name \in DOMAIN NasStart)
           /\ ~(/\ nas.read /\ nas.name \in DOMAIN NasEnd
                /\ <<fid, NasEnd[nas.name].kind>> \in DOMAIN opened)
  BY <1>1, <1>5 DEF NasHandled
<1> QED
  BY <1>3, <1>4, <1>5

\* Replacing the unmatched starts of one kind by some that are live.
LEMMA StartsReplaced ==
  ASSUME NEW ms, NEW ss, StartsLive(ss, ms), NEW fid, fid # 0, NEW kind \in Kinds,
         NEW q \in Seq(1..Len(ms)), \A j \in 1..Len(q) : Undisturbed(fid, q[j], Len(ms), ms)
  PROVE  StartsLive(With(ss, <<fid, kind>>, q), ms)
BY DEF StartsLive, With

LEMMA QueueLive ==
  ASSUME NEW ms, NEW b, StartsLive(b.starts, ms), NEW fid, NEW kind,
         NEW q, q = Queue(b, <<fid, kind>>)
  PROVE  q \in Seq(1..Len(ms)) /\ \A j \in 1..Len(q) : Undisturbed(fid, q[j], Len(ms), ms)
<1>1. CASE <<fid, kind>> \in DOMAIN b.starts
  BY <1>1 DEF Queue, StartsLive
<1>2. CASE <<fid, kind>> \notin DOMAIN b.starts
  BY <1>2 DEF Queue
<1> QED
  BY <1>1, <1>2

LEMMA NgapStartedOK ==
  ASSUME NEW T, NEW ms \in Seq(T), NEW b, BooksOK(b, ms), NEW fid, fid # 0, NEW m,
         NEW i, i = Len(ms), i > 0, ms[i].msg = m, m.name \in DOMAIN NgapStart
  PROVE  BooksOK(NgapHandled(b, fid, m, i), ms)
<1>1. PICK ss, opened, procs : b = [open |-> opened, starts |-> ss, procs |-> procs]
  BY DEF BooksOK
<1>2. StartsLive(ss, ms) /\ OpenTrusted(opened, ms) /\ ProcsOK(procs, ms)
  BY <1>1 DEF BooksOK
<1>3. PICK kind : kind = NgapStart[m.name]
  OBVIOUS
<1>4. PICK q : q = Queue(b, <<fid, kind>>)
  OBVIOUS
<1>5. PICK wider : wider = With(ss, <<fid, kind>>, Append(q, i))
  OBVIOUS
<1>6. NgapHandled(b, fid, m, i) = [open |-> opened, starts |-> wider, procs |-> procs]
  <2>1. NgapHandled(b, fid, m, i) = [b EXCEPT !.starts =
          With(b.starts, <<fid, NgapStart[m.name]>>, Append(Queue(b, <<fid, NgapStart[m.name]>>), i))]
    BY NamesApart, Zenon DEF NgapHandled
  <2>2. b.starts = ss
    BY <1>1
  <2>3. NgapHandled(b, fid, m, i) = [b EXCEPT !.starts = wider]
    BY <1>3, <1>4, <1>5, <2>1, <2>2, Zenon
  <2> QED
    BY <1>1, <2>3
<1>7. q \in Seq(1..Len(ms)) /\ \A j \in 1..Len(q) : Undisturbed(fid, q[j], Len(ms), ms)
  <2>1. StartsLive(b.starts, ms)
    BY <1>1, <1>2
  <2> QED
    BY <1>4, <2>1, QueueLive
<1>8. Len(ms) \in Nat
  BY LenProperties
<1>9. Undisturbed(fid, i, Len(ms), ms)
  BY <1>8, NamesApart DEF Undisturbed
<1>10. PICK longer : longer = Append(q, i)
  OBVIOUS
<1>11. longer \in Seq(1..Len(ms)) /\ \A j \in 1..Len(longer) : Undisturbed(fid, longer[j], Len(ms), ms)
  <2>1. /\ Len(q) \in Nat /\ Len(longer) = Len(q) + 1
        /\ longer[Len(q) + 1] = i /\ \A j \in 1..Len(q) : longer[j] = q[j]
    BY <1>7, <1>10, LongerFacts
  <2>2. longer \in Seq(1..Len(ms))
    BY <1>7, <1>8, <1>10, AppendProperties
  <2>3. \A j \in 1..Len(longer) : j \in 1..Len(q) \/ j = Len(q) + 1
    BY <2>1
  <2> QED
    BY <1>7, <1>9, <2>1, <2>2, <2>3
<1>12. StartsLive(wider, ms)
  BY <1>2, <1>3, <1>5, <1>10, <1>11, NamesApart, StartsReplaced
<1> QED
  BY <1>2, <1>6, <1>12 DEF BooksOK

LEMMA NgapCompletedOK ==
  ASSUME NEW T, NEW ms \in Seq(T), NEW b, BooksOK(b, ms), NEW fid, fid # 0, NEW e, e.kind \in Kinds,
         NEW i, i = Len(ms), i > 0
  PROVE  BooksOK(NgapCompleted(b, fid, e, i), ms)
<1>1. PICK ss, opened, procs : b = [open |-> opened, starts |-> ss, procs |-> procs]
  BY DEF BooksOK
<1>2. StartsLive(ss, ms) /\ OpenTrusted(opened, ms) /\ ProcsOK(procs, ms)
  BY <1>1 DEF BooksOK
<1>3. PICK kind, outcome : kind = e.kind /\ outcome = e.outcome
  OBVIOUS
<1>4. PICK q : q = Queue(b, <<fid, kind>>)
  OBVIOUS
<1>5. q \in Seq(1..Len(ms)) /\ \A j \in 1..Len(q) : Undisturbed(fid, q[j], Len(ms), ms)
  <2>1. StartsLive(b.starts, ms)
    BY <1>1, <1>2
  <2> QED
    BY <1>4, <2>1, QueueLive
<1>6. CASE \E p \in Range(b.procs) : p.flow = fid /\ p.kind = e.kind
  <2>1. PICK fewer : fewer = Without(ss, <<fid, kind>>)
    OBVIOUS
  <2>2. NgapCompleted(b, fid, e, i) = [open |-> opened, starts |-> fewer, procs |-> procs]
    <3>1. NgapCompleted(b, fid, e, i) = [b EXCEPT !.starts = Without(b.starts, <<fid, e.kind>>)]
      BY <1>6, Zenon DEF NgapCompleted
    <3>2. b.starts = ss
      BY <1>1
    <3>3. NgapCompleted(b, fid, e, i) = [b EXCEPT !.starts = fewer]
      BY <1>3, <2>1, <3>1, <3>2, Zenon
    <3> QED
      BY <1>1, <3>3
  <2>3. StartsLive(fewer, ms)
    BY <1>2, <2>1 DEF StartsLive, Without, Restrict
  <2> QED
    BY <1>2, <2>2, <2>3 DEF BooksOK
<1>7. CASE /\ ~(\E p \in Range(b.procs) : p.flow = fid /\ p.kind = e.kind)
           /\ q # <<>>
  <2>1. PICK rest : rest = Tail(q)
    OBVIOUS
  <2>2. PICK wider : wider = With(ss, <<fid, kind>>, rest)
    OBVIOUS
  <2>3. PICK p : p = Procedure(fid, kind, "ngap", Head(q), i, outcome)
    OBVIOUS
  <2>4. NgapCompleted(b, fid, e, i)
          = [open |-> opened, starts |-> wider, procs |-> Append(procs, p)]
    <3>1. NgapCompleted(b, fid, e, i)
            = [b EXCEPT !.starts = With(b.starts, <<fid, e.kind>>, Tail(Queue(b, <<fid, e.kind>>))),
                        !.procs = Append(b.procs, Procedure(fid, e.kind, "ngap",
                                    Head(Queue(b, <<fid, e.kind>>)), i, e.outcome))]
      BY <1>3, <1>4, <1>7, Zenon DEF NgapCompleted
    <3>2. b.starts = ss /\ b.procs = procs
      BY <1>1
    <3>3. NgapCompleted(b, fid, e, i) = [b EXCEPT !.starts = wider, !.procs = Append(procs, p)]
      BY <1>3, <1>4, <2>1, <2>2, <2>3, <3>1, <3>2, Zenon
    <3> QED
      BY <1>1, <3>3
  <2>5. rest \in Seq(1..Len(ms)) /\ \A j \in 1..Len(rest) : Undisturbed(fid, rest[j], Len(ms), ms)
    <3>1. /\ rest \in Seq(1..Len(ms)) /\ Len(q) \in Nat /\ Len(rest) = Len(q) - 1
          /\ \A j \in 1..Len(rest) : rest[j] = q[j + 1]
      BY <1>5, <1>7, <2>1, HeadTailProperties, LenProperties
    <3>2. \A j \in 1..Len(rest) : j + 1 \in 1..Len(q)
      BY <3>1
    <3> QED
      BY <1>5, <3>1, <3>2
  <2>6. StartsLive(wider, ms)
    BY <1>2, <1>3, <2>2, <2>5, StartsReplaced
  <2>7. Head(q) \in 1..Len(ms) /\ Undisturbed(fid, Head(q), Len(ms), ms)
    <3>1. Head(q) = q[1] /\ 1 \in 1..Len(q)
      BY <1>5, <1>7, HeadTailProperties, EmptySeq, LenProperties
    <3> QED
      BY <1>5, <3>1, ElementOfSeq
  <2>8. Len(ms) \in Nat
    BY LenProperties
  <2>9. ProcedureOK(p, ms)
    BY <2>3, <2>7, <2>8 DEF ProcedureOK, Procedure
  <2>10. ProcsOK(Append(procs, p), ms)
    BY <1>2, <2>9, ProcAdded
  <2> QED
    BY <1>2, <2>4, <2>6, <2>10 DEF BooksOK
<1>8. CASE /\ ~(\E p \in Range(b.procs) : p.flow = fid /\ p.kind = e.kind)
           /\ q = <<>>
  <2>1. NgapCompleted(b, fid, e, i) = b
    BY <1>3, <1>4, <1>8, Zenon DEF NgapCompleted
  <2> QED
    BY <2>1
<1> QED
  BY <1>6, <1>7, <1>8

LEMMA NgapHandledOK ==
  ASSUME NEW T, NEW ms \in Seq(T), NEW b, BooksOK(b, ms), NEW fid, fid # 0, NEW m,
         NEW i, i = Len(ms), i > 0, ms[i].msg = m
  PROVE  BooksOK(NgapHandled(b, fid, m, i), ms)
<1>1. CASE m.name \in DOMAIN NgapStart
  BY <1>1, NgapStartedOK
<1>2. CASE m.name \notin DOMAIN NgapStart /\ m.name \in DOMAIN NgapEnd
  <2>1. NgapHandled(b, fid, m, i) = NgapCompleted(b, fid, NgapEnd[m.name], i)
    BY <1>2, Zenon DEF NgapHandled
  <2> QED
    BY <1>2, <2>1, NamesApart, NgapCompletedOK
<1>3. CASE m.name \notin DOMAIN NgapStart /\ m.name \notin DOMAIN NgapEnd
  <2>1. NgapHandled(b, fid, m, i) = b
    BY <1>3, Zenon DEF NgapHandled
  <2> QED
    BY <2>1
<1> QED
  BY <1>1, <1>2, <1>3

-----------------------------------------------------------------------------
(* One message of N2.                                                      *)

\* A flow that build_flows finds is one of the flows.
LEMMA FlowFound ==
  ASSUME NEW S, flows \in Seq(S), NEW m, FlowOf(m) # 0
  PROVE  FlowOf(m) \in 1..Len(flows)
<1>1. PICK I : I = {i \in 1..Len(flows) : flows[i].key = FlowKey(m)}
  OBVIOUS
<1>2. FlowOf(m) = IF I # {} THEN Min(I) ELSE 0
  <2>1. FlowOf(m) = IF {i \in 1..Len(flows) : flows[i].key = FlowKey(m)} # {}
                    THEN Min({i \in 1..Len(flows) : flows[i].key = FlowKey(m)}) ELSE 0
    BY DEF FlowOf, SelectInSeq
  <2> QED
    BY <1>1, <2>1
<1>3. Len(flows) \in Nat
  BY LenProperties
<1>4. I # {} /\ I \subseteq Nat
  BY <1>1, <1>2, <1>3
<1>5. PICK R : R = OpToRel(<, Nat)
  OBVIOUS
<1>6. \A i, j \in Nat : j < i => <<j, i>> \in R
  BY <1>5 DEF OpToRel
<1>7. \E i \in I : \A j \in I : <<j, i>> \notin R
  BY <1>4, <1>5, NatLessThanWellFounded, WFMin, Zenon
<1>8. \E i \in I : \A j \in I : i =< j
  <2>1. PICK i \in I : \A j \in I : <<j, i>> \notin R
    BY <1>7
  <2>2. ASSUME NEW j \in I PROVE i =< j
    <3>1. i \in Nat /\ j \in Nat
      BY <1>4, <2>1
    <3>2. ~(j < i)
      BY <1>6, <2>1, <3>1, Zenon
    <3> QED
      BY <3>1, <3>2
  <2> QED
    BY <2>1, <2>2, Zenon
<1>9. Min(I) \in I
  BY <1>8, Zenon DEF Min
<1> QED
  BY <1>1, <1>2, <1>4, <1>9

LEMMA DecodedFacts ==
  ASSUME NEW payload, NEW ciph, NEW nas, nas = NasDecoded(payload, ciph)
  PROVE  /\ nas.read /\ payload.shield = "cipher" => ciph = 0
         /\ nas.algo # NoAlgo => nas.read
<1>1. CASE \/ payload.shield = "none" \/ payload.shield = "integrity"
           \/ (payload.shield = "cipher" /\ ciph = 0)
  <2>1. nas = [name |-> payload.name, read |-> TRUE, algo |-> payload.algo,
               supi |-> payload.supi, cause |-> payload.cause]
    BY <1>1, Zenon DEF NasDecoded
  <2> QED
    BY <1>1, <2>1
<1>2. CASE ~(\/ payload.shield = "none" \/ payload.shield = "integrity"
             \/ (payload.shield = "cipher" /\ ciph = 0))
  <2>1. nas.algo = NoAlgo /\ nas.read = FALSE
    BY <1>2 DEF NasDecoded, NoNas
  <2> QED
    BY <2>1
<1> QED
  BY <1>1, <1>2

LEMMA BooksLonger ==
  ASSUME NEW S, NEW ms \in Seq(S), NEW x, NEW longer, longer = Append(ms, x),
         NEW fid, fid # 0, NEW m, NEW nas, x.flow = fid, x.msg = m, x.nas = nas,
         NEW i, i = Len(ms) + 1, NEW b, BooksOK(b, ms),
         nas.read => Trusted(fid, i, longer)
  PROVE  BooksOK(NgapHandled(NasHandled(Released(b, fid, m), fid, nas, i), fid, m, i), longer)
<1>1. /\ Len(ms) \in Nat /\ Len(longer) = i /\ i > 0
      /\ longer[i] = x /\ i \in 1..Len(longer)
  BY LongerFacts
<1>2. PICK T : longer \in Seq(T)
  BY LongerFacts
<1>3. PICK c : c = Released(b, fid, m)
  OBVIOUS
<1>4. BooksOK(c, longer)
  BY <1>3, ReleasedOK
<1>5. PICK d : d = NasHandled(c, fid, nas, i)
  OBVIOUS
<1>6. BooksOK(d, longer)
  BY <1>1, <1>4, <1>5, NasHandledOK
<1>7. BooksOK(NgapHandled(d, fid, m, i), longer)
  BY <1>1, <1>2, <1>6, NgapHandledOK
<1> QED
  BY <1>3, <1>5, <1>7

LEMMA BooksUntouched ==
  ASSUME NEW S, NEW ms \in Seq(S), NEW x, NEW longer, longer = Append(ms, x),
         x.flow = 0, NEW b, BooksOK(b, ms)
  PROVE  BooksOK(b, longer)
<1>1. PICK ss, opened, procs : b = [open |-> opened, starts |-> ss, procs |-> procs]
  BY DEF BooksOK
<1>2. StartsLive(ss, ms) /\ OpenTrusted(opened, longer) /\ ProcsOK(procs, longer)
  BY <1>1, OpenStays, ProcsStay DEF BooksOK
<1>3. \A k \in DOMAIN ss : ~(x.flow = k[1] /\ x.msg.name \in Releases)
  BY <1>2 DEF StartsLive
<1>4. StartsLive([k \in DOMAIN ss |-> ss[k]], longer)
  BY <1>2, <1>3, StartsStay
<1>5. StartsLive(ss, longer)
  BY <1>4 DEF StartsLive
<1> QED
  BY <1>1, <1>2, <1>5 DEF BooksOK

\* A flow with the AMF id and the cipher of its next message.
Updated(f, amf, ciph) == [f EXCEPT !.amf = amf, !.ciph = ciph]

LEMMA FlowUpdated ==
  ASSUME NEW f, IsFlow(f), NEW amf, NEW ciph
  PROVE  Updated(f, amf, ciph)
           = [key |-> f.key, amf |-> amf, ciph |-> ciph, partial |-> f.partial]
<1>1. PICK key, was, old, partial :
        f = [key |-> key, amf |-> was, ciph |-> old, partial |-> partial]
  BY Zenon DEF IsFlow
<1>2. [f EXCEPT !.amf = amf, !.ciph = ciph]
        = [key |-> key, amf |-> amf, ciph |-> ciph, partial |-> partial]
  <2>1. [f EXCEPT !.amf = amf] = [key |-> key, amf |-> amf, ciph |-> old, partial |-> partial]
    BY <1>1
  <2>2. PICK h : h = [key |-> key, amf |-> amf, ciph |-> old, partial |-> partial]
    OBVIOUS
  <2>3. [h EXCEPT !.ciph = ciph] = [key |-> key, amf |-> amf, ciph |-> ciph, partial |-> partial]
    BY <2>2
  <2>4. [f EXCEPT !.amf = amf, !.ciph = ciph] = [h EXCEPT !.ciph = ciph]
    BY <2>1, <2>2, Zenon
  <2> QED
    BY <2>3, <2>4, Zenon
<1> QED
  BY <1>1, <1>2 DEF Updated

\* The flows after a message that selected a cipher, or none.
LEMMA CiphersLonger ==
  ASSUME NEW S, NEW ms \in Seq(S), NEW x, NEW longer, longer = Append(ms, x),
         NEW fs, CiphersSelected(fs, ms), NEW fid \in DOMAIN fs, NEW f, f = fs[fid],
         x.flow = fid, x.nas.algo # NoAlgo => x.nas.read, NEW amf, NEW ciph,
         ciph = IF f.ciph = NoAlgo THEN x.nas.algo ELSE f.ciph
  PROVE  CiphersSelected([fs EXCEPT ![fid] = [f EXCEPT !.amf = amf, !.ciph = ciph]], longer)
<1>1. /\ Len(ms) \in Nat /\ Len(longer) = Len(ms) + 1
      /\ longer[Len(ms) + 1] = x
  BY LongerFacts
<1>2. PICK T : fs \in Seq(T)
  BY DEF CiphersSelected
<1>3. DOMAIN fs = 1..Len(fs) /\ Len(fs) \in Nat
  BY <1>2, LenProperties
<1>4. PICK g : g = [key |-> f.key, amf |-> amf, ciph |-> ciph, partial |-> f.partial]
  OBVIOUS
<1>5. [f EXCEPT !.amf = amf, !.ciph = ciph] = g
  <2>1. IsFlow(f)
    BY <1>3 DEF CiphersSelected
  <2>2. Updated(f, amf, ciph) = g
    BY <1>4, <2>1, FlowUpdated
  <2> QED
    BY <2>2 DEF Updated
<1>6. PICK new : new = [fs EXCEPT ![fid] = g]
  OBVIOUS
<1>7. /\ new \in Seq(T \cup {g}) /\ Len(new) = Len(fs)
      /\ new[fid] = g /\ \A k \in 1..Len(fs) : k # fid => new[k] = fs[k]
  <2>1. fs \in Seq(T \cup {g}) /\ g \in T \cup {g} /\ fid \in 1..Len(fs)
    BY <1>2, <1>3, SeqMonotonic
  <2>2. new \in Seq(T \cup {g}) /\ Len(new) = Len(fs)
    BY <1>6, <2>1, ExceptSeq
  <2>3. new[fid] = g /\ \A k \in 1..Len(fs) : k # fid => new[k] = fs[k]
    BY <1>3, <1>6
  <2> QED
    BY <2>2, <2>3
<1>8. ASSUME NEW k \in 1..Len(fs), k # fid
      PROVE  /\ IsFlow(fs[k])
             /\ fs[k].ciph = 0 => NullSelected(k, Len(longer), longer)
             /\ fs[k].ciph = NoAlgo => Unselected(k, Len(longer), longer)
  <2>1. /\ IsFlow(fs[k])
        /\ fs[k].ciph = 0 => NullSelected(k, Len(ms), ms)
        /\ fs[k].ciph = NoAlgo => Unselected(k, Len(ms), ms)
    BY DEF CiphersSelected
  <2>2. Len(ms) \in 0..Len(ms)
    BY <1>1
  <2>3. NullSelected(k, Len(ms), longer) => NullSelected(k, Len(longer), longer)
    BY <1>1 DEF NullSelected
  <2>4. Unselected(k, Len(ms), longer) => Unselected(k, Len(longer), longer)
    BY <1>1, <1>8 DEF Unselected, Selecting
  <2> QED
    BY <2>1, <2>2, <2>3, <2>4, StaysSelected
<1>9. /\ IsFlow(g)
      /\ g.ciph = 0 => NullSelected(fid, Len(longer), longer)
      /\ g.ciph = NoAlgo => Unselected(fid, Len(longer), longer)
  <2>1. IsFlow(g) /\ g.ciph = ciph
    BY <1>4 DEF IsFlow
  <2>2. /\ f.ciph = 0 => NullSelected(fid, Len(longer), longer)
        /\ f.ciph = NoAlgo => Unselected(fid, Len(ms), longer)
    <3>1. /\ f.ciph = 0 => NullSelected(fid, Len(ms), ms)
          /\ f.ciph = NoAlgo => Unselected(fid, Len(ms), ms)
      BY <1>3 DEF CiphersSelected
    <3>2. Len(ms) \in 0..Len(ms)
      BY <1>1
    <3>3. NullSelected(fid, Len(ms), longer) => NullSelected(fid, Len(longer), longer)
      BY <1>1 DEF NullSelected
    <3> QED
      BY <3>1, <3>2, <3>3, StaysSelected
  <2>3. CASE f.ciph # NoAlgo
    BY <2>1, <2>2, <2>3
  <2>4. CASE f.ciph = NoAlgo
    <3>1. ciph = x.nas.algo /\ Unselected(fid, Len(ms), longer)
      BY <2>2, <2>4
    <3>2. ASSUME ciph = 0 PROVE NullSelected(fid, Len(longer), longer)
      <4>1. Len(longer) \in 1..Len(longer) /\ longer[Len(longer)] = x /\ Len(longer) - 1 = Len(ms)
        BY <1>1
      <4>2. x.nas.algo = 0 /\ x.nas.algo # NoAlgo
        BY <3>1, <3>2 DEF NoAlgo
      <4>3. Selecting(fid, Len(longer), longer)
        BY <4>1, <4>2 DEF Selecting
      <4> QED
        BY <3>1, <4>1, <4>2, <4>3 DEF NullSelected
    <3>3. ASSUME ciph = NoAlgo PROVE Unselected(fid, Len(longer), longer)
      <4>1. ~Selecting(fid, Len(ms) + 1, longer)
        BY <1>1, <3>1, <3>3 DEF Selecting
      <4>2. \A t \in 1..Len(longer) : t \in 1..Len(ms) \/ t = Len(ms) + 1
        BY <1>1
      <4> QED
        BY <3>1, <4>1, <4>2 DEF Unselected
    <3> QED
      BY <2>1, <3>2, <3>3
  <2> QED
    BY <2>3, <2>4
<1>10. CiphersSelected(new, longer)
  <2>1. ASSUME NEW k \in 1..Len(new)
        PROVE  /\ IsFlow(new[k])
               /\ new[k].ciph = 0 => NullSelected(k, Len(longer), longer)
               /\ new[k].ciph = NoAlgo => Unselected(k, Len(longer), longer)
    <3>1. CASE k = fid
      BY <1>7, <1>9, <3>1
    <3>2. CASE k # fid
      <4>1. k \in 1..Len(fs) /\ new[k] = fs[k]
        BY <1>7, <3>2
      <4> QED
        BY <1>8, <3>2, <4>1
    <3> QED
      BY <3>1, <3>2
  <2>2. ASSUME NEW t \in 1..Len(longer) PROVE longer[t].flow \in 0..Len(new)
    <3>1. CASE t = Len(ms) + 1
      BY <1>1, <1>3, <1>7, <3>1
    <3>2. CASE t # Len(ms) + 1
      <4>1. t \in 1..Len(ms) /\ longer[t] = ms[t]
        <5>1. t \in 1..Len(ms)
          BY <1>1, <3>2
        <5> QED
          BY <5>1, LongerFacts
      <4> QED
        BY <1>7, <4>1 DEF CiphersSelected
    <3> QED
      BY <3>1, <3>2
  <2> QED
    BY <1>7, <2>1, <2>2 DEF CiphersSelected
<1> QED
  BY <1>5, <1>6, <1>10

LEMMA AssociatedKeeps ==
  ASSUME FlowsInv, NEW m, ReadAssociated(m)
  PROVE  FlowsInv'
<1>1. PICK S, T : n2 \in Seq(S) /\ flows \in Seq(T)
  BY DEF FlowsInv, CiphersSelected
<1>2. PICK i, new, known :
        /\ i = Len(n2) + 1
        /\ new = [key |-> FlowKey(m), amf |-> m.amf, ciph |-> NoAlgo,
                  partial |-> m.name # "InitialUEMessage"]
        /\ known = IF FlowOf(m) # 0 THEN flows ELSE Append(flows, new)
  OBVIOUS
<1>3. PICK fid : fid = IF FlowOf(m) # 0 THEN FlowOf(m) ELSE Len(known)
  OBVIOUS
<1>4. PICK f : f = known[fid]
  OBVIOUS
<1>5. PICK nas : nas = IF m.nas = NoNas THEN NoNas ELSE NasDecoded(m.nas, f.ciph)
  OBVIOUS
<1>6. PICK x, amf, ciph :
        /\ x = [msg |-> m, flow |-> fid, nas |-> nas]
        /\ amf = IF f.amf = NoId THEN m.amf ELSE f.amf
        /\ ciph = IF f.ciph = NoAlgo THEN nas.algo ELSE f.ciph
  OBVIOUS
<1>7. PICK books : books = NgapHandled(NasHandled(Released(Books, fid, m), fid, nas, i), fid, m, i)
  OBVIOUS
<1>8. /\ n2' = Append(n2, x)
      /\ flows' = [known EXCEPT ![fid] = [f EXCEPT !.amf = amf, !.ciph = ciph]]
      /\ open' = books.open /\ starts' = books.starts /\ n2Procs' = books.procs
  BY <1>2, <1>3, <1>4, <1>5, <1>6, <1>7, Zenon DEF ReadAssociated
<1>9. CiphersSelected(flows, n2) /\ BooksOK(Books, n2)
  BY DEF FlowsInv
<1>10. /\ CiphersSelected(known, n2)
       /\ fid \in DOMAIN known /\ fid \in 1..Len(known) /\ fid # 0
  <2>1. CASE FlowOf(m) # 0
    <3>1. FlowOf(m) \in 1..Len(flows)
      BY <1>1, <2>1, FlowFound
    <3>2. known = flows /\ fid = FlowOf(m)
      BY <1>2, <1>3, <2>1
    <3>3. DOMAIN flows = 1..Len(flows)
      BY <1>1, LenProperties
    <3> QED
      BY <1>9, <2>1, <3>1, <3>2, <3>3
  <2>2. CASE FlowOf(m) = 0
    <3>1. known = Append(flows, new) /\ fid = Len(known)
      BY <1>2, <1>3, <2>2
    <3>2. /\ \E W : known \in Seq(W)
          /\ Len(flows) \in Nat /\ Len(known) = Len(flows) + 1
          /\ known[Len(flows) + 1] = new /\ \A k \in 1..Len(flows) : known[k] = flows[k]
      BY <1>1, <3>1, LongerFacts
    <3>3. DOMAIN known = 1..Len(known)
      BY <3>2, LenProperties
    <3>4. IsFlow(new) /\ new.ciph # 0
      BY <1>2 DEF IsFlow, NoAlgo
    <3>5. \A k \in 1..Len(known) : k \in 1..Len(flows) \/ k = Len(flows) + 1
      BY <3>2
    <3>6. \A t \in 1..Len(n2) : n2[t].flow \in 0..Len(flows)
      BY <1>9 DEF CiphersSelected
    <3>7. Unselected(Len(flows) + 1, Len(n2), n2)
      BY <3>2, <3>6 DEF Unselected, Selecting
    <3>8. \A t \in 1..Len(n2) : n2[t].flow \in 0..Len(known)
      BY <3>2, <3>6
    <3>9. CiphersSelected(known, n2)
      BY <1>9, <3>2, <3>4, <3>5, <3>7, <3>8 DEF CiphersSelected
    <3> QED
      BY <3>1, <3>2, <3>3, <3>9
  <2> QED
    BY <2>1, <2>2
<1>11. PICK longer : longer = Append(n2, x)
  OBVIOUS
<1>12. /\ \E W : longer \in Seq(W)
       /\ Len(n2) \in Nat /\ Len(longer) = i /\ longer[i] = x
  BY <1>1, <1>2, <1>11, LongerFacts
<1>13. /\ nas.read => Trusted(fid, i, longer)
       /\ nas.algo # NoAlgo => nas.read
  <2>1. CASE m.nas = NoNas
    <3>1. nas.read = FALSE /\ nas.algo = NoAlgo
      BY <1>5, <2>1 DEF NoNas
    <3> QED
      BY <3>1
  <2>2. CASE m.nas # NoNas
    <3>1. nas = NasDecoded(m.nas, f.ciph)
      BY <1>5, <2>2
    <3>2. nas.read /\ m.nas.shield = "cipher" => f.ciph = 0
      BY <3>1, DecodedFacts
    <3>3. nas.algo # NoAlgo => nas.read
      BY <3>1, DecodedFacts
    <3>4. f.ciph = 0 => NullSelected(fid, Len(n2), n2)
      BY <1>4, <1>10 DEF CiphersSelected
    <3>5. NullSelected(fid, Len(n2), n2) => NullSelected(fid, i - 1, longer)
      <4>1. Len(n2) \in 0..Len(n2) /\ i - 1 = Len(n2)
        BY <1>2, <1>12
      <4> QED
        BY <1>1, <1>11, <4>1, StaysSelected
    <3>6. longer[i].nas = nas /\ longer[i].msg = m
      BY <1>6, <1>12
    <3> QED
      BY <3>2, <3>3, <3>4, <3>5, <3>6 DEF Trusted
  <2> QED
    BY <2>1, <2>2
<1>14. BooksOK(books, longer)
  <2>1. x.flow = fid /\ x.msg = m /\ x.nas = nas
    BY <1>6
  <2> QED
    BY <1>1, <1>2, <1>7, <1>9, <1>10, <1>11, <1>13, <2>1, BooksLonger
<1>15. CiphersSelected(flows', longer)
  <2>1. /\ x.flow = fid /\ (x.nas.algo # NoAlgo => x.nas.read)
        /\ ciph = IF f.ciph = NoAlgo THEN x.nas.algo ELSE f.ciph
    BY <1>6, <1>13
  <2> QED
    BY <1>1, <1>4, <1>8, <1>10, <1>11, <2>1, CiphersLonger
<1>16. Books' = books
  <2>1. books = [open |-> books.open, starts |-> books.starts, procs |-> books.procs]
    BY <1>14 DEF BooksOK
  <2> QED
    BY <1>8, <2>1 DEF Books
<1>17. \E W : n2' \in Seq(W)
  BY <1>8, <1>11, <1>12
<1>18. n2' = longer
  BY <1>8, <1>11
<1> QED
  BY <1>14, <1>15, <1>16, <1>17, <1>18, Zenon DEF FlowsInv

LEMMA UnassociatedKeeps ==
  ASSUME FlowsInv, NEW m, ReadUnassociated(m)
  PROVE  FlowsInv'
<1>1. PICK S : n2 \in Seq(S)
  BY DEF FlowsInv
<1>2. PICK x : x = [msg |-> m, flow |-> 0, nas |-> NoNas]
  OBVIOUS
<1>3. PICK longer : longer = Append(n2, x)
  OBVIOUS
<1>4. n2' = longer /\ UNCHANGED <<flows, open, starts, n2Procs>>
  BY <1>2, <1>3 DEF ReadUnassociated
<1>5. BooksOK(Books, longer)
  <2>1. x.flow = 0 /\ BooksOK(Books, n2)
    BY <1>2 DEF FlowsInv
  <2> QED
    BY <1>1, <1>3, <2>1, BooksUntouched
<1>6. CiphersSelected(flows, longer)
  <2>1. /\ Len(n2) \in Nat /\ Len(longer) = Len(n2) + 1
        /\ longer[Len(n2) + 1] = x /\ \A k \in 1..Len(n2) : longer[k] = n2[k]
    BY <1>1, <1>3, LongerFacts
  <2>2. ASSUME NEW f
        PROVE  /\ NullSelected(f, Len(n2), n2) => NullSelected(f, Len(longer), longer)
               /\ Unselected(f, Len(n2), n2) => Unselected(f, Len(longer), longer)
    <3>1. /\ NullSelected(f, Len(n2), n2) => NullSelected(f, Len(n2), longer)
          /\ Unselected(f, Len(n2), n2) => Unselected(f, Len(n2), longer)
      <4>1. Len(n2) \in 0..Len(n2)
        BY <2>1
      <4> QED
        BY <1>1, <1>3, <4>1, StaysSelected
    <3>2. NullSelected(f, Len(n2), longer) => NullSelected(f, Len(longer), longer)
      BY <2>1 DEF NullSelected
    <3>3. ~Selecting(f, Len(n2) + 1, longer)
      BY <1>2, <2>1 DEF Selecting, NoNas
    <3>4. \A t \in 1..Len(longer) : t \in 1..Len(n2) \/ t = Len(n2) + 1
      BY <2>1
    <3>5. Unselected(f, Len(n2), longer) => Unselected(f, Len(longer), longer)
      BY <3>3, <3>4 DEF Unselected
    <3> QED
      BY <3>1, <3>2, <3>5
  <2>3. CiphersSelected(flows, n2)
    BY DEF FlowsInv
  <2>4. ASSUME NEW t \in 1..Len(longer) PROVE longer[t].flow \in 0..Len(flows)
    <3>1. PICK S2 : flows \in Seq(S2)
      BY <2>3 DEF CiphersSelected
    <3>2. Len(flows) \in Nat
      BY <3>1, LenProperties
    <3>3. t \in 1..Len(n2) \/ t = Len(n2) + 1
      BY <2>1
    <3> QED
      BY <1>2, <2>1, <2>3, <3>2, <3>3 DEF CiphersSelected
  <2> QED
    BY <2>2, <2>3, <2>4 DEF CiphersSelected
<1>7. \E W : longer \in Seq(W)
  BY <1>1, <1>3, LongerFacts
<1>8. Books' = Books /\ flows' = flows
  BY <1>4 DEF Books
<1> QED
  BY <1>4, <1>5, <1>6, <1>7, <1>8, Zenon DEF FlowsInv

-----------------------------------------------------------------------------

LEMMA FlowsInitially ==
  ASSUME FlowsInit
  PROVE  FlowsInv
<1>1. n2 = <<>> /\ flows = <<>> /\ n2Procs = <<>> /\ DOMAIN open = {} /\ DOMAIN starts = {}
  BY DEF FlowsInit
<1>2. BooksOK(Books, n2)
  <2>1. /\ Books = [open |-> Books.open, starts |-> Books.starts, procs |-> Books.procs]
        /\ Books.open = open /\ Books.starts = starts /\ Books.procs = n2Procs
    BY DEF Books
  <2>2. StartsLive(starts, n2) /\ OpenTrusted(open, n2)
    BY <1>1 DEF StartsLive, OpenTrusted
  <2>3. ProcsOK(n2Procs, n2)
    <3>1. n2Procs \in Seq({}) /\ Len(n2Procs) = 0
      BY <1>1, EmptySeq
    <3> QED
      BY <3>1 DEF ProcsOK
  <2> QED
    BY <2>1, <2>2, <2>3 DEF BooksOK
<1>3. CiphersSelected(flows, n2)
  <2>1. flows \in Seq({}) /\ Len(flows) = 0 /\ Len(n2) = 0
    BY <1>1, EmptySeq
  <2> QED
    BY <2>1 DEF CiphersSelected
<1>4. n2 \in Seq({})
  BY <1>1, EmptySeq
<1> QED
  BY <1>2, <1>3, <1>4 DEF FlowsInv

LEMMA FlowsPreserved ==
  ASSUME FlowsInv, [CaptureNext]_captureVars
  PROVE  FlowsInv'
<1>1. ASSUME UNCHANGED flowVars PROVE FlowsInv'
  BY <1>1 DEF flowVars, FlowsInv, Books
<1>2. CASE ReadPlaneN2
  <2>1. PICK m : ReadN2(m)
    BY <1>2 DEF ReadPlaneN2
  <2> QED
    BY <2>1, AssociatedKeeps, UnassociatedKeeps DEF ReadN2
<1>3. CASE ReadPlaneSbi
  BY <1>1, <1>3 DEF ReadPlaneSbi
<1>4. CASE ReadPlaneN4
  BY <1>1, <1>4 DEF ReadPlaneN4
<1>5. CASE NextPlane
  BY <1>1, <1>5 DEF NextPlane
<1>6. CASE UNCHANGED captureVars
  BY <1>1, <1>6 DEF captureVars
<1> QED
  BY <1>2, <1>3, <1>4, <1>5, <1>6 DEF CaptureNext

LEMMA FlowsHold == CaptureSpec => []FlowsInv
<1>1. CaptureInit => FlowsInv
  BY FlowsInitially DEF CaptureInit
<1>2. FlowsInv /\ [CaptureNext]_captureVars => FlowsInv'
  BY FlowsPreserved
<1> QED
  BY <1>1, <1>2, PTL DEF CaptureSpec

LEMMA WithinCycle ==
  ASSUME FlowsInv
  PROVE  FallbackWithinCycle
<1>1. PICK S : n2Procs \in Seq(S)
  BY DEF FlowsInv, BooksOK, ProcsOK, Books
<1>2. DOMAIN n2Procs = 1..Len(n2Procs)
  BY <1>1, LenProperties
<1>3. ASSUME NEW p \in Range(n2Procs), p.level = "ngap"
      PROVE  ~\E r \in p.start..p.end : n2[r].flow = p.flow /\ n2[r].msg.name \in Releases
  <2>1. PICK j \in 1..Len(n2Procs) : p = n2Procs[j]
    BY <1>2 DEF Range
  <2>2. ProcedureOK(p, n2)
    BY <2>1 DEF FlowsInv, BooksOK, ProcsOK, Books
  <2> QED
    BY <1>3, <2>2 DEF ProcedureOK, Undisturbed
<1> QED
  BY <1>3 DEF FallbackWithinCycle

LEMMA NeverCounts ==
  ASSUME FlowsInv
  PROVE  CipheredNeverCounts
<1>1. PICK S : n2Procs \in Seq(S)
  BY DEF FlowsInv, BooksOK, ProcsOK, Books
<1>2. DOMAIN n2Procs = 1..Len(n2Procs)
  BY <1>1, LenProperties
<1>3. ASSUME NEW p \in Range(n2Procs), p.level = "nas", NEW i \in {p.start, p.end}
      PROVE  /\ n2[i].nas.read
             /\ n2[i].msg.nas.shield = "cipher" =>
                  \E s \in 1..(i - 1) :
                    /\ SelectsCipher(s, p.flow) /\ n2[s].nas.algo = 0
                    /\ \A t \in 1..(s - 1) : ~SelectsCipher(t, p.flow)
  <2>1. PICK j \in 1..Len(n2Procs) : p = n2Procs[j]
    BY <1>2 DEF Range
  <2>2. ProcedureOK(p, n2)
    BY <2>1 DEF FlowsInv, BooksOK, ProcsOK, Books
  <2>3. Trusted(p.flow, i, n2)
    BY <1>3, <2>2 DEF ProcedureOK
  <2> QED
    BY <2>3 DEF Trusted, NullSelected, Unselected, Selecting, SelectsCipher
<1> QED
  BY <1>3 DEF CipheredNeverCounts

(* In captures of any length, whatever the order of messages and however the ids are     *)
(* reused, a procedure paired from NGAP alone spans no release of its UE (build_flows).   *)
THEOREM FallbackAlwaysWithinCycle == CaptureSpec => []FallbackWithinCycle
BY FlowsHold, WithinCycle, PTL

(* In captures of any length, a ciphered message opens or closes a procedure only in a    *)
(* flow whose first readable selection, made before it, was the null cipher; selections   *)
(* after the first are not asked (flow.py:59 ignores them).                               *)
THEOREM RefusedIsNeverCounted == CaptureSpec => []CipheredNeverCounts
BY FlowsHold, NeverCounts, PTL

-----------------------------------------------------------------------------
(* Outcomes.  Of a flow's procedures of one kind all but the first come    *)
(* from NAS, each ends later than those before it, and the start still     *)
(* open is newer than the start of any of them.                            *)

SameKind(p, q) == p.flow = q.flow /\ p.kind = q.kind

Ended(p, n) ==
  /\ p.end \in 1..n
  /\ p.level = "nas" => p.start \in 1..n
  /\ p.outcome \in {"accept", "reject"}

Follows(q, p) ==
  /\ p.end < q.end
  /\ q.level = "nas"
  /\ p.level = "nas" => p.start < q.start

ProcsCounted(procs, n) ==
  /\ \E S : procs \in Seq(S)
  /\ \A j \in 1..Len(procs) : Ended(procs[j], n)
  /\ \A i, j \in 1..Len(procs) : i < j /\ SameKind(procs[i], procs[j]) => Follows(procs[j], procs[i])

OpenNewer(opened, procs, n) ==
  \A k \in DOMAIN opened :
    /\ opened[k] \in 1..n
    /\ \A j \in 1..Len(procs) :
         procs[j].level = "nas" /\ k = <<procs[j].flow, procs[j].kind>> => procs[j].start < opened[k]

BooksCounted(b, n) ==
  /\ b = [open |-> b.open, starts |-> b.starts, procs |-> b.procs]
  /\ ProcsCounted(b.procs, n)
  /\ OpenNewer(b.open, b.procs, n)

LEMMA CountedLater ==
  ASSUME NEW n \in Nat, NEW opened, NEW procs, ProcsCounted(procs, n), OpenNewer(opened, procs, n)
  PROVE  ProcsCounted(procs, n + 1) /\ OpenNewer(opened, procs, n + 1)
<1>1. 1..n \subseteq 1..(n + 1)
  OBVIOUS
<1>2. ProcsCounted(procs, n + 1)
  BY <1>1 DEF ProcsCounted, Ended
<1> QED
  BY <1>1, <1>2 DEF OpenNewer

FollowsAll(p, procs) == \A j \in 1..Len(procs) : SameKind(procs[j], p) => Follows(p, procs[j])

OneMore(longer, procs, p) ==
  \A j \in 1..Len(longer) : longer[j] = p \/ \E i \in 1..Len(procs) : longer[j] = procs[i]

\* One more procedure, later than any of its kind.
LEMMA CountedAdded ==
  ASSUME NEW n, NEW procs, NEW p, NEW longer, ProcsCounted(procs, n), Ended(p, n),
         FollowsAll(p, procs), longer = Append(procs, p)
  PROVE  ProcsCounted(longer, n) /\ OneMore(longer, procs, p)
<1>1. PICK S : procs \in Seq(S)
  BY DEF ProcsCounted
<1>2. PICK M : M = Len(procs)
  OBVIOUS
<1>3. /\ \E T : longer \in Seq(T)
      /\ M \in Nat /\ Len(longer) = M + 1
      /\ longer[M + 1] = p /\ \A i \in 1..M : longer[i] = procs[i]
  BY <1>1, <1>2, LongerFacts
<1>4. \A j \in 1..(M + 1) : j \in 1..M \/ j = M + 1
  BY <1>3
<1>5. \A j \in 1..(M + 1) : Ended(longer[j], n)
  BY <1>2, <1>3, <1>4 DEF ProcsCounted
<1>6. ASSUME NEW i \in 1..(M + 1), NEW j \in 1..(M + 1), i < j, SameKind(longer[i], longer[j])
      PROVE  Follows(longer[j], longer[i])
  <2>1. i \in 1..M /\ longer[i] = procs[i]
    BY <1>3, <1>6
  <2>2. CASE j \in 1..M
    BY <1>2, <1>3, <1>6, <2>1, <2>2 DEF ProcsCounted
  <2>3. CASE j = M + 1
    BY <1>2, <1>3, <1>6, <2>1, <2>3 DEF FollowsAll
  <2> QED
    BY <1>4, <2>2, <2>3
<1>7. ProcsCounted(longer, n)
  BY <1>3, <1>5, <1>6 DEF ProcsCounted
<1> QED
  BY <1>2, <1>3, <1>4, <1>7 DEF OneMore

\* The unmatched NGAP starts do not matter.
LEMMA StartsApart ==
  ASSUME NEW n, NEW b, BooksCounted(b, n), NEW ss, NEW c, c = [b EXCEPT !.starts = ss]
  PROVE  BooksCounted(c, n)
<1>1. PICK old, opened, procs : b = [open |-> opened, starts |-> old, procs |-> procs]
  BY DEF BooksCounted
<1>2. c = [open |-> opened, starts |-> ss, procs |-> procs]
  BY <1>1
<1> QED
  BY <1>1, <1>2 DEF BooksCounted

LEMMA ReleasedCounted ==
  ASSUME NEW n, NEW b, BooksCounted(b, n), NEW fid, NEW m, NEW c, c = Released(b, fid, m)
  PROVE  BooksCounted(c, n)
<1>1. CASE m.name \in Releases
  <2>1. PICK ss :
          ss = Without(Without(b.starts, <<fid, "registration">>), <<fid, "pdu_session_est">>)
    OBVIOUS
  <2>2. c = [b EXCEPT !.starts = ss]
    BY <1>1, <2>1, Zenon DEF Released
  <2> QED
    BY <2>2, StartsApart
<1>2. CASE m.name \notin Releases
  BY <1>2 DEF Released
<1> QED
  BY <1>1, <1>2

LEMMA OutcomesKnown ==
  /\ \A x \in DOMAIN NasEnd : NasEnd[x].outcome \in {"accept", "reject"}
  /\ \A x \in DOMAIN NgapEnd : NgapEnd[x].outcome \in {"accept", "reject"}
BY DEF NasEnd, NgapEnd

LEMMA NasCounted ==
  ASSUME NEW n \in Nat, NEW b, BooksCounted(b, n), NEW fid, NEW nas, NEW i, i = n + 1,
         NEW c, c = NasHandled(b, fid, nas, i)
  PROVE  BooksCounted(c, i)
<1>1. PICK ss, opened, procs : b = [open |-> opened, starts |-> ss, procs |-> procs]
  BY DEF BooksCounted
<1>2. ProcsCounted(procs, n) /\ OpenNewer(opened, procs, n)
  BY <1>1 DEF BooksCounted
<1>3. ProcsCounted(procs, i) /\ OpenNewer(opened, procs, i) /\ i \in 1..i
  BY <1>2, CountedLater
<1>4. CASE nas.read /\ nas.name \in DOMAIN NasStart
  <2>1. PICK k, wider : k = <<fid, NasStart[nas.name]>> /\ wider = With(opened, k, i)
    OBVIOUS
  <2>2. c = [open |-> wider, starts |-> ss, procs |-> procs]
    <3>1. c = [b EXCEPT !.open = With(b.open, <<fid, NasStart[nas.name]>>, i)]
      BY <1>4, NamesApart, Zenon DEF NasHandled
    <3>2. b.open = opened
      BY <1>1
    <3>3. c = [b EXCEPT !.open = wider]
      BY <2>1, <3>1, <3>2, Zenon
    <3> QED
      BY <1>1, <3>3
  <2>3. \A j \in 1..Len(procs) : procs[j].level = "nas" => procs[j].start < i
    BY <1>2 DEF ProcsCounted, Ended
  <2>4. OpenNewer(wider, procs, i)
    <3>1. ASSUME NEW l \in DOMAIN wider PROVE (l = k /\ wider[l] = i) \/ (l \in DOMAIN opened /\ wider[l] = opened[l])
      BY <2>1 DEF With
    <3> QED
      BY <1>3, <2>3, <3>1 DEF OpenNewer
  <2> QED
    BY <1>3, <2>2, <2>4 DEF BooksCounted
<1>5. CASE /\ ~(nas.read /\ nas.name \in DOMAIN NasStart)
           /\ nas.read /\ nas.name \in DOMAIN NasEnd
           /\ <<fid, NasEnd[nas.name].kind>> \in DOMAIN opened
  <2>1. PICK kind, outcome : kind = NasEnd[nas.name].kind /\ outcome = NasEnd[nas.name].outcome
    OBVIOUS
  <2>2. PICK k, fewer : k = <<fid, kind>> /\ fewer = Without(opened, k)
    OBVIOUS
  <2>3. PICK p : p = Procedure(fid, kind, "nas", opened[k], i, outcome)
    OBVIOUS
  <2>4. PICK longer : longer = Append(procs, p)
    OBVIOUS
  <2>5. c = [open |-> fewer, starts |-> ss, procs |-> longer]
    <3>1. c = [b EXCEPT !.open = Without(b.open, <<fid, NasEnd[nas.name].kind>>),
                        !.procs = Append(b.procs, Procedure(fid, NasEnd[nas.name].kind, "nas",
                                           b.open[<<fid, NasEnd[nas.name].kind>>], i,
                                           NasEnd[nas.name].outcome))]
      BY <1>1, <1>5, Zenon DEF NasHandled
    <3>2. b.open = opened /\ b.procs = procs
      BY <1>1
    <3>3. c = [b EXCEPT !.open = fewer, !.procs = longer]
      BY <2>1, <2>2, <2>3, <2>4, <3>1, <3>2, Zenon
    <3> QED
      BY <1>1, <3>3
  <2>6. PICK start : start = opened[k]
    OBVIOUS
  <2>7. /\ p.flow = fid /\ p.kind = kind /\ p.level = "nas" /\ p.start = start /\ p.end = i
        /\ p.outcome = outcome
    BY <2>3, <2>6 DEF Procedure
  <2>8. k \in DOMAIN opened /\ start \in 1..n
    BY <1>2, <1>5, <2>1, <2>2, <2>6 DEF OpenNewer
  <2>9. Ended(p, i)
    BY <1>3, <1>5, <2>1, <2>7, <2>8, OutcomesKnown DEF Ended
  <2>10. ASSUME NEW j \in 1..Len(procs), SameKind(procs[j], p) PROVE Follows(p, procs[j])
    <3>1. procs[j].end \in 1..n
      BY <1>2 DEF ProcsCounted, Ended
    <3>2. k = <<procs[j].flow, procs[j].kind>>
      BY <2>2, <2>7, <2>10 DEF SameKind
    <3>3. procs[j].level = "nas" => procs[j].start < start
      BY <1>2, <2>6, <2>8, <3>2 DEF OpenNewer
    <3> QED
      BY <2>7, <3>1, <3>3 DEF Follows
  <2>13. FollowsAll(p, procs)
    BY <2>10 DEF FollowsAll
  <2>11. ProcsCounted(longer, i) /\ OneMore(longer, procs, p)
    BY <1>3, <2>4, <2>9, <2>13, CountedAdded
  <2>12. OpenNewer(fewer, longer, i)
    <3>1. ASSUME NEW l \in DOMAIN fewer
          PROVE  l \in DOMAIN opened /\ fewer[l] = opened[l] /\ l # <<p.flow, p.kind>>
      BY <2>2, <2>7 DEF Without, Restrict
    <3> QED
      BY <1>3, <2>11, <3>1 DEF OpenNewer, OneMore
  <2> QED
    BY <2>5, <2>11, <2>12 DEF BooksCounted
<1>6. CASE /\ ~(nas.read /\ nas.name \in DOMAIN NasStart)
           /\ ~(/\ nas.read /\ nas.name \in DOMAIN NasEnd
                /\ <<fid, NasEnd[nas.name].kind>> \in DOMAIN opened)
  <2>1. c = b
    BY <1>1, <1>6 DEF NasHandled
  <2> QED
    BY <1>1, <1>3, <2>1 DEF BooksCounted
<1> QED
  BY <1>4, <1>5, <1>6

LEMMA FallbackCounted ==
  ASSUME NEW i \in Nat \ {0}, NEW b, BooksCounted(b, i), NEW fid, NEW e, NEW c,
         e.outcome \in {"accept", "reject"}, c = NgapCompleted(b, fid, e, i)
  PROVE  BooksCounted(c, i)
<1>1. PICK ss, opened, procs : b = [open |-> opened, starts |-> ss, procs |-> procs]
  BY DEF BooksCounted
<1>2. ProcsCounted(procs, i) /\ OpenNewer(opened, procs, i) /\ i \in 1..i
  BY <1>1 DEF BooksCounted
<1>3. PICK kind, outcome : kind = e.kind /\ outcome = e.outcome
  OBVIOUS
<1>4. PICK q : q = Queue(b, <<fid, kind>>)
  OBVIOUS
<1>5. CASE \E p \in Range(b.procs) : p.flow = fid /\ p.kind = e.kind
  <2>1. PICK fewer : fewer = Without(b.starts, <<fid, e.kind>>)
    OBVIOUS
  <2>2. c = [b EXCEPT !.starts = fewer]
    BY <1>5, <2>1, Zenon DEF NgapCompleted
  <2> QED
    BY <2>2, StartsApart
<1>6. CASE /\ ~(\E p \in Range(b.procs) : p.flow = fid /\ p.kind = e.kind)
           /\ q # <<>>
  <2>1. PICK wider, start : wider = With(ss, <<fid, kind>>, Tail(q)) /\ start = Head(q)
    OBVIOUS
  <2>2. PICK p : p = Procedure(fid, kind, "ngap", start, i, outcome)
    OBVIOUS
  <2>3. PICK longer : longer = Append(procs, p)
    OBVIOUS
  <2>4. c = [open |-> opened, starts |-> wider, procs |-> longer]
    <3>1. c = [b EXCEPT !.starts = With(b.starts, <<fid, e.kind>>, Tail(Queue(b, <<fid, e.kind>>))),
                        !.procs = Append(b.procs, Procedure(fid, e.kind, "ngap",
                                    Head(Queue(b, <<fid, e.kind>>)), i, e.outcome))]
      BY <1>3, <1>4, <1>6, Zenon DEF NgapCompleted
    <3>2. b.starts = ss /\ b.procs = procs
      BY <1>1
    <3>3. c = [b EXCEPT !.starts = wider, !.procs = longer]
      BY <1>3, <1>4, <2>1, <2>2, <2>3, <3>1, <3>2, Zenon
    <3> QED
      BY <1>1, <3>3
  <2>5. p.flow = fid /\ p.kind = kind /\ p.level = "ngap" /\ p.end = i /\ p.outcome = outcome
    BY <2>2 DEF Procedure
  <2>6. Ended(p, i)
    BY <1>2, <1>3, <2>5 DEF Ended
  <2>7. ASSUME NEW j \in 1..Len(procs), SameKind(procs[j], p) PROVE FALSE
    <3>1. PICK S : procs \in Seq(S)
      BY <1>2 DEF ProcsCounted
    <3>2. procs[j] \in Range(procs)
      BY <3>1, LenProperties DEF Range
    <3>3. b.procs = procs
      BY <1>1
    <3> QED
      BY <1>3, <1>6, <2>5, <2>7, <3>2, <3>3 DEF SameKind
  <2>10. FollowsAll(p, procs)
    BY <2>7 DEF FollowsAll
  <2>8. ProcsCounted(longer, i) /\ OneMore(longer, procs, p)
    BY <1>2, <2>3, <2>6, <2>10, CountedAdded
  <2>9. OpenNewer(opened, longer, i)
    BY <1>2, <2>5, <2>8 DEF OpenNewer, OneMore
  <2> QED
    BY <2>4, <2>8, <2>9 DEF BooksCounted
<1>7. CASE /\ ~(\E p \in Range(b.procs) : p.flow = fid /\ p.kind = e.kind)
           /\ q = <<>>
  <2>1. c = b
    BY <1>3, <1>4, <1>7, Zenon DEF NgapCompleted
  <2> QED
    BY <2>1
<1> QED
  BY <1>5, <1>6, <1>7

LEMMA NgapCounted ==
  ASSUME NEW i \in Nat \ {0}, NEW b, BooksCounted(b, i), NEW fid, NEW m, NEW c,
         c = NgapHandled(b, fid, m, i)
  PROVE  BooksCounted(c, i)
<1>1. CASE m.name \in DOMAIN NgapStart
  <2>1. PICK ss : ss = With(b.starts, <<fid, NgapStart[m.name]>>,
                            Append(Queue(b, <<fid, NgapStart[m.name]>>), i))
    OBVIOUS
  <2>2. c = [b EXCEPT !.starts = ss]
    BY <1>1, <2>1, NamesApart, Zenon DEF NgapHandled
  <2> QED
    BY <2>2, StartsApart
<1>2. CASE m.name \notin DOMAIN NgapStart /\ m.name \in DOMAIN NgapEnd
  <2>1. PICK e : e = NgapEnd[m.name]
    OBVIOUS
  <2>2. c = NgapCompleted(b, fid, e, i)
    BY <1>2, <2>1, Zenon DEF NgapHandled
  <2>3. e.outcome \in {"accept", "reject"}
    BY <1>2, <2>1, OutcomesKnown
  <2> QED
    BY <2>2, <2>3, FallbackCounted
<1>3. CASE m.name \notin DOMAIN NgapStart /\ m.name \notin DOMAIN NgapEnd
  <2>1. c = b
    BY <1>3, Zenon DEF NgapHandled
  <2> QED
    BY <2>1
<1> QED
  BY <1>1, <1>2, <1>3

CountedInv ==
  /\ \E S : n2 \in Seq(S)
  /\ BooksCounted(Books, Len(n2))

LEMMA ReadKeepsCounted ==
  ASSUME CountedInv, NEW m, ReadN2(m)
  PROVE  CountedInv'
<1>1. PICK S : n2 \in Seq(S)
  BY DEF CountedInv
<1>2. PICK n, i : n = Len(n2) /\ i = n + 1
  OBVIOUS
<1>3. PICK b : b = Books
  OBVIOUS
<1>4. n \in Nat /\ i \in Nat \ {0} /\ BooksCounted(b, n)
  BY <1>1, <1>2, <1>3, LenProperties DEF CountedInv
<1>5. ASSUME NEW x, n2' = Append(n2, x)
      PROVE  (\E T : n2' \in Seq(T)) /\ Len(n2') = i
  <2>1. PICK longer : longer = Append(n2, x)
    OBVIOUS
  <2>2. (\E T : longer \in Seq(T)) /\ Len(longer) = Len(n2) + 1
    BY <1>1, <2>1, LongerFacts
  <2> QED
    BY <1>2, <1>5, <2>1, <2>2
<1>6. CASE ReadUnassociated(m)
  <2>1. PICK x : n2' = Append(n2, x)
    BY <1>6 DEF ReadUnassociated
  <2>2. Books' = b
    BY <1>3, <1>6 DEF ReadUnassociated, Books
  <2>3. BooksCounted(b, i)
    BY <1>2, <1>4, CountedLater DEF BooksCounted
  <2> QED
    BY <1>5, <2>1, <2>2, <2>3 DEF CountedInv
<1>7. CASE ReadAssociated(m)
  <2>1. PICK fid, nas, x, c :
          /\ c = NgapHandled(NasHandled(Released(b, fid, m), fid, nas, i), fid, m, i)
          /\ n2' = Append(n2, x)
          /\ open' = c.open /\ starts' = c.starts /\ n2Procs' = c.procs
    BY <1>2, <1>3, <1>7, Zenon DEF ReadAssociated
  <2>2. PICK r : r = Released(b, fid, m)
    OBVIOUS
  <2>3. BooksCounted(r, n)
    BY <1>4, <2>2, ReleasedCounted
  <2>4. PICK d : d = NasHandled(r, fid, nas, i)
    OBVIOUS
  <2>5. BooksCounted(d, i)
    BY <1>2, <1>4, <2>3, <2>4, NasCounted
  <2>6. c = NgapHandled(d, fid, m, i)
    BY <2>1, <2>2, <2>4
  <2>7. BooksCounted(c, i)
    BY <1>4, <2>5, <2>6, NgapCounted
  <2>8. Books' = c
    <3>1. c = [open |-> c.open, starts |-> c.starts, procs |-> c.procs]
      BY <2>7 DEF BooksCounted
    <3> QED
      BY <2>1, <3>1 DEF Books
  <2> QED
    BY <1>5, <2>1, <2>7, <2>8 DEF CountedInv
<1> QED
  BY <1>6, <1>7 DEF ReadN2

LEMMA CountedInitially ==
  ASSUME FlowsInit
  PROVE  CountedInv
<1>1. n2 = <<>> /\ n2Procs = <<>> /\ DOMAIN open = {}
  BY DEF FlowsInit
<1>2. /\ Books = [open |-> Books.open, starts |-> Books.starts, procs |-> Books.procs]
      /\ Books.open = open /\ Books.procs = n2Procs
  BY DEF Books
<1>3. n2 \in Seq({}) /\ n2Procs \in Seq({}) /\ Len(n2Procs) = 0
  BY <1>1, EmptySeq
<1>4. ProcsCounted(n2Procs, Len(n2)) /\ OpenNewer(open, n2Procs, Len(n2))
  BY <1>1, <1>3 DEF ProcsCounted, OpenNewer
<1> QED
  BY <1>2, <1>3, <1>4 DEF CountedInv, BooksCounted

LEMMA CountedPreserved ==
  ASSUME CountedInv, [CaptureNext]_captureVars
  PROVE  CountedInv'
<1>1. ASSUME UNCHANGED flowVars PROVE CountedInv'
  BY <1>1 DEF flowVars, CountedInv, Books
<1>2. CASE ReadPlaneN2
  <2>1. PICK m : ReadN2(m)
    BY <1>2 DEF ReadPlaneN2
  <2> QED
    BY <2>1, ReadKeepsCounted
<1>3. CASE ReadPlaneSbi
  BY <1>1, <1>3 DEF ReadPlaneSbi
<1>4. CASE ReadPlaneN4
  BY <1>1, <1>4 DEF ReadPlaneN4
<1>5. CASE NextPlane
  BY <1>1, <1>5 DEF NextPlane
<1>6. CASE UNCHANGED captureVars
  BY <1>1, <1>6 DEF captureVars
<1> QED
  BY <1>2, <1>3, <1>4, <1>5, <1>6 DEF CaptureNext

LEMMA CountedOnce ==
  ASSUME CountedInv
  PROVE  OutcomesCountedOnce
<1>1. ProcsCounted(n2Procs, Len(n2))
  BY DEF CountedInv, BooksCounted, Books
<1>2. PICK S : n2Procs \in Seq(S)
  BY <1>1 DEF ProcsCounted
<1>3. PICK N, I : N = Len(n2Procs) /\ I = DOMAIN n2Procs
  OBVIOUS
<1>4. N \in Nat /\ I = 1..N /\ IsFiniteSet(I)
  BY <1>2, <1>3, LenProperties, FS_Interval
<1>5. Len(n2) \in Nat
  BY LenProperties DEF CountedInv
<1>6. ASSUME NEW a \in Successes \cup Failures, NEW b \in Successes \cup Failures,
             NEW p, p = n2Procs[a], NEW q, q = n2Procs[b],
             a < b, p.flow = q.flow, p.kind = q.kind
      PROVE  /\ p.end # q.end
             /\ q.level = "nas"
             /\ p.level = q.level => p.start # q.start
  <2>1. a \in 1..N /\ b \in 1..N
    BY <1>3, <1>4 DEF Successes, Failures
  <2>2. Follows(q, p)
    BY <1>1, <1>3, <1>6, <2>1 DEF ProcsCounted, SameKind
  <2>3. Ended(p, Len(n2)) /\ Ended(q, Len(n2))
    BY <1>1, <1>3, <1>6, <2>1 DEF ProcsCounted
  <2> QED
    BY <1>5, <2>2, <2>3 DEF Follows, Ended
<1>7. PICK W, L : W = Successes /\ L = Failures
  OBVIOUS
<1>8. W \cup L = I /\ W \cap L = {} /\ W \in SUBSET I /\ L \in SUBSET I
  <2>1. \A j \in I : n2Procs[j].outcome \in {"accept", "reject"}
    BY <1>1, <1>3, <1>4 DEF ProcsCounted, Ended
  <2> QED
    BY <1>3, <1>7, <2>1 DEF Successes, Failures
<1>9. Cardinality(I) = Cardinality(W) + Cardinality(L)
  <2>1. IsFiniteSet(W) /\ IsFiniteSet(L)
    BY <1>4, <1>8, FS_Subset
  <2>2. Cardinality(W \cup L) = Cardinality(W) + Cardinality(L) - Cardinality(W \cap L)
    BY <2>1, FS_Union
  <2>3. Cardinality(W) \in Nat /\ Cardinality(L) \in Nat
    BY <2>1, FS_CardinalityType
  <2>4. Cardinality(I) = Cardinality(W) + Cardinality(L) - 0
    BY <1>8, <2>2, FS_EmptySet, Zenon
  <2> QED
    BY <2>3, <2>4
<1>10. IsFiniteSet(Range(n2Procs)) /\ Cardinality(Range(n2Procs)) <= Cardinality(I)
  <2>1. n2Procs \in Surjection(I, Range(n2Procs))
    BY <1>2, <1>3, <1>4, SeqDef DEF Surjection, Range
  <2> QED
    BY <1>4, <2>1, FS_Surjection
<1>11. AttachTimes \in SUBSET Range(n2Procs)
  BY DEF AttachTimes
<1>12. /\ Cardinality(AttachTimes) \in Nat /\ Cardinality(Range(n2Procs)) \in Nat
       /\ Cardinality(I) \in Nat
       /\ Cardinality(AttachTimes) <= Cardinality(Range(n2Procs))
  BY <1>4, <1>10, <1>11, FS_Subset, FS_CardinalityType
<1>13. Cardinality(AttachTimes) <= Cardinality(Successes) + Cardinality(Failures)
  BY <1>7, <1>9, <1>10, <1>12
<1> QED
  BY <1>6, <1>13 DEF OutcomesCountedOnce

(* In captures of any length an outcome is counted once: a message ends at most one       *)
(* procedure of a kind, all but the first of a flow and kind come from NAS, and no start   *)
(* is used twice (build_flows, compute).                                                   *)
THEOREM OutcomesAlwaysCountedOnce == CaptureSpec => []OutcomesCountedOnce
<1>1. CaptureInit => CountedInv
  BY CountedInitially DEF CaptureInit
<1>2. CountedInv /\ [CaptureNext]_captureVars => CountedInv'
  BY CountedPreserved
<1>3. CountedInv => OutcomesCountedOnce
  BY CountedOnce
<1> QED
  BY <1>1, <1>2, <1>3, PTL DEF CaptureSpec

-----------------------------------------------------------------------------
(* What an outcome stands for.  Whatever the books hold as a start is a    *)
(* message of its flow that asked for something; an accept ends with a     *)
(* message that grants it; a flow that is not partial began with its       *)
(* InitialUEMessage; and a reject that was read bears a cause.             *)

Asks(x) == x.nas.name \in DOMAIN NasStart \/ x.msg.name \in DOMAIN NgapStart
Grants(x) ==
  \/ x.nas.name \in {"RegistrationAccept", "PDUSessionEstabAccept"}
  \/ x.msg.name \in {"InitialContextSetupRequest", "PDUSessionResourceSetupResponse"}

\* The messages up to n by which flow f asked for something.
Asked(f, n, ms) == {i \in 1..n : ms[i].flow = f /\ Asks(ms[i])}

OpenTraced(opened, n, ms) == \A k \in DOMAIN opened : opened[k] \in Asked(k[1], n, ms)
StartsTraced(ss, n, ms) == \A k \in DOMAIN ss : ss[k] \in Seq(Asked(k[1], n, ms))

ProcTraced(p, n, ms) ==
  /\ p.end \in 1..n /\ p.start \in Asked(p.flow, p.end - 1, ms)
  /\ ms[p.end].flow = p.flow
  /\ p.outcome = "accept" => Grants(ms[p.end])

ProcsTraced(procs, n, ms) ==
  /\ \E S : procs \in Seq(S)
  /\ \A j \in 1..Len(procs) : ProcTraced(procs[j], n, ms)

\* The books after message n, whose NGAP start is counted from message s on.
BooksTraced(b, n, s, ms) ==
  /\ b = [open |-> b.open, starts |-> b.starts, procs |-> b.procs]
  /\ OpenTraced(b.open, n, ms) /\ StartsTraced(b.starts, s, ms) /\ ProcsTraced(b.procs, n, ms)

LEMMA AskedGrows ==
  ASSUME NEW f, NEW n \in Nat, NEW l \in Nat, n <= l, NEW ms, NEW longer,
         \A i \in 1..n : longer[i] = ms[i]
  PROVE  Asked(f, n, ms) \subseteq Asked(f, l, longer)
BY DEF Asked, Asks

LEMMA ProcsTracedLater ==
  ASSUME NEW n \in Nat, NEW l \in Nat, n <= l, NEW ms, NEW longer,
         \A i \in 1..n : longer[i] = ms[i], NEW procs, ProcsTraced(procs, n, ms)
  PROVE  ProcsTraced(procs, l, longer)
<1>1. ASSUME NEW p, ProcTraced(p, n, ms) PROVE ProcTraced(p, l, longer)
  <2>1. p.end \in 1..n /\ p.end \in 1..l /\ p.end - 1 \in Nat /\ p.end - 1 <= n
    BY <1>1 DEF ProcTraced
  <2>2. Asked(p.flow, p.end - 1, ms) \subseteq Asked(p.flow, p.end - 1, longer)
    BY <2>1, AskedGrows
  <2> QED
    BY <1>1, <2>1, <2>2 DEF ProcTraced, Grants
<1> QED
  BY <1>1 DEF ProcsTraced

LEMMA OpenTracedLater ==
  ASSUME NEW n \in Nat, NEW l \in Nat, n <= l, NEW ms, NEW longer,
         \A i \in 1..n : longer[i] = ms[i], NEW opened, OpenTraced(opened, n, ms)
  PROVE  OpenTraced(opened, l, longer)
BY AskedGrows DEF OpenTraced

LEMMA StartsTracedLater ==
  ASSUME NEW n \in Nat, NEW l \in Nat, n <= l, NEW ms, NEW longer,
         \A i \in 1..n : longer[i] = ms[i], NEW ss, StartsTraced(ss, n, ms)
  PROVE  StartsTraced(ss, l, longer)
<1> SUFFICES ASSUME NEW k \in DOMAIN ss PROVE ss[k] \in Seq(Asked(k[1], l, longer))
  BY DEF StartsTraced
<1>1. PICK A, B : A = Asked(k[1], n, ms) /\ B = Asked(k[1], l, longer)
  OBVIOUS
<1>2. A \subseteq B
  BY <1>1, AskedGrows
<1>3. ss[k] \in Seq(A)
  BY <1>1 DEF StartsTraced
<1> QED
  BY <1>1, <1>2, <1>3, SeqMonotonic

LEMMA BooksTracedLater ==
  ASSUME NEW n \in Nat, NEW l \in Nat, n <= l, NEW ms, NEW longer,
         \A i \in 1..n : longer[i] = ms[i], NEW b, BooksTraced(b, n, n, ms)
  PROVE  BooksTraced(b, l, l, longer)
BY ProcsTracedLater, OpenTracedLater, StartsTracedLater DEF BooksTraced

LEMMA ReleasedTraced ==
  ASSUME NEW n, NEW s, NEW ms, NEW b, BooksTraced(b, n, s, ms), NEW fid, NEW m,
         NEW c, c = Released(b, fid, m)
  PROVE  BooksTraced(c, n, s, ms)
<1>1. PICK ss, opened, procs : b = [open |-> opened, starts |-> ss, procs |-> procs]
  BY DEF BooksTraced
<1>2. OpenTraced(opened, n, ms) /\ StartsTraced(ss, s, ms) /\ ProcsTraced(procs, n, ms)
  BY <1>1 DEF BooksTraced
<1>3. CASE m.name \in Releases
  <2>1. PICK kept : kept = Without(Without(ss, <<fid, "registration">>), <<fid, "pdu_session_est">>)
    OBVIOUS
  <2>2. c = [open |-> opened, starts |-> kept, procs |-> procs]
    BY <1>1, <1>3, <2>1 DEF Released
  <2>3. StartsTraced(kept, s, ms)
    BY <1>2, <2>1 DEF StartsTraced, Without, Restrict
  <2> QED
    BY <1>2, <2>2, <2>3 DEF BooksTraced
<1>4. CASE m.name \notin Releases
  BY <1>4 DEF Released
<1> QED
  BY <1>3, <1>4

LEMMA ProcTracedAdded ==
  ASSUME NEW n, NEW ms, NEW procs, ProcsTraced(procs, n, ms), NEW p, ProcTraced(p, n, ms),
         NEW longer, longer = Append(procs, p)
  PROVE  ProcsTraced(longer, n, ms)
<1>1. PICK S : procs \in Seq(S)
  BY DEF ProcsTraced
<1>2. /\ \E T : longer \in Seq(T)
      /\ Len(procs) \in Nat /\ Len(longer) = Len(procs) + 1
      /\ longer[Len(procs) + 1] = p /\ \A i \in 1..Len(procs) : longer[i] = procs[i]
  BY <1>1, LongerFacts
<1>3. \A j \in 1..Len(longer) : j \in 1..Len(procs) \/ j = Len(procs) + 1
  BY <1>2
<1> QED
  BY <1>2, <1>3 DEF ProcsTraced

LEMMA AcceptsGrant ==
  /\ \A x \in DOMAIN NasEnd :
       NasEnd[x].outcome = "accept" => x \in {"RegistrationAccept", "PDUSessionEstabAccept"}
  /\ \A x \in DOMAIN NgapEnd :
       NgapEnd[x].outcome = "accept" =>
         x \in {"InitialContextSetupRequest", "PDUSessionResourceSetupResponse"}
BY DEF NasEnd, NgapEnd


LEMMA NasTraced ==
  ASSUME NEW n \in Nat \ {0}, NEW ms, NEW b, BooksTraced(b, n - 1, n - 1, ms), NEW fid, NEW nas,
         ms[n].flow = fid, ms[n].nas = nas, NEW c, c = NasHandled(b, fid, nas, n)
  PROVE  BooksTraced(c, n, n - 1, ms)
<1>1. PICK ss, opened, procs : b = [open |-> opened, starts |-> ss, procs |-> procs]
  BY DEF BooksTraced
<1>2. /\ OpenTraced(opened, n - 1, ms)
      /\ StartsTraced(ss, n - 1, ms)
      /\ ProcsTraced(procs, n - 1, ms)
  BY <1>1 DEF BooksTraced
<1>3. OpenTraced(opened, n, ms) /\ ProcsTraced(procs, n, ms)
  BY <1>2, OpenTracedLater, ProcsTracedLater
<1>4. CASE nas.read /\ nas.name \in DOMAIN NasStart
  <2>1. PICK k, wider : k = <<fid, NasStart[nas.name]>> /\ wider = With(opened, k, n)
    OBVIOUS
  <2>2. c = [open |-> wider, starts |-> ss, procs |-> procs]
    <3>1. c = [b EXCEPT !.open = With(b.open, <<fid, NasStart[nas.name]>>, n)]
      BY <1>4, NamesApart, Zenon DEF NasHandled
    <3>2. b.open = opened
      BY <1>1
    <3>3. c = [b EXCEPT !.open = wider]
      BY <2>1, <3>1, <3>2, Zenon
    <3> QED
      BY <1>1, <3>3
  <2>3. n \in Asked(fid, n, ms)
    BY <1>4 DEF Asked, Asks
  <2>4. OpenTraced(wider, n, ms)
    BY <1>3, <2>1, <2>3 DEF OpenTraced, With
  <2> QED
    BY <1>2, <1>3, <2>2, <2>4 DEF BooksTraced
<1>5. CASE /\ ~(nas.read /\ nas.name \in DOMAIN NasStart)
           /\ nas.read /\ nas.name \in DOMAIN NasEnd
           /\ <<fid, NasEnd[nas.name].kind>> \in DOMAIN opened
  <2>1. PICK kind, outcome : kind = NasEnd[nas.name].kind /\ outcome = NasEnd[nas.name].outcome
    OBVIOUS
  <2>2. PICK k, fewer : k = <<fid, kind>> /\ fewer = Without(opened, k)
    OBVIOUS
  <2>3. PICK start : start = opened[k]
    OBVIOUS
  <2>4. PICK p : p = Procedure(fid, kind, "nas", start, n, outcome)
    OBVIOUS
  <2>5. PICK longer : longer = Append(procs, p)
    OBVIOUS
  <2>6. c = [open |-> fewer, starts |-> ss, procs |-> longer]
    <3>1. c = [b EXCEPT !.open = Without(b.open, <<fid, NasEnd[nas.name].kind>>),
                        !.procs = Append(b.procs, Procedure(fid, NasEnd[nas.name].kind, "nas",
                                           b.open[<<fid, NasEnd[nas.name].kind>>], n,
                                           NasEnd[nas.name].outcome))]
      BY <1>1, <1>5, Zenon DEF NasHandled
    <3>2. b.open = opened /\ b.procs = procs
      BY <1>1
    <3>3. c = [b EXCEPT !.open = fewer, !.procs = longer]
      BY <2>1, <2>2, <2>3, <2>4, <2>5, <3>1, <3>2, Zenon
    <3> QED
      BY <1>1, <3>3
  <2>7. start \in Asked(fid, n - 1, ms)
    BY <1>2, <1>5, <2>1, <2>2, <2>3 DEF OpenTraced
  <2>8. outcome = "accept" => Grants(ms[n])
    BY <1>5, <2>1, AcceptsGrant DEF Grants
  <2>9. ProcTraced(p, n, ms)
    BY <2>4, <2>7, <2>8 DEF ProcTraced, Procedure
  <2>10. ProcsTraced(longer, n, ms)
    BY <1>3, <2>5, <2>9, ProcTracedAdded
  <2>11. OpenTraced(fewer, n, ms)
    BY <1>3, <2>2 DEF OpenTraced, Without, Restrict
  <2> QED
    BY <1>2, <2>6, <2>10, <2>11 DEF BooksTraced
<1>6. CASE /\ ~(nas.read /\ nas.name \in DOMAIN NasStart)
           /\ ~(/\ nas.read /\ nas.name \in DOMAIN NasEnd
                /\ <<fid, NasEnd[nas.name].kind>> \in DOMAIN opened)
  <2>1. c = b
    BY <1>1, <1>6 DEF NasHandled
  <2> QED
    BY <1>1, <1>2, <1>3, <2>1 DEF BooksTraced
<1> QED
  BY <1>4, <1>5, <1>6

LEMMA QueueTraced ==
  ASSUME NEW n, NEW s, NEW ms, NEW b, BooksTraced(b, n, s, ms), NEW fid, NEW kind
  PROVE  Queue(b, <<fid, kind>>) \in Seq(Asked(fid, s, ms))
<1>1. CASE <<fid, kind>> \in DOMAIN b.starts
  BY <1>1 DEF Queue, BooksTraced, StartsTraced
<1>2. CASE <<fid, kind>> \notin DOMAIN b.starts
  BY <1>2, EmptySeq DEF Queue
<1> QED
  BY <1>1, <1>2

\* Replacing the unmatched starts of one kind by some that are traced.
LEMMA TracedReplaced ==
  ASSUME NEW n, NEW ms, NEW ss, StartsTraced(ss, n, ms), NEW fid, NEW kind,
         NEW q \in Seq(Asked(fid, n, ms))
  PROVE  StartsTraced(With(ss, <<fid, kind>>, q), n, ms)
BY DEF StartsTraced, With

LEMMA NgapStartTraced ==
  ASSUME NEW n \in Nat \ {0}, NEW ms, NEW b, BooksTraced(b, n, n - 1, ms), NEW fid, NEW m,
         ms[n].flow = fid, ms[n].msg = m, m.name \in DOMAIN NgapStart,
         NEW c, c = NgapHandled(b, fid, m, n)
  PROVE  BooksTraced(c, n, n, ms)
<1>1. PICK ss, opened, procs : b = [open |-> opened, starts |-> ss, procs |-> procs]
  BY DEF BooksTraced
<1>2. /\ OpenTraced(opened, n, ms)
      /\ StartsTraced(ss, n - 1, ms)
      /\ ProcsTraced(procs, n, ms)
  BY <1>1 DEF BooksTraced
<1>3. StartsTraced(ss, n, ms)
  BY <1>2, StartsTracedLater
<1>4. PICK kind : kind = NgapStart[m.name]
  OBVIOUS
<1>5. PICK q, A : q = Queue(b, <<fid, kind>>) /\ A = Asked(fid, n, ms)
  OBVIOUS
<1>6. q \in Seq(A)
  <2>1. PICK B : B = Asked(fid, n - 1, ms)
    OBVIOUS
  <2>2. B \subseteq A
    BY <1>5, <2>1, AskedGrows
  <2>3. q \in Seq(B)
    BY <1>5, <2>1, QueueTraced
  <2> QED
    BY <2>2, <2>3, SeqMonotonic
<1>7. n \in A
  BY <1>5 DEF Asked, Asks
<1>8. PICK more : more = Append(q, n)
  OBVIOUS
<1>9. more \in Seq(A)
  BY <1>6, <1>7, <1>8, AppendProperties
<1>10. PICK wider : wider = With(ss, <<fid, kind>>, more)
  OBVIOUS
<1>11. StartsTraced(wider, n, ms)
  BY <1>3, <1>5, <1>9, <1>10, TracedReplaced
<1>12. c = [open |-> opened, starts |-> wider, procs |-> procs]
  <2>1. c = [b EXCEPT !.starts =
          With(b.starts, <<fid, NgapStart[m.name]>>, Append(Queue(b, <<fid, NgapStart[m.name]>>), n))]
    BY NamesApart, Zenon DEF NgapHandled
  <2>2. b.starts = ss
    BY <1>1
  <2>3. c = [b EXCEPT !.starts = wider]
    BY <1>4, <1>5, <1>8, <1>10, <2>1, <2>2, Zenon
  <2> QED
    BY <1>1, <2>3
<1> QED
  BY <1>2, <1>11, <1>12 DEF BooksTraced

LEMMA NgapEndTraced ==
  ASSUME NEW n \in Nat \ {0}, NEW ms, NEW b, BooksTraced(b, n, n - 1, ms), NEW fid, NEW e,
         ms[n].flow = fid, e.outcome = "accept" => Grants(ms[n]),
         NEW c, c = NgapCompleted(b, fid, e, n)
  PROVE  BooksTraced(c, n, n, ms)
<1>1. PICK ss, opened, procs : b = [open |-> opened, starts |-> ss, procs |-> procs]
  BY DEF BooksTraced
<1>2. /\ OpenTraced(opened, n, ms)
      /\ StartsTraced(ss, n - 1, ms)
      /\ ProcsTraced(procs, n, ms)
  BY <1>1 DEF BooksTraced
<1>3. StartsTraced(ss, n, ms)
  BY <1>2, StartsTracedLater
<1>4. PICK kind, outcome : kind = e.kind /\ outcome = e.outcome
  OBVIOUS
<1>5. PICK q, A, B :
        q = Queue(b, <<fid, kind>>) /\ A = Asked(fid, n - 1, ms) /\ B = Asked(fid, n, ms)
  OBVIOUS
<1>6. q \in Seq(A) /\ A \subseteq B
  BY <1>5, QueueTraced, AskedGrows
<1>7. CASE \E p \in Range(b.procs) : p.flow = fid /\ p.kind = e.kind
  <2>1. PICK fewer : fewer = Without(ss, <<fid, kind>>)
    OBVIOUS
  <2>2. c = [open |-> opened, starts |-> fewer, procs |-> procs]
    <3>1. c = [b EXCEPT !.starts = Without(b.starts, <<fid, e.kind>>)]
      BY <1>7, Zenon DEF NgapCompleted
    <3>2. b.starts = ss
      BY <1>1
    <3>3. c = [b EXCEPT !.starts = fewer]
      BY <1>4, <2>1, <3>1, <3>2, Zenon
    <3> QED
      BY <1>1, <3>3
  <2>3. StartsTraced(fewer, n, ms)
    BY <1>3, <2>1 DEF StartsTraced, Without, Restrict
  <2> QED
    BY <1>2, <2>2, <2>3 DEF BooksTraced
<1>8. CASE /\ ~(\E p \in Range(b.procs) : p.flow = fid /\ p.kind = e.kind)
           /\ q # <<>>
  <2>1. PICK start, rest : start = Head(q) /\ rest = Tail(q)
    OBVIOUS
  <2>2. start \in A /\ rest \in Seq(B)
    <3>1. start \in A /\ rest \in Seq(A)
      BY <1>6, <1>8, <2>1, HeadTailProperties
    <3> QED
      BY <1>6, <3>1, SeqMonotonic
  <2>3. PICK wider : wider = With(ss, <<fid, kind>>, rest)
    OBVIOUS
  <2>4. StartsTraced(wider, n, ms)
    BY <1>3, <1>5, <2>2, <2>3, TracedReplaced
  <2>5. PICK p : p = Procedure(fid, kind, "ngap", start, n, outcome)
    OBVIOUS
  <2>6. PICK longer : longer = Append(procs, p)
    OBVIOUS
  <2>7. c = [open |-> opened, starts |-> wider, procs |-> longer]
    <3>1. c = [b EXCEPT !.starts = With(b.starts, <<fid, e.kind>>, Tail(Queue(b, <<fid, e.kind>>))),
                        !.procs = Append(b.procs, Procedure(fid, e.kind, "ngap",
                                    Head(Queue(b, <<fid, e.kind>>)), n, e.outcome))]
      BY <1>4, <1>5, <1>8, Zenon DEF NgapCompleted
    <3>2. b.starts = ss /\ b.procs = procs
      BY <1>1
    <3>3. c = [b EXCEPT !.starts = wider, !.procs = longer]
      BY <1>4, <1>5, <2>1, <2>3, <2>5, <2>6, <3>1, <3>2, Zenon
    <3> QED
      BY <1>1, <3>3
  <2>8. ProcTraced(p, n, ms)
    BY <1>4, <1>5, <2>2, <2>5 DEF ProcTraced, Procedure
  <2>9. ProcsTraced(longer, n, ms)
    BY <1>2, <2>6, <2>8, ProcTracedAdded
  <2> QED
    BY <1>2, <2>4, <2>7, <2>9 DEF BooksTraced
<1>9. CASE /\ ~(\E p \in Range(b.procs) : p.flow = fid /\ p.kind = e.kind)
           /\ q = <<>>
  <2>1. c = b
    BY <1>4, <1>5, <1>9, Zenon DEF NgapCompleted
  <2> QED
    BY <1>1, <1>2, <1>3, <2>1 DEF BooksTraced
<1> QED
  BY <1>7, <1>8, <1>9

LEMMA NgapTraced ==
  ASSUME NEW n \in Nat \ {0}, NEW ms, NEW b, BooksTraced(b, n, n - 1, ms), NEW fid, NEW m,
         ms[n].flow = fid, ms[n].msg = m, NEW c, c = NgapHandled(b, fid, m, n)
  PROVE  BooksTraced(c, n, n, ms)
<1>1. CASE m.name \in DOMAIN NgapStart
  BY <1>1, NgapStartTraced
<1>2. CASE m.name \notin DOMAIN NgapStart /\ m.name \in DOMAIN NgapEnd
  <2>1. PICK e : e = NgapEnd[m.name]
    OBVIOUS
  <2>2. c = NgapCompleted(b, fid, e, n)
    BY <1>2, <2>1, Zenon DEF NgapHandled
  <2>3. e.outcome = "accept" => Grants(ms[n])
    BY <1>2, <2>1, AcceptsGrant DEF Grants
  <2> QED
    BY <2>2, <2>3, NgapEndTraced
<1>3. CASE m.name \notin DOMAIN NgapStart /\ m.name \notin DOMAIN NgapEnd
  <2>1. c = b
    BY <1>3, Zenon DEF NgapHandled
  <2>2. StartsTraced(b.starts, n, ms)
    BY StartsTracedLater DEF BooksTraced
  <2> QED
    BY <2>1, <2>2 DEF BooksTraced
<1> QED
  BY <1>1, <1>2, <1>3

\* Flow f began at its first message, with an InitialUEMessage unless it is partial.
Began(f, partial, n, ms) ==
  \E i \in 1..n :
    /\ ms[i].flow = f /\ \A j \in 1..(i - 1) : ms[j].flow # f
    /\ partial \/ ms[i].msg.name = "InitialUEMessage"

FlowsBegan(fs, n, ms) ==
  /\ \E S : fs \in Seq(S)
  /\ \A i \in 1..n : ms[i].flow \in 0..Len(fs)
  /\ \A f \in 1..Len(fs) : IsFlow(fs[f]) /\ Began(f, fs[f].partial, n, ms)

Caused(x) == x.nas.name \in Rejects => x.nas.read /\ x.nas.cause # NoCode

TracedInv ==
  /\ lab \in Labs
  /\ \E S : n2 \in Seq(S)
  /\ BooksTraced(Books, Len(n2), Len(n2), n2)
  /\ FlowsBegan(flows, Len(n2), n2)
  /\ \A i \in 1..Len(n2) : Caused(n2[i])

LEMMA BeganLater ==
  ASSUME NEW n \in Nat, NEW ms, NEW longer, \A i \in 1..n : longer[i] = ms[i],
         NEW f, NEW partial, Began(f, partial, n, ms)
  PROVE  Began(f, partial, n + 1, longer)
<1>1. PICK i \in 1..n :
        /\ ms[i].flow = f /\ \A j \in 1..(i - 1) : ms[j].flow # f
        /\ partial \/ ms[i].msg.name = "InitialUEMessage"
  BY DEF Began
<1>2. i \in 1..(n + 1) /\ longer[i] = ms[i]
  OBVIOUS
<1>3. \A j \in 1..(i - 1) : longer[j].flow # f
  BY <1>1
<1> QED
  BY <1>1, <1>2, <1>3 DEF Began

\* Reading a refused payload, or none, yields no reject.
LEMMA DecodedCaused ==
  ASSUME NEW m \in N2Messages, NEW ciph, NEW x,
         x.nas = IF m.nas = NoNas THEN NoNas ELSE NasDecoded(m.nas, ciph)
  PROVE  Caused(x)
<1>1. ASSUME x.nas.name \in Rejects PROVE x.nas.read /\ x.nas.cause # NoCode
  <2>1. x.nas = NasDecoded(m.nas, ciph)
    <3>1. NoNas.name \notin Rejects
      BY DEF NoNas, Rejects
    <3> QED
      BY <1>1, <3>1
  <2>2. \/ m.nas.shield = "none" \/ m.nas.shield = "integrity"
        \/ (m.nas.shield = "cipher" /\ ciph = 0)
    <3>1. [NoNas EXCEPT !.name = "refused"].name \notin Rejects
      BY DEF NoNas, Rejects
    <3> QED
      BY <1>1, <2>1, <3>1, Zenon DEF NasDecoded
  <2>3. x.nas = [name |-> m.nas.name, read |-> TRUE, algo |-> m.nas.algo,
                 supi |-> m.nas.supi, cause |-> m.nas.cause]
    BY <2>1, <2>2, Zenon DEF NasDecoded
  <2>4. x.nas.name = m.nas.name /\ x.nas.read /\ x.nas.cause = m.nas.cause
    BY <2>3
  <2> QED
    BY <1>1, <2>4, FlowsAssumption DEF FlowsAssumption
<1> QED
  BY <1>1 DEF Caused

\* A message of no flow, or of one known before.
LEMMA BeganKept ==
  ASSUME NEW n \in Nat, NEW ms, NEW longer, \A i \in 1..n : longer[i] = ms[i],
         NEW fs, FlowsBegan(fs, n, ms), longer[n + 1].flow \in 0..Len(fs)
  PROVE  FlowsBegan(fs, n + 1, longer)
<1>1. \A f \in 1..Len(fs) : IsFlow(fs[f]) /\ Began(f, fs[f].partial, n + 1, longer)
  BY BeganLater DEF FlowsBegan
<1>2. \A i \in 1..(n + 1) : i \in 1..n \/ i = n + 1
  OBVIOUS
<1> QED
  BY <1>1, <1>2 DEF FlowsBegan

\* The first message of a new flow.
LEMMA BeganAdded ==
  ASSUME NEW n \in Nat, NEW ms, NEW longer, \A i \in 1..n : longer[i] = ms[i],
         NEW fs, FlowsBegan(fs, n, ms), NEW new, IsFlow(new), NEW known, known = Append(fs, new),
         NEW l, l = Len(known), longer[n + 1].flow = l,
         new.partial \/ longer[n + 1].msg.name = "InitialUEMessage"
  PROVE  FlowsBegan(known, n + 1, longer) /\ l \in 1..Len(known)
<1>1. PICK T : fs \in Seq(T)
  BY DEF FlowsBegan
<1>2. /\ \E W : known \in Seq(W)
      /\ Len(fs) \in Nat /\ l = Len(fs) + 1
      /\ known[l] = new /\ \A k \in 1..Len(fs) : known[k] = fs[k]
  BY <1>1, LongerFacts
<1>3. ASSUME NEW j \in 1..n PROVE longer[j].flow \in 0..Len(fs) /\ longer[j].flow # l
  <2>1. longer[j].flow \in 0..Len(fs)
    BY DEF FlowsBegan
  <2>2. \A other \in 0..Len(fs) : other # l
    BY <1>2
  <2> QED
    BY <2>1, <2>2
<1>4. Began(l, new.partial, n + 1, longer)
  <2>1. (n + 1) - 1 = n /\ n + 1 \in 1..(n + 1)
    OBVIOUS
  <2>2. \A j \in 1..((n + 1) - 1) : longer[j].flow # l
    BY <1>3, <2>1
  <2> QED
    BY <2>1, <2>2 DEF Began
<1>5. \A k \in 1..Len(fs) : IsFlow(fs[k]) /\ Began(k, fs[k].partial, n + 1, longer)
  BY BeganLater DEF FlowsBegan
<1>6. \A k \in 1..l : IsFlow(known[k]) /\ Began(k, known[k].partial, n + 1, longer)
  <2>1. \A k \in 1..l : k \in 1..Len(fs) \/ k = l
    BY <1>2
  <2> QED
    BY <1>2, <1>4, <1>5, <2>1
<1>7. \A i \in 1..(n + 1) : longer[i].flow \in 0..l
  <2>1. \A i \in 1..(n + 1) : i \in 1..n \/ i = n + 1
    OBVIOUS
  <2>2. (0..Len(fs)) \subseteq (0..l) /\ l \in 0..l
    BY <1>2
  <2> QED
    BY <1>3, <2>1, <2>2
<1> QED
  BY <1>2, <1>6, <1>7 DEF FlowsBegan

LEMMA BeganUpdated ==
  ASSUME NEW n, NEW ms, NEW fs, FlowsBegan(fs, n, ms), NEW fid \in 1..Len(fs),
         NEW f, f = fs[fid], NEW a, NEW c, NEW after,
         after = [fs EXCEPT ![fid] = Updated(f, a, c)]
  PROVE  FlowsBegan(after, n, ms)
<1>1. PICK W : fs \in Seq(W)
  BY DEF FlowsBegan
<1>2. PICK g : g = Updated(f, a, c)
  OBVIOUS
<1>3. IsFlow(g) /\ g.partial = f.partial
  <2>1. IsFlow(f)
    BY DEF FlowsBegan
  <2>2. g = [key |-> f.key, amf |-> a, ciph |-> c, partial |-> f.partial]
    BY <1>2, <2>1, FlowUpdated
  <2> QED
    BY <2>2 DEF IsFlow
<1>4. after \in Seq(W \cup {g}) /\ Len(after) = Len(fs)
  <2>1. fs \in Seq(W \cup {g}) /\ g \in W \cup {g}
    BY <1>1, SeqMonotonic
  <2> QED
    BY <1>2, <2>1, ExceptSeq
<1>5. DOMAIN fs = 1..Len(fs)
  BY <1>1, LenProperties
<1>6. after[fid] = g /\ \A k \in 1..Len(fs) : k # fid => after[k] = fs[k]
  BY <1>2, <1>5
<1>7. \A k \in 1..Len(after) : IsFlow(after[k]) /\ Began(k, after[k].partial, n, ms)
  <2>1. Began(fid, g.partial, n, ms)
    BY <1>3 DEF FlowsBegan
  <2> QED
    BY <1>3, <1>4, <1>6, <2>1 DEF FlowsBegan
<1> QED
  BY <1>4, <1>7 DEF FlowsBegan

LEMMA AssociatedTraced ==
  ASSUME TracedInv, NEW m \in N2Messages, ReadAssociated(m)
  PROVE  /\ \E S : n2' \in Seq(S)
         /\ BooksTraced(Books, Len(n2), Len(n2), n2)'
         /\ FlowsBegan(flows, Len(n2), n2)'
         /\ \A i \in 1..Len(n2') : Caused(n2'[i])
<1>1. PICK S, T, n, l : n2 \in Seq(S) /\ flows \in Seq(T) /\ n = Len(n2) /\ l = n + 1
  BY DEF TracedInv, FlowsBegan
<1>2. PICK new, known :
        /\ new = [key |-> FlowKey(m), amf |-> m.amf, ciph |-> NoAlgo,
                  partial |-> m.name # "InitialUEMessage"]
        /\ known = IF FlowOf(m) # 0 THEN flows ELSE Append(flows, new)
  OBVIOUS
<1>3. PICK fid : fid = IF FlowOf(m) # 0 THEN FlowOf(m) ELSE Len(known)
  OBVIOUS
<1>4. PICK f : f = known[fid]
  OBVIOUS
<1>5. PICK nas : nas = IF m.nas = NoNas THEN NoNas ELSE NasDecoded(m.nas, f.ciph)
  OBVIOUS
<1>6. PICK x, amf, ciph :
        /\ x = [msg |-> m, flow |-> fid, nas |-> nas]
        /\ amf = IF f.amf = NoId THEN m.amf ELSE f.amf
        /\ ciph = IF f.ciph = NoAlgo THEN nas.algo ELSE f.ciph
  OBVIOUS
<1>7. PICK b, c : b = Books /\ c = NgapHandled(NasHandled(Released(b, fid, m), fid, nas, l), fid, m, l)
  OBVIOUS
<1>8. PICK longer, after :
        longer = Append(n2, x) /\ after = [known EXCEPT ![fid] = Updated(f, amf, ciph)]
  OBVIOUS
<1>9. /\ n2' = longer /\ flows' = after
      /\ open' = c.open /\ starts' = c.starts /\ n2Procs' = c.procs
  BY <1>1, <1>2, <1>3, <1>4, <1>5, <1>6, <1>7, <1>8, Zenon DEF ReadAssociated, Updated
<1>10. /\ \E W : longer \in Seq(W)
       /\ n \in Nat /\ Len(longer) = l /\ longer[l] = x
       /\ \A i \in 1..n : longer[i] = n2[i]
  <2>1. longer = Append(n2, x) /\ n2 \in Seq(S)
    BY <1>1, <1>8
  <2>2. /\ \E W : longer \in Seq(W)
        /\ Len(n2) \in Nat /\ Len(longer) = Len(n2) + 1
        /\ longer[Len(n2) + 1] = x /\ \A i \in 1..Len(n2) : longer[i] = n2[i]
    BY <2>1, LongerFacts
  <2> QED
    BY <1>1, <2>2
<1>11. x.msg = m /\ x.flow = fid /\ x.nas = nas
  BY <1>6
<1>12. BooksTraced(c, l, l, longer)
  <2>1. BooksTraced(b, n, n, longer)
    <3>1. BooksTraced(b, n, n, n2) /\ n <= n
      BY <1>1, <1>7, <1>10 DEF TracedInv
    <3> QED
      BY <1>10, <3>1, BooksTracedLater
  <2>2. PICK r : r = Released(b, fid, m)
    OBVIOUS
  <2>3. BooksTraced(r, n, n, longer)
    BY <2>1, <2>2, ReleasedTraced
  <2>4. PICK d : d = NasHandled(r, fid, nas, l)
    OBVIOUS
  <2>5. l \in Nat \ {0} /\ l - 1 = n
    BY <1>1, <1>10
  <2>6. BooksTraced(d, l, l - 1, longer)
    BY <1>10, <1>11, <2>3, <2>4, <2>5, NasTraced
  <2>7. c = NgapHandled(d, fid, m, l)
    BY <1>7, <2>2, <2>4
  <2> QED
    BY <1>10, <1>11, <2>5, <2>6, <2>7, NgapTraced
<1>13. FlowsBegan(known, l, longer) /\ fid \in 1..Len(known)
  <2>1. FlowsBegan(flows, n, n2)
    BY <1>1 DEF TracedInv
  <2>2. CASE FlowOf(m) # 0
    <3>1. known = flows /\ fid \in 1..Len(flows)
      BY <1>1, <1>2, <1>3, <2>2, FlowFound
    <3>2. longer[n + 1].flow \in 0..Len(flows)
      BY <1>1, <1>10, <1>11, <3>1, LenProperties
    <3>3. FlowsBegan(flows, n + 1, longer)
      BY <1>10, <2>1, <3>2, BeganKept
    <3> QED
      BY <1>1, <3>1, <3>3
  <2>3. CASE FlowOf(m) = 0
    <3>1. known = Append(flows, new) /\ fid = Len(known)
      BY <1>2, <1>3, <2>3
    <3>2. IsFlow(new)
      BY <1>2 DEF IsFlow
    <3>3. new.partial \/ longer[n + 1].msg.name = "InitialUEMessage"
      BY <1>1, <1>2, <1>10, <1>11
    <3>4. longer[n + 1].flow = fid
      BY <1>1, <1>10, <1>11
    <3>5. FlowsBegan(known, n + 1, longer) /\ fid \in 1..Len(known)
      BY <1>10, <2>1, <3>1, <3>2, <3>3, <3>4, BeganAdded
    <3> QED
      BY <1>1, <3>5
  <2> QED
    BY <2>2, <2>3
<1>14. FlowsBegan(after, l, longer)
  BY <1>4, <1>8, <1>13, BeganUpdated
<1>15. \A i \in 1..l : Caused(longer[i])
  <2>1. Caused(x)
    BY <1>5, <1>11, DecodedCaused
  <2>2. \A i \in 1..n : Caused(n2[i])
    BY <1>1 DEF TracedInv
  <2>3. \A i \in 1..l : i \in 1..n \/ i = l
    BY <1>1, <1>10
  <2> QED
    BY <1>10, <2>1, <2>2, <2>3
<1>16. Books' = c
  <2>1. c = [open |-> c.open, starts |-> c.starts, procs |-> c.procs]
    BY <1>12 DEF BooksTraced
  <2> QED
    BY <1>9, <2>1 DEF Books
<1>17. /\ BooksTraced(Books, Len(n2), Len(n2), n2)'
       /\ FlowsBegan(flows, Len(n2), n2)'
  BY <1>9, <1>10, <1>12, <1>14, <1>16
<1> QED
  BY <1>9, <1>10, <1>15, <1>17

LEMMA UnassociatedTraced ==
  ASSUME TracedInv, NEW m, ReadUnassociated(m)
  PROVE  /\ \E S : n2' \in Seq(S)
         /\ BooksTraced(Books, Len(n2), Len(n2), n2)'
         /\ FlowsBegan(flows, Len(n2), n2)'
         /\ \A i \in 1..Len(n2') : Caused(n2'[i])
<1>1. PICK S, T, n, l : n2 \in Seq(S) /\ flows \in Seq(T) /\ n = Len(n2) /\ l = n + 1
  BY DEF TracedInv, FlowsBegan
<1>2. PICK x : x = [msg |-> m, flow |-> 0, nas |-> NoNas]
  OBVIOUS
<1>3. PICK longer : longer = Append(n2, x)
  OBVIOUS
<1>4. n2' = longer /\ flows' = flows /\ Books' = Books
  BY <1>2, <1>3 DEF ReadUnassociated, Books
<1>5. /\ \E W : longer \in Seq(W)
      /\ n \in Nat /\ Len(longer) = l /\ longer[l] = x
      /\ \A i \in 1..n : longer[i] = n2[i]
  BY <1>1, <1>3, LongerFacts
<1>6. BooksTraced(Books, l, l, longer)
  <2>1. BooksTraced(Books, n, n, n2)
    BY <1>1 DEF TracedInv
  <2>2. l \in Nat /\ n <= l
    BY <1>1, <1>5
  <2> QED
    BY <1>5, <2>1, <2>2, BooksTracedLater
<1>7. FlowsBegan(flows, l, longer)
  <2>1. longer[n + 1].flow \in 0..Len(flows)
    BY <1>1, <1>2, <1>5, LenProperties
  <2>2. FlowsBegan(flows, n, n2)
    BY <1>1 DEF TracedInv
  <2>3. FlowsBegan(flows, n + 1, longer)
    BY <1>5, <2>1, <2>2, BeganKept
  <2> QED
    BY <1>1, <2>3
<1>8. \A i \in 1..l : Caused(longer[i])
  <2>1. Caused(x)
    BY <1>2 DEF Caused, NoNas, Rejects
  <2>2. \A i \in 1..n : Caused(n2[i])
    BY <1>1 DEF TracedInv
  <2>3. \A i \in 1..l : i \in 1..n \/ i = l
    BY <1>1, <1>5
  <2> QED
    BY <1>5, <2>1, <2>2, <2>3
<1>9. /\ BooksTraced(Books, Len(n2), Len(n2), n2)'
      /\ FlowsBegan(flows, Len(n2), n2)'
  BY <1>4, <1>5, <1>6, <1>7
<1> QED
  BY <1>4, <1>5, <1>8, <1>9

LEMMA TracedInitially ==
  ASSUME CaptureInit
  PROVE  TracedInv
<1>1. /\ lab \in Labs /\ n2 = <<>> /\ flows = <<>> /\ n2Procs = <<>>
      /\ DOMAIN open = {} /\ DOMAIN starts = {}
  BY DEF CaptureInit, FlowsInit
<1>2. /\ n2 \in Seq({}) /\ flows \in Seq({}) /\ n2Procs \in Seq({})
      /\ Len(n2) = 0 /\ Len(flows) = 0 /\ Len(n2Procs) = 0
  BY <1>1, EmptySeq
<1>3. PICK n : n = Len(n2)
  OBVIOUS
<1>4. BooksTraced(Books, n, n, n2)
  <2>1. /\ Books = [open |-> Books.open, starts |-> Books.starts, procs |-> Books.procs]
        /\ Books.open = open /\ Books.starts = starts /\ Books.procs = n2Procs
    BY DEF Books
  <2>2. OpenTraced(open, n, n2) /\ StartsTraced(starts, n, n2)
    BY <1>1 DEF OpenTraced, StartsTraced
  <2>3. ProcsTraced(n2Procs, n, n2)
    BY <1>2 DEF ProcsTraced
  <2> QED
    BY <2>1, <2>2, <2>3 DEF BooksTraced
<1>5. FlowsBegan(flows, n, n2)
  BY <1>2, <1>3 DEF FlowsBegan
<1> QED
  BY <1>1, <1>2, <1>3, <1>4, <1>5 DEF TracedInv

LEMMA TracedPreserved ==
  ASSUME TracedInv, [CaptureNext]_captureVars
  PROVE  TracedInv'
<1>1. ASSUME UNCHANGED <<lab, flowVars>> PROVE TracedInv'
  BY <1>1 DEF flowVars, TracedInv, Books
<1>2. CASE ReadPlaneN2
  <2>1. lab' = lab /\ lab \in Labs
    BY <1>2 DEF ReadPlaneN2, TracedInv
  <2>2. PICK m \in lab.n2 : ReadN2(m)
    BY <1>2 DEF ReadPlaneN2
  <2>3. m \in N2Messages
    BY <2>1, CaptureAssumption DEF CaptureAssumption
  <2>4. /\ \E S : n2' \in Seq(S)
        /\ BooksTraced(Books, Len(n2), Len(n2), n2)'
        /\ FlowsBegan(flows, Len(n2), n2)'
        /\ \A i \in 1..Len(n2') : Caused(n2'[i])
    <3>1. CASE ReadAssociated(m)
      BY <2>3, <3>1, AssociatedTraced
    <3>2. CASE ReadUnassociated(m)
      BY <3>2, UnassociatedTraced
    <3> QED
      BY <2>2, <3>1, <3>2 DEF ReadN2
  <2> QED
    BY <2>1, <2>4 DEF TracedInv
<1>3. CASE ReadPlaneSbi
  BY <1>1, <1>3 DEF ReadPlaneSbi
<1>4. CASE ReadPlaneN4
  BY <1>1, <1>4 DEF ReadPlaneN4
<1>5. CASE NextPlane
  BY <1>1, <1>5 DEF NextPlane
<1>6. CASE UNCHANGED captureVars
  BY <1>1, <1>6 DEF captureVars
<1> QED
  BY <1>2, <1>3, <1>4, <1>5, <1>6 DEF CaptureNext

LEMMA GoldenSucceeded ==
  ASSUME TracedInv, CountedInv
  PROVE  GoldenFlowsSucceeded
<1> SUFFICES ASSUME NEW f \in FlowIds, ~IsIncident(f)
             PROVE  /\ n2[CHOOSE i \in OfFlow(f) : \A j \in OfFlow(f) : i <= j].msg.name
                          = "InitialUEMessage"
                    /\ \E i, j \in OfFlow(f) : i < j /\ Asks(n2[i]) /\ Grants(n2[j])
                    /\ \A i \in OfFlow(f) : n2[i].nas.name \notin Rejects
  <2>1. ASSUME NEW g \in FlowIds, IsIncident(g) PROVE g \in {x.flow : x \in N2Incidents}
    <3>1. PICK x : x = [plane |-> "n2", flow |-> g, procedure |-> ProcedureOf(g), shape |-> ShapeOf(g),
                        codes |-> {n2[i].nas.cause : i \in CausesOf(g)}]
      OBVIOUS
    <3>2. x \in N2Incidents
      BY <2>1, <3>1, Zenon DEF N2Incidents
    <3>3. x.flow = g
      BY <3>1
    <3> QED
      BY <3>2, <3>3
  <2> QED
    BY <2>1 DEF GoldenFlowsSucceeded, Asks, Grants
<1>1. /\ FailedOf(f) = {} /\ CausesOf(f) = {} /\ ~flows[f].partial
      /\ OfFlow(f) = {} \/ ProcsOf(f) # {}
  BY DEF IsIncident
<1>2. PICK S, T, U : n2 \in Seq(S) /\ flows \in Seq(T) /\ n2Procs \in Seq(U)
  BY DEF TracedInv, FlowsBegan, BooksTraced, ProcsTraced, Books
<1>3. /\ DOMAIN n2 = 1..Len(n2) /\ DOMAIN n2Procs = 1..Len(n2Procs)
      /\ f \in 1..Len(flows) /\ Len(n2) \in Nat
  BY <1>2, LenProperties DEF FlowIds
<1>4. PICK i \in 1..Len(n2) :
        /\ n2[i].flow = f /\ \A j \in 1..(i - 1) : n2[j].flow # f
        /\ n2[i].msg.name = "InitialUEMessage"
  BY <1>1, <1>3 DEF TracedInv, FlowsBegan, Began
<1>5. i \in OfFlow(f) /\ \A j \in OfFlow(f) : i <= j
  <2>1. ASSUME NEW j \in OfFlow(f) PROVE i <= j
    <3>1. j \in 1..Len(n2) /\ n2[j].flow = f
      BY <1>3 DEF OfFlow
    <3>2. j \notin 1..(i - 1)
      BY <1>4, <3>1
    <3> QED
      BY <3>1, <3>2
  <2> QED
    BY <1>3, <1>4, <2>1 DEF OfFlow
<1>6. OfFlow(f) \subseteq Nat
  BY <1>3 DEF OfFlow
<1>7. n2[CHOOSE k \in OfFlow(f) : \A j \in OfFlow(f) : k <= j].msg.name = "InitialUEMessage"
  <2>1. PICK first : first = CHOOSE k \in OfFlow(f) : \A j \in OfFlow(f) : k <= j
    OBVIOUS
  <2>2. first \in OfFlow(f) /\ \A j \in OfFlow(f) : first <= j
    BY <1>5, <2>1
  <2>3. first = i
    BY <1>5, <1>6, <2>2
  <2> QED
    BY <1>4, <2>1, <2>3
<1>8. \E j, k \in OfFlow(f) : j < k /\ Asks(n2[j]) /\ Grants(n2[k])
  <2>1. PICK l \in ProcsOf(f) : TRUE
    BY <1>1, <1>5
  <2>2. PICK p : p = n2Procs[l]
    OBVIOUS
  <2>3. l \in 1..Len(n2Procs) /\ p.flow = f /\ p.outcome \in {"accept", "unknown"}
    BY <1>1, <1>3, <2>1, <2>2 DEF ProcsOf, FailedOf
  <2>4. p.outcome \in {"accept", "reject"}
    BY <2>2, <2>3 DEF CountedInv, BooksCounted, ProcsCounted, Ended, Books
  <2>5. ProcTraced(p, Len(n2), n2) /\ p.outcome = "accept"
    BY <2>2, <2>3, <2>4 DEF TracedInv, BooksTraced, ProcsTraced, Books
  <2>6. PICK j, k : j = p.start /\ k = p.end
    OBVIOUS
  <2>7. k \in 1..Len(n2) /\ j \in Asked(f, k - 1, n2) /\ n2[k].flow = f /\ Grants(n2[k])
    BY <2>3, <2>5, <2>6 DEF ProcTraced
  <2>8. j \in 1..Len(n2) /\ j < k /\ n2[j].flow = f /\ Asks(n2[j])
    BY <1>3, <2>7 DEF Asked
  <2> QED
    BY <1>3, <2>7, <2>8 DEF OfFlow
<1>9. ASSUME NEW k \in OfFlow(f), n2[k].nas.name \in Rejects PROVE FALSE
  <2>1. n2[k].nas.read /\ n2[k].nas.cause # NoCode
    BY <1>3, <1>9 DEF TracedInv, OfFlow, Caused
  <2> QED
    BY <1>1, <2>1 DEF CausesOf
<1> QED
  BY <1>7, <1>8, <1>9

(* In captures of any length, with interleaved UEs and reused ids, a flow in which triage  *)
(* detects no Incident began with its InitialUEMessage, was granted something it had asked *)
(* for, and read no reject (detect_incidents over build_flows).                            *)
THEOREM GoldenFlowsAlwaysSucceeded == CaptureSpec => []GoldenFlowsSucceeded
<1>1. CaptureInit => TracedInv /\ CountedInv
  BY TracedInitially, CountedInitially DEF CaptureInit
<1>2. TracedInv /\ CountedInv /\ [CaptureNext]_captureVars => (TracedInv /\ CountedInv)'
  BY TracedPreserved, CountedPreserved
<1>3. TracedInv /\ CountedInv => GoldenFlowsSucceeded
  BY GoldenSucceeded
<1> QED
  BY <1>1, <1>2, <1>3, PTL DEF CaptureSpec
=============================================================================
