--------------------------- MODULE CaptureProofs ---------------------------
(***************************************************************************)
(* 5gcap's pairing proved for captures of any length and any messages.     *)
(***************************************************************************)
EXTENDS Capture, SequenceTheorems, FiniteSetTheorems, WellFoundedInduction, TLAPS

-----------------------------------------------------------------------------
(* N4.  The invariant behind PairingIsExact says what pending holds: for   *)
(* each key the first send of the exchange that is still unanswered, and   *)
(* a key for every request that is.                                        *)

Unanswered(i) == \A j \in (i + 1)..Len(n4) : ~Mirrors(i, j)

PendingIsWaiting ==
  \A k \in DOMAIN pending :
    /\ pending[k] \in 1..Len(n4)
    /\ RequestKey(n4[pending[k]]) = k
    /\ FirstSend(pending[k])
    /\ Unanswered(pending[k])

WaitingIsPending ==
  \A i \in 1..Len(n4) :
    IsRequest(n4[i]) /\ Unanswered(i) => RequestKey(n4[i]) \in DOMAIN pending

PairsAreAnswers ==
  {<<p.req, p.rsp>> : p \in n4Procs} =
    {x \in (1..Len(n4)) \X (1..Len(n4)) : Answers(x[2], x[1])}

N4Inv ==
  /\ n4 \in Seq(N4Messages)
  /\ PendingIsWaiting
  /\ WaitingIsPending
  /\ PairsAreAnswers

LEMMA RequestOrResponse ==
  ASSUME NEW m
  PROVE  ~(IsRequest(m) /\ IsResponse(m))
BY DEF IsRequest, IsResponse

\* What is known of the messages read does not change when one more is read.
LEMMA ReadingKeepsThePast ==
  ASSUME NEW m \in N4Messages, n4 \in Seq(N4Messages), n4' = Append(n4, m)
  PROVE  /\ n4' \in Seq(N4Messages)
         /\ Len(n4') = Len(n4) + 1
         /\ n4'[Len(n4) + 1] = m
         /\ \A i \in 1..Len(n4) : n4'[i] = n4[i]
         /\ \A i, j \in 1..Len(n4) : Mirrors(i, j)' <=> Mirrors(i, j)
         /\ \A i \in 1..Len(n4) : FirstSend(i)' <=> FirstSend(i)
         /\ \A i, j \in 1..Len(n4) : Answers(j, i)' <=> Answers(j, i)
<1>1. /\ n4' \in Seq(N4Messages)
      /\ Len(n4') = Len(n4) + 1
      /\ n4'[Len(n4) + 1] = m
      /\ \A i \in 1..Len(n4) : n4'[i] = n4[i]
  BY AppendProperties
<1>2. ASSUME NEW i \in 1..Len(n4), NEW j \in 1..Len(n4)
      PROVE  Mirrors(i, j)' <=> Mirrors(i, j)
  BY <1>1 DEF Mirrors
<1>3. ASSUME NEW i \in 1..Len(n4)
      PROVE  FirstSend(i)' <=> FirstSend(i)
  <2>1. Len(n4) \in Nat
    BY LenProperties
  <2>2. \A k \in 1..(i - 1) : k \in 1..Len(n4) /\ \A l \in (k + 1)..(i - 1) : l \in 1..Len(n4)
    BY <2>1
  <2> QED
    BY <1>1, <1>2, <2>1, <2>2 DEF FirstSend
<1>4. ASSUME NEW i \in 1..Len(n4), NEW j \in 1..Len(n4)
      PROVE  Answers(j, i)' <=> Answers(j, i)
  <2>1. Len(n4) \in Nat
    BY LenProperties
  <2>2. \A l \in (i + 1)..(j - 1) : l \in 1..Len(n4)
    BY <2>1
  <2> QED
    BY <1>2, <1>3, <2>2 DEF Answers
<1> QED
  BY <1>1, <1>2, <1>3, <1>4

\* The exchanges that wait are the pending ones.
LEMMA PendingAreTheWaiting ==
  ASSUME N4Inv
  PROVE  N4Timeouts = {i \in 1..Len(n4) : FirstSend(i) /\ Unanswered(i)}
<1>0. Len(n4) \in Nat
  BY LenProperties DEF N4Inv
<1>1. ASSUME NEW i \in N4Timeouts
      PROVE  i \in 1..Len(n4) /\ FirstSend(i) /\ Unanswered(i)
  BY DEF N4Inv, PendingIsWaiting, N4Timeouts
<1>2. ASSUME NEW i \in 1..Len(n4), FirstSend(i), Unanswered(i)
      PROVE  i \in N4Timeouts
  <2> DEFINE k == RequestKey(n4[i])
             h == pending[k]
  <2>1. IsRequest(n4[i])
    BY <1>2 DEF FirstSend
  <2>2. k \in DOMAIN pending
    BY <1>2, <2>1 DEF N4Inv, WaitingIsPending
  <2>3. h \in 1..Len(n4) /\ RequestKey(n4[h]) = k /\ FirstSend(h) /\ Unanswered(h)
    BY <2>2 DEF N4Inv, PendingIsWaiting
  <2>4. IsRequest(n4[h])
    BY <2>3 DEF FirstSend
  <2>5. ASSUME h < i PROVE FALSE
    <3>1. PICK l \in (h + 1)..(i - 1) : Mirrors(h, l)
      BY <1>0, <1>2, <2>3, <2>4, <2>5 DEF FirstSend
    <3>2. l \in (h + 1)..Len(n4)
      BY <1>0, <2>3
    <3> QED
      BY <3>1, <3>2, <2>3 DEF Unanswered
  <2>6. ASSUME i < h PROVE FALSE
    <3>1. PICK l \in (i + 1)..(h - 1) : Mirrors(i, l)
      BY <1>0, <2>1, <2>3, <2>6 DEF FirstSend
    <3>2. l \in (i + 1)..Len(n4)
      BY <1>0, <2>3
    <3> QED
      BY <3>1, <3>2, <1>2 DEF Unanswered
  <2>7. h = i
    BY <1>0, <2>3, <2>5, <2>6
  <2> QED
    BY <2>2, <2>7 DEF N4Timeouts
<1> QED
  BY <1>1, <1>2

LEMMA N4InvImpliesPairing == N4Inv => PairingIsExact
BY PendingAreTheWaiting DEF N4Inv, PairsAreAnswers, PairingIsExact, Unanswered

LEMMA PfcpStartsPaired == PfcpInit => N4Inv
<1> SUFFICES ASSUME PfcpInit PROVE N4Inv
  OBVIOUS
<1>1. n4 \in Seq(N4Messages) /\ Len(n4) = 0
  BY EmptySeq DEF PfcpInit
<1>2. 1..Len(n4) = {}
  BY <1>1
<1>3. DOMAIN pending = {}
  BY DEF PfcpInit
<1>4. n4Procs = {}
  BY DEF PfcpInit
<1> QED
  BY <1>1, <1>2, <1>3, <1>4 DEF N4Inv, PendingIsWaiting, WaitingIsPending, PairsAreAnswers

\* A message that answers nothing closes no exchange; one that mirrors an earlier
\* request does.
LEMMA UnansweredAfter ==
  ASSUME NEW m \in N4Messages, n4 \in Seq(N4Messages), n4' = Append(n4, m),
         NEW N, N = Len(n4), NEW i \in 1..N
  PROVE  /\ Unanswered(i)' <=> Unanswered(i) /\ ~Mirrors(i, N + 1)'
         /\ Mirrors(i, N + 1)' <=>
              IsRequest(n4[i]) /\ IsResponse(m) /\ ResponseKey(m) = RequestKey(n4[i])
<1>1. N \in Nat /\ Len(n4') = N + 1
  BY LenProperties, ReadingKeepsThePast
<1>2. (i + 1)..(N + 1) = ((i + 1)..N) \cup {N + 1}
  BY <1>1
<1>3. \A j \in (i + 1)..N : j \in 1..N
  BY <1>1
<1>4. \A j \in (i + 1)..N : Mirrors(i, j)' <=> Mirrors(i, j)
  BY <1>3, ReadingKeepsThePast
<1>5. Unanswered(i)' <=> \A j \in (i + 1)..(N + 1) : Mirrors(i, j)' = FALSE
  BY <1>1 DEF Unanswered
<1>6. Mirrors(i, N + 1)' <=>
        IsRequest(n4[i]) /\ IsResponse(m) /\ ResponseKey(m) = RequestKey(n4[i])
  BY ReadingKeepsThePast DEF Mirrors
<1> QED
  BY <1>2, <1>4, <1>5, <1>6 DEF Unanswered

\* A pair of the longer capture is an old one, or ends in the new message.
LEMMA AnswersAfter ==
  ASSUME NEW m \in N4Messages, n4 \in Seq(N4Messages), n4' = Append(n4, m),
         NEW N, N = Len(n4), NEW i \in 1..(N + 1), NEW j \in 1..(N + 1)
  PROVE  Answers(j, i)' <=>
           \/ i \in 1..N /\ j \in 1..N /\ Answers(j, i)
           \/ /\ j = N + 1 /\ i \in 1..N
              /\ FirstSend(i) /\ Unanswered(i) /\ Mirrors(i, N + 1)'
<1>1. N \in Nat /\ Len(n4') = N + 1
  BY LenProperties, ReadingKeepsThePast
<1>2. CASE i \in 1..N /\ j \in 1..N
  BY <1>1, <1>2, ReadingKeepsThePast
<1>3. CASE i = N + 1
  BY <1>1, <1>3 DEF Answers
<1>4. CASE i \in 1..N /\ j = N + 1
  <2>1. FirstSend(i)' <=> FirstSend(i)
    BY <1>4, ReadingKeepsThePast
  <2>2. \A l \in (i + 1)..N : Mirrors(i, l)' <=> Mirrors(i, l)
    <3>1. \A l \in (i + 1)..N : l \in 1..N
      BY <1>1, <1>4
    <3> QED
      BY <3>1, <1>4, ReadingKeepsThePast
  <2>3. i < N + 1 /\ (i + 1)..(N + 1 - 1) = (i + 1)..N
    BY <1>1, <1>4
  <2>4. Answers(N + 1, i)' <=>
          FirstSend(i)' /\ Mirrors(i, N + 1)' /\ \A l \in (i + 1)..N : ~(Mirrors(i, l)')
    BY <2>3 DEF Answers
  <2> QED
    BY <1>1, <1>4, <2>1, <2>2, <2>4 DEF Unanswered
<1> QED
  BY <1>1, <1>2, <1>3, <1>4

\* The pairs of the longer capture, given the ones that end in the new message.
LEMMA PairsAfter ==
  ASSUME NEW m \in N4Messages, n4 \in Seq(N4Messages), n4' = Append(n4, m),
         NEW N, N = Len(n4), PairsAreAnswers,
         NEW fresh,
         \A i \in 1..N : i \in fresh <=> FirstSend(i) /\ Unanswered(i) /\ Mirrors(i, N + 1)',
         fresh \subseteq 1..N
  PROVE  {x \in (1..Len(n4)) \X (1..Len(n4)) : Answers(x[2], x[1])}'
           = {<<p.req, p.rsp>> : p \in n4Procs} \cup (fresh \X {N + 1})
<1>1. N \in Nat /\ Len(n4') = N + 1
  BY LenProperties, ReadingKeepsThePast
<1> DEFINE A == {x \in (1..N) \X (1..N) : Answers(x[2], x[1])}
           B == {x \in (1..(N + 1)) \X (1..(N + 1)) : Answers(x[2], x[1])'}
<1>2. A = {<<p.req, p.rsp>> : p \in n4Procs}
  BY DEF PairsAreAnswers
<1>3. {x \in (1..Len(n4)) \X (1..Len(n4)) : Answers(x[2], x[1])}' = B
  BY <1>1
<1>4. ASSUME NEW x \in B PROVE x \in A \cup (fresh \X {N + 1})
  <2>1. PICK i \in 1..(N + 1), j \in 1..(N + 1) : x = <<i, j>> /\ Answers(j, i)'
    BY <1>4
  <2> QED
    BY <2>1, AnswersAfter
<1>5. ASSUME NEW x \in A PROVE x \in B
  <2>1. PICK i \in 1..N, j \in 1..N : x = <<i, j>> /\ Answers(j, i)
    BY <1>5
  <2>2. i \in 1..(N + 1) /\ j \in 1..(N + 1)
    BY <1>1
  <2>3. Answers(j, i)'
    BY <2>1, <2>2, AnswersAfter
  <2> QED
    BY <2>1, <2>2, <2>3
<1>6. ASSUME NEW i \in fresh PROVE <<i, N + 1>> \in B
  <2>1. i \in 1..N /\ i \in 1..(N + 1) /\ N + 1 \in 1..(N + 1)
    BY <1>1
  <2>2. Answers(N + 1, i)'
    BY <2>1, AnswersAfter
  <2> QED
    BY <2>1, <2>2
<1> QED
  BY <1>2, <1>3, <1>4, <1>5, <1>6

-----------------------------------------------------------------------------
(* Each way of reading an N4 message keeps the invariant.                  *)

LEMMA ReadRequestKeeps ==
  ASSUME NEW m \in N4Messages, N4Inv, ReadRequest(m)
  PROVE  N4Inv'
<1> DEFINE N == Len(n4)
           k == RequestKey(m)
<1>1. PICK M : M = N
  OBVIOUS
<1>2. n4 \in Seq(N4Messages) /\ n4' = Append(n4, m) /\ IsRequest(m) /\ n4Procs' = n4Procs
  BY DEF N4Inv, ReadRequest
<1>3. ~IsResponse(m)
  BY <1>2, RequestOrResponse
<1>4. /\ n4' \in Seq(N4Messages)
      /\ M \in Nat /\ Len(n4') = M + 1 /\ n4'[M + 1] = m
      /\ \A i \in 1..M : n4'[i] = n4[i] /\ (FirstSend(i)' <=> FirstSend(i))
  BY <1>1, <1>2, LenProperties, ReadingKeepsThePast
<1>5. \A i \in 1..M : (Unanswered(i)' <=> Unanswered(i)) /\ ~Mirrors(i, M + 1)'
  BY <1>1, <1>2, <1>3, UnansweredAfter
<1>6. Unanswered(M + 1)'
  BY <1>4 DEF Unanswered
<1>7. PairsAreAnswers'
  <2>1. {x \in (1..Len(n4)) \X (1..Len(n4)) : Answers(x[2], x[1])}'
          = {<<p.req, p.rsp>> : p \in n4Procs} \cup ({} \X {M + 1})
    BY <1>1, <1>2, <1>5, PairsAfter DEF N4Inv
  <2> QED
    BY <2>1, <1>2 DEF PairsAreAnswers
<1>8. CASE k \in DOMAIN pending
  <2>1. pending' = pending
    BY <1>8 DEF ReadRequest
  <2>2. PendingIsWaiting'
    BY <1>1, <1>4, <1>5, <2>1 DEF N4Inv, PendingIsWaiting
  <2>3. WaitingIsPending'
    <3> SUFFICES ASSUME NEW i \in 1..(M + 1), IsRequest(n4'[i]), Unanswered(i)'
                 PROVE  RequestKey(n4'[i]) \in DOMAIN pending
      BY <1>4, <2>1 DEF WaitingIsPending
    <3>1. CASE i = M + 1
      BY <1>4, <1>8, <3>1
    <3>2. CASE i \in 1..M
      BY <1>1, <1>4, <1>5, <3>2 DEF N4Inv, WaitingIsPending
    <3> QED
      BY <1>4, <3>1, <3>2
  <2> QED
    BY <1>4, <1>7, <2>2, <2>3 DEF N4Inv
<1>9. CASE k \notin DOMAIN pending
  <2>1. /\ DOMAIN pending' = DOMAIN pending \cup {k}
        /\ pending'[k] = M + 1
        /\ \A q \in DOMAIN pending : pending'[q] = pending[q]
    BY <1>1, <1>9 DEF ReadRequest
  <2>2. FirstSend(M + 1)'
    <3> SUFFICES ASSUME NEW i \in 1..M, IsRequest(n4[i]), RequestKey(n4[i]) = k
                 PROVE  \E l \in (i + 1)..M : Mirrors(i, l)'
      BY <1>2, <1>4 DEF FirstSend
    <3>1. ~Unanswered(i)
      BY <1>1, <1>9 DEF N4Inv, WaitingIsPending
    <3>2. PICK l \in (i + 1)..M : Mirrors(i, l)
      BY <1>1, <3>1 DEF Unanswered
    <3>3. l \in 1..M
      BY <1>4
    <3> QED
      BY <1>1, <1>2, <3>2, <3>3, ReadingKeepsThePast
  <2>3. PendingIsWaiting'
    <3> SUFFICES ASSUME NEW q \in DOMAIN pending', NEW h, h = pending'[q]
                 PROVE  /\ h \in 1..(M + 1)
                        /\ RequestKey(n4'[h]) = q
                        /\ FirstSend(h)'
                        /\ Unanswered(h)'
      BY <1>4 DEF PendingIsWaiting
    <3>1. CASE q = k
      BY <1>4, <1>6, <2>1, <2>2, <3>1
    <3>2. CASE q \in DOMAIN pending
      <4>1. h = pending[q]
        BY <2>1, <3>2
      <4>2. h \in 1..M /\ RequestKey(n4[h]) = q /\ FirstSend(h) /\ Unanswered(h)
        BY <1>1, <3>2, <4>1 DEF N4Inv, PendingIsWaiting
      <4> QED
        BY <1>4, <1>5, <4>2
    <3> QED
      BY <2>1, <3>1, <3>2
  <2>4. WaitingIsPending'
    <3> SUFFICES ASSUME NEW i \in 1..(M + 1), IsRequest(n4'[i]), Unanswered(i)'
                 PROVE  RequestKey(n4'[i]) \in DOMAIN pending'
      BY <1>4 DEF WaitingIsPending
    <3>1. CASE i = M + 1
      BY <1>4, <2>1, <3>1
    <3>2. CASE i \in 1..M
      BY <1>1, <1>4, <1>5, <2>1, <3>2 DEF N4Inv, WaitingIsPending
    <3> QED
      BY <1>4, <3>1, <3>2
  <2> QED
    BY <1>4, <1>7, <2>3, <2>4 DEF N4Inv
<1> QED
  BY <1>8, <1>9

LEMMA ReadResponseKeeps ==
  ASSUME NEW m \in N4Messages, N4Inv, ReadResponse(m)
  PROVE  N4Inv'
<1> DEFINE k == ResponseKey(m)
<1>1. PICK M : M = Len(n4)
  OBVIOUS
<1>2. /\ n4 \in Seq(N4Messages) /\ n4' = Append(n4, m)
      /\ IsResponse(m) /\ k \in DOMAIN pending
  BY DEF N4Inv, ReadResponse
<1>3. ~IsRequest(m)
  BY <1>2, RequestOrResponse
<1>4. /\ n4' \in Seq(N4Messages)
      /\ M \in Nat /\ Len(n4') = M + 1 /\ n4'[M + 1] = m
      /\ \A i \in 1..M : n4'[i] = n4[i] /\ (FirstSend(i)' <=> FirstSend(i))
  BY <1>1, <1>2, LenProperties, ReadingKeepsThePast
<1>5. \A i \in 1..M :
        /\ Unanswered(i)' <=> Unanswered(i) /\ ~Mirrors(i, M + 1)'
        /\ Mirrors(i, M + 1)' <=> IsRequest(n4[i]) /\ RequestKey(n4[i]) = k
  BY <1>1, <1>2, UnansweredAfter
<1>6. /\ DOMAIN pending' = DOMAIN pending \ {k}
      /\ \A q \in DOMAIN pending \ {k} : pending'[q] = pending[q]
  BY DEF ReadResponse, Restrict
<1>7. PICK first : first = pending[k]
  OBVIOUS
<1>8. /\ first \in 1..M /\ RequestKey(n4[first]) = k
      /\ FirstSend(first) /\ Unanswered(first)
  BY <1>1, <1>2, <1>7 DEF N4Inv, PendingIsWaiting
<1>9. PairsAreAnswers'
  <2>1. ASSUME NEW i \in 1..M, FirstSend(i), Unanswered(i), Mirrors(i, M + 1)'
        PROVE  i = first
    <3>1. i \in N4Timeouts
      BY <1>1, <2>1, PendingAreTheWaiting
    <3>2. PICK q \in DOMAIN pending : i = pending[q]
      BY <3>1 DEF N4Timeouts
    <3>3. RequestKey(n4[i]) = q
      BY <3>2 DEF N4Inv, PendingIsWaiting
    <3> QED
      BY <1>5, <1>7, <2>1, <3>2, <3>3
  <2>2. Mirrors(first, M + 1)'
    BY <1>5, <1>8 DEF FirstSend
  <2>3. PICK fresh : fresh = {first}
    OBVIOUS
  <2>4. {x \in (1..Len(n4)) \X (1..Len(n4)) : Answers(x[2], x[1])}'
          = {<<p.req, p.rsp>> : p \in n4Procs} \cup (fresh \X {M + 1})
    <3>1. fresh \subseteq 1..M
      BY <1>8, <2>3
    <3>2. \A i \in 1..M :
            i \in fresh <=> FirstSend(i) /\ Unanswered(i) /\ Mirrors(i, M + 1)'
      BY <1>8, <2>1, <2>2, <2>3
    <3>3. PairsAreAnswers
      BY DEF N4Inv
    <3> QED
      BY <1>1, <1>2, <3>1, <3>2, <3>3, PairsAfter
  <2>5. PICK p : /\ p.req = first /\ p.rsp = M + 1
                 /\ n4Procs' = n4Procs \cup {p}
    BY <1>1, <1>7 DEF ReadResponse
  <2>6. {<<p1.req, p1.rsp>> : p1 \in n4Procs'}
          = {<<p1.req, p1.rsp>> : p1 \in n4Procs} \cup {<<first, M + 1>>}
    BY <2>5
  <2> QED
    BY <2>3, <2>4, <2>6 DEF PairsAreAnswers
<1>10. PendingIsWaiting'
  <2> SUFFICES ASSUME NEW q \in DOMAIN pending', NEW h, h = pending'[q]
               PROVE  /\ h \in 1..(M + 1)
                      /\ RequestKey(n4'[h]) = q
                      /\ FirstSend(h)'
                      /\ Unanswered(h)'
    BY <1>4 DEF PendingIsWaiting
  <2>1. q \in DOMAIN pending /\ q # k /\ h = pending[q]
    BY <1>6
  <2>2. h \in 1..M /\ RequestKey(n4[h]) = q /\ FirstSend(h) /\ Unanswered(h)
    BY <1>1, <2>1 DEF N4Inv, PendingIsWaiting
  <2> QED
    BY <1>4, <1>5, <2>1, <2>2
<1>11. WaitingIsPending'
  <2> SUFFICES ASSUME NEW i \in 1..(M + 1), IsRequest(n4'[i]), Unanswered(i)'
               PROVE  RequestKey(n4'[i]) \in DOMAIN pending'
    BY <1>4 DEF WaitingIsPending
  <2>1. i \in 1..M
    BY <1>3, <1>4
  <2>2. IsRequest(n4[i]) /\ Unanswered(i) /\ RequestKey(n4[i]) # k
    BY <1>4, <1>5, <2>1
  <2> QED
    BY <1>1, <1>4, <1>6, <2>1, <2>2 DEF N4Inv, WaitingIsPending
<1> QED
  BY <1>4, <1>9, <1>10, <1>11 DEF N4Inv

LEMMA ReadOtherKeeps ==
  ASSUME NEW m \in N4Messages, N4Inv, ReadOther(m)
  PROVE  N4Inv'
<1>1. PICK M : M = Len(n4)
  OBVIOUS
<1>2. /\ n4 \in Seq(N4Messages) /\ n4' = Append(n4, m) /\ ~IsRequest(m)
      /\ pending' = pending /\ n4Procs' = n4Procs
  BY DEF N4Inv, ReadOther
<1>3. /\ n4' \in Seq(N4Messages)
      /\ M \in Nat /\ Len(n4') = M + 1 /\ n4'[M + 1] = m
      /\ \A i \in 1..M : n4'[i] = n4[i] /\ (FirstSend(i)' <=> FirstSend(i))
  BY <1>1, <1>2, LenProperties, ReadingKeepsThePast
<1>4. ASSUME NEW i \in 1..M, IsRequest(n4[i]), RequestKey(n4[i]) \in DOMAIN pending
      PROVE  ~Mirrors(i, M + 1)'
  BY <1>1, <1>2, <1>4, UnansweredAfter DEF ReadOther
<1>5. ASSUME NEW i \in 1..M, IsRequest(n4[i]), Unanswered(i)
      PROVE  ~Mirrors(i, M + 1)'
  BY <1>1, <1>4, <1>5 DEF N4Inv, WaitingIsPending
<1>6. \A i \in 1..M : Unanswered(i)' <=> Unanswered(i) /\ ~Mirrors(i, M + 1)'
  BY <1>1, <1>2, UnansweredAfter
<1>7. PairsAreAnswers'
  <2>1. \A i \in 1..M :
          i \in {} <=> FirstSend(i) /\ Unanswered(i) /\ Mirrors(i, M + 1)'
    BY <1>5 DEF FirstSend
  <2>2. {x \in (1..Len(n4)) \X (1..Len(n4)) : Answers(x[2], x[1])}'
          = {<<p.req, p.rsp>> : p \in n4Procs} \cup ({} \X {M + 1})
    BY <1>1, <1>2, <2>1, PairsAfter DEF N4Inv
  <2> QED
    BY <1>2, <2>2 DEF PairsAreAnswers
<1>8. PendingIsWaiting'
  <2> SUFFICES ASSUME NEW q \in DOMAIN pending, NEW h, h = pending[q]
               PROVE  /\ h \in 1..(M + 1)
                      /\ RequestKey(n4'[h]) = q
                      /\ FirstSend(h)'
                      /\ Unanswered(h)'
    BY <1>2, <1>3 DEF PendingIsWaiting
  <2>1. h \in 1..M /\ RequestKey(n4[h]) = q /\ FirstSend(h) /\ Unanswered(h)
    BY <1>1 DEF N4Inv, PendingIsWaiting
  <2>2. IsRequest(n4[h])
    BY <2>1 DEF FirstSend
  <2> QED
    BY <1>3, <1>4, <1>6, <2>1, <2>2
<1>9. WaitingIsPending'
  <2> SUFFICES ASSUME NEW i \in 1..(M + 1), IsRequest(n4'[i]), Unanswered(i)'
               PROVE  RequestKey(n4'[i]) \in DOMAIN pending
    BY <1>2, <1>3 DEF WaitingIsPending
  <2>1. i \in 1..M
    BY <1>2, <1>3
  <2> QED
    BY <1>1, <1>3, <1>6, <2>1 DEF N4Inv, WaitingIsPending
<1> QED
  BY <1>3, <1>7, <1>8, <1>9 DEF N4Inv

-----------------------------------------------------------------------------
(* What is kept between the planes: a lab of Labs, and the N4 invariant.   *)

PairingInv == lab \in Labs /\ N4Inv

LEMMA CaptureStartsPaired == CaptureInit => PairingInv
BY PfcpStartsPaired DEF CaptureInit, PairingInv

LEMMA CaptureKeepsPairing == PairingInv /\ [CaptureNext]_captureVars => PairingInv'
<1> SUFFICES ASSUME PairingInv, [CaptureNext]_captureVars PROVE PairingInv'
  OBVIOUS
<1>1. ASSUME UNCHANGED <<lab, pfcpVars>> PROVE PairingInv'
  <2>1. lab' = lab /\ n4' = n4 /\ pending' = pending /\ n4Procs' = n4Procs
    BY <1>1 DEF pfcpVars
  <2> QED
    BY <2>1 DEF PairingInv, N4Inv, PendingIsWaiting, WaitingIsPending, PairsAreAnswers,
                FirstSend, Unanswered, Answers, Mirrors
<1>2. CASE ReadPlaneN2
  BY <1>1, <1>2 DEF ReadPlaneN2
<1>3. CASE ReadPlaneSbi
  BY <1>1, <1>3 DEF ReadPlaneSbi
<1>4. CASE ReadPlaneN4
  <2>1. PICK m \in lab.n4 : ReadN4(m)
    BY <1>4 DEF ReadPlaneN4
  <2>2. m \in N4Messages
    BY CaptureAssumption DEF PairingInv, CaptureAssumption
  <2>3. N4Inv'
    BY <2>1, <2>2, ReadRequestKeeps, ReadResponseKeeps, ReadOtherKeeps DEF ReadN4, PairingInv
  <2> QED
    BY <1>4, <2>3 DEF ReadPlaneN4, PairingInv
<1>5. CASE NextPlane
  BY <1>1, <1>5 DEF NextPlane
<1>6. CASE UNCHANGED captureVars
  BY <1>1, <1>6 DEF captureVars
<1> QED
  BY <1>2, <1>3, <1>4, <1>5, <1>6 DEF CaptureNext

(* Whatever the messages, their number and their order: pair_procedures makes one         *)
(* procedure of each exchange, from its first send and its first answer, and one timeout  *)
(* of each that no message answers.                                                       *)
THEOREM PairingAlwaysExact == CaptureSpec => []PairingIsExact
<1>1. CaptureInit => PairingInv
  BY CaptureStartsPaired
<1>2. PairingInv /\ [CaptureNext]_captureVars => PairingInv'
  BY CaptureKeepsPairing
<1>3. PairingInv => PairingIsExact
  BY N4InvImpliesPairing DEF PairingInv
<1> QED
  BY <1>1, <1>2, <1>3, PTL DEF CaptureSpec

-----------------------------------------------------------------------------
(* SBI.  Searching the messages decoded for the last one of a kind.        *)

LEMMA LastExists ==
  ASSUME NEW n \in Nat, NEW I \in SUBSET (1..n), I # {}
  PROVE  Max(I) \in I /\ \A i \in I : i <= Max(I)
<1>1. PICK J : J = {k \in Nat : \E i \in I : k = n - i}
  OBVIOUS
<1>2. J \subseteq Nat /\ J # {}
  <2>1. PICK i \in I : TRUE
    OBVIOUS
  <2>2. n - i \in Nat
    BY <2>1
  <2> QED
    BY <1>1, <2>1, <2>2
<1>3. PICK R : R = OpToRel(<, Nat)
  OBVIOUS
<1>4. \A i, j \in Nat : j < i => <<j, i>> \in R
  BY <1>3 DEF OpToRel
<1>5. \E k \in J : \A j \in J : <<j, k>> \notin R
  BY <1>2, <1>3, NatLessThanWellFounded, WFMin, Zenon
<1>6. PICK k \in J : \A j \in J : <<j, k>> \notin R
  BY <1>5
<1>7. ASSUME NEW j \in J PROVE k <= j
  <2>1. k \in Nat /\ j \in Nat
    BY <1>2, <1>6, <1>7
  <2>2. ~(j < k)
    BY <1>4, <1>6, <2>1, Zenon
  <2> QED
    BY <2>1, <2>2
<1>8. PICK l \in I : k = n - l
  BY <1>1, <1>6
<1>9. ASSUME NEW i \in I PROVE l >= i
  <2>1. n - i \in Nat /\ n - i \in J
    BY <1>1
  <2>2. n - l <= n - i
    BY <1>7, <1>8, <2>1
  <2> QED
    BY <1>8, <2>2
<1>10. PICK M : M = Max(I)
  OBVIOUS
<1>11. M \in I /\ \A i \in I : M >= i
  BY <1>8, <1>9, <1>10, Zenon DEF Max
<1> QED
  BY <1>10, <1>11

\* What telling messages apart by their streams depends on.
SameView(m, o) ==
  /\ m.side = o.side /\ m.conn = o.conn /\ m.stream = o.stream
  /\ m.named = o.named /\ m.refused = o.refused

IsMessage(m) ==
  m = [conn |-> m.conn, side |-> m.side, stream |-> m.stream, named |-> m.named,
       refused |-> m.refused, create |-> m.create, smf |-> m.smf, path |-> m.path,
       supi |-> m.supi, session |-> m.session, status |-> m.status]

\* A message is named or refused, or neither on a stream of the server's; a note, of
\* stream 0, is refused.
MessageOK(m) ==
  /\ IsMessage(m)
  /\ m.side \in {"request", "response"}
  /\ m.stream \in Nat
  /\ m.named \in BOOLEAN /\ m.refused \in BOOLEAN
  /\ ~(m.named /\ m.refused)
  /\ ~m.named /\ ~m.refused => m.side = "response" /\ m.stream % 2 = 0
  /\ m.side = "request" /\ m.stream # 0 => m.stream % 2 = 1
  /\ m.stream = 0 => m.refused

SameStream(m, o) == m.conn = o.conn /\ m.stream = o.stream

\* Each stream has one request and one response, and no named response without a
\* readable request.
MessagesOK(ms) ==
  /\ \E S : ms \in Seq(S)
  /\ \A i \in 1..Len(ms) : MessageOK(ms[i])
  /\ \A i, j \in 1..Len(ms) :
       SameStream(ms[i], ms[j]) /\ ms[i].side = ms[j].side /\ ms[i].stream # 0 => i = j
  /\ \A j \in 1..Len(ms) :
       ms[j].side = "response" /\ ms[j].named =>
         \E i \in 1..Len(ms) :
           SameStream(ms[i], ms[j]) /\ ms[i].side = "request" /\ ~ms[i].refused

\* The requests of a connection were all read.
Replayed(c, dir) ==
  \E d \in 1..Len(Conns) :
    Conns[d] = c /\ (d < dir[1] \/ (d = dir[1] /\ dir[2] = "response"))

DirectionOK(dir) ==
  dir = <<dir[1], dir[2]>> /\ dir[1] \in Nat \ {0} /\ dir[2] \in {"request", "response"}

SbiInv ==
  /\ MessagesOK(sbi)
  /\ DirectionOK(direction)
  /\ \A j \in 1..Len(sbi) : sbi[j].side = "response" => Replayed(sbi[j].conn, direction)

LEMMA RequestFound ==
  ASSUME Len(sbi) \in Nat, NEW c, NEW s, NEW r, r = RequestOf(c, s)
  PROVE  /\ r = 0 => ~\E i \in 1..Len(sbi) :
                       sbi[i].side = "request" /\ sbi[i].conn = c /\ sbi[i].stream = s
         /\ r # 0 => /\ r \in 1..Len(sbi)
                     /\ sbi[r].side = "request" /\ sbi[r].conn = c /\ sbi[r].stream = s
<1>1. PICK I : I = {i \in 1..Len(sbi) :
                      sbi[i].side = "request" /\ sbi[i].conn = c /\ sbi[i].stream = s}
  OBVIOUS
<1>2. r = IF I # {} THEN Max(I) ELSE 0
  BY <1>1 DEF RequestOf, SelectLastInSeq
<1>3. I # {} => r \in I
  BY <1>1, <1>2, LastExists
<1>4. 0 \notin I
  BY <1>1
<1> QED
  BY <1>1, <1>2, <1>3, <1>4

LEMMA ResponseFound ==
  ASSUME Len(sbi) \in Nat, NEW c, NEW s, NEW r, r = ResponseOf(c, s)
  PROVE  /\ r = 0 => ~\E i \in 1..Len(sbi) :
                       sbi[i].side = "response" /\ sbi[i].conn = c /\ sbi[i].stream = s
         /\ r # 0 => /\ r \in 1..Len(sbi)
                     /\ sbi[r].side = "response" /\ sbi[r].conn = c /\ sbi[r].stream = s
<1>1. PICK I : I = {i \in 1..Len(sbi) :
                      sbi[i].side = "response" /\ sbi[i].conn = c /\ sbi[i].stream = s}
  OBVIOUS
<1>2. r = IF I # {} THEN Max(I) ELSE 0
  BY <1>1 DEF ResponseOf, SelectLastInSeq
<1>3. I # {} => r \in I
  BY <1>1, <1>2, LastExists
<1>4. 0 \notin I
  BY <1>1
<1> QED
  BY <1>1, <1>2, <1>3, <1>4

LEMMA ReadableFound ==
  ASSUME Len(sbi) \in Nat, NEW side, NEW c, NEW s, NEW r, r = Readable(side, c, s)
  PROVE  /\ r = 0 => ~\E i \in 1..Len(sbi) :
              ~sbi[i].refused /\ sbi[i].side = side /\ sbi[i].conn = c /\ sbi[i].stream = s
         /\ r # 0 =>
              /\ r \in 1..Len(sbi)
              /\ ~sbi[r].refused /\ sbi[r].side = side /\ sbi[r].conn = c /\ sbi[r].stream = s
<1>1. PICK I : I = {i \in 1..Len(sbi) :
              ~sbi[i].refused /\ sbi[i].side = side /\ sbi[i].conn = c /\ sbi[i].stream = s}
  OBVIOUS
<1>2. r = IF I # {} THEN Max(I) ELSE 0
  BY <1>1 DEF Readable, SelectLastInSeq
<1>3. I # {} => r \in I
  BY <1>1, <1>2, LastExists
<1>4. 0 \notin I
  BY <1>1
<1> QED
  BY <1>1, <1>2, <1>3, <1>4

-----------------------------------------------------------------------------
(* What a step does to the messages.                                       *)

\* A message that is the first of its stream and side, or a note; if it is a named
\* response, its request is readable.
Fits(m, ms) ==
  /\ m.stream # 0 => ~\E i \in 1..Len(ms) : SameStream(ms[i], m) /\ ms[i].side = m.side
  /\ m.side = "response" /\ m.named =>
       \E i \in 1..Len(ms) :
         SameStream(ms[i], m) /\ ms[i].side = "request" /\ ~ms[i].refused

LEMMA MessageAdded ==
  ASSUME NEW ms, NEW m, NEW longer, MessagesOK(ms), MessageOK(m), Fits(m, ms),
         longer = Append(ms, m)
  PROVE  /\ MessagesOK(longer)
         /\ Len(ms) \in Nat /\ Len(longer) = Len(ms) + 1
         /\ longer[Len(ms) + 1] = m /\ \A i \in 1..Len(ms) : longer[i] = ms[i]
<1>1. PICK S : ms \in Seq(S)
  BY DEF MessagesOK
<1>2. PICK T : T = S \cup {m}
  OBVIOUS
<1>3. ms \in Seq(T) /\ m \in T
  BY <1>1, <1>2, SeqMonotonic
<1>4. /\ longer \in Seq(T) /\ Len(ms) \in Nat /\ Len(longer) = Len(ms) + 1
      /\ longer[Len(ms) + 1] = m /\ \A i \in 1..Len(ms) : longer[i] = ms[i]
  BY <1>3, AppendProperties, LenProperties
<1>5. PICK N : N = Len(ms)
  OBVIOUS
<1>6. \A i \in 1..Len(longer) : (i \in 1..N /\ longer[i] = ms[i]) \/ (i = N + 1 /\ longer[i] = m)
  BY <1>4, <1>5
<1>7. 1..N \subseteq 1..Len(longer)
  BY <1>4, <1>5
<1>8. \A i \in 1..Len(longer) : MessageOK(longer[i])
  BY <1>5, <1>6 DEF MessagesOK
<1>9. ASSUME NEW i \in 1..Len(longer), NEW j \in 1..Len(longer),
             SameStream(longer[i], longer[j]), longer[i].side = longer[j].side,
             longer[i].stream # 0
      PROVE  i = j
  <2>1. CASE i = N + 1 /\ j = N + 1
    BY <2>1
  <2>2. CASE i \in 1..N /\ j \in 1..N
    BY <1>4, <1>5, <1>9, <2>2 DEF MessagesOK
  <2>3. CASE i \in 1..N /\ longer[i] = ms[i] /\ j = N + 1 /\ longer[j] = m
    BY <1>5, <1>9, <2>3 DEF SameStream, Fits
  <2>4. CASE j \in 1..N /\ longer[j] = ms[j] /\ i = N + 1 /\ longer[i] = m
    BY <1>5, <1>9, <2>4 DEF SameStream, Fits
  <2> QED
    BY <1>6, <2>1, <2>2, <2>3, <2>4
<1>10. ASSUME NEW j \in 1..Len(longer), longer[j].side = "response", longer[j].named
       PROVE  \E i \in 1..Len(longer) :
                SameStream(longer[i], longer[j]) /\ longer[i].side = "request" /\ ~longer[i].refused
  <2>1. PICK i \in 1..N :
          SameStream(ms[i], longer[j]) /\ ms[i].side = "request" /\ ~ms[i].refused
    BY <1>5, <1>6, <1>10 DEF MessagesOK, Fits
  <2> QED
    BY <1>4, <1>5, <1>7, <2>1
<1> QED
  BY <1>4, <1>8, <1>9, <1>10 DEF MessagesOK

\* What keeps the view of every message keeps what is known of them.
LEMMA ViewsKeep ==
  ASSUME NEW ms, MessagesOK(ms), NEW S, NEW os \in Seq(S), Len(os) = Len(ms),
         \A i \in 1..Len(ms) : IsMessage(os[i]) /\ SameView(os[i], ms[i])
  PROVE  MessagesOK(os)
<1>1. \A i \in 1..Len(os) : MessageOK(os[i])
  BY DEF MessagesOK, MessageOK, SameView
<1>2. ASSUME NEW i \in 1..Len(os), NEW j \in 1..Len(os)
      PROVE  /\ SameStream(os[i], os[j]) <=> SameStream(ms[i], ms[j])
             /\ os[i].side = ms[i].side /\ os[i].stream = ms[i].stream
             /\ os[i].refused = ms[i].refused /\ os[i].named = ms[i].named
  BY DEF SameView, SameStream
<1>3. \A i, j \in 1..Len(os) :
        SameStream(os[i], os[j]) /\ os[i].side = os[j].side /\ os[i].stream # 0 => i = j
  BY <1>2 DEF MessagesOK
<1>4. ASSUME NEW j \in 1..Len(os), os[j].side = "response", os[j].named
      PROVE  \E i \in 1..Len(os) :
               SameStream(os[i], os[j]) /\ os[i].side = "request" /\ ~os[i].refused
  <2>1. PICK i \in 1..Len(ms) :
          SameStream(ms[i], ms[j]) /\ ms[i].side = "request" /\ ~ms[i].refused
    BY <1>2, <1>4 DEF MessagesOK
  <2> QED
    BY <1>2, <2>1
<1> QED
  BY <1>1, <1>3, <1>4 DEF MessagesOK

LEMMA IdentifiedView ==
  ASSUME NEW m, MessageOK(m), NEW o, o = Identified(m)
  PROVE  IsMessage(o) /\ SameView(o, m)
<1>1. IsMessage(m)
  BY DEF MessageOK
<1>2. CASE o = m
  BY <1>1, <1>2 DEF SameView
<1>3. CASE o # m
  <2>1. PICK supi, session : o = [m EXCEPT !.supi = supi, !.session = session]
    BY <1>3, Zenon DEF Identified
  <2>2. PICK c, sd, st, na, re, cr, smf, pa, su, se, sa :
          m = [conn |-> c, side |-> sd, stream |-> st, named |-> na, refused |-> re,
               create |-> cr, smf |-> smf, path |-> pa, supi |-> su, session |-> se, status |-> sa]
    BY <1>1, Zenon DEF IsMessage
  <2>3. PICK h : h = [m EXCEPT !.supi = supi]
    OBVIOUS
  <2>4. h = [conn |-> c, side |-> sd, stream |-> st, named |-> na, refused |-> re,
             create |-> cr, smf |-> smf, path |-> pa, supi |-> supi, session |-> se, status |-> sa]
    BY <2>2, <2>3
  <2>5. [h EXCEPT !.session = session]
          = [conn |-> c, side |-> sd, stream |-> st, named |-> na, refused |-> re,
             create |-> cr, smf |-> smf, path |-> pa, supi |-> supi, session |-> session,
             status |-> sa]
    BY <2>4
  <2>6. o = [h EXCEPT !.session = session]
    BY <2>1, <2>3, Zenon
  <2>7. o = [conn |-> c, side |-> sd, stream |-> st, named |-> na, refused |-> re,
             create |-> cr, smf |-> smf, path |-> pa, supi |-> supi, session |-> session,
             status |-> sa]
    BY <2>5, <2>6, Zenon
  <2> QED
    BY <2>2, <2>7 DEF IsMessage, SameView
<1> QED
  BY <1>2, <1>3

LEMMA FinishKeeps ==
  ASSUME NEW msgs, MessagesOK(msgs), Finish(msgs)
  PROVE  /\ MessagesOK(sbi') /\ Len(sbi') = Len(msgs)
         /\ \A i \in 1..Len(msgs) : SameView(sbi'[i], msgs[i])
<1>1. CASE sbi' = msgs
  BY <1>1 DEF SameView
<1>2. CASE sbi' = [i \in DOMAIN msgs |->
                     IF msgs[i].conn = Conn THEN Identified(msgs[i]) ELSE msgs[i]]
  <2>1. PICK os, c : os = sbi' /\ c = Conn
    OBVIOUS
  <2>2. os = [i \in DOMAIN msgs |-> IF msgs[i].conn = c THEN Identified(msgs[i]) ELSE msgs[i]]
    BY <1>2, <2>1
  <2>3. PICK S : msgs \in Seq(S)
    BY DEF MessagesOK
  <2>4. DOMAIN msgs = 1..Len(msgs) /\ Len(msgs) \in Nat
    BY <2>3, LenProperties
  <2>5. PICK T : T = {os[i] : i \in DOMAIN msgs}
    OBVIOUS
  <2>6. os \in [1..Len(msgs) -> T] /\ DOMAIN os = DOMAIN msgs
    BY <2>2, <2>4, <2>5
  <2>7. os \in Seq(T)
    BY <2>4, <2>6, SeqDef
  <2>8. Len(os) = Len(msgs)
    BY <2>4, <2>6, <2>7, LenProperties
  <2>9. ASSUME NEW i \in 1..Len(msgs) PROVE IsMessage(os[i]) /\ SameView(os[i], msgs[i])
    <3>1. PICK m, o : m = msgs[i] /\ o = os[i]
      OBVIOUS
    <3>2. MessageOK(m) /\ IsMessage(m)
      BY <3>1 DEF MessagesOK, MessageOK
    <3>3. o = Identified(m) \/ o = m
      BY <2>2, <2>4, <3>1
    <3> QED
      BY <3>1, <3>2, <3>3, IdentifiedView DEF SameView
  <2>10. MessagesOK(os)
    BY <2>7, <2>8, <2>9, ViewsKeep
  <2> QED
    BY <2>1, <2>8, <2>9, <2>10
<1> QED
  BY <1>1, <1>2 DEF Finish

\* A direction is read once: what was replayed stays so.
LEMMA DirectionMoves ==
  ASSUME DirectionOK(direction), direction[1] <= Len(Conns),
         NEW dir, dir = NextDirection \/ dir = <<direction[1] + 1, "request">>
  PROVE  /\ DirectionOK(dir)
         /\ \A c : Replayed(c, direction) => Replayed(c, dir)
         /\ direction[2] = "response" => Replayed(Conn, direction)
<1>1. PICK d, side : direction = <<d, side>> /\ d \in Nat \ {0} /\ side \in {"request", "response"}
  BY DEF DirectionOK
<1>2. (dir = <<d, "response">> /\ side = "request") \/ dir = <<d + 1, "request">>
  BY <1>1 DEF NextDirection
<1>3. DirectionOK(dir)
  BY <1>1, <1>2 DEF DirectionOK
<1>4. \A c : Replayed(c, direction) => Replayed(c, dir)
  BY <1>1, <1>2 DEF Replayed
<1>5. direction[2] = "response" => Replayed(Conn, direction)
  BY <1>1 DEF Replayed, Conn
<1> QED
  BY <1>3, <1>4, <1>5

RequestMessage(s, create, smf, path) ==
  [Message("request", s) EXCEPT !.create = create, !.smf = smf, !.path = path]

ResponseMessage(s, status, named, refused) ==
  [Message("response", s) EXCEPT !.status = status, !.named = named, !.refused = refused]

LEMMA FreshNote ==
  ASSUME NEW side \in {"request", "response"}, NEW m, m = Note(side)
  PROVE  /\ MessageOK(m) /\ m.stream = 0 /\ m.side = side /\ m.conn = Conn
         /\ m.refused = TRUE /\ m.named = FALSE
<1>1. PICK h, c, sd, st, none, ns, zero :
        /\ h = Message(side, 0) /\ c = Conn /\ none = NoSupi /\ ns = NoSession
        /\ sd = side /\ st = 0 /\ zero = 0
  OBVIOUS
<1>2. PICK yes, no : yes = TRUE /\ no = FALSE
  OBVIOUS
<1>3. h = [conn |-> c, side |-> sd, stream |-> st, named |-> yes, refused |-> no, create |-> no,
           smf |-> zero, path |-> none, supi |-> none, session |-> ns, status |-> zero]
  BY <1>1, <1>2, Zenon DEF Message
<1>4. PICK g : g = [h EXCEPT !.named = no]
  OBVIOUS
<1>5. g = [conn |-> c, side |-> sd, stream |-> st, named |-> no, refused |-> no, create |-> no,
           smf |-> zero, path |-> none, supi |-> none, session |-> ns, status |-> zero]
  BY <1>3, <1>4
<1>6. PICK f : f = [g EXCEPT !.refused = yes]
  OBVIOUS
<1>7. f = [conn |-> c, side |-> sd, stream |-> st, named |-> no, refused |-> yes, create |-> no,
           smf |-> zero, path |-> none, supi |-> none, session |-> ns, status |-> zero]
  BY <1>5, <1>6
<1>8. m = f
  BY <1>1, <1>2, <1>4, <1>6, Zenon DEF Note
<1>9. /\ IsMessage(m) /\ m.stream = st /\ m.side = sd /\ m.conn = c
      /\ m.named = no /\ m.refused = yes
  BY <1>7, <1>8 DEF IsMessage
<1>10. m.named = FALSE /\ m.refused = TRUE /\ m.stream = 0 /\ m.side = side /\ m.conn = Conn
  BY <1>1, <1>2, <1>9
<1>11. IsMessage(m)
  BY <1>9
<1>12. m.named \in BOOLEAN /\ m.refused \in BOOLEAN /\ ~m.named /\ m.refused
  BY <1>10
<1>13. m.stream \in Nat /\ m.side \in {"request", "response"}
  BY <1>10
<1> QED
  BY <1>10, <1>11, <1>12, <1>13, Zenon DEF MessageOK

LEMMA FreshRequest ==
  ASSUME NEW s \in Nat \ {0}, s % 2 = 1, NEW create, NEW smf, NEW path,
         NEW m, m = RequestMessage(s, create, smf, path)
  PROVE  MessageOK(m) /\ m.stream = s /\ m.side = "request" /\ m.conn = Conn
<1>1. PICK h, c, sd, st, none, ns, zero :
        /\ h = Message("request", s) /\ c = Conn /\ none = NoSupi /\ ns = NoSession
        /\ sd = "request" /\ st = s /\ zero = 0
  OBVIOUS
<1>2. PICK yes, no : yes = TRUE /\ no = FALSE
  OBVIOUS
<1>3. h = [conn |-> c, side |-> sd, stream |-> st, named |-> yes, refused |-> no, create |-> no,
           smf |-> zero, path |-> none, supi |-> none, session |-> ns, status |-> zero]
  BY <1>1, <1>2, Zenon DEF Message
<1>4. PICK g : g = [h EXCEPT !.create = create]
  OBVIOUS
<1>5. g = [conn |-> c, side |-> sd, stream |-> st, named |-> yes, refused |-> no, create |-> create,
           smf |-> zero, path |-> none, supi |-> none, session |-> ns, status |-> zero]
  BY <1>3, <1>4
<1>6. PICK f : f = [g EXCEPT !.smf = smf]
  OBVIOUS
<1>7. f = [conn |-> c, side |-> sd, stream |-> st, named |-> yes, refused |-> no, create |-> create,
           smf |-> smf, path |-> none, supi |-> none, session |-> ns, status |-> zero]
  BY <1>5, <1>6
<1>8. PICK e : e = [f EXCEPT !.path = path]
  OBVIOUS
<1>9. e = [conn |-> c, side |-> sd, stream |-> st, named |-> yes, refused |-> no, create |-> create,
           smf |-> smf, path |-> path, supi |-> none, session |-> ns, status |-> zero]
  BY <1>7, <1>8
<1>10. m = e
  BY <1>1, <1>4, <1>6, <1>8, Zenon DEF RequestMessage
<1>11. /\ IsMessage(m) /\ m.stream = st /\ m.side = sd /\ m.conn = c
       /\ m.named = yes /\ m.refused = no
  BY <1>9, <1>10 DEF IsMessage
<1> QED
  BY <1>1, <1>2, <1>11 DEF MessageOK

LEMMA FreshResponse ==
  ASSUME NEW s \in Nat \ {0}, NEW status, NEW refused, NEW named, NEW m,
         refused \in BOOLEAN, named \in BOOLEAN, ~(named /\ refused),
         ~named /\ ~refused => s % 2 = 0,
         m = ResponseMessage(s, status, named, refused)
  PROVE  /\ MessageOK(m) /\ m.stream = s /\ m.side = "response" /\ m.conn = Conn
         /\ m.refused = refused /\ m.named = named
<1>1. PICK h, c, sd, st, none, ns, zero :
        /\ h = Message("response", s) /\ c = Conn /\ none = NoSupi /\ ns = NoSession
        /\ sd = "response" /\ st = s /\ zero = 0
  OBVIOUS
<1>2. PICK yes, no : yes = TRUE /\ no = FALSE
  OBVIOUS
<1>3. h = [conn |-> c, side |-> sd, stream |-> st, named |-> yes, refused |-> no, create |-> no,
           smf |-> zero, path |-> none, supi |-> none, session |-> ns, status |-> zero]
  BY <1>1, <1>2, Zenon DEF Message
<1>4. PICK g : g = [h EXCEPT !.status = status]
  OBVIOUS
<1>5. g = [conn |-> c, side |-> sd, stream |-> st, named |-> yes, refused |-> no, create |-> no,
           smf |-> zero, path |-> none, supi |-> none, session |-> ns, status |-> status]
  BY <1>3, <1>4
<1>6. PICK na, re : na = named /\ re = refused
  OBVIOUS
<1>7. PICK f : f = [g EXCEPT !.named = na]
  OBVIOUS
<1>8. f = [conn |-> c, side |-> sd, stream |-> st, named |-> na, refused |-> no, create |-> no,
           smf |-> zero, path |-> none, supi |-> none, session |-> ns, status |-> status]
  BY <1>5, <1>7
<1>9. PICK e : e = [f EXCEPT !.refused = re]
  OBVIOUS
<1>10. e = [conn |-> c, side |-> sd, stream |-> st, named |-> na, refused |-> re, create |-> no,
           smf |-> zero, path |-> none, supi |-> none, session |-> ns, status |-> status]
  BY <1>8, <1>9
<1>11. m = e
  BY <1>1, <1>4, <1>6, <1>7, <1>9, Zenon DEF ResponseMessage
<1>12. /\ IsMessage(m) /\ m.stream = st /\ m.side = sd /\ m.conn = c
       /\ m.named = na /\ m.refused = re
  BY <1>10, <1>11 DEF IsMessage
<1>13. /\ na \in BOOLEAN /\ re \in BOOLEAN /\ ~(na /\ re)
       /\ ~na /\ ~re => st % 2 = 0
  BY <1>1, <1>6
<1> QED
  BY <1>1, <1>6, <1>12, <1>13 DEF MessageOK

-----------------------------------------------------------------------------
(* The steps of SBI, one by one.                                           *)

LEMMA SbiStarts == SbiInit => SbiInv
<1> SUFFICES ASSUME SbiInit PROVE SbiInv
  OBVIOUS
<1>1. sbi \in Seq({}) /\ Len(sbi) = 0
  BY EmptySeq DEF SbiInit
<1>2. 1..Len(sbi) = {}
  BY <1>1
<1>3. DirectionOK(direction)
  BY DEF SbiInit, DirectionOK
<1> QED
  BY <1>1, <1>2, <1>3 DEF SbiInv, MessagesOK

LEMMA FinishKeepsSbi ==
  ASSUME SbiInv, direction[1] <= Len(Conns), NEW msgs, MessagesOK(msgs), Finish(msgs),
         \A j \in 1..Len(msgs) : msgs[j].side = "response" => Replayed(msgs[j].conn, direction)
  PROVE  SbiInv'
<1>1. /\ MessagesOK(sbi') /\ Len(sbi') = Len(msgs)
      /\ \A i \in 1..Len(msgs) : SameView(sbi'[i], msgs[i])
  BY FinishKeeps
<1>2. PICK dir : dir = NextDirection
  OBVIOUS
<1>3. direction' = dir
  BY <1>2 DEF Finish
<1>4. DirectionOK(dir) /\ \A c : Replayed(c, direction) => Replayed(c, dir)
  BY <1>2, DirectionMoves DEF SbiInv
<1>5. ASSUME NEW j \in 1..Len(sbi'), sbi'[j].side = "response"
      PROVE  Replayed(sbi'[j].conn, dir)
  <2>1. SameView(sbi'[j], msgs[j])
    BY <1>1
  <2>2. msgs[j].side = "response" /\ msgs[j].conn = sbi'[j].conn
    BY <1>5, <2>1 DEF SameView
  <2>3. Replayed(msgs[j].conn, direction)
    BY <1>1, <2>2
  <2> QED
    BY <1>4, <2>2, <2>3
<1> QED
  BY <1>1, <1>3, <1>4, <1>5 DEF SbiInv

\* One more message of the direction that is being read.
LEMMA MessageRead ==
  ASSUME SbiInv, NEW m, NEW msgs, MessageOK(m), Fits(m, sbi), msgs = Append(sbi, m),
         m.side = "response" => Replayed(m.conn, direction)
  PROVE  /\ MessagesOK(msgs)
         /\ \A j \in 1..Len(msgs) : msgs[j].side = "response" => Replayed(msgs[j].conn, direction)
<1>1. /\ MessagesOK(msgs)
      /\ Len(sbi) \in Nat /\ Len(msgs) = Len(sbi) + 1
      /\ msgs[Len(sbi) + 1] = m /\ \A i \in 1..Len(sbi) : msgs[i] = sbi[i]
  <2>1. MessagesOK(sbi) /\ MessageOK(m) /\ Fits(m, sbi) /\ msgs = Append(sbi, m)
    BY DEF SbiInv
  <2> QED
    BY <2>1, MessageAdded
<1>2. \A j \in 1..Len(msgs) : j \in 1..Len(sbi) \/ j = Len(sbi) + 1
  BY <1>1
<1> QED
  BY <1>1, <1>2 DEF SbiInv

\* A note of this direction, and then the end of it or not.
LEMMA NoteKeeps ==
  ASSUME SbiInv, NEW side \in {"request", "response"}, Reading(side),
         NEW msgs, msgs = Append(sbi, Note(side))
  PROVE  /\ MessagesOK(msgs)
         /\ \A j \in 1..Len(msgs) : msgs[j].side = "response" => Replayed(msgs[j].conn, direction)
<1>1. PICK m : m = Note(side)
  OBVIOUS
<1>2. /\ MessageOK(m) /\ m.stream = 0 /\ m.side = side /\ m.conn = Conn
      /\ m.refused = TRUE /\ m.named = FALSE
  BY <1>1, FreshNote
<1>0. Fits(m, sbi)
  BY <1>2 DEF Fits
<1>3. m.side = "response" => Replayed(m.conn, direction)
  BY <1>2, DirectionMoves DEF SbiInv, Reading
<1> QED
  BY <1>0, <1>1, <1>2, <1>3, MessageRead

LEMMA MidstreamKeeps ==
  ASSUME SbiInv, Midstream
  PROVE  SbiInv'
<1>1. PICK msgs : msgs = Append(sbi, Note("request"))
  OBVIOUS
<1>2. sbi' = msgs /\ direction' = <<direction[1] + 1, "request">> /\ Reading("request")
  BY <1>1 DEF Midstream
<1>3. /\ MessagesOK(msgs)
      /\ \A j \in 1..Len(msgs) : msgs[j].side = "response" => Replayed(msgs[j].conn, direction)
  BY <1>1, <1>2, NoteKeeps
<1>4. DirectionOK(direction') /\ \A c : Replayed(c, direction) => Replayed(c, direction')
  BY <1>2, DirectionMoves DEF SbiInv, Reading
<1> QED
  BY <1>2, <1>3, <1>4 DEF SbiInv

LEMMA RequestHeadersKeep ==
  ASSUME SbiInv, NEW s \in Streams, NEW r, ReadRequestHeaders(s, r)
  PROVE  SbiInv'
<1>1. PICK m : m = RequestMessage(s, r.create, r.smf, r.path)
  OBVIOUS
<1>2. sbi' = Append(sbi, m) /\ direction' = direction /\ s % 2 = 1 /\ RequestOf(Conn, s) = 0
  BY <1>1, Zenon DEF ReadRequestHeaders, RequestMessage
<1>3. s \in Nat \ {0}
  BY SbiAssumption DEF SbiAssumption
<1>4. MessageOK(m) /\ m.stream = s /\ m.side = "request" /\ m.conn = Conn
  <2>1. PICK create, smf, path : create = r.create /\ smf = r.smf /\ path = r.path
    OBVIOUS
  <2>2. m = RequestMessage(s, create, smf, path)
    BY <1>1, <2>1, Zenon
  <2> QED
    BY <1>2, <1>3, <2>2, FreshRequest
<1>5. Len(sbi) \in Nat
  BY LenProperties DEF SbiInv, MessagesOK
<1>6. Fits(m, sbi)
  <2>1. ~\E i \in 1..Len(sbi) :
          sbi[i].side = "request" /\ sbi[i].conn = Conn /\ sbi[i].stream = s
    BY <1>2, <1>5, RequestFound
  <2> QED
    BY <1>4, <2>1 DEF SameStream, Fits
<1>7. PICK msgs : msgs = Append(sbi, m)
  OBVIOUS
<1>8. m.side = "response" => Replayed(m.conn, direction)
  BY <1>4
<1>9. /\ MessagesOK(msgs)
      /\ \A j \in 1..Len(msgs) : msgs[j].side = "response" => Replayed(msgs[j].conn, direction)
  BY <1>4, <1>6, <1>7, <1>8, MessageRead
<1> QED
  BY <1>2, <1>7, <1>9 DEF SbiInv

LEMMA ResponseHeadersKeep ==
  ASSUME SbiInv, NEW s \in Streams, NEW status, ReadResponseHeaders(s, status)
  PROVE  SbiInv'
<1>1. PICK q : q = RequestOf(Conn, s)
  OBVIOUS
<1>2. PICK refused, named : refused = ~sbi[q].named /\ named = ~refused
  OBVIOUS
<1>3. PICK m : m = ResponseMessage(s, status, named, refused)
  OBVIOUS
<1>4. /\ sbi' = Append(sbi, m) /\ direction' = direction /\ Reading("response")
      /\ q # 0 /\ ResponseOf(Conn, s) = 0
  BY <1>1, <1>2, <1>3, Zenon DEF ReadResponseHeaders, ResponseMessage
<1>5. s \in Nat \ {0}
  BY SbiAssumption DEF SbiAssumption
<1>6. /\ MessageOK(m) /\ m.stream = s /\ m.side = "response" /\ m.conn = Conn
      /\ m.refused = refused /\ m.named = named
  <2>1. refused \in BOOLEAN /\ named \in BOOLEAN
    BY <1>2
  <2>2. ~(named /\ refused) /\ (named \/ refused)
    BY <1>2
  <2>3. PICK re, na : re = refused /\ na = named
    OBVIOUS
  <2>4. /\ m = ResponseMessage(s, status, na, re) /\ re \in BOOLEAN /\ na \in BOOLEAN
        /\ ~(na /\ re) /\ (~na /\ ~re => s % 2 = 0)
    BY <1>3, <2>1, <2>2, <2>3, Zenon
  <2> QED
    BY <1>5, <2>3, <2>4, FreshResponse
<1>7. Len(sbi) \in Nat
  BY LenProperties DEF SbiInv, MessagesOK
<1>8. ~\E i \in 1..Len(sbi) : SameStream(sbi[i], m) /\ sbi[i].side = m.side
  <2>1. ~\E i \in 1..Len(sbi) :
          sbi[i].side = "response" /\ sbi[i].conn = Conn /\ sbi[i].stream = s
    BY <1>4, <1>7, ResponseFound
  <2> QED
    BY <1>6, <2>1 DEF SameStream
<1>9. q \in 1..Len(sbi) /\ sbi[q].side = "request" /\ SameStream(sbi[q], m)
  BY <1>1, <1>4, <1>6, <1>7, RequestFound DEF SameStream
<1>10. m.named => ~sbi[q].refused
  BY <1>2, <1>6, <1>9 DEF SbiInv, MessagesOK, MessageOK
<1>15. Fits(m, sbi)
  BY <1>8, <1>9, <1>10 DEF Fits
<1>11. PICK msgs : msgs = Append(sbi, m)
  OBVIOUS
<1>12. m.side = "response" => Replayed(m.conn, direction)
  BY <1>4, <1>6, DirectionMoves DEF SbiInv, Reading
<1>13. /\ MessagesOK(msgs)
       /\ \A j \in 1..Len(msgs) : msgs[j].side = "response" => Replayed(msgs[j].conn, direction)
  BY <1>6, <1>11, <1>12, <1>15, MessageRead
<1> QED
  BY <1>4, <1>11, <1>13 DEF SbiInv

LEMMA PushedResponseKeeps ==
  ASSUME SbiInv, NEW s \in Streams, NEW status, ReadPushedResponse(s, status)
  PROVE  SbiInv'
<1>1. PICK named, refused : named = FALSE /\ refused = FALSE
  OBVIOUS
<1>2. PICK m : m = ResponseMessage(s, status, named, refused)
  OBVIOUS
<1>3. m = [Message("response", s) EXCEPT !.status = status, !.named = FALSE]
  <2>1. PICK h : h = [Message("response", s) EXCEPT !.status = status, !.named = FALSE]
    OBVIOUS
  <2>2. PICK c, st, none, ns, zero :
          c = Conn /\ st = s /\ none = NoSupi /\ ns = NoSession /\ zero = 0
    OBVIOUS
  <2>3. PICK b : b = Message("response", s)
    OBVIOUS
  <2>4. b = [conn |-> c, side |-> "response", stream |-> st, named |-> TRUE, refused |-> FALSE,
             create |-> FALSE, smf |-> zero, path |-> none, supi |-> none, session |-> ns,
             status |-> zero]
    BY <2>2, <2>3, Zenon DEF Message
  <2>5. PICK yes, no, sd : yes = TRUE /\ no = FALSE /\ sd = "response"
    OBVIOUS
  <2>6. b = [conn |-> c, side |-> sd, stream |-> st, named |-> yes, refused |-> no,
             create |-> no, smf |-> zero, path |-> none, supi |-> none, session |-> ns,
             status |-> zero]
    BY <2>4, <2>5, Zenon
  <2>7. PICK g : g = [b EXCEPT !.status = status]
    OBVIOUS
  <2>19. PICK f : f = [g EXCEPT !.named = no]
    OBVIOUS
  <2>20. PICK e : e = [f EXCEPT !.refused = no]
    OBVIOUS
  <2>8. g = [conn |-> c, side |-> sd, stream |-> st, named |-> yes, refused |-> no,
             create |-> no, smf |-> zero, path |-> none, supi |-> none, session |-> ns,
             status |-> status]
    BY <2>6, <2>7
  <2>9. f = [conn |-> c, side |-> sd, stream |-> st, named |-> no, refused |-> no,
             create |-> no, smf |-> zero, path |-> none, supi |-> none, session |-> ns,
             status |-> status]
    BY <2>8, <2>19
  <2>10. e = [conn |-> c, side |-> sd, stream |-> st, named |-> no, refused |-> no,
              create |-> no, smf |-> zero, path |-> none, supi |-> none, session |-> ns,
              status |-> status]
    BY <2>9, <2>20
  <2>11. e = f
    BY <2>9, <2>10
  <2>12. no = named /\ no = refused
    BY <1>1, <2>5
  <2>13. m = [b EXCEPT !.status = status, !.named = named, !.refused = refused]
    BY <1>2, <2>3, Zenon DEF ResponseMessage
  <2>14. m = [b EXCEPT !.status = status, !.named = no, !.refused = no]
    BY <2>12, <2>13, Zenon
  <2>15. m = e
    BY <2>7, <2>14, <2>19, <2>20, Zenon
  <2>16. f = [b EXCEPT !.status = status, !.named = no]
    BY <2>7, <2>19, Zenon
  <2>17. f = [b EXCEPT !.status = status, !.named = FALSE]
    BY <2>5, <2>16, Zenon
  <2>18. m = f
    BY <2>11, <2>15
  <2> QED
    BY <2>3, <2>17, <2>18, Zenon
<1>4. /\ sbi' = Append(sbi, m) /\ direction' = direction /\ Reading("response")
      /\ s % 2 = 0 /\ ResponseOf(Conn, s) = 0
  BY <1>3, Zenon DEF ReadPushedResponse
<1>5. s \in Nat \ {0}
  BY SbiAssumption DEF SbiAssumption
<1>6. /\ MessageOK(m) /\ m.stream = s /\ m.side = "response" /\ m.conn = Conn
      /\ m.named = FALSE
  <2>1. named \in BOOLEAN /\ refused \in BOOLEAN /\ ~(named /\ refused)
    BY <1>1
  <2> QED
    BY <1>1, <1>2, <1>4, <1>5, <2>1, FreshResponse
<1>7. Len(sbi) \in Nat
  BY LenProperties DEF SbiInv, MessagesOK
<1>8. Fits(m, sbi)
  <2>1. ~\E i \in 1..Len(sbi) :
          sbi[i].side = "response" /\ sbi[i].conn = Conn /\ sbi[i].stream = s
    BY <1>4, <1>7, ResponseFound
  <2> QED
    BY <1>6, <2>1 DEF SameStream, Fits
<1>9. PICK msgs : msgs = Append(sbi, m)
  OBVIOUS
<1>10. m.side = "response" => Replayed(m.conn, direction)
  BY <1>4, <1>6, DirectionMoves DEF SbiInv, Reading
<1>11. /\ MessagesOK(msgs)
       /\ \A j \in 1..Len(msgs) : msgs[j].side = "response" => Replayed(msgs[j].conn, direction)
  BY <1>6, <1>8, <1>9, <1>10, MessageRead
<1> QED
  BY <1>4, <1>9, <1>11 DEF SbiInv

\* Requests are reset before any of their connection's responses is read.
LEMMA ResetKeeps ==
  ASSUME SbiInv, NEW side \in {"request", "response"}, NEW s, ReadReset(side, s)
  PROVE  SbiInv'
<1>1. PICK i : i = IF side = "request" THEN RequestOf(Conn, s) ELSE ResponseOf(Conn, s)
  OBVIOUS
<1>2. /\ Reading(side) /\ i # 0 /\ direction' = direction
      /\ sbi' = [sbi EXCEPT ![i] = [sbi[i] EXCEPT !.named = FALSE, !.refused = TRUE]]
  BY <1>1, Zenon DEF ReadReset
<1>3. PICK S : sbi \in Seq(S)
  BY DEF SbiInv, MessagesOK
<1>4. Len(sbi) \in Nat /\ DOMAIN sbi = 1..Len(sbi)
  BY <1>3, LenProperties
<1>5. i \in 1..Len(sbi) /\ sbi[i].side = side /\ sbi[i].conn = Conn
  BY <1>1, <1>2, <1>4, RequestFound, ResponseFound
<1>6. PICK m, no, yes : m = sbi[i] /\ no = FALSE /\ yes = TRUE
  OBVIOUS
<1>18. PICK h : h = [m EXCEPT !.named = no]
  OBVIOUS
<1>21. PICK o : o = [h EXCEPT !.refused = yes]
  OBVIOUS
<1>7. MessageOK(m)
  BY <1>5, <1>6 DEF SbiInv, MessagesOK
<1>8. MessageOK(o) /\ o.side = m.side /\ SameStream(o, m) /\ o.refused
  <2>1. PICK c, sd, st, na, re, cr, smf, pa, su, se, sa :
          m = [conn |-> c, side |-> sd, stream |-> st, named |-> na, refused |-> re,
               create |-> cr, smf |-> smf, path |-> pa, supi |-> su, session |-> se, status |-> sa]
    BY <1>7, Zenon DEF MessageOK, IsMessage
  <2>2. h = [conn |-> c, side |-> sd, stream |-> st, named |-> no, refused |-> re,
             create |-> cr, smf |-> smf, path |-> pa, supi |-> su, session |-> se, status |-> sa]
    BY <1>18, <2>1
  <2>3. o = [conn |-> c, side |-> sd, stream |-> st, named |-> no, refused |-> yes,
             create |-> cr, smf |-> smf, path |-> pa, supi |-> su, session |-> se, status |-> sa]
    BY <1>21, <2>2
  <2>4. /\ IsMessage(o) /\ o.side = sd /\ o.conn = c /\ o.stream = st
        /\ o.named = no /\ o.refused = yes
    BY <2>3 DEF IsMessage
  <2>5. m.side = sd /\ m.conn = c /\ m.stream = st
    BY <2>1
  <2> QED
    BY <1>6, <1>7, <2>4, <2>5 DEF MessageOK, SameStream
<1>9. PICK next : next = [sbi EXCEPT ![i] = o]
  OBVIOUS
<1>10. sbi' = next
  <2>1. o = [sbi[i] EXCEPT !.named = FALSE, !.refused = TRUE]
    <3>1. o = [m EXCEPT !.named = no, !.refused = yes]
      BY <1>18, <1>21, Zenon
    <3> QED
      BY <1>6, <3>1, Zenon
  <2> QED
    BY <1>2, <1>9, <2>1, Zenon
<1>19. PICK N, T : N = Len(sbi) /\ T = S \cup {o}
  OBVIOUS
<1>11. /\ next \in Seq(T) /\ Len(next) = N
       /\ \A k \in 1..N : (k = i /\ next[k] = o) \/ (k # i /\ next[k] = sbi[k])
  <2>1. sbi \in Seq(T) /\ o \in T
    BY <1>3, <1>19, SeqMonotonic
  <2> QED
    BY <1>4, <1>5, <1>9, <1>19, <2>1, ExceptSeq
<1>20. /\ \A k \in 1..N : MessageOK(sbi[k])
       /\ \A j, k \in 1..N :
            SameStream(sbi[j], sbi[k]) /\ sbi[j].side = sbi[k].side /\ sbi[j].stream # 0 => j = k
  BY <1>19 DEF SbiInv, MessagesOK
<1>12. ASSUME NEW k \in 1..N
       PROVE  /\ MessageOK(next[k]) /\ next[k].side = sbi[k].side
              /\ SameStream(next[k], sbi[k])
              /\ next[k].named => k # i /\ next[k] = sbi[k]
  <2>1. CASE k = i /\ next[k] = o
    BY <1>6, <1>8, <2>1 DEF MessageOK
  <2>2. CASE k # i /\ next[k] = sbi[k]
    BY <1>20, <2>2 DEF SameStream
  <2> QED
    BY <1>11, <2>1, <2>2
<1>13. ASSUME NEW j \in 1..N, NEW k \in 1..N, SameStream(next[j], next[k]),
              next[j].side = next[k].side, next[j].stream # 0
       PROVE  j = k
  <2>1. SameStream(next[j], sbi[j]) /\ next[j].side = sbi[j].side
    BY <1>12
  <2>2. SameStream(next[k], sbi[k]) /\ next[k].side = sbi[k].side
    BY <1>12
  <2>3. SameStream(sbi[j], sbi[k]) /\ sbi[j].side = sbi[k].side /\ sbi[j].stream # 0
    BY <1>13, <2>1, <2>2 DEF SameStream
  <2> QED
    BY <1>20, <2>3
<1>14. ASSUME NEW j \in 1..N, next[j].side = "response", next[j].named
       PROVE  \E k \in 1..N :
                SameStream(next[k], next[j]) /\ next[k].side = "request" /\ ~next[k].refused
  <2>1. j # i /\ next[j] = sbi[j]
    BY <1>12, <1>14
  <2>5. sbi[j].side = "response" /\ sbi[j].named
    BY <1>14, <2>1
  <2>2. PICK k \in 1..N :
          SameStream(sbi[k], sbi[j]) /\ sbi[k].side = "request" /\ ~sbi[k].refused
    BY <1>19, <2>5 DEF SbiInv, MessagesOK
  <2>3. k # i
    <3>1. ASSUME k = i PROVE FALSE
      <4>1. side = "request" /\ sbi[j].conn = Conn
        BY <1>5, <2>2, <3>1 DEF SameStream
      <4>2. Replayed(Conn, direction)
        BY <1>19, <2>5, <4>1 DEF SbiInv
      <4>3. PICK d \in 1..Len(Conns) : /\ Conns[d] = Conns[direction[1]]
                                       /\ (d < direction[1] \/ direction[2] = "response")
        BY <4>2 DEF Replayed, Conn
      <4>4. /\ direction[2] = "request" /\ direction[1] \in Nat \ {0}
            /\ direction[1] <= Len(Conns)
        BY <1>2, <4>1 DEF Reading, SbiInv, DirectionOK
      <4>5. DOMAIN Conns = 1..Len(Conns) /\ Len(Conns) \in Nat
        BY SbiAssumption, LenProperties DEF SbiAssumption
      <4>6. d = direction[1]
        <5>1. direction[1] \in DOMAIN Conns /\ d \in DOMAIN Conns
          BY <4>4, <4>5
        <5> QED
          BY <4>3, <5>1, SbiAssumption DEF SbiAssumption
      <4> QED
        BY <4>3, <4>4, <4>6
    <3> QED
      BY <3>1
  <2>4. next[k] = sbi[k]
    BY <1>11, <2>3
  <2> QED
    BY <2>1, <2>2, <2>4
<1>16. MessagesOK(next)
  BY <1>11, <1>12, <1>13, <1>14 DEF MessagesOK
<1>17. ASSUME NEW j \in 1..N, next[j].side = "response" PROVE Replayed(next[j].conn, direction)
  <2>1. sbi[j].side = "response" /\ sbi[j].conn = next[j].conn
    BY <1>12, <1>17 DEF SameStream
  <2> QED
    BY <1>19, <2>1 DEF SbiInv
<1> QED
  BY <1>2, <1>10, <1>11, <1>16, <1>17 DEF SbiInv

LEMMA ReadSbiKeeps ==
  ASSUME SbiInv, NEW requests, NEW contents, ReadSbi(requests, contents)
  PROVE  SbiInv'
<1>1. CASE Midstream
  BY <1>1, MidstreamKeeps
<1>2. ASSUME NEW s \in Streams, NEW r, ReadRequestHeaders(s, r) PROVE SbiInv'
  BY <1>2, RequestHeadersKeep
<1>3. ASSUME NEW s, NEW b, ReadRequestBody(s, b) PROVE SbiInv'
  BY <1>3 DEF ReadRequestBody, SbiInv
<1>4. ASSUME NEW s \in Streams, NEW status, ReadResponseHeaders(s, status) PROVE SbiInv'
  BY <1>4, ResponseHeadersKeep
<1>8. ASSUME NEW s \in Streams, NEW status, ReadPushedResponse(s, status) PROVE SbiInv'
  BY <1>8, PushedResponseKeeps
<1>5. ASSUME NEW s, NEW side \in {"request", "response"}, ReadReset(side, s) PROVE SbiInv'
  BY <1>5, ResetKeeps
<1>6. ASSUME NEW side \in {"request", "response"}, ReadGarbage(side) PROVE SbiInv'
  <2>1. PICK msgs : msgs = Append(sbi, Note(side))
    OBVIOUS
  <2>2. Finish(msgs) /\ Reading(side)
    BY <1>6, <2>1 DEF ReadGarbage
  <2>3. /\ MessagesOK(msgs)
        /\ \A j \in 1..Len(msgs) : msgs[j].side = "response" => Replayed(msgs[j].conn, direction)
    BY <2>1, <2>2, NoteKeeps
  <2> QED
    BY <2>2, <2>3, FinishKeepsSbi DEF Reading
<1>7. CASE EndOfDirection
  <2>1. Finish(sbi) /\ direction[1] <= Len(Conns)
    BY <1>7 DEF EndOfDirection
  <2> QED
    BY <2>1, FinishKeepsSbi DEF SbiInv
<1> QED
  BY <1>1, <1>2, <1>3, <1>4, <1>5, <1>6, <1>7, <1>8 DEF ReadSbi

-----------------------------------------------------------------------------
(* What was decoded, credited and joined.                                  *)

\* A procedure is its request's, and that request is readable.
LEMMA ProcsSpelled ==
  ASSUME SbiInv, NEW p \in SbiProcs
  PROVE  \E c, s : /\ p = SbiProcedure(p.req)
                   /\ p.req = Readable("request", c, s) /\ p.rsp = Readable("response", c, s)
                   /\ p.req \in 1..Len(sbi) /\ sbi[p.req].side = "request"
                   /\ sbi[p.req].conn = c /\ sbi[p.req].stream = s /\ ~sbi[p.req].refused
<1>1. PICK i \in DOMAIN sbi : /\ sbi[i].side = "request"
                              /\ i = Readable("request", sbi[i].conn, sbi[i].stream)
                              /\ p = SbiProcedure(i)
  BY DEF SbiProcs
<1>2. PICK c, s : c = sbi[i].conn /\ s = sbi[i].stream
  OBVIOUS
<1>3. p.req = i /\ p.rsp = Readable("response", c, s)
  BY <1>1, <1>2 DEF SbiProcedure
<1>4. Len(sbi) \in Nat /\ DOMAIN sbi = 1..Len(sbi)
  BY LenProperties DEF SbiInv, MessagesOK
<1>5. i # 0
  BY <1>4
<1>6. ~sbi[i].refused
  BY <1>1, <1>2, <1>4, <1>5, ReadableFound
<1> QED
  BY <1>1, <1>2, <1>3, <1>4, <1>6

\* The messages of a readable request's stream.
LEMMA StreamsUnique ==
  ASSUME SbiInv, NEW i \in 1..Len(sbi), NEW j \in 1..Len(sbi), ~sbi[i].refused,
         SameStream(sbi[i], sbi[j]), sbi[i].side = sbi[j].side
  PROVE  i = j
<1>1. sbi[i].stream # 0
  BY DEF SbiInv, MessagesOK, MessageOK
<1> QED
  BY <1>1 DEF SbiInv, MessagesOK

LEMMA CreditedFromInv == SbiInv => AnswersCredited
<1> SUFFICES ASSUME SbiInv PROVE AnswersCredited
  OBVIOUS
<1>1. Len(sbi) \in Nat /\ DOMAIN sbi = 1..Len(sbi)
  BY LenProperties DEF SbiInv, MessagesOK
<1>5. ASSUME NEW i \in 1..Len(sbi), ~sbi[i].refused
      PROVE  ~sbi[i].named <=> Unrequested(i)
  <2>1. PICK c, s, q : c = sbi[i].conn /\ s = sbi[i].stream /\ q = RequestOf(c, s)
    OBVIOUS
  <2>2. s # 0 /\ MessageOK(sbi[i])
    BY <1>5, <2>1 DEF SbiInv, MessagesOK, MessageOK
  <2>3. ASSUME ~sbi[i].named PROVE sbi[i].side = "response" /\ q = 0
    <3>1. sbi[i].side = "response" /\ s % 2 = 0
      BY <1>5, <2>1, <2>2, <2>3 DEF MessageOK
    <3>2. ASSUME q # 0 PROVE FALSE
      <4>1. q \in 1..Len(sbi) /\ sbi[q].side = "request" /\ sbi[q].stream = s
        BY <1>1, <2>1, <3>2, RequestFound
      <4>2. s % 2 = 1
        BY <2>2, <4>1 DEF SbiInv, MessagesOK, MessageOK
      <4> QED
        BY <3>1, <4>2
    <3> QED
      BY <3>1, <3>2
  <2>4. ASSUME sbi[i].named, sbi[i].side = "response" PROVE q # 0
    <3>1. PICK r \in 1..Len(sbi) : SameStream(sbi[r], sbi[i]) /\ sbi[r].side = "request"
      BY <2>4 DEF SbiInv, MessagesOK
    <3> QED
      BY <1>1, <2>1, <3>1, RequestFound DEF SameStream
  <2> QED
    BY <2>1, <2>3, <2>4 DEF Unrequested
<1>2. \A i \in DOMAIN sbi :
        /\ ~(sbi[i].named /\ sbi[i].refused)
        /\ ~sbi[i].named /\ ~sbi[i].refused => Unrequested(i)
  BY <1>1, <1>5 DEF SbiInv, MessagesOK, MessageOK
<1>3. ASSUME NEW j \in DOMAIN sbi, NEW users, users = {p \in SbiProcs : p.rsp = j}
      PROVE  /\ Cardinality(users) <= 1
             /\ \A p \in users :
                  sbi[p.req].conn = sbi[j].conn /\ sbi[p.req].stream = sbi[j].stream
             /\ sbi[j].side = "response" /\ ~sbi[j].refused /\ ~Unrequested(j) => users # {}
  <2>1. j # 0
    BY <1>1
  <2>2. ASSUME NEW p \in users
        PROVE  /\ p = SbiProcedure(p.req)
               /\ p.req = Readable("request", sbi[j].conn, sbi[j].stream)
               /\ sbi[p.req].conn = sbi[j].conn /\ sbi[p.req].stream = sbi[j].stream
    <3>1. PICK c, s : /\ p = SbiProcedure(p.req)
                      /\ p.req = Readable("request", c, s) /\ p.rsp = Readable("response", c, s)
                      /\ sbi[p.req].conn = c /\ sbi[p.req].stream = s
      BY <1>3, ProcsSpelled
    <3>2. sbi[j].conn = c /\ sbi[j].stream = s
      BY <1>1, <1>3, <2>1, <3>1, ReadableFound
    <3> QED
      BY <3>1, <3>2
  <2>3. Cardinality(users) <= 1
    <3>1. CASE users = {}
      BY <3>1, FS_EmptySet
    <3>2. ASSUME NEW p \in users PROVE Cardinality(users) <= 1
      <4>1. users = {p}
        BY <2>2
      <4>2. Cardinality(users) = 1
        BY <4>1, FS_Singleton
      <4> QED
        BY <4>2
    <3> QED
      BY <3>1, <3>2
  <2>4. ASSUME sbi[j].side = "response", ~sbi[j].refused, ~Unrequested(j) PROVE users # {}
    <3>1. PICK c, s : c = sbi[j].conn /\ s = sbi[j].stream
      OBVIOUS
    <3>2. PICK i \in 1..Len(sbi) :
            SameStream(sbi[i], sbi[j]) /\ sbi[i].side = "request" /\ ~sbi[i].refused
      BY <1>1, <1>5, <2>4 DEF SbiInv, MessagesOK
    <3>3. PICK r, a : r = Readable("request", c, s) /\ a = Readable("response", c, s)
      OBVIOUS
    <3>4. /\ r \in 1..Len(sbi)
          /\ sbi[r].side = "request" /\ sbi[r].conn = c /\ sbi[r].stream = s
      BY <1>1, <3>1, <3>2, <3>3, ReadableFound DEF SameStream
    <3>5. /\ a \in 1..Len(sbi) /\ ~sbi[a].refused
          /\ sbi[a].side = "response" /\ sbi[a].conn = c /\ sbi[a].stream = s
      BY <1>1, <2>4, <3>1, <3>3, ReadableFound
    <3>6. SameStream(sbi[a], sbi[j])
      BY <3>1, <3>5 DEF SameStream
    <3>7. a = j
      BY <1>1, <2>4, <3>5, <3>6, StreamsUnique
    <3>8. PICK p : p = SbiProcedure(r)
      OBVIOUS
    <3>9. p \in SbiProcs
      BY <1>1, <3>3, <3>4, <3>8 DEF SbiProcs
    <3>10. p.rsp = a
      BY <3>3, <3>4, <3>8 DEF SbiProcedure
    <3> QED
      BY <1>3, <3>7, <3>9, <3>10
  <2> QED
    BY <2>2, <2>3, <2>4
<1> QED
  BY <1>2, <1>3 DEF AnswersCredited

\* The invariant of the three planes together.
CaptureInv ==
  /\ PairingInv
  /\ SbiInv
  /\ \E S : n2 \in Seq(S)
  /\ \A i \in 1..Len(n2) : n2[i].msg \in N2Messages

LEMMA CaptureStarts == CaptureInit => CaptureInv
<1> SUFFICES ASSUME CaptureInit PROVE CaptureInv
  OBVIOUS
<1>1. n2 \in Seq({}) /\ Len(n2) = 0
  BY EmptySeq DEF CaptureInit, FlowsInit
<1> QED
  BY <1>1, CaptureStartsPaired, SbiStarts DEF CaptureInit, CaptureInv

LEMMA CaptureKeeps == CaptureInv /\ [CaptureNext]_captureVars => CaptureInv'
<1> SUFFICES ASSUME CaptureInv, [CaptureNext]_captureVars PROVE CaptureInv'
  OBVIOUS
<1>1. PairingInv'
  BY CaptureKeepsPairing DEF CaptureInv
<1>2. ASSUME UNCHANGED sbiVars PROVE SbiInv'
  BY <1>2 DEF sbiVars, CaptureInv, SbiInv
<1>3. ASSUME UNCHANGED flowVars
      PROVE  (\E S : n2' \in Seq(S)) /\ \A i \in 1..Len(n2') : n2'[i].msg \in N2Messages
  BY <1>3 DEF flowVars, CaptureInv
<1>4. CASE ReadPlaneN2
  <2>5. PICK m \in lab.n2 : ReadN2(m)
    BY <1>4 DEF ReadPlaneN2
  <2>6. m \in N2Messages
    BY CaptureAssumption DEF CaptureInv, PairingInv, CaptureAssumption
  <2>1. PICK x : n2' = Append(n2, x) /\ x.msg = m
    BY <2>5 DEF ReadN2, ReadUnassociated, ReadAssociated
  <2>2. PICK S, T : n2 \in Seq(S) /\ T = S \cup {x}
    BY DEF CaptureInv
  <2>3. n2 \in Seq(T) /\ x \in T
    BY <2>2, SeqMonotonic
  <2>4. /\ n2' \in Seq(T) /\ Len(n2') = Len(n2) + 1 /\ Len(n2) \in Nat
        /\ n2'[Len(n2) + 1] = x /\ \A i \in 1..Len(n2) : n2'[i] = n2[i]
    BY <2>1, <2>3, AppendProperties, LenProperties
  <2>7. \A i \in 1..Len(n2') : i \in 1..Len(n2) \/ i = Len(n2) + 1
    BY <2>4
  <2>8. \A i \in 1..Len(n2') : n2'[i].msg \in N2Messages
    BY <2>1, <2>4, <2>6, <2>7 DEF CaptureInv
  <2> QED
    BY <1>1, <1>2, <1>4, <2>4, <2>8 DEF ReadPlaneN2, CaptureInv
<1>5. CASE ReadPlaneSbi
  <2>1. ReadSbi(lab.requests, lab.contents) /\ UNCHANGED flowVars
    BY <1>5 DEF ReadPlaneSbi
  <2>2. PICK requests, contents : requests = lab.requests /\ contents = lab.contents
    OBVIOUS
  <2>3. ReadSbi(requests, contents)
    BY <2>1, <2>2
  <2>4. SbiInv'
    BY <2>3, ReadSbiKeeps DEF CaptureInv
  <2> QED
    BY <1>1, <1>3, <2>1, <2>4 DEF CaptureInv
<1>6. CASE ReadPlaneN4
  BY <1>1, <1>2, <1>3, <1>6 DEF ReadPlaneN4, CaptureInv
<1>7. CASE NextPlane
  BY <1>1, <1>2, <1>3, <1>7 DEF NextPlane, CaptureInv
<1>8. CASE UNCHANGED captureVars
  BY <1>1, <1>2, <1>3, <1>8 DEF captureVars, CaptureInv
<1> QED
  BY <1>4, <1>5, <1>6, <1>7, <1>8 DEF CaptureNext

LEMMA CaptureHolds == CaptureSpec => []CaptureInv
BY CaptureStarts, CaptureKeeps, PTL DEF CaptureSpec

(* Whatever the connections, streams, resets and failures: a message is decoded or       *)
(* refused, neither only where the server pushed it, and a readable answer to a request  *)
(* is credited to one request, of its own connection and stream.                         *)
THEOREM AnswersAlwaysCredited == CaptureSpec => []AnswersCredited
<1>1. CaptureInv => AnswersCredited
  BY CreditedFromInv DEF CaptureInv
<1> QED
  BY <1>1, CaptureHolds, PTL

-----------------------------------------------------------------------------
(* The joins.  A claim on a key is sole when one flow makes it.            *)

LEMMA SoleClaim ==
  ASSUME NEW claims, IsFiniteSet(claims), NEW f, f = Sole(claims), f # 0
  PROVE  claims = {f}
<1>1. Cardinality(claims) = 1
  BY DEF Sole
<1>2. PICK g : claims = {g}
  BY <1>1, FS_Singleton
<1>3. f = CHOOSE h \in claims : TRUE
  BY <1>1 DEF Sole
<1> QED
  BY <1>2, <1>3

\* The flows of the N2 messages are finitely many, and so are those of any part of them.
LEMMA FlowsFinite ==
  ASSUME CaptureInv, NEW claims, claims \subseteq {n2[i].flow : i \in DOMAIN n2}
  PROVE  IsFiniteSet(claims)
<1>1. Len(n2) \in Nat /\ DOMAIN n2 = 1..Len(n2)
  BY LenProperties DEF CaptureInv
<1>2. IsFiniteSet(DOMAIN n2)
  BY <1>1, FS_Interval
<1>3. PICK T, f : T = {n2[i].flow : i \in DOMAIN n2} /\ f = [i \in DOMAIN n2 |-> n2[i].flow]
  OBVIOUS
<1>4. f \in Surjection(DOMAIN n2, T)
  BY <1>3 DEF Surjection
<1>5. IsFiniteSet(T)
  BY <1>2, <1>4, FS_Surjection
<1> QED
  BY <1>3, <1>5, FS_Subset

LEMMA SupiJoins ==
  ASSUME CaptureInv, NEW i, NEW f, f = RequestFlow(i), f # 0
  PROVE  /\ ~sbi[i].refused
         /\ \E k \in DOMAIN n2 : n2[k].flow = f /\ n2[k].nas.supi = sbi[i].supi
         /\ \A k \in DOMAIN n2 : n2[k].nas.supi = sbi[i].supi => n2[k].flow = f
<1>1. PICK s, claims : s = sbi[i].supi /\ claims = SupiClaims(s)
  OBVIOUS
<1>2. ~sbi[i].refused /\ f = Sole(claims)
  BY <1>1 DEF RequestFlow
<1>3. claims = {n2[k].flow : k \in {k \in DOMAIN n2 : n2[k].nas.supi = s /\ s # NoId}}
  BY <1>1 DEF SupiClaims
<1>4. IsFiniteSet(claims)
  <2>1. claims \subseteq {n2[k].flow : k \in DOMAIN n2}
    BY <1>3
  <2> QED
    BY <2>1, FlowsFinite
<1>5. claims = {f}
  BY <1>2, <1>4, SoleClaim
<1>6. PICK k \in DOMAIN n2 : n2[k].flow = f /\ n2[k].nas.supi = s /\ s # NoId
  BY <1>3, <1>5
<1>7. ASSUME NEW l \in DOMAIN n2, n2[l].nas.supi = s PROVE n2[l].flow = f
  <2>1. n2[l].flow \in claims
    BY <1>3, <1>6, <1>7
  <2> QED
    BY <1>5, <2>1
<1> QED
  BY <1>1, <1>2, <1>6, <1>7

LEMMA TunnelJoins ==
  ASSUME CaptureInv, NEW i, NEW f, f = N4Flow(i), f # 0
  PROVE  /\ n4[i].parsed
         /\ \E t \in n4[i].teids : TunnelClaims(t) = {f}
<1>1. PICK soles : soles = {Sole(TunnelClaims(t)) : t \in n4[i].teids} \ {0}
  OBVIOUS
<1>2. n4[i].parsed /\ f = Sole(soles)
  BY <1>1 DEF N4Flow
<1>3. ASSUME NEW t PROVE IsFiniteSet(TunnelClaims(t))
  BY FlowsFinite DEF TunnelClaims
<1>4. ASSUME NEW t, NEW g, g = Sole(TunnelClaims(t)), g # 0
      PROVE  TunnelClaims(t) = {g}
  BY <1>3, <1>4, SoleClaim
<1>5. soles \subseteq {n2[k].flow : k \in DOMAIN n2}
  <2>1. ASSUME NEW g \in soles PROVE \E k \in DOMAIN n2 : g = n2[k].flow
    <3>1. PICK t \in n4[i].teids : g = Sole(TunnelClaims(t)) /\ g # 0
      BY <1>1
    <3>2. g \in TunnelClaims(t)
      BY <1>4, <3>1
    <3> QED
      BY <3>2 DEF TunnelClaims
  <2> QED
    BY <2>1
<1>6. soles = {f}
  BY <1>2, <1>5, FlowsFinite, SoleClaim
<1>7. PICK t \in n4[i].teids : f = Sole(TunnelClaims(t))
  BY <1>1, <1>6
<1> QED
  BY <1>2, <1>4, <1>7

\* A response takes the flow of a joined request of its stream.
LEMMA ResponseJoins ==
  ASSUME SbiInv, NEW i, sbi[i].side # "request", NEW f, f = SbiFlow(i), f # 0
  PROVE  \E j \in DOMAIN sbi : /\ sbi[j].side = "request" /\ f = RequestFlow(j)
                               /\ SameStream(sbi[j], sbi[i])
<1>1. PICK joined : joined = {j \in DOMAIN sbi : /\ sbi[j].side = "request" /\ RequestFlow(j) # 0
                                                 /\ sbi[j].conn = sbi[i].conn
                                                 /\ sbi[j].stream = sbi[i].stream}
  OBVIOUS
<1>2. joined # {} /\ f = RequestFlow(CHOOSE j \in joined : \A k \in joined : k <= j)
  BY <1>1 DEF SbiFlow
<1>3. Len(sbi) \in Nat /\ DOMAIN sbi = 1..Len(sbi)
  BY LenProperties DEF SbiInv, MessagesOK
<1>4. \E j \in joined : \A k \in joined : k <= j
  BY <1>1, <1>2, <1>3, LastExists
<1>5. PICK j \in joined : f = RequestFlow(j)
  BY <1>2, <1>4, Zenon
<1> QED
  BY <1>1, <1>5 DEF SameStream

LEMMA JoinsFromInv == CaptureInv => JoinsAreUnambiguous
<1> SUFFICES ASSUME CaptureInv PROVE JoinsAreUnambiguous
  OBVIOUS
<1>1. ASSUME NEW i \in DOMAIN sbi, SbiFlow(i) # 0
      PROVE  \E j \in DOMAIN sbi :
               /\ sbi[j].side = "request" /\ ~sbi[j].refused
               /\ sbi[j].conn = sbi[i].conn /\ sbi[j].stream = sbi[i].stream
               /\ \E k \in OfFlow(SbiFlow(i)) : n2[k].nas.supi = sbi[j].supi
               /\ \A k \in DOMAIN n2 : n2[k].nas.supi = sbi[j].supi => n2[k].flow = SbiFlow(i)
  <2>1. PICK f : f = SbiFlow(i)
    OBVIOUS
  <2>2. PICK j \in DOMAIN sbi : /\ sbi[j].side = "request" /\ f = RequestFlow(j)
                                /\ SameStream(sbi[j], sbi[i])
    <3>1. CASE sbi[i].side = "request"
      BY <2>1, <3>1 DEF SbiFlow, SameStream
    <3>2. CASE sbi[i].side # "request"
      BY <1>1, <2>1, <3>2, ResponseJoins DEF CaptureInv
    <3> QED
      BY <3>1, <3>2
  <2>3. /\ ~sbi[j].refused
        /\ \E k \in DOMAIN n2 : n2[k].flow = f /\ n2[k].nas.supi = sbi[j].supi
        /\ \A k \in DOMAIN n2 : n2[k].nas.supi = sbi[j].supi => n2[k].flow = f
    BY <1>1, <2>1, <2>2, SupiJoins
  <2>4. OfFlow(f) = {k \in DOMAIN n2 : n2[k].flow = f}
    BY DEF OfFlow
  <2> QED
    BY <2>1, <2>2, <2>3, <2>4 DEF SameStream
<1>2. ASSUME NEW i \in DOMAIN n4, N4Flow(i) # 0
      PROVE  /\ n4[i].parsed
             /\ \E t \in n4[i].teids :
                  /\ \E k \in OfFlow(N4Flow(i)) : t \in n2[k].msg.teids
                  /\ \A k \in DOMAIN n2 :
                       t \in n2[k].msg.teids => n2[k].flow \in {0, N4Flow(i)}
  <2>1. PICK f : f = N4Flow(i)
    OBVIOUS
  <2>2. n4[i].parsed /\ \E t \in n4[i].teids : TunnelClaims(t) = {f}
    BY <1>2, <2>1, TunnelJoins
  <2>3. PICK t \in n4[i].teids : TunnelClaims(t) = {f}
    BY <2>2
  <2>4. {n2[k].flow : k \in {k \in DOMAIN n2 : t \in n2[k].msg.teids}} \ {0} = {f}
    BY <2>3 DEF TunnelClaims
  <2>5. \E k \in DOMAIN n2 : n2[k].flow = f /\ t \in n2[k].msg.teids
    BY <2>4
  <2>6. \A k \in DOMAIN n2 : t \in n2[k].msg.teids => n2[k].flow \in {0, f}
    BY <2>4
  <2>7. OfFlow(f) = {k \in DOMAIN n2 : n2[k].flow = f}
    BY DEF OfFlow
  <2> QED
    BY <2>1, <2>2, <2>5, <2>6, <2>7
<1> QED
  BY <1>1, <1>2 DEF JoinsAreUnambiguous

LEMMA ProceduresFromInv == CaptureInv => ProceduresFollowMessages
<1> SUFFICES ASSUME CaptureInv PROVE ProceduresFollowMessages
  OBVIOUS
<1>1. SbiInv /\ Len(sbi) \in Nat /\ DOMAIN sbi = 1..Len(sbi)
  BY LenProperties DEF CaptureInv, SbiInv, MessagesOK
<1>2. ASSUME NEW p \in SbiProcs
      PROVE  /\ SbiProcFlow(p) = SbiFlow(p.req)
             /\ p.rsp # 0 => SbiFlow(p.rsp) = SbiProcFlow(p)
  <2>1. PICK c, s : /\ p.rsp = Readable("response", c, s)
                    /\ p.req \in 1..Len(sbi) /\ sbi[p.req].side = "request"
                    /\ sbi[p.req].conn = c /\ sbi[p.req].stream = s /\ ~sbi[p.req].refused
    BY <1>1, ProcsSpelled
  <2>2. ASSUME NEW j \in 1..Len(sbi), sbi[j].side = "request", sbi[j].conn = c, sbi[j].stream = s
        PROVE  j = p.req
    BY <1>1, <2>1, <2>2, StreamsUnique DEF SameStream
  <2>3. PICK q : q = RequestOf(c, s)
    OBVIOUS
  <2>4. q = p.req
    BY <1>1, <2>1, <2>2, <2>3, RequestFound
  <2>5. SbiProcFlow(p) = SbiFlow(q)
    BY <2>1, <2>3 DEF SbiProcFlow, RequestOf
  <2>6. SbiFlow(p.req) = RequestFlow(p.req)
    BY <2>1 DEF SbiFlow
  <2>7. ASSUME p.rsp # 0 PROVE SbiFlow(p.rsp) = RequestFlow(p.req)
    <3>1. /\ sbi[p.rsp].side = "response" /\ sbi[p.rsp].conn = c /\ sbi[p.rsp].stream = s
      BY <1>1, <2>1, <2>7, ReadableFound
    <3>2. CASE SbiFlow(p.rsp) # 0
      <4>1. PICK i, f : i = p.rsp /\ f = SbiFlow(i)
        OBVIOUS
      <4>2. PICK j \in DOMAIN sbi : /\ sbi[j].side = "request" /\ f = RequestFlow(j)
                                    /\ SameStream(sbi[j], sbi[i])
        BY <1>1, <3>1, <3>2, <4>1, ResponseJoins
      <4>3. j = p.req
        BY <1>1, <2>2, <3>1, <4>1, <4>2 DEF SameStream
      <4> QED
        BY <4>1, <4>2, <4>3
    <3>3. CASE SbiFlow(p.rsp) = 0
      <4>1. PICK joined :
              joined = {j \in DOMAIN sbi : /\ sbi[j].side = "request" /\ RequestFlow(j) # 0
                                           /\ sbi[j].conn = sbi[p.rsp].conn
                                           /\ sbi[j].stream = sbi[p.rsp].stream}
        OBVIOUS
      <4>2. CASE joined = {}
        BY <1>1, <2>1, <3>1, <3>3, <4>1, <4>2
      <4>3. CASE joined # {}
        <5>1. SbiFlow(p.rsp) = RequestFlow(CHOOSE j \in joined : \A k \in joined : k <= j)
          BY <3>1, <4>1, <4>3 DEF SbiFlow
        <5>2. joined = {p.req}
          BY <1>1, <2>1, <2>2, <3>1, <4>1, <4>3
        <5>3. (CHOOSE j \in joined : \A k \in joined : k <= j) = p.req
          BY <2>1, <5>2
        <5> QED
          BY <5>1, <5>3
      <4> QED
        BY <4>2, <4>3
    <3> QED
      BY <3>2, <3>3
  <2> QED
    BY <2>4, <2>5, <2>6, <2>7
<1>3. ASSUME NEW p \in n4Procs, N4ProcFlow(p) # 0
      PROVE  \E t \in n4[p.req].teids \cup n4[p.rsp].teids : TunnelClaims(t) = {N4ProcFlow(p)}
  <2>1. PICK i \in {p.req, p.rsp} : N4ProcFlow(p) = N4Flow(i)
    BY DEF N4ProcFlow
  <2>2. PICK f : f = N4Flow(i)
    OBVIOUS
  <2>3. \E t \in n4[i].teids : TunnelClaims(t) = {f}
    BY <1>3, <2>1, <2>2, TunnelJoins
  <2> QED
    BY <2>1, <2>2, <2>3
<1> QED
  BY <1>2, <1>3 DEF ProceduresFollowMessages

-----------------------------------------------------------------------------
(* The legs of a latency.                                                  *)

LEMMA LegsFinite ==
  ASSUME CaptureInv, NEW f, NEW s
  PROVE  /\ IsFiniteSet(EstLegs(f, s))
         /\ IsFiniteSet(CreateLegs(f, s))
         /\ IsFiniteSet(SetupLegs(f, s))
<1>1. /\ Len(sbi) \in Nat /\ DOMAIN sbi = 1..Len(sbi)
      /\ Len(n4) \in Nat /\ DOMAIN n4 = 1..Len(n4)
      /\ Len(n2) \in Nat /\ DOMAIN n2 = 1..Len(n2)
  BY LenProperties DEF CaptureInv, PairingInv, N4Inv, SbiInv, MessagesOK
<1>2. IsFiniteSet(DOMAIN sbi) /\ IsFiniteSet(DOMAIN n4) /\ IsFiniteSet(DOMAIN n2)
  BY <1>1, FS_Interval
<1>3. EstLegs(f, s) \subseteq DOMAIN n4
  BY DEF EstLegs, Establishments
<1>4. CreateLegs(f, s) \subseteq DOMAIN sbi
  BY DEF CreateLegs, Creates
<1>5. IsFiniteSet(SetupResponses(f)) /\ SetupResponses(f) \subseteq DOMAIN n2
  BY <1>2, FS_Subset DEF SetupResponses, OfFlow
<1>6. CASE s = NoSession
  <2>1. IsFiniteSet({1})
    BY FS_Singleton
  <2>2. IsFiniteSet(SetupResponses(f) \X {1})
    BY <1>5, <2>1, FS_Product
  <2>3. IsFiniteSet(SetupLegs(f, s))
    BY <1>6, <2>2 DEF SetupLegs
  <2> QED
    BY <1>2, <1>3, <1>4, <2>3, FS_Subset
<1>7. CASE s # NoSession
  <2>1. PICK I : I = {i \in SetupResponses(f) : s \in DOMAIN n2[i].msg.confirmed}
    OBVIOUS
  <2>2. PICK items : items = [i \in I |-> {i} \X (1..n2[i].msg.confirmed[s])]
    OBVIOUS
  <2>3. PICK R : R = {items[i] : i \in I}
    OBVIOUS
  <2>4. IsFiniteSet(I)
    BY <1>5, <2>1, FS_Subset
  <2>5. items \in Surjection(I, R)
    BY <2>2, <2>3 DEF Surjection
  <2>6. IsFiniteSet(R)
    BY <2>4, <2>5, FS_Surjection
  <2>7. ASSUME NEW r \in R PROVE IsFiniteSet(r)
    <3>1. PICK i \in I : r = {i} \X (1..n2[i].msg.confirmed[s])
      BY <2>2, <2>3
    <3>2. PICK k : k = n2[i].msg.confirmed[s]
      OBVIOUS
    <3>3. k \in Nat
      <4>1. i \in DOMAIN n2 /\ s \in DOMAIN n2[i].msg.confirmed
        BY <1>5, <2>1
      <4>2. n2[i].msg \in N2Messages
        BY <1>1, <4>1 DEF CaptureInv
      <4>3. PICK c : c = n2[i].msg.confirmed
        OBVIOUS
      <4>4. c \in [DOMAIN c -> Nat \ {0}]
        BY <4>2, <4>3, CaptureAssumption DEF CaptureAssumption
      <4> QED
        BY <3>2, <4>1, <4>3, <4>4
    <3>4. IsFiniteSet(1..k)
      BY <3>3, FS_Interval
    <3>5. IsFiniteSet({i})
      BY FS_Singleton
    <3>6. IsFiniteSet({i} \X (1..k))
      BY <3>4, <3>5, FS_Product
    <3> QED
      BY <3>1, <3>2, <3>6
  <2>8. IsFiniteSet(UNION R)
    BY <2>6, <2>7, FS_UNION
  <2>9. SetupLegs(f, s) = UNION R
    <3>1. \A i \in I : items[i] = {i} \X (1..n2[i].msg.confirmed[s])
      BY <2>2, Zenon
    <3>2. R = {{i} \X (1..n2[i].msg.confirmed[s]) : i \in I}
      <4>1. PICK Q : Q = {{i} \X (1..n2[i].msg.confirmed[s]) : i \in I}
        OBVIOUS
      <4>2. ASSUME NEW r PROVE r \in R <=> r \in Q
        <5>1. r \in R <=> \E i \in I : r = items[i]
          BY <2>3
        <5>2. r \in Q <=> \E i \in I : r = {i} \X (1..n2[i].msg.confirmed[s])
          BY <4>1
        <5> QED
          BY <3>1, <5>1, <5>2, Zenon
      <4> QED
        BY <4>1, <4>2
    <3>3. SetupLegs(f, s)
            = UNION {{i} \X (1..n2[i].msg.confirmed[s]) :
                     i \in {i \in SetupResponses(f) : s \in DOMAIN n2[i].msg.confirmed}}
      BY <1>7, Zenon DEF SetupLegs
    <3>4. SetupLegs(f, s) = UNION {{i} \X (1..n2[i].msg.confirmed[s]) : i \in I}
      BY <2>1, <3>3
    <3> QED
      BY <3>2, <3>4
  <2> QED
    BY <1>2, <1>3, <1>4, <2>8, <2>9, FS_Subset
<1> QED
  BY <1>6, <1>7

\* The sessions over which a flow's latencies are taken.
SessionKeys(f) == IF Sessions(f) = {} THEN {NoSession} ELSE Sessions(f)

LEMMA SbiToN4Spelled ==
  ASSUME NEW x \in SbiToN4
  PROVE  \E f, s, a, b :
           /\ x = [flow |-> f, session |-> s, from |-> a, to |-> b] /\ s \in SessionKeys(f)
           /\ a \in CreateLegs(f, s) /\ Cardinality(CreateLegs(f, s)) = 1
           /\ b \in EstLegs(f, s) /\ Cardinality(EstLegs(f, s)) = 1
BY DEF SbiToN4, Samples, SessionKeys

LEMMA N4ToN2Spelled ==
  ASSUME NEW x \in N4ToN2
  PROVE  \E f, s, a, b :
           /\ x = [flow |-> f, session |-> s, from |-> a, to |-> b] /\ s \in SessionKeys(f)
           /\ a \in EstLegs(f, s) /\ Cardinality(EstLegs(f, s)) = 1
           /\ b \in SetupLegs(f, s) /\ Cardinality(SetupLegs(f, s)) = 1
BY DEF N4ToN2, Samples, SessionKeys

LEMMA SbiToN2Spelled ==
  ASSUME NEW x \in SbiToN2
  PROVE  \E f, s, a, b :
           /\ x = [flow |-> f, session |-> s, from |-> a, to |-> b] /\ s \in SessionKeys(f)
           /\ a \in CreateLegs(f, s) /\ Cardinality(CreateLegs(f, s)) = 1
           /\ b \in SetupLegs(f, s) /\ Cardinality(SetupLegs(f, s)) = 1
BY DEF SbiToN2, Samples, SessionKeys

\* A create or an establishment is of one flow and one session at most.
LEMMA LegsApart ==
  ASSUME NEW f, NEW s \in SessionKeys(f), NEW g, NEW t \in SessionKeys(g), NEW i
  PROVE  /\ i \in CreateLegs(f, s) /\ i \in CreateLegs(g, t) => f = g /\ s = t
         /\ i \in EstLegs(f, s) /\ i \in EstLegs(g, t) => f = g /\ s = t
<1>1. ASSUME i \in CreateLegs(f, s), i \in CreateLegs(g, t) PROVE f = g /\ s = t
  <2>1. i \in Creates(f) /\ sbi[i].session = s
    BY <1>1 DEF CreateLegs
  <2>2. i \in Creates(g) /\ sbi[i].session = t
    BY <1>1 DEF CreateLegs
  <2> QED
    BY <2>1, <2>2 DEF Creates
<1>2. ASSUME i \in EstLegs(f, s), i \in EstLegs(g, t) PROVE f = g /\ s = t
  <2>1. i \in Establishments(f) /\ i \in Establishments(g)
    BY <1>2 DEF EstLegs
  <2>2. f = g
    BY <2>1 DEF Establishments
  <2>3. NoSession \notin Sessions(f)
    BY DEF Sessions
  <2>4. CASE Sessions(f) = {}
    BY <2>2, <2>4 DEF SessionKeys
  <2>5. CASE Sessions(f) # {}
    <3>1. s # NoSession /\ t # NoSession
      BY <2>2, <2>3, <2>5 DEF SessionKeys
    <3>2. Anchors(f, i) = {s} /\ Anchors(g, i) = {t}
      BY <1>2, <3>1 DEF EstLegs
    <3> QED
      BY <2>2, <3>2
  <2> QED
    BY <2>4, <2>5
<1> QED
  BY <1>1, <1>2

LEMMA OnlyElement ==
  ASSUME NEW I, IsFiniteSet(I), Cardinality(I) = 1, NEW a \in I, NEW b \in I
  PROVE  a = b
BY FS_Singleton

\* A response is a leg of two samples for two sessions of one flow.
SharesFairly(x, y) ==
  x.flow = y.flow /\ x.session # y.session /\ NoSession \notin {x.session, y.session}

LEMMA SetupLegSpelled ==
  ASSUME NEW f, NEW s, NEW b \in SetupLegs(f, s)
  PROVE  /\ b[1] \in SetupResponses(f)
         /\ s # NoSession => s \in DOMAIN n2[b[1]].msg.confirmed
BY DEF SetupLegs

LEMMA ResponsesShared ==
  ASSUME NEW f, NEW s \in SessionKeys(f), NEW g, NEW t \in SessionKeys(g), ~(f = g /\ s = t),
         NEW b \in SetupLegs(f, s), NEW d \in SetupLegs(g, t), b[1] = d[1]
  PROVE  f = g /\ s # NoSession /\ t # NoSession
<1>1. b[1] \in SetupResponses(f) /\ b[1] \in SetupResponses(g)
  BY SetupLegSpelled
<1>2. f = g
  BY <1>1 DEF SetupResponses, OfFlow
<1>3. NoSession \notin Sessions(f)
  BY DEF Sessions
<1>4. Sessions(f) # {}
  BY <1>2 DEF SessionKeys
<1> QED
  BY <1>2, <1>3, <1>4 DEF SessionKeys

\* The only item that confirms a session is its sample's.
LEMMA ConfirmedOnce ==
  ASSUME CaptureInv, NEW f, NEW s, s # NoSession, NEW b \in SetupLegs(f, s),
         Cardinality(SetupLegs(f, s)) = 1,
         NEW i \in SetupResponses(f), s \in DOMAIN n2[i].msg.confirmed
  PROVE  i = b[1] /\ n2[i].msg.confirmed[s] = 1
<1>1. PICK k : k = n2[i].msg.confirmed[s]
  OBVIOUS
<1>2. k \in Nat \ {0}
  <2>1. n2[i].msg \in N2Messages
    <3>1. DOMAIN n2 = 1..Len(n2)
      BY LenProperties DEF CaptureInv
    <3> QED
      BY <3>1 DEF CaptureInv, SetupResponses, OfFlow
  <2>2. PICK c : c = n2[i].msg.confirmed
    OBVIOUS
  <2>3. c \in [DOMAIN c -> Nat \ {0}]
    BY <2>1, <2>2, CaptureAssumption DEF CaptureAssumption
  <2> QED
    BY <1>1, <2>2, <2>3
<1>3. \A n \in 1..k : <<i, n>> \in SetupLegs(f, s)
  BY <1>1 DEF SetupLegs
<1>4. 1 \in 1..k /\ k \in 1..k
  BY <1>2
<1>5. \A x, y \in SetupLegs(f, s) : x = y
  BY LegsFinite, OnlyElement
<1>6. <<i, 1>> = b /\ <<i, k>> = b
  BY <1>3, <1>4, <1>5
<1> QED
  BY <1>1, <1>6

LEMMA LegsFromInv == CaptureInv => LegsAreNotShared
<1> SUFFICES ASSUME CaptureInv PROVE LegsAreNotShared
  OBVIOUS
<1>1. ASSUME NEW x \in SbiToN4, NEW y \in SbiToN4, x.from = y.from \/ x.to = y.to
      PROVE  x = y
  <2>1. PICK f, s, a, b :
           /\ x = [flow |-> f, session |-> s, from |-> a, to |-> b] /\ s \in SessionKeys(f)
           /\ a \in CreateLegs(f, s) /\ Cardinality(CreateLegs(f, s)) = 1
           /\ b \in EstLegs(f, s) /\ Cardinality(EstLegs(f, s)) = 1
    BY SbiToN4Spelled
  <2>2. PICK g, t, c, d :
           /\ y = [flow |-> g, session |-> t, from |-> c, to |-> d] /\ t \in SessionKeys(g)
           /\ c \in CreateLegs(g, t) /\ d \in EstLegs(g, t)
    BY SbiToN4Spelled
  <2>3. a = c \/ b = d
    BY <1>1, <2>1, <2>2
  <2>4. f = g /\ s = t
    BY <2>1, <2>2, <2>3, LegsApart
  <2>5. a = c /\ b = d
    BY <2>1, <2>2, <2>4, LegsFinite, OnlyElement
  <2> QED
    BY <2>1, <2>2, <2>4, <2>5
<1>2. ASSUME NEW x \in N4ToN2, NEW y \in N4ToN2, x # y
      PROVE  x.from # y.from /\ (x.to[1] = y.to[1] => SharesFairly(x, y))
  <2>1. PICK f, s, a, b :
           /\ x = [flow |-> f, session |-> s, from |-> a, to |-> b] /\ s \in SessionKeys(f)
           /\ a \in EstLegs(f, s) /\ Cardinality(EstLegs(f, s)) = 1
           /\ b \in SetupLegs(f, s) /\ Cardinality(SetupLegs(f, s)) = 1
    BY N4ToN2Spelled
  <2>2. PICK g, t, c, d :
           /\ y = [flow |-> g, session |-> t, from |-> c, to |-> d] /\ t \in SessionKeys(g)
           /\ c \in EstLegs(g, t) /\ d \in SetupLegs(g, t)
    BY N4ToN2Spelled
  <2>3. ~(f = g /\ s = t)
    <3>1. f = g /\ s = t => a = c /\ b = d
      BY <2>1, <2>2, LegsFinite, OnlyElement
    <3> QED
      BY <1>2, <2>1, <2>2, <3>1
  <2>4. a # c
    BY <2>1, <2>2, <2>3, LegsApart
  <2>5. b[1] = d[1] => f = g /\ s # NoSession /\ t # NoSession
    BY <2>1, <2>2, <2>3, ResponsesShared
  <2> QED
    BY <2>1, <2>2, <2>3, <2>4, <2>5 DEF SharesFairly
<1>3. ASSUME NEW x \in SbiToN2, NEW y \in SbiToN2, x # y
      PROVE  x.from # y.from /\ (x.to[1] = y.to[1] => SharesFairly(x, y))
  <2>1. PICK f, s, a, b :
           /\ x = [flow |-> f, session |-> s, from |-> a, to |-> b] /\ s \in SessionKeys(f)
           /\ a \in CreateLegs(f, s) /\ Cardinality(CreateLegs(f, s)) = 1
           /\ b \in SetupLegs(f, s) /\ Cardinality(SetupLegs(f, s)) = 1
    BY SbiToN2Spelled
  <2>2. PICK g, t, c, d :
           /\ y = [flow |-> g, session |-> t, from |-> c, to |-> d] /\ t \in SessionKeys(g)
           /\ c \in CreateLegs(g, t) /\ d \in SetupLegs(g, t)
    BY SbiToN2Spelled
  <2>3. ~(f = g /\ s = t)
    <3>1. f = g /\ s = t => a = c /\ b = d
      BY <2>1, <2>2, LegsFinite, OnlyElement
    <3> QED
      BY <1>3, <2>1, <2>2, <3>1
  <2>4. a # c
    BY <2>1, <2>2, <2>3, LegsApart
  <2>5. b[1] = d[1] => f = g /\ s # NoSession /\ t # NoSession
    BY <2>1, <2>2, <2>3, ResponsesShared
  <2> QED
    BY <2>1, <2>2, <2>3, <2>4, <2>5 DEF SharesFairly
<1>4. ASSUME NEW x \in N4ToN2 \cup SbiToN2, x.session # NoSession,
             NEW i \in SetupResponses(x.flow), x.session \in DOMAIN n2[i].msg.confirmed
      PROVE  i = x.to[1] /\ n2[i].msg.confirmed[x.session] = 1
  <2>1. PICK f, s, a, b :
           /\ x = [flow |-> f, session |-> s, from |-> a, to |-> b]
           /\ b \in SetupLegs(f, s) /\ Cardinality(SetupLegs(f, s)) = 1
    BY N4ToN2Spelled, SbiToN2Spelled
  <2>2. x.flow = f /\ x.session = s /\ x.to = b
    BY <2>1
  <2> QED
    BY <1>4, <2>1, <2>2, ConfirmedOnce
<1>5. \A latency \in {N4ToN2, SbiToN2} : \A x, y \in latency :
        x # y => /\ x.from # y.from
                 /\ x.to[1] = y.to[1] =>
                      x.flow = y.flow /\ x.session # y.session /\ NoSession \notin {x.session, y.session}
  BY <1>2, <1>3 DEF SharesFairly
<1> QED
  BY <1>1, <1>4, <1>5 DEF LegsAreNotShared

(* Whatever was captured: what joins a flow, joins it by a SUPI or a tunnel that flow     *)
(* alone declares, and through a readable request or a parsed message.                    *)
THEOREM JoinsAlwaysUnambiguous == CaptureSpec => []JoinsAreUnambiguous
BY JoinsFromInv, CaptureHolds, PTL

(* Whatever was captured: a procedure of SBI and both its messages carry one flow, and a  *)
(* procedure of N4 a flow only for a tunnel that flow alone declared.                     *)
THEOREM ProceduresAlwaysFollow == CaptureSpec => []ProceduresFollowMessages
BY ProceduresFromInv, CaptureHolds, PTL

(* Whatever was captured: no create and no establishment is a leg of two samples of one   *)
(* latency; a SetupResponse is one only for two sessions of one flow; and a session's     *)
(* sample ends at the only item of the flow that confirms it.                             *)
THEOREM LegsAreNeverShared == CaptureSpec => []LegsAreNotShared
BY LegsFromInv, CaptureHolds, PTL
=============================================================================
