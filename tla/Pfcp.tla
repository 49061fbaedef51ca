-------------------------------- MODULE Pfcp --------------------------------
(***************************************************************************)
(* N4 of 5gcap: fivegcap/pfcp.py.  The messages of a capture are decoded   *)
(* and paired one at a time, in capture order; what is still pending when  *)
(* the capture ends becomes a timeout.  Nothing of a message but its       *)
(* path, sequence number, type, cause and tunnel keys is kept; an endpoint *)
(* is an (ip, port) pair of the code.                                      *)
(***************************************************************************)
EXTENDS Integers, Sequences, FiniteSets, Functions

CONSTANTS
  NoCause,      \* a message without a Cause element
  N4Messages    \* the N4 messages a capture may hold

\* REQ_KIND: the message types that are requests; a response is one more.
ReqKind == {1, 3, 5, 7, 9, 12, 14, 50, 52, 54, 56}
Establishment == 50

\* An unparsed message is refused: it has no type and no key.
N4Assumption ==
  \A m \in N4Messages :
    /\ {"src", "dst", "seq", "type", "cause", "teids", "parsed"} \subseteq DOMAIN m
    /\ m.type \in Nat
    /\ m.parsed \in BOOLEAN

ASSUME N4Assumption

VARIABLES
  n4,           \* the messages read so far, in capture order
  pending,      \* request key -> index of its first send
  n4Procs       \* the paired procedures

pfcpVars == <<n4, pending, n4Procs>>

IsRequest(m) == m.parsed /\ m.type \in ReqKind
IsResponse(m) == m.parsed /\ m.type \notin ReqKind /\ m.type - 1 \in ReqKind

\* A response travels the request's path in reverse.
RequestKey(m) == <<m.src, m.dst, m.seq>>
ResponseKey(m) == <<m.dst, m.src, m.seq>>

N4Outcome(m) ==
  CASE m.cause = NoCause -> "unknown"
    [] m.cause \in 1..3 -> "accept"
    [] OTHER -> "reject"

PfcpInit ==
  /\ n4 = <<>>
  /\ pending = [k \in {} |-> 0]
  /\ n4Procs = {}

\* Mutant: a retransmission takes the first send's place.
LatestSend(m) ==
  /\ IsRequest(m)
  /\ n4' = Append(n4, m)
  /\ pending' = [k \in DOMAIN pending \cup {RequestKey(m)} |->
                   IF k = RequestKey(m) THEN Len(n4) + 1 ELSE pending[k]]
  /\ UNCHANGED n4Procs

\* A request opens its key; a retransmission of a pending one changes nothing.
ReadRequest(m) ==
  /\ IsRequest(m)
  /\ n4' = Append(n4, m)
  /\ pending' = IF RequestKey(m) \in DOMAIN pending
                THEN pending
                ELSE [k \in DOMAIN pending \cup {RequestKey(m)} |->
                        IF k = RequestKey(m) THEN Len(n4) + 1 ELSE pending[k]]
  /\ UNCHANGED n4Procs

\* A response closes the key, whatever the type of the request it finds there.
ReadResponse(m) ==
  /\ IsResponse(m)
  /\ ResponseKey(m) \in DOMAIN pending
  /\ n4' = Append(n4, m)
  /\ pending' = Restrict(pending, DOMAIN pending \ {ResponseKey(m)})
  /\ n4Procs' = n4Procs \cup {[kind |-> m.type - 1, outcome |-> N4Outcome(m),
                               req |-> pending[ResponseKey(m)], rsp |-> Len(n4) + 1]}

\* Refused messages, other types and responses nobody waits for.
ReadOther(m) ==
  /\ ~IsRequest(m)
  /\ ~(IsResponse(m) /\ ResponseKey(m) \in DOMAIN pending)
  /\ n4' = Append(n4, m)
  /\ UNCHANGED <<pending, n4Procs>>

ReadN4(m) == ReadRequest(m) \/ ReadResponse(m) \/ ReadOther(m)

\* What pair_procedures returns when the capture ends here.
N4Timeouts == {pending[k] : k \in DOMAIN pending}

-----------------------------------------------------------------------------

\* j is a response on the reversed path of request i.
Mirrors(i, j) ==
  /\ IsRequest(n4[i])
  /\ IsResponse(n4[j])
  /\ ResponseKey(n4[j]) = RequestKey(n4[i])

\* i opens an exchange: no earlier request of its key is still unanswered.
FirstSend(i) ==
  /\ IsRequest(n4[i])
  /\ \A k \in 1..(i - 1) :
       IsRequest(n4[k]) /\ RequestKey(n4[k]) = RequestKey(n4[i])
         => \E l \in (k + 1)..(i - 1) : Mirrors(k, l)

\* j is the first answer to the exchange that i opened.
Answers(j, i) ==
  /\ i < j
  /\ FirstSend(i)
  /\ Mirrors(i, j)
  /\ \A l \in (i + 1)..(j - 1) : ~Mirrors(i, l)

(* The pairing against its declarative definition, over everything read so far: a *)
(* procedure for each first send and its first answer, a timeout for each first   *)
(* send no later message answers, and nothing else (pair_procedures).             *)
PairingIsExact ==
  /\ {<<p.req, p.rsp>> : p \in n4Procs} =
       {x \in (1..Len(n4)) \X (1..Len(n4)) : Answers(x[2], x[1])}
  /\ N4Timeouts =
       {i \in 1..Len(n4) : FirstSend(i) /\ \A j \in (i + 1)..Len(n4) : ~Mirrors(i, j)}
=============================================================================
