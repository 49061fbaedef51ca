-------------------------------- MODULE Sbi ---------------------------------
(***************************************************************************)
(* The service based interface of 5gcap: fivegcap/sbi.py.  A TCP           *)
(* connection is decoded one direction after the other, the client's       *)
(* first, whatever order the packets were captured in: the responses'      *)
(* streams exist only once the requests were replayed.  An event is what   *)
(* the HTTP/2 library reports for one piece of a direction; the library    *)
(* itself is external and its rules appear as guards.                      *)
(***************************************************************************)
EXTENDS Integers, Sequences, FiniteSets, Functions, SequencesExt

CONSTANTS
  Conns,        \* the connections, in the order they are decoded
  Streams,
  NoSupi,       \* a path or a body that declares no SUPI
  NoSession,    \* a body without a pduSessionId
  Statuses

\* The connections are the keys of a dict.
SbiAssumption ==
  /\ Conns \in Seq(Range(Conns))
  /\ \A c, d \in DOMAIN Conns : Conns[c] = Conns[d] => c = d
  /\ Streams \subseteq Nat \ {0}
  /\ Statuses \subseteq Nat

ASSUME SbiAssumption

VARIABLES
  sbi,          \* the decoded messages, refused ones included
  direction,    \* <<position in Conns, "request" or "response">>
  bodies        \* <<conn, stream>> -> what the body received so far declares

sbiVars == <<sbi, direction, bodies>>

Conn == Conns[direction[1]]
Reading(side) == direction[1] <= Len(Conns) /\ direction[2] = side

RequestOf(c, s) ==
  SelectLastInSeq(sbi, LAMBDA m : m.side = "request" /\ m.conn = c /\ m.stream = s)
ResponseOf(c, s) ==
  SelectLastInSeq(sbi, LAMBDA m : m.side = "response" /\ m.conn = c /\ m.stream = s)

Message(side, s) ==
  [conn |-> Conn, side |-> side, stream |-> s, named |-> TRUE, refused |-> FALSE,
   create |-> FALSE, smf |-> 0, path |-> NoSupi, supi |-> NoSupi, session |-> NoSession,
   status |-> 0]

\* A note of a failure is a message of stream 0.
Note(side) == [Message(side, 0) EXCEPT !.named = FALSE, !.refused = TRUE]

Body(c, s) ==
  IF <<c, s>> \in DOMAIN bodies THEN bodies[<<c, s>>] ELSE [supi |-> NoSupi, session |-> NoSession]

NextDirection ==
  IF direction[2] = "request" THEN <<direction[1], "response">> ELSE <<direction[1] + 1, "request">>

\* What a request declares once its connection is decoded: path and body must agree.
Identified(m) ==
  LET declared == {m.path, Body(m.conn, m.stream).supi} \ {NoSupi} IN
  IF m.side = "request" /\ ~m.refused
  THEN [m EXCEPT !.supi = IF Cardinality(declared) = 1
                          THEN CHOOSE s \in declared : TRUE ELSE NoSupi,
                 !.session = Body(m.conn, m.stream).session]
  ELSE m

Finish(msgs) ==
  /\ direction' = NextDirection
  /\ sbi' = IF direction[2] = "request" THEN msgs
            ELSE [i \in DOMAIN msgs |->
                    IF msgs[i].conn = Conn THEN Identified(msgs[i]) ELSE msgs[i]]
  /\ UNCHANGED bodies

SbiInit ==
  /\ sbi = <<>>
  /\ direction = <<1, "request">>
  /\ bodies = [k \in {} |-> [supi |-> NoSupi, session |-> NoSession]]

\* No client preface: the capture began midstream; one note stands for the connection.
Midstream ==
  /\ Reading("request")
  /\ ~\E i \in DOMAIN sbi : sbi[i].conn = Conn
  /\ sbi' = Append(sbi, Note("request"))
  /\ direction' = <<direction[1] + 1, "request">>
  /\ UNCHANGED bodies

\* RequestReceived: the library reports a stream's request once, and the client's
\* streams are the odd ones.
ReadRequestHeaders(s, r) ==
  /\ Reading("request")
  /\ s % 2 = 1 /\ RequestOf(Conn, s) = 0
  /\ sbi' = Append(sbi, [Message("request", s) EXCEPT !.create = r.create, !.smf = r.smf,
                                                        !.path = r.path])
  /\ UNCHANGED <<direction, bodies>>

\* DataReceived on the client's side.
ReadRequestBody(s, b) ==
  /\ Reading("request")
  /\ RequestOf(Conn, s) # 0
  /\ ~sbi[RequestOf(Conn, s)].refused
  /\ <<Conn, s>> \notin DOMAIN bodies
  /\ bodies' = [k \in DOMAIN bodies \cup {<<Conn, s>>} |->
                  IF k = <<Conn, s>> THEN b ELSE bodies[k]]
  /\ UNCHANGED <<sbi, direction>>

\* Mutant: the answer to a refused request is kept as decoded.
AnswerAnyway(s, status) ==
  /\ Reading("response")
  /\ RequestOf(Conn, s) # 0
  /\ ResponseOf(Conn, s) = 0
  /\ sbi' = Append(sbi, [Message("response", s) EXCEPT !.status = status])
  /\ UNCHANGED <<direction, bodies>>

\* ResponseReceived: the stream was replayed when its request was read. The answer to
\* a refused request is refused too.
ReadResponseHeaders(s, status) ==
  /\ Reading("response")
  /\ RequestOf(Conn, s) # 0
  /\ ResponseOf(Conn, s) = 0
  /\ LET refused == ~sbi[RequestOf(Conn, s)].named IN
     sbi' = Append(sbi, [Message("response", s) EXCEPT !.status = status,
                                                       !.named = ~refused, !.refused = refused])
  /\ UNCHANGED <<direction, bodies>>

\* ResponseReceived on a stream the server pushed, on top of some request: no request is
\* found for it, and it stays without a name and without a note.
ReadPushedResponse(s, status) ==
  /\ Reading("response")
  /\ s % 2 = 0 /\ ResponseOf(Conn, s) = 0
  /\ \E i \in DOMAIN sbi : sbi[i].conn = Conn /\ sbi[i].stream # 0 /\ sbi[i].side = "request"
  /\ sbi' = Append(sbi, [Message("response", s) EXCEPT !.status = status, !.named = FALSE])
  /\ UNCHANGED <<direction, bodies>>

\* StreamReset: the message of this side on that stream loses its name and is refused.
ReadReset(side, s) ==
  /\ Reading(side)
  /\ LET i == IF side = "request" THEN RequestOf(Conn, s) ELSE ResponseOf(Conn, s) IN
     /\ i # 0
     /\ ~sbi[i].refused
     /\ sbi' = [sbi EXCEPT ![i] = [@ EXCEPT !.named = FALSE, !.refused = TRUE]]
  /\ UNCHANGED <<direction, bodies>>

\* The library raises (also on a response to a client stream never requested): a note,
\* and the rest of this direction is not read.
ReadGarbage(side) ==
  /\ Reading(side)
  /\ Finish(Append(sbi, Note(side)))

EndOfDirection ==
  /\ direction[1] <= Len(Conns)
  /\ Finish(sbi)

ReadSbi(requests, contents) ==
  \/ Midstream
  \/ \E s \in Streams :
       \/ \E r \in requests : ReadRequestHeaders(s, r)
       \/ \E b \in contents : ReadRequestBody(s, b)
       \/ \E status \in Statuses : ReadResponseHeaders(s, status) \/ ReadPushedResponse(s, status)
       \/ \E side \in {"request", "response"} : ReadReset(side, s)
  \/ \E side \in {"request", "response"} : ReadGarbage(side)
  \/ EndOfDirection

\* pair_procedures: the last readable request and response of each stream.
Readable(side, c, s) ==
  SelectLastInSeq(sbi, LAMBDA m :
    ~m.refused /\ m.side = side /\ m.conn = c /\ m.stream = s)

SbiProcedure(i) ==
  LET j == Readable("response", sbi[i].conn, sbi[i].stream) IN
  [req |-> i, rsp |-> j,
   outcome |-> CASE j = 0 -> "timeout"
                 [] j # 0 /\ sbi[j].status \in 200..299 -> "accept"
                 [] OTHER -> "reject"]

SbiProcs ==
  {SbiProcedure(i) : i \in {i \in DOMAIN sbi :
     sbi[i].side = "request" /\ i = Readable("request", sbi[i].conn, sbi[i].stream)}}

-----------------------------------------------------------------------------

\* A response on a stream without a request.
Unrequested(i) == sbi[i].side = "response" /\ RequestOf(sbi[i].conn, sbi[i].stream) = 0

(* Whatever resets and failures hit either direction, a message is decoded or refused,    *)
(* never both, and neither only where the server pushed it; every readable answer to a    *)
(* request is credited to one request, of its own connection and stream, so a request     *)
(* that was reset takes no answer with it, and a pushed response answers nothing          *)
(* (_decode_connection, pair_procedures).                                                 *)
AnswersCredited ==
  /\ \A i \in DOMAIN sbi :
       /\ ~(sbi[i].named /\ sbi[i].refused)
       /\ ~sbi[i].named /\ ~sbi[i].refused => Unrequested(i)
  /\ \A j \in DOMAIN sbi :
       LET users == {p \in SbiProcs : p.rsp = j} IN
       /\ Cardinality(users) <= 1
       /\ \A p \in users : sbi[p.req].conn = sbi[j].conn /\ sbi[p.req].stream = sbi[j].stream
       /\ sbi[j].side = "response" /\ ~sbi[j].refused /\ ~Unrequested(j) => users # {}
=============================================================================
