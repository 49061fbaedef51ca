----------------------------- MODULE MCCapture ------------------------------
(***************************************************************************)
(* Instances of Capture for TLC.  Each lab is one kind of run: the         *)
(* signalling of two UEs, one UE at length, N4 alone, SBI alone, and a     *)
(* merged run of the three planes.                                         *)
(***************************************************************************)
EXTENDS Incidents

CONSTANTS ue1, ue2, supi1, supi2, upf, upf2, gnb, conn1, conn2

Nas(shield, name, algo, supi) ==
  [shield |-> shield, name |-> name, algo |-> algo, supi |-> supi,
   cause |-> CASE name = "RegistrationReject" -> 7 [] name = "5GMMStatus" -> 91 [] OTHER -> NoCode]

NoItems == [s \in {} |-> {}]

Ngap(name, ran, nas) ==
  [name |-> name, assoc |-> "a", ran |-> ran, amf |-> IF name = "InitialUEMessage" THEN NoId ELSE "amf",
   nas |-> nas, requested |-> NoItems, confirmed |-> NoItems, teids |-> {}]

Plain(name, ran) == Ngap(name, ran, NoNas)
Carrying(name, ran, nas) == Ngap(name, ran, nas)

\* requested: session id -> tunnels; confirmed: session id -> number of items.
SetupRequest(ran, requested) ==
  [Plain("PDUSessionResourceSetupRequest", ran)
     EXCEPT !.requested = requested, !.teids = UNION Range(requested)]
SetupResponse(ran, confirmed) ==
  [Plain("PDUSessionResourceSetupResponse", ran) EXCEPT !.confirmed = confirmed, !.teids = {gnb}]
One(s, v) == [x \in {s} |-> v]
Register(ran, supi) ==
  Carrying("InitialUEMessage", ran, Nas("none", "RegistrationRequest", NoAlgo, supi))

NgSetup == [Plain("NGSetupRequest", NoId) EXCEPT !.amf = NoId]

\* One UE in detail: protected and plain outcomes, releases, several sessions.
OneUe ==
  {Register(ue1, supi1), Plain("InitialUEMessage", ue1),
   Carrying("DownlinkNASTransport", ue1, Nas("integrity", "SecurityModeCommand", 0, NoId)),
   Carrying("DownlinkNASTransport", ue1, Nas("integrity", "SecurityModeCommand", 1, NoId)),
   Carrying("InitialContextSetupRequest", ue1, Nas("cipher", "RegistrationAccept", NoAlgo, NoId)),
   Carrying("DownlinkNASTransport", ue1, Nas("none", "RegistrationReject", NoAlgo, NoId)),
   Plain("InitialContextSetupFailure", ue1),
   Plain("UEContextReleaseCommand", ue1),
   Carrying("UplinkNASTransport", ue1, Nas("cipher", "PDUSessionEstabRequest", NoAlgo, NoId)),
   Carrying("PDUSessionResourceSetupRequest", ue1, Nas("cipher", "PDUSessionEstabAccept", NoAlgo, NoId)),
   Plain("PDUSessionResourceSetupResponse", ue1)}

TwoUes ==
  {Carrying("DownlinkNASTransport", ue1, Nas("integrity", "5GMMStatus", NoAlgo, NoId)),
   Register(ue1, supi1), Register(ue2, supi1), NgSetup,
   Plain("InitialContextSetupRequest", ue1), Plain("InitialContextSetupRequest", ue2),
   Plain("UEContextReleaseRequest", ue1), Plain("UEContextReleaseComplete", ue2),
   Plain("PDUSessionResourceSetupRequest", ue2), Plain("PDUSessionResourceSetupFailure", ue2)}

\* The N2 messages that declare keys.
Declaring ==
  {Register(ue1, supi1), Register(ue2, supi1), Register(ue2, supi2),
   SetupRequest(ue1, One(1, {upf})), SetupRequest(ue1, One(2, {upf})),
   SetupRequest(ue2, One(1, {upf})),
   SetupResponse(ue1, One(1, 1)), SetupResponse(ue2, One(1, 1))}

OneSession == {Register(ue1, supi1), SetupRequest(ue1, One(1, {upf})), SetupResponse(ue1, One(1, 1))}

TwoSessions ==
  {SetupRequest(ue1, One(1, {upf})), SetupRequest(ue1, One(2, {upf})),
   SetupResponse(ue1, One(1, 1)), SetupResponse(ue1, One(2, 1))}

\* One setup of two sessions, confirmed together, again, and with a repeated item.
TwoItems ==
  {Register(ue1, supi1), SetupRequest(ue1, <<{upf}, {upf2}>>),
   SetupResponse(ue1, <<1, 1>>), SetupResponse(ue1, <<1, 2>>)}

N4(src, dst, seq, type, cause, teids) ==
  [src |-> src, dst |-> dst, seq |-> seq, type |-> type, cause |-> cause, teids |-> teids,
   parsed |-> TRUE]

\* Both ends number their requests alike, so sequence numbers collide across directions.
Pairing ==
  {N4("smf", "upf", q, 50, NoCause, {}) : q \in 1..2}
    \cup {N4("upf", "smf", q, 51, c, {}) : q \in 1..2, c \in {1, 64}}
    \cup {N4("upf", "smf", 1, 56, NoCause, {}), N4("smf", "upf", 1, 57, NoCause, {}),
          N4("smf", "upf", 1, 52, NoCause, {}),
          [N4("smf", "upf", 1, 0, NoCause, {}) EXCEPT !.parsed = FALSE]}

Tunnels ==
  {N4("smf1", "upf", 1, 50, NoCause, {}), N4("upf", "smf1", 1, 51, 1, {upf}),
   N4("upf", "smf1", 1, 51, 1, {upf, gnb}), N4("smf1", "upf", 2, 52, NoCause, {gnb}),
   [N4("upf", "smf1", 1, 0, NoCause, {}) EXCEPT !.parsed = FALSE, !.teids = {upf}]}

TwoTunnels ==
  {N4("smf1", "upf", q, 50, NoCause, {}) : q \in 1..2}
    \cup {N4("upf", "smf1", 1, 51, 1, {upf}), N4("upf", "smf1", 2, 51, 1, {upf2})}

Request(create, smf, path) == [create |-> create, smf |-> smf, path |-> path]
Content(supi, session) == [supi |-> supi, session |-> session]

N2Lab(msgs, max) ==
  [n2 |-> msgs, maxN2 |-> max, n4 |-> {}, maxN4 |-> 0,
   conns |-> 0, requests |-> {}, contents |-> {}, maxSbi |-> 0]
N4Lab(msgs, max) == [N2Lab({}, 0) EXCEPT !.n4 = msgs, !.maxN4 = max]
SbiLab(conns, requests, contents, max) ==
  [N2Lab({}, 0) EXCEPT !.conns = conns, !.requests = requests, !.contents = contents, !.maxSbi = max]

Merged(msgs, max, n4msgs, maxN4, requests, contents, maxSbi) ==
  [N2Lab(msgs, max) EXCEPT !.n4 = n4msgs, !.maxN4 = maxN4, !.conns = 1,
                           !.requests = requests, !.contents = contents, !.maxSbi = maxSbi]

\* A request that names a UE in its path, and the create, which names it in its body.
Get(supi) == Request(FALSE, "smf1", supi)
Create(smf) == Request(TRUE, smf, NoSupi)

CaptureLabs ==
  {N2Lab(OneUe, 5), N2Lab(TwoUes, 4), N4Lab(Pairing, 5),
   SbiLab(2, {Get(supi1), Create("smf1")}, {Content(supi2, NoSession)}, 4),
   Merged(Declaring, 3, Tunnels, 2, {}, {}, 0),
   Merged(Declaring, 2, {}, 0, {Get(supi1), Create("smf1")},
          {Content(supi1, 1), Content(supi2, NoSession)}, 2),
   Merged(Declaring \ {Register(ue2, supi2)}, 3, Tunnels, 1, {Create("smf1")}, {Content(supi1, 1)}, 1),
   [Merged(OneSession, 3, Tunnels, 1, {Create("smf1"), Create("smf2")}, {Content(supi1, 1)}, 2)
      EXCEPT !.conns = 2],
   [Merged({Register(ue1, supi1)}, 1, {}, 0, {Get(supi1), Get(supi2)}, {}, 4) EXCEPT !.conns = 2],
   Merged(TwoSessions, 4, Tunnels, 1, {}, {}, 0),
   Merged(TwoItems, 3, TwoTunnels, 2, {}, {}, 0),
   Merged(TwoItems, 2, {}, 0, {Create("smf1")}, {Content(supi1, 1), Content(supi1, 2)}, 2)}

AllN2 == OneUe \cup TwoUes \cup Declaring \cup TwoSessions \cup TwoItems
AllN4 == Pairing \cup Tunnels \cup TwoTunnels
TwoConns == <<conn1, conn2>>
=============================================================================
