SPECIFICATION CaptureSpec
CONSTANTS
  NoCause = NoCause
  NoId = NoId
  NoSupi = NoId
  NoSession = NoSession
  ue1 = ue1
  ue2 = ue2
  supi1 = supi1
  supi2 = supi2
  upf = upf
  upf2 = upf2
  gnb = gnb
  conn1 = conn1
  conn2 = conn2
  N4Messages <- AllN4
  N2Messages <- AllN2
  Conns <- TwoConns
  Streams = {1, 2, 3}
  Statuses = {201, 403}
  Labs <- CaptureLabs
INVARIANTS PairingIsExact AnswersCredited FallbackWithinCycle OutcomesCountedOnce CipheredNeverCounts JoinsAreUnambiguous ProceduresFollowMessages LegsAreNotShared GoldenFlowsSucceeded
CHECK_DEADLOCK FALSE
