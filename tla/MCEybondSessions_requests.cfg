SPECIFICATION Spec
CONSTANTS
  pn1 = pn1  pn2 = pn2
  s1 = s1  s2 = s2
  r1 = r1  r2 = r2
  NoPN = NoPN  NoSession = NoSession  NoReq = NoReq
  PNs = {pn1}
  Sessions = {s1, s2}
  Reqs = {r1, r2}
  Target <- SameTarget
  Enabled = {pn1}
  Blank = {}
  HeartbeatBound = 0
  TidSpace = 65536
  FrameBound = 65535
  InboxBound = 1
INVARIANTS SessionInv AnswersAreGenuine OneForwardPerSession InFlightIsWatched
PROPERTIES NoCollateralLoss
SYMMETRY AnySessionAndRequest
CHECK_DEADLOCK FALSE
