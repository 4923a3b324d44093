SPECIFICATION FairSpec
CONSTANTS
  pn1 = pn1  pn2 = pn2
  s1 = s1  s2 = s2
  r1 = r1  r2 = r2
  NoPN = NoPN  NoSession = NoSession  NoReq = NoReq
  PNs = {pn1}
  Sessions = {s1}
  Reqs = {r1, r2}
  Target <- MixedTarget
  Enabled = {pn1}
  Blank = {}
  HeartbeatBound = 1
  TidSpace = 65536
  FrameBound = 65535
  InboxBound = 1
PROPERTIES RequestsEnd
CHECK_DEADLOCK FALSE
