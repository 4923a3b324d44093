SPECIFICATION FairSpec
CONSTANTS
  pn1 = pn1  pn2 = pn2
  s1 = s1  s2 = s2
  r1 = r1  r2 = r2
  NoPN = NoPN  NoSession = NoSession  NoReq = NoReq
  PNs = {pn1, pn2}
  Sessions = {s1, s2}
  Reqs = {}
  Target <- NoTarget
  Enabled = {pn1}
  Blank = {pn2}
  HeartbeatBound = 0
  TidSpace = 65536
  FrameBound = 65535
  InboxBound = 1
INVARIANTS RoutingTables IdentifiedIsRouted StatusIsHonest
PROPERTIES EnabledDonglesReturn
CHECK_DEADLOCK FALSE
