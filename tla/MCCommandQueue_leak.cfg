SPECIFICATION Spec
CONSTANTS
  e1 = e1  e2 = e2
  c1 = c1  c2 = c2  c3 = c3
  link1 = link1  link2 = link2
  NoEntry = NoEntry  NoCall = NoCall  NoQueue = NoQueue  NoKey = NoKey
  Entries = {e1, e2}
  Endpoints = {link1, link2}
  PortNames = {}
  Calls = {c1, c2, c3}
  Qids = {1, 2, 3}
  Req <- RetryReq
INVARIANTS UnloadedOwnsNothing
CHECK_DEADLOCK FALSE
