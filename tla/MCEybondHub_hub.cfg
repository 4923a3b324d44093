SPECIFICATION FairSpec
CONSTANTS
  pn1 = pn1  pn2 = pn2
  NoMgr = NoMgr  NoReg = NoReg  NoRec = NoRec  NoData = NoData
  PNs = {pn1}
  Mids = {1, 2}
  Tasks = {1, 2}
  Budgets <- DrainOrOverlap
  Rids = {1, 2, 3, 4}
INVARIANTS HubInv ChildrenMatch EditsSurvive NoPhantomConnections
PROPERTIES DiscoveriesAreSaved PortIsServed
CHECK_DEADLOCK FALSE
