SPECIFICATION Spec
CONSTANTS
  d1 = d1  d2 = d2  o1 = o1  o2 = o2  qpigs = qpigs  qpiri = qpiri
  Live = Live  Nothing = Nothing  Todo = Todo  Err = Err  Nak = Nak  Stale = Stale
  Devs = {d1}
  Sel = d1
  Others = 0
  Options = {o1, o2}
  Schedule <- TwoCommands
  Setting = qpiri
  Threshold = 2
  MaxFails = 2
  Tries = 2
  Attempts = 2
  Tasks = {1}
  CycleModulus = 2
  FaultBound = 1
PROPERTIES ConfirmedStays
CHECK_DEADLOCK FALSE
