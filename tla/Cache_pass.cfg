SPECIFICATION Spec
CONSTANTS
  Procs = {p1, p2}
  g1 = g1  g2 = g2  g3 = g3
  a1 = a1  a2 = a2  a3 = a3  common = common
  Games = {g1, g2, g3}
  Assets = {a1, a2, a3, common}
  Closure <- MCClosure
  Primary <- MCPrimary
  Size <- MCSize
  Nobody = Nobody
  Lag = 2
  Quota = 4
  Disk = 5
  MaxRequests = 2
  MaxControls = 1
  MaxFaults = 1
CHECK_DEADLOCK FALSE
INVARIANTS BudgetKept
PROPERTIES EveryRequestEnds CachedPlayable
