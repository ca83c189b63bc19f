SPECIFICATION Spec
CONSTANTS
  es = es  t1 = t1  t2 = t2  t3 = t3
  b1 = b1  b2 = b2  b3 = b3  m1 = m1  m2 = m2
  sys = sys  app1 = app1  app2 = app2
  NoApp = NoApp  NoBuf = NoBuf  NoMsg = NoMsg
  ES = es
  Tasks <- MCTasks2
  Apps = {sys, app1, app2}
  AppOf <- OneApp
  Doomed = {}
  Forced = FALSE
  Calls <- SharedCalls
  MsgIds = {m1}
  Bufs = {b1, b2}
  MaxPipes = 2
  MaxRoutes = 1
  MaxDests = 2
  MaxDepth = 2
  Depths = {1}
  MsgLims = {1}
  Verify = {TRUE, FALSE}
  LastSerial = 3
SYMMETRY BufSymmetry
CHECK_DEADLOCK FALSE
INVARIANTS TypeOK UseCountAccounted RoutesLive CountsExact SlotClaims HoldersKeepBuffers
