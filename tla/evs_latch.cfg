\* Two tasks count an event of one application in a filter that is about to lock.
SPECIFICATION Spec
CONSTANTS
  A = A
  B = B
  a1 = a1
  b1 = b1
  e1 = e1
  Evs = Evs
  EvsTask = evs
  Mains = {a1, b1}
  Own = own
  Apps = {A, B, Evs}
  Tasks = {a1, b1, evs}
  Events = {e1, own}
  AppOf <- TwoApps
  SendsFor <- BothForA
  TypeOf <- OneType
  NoEvent = none
  FreeSlot = free
  Overwrite = overwrite
  Discard = discard
  DefaultMode = discard
  LogMax = 2
  MaxFilters = 1
  Masks = {1}
  Switched = {"INFORMATION"}
  CountBits = 1
  MaxCount = 1
  Burst = 1
  Rate = 1
  Cost = 2
  MaxElapsed = 4
  MaxCalls = 3
  MaxResets = 1
  AnyMoment = FALSE
PROPERTIES LockedUntilReset
CHECK_DEADLOCK FALSE
