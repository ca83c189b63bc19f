SPECIFICATION Spec
CONSTANTS
  t1 = t1  t2 = t2  t3 = t3  n1 = n1  n2 = n2
  NoTask = NoTask  NoName = NoName
  Tasks = {t1, t2}
  Names = {n1}
  Calls <- TwoAlike
  MaxObjects = 2
  IndexMask = 3
  MaxAttempts = 2
  Refusals = {TRUE, FALSE}
  MaxCalls <- TwoEach
CHECK_DEADLOCK FALSE
INVARIANTS NoSelfWait
