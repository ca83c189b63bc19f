SPECIFICATION FairSpec
CONSTANTS
  t1 = t1  t2 = t2  t3 = t3  n1 = n1  n2 = n2
  NoTask = NoTask  NoName = NoName
  Tasks = {t1, t2, t3}
  Names = {n1}
  Calls <- Roles
  MaxObjects = 2
  IndexMask = 3
  MaxAttempts = 2
  Refusals = {TRUE, FALSE}
  MaxCalls <- RoleCalls
CHECK_DEADLOCK FALSE
INVARIANTS TypeOK HoldersSafe RecordsUsable
PROPERTIES CallsEnd
