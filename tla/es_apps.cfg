\* Two slots for applications and two for tasks, three applications, restarts
\* included, and four tasks, so that every slot is used again, one of them while
\* the record of a deleted child is still to be written.
SPECIFICATION FairSpec
CONSTANTS
  Starters = {loader}
  Background = background
  Names = {x, y}
  NoName = noname
  MaxApps = 2
  MaxTasks = 2
  KillTime = 1
  LastApp = 3
  LastTask = 4
INVARIANTS TypeOK RecordsSound TasksKnown LastRequestWins
PROPERTIES RequestsEnd
CHECK_DEADLOCK FALSE
