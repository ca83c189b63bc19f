\* The same tables: an application creates a task while it is deleted.
SPECIFICATION Spec
CONSTANTS
  Starters = {loader}
  Background = background
  Names = {x, y}
  NoName = noname
  MaxApps = 2
  MaxTasks = 2
  KillTime = 1
  LastApp = 3
  LastTask = 3
INVARIANTS NothingLeft
CHECK_DEADLOCK FALSE
