\* The same tables: a task is deleted while it creates a child.
SPECIFICATION Spec
CONSTANTS
  Starters = {loader}
  Background = background
  Names = {x, y}
  NoName = noname
  MaxApps = 2
  MaxTasks = 2
  KillTime = 1
  LastApp = 2
  LastTask = 4
INVARIANTS ContextFound
CHECK_DEADLOCK FALSE
