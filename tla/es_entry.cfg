\* The same tables: a new task runs before the creation has ended.
SPECIFICATION Spec
CONSTANTS
  Starters = {loader}
  Background = background
  Names = {x, y}
  NoName = noname
  MaxApps = 2
  MaxTasks = 2
  KillTime = 1
  LastApp = 3
  LastTask = 3
PROPERTIES EntryHasContext
CHECK_DEADLOCK FALSE
