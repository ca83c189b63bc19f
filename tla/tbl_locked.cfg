\* A user reads a single-buffered table through its first two loads.
SPECIFICATION Spec
CONSTANTS
  a = a
  b = b
  t = t
  u = u
  Blank = zero
  None = none
  Apps = {a, b}
  Names = {t}
  OwnerOf <- OneTable
  Double = {}
  DumpOnly = {}
  Critical = {}
  Checked = {}
  Images = {w1, w2}
  Good = {w1, w2}
  Calls = {}
  Commands = {}
  Exits = {}
  PoolFails = FALSE
  MaxTables = 1
  MaxHandles = 2
  MaxLoads = 1
  MaxValidations = 1
  LastReg = 1
  LastHandle = 2
  LastGen = 3
  LastLoad = 1
  LastDump = 0
INVARIANTS LockedUnchanged
CHECK_DEADLOCK FALSE
