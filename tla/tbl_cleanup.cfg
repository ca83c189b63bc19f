\* The owner of a dump-only table stops with a dump waiting for it.
SPECIFICATION Spec
CONSTANTS
  a = a
  b = b
  t = t
  u = u
  Blank = zero
  None = none
  Apps = {a, b}
  Names = {t}
  OwnerOf <- OneTable
  Double = {}
  DumpOnly = {t}
  Critical = {}
  Checked = {}
  Images = {w1}
  Good = {w1}
  Calls = {}
  Commands = {"dump"}
  Exits = {a}
  PoolFails = FALSE
  MaxTables = 1
  MaxHandles = 2
  MaxLoads = 1
  MaxValidations = 1
  LastReg = 1
  LastHandle = 2
  LastGen = 3
  LastLoad = 1
  LastDump = 1
INVARIANTS SharedBuffersHeld
CHECK_DEADLOCK FALSE
