\* The ground aborts the load that the owner is making.
SPECIFICATION Spec
CONSTANTS
  a = a
  b = b
  t = t
  u = u
  Blank = zero
  None = none
  Apps = {a, b}
  Names = {t}
  OwnerOf <- OneTable
  Double = {}
  DumpOnly = {}
  Critical = {}
  Checked = {}
  Images = {w1}
  Good = {w1}
  Calls = {}
  Commands = {"abort"}
  Exits = {}
  PoolFails = FALSE
  MaxTables = 1
  MaxHandles = 2
  MaxLoads = 1
  MaxValidations = 1
  LastReg = 1
  LastHandle = 2
  LastGen = 3
  LastLoad = 1
  LastDump = 0
INVARIANTS NoFault
CHECK_DEADLOCK FALSE
