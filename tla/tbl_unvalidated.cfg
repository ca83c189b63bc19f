\* The ground loads a file into the image that waits to be activated.
SPECIFICATION Spec
CONSTANTS
  a = a
  b = b
  t = t
  u = u
  Blank = zero
  None = none
  Apps = {a, b}
  Names = {t}
  OwnerOf <- OneTable
  Double = {}
  DumpOnly = {}
  Critical = {}
  Checked = {t}
  Images = {w1, w2}
  Good = {w1}
  Calls = {"update"}
  Commands = {"load"}
  Exits = {}
  PoolFails = FALSE
  MaxTables = 1
  MaxHandles = 2
  MaxLoads = 1
  MaxValidations = 1
  LastReg = 1
  LastHandle = 2
  LastGen = 3
  LastLoad = 1
  LastDump = 0
INVARIANTS ActiveValidated
CHECK_DEADLOCK FALSE
