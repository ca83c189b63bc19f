\* Two dumps with one load buffer.
SPECIFICATION Spec
CONSTANTS
  a = a
  b = b
  t = t
  u = u
  Blank = zero
  None = none
  Apps = {a, b}
  Names = {t, u}
  OwnerOf <- TwoTables
  Double = {}
  DumpOnly = {}
  Critical = {}
  Checked = {}
  Images = {w1}
  Good = {w1}
  Calls = {}
  Commands = {"dump"}
  Exits = {}
  PoolFails = FALSE
  MaxTables = 2
  MaxHandles = 3
  MaxLoads = 2
  MaxValidations = 1
  LastReg = 2
  LastHandle = 3
  LastGen = 3
  LastLoad = 2
  LastDump = 3
INVARIANTS DumpBlocksServed
CHECK_DEADLOCK FALSE
