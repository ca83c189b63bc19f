\* A single-buffered table and a dump-only one of one application, which the ground
\* loads, validates, dumps and aborts the loads of while it loads and serves them.
SPECIFICATION FairSpec
CONSTANTS
  a = a
  b = b
  t = t
  u = u
  Blank = zero
  None = none
  Apps = {a}
  Names = {t, u}
  OwnerOf <- OwnedByA
  Double = {}
  DumpOnly = {u}
  Critical = {}
  Checked = {t}
  Images = {w1, w2}
  Good = {w1}
  Calls = {"manage", "modified"}
  Commands = {"load", "abort", "dump", "validate"}
  Exits = {}
  PoolFails = FALSE
  MaxTables = 1
  MaxHandles = 1
  MaxLoads = 1
  MaxValidations = 1
  LastReg = 1
  LastHandle = 1
  LastGen = 2
  LastLoad = 1
  LastDump = 2
INVARIANTS SharedBuffersHeld
PROPERTIES DumpsWritten
CHECK_DEADLOCK FALSE
