\* A critical double-buffered table that a registers and b shares: loads, reads, and both
\* leaving and coming back, so that the record is freed and used again, and a finds in
\* the CDS what it had.
SPECIFICATION FairSpec
CONSTANTS
  a = a
  b = b
  t = t
  u = u
  Blank = zero
  None = none
  Apps = {a, b}
  Names = {t}
  OwnerOf <- OneTable
  Double = {t}
  DumpOnly = {}
  Critical = {t}
  Checked = {t}
  Images = {w1, w2}
  Good = {w1}
  Calls = {"unregister"}
  Commands = {}
  Exits = {a, b}
  PoolFails = TRUE
  MaxTables = 2
  MaxHandles = 2
  MaxLoads = 1
  MaxValidations = 1
  LastReg = 3
  LastHandle = 5
  LastGen = 3
  LastLoad = 1
  LastDump = 0
INVARIANTS TypeOK LockedUnchanged DescriptorsLinked ActiveValidated CriticalSaved
PROPERTIES CallsEnd
CHECK_DEADLOCK FALSE
