SPECIFICATION Spec
CONSTANTS
  f1 = f1  f2 = f2
  Readers = {r1}
  Fields = {f1, f2}
  Changes <- MCChanges
  Depth = 4
  MaxRetries = 1
  LastVersion = 9
  Failed = Failed
CHECK_DEADLOCK FALSE
INVARIANTS TypeOK RetriesArePaid
PROPERTIES ReadsAreAtomic
