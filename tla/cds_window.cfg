\* Two names that are registered, resized, copied and deleted in a store with room for
\* two small blocks, or a small and a large one; resets of both kinds come at any
\* moment, also while the stored registry names a block that has been given back.
SPECIFICATION Spec
CONSTANTS
  Names = {n1, n2}
  Sizes = {1, 2}
  Images = {zero, x}
  Blank = zero
  None = none
  Lost = lost
  BucketSizes <- TwoBuckets
  DescSize = 1
  PoolSize = 5
  MaxEntries = 2
  LastId = 3
  MaxResets = 2
  AnyMoment = TRUE
INVARIANTS OneOwner
CHECK_DEADLOCK FALSE
