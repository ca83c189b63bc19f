\* Two names that are registered, resized, copied and deleted in a store with room for
\* two small blocks, or a small and a large one; resets of both kinds come at any
\* moment at which the stored registry names no block that has been given back since.
SPECIFICATION Spec
CONSTANTS
  Names = {n1, n2}
  Sizes = {1, 2}
  Images = {zero, x}
  Blank = zero
  None = none
  Lost = lost
  BucketSizes <- TwoBuckets
  DescSize = 1
  PoolSize = 5
  MaxEntries = 2
  LastId = 3
  MaxResets = 2
  AnyMoment = FALSE
INVARIANTS TypeOK PoolExact OneOwner
PROPERTIES NamesKeep
CHECK_DEADLOCK FALSE
