------------------------------ MODULE GenPool ------------------------------
(***************************************************************************)
(* The bucket allocator of Executive Services (cfe_es_generic_pool.c), that *)
(* serves the Critical Data Store and the memory pools of ES.  It is given *)
(* as operators on two values, because they are kept in two places: d, the *)
(* descriptors, which lie between the blocks in the managed memory, and p,  *)
(* the record of the pool.  Offsets and sizes are in units of the           *)
(* alignment, so that nothing is rounded.  The caller holds the lock of the *)
(* pool.  Statistics are left out.                                          *)
(***************************************************************************)
EXTENDS Integers, Sequences, FiniteSets

CONSTANTS
  BucketSizes,  \* the block sizes of the pool, sorted as GenPoolInitialize does
  DescSize,     \* CFE_ES_GENERIC_POOL_DESCRIPTOR_SIZE
  PoolSize      \* PoolMaxOffset, where the pool starts at 0

Buckets == 1 .. Len(BucketSizes)
Offsets == DescSize .. PoolSize

ASSUME PoolAssumption ==
  /\ BucketSizes \in Seq(Nat \ {0}) /\ Len(BucketSizes) > 0
  /\ \A b, c \in Buckets : b < c => BucketSizes[b] <= BucketSizes[c]
  /\ DescSize \in Nat \ {0} /\ PoolSize \in Nat

\* A descriptor; a check pattern that is not there is the state "none".
NoDesc == [state |-> "none", bucket |-> 1, size |-> 0, next |-> 0]
Descs  == [state : {"none", "allocated", "deallocated"}, bucket : Buckets,
           size : Nat, next : Offsets \cup {0}]
\* CFE_ES_GenPoolRecord_t: TailPosition, and of each bucket FirstOffset and
\* ReleaseCount - RecycleCount, which is how many blocks wait to be recycled.
EmptyPool == [tail |-> 0, first |-> [b \in Buckets |-> 0], waiting |-> [b \in Buckets |-> 0]]
Pools == [tail : Nat, first : [Buckets -> Offsets \cup {0}], waiting : [Buckets -> Nat]]

\* CFE_ES_GenPoolFindBucket: the first bucket that the size fits in.
Fitting(size)    == {b \in Buckets : size <= BucketSizes[b]}
FindBucket(size) == CHOOSE b \in Fitting(size) : \A c \in Fitting(size) : b <= c

\* CFE_ES_GenPoolGetBlockSize: the offset is in the pool, and the descriptor before
\* it is that of an allocated block.
IsBlock(d, p, o) ==
  /\ o >= DescSize /\ o < p.tail
  /\ d[o].state = "allocated" /\ d[o].size # 0 /\ d[o].size <= BucketSizes[d[o].bucket]

-----------------------------------------------------------------------------
(* CFE_ES_GenPoolGetBlock *)

\* CFE_ES_GenPoolRecyclePoolBlock finds a block of the bucket that was given back.
CanRecycle(d, p, b) ==
  LET o == p.first[b] IN
    p.waiting[b] # 0 /\ o # 0 /\ d[o].state = "deallocated" /\ d[o].bucket = b
\* CFE_ES_GenPoolCreatePoolBlock: there is room for a new one at the tail.
CanCreate(p, b) == p.tail + DescSize + BucketSizes[b] <= PoolSize

\* Mutant of CanGet: a new block may go over the end of the pool by its descriptor.
CanGetOver(d, p, size) ==
  /\ Fitting(size) # {}
  /\ CanRecycle(d, p, FindBucket(size)) \/ p.tail + BucketSizes[FindBucket(size)] <= PoolSize
CanGet(d, p, size) ==
  /\ Fitting(size) # {}
  /\ CanRecycle(d, p, FindBucket(size)) \/ CanCreate(p, FindBucket(size))
\* Where the block is, with the descriptors and the pool after it has been taken.
GetOffset(d, p, size) ==
  LET b == FindBucket(size) IN IF CanRecycle(d, p, b) THEN p.first[b] ELSE p.tail + DescSize
GetDescs(d, p, size) ==
  [d EXCEPT ![GetOffset(d, p, size)] =
     [state |-> "allocated", bucket |-> FindBucket(size), size |-> size, next |-> 0]]
GetPool(d, p, size) ==
  LET b == FindBucket(size) IN
    IF CanRecycle(d, p, b)
      THEN [p EXCEPT !.first[b] = d[p.first[b]].next, !.waiting[b] = @ - 1]
      ELSE [p EXCEPT !.tail = p.tail + DescSize + BucketSizes[b]]

-----------------------------------------------------------------------------
(* CFE_ES_GenPoolPutBlock, of an offset that IsBlock accepts *)

PutDescs(d, p, o) ==
  [d EXCEPT ![o].state = "deallocated", ![o].next = p.first[d[o].bucket]]
PutPool(d, p, o) ==
  [p EXCEPT !.first[d[o].bucket] = o, !.waiting[d[o].bucket] = @ + 1]

-----------------------------------------------------------------------------
(* CFE_ES_GenPoolRebuild: the pool as it is found in memory after a reset *)

\* The walk from one descriptor to the next, until there is none: where it ends.
WalkFrom(d) ==
  LET end[t \in 0 .. PoolSize] ==
        LET o == t + DescSize IN
          IF o \notin Offsets THEN t
          ELSE IF d[o].state = "none" \/ d[o].size > BucketSizes[d[o].bucket] THEN t
          ELSE IF o + BucketSizes[d[o].bucket] > PoolSize THEN o + BucketSizes[d[o].bucket]
          ELSE end[o + BucketSizes[d[o].bucket]]
  IN end[0]

Below(d, t, b, o) == {q \in Offsets : q < t /\ q < o /\ d[q].state = "deallocated" /\ d[q].bucket = b}
Highest(S)        == IF S = {} THEN 0 ELSE CHOOSE q \in S : \A r \in S : r <= q

\* Each block given back is put on top of the list of its bucket.
RebuiltDescs(d) ==
  [o \in DOMAIN d |-> IF d[o].state = "deallocated" /\ o < WalkFrom(d)
                        THEN [d[o] EXCEPT !.next = Highest(Below(d, WalkFrom(d), d[o].bucket, o))]
                        ELSE d[o]]
RebuiltPool(d) ==
  LET t == WalkFrom(d) IN
    [tail    |-> t,
     first   |-> [b \in Buckets |-> Highest(Below(d, t, b, PoolSize + 1))],
     waiting |-> [b \in Buckets |-> Cardinality(Below(d, t, b, PoolSize + 1))]]

-----------------------------------------------------------------------------
(* What makes a pool sound *)

\* The memory that a block takes, its descriptor included.
Extent(d, o) == (o - DescSize) .. (o + BucketSizes[d[o].bucket] - 1)
Made(d)      == {o \in DOMAIN d : d[o].state # "none"}

\* The blocks that the list of a bucket runs through, and no further than its length.
Chain(d, p, b) ==
  LET at[i \in 0 .. Cardinality(Offsets)] ==
        IF i = 0 THEN p.first[b] ELSE IF at[i - 1] = 0 THEN 0 ELSE d[at[i - 1]].next
  IN {at[i] : i \in DOMAIN at} \ {0}
=============================================================================
